--------------------------- MODULE AbstractDeque ---------------------------
(***************************************************************************)
(* What a work-stealing queue promises its threads: an operation takes     *)
(* effect in one indivisible step between its call and its return.         *)
(*                                                                         *)
(* Items are numbered in the order they were pushed.  The owner takes the  *)
(* newest item of the queue, a thief the oldest one.  The owner is told "empty" only     *)
(* when the queue is empty; a thief may be told "empty" at any time, it    *)
(* then looks elsewhere.                                                   *)
(***************************************************************************)
EXTENDS Integers, FiniteSetsExt

CONSTANTS NumItems, Owner, Thieves

Threads == {Owner} \cup Thieves

VARIABLES
  contents,    \* the items in the queue
  outcome,     \* of each thread's latest call
  taken        \* the items each thread has received

vars == <<contents, outcome, taken>>

Init ==
  /\ contents = 0 .. NumItems - 1
  /\ outcome = [p \in Threads |-> "none"]
  /\ taken = [p \in Threads |-> {}]

Return(p, result) == outcome' = [outcome EXCEPT ![p] = result]

Call(p) ==
  /\ outcome[p] # "pending"
  /\ Return(p, "pending")
  /\ UNCHANGED <<contents, taken>>

Take(p, item) ==
  /\ outcome[p] = "pending"
  /\ contents' = contents \ {item}
  /\ taken' = [taken EXCEPT ![p] = @ \cup {item}]
  /\ Return(p, "item")

TakeNewest == contents # {} /\ Take(Owner, Max(contents))

TakeOldest(p) == contents # {} /\ Take(p, Min(contents))

FindEmpty ==
  /\ contents = {}
  /\ outcome[Owner] = "pending"
  /\ Return(Owner, "empty")
  /\ UNCHANGED <<contents, taken>>

GiveUp(p) ==
  /\ outcome[p] = "pending"
  /\ Return(p, "empty")
  /\ UNCHANGED <<contents, taken>>

Next ==
  \/ \E p \in Threads : Call(p)
  \/ TakeNewest
  \/ FindEmpty
  \/ \E p \in Thieves : TakeOldest(p) \/ GiveUp(p)

Spec == Init /\ [][Next]_vars
============================================================================
