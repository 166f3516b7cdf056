--------------------------- MODULE AbstractQueue ----------------------------
(***************************************************************************)
(* What a queue of many producers and consumers promises: items leave in   *)
(* the order they entered, each once.  A consumer first takes the oldest   *)
(* item and later returns it.                                              *)
(***************************************************************************)
EXTENDS Naturals, Sequences

CONSTANTS Threads, Items, None

VARIABLES
  enqueued,   \* every item that ever entered, in order
  taken,      \* how many of them have left
  hand,       \* the item a consumer has taken and not returned yet
  result      \* the item its latest call returned

vars == <<enqueued, taken, hand, result>>

Init ==
  /\ enqueued = <<>> /\ taken = 0
  /\ hand = [t \in Threads |-> None]
  /\ result = [t \in Threads |-> None]

Enqueue ==
  /\ \E x \in Items : enqueued' = Append(enqueued, x)
  /\ UNCHANGED <<taken, hand, result>>

Take(t) ==
  /\ taken < Len(enqueued) /\ hand[t] = None
  /\ hand' = [hand EXCEPT ![t] = enqueued[taken + 1]]
  /\ taken' = taken + 1
  /\ UNCHANGED <<enqueued, result>>

Return(t) ==
  /\ hand[t] # None
  /\ result' = [result EXCEPT ![t] = hand[t]]
  /\ hand' = [hand EXCEPT ![t] = None]
  /\ UNCHANGED <<enqueued, taken>>

Next == Enqueue \/ \E t \in Threads : Take(t) \/ Return(t)

Spec == Init /\ [][Next]_vars
=============================================================================
