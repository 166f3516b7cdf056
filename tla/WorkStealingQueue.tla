------------------------- MODULE WorkStealingQueue -------------------------
(***************************************************************************)
(* The Chase-Lev work-stealing queue of the lock-free reducer,             *)
(* WorkStealingQueue<T> in                                                 *)
(* src/persistence/reduction/reduction_lockfree_ops.cpp, load by load and  *)
(* store by store.                                                         *)
(*                                                                         *)
(* The reducer pushes every item before it starts a thread; from then on   *)
(* one owner pops at the bottom and the other workers steal at the top.    *)
(*                                                                         *)
(* bottom_ is written with relaxed stores.  The model gives the owner a    *)
(* store buffer, as an x86 core has: a store to bottom_ waits in           *)
(* storeBuffer and reaches the other threads later, at the latest when the *)
(* owner's sequentially consistent fence or compare-and-swap completes.    *)
(* Thieves write nothing but top_, with a compare-and-swap.                *)
(***************************************************************************)
EXTENDS Integers, Sequences, FiniteSets, FiniteSetsExt, SequencesExt

CONSTANTS
  NumItems,     \* columns pushed onto this queue
  MinCapacity,  \* the constructor's argument
  Owner,        \* the thread that pops
  Thieves       \* the threads that steal

Threads == {Owner} \cup Thieves
Items   == 0 .. NumItems - 1

ASSUME QueueAssumption ==
  /\ NumItems \in Nat
  /\ MinCapacity \in Nat
  /\ Owner \notin Thieves
  /\ IsFiniteSet(Thieves)

(* nextPowerOf2(max(capacity, 2)); mask_ = capacity_ - 1 selects the slot. *)
Capacity == LET n == Max({MinCapacity, 2})
            IN  Min({p \in {2^k : k \in 0 .. n} : p >= n})
Slot(k) == k % Capacity

VARIABLES
  buffer,       \* buffer_, NoItem where nothing was pushed
  top,          \* top_
  bottom,       \* bottom_ as the thieves see it
  storeBuffer,  \* the owner's stores to bottom_ that have not reached them
  pushing,      \* the constructing thread is still pushing
  pc,           \* where each thread is
  b, t,         \* local variables b (of the owner) and t (of each thread)
  item,         \* what a thief has read from the buffer
  outcome,      \* of each thread's latest call
  taken         \* history: the items each thread has received

vars == <<buffer, top, bottom, storeBuffer, pushing, pc, b, t, item, outcome,
          taken>>

NoItem == -1

(* The owner reads its own latest store.                                   *)
OwnBottom == IF storeBuffer = <<>> THEN bottom ELSE Last(storeBuffer)

Init ==
  /\ buffer = [s \in 0 .. Capacity - 1 |-> NoItem]
  /\ top = 0
  /\ bottom = 0
  /\ storeBuffer = <<>>
  /\ pushing = TRUE
  /\ pc = [p \in Threads |-> "idle"]
  /\ b = 0
  /\ t = [p \in Threads |-> 0]
  /\ item = [p \in Threads |-> NoItem]
  /\ outcome = [p \in Threads |-> "none"]
  /\ taken = [p \in Threads |-> {}]

GoTo(p, label) == pc' = [pc EXCEPT ![p] = label]
Return(p, result) == outcome' = [outcome EXCEPT ![p] = result] /\ GoTo(p, "idle")
Receive(p, x) == taken' = [taken EXCEPT ![p] = @ \cup {x}]

----------------------------------------------------------------------------
(* push: refused when the queue is full.  The item pushed at index k is k. *)
Push ==
  /\ pushing
  /\ bottom < NumItems
  /\ bottom - top < Capacity
  /\ buffer' = [buffer EXCEPT ![Slot(bottom)] = bottom]
  /\ bottom' = bottom + 1
  /\ UNCHANGED <<top, storeBuffer, pushing, pc, b, t, item, outcome, taken>>

(* The reducer starts its threads after the last push.                     *)
StartThreads ==
  /\ pushing
  /\ bottom = NumItems
  /\ pushing' = FALSE
  /\ UNCHANGED <<buffer, top, bottom, storeBuffer, pc, b, t, item, outcome, taken>>

----------------------------------------------------------------------------
(* pop, by the owner.                                                      *)

CallPop ==
  /\ ~pushing
  /\ pc[Owner] = "idle"
  /\ outcome' = [outcome EXCEPT ![Owner] = "pending"]
  /\ GoTo(Owner, "pop")
  /\ UNCHANGED <<buffer, top, bottom, storeBuffer, pushing, b, t, item, taken>>

(* Mutant of PopReserve: leaves the last item to the thieves.              *)
PopReserveButLast ==
  /\ pc[Owner] = "pop"
  /\ \/ /\ top + 1 >= OwnBottom
        /\ Return(Owner, "empty")
        /\ UNCHANGED <<b, storeBuffer>>
     \/ /\ top + 1 < OwnBottom
        /\ b' = OwnBottom - 1
        /\ storeBuffer' = Append(storeBuffer, OwnBottom - 1)
        /\ GoTo(Owner, "pop_fence")
        /\ UNCHANGED outcome
  /\ UNCHANGED <<buffer, top, bottom, pushing, t, item, taken>>

(* if (top_.load() >= b) return false; else store b - 1 into bottom_.      *)
PopReserve ==
  /\ pc[Owner] = "pop"
  /\ \/ /\ top >= OwnBottom
        /\ Return(Owner, "empty")
        /\ UNCHANGED <<b, storeBuffer>>
     \/ /\ top < OwnBottom
        /\ b' = OwnBottom - 1
        /\ storeBuffer' = Append(storeBuffer, OwnBottom - 1)
        /\ GoTo(Owner, "pop_fence")
        /\ UNCHANGED outcome
  /\ UNCHANGED <<buffer, top, bottom, pushing, t, item, taken>>

(* Mutant of PopFence: no fence between the store and the load.            *)
PopWithoutFence ==
  /\ pc[Owner] = "pop_fence"
  /\ GoTo(Owner, "pop_read")
  /\ UNCHANGED <<buffer, top, bottom, storeBuffer, pushing, b, t, item, outcome,
                 taken>>

(* atomic_thread_fence(seq_cst): completes when the stores have landed.    *)
PopFence ==
  /\ pc[Owner] = "pop_fence"
  /\ storeBuffer = <<>>
  /\ GoTo(Owner, "pop_read")
  /\ UNCHANGED <<buffer, top, bottom, storeBuffer, pushing, b, t, item, outcome,
                 taken>>

(* t = top_.load(): more than one item, the last one, or none.             *)
PopReadTop ==
  /\ pc[Owner] = "pop_read"
  /\ t' = [t EXCEPT ![Owner] = top]
  /\ \/ /\ top < b
        /\ Receive(Owner, buffer[Slot(b)])
        /\ Return(Owner, "item")
        /\ UNCHANGED storeBuffer
     \/ /\ top = b
        /\ GoTo(Owner, "pop_cas")
        /\ UNCHANGED <<storeBuffer, outcome, taken>>
     \/ /\ top > b
        /\ storeBuffer' = Append(storeBuffer, b + 1)
        /\ Return(Owner, "empty")
        /\ UNCHANGED taken
  /\ UNCHANGED <<buffer, top, bottom, pushing, b, item>>

(* The race for the last item, decided by compare-and-swap on top_.  The   *)
(* owner restores bottom_ whether it wins or loses.                        *)
PopCas ==
  /\ pc[Owner] = "pop_cas"
  /\ storeBuffer = <<>>
  /\ \/ /\ top = t[Owner]
        /\ top' = top + 1
        /\ Receive(Owner, buffer[Slot(b)])
        /\ Return(Owner, "item")
     \/ /\ top # t[Owner]
        /\ Return(Owner, "empty")
        /\ UNCHANGED <<top, taken>>
  /\ storeBuffer' = Append(storeBuffer, b + 1)
  /\ UNCHANGED <<buffer, bottom, pushing, b, t, item>>

(* The oldest waiting store to bottom_ becomes visible to the thieves.     *)
StoreLands ==
  /\ storeBuffer # <<>>
  /\ bottom' = Head(storeBuffer)
  /\ storeBuffer' = Tail(storeBuffer)
  /\ UNCHANGED <<buffer, top, pushing, pc, b, t, item, outcome, taken>>

----------------------------------------------------------------------------
(* steal, by a thief p.                                                    *)

CallSteal(p) ==
  /\ ~pushing
  /\ pc[p] = "idle"
  /\ outcome' = [outcome EXCEPT ![p] = "pending"]
  /\ GoTo(p, "steal")
  /\ UNCHANGED <<buffer, top, bottom, storeBuffer, pushing, b, t, item, taken>>

StealReadTop(p) ==
  /\ pc[p] = "steal"
  /\ t' = [t EXCEPT ![p] = top]
  /\ GoTo(p, "steal_bottom")
  /\ UNCHANGED <<buffer, top, bottom, storeBuffer, pushing, b, item, outcome, taken>>

(* b = bottom_.load(), and buffer_[t & mask_] when the queue has an item.  *)
StealReadBottom(p) ==
  /\ pc[p] = "steal_bottom"
  /\ \/ /\ t[p] < bottom
        /\ item' = [item EXCEPT ![p] = buffer[Slot(t[p])]]
        /\ GoTo(p, "steal_cas")
        /\ UNCHANGED outcome
     \/ /\ t[p] >= bottom
        /\ Return(p, "empty")
        /\ UNCHANGED item
  /\ UNCHANGED <<buffer, top, bottom, storeBuffer, pushing, b, t, taken>>

StealCas(p) ==
  /\ pc[p] = "steal_cas"
  /\ \/ /\ top = t[p]
        /\ top' = top + 1
        /\ Receive(p, item[p])
        /\ Return(p, "item")
     \/ /\ top # t[p]
        /\ Return(p, "empty")
        /\ UNCHANGED <<top, taken>>
  /\ UNCHANGED <<buffer, bottom, storeBuffer, pushing, b, t, item>>

Setup == Push \/ StartThreads
OwnerStep == CallPop \/ PopReserve \/ PopFence \/ PopReadTop \/ PopCas
ThiefStep(p) ==
  CallSteal(p) \/ StealReadTop(p) \/ StealReadBottom(p) \/ StealCas(p)

Next ==
  \/ Setup
  \/ OwnerStep
  \/ StoreLands
  \/ \E p \in Thieves : ThiefStep(p)

(* The owner keeps popping (its worker loop runs until every column is     *)
(* done) and its stores land eventually.  Nothing is asked of the thieves. *)
Fairness == WF_vars(Setup) /\ WF_vars(OwnerStep) /\ WF_vars(StoreLands)

Spec == Init /\ [][Next]_vars /\ Fairness

----------------------------------------------------------------------------
(* Properties.                                                             *)

(* The end of the queue: between the owner's decrement of bottom_ and its  *)
(* decision, item b still belongs to the queue.                            *)
End == IF pc[Owner] \in {"pop_fence", "pop_read", "pop_cas"}
       THEN b + 1
       ELSE OwnBottom

(* The owner sees its queue drained in the end, whatever the thieves do:   *)
(* no item stays behind a bottom_ that was not restored.                   *)
Drained == <>[](UNION {taken[p] : p \in Threads} = Items)

(* Every operation is indivisible, on a queue of the items top .. End-1.   *)
Deque == INSTANCE AbstractDeque WITH
  contents <- IF pushing THEN Items ELSE top .. End - 1

ImplementsDeque == Deque!Spec
============================================================================
