----------------------------- MODULE CellQueue ------------------------------
(***************************************************************************)
(* LockFreeMPMCQueue of include/nerve/streaming/lock_free_streaming.hpp: a *)
(* bounded queue of cells, each with a sequence number that tells whether  *)
(* the cell is free for the enqueue, or filled for the dequeue, of a       *)
(* position.  Every access to an atomic is one step, and so is every       *)
(* access to the data of a cell.                                           *)
(***************************************************************************)
EXTENDS Integers, Sequences

CONSTANTS
  Threads,
  Items,
  None,
  Capacity,      \* capacity_, at least 2
  MaxEnqueues    \* bound: calls of tryEnqueue that get a cell

ASSUME CapacityAssumption == Capacity \in Nat /\ Capacity >= 2
ASSUME NoneAssumption == None \notin Items

VARIABLES
  enqueue_pos, dequeue_pos,
  sequence, data,   \* of each cell
  pc,               \* where each thread is
  pos,              \* its local pos
  item,             \* the argument of tryEnqueue, the local item of tryDequeue
  result,           \* the item its latest tryDequeue returned
  log               \* history: the items in the order of their positions

queueVars == <<enqueue_pos, dequeue_pos, sequence, data>>
vars == <<queueVars, pc, pos, item, result, log>>

Cells   == 0 .. Capacity - 1
Cell(p) == p % Capacity     \* pos & mask_

Init ==
  /\ enqueue_pos = 0 /\ dequeue_pos = 0
  /\ sequence = [c \in Cells |-> c]
  /\ data = [c \in Cells |-> None]
  /\ pc = [t \in Threads |-> "idle"]
  /\ pos = [t \in Threads |-> 0]
  /\ item = [t \in Threads |-> None]
  /\ result = [t \in Threads |-> None]
  /\ log = <<>>

GoTo(t, label) == pc' = [pc EXCEPT ![t] = label]

(* Reads the sequence number of the cell: equal to what the operation      *)
(* expects, behind it (the queue is full, or empty), or ahead of it.       *)
ReadSequence(t, here, expected, cas, reload) ==
  /\ pc[t] = here
  /\ LET seq == sequence[Cell(pos[t])]
     IN  GoTo(t, IF seq = expected THEN cas ELSE IF seq < expected THEN "idle" ELSE reload)
  /\ UNCHANGED <<queueVars, pos, item, result, log>>

(* compare_exchange_weak failed, perhaps for no reason: pos is what the    *)
(* counter holds now.                                                      *)
LoseCas(t, counter, again) ==
  /\ pos' = [pos EXCEPT ![t] = counter]
  /\ GoTo(t, again)
  /\ UNCHANGED <<queueVars, item, result, log>>

Reload(t, here, counter, again) ==
  /\ pc[t] = here
  /\ pos' = [pos EXCEPT ![t] = counter]
  /\ GoTo(t, again)
  /\ UNCHANGED <<queueVars, item, result, log>>

----------------------------------------------------------------------------
(* tryEnqueue.                                                             *)

CallEnqueue(t, x) ==
  /\ pc[t] = "idle"
  /\ item' = [item EXCEPT ![t] = x]
  /\ pos' = [pos EXCEPT ![t] = enqueue_pos]
  /\ GoTo(t, "readFree")
  /\ UNCHANGED <<queueVars, result, log>>

ReadFree(t) == ReadSequence(t, "readFree", pos[t], "casEnqueue", "reloadEnqueue")

ReloadEnqueue(t) == Reload(t, "reloadEnqueue", enqueue_pos, "readFree")

WinEnqueue(t) ==
  /\ pc[t] = "casEnqueue" /\ enqueue_pos = pos[t]
  /\ enqueue_pos < MaxEnqueues
  /\ enqueue_pos' = pos[t] + 1
  /\ log' = Append(log, item[t])
  /\ GoTo(t, "write")
  /\ UNCHANGED <<dequeue_pos, sequence, data, pos, item, result>>

LoseEnqueue(t) == pc[t] = "casEnqueue" /\ LoseCas(t, enqueue_pos, "readFree")

WriteData(t) ==
  /\ pc[t] = "write"
  /\ data' = [data EXCEPT ![Cell(pos[t])] = item[t]]
  /\ GoTo(t, "publish")
  /\ UNCHANGED <<enqueue_pos, dequeue_pos, sequence, pos, item, result, log>>

Publish(t) ==
  /\ pc[t] = "publish"
  /\ sequence' = [sequence EXCEPT ![Cell(pos[t])] = pos[t] + 1]
  /\ GoTo(t, "idle")
  /\ UNCHANGED <<enqueue_pos, dequeue_pos, data, pos, item, result, log>>

----------------------------------------------------------------------------
(* tryDequeue.                                                             *)

CallDequeue(t) ==
  /\ pc[t] = "idle"
  /\ pos' = [pos EXCEPT ![t] = dequeue_pos]
  /\ GoTo(t, "readFilled")
  /\ UNCHANGED <<queueVars, item, result, log>>

ReadFilled(t) == ReadSequence(t, "readFilled", pos[t] + 1, "casDequeue", "reloadDequeue")

ReloadDequeue(t) == Reload(t, "reloadDequeue", dequeue_pos, "readFilled")

(* Mutant of WinDequeue: moves the counter whoever has moved it meanwhile.  *)
WinDequeueByStore(t) ==
  /\ pc[t] = "casDequeue"
  /\ dequeue_pos' = pos[t] + 1
  /\ GoTo(t, "take")
  /\ UNCHANGED <<enqueue_pos, sequence, data, pos, item, result, log>>

WinDequeue(t) ==
  /\ pc[t] = "casDequeue" /\ dequeue_pos = pos[t]
  /\ dequeue_pos' = pos[t] + 1
  /\ GoTo(t, "take")
  /\ UNCHANGED <<enqueue_pos, sequence, data, pos, item, result, log>>

LoseDequeue(t) == pc[t] = "casDequeue" /\ LoseCas(t, dequeue_pos, "readFilled")

TakeData(t) ==
  /\ pc[t] = "take"
  /\ item' = [item EXCEPT ![t] = data[Cell(pos[t])]]
  /\ GoTo(t, "release")
  /\ UNCHANGED <<queueVars, pos, result, log>>

(* Mutant of Release: the cell is left for the next position.              *)
ReleaseToNext(t) ==
  /\ pc[t] = "release"
  /\ sequence' = [sequence EXCEPT ![Cell(pos[t])] = pos[t] + Capacity - 1]
  /\ result' = [result EXCEPT ![t] = item[t]]
  /\ GoTo(t, "idle")
  /\ UNCHANGED <<enqueue_pos, dequeue_pos, data, pos, item, log>>

Release(t) ==
  /\ pc[t] = "release"
  /\ sequence' = [sequence EXCEPT ![Cell(pos[t])] = pos[t] + Capacity]
  /\ result' = [result EXCEPT ![t] = item[t]]
  /\ GoTo(t, "idle")
  /\ UNCHANGED <<enqueue_pos, dequeue_pos, data, pos, item, log>>

----------------------------------------------------------------------------
Enqueue(t) ==
  \/ \E x \in Items : CallEnqueue(t, x)
  \/ ReadFree(t) \/ ReloadEnqueue(t) \/ WinEnqueue(t) \/ LoseEnqueue(t)
  \/ WriteData(t) \/ Publish(t)

Dequeue(t) ==
  \/ CallDequeue(t)
  \/ ReadFilled(t) \/ ReloadDequeue(t) \/ WinDequeue(t) \/ LoseDequeue(t)
  \/ TakeData(t) \/ Release(t)

Next == \E t \in Threads : Enqueue(t) \/ Dequeue(t)

Spec == Init /\ [][Next]_vars

----------------------------------------------------------------------------
(* Properties.                                                             *)

Labels == {"idle", "readFree", "reloadEnqueue", "casEnqueue", "write", "publish",
           "readFilled", "reloadDequeue", "casDequeue", "take", "release"}

(* Types of the variables.                                                 *)
TypeOK ==
  /\ enqueue_pos \in Nat /\ dequeue_pos \in Nat
  /\ sequence \in [Cells -> Nat]
  /\ data \in [Cells -> Items \cup {None}]
  /\ pc \in [Threads -> Labels]
  /\ pos \in [Threads -> Nat]
  /\ item \in [Threads -> Items \cup {None}]
  /\ result \in [Threads -> Items \cup {None}]
  /\ log \in Seq(Items)

(* The queue implements the abstract one: the order is that of the winning *)
(* compare-and-swaps, and a consumer returns exactly the item of the       *)
(* position it won, however long it or the producer of that position takes *)
(* over the data.                                                          *)
Hand == [t \in Threads |-> IF pc[t] \in {"take", "release"} THEN log[pos[t] + 1] ELSE None]

Fifo == INSTANCE AbstractQueue WITH enqueued <- log, taken <- dequeue_pos, hand <- Hand

ImplementsQueue == Fifo!Spec

(* A refused call had a reason: tryEnqueue fails only while the item one   *)
(* lap behind is still in its cell, tryDequeue only while the oldest item  *)
(* has not arrived in its cell yet.                                        *)
RefusalsJustified ==
  [][\A t \in Threads :
       /\ (pc[t] = "readFree" /\ pc'[t] = "idle") =>
            /\ pos[t] = enqueue_pos
            /\ \/ dequeue_pos + Capacity <= pos[t]
               \/ \E u \in Threads : pc[u] \in {"take", "release"} /\ pos[u] + Capacity = pos[t]
       /\ (pc[t] = "readFilled" /\ pc'[t] = "idle") =>
            /\ pos[t] = dequeue_pos
            /\ \/ dequeue_pos = enqueue_pos
               \/ \E u \in Threads : pc[u] \in {"write", "publish"} /\ pos[u] = pos[t]]_vars
=============================================================================
