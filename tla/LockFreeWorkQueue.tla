------------------------- MODULE LockFreeWorkQueue -------------------------
(***************************************************************************)
(* LockFreeWorkQueue of                                                    *)
(* src/persistence/reduction/reduction_lock_free_structures_work_queue.cpp *)
(* a Chase-Lev queue whose slots hold a pointer to a heap-allocated task   *)
(* and a flag ready.  In contrast to WorkStealingQueue the owner pushes    *)
(* while others steal, and an item is taken out of its slot only AFTER the *)
(* compare-and-swap on top_ has freed the slot for the next push.          *)
(*                                                                         *)
(* Every atomic access to top_ and to a slot is one step, the accesses     *)
(* taken as sequentially consistent: the delayed stores to bottom_ are the *)
(* subject of WorkStealingQueue, whose fences are the same.                *)
(***************************************************************************)
EXTENDS Integers, FiniteSets

CONSTANTS
  NumTasks,   \* bound: tasks pushed
  Capacity,   \* capacity_, a power of two
  Owner,
  Thieves     \* Owner is none of them

Participants == {Owner} \cup Thieves
Tasks   == 0 .. NumTasks - 1
Slots   == 0 .. Capacity - 1
NoTask  == -1

VARIABLES
  top, bottom,   \* top_, bottom_
  task,          \* task_ptr of each slot
  ready,         \* ready of each slot
  pushed,        \* tasks created so far
  pc,            \* where each thread is
  at,            \* the index a thread works on: its local t, or the owner's b
  seen,          \* the owner's local t in pop
  ran,           \* history: how often each task was handed out
  destroyed      \* history: tasks deleted without having been handed out

queueVars == <<top, bottom, task, ready>>
vars == <<queueVars, pushed, pc, at, seen, ran, destroyed>>

Slot(k) == k % Capacity

Init ==
  /\ top = 0 /\ bottom = 0
  /\ task = [s \in Slots |-> NoTask]
  /\ ready = [s \in Slots |-> FALSE]
  /\ pushed = 0
  /\ pc = [p \in Participants |-> "idle"]
  /\ at = [p \in Participants |-> 0]
  /\ seen = 0
  /\ ran = [x \in Tasks |-> 0]
  /\ destroyed = {}

GoTo(p, label) == pc' = [pc EXCEPT ![p] = label]

(* A thread that has emptied a slot runs what it found there, if anything. *)
HandOut(x) == ran' = IF x = NoTask THEN ran ELSE [ran EXCEPT ![x] = @ + 1]

----------------------------------------------------------------------------
(* push, by the owner.                                                     *)

(* Mutant of PushCheck: one task more than there are slots.                *)
PushCheckLate ==
  /\ pc[Owner] = "idle"
  /\ pushed < NumTasks
  /\ bottom - top <= Capacity
  /\ GoTo(Owner, "pushTask")
  /\ UNCHANGED <<queueVars, pushed, at, seen, ran, destroyed>>

(* A full queue refuses the task, by an exception that changes nothing.    *)
PushCheck ==
  /\ pc[Owner] = "idle"
  /\ pushed < NumTasks
  /\ bottom - top < Capacity
  /\ GoTo(Owner, "pushTask")
  /\ UNCHANGED <<queueVars, pushed, at, seen, ran, destroyed>>

(* task_ptr.exchange(new ...); delete previous.                            *)
PushTask ==
  /\ pc[Owner] = "pushTask"
  /\ LET s == Slot(bottom)
     IN  /\ destroyed' = destroyed \cup ({task[s]} \ {NoTask})
         /\ task' = [task EXCEPT ![s] = pushed]
  /\ pushed' = pushed + 1
  /\ GoTo(Owner, "pushReady")
  /\ UNCHANGED <<top, bottom, ready, at, seen, ran>>

PushReady ==
  /\ pc[Owner] = "pushReady"
  /\ ready' = [ready EXCEPT ![Slot(bottom)] = TRUE]
  /\ GoTo(Owner, "pushBottom")
  /\ UNCHANGED <<top, bottom, task, pushed, at, seen, ran, destroyed>>

PushBottom ==
  /\ pc[Owner] = "pushBottom"
  /\ bottom' = bottom + 1
  /\ GoTo(Owner, "idle")
  /\ UNCHANGED <<top, task, ready, pushed, at, seen, ran, destroyed>>

Push == PushCheck \/ PushTask \/ PushReady \/ PushBottom

----------------------------------------------------------------------------
(* pop, by the owner.                                                      *)

PopReserve ==
  /\ pc[Owner] = "idle"
  /\ top < bottom
  /\ bottom' = bottom - 1
  /\ at' = [at EXCEPT ![Owner] = bottom - 1]
  /\ GoTo(Owner, "popTop")
  /\ UNCHANGED <<top, task, ready, pushed, seen, ran, destroyed>>

PopReadTop ==
  /\ pc[Owner] = "popTop"
  /\ seen' = top
  /\ GoTo(Owner, IF top <= at[Owner] THEN "popReady" ELSE "popRestore")
  /\ UNCHANGED <<queueVars, pushed, at, ran, destroyed>>

(* A slot that is not ready counts as an empty queue.                      *)
PopReady ==
  /\ pc[Owner] = "popReady"
  /\ GoTo(Owner, IF ~ready[Slot(at[Owner])] THEN "popRestore"
                 ELSE IF seen = at[Owner] THEN "popCas" ELSE "popTask")
  /\ UNCHANGED <<queueVars, pushed, at, seen, ran, destroyed>>

(* The last item: compare-and-swap on top_, then bottom_ is restored.      *)
PopCas ==
  /\ pc[Owner] = "popCas"
  /\ \/ /\ top = seen
        /\ top' = top + 1
        /\ bottom' = bottom + 1
        /\ GoTo(Owner, "popTask")
     \/ /\ top # seen
        /\ GoTo(Owner, "popRestore")
        /\ UNCHANGED <<top, bottom>>
  /\ UNCHANGED <<task, ready, pushed, at, seen, ran, destroyed>>

PopRestore ==
  /\ pc[Owner] = "popRestore"
  /\ bottom' = bottom + 1
  /\ GoTo(Owner, "idle")
  /\ UNCHANGED <<top, task, ready, pushed, at, seen, ran, destroyed>>

----------------------------------------------------------------------------
(* Emptying a slot, by the owner or a thief p that won index at[p].        *)

(* Mutant of TakeTask: leaves the pointer in the slot.                     *)
CopyTask(p) ==
  /\ pc[p] = IF p = Owner THEN "popTask" ELSE "stealTask"
  /\ HandOut(task[Slot(at[p])])
  /\ GoTo(p, "clearReady")
  /\ UNCHANGED <<queueVars, pushed, at, seen, destroyed>>

(* task_ptr.exchange(nullptr).                                             *)
TakeTask(p) ==
  /\ pc[p] = IF p = Owner THEN "popTask" ELSE "stealTask"
  /\ HandOut(task[Slot(at[p])])
  /\ task' = [task EXCEPT ![Slot(at[p])] = NoTask]
  /\ GoTo(p, "clearReady")
  /\ UNCHANGED <<top, bottom, ready, pushed, at, seen, destroyed>>

ClearReady(p) ==
  /\ pc[p] = "clearReady"
  /\ ready' = [ready EXCEPT ![Slot(at[p])] = FALSE]
  /\ GoTo(p, "idle")
  /\ UNCHANGED <<top, bottom, task, pushed, at, seen, ran, destroyed>>

----------------------------------------------------------------------------
(* steal, by a thief p.                                                    *)

StealReadTop(p) ==
  /\ pc[p] = "idle"
  /\ at' = [at EXCEPT ![p] = top]
  /\ GoTo(p, "stealBottom")
  /\ UNCHANGED <<queueVars, pushed, seen, ran, destroyed>>

StealReadBottom(p) ==
  /\ pc[p] = "stealBottom"
  /\ GoTo(p, IF at[p] < bottom THEN "stealReady" ELSE "idle")
  /\ UNCHANGED <<queueVars, pushed, at, seen, ran, destroyed>>

StealReady(p) ==
  /\ pc[p] = "stealReady"
  /\ GoTo(p, IF ready[Slot(at[p])] THEN "stealCas" ELSE "idle")
  /\ UNCHANGED <<queueVars, pushed, at, seen, ran, destroyed>>

StealCas(p) ==
  /\ pc[p] = "stealCas"
  /\ \/ /\ top = at[p]
        /\ top' = top + 1
        /\ GoTo(p, "stealTask")
     \/ /\ top # at[p]
        /\ GoTo(p, "idle")
        /\ UNCHANGED top
  /\ UNCHANGED <<bottom, task, ready, pushed, at, seen, ran, destroyed>>

----------------------------------------------------------------------------
Pop == PopReserve \/ PopReadTop \/ PopReady \/ PopCas \/ PopRestore
Steal(p) == StealReadTop(p) \/ StealReadBottom(p) \/ StealReady(p) \/ StealCas(p)

Next ==
  \/ Push
  \/ Pop
  \/ \E p \in Thieves : Steal(p)
  \/ \E p \in Participants : TakeTask(p) \/ ClearReady(p)

Spec == Init /\ [][Next]_vars

----------------------------------------------------------------------------
(* Properties.                                                             *)

(* Every task created is in one slot, or was handed out once, or was       *)
(* destroyed by a push: no race runs a task twice or leaks one.            *)
TasksAccounted ==
  \A x \in 0 .. pushed - 1 :
    Cardinality({s \in Slots : task[s] = x}) + ran[x] + (IF x \in destroyed THEN 1 ELSE 0) = 1

(* A push destroys a task only when a thread that has won the slot with    *)
(* its compare-and-swap has not exchanged the pointer yet: a task no       *)
(* thread lags behind with is never lost.                                  *)
OnlyPendingDestroyed ==
  [][\A x \in destroyed' \ destroyed :
       \E p \in Participants : pc[p] \in {"popTask", "stealTask"} /\ task[Slot(at[p])] = x]_vars
============================================================================
