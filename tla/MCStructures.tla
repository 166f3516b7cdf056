---------------------------- MODULE MCStructures ----------------------------
(***************************************************************************)
(* Instances for TLC of structures that threads share, and that nothing in *)
(* the code connects: the queue of cells, the building blocks of the       *)
(* lock-free reductions and the feature cache.  They are checked side by   *)
(* side: a behaviour picks one of them, and the others stay as they were   *)
(* built.                                                                  *)
(***************************************************************************)
EXTENDS CellQueue

CONSTANTS
  Pivots, Columns, Probe,           \* of the pivot table
  NumTasks, Owner, Thieves,         \* of the work queue
  NumThreads, NumColumns, MaxClaims, \* of the coordinator
  Symbols, MaxEntries, MaxPuts      \* of the feature cache

VARIABLES
  subject,                          \* what the behaviour is of
  slotPivot, slotColumn, slotOccupied, tablePc, pivot, column, probe, answer,
  inserted, promised,
  top, bottom, task, ready, pushed, queuePc, at, seen, ran, destroyed,
  next_column, num_reduced, reduced_flags, announcements, call, standing,
  entries, size, head, sweep, puts, stored, gone, evictions

tableVars       == <<slotPivot, slotColumn, slotOccupied, tablePc, pivot, column, probe,
                     answer, inserted, promised>>
workQueueVars   == <<top, bottom, task, ready, pushed, queuePc, at, seen, ran, destroyed>>
coordinatorVars == <<next_column, num_reduced, reduced_flags, announcements, call, standing>>
cacheVars       == <<entries, size, head, sweep, puts, stored, gone, evictions>>

(* Pivots 0 and 1 share their first slot, pivot 2 starts at the other.     *)
TwoSlots == [p \in Pivots |-> [k \in 0 .. Capacity - 1 |-> (p \div 2 + k) % Capacity]]

Table       == INSTANCE PivotTable WITH
                 Nothing <- None, pc <- tablePc, result <- answer
WorkQueue   == INSTANCE LockFreeWorkQueue WITH pc <- queuePc
Coordinator == INSTANCE ReductionCoordinator
Cache       == INSTANCE FeatureCache

AllInit ==
  /\ subject \in {"cells", "table", "work queue", "coordinator", "cache"}
  /\ Init /\ Table!Init /\ WorkQueue!Init /\ Coordinator!Init /\ Cache!Init

AllNext ==
  /\ UNCHANGED subject
  /\ \/ /\ subject = "cells" /\ Next
        /\ UNCHANGED <<tableVars, workQueueVars, coordinatorVars, cacheVars>>
     \/ /\ subject = "table" /\ Table!Next
        /\ UNCHANGED <<vars, workQueueVars, coordinatorVars, cacheVars>>
     \/ /\ subject = "work queue" /\ WorkQueue!Next
        /\ UNCHANGED <<vars, tableVars, coordinatorVars, cacheVars>>
     \/ /\ subject = "coordinator" /\ Coordinator!Next
        /\ UNCHANGED <<vars, tableVars, workQueueVars, cacheVars>>
     \/ /\ subject = "cache" /\ Cache!Next
        /\ UNCHANGED <<vars, tableVars, workQueueVars, coordinatorVars>>

AllVars == <<subject, vars, tableVars, workQueueVars, coordinatorVars, cacheVars>>

AllSpec == AllInit /\ [][AllNext]_AllVars

(* Pivot table: racing inserts never give a pivot two slots or columns.    *)
OneSlotPerPivot == Table!OneSlotPerPivot

(* Pivot table: what was inserted before a find began is found.            *)
InsertedIsFound == Table!InsertedIsFound

(* Work queue: a task runs once or is destroyed, and none is leaked.       *)
TasksAccounted == WorkQueue!TasksAccounted

(* Work queue: a push destroys only what a thief lags behind with.         *)
OnlyPendingDestroyed == WorkQueue!OnlyPendingDestroyed

(* Coordinator: columns marked by several threads at once count once.      *)
ReducedCountExact == Coordinator!ReducedCountExact

(* Coordinator: a scan that finds nobody on a pivot tells the truth.       *)
NobodyIsTrue == Coordinator!NobodyIsTrue

(* Feature cache: what an eviction has taken out never comes back.         *)
EvictedStaysAway == Cache!EvictedStaysAway

=============================================================================
