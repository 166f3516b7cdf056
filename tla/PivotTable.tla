----------------------------- MODULE PivotTable -----------------------------
(***************************************************************************)
(* LockFreePivotTable of                                                   *)
(* src/persistence/reduction/reduction_lock_free_structures_pivot.cpp:     *)
(* an open-addressing hash table that threads fill with compare-and-swap   *)
(* while others look pivots up.  Every atomic access is one step.          *)
(*                                                                         *)
(* A slot is claimed by its pivot; the column and the flag occupied follow *)
(* in two stores of their own.  Nothing is ever removed.                   *)
(***************************************************************************)
EXTENDS Integers

CONSTANTS
  Threads,
  Pivots,
  Columns,
  Capacity,   \* table_.size()
  Probe,      \* Probe[p][k]: the slot that probe k for pivot p looks at,
              \*   (hash(p) + k) & (size - 1), which visits each slot once
  Nothing     \* the -1 of the code: no pivot, no column

Probes == 0 .. Capacity - 1
Slots  == Probes

VARIABLES
  slotPivot,      \* entry.pivot of each slot
  slotColumn,     \* entry.column
  slotOccupied,   \* entry.occupied
  pc,             \* where each thread is
  pivot, column,  \* the arguments of its call
  probe,          \* its loop variable
  result,         \* what its latest call returned
  inserted,       \* history: inserted[p] is the column of the tryInsert of p
                  \*   that returned true
  promised        \* history: what inserted was when a find began

tableVars == <<slotPivot, slotColumn, slotOccupied>>
vars == <<tableVars, pc, pivot, column, probe, result, inserted, promised>>

Init ==
  /\ slotPivot = [s \in Slots |-> Nothing]
  /\ slotColumn = [s \in Slots |-> Nothing]
  /\ slotOccupied = [s \in Slots |-> FALSE]
  /\ pc = [t \in Threads |-> "idle"]
  /\ pivot = [t \in Threads |-> Nothing]
  /\ column = [t \in Threads |-> Nothing]
  /\ probe = [t \in Threads |-> 0]
  /\ result = [t \in Threads |-> "none"]
  /\ inserted = [p \in Pivots |-> Nothing]
  /\ promised = [t \in Threads |-> Nothing]

(* pos = (idx + probe) & (table_.size() - 1).                              *)
Slot(t) == Probe[pivot[t]][probe[t]]

GoTo(t, label) == pc' = [pc EXCEPT ![t] = label]
Return(t, r) == GoTo(t, "idle") /\ result' = [result EXCEPT ![t] = r]

(* The next probe, or the end of the loop.                                 *)
ProbeOn(t, label, failure) ==
  \/ /\ probe[t] + 1 < Capacity
     /\ probe' = [probe EXCEPT ![t] = @ + 1]
     /\ GoTo(t, label)
     /\ UNCHANGED result
  \/ /\ probe[t] + 1 = Capacity
     /\ Return(t, failure)
     /\ UNCHANGED probe

----------------------------------------------------------------------------
(* tryInsert.                                                              *)

CallInsert(t, p, c) ==
  /\ pc[t] = "idle"
  /\ pivot' = [pivot EXCEPT ![t] = p]
  /\ column' = [column EXCEPT ![t] = c]
  /\ probe' = [probe EXCEPT ![t] = 0]
  /\ GoTo(t, "load")
  /\ UNCHANGED <<tableVars, result, inserted, promised>>

LoadPivot(t) ==
  /\ pc[t] = "load"
  /\ \/ /\ slotPivot[Slot(t)] = pivot[t]
        /\ Return(t, "exists")
        /\ UNCHANGED probe
     \/ /\ slotPivot[Slot(t)] \notin {pivot[t], Nothing}
        /\ ProbeOn(t, "load", "full")
     \/ /\ slotPivot[Slot(t)] = Nothing
        /\ GoTo(t, "cas")
        /\ UNCHANGED <<probe, result>>
  /\ UNCHANGED <<tableVars, pivot, column, inserted, promised>>

(* Mutant of CasPivot: does not look again who won the slot.               *)
CasPivotBlindly(t) ==
  /\ pc[t] = "cas"
  /\ \/ /\ slotPivot[Slot(t)] = Nothing
        /\ slotPivot' = [slotPivot EXCEPT ![Slot(t)] = pivot[t]]
        /\ GoTo(t, "column")
        /\ UNCHANGED <<probe, result>>
     \/ /\ slotPivot[Slot(t)] # Nothing
        /\ ProbeOn(t, "load", "full")
        /\ UNCHANGED slotPivot
  /\ UNCHANGED <<slotColumn, slotOccupied, pivot, column, inserted, promised>>

(* compare_exchange_strong; a lost race for the same pivot is a duplicate. *)
CasPivot(t) ==
  /\ pc[t] = "cas"
  /\ \/ /\ slotPivot[Slot(t)] = Nothing
        /\ slotPivot' = [slotPivot EXCEPT ![Slot(t)] = pivot[t]]
        /\ GoTo(t, "column")
        /\ UNCHANGED <<probe, result>>
     \/ /\ slotPivot[Slot(t)] = pivot[t]
        /\ Return(t, "exists")
        /\ UNCHANGED <<slotPivot, probe>>
     \/ /\ slotPivot[Slot(t)] \notin {pivot[t], Nothing}
        /\ ProbeOn(t, "load", "full")
        /\ UNCHANGED slotPivot
  /\ UNCHANGED <<slotColumn, slotOccupied, pivot, column, inserted, promised>>

StoreColumn(t) ==
  /\ pc[t] = "column"
  /\ slotColumn' = [slotColumn EXCEPT ![Slot(t)] = column[t]]
  /\ GoTo(t, "occupied")
  /\ UNCHANGED <<slotPivot, slotOccupied, pivot, column, probe, result, inserted, promised>>

StoreOccupied(t) ==
  /\ pc[t] = "occupied"
  /\ slotOccupied' = [slotOccupied EXCEPT ![Slot(t)] = TRUE]
  /\ GoTo(t, "inserted")
  /\ UNCHANGED <<slotPivot, slotColumn, pivot, column, probe, result, inserted, promised>>

(* size_.fetch_add(1); return true.                                        *)
ReturnInserted(t) ==
  /\ pc[t] = "inserted"
  /\ inserted' = [inserted EXCEPT ![pivot[t]] = column[t]]
  /\ Return(t, "inserted")
  /\ UNCHANGED <<tableVars, pivot, column, probe, promised>>

----------------------------------------------------------------------------
(* find.                                                                   *)

CallFind(t, p) ==
  /\ pc[t] = "idle"
  /\ pivot' = [pivot EXCEPT ![t] = p]
  /\ column' = [column EXCEPT ![t] = Nothing]
  /\ probe' = [probe EXCEPT ![t] = 0]
  /\ promised' = [promised EXCEPT ![t] = inserted[p]]
  /\ GoTo(t, "findPivot")
  /\ UNCHANGED <<tableVars, result, inserted>>

(* Mutant of FindPivot: gives up at the first foreign pivot.               *)
FindPivotOnce(t) ==
  /\ pc[t] = "findPivot"
  /\ \/ /\ slotPivot[Slot(t)] # pivot[t]
        /\ Return(t, "absent")
     \/ /\ slotPivot[Slot(t)] = pivot[t]
        /\ GoTo(t, "findOccupied")
        /\ UNCHANGED result
  /\ UNCHANGED <<tableVars, pivot, column, probe, inserted, promised>>

FindPivot(t) ==
  /\ pc[t] = "findPivot"
  /\ \/ /\ slotPivot[Slot(t)] = Nothing
        /\ Return(t, "absent")
        /\ UNCHANGED probe
     \/ /\ slotPivot[Slot(t)] = pivot[t]
        /\ GoTo(t, "findOccupied")
        /\ UNCHANGED <<probe, result>>
     \/ /\ slotPivot[Slot(t)] \notin {pivot[t], Nothing}
        /\ ProbeOn(t, "findPivot", "absent")
  /\ UNCHANGED <<tableVars, pivot, column, inserted, promised>>

(* A slot that is claimed but not occupied yet is probed past.             *)
FindOccupied(t) ==
  /\ pc[t] = "findOccupied"
  /\ \/ /\ slotOccupied[Slot(t)]
        /\ GoTo(t, "findColumn")
        /\ UNCHANGED <<probe, result>>
     \/ /\ ~slotOccupied[Slot(t)]
        /\ ProbeOn(t, "findPivot", "absent")
  /\ UNCHANGED <<tableVars, pivot, column, inserted, promised>>

FindColumn(t) ==
  /\ pc[t] = "findColumn"
  /\ column' = [column EXCEPT ![t] = slotColumn[Slot(t)]]
  /\ Return(t, "found")
  /\ UNCHANGED <<tableVars, pivot, probe, inserted, promised>>

----------------------------------------------------------------------------
Call(t) ==
  \/ \E p \in Pivots, c \in Columns : CallInsert(t, p, c)
  \/ \E p \in Pivots : CallFind(t, p)

Insert(t) ==
  LoadPivot(t) \/ CasPivot(t) \/ StoreColumn(t) \/ StoreOccupied(t) \/ ReturnInserted(t)

Find(t) == FindPivot(t) \/ FindOccupied(t) \/ FindColumn(t)

Next == \E t \in Threads : Call(t) \/ Insert(t) \/ Find(t)

Spec == Init /\ [][Next]_vars

----------------------------------------------------------------------------
(* Properties.                                                             *)

Labels == {"idle", "load", "cas", "column", "occupied", "inserted",
           "findPivot", "findOccupied", "findColumn"}

(* Types of the variables.                                                 *)
TypeOK ==
  /\ slotPivot \in [Slots -> Pivots \cup {Nothing}]
  /\ slotColumn \in [Slots -> Columns \cup {Nothing}]
  /\ slotOccupied \in [Slots -> BOOLEAN]
  /\ pc \in [Threads -> Labels]
  /\ pivot \in [Threads -> Pivots \cup {Nothing}]
  /\ column \in [Threads -> Columns \cup {Nothing}]
  /\ probe \in [Threads -> Probes]
  /\ result \in [Threads -> {"none", "exists", "full", "inserted", "absent", "found"}]
  /\ inserted \in [Pivots -> Columns \cup {Nothing}]
  /\ promised \in [Threads -> Columns \cup {Nothing}]
  /\ \A t \in Threads : pc[t] # "idle" => pivot[t] \in Pivots

(* However inserts race, a pivot never gets two slots, nor two columns:    *)
(* of all tryInsert of one pivot exactly one writes.                       *)
OneSlotPerPivot ==
  /\ \A s, r \in Slots : (slotPivot[s] = slotPivot[r] /\ slotPivot[s] # Nothing) => s = r
  /\ \A t, u \in Threads :
       (/\ pc[t] \in {"column", "occupied", "inserted"}
        /\ pc[u] \in {"column", "occupied", "inserted"}
        /\ pivot[t] = pivot[u]) => t = u

(* A find that began after tryInsert had returned true finds the column    *)
(* of that insert, and no find ever returns another column: neither the    *)
(* probing past a half-written slot nor the probing past foreign pivots    *)
(* loses an entry.                                                         *)
InsertedIsFound ==
  \A t \in Threads :
    /\ (pc[t] = "idle" /\ result[t] = "absent") => promised[t] = Nothing
    /\ (pc[t] = "idle" /\ result[t] = "found") =>
         /\ column[t] # Nothing
         /\ promised[t] # Nothing => column[t] = promised[t]
         /\ inserted[pivot[t]] # Nothing => column[t] = inserted[pivot[t]]
============================================================================
