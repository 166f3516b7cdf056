------------------------ MODULE ReductionCoordinator ------------------------
(***************************************************************************)
(* LockFreeReductionCoordinator and LockFreePivotAnnounce of               *)
(* src/persistence/reduction: threads claim columns, announce the pivot    *)
(* they work on, mark columns as reduced and ask who works on a pivot.     *)
(* Any thread may call any operation in any order; every access to an      *)
(* atomic is one step.                                                     *)
(***************************************************************************)
EXTENDS Integers, FiniteSets

CONSTANTS
  NumThreads,   \* announcements_.size()
  NumColumns,   \* total_columns_
  Pivots,
  None,         \* the -1 of the code
  MaxClaims     \* bound: calls of claimColumn

ThreadIds == 0 .. NumThreads - 1
ColumnIds == 0 .. NumColumns - 1

VARIABLES
  next_column, num_reduced, reduced_flags,
  announcements,
  call,        \* what each thread is inside of
  standing     \* history: the threads that have announced the pivot that
               \*   a scan looks for ever since the scan began

vars == <<next_column, num_reduced, reduced_flags, announcements, call, standing>>

Idle == [op |-> "idle"]
Return(t) == call' = [call EXCEPT ![t] = Idle]

Init ==
  /\ next_column = 0 /\ num_reduced = 0
  /\ reduced_flags = [c \in ColumnIds |-> FALSE]
  /\ announcements = [t \in ThreadIds |-> None]
  /\ call = [t \in ThreadIds |-> Idle]
  /\ standing = [t \in ThreadIds |-> {}]

(* fetch_add comes first, so next_column_ grows past the last column.      *)
ClaimColumn(t) ==
  /\ call[t] = Idle
  /\ next_column < MaxClaims
  /\ next_column' = next_column + 1
  /\ UNCHANGED <<num_reduced, reduced_flags, announcements, call, standing>>

(* Mutant of TestAndSet: sets the flag without asking what it was.         *)
SetFlag(t, c) ==
  /\ call[t] = Idle
  /\ reduced_flags' = [reduced_flags EXCEPT ![c] = TRUE]
  /\ call' = [call EXCEPT ![t] = [op |-> "count"]]
  /\ UNCHANGED <<next_column, num_reduced, announcements, standing>>

(* markReduced, of any column: only the call that finds the flag clear     *)
(* goes on to count it.                                                    *)
TestAndSet(t, c) ==
  /\ call[t] = Idle
  /\ reduced_flags' = [reduced_flags EXCEPT ![c] = TRUE]
  /\ call' = IF reduced_flags[c] THEN call ELSE [call EXCEPT ![t] = [op |-> "count"]]
  /\ UNCHANGED <<next_column, num_reduced, announcements, standing>>

CountReduced(t) ==
  /\ call[t].op = "count"
  /\ num_reduced' = num_reduced + 1
  /\ Return(t)
  /\ UNCHANGED <<next_column, reduced_flags, announcements, standing>>

(* announce, and clear when p is None; both store one slot.                *)
Announce(t, p) ==
  /\ call[t] = Idle
  /\ announcements' = [announcements EXCEPT ![t] = p]
  /\ standing' = [s \in ThreadIds |->
       IF call[s].op = "scan" /\ call[s].pivot # p THEN standing[s] \ {t} ELSE standing[s]]
  /\ UNCHANGED <<next_column, num_reduced, reduced_flags, call>>

(* isBeingWorkedOn.                                                        *)
StartScan(t, p) ==
  /\ call[t] = Idle
  /\ call' = [call EXCEPT ![t] = [op |-> "scan", pivot |-> p, slot |-> 0]]
  /\ standing' = [standing EXCEPT ![t] = {u \in ThreadIds : announcements[u] = p}]
  /\ UNCHANGED <<next_column, num_reduced, reduced_flags, announcements>>

(* Mutant of ScanSlot: the last slot is not looked at.                     *)
ScanSlotButLast(t) ==
  /\ call[t].op = "scan"
  /\ \/ /\ announcements[call[t].slot] = call[t].pivot
        /\ Return(t)
     \/ /\ announcements[call[t].slot] # call[t].pivot
        /\ call' = IF call[t].slot + 1 < NumThreads - 1
                   THEN [call EXCEPT ![t].slot = @ + 1]
                   ELSE [call EXCEPT ![t] = [op |-> "nobody"]]
  /\ UNCHANGED <<next_column, num_reduced, reduced_flags, announcements, standing>>

ScanSlot(t) ==
  /\ call[t].op = "scan"
  /\ \/ /\ announcements[call[t].slot] = call[t].pivot
        /\ Return(t)
     \/ /\ announcements[call[t].slot] # call[t].pivot
        /\ call' = IF call[t].slot + 1 < NumThreads
                   THEN [call EXCEPT ![t].slot = @ + 1]
                   ELSE [call EXCEPT ![t] = [op |-> "nobody"]]
  /\ UNCHANGED <<next_column, num_reduced, reduced_flags, announcements, standing>>

(* The scan returns false.                                                 *)
ReturnNobody(t) ==
  /\ call[t].op = "nobody"
  /\ Return(t)
  /\ UNCHANGED <<next_column, num_reduced, reduced_flags, announcements, standing>>

Next == \E t \in ThreadIds :
  \/ ClaimColumn(t)
  \/ \E c \in ColumnIds : TestAndSet(t, c)
  \/ CountReduced(t)
  \/ \E p \in Pivots \cup {None} : Announce(t, p)
  \/ \E p \in Pivots : StartScan(t, p)
  \/ ScanSlot(t)
  \/ ReturnNobody(t)

Spec == Init /\ [][Next]_vars

(* num_reduced_ never runs ahead of the flags, even when a column is       *)
(* marked by several threads at once: allReduced is never true early, and  *)
(* a call that has not counted yet is all that can hold it back.           *)
ReducedCountExact ==
  num_reduced + Cardinality({t \in ThreadIds : call[t].op = "count"})
    = Cardinality({c \in ColumnIds : reduced_flags[c]})

(* isBeingWorkedOn answers false only when no thread has announced the     *)
(* pivot throughout the scan.                                              *)
NobodyIsTrue == \A t \in ThreadIds : call[t].op = "nobody" => standing[t] = {}
=============================================================================
