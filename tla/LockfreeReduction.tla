------------------------- MODULE LockfreeReduction -------------------------
(***************************************************************************)
(* The lock-free parallel reducer of boundary matrices,                    *)
(* reduceMatrixLockfreeProfiled in                                         *)
(* src/persistence/reduction/reduction_lockfree_ops.cpp.                   *)
(*                                                                         *)
(* The main thread copies the matrix, pre-credits the empty columns and    *)
(* pushes the others round-robin onto one work-stealing queue per thread   *)
(* (phase "setup").  The workers pop their own queue from the bottom or    *)
(* steal from the top of another one, and reduce the column they got:      *)
(* they add the column that owns its pivot while that owner has a smaller  *)
(* index, and claim the pivot by compare-and-swap otherwise, which may     *)
(* take it away from a column with a larger index (phase "workers").       *)
(* After the join the main thread re-reduces the columns whose pivot was   *)
(* taken (phase "postpass") and reads the pairs off.                       *)
(*                                                                         *)
(* One step is one access to shared state.  A queue operation is one step  *)
(* here; module WorkStealingQueue models its loads, stores and             *)
(* compare-and-swaps, and shows that they implement this one step.         *)
(***************************************************************************)
EXTENDS Z2Columns

CONSTANTS
  NumColumns,           \* n_columns, boundary_matrix.size()
  NumRows,              \* an upper bound of n_rows
  NumThreads,           \* num_threads, after the <= 0 default was applied
  NumFiltrationValues,  \* filtration_values.size()
  Inputs                \* the boundary matrices of the instance

Columns == 0 .. NumColumns - 1
Rows    == 0 .. NumRows - 1
Threads == 0 .. NumThreads - 1

ASSUME SizesAssumption ==
  /\ NumColumns \in Nat
  /\ NumRows \in Nat
  /\ NumThreads \in Nat \ {0}
  /\ NumFiltrationValues \in Nat

(* An input whose columns are all empty has n_rows = 0 and the code        *)
(* returns no pairs before it starts a thread.                             *)
ASSUME InputsAssumption ==
  /\ Inputs \subseteq [Columns -> SUBSET Rows]
  /\ \A m \in Inputs : \E c \in Columns : m[c] # {}

Unclaimed == -1
NoColumn  == -1

VARIABLES
  boundary,         \* boundary_matrix, never written
  indices,          \* columns[c].indices
  reduced,          \* columns[c].reduced
  pivot_to_column,  \* the shared pivot table
  buffer, top, bottom,   \* work_queues[t]: items, index of the oldest, end
  completed,        \* completed_columns
  phase,            \* where the main thread is
  next,             \* loop variable i of the main thread's loops
  pc,               \* where each worker is
  column_idx,       \* the column a worker has taken
  current,          \* the pivot owner a worker has loaded
  victim,           \* loop variable i of a worker's scan for work
  pivot_map,        \* post-pass copy of the pivot table
  col_copy, iter,   \* working column and iteration of one cascade
  pairs             \* <<pivot row, column>> of each reported pair

workerVars == <<pc, column_idx, current, victim>>
queueVars  == <<buffer, top, bottom>>
mainVars   == <<pivot_map, col_copy, iter, pairs>>
vars == <<boundary, indices, reduced, pivot_to_column, queueVars, completed,
          phase, next, workerVars, mainVars>>

(* ReductionColumn::pivot always equals getPivot() of its indices.         *)
Pivot(c) == Low(indices[c])

(* isApparentPair: the largest facet of death is birth and the first       *)
(* cofacet of birth is death, both in the ORIGINAL matrix.                 *)
IsApparentPair(birth, death) ==
  /\ Low(boundary[death]) = birth
  /\ Cofacets(boundary, birth) # {}
  /\ Min(Cofacets(boundary, birth)) = death

(* The capacity of each queue: ceil(n / threads) + 1, at least 2, rounded  *)
(* up to a power of two.                                                   *)
RoundUpToPowerOf2(n) == Min({p \in {2^k : k \in 0 .. n} : p >= n})
QueueCapacity ==
  RoundUpToPowerOf2(Max({(NumColumns + NumThreads - 1) \div NumThreads + 1, 2}))

----------------------------------------------------------------------------
Init ==
  /\ boundary \in Inputs
  /\ indices = boundary
  /\ reduced = [c \in Columns |-> FALSE]
  /\ pivot_to_column = [r \in Rows |-> Unclaimed]
  /\ buffer = [t \in Threads |-> [k \in Columns |-> NoColumn]]
  /\ top = [t \in Threads |-> 0]
  /\ bottom = [t \in Threads |-> 0]
  /\ completed = 0
  /\ phase = "setup"
  /\ next = 0
  /\ pc = [t \in Threads |-> "start"]
  /\ column_idx = [t \in Threads |-> NoColumn]
  /\ current = [t \in Threads |-> Unclaimed]
  /\ victim = [t \in Threads |-> 0]
  /\ pivot_map = [r \in Rows |-> Unclaimed]
  /\ col_copy = {}
  /\ iter = 0
  /\ pairs = {}

----------------------------------------------------------------------------
(* Phase "setup": distribute the columns.                                  *)

(* An empty column is already reduced and is credited as completed.        *)
CreditEmptyColumn ==
  /\ phase = "setup" /\ next < NumColumns
  /\ Pivot(next) = NoPivot
  /\ reduced' = [reduced EXCEPT ![next] = TRUE]
  /\ completed' = completed + 1
  /\ next' = next + 1
  /\ UNCHANGED <<boundary, indices, pivot_to_column, queueVars, phase,
                 workerVars, mainVars>>

(* WorkStealingQueue::push of column next onto queue next % num_threads.   *)
PushColumn ==
  /\ phase = "setup" /\ next < NumColumns
  /\ Pivot(next) # NoPivot
  /\ LET q == next % NumThreads IN
       /\ bottom[q] - top[q] < QueueCapacity
       /\ buffer' = [buffer EXCEPT ![q][bottom[q]] = next]
       /\ bottom' = [bottom EXCEPT ![q] = @ + 1]
  /\ next' = next + 1
  /\ UNCHANGED <<boundary, indices, reduced, pivot_to_column, top, completed,
                 phase, workerVars, mainVars>>

LaunchWorkers ==
  /\ phase = "setup" /\ next = NumColumns
  /\ phase' = "workers"
  /\ pc' = [t \in Threads |-> "check"]
  /\ UNCHANGED <<boundary, indices, reduced, pivot_to_column, queueVars,
                 completed, next, column_idx, current, victim, mainVars>>

----------------------------------------------------------------------------
(* Phase "workers".  GoTo(t, l) moves worker t to label l.                 *)

GoTo(t, label) == pc' = [pc EXCEPT ![t] = label]

(* Mutant of CheckCompleted: leaves when one column is still outstanding.  *)
CheckAlmostCompleted(t) ==
  /\ pc[t] = "check"
  /\ GoTo(t, IF completed + 1 < NumColumns THEN "pop" ELSE "exit")
  /\ UNCHANGED <<boundary, indices, reduced, pivot_to_column, queueVars,
                 completed, phase, next, column_idx, current, victim, mainVars>>

(* while (completed_columns.load() < total_columns)                        *)
CheckCompleted(t) ==
  /\ pc[t] = "check"
  /\ GoTo(t, IF completed < NumColumns THEN "pop" ELSE "exit")
  /\ UNCHANGED <<boundary, indices, reduced, pivot_to_column, queueVars,
                 completed, phase, next, column_idx, current, victim, mainVars>>

(* my_queue.pop: the newest item, or the start of a scan for work.         *)
PopOwn(t) ==
  /\ pc[t] = "pop"
  /\ \/ /\ top[t] < bottom[t]
        /\ bottom' = [bottom EXCEPT ![t] = @ - 1]
        /\ column_idx' = [column_idx EXCEPT ![t] = buffer[t][bottom[t] - 1]]
        /\ GoTo(t, "begin")
        /\ UNCHANGED victim
     \/ /\ top[t] >= bottom[t]
        /\ victim' = [victim EXCEPT ![t] = 0]
        /\ GoTo(t, "steal")
        /\ UNCHANGED <<bottom, column_idx>>
  /\ UNCHANGED <<boundary, indices, reduced, pivot_to_column, buffer, top,
                 completed, phase, next, current, mainVars>>

(* Mutant of Steal: takes the item and leaves top_ where it was.           *)
StealWithoutCas(t) ==
  /\ pc[t] = "steal"
  /\ victim[t] < NumThreads /\ victim[t] # t
  /\ LET v == victim[t] IN
       /\ top[v] < bottom[v]
       /\ column_idx' = [column_idx EXCEPT ![t] = buffer[v][top[v]]]
  /\ GoTo(t, "begin")
  /\ UNCHANGED <<boundary, indices, reduced, pivot_to_column, queueVars,
                 completed, phase, next, current, victim, mainVars>>

(* work_queues[i].steal succeeds: the oldest item of the victim.           *)
Steal(t) ==
  /\ pc[t] = "steal"
  /\ victim[t] < NumThreads /\ victim[t] # t
  /\ LET v == victim[t] IN
       /\ top[v] < bottom[v]
       /\ top' = [top EXCEPT ![v] = @ + 1]
       /\ column_idx' = [column_idx EXCEPT ![t] = buffer[v][top[v]]]
  /\ GoTo(t, "begin")
  /\ UNCHANGED <<boundary, indices, reduced, pivot_to_column, buffer, bottom,
                 completed, phase, next, current, victim, mainVars>>

(* The scan goes on: the victim is the thief itself, its queue is empty,   *)
(* or the compare-and-swap on its top lost a race (which the thief cannot  *)
(* tell from empty, so this step asks nothing of the victim's queue).      *)
ScanOn(t) ==
  /\ pc[t] = "steal"
  /\ victim[t] < NumThreads
  /\ victim' = [victim EXCEPT ![t] = @ + 1]
  /\ UNCHANGED <<boundary, indices, reduced, pivot_to_column, queueVars,
                 completed, phase, next, pc, column_idx, current, mainVars>>

(* No work anywhere: pause, then test completed_columns again.             *)
Pause(t) ==
  /\ pc[t] = "steal"
  /\ victim[t] = NumThreads
  /\ GoTo(t, "check")
  /\ UNCHANGED <<boundary, indices, reduced, pivot_to_column, queueVars,
                 completed, phase, next, column_idx, current, victim, mainVars>>

(* reduce_column: the entry test and the apparent-pair test.               *)
BeginColumn(t) ==
  LET c == column_idx[t] IN
  /\ pc[t] = "begin"
  /\ GoTo(t, CASE reduced[c] -> "check"
               [] ~reduced[c] /\ Pivot(c) # NoPivot
                    /\ IsApparentPair(Pivot(c), c) -> "apparent"
               [] OTHER -> "loop")
  /\ UNCHANGED <<boundary, indices, reduced, pivot_to_column, queueVars,
                 completed, phase, next, column_idx, current, victim, mainVars>>

(* Mutant of ClaimApparent: the early return forgets to count the column.  *)
ClaimApparentUncounted(t) ==
  LET c == column_idx[t]
      r == Pivot(c) IN
  /\ pc[t] = "apparent"
  /\ \/ /\ pivot_to_column[r] = Unclaimed
        /\ pivot_to_column' = [pivot_to_column EXCEPT ![r] = c]
        /\ GoTo(t, "check")
     \/ /\ pivot_to_column[r] # Unclaimed
        /\ GoTo(t, "loop")
        /\ UNCHANGED pivot_to_column
  /\ UNCHANGED <<boundary, indices, reduced, queueVars, completed, phase, next,
                 column_idx, current, victim, mainVars>>

(* The apparent-pair claim: compare-and-swap -1 -> c, fall through to the  *)
(* loop when it fails.                                                     *)
ClaimApparent(t) ==
  LET c == column_idx[t]
      r == Pivot(c) IN
  /\ pc[t] = "apparent"
  /\ \/ /\ pivot_to_column[r] = Unclaimed
        /\ pivot_to_column' = [pivot_to_column EXCEPT ![r] = c]
        /\ GoTo(t, "mark")
     \/ /\ pivot_to_column[r] # Unclaimed
        /\ GoTo(t, "loop")
        /\ UNCHANGED pivot_to_column
  /\ UNCHANGED <<boundary, indices, reduced, queueVars, completed, phase, next,
                 column_idx, current, victim, mainVars>>

(* Mutant of LoadOwner: adds whichever column owns the pivot.              *)
LoadAnyOwner(t) ==
  LET c == column_idx[t]
      owner == pivot_to_column[Pivot(c)] IN
  /\ pc[t] = "loop"
  /\ \/ /\ Pivot(c) = NoPivot
        /\ GoTo(t, "mark")
        /\ UNCHANGED current
     \/ /\ Pivot(c) # NoPivot
        /\ current' = [current EXCEPT ![t] = owner]
        /\ GoTo(t, CASE owner \notin {Unclaimed, c} -> "add"
                     [] owner = Unclaimed -> "claim"
                     [] OTHER -> "mark")
  /\ UNCHANGED <<boundary, indices, reduced, pivot_to_column, queueVars,
                 completed, phase, next, column_idx, victim, mainVars>>

(* while (col.pivot >= 0): load the owner of the pivot and decide.         *)
LoadOwner(t) ==
  LET c == column_idx[t]
      owner == pivot_to_column[Pivot(c)] IN
  /\ pc[t] = "loop"
  /\ \/ /\ Pivot(c) = NoPivot
        /\ GoTo(t, "mark")
        /\ UNCHANGED current
     \/ /\ Pivot(c) # NoPivot
        /\ current' = [current EXCEPT ![t] = owner]
        /\ GoTo(t, CASE owner # Unclaimed /\ owner < c -> "add"
                     [] owner = Unclaimed \/ owner > c -> "claim"
                     [] OTHER -> "mark")
  /\ UNCHANGED <<boundary, indices, reduced, pivot_to_column, queueVars,
                 completed, phase, next, column_idx, victim, mainVars>>

(* Mutant of AddOwner: the arguments of addColumnLockfree swapped.         *)
AddToOwner(t) ==
  LET c == column_idx[t] IN
  /\ pc[t] = "add"
  /\ indices' = [indices EXCEPT ![current[t]] = AddColumn(@, indices[c])]
  /\ GoTo(t, "loop")
  /\ UNCHANGED <<boundary, reduced, pivot_to_column, queueVars, completed,
                 phase, next, column_idx, current, victim, mainVars>>

(* addColumnLockfree(col, columns[current]).                               *)
AddOwner(t) ==
  LET c == column_idx[t] IN
  /\ pc[t] = "add"
  /\ indices' = [indices EXCEPT ![c] = AddColumn(@, indices[current[t]])]
  /\ GoTo(t, "loop")
  /\ UNCHANGED <<boundary, reduced, pivot_to_column, queueVars, completed,
                 phase, next, column_idx, current, victim, mainVars>>

(* Mutants of ClaimPivot: a plain store in place of the compare-and-swap,  *)
(* and a column that is given up when the compare-and-swap fails.          *)
ClaimPivotByStore(t) ==
  LET c == column_idx[t] IN
  /\ pc[t] = "claim"
  /\ pivot_to_column' = [pivot_to_column EXCEPT ![Pivot(c)] = c]
  /\ GoTo(t, "mark")
  /\ UNCHANGED <<boundary, indices, reduced, queueVars, completed, phase, next,
                 column_idx, current, victim, mainVars>>

ClaimPivotOnce(t) ==
  LET c == column_idx[t]
      r == Pivot(c) IN
  /\ pc[t] = "claim"
  /\ pivot_to_column' = IF pivot_to_column[r] = current[t]
                        THEN [pivot_to_column EXCEPT ![r] = c]
                        ELSE pivot_to_column
  /\ GoTo(t, "mark")
  /\ UNCHANGED <<boundary, indices, reduced, queueVars, completed, phase, next,
                 column_idx, current, victim, mainVars>>

(* compare-and-swap current -> c on the pivot; retry the loop on failure.  *)
ClaimPivot(t) ==
  LET c == column_idx[t]
      r == Pivot(c) IN
  /\ pc[t] = "claim"
  /\ \/ /\ pivot_to_column[r] = current[t]
        /\ pivot_to_column' = [pivot_to_column EXCEPT ![r] = c]
        /\ GoTo(t, "mark")
     \/ /\ pivot_to_column[r] # current[t]
        /\ GoTo(t, "loop")
        /\ UNCHANGED pivot_to_column
  /\ UNCHANGED <<boundary, indices, reduced, queueVars, completed, phase, next,
                 column_idx, current, victim, mainVars>>

(* col.reduced.store(true)                                                 *)
MarkReduced(t) ==
  /\ pc[t] = "mark"
  /\ reduced' = [reduced EXCEPT ![column_idx[t]] = TRUE]
  /\ GoTo(t, "count")
  /\ UNCHANGED <<boundary, indices, pivot_to_column, queueVars, completed,
                 phase, next, column_idx, current, victim, mainVars>>

(* completed_columns.fetch_add(1)                                          *)
CountColumn(t) ==
  /\ pc[t] = "count"
  /\ completed' = completed + 1
  /\ GoTo(t, "check")
  /\ UNCHANGED <<boundary, indices, reduced, pivot_to_column, queueVars,
                 phase, next, column_idx, current, victim, mainVars>>

Worker(t) ==
  \/ CheckCompleted(t)
  \/ PopOwn(t)
  \/ Steal(t)
  \/ ScanOn(t)
  \/ Pause(t)
  \/ BeginColumn(t)
  \/ ClaimApparent(t)
  \/ LoadOwner(t)
  \/ AddOwner(t)
  \/ ClaimPivot(t)
  \/ MarkReduced(t)
  \/ CountColumn(t)

----------------------------------------------------------------------------
(* Phase "postpass": the main thread alone, columns in ascending order.    *)

(* worker.join() for every worker, then the copy of the pivot table.       *)
JoinWorkers ==
  /\ phase = "workers"
  /\ \A t \in Threads : pc[t] = "exit"
  /\ phase' = "postpass"
  /\ pivot_map' = pivot_to_column
  /\ next' = 0
  /\ UNCHANGED <<boundary, indices, reduced, pivot_to_column, queueVars,
                 completed, workerVars, col_copy, iter, pairs>>

(* Mutant of Stolen: looks for a later owner.                              *)
StolenByLater(c) ==
  /\ Pivot(c) # NoPivot
  /\ pivot_map[Pivot(c)] > c

(* The final table gives the pivot of column c to an earlier column.       *)
Stolen(c) ==
  /\ Pivot(c) # NoPivot
  /\ pivot_map[Pivot(c)] # Unclaimed
  /\ pivot_map[Pivot(c)] < c

(* Empty columns and columns that still own their pivot stay as they are.  *)
KeepColumn ==
  /\ phase = "postpass" /\ next < NumColumns
  /\ ~Stolen(next)
  /\ next' = next + 1
  /\ UNCHANGED <<boundary, indices, reduced, pivot_to_column, queueVars,
                 completed, phase, workerVars, mainVars>>

BeginCascade ==
  /\ phase = "postpass" /\ next < NumColumns
  /\ Stolen(next)
  /\ phase' = "cascade"
  /\ col_copy' = indices[next]
  /\ iter' = 0
  /\ UNCHANGED <<boundary, indices, reduced, pivot_to_column, queueVars,
                 completed, next, workerVars, pivot_map, pairs>>

(* msb_owner of the working column of the cascade.                         *)
MsbOwner == pivot_map[Low(col_copy)]

EndCascade ==
  /\ phase' = "postpass"
  /\ next' = next + 1
  /\ col_copy' = {}
  /\ iter' = 0

(* Another column owns the pivot: add its current form, whatever its index.*)
CascadeAdd ==
  /\ phase = "cascade" /\ iter < NumColumns
  /\ col_copy # {}
  /\ MsbOwner # Unclaimed /\ MsbOwner # next
  /\ col_copy' = AddColumn(col_copy, indices[MsbOwner])
  /\ iter' = iter + 1
  /\ UNCHANGED <<boundary, indices, reduced, pivot_to_column, queueVars,
                 completed, phase, next, workerVars, pivot_map, pairs>>

(* The pivot is free and the column takes it with the cascade's result, or *)
(* it is the column's own already and the column stays as it is.           *)
CascadeSettle ==
  /\ phase = "cascade" /\ iter < NumColumns
  /\ col_copy # {}
  /\ MsbOwner \in {Unclaimed, next}
  /\ pivot_map' = [pivot_map EXCEPT ![Low(col_copy)] = next]
  /\ indices' = IF MsbOwner = next THEN indices
                ELSE [indices EXCEPT ![next] = col_copy]
  /\ EndCascade
  /\ UNCHANGED <<boundary, reduced, pivot_to_column, queueVars, completed,
                 workerVars, pairs>>

(* Empty, or max_iter = n_columns iterations without a claim: the column   *)
(* is cleared.                                                             *)
CascadeClear ==
  /\ phase = "cascade"
  /\ col_copy = {} \/ iter = NumColumns
  /\ indices' = [indices EXCEPT ![next] = {}]
  /\ EndCascade
  /\ UNCHANGED <<boundary, reduced, pivot_to_column, queueVars, completed,
                 workerVars, pivot_map, pairs>>

(* One pair per column that kept a pivot, provided both indices are below  *)
(* filtration_values.size().                                               *)
Reported(c) ==
  /\ Pivot(c) # NoPivot
  /\ Pivot(c) < NumFiltrationValues
  /\ c < NumFiltrationValues

ExtractPairs ==
  /\ phase = "postpass" /\ next = NumColumns
  /\ phase' = "done"
  /\ pairs' = {<<Pivot(c), c>> : c \in {d \in Columns : Reported(d)}}
  /\ UNCHANGED <<boundary, indices, reduced, pivot_to_column, queueVars,
                 completed, next, workerVars, pivot_map, col_copy, iter>>

Main ==
  \/ CreditEmptyColumn
  \/ PushColumn
  \/ LaunchWorkers
  \/ JoinWorkers
  \/ KeepColumn
  \/ BeginCascade
  \/ CascadeAdd
  \/ CascadeSettle
  \/ CascadeClear
  \/ ExtractPairs

(* The function has returned.                                              *)
Returned == phase = "done" /\ UNCHANGED vars

Next == Main \/ (\E t \in Threads : Worker(t)) \/ Returned

(* Every thread the operating system runs keeps running: weak fairness of  *)
(* each worker and of the main thread, and nothing about who wins a race.  *)
Fairness == WF_vars(Main) /\ \A t \in Threads : WF_vars(Worker(t))

Spec == Init /\ [][Next]_vars /\ Fairness

----------------------------------------------------------------------------
(* Properties.                                                             *)

Labels == {"start", "check", "pop", "steal", "begin", "apparent", "loop",
           "add", "claim", "mark", "count", "exit"}

Phases == {"setup", "workers", "postpass", "cascade", "done"}

(* Types of the variables of the reducer.                                  *)
TypeOK ==
  /\ boundary \in [Columns -> SUBSET Rows]
  /\ indices \in [Columns -> SUBSET Rows]
  /\ reduced \in [Columns -> BOOLEAN]
  /\ pivot_to_column \in [Rows -> Columns \cup {Unclaimed}]
  /\ buffer \in [Threads -> [Columns -> Columns \cup {NoColumn}]]
  /\ top \in [Threads -> Nat]
  /\ bottom \in [Threads -> Nat]
  /\ completed \in Nat
  /\ phase \in Phases
  /\ next \in 0 .. NumColumns
  /\ pc \in [Threads -> Labels]
  /\ column_idx \in [Threads -> Columns \cup {NoColumn}]
  /\ current \in [Threads -> Columns \cup {Unclaimed}]
  /\ victim \in [Threads -> 0 .. NumThreads]
  /\ pivot_map \in [Rows -> Columns \cup {Unclaimed}]
  /\ col_copy \in SUBSET Rows
  /\ iter \in 0 .. NumColumns
  /\ pairs \in SUBSET (Rows \X Columns)

(* Index k of queue t holds an item that nobody has taken.                 *)
Waiting(t, k) == k \in Columns /\ top[t] <= k /\ k < bottom[t]

Queued(c) == \E t \in Threads, k \in Columns : Waiting(t, k) /\ buffer[t][k] = c

(* Labels at which a worker is inside reduce_column, and those at which it *)
(* may still change the column or claim its pivot.                         *)
InColumn == {"begin", "apparent", "loop", "add", "claim", "mark", "count"}
Unsettled == {"begin", "apparent", "loop", "add", "claim"}

(* Column c has left the queues and no worker will write it again.         *)
Settled(c) ==
  /\ ~Queued(c)
  /\ \A t \in Threads : ~(pc[t] \in Unsettled /\ column_idx[t] = c)

(* The queues hand every column to exactly one worker: no column waits in  *)
(* two places, or waits while a worker has it, or is held by two workers.  *)
ColumnsHandedOutOnce ==
  /\ \A t, u \in Threads, k, l \in Columns :
       Waiting(t, k) /\ Waiting(u, l) /\ buffer[t][k] = buffer[u][l]
         => t = u /\ k = l
  /\ \A t \in Threads : pc[t] \in InColumn => ~Queued(column_idx[t])
  /\ \A t, u \in Threads :
       pc[t] \in InColumn /\ pc[u] \in InColumn /\ column_idx[t] = column_idx[u]
         => t = u

(* The pivot table never points to a column with another pivot: what       *)
(* addColumnLockfree adds always cancels the pivot of its target.          *)
OwnerHasPivot ==
  phase \in {"setup", "workers"} =>
    \A r \in Rows :
      pivot_to_column[r] # Unclaimed => Pivot(pivot_to_column[r]) = r

(* Freedom from data races on columns[]: the column a worker is about to   *)
(* read in addColumnLockfree, without any lock, is one nobody writes.      *)
AddedColumnIsSettled ==
  \A t \in Threads : pc[t] = "add" => Settled(current[t])

(* The reduction is left to right: whatever the interleaving, the first k  *)
(* columns span what the first k columns of the input span.                *)
PrefixSpansKept ==
  phase = "workers" =>
    \A k \in 0 .. NumColumns : PrefixSpan(indices, k) = PrefixSpan(boundary, k)

(* "Lowest column index always wins": the pivot of a column that is done   *)
(* with belongs to that column or to one with a smaller index.             *)
LowestIndexOwns ==
  phase = "workers" =>
    \A c \in Columns :
      reduced[c] /\ Pivot(c) # NoPivot =>
        pivot_to_column[Pivot(c)] \in 0 .. c

(* A worker leaves only when every column is reduced: completed_columns    *)
(* counts no column twice and none too early.                              *)
ExitMeansAllReduced ==
  (\E t \in Threads : pc[t] = "exit") => \A c \in Columns : reduced[c]

(* The pairs have the birth rows of the persistence pairing, each once: the*)
(* number of pairs is that of a sequential reduction.                      *)
BirthsMatchSequential ==
  phase = "done" =>
    /\ {p[1] : p \in pairs} = {p[1] : p \in PersistencePairs(boundary)}
    /\ Cardinality(pairs) = Cardinality(PersistencePairs(boundary))

(* No two pairs share a birth row, so none is reported twice.              *)
BirthsDistinct ==
  phase = "done" => \A p, q \in pairs : p[1] = q[1] => p = q

(* A pivot changes hands only towards smaller column indices, and is never *)
(* given back.                                                             *)
OwnersOnlyDecrease ==
  [][\A r \in Rows :
       pivot_to_column'[r] # pivot_to_column[r] =>
         /\ pivot_to_column'[r] # Unclaimed
         /\ \/ pivot_to_column[r] = Unclaimed
            \/ pivot_to_column'[r] < pivot_to_column[r]]_vars

(* A column that nobody will write again is in fact never written again    *)
(* while workers run.                                                      *)
SettledColumnsFrozen ==
  [][phase = "workers" =>
       \A c \in Columns : Settled(c) => indices'[c] = indices[c] /\ Settled(c)']_vars

(* An apparent pair, once claimed, is final: no worker takes its pivot and *)
(* the post-pass leaves its column alone.                                  *)
ApparentPairsFinal ==
  [][\A r \in Rows :
       LET c == pivot_to_column[r] IN
         c # Unclaimed /\ IsApparentPair(r, c) =>
           pivot_to_column'[r] = c /\ indices'[c] = indices[c]]_vars

(* Every call returns: the workers run out of work and the post-pass ends. *)
Termination == <>(phase = "done")

(* doc/persistence/standard/algorithm.md: the pairs of the parallel        *)
(* reducers "are topologically correct for the filtration".  Whatever the  *)
(* pairing, the deaths of a filtration are its negative simplices.         *)
DeathsAreNegative ==
  phase = "done" => {p[2] : p \in pairs} = NegativeColumns(boundary)

============================================================================
