---------------------- MODULE LockfreeReductionProofs ----------------------
(***************************************************************************)
(* Proofs about the lock-free reducer, for every matrix, every number of   *)
(* columns and rows and every number of threads.                           *)
(***************************************************************************)
EXTENDS LockfreeReduction, Z2ColumnsProofs, FiniteSetTheorems

(***************************************************************************)
(* The inductive invariant, one named part per concern.                    *)
(***************************************************************************)

(* Which labels the workers can be at in each phase.                       *)
PhaseInv ==
  /\ phase = "setup" => \A t \in Threads : pc[t] = "start"
  /\ phase = "workers" => \A t \in Threads : pc[t] # "start"
  /\ phase \in {"postpass", "cascade", "done"} => \A t \in Threads : pc[t] = "exit"
  /\ phase = "cascade" => next < NumColumns /\ Stolen(next)
  /\ phase = "done" => next = NumColumns

(* While the main thread distributes the columns, the queues hold columns  *)
(* below next and only empty columns are reduced.                          *)
SetupInv ==
  phase = "setup" =>
    /\ \A t \in Threads : top[t] = 0 /\ bottom[t] <= next
    /\ \A t \in Threads, k \in Columns : Waiting(t, k) => buffer[t][k] < next
    /\ \A r \in Rows : pivot_to_column[r] = Unclaimed
    /\ \A c \in Columns : reduced[c] => c < next /\ indices[c] = {}

(* Waiting items are columns that are not reduced yet.                     *)
QueueInv ==
  /\ \A t \in Threads : bottom[t] <= NumColumns
  /\ \A t \in Threads, k \in Columns :
       Waiting(t, k) => buffer[t][k] \in Columns /\ ~reduced[buffer[t][k]]

(* A worker inside reduce_column holds a column, and the reduced flag of   *)
(* that column is set between its store and the count.                     *)
HoldInv ==
  \A t \in Threads :
    /\ pc[t] \in InColumn => column_idx[t] \in Columns
    /\ pc[t] \in Unsettled \cup {"mark"} => ~reduced[column_idx[t]]
    /\ pc[t] = "count" => reduced[column_idx[t]]

(* What a worker knows about its column at each access of the pivot table. *)
WorkInv ==
  \A t \in Threads :
    /\ pc[t] \in {"apparent", "claim"} => indices[column_idx[t]] # {}
    /\ pc[t] = "add" => /\ current[t] \in Columns
                        /\ current[t] < column_idx[t]
    /\ pc[t] = "claim" => \/ current[t] = Unclaimed
                          \/ current[t] > column_idx[t]

(* The owner of a pivot is settled: nobody writes a column others may add. *)
OwnerSettled ==
  \A r \in Rows :
    pivot_to_column[r] # Unclaimed => Settled(pivot_to_column[r])

(* A column is finished when its worker is past the reduction loop.        *)
Finished(c) == \/ reduced[c]
               \/ \E t \in Threads : pc[t] = "mark" /\ column_idx[t] = c

(* The pivot of a finished column belongs to it or to an earlier column.   *)
FinishedInv ==
  phase \in {"setup", "workers"} =>
    \A c \in Columns :
      Finished(c) /\ indices[c] # {} => pivot_to_column[Pivot(c)] \in 0 .. c

(* Every row of a column comes from the input columns up to it.            *)
SupportInv ==
  phase \in {"setup", "workers"} =>
    \A c \in Columns : \A r \in indices[c] :
      \E d \in Columns : d <= c /\ r \in boundary[d]

(* completed_columns counts the reduced columns but those still uncounted. *)
Uncounted == {column_idx[t] : t \in {u \in Threads : pc[u] = "count"}}
Counted == {c \in Columns : reduced[c]} \ Uncounted
CountInv == completed = Cardinality(Counted)

(* The post-pass has settled the columns below next; the later ones still  *)
(* have a pivot that belongs to them or to an earlier column.              *)
PostInv ==
  phase \in {"postpass", "cascade", "done"} =>
    /\ \A r \in Rows : pivot_map[r] # Unclaimed => Pivot(pivot_map[r]) = r
    /\ \A r \in Rows :
         pivot_to_column[r] # Unclaimed => pivot_map[r] = pivot_to_column[r]
    /\ \A c \in Columns : indices[c] # {} =>
         /\ c < next => pivot_map[Pivot(c)] = c
         /\ c >= next => pivot_map[Pivot(c)] \in 0 .. c

PairsInv == phase = "done" => \A p \in pairs : p[1] = Pivot(p[2])

IInv ==
  /\ TypeOK
  /\ PhaseInv
  /\ SetupInv
  /\ QueueInv
  /\ HoldInv
  /\ WorkInv
  /\ ColumnsHandedOutOnce
  /\ OwnerSettled
  /\ OwnerHasPivot
  /\ AddedColumnIsSettled
  /\ FinishedInv
  /\ SupportInv
  /\ CountInv
  /\ ExitMeansAllReduced
  /\ PostInv
  /\ PairsInv

----------------------------------------------------------------------------
(* Types.                                                                  *)

LEMMA ConstantsAreNatural ==
  /\ NumColumns \in Nat /\ NumRows \in Nat /\ NumThreads \in Nat \ {0}
  /\ Unclaimed \notin Columns /\ NoColumn \notin Columns
  /\ IsFiniteSet(Columns) /\ Cardinality(Columns) = NumColumns
<1>1. IsFiniteSet(Columns) /\ Cardinality(Columns) = NumColumns
  BY SizesAssumption, FS_Interval DEF Columns
<1>2. QED
  BY <1>1, SizesAssumption DEF Columns, Unclaimed, NoColumn

(* The pivot of a column of the right type.                                *)
LEMMA PivotIsRow ==
  ASSUME TypeOK, NEW c \in Columns
  PROVE  /\ indices[c] # {} => Pivot(c) \in indices[c]
         /\ Pivot(c) \in Rows \cup {NoPivot}
         /\ Pivot(c) = NoPivot <=> indices[c] = {}
<1>1. indices[c] \in SUBSET (0 .. NumRows - 1)
  BY DEF TypeOK, Rows
<1>2. QED
  BY <1>1, LowIsRow, SizesAssumption DEF Pivot, Rows

LEMMA InitTypeOK == Init => TypeOK
BY SizesAssumption, InputsAssumption DEF Init, TypeOK, Threads, Labels, Phases

(* The row a cascade looks up, and the column it finds there.              *)
LEMMA CascadeOwner ==
  ASSUME TypeOK, col_copy # {}
  PROVE  /\ Low(col_copy) \in Rows /\ Low(col_copy) \in col_copy
         /\ MsbOwner \in Columns \cup {Unclaimed}
<1>1. col_copy \in SUBSET (0 .. NumRows - 1)
  BY DEF TypeOK, Rows
<1>2. Low(col_copy) \in Rows /\ Low(col_copy) \in col_copy
  BY <1>1, LowIsRow, SizesAssumption DEF Rows
<1>3. QED
  BY <1>2 DEF TypeOK, MsbOwner

(* The steps of the main thread keep the types.                            *)
LEMMA MainTypeOK ==
  ASSUME TypeOK, PhaseInv, SetupInv, Main
  PROVE  TypeOK'
<1> USE DEF TypeOK, Phases
<1>1. CASE CreditEmptyColumn
  BY <1>1, SizesAssumption DEF CreditEmptyColumn, queueVars, workerVars, mainVars, Columns
<1>2. CASE PushColumn
  <2> DEFINE q == next % NumThreads
  <2>1. next \in Columns /\ next + 1 \in 0 .. NumColumns /\ q \in Threads
    BY <1>2, SizesAssumption DEF PushColumn, Columns, Threads
  <2>2. bottom[q] \in Nat /\ bottom[q] + 1 \in Nat
    BY <2>1
  <2>3. bottom' \in [Threads -> Nat]
    BY <1>2, <2>2 DEF PushColumn
  <2>4. buffer' \in [Threads -> [Columns -> Columns \cup {NoColumn}]]
    BY <1>2, <2>1 DEF PushColumn
  <2>5. next' \in 0 .. NumColumns
    BY <1>2, <2>1 DEF PushColumn
  <2>6. QED
    BY <1>2, <2>3, <2>4, <2>5 DEF PushColumn, workerVars, mainVars
<1>3. CASE LaunchWorkers
  BY <1>3 DEF LaunchWorkers, queueVars, mainVars, Labels
<1>4. CASE JoinWorkers
  BY <1>4, SizesAssumption DEF JoinWorkers, queueVars, workerVars
<1>5. CASE KeepColumn
  BY <1>5, SizesAssumption DEF KeepColumn, queueVars, workerVars, mainVars
<1>6. CASE BeginCascade
  BY <1>6, SizesAssumption DEF BeginCascade, queueVars, workerVars, Columns
<1>7. CASE CascadeAdd
  <2>1. MsbOwner \in Columns
    BY <1>7, CascadeOwner DEF CascadeAdd
  <2>2. indices[MsbOwner] \in SUBSET Rows
    BY <2>1
  <2>3. col_copy' \in SUBSET Rows
    BY <1>7, <2>2, AddColumnType DEF CascadeAdd
  <2>4. iter' \in 0 .. NumColumns
    BY <1>7, SizesAssumption DEF CascadeAdd
  <2>5. QED
    BY <1>7, <2>3, <2>4 DEF CascadeAdd, queueVars, workerVars
<1>8. CASE CascadeSettle
  <2>1. next \in Columns /\ next + 1 \in 0 .. NumColumns
    BY <1>8, SizesAssumption DEF CascadeSettle, PhaseInv, Columns
  <2>2. pivot_map' \in [Rows -> Columns \cup {Unclaimed}]
    BY <1>8, <2>1 DEF CascadeSettle
  <2>3. indices' \in [Columns -> SUBSET Rows]
    BY <1>8, <2>1 DEF CascadeSettle
  <2>4. next' \in 0 .. NumColumns /\ col_copy' \in SUBSET Rows /\ iter' \in 0 .. NumColumns
    BY <1>8, <2>1, SizesAssumption DEF CascadeSettle, EndCascade
  <2>5. phase' \in Phases
    BY <1>8 DEF CascadeSettle, EndCascade
  <2>6. QED
    BY <1>8, <2>2, <2>3, <2>4, <2>5 DEF CascadeSettle, queueVars, workerVars
<1>9. CASE CascadeClear
  <2>1. next \in Columns /\ next + 1 \in 0 .. NumColumns
    BY <1>9, SizesAssumption DEF CascadeClear, PhaseInv, Columns
  <2>2. indices' \in [Columns -> SUBSET Rows]
    BY <1>9, <2>1 DEF CascadeClear
  <2>3. next' \in 0 .. NumColumns /\ col_copy' \in SUBSET Rows /\ iter' \in 0 .. NumColumns
    BY <1>9, <2>1, SizesAssumption DEF CascadeClear, EndCascade
  <2>4. phase' \in Phases
    BY <1>9 DEF CascadeClear, EndCascade
  <2>5. QED
    BY <1>9, <2>2, <2>3, <2>4 DEF CascadeClear, queueVars, workerVars
<1>10. CASE ExtractPairs
  BY <1>10, PivotIsRow DEF ExtractPairs, Reported, queueVars, workerVars
<1>11. QED
  BY <1>1, <1>2, <1>3, <1>4, <1>5, <1>6, <1>7, <1>8, <1>9, <1>10 DEF Main

(* The steps of a worker keep the types.                                   *)
LEMMA WorkerTypeOK ==
  ASSUME TypeOK, HoldInv, QueueInv, WorkInv, NEW t \in Threads, Worker(t)
  PROVE  TypeOK'
<1> DEFINE c == column_idx[t]
<1> USE DEF TypeOK
<1>0. pc[t] \in InColumn => c \in Columns /\ indices[c] \in SUBSET Rows
  BY DEF HoldInv
<1>1. CASE CheckCompleted(t)
  BY <1>1 DEF CheckCompleted, GoTo, Labels, queueVars, mainVars
<1>2. CASE PopOwn(t)
  <2>1. CASE top[t] < bottom[t]
    <3>1. bottom[t] - 1 \in Columns /\ bottom[t] - 1 \in Nat
      BY <2>1, SizesAssumption DEF QueueInv, Columns
    <3>2. buffer[t][bottom[t] - 1] \in Columns \cup {NoColumn}
      BY <3>1
    <3>3. bottom' \in [Threads -> Nat]
      BY <1>2, <2>1, <3>1 DEF PopOwn
    <3>4. column_idx' \in [Threads -> Columns \cup {NoColumn}]
      BY <1>2, <2>1, <3>2 DEF PopOwn
    <3>5. pc' \in [Threads -> Labels]
      BY <1>2, <2>1 DEF PopOwn, GoTo, Labels
    <3>6. UNCHANGED victim
      BY <1>2, <2>1 DEF PopOwn
    <3>7. QED
      BY <1>2, <3>3, <3>4, <3>5, <3>6 DEF PopOwn, mainVars
  <2>2. CASE ~(top[t] < bottom[t])
    <3>1. victim' \in [Threads -> 0 .. NumThreads]
      BY <1>2, <2>2, SizesAssumption DEF PopOwn
    <3>2. pc' \in [Threads -> Labels]
      BY <1>2, <2>2 DEF PopOwn, GoTo, Labels
    <3>3. UNCHANGED <<bottom, column_idx>>
      BY <1>2, <2>2 DEF PopOwn
    <3>4. QED
      BY <1>2, <3>1, <3>2, <3>3 DEF PopOwn, mainVars
  <2>3. QED
    BY <2>1, <2>2
<1>3. CASE Steal(t)
  <2> DEFINE v == victim[t]
  <2>1. v \in Threads
    BY <1>3, SizesAssumption DEF Steal, Threads
  <2>2. top[v] \in Columns /\ top[v] + 1 \in Nat
    BY <1>3, <2>1, SizesAssumption DEF Steal, QueueInv, Columns
  <2>3. buffer[v][top[v]] \in Columns \cup {NoColumn}
    BY <2>1, <2>2
  <2>4. top' \in [Threads -> Nat]
    BY <1>3, <2>2 DEF Steal
  <2>5. column_idx' \in [Threads -> Columns \cup {NoColumn}]
    BY <1>3, <2>3 DEF Steal
  <2>6. pc' \in [Threads -> Labels]
    BY <1>3 DEF Steal, GoTo, Labels
  <2>7. QED
    BY <1>3, <2>4, <2>5, <2>6 DEF Steal, mainVars
<1>4. CASE ScanOn(t)
  BY <1>4, SizesAssumption DEF ScanOn, queueVars, mainVars
<1>5. CASE Pause(t)
  BY <1>5 DEF Pause, GoTo, Labels, queueVars, mainVars
<1>6. CASE BeginColumn(t)
  <2>1. pc' \in [Threads -> Labels]
    BY <1>6 DEF BeginColumn, GoTo, Labels
  <2>2. QED
    BY <1>6, <2>1 DEF BeginColumn, queueVars, mainVars
<1>7. CASE ClaimApparent(t)
  <2>1. c \in Columns
    BY <1>0, <1>7 DEF ClaimApparent, InColumn
  <2>2. pc' \in [Threads -> Labels]
    BY <1>7 DEF ClaimApparent, GoTo, Labels
  <2>3. pivot_to_column' \in [Rows -> Columns \cup {Unclaimed}]
    BY <1>7, <2>1 DEF ClaimApparent
  <2>4. QED
    BY <1>7, <2>2, <2>3 DEF ClaimApparent, queueVars, mainVars
<1>8. CASE LoadOwner(t)
  <2>1. c \in Columns
    BY <1>0, <1>8 DEF LoadOwner, InColumn
  <2>2. pc' \in [Threads -> Labels]
    BY <1>8 DEF LoadOwner, GoTo, Labels
  <2>3. current' \in [Threads -> Columns \cup {Unclaimed}]
    <3>1. CASE Pivot(c) = NoPivot
      BY <1>8, <3>1 DEF LoadOwner
    <3>2. CASE Pivot(c) # NoPivot
      <4>1. pivot_to_column[Pivot(c)] \in Columns \cup {Unclaimed}
        BY <2>1, <3>2, PivotIsRow
      <4>2. QED
        BY <1>8, <3>2, <4>1 DEF LoadOwner
    <3>3. QED
      BY <3>1, <3>2
  <2>4. QED
    BY <1>8, <2>2, <2>3 DEF LoadOwner, queueVars, mainVars
<1>9. CASE AddOwner(t)
  <2>1. c \in Columns /\ current[t] \in Columns
    BY <1>0, <1>9 DEF AddOwner, InColumn, WorkInv
  <2>2. AddColumn(indices[c], indices[current[t]]) \in SUBSET Rows
    BY <2>1, AddColumnType
  <2>3. indices' \in [Columns -> SUBSET Rows]
    BY <1>9, <2>1, <2>2 DEF AddOwner
  <2>4. pc' \in [Threads -> Labels]
    BY <1>9 DEF AddOwner, GoTo, Labels
  <2>5. QED
    BY <1>9, <2>3, <2>4 DEF AddOwner, queueVars, mainVars
<1>10. CASE ClaimPivot(t)
  <2>1. c \in Columns
    BY <1>0, <1>10 DEF ClaimPivot, InColumn
  <2>2. pc' \in [Threads -> Labels]
    BY <1>10 DEF ClaimPivot, GoTo, Labels
  <2>3. pivot_to_column' \in [Rows -> Columns \cup {Unclaimed}]
    BY <1>10, <2>1 DEF ClaimPivot
  <2>4. QED
    BY <1>10, <2>2, <2>3 DEF ClaimPivot, queueVars, mainVars
<1>11. CASE MarkReduced(t)
  <2>1. reduced' \in [Columns -> BOOLEAN]
    BY <1>11 DEF MarkReduced
  <2>2. pc' \in [Threads -> Labels]
    BY <1>11 DEF MarkReduced, GoTo, Labels
  <2>3. QED
    BY <1>11, <2>1, <2>2 DEF MarkReduced, queueVars, mainVars
<1>12. CASE CountColumn(t)
  <2>1. pc' \in [Threads -> Labels]
    BY <1>12 DEF CountColumn, GoTo, Labels
  <2>2. QED
    BY <1>12, <2>1 DEF CountColumn, queueVars, mainVars
<1>13. QED
  BY <1>1, <1>2, <1>3, <1>4, <1>5, <1>6, <1>7, <1>8, <1>9, <1>10, <1>11, <1>12 DEF Worker

----------------------------------------------------------------------------
(* What a step of a worker touches.                                        *)

(* Workers run in phase "workers" only, and leave the main thread's        *)
(* variables and the other workers alone.                                  *)
LEMMA WorkerFrame ==
  ASSUME TypeOK, PhaseInv, NEW t \in Threads, Worker(t)
  PROVE  /\ phase = "workers"
         /\ UNCHANGED <<boundary, phase, next, pivot_map, col_copy, iter, pairs, buffer>>
         /\ pc'[t] # "start"
         /\ \A u \in Threads : u # t =>
              /\ pc'[u] = pc[u]
              /\ column_idx'[u] = column_idx[u]
              /\ current'[u] = current[u]
<1>1. pc[t] # "start" /\ pc[t] # "exit"
  BY DEF Worker, CheckCompleted, PopOwn, Steal, ScanOn, Pause, BeginColumn,
         ClaimApparent, LoadOwner, AddOwner, ClaimPivot, MarkReduced, CountColumn
<1>2. phase = "workers"
  BY <1>1 DEF PhaseInv, TypeOK, Phases
<1>3. UNCHANGED <<boundary, phase, next, pivot_map, col_copy, iter, pairs, buffer>>
  BY DEF Worker, CheckCompleted, PopOwn, Steal, ScanOn, Pause, BeginColumn,
         ClaimApparent, LoadOwner, AddOwner, ClaimPivot, MarkReduced, CountColumn,
         mainVars, queueVars
<1>4. pc'[t] # "start"
  BY <1>1 DEF TypeOK, Worker, CheckCompleted, PopOwn, Steal, ScanOn, Pause, BeginColumn,
         ClaimApparent, LoadOwner, AddOwner, ClaimPivot, MarkReduced, CountColumn, GoTo
<1>5. ASSUME NEW u \in Threads, u # t
      PROVE  pc'[u] = pc[u] /\ column_idx'[u] = column_idx[u] /\ current'[u] = current[u]
  BY <1>5 DEF TypeOK, Worker, CheckCompleted, PopOwn, Steal, ScanOn, Pause, BeginColumn,
         ClaimApparent, LoadOwner, AddOwner, ClaimPivot, MarkReduced, CountColumn, GoTo
<1>6. QED
  BY <1>2, <1>3, <1>4, <1>5

(* The worker takes the waiting item k of queue v.                         *)
Takes(t, v, k) ==
  /\ pc[t] \in {"pop", "steal"} /\ pc'[t] = "begin"
  /\ Waiting(v, k) /\ ~Waiting(v, k)'
  /\ column_idx'[t] = buffer[v][k]
  /\ UNCHANGED <<indices, reduced, pivot_to_column, completed, current>>

(* The worker keeps what it has and takes nothing.                         *)
Keeps(t) ==
  /\ UNCHANGED <<column_idx, buffer, top, bottom>>
  /\ pc'[t] \in InColumn => pc[t] \in InColumn
  /\ pc'[t] \in Unsettled => pc[t] \in Unsettled

(* Every step of a worker takes a waiting item or none, and no step of a   *)
(* worker makes an item wait.                                              *)
LEMMA TakeOrKeep ==
  ASSUME TypeOK, QueueInv, NEW t \in Threads, Worker(t)
  PROVE  /\ (\E v \in Threads, k \in Columns : Takes(t, v, k)) \/ Keeps(t)
         /\ \A u \in Threads, k \in Columns : Waiting(u, k)' => Waiting(u, k)
         /\ \A u \in Threads : bottom'[u] <= bottom[u]
<1> USE DEF TypeOK
<1>1. CASE PopOwn(t) /\ top[t] < bottom[t]
  <2>1. PICK k \in Columns : k = bottom[t] - 1 /\ Waiting(t, k)
    <3>1. bottom[t] - 1 \in Columns /\ top[t] <= bottom[t] - 1 /\ bottom[t] - 1 < bottom[t]
      BY <1>1, SizesAssumption DEF QueueInv, Columns
    <3>2. QED
      BY <3>1 DEF Waiting
  <2>2. /\ bottom' = [bottom EXCEPT ![t] = k] /\ top' = top /\ buffer' = buffer
        /\ column_idx'[t] = buffer[t][k] /\ pc'[t] = "begin" /\ pc[t] = "pop"
        /\ UNCHANGED <<indices, reduced, pivot_to_column, completed, current>>
    BY <1>1, <2>1 DEF PopOwn, GoTo
  <2>3. ~Waiting(t, k)'
    <3>1. bottom'[t] = k
      BY <2>2
    <3>2. k \in Int
      BY <2>1 DEF Columns
    <3>3. QED
      BY <3>1, <3>2 DEF Waiting
  <2>4. \A u \in Threads, l \in Columns : Waiting(u, l)' => Waiting(u, l)
    BY <2>1, <2>2 DEF Waiting, Columns
  <2>5. \A u \in Threads : bottom'[u] <= bottom[u]
    BY <2>1, <2>2 DEF Columns
  <2>6. Takes(t, t, k)
    BY <2>1, <2>2, <2>3 DEF Takes
  <2>7. QED
    BY <2>1, <2>4, <2>5, <2>6
<1>2. CASE Steal(t)
  <2>1. PICK v \in Threads : v = victim[t]
    BY <1>2, SizesAssumption DEF Steal, Threads
  <2>2. PICK k \in Columns : k = top[v] /\ Waiting(v, k)
    BY <1>2, <2>1, SizesAssumption DEF Steal, QueueInv, Columns, Waiting
  <2>3. /\ top' = [top EXCEPT ![v] = k + 1] /\ bottom' = bottom /\ buffer' = buffer
        /\ column_idx'[t] = buffer[v][k] /\ pc'[t] = "begin" /\ pc[t] = "steal"
        /\ UNCHANGED <<indices, reduced, pivot_to_column, completed, current>>
    BY <1>2, <2>1, <2>2 DEF Steal, GoTo
  <2>4. ~Waiting(v, k)'
    <3>1. top'[v] = k + 1
      BY <2>1, <2>3
    <3>2. k \in Int
      BY <2>2 DEF Columns
    <3>3. QED
      BY <3>1, <3>2 DEF Waiting
  <2>5. \A u \in Threads, l \in Columns : Waiting(u, l)' => Waiting(u, l)
    BY <2>1, <2>2, <2>3 DEF Waiting, Columns
  <2>6. Takes(t, v, k)
    BY <2>2, <2>3, <2>4 DEF Takes
  <2>7. QED
    BY <2>1, <2>2, <2>3, <2>5, <2>6
<1>3. CASE ~(PopOwn(t) /\ top[t] < bottom[t]) /\ ~Steal(t)
  <2>1. UNCHANGED <<column_idx, buffer, top, bottom>>
    BY <1>3 DEF Worker, CheckCompleted, PopOwn, ScanOn, Pause, BeginColumn,
         ClaimApparent, LoadOwner, AddOwner, ClaimPivot, MarkReduced, CountColumn, queueVars
  <2>2. /\ pc'[t] \in InColumn => pc[t] \in InColumn
        /\ pc'[t] \in Unsettled => pc[t] \in Unsettled
    BY <1>3 DEF Worker, CheckCompleted, PopOwn, ScanOn, Pause, BeginColumn, GoTo,
         ClaimApparent, LoadOwner, AddOwner, ClaimPivot, MarkReduced, CountColumn,
         InColumn, Unsettled
  <2>3. Keeps(t)
    BY <2>1, <2>2 DEF Keeps
  <2>4. QED
    BY <2>1, <2>3 DEF Waiting
<1>4. QED
  BY <1>1, <1>2, <1>3

(* What a worker inside reduce_column leaves alone.                        *)
LEMMA WorkerWrites ==
  ASSUME TypeOK, HoldInv, NEW t \in Threads, Worker(t)
  PROVE  /\ \A c \in Columns :
              indices'[c] # indices[c] => pc[t] = "add" /\ c = column_idx[t]
         /\ \A c \in Columns :
              reduced'[c] # reduced[c] => pc[t] = "mark" /\ c = column_idx[t] /\ reduced'[c]
         /\ \A r \in Rows :
              pivot_to_column'[r] # pivot_to_column[r] =>
                /\ pc[t] \in {"apparent", "claim"} /\ pc'[t] = "mark"
                /\ r = Pivot(column_idx[t]) /\ pivot_to_column'[r] = column_idx[t]
                /\ UNCHANGED <<indices, reduced, column_idx>>
                /\ pc[t] = "apparent" => pivot_to_column[r] = Unclaimed
                /\ pc[t] = "claim" => pivot_to_column[r] = current[t]
<1>1. ASSUME NEW c \in Columns, indices'[c] # indices[c]
      PROVE  pc[t] = "add" /\ c = column_idx[t]
  BY <1>1 DEF TypeOK, Worker, CheckCompleted, PopOwn, Steal, ScanOn, Pause, BeginColumn,
         ClaimApparent, LoadOwner, AddOwner, ClaimPivot, MarkReduced, CountColumn
<1>2. ASSUME NEW c \in Columns, reduced'[c] # reduced[c]
      PROVE  pc[t] = "mark" /\ c = column_idx[t] /\ reduced'[c]
  BY <1>2 DEF TypeOK, Worker, CheckCompleted, PopOwn, Steal, ScanOn, Pause, BeginColumn,
         ClaimApparent, LoadOwner, AddOwner, ClaimPivot, MarkReduced, CountColumn
<1>3. ASSUME NEW r \in Rows, pivot_to_column'[r] # pivot_to_column[r]
      PROVE  /\ pc[t] \in {"apparent", "claim"} /\ pc'[t] = "mark"
             /\ r = Pivot(column_idx[t]) /\ pivot_to_column'[r] = column_idx[t]
             /\ UNCHANGED <<indices, reduced, column_idx>>
             /\ pc[t] = "apparent" => pivot_to_column[r] = Unclaimed
             /\ pc[t] = "claim" => pivot_to_column[r] = current[t]
  <2>1. ClaimApparent(t) \/ ClaimPivot(t)
    BY <1>3 DEF Worker, CheckCompleted, PopOwn, Steal, ScanOn, Pause, BeginColumn,
         LoadOwner, AddOwner, MarkReduced, CountColumn
  <2>2. CASE ClaimApparent(t)
    BY <1>3, <2>2 DEF TypeOK, ClaimApparent, GoTo
  <2>3. CASE ClaimPivot(t)
    BY <1>3, <2>3 DEF TypeOK, ClaimPivot, GoTo
  <2>4. QED
    BY <2>1, <2>2, <2>3
<1>4. QED
  BY <1>1, <1>2, <1>3

----------------------------------------------------------------------------
(* The workers keep the invariant.                                         *)

(* The parts about other phases than "workers" hold trivially.             *)
LEMMA WorkerPhases ==
  ASSUME TypeOK, PhaseInv, NEW t \in Threads, Worker(t)
  PROVE  PhaseInv' /\ SetupInv' /\ PostInv' /\ PairsInv'
<1>1. phase' = "workers" /\ \A u \in Threads : pc'[u] # "start"
  BY WorkerFrame DEF PhaseInv
<1>2. QED
  BY <1>1 DEF PhaseInv, SetupInv, PostInv, PairsInv

(* No column is ever handed out twice.                                     *)
LEMMA WorkerHandsOutOnce ==
  ASSUME TypeOK, PhaseInv, QueueInv, ColumnsHandedOutOnce, NEW t \in Threads, Worker(t)
  PROVE  ColumnsHandedOutOnce'
<1>1. \A u \in Threads, k \in Columns : Waiting(u, k)' => Waiting(u, k)
  BY TakeOrKeep
<1>2. buffer' = buffer
  BY WorkerFrame
<1>3. \A c \in Columns : Queued(c)' => Queued(c)
  BY <1>1, <1>2 DEF Queued
<1>4. ASSUME NEW u \in Threads, NEW w \in Threads, NEW k \in Columns, NEW l \in Columns,
             Waiting(u, k)', Waiting(w, l)', buffer'[u][k] = buffer'[w][l]
      PROVE  u = w /\ k = l
  BY <1>1, <1>2, <1>4 DEF ColumnsHandedOutOnce
<1>5. CASE \E v \in Threads, k \in Columns : Takes(t, v, k)
  <2>1. PICK v \in Threads, k \in Columns : Takes(t, v, k)
    BY <1>5
  <2> DEFINE c == buffer[v][k]
  <2>2. Waiting(v, k) /\ ~Waiting(v, k)' /\ column_idx'[t] = c /\ Queued(c)
    BY <2>1 DEF Takes, Queued
  <2>3. ASSUME NEW u \in Threads, NEW l \in Columns, Waiting(u, l)'
        PROVE  buffer'[u][l] # column_idx'[t]
    <3>1. Waiting(u, l)
      BY <1>1, <2>3
    <3>2. ~(u = v /\ l = k)
      BY <2>2, <2>3
    <3>3. buffer[u][l] # c
      BY <2>2, <3>1, <3>2 DEF ColumnsHandedOutOnce
    <3>4. QED
      BY <1>2, <2>2, <3>3
  <2>4. ~Queued(column_idx[t])'
    BY <2>3 DEF Queued
  <2>5. ASSUME NEW u \in Threads, u # t, pc'[u] \in InColumn
        PROVE  ~Queued(column_idx[u])' /\ column_idx'[u] # column_idx'[t]
    <3>1. pc[u] \in InColumn /\ column_idx'[u] = column_idx[u]
      BY <2>5, WorkerFrame
    <3>2. ~Queued(column_idx[u])
      BY <3>1 DEF ColumnsHandedOutOnce
    <3>3. ASSUME NEW w \in Threads, NEW l \in Columns, Waiting(w, l)'
          PROVE  buffer'[w][l] # column_idx'[u]
      BY <1>1, <1>2, <3>1, <3>2, <3>3 DEF Queued
    <3>4. QED
      BY <2>2, <3>1, <3>2, <3>3 DEF Queued
  <2>6. \A u \in Threads : pc'[u] \in InColumn => ~Queued(column_idx[u])'
    BY <2>4, <2>5
  <2>7. \A u, w \in Threads :
          pc'[u] \in InColumn /\ pc'[w] \in InColumn /\ column_idx'[u] = column_idx'[w]
            => u = w
    BY <2>5, WorkerFrame DEF ColumnsHandedOutOnce
  <2>8. QED
    BY <1>4, <2>6, <2>7 DEF ColumnsHandedOutOnce
<1>6. CASE Keeps(t)
  <2>1. \A u \in Threads : pc'[u] \in InColumn => pc[u] \in InColumn
    BY <1>6, WorkerFrame DEF Keeps
  <2>2. column_idx' = column_idx
    BY <1>6 DEF Keeps
  <2>3. ASSUME NEW u \in Threads, pc'[u] \in InColumn
        PROVE  ~Queued(column_idx[u])'
    <3>1. ~Queued(column_idx[u])
      BY <2>1, <2>3 DEF ColumnsHandedOutOnce
    <3>2. QED
      BY <1>1, <1>2, <2>2, <3>1 DEF Queued
  <2>4. QED
    BY <1>4, <2>1, <2>2, <2>3 DEF ColumnsHandedOutOnce
<1>7. QED
  BY <1>5, <1>6, TakeOrKeep

(* The column in a worker's hands, and that its reduced flag tells at      *)
(* which step of reduce_column the worker is.                              *)
LEMMA WorkerHolds ==
  ASSUME TypeOK, PhaseInv, QueueInv, HoldInv, WorkInv, ColumnsHandedOutOnce,
         NEW t \in Threads, Worker(t)
  PROVE  HoldInv' /\ QueueInv'
<1>1. \A u \in Threads, k \in Columns : Waiting(u, k)' => Waiting(u, k)
  BY TakeOrKeep
<1>2. buffer' = buffer
  BY WorkerFrame
<1>3. \A u \in Threads : bottom'[u] <= NumColumns
  <2>1. TypeOK'
    BY WorkerTypeOK
  <2>2. \A u \in Threads : bottom'[u] <= bottom[u] /\ bottom[u] <= NumColumns
    BY TakeOrKeep DEF QueueInv
  <2>3. QED
    BY <2>1, <2>2, SizesAssumption DEF TypeOK
<1>4. ASSUME NEW u \in Threads, NEW k \in Columns, Waiting(u, k)'
      PROVE  buffer'[u][k] \in Columns /\ ~reduced'[buffer'[u][k]]
  <2> DEFINE c == buffer[u][k]
  <2>1. c \in Columns /\ ~reduced[c] /\ Queued(c)
    BY <1>1, <1>4 DEF QueueInv, Queued
  <2>2. ~(pc[t] = "mark" /\ c = column_idx[t])
    BY <2>1 DEF ColumnsHandedOutOnce, InColumn
  <2>3. QED
    BY <1>2, <2>1, <2>2, WorkerWrites
<1>5. ASSUME NEW u \in Threads, u # t
      PROVE  /\ pc'[u] \in InColumn => column_idx'[u] \in Columns
             /\ pc'[u] \in Unsettled \cup {"mark"} => ~reduced'[column_idx'[u]]
             /\ pc'[u] = "count" => reduced'[column_idx'[u]]
  <2>1. pc'[u] = pc[u] /\ column_idx'[u] = column_idx[u]
    BY <1>5, WorkerFrame
  <2>2. pc[u] \in InColumn => ~(pc[t] = "mark" /\ column_idx[u] = column_idx[t])
    BY <1>5 DEF ColumnsHandedOutOnce, InColumn
  <2>3. pc[u] \in InColumn => reduced'[column_idx[u]] = reduced[column_idx[u]]
    BY <2>2, WorkerWrites DEF HoldInv
  <2>4. QED
    BY <2>1, <2>3 DEF HoldInv, InColumn, Unsettled
<1>6. /\ pc'[t] \in InColumn => column_idx'[t] \in Columns
      /\ pc'[t] \in Unsettled \cup {"mark"} => ~reduced'[column_idx'[t]]
      /\ pc'[t] = "count" => reduced'[column_idx'[t]]
  <2>1. CASE \E v \in Threads, k \in Columns : Takes(t, v, k)
    BY <2>1 DEF Takes, QueueInv, InColumn, Unsettled
  <2>2. CASE Keeps(t)
    <3>1. pc'[t] \in InColumn => column_idx'[t] \in Columns
      BY <2>2 DEF Keeps, HoldInv
    <3>2. CASE MarkReduced(t)
      BY <2>2, <3>2 DEF MarkReduced, GoTo, TypeOK, HoldInv, InColumn, Unsettled
    <3>3. CASE ~MarkReduced(t)
      <4>1. reduced' = reduced
        BY <3>3 DEF Worker, CheckCompleted, PopOwn, Steal, ScanOn, Pause, BeginColumn,
               ClaimApparent, LoadOwner, AddOwner, ClaimPivot, CountColumn
      <4>2. pc'[t] # "count"
        BY <3>3 DEF TypeOK, Worker, CheckCompleted, PopOwn, Steal, Pause, BeginColumn, GoTo,
               ScanOn, ClaimApparent, LoadOwner, AddOwner, ClaimPivot, CountColumn
      <4>3. pc'[t] = "mark" => pc[t] \in Unsettled
        BY <3>3 DEF TypeOK, Worker, CheckCompleted, PopOwn, Steal, Pause, BeginColumn, GoTo,
               ScanOn, ClaimApparent, LoadOwner, AddOwner, ClaimPivot, CountColumn, Unsettled
      <4>4. pc'[t] \in Unsettled => pc[t] \in Unsettled
        BY <2>2 DEF Keeps
      <4>5. QED
        BY <2>2, <3>1, <4>1, <4>2, <4>3, <4>4 DEF Keeps, HoldInv
    <3>4. QED
      BY <3>2, <3>3
  <2>3. QED
    BY <2>1, <2>2, TakeOrKeep
<1>7. HoldInv'
  BY <1>5, <1>6 DEF HoldInv
<1>8. QED
  BY <1>3, <1>4, <1>7 DEF QueueInv

(* A column nobody will write again is not written, and stays so.          *)
LEMMA SettledStable ==
  ASSUME TypeOK, PhaseInv, QueueInv, HoldInv, NEW t \in Threads, Worker(t),
         NEW c \in Columns, Settled(c)
  PROVE  Settled(c)' /\ indices'[c] = indices[c]
<1>1. ~Queued(c)'
  <2>1. \A u \in Threads, k \in Columns : Waiting(u, k)' => Waiting(u, k)
    BY TakeOrKeep
  <2>2. buffer' = buffer
    BY WorkerFrame
  <2>3. QED
    BY <2>1, <2>2 DEF Settled, Queued
<1>2. ASSUME NEW u \in Threads, u # t
      PROVE  ~(pc'[u] \in Unsettled /\ column_idx'[u] = c)
  BY <1>2, WorkerFrame DEF Settled
<1>3. ~(pc'[t] \in Unsettled /\ column_idx'[t] = c)
  <2>1. CASE \E v \in Threads, k \in Columns : Takes(t, v, k)
    BY <2>1 DEF Takes, Settled, Queued
  <2>2. CASE Keeps(t)
    BY <2>2 DEF Keeps, Settled
  <2>3. QED
    BY <2>1, <2>2, TakeOrKeep
<1>4. indices'[c] = indices[c]
  BY WorkerWrites DEF Settled, Unsettled
<1>5. QED
  BY <1>1, <1>2, <1>3, <1>4 DEF Settled

(* A claim goes to a column that only the claiming worker had.             *)
LEMMA WorkerOwners ==
  ASSUME TypeOK, PhaseInv, QueueInv, HoldInv, ColumnsHandedOutOnce, OwnerSettled,
         OwnerHasPivot, NEW t \in Threads, Worker(t)
  PROVE  OwnerSettled' /\ OwnerHasPivot'
<1>1. ASSUME NEW r \in Rows, pivot_to_column'[r] # Unclaimed
      PROVE  Settled(pivot_to_column[r])' /\ Pivot(pivot_to_column[r])' = r
  <2>1. CASE pivot_to_column'[r] = pivot_to_column[r]
    <3>1. PICK c \in Columns : c = pivot_to_column[r]
      BY <1>1, <2>1 DEF TypeOK
    <3>2. Settled(c) /\ Pivot(c) = r
      BY <1>1, <2>1, <3>1, WorkerFrame DEF OwnerSettled, OwnerHasPivot
    <3>3. Settled(c)' /\ Pivot(c)' = r
      BY <3>2, SettledStable DEF Pivot
    <3>4. QED
      BY <2>1, <3>1, <3>3
  <2>2. CASE pivot_to_column'[r] # pivot_to_column[r]
    <3>1. /\ pc[t] \in {"apparent", "claim"} /\ pc'[t] = "mark"
          /\ r = Pivot(column_idx[t]) /\ pivot_to_column'[r] = column_idx[t]
          /\ UNCHANGED <<indices, column_idx>>
      BY <2>2, WorkerWrites
    <3>2. PICK c \in Columns : c = column_idx[t]
      BY <3>1 DEF HoldInv, InColumn
    <3>3. Pivot(c)' = r
      BY <3>1, <3>2 DEF Pivot
    <3>4. \A u \in Threads, k \in Columns : Waiting(u, k)' => Waiting(u, k)
      BY TakeOrKeep
    <3>5. ~Queued(c)'
      BY <3>1, <3>2, <3>4, WorkerFrame DEF ColumnsHandedOutOnce, InColumn, Queued
    <3>6. ASSUME NEW u \in Threads
          PROVE  ~(pc'[u] \in Unsettled /\ column_idx'[u] = c)
      BY <3>1, <3>2, WorkerFrame DEF ColumnsHandedOutOnce, InColumn, Unsettled
    <3>7. Settled(c)'
      BY <3>5, <3>6 DEF Settled
    <3>8. QED
      BY <3>1, <3>2, <3>3, <3>7
  <2>3. QED
    BY <2>1, <2>2
<1>2. QED
  BY <1>1 DEF OwnerSettled, OwnerHasPivot

(* What a worker knows stays true while the other workers go on.           *)
LEMMA WorkerKnows ==
  ASSUME TypeOK, PhaseInv, QueueInv, HoldInv, WorkInv, ColumnsHandedOutOnce,
         NEW t \in Threads, Worker(t)
  PROVE  WorkInv'
<1>1. ASSUME NEW u \in Threads, u # t
      PROVE  /\ pc'[u] \in {"apparent", "claim"} => indices'[column_idx'[u]] # {}
             /\ pc'[u] = "add" => current'[u] \in Columns /\ current'[u] < column_idx'[u]
             /\ pc'[u] = "claim" => current'[u] = Unclaimed \/ current'[u] > column_idx'[u]
  <2>1. pc'[u] = pc[u] /\ column_idx'[u] = column_idx[u] /\ current'[u] = current[u]
    BY <1>1, WorkerFrame
  <2>2. pc[u] \in InColumn => indices'[column_idx[u]] = indices[column_idx[u]]
    BY <1>1, WorkerWrites DEF HoldInv, ColumnsHandedOutOnce, InColumn
  <2>3. QED
    BY <2>1, <2>2 DEF WorkInv, InColumn
<1>2. pc'[t] = "apparent" => BeginColumn(t)
  BY DEF TypeOK, Worker, CheckCompleted, PopOwn, Steal, Pause, GoTo, ScanOn,
         ClaimApparent, LoadOwner, AddOwner, ClaimPivot, MarkReduced, CountColumn
<1>3. pc'[t] \in {"add", "claim"} => LoadOwner(t)
  BY DEF TypeOK, Worker, CheckCompleted, PopOwn, Steal, Pause, BeginColumn, GoTo, ScanOn,
         ClaimApparent, AddOwner, ClaimPivot, MarkReduced, CountColumn
<1>4. CASE BeginColumn(t)
  <2>1. pc'[t] = "apparent" => indices'[column_idx'[t]] # {}
    BY <1>4 DEF BeginColumn, GoTo, TypeOK, Pivot, Low
  <2>2. QED
    BY <1>1, <1>4, <2>1 DEF WorkInv, BeginColumn, GoTo, TypeOK
<1>5. CASE LoadOwner(t)
  <2>1. PICK c \in Columns : c = column_idx[t]
    BY <1>5 DEF LoadOwner, HoldInv, InColumn
  <2>2. /\ pc'[t] \in {"add", "claim"} =>
             Pivot(c) # NoPivot /\ current'[t] = pivot_to_column[Pivot(c)]
        /\ pc'[t] = "add" => current'[t] # Unclaimed /\ current'[t] < c
        /\ pc'[t] = "claim" => current'[t] = Unclaimed \/ current'[t] > c
        /\ UNCHANGED <<indices, column_idx>>
        /\ pc'[t] # "apparent"
    BY <1>5, <2>1 DEF LoadOwner, GoTo, TypeOK
  <2>3. pc'[t] = "add" => current'[t] \in Columns
    BY <2>2, PivotIsRow DEF TypeOK
  <2>4. pc'[t] = "claim" => indices[c] # {}
    BY <2>2 DEF Pivot, Low
  <2>5. QED
    BY <1>1, <2>1, <2>2, <2>3, <2>4 DEF WorkInv
<1>6. CASE ~BeginColumn(t) /\ ~LoadOwner(t)
  BY <1>1, <1>2, <1>3, <1>6 DEF WorkInv
<1>7. QED
  BY <1>4, <1>5, <1>6

(* A worker adds a column only after nobody writes it any more.            *)
LEMMA WorkerAddsSettled ==
  ASSUME TypeOK, PhaseInv, QueueInv, HoldInv, WorkInv, OwnerSettled,
         AddedColumnIsSettled, NEW t \in Threads, Worker(t)
  PROVE  AddedColumnIsSettled'
<1>1. ASSUME NEW u \in Threads, u # t, pc'[u] = "add"
      PROVE  Settled(current[u])'
  <2>1. pc[u] = "add" /\ current'[u] = current[u]
    BY <1>1, WorkerFrame
  <2>2. PICK c \in Columns : c = current[u]
    BY <2>1 DEF WorkInv
  <2>3. Settled(c)
    BY <2>1, <2>2 DEF AddedColumnIsSettled
  <2>4. QED
    BY <2>1, <2>2, <2>3, SettledStable
<1>2. ASSUME pc'[t] = "add"
      PROVE  Settled(current[t])'
  <2>1. LoadOwner(t)
    BY <1>2 DEF TypeOK, Worker, CheckCompleted, PopOwn, Steal, Pause, BeginColumn, GoTo,
           ScanOn, ClaimApparent, AddOwner, ClaimPivot, MarkReduced, CountColumn
  <2>2. PICK c \in Columns : c = column_idx[t]
    BY <2>1 DEF LoadOwner, HoldInv, InColumn
  <2>3. /\ Pivot(c) # NoPivot /\ current'[t] = pivot_to_column[Pivot(c)]
        /\ current'[t] # Unclaimed
    BY <1>2, <2>1, <2>2 DEF LoadOwner, GoTo, TypeOK
  <2>4. PICK o \in Columns : o = current'[t] /\ Settled(o)
    BY <2>2, <2>3, PivotIsRow DEF TypeOK, OwnerSettled
  <2>5. QED
    BY <2>4, SettledStable
<1>3. QED
  BY <1>1, <1>2 DEF AddedColumnIsSettled

(* A finished column is settled.                                           *)
LEMMA FinishedIsSettled ==
  ASSUME QueueInv, HoldInv, ColumnsHandedOutOnce, NEW c \in Columns, Finished(c)
  PROVE  Settled(c)
<1>1. CASE reduced[c]
  BY <1>1 DEF Settled, QueueInv, HoldInv, Queued
<1>2. CASE \E t \in Threads : pc[t] = "mark" /\ column_idx[t] = c
  BY <1>2 DEF Settled, ColumnsHandedOutOnce, InColumn, Unsettled
<1>3. QED
  BY <1>1, <1>2 DEF Finished

(* The worker leaves the loop only once the pivot belongs to its column or *)
(* to an earlier one, and a later claim can only lower the owner.          *)
LEMMA WorkerFinishes ==
  ASSUME TypeOK, PhaseInv, QueueInv, HoldInv, WorkInv, ColumnsHandedOutOnce,
         FinishedInv, NEW t \in Threads, Worker(t)
  PROVE  FinishedInv'
<1>1. SUFFICES ASSUME NEW c \in Columns, Finished(c)', indices'[c] # {}
               PROVE  pivot_to_column'[Pivot(c)'] \in 0 .. c
  BY DEF FinishedInv, Pivot
<1>2. \A d \in Columns : d \in Nat
  BY DEF Columns
<1>3. CASE Finished(c)
  <2>1. indices'[c] = indices[c] /\ Pivot(c)' = Pivot(c)
    BY <1>3, FinishedIsSettled, SettledStable DEF Pivot
  <2>2. PICK r \in Rows : r = Pivot(c)
    BY <1>1, <2>1, PivotIsRow
  <2>3. pivot_to_column[r] \in 0 .. c
    BY <1>1, <1>3, <2>1, <2>2, WorkerFrame DEF FinishedInv
  <2>4. CASE pivot_to_column'[r] = pivot_to_column[r]
    BY <2>1, <2>2, <2>3, <2>4
  <2>5. CASE pivot_to_column'[r] # pivot_to_column[r]
    <3>1. /\ pc[t] \in {"apparent", "claim"} /\ pivot_to_column'[r] = column_idx[t]
          /\ pc[t] = "apparent" => pivot_to_column[r] = Unclaimed
          /\ pc[t] = "claim" => pivot_to_column[r] = current[t]
      BY <2>5, WorkerWrites
    <3>2. pc[t] = "claim" /\ current[t] = pivot_to_column[r] /\ current[t] > column_idx[t]
      BY <2>3, <3>1 DEF WorkInv, Unclaimed
    <3>3. column_idx[t] \in Nat
      BY <1>2, <3>2 DEF HoldInv, InColumn
    <3>4. QED
      BY <1>2, <2>1, <2>2, <2>3, <3>1, <3>2, <3>3
  <2>6. QED
    BY <2>4, <2>5
<1>4. CASE ~Finished(c)
  <2>1. pc'[t] = "mark" /\ column_idx'[t] = c /\ pc[t] # "mark"
    <3>1. CASE reduced'[c]
      BY <1>4, <3>1, WorkerWrites DEF Finished
    <3>2. CASE ~reduced'[c]
      BY <1>1, <1>4, <3>2, WorkerFrame DEF Finished, TypeOK, Worker, CheckCompleted,
         PopOwn, Steal, Pause, BeginColumn, GoTo, ScanOn, ClaimApparent, LoadOwner,
         AddOwner, ClaimPivot, MarkReduced, CountColumn
    <3>3. QED
      BY <3>1, <3>2
  <2>2. ClaimApparent(t) \/ ClaimPivot(t) \/ LoadOwner(t)
    BY <2>1 DEF TypeOK, Worker, CheckCompleted, PopOwn, Steal, Pause, BeginColumn, GoTo,
           ScanOn, AddOwner, MarkReduced, CountColumn
  <2>3. /\ UNCHANGED <<indices, column_idx>> /\ column_idx[t] = c
        /\ Pivot(c)' = Pivot(c) /\ Pivot(c) \in Rows
    BY <1>1, <2>1, <2>2, PivotIsRow DEF ClaimApparent, ClaimPivot, LoadOwner, Pivot
  <2>4. CASE ClaimApparent(t) \/ ClaimPivot(t)
    <3>1. pivot_to_column'[Pivot(c)] = c
      BY <2>1, <2>3, <2>4 DEF ClaimApparent, ClaimPivot, GoTo, TypeOK
    <3>2. QED
      BY <1>2, <2>3, <3>1
  <2>5. CASE LoadOwner(t)
    <3> DEFINE owner == pivot_to_column[Pivot(c)]
    <3>1. Pivot(c) # NoPivot
      BY <1>1, <2>3, PivotIsRow
    <3>2. ~(owner # Unclaimed /\ owner < c) /\ ~(owner = Unclaimed \/ owner > c)
      BY <2>1, <2>3, <2>5, <3>1 DEF LoadOwner, GoTo, TypeOK
    <3>3. owner \in Columns /\ UNCHANGED pivot_to_column
      BY <2>3, <2>5, <3>2 DEF TypeOK, LoadOwner
    <3>4. owner = c
      BY <1>2, <3>2, <3>3
    <3>5. QED
      BY <1>2, <2>3, <3>3, <3>4
  <2>6. QED
    BY <2>2, <2>4, <2>5
<1>5. QED
  BY <1>3, <1>4

(* An addition brings rows of an earlier column only.                      *)
LEMMA WorkerSupport ==
  ASSUME TypeOK, PhaseInv, HoldInv, WorkInv, SupportInv, NEW t \in Threads, Worker(t)
  PROVE  SupportInv'
<1>1. SUFFICES ASSUME NEW c \in Columns, NEW r \in indices'[c]
               PROVE  \E d \in Columns : d <= c /\ r \in boundary[d]
  BY WorkerFrame DEF SupportInv
<1>2. ASSUME NEW e \in Columns, e <= c, r \in indices[e]
      PROVE  \E d \in Columns : d <= c /\ r \in boundary[d]
  <2>1. PICK d \in Columns : d <= e /\ r \in boundary[d]
    BY <1>2, WorkerFrame DEF SupportInv
  <2>2. d <= c
    BY <1>2, <2>1, SizesAssumption DEF Columns
  <2>3. QED
    BY <2>1, <2>2
<1>3. CASE indices'[c] = indices[c]
  BY <1>2, <1>3, SizesAssumption DEF Columns
<1>4. CASE indices'[c] # indices[c]
  <2>1. AddOwner(t) /\ c = column_idx[t]
    BY <1>4, WorkerWrites DEF Worker, CheckCompleted, PopOwn, Steal, ScanOn, Pause,
       BeginColumn, ClaimApparent, LoadOwner, ClaimPivot, MarkReduced, CountColumn
  <2>2. PICK o \in Columns : o = current[t] /\ o < c
    BY <2>1 DEF AddOwner, WorkInv
  <2>3. indices'[c] = AddColumn(indices[c], indices[o])
    BY <2>1, <2>2 DEF AddOwner, TypeOK
  <2>4. r \in indices[c] \/ r \in indices[o]
    BY <2>3 DEF AddColumn, SymDiff
  <2>5. c <= c /\ o <= c
    BY <2>2, SizesAssumption DEF Columns
  <2>6. QED
    BY <1>2, <2>4, <2>5
<1>5. QED
  BY <1>3, <1>4

(* completed_columns grows by one exactly when a reduced column is counted *)
(* for the first time.                                                     *)
LEMMA WorkerCounts ==
  ASSUME TypeOK, PhaseInv, QueueInv, HoldInv, ColumnsHandedOutOnce, CountInv,
         NEW t \in Threads, Worker(t)
  PROVE  CountInv'
<1>1. IsFiniteSet(Counted)
  BY ConstantsAreNatural, FS_Subset DEF Counted
<1>2. CASE CountColumn(t)
  <2>1. PICK c \in Columns : c = column_idx[t]
    BY <1>2 DEF CountColumn, HoldInv, InColumn
  <2>2. reduced[c] /\ c \in Uncounted
    BY <1>2, <2>1 DEF CountColumn, HoldInv, Uncounted
  <2>3. /\ UNCHANGED <<reduced, column_idx>> /\ completed' = completed + 1
        /\ pc[t] = "count" /\ pc' = [pc EXCEPT ![t] = "check"]
    BY <1>2 DEF CountColumn, GoTo
  <2>4. Uncounted' = Uncounted \ {c}
    <3>1. \A u \in Threads : pc'[u] = "count" <=> pc[u] = "count" /\ u # t
      BY <2>3 DEF TypeOK
    <3>2. \A u \in Threads : pc[u] = "count" /\ column_idx[u] = c => u = t
      BY <2>1, <2>3 DEF ColumnsHandedOutOnce, InColumn
    <3>3. QED
      BY <2>1, <2>3, <3>1, <3>2 DEF Uncounted
  <2>5. Counted' = Counted \cup {c} /\ c \notin Counted
    BY <2>2, <2>3, <2>4 DEF Counted
  <2>6. QED
    BY <1>1, <2>3, <2>5, FS_AddElement DEF CountInv
<1>3. CASE MarkReduced(t)
  <2>1. PICK c \in Columns : c = column_idx[t] /\ ~reduced[c]
    BY <1>3 DEF MarkReduced, HoldInv, InColumn
  <2>2. /\ UNCHANGED <<column_idx, completed>> /\ reduced' = [reduced EXCEPT ![c] = TRUE]
        /\ pc[t] = "mark" /\ pc' = [pc EXCEPT ![t] = "count"]
    BY <1>3, <2>1 DEF MarkReduced, GoTo
  <2>3. Uncounted' = Uncounted \cup {c}
    <3>1. \A u \in Threads : pc'[u] = "count" <=> pc[u] = "count" \/ u = t
      BY <2>2 DEF TypeOK
    <3>2. QED
      BY <2>1, <2>2, <3>1 DEF Uncounted
  <2>4. Counted' = Counted
    BY <2>1, <2>2, <2>3 DEF Counted, TypeOK
  <2>5. QED
    BY <2>2, <2>4 DEF CountInv
<1>4. CASE ~CountColumn(t) /\ ~MarkReduced(t)
  <2>1. UNCHANGED <<reduced, completed>>
    BY <1>4 DEF Worker, CheckCompleted, PopOwn, Steal, ScanOn, Pause, BeginColumn,
       ClaimApparent, LoadOwner, AddOwner, ClaimPivot
  <2>2. pc[t] # "count" /\ pc'[t] # "count"
    BY <1>4 DEF TypeOK, Worker, CheckCompleted, PopOwn, Steal, ScanOn, Pause, BeginColumn,
       ClaimApparent, LoadOwner, AddOwner, ClaimPivot, GoTo
  <2>3. \A u \in Threads : /\ pc'[u] = "count" <=> pc[u] = "count"
                           /\ pc[u] = "count" => column_idx'[u] = column_idx[u]
    BY <2>2, WorkerFrame
  <2>4. Uncounted' = Uncounted
    BY <2>3 DEF Uncounted
  <2>5. QED
    BY <2>1, <2>4 DEF CountInv, Counted
<1>5. QED
  BY <1>2, <1>3, <1>4

(* completed_columns reaches n_columns only when every column is reduced.  *)
LEMMA AllCounted ==
  ASSUME CountInv, completed >= NumColumns
  PROVE  \A c \in Columns : reduced[c]
<1>1. /\ Counted \subseteq Columns
      /\ Cardinality(Counted) <= NumColumns
      /\ Cardinality(Counted) = NumColumns => Counted = Columns
  BY ConstantsAreNatural, FS_Subset DEF Counted
<1>2. Cardinality(Counted) \in Nat
  BY <1>1, ConstantsAreNatural, FS_Subset, FS_CardinalityType
<1>3. Counted = Columns
  BY <1>1, <1>2, ConstantsAreNatural DEF CountInv
<1>4. QED
  BY <1>3 DEF Counted

LEMMA WorkerExits ==
  ASSUME TypeOK, PhaseInv, HoldInv, CountInv, ExitMeansAllReduced,
         NEW t \in Threads, Worker(t)
  PROVE  ExitMeansAllReduced'
<1>1. \A c \in Columns : reduced[c] => reduced'[c]
  BY WorkerWrites
<1>2. SUFFICES ASSUME NEW u \in Threads, pc'[u] = "exit"
               PROVE  \A c \in Columns : reduced[c]
  BY <1>1 DEF ExitMeansAllReduced
<1>3. CASE pc[u] = "exit"
  BY <1>3 DEF ExitMeansAllReduced
<1>4. CASE pc[u] # "exit"
  <2>1. u = t
    BY <1>2, <1>4, WorkerFrame
  <2>2. CheckCompleted(t) /\ ~(completed < NumColumns)
    BY <1>2, <1>4, <2>1 DEF TypeOK, Worker, CheckCompleted, PopOwn, Steal, ScanOn, Pause,
       BeginColumn, ClaimApparent, LoadOwner, AddOwner, ClaimPivot, MarkReduced,
       CountColumn, GoTo
  <2>3. QED
    BY <2>2, AllCounted, SizesAssumption DEF TypeOK
<1>5. QED
  BY <1>3, <1>4

(* Every part of the invariant, for a step of a worker.                    *)
LEMMA WorkerKeepsInvariant ==
  ASSUME IInv, NEW t \in Threads, Worker(t)
  PROVE  IInv'
<1> USE DEF IInv
<1>1. TypeOK'
  BY WorkerTypeOK
<1>2. PhaseInv' /\ SetupInv' /\ PostInv' /\ PairsInv'
  BY WorkerPhases
<1>3. HoldInv' /\ QueueInv' /\ ColumnsHandedOutOnce'
  BY WorkerHolds, WorkerHandsOutOnce
<1>4. OwnerSettled' /\ OwnerHasPivot' /\ WorkInv' /\ AddedColumnIsSettled'
  BY WorkerOwners, WorkerKnows, WorkerAddsSettled
<1>5. FinishedInv' /\ SupportInv' /\ CountInv' /\ ExitMeansAllReduced'
  BY WorkerFinishes, WorkerSupport, WorkerCounts, WorkerExits
<1>6. QED
  BY <1>1, <1>2, <1>3, <1>4, <1>5

----------------------------------------------------------------------------
(* The main thread keeps the invariant.                                    *)

(* Before the workers start they hold nothing and own nothing.             *)
LEMMA IdleWorkers ==
  ASSUME TypeOK, \A t \in Threads : pc[t] \in {"start", "check"},
         \A r \in Rows : pivot_to_column[r] = Unclaimed
  PROVE  /\ HoldInv /\ WorkInv /\ AddedColumnIsSettled /\ ExitMeansAllReduced
         /\ OwnerSettled /\ OwnerHasPivot
         /\ Uncounted = {}
         /\ \A c \in Columns : Finished(c) <=> reduced[c]
BY DEF HoldInv, WorkInv, AddedColumnIsSettled, ExitMeansAllReduced, OwnerSettled,
       OwnerHasPivot, Uncounted, Finished, InColumn, Unsettled

(* The columns waiting are the ones distributed so far, each once.         *)
LEMMA DistributeKeepsInvariant ==
  ASSUME IInv, CreditEmptyColumn \/ PushColumn \/ LaunchWorkers
  PROVE  IInv'
<1> USE DEF IInv
<1>1. /\ phase = "setup" /\ \A t \in Threads : pc[t] = "start"
      /\ \A t \in Threads : top[t] = 0 /\ bottom[t] <= next
      /\ \A t \in Threads, k \in Columns : Waiting(t, k) => buffer[t][k] < next
      /\ \A r \in Rows : pivot_to_column[r] = Unclaimed
      /\ \A c \in Columns : reduced[c] => c < next /\ indices[c] = {}
  BY DEF CreditEmptyColumn, PushColumn, LaunchWorkers, PhaseInv, SetupInv
<1>2. TypeOK'
  BY MainTypeOK DEF Main
<1>3. UNCHANGED <<boundary, indices, pivot_to_column, top, column_idx>>
  BY DEF CreditEmptyColumn, PushColumn, LaunchWorkers, queueVars, workerVars
<1>4. \A t \in Threads : pc'[t] \in {"start", "check"}
  BY <1>1 DEF CreditEmptyColumn, PushColumn, LaunchWorkers, workerVars
<1>5. Uncounted = {} /\ \A c \in Columns : Finished(c) <=> reduced[c]
  BY <1>1, IdleWorkers
<1>6. /\ HoldInv' /\ WorkInv' /\ AddedColumnIsSettled' /\ ExitMeansAllReduced'
      /\ OwnerSettled' /\ OwnerHasPivot'
      /\ Uncounted' = {}
      /\ \A c \in Columns : Finished(c)' <=> reduced'[c]
  <2>1. \A r \in Rows : pivot_to_column'[r] = Unclaimed
    BY <1>1, <1>3
  <2>2. QED
    BY <1>4, <2>1 DEF HoldInv, WorkInv, AddedColumnIsSettled, ExitMeansAllReduced,
       OwnerSettled, OwnerHasPivot, Uncounted, Finished, InColumn, Unsettled
<1>7. phase' \in {"setup", "workers"} /\ (phase' = "workers" <=> LaunchWorkers)
  BY <1>1 DEF CreditEmptyColumn, PushColumn, LaunchWorkers
<1>8. SupportInv' /\ PostInv' /\ PairsInv'
  BY <1>1, <1>3, <1>7 DEF SupportInv, PostInv, PairsInv
<1>9. PhaseInv'
  BY <1>1, <1>7 DEF PhaseInv, CreditEmptyColumn, PushColumn, LaunchWorkers, workerVars
<1>10. \A c \in Columns : reduced'[c] => indices'[c] = {}
  BY <1>1, PivotIsRow DEF CreditEmptyColumn, PushColumn, LaunchWorkers, TypeOK
<1>11. FinishedInv'
  BY <1>6, <1>10 DEF FinishedInv
<1>12. CASE CreditEmptyColumn
  <2>1. PICK c \in Columns : c = next
    BY <1>12, SizesAssumption DEF CreditEmptyColumn, TypeOK, Columns
  <2>2. /\ reduced' = [reduced EXCEPT ![c] = TRUE] /\ completed' = completed + 1
        /\ next' = next + 1 /\ UNCHANGED <<buffer, bottom, phase>>
    BY <1>12, <2>1 DEF CreditEmptyColumn, queueVars
  <2>3. ~reduced[c]
    BY <1>1, <2>1 DEF Columns
  <2>4. \A t \in Threads, k \in Columns : Waiting(t, k)' <=> Waiting(t, k)
    BY <1>3, <2>2 DEF Waiting
  <2>5. ColumnsHandedOutOnce'
    BY <1>4, <2>2, <2>4 DEF ColumnsHandedOutOnce, InColumn
  <2>6. QueueInv'
    <3>1. ASSUME NEW t \in Threads, NEW k \in Columns, Waiting(t, k)
          PROVE  buffer[t][k] \in Columns /\ ~reduced[buffer[t][k]] /\ buffer[t][k] # c
      BY <1>1, <2>1, <3>1 DEF QueueInv, Columns
    <3>2. QED
      BY <2>2, <2>4, <3>1 DEF QueueInv, TypeOK
  <2>7. CountInv'
    <3>1. Counted' = Counted \cup {c} /\ c \notin Counted
      BY <1>5, <1>6, <2>2, <2>3 DEF Counted, TypeOK
    <3>2. IsFiniteSet(Counted)
      BY ConstantsAreNatural, FS_Subset DEF Counted
    <3>3. QED
      BY <2>2, <3>1, <3>2, FS_AddElement DEF CountInv
  <2>8. SetupInv'
    <3>1. next \in Int /\ next < next'
      BY <2>1, <2>2 DEF Columns
    <3>2. \A t \in Threads : top'[t] = 0 /\ bottom'[t] <= next'
      BY <1>1, <1>3, <2>2, <3>1 DEF TypeOK
    <3>3. ASSUME NEW t \in Threads, NEW k \in Columns, Waiting(t, k)'
          PROVE  buffer'[t][k] < next'
      <4>1. buffer[t][k] \in Int /\ buffer[t][k] < next
        BY <1>1, <2>4, <3>3 DEF QueueInv, Columns
      <4>2. QED
        BY <2>2, <3>1, <4>1
    <3>4. \A d \in Columns : reduced'[d] => d < next'
      BY <1>1, <2>1, <2>2, <3>1 DEF TypeOK, Columns
    <3>5. QED
      BY <1>1, <1>3, <1>10, <3>2, <3>3, <3>4 DEF SetupInv
  <2>9. QED
    BY <1>2, <1>6, <1>8, <1>9, <1>11, <2>5, <2>6, <2>7, <2>8
<1>13. CASE PushColumn
  <2>1. PICK c \in Columns : c = next
    BY <1>13, SizesAssumption DEF PushColumn, TypeOK, Columns
  <2>2. PICK q \in Threads : q = next % NumThreads
    BY <2>1, SizesAssumption DEF Threads, Columns
  <2>3. PICK b \in Columns : b = bottom[q]
    <3>1. bottom[q] \in Nat /\ bottom[q] <= next /\ next < NumColumns
      BY <1>1, <2>1, SizesAssumption DEF TypeOK, Columns
    <3>2. QED
      BY <2>1, <3>1, SizesAssumption DEF Columns
  <2>4. /\ buffer' = [buffer EXCEPT ![q][b] = c]
        /\ bottom' = [bottom EXCEPT ![q] = b + 1]
        /\ next' = next + 1 /\ UNCHANGED <<reduced, completed, phase>>
    BY <1>13, <2>1, <2>2, <2>3 DEF PushColumn
  <2>5. ~reduced[c]
    BY <1>1, <2>1 DEF Columns
  <2>6. ASSUME NEW t \in Threads, NEW k \in Columns, Waiting(t, k)'
        PROVE  \/ t = q /\ k = b /\ buffer'[t][k] = c
               \/ /\ Waiting(t, k) /\ buffer'[t][k] = buffer[t][k]
                  /\ buffer[t][k] \in Columns /\ buffer[t][k] # c /\ buffer[t][k] < next
                  /\ ~reduced[buffer[t][k]]
    <3>1. CASE t = q /\ k = b
      BY <2>4, <3>1 DEF TypeOK
    <3>2. CASE ~(t = q /\ k = b)
      <4>1. Waiting(t, k)
        <5>1. CASE t = q
          BY <1>3, <2>3, <2>4, <2>6, <3>2, <5>1 DEF Waiting, TypeOK, Columns
        <5>2. CASE t # q
          BY <1>3, <2>4, <2>6, <5>2 DEF Waiting, TypeOK
        <5>3. QED
          BY <5>1, <5>2
      <4>2. buffer'[t][k] = buffer[t][k]
        BY <2>4, <3>2 DEF TypeOK
      <4>3. buffer[t][k] \in Columns /\ buffer[t][k] < next /\ ~reduced[buffer[t][k]]
        BY <1>1, <4>1 DEF QueueInv
      <4>4. QED
        BY <2>1, <4>1, <4>2, <4>3 DEF Columns
    <3>3. QED
      BY <3>1, <3>2
  <2>7. ColumnsHandedOutOnce'
    <3>1. ASSUME NEW t \in Threads, NEW u \in Threads, NEW k \in Columns, NEW l \in Columns,
                 Waiting(t, k)', Waiting(u, l)', buffer'[t][k] = buffer'[u][l]
          PROVE  t = u /\ k = l
      BY <2>6, <3>1 DEF ColumnsHandedOutOnce
    <3>2. QED
      BY <1>4, <3>1 DEF ColumnsHandedOutOnce, InColumn
  <2>8. \A t \in Threads : bottom'[t] <= next' /\ next' <= NumColumns
    <3>1. next \in Int /\ next + 1 <= NumColumns
      BY <2>1, SizesAssumption DEF Columns
    <3>2. b \in Int /\ b <= next
      BY <1>1, <2>3 DEF Columns
    <3>3. ASSUME NEW t \in Threads
          PROVE  bottom'[t] <= next + 1
      <4>1. CASE t = q
        BY <2>4, <3>1, <3>2, <4>1 DEF TypeOK
      <4>2. CASE t # q
        BY <1>1, <2>4, <3>1, <4>2 DEF TypeOK
      <4>3. QED
        BY <4>1, <4>2
    <3>4. QED
      BY <2>4, <3>1, <3>3
  <2>9. QueueInv'
    <3>1. \A t \in Threads : bottom'[t] <= NumColumns
      BY <1>2, <2>8, SizesAssumption DEF TypeOK
    <3>2. QED
      BY <2>4, <2>5, <2>6, <3>1 DEF QueueInv
  <2>10. CountInv'
    BY <1>5, <1>6, <2>4 DEF CountInv, Counted
  <2>11. SetupInv'
    <3>1. ASSUME NEW t \in Threads, NEW k \in Columns, Waiting(t, k)'
          PROVE  buffer'[t][k] < next'
      BY <2>1, <2>4, <2>6, <3>1 DEF Columns
    <3>2. \A d \in Columns : reduced'[d] => d < next'
      BY <1>1, <2>1, <2>4 DEF Columns
    <3>3. QED
      BY <1>1, <1>3, <1>10, <2>8, <3>1, <3>2 DEF SetupInv
  <2>12. QED
    BY <1>2, <1>6, <1>8, <1>9, <1>11, <2>7, <2>9, <2>10, <2>11
<1>14. CASE LaunchWorkers
  <2>1. UNCHANGED <<buffer, bottom, reduced, completed>> /\ phase' = "workers"
    BY <1>14 DEF LaunchWorkers, queueVars
  <2>2. \A t \in Threads, k \in Columns : Waiting(t, k)' <=> Waiting(t, k)
    BY <1>3, <2>1 DEF Waiting
  <2>3. ColumnsHandedOutOnce' /\ QueueInv'
    BY <1>4, <2>1, <2>2 DEF ColumnsHandedOutOnce, QueueInv, InColumn
  <2>4. CountInv' /\ SetupInv'
    BY <1>5, <1>6, <2>1 DEF CountInv, Counted, SetupInv
  <2>5. QED
    BY <1>2, <1>6, <1>8, <1>9, <1>11, <2>3, <2>4
<1>15. QED
  BY <1>12, <1>13, <1>14

(* After the join nothing the workers used changes any more; what is left  *)
(* of the invariant is about the main thread's own variables.              *)
LEMMA JoinedKeepsInvariant ==
  ASSUME IInv, TypeOK',
         phase \in {"workers", "postpass", "cascade", "done"},
         phase' \in {"postpass", "cascade", "done"},
         \A t \in Threads : pc[t] = "exit",
         UNCHANGED <<reduced, pivot_to_column, queueVars, completed, workerVars>>,
         PhaseInv', PostInv', PairsInv'
  PROVE  IInv'
<1> USE DEF IInv
<1>1. SetupInv' /\ OwnerHasPivot' /\ FinishedInv' /\ SupportInv'
  BY DEF SetupInv, OwnerHasPivot, FinishedInv, SupportInv
<1>2. \A t \in Threads, k \in Columns : Waiting(t, k)' <=> Waiting(t, k)
  BY DEF Waiting, queueVars
<1>3. UNCHANGED <<pc, column_idx, current, buffer, bottom, reduced, completed, pivot_to_column>>
  BY DEF workerVars, queueVars
<1>4. \A c \in Columns : Queued(c)' <=> Queued(c)
  BY <1>2, <1>3 DEF Queued
<1>5. QueueInv' /\ HoldInv' /\ CountInv' /\ ExitMeansAllReduced'
  BY <1>2, <1>3 DEF QueueInv, HoldInv, CountInv, Counted, Uncounted, ExitMeansAllReduced
<1>6. WorkInv' /\ AddedColumnIsSettled'
  BY <1>3 DEF WorkInv, AddedColumnIsSettled
<1>7. ColumnsHandedOutOnce'
  BY <1>2, <1>3 DEF ColumnsHandedOutOnce, InColumn
<1>8. OwnerSettled'
  <2>1. \A c \in Columns : Settled(c) => Settled(c)'
    BY <1>3, <1>4 DEF Settled
  <2>2. ASSUME NEW r \in Rows, pivot_to_column[r] # Unclaimed
        PROVE  Settled(pivot_to_column[r])'
    <3>1. PICK c \in Columns : c = pivot_to_column[r]
      BY <2>2 DEF TypeOK
    <3>2. QED
      BY <1>3, <2>1, <2>2, <3>1 DEF OwnerSettled
  <2>3. QED
    BY <1>3, <2>2 DEF OwnerSettled
<1>9. QED
  BY <1>1, <1>5, <1>6, <1>7, <1>8

(* At the join every column is finished, so the table is consistent.       *)
LEMMA JoinKeepsInvariant ==
  ASSUME IInv, JoinWorkers
  PROVE  IInv'
<1> USE DEF IInv
<1>1. TypeOK'
  BY MainTypeOK DEF Main
<1>2. /\ phase = "workers" /\ phase' = "postpass" /\ next' = 0
      /\ pivot_map' = pivot_to_column /\ \A t \in Threads : pc[t] = "exit"
      /\ UNCHANGED <<indices, reduced, pivot_to_column, queueVars, completed, workerVars>>
  BY DEF JoinWorkers
<1>3. \A c \in Columns : Finished(c)
  <2>1. PICK t \in Threads : pc[t] = "exit"
    BY <1>2, SizesAssumption DEF Threads
  <2>2. QED
    BY <2>1 DEF ExitMeansAllReduced, Finished
<1>4. PhaseInv' /\ PairsInv'
  BY <1>2 DEF PhaseInv, PairsInv, workerVars
<1>5. PostInv'
  <2>1. \A r \in Rows : pivot_map'[r] # Unclaimed => Pivot(pivot_map[r])' = r
    BY <1>2 DEF OwnerHasPivot, Pivot
  <2>2. ASSUME NEW c \in Columns, indices'[c] # {}
        PROVE  ~(c < next') /\ pivot_map'[Pivot(c)'] \in 0 .. c
    <3>1. ~(c < next')
      BY <1>2 DEF Columns
    <3>2. pivot_to_column[Pivot(c)] \in 0 .. c
      BY <1>2, <1>3, <2>2 DEF FinishedInv
    <3>3. QED
      BY <1>2, <3>1, <3>2 DEF Pivot
  <2>3. QED
    BY <1>2, <2>1, <2>2 DEF PostInv, Pivot
<1>6. QED
  BY <1>1, <1>2, <1>4, <1>5, JoinedKeepsInvariant

(* A stolen column owns no pivot, so rewriting it misleads no lookup.      *)
LEMMA StolenOwnsNothing ==
  ASSUME TypeOK, PhaseInv, PostInv, phase = "cascade"
  PROVE  /\ next \in Columns /\ indices[next] # {}
         /\ \A r \in Rows : pivot_map[r] # next
<1>1. next \in Columns /\ Pivot(next) # NoPivot /\ pivot_map[Pivot(next)] < next
  BY SizesAssumption DEF PhaseInv, Stolen, TypeOK, Columns
<1>2. next # Unclaimed /\ ~(next < next)
  BY <1>1 DEF Columns, Unclaimed
<1>3. \A r \in Rows : pivot_map[r] # next
  BY <1>1, <1>2 DEF PostInv
<1>4. QED
  BY <1>1, <1>3, PivotIsRow

(* One column of the post-pass is settled: next moves on.                  *)
LEMMA PostPassKeepsInvariant ==
  ASSUME IInv, KeepColumn \/ BeginCascade \/ CascadeAdd \/ CascadeSettle
                 \/ CascadeClear \/ ExtractPairs
  PROVE  IInv'
<1> USE DEF IInv
<1>1. TypeOK'
  BY MainTypeOK DEF Main
<1>2. /\ phase \in {"postpass", "cascade"} /\ phase' \in {"postpass", "cascade", "done"}
      /\ UNCHANGED <<reduced, pivot_to_column, queueVars, completed, workerVars>>
      /\ \A t \in Threads : pc[t] = "exit" /\ pc'[t] = "exit"
  BY DEF KeepColumn, BeginCascade, CascadeAdd, CascadeSettle, CascadeClear, ExtractPairs,
         EndCascade, PhaseInv, workerVars, queueVars, mainVars
<1>3. SUFFICES PhaseInv' /\ PostInv' /\ PairsInv'
  BY <1>1, <1>2, JoinedKeepsInvariant
<1>4. \A c \in Columns : c \in Nat
  BY DEF Columns
<1>5. /\ \A r \in Rows : pivot_map[r] # Unclaimed => Pivot(pivot_map[r]) = r
      /\ \A r \in Rows :
           pivot_to_column[r] # Unclaimed => pivot_map[r] = pivot_to_column[r]
      /\ \A c \in Columns : indices[c] # {} =>
           /\ c < next => pivot_map[Pivot(c)] = c
           /\ c >= next => pivot_map[Pivot(c)] \in 0 .. c
  BY <1>2 DEF PostInv
<1>6. CASE KeepColumn
  <2>1. PICK n \in Columns : n = next /\ ~Stolen(n)
    BY <1>6, SizesAssumption DEF KeepColumn, TypeOK, Columns
  <2>2. next' = n + 1 /\ UNCHANGED <<phase, indices, pivot_map>> /\ phase = "postpass"
    BY <1>6, <2>1 DEF KeepColumn, mainVars
  <2>3. indices[n] # {} => pivot_map[Pivot(n)] = n
    <3>1. SUFFICES ASSUME indices[n] # {} PROVE pivot_map[Pivot(n)] = n
      OBVIOUS
    <3>2. pivot_map[Pivot(n)] \in 0 .. n
      BY <1>4, <1>5, <2>1, <3>1
    <3>3. ~(pivot_map[Pivot(n)] < n)
      BY <2>1, <3>1, <3>2, PivotIsRow DEF Stolen, Unclaimed
    <3>4. QED
      BY <1>4, <3>2, <3>3
  <2>4. \A c \in Columns : /\ c < n + 1 => c < n \/ c = n
                           /\ c >= n + 1 => c >= n
    BY <1>4
  <2>5. ASSUME NEW c \in Columns, indices[c] # {}
        PROVE  /\ c < n + 1 => pivot_map[Pivot(c)] = c
               /\ c >= n + 1 => pivot_map[Pivot(c)] \in 0 .. c
    BY <1>5, <2>1, <2>3, <2>4, <2>5
  <2>6. PostInv'
    BY <1>2, <1>5, <2>2, <2>5 DEF PostInv, Pivot
  <2>7. QED
    BY <1>2, <2>2, <2>6 DEF PhaseInv, PairsInv
<1>7. CASE BeginCascade
  <2>1. UNCHANGED <<next, indices, pivot_map>> /\ phase' = "cascade"
        /\ next < NumColumns /\ Stolen(next)
    BY <1>7 DEF BeginCascade
  <2>2. QED
    BY <1>2, <1>5, <2>1 DEF PhaseInv, PostInv, PairsInv, Stolen, Pivot
<1>8. CASE CascadeAdd
  <2>1. UNCHANGED <<next, phase, indices, pivot_map>> /\ phase = "cascade"
    BY <1>8 DEF CascadeAdd
  <2>2. QED
    BY <1>2, <1>5, <2>1 DEF PhaseInv, PostInv, PairsInv, Stolen, Pivot
<1>9. CASE CascadeSettle
  <2>1. PICK n \in Columns : n = next /\ indices[n] # {} /\ \A r \in Rows : pivot_map[r] # n
    BY <1>9, StolenOwnsNothing DEF CascadeSettle
  <2>2. PICK low \in Rows : low = Low(col_copy)
    BY <1>9, CascadeOwner DEF CascadeSettle
  <2>3. pivot_map[low] = Unclaimed /\ MsbOwner # n
    BY <1>9, <2>1, <2>2 DEF CascadeSettle, MsbOwner
  <2>4. /\ pivot_map' = [pivot_map EXCEPT ![low] = n]
        /\ indices' = [indices EXCEPT ![n] = col_copy]
        /\ next' = n + 1 /\ phase' = "postpass"
    BY <1>9, <2>1, <2>2, <2>3 DEF CascadeSettle, EndCascade
  <2>5. Pivot(n)' = low /\ \A c \in Columns \ {n} :
                             indices'[c] = indices[c] /\ Pivot(c)' = Pivot(c)
    BY <2>2, <2>4 DEF Pivot, TypeOK
  <2>6. pivot_map'[low] = n /\ \A r \in Rows \ {low} : pivot_map'[r] = pivot_map[r]
    BY <2>4 DEF TypeOK
  <2>7. ASSUME NEW r \in Rows, pivot_map'[r] # Unclaimed
        PROVE  Pivot(pivot_map[r])' = r
    <3>1. CASE r = low
      BY <2>5, <2>6, <3>1 DEF Pivot
    <3>2. CASE r # low
      <4>1. PICK c \in Columns \ {n} : c = pivot_map[r] /\ c = pivot_map'[r]
        BY <2>1, <2>6, <2>7, <3>2 DEF TypeOK
      <4>2. Pivot(c) = r
        BY <1>5, <2>6, <2>7, <3>2, <4>1
      <4>3. QED
        BY <2>5, <4>1, <4>2 DEF Pivot
    <3>3. QED
      BY <3>1, <3>2
  <2>8. \A r \in Rows : pivot_to_column'[r] # Unclaimed => pivot_map'[r] = pivot_to_column'[r]
    BY <1>2, <1>5, <2>3, <2>6
  <2>9. ASSUME NEW c \in Columns, indices'[c] # {}
        PROVE  /\ c < n + 1 => pivot_map'[Pivot(c)'] = c
               /\ c >= n + 1 => pivot_map'[Pivot(c)'] \in 0 .. c
    <3>1. CASE c = n
      BY <1>4, <2>5, <2>6, <3>1
    <3>2. CASE c # n
      <4>1. PICK r \in Rows : r = Pivot(c) /\ r = Pivot(c)'
        BY <2>5, <2>9, <3>2, PivotIsRow
      <4>2. /\ c < n => pivot_map[r] = c
            /\ c >= n => pivot_map[r] \in 0 .. c
        BY <1>5, <2>1, <2>5, <2>9, <3>2, <4>1
      <4>3. r # low
        BY <1>4, <2>3, <4>2 DEF Unclaimed
      <4>4. QED
        BY <1>4, <2>6, <3>2, <4>1, <4>2, <4>3
    <3>3. QED
      BY <3>1, <3>2
  <2>10. PostInv'
    BY <2>4, <2>7, <2>8, <2>9 DEF PostInv
  <2>11. QED
    BY <1>2, <2>4, <2>10 DEF PhaseInv, PairsInv
<1>10. CASE CascadeClear
  <2>1. PICK n \in Columns : n = next /\ indices[n] # {} /\ \A r \in Rows : pivot_map[r] # n
    BY <1>10, StolenOwnsNothing DEF CascadeClear
  <2>2. /\ UNCHANGED pivot_map /\ indices' = [indices EXCEPT ![n] = {}]
        /\ next' = n + 1 /\ phase' = "postpass"
    BY <1>10, <2>1 DEF CascadeClear, EndCascade
  <2>3. indices'[n] = {} /\ \A c \in Columns \ {n} :
                             indices'[c] = indices[c] /\ Pivot(c)' = Pivot(c)
    BY <2>2 DEF Pivot, TypeOK
  <2>4. ASSUME NEW r \in Rows, pivot_map'[r] # Unclaimed
        PROVE  Pivot(pivot_map[r])' = r
    <3>1. PICK c \in Columns \ {n} : c = pivot_map[r] /\ Pivot(c) = r
      BY <1>5, <2>1, <2>2, <2>4 DEF TypeOK
    <3>2. QED
      BY <2>2, <2>3, <3>1 DEF Pivot
  <2>5. ASSUME NEW c \in Columns, indices'[c] # {}
        PROVE  /\ c < n + 1 => pivot_map'[Pivot(c)'] = c
               /\ c >= n + 1 => pivot_map'[Pivot(c)'] \in 0 .. c
    <3>1. c # n /\ indices[c] # {} /\ Pivot(c)' = Pivot(c)
      BY <2>3, <2>5
    <3>2. (c < n + 1 => c < n) /\ (c >= n + 1 => c >= n)
      BY <1>4, <3>1
    <3>3. QED
      BY <1>5, <2>1, <2>2, <3>1, <3>2
  <2>6. PostInv'
    BY <1>2, <1>5, <2>2, <2>4, <2>5 DEF PostInv
  <2>7. QED
    BY <1>2, <2>2, <2>6 DEF PhaseInv, PairsInv
<1>11. CASE ExtractPairs
  <2>1. /\ UNCHANGED <<next, indices, pivot_map>> /\ phase' = "done" /\ next = NumColumns
        /\ pairs' = {<<Pivot(c), c>> : c \in {d \in Columns : Reported(d)}}
    BY <1>11 DEF ExtractPairs
  <2>2. PairsInv'
    BY <2>1 DEF PairsInv, Pivot
  <2>3. QED
    BY <1>2, <1>5, <2>1, <2>2 DEF PhaseInv, PostInv, Pivot
<1>12. QED
  BY <1>6, <1>7, <1>8, <1>9, <1>10, <1>11

----------------------------------------------------------------------------
(* The inductive invariant, and what follows from it.                      *)

LEMMA InitInvariant == Init => IInv
<1> SUFFICES ASSUME Init PROVE IInv
  OBVIOUS
<1>1. TypeOK
  BY InitTypeOK
<1>2. /\ phase = "setup" /\ next = 0 /\ completed = 0 /\ indices = boundary
      /\ \A t \in Threads : pc[t] = "start" /\ top[t] = 0 /\ bottom[t] = 0
      /\ \A c \in Columns : ~reduced[c]
      /\ \A r \in Rows : pivot_to_column[r] = Unclaimed
  BY DEF Init
<1>3. HoldInv /\ WorkInv /\ AddedColumnIsSettled /\ ExitMeansAllReduced /\ OwnerSettled
      /\ OwnerHasPivot /\ Uncounted = {} /\ \A c \in Columns : ~Finished(c)
  BY <1>1, <1>2, IdleWorkers
<1>4. \A t \in Threads, k \in Columns : ~Waiting(t, k)
  BY <1>2 DEF Waiting, Columns
<1>5. QueueInv /\ SetupInv /\ ColumnsHandedOutOnce
  BY <1>2, <1>4, SizesAssumption DEF QueueInv, SetupInv, ColumnsHandedOutOnce, InColumn
<1>6. PhaseInv /\ FinishedInv /\ PostInv /\ PairsInv
  BY <1>2, <1>3 DEF PhaseInv, FinishedInv, PostInv, PairsInv
<1>7. SupportInv
  <2>1. \A c \in Columns : c <= c
    BY SizesAssumption DEF Columns
  <2>2. QED
    BY <1>2, <2>1 DEF SupportInv
<1>8. CountInv
  <2>1. Counted = {}
    BY <1>2, <1>3 DEF Counted
  <2>2. QED
    BY <1>2, <2>1, FS_EmptySet DEF CountInv
<1>9. QED
  BY <1>1, <1>3, <1>5, <1>6, <1>7, <1>8 DEF IInv

LEMMA NextInvariant == IInv /\ [Next]_vars => IInv'
<1> SUFFICES ASSUME IInv, [Next]_vars PROVE IInv'
  OBVIOUS
<1>1. CASE Main
  BY <1>1, DistributeKeepsInvariant, JoinKeepsInvariant, PostPassKeepsInvariant DEF Main
<1>2. CASE \E t \in Threads : Worker(t)
  BY <1>2, WorkerKeepsInvariant
<1>3. CASE Returned \/ UNCHANGED vars
  <2> USE <1>3 DEF Returned, vars, queueVars, workerVars, mainVars, IInv
  <2>1. TypeOK'
    BY DEF TypeOK
  <2>2. PhaseInv' /\ PostInv' /\ PairsInv'
    BY DEF PhaseInv, Stolen, PostInv, PairsInv, Pivot
  <2>3. SetupInv' /\ QueueInv' /\ HoldInv' /\ WorkInv'
    BY DEF SetupInv, QueueInv, HoldInv, WorkInv, Waiting
  <2>4. ColumnsHandedOutOnce'
    BY DEF ColumnsHandedOutOnce, Queued, Waiting
  <2>5. OwnerSettled' /\ OwnerHasPivot' /\ AddedColumnIsSettled'
    BY DEF OwnerSettled, OwnerHasPivot, AddedColumnIsSettled, Settled, Queued, Waiting, Pivot
  <2>6. FinishedInv' /\ SupportInv'
    BY DEF FinishedInv, Finished, SupportInv, Pivot
  <2>7. CountInv' /\ ExitMeansAllReduced'
    BY DEF CountInv, Counted, Uncounted, ExitMeansAllReduced
  <2>8. QED
    BY <2>1, <2>2, <2>3, <2>4, <2>5, <2>6, <2>7
<1>4. QED
  BY <1>1, <1>2, <1>3 DEF Next

(* The invariant holds in every reachable state of the reducer.            *)
THEOREM Invariant == Spec => []IInv
BY InitInvariant, NextInvariant, PTL DEF Spec

(* Every variable keeps its type, whatever the matrix and the schedule.    *)
THEOREM TypeCorrect == Spec => []TypeOK
<1>1. IInv => TypeOK
  BY DEF IInv
<1>2. QED
  BY <1>1, Invariant, PTL

(* The work-stealing distribution hands every column to one worker.        *)
THEOREM HandedOutOnce == Spec => []ColumnsHandedOutOnce
<1>1. IInv => ColumnsHandedOutOnce
  BY DEF IInv
<1>2. QED
  BY <1>1, Invariant, PTL

(* The pivot table never lies: what a worker adds cancels its pivot.       *)
THEOREM TableIsTrue == Spec => []OwnerHasPivot
<1>1. IInv => OwnerHasPivot
  BY DEF IInv
<1>2. QED
  BY <1>1, Invariant, PTL

(* The reducer has no data race on the columns although no lock guards     *)
(* them: what addColumnLockfree reads is written by nobody.                *)
THEOREM NoColumnRace == Spec => []AddedColumnIsSettled
<1>1. IInv => AddedColumnIsSettled
  BY DEF IInv
<1>2. QED
  BY <1>1, Invariant, PTL

(* "Lowest column index always wins" for every column that is reduced.     *)
THEOREM LowestWins == Spec => []LowestIndexOwns
<1>1. IInv => LowestIndexOwns
  <2>1. TypeOK /\ FinishedInv => LowestIndexOwns
    <3>1. SUFFICES ASSUME TypeOK, FinishedInv, phase = "workers", NEW c \in Columns,
                          reduced[c], Pivot(c) # NoPivot
                   PROVE  pivot_to_column[Pivot(c)] \in 0 .. c
      BY DEF LowestIndexOwns
    <3>2. indices[c] # {}
      BY <3>1, PivotIsRow
    <3>3. QED
      BY <3>1, <3>2 DEF FinishedInv, Finished
  <2>2. QED
    BY <2>1 DEF IInv
<1>2. QED
  BY <1>1, Invariant, PTL

(* A worker that has left has seen all columns reduced.                    *)
THEOREM ExitsAreSafe == Spec => []ExitMeansAllReduced
<1>1. IInv => ExitMeansAllReduced
  BY DEF IInv
<1>2. QED
  BY <1>1, Invariant, PTL

(* The post-pass leaves every pivot to one column: no birth is reported    *)
(* twice.                                                                  *)
THEOREM NoBirthTwice == Spec => []BirthsDistinct
<1>1. IInv => BirthsDistinct
  <2>1. SUFFICES ASSUME IInv, phase = "done", NEW p \in pairs, NEW q \in pairs, p[1] = q[1]
                 PROVE  p = q
    BY DEF BirthsDistinct
  <2>2. ASSUME NEW s \in pairs
        PROVE  /\ s = <<s[1], s[2]>> /\ pivot_map[s[1]] = s[2]
    <3>1. s \in Rows \X Columns /\ s[1] = Pivot(s[2])
      BY <2>1 DEF IInv, TypeOK, PairsInv
    <3>2. s[2] \in Columns /\ s[1] \in Rows /\ s[1] # NoPivot
      BY <3>1, SizesAssumption DEF Rows, NoPivot
    <3>3. indices[s[2]] # {} /\ s[2] < next
      BY <2>1, <3>1, <3>2, PivotIsRow, SizesAssumption DEF IInv, PhaseInv, Columns
    <3>4. pivot_map[Pivot(s[2])] = s[2]
      BY <2>1, <3>2, <3>3 DEF IInv, PostInv
    <3>5. QED
      BY <3>1, <3>4
  <2>3. QED
    BY <2>1, <2>2
<1>2. QED
  BY <1>1, Invariant, PTL

(* Whoever wins the races, a pivot is only ever handed to an earlier       *)
(* column.                                                                 *)
THEOREM OwnersDecrease == Spec => OwnersOnlyDecrease
<1>1. ASSUME IInv, Next, NEW r \in Rows, pivot_to_column'[r] # pivot_to_column[r]
      PROVE  /\ pivot_to_column'[r] # Unclaimed
             /\ \/ pivot_to_column[r] = Unclaimed
                \/ pivot_to_column'[r] < pivot_to_column[r]
  <2>1. PICK t \in Threads : Worker(t)
    BY <1>1 DEF Next, Main, CreditEmptyColumn, PushColumn, LaunchWorkers, JoinWorkers,
       KeepColumn, BeginCascade, CascadeAdd, CascadeSettle, CascadeClear, ExtractPairs,
       Returned, vars
  <2>2. /\ pc[t] \in {"apparent", "claim"} /\ pivot_to_column'[r] = column_idx[t]
        /\ pc[t] = "apparent" => pivot_to_column[r] = Unclaimed
        /\ pc[t] = "claim" => pivot_to_column[r] = current[t]
    BY <1>1, <2>1, WorkerWrites DEF IInv
  <2>3. column_idx[t] \in Columns
    BY <1>1, <2>2 DEF IInv, HoldInv, InColumn
  <2>4. pc[t] = "claim" => current[t] = Unclaimed \/ current[t] > column_idx[t]
    BY <1>1 DEF IInv, WorkInv
  <2>5. current[t] \in Int /\ column_idx[t] \in Int /\ column_idx[t] # Unclaimed
    BY <1>1, <2>3 DEF IInv, TypeOK, Columns, Unclaimed
  <2>6. QED
    BY <2>2, <2>4, <2>5
<1>2. IInv /\ [Next]_vars =>
        [\A r \in Rows :
           pivot_to_column'[r] # pivot_to_column[r] =>
             /\ pivot_to_column'[r] # Unclaimed
             /\ \/ pivot_to_column[r] = Unclaimed
                \/ pivot_to_column'[r] < pivot_to_column[r]]_vars
  BY <1>1
<1>3. QED
  BY <1>2, Invariant, PTL DEF Spec, OwnersOnlyDecrease

(* A column that may be added by others is never written again while the   *)
(* workers run.                                                            *)
THEOREM SettledFrozen == Spec => SettledColumnsFrozen
<1>1. ASSUME IInv, Next, phase = "workers", NEW c \in Columns, Settled(c)
      PROVE  indices'[c] = indices[c] /\ Settled(c)'
  <2>1. CASE JoinWorkers
    BY <1>1, <2>1 DEF JoinWorkers, queueVars, workerVars, Settled, Queued, Waiting
  <2>2. CASE \E t \in Threads : Worker(t)
    BY <1>1, <2>2, SettledStable DEF IInv
  <2>3. QED
    BY <1>1, <2>1, <2>2 DEF Next, Main, CreditEmptyColumn, PushColumn, LaunchWorkers,
       KeepColumn, BeginCascade, CascadeAdd, CascadeSettle, CascadeClear, ExtractPairs,
       Returned
<1>2. IInv /\ [Next]_vars =>
        [phase = "workers" =>
           \A c \in Columns : Settled(c) => indices'[c] = indices[c] /\ Settled(c)']_vars
  BY <1>1
<1>3. QED
  BY <1>2, Invariant, PTL DEF Spec, SettledColumnsFrozen

(* An apparent pair is never undone, neither by a worker nor by the        *)
(* post-pass.                                                              *)
THEOREM ApparentFinal == Spec => ApparentPairsFinal
<1>1. ASSUME IInv, Next, NEW r \in Rows, pivot_to_column[r] # Unclaimed,
             IsApparentPair(r, pivot_to_column[r])
      PROVE  /\ pivot_to_column'[r] = pivot_to_column[r]
             /\ indices'[pivot_to_column[r]] = indices[pivot_to_column[r]]
  <2>1. PICK c \in Columns : c = pivot_to_column[r]
    BY <1>1 DEF IInv, TypeOK
  <2>2. CASE \E t \in Threads : Worker(t)
    <3>1. PICK t \in Threads : Worker(t)
      BY <2>2
    <3>2. phase = "workers"
      BY <1>1, <3>1, WorkerFrame DEF IInv
    <3>3. indices'[c] = indices[c]
      BY <1>1, <2>1, <3>1, SettledStable DEF IInv, OwnerSettled
    <3>4. pivot_to_column'[r] = pivot_to_column[r]
      <4>1. SUFFICES ASSUME pivot_to_column'[r] # pivot_to_column[r] PROVE FALSE
        OBVIOUS
      <4>2. /\ pc[t] = "claim" /\ r = Pivot(column_idx[t]) /\ c = current[t]
        BY <1>1, <2>1, <3>1, <4>1, WorkerWrites DEF IInv
      <4>3. PICK d \in Columns : d = column_idx[t] /\ c > d /\ r \in indices[d]
        <5>1. PICK d \in Columns : d = column_idx[t]
          BY <1>1, <4>2 DEF IInv, HoldInv, InColumn
        <5>2. c > d
          BY <1>1, <2>1, <4>2, <5>1 DEF IInv, WorkInv
        <5>3. indices[d] # {}
          BY <1>1, <4>2, <5>1 DEF IInv, WorkInv
        <5>4. r \in indices[d]
          BY <1>1, <4>2, <5>1, <5>3, PivotIsRow DEF IInv
        <5>5. QED
          BY <5>1, <5>2, <5>4
      <4>4. PICK e \in Columns : e <= d /\ r \in boundary[e]
        BY <1>1, <3>2, <4>3 DEF IInv, SupportInv
      <4>5. Cofacets(boundary, r) \in SUBSET Nat /\ e \in Cofacets(boundary, r)
        BY <1>1, <4>4 DEF IInv, TypeOK, Cofacets, Columns
      <4>6. Min(Cofacets(boundary, r)) = c
        BY <1>1, <2>1 DEF IsApparentPair
      <4>7. c <= e
        BY <4>5, <4>6, MinIsLeast
      <4>8. QED
        BY <4>3, <4>4, <4>7, SizesAssumption DEF Columns
    <3>5. QED
      BY <2>1, <3>3, <3>4
  <2>3. CASE phase = "cascade"
    <3>1. pivot_map[r] = c /\ c # next
      BY <1>1, <2>1, <2>3, StolenOwnsNothing DEF IInv, PostInv
    <3>2. \A t \in Threads : ~Worker(t)
      BY <1>1, <2>3, WorkerFrame DEF IInv
    <3>3. CascadeAdd \/ CascadeSettle \/ CascadeClear
      BY <1>1, <2>3, <3>2 DEF Next, Main, CreditEmptyColumn, PushColumn, LaunchWorkers,
         JoinWorkers, KeepColumn, BeginCascade, ExtractPairs, Returned
    <3>4. /\ UNCHANGED pivot_to_column
          /\ UNCHANGED indices \/ \E s \in SUBSET Rows : indices' = [indices EXCEPT ![next] = s]
      BY <1>1, <3>3 DEF CascadeAdd, CascadeSettle, CascadeClear, IInv, TypeOK
    <3>5. indices'[c] = indices[c]
      BY <1>1, <3>1, <3>4 DEF IInv, TypeOK
    <3>6. QED
      BY <2>1, <3>4, <3>5
  <2>4. QED
    BY <1>1, <2>1, <2>2, <2>3 DEF Next, Main, CreditEmptyColumn, PushColumn,
       LaunchWorkers, JoinWorkers, KeepColumn, BeginCascade, CascadeAdd, CascadeSettle,
       CascadeClear, ExtractPairs, Returned, vars
<1>2. IInv /\ [Next]_vars =>
        [\A r \in Rows :
           LET c == pivot_to_column[r] IN
             c # Unclaimed /\ IsApparentPair(r, c) =>
               pivot_to_column'[r] = c /\ indices'[c] = indices[c]]_vars
  BY <1>1
<1>3. QED
  BY <1>2, Invariant, PTL DEF Spec, ApparentPairsFinal

----------------------------------------------------------------------------
(***************************************************************************)
(* The result.  On top of IInv, what the columns span is never changed,    *)
(* and a cascade gets to its end before max_iter cuts it off.              *)
(***************************************************************************)

(* The span of all columns, and while workers run of every prefix.         *)
SpanInv ==
  /\ phase \in {"setup", "workers"} =>
       \A k \in 0 .. NumColumns : PrefixSpan(indices, k) = PrefixSpan(boundary, k)
  /\ PrefixSpan(indices, NumColumns) = PrefixSpan(boundary, NumColumns)

(* The columns whose pivot a cascade has left behind.                      *)
Passed == {c \in Columns \ {next} : Pivot(c) > Low(col_copy)}

(* The working column of a cascade differs from column next by other       *)
(* columns, and every iteration has left one more pivot behind.            *)
CascadeInv ==
  phase = "cascade" =>
    /\ AddColumn(indices[next], col_copy)
         \in PrefixSpan([indices EXCEPT ![next] = {}], NumColumns)
    /\ iter <= Cardinality(Passed)

ReportInv ==
  phase = "done" =>
    pairs = {<<Pivot(c), c>> : c \in {d \in Columns : Reported(d)}}

ResultInv == SpanInv /\ CascadeInv /\ ReportInv

LEMMA PassedIsFinite ==
  ASSUME IInv, phase = "cascade"
  PROVE  /\ IsFiniteSet(Passed) /\ Cardinality(Passed) \in Nat
         /\ Cardinality(Passed) <= NumColumns - 1
<1>1. next \in Columns
  BY StolenOwnsNothing DEF IInv
<1>2. IsFiniteSet(Columns \ {next}) /\ Cardinality(Columns \ {next}) = NumColumns - 1
  BY <1>1, ConstantsAreNatural, FS_RemoveElement
<1>3. Passed \in SUBSET (Columns \ {next})
  BY DEF Passed
<1>4. QED
  BY <1>2, <1>3, FS_Subset, FS_CardinalityType

(* max_iter = n_columns is never reached.                                  *)
LEMMA IterationsSuffice ==
  ASSUME IInv, CascadeInv, phase = "cascade"
  PROVE  iter < NumColumns
<1>1. iter <= Cardinality(Passed)
  BY DEF CascadeInv
<1>2. iter \in Int /\ NumColumns \in Int
  BY ConstantsAreNatural DEF IInv, TypeOK
<1>3. QED
  BY <1>1, <1>2, PassedIsFinite

LEMMA InitResult == Init => ResultInv
BY DEF Init, ResultInv, SpanInv, CascadeInv, ReportInv

LEMMA WorkerKeepsResult ==
  ASSUME IInv, ResultInv, NEW t \in Threads, Worker(t)
  PROVE  ResultInv'
<1> USE DEF IInv
<1>1. phase = "workers" /\ UNCHANGED <<boundary, phase>>
  BY WorkerFrame
<1>2. CascadeInv' /\ ReportInv'
  BY <1>1 DEF CascadeInv, ReportInv
<1>3. SUFFICES ASSUME NEW k \in 0 .. NumColumns
               PROVE  PrefixSpan(indices', k) = PrefixSpan(indices, k)
  <2>1. NumColumns \in 0 .. NumColumns
    BY ConstantsAreNatural
  <2>2. QED
    BY <1>1, <1>2, <1>3, <2>1 DEF ResultInv, SpanInv
<1>4. CASE AddOwner(t)
  <2> DEFINE c == column_idx[t]
             d == current[t]
  <2>1. indices' = [indices EXCEPT ![c] = AddColumn(@, indices[d])] /\ pc[t] = "add"
    BY <1>4 DEF AddOwner
  <2>2. c \in Columns /\ d \in Columns /\ d < c
    BY <2>1 DEF HoldInv, WorkInv, InColumn
  <2>3. indices \in [0 .. NumColumns - 1 -> SUBSET Rows] /\ NumColumns \in Nat
    BY ConstantsAreNatural DEF TypeOK, Columns
  <2>4. c \in 0 .. NumColumns - 1 /\ d \in 0 .. NumColumns - 1
    BY <2>2 DEF Columns
  <2> HIDE DEF c, d
  <2>5. AddsEarlierColumn(indices, indices', NumColumns)
    BY <2>1, <2>2, <2>4 DEF AddsEarlierColumn
  <2>6. QED
    BY <2>3, <2>5, SpanKeptByAddition
<1>5. CASE ~AddOwner(t)
  <2>1. UNCHANGED indices
    BY <1>5 DEF Worker, CheckCompleted, PopOwn, Steal, ScanOn, Pause, BeginColumn,
       ClaimApparent, LoadOwner, ClaimPivot, MarkReduced, CountColumn
  <2>2. QED
    BY <2>1
<1>6. QED
  BY <1>4, <1>5

(* A cascade that starts.                                                  *)
LEMMA BeginKeepsResult ==
  ASSUME IInv, ResultInv, BeginCascade
  PROVE  ResultInv'
<1> USE DEF IInv
<1>1. /\ UNCHANGED <<next, indices, boundary>> /\ phase' = "cascade" /\ phase = "postpass"
      /\ col_copy' = indices[next] /\ iter' = 0 /\ next < NumColumns
  BY DEF BeginCascade
<1>2. next \in Columns /\ indices[next] \in SUBSET Rows
  BY <1>1, SizesAssumption DEF TypeOK, Columns
<1>3. AddColumn(indices[next], indices[next]) = {}
  BY <1>2, AddColumnUnit
<1>4. {} \in PrefixSpan([indices EXCEPT ![next] = {}], NumColumns)
  BY ConstantsAreNatural, SpanHasEmpty
<1>5. 0 <= Cardinality(Passed')
  <2>1. Passed' \in SUBSET Columns
    BY DEF Passed
  <2>2. Cardinality(Passed') \in Nat
    BY <2>1, ConstantsAreNatural, FS_Subset, FS_CardinalityType
  <2>3. QED
    BY <2>2
<1>6. CascadeInv'
  BY <1>1, <1>3, <1>4, <1>5 DEF CascadeInv
<1>7. QED
  BY <1>1, <1>6 DEF ResultInv, SpanInv, ReportInv

(* An iteration of a cascade: the pivot of the working column falls.       *)
LEMMA AddKeepsResult ==
  ASSUME IInv, ResultInv, CascadeAdd
  PROVE  ResultInv'
<1> USE DEF IInv
<1> DEFINE o == MsbOwner
           new == AddColumn(col_copy, indices[o])
           without == [indices EXCEPT ![next] = {}]
<1>1. /\ UNCHANGED <<next, indices, boundary, phase>> /\ phase = "cascade"
      /\ col_copy' = new /\ iter' = iter + 1 /\ col_copy # {}
      /\ o # Unclaimed /\ o # next
  BY DEF CascadeAdd
<1>2. next \in Columns
  BY <1>1, StolenOwnsNothing
<1>3. o \in Columns /\ Low(col_copy) \in Rows
  BY <1>1, CascadeOwner
<1>4. Pivot(o) = Low(col_copy)
  BY <1>1, <1>3 DEF PostInv, MsbOwner
<1>5. /\ col_copy \in SUBSET (0 .. NumRows - 1)
      /\ indices[o] \in SUBSET (0 .. NumRows - 1)
      /\ new \in SUBSET (0 .. NumRows - 1)
      /\ indices[next] \in SUBSET Rows
  <2>1. /\ col_copy \in SUBSET (0 .. NumRows - 1)
        /\ indices[o] \in SUBSET (0 .. NumRows - 1)
        /\ indices[next] \in SUBSET Rows
    BY <1>2, <1>3 DEF TypeOK, Rows
  <2> HIDE DEF o
  <2>2. QED
    BY <2>1 DEF AddColumn, SymDiff
<1>6. Low(new) < Low(col_copy)
  <2>1. Low(col_copy) = Low(indices[o])
    BY <1>4 DEF Pivot
  <2> HIDE DEF o
  <2>2. QED
    BY <1>1, <1>5, <2>1, ConstantsAreNatural, LowCancels
<1>7. AddColumn(indices[next], new) \in PrefixSpan(without, NumColumns)
  <2>1. /\ NumColumns \in Nat
        /\ \A j \in 0 .. NumColumns - 1 : without[j] \in SUBSET Rows
        /\ without[o] = indices[o] /\ o \in 0 .. NumColumns - 1
    BY <1>1, <1>2, <1>3, ConstantsAreNatural DEF TypeOK, Columns
  <2> HIDE DEF o, without
  <2>2. indices[o] \in PrefixSpan(without, NumColumns)
    BY <2>1, SpanHasColumn
  <2>3. AddColumn(indices[next], col_copy) \in PrefixSpan(without, NumColumns)
    BY <1>1 DEF ResultInv, CascadeInv, without
  <2>4. AddColumn(AddColumn(indices[next], col_copy), indices[o])
          \in PrefixSpan(without, NumColumns)
    BY <2>1, <2>2, <2>3, SpanClosed
  <2>5. QED
    BY <2>4, AddColumnAssociates
<1>8. iter + 1 <= Cardinality(Passed')
  <2>1. \A c \in Columns : Pivot(c)' = Pivot(c) /\ Pivot(c) \in Int
    BY <1>1, PivotIsRow, SizesAssumption DEF Pivot, Rows, NoPivot
  <2>2. Low(new) \in Int /\ Low(col_copy) \in Int
    BY <1>5, ConstantsAreNatural, LowIsRow DEF NoPivot
  <2> HIDE DEF o, new
  <2>3. Passed \subseteq Passed'
    BY <1>1, <1>6, <2>1, <2>2 DEF Passed
  <2>4. o \notin Passed /\ o \in Passed'
    BY <1>1, <1>3, <1>4, <1>6, <2>1, <2>2 DEF Passed
  <2>5. Passed' \in SUBSET Columns
    BY DEF Passed
  <2>6. IsFiniteSet(Passed') /\ Cardinality(Passed') \in Nat
    BY <2>5, ConstantsAreNatural, FS_Subset, FS_CardinalityType
  <2>7. IsFiniteSet(Passed) /\ Cardinality(Passed) \in Nat /\ iter <= Cardinality(Passed)
    BY <1>1, PassedIsFinite DEF ResultInv, CascadeInv
  <2>8. Cardinality(Passed \cup {o}) = Cardinality(Passed) + 1
    BY <2>4, <2>7, FS_AddElement
  <2>9. Cardinality(Passed \cup {o}) <= Cardinality(Passed')
    BY <2>3, <2>4, <2>6, FS_Subset
  <2>10. iter \in Int
    BY DEF TypeOK
  <2>11. QED
    BY <2>6, <2>7, <2>8, <2>9, <2>10
<1> HIDE DEF o, new
<1>9. CascadeInv'
  BY <1>1, <1>7, <1>8 DEF CascadeInv
<1>10. QED
  BY <1>1, <1>9 DEF ResultInv, SpanInv, ReportInv

(* The end of a cascade replaces column next by what is left of it.        *)
LEMMA SettleKeepsResult ==
  ASSUME IInv, ResultInv, CascadeSettle \/ CascadeClear
  PROVE  ResultInv'
<1> USE DEF IInv
<1>1. phase = "cascade" /\ phase' = "postpass" /\ UNCHANGED boundary
  BY DEF CascadeSettle, CascadeClear, EndCascade
<1>2. next \in Columns
  BY <1>1, StolenOwnsNothing
<1>3. /\ indices \in [0 .. NumColumns - 1 -> SUBSET Rows] /\ NumColumns \in Nat
      /\ next \in 0 .. NumColumns - 1 /\ col_copy \in SUBSET Rows
  BY <1>2, ConstantsAreNatural DEF TypeOK, Columns
<1>4. PrefixSpan([indices EXCEPT ![next] = col_copy], NumColumns)
        = PrefixSpan(indices, NumColumns)
  <2>1. AddColumn(indices[next], col_copy)
          \in PrefixSpan([indices EXCEPT ![next] = {}], NumColumns)
    BY <1>1 DEF ResultInv, CascadeInv
  <2>2. ExchangesColumn(indices, [indices EXCEPT ![next] = col_copy], NumColumns, Rows)
    BY <1>3, <2>1 DEF ExchangesColumn
  <2>3. QED
    BY <1>3, <2>2, SpanKeptByExchange
<1>5. \/ indices' = indices
      \/ indices' = [indices EXCEPT ![next] = col_copy]
  <2>1. CASE CascadeSettle
    BY <2>1 DEF CascadeSettle
  <2>2. CASE CascadeClear
    <3>1. iter # NumColumns
      BY <1>1, IterationsSuffice, ConstantsAreNatural DEF ResultInv, TypeOK
    <3>2. QED
      BY <2>2, <3>1 DEF CascadeClear
  <2>3. QED
    BY <2>1, <2>2
<1>6. PrefixSpan(indices', NumColumns) = PrefixSpan(indices, NumColumns)
  BY <1>4, <1>5
<1>7. QED
  BY <1>1, <1>6 DEF ResultInv, SpanInv, CascadeInv, ReportInv

LEMMA NextResult == IInv /\ ResultInv /\ [Next]_vars => ResultInv'
<1> SUFFICES ASSUME IInv, ResultInv, [Next]_vars PROVE ResultInv'
  OBVIOUS
<1>1. CASE \E t \in Threads : Worker(t)
  BY <1>1, WorkerKeepsResult
<1>2. CASE CreditEmptyColumn \/ PushColumn \/ LaunchWorkers \/ JoinWorkers \/ KeepColumn
  <2>1. /\ UNCHANGED <<boundary, indices>> /\ phase' \notin {"cascade", "done"}
        /\ phase' \in {"setup", "workers"} => phase \in {"setup", "workers"}
    BY <1>2 DEF CreditEmptyColumn, PushColumn, LaunchWorkers, JoinWorkers, KeepColumn
  <2>2. QED
    BY <2>1 DEF ResultInv, SpanInv, CascadeInv, ReportInv
<1>3. CASE ExtractPairs
  <2>1. /\ UNCHANGED <<boundary, indices>> /\ phase' = "done"
        /\ pairs' = {<<Pivot(c), c>> : c \in {d \in Columns : Reported(d)}}
    BY <1>3 DEF ExtractPairs
  <2>2. ReportInv'
    BY <2>1 DEF ReportInv, Reported, Pivot
  <2>3. QED
    BY <2>1, <2>2 DEF ResultInv, SpanInv, CascadeInv
<1>4. CASE Returned \/ UNCHANGED vars
  BY <1>4 DEF Returned, vars, mainVars, ResultInv, SpanInv, CascadeInv, Passed, ReportInv,
     Reported, Pivot
<1>5. QED
  BY <1>1, <1>2, <1>3, <1>4, BeginKeepsResult, AddKeepsResult, SettleKeepsResult
     DEF Next, Main

(* What the reducer does to the columns, in every reachable state.         *)
THEOREM ResultInvariant == Spec => []ResultInv
BY Invariant, InitResult, NextResult, PTL DEF Spec

(* Whatever the interleaving of the workers, the reduction stays left to   *)
(* right: every prefix of the columns spans what it spans in the input.    *)
THEOREM PrefixSpans == Spec => []PrefixSpansKept
<1>1. ResultInv => PrefixSpansKept
  BY DEF ResultInv, SpanInv, PrefixSpansKept
<1>2. QED
  BY <1>1, ResultInvariant, PTL

(* No cascade is cut off by max_iter = n_columns: the post-pass clears a   *)
(* column only when nothing is left of it, never because it gave up.       *)
ClearedColumnsAreEmpty ==
  [][CascadeClear => phase = "cascade" /\ col_copy = {} /\ iter < NumColumns]_vars

THEOREM CascadesConclude == Spec => ClearedColumnsAreEmpty
<1>1. ASSUME IInv, CascadeInv, CascadeClear
      PROVE  phase = "cascade" /\ col_copy = {} /\ iter < NumColumns
  <2>1. phase = "cascade" /\ (col_copy = {} \/ iter = NumColumns)
    BY <1>1 DEF CascadeClear
  <2>2. iter < NumColumns /\ iter \in Int /\ NumColumns \in Int
    BY <1>1, <2>1, IterationsSuffice, ConstantsAreNatural DEF IInv, TypeOK
  <2>3. QED
    BY <2>1, <2>2
<1>2. IInv /\ ResultInv /\ [Next]_vars =>
        [CascadeClear => phase = "cascade" /\ col_copy = {} /\ iter < NumColumns]_vars
  BY <1>1 DEF ResultInv
<1>3. QED
  BY <1>2, Invariant, ResultInvariant, PTL DEF Spec, ClearedColumnsAreEmpty

(* When the function returns, the columns that kept a pivot have the birth *)
(* rows of the persistence pairing as pivots, each of them once.           *)
FinalPivotsAreBirths ==
  phase = "done" =>
    /\ \A c, d \in Columns : indices[c] # {} /\ Pivot(c) = Pivot(d) => c = d
    /\ {Pivot(c) : c \in {d \in Columns : indices[d] # {}}}
         = {p[1] : p \in PersistencePairs(boundary)}

LEMMA FinalPivots ==
  ASSUME IInv, ResultInv, phase = "done"
  PROVE  /\ PivotsDistinct(indices, NumColumns)
         /\ {Low(indices[c]) : c \in {d \in 0 .. NumColumns - 1 : indices[d] # {}}}
              = SpanPivots(boundary, NumColumns)
<1> USE DEF IInv
<1>1. PivotsDistinct(indices, NumColumns)
  <2>1. SUFFICES ASSUME NEW c \in Columns, NEW d \in Columns,
                        indices[c] # {}, Pivot(c) = Pivot(d)
                 PROVE  c = d
    BY DEF PivotsDistinct, Columns, Pivot
  <2>2. indices[d] # {}
    BY <2>1, PivotIsRow
  <2>3. c < next /\ d < next
    BY SizesAssumption DEF PhaseInv, Columns
  <2>4. QED
    BY <2>1, <2>2, <2>3 DEF PostInv
<1>2. NumColumns \in Nat /\ NumRows \in Nat
      /\ \A j \in 0 .. NumColumns - 1 : indices[j] \in SUBSET (0 .. NumRows - 1)
  BY ConstantsAreNatural DEF TypeOK, Columns, Rows
<1>3. SpanPivots(indices, NumColumns)
        = {Low(indices[c]) : c \in {d \in 0 .. NumColumns - 1 : indices[d] # {}}}
  BY <1>1, <1>2, ReducedPivots
<1>4. SpanPivots(indices, NumColumns) = SpanPivots(boundary, NumColumns)
  BY DEF ResultInv, SpanInv, SpanPivots
<1>5. QED
  BY <1>1, <1>3, <1>4

LEMMA InputPairs ==
  ASSUME TypeOK
  PROVE  /\ {p[1] : p \in PersistencePairs(boundary)} = SpanPivots(boundary, NumColumns)
         /\ Cardinality(PersistencePairs(boundary))
              = Cardinality(SpanPivots(boundary, NumColumns))
<1>1. boundary \in [0 .. NumColumns - 1 -> SUBSET (0 .. NumRows - 1)]
      /\ NumColumns \in Nat /\ NumRows \in Nat
  BY ConstantsAreNatural DEF TypeOK, Columns, Rows
<1>2. QED
  BY <1>1, PersistencePairsCount

THEOREM FinalPivotsCorrect == Spec => []FinalPivotsAreBirths
<1>1. IInv /\ ResultInv => FinalPivotsAreBirths
  <2>1. SUFFICES ASSUME IInv, ResultInv, phase = "done"
                 PROVE  FinalPivotsAreBirths
    BY DEF FinalPivotsAreBirths
  <2>2. {p[1] : p \in PersistencePairs(boundary)} = SpanPivots(boundary, NumColumns)
    BY <2>1, InputPairs DEF IInv
  <2>3. QED
    BY <2>1, <2>2, FinalPivots
       DEF FinalPivotsAreBirths, PivotsDistinct, Columns, Pivot
<1>2. QED
  BY <1>1, Invariant, ResultInvariant, PTL

(* The parallel reduction, whatever its races, reports as many pairs as a  *)
(* sequential one and with the same births, provided every column and row  *)
(* has a filtration value (the extraction drops a pair that has none).     *)
THEOREM BirthsAreSequential ==
  ASSUME NumColumns <= NumFiltrationValues, NumRows <= NumFiltrationValues
  PROVE  Spec => []BirthsMatchSequential
<1>1. IInv /\ ResultInv => BirthsMatchSequential
  <2>1. SUFFICES ASSUME IInv, ResultInv, phase = "done"
                 PROVE  BirthsMatchSequential
    BY DEF BirthsMatchSequential
  <2> DEFINE D == {d \in Columns : indices[d] # {}}
             f == [c \in D |-> Pivot(c)]
             B == SpanPivots(boundary, NumColumns)
  <2>2. {d \in Columns : Reported(d)} = D
    <3>1. ASSUME NEW d \in Columns
          PROVE  Reported(d) <=> indices[d] # {}
      <4>1. Pivot(d) \in Rows \cup {NoPivot} /\ (Pivot(d) = NoPivot <=> indices[d] = {})
        BY <2>1, PivotIsRow DEF IInv
      <4>2. /\ d \in Int /\ d < NumFiltrationValues
            /\ Pivot(d) \in Rows => Pivot(d) < NumFiltrationValues
        BY SizesAssumption DEF Columns, Rows
      <4>3. QED
        BY <4>1, <4>2 DEF Reported
    <3>2. QED
      BY <3>1
  <2>3. pairs = PairsOf(f, D)
    BY <2>1, <2>2 DEF ResultInv, ReportInv, PairsOf
  <2>4. B = BirthsOf(f, D)
    BY <2>1, FinalPivots DEF Columns, Pivot, BirthsOf
  <2>5. OneToOne(f, D)
    BY <2>1, FinalPivots DEF PivotsDistinct, Columns, Pivot, OneToOne
  <2>6. IsFiniteSet(D)
    BY ConstantsAreNatural, FS_Subset
  <2> HIDE DEF D, f, B
  <2>7. Cardinality(pairs) = Cardinality(B) /\ {p[1] : p \in pairs} = B
    BY <2>3, <2>4, <2>5, <2>6, PairingCardinality
  <2>8. QED
    BY <2>1, <2>7, InputPairs DEF BirthsMatchSequential, IInv, B
<1>2. QED
  BY <1>1, Invariant, ResultInvariant, PTL
============================================================================
