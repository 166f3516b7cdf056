----------------------- MODULE ShardedBoundaryMatrix -----------------------
(***************************************************************************)
(* Reduction of a boundary matrix by MPI ranks: ShardedBoundaryMatrix and  *)
(* DistributedPersistence::compute of src/distributed.                     *)
(*                                                                         *)
(* The ranks run one program (plan): every rank executes the same          *)
(* sequence of operations on its own shard, at its own pace, and meets the *)
(* others in MPI's collective operations.  The job may be killed at any    *)
(* moment; what remains are the checkpoint files, one for each rank, and a *)
(* later job, of as many ranks or not, may restore them.                   *)
(*                                                                         *)
(* The .meta file of a checkpoint is written and never read, num_columns_  *)
(* of the matrix only enters that file: both are left out.                 *)
(***************************************************************************)
EXTENDS Z2Columns, Sequences, SequencesExt, Functions

CONSTANTS
  NumColumns,   \* columns of every matrix
  NumRows,      \* bound: rows are 0 .. NumRows - 1, all of int in the code
  Matrices,     \* the matrices jobs are started with
  Plans,        \* the programs jobs run
  MaxRanks,     \* bound: world sizes are 1 .. MaxRanks
  MaxJobs,      \* bound: jobs started
  MaxBytes      \* INT_MAX, the longest payload MPI takes

Columns == 0 .. NumColumns - 1
Rows    == 0 .. NumRows - 1
Ranks   == 0 .. MaxRanks - 1
NoDeath == -1   \* the infinite death of an essential class
NoColumns == [c \in {} |-> {}]

(* A missing file reads as one without columns.  of, world and whole are   *)
(* history: what the file is a checkpoint of, and whether all of it.       *)
NoFile == [columns |-> NoColumns, of |-> NoColumns, world |-> 0, whole |-> FALSE]

ASSUME ShardsAssumption ==
  /\ NumColumns \in Nat
  /\ MaxRanks \in Nat \ {0}
  /\ NumRows \in Nat
  /\ \A m \in Matrices : m \in [Columns -> SUBSET Rows]
  /\ \A p \in Plans : p \in Seq(STRING) /\ p # <<>>

VARIABLES
  size,      \* size_: ranks of the running job
  input,     \* the matrix this job was started with
  plan,      \* the operations every rank executes
  at,        \* index in plan of each rank's operation
  pc,        \* where in that operation the rank is
  columns,   \* local_columns_
  owner,     \* column_to_rank_
  cache,     \* remote_cache_
  records,   \* what each rank has read or gathered: pairs <<birth, death>>
  file,      \* the checkpoint file of each rank
  origin,    \* history: the matrix whose columns a rank holds, if it is known
  jobs       \* number of jobs started

matrixVars == <<columns, owner, cache, origin>>
vars == <<size, input, plan, at, pc, matrixVars, records, file, jobs>>

World == 0 .. size - 1

----------------------------------------------------------------------------
(* Columns on one rank.                                                    *)

(* The columns of both, those of f where both have one.  (The same as      *)
(* f @@ g of TLC, of which the provers know nothing.)                      *)
Merged(f, g) ==
  [c \in DOMAIN f \cup DOMAIN g |-> IF c \in DOMAIN f THEN f[c] ELSE g[c]]

Only(c, column) == [d \in {c} |-> column]

(* Adds columns of reduced, pairwise different pivots, until the pivot of  *)
(* the column is none of theirs.                                           *)
ReduceColumn(column, reduced) ==
  LET rows == UNION (Range(reduced) \cup {column})
      f[x \in SUBSET rows] ==
        LET same == {c \in DOMAIN reduced : reduced[c] # {} /\ Low(reduced[c]) = Low(x)}
        IN  IF x = {} \/ same = {} THEN x
            ELSE f[AddColumn(x, reduced[CHOOSE c \in same : TRUE])]
  IN  f[column]

(* Mutant of ReduceInOrder: takes the columns from the last to the first.  *)
ReduceBackwards(shard) ==
  LET extend(later, k) ==
        IF k \in DOMAIN shard
        THEN Merged(later, Only(k, ReduceColumn(shard[k], later))) ELSE later
      from[k \in 0 .. NumColumns] ==
        IF k = NumColumns THEN NoColumns
        ELSE CHOOSE reduced \in {extend(later, k) : later \in {from[k + 1]}} : TRUE
  IN  from[0]

(* The loop over pivot_to_column: columns in the order of their indices.   *)
(* (Choosing from a singleton makes TLC compute its element only once.)    *)
ReduceInOrder(shard) ==
  LET extend(earlier, k) ==
        IF k \in DOMAIN shard
        THEN Merged(earlier, Only(k, ReduceColumn(shard[k], earlier))) ELSE earlier
      before[k \in 0 .. NumColumns] ==
        IF k = 0 THEN NoColumns
        ELSE CHOOSE reduced \in {extend(earlier, k - 1) : earlier \in {before[k - 1]}} : TRUE
  IN  before[NumColumns]

(* serialize: a count, then index, length and rows of each column.         *)
PayloadBytes(shard) ==
  8 + MapThenSumSet(LAMBDA c : 12 + 4 * Cardinality(shard[c]), DOMAIN shard)

(* All shards as one matrix, merged rank by rank: of a column that several *)
(* ranks hold, the last of them counts.                                    *)
Assembled ==
  [c \in UNION {DOMAIN columns[r] : r \in World} |->
     columns[Max({r \in World : c \in DOMAIN columns[r]})][c]]

GatherBytes(shards) == MapThenSumSet(LAMBDA r : PayloadBytes(shards[r]), World)

(* get_boundary: nothing for a column whose owner is not known, and for a  *)
(* remote one that was not exchanged yet.                                  *)
GetBoundary(r, c) ==
  IF c \notin DOMAIN owner[r] THEN {}
  ELSE IF owner[r][c] = r
       THEN IF c \in DOMAIN columns[r] THEN columns[r][c] ELSE {}
       ELSE IF c \in DOMAIN cache[r] THEN cache[r][c] ELSE {}

Record(c, boundary) ==
  IF boundary = {} THEN <<c, NoDeath>> ELSE <<Low(boundary), c>>

----------------------------------------------------------------------------
(* Control.                                                                *)

Operation(r) == IF at[r] \in 1 .. Len(plan) THEN plan[at[r]] ELSE "none"

In(r, operation, place) == r \in World /\ Operation(r) = operation /\ pc[r] = place

GoTo(r, place) == pc' = [pc EXCEPT ![r] = place] /\ UNCHANGED at

Finish(r) == pc' = [pc EXCEPT ![r] = "start"] /\ at' = [at EXCEPT ![r] = @ + 1]

Done(r) == at[r] > Len(plan)
Threw(r) == pc[r] = "threw"
JobEnded == \A r \in World : Done(r) \/ Threw(r)

Collectives == {"barrier", "exchange", "gathering"}

(* Every rank waits in this collective operation.                          *)
AllMeetIn(collective) == \A r \in World : ~Done(r) /\ pc[r] = collective

Init ==
  /\ size = MaxRanks
  /\ input \in Matrices
  /\ plan = <<>>
  /\ at = [r \in Ranks |-> 1]
  /\ pc = [r \in Ranks |-> "start"]
  /\ columns = [r \in Ranks |-> NoColumns]
  /\ owner = [r \in Ranks |-> NoColumns]
  /\ cache = [r \in Ranks |-> NoColumns]
  /\ records = [r \in Ranks |-> {}]
  /\ file = [r \in Ranks |-> NoFile]
  /\ origin = [r \in Ranks |-> NoColumns]
  /\ jobs = 0

(* Every rank starts to execute a program, on a matrix if it asks for one. *)
Launch(ranks, matrix, program) ==
  /\ jobs < MaxJobs
  /\ program[1] = "restore" => matrix = input
  /\ jobs' = jobs + 1
  /\ size' = ranks
  /\ input' = matrix
  /\ plan' = program
  /\ at' = [r \in Ranks |-> 1]
  /\ pc' = [r \in Ranks |-> "start"]
  /\ records' = [r \in Ranks |-> {}]

(* The ranks call the same matrix objects again.                           *)
CallAgain(matrix, program) ==
  /\ JobEnded
  /\ Launch(size, matrix, program)
  /\ UNCHANGED <<matrixVars, file>>

(* The job dies and another one is started: new processes, empty shards.   *)
Restart(ranks, matrix, program) ==
  /\ Launch(ranks, matrix, program)
  /\ columns' = [r \in Ranks |-> NoColumns]
  /\ owner' = [r \in Ranks |-> NoColumns]
  /\ cache' = [r \in Ranks |-> NoColumns]
  /\ origin' = [r \in Ranks |-> NoColumns]
  /\ UNCHANGED file

----------------------------------------------------------------------------
(* Operations of a rank.                                                   *)

(* distribute_columns: index % size_ owns a column.  The work items that   *)
(* distribute_filtration queues for the scheduler only look at own columns *)
(* and are all run before run() returns.                                   *)
DistributeColumns(r) ==
  /\ In(r, "distribute", "start")
  /\ owner' = [owner EXCEPT ![r] = [c \in Columns |-> c % size]]
  /\ columns' = [columns EXCEPT ![r] =
                   Restrict(input, {c \in Columns : c % size = r})]
  /\ cache' = [cache EXCEPT ![r] = NoColumns]
  /\ origin' = [origin EXCEPT ![r] = input]
  /\ Finish(r)
  /\ UNCHANGED <<size, input, plan, records, file, jobs>>

EnterBarrier(r) ==
  /\ In(r, "barrier", "start")
  /\ GoTo(r, "barrier")
  /\ UNCHANGED <<size, input, plan, matrixVars, records, file, jobs>>

(* distributed_reduce, first reduce_local.                                 *)
ReduceLocal(r) ==
  /\ In(r, "reduce", "start")
  /\ columns' = [columns EXCEPT ![r] = ReduceInOrder(columns[r])]
  /\ GoTo(r, "synchronize")
  /\ UNCHANGED <<size, input, plan, owner, cache, origin, records, file, jobs>>

(* Mutant of SynchronizeGlobals: a rank without columns stays away.        *)
SynchronizeIfAny(r) ==
  /\ In(r, "reduce", "synchronize")
  /\ GoTo(r, IF columns[r] = NoColumns THEN "resolve" ELSE "exchange")
  /\ UNCHANGED <<size, input, plan, matrixVars, records, file, jobs>>

(* synchronize_globals: a payload that is too long throws before the other *)
(* ranks hear of it.                                                       *)
SynchronizeGlobals(r) ==
  /\ In(r, "reduce", "synchronize")
  /\ GoTo(r, IF PayloadBytes(columns[r]) > MaxBytes THEN "threw" ELSE "exchange")
  /\ UNCHANGED <<size, input, plan, matrixVars, records, file, jobs>>

(* MPI_Allgather of the sizes and, unless they add up to too much,         *)
(* MPI_Allgatherv of the payloads.  From then on, ranks that held columns   *)
(* of different matrices hold columns of none.                             *)
ExchangeColumns ==
  /\ AllMeetIn("exchange")
  /\ \/ /\ GatherBytes(columns) > MaxBytes
        /\ pc' = [r \in Ranks |-> IF r \in World THEN "threw" ELSE pc[r]]
        /\ UNCHANGED <<cache, origin>>
     \/ /\ GatherBytes(columns) <= MaxBytes
        /\ pc' = [r \in Ranks |-> IF r \in World THEN "resolve" ELSE pc[r]]
        /\ cache' = [r \in Ranks |-> IF r \in World THEN Assembled ELSE cache[r]]
        /\ origin' = IF \A p, q \in World : origin[p] = origin[q] THEN origin
                     ELSE [r \in Ranks |-> NoColumns]
  /\ UNCHANGED <<size, input, plan, at, columns, owner, records, file, jobs>>

(* Mutant of ResolveRemoteDependencies: reduces against own columns only.  *)
ResolveOwn(r) ==
  /\ In(r, "reduce", "resolve")
  /\ columns' = [columns EXCEPT ![r] = ReduceInOrder(columns[r])]
  /\ cache' = [cache EXCEPT ![r] = Merged(ReduceInOrder(columns[r]), cache[r])]
  /\ Finish(r)
  /\ UNCHANGED <<size, input, plan, owner, origin, records, file, jobs>>

(* resolve_remote_dependencies: every rank reduces all columns and keeps   *)
(* those it owns.                                                          *)
ResolveRemoteDependencies(r) ==
  /\ In(r, "reduce", "resolve")
  /\ \E global \in {ReduceInOrder(Merged(columns[r], cache[r]))} :
         /\ cache' = [cache EXCEPT ![r] = global]
         /\ columns' = [columns EXCEPT ![r] =
              Restrict(global, {c \in DOMAIN global \cap DOMAIN owner[r] : owner[r][c] = r})]
  /\ Finish(r)
  /\ UNCHANGED <<size, input, plan, owner, origin, records, file, jobs>>

(* gather_results: the records of the rank's columns, then the exchange.   *)
CollectRecords(r) ==
  /\ In(r, "gather", "start")
  /\ records' = [records EXCEPT ![r] =
                   {Record(c, GetBoundary(r, c)) : c \in {d \in Columns : d % size = r}}]
  /\ GoTo(r, "gathering")
  /\ UNCHANGED <<size, input, plan, matrixVars, file, jobs>>

GatherRecords ==
  /\ AllMeetIn("gathering")
  /\ records' = [r \in Ranks |-> IF r \in World THEN UNION {records[q] : q \in World}
                                                ELSE records[r]]
  /\ pc' = [r \in Ranks |-> IF r \in World THEN "start" ELSE pc[r]]
  /\ at' = [r \in Ranks |-> IF r \in World THEN at[r] + 1 ELSE at[r]]
  /\ UNCHANGED <<size, input, plan, matrixVars, file, jobs>>

(* A caller of the matrix reads what it can: the columns of its own rank.  *)
ReadColumns(r) ==
  /\ In(r, "read", "start")
  /\ records' = [records EXCEPT ![r] =
                   {Record(c, GetBoundary(r, c)) : c \in DOMAIN columns[r]}]
  /\ Finish(r)
  /\ UNCHANGED <<size, input, plan, matrixVars, file, jobs>>

----------------------------------------------------------------------------
(* Checkpoints.                                                            *)

(* checkpoint: rank 0 writes .meta, then all meet.                         *)
BeginCheckpoint(r) ==
  /\ In(r, "checkpoint", "start")
  /\ GoTo(r, "barrier")
  /\ UNCHANGED <<size, input, plan, matrixVars, records, file, jobs>>

(* fopen "wb" empties the file; when it fails the rank goes on silently.   *)
OpenFile(r) ==
  /\ In(r, "checkpoint", "open")
  /\ \/ /\ file' = [file EXCEPT ![r] =
              [columns |-> NoColumns, of |-> origin[r], world |-> size, whole |-> FALSE]]
        /\ GoTo(r, "write")
     \/ /\ Finish(r)
        /\ UNCHANGED file
  /\ UNCHANGED <<size, input, plan, matrixVars, records, jobs>>

(* fwrite, column by column: a job that dies leaves the columns that are   *)
(* there in full, for parseSerializedColumns stops at the first that is    *)
(* not; and so does a write that fails, which is not reported either.      *)
WriteFile(r) ==
  /\ In(r, "checkpoint", "write")
  /\ LET left == DOMAIN columns[r] \ DOMAIN file[r].columns
     IN  \/ /\ left # {}
            /\ file' = [file EXCEPT ![r].columns = Merged(@, Only(Min(left), columns[r][Min(left)]))]
            /\ UNCHANGED <<pc, at>>
         \/ /\ left = {}
            /\ file' = [file EXCEPT ![r].whole = TRUE]
            /\ Finish(r)
         \/ /\ left # {}
            /\ Finish(r)
            /\ UNCHANGED file
  /\ UNCHANGED <<size, input, plan, matrixVars, records, jobs>>

(* restore: the rank reads its own file, if there is one, and knows of its *)
(* own columns only.                                                       *)
Restore(r) ==
  /\ In(r, "restore", "start")
  /\ columns' = [columns EXCEPT ![r] = file[r].columns]
  /\ owner' = [owner EXCEPT ![r] = [c \in DOMAIN file[r].columns |-> r]]
  /\ cache' = [cache EXCEPT ![r] = NoColumns]
  /\ origin' = [origin EXCEPT ![r] = IF file[r].whole /\ file[r].world = size
                                     THEN file[r].of ELSE NoColumns]
  /\ GoTo(r, "barrier")
  /\ UNCHANGED <<size, input, plan, records, file, jobs>>

(* MPI_Barrier opens: checkpoints go on to their files.                    *)
Barrier ==
  /\ AllMeetIn("barrier")
  /\ pc' = [r \in Ranks |-> IF r \notin World THEN pc[r]
                            ELSE IF Operation(r) = "checkpoint" THEN "open" ELSE "start"]
  /\ at' = [r \in Ranks |-> IF r \in World /\ Operation(r) # "checkpoint"
                            THEN at[r] + 1 ELSE at[r]]
  /\ UNCHANGED <<size, input, plan, matrixVars, records, file, jobs>>

----------------------------------------------------------------------------
Step(r) ==
  \/ DistributeColumns(r) \/ EnterBarrier(r)
  \/ ReduceLocal(r) \/ SynchronizeGlobals(r) \/ ResolveRemoteDependencies(r)
  \/ CollectRecords(r) \/ ReadColumns(r)
  \/ BeginCheckpoint(r) \/ OpenFile(r) \/ WriteFile(r) \/ Restore(r)

Meet == Barrier \/ ExchangeColumns \/ GatherRecords

(* The last job has ended, or hangs, and no other is started.              *)
NoMoreJobs ==
  /\ jobs = MaxJobs
  /\ JobEnded \/ \E r \in World : Threw(r)
  /\ UNCHANGED vars

Next ==
  \/ \E m \in Matrices, p \in Plans : CallAgain(m, p)
  \/ \E n \in 1 .. MaxRanks, m \in Matrices, p \in Plans : Restart(n, m, p)
  \/ \E r \in Ranks : Step(r)
  \/ Meet
  \/ NoMoreJobs

(* A rank of a job that is not killed keeps running.                       *)
Fairness == WF_vars(Meet) /\ \A r \in Ranks : WF_vars(Step(r))

Spec == Init /\ [][Next]_vars /\ Fairness
----------------------------------------------------------------------------
(* Properties.                                                             *)

(* Every rank holds its part of the columns of matrix m.                   *)
HoldTogether(m) == \A r \in World : origin[r] = m

(* What the columns before each column span.                               *)
Spans == [m \in Matrices |-> [c \in Columns |-> PrefixSpan(m, c)]]

(* At every moment, whatever stage each rank has reached, and wherever it  *)
(* got its shard from, the shards together are the matrix up to additions  *)
(* from left to right.  This is what makes shards saved at different       *)
(* stages fit each other.                                                  *)
ShardsSpanTheMatrix ==
  \A m \in Matrices : HoldTogether(m) =>
    /\ DOMAIN Assembled = Columns
    /\ \A c \in Columns : AddColumn(m[c], Assembled[c]) \in Spans[m][c]

(* The record of each column in the persistence pairing.                   *)
Expected ==
  [m \in Matrices |->
     [c \in Columns |-> LET birth == PersistencePivot(m, c)
                        IN  IF birth = NoPivot THEN <<c, NoDeath>> ELSE <<birth, c>>]]

(* A program that reports only what it has reduced: before every gather    *)
(* and read there is a reduce, and no other columns come in between.       *)
Fresh(program, i) ==
  \E k \in 1 .. i - 1 :
    /\ program[k] = "reduce"
    /\ \A l \in k + 1 .. i - 1 : program[l] \notin {"distribute", "restore"}

ReportsReduced(program) ==
  \A i \in 1 .. Len(program) : program[i] \in {"gather", "read"} => Fresh(program, i)

(* compute returns the persistence pairing on every rank, and a matrix     *)
(* that was reduced shows it: after a first call, a repeated one, and      *)
(* after a restart from whole checkpoints of that matrix that were taken   *)
(* by as many ranks, even at different stages.                             *)
ResultIsExact ==
  \A m \in Matrices, r \in World :
    (HoldTogether(m) /\ Done(r) /\ plan # <<>>) =>
       CASE Last(plan) = "gather" -> records[r] = {Expected[m][c] : c \in Columns}
         [] Last(plan) = "read" ->
              records[r] = {Expected[m][c] : c \in {d \in Columns : d % size = r}}
         [] OTHER -> TRUE

(* A job ends on every rank, normally or with an exception, unless one     *)
(* rank's own payload is too long: it throws, and the others wait for it   *)
(* in the exchange for ever.                                               *)
EveryJobEnds ==
  []<>(\/ JobEnded
       \/ \E r \in World : Threw(r) /\ PayloadBytes(columns[r]) > MaxBytes)

(* What the guide says of restore: the ranks go on from a state they were  *)
(* all in.  Every rank that found a whole checkpoint found one of the same *)
(* matrix.                                                                 *)
RestoredIsGlobal ==
  (plan # <<>> /\ plan[1] = "restore" /\ \A r \in World : at[r] = 2) =>
    \A r, q \in World :
      (origin[r] # NoColumns /\ origin[q] # NoColumns) => origin[r] = origin[q]
============================================================================
