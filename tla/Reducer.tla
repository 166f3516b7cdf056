------------------------------ MODULE Reducer ------------------------------
(***************************************************************************)
(* The sequential reducer of boundary matrices, class Reducer in           *)
(* src/persistence/reduction/reduction_ops.cpp: the apparent-pair scan,    *)
(* the twist pass over pivot rows from the last to the first, the standard *)
(* pass over columns from the first to the last, and the extraction of     *)
(* pairs and essential classes.                                            *)
(*                                                                         *)
(* The pairs are not read from the reduced columns but from                *)
(* pivot_columns_, which all three passes write: what an earlier pass      *)
(* left there, and a later one did not overwrite, becomes part of the      *)
(* result.  A reducer may be asked again without reloading the matrix      *)
(* (cohomologyReduction after compute), so it also starts from what the    *)
(* previous call left in reduced_matrix_.                                  *)
(*                                                                         *)
(* An input names its columns and, for every row, the column of the same   *)
(* simplex, or NoColumn when the matrix does not have it.  Filtration      *)
(* values never decrease along columns or rows, and a row that is a pivot  *)
(* is a face of some column added, so the test death >= birth never drops  *)
(* a pair and the values are left out.                                     *)
(***************************************************************************)
EXTENDS Z2Columns

CONSTANTS
  NumRows,     \* an upper bound of matrix_->rows(); a row without entries does nothing
  Inputs,      \* the matrices of the instance
  MaxCalls     \* bound: how often the reducer is asked

Rows == 0 .. NumRows - 1

NoColumn == -1
Unclaimed == -1

ASSUME ReducerAssumption ==
  /\ NumRows \in Nat
  /\ MaxCalls \in Nat
  /\ \A m \in Inputs :
       LET cols == 0 .. Cardinality(DOMAIN m.columns) - 1 IN
         /\ IsFiniteSet(DOMAIN m.columns)
         /\ m.columns \in [cols -> SUBSET Rows]
         /\ m.column_of_row \in [Rows -> cols \cup {NoColumn}]

VARIABLES
  matrix,          \* *matrix_, never written
  columns_loaded,  \* columns_loaded_
  reduced_matrix,  \* reduced_matrix_
  pivot_columns,   \* pivot_columns_
  cleared,         \* local to reduceMatrix
  lowRowToCol,     \* local to reduceMatrix
  pivotToCol,      \* local to reduceTwist
  phase,           \* the loop that is running, "idle" between calls
  next,            \* its loop variable
  col,             \* the column inside while (true), or NoColumn
  pairs,           \* the finite members of pairs_, as <<row, column>>
  essentials,      \* essentials_, and the columns of the infinite pairs
  reports,         \* whether the last call is one that extracts pairs
  calls,           \* finished or running calls
  again            \* history: this call began with columns already reduced

vars == <<matrix, columns_loaded, reduced_matrix, pivot_columns, cleared,
          lowRowToCol, pivotToCol, phase, next, col, pairs, essentials,
          reports, calls, again>>

Columns == DOMAIN matrix.columns
NumColumns == Cardinality(Columns)

(* findLowestPivot reads the column itself, getPivot reads pivot_columns_. *)
FindLowestPivot(c) == Low(reduced_matrix[c])

(* getColumnIndexForRowSimplex                                             *)
BirthColumn(row) == matrix.column_of_row[row]

----------------------------------------------------------------------------
Init ==
  /\ matrix \in Inputs
  /\ columns_loaded = FALSE
  /\ reduced_matrix = [c \in Columns |-> {}]
  /\ pivot_columns = [c \in Columns |-> NoPivot]
  /\ cleared = [c \in Columns |-> FALSE]
  /\ lowRowToCol = [r \in Rows |-> Unclaimed]
  /\ pivotToCol = [r \in Rows |-> Unclaimed]
  /\ phase = "idle"
  /\ next = 0
  /\ col = NoColumn
  /\ pairs = {}
  /\ essentials = {}
  /\ reports = FALSE
  /\ calls = 0
  /\ again = FALSE

(* Mutant of StartReduction: pivot_columns_ is not reset.                  *)
StartWithOldPivots(columns) ==
  /\ phase = "idle" /\ calls < MaxCalls
  /\ reduced_matrix' = columns
  /\ columns_loaded' = TRUE
  /\ cleared' = [c \in Columns |-> columns[c] = {}]
  /\ lowRowToCol' = [r \in Rows |-> Unclaimed]
  /\ phase' = "apparent"
  /\ next' = 0
  /\ calls' = calls + 1
  /\ UNCHANGED <<matrix, pivot_columns, pivotToCol, col>>

(* The beginning of reduceMatrix, on the given columns.                    *)
StartReduction(columns) ==
  /\ phase = "idle" /\ calls < MaxCalls
  /\ reduced_matrix' = columns
  /\ columns_loaded' = TRUE
  /\ pivot_columns' = [c \in Columns |-> NoPivot]
  /\ cleared' = [c \in Columns |-> columns[c] = {}]
  /\ lowRowToCol' = [r \in Rows |-> Unclaimed]
  /\ phase' = "apparent"
  /\ next' = 0
  /\ calls' = calls + 1
  /\ UNCHANGED <<matrix, pivotToCol, col>>

(* compute: initializeReduction forgets everything, the matrix is loaded.  *)
Compute ==
  /\ StartReduction(matrix.columns)
  /\ pairs' = {}
  /\ essentials' = {}
  /\ reports' = TRUE
  /\ again' = FALSE

(* Calls that go straight to reduceMatrix load the columns only if they    *)
(* never were.  cohomologyReduction and acceleratedReduction (without a    *)
(* GPU) extract pairs as well; twistedReduction, parallelReduction and the *)
(* other entry points leave the pairs of an earlier call in place.         *)
ReduceLoaded(extract) ==
  /\ StartReduction(IF columns_loaded THEN reduced_matrix ELSE matrix.columns)
  /\ reports' = extract
  /\ again' = columns_loaded
  /\ UNCHANGED <<pairs, essentials>>

CohomologyReduction == ReduceLoaded(TRUE)
TwistedReduction == ReduceLoaded(FALSE)

----------------------------------------------------------------------------
(* findApparentPairs.  The pivot ROW of column j is used as a COLUMN.      *)

IsApparent(j) ==
  LET i == FindLowestPivot(j) IN
  /\ ~cleared[j] /\ i # NoPivot
  /\ i \in Columns /\ ~cleared[i]
  /\ FindLowestPivot(i) = i

FindApparentPair ==
  /\ phase = "apparent" /\ next < NumColumns
  /\ IsApparent(next)
  /\ LET i == FindLowestPivot(next) IN
       /\ cleared' = [cleared EXCEPT ![i] = TRUE, ![next] = TRUE]
       /\ pivot_columns' = [pivot_columns EXCEPT ![next] = i]
       /\ reduced_matrix' = [reduced_matrix EXCEPT ![i] = {}, ![next] = {}]
  /\ next' = next + 1
  /\ UNCHANGED <<matrix, columns_loaded, lowRowToCol, pivotToCol, phase, col,
                 pairs, essentials, reports, calls, again>>

SkipColumn ==
  /\ phase = "apparent" /\ next < NumColumns
  /\ ~IsApparent(next)
  /\ next' = next + 1
  /\ UNCHANGED <<matrix, columns_loaded, reduced_matrix, pivot_columns, cleared,
                 lowRowToCol, pivotToCol, phase, col, pairs,
                 essentials, reports, calls, again>>

----------------------------------------------------------------------------
(* reduceTwist and the standard pass share the inner loop.                 *)

(* The LAST column with a given pivot is entered for it.                   *)
StartTwist ==
  /\ phase = "apparent" /\ next = NumColumns
  /\ pivotToCol' =
       [r \in Rows |->
          Max({Unclaimed} \cup {c \in Columns : ~cleared[c] /\ FindLowestPivot(c) = r})]
  /\ cleared' = [c \in Columns |-> cleared[c] \/ FindLowestPivot(c) = NoPivot]
  /\ phase' = "twist"
  /\ next' = NumRows - 1
  /\ UNCHANGED <<matrix, columns_loaded, reduced_matrix, pivot_columns,
                 lowRowToCol, col, pairs, essentials, reports, calls, again>>

(* Mutant of StartStandard: the owners of the twist pass stay.             *)
StartStandardUnreset ==
  /\ phase = "twist" /\ next = -1
  /\ phase' = "standard"
  /\ next' = 0
  /\ UNCHANGED <<matrix, columns_loaded, reduced_matrix, pivot_columns, cleared,
                 lowRowToCol, pivotToCol, col, pairs, essentials, reports, calls, again>>

StartStandard ==
  /\ phase = "twist" /\ next = -1
  /\ lowRowToCol' = [r \in Rows |-> Unclaimed]
  /\ phase' = "standard"
  /\ next' = 0
  /\ UNCHANGED <<matrix, columns_loaded, reduced_matrix, pivot_columns, cleared,
                 pivotToCol, col, pairs, essentials, reports, calls, again>>

(* The column this iteration of the outer loop is about, if any.           *)
Candidate == IF phase = "twist" THEN pivotToCol[next] ELSE next
InPass == \/ phase = "twist" /\ next >= 0
          \/ phase = "standard" /\ next < NumColumns
Worthwhile == Candidate # Unclaimed /\ ~cleared[Candidate]
Advance == next' = IF phase = "twist" THEN next - 1 ELSE next + 1

SkipIteration ==
  /\ InPass /\ col = NoColumn
  /\ ~Worthwhile
  /\ Advance
  /\ UNCHANGED <<matrix, columns_loaded, reduced_matrix, pivot_columns, cleared,
                 lowRowToCol, pivotToCol, phase, col, pairs,
                 essentials, reports, calls, again>>

EnterColumn ==
  /\ InPass /\ col = NoColumn
  /\ Worthwhile
  /\ col' = Candidate
  /\ UNCHANGED <<matrix, columns_loaded, reduced_matrix, pivot_columns, cleared,
                 lowRowToCol, pivotToCol, phase, next, pairs,
                 essentials, reports, calls, again>>

(* The column is empty: the loop ends and pivot_columns_ stays as it was.  *)
LeaveEmptyColumn ==
  /\ col # NoColumn
  /\ FindLowestPivot(col) = NoPivot
  /\ col' = NoColumn
  /\ Advance
  /\ UNCHANGED <<matrix, columns_loaded, reduced_matrix, pivot_columns, cleared,
                 lowRowToCol, pivotToCol, phase, pairs, essentials, reports, calls, again>>

(* Mutants of ClearBirthColumn: the pivot of the birth column is kept, and *)
(* the killer itself is cleared.                                           *)
ClearBirthKeepPivot(row, killer) ==
  LET b == BirthColumn(row) IN
  /\ pivot_columns' = [pivot_columns EXCEPT ![killer] = row]
  /\ IF b = NoColumn
     THEN UNCHANGED <<cleared, reduced_matrix>>
     ELSE /\ cleared' = [cleared EXCEPT ![b] = TRUE]
          /\ reduced_matrix' = [reduced_matrix EXCEPT ![b] = {}]

(* setPivot(killer, row), then clearBirthColumn(row): the column of the    *)
(* simplex that is born with row cannot kill anything.                     *)
ClearBirthColumn(row, killer) ==
  LET b == BirthColumn(row) IN
  IF b = NoColumn \/ cleared[b]
  THEN /\ pivot_columns' = [pivot_columns EXCEPT ![killer] = row]
       /\ UNCHANGED <<cleared, reduced_matrix>>
  ELSE /\ pivot_columns' = [pivot_columns EXCEPT ![killer] = row, ![b] = NoPivot]
       /\ cleared' = [cleared EXCEPT ![b] = TRUE]
       /\ reduced_matrix' = [reduced_matrix EXCEPT ![b] = {}]

ClaimRow ==
  /\ col # NoColumn
  /\ LET row == FindLowestPivot(col) IN
       /\ row # NoPivot
       /\ lowRowToCol[row] = Unclaimed
       /\ lowRowToCol' = [lowRowToCol EXCEPT ![row] = col]
       /\ ClearBirthColumn(row, col)
  /\ col' = NoColumn
  /\ Advance
  /\ UNCHANGED <<matrix, columns_loaded, pivotToCol, phase, pairs,
                 essentials, reports, calls, again>>

(* Mutant of EliminatePivot: its arguments swapped.                        *)
EliminateKiller ==
  /\ col # NoColumn
  /\ LET row == FindLowestPivot(col) IN
       /\ row # NoPivot
       /\ lowRowToCol[row] # Unclaimed
       /\ reduced_matrix' = [reduced_matrix EXCEPT
            ![lowRowToCol[row]] = AddColumn(@, reduced_matrix[col])]
  /\ UNCHANGED <<matrix, columns_loaded, pivot_columns, cleared, lowRowToCol,
                 pivotToCol, phase, next, col, pairs, essentials, reports, calls, again>>

(* eliminatePivot(col, killer).  In the twist pass every row has one       *)
(* candidate, so only the standard pass comes here.                        *)
EliminatePivot ==
  /\ col # NoColumn
  /\ LET row == FindLowestPivot(col) IN
       /\ row # NoPivot
       /\ lowRowToCol[row] # Unclaimed
       /\ reduced_matrix' = [reduced_matrix EXCEPT
            ![col] = AddColumn(@, reduced_matrix[lowRowToCol[row]])]
  /\ UNCHANGED <<matrix, columns_loaded, pivot_columns, cleared, lowRowToCol,
                 pivotToCol, phase, next, col, pairs, essentials, reports, calls, again>>

----------------------------------------------------------------------------
(* computePersistencePairsFromPivots and classifyEssentials, from          *)
(* pivot_columns_ alone.                                                   *)
KilledBirthColumns ==
  {BirthColumn(pivot_columns[c]) : c \in {d \in Columns : pivot_columns[d] # NoPivot}}

ExtractPairs ==
  /\ phase = "standard" /\ next = NumColumns /\ reports
  /\ pairs' = {<<pivot_columns[c], c>> :
                 c \in {d \in Columns : pivot_columns[d] # NoPivot}}
  /\ essentials' = {c \in Columns : pivot_columns[c] = NoPivot} \ KilledBirthColumns
  /\ phase' = "idle"
  /\ UNCHANGED <<matrix, columns_loaded, reduced_matrix, pivot_columns, cleared,
                 lowRowToCol, pivotToCol, next, col, reports, calls, again>>

(* The end of a call that only reduces.                                    *)
ReturnReduced ==
  /\ phase = "standard" /\ next = NumColumns /\ ~reports
  /\ phase' = "idle"
  /\ UNCHANGED <<matrix, columns_loaded, reduced_matrix, pivot_columns, cleared,
                 lowRowToCol, pivotToCol, next, col, pairs, essentials, reports,
                 calls, again>>

Reduce ==
  \/ FindApparentPair
  \/ SkipColumn
  \/ StartTwist
  \/ StartStandard
  \/ SkipIteration
  \/ EnterColumn
  \/ LeaveEmptyColumn
  \/ ClaimRow
  \/ EliminatePivot
  \/ ExtractPairs
  \/ ReturnReduced

Next ==
  \/ Compute
  \/ CohomologyReduction
  \/ TwistedReduction
  \/ Reduce

(* A call that has started runs on; nobody is obliged to call.             *)
Spec == Init /\ [][Next]_vars /\ WF_vars(Reduce)

----------------------------------------------------------------------------
(* Properties.                                                             *)

(* A call that extracts pairs has returned.                                *)
Returned == phase = "idle" /\ reports

(* The true outcome: positive columns that no pair kills stay alive.       *)
TrueEssentials ==
  (Columns \ NegativeColumns(matrix.columns))
    \ {BirthColumn(p[1]) : p \in PersistencePairs(matrix.columns)}

(* A matrix of all dimensions numbers its rows like its columns.  On any   *)
(* other the apparent-pair scan takes a row for a column, and the          *)
(* properties below that compare with the pairing do not hold.             *)
AllDimensions == \A r \in Rows : r \in Columns => BirthColumn(r) = r

(* A matrix of all dimensions, and what makes it a boundary matrix: faces  *)
(* come before the simplices they are faces of, and the boundary of a      *)
(* boundary is empty.                                                      *)
Numbered(m) == \A r \in Rows : r \in DOMAIN m.columns => m.column_of_row[r] = r

FacesFirst(columns) == \A c \in DOMAIN columns : columns[c] \subseteq 0 .. c - 1

BoundaryMatrices ==
  \A m \in Inputs : Numbered(m) =>
    FacesFirst(m.columns) /\ BoundaryOfBoundaryEmpty(m.columns)

(* The result contains the whole finite part of the persistence pairing.   *)
FinitePairsComplete ==
  AllDimensions /\ Returned => PersistencePairs(matrix.columns) \subseteq pairs

(* Pivots that an earlier pass left behind do no more than hide essential  *)
(* classes: no class that dies is reported alive, and a pair that should   *)
(* not be there stands where an essential class should.                    *)
OnlyEssentialsAreHidden ==
  AllDimensions /\ Returned =>
    /\ essentials \subseteq TrueEssentials
    /\ {p[2] : p \in pairs \ PersistencePairs(matrix.columns)} \subseteq TrueEssentials

(* Asked again without reloading, the reducer starts from reduced columns  *)
(* and its result is exact.                                                *)
SecondResultExact ==
  AllDimensions /\ Returned /\ again =>
    essentials = TrueEssentials /\ pairs = PersistencePairs(matrix.columns)

(* Every call returns.                                                     *)
EveryCallReturns == [](phase # "idle" => <>(phase = "idle"))

(* doc/persistence/standard/algorithm.md: "Unpaired simplices are births   *)
(* (their homology classes persist to infinity)".                          *)
UnpairedAreEssential == Returned => essentials = TrueEssentials

============================================================================
