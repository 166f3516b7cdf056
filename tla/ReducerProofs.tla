--------------------------- MODULE ReducerProofs ---------------------------
(***************************************************************************)
(* Proofs about the sequential reducer, for every boundary matrix and      *)
(* every sequence of calls: no true pair is missing, the pivots that an    *)
(* earlier pass left behind hide essential classes and do nothing else,    *)
(* and a call on the reduced columns of an earlier one is exact.           *)
(***************************************************************************)
EXTENDS Reducer, Z2ColumnsProofs

(***************************************************************************)
(* The inductive invariant.                                                *)
(***************************************************************************)

Phases == {"idle", "apparent", "twist", "standard"}

TypeOK ==
  /\ matrix \in Inputs
  /\ columns_loaded \in BOOLEAN
  /\ reduced_matrix \in [Columns -> SUBSET Rows]
  /\ pivot_columns \in [Columns -> Rows \cup {NoPivot}]
  /\ cleared \in [Columns -> BOOLEAN]
  /\ lowRowToCol \in [Rows -> Columns \cup {Unclaimed}]
  /\ pivotToCol \in [Rows -> Columns \cup {Unclaimed}]
  /\ phase \in Phases
  /\ next \in Int
  /\ phase = "twist" => next \in -1 .. NumRows - 1
  /\ phase \in {"apparent", "standard"} => next \in 0 .. NumColumns
  /\ col \in Columns \cup {NoColumn}
  /\ col # NoColumn => InPass
  /\ reports \in BOOLEAN
  /\ again \in BOOLEAN

(* Whatever the passes do, the columns are a left-to-right reduction.      *)
SpanInv ==
  /\ phase # "idle" => columns_loaded
  /\ \A c \in Columns : reduced_matrix[c] \subseteq 0 .. c - 1
  /\ columns_loaded =>
       \A k \in 0 .. NumColumns :
         PrefixSpan(reduced_matrix, k) = PrefixSpan(matrix.columns, k)

ClearedInv ==
  \A c \in Columns : cleared[c] => reduced_matrix[c] = {} /\ pivot_columns[c] = NoPivot

(* Before the twist pass no pivot is set: no pair is apparent.             *)
ApparentInv ==
  phase = "apparent" =>
    /\ \A c \in Columns : pivot_columns[c] = NoPivot
    /\ \A r \in Rows : lowRowToCol[r] = Unclaimed

(* In the twist pass every row has at most one candidate, and finds its    *)
(* own place free.                                                         *)
TwistInv ==
  phase = "twist" =>
    /\ \A c \in Columns : reduced_matrix[c] = {} => cleared[c]
    /\ \A r \in Rows : pivotToCol[r] # Unclaimed =>
         cleared[pivotToCol[r]] \/ Low(reduced_matrix[pivotToCol[r]]) = r
    /\ \A r \in Rows : r <= next => lowRowToCol[r] = Unclaimed
    /\ col # NoColumn => ~cleared[col] /\ col = pivotToCol[next]

(* In the standard pass a column that has been passed is empty, or owns    *)
(* its pivot, has it in pivot_columns_, and has cleared its birth column.  *)
Settled(c) ==
  LET r == FindLowestPivot(c) IN
  reduced_matrix[c] # {} =>
    /\ lowRowToCol[r] = c /\ pivot_columns[c] = r
    /\ cleared[r]

StandardInv ==
  phase = "standard" =>
    /\ \A c \in 0 .. next - 1 : Settled(c)
    /\ \A r \in Rows : lowRowToCol[r] # Unclaimed =>
         /\ lowRowToCol[r] < next
         /\ FindLowestPivot(lowRowToCol[r]) = r
    /\ col # NoColumn => ~cleared[col] /\ col = next

(* Between calls, and in a call on reduced columns, the columns have       *)
(* distinct pivots.                                                        *)
AgainInv ==
  /\ phase = "idle" /\ columns_loaded => PivotsDistinct(reduced_matrix, NumColumns)
  /\ phase # "idle" /\ again =>
       /\ PivotsDistinct(reduced_matrix, NumColumns)
       /\ \A c \in Columns : reduced_matrix[c] = {} => cleared[c]

ResultInv == FinitePairsComplete /\ OnlyEssentialsAreHidden /\ SecondResultExact

IInv ==
  /\ TypeOK
  /\ AllDimensions =>
       /\ SpanInv
       /\ ClearedInv
       /\ ApparentInv
       /\ TwistInv
       /\ StandardInv
       /\ AgainInv
  /\ ResultInv

----------------------------------------------------------------------------
(* Facts about the matrix.                                                 *)

LEMMA MatrixFacts ==
  ASSUME matrix \in Inputs
  PROVE  /\ NumColumns \in Nat /\ NumRows \in Nat
         /\ Columns = 0 .. NumColumns - 1
         /\ matrix.columns \in [Columns -> SUBSET Rows]
         /\ matrix.column_of_row \in [Rows -> Columns \cup {NoColumn}]
BY ReducerAssumption, FS_CardinalityType DEF NumColumns, Columns

LEMMA LowFacts ==
  ASSUME TypeOK, NEW c \in Columns
  PROVE  /\ FindLowestPivot(c) \in Rows \cup {NoPivot}
         /\ FindLowestPivot(c) = NoPivot <=> reduced_matrix[c] = {}
         /\ reduced_matrix[c] # {} => FindLowestPivot(c) \in reduced_matrix[c]
<1>1. NumRows \in Nat /\ reduced_matrix[c] \in SUBSET (0 .. NumRows - 1)
  BY MatrixFacts DEF TypeOK, Rows
<1>2. QED
  BY <1>1, LowIsRow DEF FindLowestPivot, Rows

LEMMA GreatestCandidate ==
  ASSUME NEW n \in Nat, NEW S \in SUBSET (0 .. n - 1)
  PROVE  Max({Unclaimed} \cup S) \in {Unclaimed} \cup S
<1>1. CASE S = {}
  BY <1>1 DEF Max, Unclaimed
<1>2. CASE S # {}
  <2>1. Max(S) \in S /\ \A l \in S : Max(S) >= l
    BY <1>2, MaxIsGreatest
  <2>2. Max(S) >= Unclaimed
    <3>1. Max(S) \in 0 .. n - 1
      BY <2>1
    <3>2. QED
      BY <3>1 DEF Unclaimed
  <2>3. \E g \in {Unclaimed} \cup S : \A l \in {Unclaimed} \cup S : g >= l
    BY <2>1, <2>2
  <2>4. QED
    BY <2>3 DEF Max
<1>3. QED
  BY <1>1, <1>2

(***************************************************************************)
(* Types.                                                                  *)
(***************************************************************************)

LEMMA InitTypeOK == Init => TypeOK
<1> SUFFICES ASSUME Init PROVE TypeOK
  OBVIOUS
<1>1. matrix \in Inputs
  BY DEF Init
<1>2. /\ reduced_matrix \in [Columns -> SUBSET Rows]
      /\ pivot_columns \in [Columns -> Rows \cup {NoPivot}]
      /\ cleared \in [Columns -> BOOLEAN]
      /\ lowRowToCol \in [Rows -> Columns \cup {Unclaimed}]
      /\ pivotToCol \in [Rows -> Columns \cup {Unclaimed}]
  BY DEF Init
<1>3. /\ phase = "idle" /\ next = 0 /\ col = NoColumn
      /\ columns_loaded = FALSE /\ reports = FALSE /\ again = FALSE
  BY DEF Init
<1>4. /\ columns_loaded \in BOOLEAN /\ reports \in BOOLEAN /\ again \in BOOLEAN
      /\ phase \in Phases /\ next \in Int /\ col \in Columns \cup {NoColumn}
  <2>1. columns_loaded \in BOOLEAN /\ reports \in BOOLEAN /\ again \in BOOLEAN
    BY <1>3, Zenon
  <2>2. phase \in Phases /\ next \in Int /\ col \in Columns \cup {NoColumn}
    BY <1>3 DEF Phases
  <2>3. QED
    BY <2>1, <2>2
<1>5. phase # "twist" /\ phase \notin {"apparent", "standard"} /\ ~(col # NoColumn)
  BY <1>3
<1>6. QED
  BY <1>1, <1>2, <1>4, <1>5 DEF TypeOK

LEMMA StartTypeOK ==
  ASSUME TypeOK, Compute \/ CohomologyReduction \/ TwistedReduction
  PROVE  TypeOK'
<1>1. /\ NumColumns \in Nat /\ NumRows \in Nat
      /\ matrix.columns \in [Columns -> SUBSET Rows]
  BY MatrixFacts DEF TypeOK
<1>2. PICK columns \in [Columns -> SUBSET Rows] : StartReduction(columns)
  BY <1>1 DEF TypeOK, Compute, CohomologyReduction, TwistedReduction, ReduceLoaded
<1>3. reports' \in BOOLEAN /\ again' \in BOOLEAN
  BY DEF TypeOK, Compute, CohomologyReduction, TwistedReduction, ReduceLoaded
<1>4. Columns' = Columns /\ NumColumns' = NumColumns
  BY <1>2 DEF StartReduction, Columns, NumColumns
<1>5. col = NoColumn
  BY <1>2 DEF StartReduction, TypeOK, InPass
<1>6. /\ matrix' \in Inputs
      /\ columns_loaded' \in BOOLEAN
      /\ reduced_matrix' \in [Columns -> SUBSET Rows]
      /\ pivot_columns' \in [Columns -> Rows \cup {NoPivot}]
      /\ cleared' \in [Columns -> BOOLEAN]
      /\ lowRowToCol' \in [Rows -> Columns \cup {Unclaimed}]
      /\ pivotToCol' \in [Rows -> Columns \cup {Unclaimed}]
      /\ phase' = "apparent" /\ next' = 0 /\ col' = NoColumn
  BY <1>2, <1>5 DEF StartReduction, TypeOK
<1>7. 0 \in 0 .. NumColumns
  BY <1>1
<1>8. QED
  BY <1>3, <1>4, <1>6, <1>7 DEF TypeOK, Phases

LEMMA ApparentTypeOK ==
  ASSUME TypeOK, FindApparentPair \/ SkipColumn
  PROVE  TypeOK'
<1>1. /\ NumColumns \in Nat /\ Columns = 0 .. NumColumns - 1
      /\ phase = "apparent" /\ next < NumColumns /\ next' = next + 1
      /\ matrix' = matrix /\ phase' = phase /\ col' = col
  BY MatrixFacts DEF TypeOK, FindApparentPair, SkipColumn
<1>2. next \in 0 .. NumColumns /\ next \in Columns /\ next' \in 0 .. NumColumns
  BY <1>1 DEF TypeOK
<1>3. Columns' = Columns /\ NumColumns' = NumColumns
  BY <1>1 DEF Columns, NumColumns
<1>4. col = NoColumn
  BY <1>1 DEF TypeOK, InPass
<1>5. CASE FindApparentPair
  <2> DEFINE i == FindLowestPivot(next)
  <2>1. i \in Rows \cup {NoPivot} /\ i # NoPivot /\ i \in Columns
    BY <1>2, <1>5, LowFacts DEF FindApparentPair, IsApparent
  <2>2. /\ cleared' = [cleared EXCEPT ![i] = TRUE, ![next] = TRUE]
        /\ pivot_columns' = [pivot_columns EXCEPT ![next] = i]
        /\ reduced_matrix' = [reduced_matrix EXCEPT ![i] = {}, ![next] = {}]
        /\ UNCHANGED <<columns_loaded, lowRowToCol, pivotToCol, reports, again>>
    BY <1>5 DEF FindApparentPair
  <2> HIDE DEF i
  <2>3. cleared' \in [Columns -> BOOLEAN]
    BY <1>2, <2>1, <2>2 DEF TypeOK
  <2>4. pivot_columns' \in [Columns -> Rows \cup {NoPivot}]
    BY <1>2, <2>1, <2>2 DEF TypeOK
  <2>5. reduced_matrix' \in [Columns -> SUBSET Rows]
    BY <1>2, <2>1, <2>2 DEF TypeOK
  <2>6. /\ next' \in Int /\ phase' \in Phases /\ phase' # "twist"
        /\ col' \in Columns \cup {NoColumn} /\ ~(col' # NoColumn)
    BY <1>1, <1>2, <1>4 DEF Phases
  <2>7. /\ matrix' \in Inputs /\ columns_loaded' \in BOOLEAN
        /\ lowRowToCol' \in [Rows -> Columns \cup {Unclaimed}]
        /\ pivotToCol' \in [Rows -> Columns \cup {Unclaimed}]
        /\ reports' \in BOOLEAN /\ again' \in BOOLEAN
    BY <1>1, <2>2 DEF TypeOK
  <2>8. QED
    BY <1>2, <1>3, <2>3, <2>4, <2>5, <2>6, <2>7 DEF TypeOK
<1>6. CASE SkipColumn
  BY <1>1, <1>2, <1>3, <1>4, <1>6 DEF SkipColumn, TypeOK
<1>7. QED
  BY <1>5, <1>6

LEMMA StartPassTypeOK ==
  ASSUME TypeOK, StartTwist \/ StartStandard
  PROVE  TypeOK'
<1>1. /\ NumColumns \in Nat /\ NumRows \in Nat /\ Columns = 0 .. NumColumns - 1
      /\ matrix' = matrix
  BY MatrixFacts DEF TypeOK, StartTwist, StartStandard
<1>2. Columns' = Columns /\ NumColumns' = NumColumns
  BY <1>1 DEF Columns, NumColumns
<1>3. CASE StartTwist
  <2>1. pivotToCol' \in [Rows -> Columns \cup {Unclaimed}]
    <3>1. ASSUME NEW r \in Rows
          PROVE  Max({Unclaimed} \cup {c \in Columns : ~cleared[c] /\ FindLowestPivot(c) = r})
                   \in Columns \cup {Unclaimed}
      BY <1>1, GreatestCandidate
    <3>2. QED
      BY <1>3, <3>1 DEF StartTwist
  <2>2. col = NoColumn
    BY <1>3 DEF StartTwist, TypeOK, InPass
  <2>3. next' \in -1 .. NumRows - 1
    BY <1>1, <1>3 DEF StartTwist
  <2>4. cleared' \in [Columns -> BOOLEAN]
    BY <1>3 DEF StartTwist, TypeOK
  <2>5. QED
    BY <1>1, <1>2, <1>3, <2>1, <2>2, <2>3, <2>4 DEF StartTwist, TypeOK, Phases
<1>4. CASE StartStandard
  <2>1. col = NoColumn
    BY <1>4 DEF StartStandard, TypeOK, InPass
  <2>2. 0 \in 0 .. NumColumns
    BY <1>1
  <2>3. QED
    BY <1>1, <1>2, <1>4, <2>1, <2>2 DEF StartStandard, TypeOK, Phases
<1>5. QED
  BY <1>3, <1>4

(* What an iteration of either loop does to its loop variable.             *)
LEMMA AdvanceTypeOK ==
  ASSUME TypeOK, InPass, Advance, UNCHANGED <<matrix, phase>>
  PROVE  /\ next' \in Int
         /\ phase' = "twist" => next' \in -1 .. NumRows - 1
         /\ phase' \in {"apparent", "standard"} => next' \in 0 .. NumColumns'
<1>1. NumColumns \in Nat /\ NumRows \in Nat /\ NumColumns' = NumColumns
  BY MatrixFacts DEF TypeOK, NumColumns, Columns
<1>2. CASE phase = "twist"
  BY <1>1, <1>2 DEF TypeOK, InPass, Advance
<1>3. CASE phase = "standard"
  BY <1>1, <1>3 DEF TypeOK, InPass, Advance
<1>4. QED
  BY <1>2, <1>3 DEF InPass

(* ClearBirthColumn writes columns and rows where they belong.             *)
LEMMA ClearTypeOK ==
  ASSUME TypeOK, NEW row \in Rows, NEW killer \in Columns, ClearBirthColumn(row, killer)
  PROVE  /\ reduced_matrix' \in [Columns -> SUBSET Rows]
         /\ pivot_columns' \in [Columns -> Rows \cup {NoPivot}]
         /\ cleared' \in [Columns -> BOOLEAN]
<1> DEFINE b == BirthColumn(row)
<1>1. b \in Columns \cup {NoColumn}
  BY MatrixFacts DEF TypeOK, BirthColumn
<1>2. CASE b = NoColumn \/ cleared[b]
  BY <1>2 DEF ClearBirthColumn, TypeOK
<1>3. CASE ~(b = NoColumn \/ cleared[b])
  <2>1. b \in Columns
    BY <1>1, <1>3
  <2>2. /\ pivot_columns' = [pivot_columns EXCEPT ![killer] = row, ![b] = NoPivot]
        /\ cleared' = [cleared EXCEPT ![b] = TRUE]
        /\ reduced_matrix' = [reduced_matrix EXCEPT ![b] = {}]
    BY <1>3 DEF ClearBirthColumn
  <2> HIDE DEF b
  <2>3. QED
    BY <2>1, <2>2 DEF TypeOK
<1>4. QED
  BY <1>2, <1>3

LEMMA PassTypeOK ==
  ASSUME TypeOK,
         SkipIteration \/ EnterColumn \/ LeaveEmptyColumn \/ ClaimRow \/ EliminatePivot
  PROVE  TypeOK'
<1>1. matrix' = matrix /\ phase' = phase
  BY DEF SkipIteration, EnterColumn, LeaveEmptyColumn, ClaimRow, EliminatePivot
<1>2. Columns' = Columns /\ NumColumns' = NumColumns
  BY <1>1 DEF Columns, NumColumns
<1>3. NumColumns \in Nat /\ NumRows \in Nat /\ Columns = 0 .. NumColumns - 1
  BY MatrixFacts DEF TypeOK
<1>4. InPass
  BY DEF TypeOK, SkipIteration, EnterColumn, LeaveEmptyColumn, ClaimRow, EliminatePivot
<1>5. CASE SkipIteration \/ LeaveEmptyColumn
  <2>1. Advance /\ col' = NoColumn
    BY <1>5 DEF SkipIteration, LeaveEmptyColumn
  <2>2. UNCHANGED <<columns_loaded, reduced_matrix, pivot_columns, cleared, lowRowToCol,
                    pivotToCol, reports, again>>
    BY <1>5 DEF SkipIteration, LeaveEmptyColumn
  <2>3. QED
    BY <1>1, <1>2, <1>4, <2>1, <2>2, AdvanceTypeOK DEF TypeOK
<1>6. CASE EnterColumn
  <2>1. Candidate \in Columns
    <3>1. CASE phase = "twist"
      <4>1. next \in Rows
        BY <1>3, <1>4, <3>1 DEF TypeOK, InPass, Rows
      <4>2. QED
        BY <1>6, <3>1, <4>1 DEF TypeOK, Candidate, EnterColumn, Worthwhile
    <3>2. CASE phase = "standard"
      BY <1>3, <1>4, <3>2 DEF TypeOK, InPass, Candidate
    <3>3. QED
      BY <1>4, <3>1, <3>2 DEF InPass
  <2>2. InPass'
    BY <1>1, <1>2, <1>4, <1>6 DEF InPass, EnterColumn
  <2>3. /\ col' = Candidate
        /\ UNCHANGED <<columns_loaded, reduced_matrix, pivot_columns, cleared, lowRowToCol,
                       pivotToCol, next, reports, again>>
    BY <1>6 DEF EnterColumn
  <2>4. QED
    BY <1>1, <1>2, <2>1, <2>2, <2>3 DEF TypeOK
<1>7. CASE ClaimRow
  <2> DEFINE row == FindLowestPivot(col)
  <2>1. col \in Columns /\ row \in Rows
    BY <1>7, LowFacts DEF ClaimRow, TypeOK
  <2>2. /\ lowRowToCol' = [lowRowToCol EXCEPT ![row] = col]
        /\ ClearBirthColumn(row, col)
        /\ Advance /\ col' = NoColumn
        /\ UNCHANGED <<columns_loaded, pivotToCol, reports, again>>
    BY <1>7 DEF ClaimRow
  <2> HIDE DEF row
  <2>3. /\ reduced_matrix' \in [Columns -> SUBSET Rows]
        /\ pivot_columns' \in [Columns -> Rows \cup {NoPivot}]
        /\ cleared' \in [Columns -> BOOLEAN]
    BY <2>1, <2>2, ClearTypeOK
  <2>4. lowRowToCol' \in [Rows -> Columns \cup {Unclaimed}]
    BY <2>1, <2>2 DEF TypeOK
  <2>5. QED
    BY <1>1, <1>2, <1>4, <2>2, <2>3, <2>4, AdvanceTypeOK DEF TypeOK
<1>8. CASE EliminatePivot
  <2> DEFINE row == FindLowestPivot(col)
             killer == lowRowToCol[row]
  <2>1. col \in Columns /\ row \in Rows
    BY <1>8, LowFacts DEF EliminatePivot, TypeOK
  <2>2. killer \in Columns
    BY <1>8, <2>1 DEF EliminatePivot, TypeOK
  <2>3. AddColumn(reduced_matrix[col], reduced_matrix[killer]) \in SUBSET Rows
    <3>1. reduced_matrix[col] \in SUBSET Rows /\ reduced_matrix[killer] \in SUBSET Rows
      BY <2>1, <2>2 DEF TypeOK
    <3>2. QED
      BY <3>1, AddColumnType
  <2>4. /\ reduced_matrix' =
             [reduced_matrix EXCEPT ![col] = AddColumn(@, reduced_matrix[killer])]
        /\ UNCHANGED <<columns_loaded, pivot_columns, cleared, lowRowToCol,
                       pivotToCol, next, col, reports, again>>
    BY <1>8 DEF EliminatePivot
  <2> HIDE DEF row, killer
  <2>5. reduced_matrix' \in [Columns -> SUBSET Rows]
    BY <2>1, <2>3, <2>4 DEF TypeOK
  <2>6. InPass' <=> InPass
    BY <1>1, <1>2, <2>4 DEF InPass
  <2>7. QED
    BY <1>1, <1>2, <2>4, <2>5, <2>6 DEF TypeOK
<1>9. QED
  BY <1>5, <1>6, <1>7, <1>8

LEMMA NextTypeOK == TypeOK /\ [Next]_vars => TypeOK'
<1> SUFFICES ASSUME TypeOK, [Next]_vars PROVE TypeOK'
  OBVIOUS
<1>1. CASE UNCHANGED vars
  BY <1>1 DEF vars, TypeOK, Columns, NumColumns, InPass
<1>2. CASE ExtractPairs \/ ReturnReduced
  <2>1. col = NoColumn
    BY <1>2 DEF ExtractPairs, ReturnReduced, TypeOK, InPass
  <2>2. QED
    BY <1>2, <2>1 DEF ExtractPairs, ReturnReduced, TypeOK, Phases, Columns, NumColumns
<1>3. QED
  BY <1>1, <1>2, StartTypeOK, ApparentTypeOK, StartPassTypeOK, PassTypeOK DEF Next, Reduce

(* Every variable of the reducer keeps its type: no loop leaves the matrix.*)
THEOREM TypeCorrect == Spec => []TypeOK
BY InitTypeOK, NextTypeOK, PTL DEF Spec

(***************************************************************************)
(* The passes.                                                             *)
(***************************************************************************)

PassesInv ==
  SpanInv /\ ClearedInv /\ ApparentInv /\ TwistInv /\ StandardInv /\ AgainInv

LEMMA BoundaryFacts ==
  ASSUME BoundaryMatrices, TypeOK, AllDimensions
  PROVE  /\ FacesFirst(matrix.columns) /\ BoundaryOfBoundaryEmpty(matrix.columns)
         /\ matrix.columns \in [0 .. NumColumns - 1 -> SUBSET (0 .. NumColumns - 1)]
         /\ \A r \in Rows : r \in Columns => BirthColumn(r) = r
<1>1. /\ matrix \in Inputs /\ NumColumns \in Nat /\ Columns = 0 .. NumColumns - 1
      /\ matrix.columns \in [Columns -> SUBSET Rows]
  BY MatrixFacts DEF TypeOK
<1>2. Numbered(matrix) /\ \A r \in Rows : r \in Columns => BirthColumn(r) = r
  BY DEF AllDimensions, Numbered, BirthColumn, Columns
<1>3. FacesFirst(matrix.columns) /\ BoundaryOfBoundaryEmpty(matrix.columns)
  BY <1>1, <1>2 DEF BoundaryMatrices
<1>4. ASSUME NEW c \in Columns
      PROVE  matrix.columns[c] \in SUBSET (0 .. NumColumns - 1)
  <2>1. matrix.columns[c] \subseteq 0 .. c - 1
    BY <1>3 DEF FacesFirst, Columns
  <2>2. 0 .. c - 1 \subseteq 0 .. NumColumns - 1
    BY <1>1
  <2>3. QED
    BY <2>1, <2>2
<1>5. QED
  BY <1>1, <1>2, <1>3, <1>4

(* The columns, as the lemmas on matrices want them.                       *)
LEMMA ReducedFacts ==
  ASSUME BoundaryMatrices, TypeOK, AllDimensions, SpanInv
  PROVE  /\ NumColumns \in Nat /\ Columns = 0 .. NumColumns - 1
         /\ reduced_matrix \in [0 .. NumColumns - 1 -> SUBSET (0 .. NumColumns - 1)]
<1>1. NumColumns \in Nat /\ Columns = 0 .. NumColumns - 1
  BY MatrixFacts DEF TypeOK
<1>2. ASSUME NEW c \in Columns
      PROVE  reduced_matrix[c] \in SUBSET (0 .. NumColumns - 1)
  <2>1. reduced_matrix[c] \subseteq 0 .. c - 1
    BY DEF SpanInv
  <2>2. 0 .. c - 1 \subseteq 0 .. NumColumns - 1
    BY <1>1
  <2>3. QED
    BY <2>1, <2>2
<1>3. QED
  BY <1>1, <1>2 DEF TypeOK

(* A pivot lies above its column.                                          *)
LEMMA PivotAbove ==
  ASSUME BoundaryMatrices, TypeOK, AllDimensions, SpanInv,
         NEW c \in Columns, reduced_matrix[c] # {}
  PROVE  /\ FindLowestPivot(c) \in 0 .. c - 1
         /\ FindLowestPivot(c) \in Columns /\ FindLowestPivot(c) \in Rows
         /\ BirthColumn(FindLowestPivot(c)) = FindLowestPivot(c)
<1>1. FindLowestPivot(c) \in reduced_matrix[c] /\ FindLowestPivot(c) \in Rows
  BY LowFacts DEF TypeOK
<1>2. FindLowestPivot(c) \in 0 .. c - 1
  BY <1>1 DEF SpanInv
<1>3. FindLowestPivot(c) \in Columns
  BY <1>2, ReducedFacts
<1>4. QED
  BY <1>1, <1>2, <1>3, BoundaryFacts

----------------------------------------------------------------------------
(* One lemma per kind of step.                                             *)

LEMMA InitPasses ==
  ASSUME BoundaryMatrices, Init, AllDimensions
  PROVE  PassesInv
<1>1. /\ phase = "idle" /\ columns_loaded = FALSE /\ again = FALSE
      /\ \A c \in Columns : reduced_matrix[c] = {} /\ cleared[c] = FALSE
  BY DEF Init
<1>2. SpanInv
  BY <1>1 DEF SpanInv
<1>3. ClearedInv
  BY <1>1 DEF ClearedInv
<1>4. QED
  BY <1>1, <1>2, <1>3
     DEF PassesInv, ApparentInv, TwistInv, StandardInv, AgainInv

LEMMA StartPasses ==
  ASSUME BoundaryMatrices, TypeOK, AllDimensions, PassesInv,
         Compute \/ CohomologyReduction \/ TwistedReduction
  PROVE  PassesInv'
<1>1. PICK columns \in {matrix.columns, reduced_matrix} :
        /\ StartReduction(columns)
        /\ again' \/ columns # matrix.columns =>
             columns_loaded /\ columns = reduced_matrix
  <2>1. CASE Compute
    <3>1. StartReduction(matrix.columns) /\ ~again'
      BY <2>1 DEF Compute
    <3>2. QED
      BY <3>1
  <2>2. CASE CohomologyReduction \/ TwistedReduction
    <3>1. /\ StartReduction(IF columns_loaded THEN reduced_matrix ELSE matrix.columns)
          /\ again' = columns_loaded
      BY <2>2 DEF CohomologyReduction, TwistedReduction, ReduceLoaded
    <3>2. CASE columns_loaded
      BY <3>1, <3>2
    <3>3. CASE ~columns_loaded
      BY <3>1, <3>3
    <3>4. QED
      BY <3>2, <3>3
  <2>3. QED
    BY <2>1, <2>2
<1>2. /\ phase = "idle" /\ phase' = "apparent" /\ next' = 0 /\ columns_loaded'
      /\ matrix' = matrix /\ reduced_matrix' = columns
      /\ \A c \in Columns : pivot_columns'[c] = NoPivot
      /\ \A c \in Columns : cleared'[c] <=> columns[c] = {}
      /\ \A r \in Rows : lowRowToCol'[r] = Unclaimed
  BY <1>1 DEF StartReduction
<1>3. Columns' = Columns /\ NumColumns' = NumColumns
  BY <1>2 DEF Columns, NumColumns
<1>4. SpanInv'
  <2>1. CASE columns = matrix.columns
    <3>1. \A c \in Columns : matrix.columns[c] \subseteq 0 .. c - 1
      BY BoundaryFacts DEF FacesFirst, Columns
    <3>2. QED
      BY <1>2, <1>3, <2>1, <3>1 DEF SpanInv
  <2>2. CASE columns # matrix.columns
    BY <1>1, <1>2, <1>3, <2>2 DEF PassesInv, SpanInv
  <2>3. QED
    BY <2>1, <2>2
<1>5. ClearedInv'
  BY <1>2, <1>3 DEF ClearedInv
<1>6. ApparentInv'
  BY <1>2, <1>3 DEF ApparentInv
<1>7. AgainInv'
  <2>1. again' => PivotsDistinct(reduced_matrix', NumColumns)
    BY <1>1, <1>2 DEF PassesInv, AgainInv
  <2>2. QED
    BY <1>2, <1>3, <2>1 DEF AgainInv
<1>8. QED
  BY <1>2, <1>4, <1>5, <1>6, <1>7 DEF PassesInv, TwistInv, StandardInv

(* No pair is apparent: a pivot row numbered like a column has no column   *)
(* with that pivot, whose rows are all above.                              *)
LEMMA NothingApparent ==
  ASSUME BoundaryMatrices, TypeOK, AllDimensions, PassesInv
  PROVE  ~FindApparentPair
<1> SUFFICES ASSUME FindApparentPair PROVE FALSE
  OBVIOUS
<1>1. PICK i \in Columns : FindLowestPivot(i) = i /\ i # NoPivot
  BY DEF FindApparentPair, IsApparent
<1>2. reduced_matrix[i] # {}
  BY <1>1, LowFacts
<1>3. i \in 0 .. i - 1
  BY <1>1, <1>2, PivotAbove DEF PassesInv
<1>4. i \in Int
  BY ReducedFacts DEF PassesInv
<1>5. QED
  BY <1>3, <1>4

LEMMA SkipPasses ==
  ASSUME TypeOK, PassesInv, SkipColumn
  PROVE  PassesInv'
<1>1. /\ phase = "apparent" /\ phase' = phase
      /\ UNCHANGED <<matrix, columns_loaded, reduced_matrix, pivot_columns, cleared,
                     lowRowToCol, again>>
  BY DEF SkipColumn
<1>2. Columns' = Columns /\ NumColumns' = NumColumns
  BY <1>1 DEF Columns, NumColumns
<1>3. SpanInv' /\ ClearedInv' /\ ApparentInv'
  BY <1>1, <1>2 DEF PassesInv, SpanInv, ClearedInv, ApparentInv
<1>4. AgainInv'
  BY <1>1, <1>2 DEF PassesInv, AgainInv
<1>5. QED
  BY <1>1, <1>3, <1>4 DEF PassesInv, TwistInv, StandardInv

LEMMA TwistStarts ==
  ASSUME TypeOK, PassesInv, StartTwist
  PROVE  PassesInv'
<1>1. /\ phase = "apparent" /\ phase' = "twist"
      /\ UNCHANGED <<matrix, columns_loaded, reduced_matrix, pivot_columns,
                     lowRowToCol, col, again>>
      /\ cleared' = [c \in Columns |-> cleared[c] \/ FindLowestPivot(c) = NoPivot]
  BY DEF StartTwist
<1>2. Columns' = Columns /\ NumColumns' = NumColumns /\ col = NoColumn
  BY <1>1 DEF Columns, NumColumns, TypeOK, InPass
<1>3. NumColumns \in Nat /\ Columns = 0 .. NumColumns - 1
  BY MatrixFacts DEF TypeOK
<1>4. \A c \in Columns : cleared'[c] <=> cleared[c] \/ reduced_matrix[c] = {}
  BY <1>1, LowFacts
<1>5. ASSUME NEW r \in Rows, pivotToCol'[r] # Unclaimed
      PROVE  Low(reduced_matrix[pivotToCol'[r]]) = r
  <2> DEFINE S == {c \in Columns : ~cleared[c] /\ FindLowestPivot(c) = r}
  <2>1. pivotToCol'[r] = Max({Unclaimed} \cup S)
    BY DEF StartTwist
  <2>2. pivotToCol'[r] \in S
    BY <1>3, <1>5, <2>1, GreatestCandidate
  <2>3. QED
    BY <2>2 DEF FindLowestPivot
<1>6. SpanInv'
  BY <1>1, <1>2 DEF PassesInv, SpanInv
<1>7. ClearedInv'
  BY <1>1, <1>2, <1>4 DEF PassesInv, ClearedInv, ApparentInv
<1>8. TwistInv'
  BY <1>1, <1>2, <1>4, <1>5 DEF PassesInv, TwistInv, ApparentInv
<1>9. AgainInv'
  BY <1>1, <1>2, <1>4 DEF PassesInv, AgainInv
<1>10. QED
  BY <1>1, <1>6, <1>7, <1>8, <1>9 DEF PassesInv, ApparentInv, StandardInv

LEMMA StandardStarts ==
  ASSUME TypeOK, PassesInv, StartStandard
  PROVE  PassesInv'
<1>1. /\ phase = "twist" /\ phase' = "standard" /\ next' = 0
      /\ UNCHANGED <<matrix, columns_loaded, reduced_matrix, pivot_columns, cleared,
                     col, again>>
      /\ \A r \in Rows : lowRowToCol'[r] = Unclaimed
  BY DEF StartStandard
<1>2. Columns' = Columns /\ NumColumns' = NumColumns /\ col = NoColumn
  BY DEF StartStandard, Columns, NumColumns, TypeOK, InPass
<1>3. SpanInv' /\ ClearedInv'
  BY <1>1, <1>2 DEF PassesInv, SpanInv, ClearedInv
<1>4. AgainInv'
  BY <1>1, <1>2 DEF PassesInv, AgainInv
<1>5. StandardInv'
  <2>1. 0 .. next' - 1 = {}
    BY <1>1
  <2>2. QED
    BY <1>1, <1>2, <2>1 DEF StandardInv
<1>6. QED
  BY <1>1, <1>3, <1>4, <1>5 DEF PassesInv, ApparentInv, TwistInv

(* Entering a column, and iterations without or with an empty column,      *)
(* leave the columns and tables as they are.                               *)
LEMMA QuietPasses ==
  ASSUME TypeOK, PassesInv, SkipIteration \/ EnterColumn \/ LeaveEmptyColumn
  PROVE  PassesInv'
<1>1. /\ InPass /\ phase' = phase
      /\ UNCHANGED <<matrix, columns_loaded, reduced_matrix, pivot_columns, cleared,
                     lowRowToCol, pivotToCol, again>>
  BY DEF SkipIteration, EnterColumn, LeaveEmptyColumn, TypeOK
<1>2. /\ Columns' = Columns /\ NumColumns' = NumColumns
      /\ NumColumns \in Nat /\ Columns = 0 .. NumColumns - 1 /\ next \in Int
  BY <1>1, MatrixFacts DEF Columns, NumColumns, TypeOK
<1>3. SpanInv' /\ ClearedInv'
  BY <1>1, <1>2 DEF PassesInv, SpanInv, ClearedInv
<1>4. AgainInv'
  BY <1>1, <1>2 DEF PassesInv, AgainInv
<1>5. CASE phase = "twist"
  <2>1. /\ EnterColumn => next' = next /\ col' = pivotToCol[next] /\ ~cleared[col']
        /\ ~EnterColumn => next' = next - 1 /\ col' = NoColumn
    BY <1>5 DEF EnterColumn, SkipIteration, LeaveEmptyColumn, Candidate, Worthwhile, Advance
  <2>2. \A r \in Rows : r <= next' => r <= next
    BY <1>2, <2>1 DEF Rows
  <2>3. TwistInv'
    BY <1>1, <1>2, <1>5, <2>1, <2>2 DEF PassesInv, TwistInv
  <2>4. QED
    BY <1>1, <1>3, <1>4, <1>5, <2>3 DEF PassesInv, ApparentInv, StandardInv
<1>6. CASE phase = "standard"
  <2>1. /\ EnterColumn => next' = next /\ col' = next /\ ~cleared[next]
        /\ ~EnterColumn => next' = next + 1 /\ col' = NoColumn
    BY <1>6 DEF EnterColumn, SkipIteration, LeaveEmptyColumn, Candidate, Worthwhile, Advance
  <2>2. next \in Columns
    BY <1>1, <1>2, <1>6 DEF InPass, TypeOK
  <2>3. ~EnterColumn => reduced_matrix[next] = {}
    <3>1. CASE SkipIteration
      <4>1. cleared[next]
        BY <1>6, <2>2, <3>1, <1>2
           DEF SkipIteration, Worthwhile, Candidate, Unclaimed
      <4>2. QED
        BY <2>2, <4>1 DEF PassesInv, ClearedInv
    <3>2. CASE LeaveEmptyColumn
      <4>1. col = next /\ FindLowestPivot(next) = NoPivot
        BY <1>6, <3>2 DEF LeaveEmptyColumn, PassesInv, StandardInv
      <4>2. QED
        BY <2>2, <4>1, LowFacts
    <3>3. QED
      BY <3>1, <3>2
  <2>4. \A c \in 0 .. next' - 1 : Settled(c)'
    <3>1. \A c \in 0 .. next - 1 : Settled(c)'
      BY <1>1, <1>6 DEF PassesInv, StandardInv, Settled, FindLowestPivot
    <3>2. \A c \in Columns : c = next /\ ~EnterColumn => Settled(c)'
      BY <1>1, <2>3 DEF Settled
    <3>3. \A c \in 0 .. next' - 1 : (c \in 0 .. next - 1) \/ (c = next /\ ~EnterColumn)
      BY <1>2, <2>1
    <3>4. QED
      BY <2>2, <3>1, <3>2, <3>3
  <2>5. \A r \in Rows : lowRowToCol'[r] # Unclaimed =>
          /\ lowRowToCol'[r] < next'
          /\ FindLowestPivot(lowRowToCol[r])' = r
    <3>1. SUFFICES ASSUME NEW r \in Rows, lowRowToCol[r] # Unclaimed
                   PROVE  lowRowToCol[r] < next' /\ FindLowestPivot(lowRowToCol[r])' = r
      BY <1>1
    <3>2. lowRowToCol[r] < next /\ FindLowestPivot(lowRowToCol[r]) = r
      BY <1>6, <3>1 DEF PassesInv, StandardInv
    <3>3. lowRowToCol[r] \in Int
      BY <1>2, <3>1 DEF TypeOK
    <3>4. next' = next \/ next' = next + 1
      BY <2>1
    <3>5. FindLowestPivot(lowRowToCol[r])' = FindLowestPivot(lowRowToCol[r])
      BY <1>1 DEF FindLowestPivot
    <3>6. QED
      BY <1>2, <3>2, <3>3, <3>4, <3>5
  <2>6. StandardInv'
    BY <1>1, <1>6, <2>1, <2>4, <2>5 DEF StandardInv
  <2>7. QED
    BY <1>1, <1>3, <1>4, <1>6, <2>6 DEF PassesInv, ApparentInv, TwistInv
<1>7. QED
  BY <1>1, <1>5, <1>6 DEF InPass

----------------------------------------------------------------------------
(* The two steps that write columns.                                       *)

(* clearBirthColumn empties a column that depends on the columns before it.*)
LEMMA Clearing ==
  ASSUME BoundaryMatrices, TypeOK, AllDimensions, PassesInv, phase # "idle",
         NEW killer \in Columns, reduced_matrix[killer] # {}, UNCHANGED matrix,
         ClearBirthColumn(FindLowestPivot(killer), killer)
  PROVE  LET row == FindLowestPivot(killer) IN
         /\ row \in Columns /\ row \in 0 .. killer - 1
         /\ PersistencePivot(matrix.columns, row) = NoPivot
         /\ reduced_matrix' = [reduced_matrix EXCEPT ![row] = {}]
         /\ pivot_columns' = [pivot_columns EXCEPT ![killer] = row, ![row] = NoPivot]
         /\ \A c \in Columns : cleared'[c] <=> cleared[c] \/ c = row
         /\ \A k \in 0 .. NumColumns :
              PrefixSpan(reduced_matrix', k) = PrefixSpan(matrix.columns, k)
<1> DEFINE row == FindLowestPivot(killer)
           N == NumColumns
           M == matrix.columns
<1>1. /\ N \in Nat /\ Columns = 0 .. N - 1
      /\ reduced_matrix \in [0 .. N - 1 -> SUBSET (0 .. N - 1)]
  BY ReducedFacts DEF PassesInv
<1>2. row \in 0 .. killer - 1 /\ row \in Columns /\ BirthColumn(row) = row
  BY PivotAbove DEF PassesInv
<1>3. /\ M \in [0 .. N - 1 -> SUBSET (0 .. N - 1)]
      /\ BoundaryOfBoundaryEmpty(M)
  BY BoundaryFacts
<1>4. \A k \in 0 .. N : PrefixSpan(reduced_matrix, k) = PrefixSpan(M, k)
  BY DEF PassesInv, SpanInv
<1>5. M[row] \in PrefixSpan(M, row)
  <2>1. reduced_matrix[killer] \in PrefixSpan(reduced_matrix, N)
    <3>1. killer \in 0 .. N - 1 /\ reduced_matrix[killer] \in SUBSET (0 .. N - 1)
      BY <1>1
    <3> HIDE DEF N
    <3>2. QED
      BY <1>1, <3>1, SpanHasColumn
  <2>2. N \in 0 .. N
    BY <1>1
  <2>3. reduced_matrix[killer] \in PrefixSpan(M, N)
    BY <1>4, <2>1, <2>2
  <2>4. row = Low(reduced_matrix[killer])
    BY DEF FindLowestPivot
  <2> HIDE DEF M, N, row
  <2>5. QED
    BY <1>1, <1>3, <2>3, <2>4, BirthsArePositive
<1>6. PersistencePivot(M, row) = NoPivot
  <2>1. row \in 0 .. N - 1
    BY <1>1, <1>2
  <2> HIDE DEF M, N, row
  <2>2. QED
    BY <1>1, <1>3, <1>5, <2>1, PositiveHasNoPivot
<1>7. /\ cleared[row] => reduced_matrix[row] = {} /\ pivot_columns[row] = NoPivot
      /\ row # NoColumn /\ row # killer
  <2>1. row # NoColumn /\ row # killer
    BY <1>1, <1>2 DEF NoColumn
  <2>2. QED
    BY <1>2, <2>1 DEF PassesInv, ClearedInv
<1>8. ClearBirthColumn(row, killer)
  OBVIOUS
<1>9. /\ reduced_matrix' = [reduced_matrix EXCEPT ![row] = {}]
      /\ pivot_columns' = [pivot_columns EXCEPT ![killer] = row, ![row] = NoPivot]
      /\ \A c \in Columns : cleared'[c] <=> cleared[c] \/ c = row
  <2>1. /\ pivot_columns \in [Columns -> Rows \cup {NoPivot}]
        /\ cleared \in [Columns -> BOOLEAN]
    BY DEF TypeOK
  <2> HIDE DEF row
  <2>2. CASE cleared[row]
    <3>1. /\ pivot_columns' = [pivot_columns EXCEPT ![killer] = row]
          /\ UNCHANGED <<cleared, reduced_matrix>>
      BY <1>2, <1>8, <2>2 DEF ClearBirthColumn
    <3>2. reduced_matrix = [reduced_matrix EXCEPT ![row] = {}]
      BY <1>1, <1>7, <2>2
    <3>3. [pivot_columns EXCEPT ![killer] = row]
            = [pivot_columns EXCEPT ![killer] = row, ![row] = NoPivot]
      BY <1>2, <1>7, <2>1, <2>2
    <3>4. QED
      BY <2>2, <3>1, <3>2, <3>3
  <2>3. CASE ~cleared[row]
    <3>1. /\ pivot_columns' = [pivot_columns EXCEPT ![killer] = row, ![row] = NoPivot]
          /\ cleared' = [cleared EXCEPT ![row] = TRUE]
          /\ reduced_matrix' = [reduced_matrix EXCEPT ![row] = {}]
      BY <1>2, <1>7, <1>8, <2>3 DEF ClearBirthColumn
    <3>2. QED
      BY <1>2, <2>1, <3>1
  <2>4. QED
    BY <2>2, <2>3
<1>10. ASSUME NEW k \in 0 .. N
       PROVE  PrefixSpan(reduced_matrix', k) = PrefixSpan(M, k)
  <2>1. row \in 0 .. N - 1 /\ row \in 0 .. N /\ row + 1 \in 0 .. N /\ row \in Nat
    BY <1>1, <1>2
  <2>2. reduced_matrix[row] \in PrefixSpan(reduced_matrix, row)
    <3>1. reduced_matrix[row] \in PrefixSpan(reduced_matrix, row + 1)
      <4>1. row \in 0 .. (row + 1) - 1 /\ row + 1 \in Nat
        BY <2>1
      <4>2. reduced_matrix[row] \in SUBSET (0 .. N - 1)
        BY <1>1, <2>1
      <4> HIDE DEF row, N
      <4>3. QED
        BY <4>1, <4>2, SpanHasColumn
    <3>2. PrefixSpan(M, row + 1) = PrefixSpan(M, row)
      <4>1. /\ \A j \in 0 .. row - 1 : M[j] \in SUBSET (0 .. N - 1)
        <5>1. \A j \in 0 .. row - 1 : j \in 0 .. N - 1
          BY <1>1, <2>1
        <5> HIDE DEF M, N, row
        <5>2. QED
          BY <1>3, <5>1
      <4> HIDE DEF M, N, row
      <4>2. \A a, b \in PrefixSpan(M, row) : AddColumn(a, b) \in PrefixSpan(M, row)
        BY <2>1, <4>1, SpanClosed
      <4>3. PrefixSpan(M, row + 1)
              = PrefixSpan(M, row) \cup {AddColumn(s, M[row]) : s \in PrefixSpan(M, row)}
        BY <2>1, SpanStep
      <4>4. QED
        BY <1>5, <4>2, <4>3
    <3> HIDE DEF M, N, row
    <3>3. QED
      BY <1>4, <2>1, <3>1, <3>2
  <2> HIDE DEF M, N, row
  <2>3. PrefixSpan(reduced_matrix', k) = PrefixSpan(reduced_matrix, k)
    <3> DEFINE V == reduced_matrix
               W == reduced_matrix'
    <3>1. N \in Nat /\ \A j \in 0 .. N - 1 : V[j] \in SUBSET Int
      BY <1>1
    <3>2. row \in 0 .. N - 1 /\ V[row] \in PrefixSpan(V, row) /\ k \in 0 .. N
      BY <2>1, <2>2
    <3>3. W[row] = {} /\ \A j \in 0 .. N - 1 : j # row => W[j] = V[j]
      BY <1>1, <1>9, <2>1
    <3> HIDE DEF V, W
    <3>4. PrefixSpan(W, k) = PrefixSpan(V, k)
      BY <3>1, <3>2, <3>3, SpanKeptByClearing, SMTT(30)
    <3>5. QED
      BY <3>4 DEF V, W
  <2>4. QED
    BY <1>4, <2>3
<1>11. QED
  BY <1>2, <1>6, <1>9, <1>10

(* The columns that the standard pass has passed have distinct pivots,     *)
(* which are their persistence pivots.                                     *)
LEMMA PassedPivots ==
  ASSUME BoundaryMatrices, TypeOK, AllDimensions, PassesInv, phase = "standard"
  PROVE  /\ PivotsDistinct(reduced_matrix, next)
         /\ \A j \in 0 .. next - 1 :
              PersistencePivot(matrix.columns, j) = FindLowestPivot(j)
<1> DEFINE N == NumColumns
           M == matrix.columns
<1>1. /\ N \in Nat /\ Columns = 0 .. N - 1 /\ next \in 0 .. N
      /\ reduced_matrix \in [0 .. N - 1 -> SUBSET (0 .. N - 1)]
  BY ReducedFacts DEF PassesInv, TypeOK
<1>2. M \in [0 .. N - 1 -> SUBSET (0 .. N - 1)]
  BY BoundaryFacts
<1>3. \A k \in 0 .. N : PrefixSpan(reduced_matrix, k) = PrefixSpan(M, k)
  BY DEF PassesInv, SpanInv
<1> HIDE DEF M, N
<1>4. \A c \in 0 .. next - 1 : c \in Columns /\ Settled(c)
  BY <1>1 DEF PassesInv, StandardInv
<1>5. PivotsDistinct(reduced_matrix, next)
  <2>1. SUFFICES ASSUME NEW c \in 0 .. next - 1, NEW d \in 0 .. next - 1,
                        reduced_matrix[c] # {},
                        Low(reduced_matrix[c]) = Low(reduced_matrix[d])
                 PROVE  c = d
    BY DEF PivotsDistinct
  <2>2. reduced_matrix[d] # {}
    BY <1>4, <2>1, LowFacts DEF FindLowestPivot
  <2>3. QED
    BY <1>4, <2>1, <2>2 DEF Settled, FindLowestPivot
<1>6. ASSUME NEW j \in 0 .. next - 1
      PROVE  PersistencePivot(M, j) = FindLowestPivot(j)
  <2>1. j \in 0 .. N - 1 /\ j \in 0 .. N /\ j + 1 \in 0 .. N
    BY <1>1
  <2>2. \A c \in 0 .. (j + 1) - 1 : c \in 0 .. next - 1
    BY <1>1
  <2>3. PivotsDistinct(reduced_matrix, j + 1)
    BY <1>5, <2>2 DEF PivotsDistinct
  <2>4. PersistencePivot(M, j) = Low(reduced_matrix[j])
    BY <1>1, <1>2, <1>3, <2>1, <2>3, ReducedColumnPivot
  <2>5. QED
    BY <2>4 DEF FindLowestPivot
<1>7. QED
  BY <1>5, <1>6 DEF M

LEMMA ClaimPasses ==
  ASSUME BoundaryMatrices, TypeOK, AllDimensions, PassesInv, ClaimRow
  PROVE  PassesInv'
<1> DEFINE row == FindLowestPivot(col)
<1>1. /\ col \in Columns /\ row # NoPivot /\ lowRowToCol[row] = Unclaimed
      /\ lowRowToCol' = [lowRowToCol EXCEPT ![row] = col]
      /\ ClearBirthColumn(row, col) /\ col' = NoColumn /\ Advance
      /\ InPass /\ phase' = phase
      /\ UNCHANGED <<matrix, columns_loaded, pivotToCol, again>>
  BY DEF ClaimRow, TypeOK
<1>2. /\ Columns' = Columns /\ NumColumns' = NumColumns
      /\ NumColumns \in Nat /\ Columns = 0 .. NumColumns - 1 /\ next \in Int
  BY <1>1, MatrixFacts DEF Columns, NumColumns, TypeOK
<1>3. ~cleared[col] /\ reduced_matrix[col] # {} /\ phase # "idle"
  <2>1. reduced_matrix[col] # {}
    BY <1>1, LowFacts
  <2>2. col # NoColumn
    BY <1>1, <1>2 DEF NoColumn
  <2>3. QED
    BY <1>1, <2>1, <2>2 DEF InPass, PassesInv, TwistInv, StandardInv
<1>4. /\ row \in Columns /\ row \in 0 .. col - 1
      /\ PersistencePivot(matrix.columns, row) = NoPivot
      /\ reduced_matrix' = [reduced_matrix EXCEPT ![row] = {}]
      /\ pivot_columns' = [pivot_columns EXCEPT ![col] = row, ![row] = NoPivot]
      /\ \A c \in Columns : cleared'[c] <=> cleared[c] \/ c = row
      /\ \A k \in 0 .. NumColumns :
           PrefixSpan(reduced_matrix', k) = PrefixSpan(matrix.columns, k)
  BY <1>1, <1>3, Clearing
<1>5. row \in Rows
  BY <1>1, LowFacts
<1>6. row # col
  BY <1>2, <1>4
<1> HIDE DEF row
<1>7. /\ reduced_matrix'[row] = {} /\ pivot_columns'[row] = NoPivot
      /\ pivot_columns'[col] = row
      /\ \A c \in Columns : c # row => reduced_matrix'[c] = reduced_matrix[c]
      /\ \A c \in Columns : c # row /\ c # col => pivot_columns'[c] = pivot_columns[c]
  BY <1>1, <1>4, <1>6 DEF TypeOK
<1>8. SpanInv'
  <2>1. \A c \in Columns : reduced_matrix'[c] \subseteq 0 .. c - 1
    BY <1>7 DEF PassesInv, SpanInv
  <2>2. QED
    BY <1>1, <1>2, <1>4, <2>1 DEF PassesInv, SpanInv
<1>9. ClearedInv'
  <2>1. ASSUME NEW c \in Columns, cleared'[c]
        PROVE  reduced_matrix'[c] = {} /\ pivot_columns'[c] = NoPivot
    BY <1>3, <1>4, <1>7, <2>1 DEF PassesInv, ClearedInv
  <2>2. QED
    BY <1>2, <2>1 DEF ClearedInv
<1>10. AgainInv'
  <2>1. SUFFICES ASSUME again
                 PROVE  /\ PivotsDistinct(reduced_matrix', NumColumns)
                        /\ \A c \in Columns : reduced_matrix'[c] = {} => cleared'[c]
    BY <1>1, <1>2, <1>3 DEF AgainInv
  <2>2. /\ PivotsDistinct(reduced_matrix, NumColumns)
        /\ \A c \in Columns : reduced_matrix[c] = {} => cleared[c]
    BY <1>3, <2>1 DEF PassesInv, AgainInv
  <2>3. \A c \in Columns : reduced_matrix'[c] = {} => cleared'[c]
    BY <1>4, <1>7, <2>2
  <2>4. ASSUME NEW c \in Columns, NEW d \in Columns, reduced_matrix'[c] # {},
               Low(reduced_matrix'[c]) = Low(reduced_matrix'[d])
        PROVE  c = d
    <3>1. c # row
      BY <1>7, <2>4
    <3>2. Low(reduced_matrix[c]) # NoPivot
      BY <1>7, <2>4, <3>1, LowFacts DEF FindLowestPivot
    <3>3. d # row
      BY <1>7, <2>4, <3>1, <3>2 DEF Low
    <3>4. QED
      BY <1>2, <1>7, <2>2, <2>4, <3>1, <3>3 DEF PivotsDistinct
  <2>5. QED
    BY <1>2, <2>3, <2>4 DEF PivotsDistinct
<1>11. CASE phase = "twist"
  <2>1. TwistInv /\ next' = next - 1 /\ col = pivotToCol[next] /\ next \in Rows
    BY <1>1, <1>2, <1>11 DEF PassesInv, TwistInv, Advance, InPass, NoColumn, TypeOK, Rows
  <2>2. row = next
    <3>1. next \in Rows /\ pivotToCol[next] # Unclaimed
      BY <1>1, <1>2, <2>1 DEF Unclaimed
    <3>2. QED
      BY <1>3, <1>11, <2>1, <3>1 DEF TwistInv, row, FindLowestPivot
  <2>3. \A c \in Columns : reduced_matrix'[c] = {} => cleared'[c]
    BY <1>4, <1>7, <1>11, <2>1 DEF TwistInv
  <2>4. ASSUME NEW r \in Rows, pivotToCol[r] # Unclaimed
        PROVE  cleared'[pivotToCol[r]] \/ Low(reduced_matrix'[pivotToCol[r]]) = r
    <3>1. pivotToCol[r] \in Columns
      BY <2>4 DEF TypeOK
    <3>2. QED
      BY <1>4, <1>7, <1>11, <2>1, <2>4, <3>1 DEF TwistInv
  <2>5. ASSUME NEW r \in Rows, r <= next'
        PROVE  lowRowToCol'[r] = Unclaimed
    <3>1. r <= next /\ r # next
      BY <1>2, <2>1, <2>5 DEF Rows
    <3>2. QED
      BY <1>1, <1>11, <2>1, <2>2, <3>1 DEF TwistInv, TypeOK
  <2>6. TwistInv'
    BY <1>1, <1>2, <1>11, <2>3, <2>4, <2>5 DEF TwistInv
  <2>7. QED
    BY <1>1, <1>8, <1>9, <1>10, <1>11, <2>6 DEF PassesInv, ApparentInv, StandardInv
<1>12. CASE phase = "standard"
  <2>1. /\ next' = next + 1 /\ col = next /\ next \in Columns
        /\ \A c \in 0 .. next - 1 : c \in Columns /\ Settled(c)
        /\ \A r \in Rows : lowRowToCol[r] # Unclaimed =>
             lowRowToCol[r] < next /\ FindLowestPivot(lowRowToCol[r]) = r
    BY <1>1, <1>2, <1>12 DEF PassesInv, StandardInv, Advance, InPass, NoColumn
  <2>2. reduced_matrix[row] = {}
    <3>1. row \in 0 .. next - 1
      BY <1>4, <2>1
    <3>2. FindLowestPivot(row) = NoPivot
      BY <1>4, <1>12, <3>1, PassedPivots
    <3>3. QED
      BY <1>4, <3>2, LowFacts
  <2>3. \A c \in Columns : reduced_matrix'[c] = reduced_matrix[c]
    BY <1>7, <2>2
  <2>4. \A c \in Columns : FindLowestPivot(c)' = FindLowestPivot(c)
    BY <2>3 DEF FindLowestPivot
  <2>5. ASSUME NEW c \in 0 .. next - 1, reduced_matrix'[c] # {}
        PROVE  LET r == FindLowestPivot(c)' IN
               lowRowToCol'[r] = c /\ pivot_columns'[c] = r /\ cleared'[r]
    <3> DEFINE r == FindLowestPivot(c)
    <3>1. c \in Columns /\ c # row /\ c # col /\ c # Unclaimed
      BY <1>2, <2>1, <2>2, <2>3, <2>5 DEF Unclaimed
    <3>2. lowRowToCol[r] = c /\ pivot_columns[c] = r /\ cleared[r]
      BY <2>1, <2>3, <2>5, <3>1 DEF Settled
    <3>3. r \in Columns /\ r \in Rows
      BY <2>3, <2>5, <3>1, PivotAbove DEF PassesInv
    <3>4. r # row
      BY <1>1, <3>1, <3>2
    <3>5. lowRowToCol'[r] = c
      BY <1>1, <1>5, <3>2, <3>3, <3>4 DEF TypeOK
    <3>6. QED
      BY <1>4, <1>7, <2>4, <3>1, <3>2, <3>3, <3>5
  <2>6. /\ FindLowestPivot(next) = row /\ lowRowToCol'[row] = next
        /\ pivot_columns'[next] = row /\ cleared'[row]
    BY <1>1, <1>4, <1>5, <1>7, <2>1 DEF row, TypeOK
  <2>7. \A c \in 0 .. next' - 1 : Settled(c)'
    <3>1. SUFFICES ASSUME NEW c \in 0 .. next' - 1 PROVE Settled(c)'
      OBVIOUS
    <3>2. CASE c \in 0 .. next - 1
      BY <2>5, <3>2 DEF Settled
    <3>3. CASE c = next
      BY <2>1, <2>4, <2>6, <3>3 DEF Settled
    <3>4. QED
      BY <1>2, <2>1, <3>1, <3>2, <3>3
  <2>8. ASSUME NEW r \in Rows, lowRowToCol'[r] # Unclaimed
        PROVE  lowRowToCol'[r] < next' /\ FindLowestPivot(lowRowToCol[r])' = r
    <3>1. CASE r = row
      BY <1>2, <2>1, <2>4, <2>6, <3>1
    <3>2. CASE r # row
      <4>1. lowRowToCol'[r] = lowRowToCol[r] /\ lowRowToCol[r] \in Columns
        BY <1>1, <2>8, <3>2 DEF TypeOK
      <4>2. QED
        BY <1>2, <2>1, <2>4, <2>8, <4>1
    <3>3. QED
      BY <3>1, <3>2
  <2>9. StandardInv'
    BY <1>1, <1>12, <2>7, <2>8 DEF StandardInv
  <2>10. QED
    BY <1>1, <1>8, <1>9, <1>10, <1>12, <2>9 DEF PassesInv, ApparentInv, TwistInv
<1>13. QED
  BY <1>1, <1>11, <1>12 DEF InPass

(* The candidate of a row in the twist pass finds its row unclaimed.       *)
LEMMA TwistAddsNothing ==
  ASSUME TypeOK, PassesInv, phase = "twist"
  PROVE  ~EliminatePivot
<1> SUFFICES ASSUME EliminatePivot PROVE FALSE
  OBVIOUS
<1>1. /\ col \in Columns /\ InPass /\ lowRowToCol[FindLowestPivot(col)] # Unclaimed
  BY DEF EliminatePivot, TypeOK
<1>2. NumColumns \in Nat /\ Columns = 0 .. NumColumns - 1 /\ next \in Int
  BY MatrixFacts DEF TypeOK
<1>3. col # NoColumn
  BY <1>1, <1>2 DEF NoColumn
<1>4. TwistInv /\ col = pivotToCol[next] /\ ~cleared[col] /\ next \in Rows
  BY <1>1, <1>3 DEF PassesInv, TwistInv, InPass, TypeOK, Rows
<1>5. FindLowestPivot(col) = next
  <2>1. pivotToCol[next] # Unclaimed
    BY <1>1, <1>2, <1>4 DEF Unclaimed
  <2>2. QED
    BY <1>4, <2>1 DEF TwistInv, FindLowestPivot
<1>6. next <= next
  BY <1>2
<1>7. QED
  BY <1>1, <1>4, <1>5, <1>6 DEF TwistInv

LEMMA EliminatePasses ==
  ASSUME BoundaryMatrices, TypeOK, AllDimensions, PassesInv, EliminatePivot
  PROVE  PassesInv'
<1> DEFINE row == FindLowestPivot(col)
           killer == lowRowToCol[row]
<1>1. /\ col \in Columns /\ row # NoPivot /\ killer # Unclaimed
      /\ reduced_matrix' =
           [reduced_matrix EXCEPT ![col] = AddColumn(@, reduced_matrix[killer])]
      /\ InPass /\ phase' = phase
      /\ UNCHANGED <<matrix, columns_loaded, pivot_columns, cleared, lowRowToCol,
                     pivotToCol, next, col, again>>
  BY DEF EliminatePivot, TypeOK
<1>2. /\ Columns' = Columns /\ NumColumns' = NumColumns
      /\ NumColumns \in Nat /\ Columns = 0 .. NumColumns - 1 /\ next \in Int
      /\ reduced_matrix \in [0 .. NumColumns - 1 -> SUBSET (0 .. NumColumns - 1)]
  BY <1>1, ReducedFacts DEF Columns, NumColumns, TypeOK, PassesInv
<1>3. row \in Rows /\ reduced_matrix[col] # {} /\ killer \in Columns
  <2>1. row \in Rows /\ reduced_matrix[col] # {}
    BY <1>1, LowFacts
  <2>2. QED
    BY <1>1, <2>1 DEF TypeOK
<1>4. phase = "standard"
  BY <1>1, TwistAddsNothing DEF InPass
<1>5. /\ col = next /\ ~cleared[col] /\ killer < next /\ FindLowestPivot(killer) = row
      /\ \A c \in 0 .. next - 1 : Settled(c)
      /\ \A r \in Rows : lowRowToCol[r] # Unclaimed =>
           lowRowToCol[r] < next /\ FindLowestPivot(lowRowToCol[r]) = r
  <2>1. col # NoColumn
    BY <1>1, <1>2 DEF NoColumn
  <2>2. QED
    BY <1>1, <1>3, <1>4, <2>1 DEF PassesInv, StandardInv
<1> HIDE DEF row, killer
<1>6. \A c \in Columns : c # col => reduced_matrix'[c] = reduced_matrix[c]
  BY <1>1, <1>2
<1>7. SpanInv'
  <2>1. reduced_matrix'[col] \subseteq 0 .. col - 1
    <3>1. reduced_matrix'[col] = AddColumn(reduced_matrix[col], reduced_matrix[killer])
      BY <1>1, <1>2
    <3>2. reduced_matrix[col] \subseteq 0 .. col - 1 /\ reduced_matrix[killer] \subseteq 0 .. killer - 1
      BY <1>1, <1>3 DEF PassesInv, SpanInv
    <3>3. 0 .. killer - 1 \subseteq 0 .. col - 1
      BY <1>2, <1>3, <1>5
    <3>4. reduced_matrix[col] \in SUBSET (0 .. col - 1) /\ reduced_matrix[killer] \in SUBSET (0 .. col - 1)
      BY <3>2, <3>3
    <3>5. AddColumn(reduced_matrix[col], reduced_matrix[killer]) \in SUBSET (0 .. col - 1)
      BY <3>4 DEF AddColumn, SymDiff
    <3>6. QED
      BY <3>1, <3>5
  <2>2. \A c \in Columns : reduced_matrix'[c] \subseteq 0 .. c - 1
    BY <1>6, <2>1 DEF PassesInv, SpanInv
  <2>3. \A k \in 0 .. NumColumns : PrefixSpan(reduced_matrix', k) = PrefixSpan(reduced_matrix, k)
    <3>1. AddsEarlierColumn(reduced_matrix, reduced_matrix', NumColumns)
      BY <1>1, <1>2, <1>3, <1>5 DEF AddsEarlierColumn
    <3>2. QED
      BY <1>2, <3>1, SpanKeptByAddition
  <2>4. QED
    BY <1>1, <1>2, <2>2, <2>3 DEF PassesInv, SpanInv
<1>8. ClearedInv'
  BY <1>1, <1>2, <1>5, <1>6 DEF PassesInv, ClearedInv
<1>9. AgainInv'
  <2>1. SUFFICES ASSUME again PROVE FALSE
    BY <1>1, <1>4 DEF AgainInv
  <2>2. PivotsDistinct(reduced_matrix, NumColumns)
    BY <1>4, <2>1 DEF PassesInv, AgainInv
  <2>3. Low(reduced_matrix[col]) = Low(reduced_matrix[killer])
    BY <1>5 DEF row, FindLowestPivot
  <2>4. col = killer
    BY <1>1, <1>2, <1>3, <2>2, <2>3 DEF PivotsDistinct
  <2>5. QED
    BY <1>2, <1>5, <2>4
<1>10. StandardInv'
  <2>1. ASSUME NEW c \in 0 .. next - 1
        PROVE  Settled(c)'
    <3>1. c \in Columns /\ c # col
      BY <1>2, <1>5, <1>1
    <3>2. reduced_matrix'[c] = reduced_matrix[c] /\ Settled(c)
      BY <1>5, <1>6, <3>1
    <3>3. FindLowestPivot(c)' = FindLowestPivot(c)
      BY <3>2 DEF FindLowestPivot
    <3>4. QED
      BY <1>1, <3>2, <3>3 DEF Settled
  <2>2. ASSUME NEW r \in Rows, lowRowToCol[r] # Unclaimed
        PROVE  FindLowestPivot(lowRowToCol[r])' = r
    <3>1. lowRowToCol[r] < next /\ FindLowestPivot(lowRowToCol[r]) = r
      BY <1>5, <2>2
    <3>2. lowRowToCol[r] \in Columns
      BY <2>2 DEF TypeOK
    <3>3. lowRowToCol[r] # col
      BY <1>2, <1>5, <3>1, <3>2
    <3>4. QED
      BY <1>1, <1>6, <3>1, <3>2, <3>3 DEF FindLowestPivot
  <2>3. QED
    BY <1>1, <1>4, <1>5, <2>1, <2>2 DEF StandardInv
<1>11. QED
  BY <1>1, <1>4, <1>7, <1>8, <1>9, <1>10 DEF PassesInv, ApparentInv, TwistInv

----------------------------------------------------------------------------
(* The end of a call.                                                      *)

(* After the standard pass every column that is not empty has its          *)
(* persistence pivot in pivot_columns_ and has cleared its birth column;   *)
(* in a call on reduced columns no other pivot is set.                     *)
LEMMA AllPassed ==
  ASSUME BoundaryMatrices, TypeOK, AllDimensions, PassesInv,
         phase = "standard", next = NumColumns
  PROVE  /\ PivotsDistinct(reduced_matrix, NumColumns)
         /\ \A c \in Columns : Negative(matrix.columns, c) =>
              /\ pivot_columns[c] = PersistencePivot(matrix.columns, c)
              /\ BirthColumn(pivot_columns[c]) \in Columns
              /\ pivot_columns[BirthColumn(pivot_columns[c])] = NoPivot
         /\ again => \A c \in Columns : ~Negative(matrix.columns, c) =>
                       pivot_columns[c] = NoPivot
<1>1. NumColumns \in Nat /\ Columns = 0 .. NumColumns - 1
  BY MatrixFacts DEF TypeOK
<1>2. /\ PivotsDistinct(reduced_matrix, NumColumns)
      /\ \A c \in Columns : PersistencePivot(matrix.columns, c) = FindLowestPivot(c)
  BY <1>1, PassedPivots
<1>3. ASSUME NEW c \in Columns
      PROVE  Negative(matrix.columns, c) <=> reduced_matrix[c] # {}
  BY <1>2, LowFacts DEF Negative
<1>4. ASSUME NEW c \in Columns, reduced_matrix[c] # {}
      PROVE  /\ pivot_columns[c] = FindLowestPivot(c)
             /\ BirthColumn(pivot_columns[c]) \in Columns
             /\ pivot_columns[BirthColumn(pivot_columns[c])] = NoPivot
  <2>1. Settled(c)
    BY <1>1 DEF PassesInv, StandardInv
  <2>2. /\ FindLowestPivot(c) \in Columns
        /\ BirthColumn(FindLowestPivot(c)) = FindLowestPivot(c)
    BY <1>4, PivotAbove DEF PassesInv
  <2>3. pivot_columns[c] = FindLowestPivot(c) /\ cleared[FindLowestPivot(c)]
    BY <1>4, <2>1 DEF Settled
  <2>4. QED
    BY <2>2, <2>3 DEF PassesInv, ClearedInv
<1>5. ASSUME again, NEW c \in Columns, reduced_matrix[c] = {}
      PROVE  pivot_columns[c] = NoPivot
  BY <1>5 DEF PassesInv, AgainInv, ClearedInv
<1>6. QED
  BY <1>2, <1>3, <1>4, <1>5

LEMMA ReturnPasses ==
  ASSUME BoundaryMatrices, TypeOK, AllDimensions, PassesInv,
         ExtractPairs \/ ReturnReduced
  PROVE  PassesInv'
<1>1. /\ phase = "standard" /\ next = NumColumns /\ phase' = "idle"
      /\ UNCHANGED <<matrix, columns_loaded, reduced_matrix, pivot_columns, cleared>>
  BY DEF ExtractPairs, ReturnReduced
<1>2. Columns' = Columns /\ NumColumns' = NumColumns
  BY <1>1 DEF Columns, NumColumns
<1>3. SpanInv' /\ ClearedInv'
  BY <1>1, <1>2 DEF PassesInv, SpanInv, ClearedInv
<1>4. PivotsDistinct(reduced_matrix, NumColumns)
  BY <1>1, AllPassed
<1>5. AgainInv'
  BY <1>1, <1>2, <1>4 DEF AgainInv
<1>6. QED
  BY <1>1, <1>3, <1>5 DEF PassesInv, ApparentInv, TwistInv, StandardInv

(* What a call that extracts pairs reports.                                *)
LEMMA ExtractedResult ==
  ASSUME BoundaryMatrices, TypeOK, AllDimensions, PassesInv, ExtractPairs
  PROVE  /\ PersistencePairs(matrix.columns) \subseteq pairs'
         /\ essentials' \subseteq TrueEssentials
         /\ {p[2] : p \in pairs' \ PersistencePairs(matrix.columns)} \subseteq TrueEssentials
         /\ again => essentials' = TrueEssentials /\ pairs' = PersistencePairs(matrix.columns)
<1> DEFINE P == PersistencePairs(matrix.columns)
           negative == NegativeColumns(matrix.columns)
<1>1. /\ phase = "standard" /\ next = NumColumns
      /\ pairs' = {<<pivot_columns[c], c>> :
                     c \in {d \in Columns : pivot_columns[d] # NoPivot}}
      /\ essentials' = {c \in Columns : pivot_columns[c] = NoPivot} \ KilledBirthColumns
  BY DEF ExtractPairs
<1>2. \A c : c \in negative <=> c \in Columns /\ Negative(matrix.columns, c)
  BY DEF NegativeColumns, Columns
<1>3. /\ \A c \in negative :
           /\ pivot_columns[c] = PersistencePivot(matrix.columns, c)
           /\ pivot_columns[c] # NoPivot
           /\ BirthColumn(pivot_columns[c]) \in Columns
           /\ pivot_columns[BirthColumn(pivot_columns[c])] = NoPivot
      /\ again => \A c \in Columns \ negative : pivot_columns[c] = NoPivot
  BY <1>1, <1>2, AllPassed DEF Negative
<1>4. P = {<<pivot_columns[c], c>> : c \in negative}
  BY <1>3 DEF PersistencePairs
<1>5. \A c : c \in TrueEssentials <=>
        /\ c \in Columns /\ c \notin negative
        /\ \A d \in negative : c # BirthColumn(pivot_columns[d])
  <2>1. \A c : c \in {BirthColumn(p[1]) : p \in P}
                 <=> \E d \in negative : c = BirthColumn(pivot_columns[d])
    <3>1. \A d : <<pivot_columns[d], d>>[1] = pivot_columns[d]
      OBVIOUS
    <3>2. \A p \in P : \E d \in negative : p = <<pivot_columns[d], d>>
      BY <1>4
    <3>3. \A d \in negative : <<pivot_columns[d], d>> \in P
      BY <1>4
    <3> HIDE DEF P, negative
    <3>4. \A p \in P : \E d \in negative : BirthColumn(p[1]) = BirthColumn(pivot_columns[d])
      BY <3>1, <3>2
    <3>5. \A d \in negative : \E p \in P : BirthColumn(p[1]) = BirthColumn(pivot_columns[d])
      BY <3>1, <3>3
    <3>6. QED
      BY <3>4, <3>5
  <2>2. QED
    BY <2>1 DEF TrueEssentials
<1>6. \A c : c \in KilledBirthColumns <=>
        \E d \in Columns : pivot_columns[d] # NoPivot /\ c = BirthColumn(pivot_columns[d])
  BY DEF KilledBirthColumns
<1> HIDE DEF P, negative
<1>7. P \subseteq pairs'
  BY <1>1, <1>2, <1>3, <1>4
<1>8. ASSUME NEW c \in essentials'
      PROVE  c \in TrueEssentials
  <2>1. c \in Columns /\ pivot_columns[c] = NoPivot /\ c \notin KilledBirthColumns
    BY <1>1
  <2>2. c \notin negative
    BY <1>3, <2>1
  <2>3. ASSUME NEW d \in negative
        PROVE  c # BirthColumn(pivot_columns[d])
    BY <1>2, <1>3, <1>6, <2>1
  <2>4. QED
    BY <1>5, <2>1, <2>2, <2>3
<1>9. ASSUME NEW c \in Columns, pivot_columns[c] # NoPivot, c \notin negative
      PROVE  c \in TrueEssentials /\ ~again
  <2>1. ASSUME NEW d \in negative
        PROVE  c # BirthColumn(pivot_columns[d])
    BY <1>3, <1>9
  <2>2. QED
    BY <1>3, <1>5, <1>9, <2>1
<1>10. ASSUME NEW p \in pairs' \ P
       PROVE  p[2] \in TrueEssentials /\ ~again
  <2>1. PICK c \in Columns : pivot_columns[c] # NoPivot /\ p = <<pivot_columns[c], c>>
    BY <1>1
  <2>2. c \notin negative
    BY <1>4, <1>10, <2>1
  <2>3. QED
    BY <1>9, <2>1, <2>2
<1>11. ASSUME again
       PROVE  essentials' = TrueEssentials /\ pairs' = P
  <2>1. pairs' = P
    BY <1>7, <1>10, <1>11
  <2>2. ASSUME NEW c \in TrueEssentials
        PROVE  c \in essentials'
    <3>1. c \in Columns /\ pivot_columns[c] = NoPivot
      BY <1>3, <1>5, <1>11
    <3>2. c \notin KilledBirthColumns
      BY <1>5, <1>6, <1>9, <1>11
    <3>3. QED
      BY <1>1, <3>1, <3>2
  <2>3. QED
    BY <1>8, <2>1, <2>2
<1>12. QED
  BY <1>7, <1>8, <1>10, <1>11 DEF P

(* Every other step takes the reducer into a call, or is the end of one    *)
(* that reports nothing.                                                   *)
LEMMA NotReturned ==
  ASSUME Next, ~ExtractPairs, TypeOK
  PROVE  ~Returned'
<1>1. CASE Compute \/ CohomologyReduction \/ TwistedReduction
  <2>1. phase' = "apparent"
    BY <1>1 DEF Compute, CohomologyReduction, TwistedReduction, ReduceLoaded, StartReduction
  <2>2. QED
    BY <2>1 DEF Returned
<1>2. CASE FindApparentPair \/ SkipColumn \/ StartTwist \/ StartStandard
  <2>1. phase' \in {"apparent", "twist", "standard"}
    BY <1>2 DEF FindApparentPair, SkipColumn, StartTwist, StartStandard
  <2>2. QED
    BY <2>1 DEF Returned
<1>3. CASE SkipIteration \/ EnterColumn \/ LeaveEmptyColumn \/ ClaimRow \/ EliminatePivot
  <2>1. phase' = phase /\ InPass
    BY <1>3 DEF SkipIteration, EnterColumn, LeaveEmptyColumn, ClaimRow, EliminatePivot, TypeOK
  <2>2. QED
    BY <2>1 DEF Returned, InPass
<1>4. CASE ReturnReduced
  BY <1>4 DEF ReturnReduced, Returned
<1>5. QED
  BY <1>1, <1>2, <1>3, <1>4 DEF Next, Reduce

(***************************************************************************)
(* The theorems.                                                           *)
(***************************************************************************)

LEMMA InitIInv == BoundaryMatrices /\ Init => IInv
<1> SUFFICES ASSUME BoundaryMatrices, Init PROVE IInv
  OBVIOUS
<1>1. TypeOK
  BY InitTypeOK
<1>2. AllDimensions => PassesInv
  BY InitPasses
<1>3. ResultInv
  BY DEF Init, ResultInv, FinitePairsComplete, OnlyEssentialsAreHidden, SecondResultExact,
         Returned
<1>4. QED
  BY <1>1, <1>2, <1>3 DEF IInv, PassesInv

LEMMA NextIInv == BoundaryMatrices /\ IInv /\ [Next]_vars => IInv'
<1> SUFFICES ASSUME BoundaryMatrices, IInv, [Next]_vars PROVE IInv'
  OBVIOUS
<1>1. /\ TypeOK /\ ResultInv /\ TypeOK'
      /\ AllDimensions => PassesInv
  BY NextTypeOK DEF IInv, PassesInv
<1>2. matrix' = matrix
  BY DEF vars, Next, Reduce, Compute, CohomologyReduction, TwistedReduction, ReduceLoaded,
         StartReduction, FindApparentPair, SkipColumn, StartTwist, StartStandard,
         SkipIteration, EnterColumn, LeaveEmptyColumn, ClaimRow, EliminatePivot,
         ExtractPairs, ReturnReduced
<1>3. /\ AllDimensions' <=> AllDimensions
      /\ TrueEssentials' = TrueEssentials
  BY <1>2 DEF AllDimensions, Columns, BirthColumn, TrueEssentials
<1>4. ASSUME AllDimensions
      PROVE  PassesInv'
  <2>1. CASE UNCHANGED vars
    BY <1>1, <1>4, <2>1
       DEF vars, PassesInv, SpanInv, ClearedInv, ApparentInv, TwistInv, StandardInv, AgainInv,
           Settled, FindLowestPivot, Columns, NumColumns
  <2>2. QED
    BY <1>1, <1>4, <2>1, StartPasses, NothingApparent, SkipPasses, TwistStarts,
       StandardStarts, QuietPasses, ClaimPasses, EliminatePasses, ReturnPasses
       DEF Next, Reduce
<1>5. ResultInv'
  <2>1. CASE UNCHANGED vars
    <3>1. UNCHANGED <<matrix, phase, reports, again, pairs, essentials>>
      BY <2>1 DEF vars
    <3>2. Returned' <=> Returned
      BY <3>1 DEF Returned
    <3>3. QED
      BY <1>1, <1>3, <3>1, <3>2
         DEF ResultInv, FinitePairsComplete, OnlyEssentialsAreHidden, SecondResultExact
  <2>2. CASE ExtractPairs
    <3>1. again' = again
      BY <2>2 DEF ExtractPairs
    <3>2. QED
      BY <1>1, <1>2, <1>3, <2>2, <3>1, ExtractedResult
         DEF ResultInv, FinitePairsComplete, OnlyEssentialsAreHidden, SecondResultExact
  <2>3. CASE Next /\ ~ExtractPairs
    <3>1. ~Returned'
      BY <1>1, <2>3, NotReturned
    <3>2. QED
      BY <3>1
         DEF ResultInv, FinitePairsComplete, OnlyEssentialsAreHidden, SecondResultExact
  <2>4. QED
    BY <2>1, <2>2, <2>3
<1>6. QED
  BY <1>1, <1>3, <1>4, <1>5 DEF IInv, PassesInv

(* The invariant holds in every state of reduceMatrix, whatever the order  *)
(* in which compute, cohomologyReduction and twistedReduction are called.  *)
THEOREM ReducerInvariant ==
  ASSUME BoundaryMatrices
  PROVE  Spec => []IInv
<1>1. Init => IInv
  BY InitIInv
<1>2. IInv /\ [Next]_vars => IInv'
  BY NextIInv
<1>3. QED
  BY <1>1, <1>2, PTL DEF Spec

(* Every finite pair of the persistence pairing is in pairs_ when a call   *)
(* that extracts pairs has returned.                                       *)
THEOREM NoPairMissing ==
  ASSUME BoundaryMatrices
  PROVE  Spec => []FinitePairsComplete
<1>1. IInv => FinitePairsComplete
  BY DEF IInv, ResultInv
<1>2. QED
  BY <1>1, ReducerInvariant, PTL

(* The pivots that the twist pass leaves in pivot_columns_ stand where an  *)
(* essential class should, and do nothing else.                            *)
THEOREM StalePivotsHideEssentials ==
  ASSUME BoundaryMatrices
  PROVE  Spec => []OnlyEssentialsAreHidden
<1>1. IInv => OnlyEssentialsAreHidden
  BY DEF IInv, ResultInv
<1>2. QED
  BY <1>1, ReducerInvariant, PTL

(* cohomologyReduction after an earlier call, on the columns that call     *)
(* reduced, reports exactly the pairing and the essential classes.         *)
THEOREM SecondCallExact ==
  ASSUME BoundaryMatrices
  PROVE  Spec => []SecondResultExact
<1>1. IInv => SecondResultExact
  BY DEF IInv, ResultInv
<1>2. QED
  BY <1>1, ReducerInvariant, PTL

(* The apparent-pair scan, which takes a pivot row for a column, and the   *)
(* additions of the twist pass have no effect on a matrix of all           *)
(* dimensions: the first finds nothing, the second never happen.           *)
THEOREM IdleOnAllDimensions ==
  ASSUME BoundaryMatrices
  PROVE  Spec => [][AllDimensions => /\ ~FindApparentPair
                                     /\ EliminatePivot => phase = "standard"]_vars
<1> DEFINE A == AllDimensions => /\ ~FindApparentPair
                                 /\ EliminatePivot => phase = "standard"
<1>1. IInv => A
  <2>1. SUFFICES ASSUME IInv, AllDimensions
                 PROVE  ~FindApparentPair /\ (EliminatePivot => phase = "standard")
    OBVIOUS
  <2>2. TypeOK /\ PassesInv
    BY <2>1 DEF IInv, PassesInv
  <2>3. EliminatePivot => InPass
    BY <2>2 DEF EliminatePivot, TypeOK
  <2>4. QED
    BY <2>1, <2>2, <2>3, NothingApparent, TwistAddsNothing DEF InPass
<1>2. Spec => []IInv
  BY ReducerInvariant
<1> HIDE DEF A
<1>3. [Next]_vars /\ IInv => [A]_vars
  BY <1>1
<1>4. Spec => [][A]_vars
  BY <1>2, <1>3, PTL DEF Spec
<1>5. QED
  BY <1>4 DEF A

============================================================================
