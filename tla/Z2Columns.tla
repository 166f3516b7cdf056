----------------------------- MODULE Z2Columns -----------------------------
(***************************************************************************)
(* Sparse columns of a boundary matrix over the field Z2.                  *)
(*                                                                         *)
(* The code keeps a column as an ascending std::vector<int> of the rows    *)
(* that hold a one.  Here a column is that set of rows: the order carries  *)
(* no information beyond the largest element, which the code reads with    *)
(* indices.back() and calls the pivot.                                     *)
(*                                                                         *)
(* The second half of the module defines what persistence IS, with no      *)
(* algorithm in sight: the pivot of a column is the least low row any      *)
(* combination with EARLIER columns can reach.  Every reducer of the       *)
(* library is compared with these definitions.                             *)
(***************************************************************************)
EXTENDS Integers, FiniteSets, FiniteSetsExt

NoPivot == -1

(* ReductionColumn::getPivot: the largest row, -1 for the empty column.    *)
Low(column) == IF column = {} THEN NoPivot ELSE Max(column)

(* Column addition over Z2: equal rows cancel.                             *)
AddColumn(a, b) == SymDiff(a, b)

(* The rows of a matrix that has the columns 0 .. n-1, taken from row      *)
(* numbers: columns that hold a given row, i.e. the coboundary of the row. *)
Cofacets(matrix, row) == {c \in DOMAIN matrix : row \in matrix[c]}

----------------------------------------------------------------------------
(* Reference definitions.  A matrix is a function on 0 .. n-1.             *)

(* All Z2 combinations of the columns 0 .. n-1 of matrix.                  *)
PrefixSpan(matrix, n) ==
  LET span[k \in 0 .. n] ==
        IF k = 0
        THEN {{}}
        ELSE span[k-1] \cup {AddColumn(s, matrix[k-1]) : s \in span[k-1]}
  IN  span[n]

(* The pivot that column j has in every left-to-right reduced form of      *)
(* matrix: the least low over the coset of column j modulo the columns     *)
(* before it, NoPivot when column j depends on them.                       *)
PersistencePivot(matrix, j) ==
  Min({Low(AddColumn(matrix[j], s)) : s \in PrefixSpan(matrix, j)})

(* Column j is negative (its simplex kills a class) iff it is independent  *)
(* of the columns before it.                                               *)
Negative(matrix, j) == PersistencePivot(matrix, j) # NoPivot

NegativeColumns(matrix) == {j \in DOMAIN matrix : Negative(matrix, j)}

(* The persistence pairing: birth row, death column.                       *)
PersistencePairs(matrix) ==
  {<<PersistencePivot(matrix, j), j>> : j \in NegativeColumns(matrix)}

----------------------------------------------------------------------------
(* Chains: a set of columns taken together, and its boundary, the rows     *)
(* that an odd number of its columns have.                                 *)
Through(matrix, chain, row) == {c \in chain : row \in matrix[c]}
BoundaryOf(matrix, chain) ==
  {row \in UNION {matrix[c] : c \in chain} :
     Cardinality(Through(matrix, chain, row)) % 2 = 1}

(* In a matrix of all dimensions a column is also a chain of columns.      *)
BoundaryOfBoundaryEmpty(matrix) ==
  \A c \in DOMAIN matrix : BoundaryOf(matrix, matrix[c]) = {}

============================================================================
