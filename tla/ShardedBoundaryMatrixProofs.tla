-------------------- MODULE ShardedBoundaryMatrixProofs --------------------
(***************************************************************************)
(* Proofs about ShardedBoundaryMatrix.                                     *)
(*                                                                         *)
(* First the loop over pivot_to_column: it keeps every column in its coset *)
(* modulo the columns before it, and leaves columns of different pivots.   *)
(* So a shard that is its part of a matrix up to columns on the left       *)
(* remains so, and a whole matrix shows its persistence pairing.           *)
(*                                                                         *)
(* Then the invariant: of each rank (RankInv), of each file (FileIsPart),  *)
(* and of the ranks together (Together), which never pass one collective   *)
(* operation before the others.                                            *)
(***************************************************************************)
EXTENDS ShardedBoundaryMatrix, Z2ColumnsProofs, SequenceTheorems

(***************************************************************************)
(* ReduceColumn.                                                           *)
(***************************************************************************)

SamePivot(reduced, x) ==
  {c \in DOMAIN reduced : reduced[c] # {} /\ Low(reduced[c]) = Low(x)}

(* The recursion equation of ReduceColumn at x.                            *)
OneAddition(f, reduced, x) ==
  IF x = {} \/ SamePivot(reduced, x) = {} THEN x
  ELSE f[AddColumn(x, reduced[CHOOSE c \in SamePivot(reduced, x) : TRUE])]

IsReduction(f, rows, reduced) ==
  f = [x \in SUBSET rows |-> OneAddition(f, reduced, x)]

(* An addition leaves a column of the same rows with a lower pivot.        *)
LEMMA AdditionLowers ==
  ASSUME NEW R \in Nat, NEW rows \in SUBSET (0 .. R - 1), NEW reduced,
         \A c \in DOMAIN reduced : reduced[c] \in SUBSET rows,
         NEW x \in SUBSET rows, x # {}, SamePivot(reduced, x) # {}
  PROVE  \E c \in DOMAIN reduced :
           LET y == AddColumn(x, reduced[c])
           IN  /\ c = (CHOOSE d \in SamePivot(reduced, x) : TRUE)
               /\ y \in SUBSET rows /\ Low(y) \in Int /\ Low(x) \in Int /\ Low(y) < Low(x)
<1> DEFINE c == CHOOSE d \in SamePivot(reduced, x) : TRUE
           y == AddColumn(x, reduced[c])
<1>1. c \in DOMAIN reduced /\ reduced[c] # {} /\ Low(reduced[c]) = Low(x)
  BY DEF SamePivot
<1>2. reduced[c] \in SUBSET rows /\ reduced[c] \in SUBSET (0 .. R - 1) /\ x \in SUBSET (0 .. R - 1)
  BY <1>1
<1> HIDE DEF c
<1>3. y \in SUBSET rows
  BY <1>2, AddColumnType
<1>4. Low(y) < Low(x)
  BY <1>1, <1>2, LowCancels
<1>5. Low(y) \in Int /\ Low(x) \in Int
  <2>1. y \in SUBSET (0 .. R - 1)
    BY <1>3
  <2> QED
    BY <1>2, <2>1, LowIsRow DEF NoPivot
<1> QED
  BY <1>1, <1>3, <1>4, <1>5 DEF c

LEMMA ReductionExists ==
  ASSUME NEW R \in Nat, NEW rows \in SUBSET (0 .. R - 1), NEW reduced,
         \A c \in DOMAIN reduced : reduced[c] \in SUBSET rows
  PROVE  \E f : IsReduction(f, rows, reduced)
<1> DEFINE Below(k) == {x \in SUBSET rows : Low(x) < k}
           Upto(f, k) == \A x \in Below(k) : f[x] = OneAddition(f, reduced, x)
           Bad == {k \in Nat : ~ \E f : Upto(f, k)}
<1>0. \A x \in SUBSET rows : Low(x) \in (0 .. R - 1) \cup {-1} /\ (Low(x) = -1 <=> x = {})
  BY LowIsRow DEF NoPivot
<1>1. Bad = {}
  <2> SUFFICES ASSUME Bad # {} PROVE FALSE
    OBVIOUS
  <2>1. PICK k \in Bad : \A l \in Bad : k <= l
    BY NatMinimum
  <2>2. k \in Nat /\ ~ \E f : Upto(f, k)
    OBVIOUS
  <2>3. PICK f : Upto(f, k - 1)
    <3>1. CASE k = 0
      <4> DEFINE z == [x \in SUBSET rows |-> {}]
      <4>1. ASSUME NEW x \in Below(0)
            PROVE  z[x] = OneAddition(z, reduced, x)
        <5>1. x = {} /\ z[x] = {}
          BY <1>0, <4>1
        <5> QED
          BY <5>1 DEF OneAddition
      <4>2. Upto(z, 0)
        BY <4>1
      <4> HIDE DEF z, Upto
      <4> QED
        BY <2>2, <3>1, <4>2
    <3>2. CASE k # 0
      <4>1. k - 1 \in Nat /\ k - 1 \notin Bad
        BY <2>1, <2>2, <3>2
      <4> QED
        BY <4>1
    <3> QED
      BY <3>1, <3>2
  <2> DEFINE g == [x \in SUBSET rows |-> OneAddition(f, reduced, x)]
  <2>4. ASSUME NEW x \in Below(k)
        PROVE  g[x] = OneAddition(g, reduced, x)
    <3>1. CASE x = {} \/ SamePivot(reduced, x) = {}
      BY <3>1 DEF OneAddition
    <3>2. CASE x # {} /\ SamePivot(reduced, x) # {}
      <4>1. PICK c \in DOMAIN reduced :
               LET y == AddColumn(x, reduced[c])
               IN  /\ c = (CHOOSE d \in SamePivot(reduced, x) : TRUE)
                   /\ y \in SUBSET rows /\ Low(y) \in Int /\ Low(x) \in Int
                   /\ Low(y) < Low(x)
        BY <3>2, AdditionLowers
      <4> DEFINE y == AddColumn(x, reduced[c])
      <4>2. y \in Below(k - 1)
        BY <2>2, <4>1
      <4>3. g[x] = f[y] /\ OneAddition(g, reduced, x) = g[y]
        BY <3>2, <4>1 DEF OneAddition
      <4>4. f[y] = g[y]
        BY <2>3, <4>2
      <4> QED
        BY <4>3, <4>4
    <3> QED
      BY <3>1, <3>2
  <2>5. Upto(g, k)
    BY <2>4
  <2> HIDE DEF g, Upto
  <2> QED
    BY <2>2, <2>5
<1>2. PICK f : Upto(f, R)
  BY <1>1
<1> DEFINE g == [x \in SUBSET rows |-> f[x]]
<1>3. ASSUME NEW x \in SUBSET rows
      PROVE  g[x] = OneAddition(g, reduced, x)
  <2>1. f[x] = OneAddition(f, reduced, x)
    BY <1>0, <1>2
  <2>2. CASE x = {} \/ SamePivot(reduced, x) = {}
    BY <2>1, <2>2 DEF OneAddition
  <2>3. CASE x # {} /\ SamePivot(reduced, x) # {}
    <3>1. PICK c \in DOMAIN reduced :
             LET y == AddColumn(x, reduced[c])
             IN  /\ c = (CHOOSE d \in SamePivot(reduced, x) : TRUE)
                 /\ y \in SUBSET rows /\ Low(y) \in Int /\ Low(x) \in Int
                 /\ Low(y) < Low(x)
      BY <2>3, AdditionLowers
    <3> QED
      BY <2>1, <2>3, <3>1 DEF OneAddition
  <2> QED
    BY <2>2, <2>3
<1>4. IsReduction(g, rows, reduced)
  BY <1>3 DEF IsReduction
<1> QED
  BY <1>4

(* A set of columns that additions do not leave.                           *)
Closed(T) == {} \in T /\ \A a, b \in T : AddColumn(a, b) \in T

Bounded(rows) == \E R \in Nat : rows \in SUBSET (0 .. R - 1)

LEMMA ReductionReduces ==
  ASSUME NEW rows, Bounded(rows), NEW reduced,
         \A c \in DOMAIN reduced : reduced[c] \in SUBSET rows,
         NEW f, IsReduction(f, rows, reduced),
         NEW T, Closed(T), \A c \in DOMAIN reduced : reduced[c] \in T,
         NEW x \in SUBSET rows
  PROVE  /\ f[x] \in SUBSET rows
         /\ f[x] # {} => SamePivot(reduced, f[x]) = {}
         /\ AddColumn(x, f[x]) \in T
<1> DEFINE Good(z) == /\ f[z] \in SUBSET rows
                      /\ f[z] # {} => SamePivot(reduced, f[z]) = {}
                      /\ AddColumn(z, f[z]) \in T
           Bad == {k \in Nat : \E z \in SUBSET rows : Low(z) = k - 1 /\ ~Good(z)}
<1> PICK R \in Nat : rows \in SUBSET (0 .. R - 1)
  BY DEF Bounded
<1>0. ASSUME NEW z \in SUBSET rows
      PROVE  Low(z) \in Int /\ Low(z) + 1 \in Nat
  <2>1. z \in SUBSET (0 .. R - 1)
    OBVIOUS
  <2>2. Low(z) \in (0 .. R - 1) \cup {NoPivot}
    BY <2>1, LowIsRow
  <2> QED
    BY <2>2 DEF NoPivot
<1>1. Bad = {}
  <2> SUFFICES ASSUME Bad # {} PROVE FALSE
    OBVIOUS
  <2>1. PICK k \in Bad : \A l \in Bad : k <= l
    BY NatMinimum
  <2>2. k \in Nat
    OBVIOUS
  <2>3. PICK z \in SUBSET rows : Low(z) = k - 1 /\ ~Good(z)
    OBVIOUS
  <2>4. f[z] = OneAddition(f, reduced, z)
    BY <2>3 DEF IsReduction
  <2>5. CASE z = {} \/ SamePivot(reduced, z) = {}
    <3>1. f[z] = z
      BY <2>4, <2>5 DEF OneAddition
    <3>2. AddColumn(z, z) = {}
      BY AddColumnUnit
    <3>3. Good(z)
      BY <2>3, <2>5, <3>1, <3>2 DEF Closed
    <3> QED
      BY <2>3, <3>3
  <2>6. CASE z # {} /\ SamePivot(reduced, z) # {}
    <3>1. PICK c \in DOMAIN reduced :
             LET y == AddColumn(z, reduced[c])
             IN  /\ c = (CHOOSE d \in SamePivot(reduced, z) : TRUE)
                 /\ y \in SUBSET rows /\ Low(y) \in Int /\ Low(z) \in Int
                 /\ Low(y) < Low(z)
      BY <2>3, <2>6, AdditionLowers
    <3> DEFINE y == AddColumn(z, reduced[c])
    <3>2. f[z] = f[y]
      BY <2>4, <2>6, <3>1 DEF OneAddition
    <3>3. Good(y)
      <4>1. Low(y) + 1 \in Nat /\ Low(y) + 1 < k /\ Low(y) = (Low(y) + 1) - 1
        BY <1>0, <2>2, <2>3, <3>1
      <4>2. Low(y) + 1 \notin Bad
        BY <2>1, <2>2, <4>1
      <4> HIDE DEF Good, y
      <4> QED
        BY <3>1, <4>1, <4>2 DEF y
    <3>4. AddColumn(z, f[z]) \in T
      <4>1. reduced[c] \in SUBSET rows /\ reduced[c] \in T /\ AddColumn(y, f[y]) \in T
        BY <3>1, <3>3
      <4>2. AddColumn(AddColumn(y, f[y]), reduced[c]) \in T
        BY <4>1 DEF Closed
      <4>3. z = AddColumn(y, reduced[c])
        BY <4>1, <2>3, AddColumnCancels
      <4> DEFINE w == f[y]
                 v == reduced[c]
      <4> HIDE DEF y, w, v
      <4>4. AddColumn(AddColumn(y, v), w) = AddColumn(AddColumn(y, w), v)
        BY AddColumnAssociates, AddColumnCommutes
      <4> QED
        BY <3>2, <4>2, <4>3, <4>4 DEF w, v
    <3>5. Good(z)
      BY <3>2, <3>3, <3>4
    <3> QED
      BY <2>3, <3>5
  <2> QED
    BY <2>5, <2>6
<1>2. Good(x)
  <2>1. Low(x) + 1 \in Nat /\ Low(x) = (Low(x) + 1) - 1 /\ Low(x) + 1 \notin Bad
    BY <1>0, <1>1
  <2> HIDE DEF Good
  <2> QED
    BY <2>1
<1> QED
  BY <1>2

AllRows(column, reduced) == UNION (Range(reduced) \cup {column})

(* What the loop over pivot_to_column makes of a column: none of the       *)
(* reduced columns has its pivot, and the difference is a sum of them.     *)
LEMMA ReduceColumnReduces ==
  ASSUME NEW column, NEW reduced, Bounded(AllRows(column, reduced))
  PROVE  /\ ReduceColumn(column, reduced) \in SUBSET AllRows(column, reduced)
         /\ ReduceColumn(column, reduced) # {} =>
              SamePivot(reduced, ReduceColumn(column, reduced)) = {}
         /\ \A T : (Closed(T) /\ \A c \in DOMAIN reduced : reduced[c] \in T)
                     => AddColumn(column, ReduceColumn(column, reduced)) \in T
<1>1. /\ column \in SUBSET AllRows(column, reduced)
      /\ \A c \in DOMAIN reduced : reduced[c] \in SUBSET AllRows(column, reduced)
  BY DEF AllRows, Range
<1>2. PICK f : /\ IsReduction(f, AllRows(column, reduced), reduced)
               /\ ReduceColumn(column, reduced) = f[column]
  <2> DEFINE g == CHOOSE h : IsReduction(h, AllRows(column, reduced), reduced)
  <2>1. ReduceColumn(column, reduced) = g[column]
    BY DEF ReduceColumn, IsReduction, OneAddition, SamePivot, AllRows
  <2>2. IsReduction(g, AllRows(column, reduced), reduced)
    BY <1>1, ReductionExists DEF Bounded
  <2> HIDE DEF g
  <2> QED
    BY <2>1, <2>2
<1>3. /\ f[column] \in SUBSET AllRows(column, reduced)
      /\ f[column] # {} => SamePivot(reduced, f[column]) = {}
  <2>1. Closed(SUBSET AllRows(column, reduced))
    BY AddColumnType DEF Closed
  <2> QED
    BY <1>1, <1>2, <2>1, ReductionReduces
<1>4. ASSUME NEW T, Closed(T), \A c \in DOMAIN reduced : reduced[c] \in T
      PROVE  AddColumn(column, f[column]) \in T
  BY <1>1, <1>2, <1>4, ReductionReduces
<1> QED
  BY <1>2, <1>3, <1>4

(***************************************************************************)
(* ReduceInOrder.                                                          *)
(***************************************************************************)

Extend(shard, earlier, k) ==
  IF k \in DOMAIN shard THEN Merged(earlier, Only(k, ReduceColumn(shard[k], earlier))) ELSE earlier

(* The recursion equation of ReduceInOrder.                                *)
IsOrdered(f, shard, n) ==
  f = [k \in 0 .. n |->
         IF k = 0 THEN NoColumns
         ELSE CHOOSE reduced \in {Extend(shard, earlier, k - 1) : earlier \in {f[k - 1]}} : TRUE]

LEMMA TheOnlyOne ==
  ASSUME NEW shard, NEW k, NEW x
  PROVE  (CHOOSE reduced \in {Extend(shard, earlier, k) : earlier \in {x}} : TRUE)
           = Extend(shard, x, k)
<1>1. {Extend(shard, earlier, k) : earlier \in {x}} = {Extend(shard, x, k)}
  OBVIOUS
<1> QED
  BY <1>1

LEMMA OrderedExists ==
  ASSUME NEW shard, NEW n \in Nat
  PROVE  \E f : IsOrdered(f, shard, n)
<1> DEFINE Bad == {k \in Nat : ~ \E f : IsOrdered(f, shard, k)}
<1>1. SUFFICES ASSUME Bad # {} PROVE FALSE
  OBVIOUS
<1>2. PICK k \in Bad : \A l \in Bad : k <= l
  BY <1>1, NatMinimum
<1>3. k \in Nat /\ ~ \E f : IsOrdered(f, shard, k)
  OBVIOUS
<1>4. k # 0
  <2> DEFINE z == [i \in 0 .. 0 |-> NoColumns]
  <2>1. IsOrdered(z, shard, 0)
    BY DEF IsOrdered
  <2> QED
    BY <1>3, <2>1
<1>5. k - 1 \in Nat /\ k - 1 \notin Bad
  BY <1>2, <1>3, <1>4
<1>6. PICK f : IsOrdered(f, shard, k - 1)
  BY <1>5
<1> DEFINE next == Extend(shard, f[k - 1], k - 1)
           g == [i \in 0 .. k |-> IF i = k THEN next ELSE f[i]]
<1>7. ASSUME NEW i \in 0 .. k
      PROVE  g[i] = IF i = 0 THEN NoColumns
                    ELSE CHOOSE reduced \in {Extend(shard, earlier, i - 1) :
                                               earlier \in {g[i - 1]}} : TRUE
  <2>1. CASE i = k
    <3>1. g[i] = next /\ g[i - 1] = f[k - 1] /\ i # 0
      BY <2>1, <1>3, <1>4
    <3> HIDE DEF g, next
    <3> QED
      BY <3>1, <2>1, TheOnlyOne DEF next
  <2>2. CASE i # k
    <3>1. i \in 0 .. k - 1
      BY <2>2, <1>3
    <3>2. f[i] = IF i = 0 THEN NoColumns
                 ELSE CHOOSE reduced \in {Extend(shard, earlier, i - 1) :
                                            earlier \in {f[i - 1]}} : TRUE
      BY <3>1, <1>6 DEF IsOrdered
    <3>3. g[i] = f[i] /\ (i # 0 => g[i - 1] = f[i - 1])
      BY <3>1, <2>2, <1>3
    <3> HIDE DEF g
    <3> QED
      BY <3>2, <3>3, TheOnlyOne
  <2> QED
    BY <2>1, <2>2
<1>8. IsOrdered(g, shard, k)
  BY <1>7 DEF IsOrdered
<1> QED
  BY <1>3, <1>8

LEMMA OrderedStep ==
  ASSUME NEW shard, NEW n \in Nat, NEW f, IsOrdered(f, shard, n), NEW k \in 0 .. n - 1
  PROVE  f[0] = NoColumns /\ f[k + 1] = Extend(shard, f[k], k)
<1>1. f[0] = NoColumns
  BY DEF IsOrdered
<1>2. k + 1 \in 0 .. n /\ k + 1 # 0 /\ (k + 1) - 1 = k
  OBVIOUS
<1>3. f[k + 1] = CHOOSE reduced \in {Extend(shard, earlier, (k + 1) - 1) :
                                       earlier \in {f[(k + 1) - 1]}} : TRUE
  BY <1>2 DEF IsOrdered
<1> QED
  BY <1>1, <1>2, <1>3, TheOnlyOne

(* Columns of a shard, and what became of those before k.                  *)
ShardColumns(shard) ==
  /\ DOMAIN shard \subseteq Columns
  /\ \A c \in DOMAIN shard : shard[c] \in SUBSET Rows

ReducedFrom(reduced, shard, k) ==
  /\ reduced = [c \in {d \in DOMAIN shard : d < k} |-> reduced[c]]
  /\ DOMAIN reduced = {c \in DOMAIN shard : c < k}
  /\ \A c \in DOMAIN reduced : reduced[c] \in SUBSET Rows
  /\ \A c, d \in DOMAIN reduced :
       (reduced[c] # {} /\ Low(reduced[c]) = Low(reduced[d])) => c = d
  /\ \A c \in DOMAIN reduced : \A T :
       (Closed(T) /\ \A d \in DOMAIN reduced : d < c => reduced[d] \in T)
         => AddColumn(shard[c], reduced[c]) \in T

LEMMA OneMore ==
  ASSUME NEW f, NEW k, NEW v, k \notin DOMAIN f
  PROVE  /\ DOMAIN Merged(f, Only(k, v)) = DOMAIN f \cup {k}
         /\ \A c \in DOMAIN f : Merged(f, Only(k, v))[c] = f[c]
         /\ Merged(f, Only(k, v))[k] = v
BY DEF Merged, Only

LEMMA LowOfRows ==
  ASSUME NEW x \in SUBSET Rows
  PROVE  Low(x) = NoPivot <=> x = {}
BY ShardsAssumption, LowIsRow DEF Rows

LEMMA ReduceColumnInRows ==
  ASSUME NEW column \in SUBSET Rows, NEW reduced,
         \A c \in DOMAIN reduced : reduced[c] \in SUBSET Rows
  PROVE  /\ ReduceColumn(column, reduced) \in SUBSET Rows
         /\ ReduceColumn(column, reduced) # {} =>
              SamePivot(reduced, ReduceColumn(column, reduced)) = {}
         /\ \A T : (Closed(T) /\ \A c \in DOMAIN reduced : reduced[c] \in T)
                     => AddColumn(column, ReduceColumn(column, reduced)) \in T
<1>1. AllRows(column, reduced) \in SUBSET Rows
  BY DEF AllRows, Range
<1>2. Bounded(AllRows(column, reduced))
  BY <1>1, ShardsAssumption DEF Bounded, Rows
<1> QED
  BY <1>1, <1>2, ReduceColumnReduces

LEMMA ExtendReduces ==
  ASSUME NEW shard, ShardColumns(shard), NEW k \in Nat, NEW reduced,
         ReducedFrom(reduced, shard, k)
  PROVE  ReducedFrom(Extend(shard, reduced, k), shard, k + 1)
<1>0. \A c \in DOMAIN shard : c \in Int
  BY DEF ShardColumns, Columns
<1>1. CASE k \notin DOMAIN shard
  <2>1. Extend(shard, reduced, k) = reduced
    BY <1>1 DEF Extend
  <2>2. {c \in DOMAIN shard : c < k + 1} = {c \in DOMAIN shard : c < k}
    BY <1>0, <1>1
  <2> QED
    BY <2>1, <2>2 DEF ReducedFrom
<1>2. CASE k \in DOMAIN shard
  <2> DEFINE v == ReduceColumn(shard[k], reduced)
             next == Extend(shard, reduced, k)
  <2>1. /\ v \in SUBSET Rows
        /\ v # {} => SamePivot(reduced, v) = {}
        /\ \A T : (Closed(T) /\ \A c \in DOMAIN reduced : reduced[c] \in T)
                    => AddColumn(shard[k], v) \in T
    BY <1>2, ReduceColumnInRows DEF ReducedFrom, ShardColumns
  <2>2. next = Merged(reduced, Only(k, v))
    BY <1>2 DEF Extend
  <2>3. /\ DOMAIN reduced = {c \in DOMAIN shard : c < k}
        /\ k \notin DOMAIN reduced
    BY DEF ReducedFrom
  <2> HIDE DEF v
  <2>4. /\ DOMAIN next = DOMAIN reduced \cup {k}
        /\ \A c \in DOMAIN reduced : next[c] = reduced[c]
        /\ next[k] = v
    BY <2>2, <2>3 DEF Merged, Only
  <2>5. next = [c \in DOMAIN next |-> next[c]]
    <3> DEFINE all == [c \in DOMAIN reduced \cup DOMAIN Only(k, v) |->
                         IF c \in DOMAIN reduced THEN reduced[c] ELSE Only(k, v)[c]]
    <3>1. next = all
      BY <2>2 DEF Merged
    <3>2. all = [c \in DOMAIN all |-> all[c]]
      OBVIOUS
    <3> QED
      BY <3>1, <3>2
  <2> HIDE DEF next
  <2>6. DOMAIN next = {c \in DOMAIN shard : c < k + 1}
    BY <1>0, <1>2, <2>3, <2>4
  <2>7. \A c \in DOMAIN next : next[c] \in SUBSET Rows
    BY <2>1, <2>4 DEF ReducedFrom
  <2>8. ASSUME NEW c \in DOMAIN next, NEW d \in DOMAIN next,
               next[c] # {}, Low(next[c]) = Low(next[d])
        PROVE  c = d
    <3>1. next[d] # {}
      BY <2>7, <2>8, LowOfRows
    <3>2. CASE c \in DOMAIN reduced /\ d \in DOMAIN reduced
      BY <2>4, <2>8, <3>2 DEF ReducedFrom
    <3>3. CASE c = k /\ d \in DOMAIN reduced
      <4>1. d \in SamePivot(reduced, v)
        BY <2>4, <2>8, <3>1, <3>3 DEF SamePivot
      <4> QED
        BY <2>1, <2>4, <2>8, <3>3, <4>1
    <3>4. CASE d = k /\ c \in DOMAIN reduced
      <4>1. c \in SamePivot(reduced, v)
        BY <2>4, <2>8, <3>4 DEF SamePivot
      <4> QED
        BY <2>1, <2>4, <3>1, <3>4, <4>1
    <3> QED
      BY <2>4, <3>2, <3>3, <3>4
  <2>9. ASSUME NEW c \in DOMAIN next, NEW T, Closed(T),
               \A d \in DOMAIN next : d < c => next[d] \in T
        PROVE  AddColumn(shard[c], next[c]) \in T
    <3>1. CASE c \in DOMAIN reduced
      <4>1. \A d \in DOMAIN reduced : d < c => reduced[d] \in T
        BY <2>4, <2>9
      <4> QED
        BY <2>4, <2>9, <3>1, <4>1 DEF ReducedFrom
    <3>2. CASE c = k
      <4>1. \A d \in DOMAIN reduced : reduced[d] \in T
        BY <2>3, <2>4, <2>9, <3>2
      <4> QED
        BY <2>1, <2>4, <2>9, <3>2, <4>1
    <3> QED
      BY <2>4, <3>1, <3>2
  <2> QED
    BY <2>6, <2>7, <2>8, <2>9, <2>5 DEF ReducedFrom, next
<1> QED
  BY <1>1, <1>2

(* The whole loop.                                                         *)
LEMMA ReduceInOrderReduces ==
  ASSUME NEW shard, ShardColumns(shard)
  PROVE  ReducedFrom(ReduceInOrder(shard), shard, NumColumns)
<1>1. PICK f : /\ IsOrdered(f, shard, NumColumns)
               /\ ReduceInOrder(shard) = f[NumColumns]
  <2> DEFINE g == CHOOSE h : IsOrdered(h, shard, NumColumns)
  <2>1. ReduceInOrder(shard) = g[NumColumns]
    BY DEF ReduceInOrder, IsOrdered, Extend
  <2>2. IsOrdered(g, shard, NumColumns)
    BY OrderedExists, ShardsAssumption
  <2> HIDE DEF g
  <2> QED
    BY <2>1, <2>2
<1> DEFINE Bad == {k \in 0 .. NumColumns : ~ReducedFrom(f[k], shard, k)}
<1>2. Bad = {}
  <2> SUFFICES ASSUME Bad # {} PROVE FALSE
    OBVIOUS
  <2>0. Bad \in SUBSET Nat
    BY ShardsAssumption
  <2>1. PICK k \in Bad : \A l \in Bad : k <= l
    BY <2>0, NatMinimum
  <2>2. k \in 0 .. NumColumns /\ ~ReducedFrom(f[k], shard, k) /\ NumColumns \in Nat
    BY ShardsAssumption
  <2>3. CASE k = 0
    <3>1. f[0] = NoColumns
      BY <1>1, <2>2 DEF IsOrdered
    <3>2. DOMAIN f[0] = {}
      BY <3>1 DEF NoColumns
    <3>3. {c \in DOMAIN shard : c < 0} = {}
      BY DEF ShardColumns, Columns
    <3>4. f[0] = [c \in {} |-> f[0][c]]
      BY <3>1 DEF NoColumns
    <3>5. ReducedFrom(f[0], shard, 0)
      BY <3>2, <3>3, <3>4 DEF ReducedFrom
    <3> QED
      BY <2>2, <2>3, <3>5
  <2>4. CASE k # 0
    <3>1. k - 1 \in 0 .. NumColumns - 1 /\ k - 1 \in Nat /\ k - 1 \notin Bad
      BY <2>1, <2>2, <2>4
    <3>2. ReducedFrom(f[k - 1], shard, k - 1)
      BY <2>2, <3>1
    <3>3. f[(k - 1) + 1] = Extend(shard, f[k - 1], k - 1)
      BY <1>1, <2>2, <3>1, OrderedStep
    <3>4. ReducedFrom(f[(k - 1) + 1], shard, (k - 1) + 1)
      BY <3>1, <3>2, <3>3, ExtendReduces
    <3>5. (k - 1) + 1 = k
      BY <2>2
    <3> QED
      BY <2>2, <3>4, <3>5
  <2> QED
    BY <2>3, <2>4
<1>3. NumColumns \in 0 .. NumColumns
  BY ShardsAssumption
<1> QED
  BY <1>1, <1>2, <1>3

(***************************************************************************)
(* A shard of matrix m: column c is m[c] up to columns before it.          *)
(***************************************************************************)

IsMatrix(m) == m \in [Columns -> SUBSET Rows]

Cosets(shard, m) ==
  \A c \in DOMAIN shard : AddColumn(m[c], shard[c]) \in PrefixSpan(m, c)

LEMMA SpanIsClosed ==
  ASSUME NEW m, IsMatrix(m), NEW n \in 0 .. NumColumns
  PROVE  Closed(PrefixSpan(m, n))
<1>1. n \in Nat /\ \A j \in 0 .. n - 1 : m[j] \in SUBSET Rows
  BY ShardsAssumption DEF IsMatrix, Columns
<1>2. {} \in PrefixSpan(m, n)
  BY <1>1, SpanHasEmpty
<1>3. \A a, b \in PrefixSpan(m, n) : AddColumn(a, b) \in PrefixSpan(m, n)
  BY <1>1, SpanClosed
<1> QED
  BY <1>2, <1>3 DEF Closed

LEMMA ColumnIsSpanned ==
  ASSUME NEW m, IsMatrix(m), NEW n \in 0 .. NumColumns, NEW c \in 0 .. n - 1,
         NEW x \in SUBSET Rows, AddColumn(m[c], x) \in PrefixSpan(m, c)
  PROVE  x \in PrefixSpan(m, n)
<1>1. /\ n \in Nat /\ c \in Nat /\ c <= n /\ c \in Columns
      /\ \A j \in 0 .. n - 1 : m[j] \in SUBSET Rows
  BY ShardsAssumption DEF IsMatrix, Columns
<1>2. m[c] \in SUBSET Rows
  BY <1>1
<1>3. m[c] \in PrefixSpan(m, n)
  BY <1>1, <1>2, SpanHasColumn
<1>4. AddColumn(m[c], x) \in PrefixSpan(m, n)
  BY <1>1, SpanGrows
<1>5. AddColumn(m[c], AddColumn(m[c], x)) \in PrefixSpan(m, n)
  BY <1>3, <1>4, SpanIsClosed DEF Closed
<1>6. AddColumn(m[c], AddColumn(m[c], x)) = x
  BY <1>2, AddColumnCancels
<1> QED
  BY <1>5, <1>6

LEMMA ReductionKeepsCosets ==
  ASSUME NEW m, IsMatrix(m), NEW shard, ShardColumns(shard), Cosets(shard, m)
  PROVE  Cosets(ReduceInOrder(shard), m)
<1> DEFINE g == ReduceInOrder(shard)
           Bad == {c \in DOMAIN g : AddColumn(m[c], g[c]) \notin PrefixSpan(m, c)}
<1>1. ReducedFrom(g, shard, NumColumns)
  BY ReduceInOrderReduces
<1>2. DOMAIN g \subseteq DOMAIN shard /\ DOMAIN g \subseteq Columns
  BY <1>1 DEF ReducedFrom, ShardColumns
<1> HIDE DEF g
<1>3. Bad = {}
  <2> SUFFICES ASSUME Bad # {} PROVE FALSE
    OBVIOUS
  <2>0. Bad \in SUBSET Nat
    BY <1>2 DEF Columns
  <2>1. PICK c \in Bad : \A d \in Bad : c <= d
    BY <2>0, NatMinimum
  <2>2. /\ c \in DOMAIN g /\ c \in DOMAIN shard /\ c \in Columns
        /\ AddColumn(m[c], g[c]) \notin PrefixSpan(m, c)
    BY <1>2
  <2>3. c \in 0 .. NumColumns
    BY <2>2, ShardsAssumption DEF Columns
  <2>4. ASSUME NEW d \in DOMAIN g, d < c
        PROVE  g[d] \in PrefixSpan(m, c)
    <3>1. AddColumn(m[d], g[d]) \in PrefixSpan(m, d)
      <4>1. d \notin Bad
        BY <1>2, <2>0, <2>1, <2>4
      <4> QED
        BY <4>1
    <3>2. d \in 0 .. c - 1 /\ g[d] \in SUBSET Rows
      BY <1>1, <1>2, <2>3, <2>4 DEF Columns, ReducedFrom
    <3> QED
      BY <2>3, <3>1, <3>2, ColumnIsSpanned
  <2>5. Closed(PrefixSpan(m, c))
    BY <2>3, SpanIsClosed
  <2>6. AddColumn(shard[c], g[c]) \in PrefixSpan(m, c)
    BY <1>1, <2>2, <2>4, <2>5 DEF ReducedFrom
  <2>7. AddColumn(m[c], shard[c]) \in PrefixSpan(m, c)
    BY <2>2 DEF Cosets
  <2>8. AddColumn(AddColumn(m[c], shard[c]), AddColumn(shard[c], g[c]))
          \in PrefixSpan(m, c)
    BY <2>5, <2>6, <2>7 DEF Closed
  <2>9. AddColumn(AddColumn(m[c], shard[c]), AddColumn(shard[c], g[c]))
          = AddColumn(m[c], g[c])
    <3>1. shard[c] \in SUBSET Rows /\ g[c] \in SUBSET Rows
      BY <1>1, <2>2 DEF ShardColumns, ReducedFrom
    <3>2. AddColumn(shard[c], AddColumn(shard[c], g[c])) = g[c]
      BY <3>1, AddColumnCancels
    <3> QED
      BY <3>2, AddColumnAssociates
  <2> QED
    BY <2>2, <2>8, <2>9
<1> QED
  BY <1>3 DEF Cosets, g

(* The prefixes of a whole matrix of such columns span what those of m do. *)
LEMMA CosetsSpan ==
  ASSUME NEW m, IsMatrix(m), NEW g, IsMatrix(g), Cosets(g, m), NEW n \in 0 .. NumColumns
  PROVE  PrefixSpan(g, n) = PrefixSpan(m, n)
<1> DEFINE Bad == {k \in 0 .. NumColumns : PrefixSpan(g, k) # PrefixSpan(m, k)}
<1>1. SUFFICES ASSUME Bad # {} PROVE FALSE
  OBVIOUS
<1>2. Bad \in SUBSET Nat
  BY ShardsAssumption
<1>3. PICK k \in Bad : \A l \in Bad : k <= l
  BY <1>1, <1>2, NatMinimum
<1>4. /\ k \in Nat /\ k \in 0 .. NumColumns /\ PrefixSpan(g, k) # PrefixSpan(m, k)
      /\ \A j \in 0 .. k - 1 : j \in Columns /\ j \in Nat
  BY <1>2, ShardsAssumption DEF Columns
<1>5. \A j \in 0 .. k - 1 : m[j] \in SUBSET Rows /\ g[j] \in SUBSET Rows
  BY <1>4 DEF IsMatrix
<1>6. PrefixSpan(g, k) \subseteq PrefixSpan(m, k)
  <2>1. ASSUME NEW j \in 0 .. k - 1
        PROVE  g[j] \in PrefixSpan(m, k)
    <3>1. AddColumn(m[j], g[j]) \in PrefixSpan(m, j)
      BY <1>4 DEF Cosets, IsMatrix
    <3> QED
      BY <1>4, <1>5, <3>1, ColumnIsSpanned
  <2> QED
    BY <1>4, <1>5, <2>1, SpanWithin
<1>7. PrefixSpan(m, k) \subseteq PrefixSpan(g, k)
  <2>1. ASSUME NEW j \in 0 .. k - 1
        PROVE  m[j] \in PrefixSpan(g, k)
    <3>1. AddColumn(m[j], g[j]) \in PrefixSpan(m, j)
      BY <1>4 DEF Cosets, IsMatrix
    <3>2. PrefixSpan(m, j) = PrefixSpan(g, j)
      <4>1. j \in 0 .. NumColumns /\ ~(k <= j)
        BY <1>4, ShardsAssumption
      <4> QED
        BY <1>3, <4>1
    <3>3. AddColumn(g[j], m[j]) \in PrefixSpan(g, j)
      BY <3>1, <3>2, AddColumnCommutes
    <3> QED
      BY <1>4, <1>5, <3>3, ColumnIsSpanned
  <2> QED
    BY <1>4, <1>5, <2>1, SpanWithin
<1> QED
  BY <1>4, <1>6, <1>7

Reduced(shard, m) ==
  \A c \in DOMAIN shard : Low(shard[c]) = PersistencePivot(m, c)

(* Reduced in the order of its columns, the matrix shows its persistence   *)
(* pairing.                                                                *)
LEMMA ReductionShowsPivots ==
  ASSUME NEW m, IsMatrix(m), NEW shard, ShardColumns(shard), DOMAIN shard = Columns,
         Cosets(shard, m)
  PROVE  Reduced(ReduceInOrder(shard), m)
<1> DEFINE g == ReduceInOrder(shard)
<1>1. ReducedFrom(g, shard, NumColumns) /\ Cosets(g, m)
  BY ReduceInOrderReduces, ReductionKeepsCosets
<1>2. DOMAIN g = Columns /\ \A c \in Columns : g[c] \in SUBSET Rows
  BY <1>1, ShardsAssumption DEF ReducedFrom, Columns
<1>3. g = [c \in Columns |-> g[c]]
  BY <1>1, <1>2 DEF ReducedFrom
<1> HIDE DEF g
<1>4. IsMatrix(g)
  BY <1>2, <1>3 DEF IsMatrix
<1>5. ASSUME NEW j \in Columns
      PROVE  Low(g[j]) = PersistencePivot(m, j)
  <2>1. /\ j \in 0 .. NumColumns - 1 /\ j \in 0 .. NumColumns /\ j + 1 \in 0 .. NumColumns
        /\ NumColumns \in Nat /\ NumRows \in Nat
        /\ \A c \in 0 .. (j + 1) - 1 : c \in Columns
    BY ShardsAssumption DEF Columns
  <2>2. PrefixSpan(g, j) = PrefixSpan(m, j) /\ PrefixSpan(g, j + 1) = PrefixSpan(m, j + 1)
    BY <1>1, <1>4, <2>1, CosetsSpan
  <2>3. PivotsDistinct(g, j + 1)
    BY <1>1, <1>2, <2>1 DEF PivotsDistinct, ReducedFrom
  <2>4. /\ m \in [0 .. NumColumns - 1 -> SUBSET (0 .. NumRows - 1)]
        /\ g \in [0 .. NumColumns - 1 -> SUBSET (0 .. NumRows - 1)]
    BY <1>4 DEF IsMatrix, Columns, Rows
  <2> QED
    BY <2>1, <2>2, <2>3, <2>4, ReducedColumnPivot
<1> QED
  BY <1>2, <1>5 DEF Reduced, g

(***************************************************************************)
(* The inductive invariant.                                                *)
(***************************************************************************)

Shards == UNION {[C -> SUBSET Rows] : C \in SUBSET Columns}
Owners == UNION {[C -> Ranks] : C \in SUBSET Columns}
Reports == (Rows \cup Columns) \X (Columns \cup {NoDeath})
Files ==
  [columns : Shards, of : Matrices \cup {NoColumns}, world : Nat, whole : BOOLEAN]

Places == {"start", "barrier", "synchronize", "exchange", "resolve", "threw",
           "gathering", "open", "write"}

Types ==
  /\ size \in 1 .. MaxRanks
  /\ input \in Matrices
  /\ plan \in Seq(STRING)
  /\ at \in [Ranks -> Nat \ {0}]
  /\ pc \in [Ranks -> Places]
  /\ columns \in [Ranks -> Shards]
  /\ owner \in [Ranks -> Owners]
  /\ cache \in [Ranks -> Shards]
  /\ records \in [Ranks -> SUBSET Reports]
  /\ file \in [Ranks -> Files]
  /\ origin \in [Ranks -> Matrices \cup {NoColumns}]

Own(r, n) == {c \in Columns : c % n = r}

(* Where in an operation a rank can be.                                    *)
Place(r) ==
  /\ at[r] <= Len(plan) + 1
  /\ \/ pc[r] = "start"
     \/ pc[r] = "barrier" /\ Operation(r) \in {"barrier", "checkpoint", "restore"}
     \/ pc[r] \in {"synchronize", "exchange", "resolve", "threw"} /\ Operation(r) = "reduce"
     \/ pc[r] = "gathering" /\ Operation(r) = "gather"
     \/ pc[r] \in {"open", "write"} /\ Operation(r) = "checkpoint"

(* A rank that holds columns of a matrix holds its part of it, and owns    *)
(* just these columns.                                                     *)
HoldsPart(r) ==
  origin[r] \in Matrices =>
    /\ DOMAIN columns[r] = Own(r, size)
    /\ Cosets(columns[r], origin[r])
    /\ {c \in DOMAIN owner[r] : owner[r][c] = r} = Own(r, size)

(* What it got from the others is all of the matrix.                       *)
KnowsAll(r) ==
  (origin[r] \in Matrices /\ pc[r] = "resolve") =>
    DOMAIN cache[r] = Columns /\ Cosets(cache[r], origin[r])

(* The file being written has columns the rank holds; a whole file is the  *)
(* part of the rank.                                                       *)
WritesOwn(r) ==
  pc[r] = "write" =>
    /\ file[r].of = origin[r] /\ file[r].world = size /\ ~file[r].whole
    /\ DOMAIN file[r].columns \subseteq DOMAIN columns[r]
    /\ \A c \in DOMAIN file[r].columns : file[r].columns[c] = columns[r][c]

FileIsPart(r) ==
  (file[r].whole /\ file[r].of \in Matrices) =>
    /\ DOMAIN file[r].columns = Own(r, file[r].world)
    /\ Cosets(file[r].columns, file[r].of)

(* After a reduction, until other columns come in.                         *)
StaysReduced(r) ==
  /\ origin[r] \in Matrices
  /\ Fresh(plan, at[r])
  /\ pc[r] = "start" \/ Operation(r) \notin {"reduce", "restore"}
  => Reduced(columns[r], origin[r])

RankInv(r) ==
  Place(r) /\ HoldsPart(r) /\ KnowsAll(r) /\ WritesOwn(r) /\ StaysReduced(r)

RanksInv ==
  /\ \A r \in World : RankInv(r)
  /\ \A r \in Ranks : FileIsPart(r)

ShardInv == Types /\ RanksInv

(* All ranks are between the same two collective operations.               *)
Meeting(op) == op \in {"barrier", "checkpoint", "restore", "reduce", "gather"}

Past == {"resolve", "open", "write"}

Passed(r, j) == j < at[r] \/ (j = at[r] /\ pc[r] \in Past)

Together ==
  \A p, q \in World, j \in 1 .. Len(plan) :
    (Meeting(plan[j]) /\ Passed(p, j)) => Passed(q, j)

(* The records of a rank's own columns, and of all.                        *)
RecordsOf(m, C) == {Expected[m][c] : c \in C}

LastIs(op) == plan # <<>> /\ Last(plan) = op

ReportsOwn(r) ==
  /\ origin[r] \in Matrices
  /\ pc[r] = "gathering" \/ (Done(r) /\ LastIs("read"))
  => records[r] = RecordsOf(origin[r], Own(r, size))

ReportsAll(r) ==
  \A m \in Matrices :
    (HoldTogether(m) /\ Done(r) /\ LastIs("gather")) => records[r] = RecordsOf(m, Columns)

ReportInv ==
  /\ ReportsReduced(plan)
  /\ Together
  /\ \A r \in World : ReportsOwn(r) /\ ReportsAll(r)

----------------------------------------------------------------------------
(* Shards as values.                                                       *)

LEMMA ShardsAre ==
  ASSUME NEW s \in Shards
  PROVE  ShardColumns(s) /\ s = [c \in DOMAIN s |-> s[c]]
<1>1. PICK C \in SUBSET Columns : s \in [C -> SUBSET Rows]
  BY DEF Shards
<1>2. DOMAIN s = C /\ (\A c \in C : s[c] \in SUBSET Rows) /\ s = [c \in C |-> s[c]]
  BY <1>1
<1> QED
  BY <1>1, <1>2 DEF ShardColumns

LEMMA IsInShards ==
  ASSUME NEW C \in SUBSET Columns, NEW s \in [C -> SUBSET Rows]
  PROVE  s \in Shards
BY DEF Shards

LEMMA NoColumnsIsShard == NoColumns \in Shards /\ DOMAIN NoColumns = {}
<1>1. NoColumns \in [{} -> SUBSET Rows] /\ DOMAIN NoColumns = {}
  BY DEF NoColumns
<1> QED
  BY <1>1, IsInShards

LEMMA ReductionIsShard ==
  ASSUME NEW s \in Shards
  PROVE  ReduceInOrder(s) \in Shards /\ DOMAIN ReduceInOrder(s) = DOMAIN s
<1> DEFINE g == ReduceInOrder(s)
<1>1. ShardColumns(s) /\ ReducedFrom(g, s, NumColumns)
  BY ShardsAre, ReduceInOrderReduces
<1> HIDE DEF g
<1>2. DOMAIN g = DOMAIN s /\ DOMAIN s \in SUBSET Columns
  <2>1. DOMAIN s \in SUBSET Columns /\ \A c \in Columns : c < NumColumns
    BY <1>1, ShardsAssumption DEF ShardColumns, Columns
  <2>2. DOMAIN g = {c \in DOMAIN s : c < NumColumns}
    BY <1>1 DEF ReducedFrom
  <2> QED
    BY <2>1, <2>2
<1>3. g \in [DOMAIN s -> SUBSET Rows]
  BY <1>1, <1>2 DEF ReducedFrom
<1> QED
  BY <1>2, <1>3, IsInShards DEF g

LEMMA MergedIsShard ==
  ASSUME NEW s \in Shards, NEW t \in Shards
  PROVE  /\ Merged(s, t) \in Shards
         /\ DOMAIN Merged(s, t) = DOMAIN s \cup DOMAIN t
<1>1. ShardColumns(s) /\ ShardColumns(t)
  BY ShardsAre
<1>2. /\ DOMAIN s \cup DOMAIN t \in SUBSET Columns
      /\ Merged(s, t) \in [DOMAIN s \cup DOMAIN t -> SUBSET Rows]
  BY <1>1 DEF Merged, ShardColumns
<1> QED
  BY <1>2, IsInShards

LEMMA RestrictionIsShard ==
  ASSUME NEW s \in Shards, NEW C \in SUBSET DOMAIN s
  PROVE  /\ Restrict(s, C) \in Shards
         /\ DOMAIN Restrict(s, C) = C
         /\ \A c \in C : Restrict(s, C)[c] = s[c]
<1>1. ShardColumns(s)
  BY ShardsAre
<1>2. C \in SUBSET Columns /\ Restrict(s, C) \in [C -> SUBSET Rows]
  BY <1>1 DEF Restrict, ShardColumns
<1>3. \A c \in C : Restrict(s, C)[c] = s[c]
  BY DEF Restrict
<1> QED
  BY <1>2, <1>3, IsInShards

LEMMA OneColumnIsShard ==
  ASSUME NEW s \in Shards, NEW c \in DOMAIN s
  PROVE  /\ Only(c, s[c]) \in Shards
         /\ DOMAIN Only(c, s[c]) = {c}
         /\ Only(c, s[c])[c] = s[c]
<1>1. ShardColumns(s)
  BY ShardsAre
<1>2. {c} \in SUBSET Columns /\ Only(c, s[c]) \in [{c} -> SUBSET Rows]
  BY <1>1 DEF Only, ShardColumns
<1>3. Only(c, s[c])[c] = s[c]
  BY DEF Only
<1> QED
  BY <1>2, <1>3, IsInShards

LEMMA MatrixIsShard ==
  ASSUME NEW m \in Matrices
  PROVE  m \in Shards /\ DOMAIN m = Columns /\ IsMatrix(m)
<1>1. m \in [Columns -> SUBSET Rows] /\ Columns \in SUBSET Columns
  BY ShardsAssumption
<1> QED
  BY <1>1, IsInShards DEF IsMatrix

(* The last rank that holds a column.                                      *)
LEMMA AssembledIsShard ==
  ASSUME Types
  PROVE  /\ Assembled \in Shards
         /\ DOMAIN Assembled = UNION {DOMAIN columns[r] : r \in World}
         /\ \A c \in DOMAIN Assembled : \E r \in World :
              c \in DOMAIN columns[r] /\ Assembled[c] = columns[r][c]
<1> DEFINE C == UNION {DOMAIN columns[r] : r \in World}
           holders(c) == {r \in World : c \in DOMAIN columns[r]}
<1>1. \A r \in World : r \in Ranks /\ ShardColumns(columns[r])
  <2>1. \A r \in World : r \in Ranks
    BY ShardsAssumption DEF Types, World, Ranks
  <2> QED
    BY <2>1, ShardsAre DEF Types
<1>2. C \in SUBSET Columns
  BY <1>1 DEF ShardColumns
<1>3. ASSUME NEW c \in C
      PROVE  Max(holders(c)) \in World /\ c \in DOMAIN columns[Max(holders(c))]
  <2>1. size \in Nat /\ holders(c) \in SUBSET (0 .. size - 1)
    <3>1. size \in 1 .. MaxRanks /\ MaxRanks \in Nat
      BY ShardsAssumption DEF Types
    <3> QED
      BY <3>1 DEF World
  <2>3. holders(c) # {}
    OBVIOUS
  <2> HIDE DEF C
  <2>2. Max(holders(c)) \in holders(c)
    BY <2>1, <2>3, MaxIsGreatest
  <2> QED
    BY <2>2
<1>4. Assembled = [c \in C |-> columns[Max(holders(c))][c]]
  BY DEF Assembled
<1> HIDE DEF C, holders
<1>5. Assembled \in [C -> SUBSET Rows]
  BY <1>1, <1>3, <1>4 DEF ShardColumns
<1>6. DOMAIN Assembled = C /\ \A c \in C : Assembled[c] = columns[Max(holders(c))][c]
  BY <1>4
<1>7. Assembled \in Shards
  BY <1>2, <1>5, IsInShards
<1> QED
  BY <1>3, <1>6, <1>7 DEF C

----------------------------------------------------------------------------
(* Types.                                                                  *)

LEMMA WorldIsRanks ==
  ASSUME size \in 1 .. MaxRanks
  PROVE  World \subseteq Ranks /\ size \in Nat \ {0}
<1>1. MaxRanks \in Nat
  BY ShardsAssumption
<1> QED
  BY <1>1 DEF World, Ranks

LEMMA PlacesTyped ==
  ASSUME Types, NEW r \in World
  PROVE  r \in Ranks /\ at[r] \in Nat \ {0} /\ pc[r] \in Places /\ size \in Nat \ {0}
<1>1. World \subseteq Ranks /\ size \in Nat \ {0}
  BY WorldIsRanks DEF Types
<1> QED
  BY <1>1 DEF Types

LEMMA GoToTyped ==
  ASSUME Types, NEW r \in Ranks, NEW place \in Places, GoTo(r, place)
  PROVE  at' \in [Ranks -> Nat \ {0}] /\ pc' \in [Ranks -> Places]
BY DEF Types, GoTo

LEMMA FinishTyped ==
  ASSUME Types, NEW r \in Ranks, Finish(r)
  PROVE  at' \in [Ranks -> Nat \ {0}] /\ pc' \in [Ranks -> Places]
BY DEF Types, Finish, Places

LEMMA BoundaryTyped ==
  ASSUME Types, NEW r \in Ranks, NEW c \in Columns
  PROVE  Record(c, GetBoundary(r, c)) \in Reports
<1>1. ShardColumns(columns[r]) /\ ShardColumns(cache[r])
  BY ShardsAre DEF Types
<1>2. GetBoundary(r, c) \in SUBSET Rows
  BY <1>1 DEF GetBoundary, ShardColumns
<1> DEFINE b == GetBoundary(r, c)
<1> HIDE DEF b
<1>3. b # {} => Low(b) \in Rows
  BY <1>2, ShardsAssumption, LowIsRow DEF Rows, b
<1>4. Record(c, b) \in Reports
  BY <1>3 DEF Record, Reports
<1> QED
  BY <1>4 DEF b

LEMMA NoColumnsIsOwners == NoColumns \in Owners
<1>1. NoColumns \in [{} -> Ranks]
  BY DEF NoColumns
<1> QED
  BY <1>1 DEF Owners

LEMMA TypesHold == Init => Types
<1> SUFFICES ASSUME Init PROVE Types
  OBVIOUS
<1>1. <<>> \in Seq(STRING) /\ MaxRanks \in 1 .. MaxRanks /\ NoColumns \in Shards
  BY ShardsAssumption, NoColumnsIsShard, EmptySeq
<1>2. NoColumns \in Owners
  BY NoColumnsIsOwners
<1>3. NoFile \in Files
  BY <1>1 DEF NoFile, Files
<1> QED
  BY <1>1, <1>2, <1>3, ShardsAssumption DEF Init, Types, Places

LEMMA TypesKept ==
  ASSUME Types, [Next]_vars
  PROVE  Types'
<1> USE DEF matrixVars, Places
<1>0. /\ World \subseteq Ranks /\ size \in Nat \ {0}
      /\ NoColumns \in Shards /\ NoColumns \in Owners
  BY WorldIsRanks, NoColumnsIsShard, NoColumnsIsOwners DEF Types
<1>1. ASSUME NEW n \in 1 .. MaxRanks, NEW m \in Matrices, NEW p \in Plans, Launch(n, m, p)
      PROVE  /\ size' \in 1 .. MaxRanks /\ input' \in Matrices /\ plan' \in Seq(STRING)
             /\ at' \in [Ranks -> Nat \ {0}] /\ pc' \in [Ranks -> Places]
             /\ records' \in [Ranks -> SUBSET Reports]
  BY <1>1, ShardsAssumption DEF Launch
<1>2. ASSUME NEW m \in Matrices, NEW p \in Plans, CallAgain(m, p)
      PROVE  Types'
  BY <1>1, <1>2 DEF CallAgain, Types
<1>3. ASSUME NEW n \in 1 .. MaxRanks, NEW m \in Matrices, NEW p \in Plans, Restart(n, m, p)
      PROVE  Types'
  BY <1>0, <1>1, <1>3 DEF Restart, Types
<1>4. ASSUME NEW r \in Ranks, DistributeColumns(r)
      PROVE  Types'
  <2>1. at' \in [Ranks -> Nat \ {0}] /\ pc' \in [Ranks -> Places]
    BY <1>4, FinishTyped DEF DistributeColumns
  <2>2. [c \in Columns |-> c % size] \in Owners
    <3>1. \A c \in Columns : c % size \in Ranks
      BY <1>0, ShardsAssumption DEF Types, Columns, Ranks
    <3>2. [c \in Columns |-> c % size] \in [Columns -> Ranks]
      BY <3>1
    <3> QED
      BY <3>2 DEF Owners
  <2>3. Restrict(input, {c \in Columns : c % size = r}) \in Shards
    BY MatrixIsShard, RestrictionIsShard DEF Types
  <2> QED
    BY <1>0, <1>4, <2>1, <2>2, <2>3 DEF DistributeColumns, Types
<1>5. ASSUME NEW r \in Ranks, EnterBarrier(r) \/ SynchronizeGlobals(r) \/ BeginCheckpoint(r)
      PROVE  Types'
  <2>1. at' \in [Ranks -> Nat \ {0}] /\ pc' \in [Ranks -> Places]
    BY <1>5, GoToTyped DEF EnterBarrier, SynchronizeGlobals, BeginCheckpoint
  <2> QED
    BY <1>5, <2>1 DEF EnterBarrier, SynchronizeGlobals, BeginCheckpoint, Types
<1>6. ASSUME NEW r \in Ranks, ReduceLocal(r)
      PROVE  Types'
  <2>1. at' \in [Ranks -> Nat \ {0}] /\ pc' \in [Ranks -> Places]
    BY <1>6, GoToTyped DEF ReduceLocal
  <2>2. ReduceInOrder(columns[r]) \in Shards
    BY ReductionIsShard DEF Types
  <2> QED
    BY <1>6, <2>1, <2>2 DEF ReduceLocal, Types
<1>7. ASSUME NEW r \in Ranks, ResolveRemoteDependencies(r)
      PROVE  Types'
  <2>1. at' \in [Ranks -> Nat \ {0}] /\ pc' \in [Ranks -> Places]
    BY <1>7, FinishTyped DEF ResolveRemoteDependencies
  <2> DEFINE global == ReduceInOrder(Merged(columns[r], cache[r]))
             own == {c \in DOMAIN global \cap DOMAIN owner[r] : owner[r][c] = r}
  <2>2. global \in Shards
    BY MergedIsShard, ReductionIsShard DEF Types
  <2>3. Restrict(global, own) \in Shards
    <3> HIDE DEF global
    <3> QED
      BY <2>2, RestrictionIsShard
  <2>4. /\ cache' = [cache EXCEPT ![r] = global]
        /\ columns' = [columns EXCEPT ![r] = Restrict(global, own)]
    BY <1>7 DEF ResolveRemoteDependencies
  <2> HIDE DEF global, own
  <2> QED
    BY <1>7, <2>1, <2>2, <2>3, <2>4 DEF ResolveRemoteDependencies, Types
<1>8. ASSUME NEW r \in Ranks, CollectRecords(r)
      PROVE  Types'
  <2>1. at' \in [Ranks -> Nat \ {0}] /\ pc' \in [Ranks -> Places]
    BY <1>8, GoToTyped DEF CollectRecords
  <2>2. {Record(c, GetBoundary(r, c)) : c \in {d \in Columns : d % size = r}}
          \in SUBSET Reports
    BY BoundaryTyped
  <2> QED
    BY <1>8, <2>1, <2>2 DEF CollectRecords, Types
<1>9. ASSUME NEW r \in Ranks, ReadColumns(r)
      PROVE  Types'
  <2>1. at' \in [Ranks -> Nat \ {0}] /\ pc' \in [Ranks -> Places]
    BY <1>9, FinishTyped DEF ReadColumns
  <2>2. DOMAIN columns[r] \subseteq Columns
    BY ShardsAre DEF Types, ShardColumns
  <2>3. {Record(c, GetBoundary(r, c)) : c \in DOMAIN columns[r]} \in SUBSET Reports
    BY <2>2, BoundaryTyped
  <2> QED
    BY <1>9, <2>1, <2>3 DEF ReadColumns, Types
<1>10. ASSUME NEW r \in Ranks, OpenFile(r)
       PROVE  Types'
  <2>1. at' \in [Ranks -> Nat \ {0}] /\ pc' \in [Ranks -> Places]
    BY <1>10, GoToTyped, FinishTyped DEF OpenFile
  <2>2. [columns |-> NoColumns, of |-> origin[r], world |-> size, whole |-> FALSE] \in Files
    BY <1>0 DEF Types, Files
  <2>3. file' \in [Ranks -> Files]
    BY <1>10, <2>2 DEF OpenFile, Types
  <2> QED
    BY <1>10, <2>1, <2>3 DEF OpenFile, Types
<1>11. ASSUME NEW r \in Ranks, WriteFile(r)
       PROVE  Types'
  <2>1. at' \in [Ranks -> Nat \ {0}] /\ pc' \in [Ranks -> Places]
    BY <1>11, FinishTyped DEF WriteFile, Types
  <2> DEFINE left == DOMAIN columns[r] \ DOMAIN file[r].columns
             more == Merged(file[r].columns, Only(Min(left), columns[r][Min(left)]))
  <2>2. left # {} => more \in Shards
    <3>1. columns[r] \in Shards /\ file[r].columns \in Shards
      BY DEF Types, Files
    <3>2. left \in SUBSET Nat
      BY <3>1, ShardsAre, ShardsAssumption DEF ShardColumns, Columns
    <3>3. left # {} => Min(left) \in DOMAIN columns[r]
      BY <3>2, MinIsLeast
    <3> QED
      BY <3>1, <3>3, OneColumnIsShard, MergedIsShard
  <2>3. \/ left # {} /\ file' = [file EXCEPT ![r].columns = more]
        \/ file' = [file EXCEPT ![r].whole = TRUE]
        \/ file' = file
    BY <1>11 DEF WriteFile
  <2> HIDE DEF left, more
  <2>4. file[r] \in Files /\ file \in [Ranks -> Files]
    BY DEF Types
  <2>5. file' \in [Ranks -> Files]
    <3>1. CASE left # {} /\ file' = [file EXCEPT ![r].columns = more]
      <4>1. [file[r] EXCEPT !.columns = more] \in Files
        BY <2>2, <2>4, <3>1 DEF Files
      <4>2. file' = [file EXCEPT ![r] = [file[r] EXCEPT !.columns = more]]
        BY <2>4, <3>1
      <4> QED
        BY <2>4, <4>1, <4>2
    <3>2. CASE file' = [file EXCEPT ![r].whole = TRUE]
      <4>1. [file[r] EXCEPT !.whole = TRUE] \in Files
        BY <2>4 DEF Files
      <4>2. file' = [file EXCEPT ![r] = [file[r] EXCEPT !.whole = TRUE]]
        BY <2>4, <3>2
      <4> QED
        BY <2>4, <4>1, <4>2
    <3> QED
      BY <2>3, <2>4, <3>1, <3>2
  <2> QED
    BY <1>11, <2>1, <2>5 DEF WriteFile, Types
<1>12. ASSUME NEW r \in Ranks, Restore(r)
       PROVE  Types'
  <2>1. at' \in [Ranks -> Nat \ {0}] /\ pc' \in [Ranks -> Places]
    BY <1>12, GoToTyped DEF Restore
  <2>2. file[r] \in Files
    BY DEF Types
  <2>3. file[r].columns \in Shards /\ file[r].of \in Matrices \cup {NoColumns}
    BY <2>2 DEF Files
  <2>4. [c \in DOMAIN file[r].columns |-> r] \in Owners
    BY <2>3, ShardsAre DEF Owners, ShardColumns
  <2> QED
    BY <1>0, <1>12, <2>1, <2>3, <2>4 DEF Restore, Types
<1>13. CASE Barrier
  <2>1. at' \in [Ranks -> Nat \ {0}] /\ pc' \in [Ranks -> Places]
    BY <1>13 DEF Barrier, Types
  <2> QED
    BY <1>13, <2>1 DEF Barrier, Types
<1>14. CASE ExchangeColumns
  <2>1. Assembled \in Shards
    BY AssembledIsShard
  <2>2. /\ pc' \in [Ranks -> Places]
        /\ cache' \in [Ranks -> Shards]
        /\ origin' \in [Ranks -> Matrices \cup {NoColumns}]
    <3>1. CASE /\ pc' = [r \in Ranks |-> IF r \in World THEN "threw" ELSE pc[r]]
               /\ UNCHANGED <<cache, origin>>
      BY <3>1 DEF Types
    <3>2. CASE /\ pc' = [r \in Ranks |-> IF r \in World THEN "resolve" ELSE pc[r]]
               /\ cache' = [r \in Ranks |-> IF r \in World THEN Assembled ELSE cache[r]]
               /\ origin' = IF \A p, q \in World : origin[p] = origin[q] THEN origin
                            ELSE [r \in Ranks |-> NoColumns]
      <4>1. pc' \in [Ranks -> Places]
        BY <3>2 DEF Types
      <4>2. cache' \in [Ranks -> Shards]
        BY <3>2, <2>1 DEF Types
      <4>3. origin' \in [Ranks -> Matrices \cup {NoColumns}]
        BY <3>2 DEF Types
      <4> QED
        BY <4>1, <4>2, <4>3
    <3> QED
      BY <1>14, <3>1, <3>2 DEF ExchangeColumns
  <2> QED
    BY <1>14, <2>2 DEF ExchangeColumns, Types
<1>15. CASE GatherRecords
  <2>1. at' \in [Ranks -> Nat \ {0}] /\ pc' \in [Ranks -> Places]
    BY <1>15 DEF GatherRecords, Types
  <2>2. UNION {records[q] : q \in World} \in SUBSET Reports
    BY <1>0 DEF Types
  <2>3. records' \in [Ranks -> SUBSET Reports]
    BY <1>15, <2>2 DEF GatherRecords, Types
  <2> QED
    BY <1>15, <2>1, <2>3 DEF GatherRecords, Types
<1>16. CASE UNCHANGED vars
  BY <1>16 DEF vars, Types
<1>17. CASE NoMoreJobs
  BY <1>16, <1>17 DEF NoMoreJobs
<1>18. ASSUME NEW r \in Ranks, Step(r)
       PROVE  Types'
  BY <1>4, <1>5, <1>6, <1>7, <1>8, <1>9, <1>10, <1>11, <1>12, <1>18 DEF Step
<1> QED
  BY <1>2, <1>3, <1>13, <1>14, <1>15, <1>16, <1>17, <1>18 DEF Next, Meet

----------------------------------------------------------------------------
(* The invariant of a rank.                                                *)

SameRank(r) ==
  /\ at'[r] = at[r] /\ pc'[r] = pc[r] /\ columns'[r] = columns[r]
  /\ owner'[r] = owner[r] /\ cache'[r] = cache[r] /\ origin'[r] = origin[r]
  /\ file'[r] = file[r] /\ records'[r] = records[r]

LEMMA RankInvFrame ==
  ASSUME NEW r \in World, RankInv(r), SameRank(r), size' = size, plan' = plan
  PROVE  RankInv(r)'
<1>1. Operation(r)' = Operation(r) /\ Own(r, size)' = Own(r, size)
  BY DEF Operation, SameRank, Own, Columns
<1>2. Place(r)'
  BY <1>1 DEF RankInv, Place, SameRank
<1>3. HoldsPart(r)'
  BY <1>1 DEF RankInv, HoldsPart, SameRank, Cosets
<1>4. KnowsAll(r)'
  BY <1>1 DEF RankInv, KnowsAll, SameRank, Cosets
<1>5. WritesOwn(r)'
  BY <1>1 DEF RankInv, WritesOwn, SameRank
<1>6. StaysReduced(r)'
  BY <1>1 DEF RankInv, StaysReduced, SameRank, Reduced, Fresh
<1> QED
  BY <1>2, <1>3, <1>4, <1>5, <1>6 DEF RankInv

LEMMA OperationIs ==
  ASSUME Types, NEW r \in World, Operation(r) # "none"
  PROVE  /\ at[r] \in 1 .. Len(plan) /\ plan[at[r]] = Operation(r)
         /\ at[r] \in Nat \ {0} /\ Len(plan) \in Nat
<1>1. at[r] \in Nat \ {0} /\ Len(plan) \in Nat
  BY PlacesTyped, LenProperties DEF Types
<1> QED
  BY <1>1 DEF Operation

(* What is fresh after an operation that is no reduction was so before.    *)
LEMMA FreshBefore ==
  ASSUME NEW program, NEW i \in Nat \ {0}, Fresh(program, i + 1), program[i] # "reduce"
  PROVE  Fresh(program, i) /\ program[i] \notin {"distribute", "restore"}
<1>1. PICK k \in 1 .. (i + 1) - 1 :
        /\ program[k] = "reduce"
        /\ \A l \in k + 1 .. (i + 1) - 1 : program[l] \notin {"distribute", "restore"}
  BY DEF Fresh
<1>2. k \in 1 .. i - 1 /\ i \in k + 1 .. (i + 1) - 1
  <2>1. k # i
    BY <1>1
  <2> QED
    BY <2>1
<1>3. \A l \in k + 1 .. i - 1 : l \in k + 1 .. (i + 1) - 1
  BY <1>2
<1> QED
  BY <1>1, <1>2, <1>3 DEF Fresh

(* A rank goes on in its operation, or to the next one.                    *)
LEMMA RankGoesOn ==
  ASSUME Types, NEW r \in World, RankInv(r), size' = size, plan' = plan,
         at'[r] = at[r], pc'[r] \notin {"start", "resolve", "write"}, Place(r)',
         columns'[r] = columns[r], owner'[r] = owner[r], cache'[r] = cache[r],
         origin'[r] = origin[r]
  PROVE  RankInv(r)'
<1>1. Operation(r)' = Operation(r) /\ Own(r, size)' = Own(r, size)
  BY DEF Operation, Own, Columns
<1>2. HoldsPart(r)'
  BY <1>1 DEF RankInv, HoldsPart, Cosets
<1>3. KnowsAll(r)' /\ WritesOwn(r)'
  BY DEF KnowsAll, WritesOwn
<1>4. StaysReduced(r)'
  BY <1>1 DEF RankInv, StaysReduced, Reduced, Fresh
<1> QED
  BY <1>2, <1>3, <1>4 DEF RankInv

LEMMA NextPlace ==
  ASSUME Types, NEW r \in World, Operation(r) # "none", plan' = plan,
         at'[r] = at[r] + 1, pc'[r] = "start"
  PROVE  Place(r)'
<1>1. at[r] \in 1 .. Len(plan) /\ Len(plan) \in Nat
  BY OperationIs
<1>2. at[r] + 1 <= Len(plan) + 1
  BY <1>1
<1> QED
  BY <1>2 DEF Place

LEMMA RankMovesOn ==
  ASSUME Types, NEW r \in World, RankInv(r), size' = size, plan' = plan,
         Operation(r) \notin {"none", "reduce"},
         at'[r] = at[r] + 1, pc'[r] = "start",
         columns'[r] = columns[r], owner'[r] = owner[r], origin'[r] = origin[r]
  PROVE  RankInv(r)'
<1>1. Own(r, size)' = Own(r, size)
  BY DEF Own, Columns
<1>2. Place(r)'
  BY NextPlace
<1>3. HoldsPart(r)'
  BY <1>1 DEF RankInv, HoldsPart, Cosets
<1>4. KnowsAll(r)' /\ WritesOwn(r)'
  BY DEF KnowsAll, WritesOwn
<1>5. StaysReduced(r)'
  <2> SUFFICES ASSUME origin[r] \in Matrices, Fresh(plan, at[r] + 1)
               PROVE  Reduced(columns[r], origin[r])
    BY DEF StaysReduced, Reduced, Fresh
  <2>1. at[r] \in Nat \ {0} /\ plan[at[r]] = Operation(r)
    BY OperationIs
  <2>2. Fresh(plan, at[r]) /\ Operation(r) \notin {"distribute", "restore"}
    BY <2>1, FreshBefore
  <2> QED
    BY <2>2 DEF RankInv, StaysReduced
<1> QED
  BY <1>2, <1>3, <1>4, <1>5 DEF RankInv

(* The columns of a matrix that a rank distributes.                        *)
LEMMA MatrixInCosets ==
  ASSUME NEW m \in Matrices, NEW C \in SUBSET Columns
  PROVE  Cosets(Restrict(m, C), m)
<1>1. IsMatrix(m) /\ m \in Shards /\ DOMAIN m = Columns
  BY MatrixIsShard
<1>2. /\ DOMAIN Restrict(m, C) = C
      /\ \A c \in C : Restrict(m, C)[c] = m[c]
  BY <1>1, RestrictionIsShard
<1>3. ASSUME NEW c \in C
      PROVE  AddColumn(m[c], m[c]) \in PrefixSpan(m, c)
  <2>1. m[c] \in SUBSET Rows /\ c \in Nat
    BY <1>1 DEF IsMatrix, Columns
  <2>2. AddColumn(m[c], m[c]) = {}
    BY <2>1, AddColumnUnit
  <2> QED
    BY <2>1, <2>2, SpanHasEmpty
<1> QED
  BY <1>2, <1>3 DEF Cosets

LEMMA DistributeKeepsRank ==
  ASSUME Types, NEW r \in World, RankInv(r), DistributeColumns(r)
  PROVE  RankInv(r)'
<1>1. r \in Ranks /\ size \in Nat \ {0} /\ Operation(r) = "distribute" /\ input \in Matrices
  BY PlacesTyped DEF DistributeColumns, In, Types
<1>2. /\ at'[r] = at[r] + 1 /\ pc'[r] = "start" /\ origin'[r] = input
      /\ owner'[r] = [c \in Columns |-> c % size]
      /\ columns'[r] = Restrict(input, Own(r, size))
      /\ plan' = plan /\ size' = size
  BY <1>1 DEF DistributeColumns, Finish, Types, Own
<1>3. Place(r)'
  BY <1>1, <1>2, NextPlace
<1>4. HoldsPart(r)'
  <2>1. Own(r, size) \in SUBSET Columns /\ Own(r, size)' = Own(r, size)
    BY <1>2 DEF Own, Columns
  <2>2. /\ Cosets(Restrict(input, Own(r, size)), input)
        /\ DOMAIN Restrict(input, Own(r, size)) = Own(r, size)
    BY <1>1, <2>1, MatrixInCosets, MatrixIsShard, RestrictionIsShard
  <2>3. {c \in DOMAIN owner'[r] : owner'[r][c] = r} = Own(r, size)
    BY <1>2 DEF Own
  <2> QED
    BY <1>2, <2>1, <2>2, <2>3 DEF HoldsPart, Cosets
<1>5. KnowsAll(r)' /\ WritesOwn(r)'
  BY <1>2 DEF KnowsAll, WritesOwn
<1>6. StaysReduced(r)'
  <2>1. at[r] \in Nat \ {0} /\ plan[at[r]] = "distribute"
    BY <1>1, OperationIs
  <2>2. ~Fresh(plan, at[r] + 1)
    BY <2>1, FreshBefore
  <2> QED
    BY <1>2, <2>2 DEF StaysReduced, Fresh
<1> QED
  BY <1>3, <1>4, <1>5, <1>6 DEF RankInv

LEMMA ReduceLocalKeepsRank ==
  ASSUME Types, NEW r \in World, RankInv(r), ReduceLocal(r)
  PROVE  RankInv(r)'
<1>1. r \in Ranks /\ Operation(r) = "reduce" /\ columns[r] \in Shards
  BY PlacesTyped DEF ReduceLocal, In, Types
<1>2. /\ at'[r] = at[r] /\ pc'[r] = "synchronize" /\ origin'[r] = origin[r]
      /\ owner'[r] = owner[r] /\ columns'[r] = ReduceInOrder(columns[r])
      /\ plan' = plan /\ size' = size
  BY <1>1 DEF ReduceLocal, GoTo, Types
<1>3. Operation(r)' = Operation(r) /\ Own(r, size)' = Own(r, size)
  BY <1>2 DEF Operation, Own, Columns
<1>4. Place(r)'
  BY <1>1, <1>2, <1>3 DEF RankInv, Place
<1>5. HoldsPart(r)'
  <2> SUFFICES ASSUME origin[r] \in Matrices
               PROVE  /\ DOMAIN ReduceInOrder(columns[r]) = Own(r, size)
                      /\ Cosets(ReduceInOrder(columns[r]), origin[r])
                      /\ {c \in DOMAIN owner[r] : owner[r][c] = r} = Own(r, size)
    BY <1>2, <1>3 DEF HoldsPart, Cosets
  <2>1. /\ DOMAIN columns[r] = Own(r, size)
        /\ Cosets(columns[r], origin[r])
        /\ {c \in DOMAIN owner[r] : owner[r][c] = r} = Own(r, size)
    BY DEF RankInv, HoldsPart
  <2>2. ShardColumns(columns[r]) /\ IsMatrix(origin[r])
    BY <1>1, ShardsAre, MatrixIsShard
  <2>3. DOMAIN ReduceInOrder(columns[r]) = DOMAIN columns[r]
    BY <1>1, ReductionIsShard
  <2> QED
    BY <2>1, <2>2, <2>3, ReductionKeepsCosets
<1>6. KnowsAll(r)' /\ WritesOwn(r)' /\ StaysReduced(r)'
  BY <1>1, <1>2, <1>3 DEF KnowsAll, WritesOwn, StaysReduced
<1> QED
  BY <1>4, <1>5, <1>6 DEF RankInv

(* What the rank merges is the whole matrix, and reducing it keeps the     *)
(* cosets and shows the pairing.                                           *)
LEMMA MergedInCosets ==
  ASSUME NEW s, NEW t, NEW m, Cosets(s, m), Cosets(t, m)
  PROVE  Cosets(Merged(s, t), m)
BY DEF Cosets, Merged

LEMMA ResolveKeepsRank ==
  ASSUME Types, NEW r \in World, RankInv(r), ResolveRemoteDependencies(r)
  PROVE  RankInv(r)'
<1> DEFINE merged == Merged(columns[r], cache[r])
           global == ReduceInOrder(merged)
           own == {c \in DOMAIN global \cap DOMAIN owner[r] : owner[r][c] = r}
<1>1. /\ r \in Ranks /\ Operation(r) = "reduce" /\ pc[r] = "resolve"
      /\ columns[r] \in Shards /\ cache[r] \in Shards
  BY PlacesTyped DEF ResolveRemoteDependencies, In, Types
<1>2. /\ at'[r] = at[r] + 1 /\ pc'[r] = "start" /\ origin'[r] = origin[r]
      /\ owner'[r] = owner[r] /\ columns'[r] = Restrict(global, own)
      /\ plan' = plan /\ size' = size
  <2>1. columns' = [columns EXCEPT ![r] = Restrict(global, own)]
    BY DEF ResolveRemoteDependencies
  <2> HIDE DEF global, own
  <2> QED
    BY <1>1, <2>1 DEF ResolveRemoteDependencies, Finish, Types
<1>3. Own(r, size)' = Own(r, size)
  BY <1>2 DEF Own, Columns
<1>4. Place(r)'
  BY <1>1, <1>2, NextPlace
<1>5. ASSUME origin[r] \in Matrices
      PROVE  /\ DOMAIN Restrict(global, own) = Own(r, size)
             /\ Cosets(Restrict(global, own), origin[r])
             /\ Reduced(Restrict(global, own), origin[r])
             /\ {c \in DOMAIN owner[r] : owner[r][c] = r} = Own(r, size)
  <2>1. /\ DOMAIN columns[r] = Own(r, size) /\ Cosets(columns[r], origin[r])
        /\ {c \in DOMAIN owner[r] : owner[r][c] = r} = Own(r, size)
        /\ DOMAIN cache[r] = Columns /\ Cosets(cache[r], origin[r])
    BY <1>1, <1>5 DEF RankInv, HoldsPart, KnowsAll
  <2>2. Own(r, size) \subseteq Columns
    BY DEF Own
  <2>3. merged \in Shards /\ DOMAIN merged = Columns /\ Cosets(merged, origin[r])
    BY <1>1, <2>1, <2>2, MergedIsShard, MergedInCosets
  <2> HIDE DEF merged
  <2>4. /\ global \in Shards /\ DOMAIN global = Columns
        /\ Cosets(global, origin[r]) /\ Reduced(global, origin[r])
    BY <1>5, <2>3, ReductionIsShard, ShardsAre, MatrixIsShard, ReductionKeepsCosets,
       ReductionShowsPivots
  <2> HIDE DEF global
  <2>5. own = Own(r, size) /\ own \subseteq DOMAIN global
    BY <2>1, <2>2, <2>4
  <2> HIDE DEF own
  <2>6. /\ DOMAIN Restrict(global, own) = own
        /\ \A c \in own : Restrict(global, own)[c] = global[c]
    BY <2>4, <2>5, RestrictionIsShard
  <2>7. /\ Cosets(Restrict(global, own), origin[r])
        /\ Reduced(Restrict(global, own), origin[r])
    BY <2>4, <2>5, <2>6 DEF Cosets, Reduced
  <2> QED
    BY <2>1, <2>5, <2>6, <2>7
<1> HIDE DEF global, own
<1>6. HoldsPart(r)'
  BY <1>2, <1>3, <1>5 DEF HoldsPart, Cosets
<1>7. KnowsAll(r)' /\ WritesOwn(r)'
  BY <1>2 DEF KnowsAll, WritesOwn
<1>8. StaysReduced(r)'
  BY <1>2, <1>5 DEF StaysReduced, Reduced
<1> QED
  BY <1>4, <1>6, <1>7, <1>8 DEF RankInv

LEMMA OpenFileKeepsRank ==
  ASSUME Types, NEW r \in World, RankInv(r), OpenFile(r)
  PROVE  RankInv(r)' /\ (FileIsPart(r) => FileIsPart(r)')
<1>1. r \in Ranks /\ Operation(r) = "checkpoint" /\ pc[r] = "open"
  BY PlacesTyped DEF OpenFile, In
<1>2. /\ plan' = plan /\ size' = size /\ columns'[r] = columns[r] /\ origin'[r] = origin[r]
      /\ owner'[r] = owner[r]
  BY DEF OpenFile, matrixVars
<1>3. CASE Finish(r) /\ UNCHANGED file
  <2>1. at'[r] = at[r] + 1 /\ pc'[r] = "start"
    BY <1>1, <1>3 DEF Finish, Types
  <2>2. RankInv(r)'
    BY <1>1, <1>2, <2>1, RankMovesOn
  <2>3. FileIsPart(r) => FileIsPart(r)'
    BY <1>3 DEF FileIsPart, Own, Columns, Cosets
  <2> QED
    BY <2>2, <2>3
<1>4. CASE /\ file' = [file EXCEPT ![r] =
                [columns |-> NoColumns, of |-> origin[r], world |-> size, whole |-> FALSE]]
           /\ GoTo(r, "write")
  <2>1. /\ at'[r] = at[r] /\ pc'[r] = "write"
        /\ file'[r] = [columns |-> NoColumns, of |-> origin[r], world |-> size,
                       whole |-> FALSE]
    BY <1>1, <1>4 DEF GoTo, Types
  <2>2. Operation(r)' = Operation(r) /\ Own(r, size)' = Own(r, size)
    BY <1>2, <2>1 DEF Operation, Own, Columns
  <2>3. Place(r)'
    BY <1>1, <1>2, <2>1, <2>2 DEF RankInv, Place
  <2>4. HoldsPart(r)'
    BY <1>2, <2>2 DEF RankInv, HoldsPart, Cosets
  <2>5. KnowsAll(r)'
    BY <2>1 DEF KnowsAll
  <2>6. WritesOwn(r)'
    BY <1>2, <2>1, NoColumnsIsShard DEF WritesOwn
  <2>7. StaysReduced(r)'
    BY <1>1, <1>2, <2>1, <2>2 DEF RankInv, StaysReduced, Reduced, Fresh
  <2>8. FileIsPart(r)'
    BY <2>1 DEF FileIsPart
  <2> QED
    BY <2>3, <2>4, <2>5, <2>6, <2>7, <2>8 DEF RankInv
<1> QED
  BY <1>3, <1>4 DEF OpenFile

LEMMA FileFrame ==
  ASSUME NEW r, FileIsPart(r), file'[r] = file[r]
  PROVE  FileIsPart(r)'
BY DEF FileIsPart, Own, Columns, Cosets

LEMMA WriteFileKeepsRank ==
  ASSUME Types, NEW r \in World, RankInv(r), FileIsPart(r), WriteFile(r)
  PROVE  RankInv(r)' /\ FileIsPart(r)'
<1> DEFINE left == DOMAIN columns[r] \ DOMAIN file[r].columns
           one == Only(Min(left), columns[r][Min(left)])
           more == Merged(file[r].columns, one)
<1>1. /\ r \in Ranks /\ Operation(r) = "checkpoint" /\ pc[r] = "write"
      /\ columns[r] \in Shards /\ file[r] \in Files /\ file[r].columns \in Shards
  BY PlacesTyped DEF WriteFile, In, Types, Files
<1>2. /\ plan' = plan /\ size' = size /\ columns'[r] = columns[r] /\ origin'[r] = origin[r]
      /\ owner'[r] = owner[r] /\ cache'[r] = cache[r]
  BY DEF WriteFile, matrixVars
<1>3. /\ file[r].of = origin[r] /\ file[r].world = size /\ ~file[r].whole
      /\ DOMAIN file[r].columns \subseteq DOMAIN columns[r]
      /\ \A c \in DOMAIN file[r].columns : file[r].columns[c] = columns[r][c]
  BY <1>1 DEF RankInv, WritesOwn
<1>4. ASSUME Finish(r)
      PROVE  RankInv(r)'
  <2>1. at'[r] = at[r] + 1 /\ pc'[r] = "start"
    BY <1>1, <1>4 DEF Finish, Types
  <2> QED
    BY <1>1, <1>2, <2>1, RankMovesOn
<1>5. CASE /\ left # {}
           /\ file' = [file EXCEPT ![r].columns = more]
           /\ UNCHANGED <<pc, at>>
  <2>1. at'[r] = at[r] /\ pc'[r] = pc[r] /\ file'[r] = [file[r] EXCEPT !.columns = more]
    BY <1>1, <1>5 DEF Types
  <2>2. /\ file'[r].columns = more /\ file'[r].of = file[r].of
        /\ file'[r].world = file[r].world /\ file'[r].whole = file[r].whole
    <3> HIDE DEF more
    <3> QED
      BY <1>1, <2>1 DEF Files
  <2>3. /\ DOMAIN more \subseteq DOMAIN columns[r]
        /\ \A c \in DOMAIN more : more[c] = columns[r][c]
    <3>1. left \in SUBSET Nat
      BY <1>1, ShardsAre DEF ShardColumns, Columns
    <3>2. Min(left) \in left
      BY <1>5, <3>1, MinIsLeast
    <3>3. DOMAIN one = {Min(left)} /\ one[Min(left)] = columns[r][Min(left)]
      BY <1>1, <3>2, OneColumnIsShard
    <3> DEFINE c0 == Min(left)
    <3> HIDE DEF one, c0
    <3>4. DOMAIN one = {c0} /\ one[c0] = columns[r][c0] /\ c0 \in DOMAIN columns[r]
      BY <3>2, <3>3 DEF c0
    <3> QED
      BY <1>3, <3>4 DEF Merged
  <2> HIDE DEF more, left
  <2>4. Operation(r)' = Operation(r) /\ Own(r, size)' = Own(r, size)
    BY <1>2, <2>1 DEF Operation, Own, Columns
  <2>5. Place(r)'
    BY <1>2, <2>1, <2>4 DEF RankInv, Place
  <2>6. HoldsPart(r)'
    BY <1>2, <2>4 DEF RankInv, HoldsPart, Cosets
  <2>7. KnowsAll(r)'
    BY <1>1, <2>1 DEF KnowsAll
  <2>8. WritesOwn(r)'
    BY <1>2, <1>3, <2>2, <2>3 DEF WritesOwn
  <2>9. StaysReduced(r)'
    BY <1>2, <2>1, <2>4 DEF RankInv, StaysReduced, Reduced, Fresh
  <2>10. FileIsPart(r)'
    BY <1>3, <2>2 DEF FileIsPart
  <2> QED
    BY <2>5, <2>6, <2>7, <2>8, <2>9, <2>10 DEF RankInv
<1>6. CASE /\ left = {}
           /\ file' = [file EXCEPT ![r].whole = TRUE]
           /\ Finish(r)
  <2>1. RankInv(r)'
    BY <1>4, <1>6
  <2>2. file'[r] = [file[r] EXCEPT !.whole = TRUE]
    BY <1>1, <1>6 DEF Types
  <2>3. /\ file'[r].columns = file[r].columns /\ file'[r].of = file[r].of
        /\ file'[r].world = file[r].world
    BY <1>1, <2>2 DEF Files
  <2>4. DOMAIN file[r].columns = DOMAIN columns[r]
    BY <1>3, <1>6
  <2>5. FileIsPart(r)'
    <3> SUFFICES ASSUME origin[r] \in Matrices
                 PROVE  /\ DOMAIN file[r].columns = Own(r, size)
                        /\ Cosets(file[r].columns, origin[r])
      BY <1>3, <2>3 DEF FileIsPart, Own, Columns, Cosets
    <3>1. DOMAIN columns[r] = Own(r, size) /\ Cosets(columns[r], origin[r])
      BY DEF RankInv, HoldsPart
    <3> QED
      BY <1>3, <2>4, <3>1 DEF Cosets
  <2> QED
    BY <2>1, <2>5
<1>7. CASE Finish(r) /\ UNCHANGED file
  BY <1>4, <1>7, FileFrame
<1>8. \/ left # {} /\ file' = [file EXCEPT ![r].columns = more] /\ UNCHANGED <<pc, at>>
      \/ left = {} /\ file' = [file EXCEPT ![r].whole = TRUE] /\ Finish(r)
      \/ Finish(r) /\ UNCHANGED file
  BY DEF WriteFile
<1> QED
  BY <1>5, <1>6, <1>7, <1>8

LEMMA RestoreKeepsRank ==
  ASSUME Types, NEW r \in World, RankInv(r), FileIsPart(r), Restore(r)
  PROVE  RankInv(r)'
<1>1. /\ r \in Ranks /\ Operation(r) = "restore"
      /\ file[r] \in Files /\ file[r].columns \in Shards
  BY PlacesTyped DEF Restore, In, Types, Files
<1>2. /\ at'[r] = at[r] /\ pc'[r] = "barrier" /\ plan' = plan /\ size' = size
      /\ columns'[r] = file[r].columns
      /\ owner'[r] = [c \in DOMAIN file[r].columns |-> r]
      /\ origin'[r] = IF file[r].whole /\ file[r].world = size THEN file[r].of ELSE NoColumns
  BY <1>1 DEF Restore, GoTo, Types
<1>3. Operation(r)' = Operation(r) /\ Own(r, size)' = Own(r, size)
  BY <1>2 DEF Operation, Own, Columns
<1>4. Place(r)'
  BY <1>1, <1>2, <1>3 DEF RankInv, Place
<1>5. HoldsPart(r)'
  <2> SUFFICES ASSUME origin'[r] \in Matrices
               PROVE  /\ DOMAIN file[r].columns = Own(r, size)
                      /\ Cosets(file[r].columns, origin'[r])
    BY <1>2, <1>3 DEF HoldsPart, Cosets
  <2>1. CASE file[r].whole /\ file[r].world = size
    BY <1>2, <2>1 DEF FileIsPart
  <2>2. CASE ~(file[r].whole /\ file[r].world = size)
    <3>1. Columns = {}
      BY <1>2, <2>2, MatrixIsShard, NoColumnsIsShard
    <3>2. DOMAIN file[r].columns = {}
      BY <1>1, <3>1, ShardsAre DEF ShardColumns
    <3> QED
      BY <3>1, <3>2 DEF Own, Cosets
  <2> QED
    BY <2>1, <2>2
<1>6. KnowsAll(r)' /\ WritesOwn(r)' /\ StaysReduced(r)'
  BY <1>1, <1>2, <1>3 DEF KnowsAll, WritesOwn, StaysReduced
<1> QED
  BY <1>4, <1>5, <1>6 DEF RankInv

----------------------------------------------------------------------------
(* All ranks together.                                                     *)

LEMMA TogetherWhole ==
  ASSUME Types, \A r \in World : RankInv(r), NEW m \in Matrices, HoldTogether(m)
  PROVE  DOMAIN Assembled = Columns /\ Cosets(Assembled, m)
<1>1. \A r \in World : DOMAIN columns[r] = Own(r, size) /\ Cosets(columns[r], m)
  BY DEF RankInv, HoldsPart, HoldTogether
<1>2. /\ DOMAIN Assembled = UNION {DOMAIN columns[r] : r \in World}
      /\ \A c \in DOMAIN Assembled : \E r \in World :
           c \in DOMAIN columns[r] /\ Assembled[c] = columns[r][c]
  BY AssembledIsShard
<1>3. ASSUME NEW c \in Columns
      PROVE  c % size \in World /\ c \in Own(c % size, size)
  <2>1. c \in Int /\ size \in Nat \ {0}
    BY WorldIsRanks DEF Types, Columns
  <2>2. c % size \in 0 .. size - 1
    BY <2>1
  <2> QED
    BY <2>2 DEF World, Own
<1>4. DOMAIN Assembled = Columns
  BY <1>1, <1>2, <1>3 DEF Own
<1>5. Cosets(Assembled, m)
  BY <1>1, <1>2 DEF Cosets
<1> QED
  BY <1>4, <1>5

(* Ranks that wait together go on.                                         *)
LEMMA BarrierKeepsRanks ==
  ASSUME Types, \A r \in World : RankInv(r), Barrier, NEW r \in World
  PROVE  RankInv(r)'
<1>1. /\ r \in Ranks /\ pc[r] = "barrier" /\ Place(r)
      /\ plan' = plan /\ size' = size /\ columns'[r] = columns[r] /\ origin'[r] = origin[r]
      /\ owner'[r] = owner[r] /\ cache'[r] = cache[r]
  BY PlacesTyped DEF Barrier, AllMeetIn, matrixVars, RankInv
<1>2. /\ pc'[r] = IF Operation(r) = "checkpoint" THEN "open" ELSE "start"
      /\ at'[r] = IF Operation(r) # "checkpoint" THEN at[r] + 1 ELSE at[r]
  BY <1>1 DEF Barrier
<1>3. Operation(r) \in {"barrier", "checkpoint", "restore"}
  BY <1>1 DEF Place
<1>4. CASE Operation(r) = "checkpoint"
  <2>1. Operation(r)' = Operation(r)
    BY <1>1, <1>2, <1>4 DEF Operation
  <2>2. Place(r)'
    BY <1>1, <1>2, <1>4, <2>1 DEF Place
  <2> QED
    BY <1>1, <1>2, <1>4, <2>2, RankGoesOn
<1>5. CASE Operation(r) # "checkpoint"
  <2>1. at'[r] = at[r] + 1 /\ pc'[r] = "start" /\ Operation(r) \notin {"none", "reduce"}
    BY <1>2, <1>3, <1>5
  <2> QED
    BY <1>1, <2>1, RankMovesOn
<1> QED
  BY <1>4, <1>5

LEMMA ExchangeKeepsRanks ==
  ASSUME Types, \A r \in World : RankInv(r), ExchangeColumns, NEW r \in World
  PROVE  RankInv(r)'
<1>1. /\ r \in Ranks /\ pc[r] = "exchange" /\ Place(r) /\ at'[r] = at[r]
      /\ plan' = plan /\ size' = size /\ columns'[r] = columns[r] /\ owner'[r] = owner[r]
  BY PlacesTyped DEF ExchangeColumns, AllMeetIn, RankInv
<1>2. Operation(r) = "reduce" /\ Operation(r)' = Operation(r)
  BY <1>1 DEF Place, Operation
<1>3. Own(r, size)' = Own(r, size)
  BY <1>1 DEF Own, Columns
<1>4. CASE /\ pc' = [q \in Ranks |-> IF q \in World THEN "threw" ELSE pc[q]]
           /\ UNCHANGED <<cache, origin>>
  <2>1. pc'[r] = "threw" /\ cache'[r] = cache[r] /\ origin'[r] = origin[r]
    BY <1>1, <1>4
  <2>2. Place(r)'
    BY <1>1, <1>2, <2>1 DEF Place
  <2> QED
    BY <1>1, <2>1, <2>2, RankGoesOn
<1>5. CASE /\ pc' = [q \in Ranks |-> IF q \in World THEN "resolve" ELSE pc[q]]
           /\ cache' = [q \in Ranks |-> IF q \in World THEN Assembled ELSE cache[q]]
           /\ origin' = IF \A p, q \in World : origin[p] = origin[q] THEN origin
                        ELSE [q \in Ranks |-> NoColumns]
  <2>1. pc'[r] = "resolve" /\ cache'[r] = Assembled
    BY <1>1, <1>5
  <2>2. Place(r)'
    BY <1>1, <1>2, <2>1 DEF Place
  <2>3. WritesOwn(r)' /\ StaysReduced(r)'
    BY <1>2, <2>1 DEF WritesOwn, StaysReduced
  <2>4. CASE \A p, q \in World : origin[p] = origin[q]
    <3>1. origin'[r] = origin[r] /\ HoldTogether(origin[r])
      BY <1>5, <2>4 DEF HoldTogether
    <3>2. HoldsPart(r)'
      BY <1>1, <1>3, <3>1 DEF RankInv, HoldsPart, Cosets
    <3>3. KnowsAll(r)'
      <4> SUFFICES ASSUME origin[r] \in Matrices
                   PROVE  DOMAIN Assembled = Columns /\ Cosets(Assembled, origin[r])
        BY <2>1, <3>1 DEF KnowsAll, Cosets, Columns
      <4> QED
        BY <3>1, TogetherWhole
    <3> QED
      BY <2>2, <2>3, <3>2, <3>3 DEF RankInv
  <2>5. CASE ~ \A p, q \in World : origin[p] = origin[q]
    <3>1. origin'[r] = NoColumns
      BY <1>1, <1>5, <2>5
    <3>2. CASE NoColumns \notin Matrices
      BY <2>2, <2>3, <3>1, <3>2 DEF RankInv, HoldsPart, KnowsAll
    <3>3. CASE NoColumns \in Matrices
      <4>1. Columns = {}
        BY <3>3, MatrixIsShard, NoColumnsIsShard
      <4>2. DOMAIN columns[r] = {} /\ DOMAIN Assembled = {}
        BY <1>1, <4>1, AssembledIsShard, ShardsAre DEF Types, ShardColumns
      <4>3. DOMAIN owner[r] = {}
        BY <1>1, <4>1 DEF Types, Owners
      <4>4. HoldsPart(r)'
        BY <1>1, <4>1, <4>2, <4>3 DEF HoldsPart, Own, Cosets, Columns
      <4>5. KnowsAll(r)'
        BY <2>1, <4>1, <4>2 DEF KnowsAll, Cosets, Columns
      <4> QED
        BY <2>2, <2>3, <4>4, <4>5 DEF RankInv
    <3> QED
      BY <3>2, <3>3
  <2> QED
    BY <2>4, <2>5
<1> QED
  BY <1>4, <1>5 DEF ExchangeColumns

LEMMA GatherKeepsRanks ==
  ASSUME Types, \A r \in World : RankInv(r), GatherRecords, NEW r \in World
  PROVE  RankInv(r)'
<1>1. /\ r \in Ranks /\ pc[r] = "gathering" /\ Place(r)
      /\ plan' = plan /\ size' = size /\ columns'[r] = columns[r] /\ origin'[r] = origin[r]
      /\ owner'[r] = owner[r] /\ pc'[r] = "start" /\ at'[r] = at[r] + 1
  BY PlacesTyped DEF GatherRecords, AllMeetIn, matrixVars, RankInv
<1>2. Operation(r) = "gather"
  BY <1>1 DEF Place
<1> QED
  BY <1>1, <1>2, RankMovesOn

(* A new job.                                                              *)
LEMMA NothingFresh ==
  ASSUME NEW program
  PROVE  ~Fresh(program, 1)
BY DEF Fresh

LEMMA CallAgainKeepsRanks ==
  ASSUME Types, \A r \in World : RankInv(r),
         NEW m \in Matrices, NEW p \in Plans, CallAgain(m, p), NEW r \in World
  PROVE  RankInv(r)'
<1>1. /\ r \in Ranks /\ at'[r] = 1 /\ pc'[r] = "start" /\ size' = size /\ plan' = p
      /\ p \in Seq(STRING) /\ columns'[r] = columns[r] /\ origin'[r] = origin[r]
      /\ owner'[r] = owner[r]
  BY PlacesTyped, ShardsAssumption DEF CallAgain, Launch, matrixVars
<1>2. Place(r)'
  BY <1>1, LenProperties DEF Place
<1>3. HoldsPart(r)'
  <2>1. Own(r, size)' = Own(r, size)
    BY <1>1 DEF Own, Columns
  <2> QED
    BY <1>1, <2>1 DEF RankInv, HoldsPart, Cosets
<1>4. KnowsAll(r)' /\ WritesOwn(r)'
  BY <1>1 DEF KnowsAll, WritesOwn
<1>5. StaysReduced(r)'
  BY <1>1, NothingFresh DEF StaysReduced, Fresh
<1> QED
  BY <1>2, <1>3, <1>4, <1>5 DEF RankInv

LEMMA NewRank ==
  ASSUME NEW r, Place(r), pc[r] = "start", at[r] = 1, columns[r] = NoColumns,
         owner[r] = NoColumns, origin[r] = NoColumns
  PROVE  RankInv(r)
<1>1. KnowsAll(r) /\ WritesOwn(r)
  BY DEF KnowsAll, WritesOwn
<1>2. HoldsPart(r)
  <2> SUFFICES ASSUME NoColumns \in Matrices
               PROVE  HoldsPart(r)
    BY DEF HoldsPart
  <2>1. Columns = {} /\ DOMAIN NoColumns = {}
    BY MatrixIsShard, NoColumnsIsShard
  <2> QED
    BY <2>1 DEF HoldsPart, Own, Cosets
<1>3. StaysReduced(r)
  BY NothingFresh DEF StaysReduced
<1> QED
  BY <1>1, <1>2, <1>3 DEF RankInv

LEMMA RestartKeepsRanks ==
  ASSUME NEW n \in 1 .. MaxRanks, NEW m \in Matrices, NEW p \in Plans, Restart(n, m, p),
         NEW r \in World'
  PROVE  RankInv(r)'
<1>1. size' = n /\ plan' = p /\ p \in Seq(STRING)
  BY ShardsAssumption DEF Restart, Launch
<1>2. r \in Ranks
  BY <1>1, ShardsAssumption DEF World, Ranks
<1>3. /\ at'[r] = 1 /\ pc'[r] = "start" /\ columns'[r] = NoColumns
      /\ owner'[r] = NoColumns /\ origin'[r] = NoColumns
  BY <1>2 DEF Restart, Launch
<1>4. Place(r)'
  BY <1>1, <1>3, LenProperties DEF Place
<1>5. KnowsAll(r)' /\ WritesOwn(r)'
  BY <1>3 DEF KnowsAll, WritesOwn
<1>6. HoldsPart(r)'
  <2> SUFFICES ASSUME NoColumns \in Matrices
               PROVE  HoldsPart(r)'
    BY <1>3 DEF HoldsPart
  <2>1. Columns = {} /\ DOMAIN NoColumns = {}
    BY MatrixIsShard, NoColumnsIsShard
  <2> QED
    BY <1>3, <2>1 DEF HoldsPart, Own, Cosets, Columns
<1>7. StaysReduced(r)'
  BY <1>3, NothingFresh DEF StaysReduced, Fresh
<1> QED
  BY <1>4, <1>5, <1>6, <1>7 DEF RankInv

----------------------------------------------------------------------------
(* The invariant holds.                                                    *)

LEMMA ShardInvInitially == Init => ShardInv
<1> SUFFICES ASSUME Init PROVE ShardInv
  OBVIOUS
<1>1. Types
  BY TypesHold
<1>2. \A r \in Ranks : FileIsPart(r)
  BY DEF Init, NoFile, FileIsPart
<1>3. ASSUME NEW r \in World
      PROVE  RankInv(r)
  <2>1. /\ r \in Ranks /\ at[r] = 1 /\ pc[r] = "start" /\ columns[r] = NoColumns
        /\ owner[r] = NoColumns /\ origin[r] = NoColumns /\ plan = <<>>
    BY <1>1, PlacesTyped DEF Init
  <2>2. Place(r)
    BY <2>1, EmptySeq DEF Place
  <2> QED
    BY <2>1, <2>2, NewRank
<1> QED
  BY <1>1, <1>2, <1>3 DEF ShardInv, RanksInv

(* A step of one rank leaves the others alone.                             *)
LEMMA StepKeepsOthers ==
  ASSUME Types, NEW r \in Ranks, Step(r)
  PROVE  /\ r \in World /\ size' = size /\ plan' = plan
         /\ \A q \in Ranks : q # r => SameRank(q)
<1> USE DEF matrixVars, SameRank, In, GoTo, Finish, Types
<1>1. CASE DistributeColumns(r)
  BY <1>1 DEF DistributeColumns
<1>2. CASE EnterBarrier(r)
  BY <1>2 DEF EnterBarrier
<1>3. CASE ReduceLocal(r)
  BY <1>3 DEF ReduceLocal
<1>4. CASE SynchronizeGlobals(r)
  BY <1>4 DEF SynchronizeGlobals
<1>5. CASE ResolveRemoteDependencies(r)
  BY <1>5 DEF ResolveRemoteDependencies
<1>6. CASE CollectRecords(r)
  BY <1>6 DEF CollectRecords
<1>7. CASE ReadColumns(r)
  BY <1>7 DEF ReadColumns
<1>8. CASE BeginCheckpoint(r)
  BY <1>8 DEF BeginCheckpoint
<1>9. CASE OpenFile(r)
  BY <1>9 DEF OpenFile
<1>10. CASE WriteFile(r)
  <2>1. \A q \in Ranks : q # r => file'[q] = file[q]
    BY <1>10 DEF WriteFile
  <2>2. \A q \in Ranks : q # r => at'[q] = at[q] /\ pc'[q] = pc[q]
    BY <1>10 DEF WriteFile
  <2> QED
    BY <1>10, <2>1, <2>2 DEF WriteFile
<1>11. CASE Restore(r)
  BY <1>11 DEF Restore
<1> QED
  BY <1>1, <1>2, <1>3, <1>4, <1>5, <1>6, <1>7, <1>8, <1>9, <1>10, <1>11 DEF Step

LEMMA StepKeepsRank ==
  ASSUME Types, NEW r \in World, RankInv(r), FileIsPart(r), Step(r)
  PROVE  RankInv(r)' /\ FileIsPart(r)'
<1>0. r \in Ranks /\ Place(r)
  BY PlacesTyped DEF RankInv
<1>1. CASE DistributeColumns(r)
  BY <1>1, DistributeKeepsRank, FileFrame DEF DistributeColumns
<1>2. CASE EnterBarrier(r) \/ SynchronizeGlobals(r) \/ CollectRecords(r) \/ BeginCheckpoint(r)
  <2>1. /\ size' = size /\ plan' = plan /\ at'[r] = at[r] /\ columns'[r] = columns[r]
        /\ owner'[r] = owner[r] /\ cache'[r] = cache[r] /\ origin'[r] = origin[r]
        /\ file' = file
    BY <1>2 DEF EnterBarrier, SynchronizeGlobals, CollectRecords, BeginCheckpoint,
       matrixVars, GoTo
  <2>2. Operation(r)' = Operation(r)
    BY <2>1 DEF Operation
  <2>3. \/ pc'[r] = "barrier" /\ Operation(r) \in {"barrier", "checkpoint"}
        \/ pc'[r] \in {"exchange", "threw"} /\ Operation(r) = "reduce"
        \/ pc'[r] = "gathering" /\ Operation(r) = "gather"
    BY <1>0, <1>2 DEF EnterBarrier, SynchronizeGlobals, CollectRecords, BeginCheckpoint,
       GoTo, In, Types
  <2>4. Place(r)'
    BY <1>0, <2>1, <2>2, <2>3 DEF Place
  <2>5. RankInv(r)'
    BY <2>1, <2>3, <2>4, RankGoesOn
  <2> QED
    BY <2>1, <2>5, FileFrame
<1>3. CASE ReduceLocal(r)
  BY <1>3, ReduceLocalKeepsRank, FileFrame DEF ReduceLocal
<1>4. CASE ResolveRemoteDependencies(r)
  BY <1>4, ResolveKeepsRank, FileFrame DEF ResolveRemoteDependencies
<1>5. CASE ReadColumns(r)
  <2>1. /\ size' = size /\ plan' = plan /\ columns'[r] = columns[r]
        /\ owner'[r] = owner[r] /\ origin'[r] = origin[r] /\ file' = file
        /\ Operation(r) = "read"
    BY <1>5 DEF ReadColumns, matrixVars, In
  <2>2. at'[r] = at[r] + 1 /\ pc'[r] = "start"
    BY <1>0, <1>5 DEF ReadColumns, Finish, Types
  <2>3. RankInv(r)'
    BY <2>1, <2>2, RankMovesOn
  <2> QED
    BY <2>1, <2>3, FileFrame
<1>6. CASE OpenFile(r)
  BY <1>6, OpenFileKeepsRank
<1>7. CASE WriteFile(r)
  BY <1>7, WriteFileKeepsRank
<1>8. CASE Restore(r)
  BY <1>8, RestoreKeepsRank, FileFrame DEF Restore
<1> QED
  BY <1>1, <1>2, <1>3, <1>4, <1>5, <1>6, <1>7, <1>8 DEF Step

LEMMA ShardInvKept ==
  ASSUME ShardInv, [Next]_vars
  PROVE  ShardInv'
<1>0. /\ Types /\ Types' /\ (\A r \in World : RankInv(r)) /\ (\A r \in Ranks : FileIsPart(r))
      /\ World \subseteq Ranks
  BY TypesKept, WorldIsRanks DEF ShardInv, RanksInv, Types
<1> SUFFICES RanksInv'
  BY <1>0 DEF ShardInv
<1>1. ASSUME World' = World, \A r \in World : RankInv(r)', \A r \in Ranks : FileIsPart(r)'
      PROVE  RanksInv'
  <2>1. (\A r \in World : RankInv(r))'
    BY <1>1
  <2>2. (\A r \in Ranks : FileIsPart(r))'
    BY <1>1 DEF Ranks
  <2> QED
    BY <2>1, <2>2 DEF RanksInv
<1>2. ASSUME NEW m \in Matrices, NEW p \in Plans, CallAgain(m, p)
      PROVE  RanksInv'
  <2>1. World' = World /\ file' = file
    BY <1>2 DEF CallAgain, Launch, World
  <2> QED
    BY <1>0, <1>2, <1>1, <2>1, CallAgainKeepsRanks, FileFrame
<1>3. ASSUME NEW n \in 1 .. MaxRanks, NEW m \in Matrices, NEW p \in Plans, Restart(n, m, p)
      PROVE  RanksInv'
  <2>1. file' = file
    BY <1>3 DEF Restart
  <2>2. (\A r \in World : RankInv(r))'
    BY <1>3, RestartKeepsRanks
  <2>3. (\A r \in Ranks : FileIsPart(r))'
    BY <1>0, <2>1, FileFrame DEF Ranks
  <2> QED
    BY <2>2, <2>3 DEF RanksInv
<1>4. ASSUME NEW r \in Ranks, Step(r)
      PROVE  RanksInv'
  <2>1. /\ r \in World /\ size' = size /\ plan' = plan
        /\ \A q \in Ranks : q # r => SameRank(q)
    BY <1>0, <1>4, StepKeepsOthers
  <2>2. World' = World
    BY <2>1 DEF World
  <2>3. RankInv(r)' /\ FileIsPart(r)'
    BY <1>0, <1>4, <2>1, StepKeepsRank
  <2>4. ASSUME NEW q \in World, q # r
        PROVE  RankInv(q)'
    BY <1>0, <2>1, <2>4, RankInvFrame
  <2>5. ASSUME NEW q \in Ranks, q # r
        PROVE  FileIsPart(q)'
    BY <1>0, <2>1, <2>5, FileFrame DEF SameRank
  <2> QED
    BY <1>0, <1>1, <2>2, <2>3, <2>4, <2>5
<1>5. CASE Meet
  <2>1. World' = World /\ file' = file
    BY <1>5 DEF Meet, Barrier, ExchangeColumns, GatherRecords, World
  <2>2. \A r \in World : RankInv(r)'
    BY <1>0, <1>5, BarrierKeepsRanks, ExchangeKeepsRanks, GatherKeepsRanks DEF Meet
  <2>3. \A r \in Ranks : FileIsPart(r)'
    BY <1>0, <2>1, FileFrame
  <2> QED
    BY <1>1, <2>1, <2>2, <2>3
<1>6. CASE UNCHANGED vars
  <2>1. /\ World' = World /\ file' = file /\ size' = size /\ plan' = plan
        /\ \A r \in Ranks : SameRank(r)
    BY <1>6 DEF vars, matrixVars, World, SameRank
  <2>2. \A r \in World : RankInv(r)'
    BY <1>0, <2>1, RankInvFrame
  <2>3. \A r \in Ranks : FileIsPart(r)'
    BY <1>0, <2>1, FileFrame
  <2> QED
    BY <1>1, <2>1, <2>2, <2>3
<1>7. CASE NoMoreJobs
  BY <1>6, <1>7 DEF NoMoreJobs
<1> QED
  BY <1>2, <1>3, <1>4, <1>5, <1>6, <1>7 DEF Next

(* Whatever the jobs do and whenever they die, every rank that knows whose *)
(* columns it has holds just its part of that matrix, up to additions from *)
(* left to right; so does every whole checkpoint file; and a rank has the  *)
(* pivots of the persistence pairing from a reduction until other columns  *)
(* come in.                                                                *)
THEOREM ShardInvariant == Spec => []ShardInv
<1>1. Init => ShardInv
  BY ShardInvInitially
<1>2. ShardInv /\ [Next]_vars => ShardInv'
  BY ShardInvKept
<1> QED
  BY <1>1, <1>2, PTL DEF Spec

(* The shards together are the matrix up to additions from left to right,  *)
(* whatever stage of synchronize_globals, resolve_remote_dependencies,     *)
(* checkpoint or restore each rank has reached.                            *)
THEOREM ShardsSpan == Spec => []ShardsSpanTheMatrix
<1>1. ShardInv => ShardsSpanTheMatrix
  <2> SUFFICES ASSUME ShardInv, NEW m \in Matrices, HoldTogether(m)
               PROVE  /\ DOMAIN Assembled = Columns
                      /\ \A c \in Columns : AddColumn(m[c], Assembled[c]) \in Spans[m][c]
    BY DEF ShardsSpanTheMatrix
  <2>1. DOMAIN Assembled = Columns /\ Cosets(Assembled, m)
    BY TogetherWhole DEF ShardInv, RanksInv
  <2>2. \A c \in Columns : Spans[m][c] = PrefixSpan(m, c)
    BY DEF Spans
  <2> QED
    BY <2>1, <2>2 DEF Cosets
<1> QED
  BY <1>1, ShardInvariant, PTL

----------------------------------------------------------------------------
(* The ranks keep together.                                                *)

LEMMA StepMoves ==
  ASSUME Types, NEW r \in World, Place(r), Step(r)
  PROVE  /\ Operation(r) # "none"
         /\ \/ at'[r] = at[r] /\ (pc[r] \in Past <=> pc'[r] \in Past)
            \/ /\ at'[r] = at[r] + 1 /\ pc'[r] = "start"
               /\ pc[r] \in Past \/ (pc[r] = "start" /\ ~Meeting(Operation(r)))
         /\ pc'[r] = "gathering" => CollectRecords(r)
         /\ at'[r] = at[r] \/ ReadColumns(r) \/ Operation(r) \notin {"read", "gather"}
<1> USE DEF In, GoTo, Finish, Past, Meeting
<1>0. /\ r \in Ranks /\ DOMAIN at = Ranks /\ DOMAIN pc = Ranks
      /\ \A place : GoTo(r, place) => at'[r] = at[r] /\ pc'[r] = place
      /\ Finish(r) => at'[r] = at[r] + 1 /\ pc'[r] = "start"
  BY PlacesTyped DEF Types
<1>1. CASE DistributeColumns(r)
  BY <1>0, <1>1 DEF DistributeColumns
<1>2. CASE EnterBarrier(r)
  BY <1>0, <1>2 DEF EnterBarrier
<1>3. CASE ReduceLocal(r)
  BY <1>0, <1>3 DEF ReduceLocal
<1>4. CASE SynchronizeGlobals(r)
  BY <1>0, <1>4 DEF SynchronizeGlobals
<1>5. CASE ResolveRemoteDependencies(r)
  BY <1>0, <1>5 DEF ResolveRemoteDependencies
<1>6. CASE CollectRecords(r)
  BY <1>0, <1>6 DEF CollectRecords
<1>7. CASE ReadColumns(r)
  BY <1>0, <1>7 DEF ReadColumns
<1>8. CASE BeginCheckpoint(r)
  BY <1>0, <1>8 DEF BeginCheckpoint
<1>9. CASE OpenFile(r)
  BY <1>0, <1>9 DEF OpenFile
<1>10. CASE WriteFile(r)
  <2>1. pc[r] = "write" /\ Operation(r) = "checkpoint"
    BY <1>10 DEF WriteFile
  <2>2. \/ at'[r] = at[r] /\ pc'[r] = pc[r]
        \/ at'[r] = at[r] + 1 /\ pc'[r] = "start"
    BY <1>0, <1>10 DEF WriteFile
  <2> QED
    BY <2>1, <2>2
<1>11. CASE Restore(r)
  BY <1>0, <1>11 DEF Restore
<1> QED
  BY <1>1, <1>2, <1>3, <1>4, <1>5, <1>6, <1>7, <1>8, <1>9, <1>10, <1>11 DEF Step

LEMMA StepPasses ==
  ASSUME Types, NEW r \in World, Place(r), Step(r),
         NEW j \in 1 .. Len(plan), Meeting(plan[j])
  PROVE  Passed(r, j)' <=> Passed(r, j)
<1>1. /\ Operation(r) # "none"
      /\ \/ at'[r] = at[r] /\ (pc[r] \in Past <=> pc'[r] \in Past)
         \/ /\ at'[r] = at[r] + 1 /\ pc'[r] = "start"
            /\ pc[r] \in Past \/ (pc[r] = "start" /\ ~Meeting(Operation(r)))
  BY StepMoves
<1>2. at[r] \in Nat /\ plan[at[r]] = Operation(r) /\ Len(plan) \in Nat
  BY <1>1, OperationIs
<1>3. CASE at'[r] = at[r] /\ (pc[r] \in Past <=> pc'[r] \in Past)
  BY <1>3 DEF Passed, Past
<1>4. CASE at'[r] = at[r] + 1 /\ pc'[r] = "start" /\ pc[r] \in Past
  <2>1. j < at[r] + 1 <=> (j < at[r] \/ j = at[r])
    BY <1>2
  <2> QED
    BY <1>4, <2>1 DEF Passed, Past
<1>5. CASE at'[r] = at[r] + 1 /\ pc'[r] = "start" /\ pc[r] = "start" /\ ~Meeting(Operation(r))
  <2>1. j < at[r] + 1 <=> (j < at[r] \/ j = at[r])
    BY <1>2
  <2>2. j # at[r]
    BY <1>2, <1>5
  <2> QED
    BY <1>5, <2>1, <2>2 DEF Passed, Past
<1> QED
  BY <1>1, <1>3, <1>4, <1>5

(* Ranks that wait in a collective operation wait in the same one.         *)
LEMMA SameMeeting ==
  ASSUME Types, \A r \in World : Place(r), Together,
         NEW place \in {"barrier", "exchange", "gathering"}, AllMeetIn(place)
  PROVE  /\ \A r \in World : /\ at[r] \in 1 .. Len(plan) /\ pc[r] = place
                             /\ plan[at[r]] = Operation(r) /\ Meeting(Operation(r))
         /\ \A p, q \in World : at[p] = at[q]
<1>1. ASSUME NEW r \in World
      PROVE  /\ at[r] \in 1 .. Len(plan) /\ pc[r] = place
             /\ plan[at[r]] = Operation(r) /\ Meeting(Operation(r))
  <2>1. pc[r] = place /\ Place(r)
    BY DEF AllMeetIn
  <2>2. Meeting(Operation(r)) /\ Operation(r) # "none"
    BY <2>1 DEF Place, Meeting
  <2> QED
    BY <2>1, <2>2, OperationIs
<1>2. ASSUME NEW p \in World, NEW q \in World, at[p] < at[q]
      PROVE  FALSE
  <2>1. Passed(q, at[p])
    BY <1>2 DEF Passed
  <2>2. Passed(p, at[p])
    BY <1>1, <2>1 DEF Together
  <2> QED
    BY <1>1, <2>2 DEF Passed, Past
<1>3. ASSUME NEW p \in World, NEW q \in World
      PROVE  at[p] = at[q]
  <2>1. at[p] \in Nat /\ at[q] \in Nat
    BY PlacesTyped
  <2> QED
    BY <1>2, <2>1
<1> QED
  BY <1>1, <1>3

LEMMA TogetherKept ==
  ASSUME Types, \A r \in World : Place(r), Together, [Next]_vars
  PROVE  Together'
<1>1. ASSUME plan' = plan, World' = World,
             \A r \in World, j \in 1 .. Len(plan) :
               Meeting(plan[j]) => (Passed(r, j)' <=> Passed(r, j))
      PROVE  Together'
  BY <1>1 DEF Together, Meeting
<1>2. ASSUME NEW n, NEW m, NEW p \in Plans, Launch(n, m, p), n \in 1 .. MaxRanks
      PROVE  Together'
  <2>1. ASSUME NEW r \in World', NEW j \in Nat \ {0}
        PROVE  ~Passed(r, j)'
    <3>1. r \in Ranks
      BY <1>2, ShardsAssumption DEF Launch, World, Ranks
    <3>2. at'[r] = 1 /\ pc'[r] = "start"
      BY <1>2, <3>1 DEF Launch
    <3>3. ~(j < 1)
      OBVIOUS
    <3> QED
      BY <3>2, <3>3 DEF Passed, Past
  <2>2. \A j \in 1 .. Len(plan') : j \in Nat \ {0}
    BY <1>2, ShardsAssumption, LenProperties DEF Launch
  <2> QED
    BY <2>1, <2>2 DEF Together
<1>3. ASSUME NEW m \in Matrices, NEW p \in Plans, CallAgain(m, p)
      PROVE  Together'
  <2>1. size \in 1 .. MaxRanks
    BY DEF Types
  <2> QED
    BY <1>2, <1>3, <2>1 DEF CallAgain
<1>4. ASSUME NEW n \in 1 .. MaxRanks, NEW m \in Matrices, NEW p \in Plans, Restart(n, m, p)
      PROVE  Together'
  BY <1>2, <1>4 DEF Restart
<1>5. ASSUME NEW r \in Ranks, Step(r)
      PROVE  Together'
  <2>1. /\ r \in World /\ size' = size /\ plan' = plan
        /\ \A q \in Ranks : q # r => SameRank(q)
    BY <1>5, StepKeepsOthers
  <2>2. ASSUME NEW q \in World, NEW j \in 1 .. Len(plan), Meeting(plan[j])
        PROVE  Passed(q, j)' <=> Passed(q, j)
    <3>1. CASE q = r
      BY <1>5, <2>2, <3>1, StepPasses
    <3>2. CASE q # r
      BY <2>1, <3>2, PlacesTyped DEF SameRank, Passed, Past
    <3> QED
      BY <3>1, <3>2
  <2> QED
    BY <1>1, <2>1, <2>2 DEF World
<1>6. ASSUME NEW place \in {"barrier", "exchange", "gathering"}, AllMeetIn(place),
             plan' = plan, World' = World,
             \/ \A r \in World : \/ at'[r] = at[r] /\ pc'[r] \in Past
                                 \/ at'[r] = at[r] + 1 /\ pc'[r] = "start"
             \/ \A r \in World : at'[r] = at[r] /\ pc'[r] \notin Past
      PROVE  Together'
  <2>1. /\ \A r \in World : /\ at[r] \in 1 .. Len(plan) /\ pc[r] = place
                            /\ plan[at[r]] = Operation(r) /\ Meeting(Operation(r))
        /\ \A p, q \in World : at[p] = at[q]
    BY <1>6, SameMeeting
  <2>2. CASE \A r \in World : \/ at'[r] = at[r] /\ pc'[r] \in Past
                              \/ at'[r] = at[r] + 1 /\ pc'[r] = "start"
    <3>1. ASSUME NEW r \in World, NEW j \in 1 .. Len(plan)
          PROVE  Passed(r, j)' <=> (j < at[r] \/ j = at[r])
      <4>1. at[r] \in Nat /\ j \in Nat
        BY PlacesTyped
      <4>2. j < at[r] + 1 <=> (j < at[r] \/ j = at[r])
        BY <4>1
      <4> QED
        BY <2>2, <4>2 DEF Passed, Past
    <3> QED
      BY <1>6, <2>1, <3>1 DEF Together
  <2>3. CASE \A r \in World : at'[r] = at[r] /\ pc'[r] \notin Past
    <3>1. ASSUME NEW r \in World, NEW j \in 1 .. Len(plan)
          PROVE  Passed(r, j)' <=> j < at[r]
      BY <2>3 DEF Passed, Past
    <3> QED
      BY <1>6, <2>1, <3>1 DEF Together
  <2> QED
    BY <1>6, <2>2, <2>3
<1>7. CASE Barrier
  <2>1. AllMeetIn("barrier") /\ plan' = plan /\ World' = World
    BY <1>7 DEF Barrier, World
  <2>2. \A r \in World : \/ at'[r] = at[r] /\ pc'[r] \in Past
                         \/ at'[r] = at[r] + 1 /\ pc'[r] = "start"
    BY <1>7, PlacesTyped DEF Barrier, Past
  <2> QED
    BY <1>6, <2>1, <2>2
<1>8. CASE ExchangeColumns
  <2>1. AllMeetIn("exchange") /\ plan' = plan /\ World' = World
    BY <1>8 DEF ExchangeColumns, World
  <2>2. \/ \A r \in World : at'[r] = at[r] /\ pc'[r] \in Past
        \/ \A r \in World : at'[r] = at[r] /\ pc'[r] \notin Past
    BY <1>8, PlacesTyped DEF ExchangeColumns, Past
  <2> QED
    BY <1>6, <2>1, <2>2
<1>9. CASE GatherRecords
  <2>1. AllMeetIn("gathering") /\ plan' = plan /\ World' = World
    BY <1>9 DEF GatherRecords, World
  <2>2. \A r \in World : at'[r] = at[r] + 1 /\ pc'[r] = "start"
    BY <1>9, PlacesTyped DEF GatherRecords
  <2> QED
    BY <1>6, <2>1, <2>2
<1>10. CASE UNCHANGED vars
  BY <1>10 DEF vars, Together, Passed, World, Meeting
<1>11. CASE NoMoreJobs
  BY <1>10, <1>11 DEF NoMoreJobs
<1> QED
  BY <1>3, <1>4, <1>5, <1>7, <1>8, <1>9, <1>10, <1>11 DEF Next, Meet

----------------------------------------------------------------------------
(* The records.                                                            *)

LEMMA ExpectedIs ==
  ASSUME NEW m \in Matrices, NEW c \in Columns
  PROVE  Expected[m][c] = IF PersistencePivot(m, c) = NoPivot THEN <<c, NoDeath>>
                          ELSE <<PersistencePivot(m, c), c>>
BY DEF Expected

(* A reduced rank records its part of the pairing.                         *)
LEMMA ReducedRecords ==
  ASSUME Types, NEW r \in World, RankInv(r), ReportsReduced(plan),
         Operation(r) \in {"gather", "read"}, pc[r] = "start", origin[r] \in Matrices
  PROVE  /\ DOMAIN columns[r] = Own(r, size)
         /\ {Record(c, GetBoundary(r, c)) : c \in Own(r, size)}
              = RecordsOf(origin[r], Own(r, size))
<1>1. r \in Ranks /\ columns[r] \in Shards
  BY PlacesTyped DEF Types
<1>2. /\ DOMAIN columns[r] = Own(r, size)
      /\ {c \in DOMAIN owner[r] : owner[r][c] = r} = Own(r, size)
  BY DEF RankInv, HoldsPart
<1>3. Fresh(plan, at[r])
  <2>1. at[r] \in 1 .. Len(plan) /\ plan[at[r]] \in {"gather", "read"}
    BY OperationIs
  <2> QED
    BY <2>1 DEF ReportsReduced
<1>4. Reduced(columns[r], origin[r])
  BY <1>3 DEF RankInv, StaysReduced
<1>5. ASSUME NEW c \in Own(r, size)
      PROVE  Record(c, GetBoundary(r, c)) = Expected[origin[r]][c]
  <2>1. GetBoundary(r, c) = columns[r][c]
    BY <1>2 DEF GetBoundary
  <2>2. c \in Columns /\ columns[r][c] \in SUBSET Rows
    BY <1>1, <1>2, ShardsAre DEF ShardColumns
  <2>3. Low(columns[r][c]) = PersistencePivot(origin[r], c)
    BY <1>2, <1>4 DEF Reduced
  <2>4. columns[r][c] = {} <=> PersistencePivot(origin[r], c) = NoPivot
    BY <2>2, <2>3, LowOfRows
  <2> QED
    BY <2>1, <2>2, <2>3, <2>4, ExpectedIs DEF Record
<1> QED
  BY <1>2, <1>5 DEF RecordsOf

LEMMA RecordsOfAll ==
  ASSUME Types, NEW m
  PROVE  UNION {RecordsOf(m, Own(r, size)) : r \in World} = RecordsOf(m, Columns)
<1>1. ASSUME NEW c \in Columns
      PROVE  c % size \in World /\ c \in Own(c % size, size)
  <2>1. c \in Int /\ size \in Nat \ {0}
    BY WorldIsRanks DEF Types, Columns
  <2>2. c % size \in 0 .. size - 1
    BY <2>1
  <2> QED
    BY <2>2 DEF World, Own
<1>2. \A r \in World : Own(r, size) \subseteq Columns
  BY DEF Own
<1> QED
  BY <1>1, <1>2 DEF RecordsOf

LEMMA LastOperation ==
  ASSUME Types, NEW r \in World, Operation(r) # "none", ~(at[r] + 1 <= Len(plan))
  PROVE  at[r] = Len(plan) /\ ~Done(r) /\ \A op : LastIs(op) => Operation(r) = op
<1>1. /\ at[r] \in 1 .. Len(plan) /\ plan[at[r]] = Operation(r)
      /\ at[r] \in Nat \ {0} /\ Len(plan) \in Nat
  BY OperationIs
<1>2. at[r] = Len(plan)
  BY <1>1
<1>3. ~Done(r)
  BY <1>1 DEF Done
<1> QED
  BY <1>1, <1>2, <1>3 DEF LastIs, Last

LEMMA NotDone ==
  ASSUME Types, NEW r \in World, Operation(r) # "none"
  PROVE  ~Done(r)
<1>1. at[r] \in 1 .. Len(plan) /\ at[r] \in Nat \ {0} /\ Len(plan) \in Nat
  BY OperationIs
<1> QED
  BY <1>1 DEF Done

(* Nobody is done with a program that ends in a gather before all are.     *)
LEMMA DoneTogether ==
  ASSUME Types, \A r \in World : Place(r), Together, LastIs("gather"),
         NEW r \in World, Done(r), NEW q \in World
  PROVE  Operation(q) = "none"
<1>1. Len(plan) \in Nat /\ at[r] \in Nat /\ at[q] \in Nat
  BY PlacesTyped, LenProperties DEF Types
<1>2. plan # <<>> /\ plan[Len(plan)] = "gather"
  BY DEF LastIs, Last
<1>3. Len(plan) \in 1 .. Len(plan)
  BY <1>1, <1>2, EmptySeq DEF Types
<1>4. Passed(r, Len(plan))
  BY <1>1 DEF Done, Passed
<1>5. Passed(q, Len(plan))
  BY <1>2, <1>3, <1>4 DEF Together, Meeting
<1>6. CASE Len(plan) < at[q]
  BY <1>1, <1>6 DEF Operation
<1>7. CASE Len(plan) = at[q] /\ pc[q] \in Past
  <2>1. Operation(q) = "gather"
    BY <1>2, <1>3, <1>7 DEF Operation
  <2> QED
    BY <1>7, <2>1 DEF Place, Past
<1> QED
  BY <1>5, <1>6, <1>7 DEF Passed

LEMMA StepKeepsReports ==
  ASSUME ShardInv, ReportInv, NEW p \in Ranks, Step(p), NEW r \in World
  PROVE  ReportsOwn(r)' /\ ReportsAll(r)'
<1>1. /\ Types /\ (\A q \in World : RankInv(q) /\ Place(q)) /\ Together
      /\ ReportsReduced(plan) /\ ReportsOwn(r) /\ ReportsAll(r) /\ r \in Ranks
  BY PlacesTyped DEF ShardInv, RanksInv, RankInv, ReportInv
<1>2. /\ p \in World /\ size' = size /\ plan' = plan
      /\ \A q \in Ranks : q # p => SameRank(q)
  BY <1>1, StepKeepsOthers
<1>3. /\ Operation(p) # "none"
      /\ at'[p] = at[p] \/ at'[p] = at[p] + 1
      /\ pc'[p] = "gathering" => CollectRecords(p)
      /\ at'[p] = at[p] \/ ReadColumns(p) \/ Operation(p) \notin {"read", "gather"}
  BY <1>1, <1>2, StepMoves
<1>4. /\ RecordsOf(origin[r], Own(r, size))' = RecordsOf(origin'[r], Own(r, size))
      /\ \A op : LastIs(op)' <=> LastIs(op)
  BY <1>2 DEF RecordsOf, Expected, Own, Columns, LastIs
<1>5. CASE r # p
  <2>1. SameRank(r)
    BY <1>1, <1>2, <1>5
  <2>2. ReportsOwn(r)'
    BY <1>1, <1>2, <1>4, <2>1 DEF ReportsOwn, SameRank, Done
  <2>3. ReportsAll(r)'
    <3>1. Done(r)' => Done(r)
      BY <1>2, <2>1 DEF Done, SameRank
    <3>2. (Done(r)' /\ LastIs("gather")) => FALSE
      BY <1>1, <1>2, <1>3, <3>1, DoneTogether
    <3> QED
      BY <1>4, <3>2 DEF ReportsAll
  <2> QED
    BY <2>2, <2>3
<1>6. CASE r = p
  <2>1. Done(r)' => \A op : LastIs(op) => Operation(r) = op /\ at'[r] # at[r]
    <3>1. at[r] \in Nat \ {0} /\ Len(plan) \in Nat /\ ~Done(r)
      BY <1>1, <1>3, <1>6, OperationIs, NotDone
    <3>2. Done(r)' => ~(at[r] + 1 <= Len(plan)) /\ at'[r] # at[r]
      BY <1>2, <1>3, <1>6, <3>1 DEF Done
    <3> QED
      BY <1>1, <1>3, <1>6, <3>2, LastOperation
  <2>2. ReportsAll(r)'
    <3>1. (Done(r)' /\ LastIs("gather")) => FALSE
      <4>1. ReadColumns(p) => Operation(p) = "read"
        BY DEF ReadColumns, In
      <4> QED
        BY <1>3, <1>6, <2>1, <4>1
    <3> QED
      BY <1>4, <3>1 DEF ReportsAll
  <2>3. CASE CollectRecords(p)
    <3>1. /\ Operation(r) = "gather" /\ pc[r] = "start" /\ origin'[r] = origin[r]
          /\ records'[r] = {Record(c, GetBoundary(r, c)) : c \in Own(r, size)}
      BY <1>1, <1>6, <2>3 DEF CollectRecords, In, matrixVars, Own, Types
    <3> QED
      BY <1>1, <1>4, <2>2, <3>1, ReducedRecords DEF ReportsOwn
  <2>4. CASE ReadColumns(p)
    <3>1. /\ Operation(r) = "read" /\ pc[r] = "start" /\ origin'[r] = origin[r]
          /\ records'[r] = {Record(c, GetBoundary(r, c)) : c \in DOMAIN columns[r]}
      BY <1>1, <1>6, <2>4 DEF ReadColumns, In, matrixVars, Types
    <3> QED
      BY <1>1, <1>4, <2>2, <3>1, ReducedRecords DEF ReportsOwn
  <2>5. CASE ~CollectRecords(p) /\ ~ReadColumns(p)
    <3>1. pc'[r] # "gathering" /\ ~(Done(r)' /\ LastIs("read"))
      BY <1>3, <1>6, <2>1, <2>5
    <3> QED
      BY <1>4, <2>2, <3>1 DEF ReportsOwn
  <2> QED
    BY <2>3, <2>4, <2>5
<1> QED
  BY <1>5, <1>6

LEMMA GatherKeepsReports ==
  ASSUME ShardInv, ReportInv, GatherRecords, NEW r \in World
  PROVE  ReportsOwn(r)' /\ ReportsAll(r)'
<1>1. /\ Types /\ (\A q \in World : Place(q) /\ ReportsOwn(q)) /\ Together /\ r \in Ranks
  BY PlacesTyped DEF ShardInv, RanksInv, RankInv, ReportInv
<1>2. /\ AllMeetIn("gathering") /\ size' = size /\ plan' = plan /\ origin' = origin
      /\ pc'[r] = "start" /\ at'[r] = at[r] + 1
      /\ records'[r] = UNION {records[q] : q \in World}
  BY <1>1 DEF GatherRecords, matrixVars
<1>3. \A q \in World : pc[q] = "gathering" /\ Operation(q) = "gather"
  BY <1>1, <1>2 DEF AllMeetIn, Place
<1>4. \A op : LastIs(op)' <=> LastIs(op)
  BY <1>2 DEF LastIs
<1>5. Done(r)' => \A op : LastIs(op) => op = "gather"
  <2>1. at[r] \in Nat \ {0} /\ Len(plan) \in Nat
    BY <1>1, <1>3, OperationIs
  <2>2. Done(r)' => ~(at[r] + 1 <= Len(plan))
    BY <1>2, <2>1 DEF Done
  <2> QED
    BY <1>1, <1>3, <2>2, LastOperation
<1>6. ReportsOwn(r)'
  BY <1>2, <1>4, <1>5 DEF ReportsOwn
<1>7. ASSUME NEW m \in Matrices, HoldTogether(m)
      PROVE  records'[r] = RecordsOf(m, Columns)
  <2>1. \A q \in World : records[q] = RecordsOf(m, Own(q, size))
    BY <1>1, <1>3, <1>7 DEF ReportsOwn, HoldTogether
  <2>2. UNION {records[q] : q \in World} = UNION {RecordsOf(m, Own(q, size)) : q \in World}
    BY <2>1
  <2> QED
    BY <1>1, <1>2, <2>2, RecordsOfAll
<1>8. ReportsAll(r)'
  BY <1>2, <1>7 DEF ReportsAll, HoldTogether, World, RecordsOf, Expected, Columns
<1> QED
  BY <1>6, <1>8

LEMMA ReportInvKept ==
  ASSUME \A p \in Plans : ReportsReduced(p), ShardInv, ReportInv, [Next]_vars
  PROVE  ReportInv'
<1>1. /\ Types /\ (\A r \in World : Place(r)) /\ Together
      /\ ReportsReduced(plan) /\ \A r \in World : r \in Ranks /\ ReportsOwn(r) /\ ReportsAll(r)
  BY PlacesTyped DEF ShardInv, RanksInv, RankInv, ReportInv
<1>2. Together'
  BY <1>1, TogetherKept
<1> SUFFICES ReportsReduced(plan') /\ \A r \in World' : ReportsOwn(r)' /\ ReportsAll(r)'
  <2>1. ReportsReduced(plan)' <=> ReportsReduced(plan')
    BY DEF ReportsReduced, Fresh
  <2> QED
    BY <1>2, <2>1 DEF ReportInv
<1>3. ASSUME NEW n \in 1 .. MaxRanks, NEW m, NEW p \in Plans, Launch(n, m, p)
      PROVE  ReportsReduced(plan') /\ \A r \in World' : ReportsOwn(r)' /\ ReportsAll(r)'
  <2>1. plan' = p /\ size' = n /\ p \in Seq(STRING) /\ p # <<>>
    BY <1>3, ShardsAssumption DEF Launch
  <2>2. ASSUME NEW r \in World'
        PROVE  pc'[r] = "start" /\ ~Done(r)'
    <3>1. r \in Ranks
      BY <2>1, ShardsAssumption DEF World, Ranks
    <3>2. at'[r] = 1 /\ pc'[r] = "start"
      BY <1>3, <3>1 DEF Launch
    <3>3. Len(p) \in Nat /\ Len(p) # 0
      BY <2>1, LenProperties, EmptySeq
    <3>4. ~(1 > Len(p))
      BY <3>3
    <3> QED
      BY <2>1, <3>2, <3>4 DEF Done
  <2>3. \A r \in World' : ReportsOwn(r)' /\ ReportsAll(r)'
    BY <2>2 DEF ReportsOwn, ReportsAll
  <2> QED
    BY <2>1, <2>3
<1>4. ASSUME NEW m \in Matrices, NEW p \in Plans, CallAgain(m, p)
      PROVE  ReportsReduced(plan') /\ \A r \in World' : ReportsOwn(r)' /\ ReportsAll(r)'
  <2>1. size \in 1 .. MaxRanks
    BY <1>1 DEF Types
  <2> QED
    BY <1>3, <1>4, <2>1 DEF CallAgain
<1>5. ASSUME NEW n \in 1 .. MaxRanks, NEW m \in Matrices, NEW p \in Plans, Restart(n, m, p)
      PROVE  ReportsReduced(plan') /\ \A r \in World' : ReportsOwn(r)' /\ ReportsAll(r)'
  BY <1>3, <1>5 DEF Restart
<1>6. ASSUME NEW p \in Ranks, Step(p)
      PROVE  ReportsReduced(plan') /\ \A r \in World' : ReportsOwn(r)' /\ ReportsAll(r)'
  <2>1. World' = World /\ plan' = plan
    BY <1>1, <1>6, StepKeepsOthers DEF World
  <2> QED
    BY <1>1, <1>6, <2>1, StepKeepsReports
<1>7. ASSUME World' = World, plan' = plan,
             \A r \in World : pc'[r] # "gathering" /\ ~(Done(r)' /\ LastIs("read"))
                               /\ ~(Done(r)' /\ LastIs("gather"))
      PROVE  ReportsReduced(plan') /\ \A r \in World' : ReportsOwn(r)' /\ ReportsAll(r)'
  <2>1. \A op : LastIs(op)' <=> LastIs(op)
    BY <1>7 DEF LastIs
  <2> QED
    BY <1>1, <1>7, <2>1 DEF ReportsOwn, ReportsAll
<1>8. CASE Barrier
  <2>1. /\ World' = World /\ plan' = plan /\ AllMeetIn("barrier")
        /\ \A r \in World :
             /\ pc'[r] = IF Operation(r) = "checkpoint" THEN "open" ELSE "start"
             /\ at'[r] = at[r] \/ at'[r] = at[r] + 1
    BY <1>1, <1>8 DEF Barrier, World
  <2>2. ASSUME NEW r \in World
        PROVE  ~(Done(r)' /\ LastIs("read")) /\ ~(Done(r)' /\ LastIs("gather"))
    <3>1. Operation(r) \in {"barrier", "checkpoint", "restore"}
      BY <1>1, <2>1 DEF AllMeetIn, Place
    <3>2. at[r] \in Nat \ {0} /\ Len(plan) \in Nat /\ ~Done(r)
      BY <1>1, <3>1, OperationIs, NotDone
    <3>3. Done(r)' => ~(at[r] + 1 <= Len(plan))
      BY <2>1, <3>2 DEF Done
    <3> QED
      BY <1>1, <3>1, <3>3, LastOperation
  <2> QED
    BY <1>7, <2>1, <2>2
<1>9. CASE ExchangeColumns
  <2>1. /\ World' = World /\ plan' = plan /\ at' = at /\ AllMeetIn("exchange")
        /\ \A r \in World : pc'[r] # "gathering"
    BY <1>1, <1>9 DEF ExchangeColumns, World
  <2>2. \A r \in World : ~Done(r)'
    BY <2>1 DEF AllMeetIn, Done
  <2> QED
    BY <1>7, <2>1, <2>2
<1>10. CASE GatherRecords
  <2>1. World' = World /\ plan' = plan
    BY <1>10 DEF GatherRecords, World
  <2> QED
    BY <1>1, <1>10, <2>1, GatherKeepsReports
<1>11. CASE UNCHANGED vars
  <2>1. /\ World' = World /\ plan' = plan /\ size' = size
        /\ at' = at /\ pc' = pc /\ records' = records /\ origin' = origin
    BY <1>11 DEF vars, matrixVars, World
  <2>2. ASSUME NEW r \in World
        PROVE  ReportsOwn(r)'
    BY <1>1, <2>1 DEF ReportsOwn, RecordsOf, Expected, Own, Columns, LastIs, Done
  <2>3. ASSUME NEW r \in World
        PROVE  ReportsAll(r)'
    BY <1>1, <2>1 DEF ReportsAll, HoldTogether, RecordsOf, Expected, Columns, LastIs, Done, World
  <2> QED
    BY <1>1, <2>1, <2>2, <2>3
<1>12. CASE NoMoreJobs
  BY <1>11, <1>12 DEF NoMoreJobs
<1> QED
  BY <1>4, <1>5, <1>6, <1>8, <1>9, <1>10, <1>11, <1>12 DEF Next, Meet

LEMMA ReportInvInitially == Init => ReportInv
<1> SUFFICES ASSUME Init PROVE ReportInv
  OBVIOUS
<1>1. Types /\ plan = <<>>
  BY TypesHold DEF Init
<1>2. \A r \in World : r \in Ranks /\ pc[r] = "start"
  BY <1>1, PlacesTyped DEF Init
<1>3. ReportsReduced(plan) /\ Together
  BY <1>1 DEF ReportsReduced, Together
<1>4. \A r \in World : ReportsOwn(r) /\ ReportsAll(r)
  BY <1>1, <1>2 DEF ReportsOwn, ReportsAll, LastIs
<1> QED
  BY <1>3, <1>4 DEF ReportInv

(* If the programs report only what they have reduced, the pairing that    *)
(* compute gathers, and the part of it a rank reads from its own columns,  *)
(* are those of the matrix: for any matrices, programs, world sizes and    *)
(* number of jobs, killed and resumed from checkpoints at any moment.      *)
THEOREM ResultsAreExact ==
  ASSUME \A p \in Plans : ReportsReduced(p)
  PROVE  Spec => []ResultIsExact
<1>1. Init => ShardInv /\ ReportInv
  BY ShardInvInitially, ReportInvInitially
<1>2. ShardInv /\ ReportInv /\ [Next]_vars => (ShardInv /\ ReportInv)'
  BY ShardInvKept, ReportInvKept
<1>3. ShardInv /\ ReportInv => ResultIsExact
  <2> SUFFICES ASSUME ShardInv, ReportInv, NEW m \in Matrices, NEW r \in World,
                      HoldTogether(m), Done(r), plan # <<>>
               PROVE  CASE Last(plan) = "gather" ->
                             records[r] = {Expected[m][c] : c \in Columns}
                        [] Last(plan) = "read" ->
                             records[r] = {Expected[m][c] : c \in {d \in Columns : d % size = r}}
                        [] OTHER -> TRUE
    BY DEF ResultIsExact
  <2>1. ReportsOwn(r) /\ ReportsAll(r) /\ origin[r] = m
    BY DEF ReportInv, HoldTogether
  <2>2. CASE Last(plan) = "gather"
    BY <2>1, <2>2 DEF ReportsAll, LastIs, RecordsOf
  <2>3. CASE Last(plan) = "read"
    BY <2>1, <2>3 DEF ReportsOwn, LastIs, RecordsOf, Own
  <2> QED
    BY <2>2, <2>3
<1> QED
  BY <1>1, <1>2, <1>3, PTL DEF Spec
============================================================================
