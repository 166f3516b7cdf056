-------------------------- MODULE Z2ColumnsProofs --------------------------
(***************************************************************************)
(* Facts about Z2 columns and their spans, for every number of rows and    *)
(* columns: the algebra of column addition, the recursion equation of      *)
(* PrefixSpan and what follows from it, and the persistence pivots, which  *)
(* every reducer of the library is measured against.                       *)
(***************************************************************************)
EXTENDS Z2Columns, TLAPS, WellFoundedInduction, FiniteSetTheorems

(* The least-number principle, in a form without operator parameters.      *)
LEMMA NatMinimum ==
  ASSUME NEW T \in SUBSET Nat, T # {}
  PROVE  \E k \in T : \A l \in T : k <= l
<1>1. PICK k \in T : \A y \in T : ~ (<<y, k>> \in OpToRel(<, Nat))
  BY NatLessThanWellFounded, WFMin
<1>2. \A l \in T : ~(l < k)
  <2>1. SUFFICES ASSUME NEW l \in T, l < k PROVE FALSE
    OBVIOUS
  <2>2. <<l, k>> \in OpToRel(<, Nat)
    BY <2>1 DEF OpToRel
  <2>3. QED
    BY <1>1, <2>2
<1>3. \A l \in T : l \in Nat /\ k \in Nat
  OBVIOUS
<1>4. \A l \in T : k <= l
  BY <1>2, <1>3
<1>5. QED
  BY <1>4

(* Min is what its name says on a set of natural numbers.                  *)
LEMMA MinIsLeast ==
  ASSUME NEW T \in SUBSET Nat, T # {}
  PROVE  Min(T) \in T /\ \A l \in T : Min(T) <= l
<1>1. \E k \in T : \A l \in T : k <= l
  BY NatMinimum
<1>2. QED
  BY <1>1 DEF Min

(* Max is what its name says on a bounded set of natural numbers.          *)
LEMMA MaxIsGreatest ==
  ASSUME NEW n \in Nat, NEW T \in SUBSET (0 .. n - 1), T # {}
  PROVE  Max(T) \in T /\ \A l \in T : Max(T) >= l
<1> DEFINE Gaps == {n - x : x \in T}
<1>1. Gaps \in SUBSET Nat /\ Gaps # {}
  OBVIOUS
<1>2. PICK g \in Gaps : \A h \in Gaps : g <= h
  BY <1>1, NatMinimum
<1>3. PICK x \in T : g = n - x
  OBVIOUS
<1>4. ASSUME NEW y \in T
      PROVE  x >= y
  <2>1. n - y \in Gaps
    OBVIOUS
  <2>2. n - x <= n - y
    BY <1>2, <1>3, <2>1
  <2>3. x \in Int /\ y \in Int
    OBVIOUS
  <2>4. QED
    BY <2>2, <2>3
<1>5. QED
  BY <1>4 DEF Max

(* The pivot of a column is one of its rows, and -1 only for the empty     *)
(* column.                                                                 *)
LEMMA LowIsRow ==
  ASSUME NEW n \in Nat, NEW column \in SUBSET (0 .. n - 1)
  PROVE  /\ column # {} => Low(column) \in column
         /\ Low(column) \in (0 .. n - 1) \cup {NoPivot}
         /\ Low(column) = NoPivot <=> column = {}
<1>1. CASE column = {}
  BY <1>1 DEF Low, NoPivot
<1>2. CASE column # {}
  <2>1. Max(column) \in column
    BY <1>2, MaxIsGreatest
  <2>2. Low(column) = Max(column)
    BY <1>2 DEF Low
  <2>3. \A row \in column : row \in 0 .. n - 1 /\ row # NoPivot
    BY DEF NoPivot
  <2>4. QED
    BY <1>2, <2>1, <2>2, <2>3
<1>3. QED
  BY <1>1, <1>2

LEMMA AddColumnType ==
  ASSUME NEW S, NEW a \in SUBSET S, NEW b \in SUBSET S
  PROVE  AddColumn(a, b) \in SUBSET S
BY DEF AddColumn, SymDiff

----------------------------------------------------------------------------
(* Z2 columns form a group in which every element is its own inverse.      *)

LEMMA AddColumnMember ==
  ASSUME NEW a, NEW b, NEW r
  PROVE  r \in AddColumn(a, b) <=> ~(r \in a <=> r \in b)
BY DEF AddColumn, SymDiff

LEMMA AddColumnCommutes ==
  ASSUME NEW a, NEW b
  PROVE  AddColumn(a, b) = AddColumn(b, a)
BY DEF AddColumn, SymDiff

LEMMA AddColumnAssociates ==
  ASSUME NEW a, NEW b, NEW c
  PROVE  AddColumn(AddColumn(a, b), c) = AddColumn(a, AddColumn(b, c))
<1>1. ASSUME NEW r
      PROVE  r \in AddColumn(AddColumn(a, b), c)
               <=> r \in AddColumn(a, AddColumn(b, c))
  <2>1. r \in AddColumn(a, b) <=> ~(r \in a <=> r \in b)
    BY AddColumnMember
  <2>2. r \in AddColumn(b, c) <=> ~(r \in b <=> r \in c)
    BY AddColumnMember
  <2>3. r \in AddColumn(AddColumn(a, b), c)
          <=> ~(r \in AddColumn(a, b) <=> r \in c)
    BY AddColumnMember
  <2>4. r \in AddColumn(a, AddColumn(b, c))
          <=> ~(r \in a <=> r \in AddColumn(b, c))
    BY AddColumnMember
  <2>5. QED
    BY <2>1, <2>2, <2>3, <2>4
<1>2. QED
  BY <1>1

LEMMA AddColumnUnit ==
  ASSUME NEW S, NEW a \in SUBSET S
  PROVE  AddColumn(a, {}) = a /\ AddColumn({}, a) = a /\ AddColumn(a, a) = {}
BY DEF AddColumn, SymDiff

LEMMA AddColumnCancels ==
  ASSUME NEW S, NEW a \in SUBSET S, NEW b \in SUBSET S
  PROVE  AddColumn(AddColumn(a, b), b) = a /\ AddColumn(b, AddColumn(b, a)) = a
BY DEF AddColumn, SymDiff

(* Four columns added two by two, in the other pairing.                    *)
LEMMA AddColumnInterchange ==
  ASSUME NEW a, NEW b, NEW c, NEW d
  PROVE  AddColumn(AddColumn(a, b), AddColumn(c, d))
           = AddColumn(AddColumn(a, c), AddColumn(b, d))
BY AddColumnAssociates, AddColumnCommutes

----------------------------------------------------------------------------
(* The recursion equation of PrefixSpan.  A recursive function is a CHOOSE *)
(* to the provers; that there is something to choose, and that it does not *)
(* depend on the length of its domain, is shown by least counterexample.   *)

IsSpanFunction(f, matrix, n) ==
  f = [k \in 0 .. n |->
         IF k = 0
         THEN {{}}
         ELSE f[k-1] \cup {AddColumn(s, matrix[k-1]) : s \in f[k-1]}]

LEMMA SpanFunctionExists ==
  ASSUME NEW matrix, NEW n \in Nat
  PROVE  \E f : IsSpanFunction(f, matrix, n)
<1> DEFINE Bad == {k \in Nat : ~ \E f : IsSpanFunction(f, matrix, k)}
<1>1. SUFFICES ASSUME Bad # {} PROVE FALSE
  OBVIOUS
<1>2. PICK k \in Bad : \A l \in Bad : k <= l
  BY <1>1, NatMinimum
<1>3. k \in Nat /\ ~ \E f : IsSpanFunction(f, matrix, k)
  OBVIOUS
<1>4. k # 0
  <2> DEFINE z == [i \in 0 .. 0 |-> {{}}]
  <2>1. IsSpanFunction(z, matrix, 0)
    BY DEF IsSpanFunction
  <2>2. QED
    BY <1>3, <2>1
<1>5. k - 1 \in Nat /\ k - 1 \notin Bad
  BY <1>2, <1>3, <1>4
<1>6. PICK f : IsSpanFunction(f, matrix, k - 1)
  BY <1>5
<1> DEFINE last == f[k-1] \cup {AddColumn(s, matrix[k-1]) : s \in f[k-1]}
           g == [i \in 0 .. k |-> IF i = k THEN last ELSE f[i]]
<1>7. ASSUME NEW i \in 0 .. k
      PROVE  g[i] = IF i = 0 THEN {{}}
                    ELSE g[i-1] \cup {AddColumn(s, matrix[i-1]) : s \in g[i-1]}
  <2>1. CASE i = k
    <3>1. g[i] = last /\ g[i-1] = f[k-1] /\ i # 0
      BY <2>1, <1>3, <1>4
    <3>2. QED
      BY <3>1, <2>1
  <2>2. CASE i # k
    <3>1. i \in 0 .. k - 1
      BY <2>2, <1>3
    <3>2. f[i] = IF i = 0 THEN {{}}
                 ELSE f[i-1] \cup {AddColumn(s, matrix[i-1]) : s \in f[i-1]}
      BY <3>1, <1>6 DEF IsSpanFunction
    <3>3. g[i] = f[i] /\ (i # 0 => g[i-1] = f[i-1])
      BY <3>1, <2>2, <1>3
    <3>4. QED
      BY <3>2, <3>3
  <2>3. QED
    BY <2>1, <2>2
<1>8. IsSpanFunction(g, matrix, k)
  BY <1>7 DEF IsSpanFunction
<1>9. QED
  BY <1>3, <1>8

LEMMA SpanFunctionsAgree ==
  ASSUME NEW matrix, NEW n \in Nat, NEW p \in Nat, n <= p, NEW f, NEW g,
         IsSpanFunction(f, matrix, n), IsSpanFunction(g, matrix, p)
  PROVE  \A k \in 0 .. n : f[k] = g[k]
<1> DEFINE Bad == {k \in 0 .. n : f[k] # g[k]}
<1>1. SUFFICES ASSUME Bad # {} PROVE FALSE
  OBVIOUS
<1>2. PICK k \in Bad : \A l \in Bad : k <= l
  <2>1. Bad \in SUBSET Nat
    OBVIOUS
  <2> HIDE DEF Bad
  <2>2. QED
    BY <1>1, <2>1, NatMinimum
<1>3. k \in 0 .. n /\ k \in 0 .. p /\ f[k] # g[k]
  OBVIOUS
<1>4. /\ f[k] = IF k = 0 THEN {{}}
                ELSE f[k-1] \cup {AddColumn(s, matrix[k-1]) : s \in f[k-1]}
      /\ g[k] = IF k = 0 THEN {{}}
                ELSE g[k-1] \cup {AddColumn(s, matrix[k-1]) : s \in g[k-1]}
  BY <1>3 DEF IsSpanFunction
<1>5. k # 0
  BY <1>3, <1>4
<1>6. k - 1 \in 0 .. n /\ ~(k <= k - 1)
  BY <1>3, <1>5
<1>7. f[k-1] = g[k-1]
  BY <1>2, <1>6
<1>8. QED
  BY <1>3, <1>4, <1>5, <1>7

LEMMA SpanIsValue ==
  ASSUME NEW matrix, NEW n \in Nat
  PROVE  \E f : IsSpanFunction(f, matrix, n) /\ PrefixSpan(matrix, n) = f[n]
<1> DEFINE f == CHOOSE h : IsSpanFunction(h, matrix, n)
<1>1. IsSpanFunction(f, matrix, n)
  BY SpanFunctionExists
<1>2. PrefixSpan(matrix, n) = f[n]
  BY DEF PrefixSpan, IsSpanFunction
<1>3. QED
  BY <1>1, <1>2

LEMMA SpanOfNone ==
  ASSUME NEW matrix
  PROVE  PrefixSpan(matrix, 0) = {{}}
<1>1. PICK f : IsSpanFunction(f, matrix, 0) /\ PrefixSpan(matrix, 0) = f[0]
  BY SpanIsValue
<1>2. QED
  BY <1>1 DEF IsSpanFunction

LEMMA SpanStep ==
  ASSUME NEW matrix, NEW n \in Nat
  PROVE  PrefixSpan(matrix, n + 1)
           = PrefixSpan(matrix, n)
               \cup {AddColumn(s, matrix[n]) : s \in PrefixSpan(matrix, n)}
<1>1. PICK f : IsSpanFunction(f, matrix, n) /\ PrefixSpan(matrix, n) = f[n]
  BY SpanIsValue
<1>2. PICK g : /\ IsSpanFunction(g, matrix, n + 1)
               /\ PrefixSpan(matrix, n + 1) = g[n + 1]
  BY SpanIsValue
<1>3. f[n] = g[n]
  BY <1>1, <1>2, SpanFunctionsAgree
<1>4. n + 1 \in 0 .. n + 1 /\ n + 1 # 0 /\ (n + 1) - 1 = n
  OBVIOUS
<1>5. g[n + 1] = g[n] \cup {AddColumn(s, matrix[n]) : s \in g[n]}
  <2>1. \A k \in 0 .. n + 1 :
          k # 0 => g[k] = g[k-1] \cup {AddColumn(s, matrix[k-1]) : s \in g[k-1]}
    BY <1>2 DEF IsSpanFunction
  <2>2. g[n + 1] = g[(n + 1) - 1]
          \cup {AddColumn(s, matrix[(n + 1) - 1]) : s \in g[(n + 1) - 1]}
    BY <1>4, <2>1
  <2>3. QED
    BY <1>4, <2>2
<1>6. QED
  BY <1>1, <1>2, <1>3, <1>5

----------------------------------------------------------------------------
(* What the span of the first n columns is, without its recursion: the     *)
(* least set with the empty column and those columns closed under addition.*)

LEMMA SpanLeast ==
  ASSUME NEW matrix, NEW n \in Nat, NEW T, {} \in T,
         \A a, b \in T : AddColumn(a, b) \in T,
         \A j \in 0 .. n - 1 : matrix[j] \in T
  PROVE  PrefixSpan(matrix, n) \subseteq T
<1> DEFINE Bad == {k \in 0 .. n : ~(PrefixSpan(matrix, k) \subseteq T)}
<1>1. SUFFICES ASSUME Bad # {} PROVE FALSE
  OBVIOUS
<1>2. PICK k \in Bad : \A l \in Bad : k <= l
  <2>1. Bad \in SUBSET Nat
    OBVIOUS
  <2> HIDE DEF Bad
  <2>2. QED
    BY <1>1, <2>1, NatMinimum
<1>3. k \in 0 .. n /\ ~(PrefixSpan(matrix, k) \subseteq T)
  OBVIOUS
<1>4. k # 0
  BY <1>3, SpanOfNone
<1>5. k - 1 \in 0 .. n /\ k - 1 \in Nat /\ k - 1 \in 0 .. n - 1 /\ ~(k <= k - 1)
      /\ (k - 1) + 1 = k
  BY <1>3, <1>4
<1>6. PrefixSpan(matrix, k - 1) \subseteq T
  BY <1>2, <1>5
<1>7. PrefixSpan(matrix, k)
        = PrefixSpan(matrix, k - 1)
            \cup {AddColumn(s, matrix[k - 1]) : s \in PrefixSpan(matrix, k - 1)}
  <2>1. PrefixSpan(matrix, (k - 1) + 1)
        = PrefixSpan(matrix, k - 1)
            \cup {AddColumn(s, matrix[k - 1]) : s \in PrefixSpan(matrix, k - 1)}
    BY <1>5, SpanStep
  <2>2. QED
    BY <2>1, <1>5
<1>8. matrix[k - 1] \in T
  BY <1>5
<1>9. QED
  BY <1>3, <1>6, <1>7, <1>8

LEMMA SpanType ==
  ASSUME NEW S, NEW matrix, NEW n \in Nat,
         \A j \in 0 .. n - 1 : matrix[j] \in SUBSET S
  PROVE  PrefixSpan(matrix, n) \subseteq SUBSET S
<1>1. \A a, b \in SUBSET S : AddColumn(a, b) \in SUBSET S
  BY AddColumnType
<1>2. {} \in SUBSET S
  OBVIOUS
<1>3. QED
  BY <1>1, <1>2, SpanLeast

LEMMA SpanGrows ==
  ASSUME NEW matrix, NEW k \in Nat, NEW n \in Nat, k <= n
  PROVE  PrefixSpan(matrix, k) \subseteq PrefixSpan(matrix, n)
<1> DEFINE Bad == {l \in Nat : /\ k <= l
                               /\ ~(PrefixSpan(matrix, k)
                                      \subseteq PrefixSpan(matrix, l))}
<1>1. SUFFICES ASSUME Bad # {} PROVE FALSE
  OBVIOUS
<1>2. PICK l \in Bad : \A i \in Bad : l <= i
  BY <1>1, NatMinimum
<1>3. l \in Nat /\ k <= l /\ l # k
  OBVIOUS
<1>4. l - 1 \in Nat /\ k <= l - 1 /\ ~(l <= l - 1) /\ (l - 1) + 1 = l
  BY <1>3
<1>5. PrefixSpan(matrix, k) \subseteq PrefixSpan(matrix, l - 1)
  BY <1>2, <1>4
<1>6. PrefixSpan(matrix, l - 1) \subseteq PrefixSpan(matrix, (l - 1) + 1)
  BY <1>4, SpanStep
<1>7. QED
  BY <1>4, <1>5, <1>6

LEMMA SpanHasEmpty ==
  ASSUME NEW matrix, NEW n \in Nat
  PROVE  {} \in PrefixSpan(matrix, n)
BY SpanGrows, SpanOfNone

LEMMA SpanHasColumn ==
  ASSUME NEW S, NEW matrix, NEW n \in Nat, NEW j \in 0 .. n - 1,
         matrix[j] \in SUBSET S
  PROVE  matrix[j] \in PrefixSpan(matrix, n)
<1>1. j \in Nat /\ j + 1 \in Nat /\ j + 1 <= n
  OBVIOUS
<1>2. AddColumn({}, matrix[j]) \in PrefixSpan(matrix, j + 1)
  BY <1>1, SpanStep, SpanHasEmpty
<1>3. AddColumn({}, matrix[j]) = matrix[j]
  BY AddColumnUnit
<1>4. QED
  BY <1>1, <1>2, <1>3, SpanGrows

LEMMA SpanClosed ==
  ASSUME NEW S, NEW matrix, NEW n \in Nat,
         \A j \in 0 .. n - 1 : matrix[j] \in SUBSET S
  PROVE  \A a, b \in PrefixSpan(matrix, n) :
           AddColumn(a, b) \in PrefixSpan(matrix, n)
<1> DEFINE Closed(k) == \A a, b \in PrefixSpan(matrix, k) :
                          AddColumn(a, b) \in PrefixSpan(matrix, k)
           Bad == {k \in 0 .. n : ~Closed(k)}
<1>1. SUFFICES ASSUME Bad # {} PROVE FALSE
  OBVIOUS
<1>2. PICK k \in Bad : \A l \in Bad : k <= l
  <2>1. Bad \in SUBSET Nat
    OBVIOUS
  <2> HIDE DEF Bad
  <2>2. QED
    BY <1>1, <2>1, NatMinimum
<1>3. k \in 0 .. n /\ ~Closed(k)
  OBVIOUS
<1>4. k # 0
  <2>1. AddColumn({}, {}) = {}
    BY DEF AddColumn, SymDiff
  <2>2. QED
    BY <1>3, <2>1, SpanOfNone
<1>5. k - 1 \in 0 .. n /\ k - 1 \in Nat /\ k - 1 \in 0 .. n - 1 /\ ~(k <= k - 1)
      /\ (k - 1) + 1 = k
  BY <1>3, <1>4
<1> DEFINE U == PrefixSpan(matrix, k - 1)
           x == matrix[k - 1]
<1>6. Closed(k - 1)
  BY <1>2, <1>5
<1>7. PrefixSpan(matrix, k) = U \cup {AddColumn(s, x) : s \in U}
  <2>1. PrefixSpan(matrix, (k - 1) + 1) = U \cup {AddColumn(s, x) : s \in U}
    BY <1>5, SpanStep
  <2>2. QED
    BY <2>1, <1>5
<1>8. x \in SUBSET S /\ U \subseteq SUBSET S
  <2>1. \A j \in 0 .. (k - 1) - 1 : matrix[j] \in SUBSET S
    BY <1>5
  <2>2. QED
    BY <1>5, <2>1, SpanType
<1>9. \A s, t \in U : AddColumn(s, t) \in U
  BY <1>6
<1> HIDE DEF U, x
<1>10. ASSUME NEW s \in U, NEW t \in U
       PROVE  /\ AddColumn(AddColumn(s, x), t) = AddColumn(AddColumn(s, t), x)
              /\ AddColumn(s, AddColumn(t, x)) = AddColumn(AddColumn(s, t), x)
              /\ AddColumn(AddColumn(s, x), AddColumn(t, x)) = AddColumn(s, t)
  BY <1>8 DEF AddColumn, SymDiff
<1>11. ASSUME NEW a \in PrefixSpan(matrix, k), NEW b \in PrefixSpan(matrix, k)
       PROVE  AddColumn(a, b) \in PrefixSpan(matrix, k)
  <2>1. CASE a \in U /\ b \in U
    BY <2>1, <1>7, <1>9
  <2>2. CASE a \in U /\ b \notin U
    <3>1. PICK t \in U : b = AddColumn(t, x)
      BY <2>2, <1>7
    <3>2. AddColumn(a, b) = AddColumn(AddColumn(a, t), x)
      BY <3>1, <2>2, <1>10
    <3>3. QED
      BY <3>1, <3>2, <2>2, <1>7, <1>9
  <2>3. CASE a \notin U /\ b \in U
    <3>1. PICK s \in U : a = AddColumn(s, x)
      BY <2>3, <1>7
    <3>2. AddColumn(a, b) = AddColumn(AddColumn(s, b), x)
      BY <3>1, <2>3, <1>10
    <3>3. QED
      BY <3>1, <3>2, <2>3, <1>7, <1>9
  <2>4. CASE a \notin U /\ b \notin U
    <3>1. PICK s \in U, t \in U : a = AddColumn(s, x) /\ b = AddColumn(t, x)
      BY <2>4, <1>7
    <3>2. AddColumn(a, b) = AddColumn(s, t)
      BY <3>1, <1>10
    <3>3. QED
      BY <3>1, <3>2, <1>7, <1>9
  <2>5. QED
    BY <2>1, <2>2, <2>3, <2>4
<1>12. QED
  BY <1>3, <1>11

(* A matrix whose first k columns lie in the span of n columns of another  *)
(* one spans no more.                                                      *)
LEMMA SpanWithin ==
  ASSUME NEW S, NEW matrix, NEW n \in Nat,
         \A j \in 0 .. n - 1 : matrix[j] \in SUBSET S,
         NEW other, NEW k \in Nat,
         \A j \in 0 .. k - 1 : other[j] \in PrefixSpan(matrix, n)
  PROVE  PrefixSpan(other, k) \subseteq PrefixSpan(matrix, n)
BY SpanLeast, SpanClosed, SpanHasEmpty

(* A step of a left-to-right reduction.                                    *)
AddsEarlierColumn(matrix, other, n) ==
  \E c, d \in 0 .. n - 1 :
    d < c /\ other = [matrix EXCEPT ![c] = AddColumn(matrix[c], matrix[d])]

(* It keeps the span of every prefix.                                      *)
LEMMA SpanKeptByAddition ==
  ASSUME NEW S, NEW n \in Nat, NEW matrix \in [0 .. n - 1 -> SUBSET S],
         NEW other, AddsEarlierColumn(matrix, other, n), NEW k \in 0 .. n
  PROVE  PrefixSpan(other, k) = PrefixSpan(matrix, k)
<1>1. PICK c \in 0 .. n - 1, d \in 0 .. n - 1 :
        d < c /\ other = [matrix EXCEPT ![c] = AddColumn(matrix[c], matrix[d])]
  BY DEF AddsEarlierColumn
<1>2. other \in [0 .. n - 1 -> SUBSET S]
  BY <1>1, AddColumnType
<1>3. /\ other[c] = AddColumn(matrix[c], matrix[d])
      /\ \A j \in 0 .. n - 1 : j # c => other[j] = matrix[j]
      /\ other[d] = matrix[d]
      /\ matrix[c] = AddColumn(other[c], other[d])
  <2>1. matrix[c] \in SUBSET S /\ matrix[d] \in SUBSET S /\ d # c
    BY <1>1
  <2>2. AddColumn(AddColumn(matrix[c], matrix[d]), matrix[d]) = matrix[c]
    BY <2>1, AddColumnCancels
  <2>3. other[c] = AddColumn(matrix[c], matrix[d]) /\ other[d] = matrix[d]
    BY <1>1, <2>1
  <2>4. \A j \in 0 .. n - 1 : j # c => other[j] = matrix[j]
    BY <1>1
  <2>5. QED
    BY <2>2, <2>3, <2>4
<1>4. /\ k \in Nat
      /\ \A j \in 0 .. k - 1 : j \in 0 .. n - 1
      /\ c \in 0 .. k - 1 => d \in 0 .. k - 1
  BY <1>1
<1>5. /\ \A j \in 0 .. k - 1 : matrix[j] \in SUBSET S /\ other[j] \in SUBSET S
      /\ \A j \in 0 .. k - 1 : matrix[j] \in PrefixSpan(matrix, k)
      /\ \A j \in 0 .. k - 1 : other[j] \in PrefixSpan(other, k)
  <2>1. \A j \in 0 .. k - 1 : matrix[j] \in SUBSET S /\ other[j] \in SUBSET S
    BY <1>2, <1>4
  <2>2. QED
    BY <2>1, <1>4, SpanHasColumn
<1>6. PrefixSpan(other, k) \subseteq PrefixSpan(matrix, k)
  <2>1. \A a, b \in PrefixSpan(matrix, k) :
          AddColumn(a, b) \in PrefixSpan(matrix, k)
    BY <1>4, <1>5, SpanClosed
  <2>2. \A j \in 0 .. k - 1 : other[j] \in PrefixSpan(matrix, k)
    BY <2>1, <1>3, <1>4, <1>5
  <2>3. QED
    BY <2>2, <1>4, <1>5, SpanWithin
<1>7. PrefixSpan(matrix, k) \subseteq PrefixSpan(other, k)
  <2>1. \A a, b \in PrefixSpan(other, k) :
          AddColumn(a, b) \in PrefixSpan(other, k)
    BY <1>4, <1>5, SpanClosed
  <2>2. \A j \in 0 .. k - 1 : matrix[j] \in PrefixSpan(other, k)
    BY <2>1, <1>3, <1>4, <1>5
  <2>3. QED
    BY <2>2, <1>4, <1>5, SpanWithin
<1>8. QED
  BY <1>6, <1>7

(* Column c exchanged for one that differs from it by a combination of the *)
(* other columns.                                                          *)
ExchangesColumn(matrix, other, n, S) ==
  \E c \in 0 .. n - 1, x \in SUBSET S :
    /\ other = [matrix EXCEPT ![c] = x]
    /\ AddColumn(matrix[c], x) \in PrefixSpan([matrix EXCEPT ![c] = {}], n)

(* It keeps the span of the whole matrix.                                  *)
LEMMA SpanKeptByExchange ==
  ASSUME NEW S, NEW n \in Nat, NEW matrix \in [0 .. n - 1 -> SUBSET S],
         NEW other, ExchangesColumn(matrix, other, n, S)
  PROVE  PrefixSpan(other, n) = PrefixSpan(matrix, n)
<1>1. PICK c \in 0 .. n - 1, x \in SUBSET S :
        /\ other = [matrix EXCEPT ![c] = x]
        /\ AddColumn(matrix[c], x) \in PrefixSpan([matrix EXCEPT ![c] = {}], n)
  BY DEF ExchangesColumn
<1> DEFINE diff == AddColumn(matrix[c], x)
           without == [matrix EXCEPT ![c] = {}]
<1>2. diff \in PrefixSpan(without, n)
  BY <1>1
<1>3. ASSUME NEW one \in [0 .. n - 1 -> SUBSET S],
             NEW two \in [0 .. n - 1 -> SUBSET S],
             [one EXCEPT ![c] = {}] = without,
             \A j \in 0 .. n - 1 : j # c => one[j] = two[j],
             two[c] = AddColumn(one[c], diff)
      PROVE  PrefixSpan(two, n) \subseteq PrefixSpan(one, n)
  <2>1. \A j \in 0 .. n - 1 : one[j] \in SUBSET S
    BY <1>3
  <2>2. \A j \in 0 .. n - 1 : one[j] \in PrefixSpan(one, n)
    BY <2>1, SpanHasColumn
  <2>3. \A j \in 0 .. n - 1 : without[j] \in PrefixSpan(one, n)
    BY <2>2, <1>3, SpanHasEmpty
  <2>4. PrefixSpan(without, n) \subseteq PrefixSpan(one, n)
    BY <2>1, <2>3, SpanWithin
  <2>5. diff \in PrefixSpan(one, n)
    BY <2>4, <1>2
  <2>6. AddColumn(one[c], diff) \in PrefixSpan(one, n)
    BY <2>1, <2>2, <2>5, SpanClosed
  <2>7. \A j \in 0 .. n - 1 : two[j] \in PrefixSpan(one, n)
    BY <2>2, <2>6, <1>3
  <2>8. QED
    BY <2>1, <2>7, SpanWithin
<1>4. other \in [0 .. n - 1 -> SUBSET S]
  BY <1>1
<1>5. /\ [matrix EXCEPT ![c] = {}] = without
      /\ [other EXCEPT ![c] = {}] = without
      /\ \A j \in 0 .. n - 1 : j # c => matrix[j] = other[j]
  BY <1>1
<1>6. /\ other[c] = AddColumn(matrix[c], diff)
      /\ matrix[c] = AddColumn(other[c], diff)
  <2>1. matrix[c] \in SUBSET S /\ other[c] = x
    BY <1>1
  <2>2. x = AddColumn(matrix[c], AddColumn(matrix[c], x))
    BY <2>1, AddColumnCancels
  <2>3. matrix[c] = AddColumn(x, AddColumn(matrix[c], x))
    BY <2>1 DEF AddColumn, SymDiff
  <2>4. QED
    BY <2>1, <2>2, <2>3
<1> HIDE DEF diff, without
<1>7. PrefixSpan(other, n) \subseteq PrefixSpan(matrix, n)
  BY <1>3, <1>4, <1>5, <1>6
<1>8. PrefixSpan(matrix, n) \subseteq PrefixSpan(other, n)
  BY <1>3, <1>4, <1>5, <1>6
<1>9. QED
  BY <1>7, <1>8

----------------------------------------------------------------------------
(* Pivots of sums.                                                         *)

LEMMA LowIsGreatest ==
  ASSUME NEW n \in Nat, NEW column \in SUBSET (0 .. n - 1), NEW x \in column
  PROVE  Low(column) \in column /\ x <= Low(column)
<1>1. column # {}
  OBVIOUS
<1>2. Max(column) \in column /\ \A l \in column : Max(column) >= l
  BY <1>1, MaxIsGreatest
<1>3. Low(column) = Max(column)
  BY <1>1 DEF Low
<1>4. \A y \in column : y \in Int
  OBVIOUS
<1>5. Max(column) \in Int /\ x \in Int /\ Max(column) >= x
  BY <1>2, <1>4
<1>6. QED
  BY <1>2, <1>3, <1>5

LEMMA LowIfGreatest ==
  ASSUME NEW n \in Nat, NEW column \in SUBSET (0 .. n - 1), NEW r \in column,
         \A x \in column : x <= r
  PROVE  Low(column) = r
<1>1. Low(column) \in column /\ r <= Low(column)
  BY LowIsGreatest
<1>2. \A y \in column : y \in Int
  OBVIOUS
<1>3. Low(column) <= r /\ Low(column) \in Int /\ r \in Int
  BY <1>1, <1>2
<1>4. QED
  BY <1>1, <1>3

(* Adding a column with a smaller pivot leaves the pivot.                  *)
LEMMA LowOfSum ==
  ASSUME NEW n \in Nat, NEW a \in SUBSET (0 .. n - 1),
         NEW b \in SUBSET (0 .. n - 1), Low(b) < Low(a)
  PROVE  Low(AddColumn(a, b)) = Low(a) /\ Low(AddColumn(b, a)) = Low(a)
<1>1. /\ Low(a) \in (0 .. n - 1) \cup {NoPivot}
      /\ Low(b) \in (0 .. n - 1) \cup {NoPivot}
      /\ Low(a) = NoPivot <=> a = {}
      /\ a # {} => Low(a) \in a
  BY LowIsRow
<1>2. a # {}
  BY <1>1 DEF NoPivot
<1>3. Low(a) \in a /\ Low(a) \in 0 .. n - 1
  BY <1>1, <1>2
<1>4. \A x \in a : x <= Low(a)
  BY LowIsGreatest
<1>5. \A x \in b : x <= Low(b) /\ x < Low(a)
  <2>1. \A x \in b : x <= Low(b) /\ x \in Int
    BY LowIsGreatest
  <2>2. Low(a) \in Int /\ Low(b) \in Int
    BY <1>1 DEF NoPivot
  <2>3. QED
    BY <2>1, <2>2
<1>6. Low(a) \notin b
  BY <1>3, <1>5
<1>7. /\ AddColumn(a, b) \in SUBSET (0 .. n - 1)
      /\ Low(a) \in AddColumn(a, b)
      /\ \A x \in AddColumn(a, b) : x <= Low(a)
  <2>1. \A x \in AddColumn(a, b) : x \in a \/ x \in b
    BY AddColumnMember
  <2>2. ASSUME NEW x \in AddColumn(a, b)
        PROVE  x <= Low(a)
    <3>1. x \in a => x <= Low(a)
      BY <1>4
    <3>2. x \in b => x < Low(a) /\ x \in Int /\ Low(a) \in Int
      BY <1>3, <1>5
    <3>3. QED
      BY <2>1, <3>1, <3>2
  <2>3. AddColumn(a, b) \in SUBSET (0 .. n - 1)
    BY AddColumnType
  <2>4. Low(a) \in AddColumn(a, b)
    BY <1>3, <1>6, AddColumnMember
  <2>5. QED
    BY <2>2, <2>3, <2>4
<1>8. Low(AddColumn(a, b)) = Low(a)
  BY <1>7, LowIfGreatest
<1>9. QED
  BY <1>8, AddColumnCommutes

(* Two columns with one pivot cancel it.                                   *)
LEMMA LowCancels ==
  ASSUME NEW n \in Nat, NEW a \in SUBSET (0 .. n - 1),
         NEW b \in SUBSET (0 .. n - 1), Low(a) = Low(b), a # {}
  PROVE  Low(AddColumn(a, b)) < Low(a)
<1>1. /\ Low(a) \in (0 .. n - 1) \cup {NoPivot}
      /\ Low(b) = NoPivot <=> b = {}
      /\ Low(a) = NoPivot <=> a = {}
      /\ a # {} => Low(a) \in a
      /\ b # {} => Low(b) \in b
  BY LowIsRow
<1>2. Low(a) \in 0 .. n - 1 /\ Low(a) \in a /\ Low(a) \in b
  BY <1>1
<1> DEFINE sum == AddColumn(a, b)
<1>3. sum \in SUBSET (0 .. n - 1) /\ Low(a) \notin sum
  <2>1. sum \in SUBSET (0 .. n - 1)
    BY AddColumnType
  <2>2. Low(a) \notin sum
    BY <1>2, AddColumnMember
  <2>3. QED
    BY <2>1, <2>2
<1>4. \A x \in sum : x <= Low(a)
  <2>1. \A x \in sum : x \in a \/ x \in b
    BY AddColumnMember
  <2>2. \A x \in a : x <= Low(a)
    BY LowIsGreatest
  <2>3. \A x \in b : x <= Low(b)
    BY LowIsGreatest
  <2>4. QED
    BY <2>1, <2>2, <2>3
<1> HIDE DEF sum
<1>5. CASE sum = {}
  <2>1. Low(sum) = -1
    BY <1>5 DEF Low, NoPivot
  <2>2. QED
    BY <2>1, <1>2 DEF sum
<1>6. CASE sum # {}
  <2>1. Low(sum) \in sum
    BY <1>3, <1>6, LowIsRow
  <2>2. Low(sum) <= Low(a) /\ Low(sum) # Low(a) /\ Low(sum) \in 0 .. n - 1
    BY <2>1, <1>3, <1>4
  <2>3. QED
    BY <2>2, <1>2 DEF sum
<1>7. QED
  BY <1>5, <1>6

----------------------------------------------------------------------------
(* The pivots of all combinations of the first n columns.                  *)
SpanPivots(matrix, n) == {Low(s) : s \in PrefixSpan(matrix, n)} \ {NoPivot}

(* No two columns share a pivot.                                           *)
PivotsDistinct(matrix, n) ==
  \A c, d \in 0 .. n - 1 :
    matrix[c] # {} /\ Low(matrix[c]) = Low(matrix[d]) => c = d

(* In a matrix whose columns have distinct pivots, combinations have no    *)
(* others.                                                                 *)
LEMMA ReducedPivots ==
  ASSUME NEW r \in Nat, NEW n \in Nat, NEW matrix,
         \A j \in 0 .. n - 1 : matrix[j] \in SUBSET (0 .. r - 1),
         PivotsDistinct(matrix, n)
  PROVE  SpanPivots(matrix, n)
           = {Low(matrix[c]) : c \in {d \in 0 .. n - 1 : matrix[d] # {}}}
<1> DEFINE Own(k) == {Low(matrix[c]) : c \in {d \in 0 .. k - 1 : matrix[d] # {}}}
           Good(k) == \A s \in PrefixSpan(matrix, k) : s # {} => Low(s) \in Own(k)
           Bad == {k \in 0 .. n : ~Good(k)}
<1>1. Bad = {}
  <2>1. SUFFICES ASSUME Bad # {} PROVE FALSE
    OBVIOUS
  <2>2. PICK k \in Bad : \A l \in Bad : k <= l
    <3>1. Bad \in SUBSET Nat
      OBVIOUS
    <3> HIDE DEF Bad
    <3>2. QED
      BY <2>1, <3>1, NatMinimum
  <2>3. k \in 0 .. n /\ ~Good(k)
    OBVIOUS
  <2>4. k # 0
    BY <2>3, SpanOfNone
  <2>5. k - 1 \in 0 .. n /\ k - 1 \in Nat /\ k - 1 \in 0 .. n - 1
        /\ ~(k <= k - 1) /\ (k - 1) + 1 = k
    BY <2>3, <2>4
  <2>6. Good(k - 1)
    BY <2>2, <2>5
  <2> DEFINE x == matrix[k - 1]
             U == PrefixSpan(matrix, k - 1)
  <2>7. PrefixSpan(matrix, k) = U \cup {AddColumn(s, x) : s \in U}
    <3>1. PrefixSpan(matrix, (k - 1) + 1) = U \cup {AddColumn(s, x) : s \in U}
      BY <2>5, SpanStep
    <3>2. QED
      BY <3>1, <2>5
  <2>8. x \in SUBSET (0 .. r - 1) /\ U \subseteq SUBSET (0 .. r - 1)
    <3> DEFINE p == k - 1
    <3>1. p \in Nat /\ \A j \in 0 .. p - 1 : matrix[j] \in SUBSET (0 .. r - 1)
      BY <2>5
    <3> HIDE DEF p
    <3>2. PrefixSpan(matrix, p) \subseteq SUBSET (0 .. r - 1)
      BY <3>1, SpanType
    <3>3. QED
      BY <2>5, <3>2 DEF p
  <2>9. Own(k - 1) \subseteq Own(k) /\ (x # {} => Low(x) \in Own(k))
    BY <2>3, <2>5
  <2>10. x # {} => Low(x) \notin Own(k - 1)
    <3>1. SUFFICES ASSUME x # {}, NEW c \in 0 .. (k - 1) - 1,
                          Low(matrix[c]) = Low(x)
                   PROVE  FALSE
      OBVIOUS
    <3>2. c \in 0 .. n - 1 /\ k - 1 \in 0 .. n - 1 /\ c # k - 1
      BY <2>5
    <3>3. QED
      BY <3>1, <3>2 DEF PivotsDistinct
  <2> HIDE DEF x, U, Own
  <2>11. \A s \in U : s # {} => Low(s) \in Own(k - 1)
    BY <2>6 DEF U
  <2>12. ASSUME NEW s \in U, AddColumn(s, x) # {}
         PROVE  Low(AddColumn(s, x)) \in Own(k)
    <3>1. CASE x = {}
      <4>1. AddColumn(s, x) = s
        BY <3>1, <2>8, AddColumnUnit
      <4>2. QED
        BY <4>1, <2>9, <2>11, <2>12
    <3>2. CASE s = {}
      <4>1. AddColumn(s, x) = x
        BY <3>2, <2>8, AddColumnUnit
      <4>2. QED
        BY <4>1, <2>9, <2>12
    <3>3. CASE x # {} /\ s # {}
      <4>1. Low(s) # Low(x)
        BY <3>3, <2>10, <2>11
      <4>2. Low(s) \in Int /\ Low(x) \in Int
        BY <2>8, LowIsRow DEF NoPivot
      <4>3. Low(s) < Low(x) \/ Low(x) < Low(s)
        BY <4>1, <4>2
      <4>4. Low(AddColumn(s, x)) = Low(x) \/ Low(AddColumn(s, x)) = Low(s)
        BY <4>3, <2>8, LowOfSum
      <4>5. QED
        BY <4>4, <3>3, <2>9, <2>11
    <3>4. QED
      BY <3>1, <3>2, <3>3
  <2>13. QED
    BY <2>3, <2>7, <2>9, <2>11, <2>12
<1>2. n \in 0 .. n
  OBVIOUS
<1>3. Good(n)
  BY <1>1, <1>2
<1>4. PrefixSpan(matrix, n) \subseteq SUBSET (0 .. r - 1)
  BY SpanType
<1>5. ASSUME NEW p \in SpanPivots(matrix, n)
      PROVE  p \in Own(n)
  <2>1. PICK s \in PrefixSpan(matrix, n) : p = Low(s) /\ Low(s) # NoPivot
    BY DEF SpanPivots
  <2>2. s # {}
    BY <2>1, <1>4, LowIsRow
  <2>3. QED
    BY <2>1, <2>2, <1>3
<1>6. ASSUME NEW c \in 0 .. n - 1, matrix[c] # {}
      PROVE  Low(matrix[c]) \in SpanPivots(matrix, n)
  <2>1. matrix[c] \in PrefixSpan(matrix, n)
    BY SpanHasColumn
  <2>2. Low(matrix[c]) # NoPivot
    BY <1>6, LowIsRow
  <2>3. QED
    BY <2>1, <2>2 DEF SpanPivots
<1>7. QED
  BY <1>5, <1>6

----------------------------------------------------------------------------
(* The persistence pivots: what Min picks, and which rows they are.        *)

LEMMA MinOfPivots ==
  ASSUME NEW T \in SUBSET (Nat \cup {NoPivot}), T # {}
  PROVE  Min(T) \in T /\ \A l \in T : Min(T) <= l
<1> DEFINE Shifted == {x + 1 : x \in T}
<1>1. \A x \in T : x \in Int /\ x + 1 \in Nat
  BY DEF NoPivot
<1>2. Shifted \in SUBSET Nat /\ Shifted # {}
  BY <1>1
<1>3. PICK g \in Shifted : \A h \in Shifted : g <= h
  BY <1>2, NatMinimum
<1>4. PICK x \in T : g = x + 1
  OBVIOUS
<1>5. ASSUME NEW y \in T
      PROVE  x <= y
  <2>1. y + 1 \in Shifted
    OBVIOUS
  <2>2. x + 1 <= y + 1
    BY <1>3, <1>4, <2>1
  <2>3. x \in Int /\ y \in Int
    BY <1>1
  <2>4. QED
    BY <2>2, <2>3
<1>6. QED
  BY <1>5 DEF Min

(* Every column of the span of a prefix, as the sum of a column with a     *)
(* combination of the columns before it.                                   *)
LEMMA SpanLastColumn ==
  ASSUME NEW S, NEW matrix, NEW k \in Nat,
         \A j \in 0 .. k : matrix[j] \in SUBSET S,
         NEW v \in PrefixSpan(matrix, k + 1)
  PROVE  \/ v \in PrefixSpan(matrix, k)
         \/ \E s \in PrefixSpan(matrix, k) : v = AddColumn(matrix[k], s)
BY SpanStep, AddColumnCommutes

LEMMA PersistencePivotLeast ==
  ASSUME NEW r \in Nat, NEW n \in Nat,
         NEW matrix \in [0 .. n - 1 -> SUBSET (0 .. r - 1)], NEW j \in 0 .. n - 1
  PROVE  /\ \E s \in PrefixSpan(matrix, j) :
              PersistencePivot(matrix, j) = Low(AddColumn(matrix[j], s))
         /\ \A s \in PrefixSpan(matrix, j) :
              PersistencePivot(matrix, j) <= Low(AddColumn(matrix[j], s))
         /\ PersistencePivot(matrix, j) \in (0 .. r - 1) \cup {NoPivot}
<1> DEFINE T == {Low(AddColumn(matrix[j], s)) : s \in PrefixSpan(matrix, j)}
<1>1. j \in Nat /\ \A i \in 0 .. j - 1 : matrix[i] \in SUBSET (0 .. r - 1)
  OBVIOUS
<1>2. PrefixSpan(matrix, j) \subseteq SUBSET (0 .. r - 1)
  BY <1>1, SpanType
<1>3. \A s \in PrefixSpan(matrix, j) :
        Low(AddColumn(matrix[j], s)) \in (0 .. r - 1) \cup {NoPivot}
  <2>1. ASSUME NEW s \in PrefixSpan(matrix, j)
        PROVE  Low(AddColumn(matrix[j], s)) \in (0 .. r - 1) \cup {NoPivot}
    <3>1. matrix[j] \in SUBSET (0 .. r - 1) /\ s \in SUBSET (0 .. r - 1)
      BY <1>2
    <3>2. AddColumn(matrix[j], s) \in SUBSET (0 .. r - 1)
      BY <3>1 DEF AddColumn, SymDiff
    <3>3. QED
      BY <3>2, LowIsRow
  <2>2. QED
    BY <2>1
<1>4. T \in SUBSET (Nat \cup {NoPivot})
  BY <1>3
<1>5. T # {}
  BY <1>1, SpanHasEmpty
<1>6. Min(T) \in T /\ \A l \in T : Min(T) <= l
  <2> HIDE DEF T
  <2>1. QED
    BY <1>4, <1>5, MinOfPivots
<1>7. PersistencePivot(matrix, j) = Min(T)
  BY DEF PersistencePivot
<1>8. QED
  BY <1>3, <1>6, <1>7

(* The birth rows of the persistence pairs are the pivots of all           *)
(* combinations of the columns: they do not depend on the order in which   *)
(* the columns are reduced.                                                *)
THEOREM PersistenceBirths ==
  ASSUME NEW r \in Nat, NEW n \in Nat,
         NEW matrix \in [0 .. n - 1 -> SUBSET (0 .. r - 1)]
  PROVE  {PersistencePivot(matrix, j) : j \in NegativeColumns(matrix)}
           = SpanPivots(matrix, n)
<1>1. NegativeColumns(matrix)
        = {j \in 0 .. n - 1 : PersistencePivot(matrix, j) # NoPivot}
  BY DEF NegativeColumns, Negative
<1>2. ASSUME NEW j \in 0 .. n - 1, PersistencePivot(matrix, j) # NoPivot
      PROVE  PersistencePivot(matrix, j) \in SpanPivots(matrix, n)
  <2>1. PICK s \in PrefixSpan(matrix, j) :
          PersistencePivot(matrix, j) = Low(AddColumn(matrix[j], s))
    BY PersistencePivotLeast
  <2>2. j \in Nat /\ j + 1 \in Nat /\ j + 1 <= n
    OBVIOUS
  <2>3. AddColumn(s, matrix[j]) \in PrefixSpan(matrix, j + 1)
    BY <2>2, SpanStep
  <2>4. AddColumn(matrix[j], s) \in PrefixSpan(matrix, n)
    BY <2>2, <2>3, SpanGrows, AddColumnCommutes
  <2>5. QED
    BY <2>1, <2>4, <1>2 DEF SpanPivots
<1>3. ASSUME NEW p \in SpanPivots(matrix, n)
      PROVE  \E j \in 0 .. n - 1 : PersistencePivot(matrix, j) = p
  <2> DEFINE T == {k \in 0 .. n : p \in SpanPivots(matrix, k)}
  <2>1. T \in SUBSET Nat /\ n \in T
    OBVIOUS
  <2>2. PICK k \in T : \A l \in T : k <= l
    <3> HIDE DEF T
    <3>1. QED
      BY <2>1, NatMinimum
  <2>3. k \in 0 .. n /\ p \in SpanPivots(matrix, k)
    OBVIOUS
  <2>4. PICK v \in PrefixSpan(matrix, k) : Low(v) = p /\ p # NoPivot
    BY <2>3 DEF SpanPivots
  <2>5. k # 0
    <3>1. Low({}) = NoPivot
      BY DEF Low
    <3>2. QED
      BY <2>4, <3>1, SpanOfNone
  <2> DEFINE j == k - 1
  <2>6. j \in Nat /\ j \in 0 .. n - 1 /\ j + 1 = k /\ j \in 0 .. n /\ ~(k <= j)
    BY <2>3, <2>5
  <2>7. p \notin SpanPivots(matrix, j)
    BY <2>2, <2>6
  <2> HIDE DEF j
  <2>8. /\ PrefixSpan(matrix, j) \subseteq SUBSET (0 .. r - 1)
        /\ \A a, b \in PrefixSpan(matrix, j) :
             AddColumn(a, b) \in PrefixSpan(matrix, j)
        /\ matrix[j] \in SUBSET (0 .. r - 1)
    <3>1. \A i \in 0 .. j - 1 : matrix[i] \in SUBSET (0 .. r - 1)
      BY <2>6
    <3>2. PrefixSpan(matrix, j) \subseteq SUBSET (0 .. r - 1)
      BY <2>6, <3>1, SpanType
    <3>3. \A a, b \in PrefixSpan(matrix, j) :
            AddColumn(a, b) \in PrefixSpan(matrix, j)
      BY <2>6, <3>1, SpanClosed
    <3>4. matrix[j] \in SUBSET (0 .. r - 1)
      BY <2>6
    <3>5. QED
      BY <3>2, <3>3, <3>4
  <2>9. v \notin PrefixSpan(matrix, j)
    BY <2>4, <2>7 DEF SpanPivots
  <2>10. PICK s \in PrefixSpan(matrix, j) : v = AddColumn(matrix[j], s)
    <3>1. v \in PrefixSpan(matrix, j + 1)
      BY <2>4, <2>6
    <3>2. PICK s \in PrefixSpan(matrix, j) : v = AddColumn(s, matrix[j])
      BY <3>1, <2>6, <2>9, SpanStep
    <3>3. QED
      BY <3>2, AddColumnCommutes
  <2>11. PICK t \in PrefixSpan(matrix, j) :
           PersistencePivot(matrix, j) = Low(AddColumn(matrix[j], t))
    BY <2>6, PersistencePivotLeast
  <2> DEFINE u == AddColumn(matrix[j], t)
  <2>12. PersistencePivot(matrix, j) <= p
    BY <2>4, <2>6, <2>10, PersistencePivotLeast
  <2>13. v \in SUBSET (0 .. r - 1) /\ u \in SUBSET (0 .. r - 1)
    <3>1. /\ matrix[j] \in SUBSET (0 .. r - 1)
          /\ s \in SUBSET (0 .. r - 1) /\ t \in SUBSET (0 .. r - 1)
      BY <2>8
    <3>2. QED
      BY <3>1, <2>10 DEF AddColumn, SymDiff
  <2>14. Low(u) \in Int /\ Low(v) \in Int
    BY <2>13, LowIsRow DEF NoPivot
  <2>15. AddColumn(u, v) = AddColumn(s, t)
    <3>1. AddColumn(u, v)
            = AddColumn(AddColumn(matrix[j], matrix[j]), AddColumn(t, s))
      BY <2>10, AddColumnInterchange
    <3>2. AddColumn(matrix[j], matrix[j]) = {} /\ AddColumn(t, s) = AddColumn(s, t)
      BY <2>8, AddColumnUnit, AddColumnCommutes
    <3>3. AddColumn({}, AddColumn(s, t)) = AddColumn(s, t)
      BY <2>8, AddColumnUnit
    <3>4. QED
      BY <3>1, <3>2, <3>3
  <2>16. AddColumn(u, v) \in PrefixSpan(matrix, j)
    BY <2>8, <2>15
  <2>17. CASE Low(u) < Low(v)
    <3>1. Low(AddColumn(u, v)) = Low(v)
      BY <2>13, <2>17, LowOfSum
    <3>2. QED
      BY <3>1, <2>4, <2>7, <2>16 DEF SpanPivots
  <2>18. QED
    BY <2>4, <2>6, <2>11, <2>12, <2>14, <2>17
<1>4. NoPivot \notin SpanPivots(matrix, n)
  BY DEF SpanPivots
<1>5. QED
  BY <1>1, <1>2, <1>3, <1>4

(* No two columns die with the same birth row.                             *)
LEMMA PersistencePivotsDistinct ==
  ASSUME NEW r \in Nat, NEW n \in Nat,
         NEW matrix \in [0 .. n - 1 -> SUBSET (0 .. r - 1)],
         NEW i \in 0 .. n - 1, NEW j \in 0 .. n - 1, i < j,
         PersistencePivot(matrix, i) = PersistencePivot(matrix, j)
  PROVE  PersistencePivot(matrix, j) = NoPivot
<1>1. SUFFICES ASSUME PersistencePivot(matrix, j) # NoPivot PROVE FALSE
  OBVIOUS
<1>2. PICK s \in PrefixSpan(matrix, i) :
        PersistencePivot(matrix, i) = Low(AddColumn(matrix[i], s))
  BY PersistencePivotLeast
<1>3. PICK t \in PrefixSpan(matrix, j) :
        PersistencePivot(matrix, j) = Low(AddColumn(matrix[j], t))
  BY PersistencePivotLeast
<1> DEFINE u == AddColumn(matrix[i], s)
           v == AddColumn(matrix[j], t)
<1>4. /\ i \in Nat /\ j \in Nat /\ i + 1 \in Nat /\ i + 1 <= j
      /\ \A k \in 0 .. i - 1 : matrix[k] \in SUBSET (0 .. r - 1)
      /\ \A k \in 0 .. j - 1 : matrix[k] \in SUBSET (0 .. r - 1)
      /\ matrix[i] \in SUBSET (0 .. r - 1) /\ matrix[j] \in SUBSET (0 .. r - 1)
  OBVIOUS
<1>5. /\ PrefixSpan(matrix, i) \subseteq SUBSET (0 .. r - 1)
      /\ PrefixSpan(matrix, j) \subseteq SUBSET (0 .. r - 1)
  BY <1>4, SpanType
<1>6. u \in PrefixSpan(matrix, j)
  <2>1. AddColumn(s, matrix[i]) \in PrefixSpan(matrix, i + 1)
    BY <1>4, SpanStep
  <2>2. QED
    BY <2>1, <1>4, SpanGrows, AddColumnCommutes
<1>7. AddColumn(t, u) \in PrefixSpan(matrix, j)
  BY <1>4, <1>6, SpanClosed
<1>8. AddColumn(v, u) = AddColumn(matrix[j], AddColumn(t, u))
  BY AddColumnAssociates
<1>9. Low(v) <= Low(AddColumn(v, u))
  BY <1>3, <1>7, <1>8, PersistencePivotLeast
<1>10. /\ u \in SUBSET (0 .. r - 1) /\ v \in SUBSET (0 .. r - 1)
       /\ AddColumn(v, u) \in SUBSET (0 .. r - 1)
  <2>1. s \in SUBSET (0 .. r - 1) /\ t \in SUBSET (0 .. r - 1)
    BY <1>5
  <2>2. u \in SUBSET (0 .. r - 1) /\ v \in SUBSET (0 .. r - 1)
    BY <1>4, <2>1 DEF AddColumn, SymDiff
  <2>3. QED
    BY <2>2 DEF AddColumn, SymDiff
<1>11. v # {} /\ Low(v) = Low(u)
  <2>1. Low(v) # NoPivot /\ Low(v) = Low(u)
    BY <1>1, <1>2, <1>3
  <2>2. QED
    BY <2>1 DEF Low
<1> HIDE DEF u, v
<1>12. Low(AddColumn(v, u)) < Low(v)
  BY <1>10, <1>11, LowCancels
<1>13. Low(AddColumn(v, u)) \in Int /\ Low(v) \in Int
  <2>1. /\ Low(AddColumn(v, u)) \in (0 .. r - 1) \cup {NoPivot}
        /\ Low(v) \in (0 .. r - 1) \cup {NoPivot}
    BY <1>10, LowIsRow
  <2>2. QED
    BY <2>1 DEF NoPivot
<1>14. QED
  BY <1>9, <1>12, <1>13

(* In a matrix with distinct pivots that a left-to-right reduction has     *)
(* made of another one, the pivot of every column is its persistence pivot.*)
THEOREM ReducedColumnPivot ==
  ASSUME NEW r \in Nat, NEW n \in Nat,
         NEW matrix \in [0 .. n - 1 -> SUBSET (0 .. r - 1)],
         NEW form \in [0 .. n - 1 -> SUBSET (0 .. r - 1)],
         NEW j \in 0 .. n - 1,
         PivotsDistinct(form, j + 1),
         PrefixSpan(form, j) = PrefixSpan(matrix, j),
         PrefixSpan(form, j + 1) = PrefixSpan(matrix, j + 1)
  PROVE  PersistencePivot(matrix, j) = Low(form[j])
<1> DEFINE V == PrefixSpan(matrix, j)
<1>1. /\ j \in Nat /\ j + 1 \in Nat /\ j \in 0 .. (j + 1) - 1
      /\ \A i \in 0 .. (j + 1) - 1 : i \in 0 .. n - 1
      /\ \A i \in 0 .. j - 1 : i \in 0 .. (j + 1) - 1 /\ i # j
      /\ \A i \in 0 .. j : i \in 0 .. n - 1
  OBVIOUS
<1>2. /\ matrix[j] \in SUBSET (0 .. r - 1) /\ form[j] \in SUBSET (0 .. r - 1)
      /\ \A i \in 0 .. j - 1 : matrix[i] \in SUBSET (0 .. r - 1)
      /\ \A i \in 0 .. j - 1 : form[i] \in SUBSET (0 .. r - 1)
  BY <1>1
<1>3. V \subseteq SUBSET (0 .. r - 1)
  <2>1. j \in Nat /\ \A i \in 0 .. j - 1 : matrix[i] \in SUBSET (0 .. r - 1)
    BY <1>1, <1>2
  <2> HIDE DEF V
  <2>2. PrefixSpan(matrix, j) \subseteq SUBSET (0 .. r - 1)
    BY <2>1, SpanType
  <2>3. QED
    BY <2>2 DEF V
<1>4. \A a, b \in V : AddColumn(a, b) \in V
  BY <1>1, <1>2, SpanClosed
<1>5. \A s \in V : s # {} => Low(s) \in {Low(form[c]) : c \in {d \in 0 .. j - 1 : form[d] # {}}}
  <2>1. PivotsDistinct(form, j)
    BY <1>1 DEF PivotsDistinct
  <2>2. SpanPivots(form, j)
          = {Low(form[c]) : c \in {d \in 0 .. j - 1 : form[d] # {}}}
    BY <1>1, <1>2, <2>1, ReducedPivots
  <2>3. ASSUME NEW s \in V, s # {}
        PROVE  Low(s) \in SpanPivots(form, j)
    <3>1. s \in SUBSET (0 .. r - 1)
      BY <1>3
    <3>2. Low(s) # NoPivot
      BY <2>3, <3>1, LowIsRow
    <3>3. QED
      BY <3>2 DEF SpanPivots
  <2>4. QED
    BY <2>2, <2>3
<1>6. form[j] # {} => \A s \in V : Low(s) # Low(form[j])
  <2>1. SUFFICES ASSUME form[j] # {}, NEW s \in V, Low(s) = Low(form[j])
                 PROVE  FALSE
    OBVIOUS
  <2>2. Low(form[j]) # NoPivot
    BY <2>1, <1>2, LowIsRow
  <2>3. s # {}
    BY <2>1, <2>2 DEF Low
  <2>4. PICK c \in 0 .. j - 1 : Low(form[c]) = Low(form[j])
    BY <2>1, <2>3, <1>5
  <2>5. QED
    BY <2>1, <2>4, <1>1 DEF PivotsDistinct
<1>7. V = PrefixSpan(form, j)
  OBVIOUS
<1>8. \A s \in V : AddColumn(matrix[j], s) \in PrefixSpan(matrix, j + 1)
  BY <1>1, SpanStep, AddColumnCommutes
<1>9. form[j] \in PrefixSpan(matrix, j + 1)
  BY <1>1, <1>2, SpanHasColumn
<1>10. PICK t \in V : PersistencePivot(matrix, j) = Low(AddColumn(matrix[j], t))
  BY PersistencePivotLeast
<1> DEFINE u == AddColumn(matrix[j], t)
<1>11. u \in SUBSET (0 .. r - 1)
  BY <1>2, <1>3 DEF AddColumn, SymDiff
<1>12. u \in V \/ \E s \in V : u = AddColumn(form[j], s)
  <2>1. u \in PrefixSpan(form, j + 1)
    BY <1>8
  <2>2. \/ u \in PrefixSpan(form, j)
        \/ \E s \in PrefixSpan(form, j) : u = AddColumn(s, form[j])
    BY <1>1, <2>1, SpanStep
  <2>3. QED
    BY <1>7, <2>2, AddColumnCommutes
<1>13. form[j] \in V \/ \E s \in V : form[j] = AddColumn(matrix[j], s)
  BY <1>1, <1>9, SpanStep, AddColumnCommutes
<1> HIDE DEF V, u
<1>14. CASE form[j] \in V
  <2>1. form[j] = {}
    BY <1>6, <1>14
  <2>2. u \in V
    BY <1>4, <1>12, <1>14
  <2>3. matrix[j] \in V
    <3>1. AddColumn(u, t) \in V
      BY <1>4, <2>2
    <3>2. AddColumn(u, t) = matrix[j]
      <4>1. t \in SUBSET (0 .. r - 1)
        BY <1>3
      <4>2. QED
        BY <1>2, <4>1 DEF u, AddColumn, SymDiff
    <3>3. QED
      BY <3>1, <3>2
  <2>4. AddColumn(matrix[j], matrix[j]) = {}
    BY <1>2, AddColumnUnit
  <2>5. PersistencePivot(matrix, j) <= Low({})
    <3>1. PersistencePivot(matrix, j) <= Low(AddColumn(matrix[j], matrix[j]))
      BY <2>3, PersistencePivotLeast DEF V
    <3>2. QED
      BY <2>4, <3>1
  <2>6. PersistencePivot(matrix, j) \in Nat \cup {NoPivot}
    BY PersistencePivotLeast
  <2>7. QED
    BY <2>1, <2>5, <2>6 DEF Low, NoPivot
<1>15. CASE form[j] \notin V
  <2>1. PICK s \in V : form[j] = AddColumn(matrix[j], s)
    BY <1>13, <1>15
  <2>2. PersistencePivot(matrix, j) <= Low(form[j])
    BY <2>1, PersistencePivotLeast DEF V
  <2>3. AddColumn(form[j], u) = AddColumn(s, t)
    <3>1. s \in SUBSET (0 .. r - 1) /\ t \in SUBSET (0 .. r - 1)
      BY <1>3
    <3>2. QED
      BY <1>2, <2>1, <3>1 DEF u, AddColumn, SymDiff
  <2>4. AddColumn(form[j], u) \in V
    BY <1>4, <2>3
  <2>5. form[j] # {}
    <3>1. {} \in V
      BY <1>1, SpanHasEmpty DEF V
    <3>2. QED
      BY <3>1, <1>15
  <2>6. ~(Low(u) < Low(form[j]))
    <3>1. Low(u) < Low(form[j]) => Low(AddColumn(form[j], u)) = Low(form[j])
      BY <1>2, <1>11, LowOfSum
    <3>2. QED
      BY <3>1, <2>4, <2>5, <1>6
  <2>7. Low(u) = PersistencePivot(matrix, j)
    BY <1>10 DEF u
  <2>8. Low(u) \in Int /\ Low(form[j]) \in Int
    BY <1>2, <1>11, LowIsRow DEF NoPivot
  <2>9. QED
    BY <2>2, <2>6, <2>7, <2>8
<1>16. QED
  BY <1>14, <1>15

(* The pairs <<f[j], j>> over D, and the set of their births.              *)
PairsOf(f, D) == {<<f[j], j>> : j \in D}
BirthsOf(f, D) == {f[j] : j \in D}
OneToOne(f, D) == \A i, j \in D : f[i] = f[j] => i = j

(* As many pairs as births.                                                *)
LEMMA PairingCardinality ==
  ASSUME NEW D, IsFiniteSet(D), NEW f, OneToOne(f, D)
  PROVE  /\ Cardinality(PairsOf(f, D)) = Cardinality(BirthsOf(f, D))
         /\ {p[1] : p \in PairsOf(f, D)} = BirthsOf(f, D)
<1> DEFINE P == PairsOf(f, D)
           B == BirthsOf(f, D)
<1> USE DEF PairsOf, BirthsOf, OneToOne
<1> DEFINE g == [j \in D |-> <<f[j], j>>]
           h == [j \in D |-> f[j]]
<1>1. g \in Bijection(D, P)
  BY DEF Bijection, Injection, Surjection, IsInjective
<1>2. h \in Bijection(D, B)
  BY DEF Bijection, Injection, Surjection, IsInjective
<1>3. Cardinality(P) = Cardinality(D)
  <2> HIDE DEF g, P
  <2>1. QED
    BY <1>1, FS_Bijection DEF ExistsBijection
<1>4. Cardinality(B) = Cardinality(D)
  <2> HIDE DEF h, B
  <2>1. QED
    BY <1>2, FS_Bijection DEF ExistsBijection
<1>5. {p[1] : p \in P} = B
  <2>1. ASSUME NEW x \in B
        PROVE  \E p \in P : p[1] = x
    <3>1. PICK j \in D : x = f[j]
      OBVIOUS
    <3>2. <<f[j], j>> \in P /\ <<f[j], j>>[1] = x
      BY <3>1
    <3>3. QED
      BY <3>2
  <2>2. ASSUME NEW p \in P
        PROVE  p[1] \in B
    OBVIOUS
  <2>3. QED
    BY <2>1, <2>2
<1>6. QED
  BY <1>3, <1>4, <1>5

LEMMA PersistencePairsCount ==
  ASSUME NEW r \in Nat, NEW n \in Nat,
         NEW matrix \in [0 .. n - 1 -> SUBSET (0 .. r - 1)]
  PROVE  /\ {p[1] : p \in PersistencePairs(matrix)} = SpanPivots(matrix, n)
         /\ Cardinality(PersistencePairs(matrix)) = Cardinality(SpanPivots(matrix, n))
<1> DEFINE D == NegativeColumns(matrix)
           f == [j \in D |-> PersistencePivot(matrix, j)]
<1>1. D \in SUBSET (0 .. n - 1) /\ \A j \in D : PersistencePivot(matrix, j) # NoPivot
  BY DEF NegativeColumns, Negative
<1>2. IsFiniteSet(D)
  <2>1. IsFiniteSet(0 .. n - 1)
    BY FS_Interval
  <2>2. QED
    BY <1>1, <2>1, FS_Subset
<1>3. ASSUME NEW i \in D, NEW j \in D, f[i] = f[j]
      PROVE  i = j
  <2>1. i \in 0 .. n - 1 /\ j \in 0 .. n - 1
    BY <1>1
  <2>2. ~(i < j) /\ ~(j < i)
    BY <1>1, <1>3, <2>1, PersistencePivotsDistinct
  <2>3. QED
    BY <2>1, <2>2
<1>4. /\ PersistencePairs(matrix) = PairsOf(f, D)
      /\ {PersistencePivot(matrix, j) : j \in D} = BirthsOf(f, D)
  BY DEF PersistencePairs, PairsOf, BirthsOf
<1>5. BirthsOf(f, D) = SpanPivots(matrix, n)
  BY <1>4, PersistenceBirths
<1> HIDE DEF D, f
<1>6. OneToOne(f, D)
  BY <1>3 DEF OneToOne
<1>7. QED
  BY <1>2, <1>4, <1>5, <1>6, PairingCardinality

----------------------------------------------------------------------------
(* Chains and their boundaries.                                            *)
LEMMA BoundaryMember ==
  ASSUME NEW matrix, NEW chain, NEW row
  PROVE  row \in BoundaryOf(matrix, chain)
           <=> Cardinality(Through(matrix, chain, row)) % 2 = 1
<1>1. CASE row \in UNION {matrix[c] : c \in chain}
  BY <1>1 DEF BoundaryOf
<1>2. CASE row \notin UNION {matrix[c] : c \in chain}
  <2>1. Through(matrix, chain, row) = {}
    BY <1>2 DEF Through
  <2>2. Cardinality(Through(matrix, chain, row)) % 2 = 0
    BY <2>1, FS_EmptySet
  <2>3. QED
    BY <1>2, <2>2 DEF BoundaryOf
<1>3. QED
  BY <1>1, <1>2

LEMMA ParityOfSum ==
  ASSUME NEW a, NEW b, IsFiniteSet(a), IsFiniteSet(b)
  PROVE  Cardinality(AddColumn(a, b)) % 2 = 1
           <=> ~(Cardinality(a) % 2 = 1 <=> Cardinality(b) % 2 = 1)
<1> DEFINE p == Cardinality(a)
           q == Cardinality(b)
           i == Cardinality(a \cap b)
           s == Cardinality(AddColumn(a, b))
<1>1. /\ IsFiniteSet(a \ b) /\ Cardinality(a \ b) = p - i
      /\ IsFiniteSet(b \ a) /\ Cardinality(b \ a) = q - Cardinality(b \cap a)
  BY FS_Difference
<1>2. a \cap b = b \cap a
  OBVIOUS
<1>3. AddColumn(a, b) = (a \ b) \cup (b \ a)
  BY DEF AddColumn, SymDiff
<1>4. s = (p - i) + (q - i) - Cardinality((a \ b) \cap (b \ a))
  <2>1. Cardinality((a \ b) \cup (b \ a))
          = Cardinality(a \ b) + Cardinality(b \ a) - Cardinality((a \ b) \cap (b \ a))
    BY <1>1, FS_Union
  <2>2. Cardinality(b \ a) = q - i
    BY <1>1, <1>2
  <2> HIDE DEF p, q, i
  <2>3. QED
    BY <1>1, <1>3, <2>1, <2>2
<1>5. (a \ b) \cap (b \ a) = {}
  OBVIOUS
<1>6. p \in Nat /\ q \in Nat /\ i \in Nat
  BY FS_CardinalityType, FS_Intersection
<1>7. Cardinality((a \ b) \cap (b \ a)) = 0
  BY <1>5, FS_EmptySet
<1> HIDE DEF p, q, i, s
<1>8. s = (p + q) - 2 * i
  BY <1>4, <1>6, <1>7
<1>9. (s % 2 = 1) <=> ~((p % 2 = 1) <=> (q % 2 = 1))
  BY <1>6, <1>8
<1>10. QED
  BY <1>9 DEF p, q, s

LEMMA BoundaryOfSum ==
  ASSUME NEW matrix, NEW a, NEW b, IsFiniteSet(a), IsFiniteSet(b)
  PROVE  BoundaryOf(matrix, AddColumn(a, b))
           = AddColumn(BoundaryOf(matrix, a), BoundaryOf(matrix, b))
<1>1. ASSUME NEW row
      PROVE  row \in BoundaryOf(matrix, AddColumn(a, b))
               <=> row \in AddColumn(BoundaryOf(matrix, a), BoundaryOf(matrix, b))
  <2> DEFINE x == Through(matrix, a, row)
             y == Through(matrix, b, row)
  <2>1. IsFiniteSet(x) /\ IsFiniteSet(y)
    BY FS_Subset DEF Through
  <2>2. Through(matrix, AddColumn(a, b), row) = AddColumn(x, y)
    BY DEF Through, AddColumn, SymDiff
  <2>3. row \in BoundaryOf(matrix, AddColumn(a, b)) <=> Cardinality(AddColumn(x, y)) % 2 = 1
    BY <2>2, BoundaryMember
  <2>4. row \in BoundaryOf(matrix, a) <=> Cardinality(x) % 2 = 1
    BY BoundaryMember
  <2>5. row \in BoundaryOf(matrix, b) <=> Cardinality(y) % 2 = 1
    BY BoundaryMember
  <2>6. Cardinality(AddColumn(x, y)) % 2 = 1
          <=> ~(Cardinality(x) % 2 = 1 <=> Cardinality(y) % 2 = 1)
    BY <2>1, ParityOfSum
  <2> HIDE DEF x, y
  <2>7. QED
    BY <2>3, <2>4, <2>5, <2>6, AddColumnMember
<1>2. QED
  BY <1>1

LEMMA BoundaryOfColumn ==
  ASSUME NEW matrix, NEW c
  PROVE  BoundaryOf(matrix, {c}) = matrix[c]
<1>1. ASSUME NEW row
      PROVE  row \in BoundaryOf(matrix, {c}) <=> row \in matrix[c]
  <2>1. Through(matrix, {c}, row) = IF row \in matrix[c] THEN {c} ELSE {}
    BY DEF Through
  <2>2. Cardinality({c}) = 1 /\ Cardinality({}) = 0
    BY FS_Singleton, FS_EmptySet
  <2>3. (1 % 2 = 1) /\ ~(0 % 2 = 1)
    OBVIOUS
  <2>4. QED
    BY <2>1, <2>2, <2>3, BoundaryMember
<1>2. QED
  BY <1>1 DEF BoundaryOf

(* The boundary of a chain is a combination of its columns.                *)
LEMMA BoundaryInSpan ==
  ASSUME NEW S, NEW matrix, NEW n \in Nat,
         \A j \in 0 .. n - 1 : matrix[j] \in SUBSET S,
         NEW chain \in SUBSET (0 .. n - 1)
  PROVE  BoundaryOf(matrix, chain) \in PrefixSpan(matrix, n)
<1> DEFINE Part(k) == chain \cap (0 .. k - 1)
           Bad == {k \in 0 .. n : BoundaryOf(matrix, Part(k)) \notin PrefixSpan(matrix, k)}
<1>1. Bad = {}
  <2>1. SUFFICES ASSUME Bad # {} PROVE FALSE
    OBVIOUS
  <2>2. PICK k \in Bad : \A l \in Bad : k <= l
    <3>1. Bad \in SUBSET Nat
      OBVIOUS
    <3> HIDE DEF Bad
    <3>2. QED
      BY <2>1, <3>1, NatMinimum
  <2>3. k \in 0 .. n /\ BoundaryOf(matrix, Part(k)) \notin PrefixSpan(matrix, k)
    OBVIOUS
  <2>4. CASE k = 0
    <3>1. Part(k) = {}
      BY <2>4
    <3>2. BoundaryOf(matrix, {}) = {}
      BY DEF BoundaryOf
    <3>3. QED
      BY <2>3, <2>4, <3>1, <3>2, SpanHasEmpty
  <2>5. CASE k # 0
    <3> DEFINE l == k - 1
    <3>1. l \in 0 .. n /\ l \in Nat /\ l \in 0 .. n - 1 /\ ~(k <= l) /\ l + 1 = k
      BY <2>3, <2>5
    <3>2. BoundaryOf(matrix, Part(l)) \in PrefixSpan(matrix, l)
      BY <2>2, <3>1
    <3>3. 0 .. k - 1 = (0 .. l - 1) \cup {l} /\ l \notin 0 .. l - 1
      BY <2>3, <3>1
    <3> HIDE DEF l, Bad
    <3>4. CASE l \notin chain
      <4>1. Part(k) = Part(l)
        BY <3>3, <3>4
      <4>2. BoundaryOf(matrix, Part(k)) \in PrefixSpan(matrix, l + 1)
        <5>1. l + 1 \in Nat /\ l <= l + 1
          BY <3>1
        <5>2. QED
          BY <3>1, <3>2, <4>1, <5>1, SpanGrows
      <4>3. QED
        BY <2>3, <3>1, <4>2
    <3>5. CASE l \in chain
      <4>1. Part(k) = AddColumn(Part(l), {l})
        BY <3>3, <3>5 DEF AddColumn, SymDiff
      <4>2. IsFiniteSet(Part(l)) /\ IsFiniteSet({l})
        <5>1. IsFiniteSet(0 .. l - 1)
          BY <3>1, FS_Interval
        <5>2. Part(l) \in SUBSET (0 .. l - 1)
          OBVIOUS
        <5> HIDE DEF Part
        <5>3. IsFiniteSet(Part(l))
          BY <5>1, <5>2, FS_Subset
        <5>4. IsFiniteSet({l})
          BY FS_Singleton
        <5>5. QED
          BY <5>3, <5>4
      <4> HIDE DEF Part
      <4>3. BoundaryOf(matrix, Part(k)) = AddColumn(BoundaryOf(matrix, Part(l)), matrix[l])
        <5>1. BoundaryOf(matrix, AddColumn(Part(l), {l}))
                = AddColumn(BoundaryOf(matrix, Part(l)), BoundaryOf(matrix, {l}))
          BY <4>2, BoundaryOfSum
        <5>2. QED
          BY <4>1, <5>1, BoundaryOfColumn
      <4>4. BoundaryOf(matrix, Part(k)) \in PrefixSpan(matrix, l + 1)
        BY <3>1, <3>2, <4>3, SpanStep
      <4>5. QED
        BY <2>3, <3>1, <4>4
    <3>6. QED
      BY <3>4, <3>5
  <2>6. QED
    BY <2>4, <2>5
<1>2. n \in 0 .. n /\ Part(n) = chain
  OBVIOUS
<1> HIDE DEF Part
<1>3. QED
  BY <1>1, <1>2

(* The boundary of a combination of boundaries is empty.                   *)
LEMMA SpanHasNoBoundary ==
  ASSUME NEW n \in Nat, NEW matrix \in [0 .. n - 1 -> SUBSET (0 .. n - 1)],
         BoundaryOfBoundaryEmpty(matrix), NEW z \in PrefixSpan(matrix, n)
  PROVE  BoundaryOf(matrix, z) = {}
<1> DEFINE T == {x \in SUBSET (0 .. n - 1) : BoundaryOf(matrix, x) = {}}
<1>1. {} \in T
  BY DEF BoundaryOf
<1>2. ASSUME NEW a \in T, NEW b \in T
      PROVE  AddColumn(a, b) \in T
  <2>1. IsFiniteSet(0 .. n - 1)
    BY FS_Interval
  <2>2. IsFiniteSet(a) /\ IsFiniteSet(b)
    BY <2>1, FS_Subset
  <2>3. BoundaryOf(matrix, AddColumn(a, b)) = AddColumn({}, {})
    <3>1. BoundaryOf(matrix, AddColumn(a, b))
            = AddColumn(BoundaryOf(matrix, a), BoundaryOf(matrix, b))
      BY <2>2, BoundaryOfSum
    <3>2. QED
      BY <3>1
  <2>4. AddColumn({}, {}) = {}
    BY DEF AddColumn, SymDiff
  <2>5. QED
    BY <2>3, <2>4, AddColumnType
<1>3. \A j \in 0 .. n - 1 : matrix[j] \in T
  BY DEF BoundaryOfBoundaryEmpty
<1> HIDE DEF T
<1>4. PrefixSpan(matrix, n) \subseteq T
  BY <1>1, <1>2, <1>3, SpanLeast
<1>5. QED
  BY <1>4 DEF T

(* What clearing rests on: the simplex with which a combination of         *)
(* boundaries is born has a column that depends on the columns before it.  *)
THEOREM BirthsArePositive ==
  ASSUME NEW n \in Nat, NEW matrix \in [0 .. n - 1 -> SUBSET (0 .. n - 1)],
         BoundaryOfBoundaryEmpty(matrix), NEW z \in PrefixSpan(matrix, n), z # {}
  PROVE  /\ Low(z) \in 0 .. n - 1
         /\ matrix[Low(z)] \in PrefixSpan(matrix, Low(z))
<1>1. z \in SUBSET (0 .. n - 1)
  BY SpanType
<1>2. Low(z) \in z /\ Low(z) \in 0 .. n - 1 /\ \A x \in z : x <= Low(z)
  BY <1>1, LowIsRow, LowIsGreatest
<1> DEFINE b == Low(z)
           rest == z \ {b}
<1>3. rest \in SUBSET (0 .. b - 1)
  <2>1. ASSUME NEW x \in rest PROVE x \in 0 .. b - 1
    <3>1. x \in 0 .. n - 1 /\ x <= b /\ x # b
      BY <1>1, <1>2
    <3>2. b \in 0 .. n - 1
      BY <1>2
    <3>3. QED
      BY <3>1, <3>2
  <2>2. QED
    BY <2>1
<1>4. z = AddColumn(rest, {b})
  BY <1>2 DEF AddColumn, SymDiff
<1>5. IsFiniteSet(rest) /\ IsFiniteSet({b})
  <2>1. IsFiniteSet(0 .. n - 1)
    BY FS_Interval
  <2>2. QED
    BY <1>1, <2>1, FS_Subset, FS_Singleton
<1>6. b \in Nat /\ b \in 0 .. n - 1 /\ \A j \in 0 .. b - 1 : j \in 0 .. n - 1
  BY <1>2
<1> HIDE DEF b, rest
<1>7. AddColumn(BoundaryOf(matrix, rest), matrix[b]) = {}
  <2>1. BoundaryOf(matrix, AddColumn(rest, {b}))
          = AddColumn(BoundaryOf(matrix, rest), BoundaryOf(matrix, {b}))
    BY <1>5, BoundaryOfSum
  <2>2. BoundaryOf(matrix, z) = {}
    BY SpanHasNoBoundary
  <2>3. QED
    BY <1>4, <2>1, <2>2, BoundaryOfColumn
<1>8. BoundaryOf(matrix, rest) = matrix[b]
  BY <1>7 DEF AddColumn, SymDiff
<1>9. BoundaryOf(matrix, rest) \in PrefixSpan(matrix, b)
  BY <1>3, <1>6, BoundaryInSpan
<1>10. QED
  BY <1>6, <1>8, <1>9 DEF b

(* Emptying a column that depends on the columns before it, the other step *)
(* of a reduction with clearing.  It keeps the span of every prefix.       *)
LEMMA SpanKeptByClearing ==
  ASSUME NEW n \in Nat, NEW matrix, NEW other,
         \A j \in 0 .. n - 1 : matrix[j] \in SUBSET Int,
         NEW c \in 0 .. n - 1, matrix[c] \in PrefixSpan(matrix, c), other[c] = {},
         \A j \in 0 .. n - 1 : j # c => other[j] = matrix[j],
         NEW k \in 0 .. n
  PROVE  PrefixSpan(other, k) = PrefixSpan(matrix, k)
<1>1. \A j \in 0 .. n - 1 : other[j] \in SUBSET Int
  OBVIOUS
<1>2. ASSUME NEW l \in 0 .. n
      PROVE  /\ l \in Nat
             /\ \A j \in 0 .. l - 1 : j \in 0 .. n - 1
             /\ \A j \in 0 .. l - 1 : matrix[j] \in SUBSET Int /\ other[j] \in SUBSET Int
             /\ PrefixSpan(other, l) \subseteq PrefixSpan(matrix, l)
  <2>1. l \in Nat /\ \A j \in 0 .. l - 1 : j \in 0 .. n - 1
    OBVIOUS
  <2>2. \A j \in 0 .. l - 1 : matrix[j] \in SUBSET Int /\ other[j] \in SUBSET Int
    BY <1>1, <2>1
  <2>3. \A j \in 0 .. l - 1 : other[j] \in PrefixSpan(matrix, l)
    BY <1>1, <2>1, <2>2, SpanHasColumn, SpanHasEmpty
  <2>4. QED
    BY <2>1, <2>2, <2>3, SpanWithin
<1>3. c \in 0 .. n /\ c \in Nat /\ c \notin 0 .. c - 1
  OBVIOUS
<1>4. PrefixSpan(matrix, c) \subseteq PrefixSpan(other, c)
  <2>1. \A j \in 0 .. c - 1 : matrix[j] \in PrefixSpan(other, c)
    BY <1>1, <1>2, <1>3, SpanHasColumn
  <2>2. QED
    BY <1>2, <1>3, <2>1, SpanWithin
<1>5. \A j \in 0 .. k - 1 : matrix[j] \in PrefixSpan(other, k)
  <2>1. SUFFICES ASSUME NEW j \in 0 .. k - 1
                 PROVE  matrix[j] \in PrefixSpan(other, k)
    OBVIOUS
  <2>2. CASE j = c
    <3>1. c <= k /\ k \in Nat
      BY <2>2
    <3>2. PrefixSpan(other, c) \subseteq PrefixSpan(other, k)
      BY <1>3, <3>1, SpanGrows
    <3>3. QED
      BY <2>2, <1>4, <3>2
  <2>3. CASE j # c
    <3>1. other[j] \in PrefixSpan(other, k)
      BY <1>2, SpanHasColumn
    <3>2. QED
      BY <1>1, <1>2, <2>3, <3>1
  <2>4. QED
    BY <2>2, <2>3
<1>6. PrefixSpan(matrix, k) \subseteq PrefixSpan(other, k)
  BY <1>2, <1>5, SpanWithin
<1>7. QED
  BY <1>2, <1>6

(* A column that depends on the columns before it has no pivot.            *)
LEMMA PositiveHasNoPivot ==
  ASSUME NEW r \in Nat, NEW n \in Nat,
         NEW matrix \in [0 .. n - 1 -> SUBSET (0 .. r - 1)], NEW j \in 0 .. n - 1,
         matrix[j] \in PrefixSpan(matrix, j)
  PROVE  PersistencePivot(matrix, j) = NoPivot
<1>1. AddColumn(matrix[j], matrix[j]) = {}
  BY AddColumnUnit
<1>2. PersistencePivot(matrix, j) <= Low({})
  <2>1. PersistencePivot(matrix, j) <= Low(AddColumn(matrix[j], matrix[j]))
    BY PersistencePivotLeast
  <2>2. QED
    BY <1>1, <2>1
<1>3. PersistencePivot(matrix, j) \in (0 .. r - 1) \cup {NoPivot}
  BY PersistencePivotLeast
<1>4. QED
  BY <1>2, <1>3 DEF Low, NoPivot

============================================================================
