----------------------------- MODULE MCReducer -----------------------------
(***************************************************************************)
(* Instances of Reducer for TLC, built from small simplicial complexes.    *)
(***************************************************************************)
EXTENDS Reducer, Sequences, SequencesExt, TLC

(* A filtration is a sequence of simplices, each a set of vertices, with   *)
(* the dimensions in ascending order, as buildIndexMaps numbers them.      *)
Faces(filtration, c) ==
  {r \in 0 .. Len(filtration) - 1 :
     /\ filtration[r+1] \subseteq filtration[c+1]
     /\ Cardinality(filtration[r+1]) = Cardinality(filtration[c+1]) - 1
     /\ Cardinality(filtration[c+1]) > 1}

(* BoundaryMatrix(complex): all dimensions, row r is the simplex of column *)
(* r.                                                                      *)
FullMatrix(filtration) ==
  [columns |-> [c \in 0 .. Len(filtration) - 1 |-> Faces(filtration, c)],
   column_of_row |-> [r \in Rows |-> IF r < Len(filtration) THEN r ELSE NoColumn]]

(* BoundaryMatrix(complex, 1): rows are vertices, columns are edges, and   *)
(* no row has a column of its own.                                         *)
EdgeMatrix(edges) ==
  [columns |-> [c \in 0 .. Len(edges) - 1 |-> edges[c+1]],
   column_of_row |-> [r \in Rows |-> NoColumn]]

Vertices(n) == [i \in 1 .. n |-> {i-1}]

Orders(S) == {s \in [1 .. Cardinality(S) -> S] : \A i, j \in DOMAIN s : i # j => s[i] # s[j]}

(* A square with one diagonal, its edges in every order, and none, one or  *)
(* both of its triangles.                                                  *)
SquareEdges == {{0,1}, {1,2}, {2,3}, {0,3}, {0,2}}
Squares ==
  {FullMatrix(Vertices(4) \o e \o t) :
     e \in Orders(SquareEdges),
     t \in {<< >>, <<{0,1,2}>>, <<{0,1,2}, {0,2,3}>>}}

(* The boundary of a tetrahedron: four triangles around a void.            *)
Spheres ==
  {FullMatrix(Vertices(4) \o e \o <<{0,1,2}, {0,1,3}, {0,2,3}, {1,2,3}>>) :
     e \in {<<{0,1}, {0,2}, {0,3}, {1,2}, {1,3}, {2,3}>>,
            <<{2,3}, {1,2}, {0,1}, {0,3}, {1,3}, {0,2}>>}}

Complexes == Squares \cup Spheres

(* The triangle without its interior, edges in every order.                *)
HollowTriangles ==
  {FullMatrix(Vertices(3) \o e) : e \in Orders({{0,1}, {0,2}, {1,2}})}

(* The edges of a square with a diagonal, on their own.                    *)
EdgeMatrices == {EdgeMatrix(e) : e \in Orders(SquareEdges)}
AllMatrices == Complexes \cup EdgeMatrices

(* The matrices of complexes are boundary matrices.                        *)
ASSUME InputsAreBoundaries == BoundaryMatrices
============================================================================
