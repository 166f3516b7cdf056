------------------------ MODULE MCLockfreeReduction ------------------------
(***************************************************************************)
(* Instances of LockfreeReduction for TLC.                                 *)
(***************************************************************************)
EXTENDS LockfreeReduction, TLC

(* Boundary matrices of graphs: the rows are vertices, the columns are     *)
(* distinct edges in filtration order.                                     *)
Edges == {e \in SUBSET Rows : Cardinality(e) = 2}

GraphMatrices ==
  {m \in [Columns -> Edges] : \A c, d \in Columns : c # d => m[c] # m[d]}

(* The hollow triangle, simplices numbered across dimensions: columns 0-2  *)
(* are the vertices (empty), then the edges 02, 12, 01 in this order.      *)
HollowTriangle ==
  {(0 :> {}) @@ (1 :> {}) @@ (2 :> {}) @@
   (3 :> {0, 2}) @@ (4 :> {1, 2}) @@ (5 :> {0, 1})}

(* Four simplices over three vertices, the second without a boundary: with *)
(* three workers two columns share a queue and an empty column is in it.   *)
LateVertex ==
  {m \in [Columns -> {{}} \cup Edges] :
     /\ m[1] = {}
     /\ \A c \in Columns \ {1} : m[c] # {}
     /\ \A c, d \in Columns : c # d => m[c] # m[d]}
============================================================================
