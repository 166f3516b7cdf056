---------------------- MODULE MCShardedBoundaryMatrix ----------------------
(***************************************************************************)
(* Instances of ShardedBoundaryMatrix for TLC.                             *)
(***************************************************************************)
EXTENDS ShardedBoundaryMatrix

(* DistributedPersistence::compute.                                        *)
Compute == <<"distribute", "barrier", "reduce", "barrier", "gather">>

(* Callers of the matrix itself: they checkpoint before or after the       *)
(* reduction, and start again from what is on disk.                        *)
SaveInput   == <<"distribute", "checkpoint", "reduce", "read">>
SaveReduced == <<"distribute", "reduce", "checkpoint">>
Resume      == <<"restore", "reduce", "read">>

Programs == {Compute, SaveInput, SaveReduced, Resume}

ASSUME ProgramsReport == \A p \in Programs : ReportsReduced(p)

(* A cycle across ranks; a column that reduces against two others; columns *)
(* of which two ranks together are too long for MPI; and columns of which  *)
(* rank 0 alone has too many.                                              *)
Samples ==
  {(0 :> {0, 2}) @@ (1 :> {1, 2}) @@ (2 :> {0, 1}),
   (0 :> {1, 2}) @@ (1 :> {2}) @@ (2 :> {0, 1, 2}),
   (0 :> {0, 1, 2}) @@ (1 :> {1, 2}) @@ (2 :> {0, 1, 3}),
   (0 :> 0 .. 6) @@ (1 :> {3}) @@ (2 :> 0 .. 7 \ {6})}
============================================================================
