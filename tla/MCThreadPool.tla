--------------------------- MODULE MCThreadPool ---------------------------
(* Instances of ThreadPool for TLC.                                        *)
EXTENDS ThreadPool, TLC

(* Clients do the same things; the tasks differ in whether they throw.     *)
ClientSymmetry == Permutations(Clients)
============================================================================
