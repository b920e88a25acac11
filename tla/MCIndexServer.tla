--------------------------- MODULE MCIndexServer ---------------------------
(***************************************************************************)
(* IndexServer for TLC.  Repositories and request goroutines are sets of   *)
(* model values; nothing in IndexServer tells two repositories apart, so   *)
(* safety runs may take them up to permutation.  The slots of Refresh's    *)
(* goroutines are numbers (RefreshSpawn takes the least idle one) and are  *)
(* not permuted.                                                           *)
(***************************************************************************)
EXTENDS IndexServer, TLC

RepoSymmetry == Permutations(Repos)

=============================================================================
