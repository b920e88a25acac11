-------------------------- MODULE MCIndexServerSeq --------------------------
(***************************************************************************)
(* IndexServerSeq for TLC.  Repositories are model values that nothing in  *)
(* the module tells apart; safety runs take them up to permutation.        *)
(***************************************************************************)
EXTENDS IndexServerSeq, TLC

RepoSymmetry == Permutations(Repos)

=============================================================================
