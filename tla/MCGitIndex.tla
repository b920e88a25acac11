----------------------------- MODULE MCGitIndex -----------------------------
(***************************************************************************)
(* GitIndex for TLC: a blob's id is also its size, so that with SizeMax 1  *)
(* blob 1 is of exactly the largest size that is indexed and blob 2 is     *)
(* one byte too large.  Nothing tells two branches below branchPrefix      *)
(* apart.                                                                  *)
(***************************************************************************)
EXTENDS GitIndex, TLC

MCSize == [o \in Oids |-> o]

\* A GitHub clone URL, a Gerrit host, a host that only ends like one, and a
\* host guessRepoURL does not know.
MCRemotes ==
  { <<<<"github.com">>, ".git">>,
    <<<<"gerrit.", "googlesource.com">>, "">>,
    <<<<"not", "googlesource.com">>, "">>,
    <<<<"www.", "github.com">>, ".git">> }

NameSymmetry == Permutations(Names)

=============================================================================
