----------------------------- MODULE ShardSync -----------------------------
(***************************************************************************)
(* What the reindex scheduler promises about the index directory, whatever *)
(* way it goes about it: work happens in cycles; a cycle starts from one   *)
(* listing of the enabled repositories, attempts every listed repository   *)
(* (again when the listing names it again), and only when all attempts are *)
(* over deletes shards, and then only shards of repositories the listing   *)
(* does not name, and never after an empty listing.  An attempt leaves the *)
(* shard alone or puts it at a commit that the repository's HEAD has had,  *)
(* never behind the shard that is there.                                   *)
(*                                                                         *)
(* The sequential and the concurrent index server both implement this      *)
(* (IndexServerSeq!ImplementsShardSync, IndexServer!ImplementsShardSync).  *)
(***************************************************************************)
EXTENDS Integers

CONSTANTS
  Repos,      \* repository names
  MaxCommit,  \* HEAD of a repository advances through 1..MaxCommit
  None        \* no shard; no cycle

VARIABLES
  enabled,  \* frontend: the enabled repositories
  head,     \* frontend: HEAD of each repository, 0 when it has none
  shard,    \* the commit of each repository's shard, or None
  listing,  \* the set of names the running cycle works from, or None
  todo      \* the listed repositories the cycle has not attempted yet

vars == <<enabled, head, shard, listing, todo>>

Commits == 0..MaxCommit

TypeOK ==
  /\ enabled \subseteq Repos
  /\ head \in [Repos -> Commits]
  /\ shard \in [Repos -> Commits \cup {None}]
  /\ listing \in SUBSET Repos \cup {None}
  /\ todo \subseteq Repos

Init ==
  /\ enabled \in SUBSET Repos
  /\ head = [r \in Repos |-> 0]
  /\ shard = [r \in Repos |-> None]
  /\ listing = None
  /\ todo = {}

\* Repositories are enabled and disabled, and get new commits.
FrontendChanges ==
  /\ enabled' \in SUBSET Repos
  /\ head' \in [Repos -> Commits]
  /\ \A r \in Repos : head'[r] >= head[r]
  /\ UNCHANGED <<shard, listing, todo>>

BeginCycle ==
  /\ listing = None
  /\ listing' = enabled
  /\ todo' = enabled
  /\ UNCHANGED <<enabled, head, shard>>

\* A build of r at commit c is acceptable.
Acceptable(r, c) ==
  /\ c <= head[r]
  /\ shard[r] # None => c >= shard[r]

\* An attempt at r; the cycle has r still to do afterwards when the listing
\* names it again.
Attempt(r) ==
  /\ r \in todo
  /\ todo' \in {todo, todo \ {r}}
  /\ \/ UNCHANGED shard
     \/ \E c \in Commits :
          /\ Acceptable(r, c)
          /\ shard' = [shard EXCEPT ![r] = c]
  /\ UNCHANGED <<enabled, head, listing>>

Collect(r) ==
  /\ listing \notin {None, {}}
  /\ todo = {}
  /\ r \notin listing
  /\ shard' = [shard EXCEPT ![r] = None]
  /\ UNCHANGED <<enabled, head, listing, todo>>

EndCycle ==
  /\ listing # None
  /\ todo = {}
  /\ listing' = None
  /\ UNCHANGED <<enabled, head, shard, todo>>

\* The scheduler is restarted: the cycle it was in is abandoned.
Restart ==
  /\ listing' = None
  /\ todo' = {}
  /\ UNCHANGED <<enabled, head, shard>>

Next ==
  \/ FrontendChanges
  \/ BeginCycle
  \/ EndCycle
  \/ Restart
  \/ \E r \in Repos : Attempt(r) \/ Collect(r)

Spec == Init /\ [][Next]_vars

=============================================================================
