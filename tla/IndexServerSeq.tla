--------------------------- MODULE IndexServerSeq ---------------------------
(***************************************************************************)
(* The index server before it indexed repositories in parallel: Refresh    *)
(* calls s.index for one listed repository after the other, each builder   *)
(* is given all of CPUCount as its -parallelism, and there is no manual    *)
(* reindex.  An older version still has the body of index inside the loop  *)
(* of a refresh function; step for step it is the same machine.            *)
(*                                                                         *)
(* The frontend, the builder subprocess, the ticker and restarts of the    *)
(* process are the environment.                                            *)
(***************************************************************************)
EXTENDS Integers, Sequences, FiniteSets, SequencesExt

CONSTANTS
  Repos,           \* repository names the frontend may know
  NumCPU,          \* runtime.NumCPU()
  CPUFractionPct,  \* -cpu_fraction, in percent
  MaxCommit,       \* HEAD of a repository advances through 1..MaxCommit
  MaxListing,      \* a listing may repeat names up to this length (0: it
                   \* names every repository once)
  None             \* no shard, no builder

ASSUME
  /\ NumCPU \in Nat \ {0}
  /\ CPUFractionPct \in 1..100
  /\ MaxCommit \in Nat \ {0}
  /\ MaxListing \in Nat
  /\ None \notin Repos \cup Nat

VARIABLES
  enabled,  \* frontend: the repositories /.internal/repos/list returns
  head,     \* frontend: HEAD of each repository, 0 when it has none (404)
  quiet,    \* environment: nothing changes, fails or restarts any more
  tick,     \* the ticker's channel (capacity 1) holds a tick
  shard,    \* IndexDir: the commit of each repository's shard, or None
  litter,   \* IndexDir: the temporary files killed builders have left, each
            \* the name it was written out with, None for a half-written one
  repos,    \* Refresh's repos
  pc,       \* where Refresh is
  i,        \* how many of repos the range loop is done with
  builder,  \* the arguments of the zoekt-archive-index that runs, or None
  fs        \* deleteStaleIndexes: the globbed files not yet visited

envVars == <<enabled, head, quiet, tick>>
vars    == <<envVars, shard, litter, repos, pc, i, builder, fs>>

EmptyCommit == 0

cpuCountUnclamped(numCPU, pct) == (numCPU * pct + 50) \div 100

\* int(math.Round(NumCPU * cpuFraction)), at least 1.
cpuCount(numCPU, pct) ==
  LET rounded == (numCPU * pct + 50) \div 100
  IN  IF rounded < 1 THEN 1 ELSE rounded

CPUCount == cpuCount(NumCPU, CPUFractionPct)

-----------------------------------------------------------------------------
\* A listing names every enabled repository, in any order, and listRepos
\* copies it as it comes: a name may be in it more than once.
Listings(S) ==
  {s \in BoundedSeq(S, Max({Cardinality(S), MaxListing})) : ToSet(s) = S}

listRepos ==
  {[repos |-> s, err |-> FALSE] : s \in Listings(enabled)}
    \cup (IF quiet THEN {} ELSE {[repos |-> <<>>, err |-> TRUE]})

resolveRevision(repo) ==
  {IF head[repo] = 0 THEN [commit |-> None, err |-> "NotExist"]
                     ELSE [commit |-> head[repo], err |-> "nil"]}
    \cup (IF quiet THEN {}
          ELSE {[commit |-> None, err |-> "status"],
                [commit |-> None, err |-> "nil"]})

\* zoekt-archive-index exits: 0 after renaming its file over the shard.
BuilderExit(ok) ==
  shard' = IF ok THEN [shard EXCEPT ![builder.name] = builder.commit]
                 ELSE shard

-----------------------------------------------------------------------------
Launch(name, commit, parallelism) ==
  /\ builder' = [name |-> name, commit |-> commit,
                 parallelism |-> parallelism]
  /\ pc' = "run"
  /\ UNCHANGED i

\* A 404 that leaves the repository without a shard.
createEmptyShardSkipped(name) ==
  /\ i' = i + 1
  /\ UNCHANGED <<pc, builder>>

\* The builder of an empty shard is given no -parallelism.
createEmptyShard(name) == Launch(name, EmptyCommit, None)

\* s.index(name), up to cmd.Run
index ==
  /\ pc = "index"
  /\ i < Len(repos)
  /\ LET name == repos[i + 1] IN
     \E res \in resolveRevision(name) :
       \/ /\ res.err = "NotExist"
          /\ createEmptyShard(name)
       \/ /\ res.err # "NotExist"
          /\ res.err # "nil" \/ res.commit = None
          /\ i' = i + 1
          /\ UNCHANGED <<pc, builder>>
       \/ /\ res.err = "nil" /\ res.commit # None
          /\ Launch(name, res.commit, CPUCount)
  /\ UNCHANGED <<envVars, shard, litter, repos, fs>>

\* cmd.Run returns, and index with it.
loggedRun ==
  /\ pc = "run"
  /\ \E ok \in (IF quiet THEN {TRUE} ELSE BOOLEAN) : BuilderExit(ok)
  /\ builder' = None
  /\ i' = i + 1
  /\ pc' = "index"
  /\ UNCHANGED <<envVars, litter, repos, fs>>

RefreshList ==
  /\ pc = "list"
  /\ \E res \in listRepos :
       \/ /\ res.err
          /\ pc' = "sleep"
          /\ UNCHANGED <<repos, i>>
       \/ /\ ~res.err
          /\ repos' = res.repos
          /\ i' = 0
          /\ pc' = "index"
  /\ UNCHANGED <<envVars, shard, litter, builder, fs>>

\* Collection whatever the listing.
NoReposFoundIgnored == FALSE

\* len(repos) == 0
NoReposFound == Len(repos) = 0

\* filepath.Glob(IndexDir + "/*"): the shards, and what killed builders left
Glob ==
  {<<"shard", r>> : r \in {r \in Repos : shard[r] # None}}
    \cup {<<"litter", l>> : l \in litter}

\* The range loop is over.
RefreshIndexed ==
  /\ pc = "index"
  /\ i = Len(repos)
  /\ \/ /\ NoReposFound
        /\ pc' = "sleep"
        /\ UNCHANGED fs
     \/ /\ ~NoReposFound
        /\ pc' = "collect"
        /\ fs' = Glob
  /\ UNCHANGED <<envVars, shard, litter, repos, i, builder>>

\* os.Open, NewIndexFile and ReadMetadata on f: the name they give, None
\* when one of them fails.  No builder runs during collection, so every
\* file is as Glob found it: a shard, or what a killed builder left.
ReadMetadata(f) == f[2]

\* !exists[repo.Name]
Stale(name) == name \notin ToSet(repos)

\* os.Remove(fn)
RemoveFile(f) ==
  /\ shard' = IF f[1] = "shard" THEN [shard EXCEPT ![f[2]] = None] ELSE shard
  /\ litter' = IF f[1] = "litter" THEN litter \ {f[2]} ELSE litter

\* os.Remove may fail while the environment still fails: the file stays, and
\* deleteStaleIndexes logs the error and goes on to the next file.
deleteIfStale(f) ==
  \/ /\ ReadMetadata(f) # None /\ Stale(ReadMetadata(f))
     /\ RemoveFile(f)
  \/ /\ ReadMetadata(f) = None \/ ~Stale(ReadMetadata(f)) \/ ~quiet
     /\ UNCHANGED <<shard, litter>>

deleteStaleIndexes ==
  /\ pc = "collect"
  /\ \/ \E f \in fs :
          /\ deleteIfStale(f)
          /\ fs' = fs \ {f}
          /\ UNCHANGED pc
     \/ /\ fs = {}
        /\ pc' = "sleep"
        /\ UNCHANGED <<shard, litter, fs>>
  /\ UNCHANGED <<envVars, repos, i, builder>>

\* <-t.C
RefreshSleep ==
  /\ pc = "sleep"
  /\ tick
  /\ tick' = FALSE
  /\ pc' = "list"
  /\ UNCHANGED <<enabled, head, quiet, shard, litter, repos, i, builder, fs>>

Refresh ==
  RefreshList \/ index \/ loggedRun \/ RefreshIndexed \/ deleteStaleIndexes
    \/ RefreshSleep

-----------------------------------------------------------------------------
(***************************************************************************)
(* The environment.                                                        *)
(***************************************************************************)
progVars == <<shard, litter, repos, pc, i, builder, fs>>

Tick ==
  /\ tick' = TRUE
  /\ UNCHANGED <<enabled, head, quiet, progVars>>

HeadAdvances(r) ==
  /\ ~quiet
  /\ head[r] < MaxCommit
  /\ head' = [head EXCEPT ![r] = @ + 1]
  /\ UNCHANGED <<enabled, quiet, tick, progVars>>

Toggle(r) ==
  /\ ~quiet
  /\ enabled' = IF r \in enabled THEN enabled \ {r} ELSE enabled \cup {r}
  /\ UNCHANGED <<head, quiet, tick, progVars>>

Quiesce ==
  /\ ~quiet
  /\ quiet' = TRUE
  /\ UNCHANGED <<enabled, head, tick, progVars>>

\* main, on an IndexDir that is new or was left by an earlier process
Started ==
  /\ repos = <<>>
  /\ pc = "list"
  /\ i = 0
  /\ builder = None
  /\ fs = {}
  /\ tick = FALSE

Restart ==
  /\ ~quiet
  /\ repos' = <<>>
  /\ pc' = "list"
  /\ i' = 0
  /\ builder' = None
  /\ fs' = {}
  /\ tick' = FALSE
  /\ litter' \in IF builder = None
                   THEN {litter}
                   ELSE {litter \cup {l} : l \in {builder.name, None}}
  /\ UNCHANGED <<enabled, head, quiet, shard>>

Init ==
  /\ enabled \in SUBSET Repos
  /\ head = [r \in Repos |-> 0]
  /\ quiet = FALSE
  /\ shard = [r \in Repos |-> None]
  /\ litter = {}
  /\ Started

Next ==
  \/ Refresh
  \/ Tick \/ Quiesce \/ Restart
  \/ \E r \in Repos : HeadAdvances(r) \/ Toggle(r)

Spec == Init /\ [][Next]_vars

\* Refresh is the only goroutine; the calls it blocks on return, and the
\* ticker keeps firing.
Fairness == WF_vars(Refresh) /\ WF_vars(Tick)

FairSpec == Spec /\ Fairness

-----------------------------------------------------------------------------
\* The types of the variables.  For the builder's arguments this says that
\* index never passes a -parallelism of 0 or of more cores than the machine
\* has: CPUCount is rounded from NumCPU * cpu_fraction and clamped to 1.
TypeOK ==
  /\ enabled \subseteq Repos
  /\ head \in [Repos -> 0..MaxCommit]
  /\ quiet \in BOOLEAN /\ tick \in BOOLEAN
  /\ litter \subseteq Repos \cup {None}
  /\ shard \in [Repos -> 0..MaxCommit \cup {None}]
  /\ repos \in UNION {Listings(S) : S \in SUBSET Repos}
  /\ pc \in {"list", "index", "run", "collect", "sleep"}
  /\ i \in 0..Len(repos)
  /\ builder \in [name : Repos, commit : 0..MaxCommit,
                  parallelism : 1..NumCPU \cup {None}] \cup {None}
  /\ fs \subseteq {"shard", "litter"} \X (Repos \cup {None})

-----------------------------------------------------------------------------
(***************************************************************************)
(* Refinement: the cycle runs from the listing to the end of collection,   *)
(* and the repositories from the loop's position on are still to do.       *)
(***************************************************************************)
cycleListing ==
  IF pc \in {"index", "run", "collect"} THEN ToSet(repos) ELSE None

cycleTodo ==
  IF pc \in {"index", "run"} THEN {repos[k] : k \in (i + 1)..Len(repos)}
                             ELSE {}

Sync == INSTANCE ShardSync WITH listing <- cycleListing, todo <- cycleTodo

\* The sequential Refresh implements ShardSync: index is called once for
\* every listed name, deleteStaleIndexes after the last call has returned
\* and only if "len(repos) == 0" is false, and what it deletes is what the
\* listing does not name.
ImplementsShardSync == Sync!Spec

\* IndexDir holds what the frontend wants: a shard at HEAD for every enabled
\* repository (the empty shard when it has no HEAD) and, unless nothing is
\* enabled, no shard of any other repository.
Converged ==
  /\ \A r \in enabled : shard[r] = head[r]
  /\ enabled # {} => \A r \in Repos \ enabled : shard[r] = None

\* Once the frontend stops changing and nothing fails or restarts, the
\* cycles of Refresh bring IndexDir to the frontend's state and keep it
\* there; on the way index must build the empty shard for a repository
\* whose HEAD resolves to 404.
EventuallySynchronized == <>[](quiet => Converged)

=============================================================================
