--------------------------- MODULE ShardedSearch ---------------------------
(***************************************************************************)
(* The shard registry and the sharded search engine: replace and remove    *)
(* change the registry while a search works on the snapshot it took, with  *)
(* a bounded pool of workers, in two phases.  Phase A finds, for every     *)
(* repo-scoped predicate, the repositories that have a document matching   *)
(* its child; phase B evaluates the query document by document with those  *)
(* answers put in.  Only the test of this code is in the repository        *)
(* (TestSearchTypeRepo); the actions follow the specification.             *)
(*                                                                         *)
(* A shard is [repo, docs], a document [name, content], its content the    *)
(* set of <<word, offset>> it has; a pattern matches the words equal to it.*)
(***************************************************************************)
EXTENDS QuerySimplify

CONSTANTS
  Keys,         \* shard keys
  Shards,       \* the shards that may be installed
  Queries,      \* the queries that may be asked
  PoolSizes,    \* the sizes of the worker pool, newShardedSearcher(n)
  MaxMatches,   \* the budgets a search may have, 0 for none
  QueryError,   \* the error of a malformed query
  None

ASSUME
  /\ PoolSizes \subseteq Nat \ {0}
  /\ MaxMatches \subseteq Nat
  /\ None \notin Shards \cup Queries

VARIABLES
  workers,   \* the size the pool was built with
  registry,  \* key -> shard, None when the key is free
  query,     \* the query of the search, None before the first
  budget,    \* its options
  snap,      \* the snapshot it took
  phase,     \* "idle", "A", "B"
  pending,   \* keys whose shard waits for a worker
  running,   \* keys whose shard a worker evaluates
  holds,     \* phase A: child of a Type node -> repositories it holds in
  files,     \* phase B: the file matches of the shards, as they came in
  outcome,   \* "complete", "cancelled", "degraded" (a shard failed)
  result     \* what Search returned: the file matches, or QueryError

call == <<query, budget, snap, phase, pending, running, holds, files,
          outcome, result>>
vars == <<workers, registry, call>>

replace(key, shard) ==
  /\ registry' = [registry EXCEPT ![key] = shard]
  /\ UNCHANGED <<workers, call>>

remove(key) ==
  /\ registry[key] # None
  /\ registry' = [registry EXCEPT ![key] = None]
  /\ UNCHANGED <<workers, call>>

snapshot == registry
Loaded(s) == {k \in Keys : s[k] # None}

Malformed(q) == \E n \in Nodes(q) : n.op \notin Ops
TypeChildren(q) == {n.child : n \in {n \in Nodes(q) : n.op = "Type"}}

\* Validation, then the snapshot; phase A has work only for a query with a
\* repo-scoped predicate.
Search(q, max) ==
  /\ phase = "idle"
  /\ query' = q /\ budget' = max
  /\ files' = <<>> /\ outcome' = "complete" /\ running' = {}
  /\ IF Malformed(q)
       THEN /\ result' = QueryError
            /\ UNCHANGED <<snap, phase, pending, holds>>
       ELSE /\ result' = None
            /\ snap' = snapshot
            /\ phase' = "A"
            /\ holds' = [c \in TypeChildren(q) |-> {}]
            /\ pending' = IF TypeChildren(q) = {} THEN {} ELSE Loaded(snapshot)
  /\ UNCHANGED <<workers, registry>>

\* Every shard gets a worker of its own.
PoolUnbounded == TRUE

\* A worker of the pool is free.
PoolHasRoom == Cardinality(running) < workers

\* A free worker takes the next shard.
Dispatch(k) ==
  /\ phase # "idle"
  /\ k \in pending
  /\ PoolHasRoom
  /\ pending' = pending \ {k}
  /\ running' = running \cup {k}
  /\ UNCHANGED <<workers, registry, query, budget, snap, phase, holds, files,
                 outcome, result>>

\* The worker keeps its shard.
DoneLeaked(k) == running

\* The worker is done with its shard.
Done(k) == running \ {k}

RECURSIVE Matches(_, _)
Matches(q, doc) ==
  CASE q.op = "Substring" ->
         IF q.fileName THEN q.pattern = doc.name
                       ELSE \E c \in doc.content : c[1] = q.pattern
    [] q.op = "And" -> \A j \in DOMAIN q.children : Matches(q.children[j], doc)
    [] q.op = "Or" -> \E j \in DOMAIN q.children : Matches(q.children[j], doc)
    [] q.op = "Not" -> ~Matches(q.child, doc)
    [] q.op = "Const" -> q.value

\* Phase A for one shard; a shard that cannot be read contributes nothing.
PhaseA(k) ==
  /\ phase = "A"
  /\ k \in running
  /\ running' = Done(k)
  /\ \E ok \in BOOLEAN :
       /\ outcome' = IF ok THEN outcome ELSE "degraded"
       /\ holds' =
            [c \in DOMAIN holds |->
               IF ok /\ \E d \in snap[k].docs :
                          Matches(simplifyRepo(c, snap[k].repo), d)
                 THEN holds[c] \cup {snap[k].repo} ELSE holds[c]]
  /\ UNCHANGED <<workers, registry, query, budget, snap, phase, pending,
                 files, result>>

\* The repo-scoped predicate is put where it stands.
SubstituteChild(q, repo) ==
  IF repo \in holds[q.child] THEN q.child ELSE Const(FALSE)

\* The answer of phase A stands for the repo-scoped predicate.
Substitute(q, repo) ==
  Const(repo \in holds[q.child])

RECURSIVE Specialize(_, _)
Specialize(q, repo) ==
  CASE q.op = "Type" -> Substitute(q, repo)
    [] q.op \in {"And", "Or"} ->
         [q EXCEPT !.children = [j \in DOMAIN @ |-> Specialize(@[j], repo)]]
    [] q.op = "Not" -> [q EXCEPT !.child = Specialize(@, repo)]
    [] OTHER -> q

\* The query phase B evaluates in the shard of key k.
ShardQuery(k) == simplifyRepo(Specialize(query, snap[k].repo), snap[k].repo)

\* Phase B starts while workers of phase A are still out.
BarrierOpen == pending = {}

\* Phase B starts when every shard has been through phase A.
Barrier == pending = {} /\ running = {}

\* Shards whose query is false are not evaluated.
NextPhase ==
  /\ phase = "A"
  /\ Barrier
  /\ phase' = "B"
  /\ pending' = {k \in Loaded(snap) : ShardQuery(k) # Const(FALSE)}
  /\ UNCHANGED <<workers, registry, query, budget, snap, running, holds, files,
                 outcome, result>>

\* The leaves a match is reported for: those a document has to match.
RECURSIVE Atoms(_)
Atoms(q) ==
  IF q.op \in {"And", "Or"}
    THEN UNION {Atoms(q.children[j]) : j \in DOMAIN q.children}
    ELSE {q}

FileMatch(q, repo, doc) ==
  [repo |-> repo, file |-> doc.name,
   fragments |-> {c \in doc.content : Substring(c[1]) \in Atoms(q)}]

\* Phase B for one shard: its file matches are added to what has come in.
PhaseB(k) ==
  /\ phase = "B"
  /\ k \in running
  /\ running' = Done(k)
  /\ \E ok \in BOOLEAN :
       /\ outcome' = IF ok \/ outcome # "complete" THEN outcome ELSE "degraded"
       /\ files' = IF ok
            THEN files \o SetToSeq({FileMatch(ShardQuery(k), snap[k].repo, d) :
                   d \in {d \in snap[k].docs : Matches(ShardQuery(k), d)}})
            ELSE files
  /\ UNCHANGED <<workers, registry, query, budget, snap, phase, pending,
                 holds, result>>

\* The budget is met: what waits is not dispatched, what runs is abandoned.
Cancel ==
  /\ phase = "B"
  /\ budget > 0 /\ Len(files) >= budget
  /\ pending \cup running # {}
  /\ pending' = {} /\ running' = {}
  /\ outcome' = IF outcome = "complete" THEN "cancelled" ELSE outcome
  /\ UNCHANGED <<workers, registry, query, budget, snap, phase, holds,
                 files, result>>

\* A match of a repository, file and offset is kept where it came in first.
\* A file match has no branches here: what two shards that hold different
\* branches of a repository give for one file is not told apart.
Merge(fs) ==
  LET Earlier(j) == {h \in 1..j-1 : /\ fs[h].repo = fs[j].repo
                                    /\ fs[h].file = fs[j].file}
      Fresh(j) == [fs[j] EXCEPT !.fragments =
                     @ \ UNION {fs[h].fragments : h \in Earlier(j)}]
      kept == SetToSortSeq({j \in DOMAIN fs : \/ Earlier(j) = {}
                                              \/ Fresh(j).fragments # {}}, <)
  IN  [n \in DOMAIN kept |-> Fresh(kept[n])]

Return ==
  /\ phase = "B"
  /\ Barrier
  /\ phase' = "idle"
  /\ result' = Merge(files)
  /\ UNCHANGED <<workers, registry, query, budget, snap, pending, running,
                 holds, files, outcome>>

Init ==
  /\ workers \in PoolSizes
  /\ registry = [k \in Keys |-> None]
  /\ query = None /\ budget = 0
  /\ snap = registry
  /\ phase = "idle"
  /\ pending = {} /\ running = {}
  /\ holds = <<>>
  /\ files = <<>>
  /\ outcome = "complete"
  /\ result = None

Step ==
  \/ \E k \in Keys : Dispatch(k) \/ PhaseA(k) \/ PhaseB(k)
  \/ NextPhase \/ Cancel \/ Return

Next ==
  \/ \E k \in Keys, s \in Shards : replace(k, s)
  \/ \E k \in Keys : remove(k)
  \/ \E q \in Queries, max \in MaxMatches : Search(q, max)
  \/ Step

Spec == Init /\ [][Next]_vars

\* The workers of the pool run, and the caller waits for them.
FairSpec == Spec /\ WF_vars(Step)

-----------------------------------------------------------------------------
FileMatches ==
  [repo : {s.repo : s \in Shards}, file : STRING,
   fragments : SUBSET UNION {d.content : d \in UNION {s.docs : s \in Shards}}]

\* The types of the variables.  The workers of a search never outnumber the
\* pool, and no shard is both waiting and being evaluated.
TypeOK ==
  /\ workers \in PoolSizes
  /\ registry \in [Keys -> Shards \cup {None}]
  /\ snap \in [Keys -> Shards \cup {None}]
  /\ query \in Queries \cup {None}
  /\ budget \in MaxMatches \cup {0}
  /\ phase \in {"idle", "A", "B"}
  /\ pending \subseteq Loaded(snap) /\ running \subseteq Loaded(snap)
  /\ pending \cap running = {}
  /\ Cardinality(running) <= workers
  /\ outcome \in {"complete", "cancelled", "degraded"}
  /\ \A j \in DOMAIN files : files[j] \in FileMatches
  /\ result \in {None, QueryError} \/ \A j \in DOMAIN result : result[j] \in FileMatches

(***************************************************************************)
(* What a query accepts, said without phases, workers or simplification:   *)
(* a repo-scoped predicate holds for a document when its child holds for   *)
(* any document of the same repository in the snapshot.                    *)
(***************************************************************************)
RepoDocs(repo) ==
  UNION {snap[k].docs : k \in {k \in Loaded(snap) : snap[k].repo = repo}}

RECURSIVE Accepts(_, _, _)
Accepts(q, repo, doc) ==
  CASE q.op = "Repo" -> MatchesRepo(q.pattern, repo)
    [] q.op = "Type" -> \E d \in RepoDocs(repo) : Accepts(q.child, repo, d)
    [] q.op = "And" ->
         \A j \in DOMAIN q.children : Accepts(q.children[j], repo, doc)
    [] q.op = "Or" ->
         \E j \in DOMAIN q.children : Accepts(q.children[j], repo, doc)
    [] q.op = "Not" -> ~Accepts(q.child, repo, doc)
    [] OTHER -> Matches(q, doc)

Accepted ==
  UNION {{<<snap[k].repo, d.name>> :
            d \in {d \in snap[k].docs : Accepts(query, snap[k].repo, d)}} :
         k \in Loaded(snap)}

Returned == phase = "idle" /\ result \notin {None, QueryError}

\* A repo-scoped predicate stands below a Not.
NegatesType(q) ==
  \E n \in Nodes(q) : n.op = "Not" /\ \E m \in Nodes(n.child) : m.op = "Type"

\* Two-phase evaluation: a search that no shard failed in reports exactly
\* the files of the snapshot that the query accepts, whatever the order the
\* workers finish in and whatever replace and remove do meanwhile, and a
\* search that stopped at its budget reports only such files.  The document
\* that satisfies a repo-scoped predicate may be in another shard of the
\* repository than the file that is reported.  A shard that fails, in
\* either phase, only takes files away from the result, unless the query
\* negates a repo-scoped predicate: phase A then answers "no document"
\* for a repository that has one.
SearchReportsWhatTheQueryAccepts ==
  Returned =>
    LET reported == {<<m.repo, m.file>> : m \in ToSet(result)}
    IN  /\ outcome = "complete" => reported = Accepted
        /\ outcome = "cancelled" \/ ~NegatesType(query)
             => reported \subseteq Accepted

\* simplifyRepo for a repository: no repository pattern is left, no constant
\* is left below an And, Or or Not, the result accepts what the query
\* accepts in that repository, and simplifying it again changes nothing.
Simplified(q, repo) ==
  LET s == simplifyRepo(q, repo)
  IN  /\ simplifyRepo(s, repo) = s
      /\ \A n \in Nodes(s) :
            /\ n.op # "Repo"
            /\ n.op \in {"And", "Or"} =>
                 /\ Len(n.children) > 1
                 /\ \A j \in DOMAIN n.children : n.children[j].op # "Const"
            /\ n.op = "Not" => n.child.op # "Const"
      /\ \A d \in RepoDocs(repo) : Accepts(s, repo, d) = Accepts(q, repo, d)

\* A search returns: the workers get through the shards of both phases,
\* and a cancelled search does not wait for what it abandoned.
SearchReturns == (phase # "idle") ~> (phase = "idle")

=============================================================================
