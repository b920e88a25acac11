---------------------------- MODULE IndexServer ----------------------------
(***************************************************************************)
(* zoekt-sourcegraph-indexserver (cmd/zoekt-sourcegraph-indexserver/       *)
(* main.go): the Refresh loop that lists the enabled repositories, indexes *)
(* each one in its own goroutine under a counting semaphore, joins them on *)
(* a WaitGroup and then deletes the shards of repositories that are no     *)
(* longer listed; and ServeHTTP, which runs Index for a posted name in the *)
(* request's goroutine, concurrently with all of that.                     *)
(*                                                                         *)
(* The Sourcegraph frontend (enabled set, HEAD of every repository), the   *)
(* zoekt-archive-index subprocess and the ticker are the environment.      *)
(***************************************************************************)
EXTENDS Integers, Sequences, FiniteSets, SequencesExt

CONSTANTS
  Repos,           \* repository names the frontend may know
  Handlers,        \* goroutines net/http runs ServeHTTP in ({} without -listen)
  NumCPU,          \* runtime.NumCPU()
  CPUFractionPct,  \* -cpu_fraction, in percent
  MaxCommit,       \* HEAD of a repository advances through 1..MaxCommit
  NumSlots,        \* bound on the goroutines Refresh has alive at once
  MaxListing,      \* a listing may repeat names up to this length (0: it
                   \* names every repository once)
  KillsBuilders,   \* a kill of the server takes its builders with it
  None             \* no shard, no name, no commit

ASSUME
  /\ NumCPU \in Nat \ {0}
  /\ CPUFractionPct \in 1..100      \* main rejects anything else
  /\ MaxCommit \in Nat \ {0}
  /\ MaxListing \in Nat
  /\ NumSlots >= Max({Cardinality(Repos), MaxListing})
  /\ KillsBuilders \in BOOLEAN
  /\ None \notin Repos \cup Handlers \cup Nat

VARIABLES
  enabled,  \* frontend: the repositories /.internal/repos/list returns
  head,     \* frontend: HEAD of each repository, 0 when it has none (404)
  quiet,    \* environment: the frontend has stopped changing and failing
  tick,     \* the ticker's channel (capacity 1) holds a tick
  shard,    \* IndexDir: the commit of each repository's shard, or None
  temp,     \* IndexDir: tasks whose builder has its temporary file there
  litter,   \* IndexDir: the temporary files killed builders have left, each
            \* the name it was written out with, None for a half-written one
  orphans,  \* builders that outlived their server: <<name, commit>>
  repos,    \* Refresh's repos, which it stores in s.repos
  pc,       \* where Refresh is
  i,        \* how many of repos the range loop has started
  sem,      \* len(sem)
  wg,       \* the WaitGroup's counter
  fs,       \* deleteStaleIndexes: the globbed files not yet visited
  task      \* the goroutines that run Index: Refresh's and the handlers'

envVars  == <<enabled, head, quiet, tick>>
dirVars  == <<shard, temp, litter, orphans>>
loopVars == <<repos, pc, i, sem, wg, fs>>
vars     == <<envVars, dirVars, loopVars, task>>

Slots == 1..NumSlots
Tasks == Slots \cup Handlers

\* The commit createEmptyShard passes, "404aaaa...".
EmptyCommit == 0

\* cpuCount without the "if cpuCount < 1" clamp.
cpuCountUnclamped(numCPU, pct) == (numCPU * pct + 50) \div 100

\* int(math.Round(NumCPU * cpuFraction)), at least 1.
cpuCount(numCPU, pct) ==
  LET rounded == (numCPU * pct + 50) \div 100
  IN  IF rounded < 1 THEN 1 ELSE rounded

CPUCount == cpuCount(NumCPU, CPUFractionPct)

Idle == [pc |-> "idle", name |-> None, commit |-> None, err |-> FALSE]

\* Index returns err: a handler goes on to render its page, a goroutine of
\* Refresh to its deferred function.  The name and the commit were locals.
Returned(t, err) ==
  [Idle EXCEPT !.pc = IF t \in Handlers THEN "respond" ELSE "release",
               !.err = err]

-----------------------------------------------------------------------------
(***************************************************************************)
(* The frontend's answers.  Until it is quiet a call may fail, or answer   *)
(* 200 with an empty body.  A listing names every enabled repository, in   *)
(* any order, and listRepos copies it as it comes: a name may be in it     *)
(* more than once.                                                         *)
(***************************************************************************)
Listings(S) ==
  {s \in BoundedSeq(S, Max({Cardinality(S), MaxListing})) : ToSet(s) = S}

listRepos ==
  {[repos |-> s, err |-> FALSE] : s \in Listings(enabled)}
    \cup (IF quiet THEN {} ELSE {[repos |-> <<>>, err |-> TRUE]})

resolveRevision(repo) ==
  {IF head[repo] = 0 THEN [commit |-> None, err |-> "NotExist"]
                     ELSE [commit |-> head[repo], err |-> "nil"]}
    \cup (IF quiet THEN {}
          ELSE {[commit |-> None, err |-> "status"],
                [commit |-> None, err |-> "nil"]})

(***************************************************************************)
(* zoekt-archive-index.  It writes a temporary file in IndexDir and, on    *)
(* success, renames it over the repository's shard; -incremental makes it  *)
(* a no-op when the shard is at that commit already.  A builder whose      *)
(* temporary file has been removed has nothing to rename, and fails.       *)
(***************************************************************************)
ExitsOK(t) ==
  CASE t \notin temp -> {FALSE}
    [] t \in temp /\ quiet -> {TRUE}
    [] OTHER -> BOOLEAN

BuilderExit(t, ok) ==
  /\ temp' = temp \ {t}
  /\ shard' = IF ok THEN [shard EXCEPT ![task[t].name] = task[t].commit]
                    ELSE shard

-----------------------------------------------------------------------------
(***************************************************************************)
(* Index, as far as starting the builder.                                  *)
(***************************************************************************)
Launch(t, commit) ==
  /\ task' = [task EXCEPT ![t].pc = "run", ![t].commit = commit]
  /\ temp' = temp \cup {t}

createEmptyShard(t) == Launch(t, EmptyCommit)

Index(t) ==
  /\ task[t].pc = "resolve"
  /\ \E res \in resolveRevision(task[t].name) :
       \/ /\ res.err = "NotExist"
          /\ createEmptyShard(t)
       \/ /\ res.err # "NotExist"
          /\ res.err # "nil" \/ res.commit = None
          /\ task' = [task EXCEPT ![t] = Returned(t, res.err # "nil")]
          /\ UNCHANGED temp
       \/ /\ res.err = "nil" /\ res.commit # None
          /\ Launch(t, res.commit)
  /\ UNCHANGED <<envVars, shard, litter, orphans, loopVars>>

\* cmd.Run returns.  The exit status goes to the log and the trace only:
\* Index returns nil either way.  The temporary file is gone from IndexDir
\* with the builder: a visit of deleteStaleIndexes that is still to come
\* for it finds nothing to open, and is left out here.
loggedRun(t) ==
  /\ task[t].pc = "run"
  /\ \E ok \in ExitsOK(t) :
       /\ BuilderExit(t, ok)
       /\ task' = [task EXCEPT ![t] = Returned(t, FALSE)]
  /\ fs' = fs \ {<<"tmp", t>>}
  /\ UNCHANGED <<envVars, litter, orphans, repos, pc, i, sem, wg>>

-----------------------------------------------------------------------------
(***************************************************************************)
(* Refresh.                                                                *)
(***************************************************************************)
RefreshList ==
  /\ pc = "list"
  /\ \E res \in listRepos :
       \/ /\ res.err
          /\ pc' = "sleep"
          /\ UNCHANGED <<repos, i, sem, wg>>
       \/ /\ ~res.err
          /\ repos' = res.repos
          /\ i' = 0 /\ sem' = 0 /\ wg' = 0
          /\ pc' = "spawn"
  /\ UNCHANGED <<envVars, dirVars, fs, task>>

\* A send that never blocks.
SemAcquireUnbounded == sem' = sem + 1

\* sem <- 1
SemAcquire ==
  /\ sem < CPUCount
  /\ sem' = sem + 1

IdleSlots == {s \in Slots : task[s].pc = "idle"}

\* wg.Add(1) left to the goroutine, which has not run it.
WaitGroupAddLate == UNCHANGED wg

\* wg.Add(1)
WaitGroupAdd == wg' = wg + 1

RefreshSpawn ==
  /\ pc = "spawn"
  /\ i < Len(repos)
  /\ SemAcquire
  /\ WaitGroupAdd
  /\ IdleSlots # {}
  /\ task' = [task EXCEPT ![Min(IdleSlots)] =
                [Idle EXCEPT !.pc = "resolve", !.name = repos[i + 1]]]
  /\ i' = i + 1
  /\ UNCHANGED <<envVars, dirVars, repos, pc, fs>>

\* A deferred function that never receives from sem.
SemReceiveNever == UNCHANGED sem

\* <-sem
SemReceive == sem' = sem - 1

\* The deferred function of a goroutine: <-sem, then wg.Done().
SemRelease(s) ==
  /\ task[s].pc = "release"
  /\ SemReceive
  /\ task' = [task EXCEPT ![s].pc = "done"]
  /\ UNCHANGED <<envVars, dirVars, repos, pc, i, wg, fs>>

WaitGroupDone(s) ==
  /\ task[s].pc = "done"
  /\ wg' = wg - 1
  /\ task' = [task EXCEPT ![s] = Idle]
  /\ UNCHANGED <<envVars, dirVars, repos, pc, i, sem, fs>>

\* Refresh going on without wg.Wait().
WaitGroupWaitSkipped == TRUE

\* wg.Wait()
WaitGroupWait == wg = 0

\* Collection without the "if len(repos) > 0" around it.
FoundRepositoriesUnchecked == TRUE

\* len(repos) > 0
FoundRepositories == Len(repos) > 0

\* filepath.Glob(IndexDir + "/*"): the shards, and the temporary files of
\* the builders that run, that run without their server, and that were
\* killed.
Glob ==
  {<<"shard", r>> : r \in {r \in Repos : shard[r] # None}}
    \cup {<<"tmp", t>> : t \in temp}
    \cup (IF orphans # {} THEN {<<"orphan", None>>} ELSE {})
    \cup {<<"litter", l>> : l \in litter}

RefreshWait ==
  /\ pc = "spawn"
  /\ i = Len(repos)
  /\ WaitGroupWait
  /\ \/ /\ FoundRepositories
        /\ pc' = "collect"
        /\ fs' = Glob
     \/ /\ ~FoundRepositories
        /\ pc' = "sleep"
        /\ UNCHANGED fs
  /\ UNCHANGED <<envVars, dirVars, repos, i, sem, wg, task>>

\* os.Open, NewIndexFile and ReadMetadata on f as it is when deleteIfStale
\* comes to it: the names they may give, None when one of them fails.  A
\* shard has its repository's name.  A temporary file has the name of what
\* its builder builds once it is written out, and does not parse before; a
\* file that has gone since Glob does not open.  The files of the orphans
\* are one entry: at most one of them is found written out in a collection.
ReadMetadata(f) ==
  CASE f[1] = "shard"  -> {IF shard[f[2]] # None THEN f[2] ELSE None}
    [] f[1] = "tmp"    -> IF f[2] \in temp THEN {task[f[2]].name, None}
                                           ELSE {None}
    [] f[1] = "orphan" -> {o[1] : o \in orphans} \cup {None}
    [] f[1] = "litter" -> {IF f[2] \in litter THEN f[2] ELSE None}

\* "if exists[repo.Name]": the files of the listed repositories go.
Listed(name) == name \in ToSet(repos)

\* !exists[repo.Name]
Stale(name) == name \notin ToSet(repos)

\* os.Remove(fn) of the file f that names the repository name.  An orphan
\* that has lost its file can only fail: it is done with.
RemoveFile(f, name) ==
  /\ shard' = IF f[1] = "shard" THEN [shard EXCEPT ![f[2]] = None] ELSE shard
  /\ temp' = IF f[1] = "tmp" THEN temp \ {f[2]} ELSE temp
  /\ litter' = IF f[1] = "litter" THEN litter \ {f[2]} ELSE litter
  /\ IF f[1] = "orphan"
       THEN \E o \in orphans : o[1] = name /\ orphans' = orphans \ {o}
       ELSE UNCHANGED orphans

\* os.Remove may fail while the environment still fails: the file stays, and
\* deleteStaleIndexes logs the error and goes on to the next file.
deleteIfStale(f) ==
  \E name \in ReadMetadata(f) :
    \/ /\ name # None /\ Stale(name)
       /\ RemoveFile(f, name)
    \/ /\ name = None \/ ~Stale(name) \/ ~quiet
       /\ UNCHANGED dirVars

deleteStaleIndexes ==
  /\ pc = "collect"
  /\ \/ \E f \in fs :
          /\ deleteIfStale(f)
          /\ fs' = fs \ {f}
          /\ UNCHANGED pc
     \/ /\ fs = {}
        /\ pc' = "sleep"
        /\ UNCHANGED <<dirVars, fs>>
  /\ UNCHANGED <<envVars, repos, i, sem, wg, task>>

\* <-t.C
RefreshSleep ==
  /\ pc = "sleep"
  /\ tick
  /\ tick' = FALSE
  /\ pc' = "list"
  /\ UNCHANGED <<enabled, head, quiet, dirVars, repos, i, sem, wg, fs, task>>

Refresh ==
  RefreshList \/ RefreshSpawn \/ RefreshWait \/ deleteStaleIndexes
    \/ RefreshSleep

-----------------------------------------------------------------------------
(***************************************************************************)
(* ServeHTTP.  A POST runs Index(name) in the request's goroutine, for any *)
(* name the form carries, and then renders the page with IndexMsg; a GET   *)
(* only reads s.repos under s.mu and changes nothing.                      *)
(***************************************************************************)
ServePost(h, name) ==
  /\ task[h].pc = "idle"
  /\ task' = [task EXCEPT ![h] = [Idle EXCEPT !.pc = "resolve",
                                              !.name = name]]
  /\ UNCHANGED <<envVars, dirVars, loopVars>>

\* data.IndexMsg, once Index has returned
IndexMsg(h) == IF task[h].err THEN "failed" ELSE "Indexed"

ServeRespond(h) ==
  /\ task[h].pc = "respond"
  /\ task' = [task EXCEPT ![h] = Idle]
  /\ UNCHANGED <<envVars, dirVars, loopVars>>

-----------------------------------------------------------------------------
(***************************************************************************)
(* The environment.                                                        *)
(***************************************************************************)
\* The ticker fires; a tick that finds the channel full is dropped.
Tick ==
  /\ tick' = TRUE
  /\ UNCHANGED <<enabled, head, quiet, dirVars, loopVars, task>>

HeadAdvances(r) ==
  /\ ~quiet
  /\ head[r] < MaxCommit
  /\ head' = [head EXCEPT ![r] = @ + 1]
  /\ UNCHANGED <<enabled, quiet, tick, dirVars, loopVars, task>>

Toggle(r) ==
  /\ ~quiet
  /\ enabled' = IF r \in enabled THEN enabled \ {r} ELSE enabled \cup {r}
  /\ UNCHANGED <<head, quiet, tick, dirVars, loopVars, task>>

Quiesce ==
  /\ ~quiet
  /\ quiet' = TRUE
  /\ UNCHANGED <<enabled, head, tick, dirVars, loopVars, task>>

(***************************************************************************)
(* The process is killed and started again: main finds IndexDir as it was  *)
(* left, with the temporary files of the builders that were running, and   *)
(* calls Refresh.  The builders die with it, each leaving a file that is   *)
(* written out or not, or run on as orphans that nothing waits for.        *)
(***************************************************************************)
\* What the builders of the tasks T leave when they are killed.
Left(T) ==
  {task[t].name : t \in T} \cup (IF T = temp THEN {} ELSE {None})

Started ==
  /\ repos = <<>>
  /\ pc = "list"
  /\ i = 0 /\ sem = 0 /\ wg = 0
  /\ fs = {}
  /\ task = [t \in Tasks |-> Idle]
  /\ tick = FALSE

Restart ==
  /\ ~quiet
  /\ repos' = <<>>
  /\ pc' = "list"
  /\ i' = 0 /\ sem' = 0 /\ wg' = 0
  /\ fs' = {}
  /\ task' = [t \in Tasks |-> Idle]
  /\ tick' = FALSE
  /\ temp' = {}
  /\ IF KillsBuilders
       THEN /\ \E written \in SUBSET temp : litter' = litter \cup Left(written)
            /\ UNCHANGED orphans
       ELSE /\ orphans' = orphans \cup
                            {<<task[t].name, task[t].commit>> : t \in temp}
            /\ UNCHANGED litter
  /\ UNCHANGED <<enabled, head, quiet, shard>>

\* The builder of a server that is gone exits.
OrphanExit(o) ==
  /\ o \in orphans
  /\ orphans' = orphans \ {o}
  /\ \E ok \in BOOLEAN :
       shard' = IF ok THEN [shard EXCEPT ![o[1]] = o[2]] ELSE shard
  /\ UNCHANGED <<envVars, temp, litter, loopVars, task>>

-----------------------------------------------------------------------------
Init ==
  /\ enabled \in SUBSET Repos
  /\ head = [r \in Repos |-> 0]
  /\ quiet = FALSE
  /\ shard = [r \in Repos |-> None]
  /\ temp = {}
  /\ litter = {}
  /\ orphans = {}
  /\ Started

\* What a goroutine does by itself, and what it waits for cmd.Run to do.
GoStep(t) ==
  \/ Index(t)
  \/ t \in Slots /\ (SemRelease(t) \/ WaitGroupDone(t))
  \/ t \in Handlers /\ ServeRespond(t)

TaskStep(t) == GoStep(t) \/ loggedRun(t)

Builds == Repos \X (0..MaxCommit)

Next ==
  \/ Refresh
  \/ \E t \in Tasks : TaskStep(t)
  \/ \E o \in Builds : OrphanExit(o)
  \/ \E h \in Handlers, name \in Repos : ServePost(h, name)
  \/ Tick \/ Quiesce \/ Restart
  \/ \E r \in Repos : HeadAdvances(r) \/ Toggle(r)

Spec == Init /\ [][Next]_vars

(***************************************************************************)
(* The Go scheduler runs every runnable goroutine, the ticker keeps        *)
(* firing, and the calls Refresh and Index block on (the frontend, the     *)
(* builder) return.  Nobody has to send a request.                         *)
(***************************************************************************)
Fairness ==
  /\ WF_vars(Refresh)
  /\ WF_vars(Tick)
  /\ \A t \in Tasks : WF_vars(TaskStep(t))
  /\ \A o \in Builds : WF_vars(OrphanExit(o))

FairSpec == Spec /\ Fairness

\* The same, except that cmd.Run need not return: it has no timeout.
HungSpec ==
  Spec /\ WF_vars(Refresh) /\ WF_vars(Tick) /\ \A t \in Tasks : WF_vars(GoStep(t))

-----------------------------------------------------------------------------
TaskRecord ==
  [pc : {"idle", "resolve", "run", "release", "done", "respond"},
   name : Repos \cup {None}, commit : 0..MaxCommit \cup {None},
   err : BOOLEAN]

TypeOK ==
  /\ enabled \subseteq Repos
  /\ head \in [Repos -> 0..MaxCommit]
  /\ quiet \in BOOLEAN /\ tick \in BOOLEAN
  /\ shard \in [Repos -> 0..MaxCommit \cup {None}]
  /\ temp \subseteq Tasks
  /\ litter \subseteq Repos \cup {None}
  /\ orphans \subseteq Builds
  /\ repos \in UNION {Listings(S) : S \in SUBSET Repos}
  /\ pc \in {"list", "spawn", "collect", "sleep"}
  /\ i \in 0..Len(repos)
  /\ sem \in 0..CPUCount
  /\ wg \in 0..Len(repos)
  /\ fs \subseteq ({"shard"} \X Repos) \cup ({"tmp"} \X Tasks)
                    \cup {<<"orphan", None>>}
                    \cup ({"litter"} \X (Repos \cup {None}))
  /\ task \in [Tasks -> TaskRecord]

-----------------------------------------------------------------------------
(***************************************************************************)
(* Safety.                                                                 *)
(***************************************************************************)
Building(T) == {t \in T : task[t].pc \in {"resolve", "run"}}

\* The goroutines of Refresh that are inside Index never outnumber CPUCount:
\* "sem <- 1" in the range loop of Refresh blocks until one of them has run
\* its deferred "<-sem".
BuildersWithinBudget == Cardinality(Building(Slots)) <= CPUCount

\* deleteStaleIndexes never runs beside a goroutine of the cycle: when
\* Refresh is past wg.Wait() every goroutine it started has returned from
\* Index and run wg.Done(), and none has left a builder's temporary file.
CollectAfterBuilds ==
  pc = "collect" => /\ \A s \in Slots : task[s].pc = "idle"
                    /\ temp \cap Slots = {}

\* A shard leaves IndexDir only in a cycle whose listing was not empty, and
\* only when the listing does not name its repository: the
\* "if len(repos) > 0" of Refresh and the "!exists[repo.Name]" of
\* deleteIfStale.  A failed builder, and a listing that came back empty,
\* delete nothing.  The same holds for the file a builder is still to
\* rename: deleteIfStale takes it from under a builder that runs only when
\* it is written out and for a repository the listing does not name.
OnlyStaleShardsDeleted ==
  [][/\ \A r \in Repos :
          shard[r] # None /\ shard'[r] = None
            => repos # <<>> /\ r \notin ToSet(repos)
     /\ \A t \in temp \ temp' :
          task'[t].pc = "run"
            => repos # <<>> /\ task[t].name \notin ToSet(repos)]_vars

\* A shard is never replaced by the shard of an older commit, nor by the
\* empty shard once the repository had a HEAD: Refresh starts one Index per
\* listed repository and joins them all before the next cycle, so no two
\* builders of its goroutines ever hold commits of one repository that were
\* resolved at different times.
ShardNeverRegresses ==
  [][\A r \in Repos :
       shard[r] # None /\ shard'[r] # None => shard'[r] >= shard[r]]_vars

\* When Index returns nil to ServeHTTP, which then answers "Indexed <name>",
\* the builder ran and the shard of that name is at the commit Index
\* resolved: the exit status of zoekt-archive-index is the success signal.
IndexReportsOutcome ==
  [][\A h \in Handlers :
       task[h].pc # "respond" /\ task'[h].pc = "respond" /\ ~task'[h].err
         => /\ task[h].pc = "run"
            /\ shard'[task[h].name] = task[h].commit]_vars

-----------------------------------------------------------------------------
(***************************************************************************)
(* Refinement.  A cycle is running from the listing to the end of          *)
(* collection; a listed repository is still to be attempted while the      *)
(* range loop has not reached it or its goroutine is inside Index.         *)
(***************************************************************************)
Unstarted == {repos[k] : k \in (i + 1)..Len(repos)}

cycleListing == IF pc \in {"spawn", "collect"} THEN ToSet(repos) ELSE None

cycleTodo ==
  IF pc = "spawn" THEN Unstarted \cup {task[s].name : s \in Building(Slots)}
                  ELSE {}

Sync == INSTANCE ShardSync WITH listing <- cycleListing, todo <- cycleTodo

\* Refresh without request goroutines implements ShardSync: every step it
\* and its goroutines take is a step a cycle of ShardSync may take.  Each
\* listed name is given to one goroutine, the builder of that goroutine is
\* the only one that can write its shard in the cycle, and
\* deleteStaleIndexes starts after wg.Wait().
ImplementsShardSync == Sync!Spec

-----------------------------------------------------------------------------
(***************************************************************************)
(* Liveness, under Fairness.                                               *)
(***************************************************************************)
\* IndexDir holds what the frontend wants: a shard at HEAD for every enabled
\* repository (the empty shard when it has no HEAD) and, unless nothing is
\* enabled, no shard of any other repository.
Converged ==
  /\ \A r \in enabled : shard[r] = head[r]
  /\ enabled # {} => \A r \in Repos \ enabled : shard[r] = None

\* Once the frontend stops changing and the calls to it and the builders
\* stop failing, the cycles of Refresh bring IndexDir to the frontend's
\* state and keep it there: every listed repository gets through the
\* semaphore, is resolved and built, and deleteStaleIndexes removes the rest.
EventuallySynchronized == <>[](quiet => Converged)

\* A cycle that has its listing gets to the end, to the wait on the ticker,
\* unless the process is restarted first: every "sem <- 1" of the range
\* loop is eventually let through and wg.Wait() eventually returns, with a
\* semaphore of any capacity main can compute, whatever fails on the way.
EveryCycleEnds == (pc = "spawn") ~> (pc \in {"sleep", "list"})

\* A builder that hangs holds back its own repository only: the range loop
\* of Refresh still gets to every other repository of the listing.
HungBuilderDelaysOnlyItsRepo ==
  (pc = "spawn") ~> (i = Len(repos) \/ pc = "list")

=============================================================================
