# TLA+ models of zoekt's Sourcegraph index server

This directory holds TLA+ specifications of the code in `src/`, the TLC
configurations that model-check them, and `PROJECT.json`, which records for
every definition the source lines it models, for every run what it checks, and
the hazards of the code the properties are aimed at.

Run a configuration with `tlc -workers 2 -config <run>.cfg <MC module>`; the
table under "Runs" names the pairs.

## 1. The system

`zoekt-sourcegraph-indexserver` keeps a directory of zoekt index shards
(`IndexDir`) in step with the repositories a Sourcegraph frontend has enabled.
The repository holds three versions of it and fragments of the libraries
around it.

| Part | Source | State it owns | Operations |
|---|---|---|---|
| Reindex scheduler | `main.go` 76-122 `Server.Refresh` | `repos` (also stored in `s.repos` under `s.mu`), the semaphore `sem` (capacity `CPUCount`), the `WaitGroup`, the ticker | list, start one goroutine per name, join, collect, wait for the tick |
| Repo directory client | `main.go` 228-280 `listRepos`, `resolveRevision`, `tarballURL` | none | two HTTP calls to the frontend |
| Shard builder invoker | `main.go` 51-73, 124-169 `loggedRun`, `Server.Index`, `createEmptyShard` | none; it starts `zoekt-archive-index`, which writes `IndexDir` | resolve HEAD, run the builder, build an empty shard on 404 |
| Stale shard collector | `main.go` 171-183, 284-308 `deleteStaleIndexes`, `deleteIfStale` | none; it deletes from `IndexDir` | glob, read each file's metadata, remove if not listed |
| Manual reindex endpoint | `main.go` 199-226 `Server.ServeHTTP` | reads `s.repos` | `POST` runs `Index(name)` in the request's goroutine; `GET` renders the list |
| Startup | `main.go` 310-370 `main` | `CPUCount` | flags, `cpuCount` rounding and clamp, `MkdirAll`, start the listener, call `Refresh` |
| Sequential server | `part_000` 1-280 | as above without `sem`, `wg`, `s.repos` | `Refresh` calls `s.index` for one name after another, builder gets `-parallelism=CPUCount` |
| Oldest server | `part_000` 281-545 | as above | a `refresh` function with the body of `index` inside its loop |
| `gitindex.RepoCache` | `cache.go` 1-68 | `repos` map under `reposMu` | `Open`, `Close` |
| `gitindex.FindGitRepos` | `main.go` 430-467 | none; it reads the directory tree below its argument | `filepath.Walk` with a function that reports checkouts and bare repositories and skips their inside |
| `gitindex.IndexGitRepo` | `main.go` 469-642 | none | `guessRepoURL`, `getCommit`, the loop over branches, the loop over file names |
| `gitindex.RepoModTime` | `main.go` 404-427 | none | the newest modification time below `refs/` and of `packed-refs` |
| Query simplifier | `eval_test.go` (test only) | none | `simplifyRepo` of a query for the repository of a shard |
| Shard registry and sharded search | `cache.go` 68-172 (test only) | the loaded shards by key | `replace`, `remove`, and `Search` with repo-scoped (`type:repo`) predicates |

How they interact. `main` computes `CPUCount` and calls `Refresh`, which never
returns. Each cycle `Refresh` asks the frontend for the enabled repositories;
for every name it takes a semaphore slot and starts a goroutine that calls
`Index`, which asks the frontend for HEAD and runs `zoekt-archive-index
-incremental` as a subprocess; the goroutine's deferred function gives the slot
back and calls `wg.Done()`. After `wg.Wait()`, and only if the listing was not
empty, `deleteStaleIndexes` globs `IndexDir` and removes every file whose
metadata names a repository the listing did not have. Then `Refresh` waits for
the ticker. Independently, every `POST` to the listener runs `Index` for the
posted name in its own goroutine, with no semaphore and no coordination with
the cycle. The only state the goroutines share is `IndexDir`, the semaphore,
the `WaitGroup` and `s.repos`.

What makes it hard: the builders of one cycle run in parallel and finish in any
order; HEAD moves between the resolve call and the end of the build; the
frontend's calls and the builder fail; a listing can come back empty; a manual
reindex races the cycle for the same repository; collection reads a directory
that builders are writing; the process can be killed in the middle of
anything and restarted on the directory it left, with or without the builders
it had started; a builder can hang, and nothing times it out; and a semaphore
of capacity 0 would block for ever.

What it must guarantee (specification sections 4, 5, 7, 8): at most `CPUCount`
builders of the scheduler at a time; collection only after every build of the
cycle is over; nothing deleted after an empty listing or because a build
failed; a shard replaced only by a newer build; the manual trigger answering
with what happened; and, once the frontend is stable, a directory that holds
exactly the shards of the enabled repositories at their HEADs.

## 2. Modules

| Module | Models | Notes |
|---|---|---|
| `IndexServer` | the concurrent server, `main.go` 1-370 | 15 variables, one action per step of `Refresh`, `Index`, `ServeHTTP`, the deferred function, and the environment |
| `IndexServerSeq` | both sequential servers, `part_000` | the same machine with one builder at a time and `-parallelism` |
| `ShardSync` | the scheduler's contract | written from the specification; both servers are shown to implement it |
| `RepoCache` | `gitindex.RepoCache`, `cache.go` 1-68 | `Open` and `Close` of several goroutines under `reposMu` |
| `GitIndex` | `gitindex.IndexGitRepo` and `guessRepoURL`, `main.go` 475-642 | the two loops of the function as steps, compared with a definition of what the trees say |
| `FindGitRepos` | `gitindex.FindGitRepos`, `main.go` 430-467 | the walk as one step per visited entry, compared with a definition of the outermost repositories of the tree |
| `RepoModTime` | `gitindex.RepoModTime`, `main.go` 404-427 | the function as an operator over a git directory, compared with the maximum over the files that hold refs; constants only, checked from `MCFindGitRepos` |
| `QuerySimplify` | the query trees and `simplifyRepo` | written from the specification (4.3); pure operators |
| `ShardedSearch` | the registry and the search engine | written from the specification (4.4, 4.5, 5); extends `QuerySimplify` |
| `MCShardedSearch` | the instance of `ShardedSearch` for TLC | its shards, queries and expected results follow `TestSearchTypeRepo` (`cache.go` 79-172) and `TestSimplifyRepo` (`eval_test.go` 30-50); they are inputs of the run, not a model of code |
| `MCIndexServer`, `MCIndexServerSeq`, `MCGitIndex`, `MCFindGitRepos` | instances for TLC | symmetry sets, the blob sizes, the remote, the paths of the tree; the other constants are given in the `.cfg` files |

### IndexServer: state

| Variable | Code |
|---|---|
| `enabled`, `head` | the frontend: what `/.internal/repos/list` and `/.internal/git/<repo>/resolve-revision/HEAD` answer; `head[r] = 0` is a repository without commits (404) |
| `shard` | `IndexDir`: the commit of each repository's shard, `None` when there is none; `EmptyCommit` (0) is the `404aaaa...` commit of `createEmptyShard` |
| `temp` | the goroutines whose builder is running and has a temporary file in `IndexDir` |
| `litter` | what builders that were killed with the process left in `IndexDir`: for each file the repository its metadata names, or `None` when it was not written out |
| `orphans` | the builders that are still running after their server was killed, each with the name and the commit it was started with |
| `repos`, `i` | `repos` of `Refresh` and the position of its range loop |
| `pc` | where `Refresh` is: `list`, `spawn` (the loop and `wg.Wait()`), `collect`, `sleep` |
| `sem`, `wg` | `len(sem)` and the `WaitGroup` counter |
| `fs` | the files `filepath.Glob` returned that the collector has not visited yet: shards, the temporary files of running builders, those of orphans (one entry for all of them), and litter |
| `task` | per goroutine (the slots of `Refresh`, the request handlers): its step (`idle`, `resolve`, `run`, `release`, `done`, `respond`), the name and commit it holds, and the error `Index` returned |
| `tick` | the ticker's channel, capacity 1 |
| `quiet` | environment: from here on the frontend does not change, calls and builders do not fail, the process is not restarted |

### IndexServer: actions

| Action | Code | What is kept |
|---|---|---|
| `RefreshList` | `Refresh` 79-95 | the listing in any order, with names repeated when `MaxListing` allows it (`listRepos` copies the URIs as they come), or an error that skips the cycle and leaves `s.repos` |
| `RefreshSpawn` | 97-107 | `sem <- 1` blocks at capacity, `wg.Add(1)` before `go`, the goroutine gets the name |
| `Index(t)` | `Index` 124-143 | the three outcomes of the resolve call: 404 builds the empty shard, another error or an empty commit returns, a commit starts the builder |
| `loggedRun(t)` | 51-73, 153-154 | the builder exits 0 or not (`ExitsOK`: never 0 when its temporary file was removed under it); `Index` returns nil either way |
| `SemRelease(t)`, `WaitGroupDone(t)` | 101-104 | the deferred `<-sem` and `wg.Done()`, in that order, as two steps |
| `RefreshWait` | 108-118 | `wg.Wait()`, then `if len(repos) > 0` and the glob |
| `deleteStaleIndexes` | 171-183, 284-308 | one file per step over the glob's snapshot. `ReadMetadata(f)` is the repository the file names: a shard's own, a temporary file's once the builder has written it out, or `None` for a file that cannot be opened or parsed, which is skipped. `RemoveFile` is `os.Remove` of a file of an unlisted repository, whatever kind of file it is; until the environment is quiet it may fail, and the file stays for the next cycle |
| `RefreshSleep` | 120-121 | `<-t.C` |
| `ServePost`, `ServeRespond` | 199-226 | a `POST` of any name; the reply after `Index` returned |
| `Tick`, `HeadAdvances`, `Toggle`, `Quiesce` | environment | |
| `Restart` | environment | the process is killed and `main` runs again: all of `Server`'s memory is as `Started` says (`main` 351-369), `IndexDir` is as it was left. No line of the code handles a kill; the action is the environment's. With `KillsBuilders` the builders die with it and leave their temporary files, written out or not; without it they run on as `orphans` |
| `OrphanExit(o)` | 58 (`cmd.Run`'s child) | a builder whose server is gone exits: 0 leaves the shard of its name at its commit, whatever the new server has written since |

`Index` is two steps (resolve, builder exit) so that HEAD can move and other
builders can finish in between; these are the points where the goroutine is
blocked on another process. `GoStep(t)` is what a goroutine does by itself
and `TaskStep(t)` adds the return of `cmd.Run`, so that fairness can be given
to the first without the second. The command line, the trace and the log are left
out. A `GET` only reads `s.repos` under the mutex and is not an action.

The builder is not in this repository. `BuilderExit` models the specification's
contract for it: while it runs it has a temporary file in `IndexDir`; exit 0
leaves the shard of the name at the commit it was given; any other exit leaves
the shard as it was. The final step of a builder is the rename of its
temporary file, so a builder whose file the collector removed cannot exit 0.

The temporary files of orphans are one entry of the glob, whose metadata may
name the repository of any orphan or none. Removing such a file makes the
orphan's rename fail, which is the non-zero exit `OrphanExit` has anyway; the
model removes the orphan with its file.

### IndexServerSeq

The same variables without `sem`, `wg`, `temp` and `task`; `builder` holds the
arguments of the one builder that may be running. `litter` is as in `IndexServer`, and `ReadMetadata`,
`RemoveFile` and `Listings` are the sequential code's copies of the same
lines. `index`/`loggedRun` are the
two halves of `s.index`, `RefreshIndexed` is the end of the range loop with the
`len(repos) == 0` return, and `Launch` records the `-parallelism` the builder
is given (`CPUCount` for a real build, none for the empty shard). The map in
`PROJECT.json` names the lines of the `Server.index` version (`part_000`
1-280); the `refresh` function of lines 281-545 takes the same steps in the
same order.

### ShardSync and the refinement

`ShardSync` has the frontend, the shards, and a cycle: `listing` (the set of
names the cycle works from, `None` between cycles) and `todo` (the listed names
still to be attempted). `BeginCycle` takes a listing; `Attempt(r)` takes `r`
from `todo`, or leaves it there when the listing names it again, and either
leaves its shard or puts it at a commit that is not
ahead of HEAD and not behind the shard that is there; `Collect(r)` deletes the
shard of an unlisted `r`, only when `todo` is empty and the listing is not;
`EndCycle` and `Restart` end the cycle.

`IndexServer` maps to it with `listing <- ToSet(repos)` while `pc` is `spawn`
or `collect`, and `todo <-` the names the loop has not reached plus the names
held by goroutines inside `Index`. `IndexServerSeq` maps the same way with the
loop position alone. `ImplementsShardSync` is `Sync!Spec` in both.

### RepoCache

`repos` is `rc.repos` (a key with no entry maps to `None`), `reposMu` the
goroutine holding the mutex, `handles` the sequence of repositories
`git.OpenRepository` has returned (a handle is its index, the element its key),
`freed` the handles `Free` was called on, `onDisk` the keys that are a
repository below `baseDir`, `call` and `ret` each goroutine's position and the
result of its last `Open`. A URL is a name spelled with or without `.git`;
`Key` adds the suffix when it is missing. `Open` is `OpenLock` (the key and
`Lock`), `OpenLookup` (a hit returns) and `OpenRepository` (success stores and
returns, failure returns; the deferred `Unlock` either way); `Close` is
`CloseLock` and `CloseFree`, which frees what the map holds and leaves the map
as it is. `DirChanges` is the environment.

`Close` does not empty the map, so in the model as in the code an `Open` after
`Close` returns a freed repository and a second `Close` frees it again. No
caller in the repository does either, and nothing says what should happen;
this is recorded as a hazard and not checked as a property.

### GitIndex

`OpenRepository` is the start of the call: `git.OpenRepository` fails and the
function returns the error, or it succeeds and `guessRepoURL` fills
`opts.RepoURL`. The inputs are chosen in `Init`: `branches` (the argument, any list of up to
`MaxBranches` of `"HEAD"` and the branch names), `head` (the reference HEAD
names, or none) and `tree` (for every reference the files of its commit as a
map from name to blob id, or nothing when the reference does not resolve).
`BranchStep` is one round of the loop over `branches`: `Resolve` turns `HEAD`
into the branch it names, `getCommit` fails or gives the tree, and the branch
is appended to `opts.Branches` and to `allfiles` of every name it has.
`NewBuilder` sorts the names. `NameStep` is one round of the loop over names:
`shas` groups the branches of the name by blob, and a document is added for
every blob that is not `TooLarge`, in any order of the blobs. `Finish` ends
the call; every error return goes to `pc = "error"`.

A branch below `branchPrefix` and its short name are one value in the model,
which is what `filepath.Join(branchPrefix, b)` and
`strings.TrimPrefix(fullName, branchPrefix)` do between them; a reference
outside the prefix (`Outside`) keeps its full name. A blob's content is its
id. The submodule repositories of `TreeToFiles` are left out.

`remote` is `remote.origin.url` of the repository's configuration, a host (a
sequence of parts) and whether the URL ends in `.git`, or `None` when the
configuration has none. `guessRepoURL` tests the host as the code does: a
host that ends in `googlesource.com` keeps the URL (`gerrit.googlesource.com`
and also `notgooglesource.com`: `strings.HasSuffix` asks for no dot), the
host that is `github.com` loses the suffix, and any other host, `www.github.com`
included, gets nothing. `optsURL` is what `IndexGitRepo` puts into
`opts.RepoURL` before the loops.

`Flattened` is the reference definition: for every name and every blob of at
most `SizeMax`, the set of requested branches that have that blob under that
name, when it is not empty.

When the list names a branch twice, or names `HEAD` and the branch it points
at, the branch is twice in `opts.Branches` and in the documents' branches.
Nothing in the repository says whether that is meant. The property compares
the documents with `Flattened` by the set of their branches, and says
separately that a branch is repeated in a document exactly as it is in
`opts.Branches`, and there exactly as in the request.

### FindGitRepos

A name of an entry is a pair `<<stem, ext>>`: the stem is a number that stands
for the string and gives its place in the order of the strings, the extension
is `""` or `".git"`; `.git` itself is `<<0, ".git">>`. A path is the sequence
of the names below the argument. `tree` maps every path of `Paths` to what is
there: a directory, a file, a symbolic link to a checkout (only in the run
`links`), an entry that is `gone`, or nothing; an entry exists only in a
directory. A `gone` entry is one its directory lists and `os.Lstat` fails
for: it was removed between the two calls, or the directory may be read and
not searched. The tree is chosen in `Init` and does not change during the
call, so `gone` is the one trace a concurrent `git fetch` or `rm` leaves in
the model.

| Definition | Code | What is kept |
|---|---|---|
| `IsDir`, `HasDir` | 443, 438-448 | `fi.IsDir()`, and `os.Lstat` of a joined path, which follows a link in every element but the last |
| `walkFn(name)` | 437-454 | what the function appends for `name`: `name/.git` when that is a directory, `name` when it is a directory called `x.git` with a directory `objects`, else nothing |
| `SkipDir(name)` | 439-453 | `filepath.SkipDir` is returned exactly after an append |
| `Walk(name, rest)` | `filepath.Walk` (library) | the entries of a directory come next, in lexical order; `SkipDir` for a directory leaves them out; `SkipDir` for anything else leaves out the rest of the directory it is in |
| `Visit` | 437-456 | one call of the function and what `Walk` does with its result |
| `Panics(name)`, `Panic` | 443 | `Walk` hands the function a nil `FileInfo` with the error of the failed `Lstat`; the function ignores the error, and `fi.IsDir()` is reached when the name ends in `.git`. The call ends in `pc = "panic"` |
| `RepoName`, `Return` | 458-466 | the four `Trim` calls, and the map from directory to name. Only the `.git` at the end of the git directory is trimmed: a bare repository `a.git` is named `a`, a checkout in a directory `a.git` is named `a.git` |

`todo` is the sequence of paths `Walk` has still to visit; it stands for the
recursion of `filepath.Walk`, which is not in this repository and is written
from its documentation. For a `gone` entry whose name does not end in `.git`
the function returns nil at line 444 and the walk goes on.

`Roots` is the reference: the directories below the argument that are a
repository, without asking how a walk gets to them.

### RepoModTime

A git directory is a function `fs` from the paths below it (`RefPaths` in
`MCFindGitRepos`: `refs`, `refs/heads`, `refs/heads/master`, `info`,
`info/refs`, `packed-refs`) to what `os.Lstat` finds: a directory or a file
with its modification time, `Gone`, or `None`. The zero `time.Time` is 0.

| Definition | Code | What is kept |
|---|---|---|
| `Lstat(fs, name)` | 407, 420 | the call returns no error |
| `Later(last, fi)` | 410-412, 420-422 | `last` moves to the time of an entry that is not a directory and is later |
| `Walk(fs, name, last)` | 408-414 | `filepath.Walk` with the function of lines 409-414: `last` after the entry and everything below it, `Panic` when an entry is `Gone`, because the function reads `fi` without looking at `err` |
| `RepoModTime(fs)` | 404-427 | the walk when `refs` can be read, then `info/refs` and `packed-refs` |

The module has no variables. Its property quantifies over every git
directory (`GitDirs`, 3,456 of them with two times) and is evaluated once,
in the run `walk`.

### QuerySimplify and ShardedSearch

The code of the simplifier, the registry and the search engine is not in the
repository; their tests are. The two modules are written from the
specification, and `MCShardedSearch` takes its shard, its queries and what
it expects from the tests. Every shard and every query there is a definition
of its own (`TestShard`, `TypeRepoQueries`, `RepoQuery`, `NegatedTypeRepo`,
`Nil`), and `MCShards` and `MCQueries` only collect them: TLC evaluates a
constant definition once, before its workers start, and a record written
inside the set that `Queries` is replaced by would be built again where
`Next` quantifies over `Queries`, and handed to all workers before it is in
normal form.

A query is a record with its `op` and its pattern, child or children.
`simplifyRepo(q, repo)` turns every repository pattern into the constant that
says whether it matches `repo` and folds the constants: `Junction` is an
`And` or `Or` of simplified children, in which the absorbing constant wins,
the neutral one is dropped, and a single child that is left stands for
itself; a `Not` of a constant is a constant. A repository name and a pattern
are sequences, and a pattern matches the names that contain it
(`MatchesRepo`), at their start or anywhere else.

A shard is its repository and its documents, a document its name and the set
of `<<word, offset>>` of its content; a pattern matches a word equal to it.

| Variable | Meaning |
|---|---|
| `workers` | the size the pool was built with, `newShardedSearcher(n)` |
| `registry` | the shard of every key, `None` for a free key |
| `query`, `budget`, `snap` | the search: its query, its maximum of matches (0 for none), the snapshot of the registry it took |
| `phase` | `idle`, `A`, `B` |
| `pending`, `running` | the keys whose shard waits for a worker, and those a worker is evaluating |
| `holds` | for the child of every repo-scoped predicate, the repositories phase A has found a matching document in |
| `files` | the file matches of phase B in the order the workers delivered them |
| `outcome` | `complete`, `cancelled` (stopped at the budget) or `degraded` (a shard could not be read) |
| `result` | what `Search` returned |

| Action | Specification | What it does |
|---|---|---|
| `replace(key, shard)`, `remove(key)` | 4.4 | one atomic change of the registry, at any time |
| `Search(q, max)` | 4.5 step 1 | a malformed query returns `QueryError` with nothing dispatched; else the snapshot, and phase A with every shard pending when the query has a repo-scoped predicate |
| `Dispatch(k)` | 4.5 step 3 | a free worker takes a pending shard |
| `PhaseA(k)` | 4.5 step 2 | the worker adds the shard's repository to `holds` for every child a document of the shard matches; a shard that cannot be read adds nothing |
| `NextPhase` | 4.5 step 2, section 9 | when no shard is pending or running, phase B begins, with the shards whose query has not become the constant false |
| `PhaseB(k)` | 4.5 step 2 | `ShardQuery(k)` is the query with the answers of phase A put in, simplified for the shard's repository; the worker appends a file match for every document it matches, with the fragments of the leaves the document had to match |
| `Cancel` | 4.5 step 5 | at the budget, what is pending is dropped and what is running is abandoned |
| `Return` | 4.5 step 4 | `Merge` keeps every fragment of a repository and file where it came in first. A file match has no branches, so what two shards with different branches of one repository give for a file is not told apart (section 9 leaves it open) |

One search runs at a time; a second one would share with it the registry,
which it only reads, and the workers of the pool. `Accepts` is the reference: what a query
accepts, said by recursion over the tree with the repo-scoped predicate as
"some document of the repository in the snapshot", with no phases, no
workers and no simplification.

## 3. Runs

| Run | Module / cfg | Constants | Properties | Result |
|---|---|---|---|---|
| `safety` | `MCIndexServer` / `IndexServer_safety.cfg` | 2 repos, listings of up to 2 entries with repetition, 1 handler, `CPUCount` = 1, `MaxCommit` = 1, builders outlive the server | `TypeOK`, `BuildersWithinBudget`, `CollectAfterBuilds`, `OnlyStaleShardsDeleted` | holds, 4,531,264 states |
| `scheduler` | `MCIndexServer` / `IndexServer_scheduler.cfg` | 2 repos, no handler, `CPUCount` = 2, `MaxCommit` = 2, builders die with the server | `ShardNeverRegresses`, `ImplementsShardSync` | holds, 1,089,872 states |
| `liveness` | `MCIndexServer` / `IndexServer_liveness.cfg` | 2 repos, no handler, 1 CPU at 25 %, `MaxCommit` = 1, builders outlive the server, `FairSpec` | `EventuallySynchronized`, `EveryCycleEnds` | holds, 479,744 states |
| `seq` | `MCIndexServerSeq` / `IndexServerSeq_cycle.cfg` | 2 repos, listings of up to 2 entries with repetition, 1 CPU at 25 %, `MaxCommit` = 2, `FairSpec` | `TypeOK`, `ImplementsShardSync`, `EventuallySynchronized` | holds, 1,088,928 states |
| `cache` | `RepoCache` / `RepoCache_cache.cfg` | 2 names (4 URLs), 3 callers, `MaxOpens` = 3, `FairSpec` | `TypeOK`, `CacheCoherent`, `CloseFreesAll`, `LockAlwaysReleased` | holds, 7,968 states |
| `flatten` | `MCGitIndex` / `GitIndex_flatten.cfg` | 2 branches, 1 outside reference, 2 names, 2 blobs, lists of up to 2, one of four remotes or none | `TypeOK`, `BuilderGetsFlattenedTrees` | holds, 1,155,105 states |
| `walk` | `MCFindGitRepos` / `FindGitRepos_walk.cfg` | 10 paths; directories, files and entries that are gone: 16,492 trees. For `RepoModTime` 6 paths and 2 times | `TypeOK`, `FindsOutermostRepos`, `ReturnsUnlessGitEntryVanished`, `RepoModTimeReturnsLastRefChange` | holds, 79,177 states |
| `search` | `MCShardedSearch` / `ShardedSearch_search.cfg` | 2 keys, 3 shards, 9 queries, a pool of 1 or 2 workers, budget 0 or 1, `FairSpec` | `TypeOK`, `SearchReportsWhatTheQueryAccepts`, `SimplifyRepoFolds`, `TypeRepoMatchesNotReported`, `SearchReturns` | holds, 166,528 states |
| `reply` | `MCIndexServer` / `IndexServer_reply.cfg` | 2 repos, 1 handler | `IndexReportsOutcome` | violated |
| `regress` | `MCIndexServer` / `IndexServer_regress.cfg` | 2 repos, 1 handler, `MaxCommit` = 2 | `ShardNeverRegresses` | violated |
| `hung` | `MCIndexServer` / `IndexServer_hung.cfg` | 2 repos, no handler, `CPUCount` = 1, `HungSpec` | `HungBuilderDelaysOnlyItsRepo` | violated |
| `links` | `MCFindGitRepos` / `FindGitRepos_links.cfg` | the 10 paths, with symbolic links to checkouts | `FindsOutermostRepos` | violated |

What the properties say:

* `BuildersWithinBudget`: the goroutines of `Refresh` that are inside `Index`
  never outnumber `CPUCount`. Builders of request goroutines are outside the
  semaphore and are not counted (see the hazards).
* `CollectAfterBuilds`: while the collector runs, every goroutine of the cycle
  has returned from `Index` and run `wg.Done()`, and none has a temporary file.
* `OnlyStaleShardsDeleted`: a shard disappears only in a cycle with a
  non-empty listing that does not name it, with request goroutines writing
  the directory at the same time and restarts in between; and the temporary
  file of a builder that is still running is removed under it only in such a
  cycle, which happens to the builder of a `POST` for an unlisted repository
  and never to a builder of the cycle.
* `ShardNeverRegresses`: no step replaces a shard by the shard of an older
  commit. It holds for the scheduler alone and fails with a request goroutine.
* `ImplementsShardSync`: every behaviour is a behaviour of `ShardSync`. Both
  are checked with builders that die with the server: a builder that outlives
  it writes its shard outside every cycle, which `ShardSync` does not allow,
  and may write an older commit over a newer one.
* `EventuallySynchronized`: `<>[](quiet => Converged)`: once the environment
  is quiet the directory converges to the frontend's state and stays there.
  It is checked for `Refresh` alone: a `POST` of a disabled repository can
  follow every cycle, and with request goroutines the directory need never
  equal the listing.
* `EveryCycleEnds`: a cycle that has its listing reaches the wait on the
  ticker, unless the process is restarted first.
* `HungBuilderDelaysOnlyItsRepo`: with builders that need not exit, the range
  loop of `Refresh` still starts every repository of the listing.
* `TypeOK` of `IndexServerSeq` also bounds the builder's `-parallelism` to
  `1..NumCPU`.
* `CacheCoherent`: every repository `git.OpenRepository` has returned is the
  one the map holds for its key, so concurrent `Open`s of one repository,
  under either spelling, open it once and share the handle.
* `CloseFreesAll`: when `Close` returns, every repository that was ever opened
  has been freed.
* `LockAlwaysReleased`: `reposMu` is given back on every path, the error
  return of `git.OpenRepository` included.
* `TypeOK` of `RepoCache` also says every key `Open` works with ends in
  `.git`.
* `BuilderGetsFlattenedTrees`: when `IndexGitRepo` returns nil, the builder
  was given exactly the documents of `Flattened`, each once and in the order
  of their names; `opts.Branches` is the request entry for entry, with
  `HEAD` as the branch it names; and the branches of a document are the
  entries of `opts.Branches` that have its blob, in that order.
* `TypeOK` of `GitIndex` also says `opts.Branches` and the documents name
  branches, never `HEAD`.
* `FindsOutermostRepos`: the result's directories are the git directories of
  exactly the repositories below the argument that are not inside another
  repository: nothing outside a reported repository is skipped, nothing
  inside one is visited.
* `TypeOK` of `FindGitRepos` also says no name of the result has a `.git`
  directory in it: the walk never goes inside one, and the `.git` of a
  checkout is trimmed from the end. A name may end in `.git`, as that of a
  checkout in `a.git` does.
* `ReturnsUnlessGitEntryVanished`: the call panics only at an entry named
  `x.git` that is gone and not inside a reported repository, and returns
  only when the tree has no such entry; a vanished entry of any other name,
  or one inside a repository, does no harm.
* `RepoModTimeReturnsLastRefChange`: for every git directory `RepoModTime`
  returns the latest modification time of the files below `refs`, of
  `info/refs` and of `packed-refs`, whatever the times of the directories,
  and the zero time when there is none; it panics exactly when an entry
  below `refs` is gone.
* `SearchReportsWhatTheQueryAccepts`: a search in which no shard failed
  reports exactly the files of its snapshot that `Accepts` says the query
  accepts; a search stopped at its budget reports only such files; and so
  does a search in which a shard could not be read, unless its query has a
  repo-scoped predicate under a `Not` (a failed shard only takes files
  away, except where a lost answer of phase A is negated). All of it
  whatever the workers' order and whatever `replace` and `remove` do in the
  meantime.
* `SimplifyRepoFolds`: the two expectations of `TestSimplifyRepo`, and for
  every query of a search and every repository: the simplified query has no
  repository pattern, no constant below a combinator and no combinator of
  one child, accepts what the query accepts, and simplifies to itself.
* `TypeRepoMatchesNotReported`: the six searches of `TestSearchTypeRepo`:
  with the test's shard, one file `f2` with the one fragment `file` at
  offset 8, or nothing.
* `SearchReturns`: every search returns.
* `TypeOK` of `ShardedSearch` also says the workers never outnumber the pool.

`PROJECT.json` names, for every property of a passing run, a mutation of the
modelled code under which TLC finds the property violated: a semaphore send
that never blocks, a missing `wg.Add`, collection without the
`len(repos) > 0` test, `Refresh` going on without `wg.Wait()`, a deferred
function that does not receive from `sem`, `cpuCount` without its clamp, a
collector that deletes the listed shards, an ignored 404, an `Open` without
the mutex, without the store, without the suffix, or without the unlock on its
error path, a `HEAD` that keeps its name, a size test with `>=`, a walk
function that never returns `filepath.SkipDir`, a name that keeps its suffix,
an `fi.IsDir()` before the test of the name, a `last` that takes the time of
every entry, a pool without a bound, a phase B that does not wait for the workers of
phase A, an `And` and `Or` that fold nothing,
a repo-scoped predicate replaced by its child, a worker that keeps its slot.

### Findings

* `reply` (`main.go:154`). `ServeHTTP` answers "Indexed <name>" whenever
  `Index` returns nil, and `Index` returns nil when the resolve call answers
  200 with an empty body (`err` is nil, `commit` is empty, `return err`) and
  when the builder exits non-zero (`loggedRun` only logs). The specification
  has the manual trigger report success or failure.
* `regress` (`main.go:213`). A request goroutine and the cycle's goroutine for
  the same repository resolve HEAD at different times; when the builder with
  the older commit exits last, the newer shard is overwritten. In TLC's trace
  the empty shard replaces the shard of the repository's first commit. The
  next cycle repairs it.

* `hung` (`main.go:98`). The specification says a slow or hung builder
  delays only its own repository, not the rest of the cycle. `cmd.Run` has no
  timeout and `Refresh` itself sends on the semaphore: with `CPUCount` 1,
  which is what the default `cpu_fraction` gives on up to five cores, one
  builder that never exits keeps the loop at `sem <- 1` and no other
  repository of the listing is started. With a larger semaphore the others
  are built, and `wg.Wait()` then holds back collection and every later cycle.
* `links` (`main.go:440`). `os.Lstat(name + "/.git")` resolves `name` when it
  is a symbolic link to a checkout, so the function reports the link and
  returns `filepath.SkipDir`; for an entry that is not a directory `Walk`
  takes that to mean the rest of the containing directory. Every repository
  that sorts after the link in its directory is missing from the result, and
  no error is returned. In TLC's trace `arg/a` is the link and `arg/b` the
  checkout that is lost.

## 4. Bounds

| Bound | Value | Why it is enough |
|---|---|---|
| `Repos` | 2 | two names give a listed and an unlisted repository, two builders in parallel, and a semaphore of 1 that blocks the loop |
| `Handlers` | 0 or 1 | one request goroutine is enough to race the cycle for a name; runs about the scheduler itself have none |
| `NumSlots` | 2 | at most one goroutine per entry of the listing is alive, so as many slots as the longest listing never make `RefreshSpawn` wait (an `ASSUME` says so) |
| `MaxListing` | 0 or 2 | 0: a listing names every enabled repository once. 2 (`safety`, `seq`): a listing of up to two entries may name one repository twice, and the cycle then attempts it twice. `scheduler`, `liveness` and the violation runs take 0: with two builders in parallel a repeated name gets two builders of its own, which is the race of the run `regress` inside one cycle (see the hazards) |
| `NumCPU`, `CPUFractionPct` | 4 at 25 % (`CPUCount` 1), 8 at 25 % (2), 1 at 25 % (rounds to 0, clamped to 1), 4 at 50 % (2) | a blocking semaphore, a non-blocking one, and the clamp |
| `MaxCommit` | 1 or 2 | 1 gives the empty shard and a build; 2 lets HEAD move twice between a resolve and its build |
| `Names`, `Callers` (`RepoCache`) | 2, 3 | two goroutines race for one key or work on two while a third is in `Close`; two names give a hit for one key beside a miss for another |
| `MaxOpens` | 3 | one more than the keys: the code never opens a key twice, so the bound is never what stops it |
| `Remotes` (`GitIndex`) | `github.com` and `www.github.com` with `.git`, `gerrit.googlesource.com` and `notgooglesource.com` without, or no remote | a host on each side of the equality test and of the suffix test, and the `nil` template |
| `Paths` (`FindGitRepos`) | `.git`, `a`, `a/.git`, `a/a.git`, `a/a.git/objects`, `a.git`, `a.git/.git`, `a.git/objects`, `b`, `b/.git` | the argument itself a checkout; a checkout with a bare repository inside; a checkout in a directory named `a.git`, with or without `objects` beside its `.git`; a bare repository next to a plain directory of the same stem (the order of `a` and `a.git`); `x.git` without `objects`; a repository after a skipped one in the same directory; every entry also as a file, gone, or missing |
| `RefPaths`, `Times` (`RepoModTime`) | `refs`, `refs/heads`, `refs/heads/master`, `info`, `info/refs`, `packed-refs`; 1 and 2 | a loose ref two directories down, each of the packed files, `refs` or `info` a file; two times put the latest in any of the places, and on a directory, which must not count |
| `Keys`, `PoolSizes` (`ShardedSearch`) | 2; 1 and 2 | two shards of one repository, or of two. A pool of one worker for two shards, so that a shard waits for the pool and a phase ends with a worker still out; a pool of two, which is what the test builds, so that two shards are evaluated at the same time and finish in either order. 3 keys with 2 workers have more than a million states and show nothing else |
| `Shards` | the test's shard (`f1`, `f2`), the same repository with `f2` only, a shard of `bar-10` | the document that satisfies the repo-scoped predicate in another shard than the file; a file in two shards; a repository the patterns match |
| `Queries` | the 6 of the test, the repo-scoped predicate under a `Not`, `TestSimplifyRepo`'s with three patterns for its 2018, a malformed one | of the three patterns two are found in the name `bar-10` and one is not, as `bar-1` and `bar-10` are found in the test's `bar-100` and `bar-2` is not |
| `MaxMatches` | 0, 1 | no budget, and one that two shards exceed |
| `GitIndex` inputs | 3 references, 2 names, 2 blobs, lists of up to 2 | one name with the same blob on two branches, with different blobs, on one branch only; a blob of exactly `SizeMax` and one a byte larger; `HEAD` at a listed branch, at an unlisted one, outside the prefix, or nowhere; a reference that does not resolve |

Counters are bounded by these: `sem <= CPUCount`, `wg <= Len(repos)`,
`i <= Len(repos)`, `head[r] <= MaxCommit`.

Deadlock is checked in every run but `flatten`, `walk` and `links`: the
servers and the cache's callers can always take a step, and `IndexGitRepo`
and `FindGitRepos` are calls that return, or panic.

## 5. Fairness

`FairSpec` assumes weak fairness of `Refresh`, of every goroutine's `TaskStep`
and of `Tick`: the Go scheduler runs a runnable goroutine, the ticker keeps
firing, and a call to the frontend or a builder eventually returns. The last
is an assumption about the environment: `cmd.Run` and the HTTP client have no
timeout in this code. `HungSpec` is the same without it for the builder:
fairness of `GoStep` only, so a goroutine runs whenever it can and `cmd.Run`
may never return; the run `hung` shows what that does to the cycle. An
orphaned builder is assumed to exit (`WF` of `OrphanExit`).
Nothing is assumed about requests, frontend changes or restarts; `quiet`
becoming true is what the liveness properties are conditioned on.

`ShardedSearch`'s `FairSpec` is weak fairness of `Step`, the steps of the
workers and of the caller that waits for them: the pool's goroutines run.
Nothing is assumed about `replace`, `remove` or new searches.

`RepoCache`'s `FairSpec` is weak fairness of the steps a goroutine takes with
the mutex held: it is runnable, and `git.OpenRepository` reads a local
directory and returns. Nothing is assumed about who gets the mutex next.

`KillsBuilders` chooses what a kill of the server does to the builders it
started. The code does nothing about them (no process group, no signal
handler), so both happen: a stopped container takes them along, a `kill` of
the server alone leaves them running. The runs `safety` and `liveness` take
the second case, in which a build of the old server finishes while the new
one is in any step of its cycle, collection included; `scheduler` takes the
first, for the reason given with its properties.

## 6. Not modelled

* In `ShardedSearch`: ranking, regular expressions, the statistics of a
  result, deadlines, and two searches at once (with the test's queries and
  shards two searches side by side are beyond what TLC enumerates in the
  time of a run). For a search in which a shard
  could not be read and whose query negates a repo-scoped predicate,
  `SearchReportsWhatTheQueryAccepts` claims nothing: the specification makes
  the failed shard's contribution empty, and when that happens in phase A
  under a `Not`, the search reports a file the query does not accept (TLC
  finds it when the property is extended to such searches). The
  specification does not say what phase A should do; this is listed as a
  hazard.
* The loader that installs shard files into the registry, and with it the
  composition of the index server and the search engine: nothing of it is
  in the repository, and the specification gives it no behaviour beyond
  "an unreadable file is absent".
* In `RepoModTime` and `FindGitRepos`: a tree that changes while the call
  runs, other than by an entry that is gone when `Lstat` gets to it. A
  `git gc` that packs a loose ref between the walk and the `Lstat` of
  `packed-refs`, or a clone that appears behind the walk, are steps of git
  and of whoever fills the directory; the functions take no lock and promise
  nothing about them. A directory that cannot be listed is an empty one to
  both functions and is not told apart.
* In `ShardedSearch`: the branches of a file match, and with them what the
  merge does with a file that two shards hold for different branches.
  `TestSearchTypeRepo` has a TODO for the same repository in two shards, and
  the merge itself is not in the repository, so no property is stated of it.
* In `IndexGitRepo`: submodules, the content of the files, and what an
  abandoned builder leaves behind when the function returns an error after
  documents were added (package `build` is not in the repository).
* In `RepoCache`: what a caller does with a repository `Close` has freed.
* No property says that `RepoModTime` and `FindGitRepos` never panic, that a
  branch is named once in `opts.Branches`, or that a builder of a request
  counts against `CPUCount`: the code does not behave so, nothing in the
  repository or the specification says it should, and the properties
  `ReturnsUnlessGitEntryVanished`, `RepoModTimeReturnsLastRefChange`,
  `BuilderGetsFlattenedTrees` and `BuildersWithinBudget` state what the code
  does instead. The behaviours are listed as hazards in `PROJECT.json`.
* Flag parsing, the `PATH` set-up, the HTML template, the trace and log
  output and `tarballURL`: string formatting and configuration with no state.
