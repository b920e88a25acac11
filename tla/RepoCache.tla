----------------------------- MODULE RepoCache -----------------------------
(***************************************************************************)
(* gitindex.RepoCache (gitindex/cache.go): a map from the normalised name  *)
(* of a repository to its open git.Repository, shared by goroutines that   *)
(* call Open and Close under the mutex reposMu.                            *)
(*                                                                         *)
(* The directory below baseDir is the environment.                         *)
(***************************************************************************)
EXTENDS Integers, Sequences, FiniteSets, Functions

CONSTANTS
  Names,     \* host and path of a repository, without a ".git" at the end
  Callers,   \* goroutines that use the cache
  MaxOpens,  \* bound on the git.OpenRepository calls that succeed
  None       \* nil

ASSUME MaxOpens \in Nat /\ None \notin Callers \cup Nat

URLs == Names \X {"", ".git"}   \* a name as the caller spells it
Keys == Names \X {".git"}

VARIABLES
  repos,    \* rc.repos
  reposMu,  \* the caller that holds rc.reposMu, or None
  handles,  \* the repositories git.OpenRepository has returned, by key
  freed,    \* the ones Free was called on
  onDisk,   \* the keys that are a git repository below baseDir
  call,     \* per caller: where it is in Open or Close, and Open's key
  ret       \* per caller: what its last Open returned, None with an error

vars == <<repos, reposMu, handles, freed, onDisk, call, ret>>

Opened == 1..Len(handles)

\* filepath.Join(u.Host, u.Path) as it is.
KeyUnnormalised(u) == u

\* filepath.Join(u.Host, u.Path), with ".git" added unless it ends in it.
Key(u) == IF u[2] = ".git" THEN u ELSE <<u[1], ".git">>

\* Going on without the mutex.
LockSkipped(c) == reposMu' = c

\* rc.reposMu.Lock()
Lock(c) == reposMu = None /\ reposMu' = c

Idle == [pc |-> "idle", key |-> None]

\* return r, err; the deferred Unlock runs.
Return(c, r) ==
  /\ ret' = [ret EXCEPT ![c] = r]
  /\ call' = [call EXCEPT ![c] = Idle]
  /\ reposMu' = None

-----------------------------------------------------------------------------
OpenLock(c, u) ==
  /\ call[c].pc = "idle"
  /\ Lock(c)
  /\ call' = [call EXCEPT ![c] = [pc |-> "lookup", key |-> Key(u)]]
  /\ UNCHANGED <<repos, handles, freed, onDisk, ret>>

\* r := rc.repos[key]
OpenLookup(c) ==
  /\ call[c].pc = "lookup"
  /\ LET r == repos[call[c].key] IN
       \/ r # None /\ Return(c, r)
       \/ /\ r = None
          /\ call' = [call EXCEPT ![c].pc = "open"]
          /\ UNCHANGED <<reposMu, ret>>
  /\ UNCHANGED <<repos, handles, freed, onDisk>>

\* An error path that returns before an Unlock written at the end.
OpenFailedLocked(c) ==
  /\ ret' = [ret EXCEPT ![c] = None]
  /\ call' = [call EXCEPT ![c] = Idle]
  /\ UNCHANGED <<repos, reposMu, handles>>

\* git.OpenRepository returned an error.
OpenFailed(c) ==
  /\ Return(c, None)
  /\ UNCHANGED <<repos, handles>>

\* The new repository returned and not stored.
StoreNothing(key, r) == UNCHANGED repos

\* rc.repos[key] = repo
Store(key, r) == repos' = [repos EXCEPT ![key] = r]

OpenRepository(c) ==
  /\ call[c].pc = "open"
  /\ \/ /\ call[c].key \in onDisk
        /\ Len(handles) < MaxOpens
        /\ handles' = Append(handles, call[c].key)
        /\ Store(call[c].key, Len(handles'))
        /\ Return(c, Len(handles'))
     \/ OpenFailed(c)
  /\ UNCHANGED <<freed, onDisk>>

CloseLock(c) ==
  /\ call[c].pc = "idle"
  /\ Lock(c)
  /\ call' = [call EXCEPT ![c].pc = "free"]
  /\ UNCHANGED <<repos, handles, freed, onDisk, ret>>

\* The range loop of Close; the entries stay in the map.
CloseFree(c) ==
  /\ call[c].pc = "free"
  /\ freed' = freed \cup (Range(repos) \ {None})
  /\ call' = [call EXCEPT ![c] = Idle]
  /\ reposMu' = None
  /\ UNCHANGED <<repos, handles, onDisk, ret>>

\* A repository is cloned into baseDir, or removed from it.
DirChanges(k) ==
  /\ onDisk' = IF k \in onDisk THEN onDisk \ {k} ELSE onDisk \cup {k}
  /\ UNCHANGED <<repos, reposMu, handles, freed, call, ret>>

-----------------------------------------------------------------------------
\* NewRepoCache
Init ==
  /\ repos = [k \in Keys |-> None]
  /\ reposMu = None
  /\ handles = <<>>
  /\ freed = {}
  /\ onDisk \in SUBSET Keys
  /\ call = [c \in Callers |-> Idle]
  /\ ret = [c \in Callers |-> None]

\* What a caller does with the mutex held.
Locked(c) == OpenLookup(c) \/ OpenRepository(c) \/ CloseFree(c)

Next ==
  \/ \E c \in Callers : CloseLock(c) \/ Locked(c)
  \/ \E c \in Callers, u \in URLs : OpenLock(c, u)
  \/ \E k \in Keys : DirChanges(k)

Spec == Init /\ [][Next]_vars

\* A goroutine that holds the mutex is runnable, and git.OpenRepository
\* returns.  Nobody has to call Open or Close.
FairSpec == Spec /\ \A c \in Callers : WF_vars(Locked(c))

-----------------------------------------------------------------------------
\* The types of the variables.  Every key Open works with ends in ".git",
\* whichever way the caller spelled the URL.
TypeOK ==
  /\ repos \in [Keys -> 1..MaxOpens \cup {None}]
  /\ reposMu \in Callers \cup {None}
  /\ handles \in Seq(Keys) /\ Len(handles) <= MaxOpens
  /\ freed \subseteq 1..MaxOpens
  /\ onDisk \subseteq Keys
  /\ call \in [Callers -> [pc : {"idle", "lookup", "open", "free"},
                           key : Keys \cup {None}]]
  /\ ret \in [Callers -> 1..MaxOpens \cup {None}]

\* Every repository git.OpenRepository has returned is the one the map
\* holds for its key, so a repository is opened at most once however many
\* goroutines ask for it at the same time: Open looks the key up and
\* stores the new repository under one hold of reposMu.
CacheCoherent == \A h \in Opened : repos[handles[h]] = h

\* When Close returns, Free has been called on every repository that was
\* ever opened: none was returned by Open without being stored, and none
\* was replaced in the map.
CloseFreesAll ==
  [][\A c \in Callers :
       call[c].pc = "free" /\ call'[c].pc = "idle" => Opened \subseteq freed']_vars

\* reposMu is given back on every path out of Open and Close (the
\* deferred Unlock), the error return of git.OpenRepository included.
LockAlwaysReleased == \A c \in Callers : (reposMu = c) ~> (reposMu # c)

=============================================================================
