---------------------------- MODULE FindGitRepos ----------------------------
(***************************************************************************)
(* gitindex.FindGitRepos: filepath.Walk over the tree below arg, which     *)
(* reports the ".git" directory of every checkout and every bare           *)
(* repository "x.git", does not descend into what it has reported, and     *)
(* names each by its path below arg without ".git".                        *)
(*                                                                         *)
(* An entry name is <<stem, ext>>, stem a number in the order of the       *)
(* strings, ext "" or ".git"; ".git" itself has stem 0.  A path is the     *)
(* sequence of the names below arg, and arg is a directory that is not     *)
(* named "x.git".  The tree does not change during the call; an entry that *)
(* is removed while Walk is on its way is "gone": its directory lists it   *)
(* and Lstat fails for it.                                                 *)
(***************************************************************************)
EXTENDS Integers, Sequences, FiniteSets, SequencesExt

CONSTANTS
  Paths,    \* the paths that may exist below arg
  Kinds,    \* what an entry may be: "dir", "file", "checkout", "gone"
  Objects,  \* the stem of "objects"
  None      \* no such entry

DotGit == <<0, ".git">>

ASSUME
  /\ \A p \in Paths : p # <<>> /\ (Len(p) > 1 => Front(p) \in Paths)
  /\ Kinds \subseteq {"dir", "file", "checkout", "gone"}

(***************************************************************************)
(* The trees: an entry is a directory, a file (any entry Lstat does not    *)
(* call a directory and that does not lead to a ".git"), or a symbolic     *)
(* link to a checkout; entries exist in directories only.                  *)
(***************************************************************************)
Trees ==
  {t \in [Paths -> Kinds \cup {None}] :
     \A p \in Paths : Len(p) > 1 /\ t[p] # None => t[Front(p)] = "dir"}

VARIABLES
  tree,     \* the file system below arg
  todo,     \* Walk: the paths it has still to visit, in order
  dirs,     \* dirs
  gitDirs,  \* the result, None until FindGitRepos returns
  pc        \* "walk", "done", "panic"

vars == <<tree, todo, dirs, gitDirs, pc>>

\* fi.IsDir() of os.Lstat(name)
IsDir(name) == name = <<>> \/ (name \in Paths /\ tree[name] = "dir")

\* os.Lstat(filepath.Join(name, entry)) succeeds and is a directory: the
\* path is resolved through name when name is a symbolic link.
HasDir(name, entry) ==
  \/ IsDir(name) /\ IsDir(Append(name, entry))
  \/ name \in Paths /\ tree[name] = "checkout" /\ entry = DotGit

\* ioutil.ReadDir's names, sorted
ReadDir(name) ==
  SetToSortSeq({p \in Paths : Front(p) = name /\ tree[p] # None},
               LAMBDA p, q : \/ Last(p)[1] < Last(q)[1]
                             \/ Last(p)[1] = Last(q)[1] /\ Last(p)[2] = "")

\* The function given to Walk: what it appends to dirs, None when nothing.
walkFn(name) ==
  CASE HasDir(name, DotGit) -> Append(name, DotGit)
    [] /\ ~HasDir(name, DotGit) /\ name # <<>> /\ Last(name)[2] = ".git"
       /\ IsDir(name) /\ HasDir(name, <<Objects, "">>) -> name
    [] OTHER -> None

\* fi.IsDir() is called for every entry that cannot be read.
PanicsUnnamed(name) == name \in Paths /\ tree[name] = "gone"

\* "!strings.HasSuffix(name, ".git") || !fi.IsDir()" with the nil FileInfo
\* Walk passes for an entry Lstat failed for: the name is tested first.
Panics(name) ==
  name \in Paths /\ tree[name] = "gone" /\ Last(name)[2] = ".git"

\* Every "return filepath.SkipDir" a "return nil".
SkipDirNever(name) == FALSE

\* walkFn returns filepath.SkipDir after each append.
SkipDir(name) == walkFn(name) # None

\* What Walk goes on with after walkFn returned for name: the entries of a
\* directory come next, SkipDir leaves them out, and SkipDir for what is
\* not a directory leaves out the rest of the directory it is in.
Walk(name, rest) ==
  CASE IsDir(name) /\ ~SkipDir(name) -> ReadDir(name) \o rest
    [] IsDir(name) = SkipDir(name) -> rest
    [] OTHER -> SelectSeq(rest, LAMBDA p : Front(p) # Front(name))

Visit ==
  /\ pc = "walk"
  /\ todo # <<>>
  /\ ~Panics(Head(todo))
  /\ dirs' = IF walkFn(Head(todo)) = None THEN dirs
                                          ELSE Append(dirs, walkFn(Head(todo)))
  /\ todo' = Walk(Head(todo), Tail(todo))
  /\ UNCHANGED <<tree, gitDirs, pc>>

\* The nil FileInfo is dereferenced, and nothing recovers.
Panic ==
  /\ pc = "walk"
  /\ todo # <<>>
  /\ Panics(Head(todo))
  /\ pc' = "panic"
  /\ UNCHANGED <<tree, todo, dirs, gitDirs>>

\* The name as it is.
RepoNameUntrimmed(dir) == dir

\* TrimSuffix ".git", TrimSuffix "/", TrimPrefix arg, TrimPrefix "/"
RepoName(dir) ==
  IF Last(dir) = DotGit THEN Front(dir)
                        ELSE Append(Front(dir), <<Last(dir)[1], "">>)

\* "for _, dir := range dirs", and the return
Return ==
  /\ pc = "walk"
  /\ todo = <<>>
  /\ gitDirs' = [dir \in ToSet(dirs) |-> RepoName(dir)]
  /\ pc' = "done"
  /\ UNCHANGED <<tree, todo, dirs>>

Init ==
  /\ tree \in Trees
  /\ todo = <<<<>>>>
  /\ dirs = <<>>
  /\ gitDirs = None
  /\ pc = "walk"

Next == Visit \/ Panic \/ Return

Spec == Init /\ [][Next]_vars

-----------------------------------------------------------------------------
Dirs == Paths \cup {Append(p, DotGit) : p \in Paths}

\* The names FindGitRepos may give: a path below arg, arg itself included,
\* outside every ".git" directory.  The last entry of the path keeps its
\* ".git" when the repository is a checkout in a directory named "x.git".
IsName(n) == n \in Seq(Nat \X {"", ".git"}) /\ DotGit \notin ToSet(n)

\* The types of the variables.  The four Trim calls that make the name of
\* "for _, dir := range dirs" leave no ".git" directory in it: Walk is never
\* inside one, and the ".git" of a checkout is trimmed from its end.
TypeOK ==
  /\ tree \in Trees
  /\ todo \in Seq(Paths \cup {<<>>})
  /\ dirs \in Seq(Dirs)
  /\ pc \in {"walk", "done", "panic"}
  /\ pc = "done" =>
       \A d \in DOMAIN gitDirs :
         d \in Dirs /\ IsName(gitDirs[d])

\* The directories of arg that are a repository: a checkout (it has a
\* directory ".git", itself or through a link), or a bare repository (it is
\* named "x.git" and has a directory "objects").
Roots ==
  {p \in Paths \cup {<<>>} :
     \/ HasDir(p, DotGit)
     \/ p # <<>> /\ Last(p)[2] = ".git" /\ HasDir(p, <<Objects, "">>)}

GitDir(p) == IF HasDir(p, DotGit) THEN Append(p, DotGit) ELSE p

\* FindGitRepos finds git repositories: it returns the git directory of
\* every repository below arg that is not inside another repository, and
\* nothing else.  Walk visits every entry that is not below a reported
\* one, and the two returns of filepath.SkipDir cut off exactly the inside
\* of what was reported.
FindsOutermostRepos ==
  pc = "done" =>
    DOMAIN gitDirs =
      {GitDir(p) : p \in {p \in Roots : \A q \in Roots : ~IsStrictPrefix(q, p)}}

\* FindGitRepos returns unless an entry named "x.git" (".git" included)
\* that is not inside a repository it reports cannot be read: for any other
\* unreadable entry the name is tested before the FileInfo is touched, and
\* what is inside a reported repository is never visited.
ReturnsUnlessGitEntryVanished ==
  LET exposed == {p \in Paths : /\ tree[p] = "gone" /\ Last(p)[2] = ".git"
                                 /\ \A q \in Roots : ~IsStrictPrefix(q, p)}
  IN  /\ pc = "panic" => Head(todo) \in exposed
      /\ pc = "done" => exposed = {}

=============================================================================
