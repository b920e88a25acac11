---------------------------- MODULE RepoModTime ----------------------------
(***************************************************************************)
(* gitindex.RepoModTime: the latest modification time of the loose refs    *)
(* below dir/refs and of the two files git gc packs them into.             *)
(*                                                                         *)
(* A git directory is a function fs from the paths below dir to what       *)
(* os.Lstat finds there: a directory or a file with its modification time, *)
(* Gone for a name its directory lists and Lstat fails for (it was removed *)
(* in between, or the directory may not be searched), None for no entry.   *)
(* The zero time.Time is 0.                                                *)
(***************************************************************************)
EXTENDS Integers, Sequences, FiniteSets, SequencesExt

CONSTANTS
  Paths,   \* the paths that may exist below dir
  Times,   \* the modification times
  None,    \* no such entry
  Panic    \* the call does not return

ASSUME Times \subseteq Nat \ {0}

Gone    == [kind |-> "gone"]
Dirs    == [kind : {"dir"}, mtime : Times]
Entries == Dirs \cup [kind : {"file"}, mtime : Times] \cup {Gone}

\* Entries are in directories only.
GitDirs ==
  {fs \in [Paths -> Entries \cup {None}] :
     \A p \in Paths : Len(p) > 1 /\ fs[p] # None => fs[Front(p)] \in Dirs}

\* os.Lstat(name) returns no error.
Lstat(fs, name) == name \in Paths /\ fs[name] \notin {None, Gone}

\* The time of the entry, whatever last is.
LaterAlways(last, fi) == fi.mtime

\* if !fi.IsDir() && last.Before(fi.ModTime()) { last = fi.ModTime() }
Later(last, fi) ==
  IF fi.kind # "dir" /\ last < fi.mtime THEN fi.mtime ELSE last

\* filepath.Walk from name with the function RepoModTime gives it, which
\* reads fi without looking at err: last after the walk.
RECURSIVE Walk(_, _, _)
Walk(fs, name, last) ==
  CASE last = Panic \/ fs[name] = Gone -> Panic
    [] OTHER ->
         FoldSet(LAMBDA p, l : Walk(fs, p, l), Later(last, fs[name]),
                 {p \in Paths : Front(p) = name /\ fs[p] # None})

RepoModTime(fs) ==
  LET refDir == <<"refs">>
      walked == IF Lstat(fs, refDir) THEN Walk(fs, refDir, 0) ELSE 0
      Packed(last, fn) == IF Lstat(fs, fn) THEN Later(last, fs[fn]) ELSE last
  IN  IF walked = Panic
        THEN Panic
        ELSE FoldLeft(Packed, walked, <<<<"info", "refs">>, <<"packed-refs">>>>)

-----------------------------------------------------------------------------
\* The files that hold refs: every file below refs, info/refs, packed-refs.
RefFiles(fs) ==
  {p \in Paths : /\ Lstat(fs, p) /\ fs[p].kind = "file"
                 /\ Head(p) = "refs" \/ p \in {<<"info", "refs">>, <<"packed-refs">>}}

\* RepoModTime returns the time of the last change to a ref, loose or
\* packed, however deep below refs and whatever the times of the
\* directories, and the zero time when there is no ref; it does not return
\* when an entry below refs cannot be read, because the function given to
\* filepath.Walk calls fi.IsDir() on the nil FileInfo that comes with the
\* error.
ReturnsLastRefChange ==
  \A fs \in GitDirs :
    RepoModTime(fs) =
      IF \E p \in Paths : Len(p) > 1 /\ Head(p) = "refs" /\ fs[p] = Gone
        THEN Panic
        ELSE Max({fs[p].mtime : p \in RefFiles(fs)} \cup {0})

=============================================================================
