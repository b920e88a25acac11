------------------------------ MODULE GitIndex ------------------------------
(***************************************************************************)
(* gitindex.IndexGitRepo: the trees of the requested branches of one git   *)
(* repository flattened into the documents the shard builder is given, one *)
(* per file name and blob, each with the branches that have that blob      *)
(* under that name.                                                        *)
(*                                                                         *)
(* A branch below branchPrefix and its short name are one value here, so   *)
(* filepath.Join(branchPrefix, b) and strings.TrimPrefix(fullName,         *)
(* branchPrefix) take a name to itself; a reference that is not below      *)
(* branchPrefix keeps its full name through TrimPrefix.  The repository    *)
(* does not change during the call.                                        *)
(***************************************************************************)
EXTENDS Integers, Sequences, FiniteSets, SequencesExt

CONSTANTS
  Names,        \* the branches below branchPrefix
  Outside,      \* references that are not below branchPrefix
  Files,        \* file names: numbers, in the order of sort.Strings
  Oids,         \* blob ids
  Size,         \* the size of every blob
  SizeMax,      \* opts.SizeMax
  MaxBranches,  \* bound on len(branches)
  Remotes,      \* remote.origin.url: <<host, "" or ".git">>, the host the
                \* sequence of its parts
  None

Refs  == Names \cup Outside
Args  == Names \cup {"HEAD"}
Trees == [Files -> Oids \cup {None}]

ASSUME
  /\ Files \subseteq Nat /\ Size \in [Oids -> Nat] /\ SizeMax \in Nat
  /\ None \notin Refs /\ None \notin Oids /\ "HEAD" \notin Refs
  /\ Remotes \subseteq Seq(STRING) \X {"", ".git"}

VARIABLES
  branches,      \* the argument
  head,          \* repository: the reference HEAD names, None if it has none
  tree,          \* repository: the files of each reference's commit, or None
  remote,        \* repository: remote.origin.url, None if the config has none
  pc,            \* "open", "branches", "names", "done", "error"
  k,             \* how far the running loop is
  optsBranches,  \* the names in opts.Branches
  optsURL,       \* opts.RepoURL and the three templates made from it
  allfiles,      \* name => the branches that have it
  names,         \* the sorted keys of allfiles
  docs           \* what builder.Add was called with, in order

input == <<branches, head, tree, remote>>
vars  == <<input, pc, k, optsURL, optsBranches, allfiles, names, docs>>

\* The repository's URL and the site whose URLs the templates follow; None
\* for the error of a config without origin or of a host that is not known.
\* Any host that ends in "googlesource.com" is taken for Gerrit, and
\* "github.com" alone for GitHub.
guessRepoURL(url) ==
  CASE url = None -> None
    [] url # None /\ IsSuffix(<<"googlesource.com">>, url[1])
         -> [repo |-> url, site |-> "gitiles"]
    [] url # None /\ url[1] = <<"github.com">>
         -> [repo |-> <<url[1], "">>, site |-> "github"]
    [] OTHER -> None

\* git.OpenRepository(opts.RepoDir), and then the templates: a directory
\* that does not open ends the call before the configuration is read, and a
\* URL that cannot be guessed is logged and leaves opts without one.
OpenRepository ==
  /\ pc = "open"
  /\ \/ /\ pc' = "branches"
        /\ optsURL' = guessRepoURL(remote)
     \/ /\ pc' = "error"
        /\ UNCHANGED optsURL
  /\ UNCHANGED <<input, k, optsBranches, allfiles, names, docs>>

\* HEAD indexed under the name "HEAD".
ResolveUnnamed(b) == b

\* The branch the loop works on for the argument b, None when
\* repo.RevparseExt("HEAD") fails.
Resolve(b) == IF b = "HEAD" THEN head ELSE b

\* commit.Tree() and TreeToFiles of getCommit(repo, fullName), None when
\* the reference does not resolve to a commit
getCommit(ref) ==
  LET r == IF ref = "HEAD" THEN head ELSE ref
  IN  IF r \in Refs THEN tree[r] ELSE None

\* One round of "for _, b := range branches".
BranchStep ==
  /\ pc = "branches"
  /\ k < Len(branches)
  /\ LET b == Resolve(branches[k + 1]) IN
       \/ /\ getCommit(b) = None
          /\ pc' = "error"
          /\ UNCHANGED <<k, optsBranches, allfiles>>
       \/ /\ getCommit(b) # None
          /\ optsBranches' = Append(optsBranches, b)
          /\ allfiles' = [f \in Files |->
               IF getCommit(b)[f] = None THEN allfiles[f]
                                         ELSE Append(allfiles[f], b)]
          /\ k' = k + 1
          /\ UNCHANGED pc
  /\ UNCHANGED <<input, optsURL, names, docs>>

\* build.NewBuilder, and sort.Strings(names)
NewBuilder ==
  /\ pc = "branches"
  /\ k = Len(branches)
  /\ \/ /\ names' = SetToSortSeq({f \in Files : allfiles[f] # <<>>}, <)
        /\ pc' = "names"
        /\ k' = 0
     \/ /\ pc' = "error"
        /\ UNCHANGED <<names, k>>
  /\ UNCHANGED <<input, optsURL, optsBranches, allfiles, docs>>

\* blob.Size() >= int64(opts.SizeMax)
TooLargeInclusive(sha) == Size[sha] >= SizeMax

\* blob.Size() > int64(opts.SizeMax)
TooLarge(sha) == Size[sha] > SizeMax

\* shas: the branches of allfiles[n] by the blob they have under n
shas(n) ==
  [sha \in {tree[b][n] : b \in ToSet(allfiles[n])} |->
     SelectSeq(allfiles[n], LAMBDA b : tree[b][n] = sha)]

Document(n, sha) == [name |-> n, content |-> sha, branches |-> shas(n)[sha]]

Kept(order) == SelectSeq(order, LAMBDA sha : ~TooLarge(sha))

\* One round of "for _, n := range names": a document for every blob of
\* shas that is not too large, in the order the map gives them.
NameStep ==
  /\ pc = "names"
  /\ k < Len(names)
  /\ LET n == names[k + 1] IN
       \/ /\ \E order \in SetToSeqs(DOMAIN shas(n)) :
               docs' = docs \o [j \in DOMAIN Kept(order) |->
                                   Document(n, Kept(order)[j])]
          /\ k' = k + 1
          /\ UNCHANGED pc
       \/ /\ pc' = "error"   \* r.LookupBlob fails
          /\ UNCHANGED <<k, docs>>
  /\ UNCHANGED <<input, optsURL, optsBranches, allfiles, names>>

\* builder.Finish()
Finish ==
  /\ pc = "names"
  /\ k = Len(names)
  /\ pc' = "done"
  /\ UNCHANGED <<input, optsURL, k, optsBranches, allfiles, names, docs>>

Init ==
  /\ branches \in BoundedSeq(Args, MaxBranches)
  /\ head \in Refs \cup {None}
  /\ tree \in [Refs -> Trees \cup {None}]
  /\ remote \in Remotes \cup {None}
  /\ optsURL = None
  /\ pc = "open"
  /\ k = 0
  /\ optsBranches = <<>>
  /\ allfiles = [f \in Files |-> <<>>]
  /\ names = <<>>
  /\ docs = <<>>

Next == OpenRepository \/ BranchStep \/ NewBuilder \/ NameStep \/ Finish

Spec == Init /\ [][Next]_vars

-----------------------------------------------------------------------------
BranchLists == BoundedSeq(Refs, MaxBranches)

TypeOK ==
  /\ branches \in BoundedSeq(Args, MaxBranches)
  /\ head \in Refs \cup {None}
  /\ tree \in [Refs -> Trees \cup {None}]
  /\ remote \in Remotes \cup {None}
  /\ optsURL \in [repo : Remotes \cup {<<<<"github.com">>, "">>},
                   site : {"gitiles", "github"}] \cup {None}
  /\ pc \in {"open", "branches", "names", "done", "error"}
  /\ k \in 0..MaxBranches \cup 0..Cardinality(Files)
  /\ optsBranches \in BranchLists
  /\ allfiles \in [Files -> BranchLists]
  /\ names \in BoundedSeq(Files, Cardinality(Files))
  /\ docs \in Seq([name : Files, content : Oids, branches : BranchLists])

\* The branches the caller asked for, HEAD as the branch it names.
Requested == {Resolve(branches[j]) : j \in DOMAIN branches}

\* What the shard is to hold: for every file name and every blob that fits
\* SizeMax, the requested branches that have the blob under the name.
Flattened ==
  {d \in [name : Files, content : {o \in Oids : Size[o] <= SizeMax},
          branches : (SUBSET Requested) \ {{}}] :
     d.branches = {b \in Requested : tree[b][d.name] = d.content}}

\* When IndexGitRepo returns nil the builder has been given exactly the
\* documents of Flattened, each once and in the order of their names: the
\* two passes (by branch into allfiles, then by name and blob through shas)
\* lose no branch of a blob, put no blob under a name or a branch that does
\* not have it, and skip a blob only when it is larger than SizeMax.
\* opts.Branches is the request in its order, HEAD as the branch it names,
\* and the Branches of a document are the entries of opts.Branches that
\* have its blob, in that order: a branch is named twice only where the
\* request names it twice, and then in both.
BuilderGetsFlattenedTrees ==
  pc = "done" =>
    /\ {[d EXCEPT !.branches = ToSet(@)] : d \in ToSet(docs)} = Flattened
    /\ Len(docs) = Cardinality(Flattened)
    /\ IsSorted([j \in DOMAIN docs |-> docs[j].name], <=)
    /\ optsBranches = [j \in DOMAIN branches |-> Resolve(branches[j])]
    /\ \A j \in DOMAIN docs :
         docs[j].branches =
           SelectSeq(optsBranches,
                     LAMBDA b : tree[b][docs[j].name] = docs[j].content)

=============================================================================
