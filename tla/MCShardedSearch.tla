-------------------------- MODULE MCShardedSearch --------------------------
(***************************************************************************)
(* The shards and queries of TestSearchTypeRepo and TestSimplifyRepo, with *)
(* a second shard of the test's repository, a shard of another repository, *)
(* a query that negates the repo-scoped predicate and a malformed one.     *)
(***************************************************************************)
EXTENDS ShardedSearch

f1 == [name |-> "f1", content |-> {<<"bla", 0>>, <<"the", 4>>, <<"needle", 8>>}]
f2 == [name |-> "f2", content |-> {<<"another", 0>>, <<"file", 8>>,
                                   <<"another", 13>>, <<"needle", 21>>}]

reponame == <<"reponame">>
TestShard == [repo |-> reponame, docs |-> {f1, f2}]

\* The repository rebuilt after f1 was deleted.
Rebuilt == [repo |-> reponame, docs |-> {f2}]

\* "github.com/foo/bar-10", which the patterns bar-1 and bar-10 match.
bar10 == <<"bar", "1", "0">>
Bar == [repo |-> bar10,
        docs |-> {[name |-> "f1", content |-> {<<"test", 0>>, <<"file", 5>>}]}]

MCShards == {TestShard, Rebuilt, Bar}

\* The query of every search of the test.
TypeRepoQuery(child) == NewAnd(<<TypeRepo(child), Substring("file")>>)

Found    == {Substring("bla"), Substring("needle"), FileName("f1"), FileName("f2")}
NotFound == {Substring("nope"), FileName("nope")}

\* The six searches of the test.
TypeRepoQueries == {TypeRepoQuery(c) : c \in Found \cup NotFound}

\* The test has 2018 patterns, "bar-0" to "bar-2017": three of them, of
\* which the second is the name of a repository and the first begins it.
Patterns == <<<<"bar", "1">>, bar10, <<"bar", "2">>>>
RepoQuery ==
  NewAnd(<<Substring("test"),
           NewOr(<<Repo(Patterns[1]), Repo(Patterns[2]), Repo(Patterns[3])>>)>>)

\* The repo-scoped predicate under a negation, and a query of no known
\* operator.
NegatedTypeRepo == NewAnd(<<Not(TypeRepo(Substring("bla"))), Substring("file")>>)
Nil == [op |-> "Nil"]

\* Every query is a definition of its own: TLC evaluates each once, to one
\* value in normal form that all its workers read.
MCQueries == TypeRepoQueries \cup {RepoQuery, NegatedTypeRepo, Nil}

\* TestSimplifyRepo: for a repository one of the patterns matches the query
\* simplifies to the content query, for any other to the constant false;
\* and every query of a search simplifies as Simplified says, for the
\* repository of every shard.
SimplifyRepoFolds ==
  /\ simplifyRepo(RepoQuery, bar10) = Substring("test")
  /\ simplifyRepo(RepoQuery, <<"baz">>) = Const(FALSE)
  /\ query \notin {None, Nil} =>
       \A repo \in {reponame, bar10, <<"baz">>} : Simplified(query, repo)

\* TestSearchTypeRepo: with the test's shard alone, the search reports one
\* file, f2, with one fragment, "file" at offset 8, when the repo-scoped
\* predicate matches f1 or f2 by content or by name, and what matched the
\* repo-scoped predicate is not reported; it reports nothing when the
\* predicate matches no document.
TypeRepoMatchesNotReported ==
  /\ Returned /\ outcome = "complete"
  /\ Loaded(snap) # {} /\ \A k \in Loaded(snap) : snap[k] = TestShard
  /\ \E c \in Found \cup NotFound : query = TypeRepoQuery(c)
  => result = IF query.children[1].child \in Found
                THEN <<[repo |-> reponame, file |-> "f2",
                        fragments |-> {<<"file", 8>>}]>>
                ELSE <<>>

=============================================================================
