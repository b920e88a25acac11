--------------------------- MODULE QuerySimplify ---------------------------
(***************************************************************************)
(* The query trees of zoekt and simplifyRepo, which resolves the           *)
(* repository patterns of a query for the repository of one shard and      *)
(* folds the constants.  Only the tests of this code are in the            *)
(* repository (eval_test.go); the operators follow the specification.      *)
(*                                                                         *)
(* A repository name and a repository pattern are sequences that stand for *)
(* the strings, and a pattern matches the names that contain it: the       *)
(* test's "github.com/foo/bar-1" matches "github.com/foo/bar-100".         *)
(***************************************************************************)
EXTENDS Integers, Sequences, FiniteSets, SequencesExt

Substring(p) == [op |-> "Substring", pattern |-> p, fileName |-> FALSE]
FileName(p)  == [op |-> "Substring", pattern |-> p, fileName |-> TRUE]
Repo(p)      == [op |-> "Repo", pattern |-> p]
Const(b)     == [op |-> "Const", value |-> b]
NewAnd(qs)   == [op |-> "And", children |-> qs]
NewOr(qs)    == [op |-> "Or", children |-> qs]
Not(q)       == [op |-> "Not", child |-> q]
TypeRepo(q)  == [op |-> "Type", child |-> q]

Ops == {"Substring", "Repo", "Const", "And", "Or", "Not", "Type"}

\* q and the queries it is built from.
RECURSIVE Nodes(_)
Nodes(q) ==
  {q} \cup
    CASE q.op \in {"And", "Or"} ->
           UNION {Nodes(q.children[j]) : j \in DOMAIN q.children}
      [] q.op \in {"Not", "Type"} -> Nodes(q.child)
      [] OTHER -> {}

\* An And that stops at nothing, an Or that stops at the first constant.
JunctionUnfolded(op, cs) ==
  [op |-> op, children |-> cs]

\* And, Or of simplified children: the absorbing constant wins, the neutral
\* one is dropped, and one child that is left stands for itself.
Junction(op, cs) ==
  LET unit == Const(op = "And")
      zero == Const(op = "Or")
      rest == SelectSeq(cs, LAMBDA c : c # unit)
  IN  CASE Contains(cs, zero) -> zero
        [] ~Contains(cs, zero) /\ Len(rest) = 0 -> unit
        [] ~Contains(cs, zero) /\ Len(rest) = 1 -> rest[1]
        [] OTHER -> [op |-> op, children |-> rest]

\* The pattern is found somewhere in the name.
MatchesRepo(pattern, repo) ==
  \E i \in 0..(Len(repo) - Len(pattern)) :
    SubSeq(repo, i + 1, i + Len(pattern)) = pattern

RECURSIVE simplifyRepo(_, _)
simplifyRepo(q, repo) ==
  CASE q.op = "Repo" -> Const(MatchesRepo(q.pattern, repo))
    [] q.op \in {"And", "Or"} ->
         Junction(q.op, [j \in DOMAIN q.children |->
                           simplifyRepo(q.children[j], repo)])
    [] q.op = "Not" ->
         LET c == simplifyRepo(q.child, repo)
         IN  IF c.op = "Const" THEN Const(~c.value) ELSE Not(c)
    [] q.op = "Type" -> TypeRepo(simplifyRepo(q.child, repo))
    [] OTHER -> q

=============================================================================
