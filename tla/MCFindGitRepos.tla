--------------------------- MODULE MCFindGitRepos ---------------------------
EXTENDS FindGitRepos

CONSTANT Panicked   \* RepoModTime does not return

a      == <<1, "">>
a_git  == <<1, ".git">>
b      == <<2, "">>
objs   == <<3, "">>

\* arg/.git, arg/a with a/.git and a/a.git/objects, arg/a.git with
\* a.git/.git and a.git/objects, arg/b/.git
MCPaths ==
  { <<DotGit>>, <<a>>, <<a, DotGit>>, <<a, a_git>>, <<a, a_git, objs>>,
    <<a_git>>, <<a_git, DotGit>>, <<a_git, objs>>, <<b>>, <<b, DotGit>> }

\* A git directory for RepoModTime: a loose ref two directories down,
\* info/refs and packed-refs, any of them a file or a directory, changed at
\* one of two times, or missing.
RefPaths ==
  { <<"refs">>, <<"refs", "heads">>, <<"refs", "heads", "master">>,
    <<"info">>, <<"info", "refs">>, <<"packed-refs">> }

ModTime == INSTANCE RepoModTime
             WITH Paths <- RefPaths, Times <- {1, 2}, Panic <- Panicked

\* RepoModTime on a directory FindGitRepos returned: ReturnsLastRefChange,
\* for every such directory over RefPaths.
RepoModTimeReturnsLastRefChange == pc = "done" => ModTime!ReturnsLastRefChange

=============================================================================
