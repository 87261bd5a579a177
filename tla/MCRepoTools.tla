---------------------------- MODULE MCRepoTools ----------------------------
(* The sandbox: the clone at /work, beside a directory whose name only begins *)
(* with "work".  Paths start at the clone, in it, or where the hook expects   *)
(* it, and climb out and back.                                                *)
EXTENDS RepoTools

MCWorkdir == <<"work">>
MCLonger == {<<"work", "work2">>, <<"repo", "repo2">>, <<".claude", ".claude2">>}
MCInitialFiles == {<<"work", "a">>, <<"work2", "a">>}

Starts ==
    {[absolute |-> TRUE, segments |-> <<"work">>],
     [absolute |-> TRUE, segments |-> <<"tmp", "autofix-1", "repo">>],
     [absolute |-> FALSE, segments |-> <<>>]}
Tails ==
    {<<>>, <<"a">>, <<".", "a">>, <<"a", "x">>, <<"src">>, <<"src", "b">>,
     <<"src", "..", "a">>, <<"..", "work2", "a">>, <<"..", "repo2", "a">>,
     <<"..", "..", "..", "..", "a">>, <<"..", "..", "autofix-1", "repo", "a">>,
     <<".git", "hooks">>, <<".git", "a">>, <<".git", "a", "..", "hooks", "b">>,
     <<".github", "workflows", "..", "a">>, <<".claude", "a">>, <<".claude2", "a">>}
MCPaths ==
    {[start EXCEPT !.segments = @ \o tail] : start \in Starts, tail \in Tails}
=============================================================================
