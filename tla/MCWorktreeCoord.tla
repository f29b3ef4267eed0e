-------------------------- MODULE MCWorktreeCoord --------------------------
\* A small instance of WorktreeCoord: a directory and a file below it, so that
\* requests overlap in both directions.
EXTENDS WorktreeCoord, TLC

MCNestedScopes == {<<"docs">>, <<"docs", "a">>}
=============================================================================
