---------------------------- MODULE MCFileFilter ----------------------------
(***************************************************************************)
(* Instances of FileFilter for TLC.                                        *)
(***************************************************************************)
EXTENDS FileFilter

A == <<"a">>
B == <<"b">>
AB == <<"a", "b">>
S == <<Star>>
SS == <<Star, Star>>

\* Patterns with every kind of name, up to three names long.
MCPatterns ==
  {<<A>>, <<A, B>>, <<S, B>>, <<A, S>>, <<B, S, A>>,
   <<<<Star, "b">>>>, <<A, <<"a", Star>>>>, <<<<"a", Star, "b">>, S>>,
   <<SS>>, <<SS, B>>, <<A, SS, S>>, <<SS, A, B>>, <<SS, SS, A>>}

MCTables == {<<[id |-> 1, pattern |-> w], [id |-> 2, pattern |-> x]>> :
               w \in MCPatterns, x \in {<<A, B>>, <<SS, B>>, <<A, <<>>>>}}

\* Paths of up to four names, one of them with two slashes in a row.
MCPaths == {<<A, <<>>, B>>} \cup UNION {[1..n -> {A, B}] : n \in 1..3}
             \cup {<<AB>>, <<A, AB>>, <<AB, B>>, <<A, B, A, B>>, <<B, B, A, B>>}

\* One path, spelled out by a pattern, and another one.
MCPlainTable == {<<[id |-> 1, pattern |-> <<A, B>>]>>}
MCPlainPaths == {<<A, B>>, <<B>>}
=============================================================================
