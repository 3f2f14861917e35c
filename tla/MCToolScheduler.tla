-------------------------- MODULE MCToolScheduler ---------------------------
(* Four calls over a two-level tree, some of them written with another     *)
(* letter case or a doubled separator.                                     *)
EXTENDS ToolScheduler

CONSTANTS a, A, x, none

MCSegment == {a, A, x}
MCFold == [s \in MCSegment |-> IF s = A THEN a ELSE s]

MCFile == {<<a>>, <<a, x>>, <<x>>}

MCAccessSets ==
  { {AllAccess},
    {FileAccess("read", <<a>>, FALSE)},
    {FileAccess("search", <<A, none>>, TRUE)},
    {FileAccess("write", <<A, none, x>>, FALSE)},
    {FileAccess("readwrite", <<a>>, TRUE)} }
=============================================================================
