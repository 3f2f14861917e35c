--------------------------- MODULE MCAgentContext ---------------------------
(***************************************************************************)
(* AgentContext in small scenarios.                                        *)
(***************************************************************************)
EXTENDS AgentContext

Scenario(unguarded, calls, compactions, edits, crashes) ==
  [unguarded |-> unguarded, calls |-> calls, compactions |-> compactions,
   edits |-> edits, crashes |-> crashes]

(* A terminal, with parallel calls or with undos and clears; one whose     *)
(* process dies; notifications that start a turn while the worker of a     *)
(* cancelled one goes on; a server.                                        *)
Parallel    == Scenario({}, 2, 1, 0, 0)
Editing     == Scenario({}, 1, 1, 1, 0)
Crashing    == Scenario({}, 1, 1, 0, 1)
Overlapping == Scenario({"overlap", "remind"}, 1, 0, 0, 0)
Compacting  == Scenario({"compact"}, 1, 1, 1, 0)

AllScenarios == {Parallel, Editing, Crashing, Overlapping, Compacting}

OnlyCompacting == {Compacting}
=============================================================================
