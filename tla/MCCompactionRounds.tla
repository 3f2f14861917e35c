-------------------------- MODULE MCCompactionRounds --------------------------
(***************************************************************************)
(* CompactionRounds over all short histories.                              *)
(***************************************************************************)
EXTENDS CompactionRounds

SmallAndLarge == {1, 4}
=============================================================================
