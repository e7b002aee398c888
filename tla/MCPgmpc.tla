------------------------------ MODULE MCPgmpc ------------------------------
(* An instance of Pgmpc for TLC: two sessions, one function of each kind.  *)
EXTENDS Pgmpc, TLC

MCFunctions == {"random", "repeat", "status", "pause", "ls", "add"}
MCSymmetry == Permutations(Sessions)
=============================================================================
