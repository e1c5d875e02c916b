----------------------------- MODULE MCAgentTurn ----------------------------
(* Two checks the generator may edit, one of them about a script that does *)
(* not exist yet, and a third it may not.                                  *)
EXTENDS AgentTurn

CONSTANTS none, absent

MCInitial == [c \in {1, 2, 3} |-> CASE c = 1 -> "stub" [] c = 2 -> absent [] c = 3 -> "kept"]
MCContents == {"stub", absent, "kept", "first", "second", "red", "mine"}
MCGood == {"kept", "first", "second", "mine"}
=============================================================================
