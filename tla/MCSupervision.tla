--------------------------- MODULE MCSupervision ---------------------------
(* An adapter that asks once, one that may ask twice for half as long, and *)
(* one of the configuration file.                                          *)
EXTENDS Supervision

MCKinds == {"codex", "claude", "custom"}
MCAttemptsOf == [codex |-> 1, claude |-> 2, custom |-> 1]
MCModelLimitOf == [codex |-> 2, claude |-> 1, custom |-> 1]

=============================================================================
