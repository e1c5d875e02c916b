------------------------- MODULE MCApplyTransaction -------------------------
(* A patch of two files: a replacement and a file it creates.              *)
EXTENDS ApplyTransaction

CONSTANTS old, new, other, absent, notTaken

MCVersions == {old, new, other}
MCBefore == [f \in 1 .. N |-> IF f = 2 THEN absent ELSE old]
MCAfter == [f \in 1 .. N |-> new]
=============================================================================
