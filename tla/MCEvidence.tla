----------------------------- MODULE MCEvidence -----------------------------
(* Two domains of one check each, the first of which the profile may let    *)
(* skip; or one domain of two checks.                                      *)
EXTENDS Evidence

CONSTANTS c1, c2, none, junit

MCChecks == {c1, c2}
MCDomainOf == [c \in MCChecks |-> IF c = c1 THEN 1 ELSE 2]
MCProfiles == {{}, {c1}}
MCReviewed == {c1}

MCOneDomainOf == [c \in MCChecks |-> 1]

=============================================================================
