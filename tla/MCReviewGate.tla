---------------------------- MODULE MCReviewGate ----------------------------
(* Two domains, each with a configuration of its own; both may change the   *)
(* script they share, which the first one needs fixed.                      *)
EXTENDS ReviewGate

CONSTANTS none, partial

MCFiles == {"network", "storage", "client"}
MCVersions == {"broken", "fixed"}
MCScope == [d \in {1, 2} |-> {"client", IF d = 1 THEN "network" ELSE "storage"}]
Needs == [d \in {1, 2} |-> IF d = 1 THEN {"network", "client"} ELSE {"storage"}]
MCClean ==
  [d \in {1, 2} |->
     {c \in [MCFiles -> MCVersions] : \A f \in Needs[d] : c[f] = "fixed"}]

\* The ISV edits at any point but while a candidate is generated.
MCEditPoints == Points \ {"generate"}
=============================================================================
