----------------------------- MODULE MCExchange -----------------------------
(* Both domains are audited and have a gap to generate; the first has one   *)
(* that only an audit finds, the second one that may not be generated.      *)
EXTENDS Exchange

CONSTANT none, cut

MCStaticOf == <<{1}, {2, 4}>>
MCSemanticOf == <<{3}, {}>>
MCNoneOf == <<{}, {}>>
=============================================================================
