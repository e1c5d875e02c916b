-------------------------- MODULE MCQualification --------------------------
(* A required page and an optional local specification; one domain, which  *)
(* a profile claims, excludes or leaves open.                              *)
EXTENDS Qualification

CONSTANT schema

MCSources == {"spec", "page"}
MCScopes == {"covered", "excluded", "open", "foreign"}
MCClaims == [scope \in MCScopes |-> IF scope = "covered" THEN {"vm"} ELSE {}]
MCDrafts ==
  {[scope |-> "covered", cites |-> {"spec"}], [scope |-> "excluded", cites |-> {}],
   [scope |-> "open", cites |-> {"page"}], [scope |-> "foreign", cites |-> {}]}
=============================================================================
