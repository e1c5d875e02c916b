----------------------------- MODULE MCAutoRun -----------------------------
(* AutoRun on one domain: two gaps share an adapter script, the third one   *)
(* shares the client script with one finding an audit can report; the      *)
(* other finding is a scope question that nothing may edit.                *)
EXTENDS AutoRun

CONSTANTS g1, g2, g3, f1, f2, script, client, none

MCGaps == {g1, g2, g3}
MCFindings == {f1, f2}
MCUnits == {script, client, none}
MCUnitOf ==
  [r \in MCGaps \cup MCFindings |->
     CASE r \in {g1, g2} -> script
       [] r \in {g3, f1} -> client
       [] OTHER -> none]
MCRank ==
  [r \in MCGaps \cup MCFindings |->
     CASE r = g1 -> 1 [] r = g2 -> 2 [] r = g3 -> 3 [] r = f1 -> 4 [] OTHER -> 5]
MCEditable == {g1, g2, g3, f1}

\* Limits that a unit's own attempts always reach first, and limits that cut
\* the loop and the ledger of a unit short.
MCLimits ==
  {[iterations |-> 12, calls |-> NoLimit, groups |-> 3],
   [iterations |-> 4, calls |-> 3, groups |-> 2]}
=============================================================================
