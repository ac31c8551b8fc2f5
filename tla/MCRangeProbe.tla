----------------------------- MODULE MCRangeProbe -----------------------------
(* Up to two interior commits under the sweep; the choice alone up to 16.   *)
EXTENDS RangeProbe

MCRunners == {"docker", "other"}
MCPolicyBudgets == {NoPolicy, 2, 4}
MCRequests == {{"libgmp"}, {"curl"}}
MCAllowed == {"libgmp"}

=============================================================================
