--------------------------- MODULE MCLocalBisection ---------------------------
(* Runs on one directory: a range, and the range one commit further under   *)
(* the same and under another task.  What was a candidate of the one is an  *)
(* endpoint of the other, and the other way round.                          *)
EXTENDS LocalBisection

MCPlans == {[good |-> 0, bad |-> 2, setup |-> "one"],
            [good |-> 1, bad |-> 3, setup |-> "one"],
            [good |-> 1, bad |-> 3, setup |-> "other"]}

=============================================================================
