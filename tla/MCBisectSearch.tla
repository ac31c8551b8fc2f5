--------------------------- MODULE MCBisectSearch ---------------------------
(* Every candidate list of up to nine commits under budgets that never,    *)
(* sometimes and always bind.                                              *)
EXTENDS BisectSearch

MCLengths == 1 .. 9
MCBudgets == {0, 1, 2, 3, 50}

=============================================================================
