------------------------- MODULE MCCommitMeasurement -------------------------
(* Two commits, which may share a stack, measured three times with one     *)
(* death of the process in between.                                        *)
EXTENDS CommitMeasurement

=============================================================================
