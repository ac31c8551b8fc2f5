-------------------------- MODULE MCEnvReconstruct --------------------------
(* Four attempts at one commit, forced or not, each killed anywhere.       *)
EXTENDS EnvReconstruct

=============================================================================
