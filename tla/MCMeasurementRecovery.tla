------------------------ MODULE MCMeasurementRecovery ------------------------
(* Every kind of failed run, with the log signatures that change what the  *)
(* policies decide about it.                                                *)
EXTENDS MeasurementRecovery

Clean == [probe |-> "ready", timedOut |-> FALSE, env |-> "ok", exitOk |-> TRUE,
          file |-> "usable", signs |-> {}]

MCRuns ==
  {Clean,
   [Clean EXCEPT !.timedOut = TRUE],
   [Clean EXCEPT !.exitOk = FALSE, !.signs = {"host", "runtime"}],
   [Clean EXCEPT !.file = "wrong_tooling"],
   [Clean EXCEPT !.file = "no_metric", !.signs = {"runtime"}],
   [Clean EXCEPT !.file = "tooling_incompatible"],
   [Clean EXCEPT !.file = "tooling_incompatible", !.signs = {"runtime"}],
   [Clean EXCEPT !.env = "dependency_unavailable", !.file = "missing"],
   [Clean EXCEPT !.env = "source_checkout_failed", !.signs = {"checkout"}],
   [Clean EXCEPT !.env = "install_failed", !.file = "missing"],
   [Clean EXCEPT !.env = "install_failed", !.signs = {"host_detail"}],
   [Clean EXCEPT !.probe = "probe_failed:plan_issue"]}

MCModelCategories == {"infra", "perf_smoke_tooling_incompatible"}
MCBudgets == {0, 1, 3}

=============================================================================
