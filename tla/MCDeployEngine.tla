-------------------------- MODULE MCDeployEngine --------------------------
(* Small instances of DeployEngine.                                        *)
EXTENDS DeployEngine

MCRequest(e, p) ==
  [env |-> e, op |-> "deploy", trigger |-> "manual", prio |-> p, class |-> "heavy",
   paths |-> {}, key |-> NoKey, digest |-> <<0>>]

MCRequests == {MCRequest("prod", 500)}

\* One step of each kind reconciliation and the run state tell apart.
MCPlan == <<"render_runtime", "release_task", "verify_readiness", "activate">>
\* The steps of a deployment that no adapter skips.
MCUnskippedPlan == <<"build_artifact", "activate">>
MCSkippedPlan == <<"activate", "notify">>
MCLegacyPlan == <<"legacy_pipeline">>

===========================================================================
