---------------------------- MODULE MCRunQueue ----------------------------
(* Small instances of RunQueue.                                            *)
EXTENDS RunQueue

Request(e, o, t, p, c, w, k) ==
  [env |-> e, op |-> o, trigger |-> t, prio |-> p, class |-> c,
   paths |-> w, key |-> k, digest |-> <<0>>]

MCEnvs == {"prod", "stage"}
MCProduction == {"prod"}
MCPaths == {"api", "web"}
MCKeys == {"k1"}

\* Webhook pushes that do and do not cover one another, an operator's deploy, a
\* rollback and a restart, over one production and one other environment.
MCRequests ==
  { Request("prod", "deploy", "github", 500, "heavy", {"api"}, "k1"),
    Request("prod", "deploy", "github", 500, "heavy", {"api", "web"}, NoKey),
    Request("prod", "deploy", "migration", 100, "heavy", {}, NoKey),
    Request("prod", "rollback", "rollback", 1000, "heavy", {}, NoKey),
    Request("stage", "restart", "manual", 500, "light", {}, "k1") }

\* Fewer requests for the run that exercises leases rather than superseding: two
\* share an environment, two share a slot class.
MCLeaseRequests ==
  { Request("prod", "deploy", "github", 500, "heavy", {}, NoKey),
    Request("prod", "restart", "manual", 500, "light", {}, NoKey),
    Request("stage", "deploy", "manual", 500, "heavy", {}, NoKey) }

===========================================================================
