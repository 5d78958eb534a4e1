----------------------------- MODULE HealthChecks -----------------------------
(***************************************************************************)
(* The health gate of a deployment and the health the fleet view shows:    *)
(* the check runner (deploy/checks.go), the verify steps and the           *)
(* public-route checks of the activate step (deploy/activation_executor.go)*)
(* and liveReleaseHealth (deploy/read_model.go), which recomputes an       *)
(* outcome from the evidence the steps recorded.                           *)
(*                                                                         *)
(* One candidate release with a set of planned checks goes through its     *)
(* run.  The checks of a step run one after another, in an order that does *)
(* not matter here; each attempt's answer is the application's choice.     *)
(***************************************************************************)
EXTENDS Integers, FiniteSets

CONSTANTS
  CheckPlans,      \* sets of planned checks a snapshot may hold
  MaxTries         \* attempts of one check (Attempts, 10 when it is not given)

ASSUME HealthAssumption == MaxTries \in Nat \ {0}

Outcomes == {"passed", "failed", "unavailable", "warning", "disabled"}
Executable == {"http", "tcp", "docker_health", "command", "public_route"}

VARIABLES
  checks,      \* the checks of the release's snapshot
  gate,        \* "readiness", "smoke", "activate", "live", "failed" or "cancelled"
  left,        \* checks of the present step that have not settled, or {}
  tries,       \* attempts made of the check that is running
  settled,     \* evidence of the present step: check -> outcome
  evidence,    \* evidence of the steps that passed: step -> (check -> outcome)
  runtimeUp,   \* the release's runtime row says "live"
  cancelled    \* the run's context is done

healthVars == <<checks, gate, left, tries, settled, evidence, runtimeUp, cancelled>>

NoCheckEvidence == [c \in {} |-> "disabled"]

-----------------------------------------------------------------------------
(* The plan's validation and the runner.                                   *)

\* Validation closes the kinds and phases; it accepts every pairing of them.
\* A disabled check needs no fields.
validateCheckConfiguration(c) ==
  /\ c.phase \in {"readiness", "smoke"}
  /\ c.kind = "command" => c.argv \/ c.disabled

\* One attempt: a kind without an executor, or a check without a target, is
\* unavailable; the others answer one way or the other.
runAttempt(c) ==
  IF c.kind \notin Executable \/ ~c.target THEN {"unavailable"}
  ELSE IF c.kind = "docker_health" THEN {"passed", "failed", "unavailable"}
  ELSE {"passed", "failed"}

\* What a settled check is reported as: failures of an optional one are warnings.
CheckOutcome(c, o) == IF ~c.required /\ o \in {"failed", "unavailable"} THEN "warning" ELSE o

\* summarizeChecks: failed beats unavailable beats warning beats disabled.
summarizeChecks(outcomes) ==
  CASE outcomes = {} -> "disabled"
    [] "failed" \in outcomes -> "failed"
    [] "unavailable" \in outcomes -> "unavailable"
    [] "warning" \in outcomes -> "warning"
    [] "disabled" \in outcomes -> "disabled"
    [] OTHER -> "passed"

requiredCheckFailed(results) == \E c \in DOMAIN results : c.required /\ results[c] # "passed"

-----------------------------------------------------------------------------
(* The steps.                                                              *)

\* Public-route checks of the smoke phase run after the cutover; those of the
\* readiness phase are in no step's selection.
Selected(step) ==
  IF step = "activate" THEN {c \in checks : c.phase = "smoke" /\ c.kind = "public_route"}
  ELSE {c \in checks : c.phase = step /\ c.kind # "public_route"}

NextStep(step) == CASE step = "readiness" -> "smoke" [] step = "smoke" -> "activate" [] OTHER -> "live"

BeginStep ==
  /\ gate \in {"readiness", "smoke", "activate"} /\ left = {} /\ settled = NoCheckEvidence
  /\ Selected(gate) # {}
  /\ left' = Selected(gate) /\ tries' = 0
  /\ UNCHANGED <<checks, gate, settled, evidence, runtimeUp, cancelled>>

\* An empty selection is recorded as a skipped step.
SkipStep ==
  /\ gate \in {"readiness", "smoke", "activate"} /\ left = {} /\ settled = NoCheckEvidence
  /\ Selected(gate) = {}
  /\ evidence' = [evidence EXCEPT ![gate] = NoCheckEvidence]
  /\ gate' = NextStep(gate) /\ runtimeUp' = (gate = "activate")
  /\ UNCHANGED <<checks, left, tries, settled, cancelled>>

Settles(c, o) ==
  /\ settled' = [d \in DOMAIN settled \union {c} |-> IF d = c THEN CheckOutcome(c, o) ELSE settled[d]]
  /\ left' = left \ {c} /\ tries' = 0

\* CheckRunner.Run: tried until it passes, is unavailable or is out of attempts; a
\* done context ends the loop, and a check never attempted counts as failed.
RunCheck ==
  /\ left # {}
  /\ LET c == CHOOSE d \in left : TRUE IN
     IF c.disabled THEN Settles(c, "disabled")
     ELSE IF cancelled THEN Settles(c, "failed")
     ELSE \E o \in runAttempt(c) :
            IF o # "failed" \/ tries + 1 = MaxTries THEN Settles(c, o)
            ELSE tries' = tries + 1 /\ UNCHANGED <<left, settled>>
  /\ UNCHANGED <<checks, gate, evidence, runtimeUp, cancelled>>

\* The end of verifyChecks, and of the public checks in activate: a required check
\* that did not pass stops the candidate; the evidence of a passing step is kept.
EndStep ==
  /\ gate \in {"readiness", "smoke", "activate"} /\ left = {} /\ settled # NoCheckEvidence
  /\ IF cancelled /\ gate # "activate"
     THEN gate' = "cancelled" /\ UNCHANGED <<evidence, runtimeUp>>
     ELSE IF requiredCheckFailed(settled)
     THEN gate' = "failed" /\ UNCHANGED <<evidence, runtimeUp>>
     ELSE /\ evidence' = [evidence EXCEPT ![gate] = settled]
          /\ gate' = NextStep(gate) /\ runtimeUp' = (gate = "activate")
  /\ settled' = NoCheckEvidence
  /\ UNCHANGED <<checks, left, tries, cancelled>>

CancelRun ==
  /\ gate \in {"readiness", "smoke", "activate"} /\ ~cancelled
  /\ cancelled' = TRUE
  /\ UNCHANGED <<checks, gate, left, tries, settled, evidence, runtimeUp>>

\* A later rollout, or a failed restart, changes the runtime row.
RuntimeRetired ==
  /\ gate = "live" /\ runtimeUp
  /\ runtimeUp' = FALSE
  /\ UNCHANGED <<checks, gate, left, tries, settled, evidence, cancelled>>

-----------------------------------------------------------------------------
(* The read model.                                                         *)

Observed == UNION {DOMAIN evidence[s] : s \in DOMAIN evidence}
ObservedAs(c) == {evidence[s][c] : s \in {t \in DOMAIN evidence : c \in DOMAIN evidence[t]}}

\* Every check of the snapshot must be among the observed ones.
AllSeen_NotAsked == TRUE
AllSeen == checks \subseteq Observed

liveReleaseHealth ==
  IF gate # "live" \/ ~runtimeUp THEN "unavailable"
  ELSE IF checks = {} THEN "disabled"
  ELSE IF ~AllSeen THEN "unavailable"
  ELSE summarizeChecks(UNION {ObservedAs(c) : c \in Observed})

-----------------------------------------------------------------------------
HealthInit ==
  /\ checks \in {P \in CheckPlans : \A c \in P : validateCheckConfiguration(c)}
  /\ gate = "readiness" /\ left = {} /\ tries = 0 /\ settled = NoCheckEvidence
  /\ evidence = [s \in {"readiness", "smoke", "activate"} |-> NoCheckEvidence]
  /\ runtimeUp = FALSE /\ cancelled = FALSE

HealthNext ==
  \/ BeginStep \/ SkipStep \/ RunCheck \/ EndStep
  \/ CancelRun \/ RuntimeRetired

HealthSpec == HealthInit /\ [][HealthNext]_healthVars

-----------------------------------------------------------------------------
(* Properties.                                                             *)

\* A deployment shown as healthy passed every check of its plan, the optional and
\* the public ones too: an unseen or disabled check is never shown as passed
\* (liveReleaseHealth, summarizeChecks).
HealthyMeansPassed ==
  liveReleaseHealth = "passed" => \A c \in checks : ObservedAs(c) = {"passed"}

\* No release becomes live before each required check of its plan has passed
\* (verifyChecks, requiredCheckFailed, the public checks of activate).
RequiredChecksGate ==
  gate = "live" => \A c \in checks : c.required => ObservedAs(c) = {"passed"}
=============================================================================
