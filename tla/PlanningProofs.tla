--------------------------- MODULE PlanningProofs ---------------------------
(***************************************************************************)
(* What a deployment starts from, for every value of the constants: a      *)
(* draft is committed as it was reviewed and can then run (DraftPlanning), *)
(* and an environment's configuration resolves, is replaced only by who    *)
(* saw it, and reaches its runs as the page says (EnvironmentConfig); what *)
(* is detected is what the builder accepts (SourceDetection), and what the *)
(* older pipeline reports as passed is up (LegacyDeploy).                  *)
(***************************************************************************)
EXTENDS DraftPlanning, EnvironmentConfig, SourceDetection, LegacyDeploy, FiniteSetTheorems,
        SequenceTheorems, TLAPS

---------------------------------------------------------------------------
(* Planning.                                                               *)

DraftRow ==
  [step : {"none", "intent", "source", "detection", "configuration", "preflight"},
   revision : Nat, data : DraftData, findings : FindingSets, preview : DraftPlan,
   committed : BOOLEAN, expired : BOOLEAN]
CallRow ==
  [step : {"idle", "sent", "read"},
   kind : {"none", "save", "detect", "preflight", "create", "adopt"},
   id : Drafts \cup {"none"}, revision : Nat, input : Inputs \cup {None},
   acknowledged : SUBSET FindingCodes, seen : DraftPlan,
   result : Detections \cup {None} \cup Preflights]

\* What PlanningTypeOK says of one request, DraftsReviewed of one draft and
\* CallsCurrent of one request and the draft it is about.
CallTyped(k) ==
  /\ k \in CallRow
  /\ k.step # "idle" => k.id \in Drafts
  /\ k.step = "sent" /\ k.kind = "save" => k.input \in Inputs
  /\ k.step = "read" /\ k.kind = "detect" => k.result \in Detections
  /\ k.step = "read" /\ k.kind = "preflight" => k.result \in Preflights
Reviewed(dr) ==
  /\ dr.step = "none" => dr.revision = 0
  /\ dr.data.detection # None => validateDetectionResult(dr.data.source, dr.data.detection)
  /\ dr.preview # NoPlan =>
       /\ dr.preview.data = dr.data
       /\ Blocking(dr.findings) = {} => CanRun(dr.data)
Current(k, dr) ==
  k.step # "idle" =>
    /\ k.revision <= dr.revision
    /\ k.revision = dr.revision =>
         /\ k.seen = dr.preview
         /\ k.step = "read" =>
              /\ k.kind = "create" /\ dr.data.source # None => dr.data.source.kind # "import"
              /\ k.kind = "adopt" => dr.data.source # None /\ dr.data.source.kind = "import"
    /\ k.step = "read" /\ k.kind = "preflight" =>
         (Blocking(k.result.findings) = {} => CanRun(k.result.plan.data))

LEMMA PlanningParts ==
  /\ PlanningTypeOK <=> /\ draft \in [Drafts -> DraftRow] /\ call \in [Reqs -> CallRow]
                        /\ \A q \in Reqs : CallTyped(call[q])
  /\ DraftsReviewed <=> \A d \in Drafts : Reviewed(draft[d])
  /\ CallsCurrent <=> \A q \in Reqs : Current(call[q], draft[call[q].id])
<1>1. PlanningTypeOK <=> /\ draft \in [Drafts -> DraftRow] /\ call \in [Reqs -> CallRow]
                         /\ \A q \in Reqs : CallTyped(call[q])
  BY DEF PlanningTypeOK, DraftRow, CallRow, CallTyped
<1>2. DraftsReviewed <=> \A d \in Drafts : Reviewed(draft[d])
  BY DEF DraftsReviewed, Reviewed
<1>3. CallsCurrent <=> \A q \in Reqs : Current(call[q], draft[call[q].id])
  BY DEF CallsCurrent, Current
<1> QED BY <1>1, <1>2, <1>3

\* The empty values.
LEMMA EmptyRows ==
  /\ NoData \in DraftData /\ NoPlan \in DraftPlan /\ {} \in FindingSets
  /\ NoDraft \in DraftRow /\ Reviewed(NoDraft)
  /\ NoCall \in CallRow /\ CallTyped(NoCall) /\ NoCall.step = "idle"
<1>1. NoData \in DraftData /\ {} \in FindingSets
  BY DEF NoData, DraftData, FindingSets
<1>2. NoPlan \in DraftPlan
  BY <1>1 DEF NoPlan, DraftPlan
<1>3. NoDraft \in DraftRow
  BY <1>1, <1>2 DEF NoDraft, DraftRow
<1>4. Reviewed(NoDraft)
  BY DEF NoDraft, Reviewed, NoData
<1>5. NoCall \in CallRow /\ NoCall.step = "idle"
  BY <1>2 DEF NoCall, CallRow
<1> QED BY <1>1, <1>2, <1>3, <1>4, <1>5 DEF CallTyped

\* A request's own step: it takes on a value that fits the draft as it is.
LEMMA CallStep ==
  ASSUME PlanningInv, NEW q \in Reqs, NEW k, CallTyped(k), Current(k, draft[k.id]),
         call' = [call EXCEPT ![q] = k], UNCHANGED <<draft, projects>>
  PROVE  PlanningInv'
<1>1. PlanningTypeOK /\ DraftsReviewed /\ CallsCurrent /\ CommittedAsReviewed /\ CommittedPlanRuns
  BY DEF PlanningInv
<1>2. /\ draft \in [Drafts -> DraftRow] /\ call \in [Reqs -> CallRow]
      /\ \A o \in Reqs : CallTyped(call[o]) /\ Current(call[o], draft[call[o].id])
  BY <1>1, PlanningParts
<1>3. k \in CallRow
  BY DEF CallTyped
<1>4. call' \in [Reqs -> CallRow] /\ \A o \in Reqs : call'[o] = IF o = q THEN k ELSE call[o]
  BY <1>2, <1>3
<1>5. \A o \in Reqs : CallTyped(call'[o]) /\ Current(call'[o], draft[call'[o].id])
  BY <1>2, <1>4
<1>6. PlanningTypeOK'
  BY <1>2, <1>4, <1>5 DEF PlanningTypeOK, DraftRow, CallRow, CallTyped
<1>7. DraftsReviewed'
  BY <1>1 DEF DraftsReviewed
<1>8. CallsCurrent'
  BY <1>5 DEF CallsCurrent, Current
<1>9. CommittedAsReviewed' /\ CommittedPlanRuns'
  BY <1>1 DEF CommittedAsReviewed, CommittedPlanRuns
<1> QED BY <1>6, <1>7, <1>8, <1>9 DEF PlanningInv

\* A step of the store: the draft is at a later revision, or still says what it said;
\* the request that asked for it is answered.
LEMMA DraftStep ==
  ASSUME PlanningInv, NEW d \in Drafts, NEW row \in DraftRow, Reviewed(row),
         draft' = [draft EXCEPT ![d] = row],
         \/ row.revision > draft[d].revision
         \/ /\ row.revision = draft[d].revision /\ row.preview = draft[d].preview
            /\ row.data = draft[d].data,
         call' = call \/ \E q \in Reqs : call' = [call EXCEPT ![q] = NoCall]
  PROVE  PlanningTypeOK' /\ DraftsReviewed' /\ CallsCurrent'
<1>1. PlanningTypeOK /\ DraftsReviewed /\ CallsCurrent
  BY DEF PlanningInv
<1>2. /\ draft \in [Drafts -> DraftRow] /\ call \in [Reqs -> CallRow]
      /\ \A o \in Reqs : CallTyped(call[o]) /\ Current(call[o], draft[call[o].id])
      /\ \A x \in Drafts : Reviewed(draft[x])
  BY <1>1, PlanningParts
<1>3. draft' \in [Drafts -> DraftRow] /\ \A x \in Drafts : draft'[x] = IF x = d THEN row ELSE draft[x]
  BY <1>2
<1>4. call' \in [Reqs -> CallRow] /\ \A o \in Reqs : call'[o] \in {call[o], NoCall}
  BY <1>2, EmptyRows
<1>5. \A o \in Reqs : CallTyped(call'[o])
  BY <1>2, <1>4, EmptyRows
<1>6. PlanningTypeOK'
  BY <1>3, <1>4, <1>5 DEF PlanningTypeOK, DraftRow, CallRow, CallTyped
<1>7. DraftsReviewed'
  BY <1>2, <1>3 DEF DraftsReviewed, Reviewed
<1>8. ASSUME NEW o \in Reqs PROVE Current(call'[o], draft'[call'[o].id])
  <2> DEFINE k == call[o]
  <2>1. CASE call'[o] = NoCall
    BY <2>1, EmptyRows DEF Current
  <2>2. CASE call'[o] = k /\ k.step = "idle"
    BY <2>2 DEF Current
  <2>3. CASE call'[o] = k /\ k.step # "idle"
    <3>1. k.id \in Drafts /\ k \in CallRow /\ Current(k, draft[k.id])
      BY <1>2, <2>3 DEF CallTyped
    <3>2. CASE k.id # d
      BY <1>3, <2>3, <3>1, <3>2
    <3>3. CASE k.id = d
      <4>1. draft'[k.id] = row /\ k.revision \in Nat /\ row.revision \in Nat /\ draft[d].revision \in Nat
        BY <1>2, <1>3, <3>1, <3>3 DEF DraftRow, CallRow
      <4>2. CASE row.revision > draft[d].revision
        <5>1. k.revision <= draft[d].revision
          BY <2>3, <3>1, <3>3 DEF Current
        <5>2. k.revision <= row.revision /\ k.revision # row.revision
          BY <4>1, <4>2, <5>1
        <5> QED BY <2>3, <3>1, <4>1, <5>2 DEF Current
      <4>3. CASE row.revision = draft[d].revision /\ row.preview = draft[d].preview
                 /\ row.data = draft[d].data
        BY <2>3, <3>1, <3>3, <4>1, <4>3 DEF Current
      <4> QED BY <4>2, <4>3
    <3> QED BY <3>2, <3>3
  <2> QED BY <1>4, <2>1, <2>2, <2>3
<1>9. CallsCurrent'
  BY <1>8 DEF CallsCurrent, Current
<1> QED BY <1>6, <1>7, <1>9

\* The same when nothing is committed.
LEMMA DraftStepKeeps ==
  ASSUME PlanningInv, PlanningTypeOK', DraftsReviewed', CallsCurrent', UNCHANGED projects
  PROVE  PlanningInv'
BY DEF PlanningInv, CommittedAsReviewed, CommittedPlanRuns

\* The answer alone.
LEMMA DoneHolds ==
  ASSUME PlanningInv, NEW q \in Reqs, Done(q), UNCHANGED <<draft, projects>>
  PROVE  PlanningInv'
BY EmptyRows, CallStep DEF Done, Current

---------------------------------------------------------------------------
(* Preflight.                                                              *)

LEMMA FoundTyped ==
  /\ \A code \in FindingCodes, severity \in Severities : Found(code, severity) \in FindingSets
  /\ \A code \in FindingCodes, severity \in Severities : \A b : When(b, code, severity) \in FindingSets
  /\ {} \in FindingSets
  /\ \A A, B \in FindingSets : A \cup B \in FindingSets
BY DEF Found, When, FindingSets

\* Findings have a code and a severity.
LEMMA FindingsTyped ==
  ASSUME NEW profile, NEW source, NEW evidence, NEW conf, NEW observed, NEW advanced
  PROVE  preflightFindings(profile, source, evidence, conf, observed, advanced) \in FindingSets
<1> DEFINE asked == preflightObservationRequest(source, evidence, conf)
<1>1. SourceFindings(source, evidence, observed) \in FindingSets
  BY FoundTyped DEF SourceFindings, FindingCodes, Severities
<1>2. DetectionFindings(source, evidence, conf) \in FindingSets
  <2>1. /\ "build_method_changed" \in FindingCodes /\ "git_submodules" \in FindingCodes
        /\ "git_lfs" \in FindingCodes /\ "compose_variable" \in FindingCodes
        /\ "compose_unsupported" \in FindingCodes /\ "compose_warning" \in FindingCodes
        /\ "detection_truncated" \in FindingCodes
        /\ {"pass", "warning", "decision", "blocked"} \subseteq Severities
    BY DEF FindingCodes, Severities
  <2>2. (IF evidence.methods = {} THEN Found("detection_empty", "blocked")
         ELSE IF evidence.selected = "" THEN Found("detection_ambiguous", "decision")
         ELSE Found("detection_selected", "pass")) \in FindingSets
    BY FoundTyped DEF FindingCodes, Severities
  <2>3. /\ \A b, s : s \in {"blocked", "pass"} => When(b, "build_method_changed", s) \in FindingSets
        /\ \A b, s : s \in {"decision", "pass"} => When(b, "git_submodules", s) \in FindingSets
        /\ \A b, s : s \in {"decision", "pass"} => When(b, "git_lfs", s) \in FindingSets
        /\ \A b : When(b, "compose_variable", "decision") \in FindingSets
        /\ \A b : When(b, "compose_unsupported", "decision") \in FindingSets
        /\ \A b : When(b, "compose_warning", "warning") \in FindingSets
        /\ \A b : When(b, "detection_truncated", "warning") \in FindingSets
    BY <2>1, FoundTyped
  <2>4. (IF source.kind \in {"compose", "image"} THEN "blocked" ELSE "pass") \in {"blocked", "pass"}
        /\ (IF "includeSubmodules" \in source.fields THEN "pass" ELSE "decision") \in {"decision", "pass"}
        /\ (IF "includeLfs" \in source.fields THEN "pass" ELSE "decision") \in {"decision", "pass"}
    OBVIOUS
  <2> DEFINE A == When(evidence.selected # "" /\ evidence.selected # conf.method, "build_method_changed",
                       IF source.kind \in {"compose", "image"} THEN "blocked" ELSE "pass")
             B == IF evidence.methods = {} THEN Found("detection_empty", "blocked")
                  ELSE IF evidence.selected = "" THEN Found("detection_ambiguous", "decision")
                  ELSE Found("detection_selected", "pass")
             C == When(evidence.submodules, "git_submodules",
                       IF "includeSubmodules" \in source.fields THEN "pass" ELSE "decision")
             D == When(evidence.lfs, "git_lfs",
                       IF "includeLfs" \in source.fields THEN "pass" ELSE "decision")
             E == When(evidence.compose.variables \ DOMAIN conf.variables # {}, "compose_variable", "decision")
             F == When(evidence.compose.unsupported, "compose_unsupported", "decision")
             G == When(evidence.compose.warnings, "compose_warning", "warning")
             H == When(evidence.truncated, "detection_truncated", "warning")
  <2>5. /\ A \in FindingSets /\ B \in FindingSets /\ C \in FindingSets /\ D \in FindingSets
        /\ E \in FindingSets /\ F \in FindingSets /\ G \in FindingSets /\ H \in FindingSets
    BY <2>2, <2>3, <2>4
  <2>6. DetectionFindings(source, evidence, conf) = A \cup B \cup C \cup D \cup E \cup F \cup G \cup H
    BY DEF DetectionFindings
  <2> HIDE DEF A, B, C, D, E, F, G, H
  <2> QED BY <2>5, <2>6 DEF FindingSets
<1>3. HostFindings(asked, observed) \in FindingSets
  <2>1. asked.tools \subseteq FindingCodes
    BY DEF preflightObservationRequest, FindingCodes
  <2> HIDE DEF asked
  <2> QED BY <2>1 DEF HostFindings, FindingSets, FindingCodes, Severities
<1>4. \A domain, o, proxy : DomainFindings(domain, o, proxy) \in FindingSets
  BY FoundTyped DEF DomainFindings, FindingCodes, Severities
<1>5. ExposureFindings(conf, asked, observed, evidence, advanced) \in FindingSets
  <2> HIDE DEF asked
  <2> QED BY FoundTyped DEF ExposureFindings, FindingCodes, Severities
<1>6. StrategyFindings(profile, conf) \in FindingSets
  BY FoundTyped DEF StrategyFindings, FindingCodes, Severities
<1>7. PolicyFindings(profile, conf, evidence, observed) \in FindingSets
  BY FoundTyped DEF PolicyFindings, FindingCodes, Severities
<1>8. \A x, seen : DependencyFindings(x, seen) \in FindingSets
  BY FoundTyped DEF DependencyFindings, FindingCodes, Severities
<1> HIDE DEF asked
<1>9. UNION {DomainFindings(conf.domains[h], observed.domains[h], observed.proxy) : h \in DOMAIN conf.domains}
        \in FindingSets
  BY <1>4 DEF FindingSets
<1>10. UNION {DependencyFindings(d, observed.dependencies[d]) : d \in conf.dependencies} \in FindingSets
  BY <1>8 DEF FindingSets
<1> DEFINE A == SourceFindings(source, evidence, observed)
           B == DetectionFindings(source, evidence, conf)
           C == HostFindings(asked, observed)
           D == UNION {DomainFindings(conf.domains[h], observed.domains[h], observed.proxy) : h \in DOMAIN conf.domains}
           E == ExposureFindings(conf, asked, observed, evidence, advanced)
           F == StrategyFindings(profile, conf)
           G == PolicyFindings(profile, conf, evidence, observed)
           H == UNION {DependencyFindings(d, observed.dependencies[d]) : d \in conf.dependencies}
<1>11. preflightFindings(profile, source, evidence, conf, observed, advanced)
         = A \cup B \cup C \cup D \cup E \cup F \cup G \cup H
  BY Zenon DEF preflightFindings, asked
<1>12. /\ A \in FindingSets /\ B \in FindingSets /\ C \in FindingSets /\ D \in FindingSets
       /\ E \in FindingSets /\ F \in FindingSets /\ G \in FindingSets /\ H \in FindingSets
  BY <1>1, <1>2, <1>3, <1>5, <1>6, <1>7, <1>9, <1>10
<1> HIDE DEF A, B, C, D, E, F, G, H
<1> QED BY <1>11, <1>12 DEF FindingSets

LEMMA FindingsHeld ==
  ASSUME NEW profile, NEW source, NEW evidence, NEW conf, NEW observed, NEW advanced
  PROVE  LET found == preflightFindings(profile, source, evidence, conf, observed, advanced)
         IN  /\ \A f : f \in SourceFindings(source, evidence, observed) => f \in found
             /\ \A f : f \in DetectionFindings(source, evidence, conf) => f \in found
             /\ \A f : f \in StrategyFindings(profile, conf) => f \in found
<1> DEFINE asked == preflightObservationRequest(source, evidence, conf)
           A == SourceFindings(source, evidence, observed)
           B == DetectionFindings(source, evidence, conf)
           C == HostFindings(asked, observed)
           D == UNION {DomainFindings(conf.domains[h], observed.domains[h], observed.proxy) : h \in DOMAIN conf.domains}
           E == ExposureFindings(conf, asked, observed, evidence, advanced)
           F == StrategyFindings(profile, conf)
           G == PolicyFindings(profile, conf, evidence, observed)
           H == UNION {DependencyFindings(d, observed.dependencies[d]) : d \in conf.dependencies}
<1>1. preflightFindings(profile, source, evidence, conf, observed, advanced)
        = A \cup B \cup C \cup D \cup E \cup F \cup G \cup H
  BY Zenon DEF preflightFindings
<1> HIDE DEF A, B, C, D, E, F, G, H
<1>2. LET found == preflightFindings(profile, source, evidence, conf, observed, advanced)
      IN  /\ \A f : f \in A => f \in found
          /\ \A f : f \in B => f \in found
          /\ \A f : f \in F => f \in found
  BY <1>1
<1> QED BY <1>2 DEF A, B, F

\* A preflight that stops nothing is of a plan that can run.
LEMMA PreflightFinds ==
  ASSUME NEW dr, NEW host, Blocking(PreflightDraft(dr, host).findings) = {}
  PROVE  CanRun(dr.data)
<1> DEFINE data == dr.data
           conf == data.configuration
           det == data.detection
           src == data.source
           observed == Observe(host, "none", preflightObservationRequest(src, det, conf))
           found == preflightFindings(data.intent.profile, src, det, conf, observed, TRUE)
<1>1. Blocking(found) = {}
  BY DEF PreflightDraft
<1>2. /\ SourceFindings(src, det, observed) \subseteq found
      /\ DetectionFindings(src, det, conf) \subseteq found
      /\ StrategyFindings(data.intent.profile, conf) \subseteq found
  BY FindingsHeld
<1> HIDE DEF found, observed
<1>3. \A f \in found : f.severity \notin {"blocked", "decision"}
  BY <1>1 DEF Blocking
<1>4. conf.strategy = "blue_green" =>
        conf.hostPort = 0 /\ ~conf.hostNetwork /\ \A m \in conf.mounts : m.readOnly
  BY <1>2, <1>3 DEF StrategyFindings, Found
<1>5. det.immutable \/ src.kind \in {"blueprint", "import"}
  BY <1>2, <1>3 DEF SourceFindings, Found
<1>6. src.kind \in {"compose", "image"} => det.selected = conf.method
  BY <1>2, <1>3 DEF DetectionFindings, Found, When
<1> QED BY <1>4, <1>5, <1>6 DEF CanRun

---------------------------------------------------------------------------
(* The steps of planning.                                                  *)

\* A request as it is sent is about the draft as it is.
LEMMA SendKeepsPlanning ==
  ASSUME PlanningInv, NEW q \in Reqs, NEW d \in Drafts, NEW input \in Inputs \cup {None},
         NEW kind \in {"save", "detect", "preflight", "create", "adopt"},
         kind = "save" => input \in Inputs,
         NEW acknowledged \in SUBSET FindingCodes,
         Send(q, kind, d, input, acknowledged)
  PROVE  PlanningInv'
<1> DEFINE k == [step |-> "sent", kind |-> kind, id |-> d, revision |-> draft[d].revision,
                 input |-> input, acknowledged |-> acknowledged, seen |-> draft[d].preview,
                 result |-> None]
<1>1. call' = [call EXCEPT ![q] = k] /\ UNCHANGED <<draft, projects>>
  BY DEF Send
<1>2. draft[d] \in DraftRow
  BY PlanningParts DEF PlanningInv
<1>3. draft[d].revision \in Nat /\ draft[d].preview \in DraftPlan
  BY <1>2 DEF DraftRow
<1>4. k \in CallRow
  BY <1>3 DEF CallRow
<1>5. CallTyped(k)
  BY <1>4 DEF CallTyped
<1>6. Current(k, draft[k.id])
  BY <1>3 DEF Current
<1> HIDE DEF k
<1> QED BY <1>1, <1>5, <1>6, CallStep

\* What a browser may acknowledge are codes of findings.
LEMMA WarningsAreCodes ==
  ASSUME NEW findings \in FindingSets
  PROVE  Warnings(findings) \in SUBSET FindingCodes
BY DEF Warnings, FindingSets

LEMMA SendsKeepPlanning ==
  ASSUME PlanningInv, NEW q \in Reqs, NEW d \in Drafts,
         \/ SendSave(q, d) \/ SendDetect(q, d) \/ SendPreflight(q, d)
         \/ SendCommit(q, d, "create") \/ SendCommit(q, d, "adopt")
  PROVE  PlanningInv'
<1>1. draft[d].findings \in FindingSets
  BY PlanningParts DEF PlanningInv, DraftRow
<1>2. CASE SendSave(q, d)
  BY <1>2, SendKeepsPlanning DEF SendSave
<1>3. CASE SendDetect(q, d)
  BY <1>3, SendKeepsPlanning DEF SendDetect
<1>4. CASE SendPreflight(q, d)
  BY <1>4, SendKeepsPlanning DEF SendPreflight
<1>5. CASE SendCommit(q, d, "create")
  BY <1>1, <1>5, SendKeepsPlanning, WarningsAreCodes DEF SendCommit
<1>6. CASE SendCommit(q, d, "adopt")
  BY <1>1, <1>6, SendKeepsPlanning, WarningsAreCodes DEF SendCommit
<1> QED BY <1>2, <1>3, <1>4, <1>5, <1>6

\* What a handler reads of a draft at the revision asked, put beside the request.
LEMMA GoesKeepsPlanning ==
  ASSUME PlanningInv, NEW q \in Reqs, call[q].step = "sent",
         UNCHANGED <<draft, projects>>,
         NEW result \in Detections \cup {None} \cup Preflights, Goes(q, result),
         call[q].kind = "detect" => result \in Detections,
         call[q].kind = "preflight" =>
           result \in Preflights /\ (Blocking(result.findings) = {} => CanRun(result.plan.data)),
         LET dr == draft[call[q].id] IN
           /\ call[q].kind = "create" /\ dr.data.source # None => dr.data.source.kind # "import"
           /\ call[q].kind = "adopt" => dr.data.source # None /\ dr.data.source.kind = "import"
  PROVE  PlanningInv'
<1> DEFINE o == call[q]
           k == [call[q] EXCEPT !.step = "read", !.result = result]
<1>1. o \in CallRow /\ CallTyped(o) /\ Current(o, draft[o.id]) /\ call \in [Reqs -> CallRow]
  BY PlanningParts DEF PlanningInv
<1>2. call' = [call EXCEPT ![q] = k]
  BY <1>1 DEF Goes
<1>3. /\ k \in CallRow /\ k.step = "read" /\ k.result = result /\ k.kind = o.kind /\ k.id = o.id
      /\ k.revision = o.revision /\ k.seen = o.seen
  BY <1>1 DEF CallRow
<1>4. CallTyped(k)
  BY <1>1, <1>3 DEF CallTyped
<1>5. Current(k, draft[k.id])
  BY <1>1, <1>3 DEF Current
<1> HIDE DEF k
<1> QED BY <1>2, <1>4, <1>5, CallStep

\* What a save, a detection or a preflight leaves of a draft.
LEMMA PersistedKeepsPlanning ==
  ASSUME PlanningInv, NEW q \in Reqs, NEW d \in Drafts, Done(q), UNCHANGED projects,
         NEW step \in {"intent", "source", "detection", "configuration", "preflight"},
         NEW data \in DraftData, NEW findings \in FindingSets, NEW preview \in DraftPlan,
         data.detection # None => validateDetectionResult(data.source, data.detection),
         preview # NoPlan => /\ preview.data = data
                             /\ Blocking(findings) = {} => CanRun(data),
         draft' = Persisted(d, step, data, findings, preview)
  PROVE  PlanningInv'
<1> DEFINE was == draft[d]
           next == draft[d].revision + 1
           row == [was EXCEPT !.step = step, !.revision = next, !.data = data,
                              !.findings = findings, !.preview = preview]
<1>1. was \in DraftRow /\ next \in Nat /\ next > was.revision
  BY PlanningParts DEF PlanningInv, DraftRow
<1>2. draft' = [draft EXCEPT ![d] = row]
  BY DEF Persisted
<1> HIDE DEF was, next
<1>3. /\ row \in DraftRow /\ row.step = step /\ row.revision = next /\ row.data = data
      /\ row.findings = findings /\ row.preview = preview
  BY <1>1 DEF DraftRow
<1> HIDE DEF row
<1>4. Reviewed(row)
  BY <1>3 DEF Reviewed
<1>5. row.revision > draft[d].revision
  BY <1>1, <1>3 DEF was
<1>6. PlanningTypeOK' /\ DraftsReviewed' /\ CallsCurrent'
  BY <1>2, <1>3, <1>4, <1>5, DraftStep DEF Done
<1> QED BY <1>6, DraftStepKeeps


\* A save changes one part of the data; a new source loses the detection of the old.
LEMMA SavedTyped ==
  ASSUME NEW data \in DraftData, NEW input \in Inputs,
         data.detection # None => validateDetectionResult(data.source, data.detection)
  PROVE  /\ SavedData(data, input) \in DraftData
         /\ SavedData(data, input).detection # None =>
              validateDetectionResult(SavedData(data, input).source, SavedData(data, input).detection)
         /\ input.step \in {"intent", "source", "configuration"}
<1>1. CASE input \in {[step |-> "intent", value |-> i] : i \in Intents}
  <2>1. PICK i \in Intents : input = [step |-> "intent", value |-> i]
    BY <1>1
  <2> QED BY <2>1 DEF SavedData, DraftData
<1>2. CASE input \in {[step |-> "source", value |-> s] : s \in SourceInputs}
  <2>1. PICK s \in SourceInputs : input = [step |-> "source", value |-> s]
    BY <1>2
  <2>2. canonicalSourceConfig(s) \in DraftSources
    BY DEF DraftSources
  <2>3. SavedData(data, input) = [data EXCEPT !.source = canonicalSourceConfig(s), !.detection = None]
    BY <2>1 DEF SavedData
  <2> QED BY <2>1, <2>2, <2>3 DEF DraftData
<1>3. CASE input \in {[step |-> "configuration", value |-> v] : v \in ConfigInputs}
  <2>1. PICK v \in ConfigInputs : input = [step |-> "configuration", value |-> v]
    BY <1>3
  <2> QED BY <2>1 DEF SavedData, DraftData
<1> QED BY <1>1, <1>2, <1>3 DEF Inputs

LEMMA SaveKeepsPlanning ==
  ASSUME PlanningInv, NEW q \in Reqs, handleDeploymentDraftSave(q)
  PROVE  PlanningInv'
<1> DEFINE k == call[q]
<1>1. /\ k.id \in Drafts /\ k.input \in Inputs
      /\ draft[k.id] \in DraftRow /\ Reviewed(draft[k.id])
  BY PlanningParts DEF PlanningInv, CallTyped, handleDeploymentDraftSave
<1>2. Save(k.id, k.revision, k.input) /\ Done(q) /\ UNCHANGED projects
  BY DEF handleDeploymentDraftSave
<1>3. CASE UNCHANGED draft
  BY <1>2, <1>3, DoneHolds
<1>4. CASE draft' = Persisted(k.id, k.input.step, SavedData(draft[k.id].data, k.input), {}, NoPlan)
  <2> DEFINE data == SavedData(draft[k.id].data, k.input)
             step == k.input.step
  <2>1. draft[k.id].data \in DraftData
    BY <1>1 DEF DraftRow
  <2>2. /\ data \in DraftData /\ step \in {"intent", "source", "detection", "configuration", "preflight"}
        /\ data.detection # None => validateDetectionResult(data.source, data.detection)
    BY <1>1, <2>1, SavedTyped DEF Reviewed
  <2> HIDE DEF data, step
  <2>3. draft' = Persisted(k.id, step, data, {}, NoPlan)
    BY <1>4 DEF data, step
  <2> QED BY <1>1, <1>2, <2>2, <2>3, EmptyRows, PersistedKeepsPlanning
<1> QED BY <1>2, <1>3, <1>4 DEF Save

LEMMA DetectKeepsPlanning ==
  ASSUME PlanningInv, NEW q \in Reqs, handleDeploymentDraftDetect(q)
  PROVE  PlanningInv'
<1> DEFINE k == call[q]
           dr == draft[k.id]
<1>1. /\ k.step = "sent" /\ k.kind = "detect" /\ UNCHANGED <<draft, projects>>
      /\ \/ Done(q)
         \/ dr.data.source # None /\ \E e \in Evidence(dr.data.source) : Goes(q, e)
  BY DEF handleDeploymentDraftDetect, ReadFresh
<1>2. k.id \in Drafts /\ dr \in DraftRow
  BY <1>1, PlanningParts DEF PlanningInv, CallTyped
<1>3. CASE dr.data.source # None /\ \E e \in Evidence(dr.data.source) : Goes(q, e)
  <2>1. PICK e \in Evidence(dr.data.source) : Goes(q, e)
    BY <1>3
  <2>2. dr.data.source \in DraftSources
    BY <1>2, <1>3 DEF DraftRow, DraftData
  <2>3. e \in Detections
    BY <2>2 DEF Detections
  <2> QED BY <1>1, <2>1, <2>3, GoesKeepsPlanning
<1> QED BY <1>1, <1>3, DoneHolds

LEMMA PreflightKeepsPlanning ==
  ASSUME PlanningInv, NEW q \in Reqs, handleDeploymentDraftPreflight(q)
  PROVE  PlanningInv'
<1> DEFINE k == call[q]
           dr == draft[k.id]
<1>1. /\ k.step = "sent" /\ k.kind = "preflight" /\ UNCHANGED <<draft, projects>>
      /\ Done(q) \/ \E h \in Hosts : Goes(q, PreflightDraft(dr, h))
  BY DEF handleDeploymentDraftPreflight, ReadFresh
<1>2. k.id \in Drafts /\ dr \in DraftRow
  BY <1>1, PlanningParts DEF PlanningInv, CallTyped
<1>3. ASSUME NEW h \in Hosts, Goes(q, PreflightDraft(dr, h)) PROVE PlanningInv'
  <2> DEFINE result == PreflightDraft(dr, h)
  <2>1. result.findings \in FindingSets /\ result = [findings |-> result.findings, plan |-> exactPlan(dr)]
    BY FindingsTyped DEF PreflightDraft
  <2>2. exactPlan(dr) \in DraftPlan /\ exactPlan(dr).data = dr.data
    BY <1>2 DEF exactPlan, DraftPlan, DraftRow
  <2>3. Blocking(result.findings) = {} => CanRun(dr.data)
    BY PreflightFinds
  <2> HIDE DEF result
  <2>4. result \in Preflights /\ result.plan = exactPlan(dr)
    BY <2>1, <2>2 DEF Preflights
  <2>5. Goes(q, result)
    BY <1>3 DEF result
  <2> QED BY <1>1, <2>2, <2>3, <2>4, <2>5, GoesKeepsPlanning
<1> QED BY <1>1, <1>3, DoneHolds

LEMMA SaveResultKeepsPlanning ==
  ASSUME PlanningInv, NEW q \in Reqs, SaveResult(q)
  PROVE  PlanningInv'
<1> DEFINE k == call[q]
           d == k.id
<1>1. k.step = "read" /\ k.kind \in {"detect", "preflight"} /\ Done(q) /\ UNCHANGED projects
  BY DEF SaveResult
<1>2. /\ d \in Drafts /\ draft[d] \in DraftRow /\ Reviewed(draft[d]) /\ Current(k, draft[d])
      /\ k.kind = "detect" => k.result \in Detections
      /\ k.kind = "preflight" => k.result \in Preflights
  BY <1>1, PlanningParts DEF PlanningInv, CallTyped
<1>3. draft[d].data \in DraftData
  BY <1>2 DEF DraftRow
<1>4. CASE UNCHANGED draft
  BY <1>1, <1>4, DoneHolds
<1>5. CASE /\ k.kind = "detect" /\ validateDetectionResult(draft[d].data.source, k.result)
           /\ draft' = Persisted(d, "detection", [draft[d].data EXCEPT !.detection = k.result], {}, NoPlan)
  <2> DEFINE data == [draft[d].data EXCEPT !.detection = k.result]
  <2>1. data \in DraftData /\ data.source = draft[d].data.source /\ data.detection = k.result
    BY <1>2, <1>3, <1>5 DEF DraftData
  <2> HIDE DEF data
  <2>2. draft' = Persisted(d, "detection", data, {}, NoPlan)
    BY <1>5 DEF data
  <2> QED BY <1>1, <1>2, <1>5, <2>1, <2>2, EmptyRows, PersistedKeepsPlanning
<1>6. CASE /\ k.kind = "preflight" /\ k.result.plan = exactPlan(draft[d])
           /\ draft' = Persisted(d, "preflight", draft[d].data, k.result.findings, k.result.plan)
  <2> DEFINE found == k.result.findings
             shown == k.result.plan
             data == draft[d].data
  <2>1. found \in FindingSets /\ shown \in DraftPlan
    BY <1>2, <1>6 DEF Preflights
  <2>2. shown.data = data
    BY <1>6 DEF exactPlan
  <2>3. Blocking(found) = {} => CanRun(data)
    BY <1>1, <1>2, <1>6, <2>2 DEF Current
  <2>4. data.detection # None => validateDetectionResult(data.source, data.detection)
    BY <1>2 DEF Reviewed
  <2>5. draft' = Persisted(d, "preflight", data, found, shown)
    BY <1>6
  <2> HIDE DEF found, shown, data
  <2>6. data \in DraftData
    BY <1>3 DEF data
  <2> QED BY <1>1, <1>2, <2>1, <2>2, <2>3, <2>4, <2>5, <2>6, PersistedKeepsPlanning
<1> QED BY <1>1, <1>4, <1>5, <1>6 DEF SaveResult, SaveDetection, SavePreflight


LEMMA CommitReadKeepsPlanning ==
  ASSUME PlanningInv, NEW q \in Reqs,
         handleDeploymentDraftCommit(q) \/ handleDeploymentImportAdopt(q)
  PROVE  PlanningInv'
<1> DEFINE k == call[q]
           dr == draft[k.id]
<1>1. CASE handleDeploymentDraftCommit(q)
  <2>1. /\ k.step = "sent" /\ k.kind = "create" /\ UNCHANGED <<draft, projects>>
        /\ \/ Done(q)
           \/ (dr.data.source # None => dr.data.source.kind # "import") /\ Goes(q, None)
    BY <1>1 DEF handleDeploymentDraftCommit, ReadFresh
  <2> QED BY <2>1, DoneHolds, GoesKeepsPlanning
<1>2. CASE handleDeploymentImportAdopt(q)
  <2>1. /\ k.step = "sent" /\ k.kind = "adopt" /\ UNCHANGED <<draft, projects>>
        /\ \/ Done(q)
           \/ dr.data.source # None /\ dr.data.source.kind = "import" /\ Goes(q, None)
    BY <1>2 DEF handleDeploymentImportAdopt, ReadFresh
  <2> QED BY <2>1, DoneHolds, GoesKeepsPlanning
<1> QED BY <1>1, <1>2

\* A mark on a draft, of its end, changes nothing it says.
LEMMA MarkedRow ==
  ASSUME PlanningInv, NEW d \in Drafts,
         NEW row \in {[draft[d] EXCEPT !.committed = TRUE], [draft[d] EXCEPT !.expired = TRUE]}
  PROVE  /\ row \in DraftRow /\ Reviewed(row) /\ row.revision = draft[d].revision
         /\ row.preview = draft[d].preview /\ row.data = draft[d].data
<1> DEFINE was == draft[d]
<1>1. was \in DraftRow /\ Reviewed(was)
  BY PlanningParts DEF PlanningInv
<1> HIDE DEF was
<1>2. row = [was EXCEPT !.committed = TRUE] \/ row = [was EXCEPT !.expired = TRUE]
  BY DEF was
<1>3. /\ row \in DraftRow /\ row.step = was.step /\ row.revision = was.revision
      /\ row.data = was.data /\ row.findings = was.findings /\ row.preview = was.preview
  BY <1>1, <1>2 DEF DraftRow
<1>4. Reviewed(row)
  BY <1>1, <1>3 DEF Reviewed
<1> QED BY <1>3, <1>4 DEF was

LEMMA CommitKeepsPlanning ==
  ASSUME PlanningInv, NEW q \in Reqs, CommitCalled(q)
  PROVE  PlanningInv'
<1> DEFINE k == call[q]
           d == k.id
<1>1. k.step = "read" /\ k.kind \in {"create", "adopt"} /\ Done(q) /\ Commit(d, k)
  BY DEF CommitCalled
<1>2. d \in Drafts /\ draft[d] \in DraftRow /\ Reviewed(draft[d]) /\ Current(k, draft[d])
  BY <1>1, PlanningParts DEF PlanningInv, CallTyped
<1>3. CASE UNCHANGED <<draft, projects>>
  BY <1>1, <1>3, DoneHolds
<1>4. CASE /\ k.revision = draft[d].revision /\ validateDraftComplete(draft[d])
           /\ Blocking(draft[d].findings) = {}
           /\ projects' = projects \cup {ProjectFrom(d, k)}
           /\ draft' = [draft EXCEPT ![d].committed = TRUE]
  <2> DEFINE row == [draft[d] EXCEPT !.committed = TRUE]
             data == draft[d].data
             p == ProjectFrom(d, k)
  <2>1. /\ row \in DraftRow /\ Reviewed(row) /\ row.revision = draft[d].revision
        /\ row.preview = draft[d].preview /\ row.data = draft[d].data
    BY <1>2, MarkedRow
  <2>2. draft' = [draft EXCEPT ![d] = row]
    BY <1>4
  <2>3. /\ data.source # None /\ data.detection # None /\ draft[d].preview # NoPlan
    BY <1>4 DEF validateDraftComplete
  <2>4. CanRun(data) /\ draft[d].preview.data = data /\ validateDetectionResult(data.source, data.detection)
    BY <1>2, <1>4, <2>3 DEF Reviewed
  <2>5. /\ k.seen = draft[d].preview
        /\ k.kind = "create" => data.source.kind # "import"
        /\ k.kind = "adopt" => data.source.kind = "import"
    BY <1>1, <1>2, <1>4, <2>3 DEF Current
  <2>6. p.seen = k.seen /\ p.plan = draft[d].preview /\ p.data = data /\ p.via = k.kind
    BY DEF ProjectFrom
  <2> HIDE DEF row, data, p
  <2>7. CommittedAsReviewed' /\ CommittedPlanRuns'
    BY <1>1, <1>4, <2>4, <2>5, <2>6 DEF PlanningInv, CommittedAsReviewed, CommittedPlanRuns, p
  <2>8. PlanningTypeOK' /\ DraftsReviewed' /\ CallsCurrent'
    BY <1>1, <1>2, <2>1, <2>2, DraftStep DEF Done
  <2> QED BY <2>7, <2>8 DEF PlanningInv
<1> QED BY <1>1, <1>3, <1>4 DEF Commit

LEMMA CreateKeepsPlanning ==
  ASSUME PlanningInv, NEW d \in Drafts, Create(d)
  PROVE  PlanningInv'
<1> DEFINE row == [NoDraft EXCEPT !.step = "intent", !.revision = 1]
<1>1. draft[d].revision = 0
  BY PlanningParts DEF PlanningInv, Reviewed, Create
<1>2. row \in DraftRow /\ row.revision = 1
  BY EmptyRows DEF DraftRow
<1>3. Reviewed(row)
  BY DEF NoDraft, Reviewed, NoData
<1>4. draft' = [draft EXCEPT ![d] = row] /\ UNCHANGED <<call, projects>>
  BY DEF Create
<1> HIDE DEF row
<1>5. row.revision > draft[d].revision
  BY <1>1, <1>2
<1>6. PlanningTypeOK' /\ DraftsReviewed' /\ CallsCurrent'
  BY <1>2, <1>3, <1>4, <1>5, DraftStep
<1> QED BY <1>4, <1>6, DraftStepKeeps

LEMMA ExpiryKeepsPlanning ==
  ASSUME PlanningInv, NEW d \in Drafts, DraftExpires(d)
  PROVE  PlanningInv'
<1> DEFINE row == [draft[d] EXCEPT !.expired = TRUE]
<1>1. draft' = [draft EXCEPT ![d] = row] /\ UNCHANGED <<call, projects>>
  BY DEF DraftExpires
<1>2. /\ row \in DraftRow /\ Reviewed(row) /\ row.revision = draft[d].revision
      /\ row.preview = draft[d].preview /\ row.data = draft[d].data
  BY MarkedRow
<1> HIDE DEF row
<1>3. PlanningTypeOK' /\ DraftsReviewed' /\ CallsCurrent'
  BY <1>1, <1>2, DraftStep
<1> QED BY <1>1, <1>3, DraftStepKeeps

LEMMA StillPlanning ==
  ASSUME PlanningInv, UNCHANGED planningVars
  PROVE  PlanningInv'
BY DEF planningVars, PlanningInv, PlanningTypeOK, DraftsReviewed, CallsCurrent,
       CommittedAsReviewed, CommittedPlanRuns

LEMMA PlanningBegins == PlanningInit => PlanningInv
<1> SUFFICES ASSUME PlanningInit PROVE PlanningInv
  OBVIOUS
<1>1. draft = [d \in Drafts |-> NoDraft] /\ call = [q \in Reqs |-> NoCall] /\ projects = {}
  BY DEF PlanningInit
<1>2. PlanningTypeOK
  BY <1>1, EmptyRows, PlanningParts
<1>3. DraftsReviewed
  BY <1>1, EmptyRows, PlanningParts
<1>4. CallsCurrent
  BY <1>1, EmptyRows DEF CallsCurrent
<1> QED BY <1>1, <1>2, <1>3, <1>4 DEF PlanningInv, CommittedAsReviewed, CommittedPlanRuns

\* What is committed is the plan the committing browser had on its screen and preflight
\* last looked at, with a detection of its own source, and a plan that can be carried out
\* (PlanningStore.Commit, SavePreflight, preflightFindings): whatever other requests save
\* while a detection, a preflight or a commit is looking at the draft without the lock.
THEOREM PlanningInvariance == PlanningSpec => []PlanningInv
<1>1. PlanningInv /\ [PlanningNext]_planningVars => PlanningInv'
  <2> SUFFICES ASSUME PlanningInv, [PlanningNext]_planningVars PROVE PlanningInv'
    OBVIOUS
  <2>1. CASE \E d \in Drafts : Create(d) \/ DraftExpires(d)
    BY <2>1, CreateKeepsPlanning, ExpiryKeepsPlanning
  <2>2. CASE \E q \in Reqs, d \in Drafts :
               \/ SendSave(q, d) \/ SendDetect(q, d) \/ SendPreflight(q, d)
               \/ SendCommit(q, d, "create") \/ SendCommit(q, d, "adopt")
    BY <2>2, SendsKeepPlanning
  <2>3. CASE \E q \in Reqs :
               \/ handleDeploymentDraftSave(q)
               \/ handleDeploymentDraftDetect(q)
               \/ handleDeploymentDraftPreflight(q)
               \/ SaveResult(q)
               \/ handleDeploymentDraftCommit(q)
               \/ handleDeploymentImportAdopt(q)
               \/ CommitCalled(q)
               \/ Abandoned(q)
    BY <2>3, SaveKeepsPlanning, DetectKeepsPlanning, PreflightKeepsPlanning,
       SaveResultKeepsPlanning, CommitReadKeepsPlanning, CommitKeepsPlanning, DoneHolds DEF Abandoned
  <2>4. CASE UNCHANGED planningVars
    BY <2>4, StillPlanning
  <2> QED BY <2>1, <2>2, <2>3, <2>4 DEF PlanningNext
<1> QED BY <1>1, PlanningBegins, PTL DEF PlanningSpec

---------------------------------------------------------------------------
(* The configuration of an environment.                                    *)

\* Nothing refers to nothing.
LEMMA NoVariablesResolve ==
  ASSUME NEW values, DOMAIN values = {}
  PROVE  ResolveVariableGraph(values)
<1> DEFINE F(f) == [n \in Nat |-> {v \in DOMAIN values :
                      \/ values[v].kind # "variable"
                      \/ n > 0 /\ values[v].target \in f[n - 1]}]
           done == CHOOSE f : f = F(f)
<1>1. \A f : F(f) = [n \in Nat |-> {}]
  OBVIOUS
<1>2. done = F(done)
  <2>1. [n \in Nat |-> {}] = F([n \in Nat |-> {}])
    BY <1>1
  <2> HIDE DEF F
  <2>2. \E f : f = F(f)
    BY <2>1
  <2> QED BY <2>2
<1>3. done = [n \in Nat |-> {}]
  BY <1>1, <1>2
<1>4. Cardinality(DOMAIN values) = 0
  BY FS_EmptySet
<1>5. ResolvedWithin(values) = done[Cardinality(DOMAIN values)]
  BY DEF ResolvedWithin
<1> QED BY <1>3, <1>4, <1>5 DEF ResolveVariableGraph

\* What is written is of the declared variables.
LEMMA VariablesWritten ==
  ASSUME NEW a \in VariableSets, NEW b \in VariableSets
  PROVE  /\ writeVariableRevisionTx(a, b) \in VariableSets
         /\ [v \in DOMAIN a \ DOMAIN b |-> a[v]] \in VariableSets
         /\ \A v \in DOMAIN a : a[v] \in Written
         /\ DOMAIN a \subseteq VarNames
<1>1. PICK D \in SUBSET VarNames : a \in [D -> Written]
  BY DEF VariableSets
<1>2. PICK E \in SUBSET VarNames : b \in [E -> Written]
  BY DEF VariableSets
<1>3. /\ D \cup E \in SUBSET VarNames /\ D \ E \in SUBSET VarNames
      /\ writeVariableRevisionTx(a, b) \in [D \cup E -> Written]
      /\ [v \in DOMAIN a \ DOMAIN b |-> a[v]] \in [D \ E -> Written]
  BY <1>1, <1>2 DEF writeVariableRevisionTx
<1>4. writeVariableRevisionTx(a, b) \in VariableSets /\ [v \in DOMAIN a \ DOMAIN b |-> a[v]] \in VariableSets
  BY <1>3 DEF VariableSets
<1> QED BY <1>1, <1>4

LEMMA SomeWritten ==
  ASSUME NEW D \in SUBSET VarNames, NEW w \in Written
  PROVE  [v \in D |-> w] \in VariableSets
<1>1. [v \in D |-> w] \in [D -> Written]
  OBVIOUS
<1> QED BY <1>1 DEF VariableSets

LEMMA NothingWritten ==
  /\ <<>> \in VariableSets /\ Values(<<>>) = <<>> /\ ResolveVariableGraph(Values(<<>>))
  /\ 0 \in Dependencies /\ FirstPlan \in PlanRows /\ VarValues \subseteq Written /\ Unset \in Written
<1>1. <<>> \in [{} -> Written] /\ DOMAIN <<>> = {}
  OBVIOUS
<1>2. <<>> \in VariableSets
  BY <1>1 DEF VariableSets
<1>3. Values(<<>>) = <<>>
  BY <1>1 DEF Values
<1>4. ResolveVariableGraph(<<>>)
  BY <1>1, NoVariablesResolve
<1> QED BY <1>2, <1>3, <1>4 DEF Dependencies, PlanRows, Written

LEMMA NoRequest == NoEdit \in EditRequests /\ NoEdit.step = "idle" /\ NoEdit.revision = 0
  BY NothingWritten DEF NoEdit, EditRequests

LEMMA NoRun ==
  /\ NoInputs \in RunInputs(NoInputs.opened) /\ NoInputs.step = "none" /\ NoInputs.plan = 0
  /\ NoInputs.vars = <<>>
  BY NothingWritten DEF NoInputs, RunInputs

---------------------------------------------------------------------------
(* Edits and runs.                                                         *)

LEMMA ConfigBegins == ConfigInit => ConfigInv
<1> SUFFICES ASSUME ConfigInit PROVE ConfigInv
  OBVIOUS
<1>1. ConfigTypeOK
  <2>1. desired = 1 /\ owned = 1 /\ deps = 0 /\ liveRun = 0 /\ active = <<>>
    BY DEF ConfigInit
  <2>2. planRow \in Seq(PlanRows) /\ Len(planRow) = 1
    BY NothingWritten DEF ConfigInit
  <2>3. history \in Seq([vars : VariableSets, deps : Dependencies]) /\ Len(history) = 1
    <3> DEFINE h == [vars |-> <<>>, deps |-> 0]
    <3>1. h \in [vars : VariableSets, deps : Dependencies]
      BY NothingWritten
    <3> HIDE DEF h
    <3>2. history = <<h>>
      BY DEF ConfigInit, h
    <3> QED BY <3>1, <3>2
  <2>4. edit \in [Editors -> EditRequests]
    BY NoRequest DEF ConfigInit
  <2>5. DOMAIN runIn = RunIds /\ \A r \in RunIds : runIn[r] = NoInputs
    BY DEF ConfigInit
  <2> QED BY <2>1, <2>2, <2>3, <2>4, <2>5, NoRun, NothingWritten DEF ConfigTypeOK
<1>2. InputsOfRevision
  BY NoRun DEF ConfigInit, InputsOfRevision
<1>3. TasksListed
  BY NoRequest DEF ConfigInit, TasksListed
<1>4. VariablesResolve
  BY NoRun, NothingWritten DEF ConfigInit, VariablesResolve
<1>5. NothingPendingMissed
  BY DEF ConfigInit, NothingPendingMissed, PendingState
<1> QED BY <1>1, <1>2, <1>3, <1>4, <1>5 DEF ConfigInv

\* A live release of the desired revision was given what is desired; one of another
\* revision is shown as pending.
LEMMA PendingShown ==
  ASSUME ConfigTypeOK, InputsOfRevision
  PROVE  NothingPendingMissed
<1> SUFFICES ASSUME liveRun # 0, runIn[liveRun].plan = desired
             PROVE  /\ planRow[runIn[liveRun].plan] = planRow[desired]
                    /\ runIn[liveRun].vars = active /\ runIn[liveRun].deps = deps
  BY DEF NothingPendingMissed, PendingState
<1>1. liveRun \in RunIds
  BY DEF ConfigTypeOK
<1> QED BY <1>1 DEF InputsOfRevision

LEMMA PendingShownNext ==
  ASSUME ConfigTypeOK', InputsOfRevision'
  PROVE  NothingPendingMissed'
<1> SUFFICES ASSUME liveRun' # 0, runIn'[liveRun'].plan = desired'
             PROVE  /\ planRow'[runIn'[liveRun'].plan] = planRow'[desired']
                    /\ runIn'[liveRun'].vars = active' /\ runIn'[liveRun'].deps = deps'
  BY DEF NothingPendingMissed, PendingState
<1>1. liveRun' \in RunIds
  BY DEF ConfigTypeOK
<1> QED BY <1>1 DEF InputsOfRevision

\* The desired revision moves on: every run and every other request is behind it.
LEMMA AdvanceKeepsConfig ==
  ASSUME ConfigInv, NEW e \in Editors, NEW p \in PlanRows, NEW vs \in VariableSets, NEW d \in Dependencies,
         advanceDesiredRevisionTx(p, vs, d), EditDone(e), UNCHANGED <<runIn, liveRun, owned>>,
         ResolveVariableGraph(Values(vs))
  PROVE  ConfigInv'
<1>1. ConfigTypeOK /\ InputsOfRevision /\ TasksListed /\ VariablesResolve
  BY DEF ConfigInv
<1>2. /\ desired' = desired + 1 /\ active' = vs /\ deps' = d
      /\ planRow' = Append(planRow, p) /\ history' = Append(history, [vars |-> vs, deps |-> d])
      /\ edit' = [edit EXCEPT ![e] = NoEdit] /\ UNCHANGED <<runIn, liveRun, owned>>
  BY DEF advanceDesiredRevisionTx, EditDone
<1>3. desired \in Nat /\ desired' \in Nat /\ desired < desired'
  BY <1>1, <1>2 DEF ConfigTypeOK
<1>4. /\ edit \in [Editors -> EditRequests] /\ edit' \in [Editors -> EditRequests]
      /\ edit'[e] = NoEdit /\ \A i \in Editors \ {e} : edit'[i] = edit[i]
  BY <1>1, <1>2, NoRequest DEF ConfigTypeOK
<1>5. ConfigTypeOK'
  <2>1. planRow' \in Seq(PlanRows) /\ Len(planRow') = desired'
    BY <1>1, <1>2 DEF ConfigTypeOK
  <2>2. history' \in Seq([vars : VariableSets, deps : Dependencies]) /\ Len(history') = desired'
    <3> DEFINE h == [vars |-> vs, deps |-> d]
    <3>1. h \in [vars : VariableSets, deps : Dependencies]
      OBVIOUS
    <3> HIDE DEF h
    <3>2. history' = Append(history, h)
      BY <1>2 DEF h
    <3> QED BY <1>1, <1>2, <3>1, <3>2 DEF ConfigTypeOK
  <2>3. desired' \in Nat \ {0}
    BY <1>1, <1>2 DEF ConfigTypeOK
  <2> QED BY <1>1, <1>2, <1>4, <2>1, <2>2, <2>3 DEF ConfigTypeOK
<1>6. InputsOfRevision'
  <2>1. \A r \in RunIds : runIn[r].plan \in Nat /\ runIn[r].plan <= desired
    BY <1>1 DEF ConfigTypeOK, RunInputs, InputsOfRevision
  <2>2. \A r \in RunIds : runIn[r].plan <= desired' /\ runIn[r].plan # desired'
    BY <1>3, <2>1
  <2> QED BY <1>1, <1>2, <2>2 DEF InputsOfRevision
<1>7. TasksListed'
  <2>1. \A i \in Editors : edit'[i].revision \in Nat /\ edit'[i].revision < desired'
                           /\ (edit'[i].step = "listed" => edit'[i].op = "save")
    <3>1. \A i \in Editors : edit[i].revision \in Nat /\ edit[i].revision <= desired
                             /\ (edit[i].step = "listed" => edit[i].op = "save")
      BY <1>1, <1>4 DEF TasksListed, EditRequests
    <3>2. ~(edit'[e].step = "listed") /\ edit'[e].revision = 0 /\ 0 < desired'
      BY <1>2, <1>3, <1>4, NoRequest
    <3> QED BY <1>3, <1>4, <3>1, <3>2
  <2>2. \A i \in Editors : edit'[i].revision <= desired' /\ edit'[i].revision # desired'
    BY <1>3, <2>1
  <2> QED BY <2>1, <2>2 DEF TasksListed
<1>8. VariablesResolve'
  BY <1>1, <1>2 DEF VariablesResolve
<1> QED BY <1>5, <1>6, <1>7, <1>8, PendingShownNext DEF ConfigInv

\* A request ends, or is changed on its way, and the configuration stays.
LEMMA RequestKeepsConfig ==
  ASSUME ConfigInv, NEW e \in Editors, NEW n \in EditRequests, edit' = [edit EXCEPT ![e] = n],
         UNCHANGED <<desired, planRow, active, deps, history, runIn, liveRun, owned>>,
         n.revision <= desired, n.step = "listed" => n.op = "save",
         n.step = "listed" /\ n.revision = desired =>
           \A v \in n.plan.tasks : v \in DOMAIN active /\ "release_task" \in active[v].scopes
  PROVE  ConfigInv'
<1>1. ConfigTypeOK /\ InputsOfRevision /\ TasksListed /\ VariablesResolve
  BY DEF ConfigInv
<1>2. /\ edit' \in [Editors -> EditRequests]
      /\ edit'[e] = n /\ \A i \in Editors \ {e} : edit'[i] = edit[i]
  BY <1>1 DEF ConfigTypeOK
<1>3. ConfigTypeOK'
  BY <1>1, <1>2 DEF ConfigTypeOK
<1>4. InputsOfRevision' /\ VariablesResolve'
  BY <1>1 DEF InputsOfRevision, VariablesResolve
<1>5. TasksListed'
  BY <1>1, <1>2 DEF TasksListed
<1> QED BY <1>3, <1>4, <1>5, PendingShownNext DEF ConfigInv

\* A run is given inputs, opens them, or ends.
LEMMA RunKeepsConfig ==
  ASSUME ConfigInv, NEW r \in RunIds, NEW n, n \in RunInputs(n.opened),
         runIn' = [runIn EXCEPT ![r] = n],
         UNCHANGED <<desired, planRow, active, deps, history, edit, owned>>,
         liveRun' \in {liveRun} \cup (IF n.step = "done" THEN {r} ELSE {}),
         runIn[r].step = "done" => n = runIn[r],
         n.plan <= desired,
         n.step = "targeted" /\ n.copy # 0 =>
           n.copy # r /\ runIn[n.copy].step = "done" /\ runIn[n.copy].plan = n.plan,
         n.step \in {"queued", "done"} /\ n.plan = desired => n.vars = active /\ n.deps = deps,
         ResolveVariableGraph(Values(n.vars))
  PROVE  ConfigInv'
<1>1. ConfigTypeOK /\ InputsOfRevision /\ TasksListed /\ VariablesResolve
  BY DEF ConfigInv
<1>2. DOMAIN runIn' = RunIds /\ runIn'[r] = n /\ \A i \in RunIds \ {r} : runIn'[i] = runIn[i]
  BY <1>1 DEF ConfigTypeOK
<1>3. liveRun' \in {0} \cup RunIds
  BY <1>1 DEF ConfigTypeOK
<1>4. ConfigTypeOK'
  BY <1>1, <1>2, <1>3 DEF ConfigTypeOK
<1>5. \A i \in RunIds : runIn[i].step = "done" => runIn'[i] = runIn[i]
  BY <1>2
<1>6. InputsOfRevision'
  <2>1. liveRun' # 0 => runIn'[liveRun'].step = "done"
    BY <1>1, <1>2, <1>3, <1>5 DEF InputsOfRevision
  <2>2. ASSUME NEW i \in RunIds
        PROVE  /\ runIn'[i].plan <= desired
               /\ runIn'[i].step = "targeted" /\ runIn'[i].copy # 0 =>
                    runIn'[runIn'[i].copy].step = "done" /\ runIn'[runIn'[i].copy].plan = runIn'[i].plan
               /\ runIn'[i].step \in {"queued", "done"} /\ runIn'[i].plan = desired =>
                    runIn'[i].vars = active /\ runIn'[i].deps = deps
    <3>1. /\ runIn'[i].plan <= desired
          /\ runIn'[i].step = "targeted" /\ runIn'[i].copy # 0 =>
               runIn[runIn'[i].copy].step = "done" /\ runIn[runIn'[i].copy].plan = runIn'[i].plan
          /\ runIn'[i].step \in {"queued", "done"} /\ runIn'[i].plan = desired =>
               runIn'[i].vars = active /\ runIn'[i].deps = deps
      BY <1>1, <1>2 DEF InputsOfRevision
    <3>2. runIn'[i].copy \in {0} \cup RunIds
      BY <1>4 DEF ConfigTypeOK, RunInputs
    <3> QED BY <1>5, <3>1, <3>2
  <2> QED BY <2>1, <2>2 DEF InputsOfRevision
<1>7. TasksListed'
  BY <1>1 DEF TasksListed
<1>8. VariablesResolve'
  BY <1>1, <1>2 DEF VariablesResolve
<1> QED BY <1>4, <1>6, <1>7, <1>8, PendingShownNext DEF ConfigInv

LEMMA RefusalKeepsConfig ==
  ASSUME ConfigInv, NEW e \in Editors, EditDone(e),
         UNCHANGED <<desired, planRow, active, deps, history, runIn, liveRun, owned>>
  PROVE  ConfigInv'
<1>1. desired \in Nat
  BY DEF ConfigInv, ConfigTypeOK
<1>2. /\ NoEdit \in EditRequests /\ NoEdit.revision <= desired /\ ~(NoEdit.step = "listed")
      /\ edit' = [edit EXCEPT ![e] = NoEdit]
  BY <1>1, NoRequest DEF EditDone
<1> QED BY <1>2, RequestKeepsConfig

LEMMA WritingKeepsConfig ==
  ASSUME ConfigInv, NEW e \in Editors, NEW vs \in VariableSets, WriteVariables(e, vs)
  PROVE  ConfigInv'
<1>1. planRow[desired] \in PlanRows /\ deps \in Dependencies
  BY DEF ConfigInv, ConfigTypeOK
<1>2. CASE AtRevision(e) /\ ResolveVariableGraph(Values(vs))
  BY <1>1, <1>2, AdvanceKeepsConfig DEF WriteVariables
<1>3. CASE ~(AtRevision(e) /\ ResolveVariableGraph(Values(vs)))
  BY <1>3, RefusalKeepsConfig DEF WriteVariables
<1> QED BY <1>2, <1>3

\* An edit is sent with the revision its page shows.
LEMMA SendingKeepsConfig ==
  ASSUME ConfigInv, NEW e \in Editors,
         NEW op \in {"put", "import", "rotate", "delete", "save"}, NEW vs \in VariableSets,
         NEW p \in PlanRows, NEW d \in Dependencies, SendEdit(e, op, vs, p, d)
  PROVE  ConfigInv'
<1> DEFINE n == [step |-> "sent", op |-> op, revision |-> desired, vars |-> vs, plan |-> p, deps |-> d]
<1>1. desired \in Nat
  BY DEF ConfigInv, ConfigTypeOK
<1>2. n \in EditRequests /\ n.revision = desired /\ n.step = "sent"
  BY <1>1 DEF EditRequests
<1>3. edit' = [edit EXCEPT ![e] = n] /\ UNCHANGED <<desired, planRow, active, deps, history, runIn, liveRun, owned>>
  BY DEF SendEdit
<1>4. n.revision <= desired /\ ~(n.step = "listed")
  BY <1>1, <1>2
<1> HIDE DEF n
<1> QED BY <1>2, <1>3, <1>4, RequestKeepsConfig

LEMMA RotatingKeepsConfig ==
  ASSUME ConfigInv, NEW e \in Editors, RotateVariable(e)
  PROVE  ConfigInv'
<1>1. PICK v \in DOMAIN edit[e].vars :
        IF v \in DOMAIN active /\ active[v].secret
        THEN edit' = [edit EXCEPT ![e].op = "put",
               ![e].vars = [w \in {v} |->
                  [value |-> Generated, secret |-> TRUE, scopes |-> active[v].scopes]]]
        ELSE EditDone(e)
  BY DEF RotateVariable
<1>2. edit[e].step = "sent" /\ UNCHANGED <<desired, planRow, active, deps, history, runIn, liveRun, owned>>
  BY DEF RotateVariable
<1>3. CASE v \in DOMAIN active /\ active[v].secret
  <2> DEFINE g == [value |-> Generated, secret |-> TRUE, scopes |-> active[v].scopes]
             n == [edit[e] EXCEPT !.op = "put", !.vars = [w \in {v} |-> g]]
  <2>1. edit \in [Editors -> EditRequests] /\ active \in VariableSets /\ edit[e].revision <= desired
    BY DEF ConfigInv, ConfigTypeOK, TasksListed
  <2>2. v \in VarNames /\ active[v] \in Written
    BY <1>3, <2>1, VariablesWritten
  <2>3. g \in Written
    <3>1. CASE active[v] \in VarValues \cup {Unset}
      BY <3>1 DEF Written
    <3>2. CASE active[v] \notin VarValues \cup {Unset}
      <4>1. PICK w \in VarValues \cup {Unset} :
              active[v] = [value |-> Generated, secret |-> TRUE, scopes |-> w.scopes]
        BY <2>2, <3>2 DEF Written
      <4>2. active[v].scopes = w.scopes
        BY <4>1
      <4>3. g = active[v]
        BY <4>1, <4>2
      <4> QED BY <2>2, <4>3
    <3> QED BY <3>1, <3>2
  <2>4. [w \in {v} |-> g] \in VariableSets
    BY <2>2, <2>3, SomeWritten
  <2>5. n \in EditRequests /\ n.step = "sent" /\ n.revision = edit[e].revision
    <3> HIDE DEF g
    <3> QED BY <1>2, <2>1, <2>4 DEF EditRequests
  <2>6. edit' = [edit EXCEPT ![e] = n]
    BY <1>1, <1>3, <2>1
  <2> HIDE DEF n
  <2> QED BY <1>2, <2>1, <2>5, <2>6, RequestKeepsConfig
<1>4. CASE ~(v \in DOMAIN active /\ active[v].secret)
  BY <1>1, <1>2, <1>4, RefusalKeepsConfig
<1> QED BY <1>3, <1>4

LEMMA SavingKeepsConfig ==
  ASSUME ConfigInv, NEW e \in Editors, ListVariables(e) \/ SaveEnvironmentConfiguration(e)
  PROVE  ConfigInv'
<1>0. /\ edit \in [Editors -> EditRequests] /\ active \in VariableSets /\ edit[e].revision <= desired
      /\ ResolveVariableGraph(Values(active))
  BY DEF ConfigInv, ConfigTypeOK, TasksListed, VariablesResolve
<1>1. CASE ListVariables(e)
  <2> DEFINE n == [edit[e] EXCEPT !.step = "listed"]
  <2>1. CASE \A v \in edit[e].plan.tasks : v \in DOMAIN active /\ "release_task" \in active[v].scopes
    <3>1. edit[e] \in EditRequests /\ edit[e].op = "save"
      BY <1>0, <1>1 DEF ListVariables
    <3>2. /\ n \in EditRequests /\ n.step = "listed" /\ n.op = "save" /\ n.plan = edit[e].plan
          /\ n.revision = edit[e].revision
      BY <3>1 DEF EditRequests
    <3>3. edit' = [edit EXCEPT ![e] = n]
      BY <1>0, <1>1, <2>1 DEF ListVariables
    <3>4. UNCHANGED <<desired, planRow, active, deps, history, runIn, liveRun, owned>>
      BY <1>1 DEF ListVariables
    <3> HIDE DEF n
    <3> QED BY <1>0, <2>1, <3>2, <3>3, <3>4, RequestKeepsConfig
  <2>2. CASE ~(\A v \in edit[e].plan.tasks : v \in DOMAIN active /\ "release_task" \in active[v].scopes)
    BY <1>1, <2>2, RefusalKeepsConfig DEF ListVariables
  <2> QED BY <2>1, <2>2
<1>2. CASE SaveEnvironmentConfiguration(e)
  <2>1. edit[e].plan \in PlanRows /\ edit[e].deps \in Dependencies
    BY <1>0 DEF EditRequests
  <2>2. CASE AtRevision(e)
    BY <1>0, <1>2, <2>1, <2>2, AdvanceKeepsConfig DEF SaveEnvironmentConfiguration
  <2>3. CASE ~AtRevision(e)
    BY <1>2, <2>3, RefusalKeepsConfig DEF SaveEnvironmentConfiguration
  <2> QED BY <2>2, <2>3
<1> QED BY <1>1, <1>2

\* A run reads its target, and later freezes the variables.
LEMMA TargetingKeepsConfig ==
  ASSUME ConfigInv, NEW r \in RunIds, NEW copy \in {0} \cup RunIds, EnvironmentExecutionTarget(r, copy)
  PROVE  ConfigInv'
<1> DEFINE n == [NoInputs EXCEPT !.step = "targeted", !.copy = copy,
                                 !.plan = IF copy = 0 THEN desired ELSE runIn[copy].plan]
<1>1. /\ runIn[r].step = "none"
      /\ copy # 0 => runIn[copy].step = "done"
      /\ runIn' = [runIn EXCEPT ![r] = n]
      /\ UNCHANGED <<desired, planRow, active, deps, history, edit, liveRun, owned>>
  BY DEF EnvironmentExecutionTarget
<1>2. /\ desired \in Nat /\ \A i \in RunIds : runIn[i].plan \in Nat /\ runIn[i].plan <= desired
  BY DEF ConfigInv, ConfigTypeOK, RunInputs, InputsOfRevision
<1>3. (IF copy = 0 THEN desired ELSE runIn[copy].plan) \in Nat
  BY <1>2
<1>4. /\ n \in RunInputs(n.opened) /\ n.step = "targeted" /\ n.copy = copy /\ n.vars = <<>>
      /\ n.plan = IF copy = 0 THEN desired ELSE runIn[copy].plan
  BY <1>3, NothingWritten DEF NoInputs, RunInputs
<1> HIDE DEF n
<1>5. n.plan <= desired
  BY <1>2, <1>4
<1>6. /\ n.step = "targeted" /\ n.copy # 0 =>
           n.copy # r /\ runIn[n.copy].step = "done" /\ runIn[n.copy].plan = n.plan
      /\ ~(n.step \in {"queued", "done"}) /\ ~(runIn[r].step = "done")
  BY <1>1, <1>4
<1>7. liveRun' \in {liveRun} \cup (IF n.step = "done" THEN {r} ELSE {})
  BY <1>1
<1>8. ResolveVariableGraph(Values(n.vars))
  BY <1>4, NothingWritten
<1> QED BY <1>1, <1>4, <1>5, <1>6, <1>7, <1>8, RunKeepsConfig

LEMMA FreezingKeepsConfig ==
  ASSUME ConfigInv, NEW r \in RunIds, EnqueueRun(r)
  PROVE  ConfigInv'
<1> DEFINE vs == snapshotRunVariablesTx(r)
           d == snapshotRunPlanInputsTx(r)
           n == [runIn[r] EXCEPT !.step = "queued", !.vars = vs, !.deps = d]
           i == runIn[r].copy
<1>1. /\ ConfigTypeOK /\ InputsOfRevision /\ VariablesResolve
      /\ runIn[r] \in RunInputs(runIn[r].opened)
  BY DEF ConfigInv, ConfigTypeOK
<1>2. /\ runIn[r].step = "targeted" /\ runIn' = [runIn EXCEPT ![r] = n]
      /\ UNCHANGED <<desired, planRow, active, deps, history, edit, liveRun, owned>>
  BY <1>1 DEF EnqueueRun, ConfigTypeOK
<1>3. i \in {0} \cup RunIds
  BY <1>1 DEF RunInputs
<1>4. /\ i = 0 => vs = active /\ d = deps
      /\ i # 0 => vs = runIn[i].vars /\ d = runIn[i].deps
  BY DEF snapshotRunVariablesTx, snapshotRunPlanInputsTx
<1> HIDE DEF vs, d
<1>5. /\ vs \in VariableSets /\ d \in Dependencies /\ ResolveVariableGraph(Values(vs))
      /\ runIn[r].plan = desired => vs = active /\ d = deps
  <2>1. CASE i = 0
    BY <1>1, <1>4, <2>1 DEF ConfigTypeOK, VariablesResolve
  <2>2. CASE i # 0
    <3>1. i \in RunIds /\ runIn[i].step = "done" /\ runIn[i].plan = runIn[r].plan
      BY <1>1, <1>2, <1>3, <2>2 DEF InputsOfRevision
    <3>2. runIn[i].vars \in VariableSets /\ runIn[i].deps \in Dependencies
      BY <1>1, <3>1 DEF ConfigTypeOK, RunInputs
    <3> QED BY <1>1, <1>4, <2>2, <3>1, <3>2 DEF InputsOfRevision, VariablesResolve
  <2> QED BY <2>1, <2>2
<1>6. /\ n \in RunInputs(n.opened) /\ n.step = "queued" /\ n.vars = vs /\ n.deps = d
      /\ n.plan = runIn[r].plan
  BY <1>1, <1>5 DEF RunInputs
<1>7. n.plan <= desired
  BY <1>1, <1>6 DEF InputsOfRevision
<1> HIDE DEF n
<1> QED BY <1>2, <1>5, <1>6, <1>7, RunKeepsConfig

LEMMA RunningKeepsConfig ==
  ASSUME ConfigInv, NEW r \in RunIds,
         (\E scope \in {"build", "release_task"} : OpenRunScopedVariables(r, scope)) \/ RunEnds(r)
  PROVE  ConfigInv'
<1>1. /\ ConfigTypeOK /\ InputsOfRevision /\ VariablesResolve
      /\ runIn[r] \in RunInputs(runIn[r].opened) /\ runIn[r].step = "queued"
  BY DEF ConfigInv, ConfigTypeOK, OpenRunScopedVariables, RunEnds
<1> DEFINE Moved(step, o) == [runIn[r] EXCEPT !.step = step, !.opened = o]
<1>2. \E step \in {"queued", "done"} : \E o :
        /\ runIn' = [runIn EXCEPT ![r] = Moved(step, o)]
        /\ liveRun' \in {liveRun} \cup (IF step = "done" THEN {r} ELSE {})
        /\ UNCHANGED <<desired, planRow, active, deps, history, edit, owned>>
  <2>1. ASSUME NEW scope \in {"build", "release_task"}, OpenRunScopedVariables(r, scope)
        PROVE  \E o : /\ runIn' = [runIn EXCEPT ![r] = Moved("queued", o)]
                      /\ UNCHANGED <<desired, planRow, active, deps, history, edit, liveRun, owned>>
    <3> DEFINE o == Append(runIn[r].opened,
                      [scope |-> scope, values |-> resolveScopedVariableValues(runIn[r].vars, scope)])
    <3>1. runIn' = [runIn EXCEPT ![r].opened = o]
          /\ UNCHANGED <<desired, planRow, active, deps, history, edit, liveRun, owned>>
      BY <2>1 DEF OpenRunScopedVariables
    <3> HIDE DEF o
    <3>2. [runIn[r] EXCEPT !.opened = o] = Moved("queued", o)
      BY <1>1 DEF RunInputs
    <3> HIDE DEF Moved
    <3> QED BY <1>1, <3>1, <3>2 DEF ConfigTypeOK
  <2>2. ASSUME RunEnds(r)
        PROVE  /\ runIn' = [runIn EXCEPT ![r] = Moved("done", runIn[r].opened)]
               /\ liveRun' \in {liveRun, r}
               /\ UNCHANGED <<desired, planRow, active, deps, history, edit, owned>>
    <3>1. [runIn[r] EXCEPT !.step = "done"] = Moved("done", runIn[r].opened)
      BY <1>1 DEF RunInputs
    <3> QED BY <1>1, <2>2, <3>1 DEF RunEnds, ConfigTypeOK
  <2> HIDE DEF Moved
  <2>3. CASE \E scope \in {"build", "release_task"} : OpenRunScopedVariables(r, scope)
    BY <2>1, <2>3
  <2>4. CASE RunEnds(r)
    BY <2>2, <2>4
  <2> QED BY <2>3, <2>4
<1>3. PICK step \in {"queued", "done"} : \E o :
        /\ runIn' = [runIn EXCEPT ![r] = Moved(step, o)]
        /\ liveRun' \in {liveRun} \cup (IF step = "done" THEN {r} ELSE {})
        /\ UNCHANGED <<desired, planRow, active, deps, history, edit, owned>>
  BY <1>2
<1>4. PICK o :
        /\ runIn' = [runIn EXCEPT ![r] = Moved(step, o)]
        /\ liveRun' \in {liveRun} \cup (IF step = "done" THEN {r} ELSE {})
        /\ UNCHANGED <<desired, planRow, active, deps, history, edit, owned>>
  BY <1>3
<1> DEFINE n == Moved(step, o)
<1>5. /\ n \in RunInputs(n.opened) /\ n.step = step /\ n.vars = runIn[r].vars
      /\ n.deps = runIn[r].deps /\ n.plan = runIn[r].plan
  BY <1>1 DEF RunInputs
<1>6. runIn' = [runIn EXCEPT ![r] = n]
  BY <1>4
<1> HIDE DEF n, Moved
<1>7. n.plan <= desired /\ (n.plan = desired => n.vars = active /\ n.deps = deps)
  BY <1>1, <1>5 DEF InputsOfRevision
<1>8. ResolveVariableGraph(Values(n.vars))
  BY <1>1, <1>5 DEF VariablesResolve
<1>9. liveRun' \in {liveRun} \cup (IF n.step = "done" THEN {r} ELSE {})
  BY <1>4, <1>5
<1> QED BY <1>1, <1>4, <1>5, <1>6, <1>7, <1>8, <1>9, RunKeepsConfig

LEMMA ConfigStep ==
  ASSUME ConfigInv, [ConfigNext]_configVars
  PROVE  ConfigInv'
<1>0. /\ active \in VariableSets /\ edit \in [Editors -> EditRequests]
      /\ \A e \in Editors : edit[e].vars \in VariableSets
  BY DEF ConfigInv, ConfigTypeOK, EditRequests
<1>1. ASSUME NEW e \in Editors, NEW v \in VarNames, NEW w \in VarValues,
             SendEdit(e, "put", [x \in {v} |-> w], FirstPlan, 0)
      PROVE  ConfigInv'
  BY <1>1, SomeWritten, NothingWritten, SendingKeepsConfig
<1>2. ASSUME NEW e \in Editors, NEW v \in VarNames, NEW op \in {"rotate", "delete"},
             SendEdit(e, op, [x \in {v} |-> Unset], FirstPlan, 0)
      PROVE  ConfigInv'
  BY <1>2, SomeWritten, NothingWritten, SendingKeepsConfig
<1>3. ASSUME NEW e \in Editors, NEW w \in VarValues, SendEdit(e, "import", [x \in VarNames |-> w], FirstPlan, 0)
      PROVE  ConfigInv'
  BY <1>3, SomeWritten, NothingWritten, SendingKeepsConfig
<1>4. ASSUME NEW e \in Editors, NEW p \in PlanInputs,
             SendEdit(e, "save", <<>>, [tasks |-> p.tasks, strategy |-> p.strategy], p.deps)
      PROVE  ConfigInv'
  <2>1. [tasks |-> p.tasks, strategy |-> p.strategy] \in PlanRows /\ p.deps \in Dependencies
    BY DEF PlanRows, Dependencies
  <2> QED BY <1>4, <2>1, NothingWritten, SendingKeepsConfig
<1>5. ASSUME NEW e \in Editors, PutVariable(e) \/ ImportDotenv(e) PROVE ConfigInv'
  BY <1>0, <1>5, VariablesWritten, WritingKeepsConfig DEF PutVariable, ImportDotenv
<1>6. ASSUME NEW e \in Editors, DeleteVariable(e) PROVE ConfigInv'
  BY <1>0, <1>6, VariablesWritten, WritingKeepsConfig DEF DeleteVariable
<1>7. CASE OwnerRotates \/ UNCHANGED configVars
  <2>1. /\ UNCHANGED <<desired, planRow, active, deps, history, edit, runIn, liveRun>>
        /\ owned' \in Nat
    BY <1>7 DEF OwnerRotates, configVars, ConfigInv, ConfigTypeOK
  <2>2. ConfigTypeOK'
    BY <2>1 DEF ConfigInv, ConfigTypeOK
  <2>3. InputsOfRevision' /\ TasksListed' /\ VariablesResolve'
    BY <2>1 DEF ConfigInv, InputsOfRevision, TasksListed, VariablesResolve
  <2> QED BY <2>2, <2>3, PendingShownNext DEF ConfigInv
<1> QED BY <1>1, <1>2, <1>3, <1>4, <1>5, <1>6, <1>7, RotatingKeepsConfig, SavingKeepsConfig,
           TargetingKeepsConfig, FreezingKeepsConfig, RunningKeepsConfig DEF ConfigNext

\* An edit that moves the desired revision ends its own request, which saw the
\* revision it replaces.
LEMMA SavesWhatWasSeen ==
  ASSUME ConfigInv, ConfigNext, NEW e \in Editors, edit[e].step \in {"sent", "listed"},
         edit'[e].step = "idle", desired' # desired
  PROVE  /\ edit[e].revision = desired
         /\ edit[e].op = "save" =>
              \A v \in edit[e].plan.tasks : v \in DOMAIN active' /\ "release_task" \in active'[v].scopes
<1>0. edit \in [Editors -> EditRequests] /\ TasksListed
  BY DEF ConfigInv, ConfigTypeOK
<1>1. PICK i \in Editors : PutVariable(i) \/ ImportDotenv(i) \/ DeleteVariable(i) \/ SaveEnvironmentConfiguration(i)
  <2>1. \A i, op, vs, p, d : ~SendEdit(i, op, vs, p, d)
    BY DEF SendEdit
  <2>2. \A i \in Editors : ~RotateVariable(i) /\ ~ListVariables(i)
    BY DEF RotateVariable, ListVariables
  <2>3. ~OwnerRotates /\ \A r \in RunIds :
          /\ \A copy \in {0} \cup RunIds : ~EnvironmentExecutionTarget(r, copy)
          /\ ~EnqueueRun(r) /\ ~RunEnds(r)
          /\ \A scope \in {"build", "release_task"} : ~OpenRunScopedVariables(r, scope)
    BY DEF OwnerRotates, EnvironmentExecutionTarget, EnqueueRun, RunEnds, OpenRunScopedVariables
  <2> QED BY <2>1, <2>2, <2>3 DEF ConfigNext
<1>2. edit' = [edit EXCEPT ![i] = NoEdit] /\ AtRevision(i)
  BY <1>1 DEF PutVariable, ImportDotenv, DeleteVariable, SaveEnvironmentConfiguration, WriteVariables, EditDone
<1>3. i = e
  BY <1>0, <1>2
<1>4. CASE SaveEnvironmentConfiguration(i)
  <2>1. edit[e].step = "listed" /\ edit[e].revision = desired /\ active' = active
    BY <1>2, <1>3, <1>4 DEF SaveEnvironmentConfiguration, AtRevision, advanceDesiredRevisionTx
  <2> QED BY <1>0, <2>1 DEF TasksListed
<1>5. CASE ~SaveEnvironmentConfiguration(i)
  BY <1>1, <1>2, <1>3, <1>5 DEF PutVariable, ImportDotenv, DeleteVariable, AtRevision
<1> QED BY <1>4, <1>5

\* However edits, imports, rotations, saves, runs and retries interleave: variables
\* resolve, nothing pending is hidden, and a configuration is replaced only by
\* somebody who saw it (PutVariable, SaveEnvironmentConfiguration, EnqueueRun,
\* PendingState).
THEOREM ConfigurationKept == ConfigSpec => ConfigKept
<1>1. ConfigInv /\ [ConfigNext]_configVars => ConfigInv'
  BY ConfigStep
<1>2. ConfigSpec => []ConfigInv
  BY <1>1, ConfigBegins, PTL DEF ConfigSpec
<1>3. ConfigInv /\ [ConfigNext]_configVars =>
        [\A e \in Editors :
           edit[e].step \in {"sent", "listed"} /\ edit'[e].step = "idle" /\ desired' # desired =>
             /\ edit[e].revision = desired
             /\ edit[e].op = "save" =>
                  \A v \in edit[e].plan.tasks : v \in DOMAIN active' /\ "release_task" \in active'[v].scopes
        ]_configVars
  BY SavesWhatWasSeen
<1>4. ConfigSpec => SavedAsSeen
  BY <1>2, <1>3, PTL DEF ConfigSpec, SavedAsSeen
<1> QED BY <1>2, <1>4 DEF ConfigKept

---------------------------------------------------------------------------
(* Detection and the Compose analysis.                                     *)

CandidatesFound == UNION {candidatesForMarkers(root, tree[root]) : root \in DOMAIN tree}
RecipeBuilds == selectRecipe(tree[build.root]).ok /\ renderRecipeDockerfile(tree[build.root])

\* What a source tree was found to hold is what the later phases work with, and a
\* refusal of a recipe is one the builder's own rules gave.
DetectPlace ==
  /\ documents \in Seq(DocServices)
  /\ phase # "new" => detection.candidates = CandidatesFound
  /\ phase = "refused" /\ build.method = "recipe" => ~RecipeBuilds

LEMMA DetectKeep ==
  /\ tree' = tree => CandidatesFound' = CandidatesFound
  /\ tree' = tree /\ build' = build => RecipeBuilds' = RecipeBuilds
<1>1. ASSUME tree' = tree PROVE CandidatesFound' = CandidatesFound
  BY <1>1 DEF CandidatesFound
<1>2. ASSUME tree' = tree, build' = build PROVE RecipeBuilds' = RecipeBuilds
  <2>1. \A d : /\ selectRecipe(d)' = selectRecipe(d)
               /\ renderRecipeDockerfile(d)' = renderRecipeDockerfile(d)
    BY <1>2, Zenon DEF selectRecipe, renderRecipeDockerfile, requested
  <2> QED BY <1>2, <2>1, Zenon DEF RecipeBuilds
<1> QED BY <1>1, <1>2

LEMMA DetectPlaceHolds == DetectSpec => []DetectPlace
<1>1. ASSUME DetectInit PROVE DetectPlace
  <2>1. documents \in Seq(DocServices) /\ phase = "new"
    <3>1. documents = <<>> /\ phase = "new"
      BY <1>1, Zenon DEF DetectInit
    <3> QED BY <3>1
  <2> QED BY <2>1 DEF DetectPlace
<1>2. ASSUME DetectPlace, [DetectNext]_detectVars PROVE DetectPlace'
  <2> USE <1>2, DetectKeep
  <2>1. CASE DetectPath
    <3>1. detection'.candidates = CandidatesFound
      BY <2>1 DEF DetectPath, CandidatesFound
    <3> QED BY <2>1, <3>1 DEF DetectPath, DetectPlace
  <2>2. ASSUME NEW c \in detection.candidates, NEW start \in BOOLEAN, Configure(c, start)
        PROVE  DetectPlace'
    BY <2>2 DEF Configure, DetectPlace
  <2>3. CASE Prepare
    <3>1. ASSUME phase' = "refused", build.method = "recipe", RecipeBuilds
          PROVE  FALSE
      <4>1. prepared_' = selectRecipe(tree[build.root]) /\ selectRecipe(tree[build.root]).ok
        BY <2>3, <3>1 DEF Prepare, RecipeBuilds
      <4> QED BY <2>3, <3>1, <4>1 DEF Prepare
    <3>2. UNCHANGED <<tree, documents, detection, build>> /\ phase = "configured"
      BY <2>3 DEF Prepare
    <3> QED BY <3>1, <3>2 DEF DetectPlace
  <2>4. ASSUME NEW doc \in DocServices, AddDocument(doc) PROVE DetectPlace'
    BY <2>4 DEF AddDocument, DetectPlace
  <2>5. CASE UNCHANGED detectVars
    BY <2>5 DEF detectVars, DetectPlace
  <2> QED BY <2>1, <2>2, <2>3, <2>4, <2>5 DEF DetectNext
<1> QED BY <1>1, <1>2, PTL DEF DetectSpec

\* A candidate that is offered as locked has its lockfile by the builder's rules.
LEMMA LockedHasItsLock ==
  ASSUME NEW root, NEW d, NEW c \in candidatesForMarkers(root, d), c.locked
  PROVE  /\ c.root = root
         /\ \/ c.recipe = "node" /\ Cardinality(d.files \intersect LockFiles) = 1
            \/ c.recipe = "python" /\ selectPythonLock(d) # ""
<1> DEFINE plain(m, q) == newDetectedCandidate(root, m, q)
<1>1. \A m, q : ~plain(m, q).locked /\ plain(m, q).root = root
  BY DEF newDetectedCandidate
<1>2. \A q : ~[plain("recipe", q) EXCEPT !.recipe = "go"].locked
  BY DEF newDetectedCandidate
<1>3. ~[plain("static", "medium") EXCEPT !.output = root].locked
  BY DEF newDetectedCandidate
<1>4. CASE c = packageCandidate(root, d)
  <2>1. d.manifest.parses
    BY <1>1, <1>4 DEF packageCandidate
  <2>2. c.locked = (Cardinality(d.files \intersect LockFiles) = 1) /\ c.recipe = "node" /\ c.root = root
    BY <1>4, <2>1 DEF packageCandidate, newDetectedCandidate
  <2> QED BY <2>2
<1>5. CASE /\ c = [plain("recipe", "medium") EXCEPT !.recipe = "python", !.locked = TRUE]
           /\ detectedPythonLock(d) # ""
  BY <1>5 DEF newDetectedCandidate, detectedPythonLock, selectPythonLock
<1>6. \/ c = packageCandidate(root, d)
      \/ /\ c = [plain("recipe", "medium") EXCEPT !.recipe = "python", !.locked = TRUE]
         /\ detectedPythonLock(d) # ""
      \/ c \in {plain("dockerfile", "high"), plain("compose", "high")}
      \/ c = [plain("recipe", "high") EXCEPT !.recipe = "go"]
      \/ c = [plain("static", "medium") EXCEPT !.output = root]
  BY Zenon DEF candidatesForMarkers
<1>7. c # plain("dockerfile", "high") /\ c # plain("compose", "high")
  BY <1>1, Zenon
<1>8. c # [plain("recipe", "high") EXCEPT !.recipe = "go"]
  BY <1>2, Zenon
<1>9. c # [plain("static", "medium") EXCEPT !.output = root]
  BY <1>3, Zenon
<1> QED BY <1>4, <1>5, <1>6, <1>7, <1>8, <1>9, Zenon

\* The builder's rules give a recipe to what has its lockfile and a start command.
LEMMA LockBuilds ==
  ASSUME NEW d, build.start, build.recipe # "",
         \/ build.recipe = "node" /\ Cardinality(d.files \intersect LockFiles) = 1
         \/ build.recipe = "python" /\ selectPythonLock(d) # ""
  PROVE  selectRecipe(d).ok /\ renderRecipeDockerfile(d)
<1>1. requested(d) = build.recipe
  BY DEF requested
<1>2. CASE build.recipe = "node" /\ Cardinality(d.files \intersect LockFiles) = 1
  BY <1>1, <1>2 DEF selectRecipe, Chosen, renderRecipeDockerfile
<1>3. CASE build.recipe = "python" /\ selectPythonLock(d) # ""
  BY <1>1, <1>3 DEF selectRecipe, Chosen, renderRecipeDockerfile
<1> QED BY <1>2, <1>3

\* A service one document describes is analysed as docker compose merges it.
LEMMA ShownWhole ==
  ASSUME NEW docs \in Seq(DocServices), NEW name \in ServiceNames(docs),
         Cardinality({i \in DOMAIN docs : name \in DOMAIN docs[i]}) = 1,
         NEW a \in analyzeComposeDocuments(docs)
  PROVE  a.services[name] = ComposeMerges(docs, name)
<1> DEFINE holders == {i \in DOMAIN docs : name \in DOMAIN docs[i]}
<1>1. IsFiniteSet(holders)
  <2>1. DOMAIN docs = 1 .. Len(docs) /\ Len(docs) \in Nat
    OBVIOUS
  <2>2. IsFiniteSet(DOMAIN docs)
    BY <2>1, FS_Interval
  <2>3. holders \subseteq DOMAIN docs
    OBVIOUS
  <2> HIDE DEF holders
  <2> QED BY <2>2, <2>3, FS_Subset
<1>2. PICK i : holders = {i}
  BY <1>1, FS_Singleton
<1>3. LastOf(docs, name) = i
  <2>1. \A k : (/\ k \in DOMAIN docs /\ name \in DOMAIN docs[k]
                /\ \A j \in DOMAIN docs : j > k => name \notin DOMAIN docs[j])  <=> k = i
    <3>1. i \in Int /\ i \in DOMAIN docs /\ name \in DOMAIN docs[i]
      BY <1>2
    <3>2. \A j \in DOMAIN docs : name \in DOMAIN docs[j] => j = i
      BY <1>2
    <3> QED BY <3>1, <3>2
  <2> QED BY <2>1 DEF LastOf
<1>4. EntriesOf(docs, name) = {docs[i][name]}
  BY <1>2 DEF EntriesOf
<1> DEFINE e == docs[i][name]
<1>5. ComposeMerges(docs, name) = composeServiceFromNode(e)
  <2>1. UNION {x.ports : x \in {e}} = e.ports /\ UNION {x.mounts : x \in {e}} = e.mounts
    OBVIOUS
  <2>2. (\E x \in {e} : x.image \/ x.build # "none") = (e.image \/ e.build # "none")
    OBVIOUS
  <2>3. (\E x \in {e} : x.advanced \/ "/var/run/docker.sock" \in x.mounts)
           = (e.advanced \/ "/var/run/docker.sock" \in e.mounts)
    OBVIOUS
  <2> QED BY <1>4, <2>1, <2>2, <2>3 DEF ComposeMerges, composeServiceFromNode
<1>6. a.services[name] = composeServiceFromNode(docs[LastOf(docs, name)][name])
  BY DEF analyzeComposeDocuments
<1> QED BY <1>3, <1>5, <1>6

\* What the detector offers as locked the builder does not refuse for want of a lock,
\* and the Compose analysis shows a service of one document whole (detector.go,
\* build_artifacts.go, compose_source.go).
THEOREM DetectionAgreement == DetectSpec => []DetectionAgrees
<1>1. ASSUME DetectPlace PROVE LockedRecipeBuilds
  <2> SUFFICES ASSUME phase = "refused", build.method = "recipe", build.start,
                      NEW c \in detection.candidates, c.root = build.root,
                      c.recipe = build.recipe, c.recipe # "", c.locked
               PROVE  FALSE
    BY DEF LockedRecipeBuilds
  <2>1. PICK root \in DOMAIN tree : c \in candidatesForMarkers(root, tree[root])
    BY <1>1 DEF DetectPlace, CandidatesFound
  <2>2. root = build.root
    <3>1. c.root = root
      BY <2>1, LockedHasItsLock
    <3> QED BY <3>1
  <2>3. RecipeBuilds
    <3>1. \/ build.recipe = "node" /\ Cardinality(tree[root].files \intersect LockFiles) = 1
          \/ build.recipe = "python" /\ selectPythonLock(tree[root]) # ""
      <4>1. \/ c.recipe = "node" /\ Cardinality(tree[root].files \intersect LockFiles) = 1
            \/ c.recipe = "python" /\ selectPythonLock(tree[root]) # ""
        BY <2>1, LockedHasItsLock
      <4> QED BY <4>1, Zenon
    <3>2. build.recipe # ""
      OBVIOUS
    <3> QED BY <2>2, <3>1, <3>2, LockBuilds, Zenon DEF RecipeBuilds
  <2> QED BY <1>1, <2>3 DEF DetectPlace
<1>2. ASSUME DetectPlace PROVE ServiceShownWhole
  BY <1>2, ShownWhole DEF DetectPlace, ServiceShownWhole
<1> QED BY <1>1, <1>2, DetectPlaceHolds, PTL DEF DetectionAgrees

---------------------------------------------------------------------------
(* The legacy pipeline.                                                    *)

LEMMA LegacyStart == LegacyInit => LegacyInv
<1> SUFFICES ASSUME LegacyInit PROVE LegacyInv
  OBVIOUS
<1>1. EmptyEnv \in EnvMaps
  BY DEF EmptyEnv, EnvMaps
<1>2. projectRow.branch \in Branches
  BY LegacyAssumption DEF LegacyInit, LegacyAssumption
<1>3. legacyRuns = <<>> /\ legacyReleases = <<>> /\ livePointer = 0 /\ pipeline = NoPipeline
  BY Zenon DEF LegacyInit
<1>4. /\ legacyRuns \in Seq(LegacyRows)
      /\ legacyReleases \in Seq(LegacyReleases) /\ livePointer \in 0 .. Len(legacyReleases)
  BY <1>3
<1>5. /\ projectRow \in [method : {"legacy_compose", "dockerfile"}, archived : BOOLEAN,
                         enabled : BOOLEAN, branch : Branches, secret : Nat]
      /\ rowEdits \in Nat
      /\ hook \in [at : {"none", "found", "verified"}, enabled : BOOLEAN, secret : Nat]
  BY <1>2 DEF LegacyInit, NoHook
<1>6. /\ {envRows, varRows} \subseteq EnvMaps /\ remote \in [Branches -> Nat]
      /\ checkout \in [head : Nat, env : EnvMaps] /\ upStack \in [commit : Nat, env : EnvMaps]
      /\ pipeline \in [run : Nat, at : {"idle", "reset", "env", "compose", "post"},
                       branch : Branches \union {""}, env : EnvMaps]
  BY <1>1 DEF LegacyInit, NoPipeline
<1>7. LegacyTypeOK
  BY <1>4, <1>5, <1>6 DEF LegacyTypeOK
<1>8. pipeline.at = "idle"
  BY <1>3 DEF NoPipeline
<1>9. PipelinePlace
  BY <1>3, <1>8 DEF PipelinePlace
<1>10. DOMAIN legacyReleases = {}
  BY <1>3
<1> QED BY <1>7, <1>9, <1>10 DEF LegacyInv, OneLiveRelease

\* The row of a request is a row.
LEMMA RowTyped ==
  ASSUME LegacyTypeOK, NEW op \in {"deploy", "rollback"}, NEW target \in Nat,
         NEW trigger \in {"manual", "rollback", "legacy_hook"}
  PROVE  RunRow(op, target, trigger) \in LegacyRows
<1>1. projectRow.method \in {"legacy_compose", "dockerfile"} /\ projectRow.archived \in BOOLEAN
  BY DEF LegacyTypeOK
<1> QED BY <1>1 DEF RunRow, LegacyRows, LegacyStates

\* A new row leaves the others, and the run under way, as they are.
LEMMA EnqueuesKeep ==
  ASSUME LegacyTypeOK, NEW op \in {"deploy", "rollback"}, NEW target \in Nat,
         NEW trigger \in {"manual", "rollback", "legacy_hook"}, Enqueues(op, target, trigger)
  PROVE  /\ legacyRuns' \in Seq(LegacyRows)
         /\ DOMAIN legacyRuns \subseteq DOMAIN legacyRuns'
         /\ \A r \in DOMAIN legacyRuns : legacyRuns'[r] = legacyRuns[r]
<1>1. legacyRuns \in Seq(LegacyRows)
  BY DEF LegacyTypeOK
<1> QED BY <1>1, RowTyped DEF Enqueues

\* A row whose state changes is still a row, and the others are as they were.
LEMMA RowChanged ==
  ASSUME legacyRuns \in Seq(LegacyRows), NEW r \in DOMAIN legacyRuns, NEW row \in LegacyRows,
         legacyRuns' = [legacyRuns EXCEPT ![r] = row]
  PROVE  /\ legacyRuns' \in Seq(LegacyRows) /\ DOMAIN legacyRuns' = DOMAIN legacyRuns
         /\ legacyRuns'[r] = row
         /\ \A q \in DOMAIN legacyRuns \ {r} : legacyRuns'[q] = legacyRuns[q]
OBVIOUS

\* The positions of the runs a migration finds successful are 0 to one less than
\* their number, each taken once.
LEMMA RanksTaken ==
  ASSUME NEW S \in SUBSET Nat, IsFiniteSet(S), NEW i \in 0 .. Cardinality(S) - 1
  PROVE  \E r \in S : Cardinality({q \in S : q < r}) = i
<1> DEFINE below(r) == {q \in S : q < r}
           T == 0 .. Cardinality(S) - 1
           f == [r \in S |-> Cardinality(below(r))]
<1>1. Cardinality(S) \in Nat
  BY FS_CardinalityType
<1>2. ASSUME NEW r \in S PROVE IsFiniteSet(below(r)) /\ f[r] \in T
  <2>1. below(r) \subseteq S /\ r \notin below(r) /\ r \in S
    OBVIOUS
  <2> HIDE DEF below
  <2>2. IsFiniteSet(below(r)) /\ Cardinality(below(r)) <= Cardinality(S)
        /\ Cardinality(below(r)) # Cardinality(S)
    BY <2>1, FS_Subset
  <2>3. Cardinality(below(r)) \in Nat
    BY <2>2, FS_CardinalityType
  <2> QED BY <1>1, <2>2, <2>3
<1>3. ASSUME NEW r \in S, NEW s \in S, r < s PROVE f[r] # f[s]
  <2>1. below(r) \subseteq below(s) /\ r \in below(s) /\ r \notin below(r)
    <3>1. r \in Nat /\ s \in Nat /\ \A q \in S : q \in Nat
      OBVIOUS
    <3>2. \A q \in S : q < r => q < s
      BY <1>3, <3>1
    <3>3. ~(r < r)
      BY <3>1
    <3> QED BY <1>3, <3>2, <3>3, Zenon
  <2>2. IsFiniteSet(below(s))
    BY <1>2
  <2> HIDE DEF below
  <2>3. Cardinality(below(r)) # Cardinality(below(s))
    BY <2>1, <2>2, FS_Subset
  <2> QED BY <2>3
<1>4. f \in Injection(S, T)
  <2>1. \A r, s \in S : f[r] = f[s] => r = s
    BY <1>3
  <2> HIDE DEF T
  <2>2. f \in [S -> T]
    BY <1>2
  <2> HIDE DEF f
  <2> QED BY <2>1, <2>2 DEF Injection, IsInjective
<1>5. IsFiniteSet(T) /\ Cardinality(T) = Cardinality(S)
  <2>1. 0 \in Int /\ Cardinality(S) - 1 \in Int
    BY <1>1
  <2>2. IsFiniteSet(T) /\ Cardinality(T) = IF 0 > Cardinality(S) - 1 THEN 0 ELSE (Cardinality(S) - 1) - 0 + 1
    BY <2>1, FS_Interval
  <2> QED BY <1>1, <2>2
<1> HIDE DEF f, T
<1>6. f \in Surjection(S, T)
  BY <1>4, <1>5, FS_Injection
<1>7. PICK r \in S : f[r] = i
  BY <1>6 DEF Surjection, T
<1> QED BY <1>7 DEF f

\* The migration's releases are retained ones, one for each run that succeeded.
LEMMA MigratedTyped ==
  ASSUME LegacyTypeOK
  PROVE  /\ MigratedReleases \in Seq(LegacyReleases)
         /\ \A i \in DOMAIN MigratedReleases : MigratedReleases[i].state = "retained"
<1> DEFINE passed == {r \in Unmigrated : legacyRuns[r].state = "success"}
           nth(i) == CHOOSE r \in passed : Cardinality({q \in passed : q < r}) = i - 1
           n == Cardinality(passed)
           row(i) == [run |-> nth(i), state |-> "retained", revision |-> legacyRuns[nth(i)].to]
<1>0. legacyRuns \in Seq(LegacyRows)
  BY DEF LegacyTypeOK
<1>1. passed \subseteq DOMAIN legacyRuns /\ DOMAIN legacyRuns = 1 .. Len(legacyRuns)
      /\ Len(legacyRuns) \in Nat
  BY <1>0 DEF Unmigrated
<1>2. IsFiniteSet(passed) /\ passed \subseteq Nat
  <2> HIDE DEF passed
  <2>1. IsFiniteSet(1 .. Len(legacyRuns))
    BY <1>1, FS_Interval
  <2> QED BY <1>1, <2>1, FS_Subset
<1>3. n \in Nat
  BY <1>2, FS_CardinalityType
<1>4. MigratedReleases = [i \in 1 .. n |-> row(i)]
  BY DEF MigratedReleases
<1>5. ASSUME NEW i \in 1 .. n PROVE nth(i) \in passed
  <2> HIDE DEF passed
  <2>1. i - 1 \in 0 .. Cardinality(passed) - 1
    BY <1>3
  <2>2. \E r \in passed : Cardinality({q \in passed : q < r}) = i - 1
    BY <1>2, <2>1, RanksTaken
  <2> QED BY <2>2
<1>6. ASSUME NEW i \in 1 .. n PROVE row(i) \in LegacyReleases
  <2> HIDE DEF nth, passed
  <2>1. nth(i) \in DOMAIN legacyRuns /\ nth(i) \in Nat
    BY <1>1, <1>2, <1>5
  <2>2. legacyRuns[nth(i)].to \in Nat
    <3>1. legacyRuns[nth(i)] \in LegacyRows
      BY <1>0, <2>1
    <3> QED BY <3>1 DEF LegacyRows
  <2> QED BY <2>1, <2>2 DEF LegacyReleases
<1>7. \A i \in 1 .. n : row(i).state = "retained"
  OBVIOUS
<1> HIDE DEF row, n
<1> QED BY <1>3, <1>4, <1>6, <1>7

\* The edits and the requests move neither the checkout nor the containers.
LEMMA RequestsKeep ==
  ASSUME LegacyInv, UNCHANGED <<checkout, upStack, legacyReleases, livePointer, pipeline>>,
         legacyRuns \in Seq(LegacyRows),
         legacyRuns' \in Seq(LegacyRows), DOMAIN legacyRuns \subseteq DOMAIN legacyRuns',
         \A r \in DOMAIN legacyRuns : legacyRuns'[r] = legacyRuns[r]
  PROVE  PipelinePlace' /\ OneLiveRelease'
<1>1. PipelinePlace'
  BY DEF LegacyInv, PipelinePlace
<1> QED BY <1>1 DEF LegacyInv, OneLiveRelease

\* What a step may do to a run that executes: it goes on, it fails or is cancelled, or
\* it passes with what it reports up.
PassesUp ==
  \A r \in DOMAIN legacyRuns :
    (legacyRuns[r].state = "running" /\ legacyRuns'[r].state = "succeeded")
      => /\ upStack'.commit = legacyRuns'[r].to
         /\ legacyRuns[r].target # 0 => legacyRuns'[r].to = legacyRuns[r].target

LEMMA RowsUnmoved ==
  ASSUME \A r \in DOMAIN legacyRuns : legacyRuns'[r] = legacyRuns[r] PROVE PassesUp
BY DEF PassesUp

\* Edits of the project and its variables, pushes and the hook's first two steps.
LEMMA EditsKeep ==
  ASSUME LegacyInv,
         \/ \E b \in Branches : (\E e \in BOOLEAN : handleDeployUpdate(b, e)) \/ Push(b)
         \/ Archive \/ RotateSecret \/ ConfigurationSaved
         \/ \E k \in EnvKeys : DeleteEnv(k) \/ \E v \in EnvValues : SetEnv(k, v)
         \/ \E s \in 1 .. projectRow.secret : ByHookID(s)
         \/ VerifySignature
  PROVE  LegacyInv' /\ PassesUp
<1> USE DEF LegacyInv
<1>1. UNCHANGED <<checkout, upStack, legacyReleases, livePointer, pipeline, legacyRuns>>
  BY DEF handleDeployUpdate, Push, Archive, RotateSecret, ConfigurationSaved, DeleteEnv, SetEnv,
         ByHookID, VerifySignature
<1>2. legacyRuns \in Seq(LegacyRows)
  BY DEF LegacyTypeOK
<1>3. PassesUp /\ PipelinePlace' /\ OneLiveRelease'
  BY <1>1, <1>2, RequestsKeep, RowsUnmoved
<1> DEFINE Row == [method : {"legacy_compose", "dockerfile"}, archived : BOOLEAN,
                   enabled : BOOLEAN, branch : Branches, secret : Nat]
           Hook == [at : {"none", "found", "verified"}, enabled : BOOLEAN, secret : Nat]
           Typed == /\ projectRow \in Row /\ {envRows, varRows} \subseteq EnvMaps
                    /\ rowEdits \in Nat /\ remote \in [Branches -> Nat] /\ hook \in Hook
<1>4. Typed
  BY DEF LegacyTypeOK
<1>5. Typed'
  <2>1. CASE \E b \in Branches, e \in BOOLEAN : handleDeployUpdate(b, e)
    <3>1. PICK b \in Branches, e \in BOOLEAN : handleDeployUpdate(b, e)
      BY <2>1
    <3>2. [projectRow EXCEPT !.branch = b, !.enabled = e] \in Row
      BY <1>4
    <3> HIDE DEF Row, Hook
    <3>3. projectRow' \in Row
      BY <3>1, <3>2, Zenon DEF handleDeployUpdate
    <3>4. UNCHANGED <<envRows, varRows, remote, hook>> /\ rowEdits' = rowEdits + 1
      BY <3>1, Zenon DEF handleDeployUpdate, Edits
    <3> QED BY <1>4, <3>3, <3>4
  <2>2. CASE \E b \in Branches : Push(b)
    BY <1>4, <2>2 DEF Push
  <2>3. CASE Archive
    <3>1. [projectRow EXCEPT !.archived = TRUE, !.enabled = FALSE] \in Row
      BY <1>4
    <3> HIDE DEF Row, Hook
    <3> QED BY <1>4, <2>3, <3>1 DEF Archive, Edits
  <2>4. CASE RotateSecret
    BY <1>4, <2>4 DEF RotateSecret, Edits
  <2>5. CASE ConfigurationSaved
    BY <1>4, <2>5 DEF ConfigurationSaved, Edits
  <2>6. CASE \E k \in EnvKeys : DeleteEnv(k)
    BY <1>4, <2>6 DEF DeleteEnv, Edits, EnvMaps
  <2>7. CASE \E k \in EnvKeys, v \in EnvValues : SetEnv(k, v)
    BY <1>4, <2>7 DEF SetEnv, Edits, EnvMaps
  <2>8. CASE \E s \in 1 .. projectRow.secret : ByHookID(s)
    BY <1>4, <2>8 DEF ByHookID
  <2>9. CASE VerifySignature
    BY <1>4, <2>9 DEF VerifySignature, NoHook
  <2> QED BY <2>1, <2>2, <2>3, <2>4, <2>5, <2>6, <2>7, <2>8, <2>9
<1> QED BY <1>1, <1>3, <1>5 DEF LegacyTypeOK

\* A request enqueues one run.
LEMMA EnqueuesStep ==
  ASSUME LegacyInv,
         \/ handleDeployRun \/ \E c \in 1 .. checkout.head : handleDeployRollback(c)
         \/ handleDeployWebhook
  PROVE  LegacyInv' /\ PassesUp
<1> USE DEF LegacyInv
<1>1. checkout.head \in Nat /\ legacyRuns \in Seq(LegacyRows)
  BY DEF LegacyTypeOK
<1>2. PICK op \in {"deploy", "rollback"}, target \in Nat,
           trigger \in {"manual", "rollback", "legacy_hook"} : Enqueues(op, target, trigger)
  <2>1. CASE handleDeployRun
    <3>1. Enqueues("deploy", 0, "manual")
      BY <2>1 DEF handleDeployRun
    <3> QED BY <3>1, Zenon
  <2>2. CASE \E c \in 1 .. checkout.head : handleDeployRollback(c)
    <3>1. PICK c \in 1 .. checkout.head : handleDeployRollback(c)
      BY <2>2
    <3>2. Enqueues("rollback", c, "rollback") /\ c \in Nat
      BY <1>1, <3>1 DEF handleDeployRollback
    <3> QED BY <3>2, Zenon
  <2>3. CASE handleDeployWebhook
    <3>1. Enqueues("deploy", 0, "legacy_hook")
      BY <2>3 DEF handleDeployWebhook
    <3> QED BY <3>1, Zenon
  <2> QED BY <2>1, <2>2, <2>3
<1>3. /\ UNCHANGED <<projectRow, envRows, varRows, rowEdits, remote, checkout, upStack,
                     legacyReleases, livePointer, pipeline>>
      /\ hook' \in {hook, NoHook}
  BY DEF handleDeployRun, handleDeployRollback, handleDeployWebhook
<1>4. /\ legacyRuns' \in Seq(LegacyRows) /\ DOMAIN legacyRuns \subseteq DOMAIN legacyRuns'
      /\ \A r \in DOMAIN legacyRuns : legacyRuns'[r] = legacyRuns[r]
  BY <1>2, EnqueuesKeep
<1>5. PassesUp /\ PipelinePlace' /\ OneLiveRelease'
  BY <1>1, <1>3, <1>4, RequestsKeep, RowsUnmoved
<1>6. hook' \in [at : {"none", "found", "verified"}, enabled : BOOLEAN, secret : Nat]
  <2>1. hook \in [at : {"none", "found", "verified"}, enabled : BOOLEAN, secret : Nat]
    BY DEF LegacyTypeOK
  <2>2. NoHook \in [at : {"none", "found", "verified"}, enabled : BOOLEAN, secret : Nat]
    BY DEF NoHook
  <2> QED BY <1>3, <2>1, <2>2, Zenon
<1>7. LegacyTypeOK'
  BY <1>3, <1>4, <1>6, Zenon DEF LegacyTypeOK
<1> QED BY <1>5, <1>7

\* The rows, the place and the live release of a step of the pipeline: only its own run
\* changes, and the place it reaches is the one its predecessor left.
LEMMA ExecuteStep ==
  ASSUME LegacyInv, NEW r \in DOMAIN legacyRuns, Execute(r) PROVE LegacyInv' /\ PassesUp
<1> USE DEF LegacyInv
<1> DEFINE row == [legacyRuns[r] EXCEPT !.state = "running", !.from = checkout.head]
<1>0. legacyRuns \in Seq(LegacyRows) /\ checkout.head \in Nat /\ projectRow.branch \in Branches
  BY DEF LegacyTypeOK
<1>1. legacyRuns[r] \in LegacyRows /\ r \in Nat
  BY <1>0
<1>2. row \in LegacyRows /\ row.state = "running"
  BY <1>0, <1>1 DEF LegacyRows, LegacyStates
<1>3. legacyRuns' = [legacyRuns EXCEPT ![r] = row]
  BY <1>0 DEF Execute
<1> HIDE DEF row
<1>4. /\ legacyRuns' \in Seq(LegacyRows) /\ DOMAIN legacyRuns' = DOMAIN legacyRuns
      /\ legacyRuns'[r] = row /\ \A q \in DOMAIN legacyRuns \ {r} : legacyRuns'[q] = legacyRuns[q]
  BY <1>0, <1>2, <1>3, RowChanged
<1>5. pipeline' = [run |-> r, at |-> "reset", branch |-> projectRow.branch, env |-> EmptyEnv]
  BY DEF Execute
<1>6. UNCHANGED <<projectRow, envRows, varRows, rowEdits, remote, checkout, upStack,
                  legacyReleases, livePointer, hook>>
  BY DEF Execute
<1>7. PassesUp
  BY <1>2, <1>4 DEF PassesUp
<1>8. PipelinePlace'
  BY <1>0, <1>2, <1>4, <1>5 DEF PipelinePlace
<1>9. OneLiveRelease'
  BY <1>6 DEF OneLiveRelease
<1>10. EmptyEnv \in EnvMaps
  BY DEF EmptyEnv, EnvMaps
<1>11. pipeline' \in [run : Nat, at : {"idle", "reset", "env", "compose", "post"},
                      branch : Branches \union {""}, env : EnvMaps]
  BY <1>0, <1>1, <1>5, <1>10
<1>12. LegacyTypeOK'
  BY <1>4, <1>6, <1>11 DEF LegacyTypeOK
<1> QED BY <1>7, <1>8, <1>9, <1>12

LEMMA PipelineSteps ==
  ASSUME LegacyInv, FetchAndReset \/ WriteEnv \/ ComposeUp PROVE LegacyInv' /\ PassesUp
<1> USE DEF LegacyInv
<1> DEFINE Place == [run : Nat, at : {"idle", "reset", "env", "compose", "post"},
                     branch : Branches \union {""}, env : EnvMaps]
           Tree == [head : Nat, env : EnvMaps]
           Up == [commit : Nat, env : EnvMaps]
<1>1. UNCHANGED <<projectRow, envRows, varRows, rowEdits, remote, legacyRuns,
                  legacyReleases, livePointer, hook>>
  BY DEF FetchAndReset, WriteEnv, ComposeUp
<1>2. PassesUp /\ OneLiveRelease'
  BY <1>1 DEF PassesUp, OneLiveRelease
<1>3. /\ pipeline \in Place /\ checkout \in Tree /\ upStack \in Up /\ envRows \in EnvMaps
      /\ remote \in [Branches -> Nat] /\ legacyRuns \in Seq(LegacyRows)
  BY DEF LegacyTypeOK
<1>4. /\ pipeline.at # "idle" /\ pipeline.branch \in Branches
      /\ pipeline.run \in DOMAIN legacyRuns /\ legacyRuns[pipeline.run].state = "running"
  BY DEF PipelinePlace, FetchAndReset, WriteEnv, ComposeUp
<1>5. legacyRuns[pipeline.run].target \in Nat
  <2>1. legacyRuns[pipeline.run] \in LegacyRows
    <3>1. legacyRuns \in Seq(LegacyRows) /\ pipeline.run \in DOMAIN legacyRuns
      BY <1>3, <1>4, Zenon
    <3> QED BY <3>1
  <2> QED BY <2>1 DEF LegacyRows
<1>6. (pipeline' \in Place /\ checkout' \in Tree /\ upStack' \in Up) /\ PipelinePlace'
  <2>1. CASE FetchAndReset
    <3>1. ResetRef \in Nat /\ legacyRuns[pipeline.run].target \in {0, ResetRef}
      BY <1>3, <1>4, <1>5 DEF ResetRef
    <3>2. /\ checkout' = [checkout EXCEPT !.head = ResetRef] /\ upStack' = upStack
          /\ pipeline' = [pipeline EXCEPT !.at = "env"]
      BY <2>1 DEF FetchAndReset
    <3>3. checkout' \in Tree /\ checkout'.head = ResetRef
      BY <1>3, <3>1, <3>2
    <3>4. pipeline' \in Place /\ pipeline'.at = "env" /\ pipeline'.run = pipeline.run
          /\ pipeline'.branch = pipeline.branch
      BY <1>3, <3>2
    <3> HIDE DEF Place, Tree
    <3> QED BY <1>1, <1>3, <1>4, <3>1, <3>2, <3>3, <3>4 DEF PipelinePlace
  <2>2. CASE WriteEnv
    <3>1. /\ checkout' = [checkout EXCEPT !.env = IF envRows = EmptyEnv THEN checkout.env ELSE envRows]
          /\ pipeline' = [pipeline EXCEPT !.at = "compose", !.env = envRows]
          /\ upStack' = upStack /\ pipeline.at = "env"
      BY <2>2 DEF WriteEnv
    <3>2. checkout' \in Tree /\ checkout'.head = checkout.head
      BY <1>3, <3>1
    <3>3. pipeline' \in Place /\ pipeline'.at = "compose" /\ pipeline'.run = pipeline.run
          /\ pipeline'.branch = pipeline.branch
      BY <1>3, <3>1
    <3> HIDE DEF Place, Tree
    <3> QED BY <1>1, <1>3, <1>4, <3>1, <3>2, <3>3 DEF PipelinePlace
  <2>3. CASE ComposeUp
    <3> DEFINE env == [k \in EnvKeys |-> IF pipeline.env[k] # NoValue THEN pipeline.env[k]
                                         ELSE checkout.env[k]]
    <3>1. env \in EnvMaps
      BY <1>3 DEF EnvMaps
    <3>2. /\ upStack' = [commit |-> checkout.head, env |-> env] /\ checkout' = checkout
          /\ pipeline' = [pipeline EXCEPT !.at = "post"] /\ pipeline.at = "compose"
      BY <2>3 DEF ComposeUp
    <3> HIDE DEF env
    <3>3. upStack' \in Up /\ upStack'.commit = checkout.head
      BY <1>3, <3>1, <3>2
    <3>4. pipeline' \in Place /\ pipeline'.at = "post" /\ pipeline'.run = pipeline.run
          /\ pipeline'.branch = pipeline.branch
      BY <1>3, <3>2
    <3> HIDE DEF Place, Up
    <3> QED BY <1>1, <1>3, <1>4, <3>2, <3>3, <3>4 DEF PipelinePlace
  <2> QED BY <2>1, <2>2, <2>3
<1>7. LegacyTypeOK'
  BY <1>1, <1>6 DEF LegacyTypeOK
<1> QED BY <1>2, <1>6, <1>7

\* The end of a run: what it reports is what is checked out, and that is up when it passes.
LEMMA EndStep ==
  ASSUME LegacyInv, PipelinePasses \/ PipelineFails \/ PipelineCancelled
  PROVE  LegacyInv' /\ PassesUp
<1> USE DEF LegacyInv
<1>1. PICK state \in {"succeeded", "failed", "cancelled"} :
        EndsRun(state) /\ (state = "succeeded" => pipeline.at = "post") /\ pipeline.at # "idle"
  <2>1. CASE PipelinePasses
    BY <2>1 DEF PipelinePasses
  <2>2. CASE PipelineFails
    BY <2>2 DEF PipelineFails, PipelinePlace
  <2>3. CASE PipelineCancelled
    BY <2>3 DEF PipelineCancelled
  <2> QED BY <2>1, <2>2, <2>3
<1> DEFINE r == pipeline.run
           row == [legacyRuns[r] EXCEPT !.state = state,
                                        !.to = IF pipeline.at = "reset" THEN 0 ELSE checkout.head]
<1>2. legacyRuns \in Seq(LegacyRows) /\ checkout.head \in Nat
  BY DEF LegacyTypeOK
<1>3. /\ r \in DOMAIN legacyRuns /\ (pipeline.at # "reset" => legacyRuns[r].target \in {0, checkout.head})
      /\ pipeline.at = "post" => upStack.commit = checkout.head
  BY <1>1 DEF PipelinePlace
<1>4. legacyRuns[r] \in LegacyRows
  BY <1>2, <1>3
<1>5. row \in LegacyRows /\ row.state = state /\ (pipeline.at = "post" => row.to = checkout.head)
  BY <1>2, <1>4 DEF LegacyRows, LegacyStates
<1>6. legacyRuns' = [legacyRuns EXCEPT ![r] = row]
  BY <1>1, <1>2, <1>3 DEF EndsRun
<1> HIDE DEF row
<1>7. /\ legacyRuns' \in Seq(LegacyRows) /\ DOMAIN legacyRuns' = DOMAIN legacyRuns
      /\ legacyRuns'[r] = row /\ \A q \in DOMAIN legacyRuns \ {r} : legacyRuns'[q] = legacyRuns[q]
  BY <1>2, <1>3, <1>5, <1>6, RowChanged
<1>8. /\ UNCHANGED <<projectRow, envRows, varRows, rowEdits, remote, checkout, upStack,
                     legacyReleases, livePointer, hook>>
      /\ pipeline' = NoPipeline
  BY <1>1 DEF EndsRun
<1>9. PassesUp
  <2> SUFFICES ASSUME NEW q \in DOMAIN legacyRuns, legacyRuns[q].state = "running",
                      legacyRuns'[q].state = "succeeded"
               PROVE  /\ upStack'.commit = legacyRuns'[q].to
                      /\ legacyRuns[q].target # 0 => legacyRuns'[q].to = legacyRuns[q].target
    BY DEF PassesUp
  <2>1. q = r
    BY <1>7
  <2>2. pipeline.at = "post"
    BY <1>1, <1>5, <1>7, <2>1
  <2> QED BY <1>3, <1>5, <1>7, <1>8, <2>1, <2>2
<1>10. PipelinePlace' /\ OneLiveRelease'
  <2>1. pipeline'.at = "idle"
    BY <1>8 DEF NoPipeline
  <2> QED BY <1>8, <2>1 DEF PipelinePlace, OneLiveRelease, NoPipeline
<1>11. NoPipeline \in [run : Nat, at : {"idle", "reset", "env", "compose", "post"},
                       branch : Branches \union {""}, env : EnvMaps]
  <2>1. EmptyEnv \in EnvMaps
    BY DEF EmptyEnv, EnvMaps
  <2> QED BY <2>1 DEF NoPipeline
<1>12. LegacyTypeOK'
  BY <1>7, <1>8, <1>11 DEF LegacyTypeOK
<1> QED BY <1>9, <1>10, <1>12

\* The engine's start ends a run no one leads, and the older version writes its rows, only
\* while no pipeline runs.
LEMMA OtherVersionStep ==
  ASSUME LegacyInv,
         \/ \E r \in DOMAIN legacyRuns : EngineSettlesOrphan(r)
         \/ \E s \in OldStates : OlderVersionRuns(s)
  PROVE  LegacyInv' /\ PassesUp
<1> USE DEF LegacyInv
<1>1. legacyRuns \in Seq(LegacyRows) /\ remote[projectRow.branch] \in Nat
      /\ checkout \in [head : Nat, env : EnvMaps]
  BY DEF LegacyTypeOK
<1>2. /\ UNCHANGED <<projectRow, envRows, varRows, rowEdits, remote, upStack,
                     legacyReleases, livePointer, pipeline, hook>>
      /\ pipeline = NoPipeline
  BY DEF EngineSettlesOrphan, OlderVersionRuns
<1> DEFINE Rewritten == /\ legacyRuns' \in Seq(LegacyRows)
                        /\ checkout' \in [head : Nat, env : EnvMaps]
                        /\ \A q \in DOMAIN legacyRuns : \/ legacyRuns'[q] = legacyRuns[q]
                                                        \/ legacyRuns'[q].state = "failed"
<1>3. Rewritten
  <2>1. ASSUME NEW r \in DOMAIN legacyRuns, EngineSettlesOrphan(r) PROVE Rewritten
    <3> DEFINE row == [legacyRuns[r] EXCEPT !.state = "failed"]
    <3>1. legacyRuns[r] \in LegacyRows
      BY <1>1
    <3>2. row \in LegacyRows /\ row.state = "failed"
      BY <3>1 DEF LegacyRows, LegacyStates
    <3>3. legacyRuns' = [legacyRuns EXCEPT ![r] = row] /\ checkout' = checkout
      BY <1>1, <2>1 DEF EngineSettlesOrphan
    <3> HIDE DEF row
    <3>4. /\ legacyRuns' \in Seq(LegacyRows) /\ legacyRuns'[r] = row
          /\ \A q \in DOMAIN legacyRuns \ {r} : legacyRuns'[q] = legacyRuns[q]
      BY <1>1, <3>2, <3>3, RowChanged
    <3> QED BY <1>1, <3>2, <3>3, <3>4
  <2>2. ASSUME NEW s \in OldStates, OlderVersionRuns(s) PROVE Rewritten
    <3> DEFINE old == RunRow("deploy", 0, "manual")
               row == [old EXCEPT !.state = s, !.to = remote[projectRow.branch]]
    <3>1. old \in LegacyRows
      BY RowTyped
    <3>2. row \in LegacyRows
      <4> HIDE DEF old
      <4> QED BY <1>1, <3>1 DEF LegacyRows, LegacyStates
    <3>3. legacyRuns' = Append(legacyRuns, row)
      BY <2>2 DEF OlderVersionRuns
    <3> HIDE DEF row
    <3>4. legacyRuns' \in Seq(LegacyRows) /\ \A q \in DOMAIN legacyRuns : legacyRuns'[q] = legacyRuns[q]
      BY <1>1, <3>2, <3>3
    <3>5. checkout' \in [head : Nat, env : EnvMaps]
      BY <1>1, <2>2 DEF OlderVersionRuns
    <3> QED BY <3>4, <3>5
  <2> QED BY <2>1, <2>2
<1>4. PassesUp
  BY <1>3 DEF PassesUp
<1>5. PipelinePlace' /\ OneLiveRelease'
  <2>1. pipeline'.at = "idle"
    BY <1>2 DEF NoPipeline
  <2> QED BY <1>2, <2>1 DEF PipelinePlace, OneLiveRelease, NoPipeline
<1>6. LegacyTypeOK'
  BY <1>2, <1>3 DEF LegacyTypeOK
<1> QED BY <1>4, <1>5, <1>6

\* The migration: a release becomes live only where none was, and it is the last.
LEMMA MigrationStep ==
  ASSUME LegacyInv, migrateLegacyDeployments PROVE LegacyInv' /\ PassesUp
<1> USE DEF LegacyInv
<1> DEFINE new == MigratedReleases
           all == legacyReleases \o new
<1>1. /\ UNCHANGED <<projectRow, envRows, rowEdits, remote, checkout, upStack, pipeline, hook>>
      /\ pipeline = NoPipeline /\ varRows' = migrateLegacyVariables
      /\ legacyRuns' = [r \in DOMAIN legacyRuns |->
           IF r \in Unmigrated THEN [legacyRuns[r] EXCEPT !.state = legacyRunStates(@)]
           ELSE legacyRuns[r]]
      /\ IF BecomesLive
         THEN /\ legacyReleases' = [all EXCEPT ![Len(all)].state = "live"]
              /\ livePointer' = Len(all)
         ELSE legacyReleases' = all /\ UNCHANGED livePointer
  BY DEF migrateLegacyDeployments
<1>2. legacyRuns \in Seq(LegacyRows) /\ legacyReleases \in Seq(LegacyReleases)
      /\ livePointer \in 0 .. Len(legacyReleases)
  BY DEF LegacyTypeOK
<1>3. new \in Seq(LegacyReleases) /\ \A i \in DOMAIN new : new[i].state = "retained"
  BY MigratedTyped
<1> HIDE DEF new
<1>4. /\ all \in Seq(LegacyReleases) /\ Len(all) = Len(legacyReleases) + Len(new)
      /\ \A i \in DOMAIN legacyReleases : all[i] = legacyReleases[i] /\ i \in DOMAIN all
      /\ \A i \in DOMAIN all : i \notin DOMAIN legacyReleases => all[i].state = "retained"
  BY <1>2, <1>3
<1> HIDE DEF all
<1>5. /\ legacyReleases' \in Seq(LegacyReleases) /\ livePointer' \in 0 .. Len(legacyReleases')
      /\ OneLiveRelease'
  <2>1. CASE BecomesLive
    <3> DEFINE k == Len(all)
               row == [all[k] EXCEPT !.state = "live"]
    <3>1. livePointer = 0 /\ new # <<>>
      BY <2>1 DEF BecomesLive, new
    <3>2. k \in DOMAIN all /\ k \in Nat \ {0}
      BY <1>2, <1>3, <1>4, <3>1
    <3>3. all[k] \in LegacyReleases
      BY <1>4, <3>2
    <3>4. row \in LegacyReleases /\ row.state = "live"
      BY <3>3 DEF LegacyReleases
    <3>5. legacyReleases' = [all EXCEPT ![k] = row] /\ livePointer' = k
      BY <1>1, <2>1
    <3> HIDE DEF row, k
    <3>6. /\ legacyReleases' \in Seq(LegacyReleases) /\ Len(legacyReleases') = Len(all)
          /\ DOMAIN legacyReleases' = DOMAIN all /\ legacyReleases'[k] = row
          /\ \A i \in DOMAIN all \ {k} : legacyReleases'[i] = all[i]
      BY <1>4, <3>2, <3>4, <3>5
    <3>7. \A i \in DOMAIN all : all[i].state # "live"
      BY <1>2, <1>4, <3>1 DEF OneLiveRelease
    <3> QED BY <1>4, <3>2, <3>4, <3>5, <3>6, <3>7 DEF OneLiveRelease, k
  <2>2. CASE ~BecomesLive
    <3>1. legacyReleases' = all /\ livePointer' = livePointer
      BY <1>1, <2>2
    <3>2. \A i \in DOMAIN all : i \notin DOMAIN legacyReleases => i # livePointer
      BY <1>2, <1>4
    <3>3. Len(new) \in Nat /\ Len(legacyReleases) \in Nat
      BY <1>2, <1>3
    <3>4. livePointer' \in 0 .. Len(all)
      BY <1>2, <1>4, <3>1, <3>3
    <3>5. \A i \in DOMAIN all : all[i].state = "live" <=> i = livePointer
      BY <1>4, <3>2 DEF OneLiveRelease
    <3> QED BY <1>4, <3>1, <3>4, <3>5 DEF OneLiveRelease
  <2> QED BY <2>1, <2>2
<1>6. legacyRuns' \in Seq(LegacyRows)
  <2>1. ASSUME NEW r \in DOMAIN legacyRuns PROVE legacyRuns'[r] \in LegacyRows
    <3>1. legacyRuns[r] \in LegacyRows
      BY <1>2
    <3>2. legacyRunStates(legacyRuns[r].state) \in LegacyStates
      BY DEF legacyRunStates, LegacyStates
    <3>3. [legacyRuns[r] EXCEPT !.state = legacyRunStates(legacyRuns[r].state)] \in LegacyRows
      <4> HIDE DEF LegacyStates
      <4> QED BY <3>1, <3>2 DEF LegacyRows
    <3> QED BY <1>1, <3>1, <3>3
  <2>2. DOMAIN legacyRuns' = DOMAIN legacyRuns
    BY <1>1
  <2>3. DOMAIN legacyRuns = 1 .. Len(legacyRuns) /\ Len(legacyRuns) \in Nat
    BY <1>2
  <2>4. legacyRuns' \in [1 .. Len(legacyRuns) -> LegacyRows]
    BY <1>1, <2>1, <2>2, <2>3
  <2> QED BY <2>3, <2>4
<1>7. PassesUp
  BY <1>1 DEF PassesUp, Unmigrated, OldStates
<1>8. PipelinePlace'
  <2>1. pipeline'.at = "idle"
    BY <1>1 DEF NoPipeline
  <2> QED BY <1>1, <2>1 DEF PipelinePlace, NoPipeline
<1>9. varRows' \in EnvMaps
  BY <1>1 DEF migrateLegacyVariables, LegacyTypeOK, EnvMaps
<1>10. LegacyTypeOK'
  BY <1>1, <1>5, <1>6, <1>9 DEF LegacyTypeOK
<1> QED BY <1>5, <1>7, <1>8, <1>10

LEMMA LegacyStep ==
  ASSUME LegacyInv, [LegacyNext]_legacyVars
  PROVE  LegacyInv' /\ (PassesUp \/ UNCHANGED legacyVars)
<1>1. CASE LegacyNext
  BY <1>1, EditsKeep, EnqueuesStep, ExecuteStep, PipelineSteps, EndStep, OtherVersionStep,
     MigrationStep, Zenon DEF LegacyNext
<1>2. CASE UNCHANGED legacyVars
  BY <1>2 DEF legacyVars, LegacyInv, LegacyTypeOK, PipelinePlace, OneLiveRelease
<1> QED BY <1>1, <1>2

\* What the legacy pipeline reports as passed is up, and what was asked for; one release
\* is live, however often the migration runs (legacy_engine.go, deploy_migration.go).
THEOREM LegacyKeepsWord == LegacySpec => LegacyKept
<1>1. LegacyInv /\ [LegacyNext]_legacyVars => LegacyInv'
  BY LegacyStep
<1>2. LegacySpec => []LegacyInv
  BY <1>1, LegacyStart, PTL DEF LegacySpec
<1>3. LegacyInv /\ [LegacyNext]_legacyVars => [PassesUp]_legacyVars
  BY LegacyStep
<1>4. LegacySpec => [][PassesUp]_legacyVars
  BY <1>2, <1>3, PTL DEF LegacySpec
<1> QED BY <1>2, <1>4, PTL DEF LegacyKept, PassedRunIsUp, PassesUp
=============================================================================
