----------------------------- MODULE MCStreams -----------------------------
(* Small instances of what a browser watches: a run's events (EventStream),  *)
(* a background job's output (Jobs), the Docker feed (DockerEvents) and logs *)
(* (Logs), live or searched. They share no state, so a behaviour is one of   *)
(* them.                                                                     *)
EXTENDS EventStream, Jobs, DockerEvents, Logs

CONSTANTS c1, w1, v1

VARIABLE part

(* Logs: a line the query keeps, one of no known level, and a debug line in  *)
(* the journal; three records in a file that is rotated, two elsewhere;      *)
(* queries with context, from either end, within a window, and by level.     *)
MCRecord(h, w, p, d) == [hit |-> h, word |-> w, prio |-> p, dated |-> d]
DebugRecord == MCRecord(TRUE, "", 7, TRUE)
MCRecordKinds == {MCRecord(TRUE, "error", 3, TRUE), MCRecord(FALSE, "", 6, FALSE), DebugRecord}
MCFilter(t, l) == [text |-> t, levels |-> l]
MCLogFilters == {MCFilter(FALSE, {}), MCFilter(TRUE, {}), MCFilter(FALSE, {"error", "debug"}),
                 MCFilter(FALSE, {"error", "other"})}
MCQuery(f, lead, trail, limit, head, since, until) ==
  [f |-> f, before |-> lead, after |-> trail, limit |-> limit, head |-> head,
   archives |-> ~head, since |-> since, until |-> until]
MCLogQueries ==
  {MCQuery(MCFilter(TRUE, {}), 1, 1, 2, FALSE, 0, 0),
   MCQuery(MCFilter(FALSE, {"error", "other"}), 0, 1, 1, TRUE, 0, 2),
   MCQuery(MCFilter(TRUE, {}), 1, 0, 9, FALSE, 2, 0)}
MCWidths == <<1, 2>>

LogStep ==
  /\ HostNext \/ (part = "tail" /\ TailNext) \/ (part = "search" /\ SearchNext)
  /\ Total' <= IF source = "file" THEN 3 ELSE 2
  /\ \A s \in Streams :
       /\ Len(cuts'[s]) <= CASE source = "pm2" -> 1 [] part = "search" -> 3 [] OTHER -> 2
       /\ source # "journal" => DebugRecord \notin {written'[s][i] : i \in DOMAIN written'[s]}

-----------------------------------------------------------------------------
MCVars == <<part, streamVars, jobVars, eventVars, logVars>>

MCInit ==
  /\ part \in {"run", "job", "docker", "tail", "search"}
  /\ StreamInit /\ JobsInit /\ EventsInit /\ LogsInit
  /\ part \notin {"tail", "search"} => source = "file"

MCNext ==
  /\ UNCHANGED part
  /\ \/ part = "run" /\ StreamNext /\ UNCHANGED <<jobVars, eventVars, logVars>>
     \/ part = "job" /\ JobsNext /\ UNCHANGED <<streamVars, eventVars, logVars>>
     \/ part = "docker" /\ EventsNext /\ UNCHANGED <<streamVars, jobVars, logVars>>
     \/ part \in {"tail", "search"} /\ LogStep /\ UNCHANGED <<streamVars, jobVars, eventVars>>

\* The fairness each component states, for the behaviours that are its own.
MCFairness ==
  \/ part = "run" /\ StreamFairness
  \/ part = "job" /\ JobsFairness
  \/ part = "tail" /\ LogsFairness
  \/ part \notin {"run", "job", "tail"}
MCSpec == MCInit /\ [][MCNext]_MCVars
MCFairSpec == MCSpec /\ MCFairness

============================================================================
