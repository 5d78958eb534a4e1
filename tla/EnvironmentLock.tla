-------------------------- MODULE EnvironmentLock --------------------------
(***************************************************************************)
(* What the deployment queue promises its callers, with no clock, token,   *)
(* database row or transition table in it: a run waits, is owned, and is   *)
(* done for ever; an environment has one owned run at a time; a slot class *)
(* has at most its budget of owned runs.  RunQueue is shown to implement   *)
(* this specification.                                                     *)
(***************************************************************************)
EXTENDS Naturals, FiniteSets

CONSTANTS Runs,        \* identities of runs
          Envs,        \* environments
          Classes,     \* slot classes
          Budget       \* Budget[c]: host slots of class c

VARIABLES phase,       \* phase[r]: "absent", "waiting", "owned" or "done"
          place        \* place[r]: environment and class of a submitted run

vars == <<phase, place>>

Places == [env : Envs, class : Classes]

Owned(c) == {r \in Runs : phase[r] = "owned" /\ place[r].class = c}

Init ==
  /\ phase = [r \in Runs |-> "absent"]
  /\ place \in [Runs -> Places]

\* A new run waits; waiting runs of its environment may be done with at once,
\* because the new one stands for them.
Submit(r, p) ==
  /\ phase[r] = "absent"
  /\ place' = [place EXCEPT ![r] = p]
  /\ \E dropped \in SUBSET {s \in Runs : phase[s] = "waiting" /\ place[s].env = p.env} :
       phase' = [s \in Runs |-> IF s = r THEN "waiting"
                                ELSE IF s \in dropped THEN "done"
                                ELSE phase[s]]

Acquire(r) ==
  /\ phase[r] = "waiting"
  /\ \A s \in Runs : phase[s] = "owned" => place[s].env # place[r].env
  /\ Cardinality(Owned(place[r].class)) < Budget[place[r].class]
  /\ phase' = [phase EXCEPT ![r] = "owned"]
  /\ UNCHANGED place

\* A waiting run is withdrawn, or the owner of an owned run ends it.
Finish(r) ==
  /\ phase[r] \in {"waiting", "owned"}
  /\ phase' = [phase EXCEPT ![r] = "done"]
  /\ UNCHANGED place

Next ==
  \E r \in Runs :
    \/ \E p \in Places : Submit(r, p)
    \/ Acquire(r)
    \/ Finish(r)

Spec == Init /\ [][Next]_vars

===========================================================================
