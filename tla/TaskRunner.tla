----------------------------- MODULE TaskRunner -----------------------------
(***************************************************************************)
(* What an agent's manager promises every task.                            *)
(*                                                                         *)
(* A task is ready, runs, has ended, waits for its delay, is due, and is   *)
(* ready again, with the outcome of its last run on record.  It is not run *)
(* before its result has been through all of that.  A task that panics is  *)
(* lost.  Tasks whose results are not waiting yet may be lost when the     *)
(* manager has been stopped, and never before.                             *)
(***************************************************************************)

CONSTANTS
  Tasks,   \* the task types of the agent
  MayPanic \* those that may panic

VARIABLES
  life,   \* where every task is, and how its last run has ended
  stopped \* has the manager been told to stop?

rvars == <<life, stopped>>

At(where, outcome) == [at |-> where, last |-> outcome]

Outcomes(t) == {"ok", "err"} \cup (IF t \in MayPanic THEN {"panic"} ELSE {})

(* The tasks of S come to a new place, all others stay. *)
Become(S, new) ==
  /\ life' = [t \in Tasks |-> IF t \in S THEN new ELSE life[t]]
  /\ UNCHANGED stopped

Init ==
  /\ life = [t \in Tasks |-> At("ready", "none")]
  /\ stopped = FALSE

Run(S) ==
  /\ \A t \in S : life[t].at = "ready"
  /\ Become(S, At("running", "none"))

End(t) ==
  /\ life[t].at = "running"
  /\ \E o \in Outcomes(t) : Become({t}, At("ended", o))

PutOff(t) ==
  /\ life[t].at = "ended" /\ life[t].last # "panic"
  /\ Become({t}, At("waiting", life[t].last))

FallDue(t) ==
  /\ life[t].at = "waiting"
  /\ Become({t}, At("due", life[t].last))

Record(t) ==
  /\ life[t].at = "due"
  /\ Become({t}, At("ready", life[t].last))

LosePanicked(t) ==
  /\ life[t] = At("ended", "panic")
  /\ Become({t}, At("lost", "none"))

Drop(S) ==
  /\ stopped
  /\ \A t \in S : life[t].at \in {"running", "ended"}
  /\ Become(S, At("lost", "none"))

Stop ==
  /\ stopped' = TRUE
  /\ UNCHANGED life

Next ==
  \/ \E S \in SUBSET Tasks : Run(S) \/ Drop(S)
  \/ \E t \in Tasks :
       End(t) \/ PutOff(t) \/ FallDue(t) \/ Record(t) \/ LosePanicked(t)
  \/ Stop

Spec == Init /\ [][Next]_rvars

=============================================================================
