---------------------------- MODULE AgentManager ----------------------------
(***************************************************************************)
(* AgentManager::run: the two loops that keep the tasks of one agent       *)
(* going.                                                                  *)
(*                                                                         *)
(* The queue loop waits for an entry of the delay queue to expire, records *)
(* the outcome in the task registry, asks the agent for the tasks that are *)
(* not pending, and spawns them into the join set.  The tasks loop takes   *)
(* the completed tasks out of the join set, adapts the retry delay, and    *)
(* enters the result into the delay queue.  They share four asynchronous   *)
(* locks, which tokio grants in the order of the requests, and each loop   *)
(* keeps the lock its iteration starts with until it has slept.            *)
(*                                                                         *)
(* A lock is the sequence of the loops that hold or await it, the holder   *)
(* first.  Time is left out: an entry of the delay queue falls due at any  *)
(* moment, and the delay that it was given is kept beside it.              *)
(***************************************************************************)
EXTENDS Naturals, Sequences

CONSTANTS
  Tasks,          \* the task types of the agent
  FirstKnown,     \* those the agent knows when run is called
  Blocking,       \* those whose futures block their thread
  InitialDelay,   \* initial_retry_delay
  MaxInterval,    \* max_interval, 300 seconds in the code
  UpdateInterval, \* update_interval_in_secs
  MayPanic,       \* those that may panic
  Forgets         \* whether get_tasks may fail to read what tasks there are

ASSUME TasksAssumption ==
  /\ FirstKnown \subseteq Tasks /\ Blocking \subseteq Tasks
  /\ MayPanic \subseteq Tasks
  /\ "none" \notin Tasks

ASSUME DelayAssumption ==
  /\ InitialDelay \in Nat /\ MaxInterval \in Nat /\ UpdateInterval \in Nat
  /\ InitialDelay <= MaxInterval

ASSUME FaultAssumption == Forgets \in BOOLEAN

Locks    == {"agent", "delayQueue", "joinSet", "registry"}
Loops    == {"queue", "tasks"}
Steps    == {"firstTasks", "firstRegistry", "firstSpawn", "check", "poll",
             "settle", "getTasks", "spawn", "sleep", "collect", "each",
             "lookUp", "adapt", "enter", "abort", "drain", "done"}
Outcomes(t) == {"ok", "err"} \cup (IF t \in MayPanic THEN {"panic"} ELSE {})
States   == {"none", "pending", "resolved", "failed"}
Results  == [task : Tasks, outcome : {"ok", "err", "panic"}]
Entries  == [task : Tasks, outcome : {"ok", "err"}, delay : Nat, due : BOOLEAN]

VARIABLES
  cancelled,  \* CANCELLATION_FLAG
  known,      \* the tasks the agent would list if none was pending
  lock,       \* the holder and the waiters of every lock
  at,         \* where the two loops are
  running,    \* the join set: the tasks that have not completed
  finished,   \* the join set: the results of those that have
  batch,      \* the results taken from the join set and not handled yet
  result,     \* the one being handled
  delayQueue, \* the results that wait for their delay to pass
  expired,    \* the one whose delay has passed
  fns,        \* the tasks to be spawned
  registry,   \* the state of every task
  retryDelay  \* the agent's retry delay of every task

queueVars == <<expired, fns, registry>>
tasksVars == <<batch, result, retryDelay>>
joinSet   == <<running, finished>>
vars == <<cancelled, known, lock, at, joinSet, delayQueue, queueVars, tasksVars>>

None == [task |-> "none"]

-----------------------------------------------------------------------------

Requested(lk, l, p) == [lk EXCEPT ![l] = Append(@, p)]

Released(lk, l) == [lk EXCEPT ![l] = Tail(@)]

Holds(p, l) == lock[l] # <<>> /\ Head(lock[l]) = p

(* Loop p, which is at step from, goes on to step to. *)
Move(p, from, to) ==
  /\ at[p] = from
  /\ at' = [at EXCEPT ![p] = to]

Init ==
  /\ cancelled = FALSE
  /\ known = FirstKnown
  /\ lock = [l \in Locks |-> IF l = "agent" THEN <<"queue">> ELSE <<>>]
  /\ at = [p \in Loops |-> IF p = "queue" THEN "firstTasks" ELSE "check"]
  /\ running = {} /\ finished = {} /\ batch = {} /\ delayQueue = {}
  /\ result = None /\ expired = None
  /\ fns = {}
  /\ registry = [t \in Tasks |-> "none"]
  /\ retryDelay = [t \in Tasks |-> InitialDelay]

-----------------------------------------------------------------------------

(***************************************************************************)
(* The queue loop.                                                         *)
(***************************************************************************)

Pending == {t \in Tasks : registry[t] = "pending"}

(* Fault: get_tasks does not look at what is pending. *)
TasksAnyway(pending) == {known}

(* What get_tasks returns: all it knows of but for the pending ones. *)
TasksBut(pending) ==
  {known \ pending} \cup (IF Forgets THEN {{}} ELSE {})

FirstTasks ==
  /\ Holds("queue", "agent")
  /\ fns' \in TasksBut({})
  /\ \/ /\ fns' = {}
        /\ Move("queue", "firstTasks", "check")
        /\ lock' = Released(lock, "agent")
     \/ /\ fns' # {}
        /\ Move("queue", "firstTasks", "firstRegistry")
        /\ lock' = Requested(Released(lock, "agent"), "registry", "queue")
  /\ UNCHANGED <<cancelled, known, joinSet, delayQueue, expired, registry, tasksVars>>

FirstRegistry ==
  /\ Holds("queue", "registry")
  /\ Move("queue", "firstRegistry", "firstSpawn")
  /\ lock' = Requested(lock, "joinSet", "queue")
  /\ UNCHANGED <<cancelled, known, joinSet, delayQueue, queueVars, tasksVars>>

(* process_join_set for every task that get_tasks has returned. *)
SpawnAll ==
  /\ Holds("queue", "joinSet")
  /\ running' = running \cup fns
  /\ registry' = [t \in Tasks |-> IF t \in fns THEN "pending" ELSE registry[t]]
  /\ fns' = {}
  /\ lock' = Released(Released(lock, "joinSet"), "registry")
  /\ UNCHANGED <<cancelled, known, finished, delayQueue, expired, tasksVars>>

FirstSpawn == Move("queue", "firstSpawn", "check") /\ SpawnAll

QueueCheck ==
  /\ \/ /\ cancelled
        /\ Move("queue", "check", "abort")
        /\ lock' = Requested(lock, "joinSet", "queue")
     \/ /\ ~ cancelled
        /\ Move("queue", "check", "poll")
        /\ lock' = Requested(lock, "delayQueue", "queue")
  /\ UNCHANGED <<cancelled, known, joinSet, delayQueue, queueVars, tasksVars>>

(* Fault: an entry is taken whether its delay has passed or not. *)
ExpireEarly ==
  /\ Holds("queue", "delayQueue")
  /\ Move("queue", "poll", "settle")
  /\ \E e \in delayQueue : expired' = e /\ delayQueue' = delayQueue \ {e}
  /\ lock' = Requested(lock, "registry", "queue")
  /\ UNCHANGED <<cancelled, known, joinSet, fns, registry, tasksVars>>

(* An entry expires within the 100 milliseconds. *)
Expire ==
  /\ Holds("queue", "delayQueue")
  /\ Move("queue", "poll", "settle")
  /\ \E e \in delayQueue :
       /\ e.due
       /\ expired' = e
       /\ delayQueue' = delayQueue \ {e}
  /\ lock' = Requested(lock, "registry", "queue")
  /\ UNCHANGED <<cancelled, known, joinSet, fns, registry, tasksVars>>

(* None does. *)
PollTimeout ==
  /\ Holds("queue", "delayQueue")
  /\ Move("queue", "poll", "sleep")
  /\ \A e \in delayQueue : ~ e.due
  /\ UNCHANGED <<cancelled, known, lock, joinSet, delayQueue, queueVars, tasksVars>>

(* Fault: a failure is not recorded. *)
SettleResolved ==
  /\ Holds("queue", "registry")
  /\ Move("queue", "settle", "getTasks")
  /\ registry' = IF expired.outcome = "ok"
                 THEN [registry EXCEPT ![expired.task] = "resolved"] ELSE registry
  /\ expired' = None
  /\ lock' = Requested(lock, "agent", "queue")
  /\ UNCHANGED <<cancelled, known, joinSet, delayQueue, fns, tasksVars>>

(* Fault: the pending tasks are read under a lock of their own. *)
SettleRelocking ==
  /\ Holds("queue", "registry")
  /\ Move("queue", "settle", "getTasks")
  /\ registry' = [registry EXCEPT ![expired.task] =
                    IF expired.outcome = "ok" THEN "resolved" ELSE "failed"]
  /\ expired' = None
  /\ lock' = Requested(lock, "registry", "queue")
  /\ UNCHANGED <<cancelled, known, joinSet, delayQueue, fns, tasksVars>>

Settle ==
  /\ Holds("queue", "registry")
  /\ Move("queue", "settle", "getTasks")
  /\ registry' = [registry EXCEPT ![expired.task] =
                    IF expired.outcome = "ok" THEN "resolved" ELSE "failed"]
  /\ expired' = None
  /\ lock' = Requested(lock, "agent", "queue")
  /\ UNCHANGED <<cancelled, known, joinSet, delayQueue, fns, tasksVars>>

GetTasks ==
  /\ Holds("queue", "agent")
  /\ fns' \in TasksBut(Pending)
  /\ \/ /\ fns' = {}
        /\ Move("queue", "getTasks", "sleep")
        /\ lock' = Released(Released(lock, "agent"), "registry")
     \/ /\ fns' # {}
        /\ Move("queue", "getTasks", "spawn")
        /\ lock' = Requested(Released(lock, "agent"), "joinSet", "queue")
  /\ UNCHANGED <<cancelled, known, joinSet, delayQueue, expired, registry, tasksVars>>

Spawn == Move("queue", "spawn", "sleep") /\ SpawnAll

QueueSleep ==
  /\ Move("queue", "sleep", "check")
  /\ lock' = Released(lock, "delayQueue")
  /\ UNCHANGED <<cancelled, known, joinSet, delayQueue, queueVars, tasksVars>>

-----------------------------------------------------------------------------

(***************************************************************************)
(* The tasks loop.                                                         *)
(***************************************************************************)

(* Fault: the loop never looks at the flag. *)
TasksCheckNot ==
  /\ Move("tasks", "check", "collect")
  /\ lock' = Requested(lock, "joinSet", "tasks")
  /\ UNCHANGED <<cancelled, known, joinSet, delayQueue, queueVars, tasksVars>>

TasksCheck ==
  /\ lock' = Requested(lock, "joinSet", "tasks")
  /\ \/ cancelled /\ Move("tasks", "check", "abort")
     \/ ~ cancelled /\ Move("tasks", "check", "collect")
  /\ UNCHANGED <<cancelled, known, joinSet, delayQueue, queueVars, tasksVars>>

(* Fault: one round too few. *)
CollectButOne ==
  /\ Holds("tasks", "joinSet")
  /\ Move("tasks", "collect", "each")
  /\ \E left \in SUBSET finished :
       /\ finished # {} => left # {}
       /\ finished' = left
       /\ batch' = finished \ left
  /\ UNCHANGED <<cancelled, known, lock, running, delayQueue, queueVars,
                 result, retryDelay>>

(* poll_completed_tasks *)
Collect ==
  /\ Holds("tasks", "joinSet")
  /\ Move("tasks", "collect", "each")
  /\ batch' = finished
  /\ finished' = {}
  /\ UNCHANGED <<cancelled, known, lock, running, delayQueue, queueVars,
                 result, retryDelay>>

(* The next result: a task that panicked is looked up in the registry, the
   others need the agent. *)
Each ==
  /\ \/ /\ batch = {}
        /\ Move("tasks", "each", "sleep")
        /\ UNCHANGED <<lock, batch, result>>
     \/ \E r \in batch :
          /\ batch' = batch \ {r}
          /\ result' = r
          /\ IF r.outcome = "panic"
             THEN /\ Move("tasks", "each", "lookUp")
                  /\ lock' = Requested(lock, "registry", "tasks")
             ELSE /\ Move("tasks", "each", "adapt")
                  /\ lock' = Requested(lock, "agent", "tasks")
  /\ UNCHANGED <<cancelled, known, joinSet, delayQueue, queueVars, retryDelay>>

AtMost(n, limit) == IF n > limit THEN limit ELSE n

(* Fault: the jitter is taken off the limited delay. *)
BackoffsBelow(delay) ==
  {AtMost(2 * delay, MaxInterval) - jitter : jitter \in 0..(delay \div 2)}

(* exponential_backoff_with_jitter *)
Backoffs(delay) ==
  {AtMost(2 * delay + jitter, MaxInterval) : jitter \in 0..(delay \div 2)}

(* Fault: a success does not reset the retry delay. *)
AdaptNoReset ==
  /\ Holds("tasks", "agent")
  /\ Move("tasks", "adapt", "enter")
  /\ \E d \in IF result.outcome = "ok" THEN {retryDelay[result.task]}
                                        ELSE Backoffs(retryDelay[result.task]) :
       retryDelay' = [retryDelay EXCEPT ![result.task] = d]
  /\ lock' = Requested(lock, "delayQueue", "tasks")
  /\ UNCHANGED <<cancelled, known, joinSet, delayQueue, queueVars, batch, result>>

(* The agent is locked for writing and stays so until the result has been
   entered into the delay queue. *)
Adapt ==
  /\ Holds("tasks", "agent")
  /\ Move("tasks", "adapt", "enter")
  /\ \E d \in IF result.outcome = "ok" THEN {InitialDelay}
                                        ELSE Backoffs(retryDelay[result.task]) :
       retryDelay' = [retryDelay EXCEPT ![result.task] = d]
  /\ lock' = Requested(lock, "delayQueue", "tasks")
  /\ UNCHANGED <<cancelled, known, joinSet, delayQueue, queueVars, batch, result>>

(* Fault: a failure is not tried again. *)
EnterOk ==
  /\ Holds("tasks", "delayQueue")
  /\ Move("tasks", "enter", "each")
  /\ delayQueue' = delayQueue \cup
       {[task |-> r.task, outcome |-> "ok", due |-> FALSE,
         delay |-> UpdateInterval] : r \in {x \in {result} : x.outcome = "ok"}}
  /\ result' = None
  /\ lock' = Released(Released(lock, "delayQueue"), "agent")
  /\ UNCHANGED <<cancelled, known, joinSet, queueVars, batch, retryDelay>>

Enter ==
  /\ Holds("tasks", "delayQueue")
  /\ Move("tasks", "enter", "each")
  /\ delayQueue' = delayQueue \cup
       {[task |-> result.task, outcome |-> result.outcome, due |-> FALSE,
         delay |-> IF result.outcome = "ok" THEN UpdateInterval
                                            ELSE retryDelay[result.task]]}
  /\ result' = None
  /\ lock' = Released(Released(lock, "delayQueue"), "agent")
  /\ UNCHANGED <<cancelled, known, joinSet, queueVars, batch, retryDelay>>

(* The iterator that would record the panic is never consumed. *)
LookUp ==
  /\ Holds("tasks", "registry")
  /\ Move("tasks", "lookUp", "each")
  /\ result' = None
  /\ lock' = Released(lock, "registry")
  /\ UNCHANGED <<cancelled, known, joinSet, delayQueue, queueVars, batch, retryDelay>>

TasksSleep ==
  /\ Move("tasks", "sleep", "check")
  /\ lock' = Released(lock, "joinSet")
  /\ UNCHANGED <<cancelled, known, joinSet, delayQueue, queueVars, tasksVars>>

-----------------------------------------------------------------------------

(***************************************************************************)
(* Both loops end by shutting the join set down: they abort the tasks, and *)
(* wait for those that cannot be aborted before they yield.                *)
(***************************************************************************)

Abort(p) ==
  /\ Holds(p, "joinSet")
  /\ Move(p, "abort", "drain")
  /\ running' = running \cap Blocking
  /\ UNCHANGED <<cancelled, known, lock, finished, delayQueue, queueVars, tasksVars>>

(* Fault: the tasks are aborted and not waited for. *)
DrainAtOnce(p) ==
  /\ Move(p, "drain", "done")
  /\ finished' = {}
  /\ lock' = Released(lock, "joinSet")
  /\ UNCHANGED <<cancelled, known, running, delayQueue, queueVars, tasksVars>>

Drain(p) ==
  /\ Move(p, "drain", "done")
  /\ running = {}
  /\ finished' = {}
  /\ lock' = Released(lock, "joinSet")
  /\ UNCHANGED <<cancelled, known, running, delayQueue, queueVars, tasksVars>>

-----------------------------------------------------------------------------

(***************************************************************************)
(* The surroundings: the tasks, the clock, the host, and the chain         *)
(* registry that tells the agent for which chains there is work.           *)
(***************************************************************************)

Finish(t) ==
  /\ t \in running
  /\ running' = running \ {t}
  /\ \E o \in Outcomes(t) : finished' = finished \cup {[task |-> t, outcome |-> o]}
  /\ UNCHANGED <<cancelled, known, lock, at, delayQueue, queueVars, tasksVars>>

FallDue(t) ==
  /\ \E e \in delayQueue :
       /\ e.task = t /\ ~ e.due
       /\ delayQueue' = (delayQueue \ {e}) \cup {[e EXCEPT !.due = TRUE]}
  /\ UNCHANGED <<cancelled, known, lock, at, joinSet, queueVars, tasksVars>>

(* stop and shutdown *)
Stop ==
  /\ ~ cancelled
  /\ cancelled' = TRUE
  /\ UNCHANGED <<known, lock, at, joinSet, delayQueue, queueVars, tasksVars>>

Learn(t) ==
  /\ t \notin known
  /\ known' = known \cup {t}
  /\ UNCHANGED <<cancelled, lock, at, joinSet, delayQueue, queueVars, tasksVars>>

Ended ==
  /\ \A p \in Loops : at[p] = "done"
  /\ UNCHANGED vars

-----------------------------------------------------------------------------

QueueLoop ==
  \/ FirstTasks \/ FirstRegistry \/ FirstSpawn
  \/ QueueCheck \/ Expire \/ PollTimeout \/ Settle \/ GetTasks \/ Spawn
  \/ QueueSleep
  \/ Abort("queue") \/ Drain("queue")

TasksLoop ==
  \/ TasksCheck \/ Collect \/ Each \/ Adapt \/ Enter \/ LookUp \/ TasksSleep
  \/ Abort("tasks") \/ Drain("tasks")

Next ==
  \/ QueueLoop
  \/ TasksLoop
  \/ \E t \in Tasks : Finish(t) \/ FallDue(t) \/ Learn(t)
  \/ Stop
  \/ Ended

Spec == Init /\ [][Next]_vars

(* The runtime runs the loops as long as they are ready, tasks that do not
   block their thread complete, and delays pass.  Nobody has to stop. *)
Fairness ==
  /\ WF_vars(QueueLoop)
  /\ WF_vars(TasksLoop)
  /\ \A t \in Tasks \ Blocking : WF_vars(Finish(t))
  /\ \A t \in Tasks : WF_vars(FallDue(t))

FairSpec == Spec /\ Fairness

-----------------------------------------------------------------------------

(* The manager's variables stay in their types. *)
TypeOK ==
  /\ cancelled \in BOOLEAN
  /\ known \subseteq Tasks
  /\ \A l \in Locks : lock[l] \in {<<>>, <<"queue">>, <<"tasks">>,
                                   <<"queue", "tasks">>, <<"tasks", "queue">>}
  /\ at \in [Loops -> Steps]
  /\ running \subseteq Tasks
  /\ finished \subseteq Results /\ batch \subseteq Results
  /\ result \in Results \cup {None}
  /\ delayQueue \subseteq Entries
  /\ expired \in Entries \cup {None}
  /\ fns \subseteq Tasks
  /\ registry \in [Tasks -> States]
  /\ retryDelay \in [Tasks -> Nat]

(* Everything that stands for a run of task t, from its spawning until its
   delay has passed. *)
Tokens(t) ==
  {<<"running", t>> : x \in running \cap {t}}
    \cup {<<"finished", r>> : r \in {y \in finished : y.task = t}}
    \cup {<<"batch", r>> : r \in {y \in batch : y.task = t}}
    \cup {<<"result", r>> : r \in {y \in {result} : y.task = t}}
    \cup {<<"delayed", e>> : e \in {y \in delayQueue : y.task = t}}
    \cup {<<"expired", e>> : e \in {y \in {expired} : y.task = t}}

InFlight(t) == Tokens(t) # {}

(* No task is ever run twice at a time: it is in flight once at the most,
   pending as long as it is, and what is about to be spawned is not in
   flight. *)
SingleFlight ==
  /\ \A t \in Tasks : \A x \in Tokens(t), y \in Tokens(t) : x = y
  /\ \A t \in Tasks : InFlight(t) => registry[t] = "pending"
  /\ \A t \in fns : ~ InFlight(t)

(* No task is lost: as long as nobody stops the manager, a task that is
   pending, and that get_tasks therefore leaves out, is in flight. *)
Lost(t) == registry[t] = "pending" /\ ~ cancelled /\ ~ InFlight(t)

PendingInFlight == \A t \in Tasks \ MayPanic : ~ Lost(t)

(* Nor is one that panics: the registry says that it has. *)
PanicsRecorded == \A t \in MayPanic : ~ Lost(t)

(* A result waits as long as it should although delays are adapted while
   earlier results wait: the update interval after a success, which also
   resets the retry delay, and the retry delay after a failure. *)
DelayFits ==
  \A e \in delayQueue :
    IF e.outcome = "ok"
    THEN e.delay = UpdateInterval /\ retryDelay[e.task] = InitialDelay
    ELSE e.delay = retryDelay[e.task] /\ e.delay \in InitialDelay..MaxInterval

(* When both loops have ended nothing is left in the join set. *)
EndedEmpty ==
  (\A p \in Loops : at[p] = "done") => running = {} /\ finished = {}

(***************************************************************************)
(* What the manager promises its tasks.                                    *)
(***************************************************************************)

ResultsOf(t) == {r \in finished \cup batch \cup {result} : r.task = t}

EntriesOf(t) == {e \in delayQueue \cup {expired} : e.task = t}

OnRecord == [none |-> "none", resolved |-> "ok", failed |-> "err"]

(* Where task t is, and how its last run has ended. *)
Life(t) ==
  LET r == CHOOSE x \in ResultsOf(t) : TRUE
      e == CHOOSE x \in EntriesOf(t) : TRUE
  IN  IF t \in running THEN [at |-> "running", last |-> "none"]
      ELSE IF ResultsOf(t) # {} THEN [at |-> "ended", last |-> r.outcome]
      ELSE IF EntriesOf(t) # {}
      THEN [at |-> IF e.due THEN "due" ELSE "waiting", last |-> e.outcome]
      ELSE IF registry[t] = "pending" THEN [at |-> "lost", last |-> "none"]
      ELSE [at |-> "ready", last |-> OnRecord[registry[t]]]

Runner == INSTANCE TaskRunner WITH
            life <- [t \in Tasks |-> Life(t)], stopped <- cancelled

(* The manager is a TaskRunner: a task is not run again before its result
   has been handled, has waited for its delay and has been recorded as what
   it was, and none is lost before the stop but those that panic. *)
IsTaskRunner == Runner!Spec

(* Only a success of the task itself shortens the delay of its next retry:
   no failure does, nor a result of another task, a panic or the stop. *)
BackoffGrows ==
  [][\A t \in Tasks : retryDelay'[t] < retryDelay[t] =>
                        result.task = t /\ result.outcome = "ok"]_vars

(* A task the agent knew from the start is run again and again, unless the
   manager is stopped. *)
KeepsRunning ==
  \A t \in FirstKnown : []<>(t \in running \/ cancelled)

(* Every completed task is removed from the join set. *)
CompletedRemoved ==
  \A t \in Tasks :
    (\E r \in finished : r.task = t) ~> (\A r \in finished : r.task # t)

(* Once stopped, both loops end. *)
StopEnds == cancelled ~> \A p \in Loops : at[p] = "done"

=============================================================================
