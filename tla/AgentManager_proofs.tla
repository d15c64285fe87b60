------------------------ MODULE AgentManager_proofs ------------------------
(***************************************************************************)
(* Proofs about AgentManager, for any number of tasks.                     *)
(*                                                                         *)
(* The inductive invariant FlightInv follows a run of a task from place to *)
(* place: the join set, the batch, the result at hand, the delay queue,    *)
(* the expired result.  Every place holds a task once at the most, no two  *)
(* places hold the same task, whatever is in a place is pending, and what  *)
(* is about to be spawned is in none.  The locks are not needed for it;    *)
(* LockInv follows them, and CarryInv, which needs FlightInv only for its  *)
(* types, follows what each loop has at hand, so that nothing is lost.     *)
(* Together they make every step of the manager one of TaskRunner.         *)
(***************************************************************************)
EXTENDS AgentManager, TLAPS

Places == finished \cup batch \cup {result} \cup delayQueue \cup {expired}

Unique(S) == \A x \in S, y \in S : x.task = y.task => x = y

(* No task is in both sets; None is not a task. *)
Apart(S, T) == \A x \in S, y \in T : x.task \in Tasks => x.task # y.task

FlightTypes ==
  /\ at \in [Loops -> Steps]
  /\ known \subseteq Tasks
  /\ running \subseteq Tasks
  /\ finished \subseteq Results
  /\ batch \subseteq Results
  /\ result \in Results \cup {None}
  /\ delayQueue \subseteq Entries
  /\ expired \in Entries \cup {None}
  /\ fns \subseteq Tasks
  /\ registry \in [Tasks -> States]
  /\ retryDelay \in [Tasks -> Nat]

Placed ==
  /\ at["queue"] = "firstTasks" => \A t \in Tasks : registry[t] = "none"
  /\ at["queue"] = "settle" => expired \in Entries
  /\ at["tasks"] \in {"adapt", "enter"} =>
       result \in Results /\ result.outcome # "panic"

RunningAlone == \A x \in Places : x.task \notin running

Distinct ==
  /\ Unique(finished) /\ Unique(batch) /\ Unique(delayQueue)
  /\ Apart(finished, batch) /\ Apart(finished, {result})
  /\ Apart(finished, delayQueue) /\ Apart(finished, {expired})
  /\ Apart(batch, {result}) /\ Apart(batch, delayQueue)
  /\ Apart(batch, {expired})
  /\ Apart({result}, delayQueue) /\ Apart({result}, {expired})
  /\ Apart(delayQueue, {expired})

FlightPending ==
  /\ \A t \in running : registry[t] = "pending"
  /\ \A x \in Places : x.task \in Tasks => registry[x.task] = "pending"

Fresh ==
  /\ fns \cap running = {}
  /\ \A x \in Places : x.task \notin fns

FlightInv ==
  FlightTypes /\ Placed /\ RunningAlone /\ Distinct /\ FlightPending /\ Fresh

-----------------------------------------------------------------------------

(* None is nobody's task. *)
LEMMA NoneIsNoTask == None.task \notin Tasks /\ None \notin Results /\ None \notin Entries
  BY TasksAssumption DEF None, Results, Entries

(* What a token is, by place. *)
LEMMA TokenCases ==
  ASSUME NEW t \in Tasks, NEW x \in Tokens(t)
  PROVE  \/ x = <<"running", t>> /\ t \in running
         \/ \E r \in finished : r.task = t /\ x = <<"finished", r>>
         \/ \E r \in batch : r.task = t /\ x = <<"batch", r>>
         \/ result.task = t /\ x = <<"result", result>>
         \/ \E e \in delayQueue : e.task = t /\ x = <<"delayed", e>>
         \/ expired.task = t /\ x = <<"expired", expired>>
  BY DEF Tokens

(* The invariant is what makes a task fly alone. *)
LEMMA FlightIsSingle == FlightInv => SingleFlight
<1> SUFFICES ASSUME FlightInv PROVE SingleFlight
  OBVIOUS
<1> USE DEF FlightInv
<1>1. ASSUME NEW t \in Tasks, InFlight(t)
      PROVE  t \in running \/ \E x \in Places : x.task = t
  <2>1. PICK x \in Tokens(t) : TRUE
    BY <1>1 DEF InFlight
  <2> QED BY <2>1, TokenCases DEF Places
<1>2. ASSUME NEW t \in Tasks, NEW x \in Tokens(t), NEW y \in Tokens(t)
      PROVE  x = y
  <2>1. CASE x = <<"running", t>> /\ t \in running
    BY <2>1, TokenCases DEF RunningAlone, Places
  <2>2. CASE \E r \in finished : r.task = t /\ x = <<"finished", r>>
    BY <2>2, TokenCases DEF RunningAlone, Places, Distinct, Unique, Apart
  <2>3. CASE \E r \in batch : r.task = t /\ x = <<"batch", r>>
    BY <2>3, TokenCases DEF RunningAlone, Places, Distinct, Unique, Apart
  <2>4. CASE result.task = t /\ x = <<"result", result>>
    BY <2>4, TokenCases DEF RunningAlone, Places, Distinct, Unique, Apart
  <2>5. CASE \E e \in delayQueue : e.task = t /\ x = <<"delayed", e>>
    BY <2>5, TokenCases DEF RunningAlone, Places, Distinct, Unique, Apart
  <2>6. CASE expired.task = t /\ x = <<"expired", expired>>
    BY <2>6, TokenCases DEF RunningAlone, Places, Distinct, Unique, Apart
  <2> QED BY <2>1, <2>2, <2>3, <2>4, <2>5, <2>6, TokenCases
<1>3. ASSUME NEW t \in Tasks, InFlight(t) PROVE registry[t] = "pending"
  BY <1>1, <1>3 DEF FlightPending
<1>4. ASSUME NEW t \in fns PROVE ~ InFlight(t)
  BY <1>1, <1>4 DEF Fresh, FlightTypes
<1> QED BY <1>2, <1>3, <1>4 DEF SingleFlight


-----------------------------------------------------------------------------

LEMMA FlightInit == Init => FlightInv
<1> SUFFICES ASSUME Init PROVE FlightInv
  OBVIOUS
<1> USE NoneIsNoTask DEF Init
<1>1. FlightTypes
  <2>1. at \in [Loops -> Steps]
    BY DEF Steps
  <2>2. registry \in [Tasks -> States] /\ retryDelay \in [Tasks -> Nat]
    BY DelayAssumption DEF States
  <2> QED BY <2>1, <2>2, TasksAssumption DEF FlightTypes
<1>2. Placed
  BY DEF Placed, Loops
<1>3. Places = {None} /\ running = {} /\ fns = {}
  BY DEF Places
<1>4. RunningAlone /\ FlightPending /\ Fresh
  BY <1>3 DEF RunningAlone, FlightPending, Fresh
<1>5. Distinct
  BY DEF Distinct, Unique, Apart
<1> QED BY <1>1, <1>2, <1>4, <1>5 DEF FlightInv

(* Steps that touch no place keep the invariant, if the loops do not come
   to a step that asks for more. *)
LEMMA QuietStep ==
  ASSUME FlightInv, UNCHANGED <<running, finished, batch, result, delayQueue,
                                expired, fns, registry>>,
         at' \in [Loops -> Steps], known' \subseteq Tasks,
         retryDelay' \in [Tasks -> Nat],
         at'["queue"] \in {"firstTasks", "settle"} => at'["queue"] = at["queue"],
         at'["tasks"] \in {"adapt", "enter"} => at["tasks"] \in {"adapt", "enter"}
  PROVE  FlightInv'
<1> USE DEF FlightInv
<1>1. FlightTypes'
  BY DEF FlightTypes
<1>2. Placed'
  BY DEF Placed
<1>3. (RunningAlone /\ Distinct /\ FlightPending /\ Fresh)'
  BY DEF RunningAlone, Distinct, FlightPending, Fresh, Places, Unique, Apart
<1> QED BY <1>1, <1>2, <1>3

(* Steps that put new tasks into fns, none of which is in a place. *)
LEMMA ListStep ==
  ASSUME FlightInv, UNCHANGED <<running, finished, batch, result, delayQueue,
                                expired, registry, retryDelay>>,
         at' \in [Loops -> Steps], known' \subseteq Tasks,
         at'["queue"] \notin {"firstTasks", "settle"}, at'["tasks"] = at["tasks"],
         fns' \subseteq Tasks, \A t \in fns' : registry[t] # "pending"
  PROVE  FlightInv'
<1> USE DEF FlightInv
<1>1. FlightTypes'
  BY DEF FlightTypes
<1>2. Placed'
  BY DEF Placed
<1>3. (RunningAlone /\ Distinct /\ FlightPending)'
  BY DEF RunningAlone, Distinct, FlightPending, Places, Unique, Apart
<1>4. Fresh'
  BY DEF Fresh, FlightPending, Places, FlightTypes
<1> QED BY <1>1, <1>2, <1>3, <1>4

LEMMA SpawnStep ==
  ASSUME FlightInv, SpawnAll, at' \in [Loops -> Steps],
         at'["queue"] \notin {"firstTasks", "settle"}, at'["tasks"] = at["tasks"]
  PROVE  FlightInv'
<1> USE DEF FlightInv
<1>1. FlightTypes'
  BY DEF FlightTypes, SpawnAll, tasksVars, States
<1>2. Placed'
  BY DEF Placed, SpawnAll, tasksVars
<1>3. RunningAlone'
  BY DEF RunningAlone, Fresh, SpawnAll, tasksVars, Places
<1>4. Distinct'
  BY DEF Distinct, SpawnAll, tasksVars, Unique, Apart
<1>5. FlightPending'
  BY DEF FlightPending, SpawnAll, tasksVars, Places, FlightTypes
<1>6. Fresh'
  BY DEF Fresh, SpawnAll, tasksVars
<1> QED BY <1>1, <1>2, <1>3, <1>4, <1>5, <1>6

(* So does shutting the join set down. *)
LEMMA EndFlight ==
  ASSUME FlightInv, NEW p \in Loops, Abort(p) \/ Drain(p)
  PROVE  FlightInv'
<1>1. at' \in [Loops -> Steps] /\ at'[p] \in {"drain", "done"}
      /\ \A q \in Loops : q # p => at'[q] = at[q]
  BY DEF Move, Loops, Steps, Abort, Drain, FlightInv, FlightTypes
<1>2. /\ running' \subseteq running /\ finished' \subseteq finished
      /\ UNCHANGED <<known, batch, result, delayQueue, expired, fns, registry, retryDelay>>
  BY DEF Abort, Drain, queueVars, tasksVars
<1> USE DEF FlightInv
<1>3. FlightTypes' /\ Placed'
  BY <1>1, <1>2 DEF FlightTypes, Placed, Loops
<1>4. (RunningAlone /\ FlightPending /\ Fresh)'
  BY <1>2 DEF RunningAlone, FlightPending, Fresh, Places
<1>5. Distinct'
  BY <1>2 DEF Distinct, Unique, Apart
<1> QED BY <1>3, <1>4, <1>5

-----------------------------------------------------------------------------

(* The queue loop keeps the invariant. *)
LEMMA QueueFlight == FlightInv /\ QueueLoop => FlightInv'
<1> SUFFICES ASSUME FlightInv, QueueLoop PROVE FlightInv'
  OBVIOUS
<1>0. at \in [Loops -> Steps] /\ known \subseteq Tasks
      /\ retryDelay \in [Tasks -> Nat] /\ "queue" \in Loops /\ "tasks" \in Loops
  BY DEF FlightInv, FlightTypes, Loops
<1>1. CASE FirstTasks
  <2>1. /\ at' \in [Loops -> Steps] /\ at["queue"] = "firstTasks"
        /\ at'["queue"] \in {"check", "firstRegistry"} /\ at'["tasks"] = at["tasks"]
    BY <1>0, <1>1 DEF Move, Loops, Steps, FirstTasks
  <2>2. fns' \subseteq Tasks /\ \A t \in fns' : registry[t] # "pending"
    BY <1>0, <1>1, <2>1 DEF FirstTasks, TasksBut, FlightInv, Placed
  <2> QED BY <1>0, <1>1, <2>1, <2>2, ListStep DEF FirstTasks, joinSet, tasksVars
<1>2. CASE FirstRegistry
  <2>1. at' \in [Loops -> Steps] /\ at'["queue"] = "firstSpawn" /\ at'["tasks"] = at["tasks"]
    BY <1>0, <1>2 DEF Move, Loops, Steps, FirstRegistry
  <2> QED BY <1>0, <1>2, <2>1, QuietStep DEF FirstRegistry, joinSet, tasksVars, queueVars
<1>3. CASE FirstSpawn
  <2>1. at' \in [Loops -> Steps] /\ at'["queue"] = "check" /\ at'["tasks"] = at["tasks"]
    BY <1>0, <1>3 DEF Move, Loops, Steps, FirstSpawn
  <2> QED BY <1>3, <2>1, SpawnStep DEF FirstSpawn
<1>4. CASE QueueCheck
  <2>1. at' \in [Loops -> Steps] /\ at'["queue"] \in {"abort", "poll"} /\ at'["tasks"] = at["tasks"]
    BY <1>0, <1>4 DEF Move, Loops, Steps, QueueCheck
  <2> QED BY <1>0, <1>4, <2>1, QuietStep DEF QueueCheck, joinSet, tasksVars, queueVars
<1>5. CASE Expire
  <2>1. at' \in [Loops -> Steps] /\ at'["queue"] = "settle" /\ at'["tasks"] = at["tasks"]
    BY <1>0, <1>5 DEF Move, Loops, Steps, Expire
  <2>2. PICK e \in delayQueue : expired' = e /\ delayQueue' = delayQueue \ {e}
    BY <1>5 DEF Expire
  <2>3. UNCHANGED <<known, running, finished, batch, result, fns, registry, retryDelay>>
    BY <1>5 DEF Expire, joinSet, tasksVars
  <2> USE DEF FlightInv
  <2>4. FlightTypes' /\ Placed'
    BY <2>1, <2>2, <2>3 DEF FlightTypes, Placed
  <2>5. (RunningAlone /\ FlightPending /\ Fresh)'
    BY <2>2, <2>3 DEF RunningAlone, FlightPending, Fresh, Places
  <2>6. Distinct'
    BY <2>2, <2>3 DEF Distinct, Unique, Apart, FlightTypes, Entries
  <2> QED BY <2>4, <2>5, <2>6
<1>6. CASE PollTimeout
  <2>1. at' \in [Loops -> Steps] /\ at'["queue"] = "sleep" /\ at'["tasks"] = at["tasks"]
    BY <1>0, <1>6 DEF Move, Loops, Steps, PollTimeout
  <2> QED BY <1>0, <1>6, <2>1, QuietStep DEF PollTimeout, joinSet, tasksVars, queueVars
<1>7. CASE Settle
  <2>1. /\ at' \in [Loops -> Steps] /\ at'["queue"] = "getTasks" /\ at'["tasks"] = at["tasks"]
        /\ at["queue"] = "settle"
    BY <1>0, <1>7 DEF Move, Loops, Steps, Settle
  <2>2. /\ expired' = None
        /\ UNCHANGED <<known, running, finished, batch, result, delayQueue, fns, retryDelay>>
        /\ registry' = [registry EXCEPT ![expired.task] =
                          IF expired.outcome = "ok" THEN "resolved" ELSE "failed"]
    BY <1>7 DEF Settle, joinSet, tasksVars
  <2>3. expired \in Entries /\ expired.task \in Tasks
    BY <2>1 DEF FlightInv, Placed, Entries
  <2> USE DEF FlightInv
  <2>4. FlightTypes' /\ Placed'
    BY <2>1, <2>2, <2>3 DEF FlightTypes, Placed, States
  <2>5. RunningAlone' /\ Fresh'
    <3>1. None.task \notin Tasks
      BY NoneIsNoTask
    <3> QED BY <2>2, <3>1 DEF RunningAlone, Fresh, Places, FlightTypes
  <2>6. Distinct'
    BY <2>2, NoneIsNoTask DEF Distinct, Unique, Apart, FlightTypes, Results, Entries
  <2>7. FlightPending'
    <3>1. expired.task \notin running
      BY <2>3 DEF RunningAlone, Places
    <3>2. \A x \in finished \cup batch \cup {result} \cup delayQueue :
            x.task \in Tasks => x.task # expired.task
      BY <2>3 DEF Distinct, Apart
    <3> QED BY <2>2, <2>3, <3>1, <3>2, NoneIsNoTask DEF FlightPending, Places, FlightTypes
  <2> QED BY <2>4, <2>5, <2>6, <2>7
<1>8. CASE GetTasks
  <2>1. /\ at' \in [Loops -> Steps] /\ at'["tasks"] = at["tasks"]
        /\ at'["queue"] \in {"sleep", "spawn"}
    BY <1>0, <1>8 DEF Move, Loops, Steps, GetTasks
  <2>2. fns' \subseteq Tasks /\ \A t \in fns' : registry[t] # "pending"
    BY <1>0, <1>8 DEF GetTasks, TasksBut, Pending
  <2> QED BY <1>0, <1>8, <2>1, <2>2, ListStep DEF GetTasks, joinSet, tasksVars
<1>9. CASE Spawn
  <2>1. at' \in [Loops -> Steps] /\ at'["queue"] = "sleep" /\ at'["tasks"] = at["tasks"]
    BY <1>0, <1>9 DEF Move, Loops, Steps, Spawn
  <2> QED BY <1>9, <2>1, SpawnStep DEF Spawn
<1>10. CASE QueueSleep
  <2>1. at' \in [Loops -> Steps] /\ at'["queue"] = "check" /\ at'["tasks"] = at["tasks"]
    BY <1>0, <1>10 DEF Move, Loops, Steps, QueueSleep
  <2> QED BY <1>0, <1>10, <2>1, QuietStep DEF QueueSleep, joinSet, tasksVars, queueVars
<1>11. CASE Abort("queue") \/ Drain("queue")
  BY <1>11, EndFlight DEF Loops
<1> QED BY <1>1, <1>2, <1>3, <1>4, <1>5, <1>6, <1>7, <1>8, <1>9, <1>10, <1>11 DEF QueueLoop


(* A backoff never shortens the delay, and never exceeds the limit. *)
LEMMA BackoffBounds ==
  ASSUME NEW delay \in Nat, NEW d \in Backoffs(delay)
  PROVE  d \in Nat /\ d <= MaxInterval /\ (delay <= MaxInterval => delay <= d)
  BY DelayAssumption DEF Backoffs, AtMost

(* The tasks loop keeps the invariant. *)
LEMMA TasksFlight == FlightInv /\ TasksLoop => FlightInv'
<1> SUFFICES ASSUME FlightInv, TasksLoop PROVE FlightInv'
  OBVIOUS
<1>0. at \in [Loops -> Steps] /\ known \subseteq Tasks
      /\ retryDelay \in [Tasks -> Nat] /\ "queue" \in Loops /\ "tasks" \in Loops
  BY DEF FlightInv, FlightTypes, Loops
<1>1. CASE TasksCheck
  <2>1. at' \in [Loops -> Steps] /\ at'["tasks"] \in {"abort", "collect"} /\ at'["queue"] = at["queue"]
    BY <1>0, <1>1 DEF Move, Loops, Steps, TasksCheck
  <2> QED BY <1>0, <1>1, <2>1, QuietStep DEF TasksCheck, joinSet, tasksVars, queueVars
<1>2. CASE Collect
  <2>1. at' \in [Loops -> Steps] /\ at'["tasks"] = "each" /\ at'["queue"] = at["queue"]
    BY <1>0, <1>2 DEF Move, Loops, Steps, Collect
  <2>2. /\ at["tasks"] = "collect"
        /\ batch' = finished /\ finished' = {}
        /\ UNCHANGED <<known, running, result, delayQueue, expired, fns, registry, retryDelay>>
    BY <1>2 DEF Collect, queueVars, Move
  <2> USE DEF FlightInv
  <2>3. FlightTypes' /\ Placed'
    BY <2>1, <2>2 DEF FlightTypes, Placed
  <2>4. (RunningAlone /\ FlightPending /\ Fresh)'
    BY <2>2 DEF RunningAlone, FlightPending, Fresh, Places
  <2>5. Distinct'
    BY <2>2 DEF Distinct, Unique, Apart
  <2> QED BY <2>3, <2>4, <2>5
<1>3. CASE Each
  <2>1. CASE batch = {} /\ Move("tasks", "each", "sleep") /\ UNCHANGED <<lock, batch, result>>
    <3>1. at' \in [Loops -> Steps] /\ at'["tasks"] = "sleep" /\ at'["queue"] = at["queue"]
      BY <1>0, <2>1 DEF Move, Loops, Steps
    <3> QED BY <1>0, <1>3, <2>1, <3>1, QuietStep DEF Each, joinSet, queueVars
  <2>2. CASE \E r \in batch :
               /\ batch' = batch \ {r} /\ result' = r
               /\ IF r.outcome = "panic" THEN Move("tasks", "each", "lookUp")
                                         ELSE Move("tasks", "each", "adapt")
    <3>1. PICK r \in batch :
               /\ batch' = batch \ {r} /\ result' = r
               /\ IF r.outcome = "panic" THEN Move("tasks", "each", "lookUp")
                                         ELSE Move("tasks", "each", "adapt")
      BY <2>2
    <3>2. /\ at' \in [Loops -> Steps] /\ at'["queue"] = at["queue"]
          /\ at'["tasks"] = IF r.outcome = "panic" THEN "lookUp" ELSE "adapt"
      BY <1>0, <3>1 DEF Move, Loops, Steps
    <3>3. UNCHANGED <<known, running, finished, delayQueue, expired, fns, registry, retryDelay>>
      BY <1>3 DEF Each, joinSet, queueVars
    <3> USE DEF FlightInv
    <3>4. FlightTypes' /\ Placed'
      BY <3>1, <3>2, <3>3 DEF FlightTypes, Placed
    <3>5. (RunningAlone /\ FlightPending /\ Fresh)'
      BY <3>1, <3>3 DEF RunningAlone, FlightPending, Fresh, Places
    <3>6. Distinct'
      BY <3>1, <3>3 DEF Distinct, Unique, Apart, FlightTypes, Results
    <3> QED BY <3>4, <3>5, <3>6
  <2> QED BY <1>3, <2>1, <2>2 DEF Each
<1>4. CASE Adapt
  <2>1. /\ at' \in [Loops -> Steps] /\ at'["tasks"] = "enter" /\ at'["queue"] = at["queue"]
        /\ at["tasks"] = "adapt"
    BY <1>0, <1>4 DEF Move, Loops, Steps, Adapt
  <2>2. result \in Results /\ result.task \in Tasks /\ retryDelay[result.task] \in Nat
    BY <1>0, <2>1 DEF FlightInv, Placed, Results
  <2>3. PICK d \in {InitialDelay} \cup Backoffs(retryDelay[result.task]) :
          retryDelay' = [retryDelay EXCEPT ![result.task] = d]
    BY <1>4 DEF Adapt
  <2>4. d \in Nat
    BY <2>2, <2>3, BackoffBounds, DelayAssumption
  <2>5. retryDelay' \in [Tasks -> Nat]
    BY <1>0, <2>3, <2>4
  <2> QED BY <1>0, <1>4, <2>1, <2>5, QuietStep DEF Adapt, joinSet, queueVars
<1>5. CASE Enter
  <2>1. /\ at' \in [Loops -> Steps] /\ at'["tasks"] = "each" /\ at'["queue"] = at["queue"]
        /\ at["tasks"] = "enter"
    BY <1>0, <1>5 DEF Move, Loops, Steps, Enter
  <2>2. result \in Results /\ result.task \in Tasks /\ result.outcome \in {"ok", "err"}
    BY <2>1 DEF FlightInv, Placed, Results
  <2> DEFINE e == [task |-> result.task, outcome |-> result.outcome, due |-> FALSE,
                   delay |-> IF result.outcome = "ok" THEN UpdateInterval
                                                      ELSE retryDelay[result.task]]
  <2>3. /\ delayQueue' = delayQueue \cup {e}
        /\ result' = None
        /\ UNCHANGED <<known, running, finished, batch, expired, fns, registry, retryDelay>>
    BY <1>5 DEF Enter, joinSet, queueVars
  <2>4. e.task = result.task
    OBVIOUS
  <2>5. e \in Entries
    <3>1. retryDelay[result.task] \in Nat
      BY <1>0, <2>2
    <3> QED BY <2>2, <3>1, DelayAssumption DEF Entries
  <2> HIDE DEF e
  <2> USE DEF FlightInv
  <2>6. FlightTypes' /\ Placed'
    BY <2>1, <2>3, <2>5 DEF FlightTypes, Placed
  <2>7. (RunningAlone /\ FlightPending /\ Fresh)'
    BY <2>3, <2>4, NoneIsNoTask DEF RunningAlone, FlightPending, Fresh, Places, FlightTypes
  <2>8. Distinct'
    BY <2>2, <2>3, <2>4, NoneIsNoTask DEF Distinct, Unique, Apart, FlightTypes, Entries, Results
  <2> QED BY <2>6, <2>7, <2>8
<1>6. CASE LookUp
  <2>1. at' \in [Loops -> Steps] /\ at'["tasks"] = "each" /\ at'["queue"] = at["queue"]
    BY <1>0, <1>6 DEF Move, Loops, Steps, LookUp
  <2>2. /\ result' = None
        /\ UNCHANGED <<known, running, finished, batch, delayQueue, expired, fns, registry, retryDelay>>
    BY <1>6 DEF LookUp, joinSet, queueVars
  <2> USE DEF FlightInv
  <2>3. FlightTypes' /\ Placed'
    BY <2>1, <2>2 DEF FlightTypes, Placed
  <2>4. (RunningAlone /\ FlightPending /\ Fresh)'
    BY <2>2, NoneIsNoTask DEF RunningAlone, FlightPending, Fresh, Places, FlightTypes
  <2>5. Distinct'
    BY <2>2, NoneIsNoTask DEF Distinct, Unique, Apart, FlightTypes, Entries, Results
  <2> QED BY <2>3, <2>4, <2>5
<1>7. CASE TasksSleep
  <2>1. at' \in [Loops -> Steps] /\ at'["tasks"] = "check" /\ at'["queue"] = at["queue"]
    BY <1>0, <1>7 DEF Move, Loops, Steps, TasksSleep
  <2> QED BY <1>0, <1>7, <2>1, QuietStep DEF TasksSleep, joinSet, tasksVars, queueVars
<1>8. CASE Abort("tasks") \/ Drain("tasks")
  BY <1>8, EndFlight DEF Loops
<1> QED BY <1>1, <1>2, <1>3, <1>4, <1>5, <1>6, <1>7, <1>8 DEF TasksLoop

(* So do the surroundings. *)
LEMMA OtherFlight ==
  ASSUME FlightInv,
         \/ \E t \in Tasks : Finish(t) \/ FallDue(t) \/ Learn(t)
         \/ Stop \/ Ended \/ UNCHANGED vars
  PROVE  FlightInv'
<1>0. at \in [Loops -> Steps] /\ known \subseteq Tasks /\ retryDelay \in [Tasks -> Nat]
  BY DEF FlightInv, FlightTypes
<1>1. ASSUME NEW t \in Tasks, Finish(t) PROVE FlightInv'
  <2>1. PICK r \in Results : r.task = t /\ finished' = finished \cup {r}
    BY <1>1 DEF Finish, Outcomes, Results
  <2>2. /\ t \in running /\ running' = running \ {t}
        /\ UNCHANGED <<known, at, batch, result, delayQueue, expired, fns, registry, retryDelay>>
    BY <1>1 DEF Finish, queueVars, tasksVars
  <2> USE DEF FlightInv
  <2>3. FlightTypes' /\ Placed'
    BY <2>1, <2>2 DEF FlightTypes, Placed
  <2>4. (RunningAlone /\ FlightPending /\ Fresh)'
    BY <2>1, <2>2 DEF RunningAlone, FlightPending, Fresh, Places
  <2>5. Distinct'
    BY <2>1, <2>2 DEF Distinct, Unique, Apart, RunningAlone, Places
  <2> QED BY <2>3, <2>4, <2>5
<1>2. ASSUME NEW t \in Tasks, FallDue(t) PROVE FlightInv'
  <2>1. PICK e \in delayQueue : delayQueue' = (delayQueue \ {e}) \cup {[e EXCEPT !.due = TRUE]}
    BY <1>2 DEF FallDue
  <2> DEFINE f == [e EXCEPT !.due = TRUE]
  <2>2. e \in Entries /\ f \in Entries /\ f.task = e.task
    BY <2>1 DEF FlightInv, FlightTypes, Entries
  <2>3. /\ delayQueue' = (delayQueue \ {e}) \cup {f}
        /\ UNCHANGED <<known, at, running, finished, batch, result, expired, fns, registry, retryDelay>>
    BY <1>2, <2>1 DEF FallDue, joinSet, queueVars, tasksVars
  <2> HIDE DEF f
  <2> USE DEF FlightInv
  <2>4. FlightTypes' /\ Placed'
    BY <2>2, <2>3 DEF FlightTypes, Placed
  <2>5. (RunningAlone /\ FlightPending /\ Fresh)'
    BY <2>2, <2>3 DEF RunningAlone, FlightPending, Fresh, Places
  <2>6. Distinct'
    BY <2>2, <2>3 DEF Distinct, Unique, Apart
  <2> QED BY <2>4, <2>5, <2>6
<1>3. ASSUME NEW t \in Tasks, Learn(t) PROVE FlightInv'
  BY <1>0, <1>3, QuietStep DEF Learn, joinSet, queueVars, tasksVars
<1>4. CASE Stop \/ Ended \/ UNCHANGED vars
  BY <1>0, <1>4, QuietStep DEF Stop, Ended, vars, joinSet, queueVars, tasksVars
<1> QED BY <1>1, <1>2, <1>3, <1>4

LEMMA FlightNext == FlightInv /\ [Next]_vars => FlightInv'
  BY QueueFlight, TasksFlight, OtherFlight DEF Next

-----------------------------------------------------------------------------

(* A task is never run twice at a time, however many tasks there are, and
   whatever panics, fails to be listed, or stops the manager. *)
THEOREM RunsAlone == Spec => []SingleFlight
<1>1. Spec => []FlightInv
  BY FlightInit, FlightNext, PTL DEF Spec
<1> QED BY <1>1, FlightIsSingle, PTL

-----------------------------------------------------------------------------

(***************************************************************************)
(* The delays.  An entry of the delay queue fits the retry delay of its    *)
(* task, because the delay is adapted only for the result at hand, and the *)
(* task of that is not in the delay queue.                                 *)
(***************************************************************************)

DelayInv ==
  /\ DelayFits
  /\ \A t \in Tasks : retryDelay[t] \in InitialDelay..MaxInterval
  /\ at["tasks"] = "enter" /\ result.outcome = "ok" =>
       retryDelay[result.task] = InitialDelay

LEMMA DelayInit == Init => DelayInv
  BY DelayAssumption DEF Init, DelayInv, DelayFits, Loops

(* Steps that enter nothing into the delay queue and adapt no delay. *)
LEMMA SameDelays ==
  ASSUME DelayInv, UNCHANGED <<retryDelay, result>>, delayQueue' \subseteq delayQueue,
         at'["tasks"] = "enter" => at["tasks"] = "enter"
  PROVE  DelayInv'
  BY DEF DelayInv, DelayFits

LEMMA AdaptDelays ==
  ASSUME FlightInv, DelayInv, Adapt
  PROVE  /\ DelayInv'
         /\ \A t \in Tasks : retryDelay'[t] < retryDelay[t] =>
                               result.task = t /\ result.outcome = "ok"
<1>1. result \in Results /\ result.task \in Tasks
  BY DEF Adapt, Move, FlightInv, Placed, Results
<1>2. retryDelay \in [Tasks -> Nat] /\ retryDelay[result.task] \in InitialDelay..MaxInterval
  BY <1>1 DEF FlightInv, FlightTypes, DelayInv
<1>3. PICK d \in IF result.outcome = "ok" THEN {InitialDelay}
                                            ELSE Backoffs(retryDelay[result.task]) :
        retryDelay' = [retryDelay EXCEPT ![result.task] = d]
  BY DEF Adapt
<1>4. /\ d \in InitialDelay..MaxInterval
      /\ result.outcome # "ok" => retryDelay[result.task] <= d
      /\ result.outcome = "ok" => d = InitialDelay
  <2>1. CASE result.outcome = "ok"
    BY <2>1, <1>3, DelayAssumption
  <2>2. CASE result.outcome # "ok"
    <3>1. d \in Nat /\ d <= MaxInterval /\ retryDelay[result.task] <= d
      BY <2>2, <1>2, <1>3, BackoffBounds, DelayAssumption
    <3> QED BY <2>2, <1>2, <3>1, DelayAssumption
  <2> QED BY <2>1, <2>2
<1>5. \A t \in Tasks : retryDelay'[t] = IF t = result.task THEN d ELSE retryDelay[t]
  BY <1>2, <1>3
<1>6. UNCHANGED <<delayQueue, result>>
  BY DEF Adapt
<1>7. \A e \in delayQueue : e.task \in Tasks /\ e.task # result.task
  BY <1>1 DEF FlightInv, FlightTypes, Distinct, Apart, Entries
<1>8. DelayInv'
  BY <1>1, <1>4, <1>5, <1>6, <1>7 DEF DelayInv, DelayFits
<1>9. \A t \in Tasks : retryDelay'[t] < retryDelay[t] =>
                          result.task = t /\ result.outcome = "ok"
  <2> SUFFICES ASSUME NEW t \in Tasks, retryDelay'[t] < retryDelay[t]
               PROVE  result.task = t /\ result.outcome = "ok"
    OBVIOUS
  <2>1. retryDelay[t] \in Nat /\ retryDelay[result.task] \in Nat /\ d \in Nat
    BY <1>1, <1>2, <1>4, DelayAssumption
  <2>2. t = result.task
    BY <1>5, <2>1
  <2> QED BY <1>4, <1>5, <2>1, <2>2
<1> QED BY <1>8, <1>9

LEMMA EnterDelays ==
  ASSUME FlightInv, DelayInv, Enter
  PROVE  DelayInv'
<1>1. result \in Results /\ result.task \in Tasks /\ result.outcome \in {"ok", "err"}
      /\ at["tasks"] = "enter" /\ at'["tasks"] = "each"
  BY DEF Enter, Move, FlightInv, FlightTypes, Placed, Results, Loops, Steps
<1> DEFINE e == [task |-> result.task, outcome |-> result.outcome, due |-> FALSE,
                 delay |-> IF result.outcome = "ok" THEN UpdateInterval
                                                    ELSE retryDelay[result.task]]
<1>2. delayQueue' = delayQueue \cup {e} /\ UNCHANGED retryDelay
  BY DEF Enter
<1>3. /\ e.task = result.task /\ e.outcome = result.outcome
      /\ e.delay = IF result.outcome = "ok" THEN UpdateInterval
                                            ELSE retryDelay[result.task]
  OBVIOUS
<1> HIDE DEF e
<1>4. IF e.outcome = "ok"
      THEN e.delay = UpdateInterval /\ retryDelay[e.task] = InitialDelay
      ELSE e.delay = retryDelay[e.task] /\ e.delay \in InitialDelay..MaxInterval
  BY <1>1, <1>3 DEF DelayInv
<1> QED BY <1>1, <1>2, <1>4 DEF DelayInv, DelayFits

LEMMA DueDelays ==
  ASSUME FlightInv, DelayInv, NEW t \in Tasks, FallDue(t)
  PROVE  DelayInv'
<1>1. PICK e \in delayQueue : delayQueue' = (delayQueue \ {e}) \cup {[e EXCEPT !.due = TRUE]}
  BY DEF FallDue
<1> DEFINE f == [e EXCEPT !.due = TRUE]
<1>2. f.task = e.task /\ f.outcome = e.outcome /\ f.delay = e.delay
  BY <1>1 DEF FlightInv, FlightTypes, Entries
<1>3. delayQueue' = (delayQueue \ {e}) \cup {f} /\ UNCHANGED <<retryDelay, at, result>>
  BY <1>1 DEF FallDue, tasksVars
<1> HIDE DEF f
<1> QED BY <1>1, <1>2, <1>3 DEF DelayInv, DelayFits

(* A step of a loop other than Adapt and Enter, or of the surroundings,
   leaves the delays alone. *)
LEMMA DelayNext ==
  ASSUME FlightInv, DelayInv, [Next]_vars
  PROVE  /\ DelayInv'
         /\ \A t \in Tasks : retryDelay'[t] < retryDelay[t] =>
                               result.task = t /\ result.outcome = "ok"
<1>0. at \in [Loops -> Steps] /\ retryDelay \in [Tasks -> Nat]
  BY DEF FlightInv, FlightTypes
<1>1. CASE Adapt
  BY <1>1, AdaptDelays
<1>2. CASE Enter
  <2>1. UNCHANGED retryDelay
    BY <1>2 DEF Enter
  <2> QED BY <1>0, <1>2, <2>1, EnterDelays
<1>3. ASSUME NEW t \in Tasks, FallDue(t)
      PROVE  DelayInv' /\ UNCHANGED retryDelay
  BY <1>3, DueDelays DEF FallDue, tasksVars
<1>4. CASE Each
  <2>1. UNCHANGED <<delayQueue, retryDelay>> /\ at'["tasks"] # "enter"
    BY <1>0, <1>4 DEF Each, Move, Loops, Steps
  <2> QED BY <1>0, <2>1 DEF DelayInv, DelayFits
<1>5. CASE LookUp
  <2>1. UNCHANGED <<delayQueue, retryDelay>> /\ at'["tasks"] # "enter"
    BY <1>0, <1>5 DEF LookUp, Move, Loops, Steps
  <2> QED BY <1>0, <2>1 DEF DelayInv, DelayFits
<1>6. CASE \/ QueueLoop
           \/ TasksCheck \/ Collect \/ TasksSleep \/ Abort("tasks") \/ Drain("tasks")
           \/ \E t \in Tasks : Finish(t) \/ Learn(t)
           \/ Stop \/ Ended \/ UNCHANGED vars
  <2>1. UNCHANGED <<retryDelay, result>> /\ delayQueue' \subseteq delayQueue
    <3>1. CASE QueueLoop
      BY <3>1 DEF QueueLoop, FirstTasks, FirstRegistry, FirstSpawn, SpawnAll, QueueCheck,
                  Expire, PollTimeout, Settle, GetTasks, Spawn, QueueSleep, Abort, Drain,
                  tasksVars
    <3>2. CASE TasksCheck \/ Collect \/ TasksSleep \/ Abort("tasks") \/ Drain("tasks")
      BY <3>2 DEF TasksCheck, Collect, TasksSleep, Abort, Drain, tasksVars
    <3>3. CASE \/ \E t \in Tasks : Finish(t) \/ Learn(t)
               \/ Stop \/ Ended \/ UNCHANGED vars
      BY <3>3 DEF Finish, Learn, Stop, Ended, vars, tasksVars
    <3> QED BY <1>6, <3>1, <3>2, <3>3
  <2>2. at'["tasks"] = "enter" => at["tasks"] = "enter"
    <3>1. CASE QueueLoop
      BY <1>0, <3>1 DEF QueueLoop, FirstTasks, FirstRegistry, FirstSpawn, QueueCheck,
                  Expire, PollTimeout, Settle, GetTasks, Spawn, QueueSleep, Abort, Drain,
                  Move, Loops
    <3>2. CASE TasksCheck \/ Collect \/ TasksSleep \/ Abort("tasks") \/ Drain("tasks")
      BY <1>0, <3>2 DEF TasksCheck, Collect, TasksSleep, Abort, Drain, Move, Loops
    <3>3. CASE \/ \E t \in Tasks : Finish(t) \/ Learn(t)
               \/ Stop \/ Ended \/ UNCHANGED vars
      BY <3>3 DEF Finish, Learn, Stop, Ended, vars
    <3> QED BY <1>6, <3>1, <3>2, <3>3
  <2>3. DelayInv'
    BY <2>1, <2>2, SameDelays
  <2> QED BY <1>0, <2>1, <2>3
<1> QED BY <1>0, <1>1, <1>2, <1>3, <1>4, <1>5, <1>6 DEF Next, TasksLoop

(* Every result waits as long as it should, for any tasks and intervals. *)
THEOREM DelaysFit == Spec => []DelayFits
<1>1. DelayInv => DelayFits
  BY DEF DelayInv
<1> QED BY FlightInit, FlightNext, DelayInit, DelayNext, <1>1, PTL DEF Spec

(* The delay of the next retry of a task becomes shorter with a success of
   that task only, for any tasks, intervals and interleaving: never with a
   failure, a result of another task, a panic or the stop. *)
THEOREM DelaysGrow == Spec => BackoffGrows
<1>1. FlightInv /\ DelayInv /\ [Next]_vars =>
        [\A t \in Tasks : retryDelay'[t] < retryDelay[t] =>
                             result.task = t /\ result.outcome = "ok"]_vars
  BY DelayNext
<1> QED BY FlightInit, FlightNext, DelayInit, DelayNext, <1>1, PTL DEF Spec, BackoffGrows

-----------------------------------------------------------------------------

(***************************************************************************)
(* The locks.  Where a loop is says which locks it has asked for and which *)
(* of them it has; nobody stands twice in the line of a lock, and a lock   *)
(* is only given back by the loop that has it.                             *)
(***************************************************************************)

Lines == {<<>>, <<"queue">>, <<"tasks">>, <<"queue", "tasks">>, <<"tasks", "queue">>}

InLine(s) == {s[i] : i \in DOMAIN s}

QueueSteps == {"firstTasks", "firstRegistry", "firstSpawn", "check", "poll", "settle",
               "getTasks", "spawn", "sleep", "abort", "drain", "done"}
TasksSteps == {"check", "collect", "each", "adapt", "enter", "lookUp", "sleep",
               "abort", "drain", "done"}

StepsOf(p) == IF p = "queue" THEN QueueSteps ELSE TasksSteps

(* The locks that the queue loop has asked for at step s, and those it has. *)
QueueAsks(s) ==
  {l \in Locks :
     \/ l = "agent"      /\ s \in {"firstTasks", "getTasks"}
     \/ l = "registry"   /\ s \in {"firstRegistry", "firstSpawn", "settle", "getTasks",
                                   "spawn"}
     \/ l = "joinSet"    /\ s \in {"firstSpawn", "spawn", "abort", "drain"}
     \/ l = "delayQueue" /\ s \in {"poll", "settle", "getTasks", "spawn", "sleep"}}

QueueHas(s) ==
  {l \in Locks :
     \/ l = "registry"   /\ s \in {"firstSpawn", "getTasks", "spawn"}
     \/ l = "joinSet"    /\ s = "drain"
     \/ l = "delayQueue" /\ s \in {"settle", "getTasks", "spawn", "sleep"}}

TasksAsks(s) ==
  {l \in Locks :
     \/ l = "agent"      /\ s \in {"adapt", "enter"}
     \/ l = "registry"   /\ s = "lookUp"
     \/ l = "joinSet"    /\ s \notin {"check", "done"}
     \/ l = "delayQueue" /\ s = "enter"}

TasksHas(s) ==
  {l \in Locks :
     \/ l = "agent"      /\ s = "enter"
     \/ l = "joinSet"    /\ s \in {"each", "adapt", "enter", "lookUp", "sleep", "drain"}}

Asks(p, s) == IF p = "queue" THEN QueueAsks(s) ELSE TasksAsks(s)
Has(p, s)  == IF p = "queue" THEN QueueHas(s) ELSE TasksHas(s)

LockInv ==
  /\ lock \in [Locks -> Lines]
  /\ \A p \in Loops : at[p] \in StepsOf(p)
  /\ \A p \in Loops, l \in Locks :
       /\ p \in InLine(lock[l]) <=> l \in Asks(p, at[p])
       /\ l \in Has(p, at[p]) => Holds(p, l)

(* Appending to a sequence of one. *)
LEMMA AppendOne ==
  ASSUME NEW S, NEW s \in Seq(S), NEW p \in S
  PROVE  /\ Append(s, p) \in Seq(S)
         /\ Len(Append(s, p)) = Len(s) + 1
         /\ Append(s, p)[Len(s) + 1] = p
         /\ \A i \in 1..Len(s) : Append(s, p)[i] = s[i]
<1>1. Append(s, p) \in Seq(S)
  OBVIOUS
<1>2. Len(Append(s, p)) = Len(s) + 1
  OBVIOUS
<1>3. Append(s, p)[Len(s) + 1] = p
  OBVIOUS
<1>4. \A i \in 1..Len(s) : Append(s, p)[i] = s[i]
  OBVIOUS
<1> QED BY <1>1, <1>2, <1>3, <1>4

LEMMA AppendToOne ==
  ASSUME NEW S, NEW q \in S, NEW p \in S
  PROVE  Append(<<q>>, p) = <<q, p>>
<1> DEFINE s == <<q>> t == Append(s, p)
<1>1. s \in Seq(S) /\ Len(s) = 1 /\ s[1] = q
  OBVIOUS
<1> HIDE DEF s
<1>2. t \in Seq(S) /\ Len(t) = Len(s) + 1 /\ t[Len(s) + 1] = p /\ t[1] = s[1]
  <2>1. 1 \in 1..Len(s)
    BY <1>1
  <2> QED BY <1>1, <2>1, AppendOne
<1> HIDE DEF t
<1>7. t \in Seq(S) /\ Len(t) = 2 /\ t[1] = q /\ t[2] = p
  BY <1>1, <1>2
<1>8. t = <<q, p>>
  BY <1>7
<1> QED BY <1>8 DEF s, t
(* Standing in line at the end of it. *)
LEMMA LineAppend ==
  ASSUME NEW s \in Lines, NEW p \in Loops, p \notin InLine(s)
  PROVE  /\ Append(s, p) \in Lines
         /\ \A q : q \in InLine(Append(s, p)) <=> q = p \/ q \in InLine(s)
         /\ s # <<>> => Head(Append(s, p)) = Head(s)
         /\ Append(s, p) # <<>>
<1>1. CASE s = <<>>
  <2>1. Append(s, p) = <<p>>
    BY <1>1
  <2>2. \A q : q \notin InLine(s)
    BY <1>1 DEF InLine
  <2>3. InLine(<<p>>) = {p}
    BY DEF InLine
  <2>4. <<p>> \in Lines
    BY DEF Lines, Loops
  <2> QED BY <1>1, <2>1, <2>2, <2>3, <2>4
<1>2. CASE \E q \in Loops : s = <<q>>
  <2>1. PICK q \in Loops : s = <<q>>
    BY <1>2
  <2>2. p # q
    BY <2>1 DEF InLine
  <2>3. Append(s, p) = <<q, p>>
    BY <2>1, AppendToOne
  <2> QED BY <2>1, <2>2, <2>3 DEF Lines, Loops, InLine
<1>3. CASE s \in {<<"queue", "tasks">>, <<"tasks", "queue">>}
  BY <1>3 DEF InLine, Loops
<1> QED BY <1>1, <1>2, <1>3 DEF Lines, Loops

(* The first one leaves the line. *)
LEMMA LineTail ==
  ASSUME NEW s \in Lines, s # <<>>
  PROVE  /\ Tail(s) \in Lines /\ Head(s) \in InLine(s)
         /\ \A q : q \in InLine(Tail(s)) <=> q \in InLine(s) /\ q # Head(s)
<1>1. CASE \E q \in Loops : s = <<q>>
  <2>1. PICK q \in Loops : s = <<q>>
    BY <1>1
  <2>2. Tail(s) = <<>> /\ Head(s) = q
    BY <2>1
  <2> QED BY <2>1, <2>2 DEF Lines, Loops, InLine
<1>2. CASE s \in {<<"queue", "tasks">>, <<"tasks", "queue">>}
  <2>1. PICK q \in Loops, r \in Loops : q # r /\ s = <<q, r>>
    BY <1>2 DEF Loops
  <2>2. Tail(s) = <<r>> /\ Head(s) = q
    BY <2>1
  <2> QED BY <2>1, <2>2 DEF Lines, Loops, InLine
<1> QED BY <1>1, <1>2 DEF Lines, Loops

(* Loop p gives the locks in gives back, asks for those in takes, and goes
   on to step s. *)
Changed(lk, p, gives, takes) ==
  [l \in Locks |-> IF l \in gives THEN Tail(lk[l])
                   ELSE IF l \in takes THEN Append(lk[l], p) ELSE lk[l]]

LockStep(p, gives, takes, s) ==
  /\ lock' = Changed(lock, p, gives, takes)
  /\ Move(p, at[p], s)
  /\ \A l \in gives : Holds(p, l)
  /\ \A l \in takes : l \notin Asks(p, at[p]) /\ l \notin gives
  /\ s \in StepsOf(p)
  /\ \A l \in Locks : l \in Asks(p, s) <=> l \in takes \/ (l \in Asks(p, at[p]) /\ l \notin gives)
  /\ \A l \in Has(p, s) : l \notin gives /\ Holds(p, l)

LEMMA LockStepInv ==
  ASSUME LockInv, at \in [Loops -> Steps], NEW p \in Loops, NEW gives, NEW takes, NEW s, LockStep(p, gives, takes, s)
  PROVE  LockInv'
<1>1. /\ at' \in [Loops -> {at[q] : q \in Loops} \cup {s}] /\ at'[p] = s
      /\ \A q \in Loops : q # p => at'[q] = at[q]
  BY DEF LockStep, Move
<1>2. \A q \in Loops : at'[q] \in StepsOf(q)
  BY <1>1 DEF LockStep, LockInv
<1>3. ASSUME NEW l \in Locks
      PROVE  /\ lock'[l] \in Lines
             /\ \A q \in Loops : q # p => /\ q \in InLine(lock'[l]) <=> q \in InLine(lock[l])
                                          /\ Holds(q, l) => Holds(q, l)'
             /\ p \in InLine(lock'[l]) <=> l \in Asks(p, s)
             /\ l \in Has(p, s) => Holds(p, l)'
  <2>0. lock[l] \in Lines
    BY DEF LockInv
  <2>1. CASE l \in gives
    <3>1. lock[l] # <<>> /\ Head(lock[l]) = p /\ lock'[l] = Tail(lock[l])
      BY <2>1 DEF LockStep, Changed, Holds
    <3>2. /\ lock'[l] \in Lines
          /\ \A q : q \in InLine(lock'[l]) <=> q \in InLine(lock[l]) /\ q # p
      BY <2>0, <3>1, LineTail
    <3>3. l \notin Asks(p, s) /\ l \notin Has(p, s)
      BY <2>1 DEF LockStep
    <3> QED BY <3>1, <3>2, <3>3 DEF Holds
  <2>2. CASE l \notin gives /\ l \in takes
    <3>1. lock'[l] = Append(lock[l], p) /\ l \in Asks(p, s) /\ p \notin InLine(lock[l])
      BY <2>2 DEF LockStep, Changed, LockInv
    <3>2. /\ lock'[l] \in Lines /\ lock'[l] # <<>>
          /\ \A q : q \in InLine(lock'[l]) <=> q = p \/ q \in InLine(lock[l])
          /\ lock[l] # <<>> => Head(lock'[l]) = Head(lock[l])
      BY <2>0, <3>1, LineAppend
    <3>3. l \in Has(p, s) => Holds(p, l)
      BY DEF LockStep
    <3> QED BY <3>1, <3>2, <3>3 DEF Holds
  <2>3. CASE l \notin gives /\ l \notin takes
    <3>1. lock'[l] = lock[l]
      BY <2>3 DEF LockStep, Changed
    <3>2. p \in InLine(lock[l]) <=> l \in Asks(p, s)
      BY <2>3 DEF LockStep, LockInv
    <3>3. l \in Has(p, s) => Holds(p, l)
      BY DEF LockStep
    <3> QED BY <2>0, <3>1, <3>2, <3>3 DEF Holds
  <2> QED BY <2>1, <2>2, <2>3
<1>4. lock' \in [Locks -> Lines]
  <2>1. lock' = [l \in Locks |-> lock'[l]]
    BY DEF LockStep, Changed
  <2> QED BY <1>3, <2>1
<1>5. ASSUME NEW q \in Loops, NEW l \in Locks
      PROVE  /\ q \in InLine(lock'[l]) <=> l \in Asks(q, at'[q])
             /\ l \in Has(q, at'[q]) => Holds(q, l)'
  <2>1. CASE q = p
    BY <1>1, <1>3, <2>1
  <2>2. CASE q # p
    BY <1>1, <1>3, <2>2 DEF LockInv
  <2> QED BY <2>1, <2>2
<1> QED BY <1>2, <1>4, <1>5 DEF LockInv

(* The changes of the locks that the actions make. *)
LockChanges(p) ==
  /\ \A l \in Locks : /\ Requested(lock, l, p) = Changed(lock, p, {}, {l})
                      /\ Released(lock, l) = Changed(lock, p, {l}, {})
  /\ lock = Changed(lock, p, {}, {})
  /\ \A l \in Locks, m \in Locks : l # m =>
       /\ Released(Released(lock, l), m) = Changed(lock, p, {l, m}, {})
       /\ Requested(Released(lock, l), m, p) = Changed(lock, p, {l}, {m})

LEMMA LockChange ==
  ASSUME LockInv, NEW p
  PROVE  LockChanges(p)
<1>0. lock = [l \in Locks |-> lock[l]]
  BY DEF LockInv
<1>1. ASSUME NEW l \in Locks
      PROVE  Requested(lock, l, p) = Changed(lock, p, {}, {l})
  BY <1>0 DEF Requested, Changed
<1>2. ASSUME NEW l \in Locks
      PROVE  Released(lock, l) = Changed(lock, p, {l}, {})
  BY <1>0 DEF Released, Changed
<1>3. lock = Changed(lock, p, {}, {})
  BY <1>0 DEF Changed
<1>4. ASSUME NEW l \in Locks, NEW m \in Locks, l # m
      PROVE  /\ Released(Released(lock, l), m) = Changed(lock, p, {l, m}, {})
             /\ Requested(Released(lock, l), m, p) = Changed(lock, p, {l}, {m})
  <2> DEFINE n == [k \in Locks |-> IF k = l THEN Tail(lock[k]) ELSE lock[k]]
  <2>0. Released(lock, l) = n
    BY <1>0 DEF Released
  <2>1. Released(n, m) = [k \in Locks |-> IF k = m THEN Tail(n[k]) ELSE n[k]]
    BY DEF Released
  <2>2. Requested(n, m, p) = [k \in Locks |-> IF k = m THEN Append(n[k], p) ELSE n[k]]
    BY DEF Requested
  <2>3. \A k \in Locks : n[k] = IF k = l THEN Tail(lock[k]) ELSE lock[k]
    OBVIOUS
  <2> HIDE DEF n
  <2>4. /\ Released(n, m) = Changed(lock, p, {l, m}, {})
        /\ Requested(n, m, p) = Changed(lock, p, {l}, {m})
    BY <1>4, <2>1, <2>2, <2>3 DEF Changed
  <2> QED BY <2>0, <2>4
<1> QED BY <1>1, <1>2, <1>3, <1>4 DEF LockChanges

LEMMA LockInit == Init => LockInv
<1> SUFFICES ASSUME Init PROVE LockInv
  OBVIOUS
<1>1. /\ lock = [l \in Locks |-> IF l = "agent" THEN <<"queue">> ELSE <<>>]
      /\ at["queue"] = "firstTasks" /\ at["tasks"] = "check"
  BY DEF Init, Loops
<1>2. lock \in [Locks -> Lines]
  BY <1>1 DEF Lines
<1>3. \A l \in Locks : \A p : p \in InLine(lock[l]) <=> l = "agent" /\ p = "queue"
  BY <1>1 DEF InLine
<1>4. \A l \in Locks : /\ l \in QueueAsks("firstTasks") <=> l = "agent"
                       /\ l \notin QueueHas("firstTasks")
                       /\ l \notin TasksAsks("check") /\ l \notin TasksHas("check")
  BY DEF QueueAsks, QueueHas, TasksAsks, TasksHas
<1> QED BY <1>1, <1>2, <1>3, <1>4 DEF LockInv, Loops, StepsOf, QueueSteps, TasksSteps, Asks, Has


(* The steps of the queue loop, one by one. *)
LEMMA QueueLocks ==
  ASSUME LockInv, FlightInv, QueueLoop
  PROVE  LockInv'
<1>0. /\ lock = [l \in Locks |-> lock[l]] /\ at \in [Loops -> Steps]
      /\ "queue" \in Loops /\ "agent" \in Locks /\ "registry" \in Locks
      /\ "joinSet" \in Locks /\ "delayQueue" \in Locks
      /\ at["queue"] \in QueueSteps
      /\ \A l \in Has("queue", at["queue"]) : Holds("queue", l)
  BY DEF LockInv, FlightInv, FlightTypes, Loops, Locks, StepsOf, Has, QueueHas
<1>a. /\ \A l \in Locks : /\ Requested(lock, l, "queue") = Changed(lock, "queue", {}, {l})
                          /\ Released(lock, l) = Changed(lock, "queue", {l}, {})
      /\ lock = Changed(lock, "queue", {}, {})
      /\ \A l \in Locks, m \in Locks : l # m =>
           /\ Released(Released(lock, l), m) = Changed(lock, "queue", {l, m}, {})
           /\ Requested(Released(lock, l), m, "queue") = Changed(lock, "queue", {l}, {m})
  <2>1. LockChanges("queue")
    BY LockChange
  <2> QED BY <2>1 DEF LockChanges
<1> USE DEF StepsOf, QueueSteps, Asks, QueueAsks, Has, QueueHas
<1>1. CASE FirstTasks
  <2>1. CASE Move("queue", "firstTasks", "check") /\ lock' = Released(lock, "agent")
    <3>1. lock' = Changed(lock, "queue", {"agent"}, {})
      BY <1>0, <1>1, <2>1, <1>a DEF FirstTasks
    <3>2. LockStep("queue", {"agent"}, {}, "check")
      BY <1>0, <1>1, <2>1, <3>1 DEF FirstTasks, LockStep, Move
    <3> QED BY <1>0, <3>2, LockStepInv
  <2>2. CASE /\ Move("queue", "firstTasks", "firstRegistry")
             /\ lock' = Requested(Released(lock, "agent"), "registry", "queue")
    <3>1. lock' = Changed(lock, "queue", {"agent"}, {"registry"})
      BY <1>0, <1>1, <2>2, <1>a DEF FirstTasks
    <3>2. LockStep("queue", {"agent"}, {"registry"}, "firstRegistry")
      BY <1>0, <1>1, <2>2, <3>1 DEF FirstTasks, LockStep, Move
    <3> QED BY <1>0, <3>2, LockStepInv
  <2> QED BY <1>1, <2>1, <2>2 DEF FirstTasks
<1>2. CASE FirstRegistry
  <2>1. lock' = Changed(lock, "queue", {}, {"joinSet"})
    BY <1>0, <1>2, <1>a DEF FirstRegistry
  <2>2. LockStep("queue", {}, {"joinSet"}, "firstSpawn")
    BY <1>0, <1>2, <2>1 DEF FirstRegistry, LockStep, Move
  <2> QED BY <1>0, <2>2, LockStepInv
<1>3. CASE FirstSpawn
  <2>1. lock' = Changed(lock, "queue", {"joinSet", "registry"}, {})
    BY <1>0, <1>3, <1>a DEF FirstSpawn, SpawnAll
  <2>2. LockStep("queue", {"joinSet", "registry"}, {}, "check")
    BY <1>0, <1>3, <2>1 DEF FirstSpawn, SpawnAll, LockStep, Move
  <2> QED BY <1>0, <2>2, LockStepInv
<1>4. CASE QueueCheck
  <2>1. CASE Move("queue", "check", "abort") /\ lock' = Requested(lock, "joinSet", "queue")
    <3>1. lock' = Changed(lock, "queue", {}, {"joinSet"})
      BY <1>0, <2>1, <1>a
    <3>2. LockStep("queue", {}, {"joinSet"}, "abort")
      BY <1>0, <2>1, <3>1 DEF LockStep, Move
    <3> QED BY <1>0, <3>2, LockStepInv
  <2>2. CASE Move("queue", "check", "poll") /\ lock' = Requested(lock, "delayQueue", "queue")
    <3>1. lock' = Changed(lock, "queue", {}, {"delayQueue"})
      BY <1>0, <2>2, <1>a
    <3>2. LockStep("queue", {}, {"delayQueue"}, "poll")
      BY <1>0, <2>2, <3>1 DEF LockStep, Move
    <3> QED BY <1>0, <3>2, LockStepInv
  <2> QED BY <1>4, <2>1, <2>2 DEF QueueCheck
<1>5. CASE Expire
  <2>1. lock' = Changed(lock, "queue", {}, {"registry"})
    BY <1>0, <1>5, <1>a DEF Expire
  <2>2. LockStep("queue", {}, {"registry"}, "settle")
    BY <1>0, <1>5, <2>1 DEF Expire, LockStep, Move
  <2> QED BY <1>0, <2>2, LockStepInv
<1>6. CASE PollTimeout
  <2>1. lock' = Changed(lock, "queue", {}, {})
    BY <1>0, <1>6, <1>a DEF PollTimeout
  <2>2. LockStep("queue", {}, {}, "sleep")
    BY <1>0, <1>6, <2>1 DEF PollTimeout, LockStep, Move
  <2> QED BY <1>0, <2>2, LockStepInv
<1>7. CASE Settle
  <2>1. lock' = Changed(lock, "queue", {}, {"agent"})
    BY <1>0, <1>7, <1>a DEF Settle
  <2>2. LockStep("queue", {}, {"agent"}, "getTasks")
    BY <1>0, <1>7, <2>1 DEF Settle, LockStep, Move
  <2> QED BY <1>0, <2>2, LockStepInv
<1>8. CASE GetTasks
  <2>1. CASE /\ Move("queue", "getTasks", "sleep")
             /\ lock' = Released(Released(lock, "agent"), "registry")
    <3>1. lock' = Changed(lock, "queue", {"agent", "registry"}, {})
      BY <1>0, <1>8, <2>1, <1>a DEF GetTasks
    <3>2. LockStep("queue", {"agent", "registry"}, {}, "sleep")
      BY <1>0, <1>8, <2>1, <3>1 DEF GetTasks, LockStep, Move
    <3> QED BY <1>0, <3>2, LockStepInv
  <2>2. CASE /\ Move("queue", "getTasks", "spawn")
             /\ lock' = Requested(Released(lock, "agent"), "joinSet", "queue")
    <3>1. lock' = Changed(lock, "queue", {"agent"}, {"joinSet"})
      BY <1>0, <1>8, <2>2, <1>a DEF GetTasks
    <3>2. LockStep("queue", {"agent"}, {"joinSet"}, "spawn")
      BY <1>0, <1>8, <2>2, <3>1 DEF GetTasks, LockStep, Move
    <3> QED BY <1>0, <3>2, LockStepInv
  <2> QED BY <1>8, <2>1, <2>2 DEF GetTasks
<1>9. CASE Spawn
  <2>1. lock' = Changed(lock, "queue", {"joinSet", "registry"}, {})
    BY <1>0, <1>9, <1>a DEF Spawn, SpawnAll
  <2>2. LockStep("queue", {"joinSet", "registry"}, {}, "sleep")
    BY <1>0, <1>9, <2>1 DEF Spawn, SpawnAll, LockStep, Move
  <2> QED BY <1>0, <2>2, LockStepInv
<1>10. CASE QueueSleep
  <2>1. lock' = Changed(lock, "queue", {"delayQueue"}, {})
    BY <1>0, <1>10, <1>a DEF QueueSleep
  <2>2. LockStep("queue", {"delayQueue"}, {}, "check")
    BY <1>0, <1>10, <2>1 DEF QueueSleep, LockStep, Move
  <2> QED BY <1>0, <2>2, LockStepInv
<1>11. CASE Abort("queue")
  <2>1. lock' = Changed(lock, "queue", {}, {})
    BY <1>0, <1>11, <1>a DEF Abort
  <2>2. LockStep("queue", {}, {}, "drain")
    BY <1>0, <1>11, <2>1 DEF Abort, LockStep, Move
  <2> QED BY <1>0, <2>2, LockStepInv
<1>12. CASE Drain("queue")
  <2>1. lock' = Changed(lock, "queue", {"joinSet"}, {})
    BY <1>0, <1>12, <1>a DEF Drain
  <2>2. LockStep("queue", {"joinSet"}, {}, "done")
    BY <1>0, <1>12, <2>1 DEF Drain, LockStep, Move
  <2> QED BY <1>0, <2>2, LockStepInv
<1> QED BY <1>1, <1>2, <1>3, <1>4, <1>5, <1>6, <1>7, <1>8, <1>9, <1>10, <1>11,
           <1>12 DEF QueueLoop


(* The steps of the tasks loop. *)
LEMMA TasksLocks ==
  ASSUME LockInv, FlightInv, TasksLoop
  PROVE  LockInv'
<1>0. /\ lock = [l \in Locks |-> lock[l]] /\ at \in [Loops -> Steps]
      /\ "tasks" \in Loops /\ "agent" \in Locks /\ "registry" \in Locks
      /\ "joinSet" \in Locks /\ "delayQueue" \in Locks
      /\ at["tasks"] \in TasksSteps
      /\ \A l \in Has("tasks", at["tasks"]) : Holds("tasks", l)
  BY DEF LockInv, FlightInv, FlightTypes, Loops, Locks, StepsOf, Has, TasksHas
<1>a. /\ \A l \in Locks : /\ Requested(lock, l, "tasks") = Changed(lock, "tasks", {}, {l})
                          /\ Released(lock, l) = Changed(lock, "tasks", {l}, {})
      /\ lock = Changed(lock, "tasks", {}, {})
      /\ \A l \in Locks, m \in Locks : l # m =>
           /\ Released(Released(lock, l), m) = Changed(lock, "tasks", {l, m}, {})
           /\ Requested(Released(lock, l), m, "tasks") = Changed(lock, "tasks", {l}, {m})
  <2>1. LockChanges("tasks")
    BY LockChange
  <2> QED BY <2>1 DEF LockChanges
<1> USE DEF StepsOf, TasksSteps, Asks, TasksAsks, Has, TasksHas
<1>1. CASE TasksCheck
  <2>1. lock' = Changed(lock, "tasks", {}, {"joinSet"})
    BY <1>0, <1>1, <1>a DEF TasksCheck
  <2>2. CASE Move("tasks", "check", "abort")
    <3>1. LockStep("tasks", {}, {"joinSet"}, "abort")
      BY <1>0, <2>1, <2>2 DEF LockStep, Move
    <3> QED BY <1>0, <3>1, LockStepInv
  <2>3. CASE Move("tasks", "check", "collect")
    <3>1. LockStep("tasks", {}, {"joinSet"}, "collect")
      BY <1>0, <2>1, <2>3 DEF LockStep, Move
    <3> QED BY <1>0, <3>1, LockStepInv
  <2> QED BY <1>1, <2>2, <2>3 DEF TasksCheck
<1>2. CASE Collect
  <2>1. lock' = Changed(lock, "tasks", {}, {})
    BY <1>0, <1>2, <1>a DEF Collect
  <2>2. LockStep("tasks", {}, {}, "each")
    BY <1>0, <1>2, <2>1 DEF Collect, LockStep, Move
  <2> QED BY <1>0, <2>2, LockStepInv
<1>3. CASE Each
  <2>1. CASE Move("tasks", "each", "sleep") /\ UNCHANGED lock
    <3>1. LockStep("tasks", {}, {}, "sleep")
      BY <1>0, <1>a, <2>1 DEF LockStep, Move
    <3> QED BY <1>0, <3>1, LockStepInv
  <2>2. CASE Move("tasks", "each", "lookUp") /\ lock' = Requested(lock, "registry", "tasks")
    <3>1. lock' = Changed(lock, "tasks", {}, {"registry"})
      BY <1>0, <1>a, <2>2
    <3>2. LockStep("tasks", {}, {"registry"}, "lookUp")
      BY <1>0, <2>2, <3>1 DEF LockStep, Move
    <3> QED BY <1>0, <3>2, LockStepInv
  <2>3. CASE Move("tasks", "each", "adapt") /\ lock' = Requested(lock, "agent", "tasks")
    <3>1. lock' = Changed(lock, "tasks", {}, {"agent"})
      BY <1>0, <1>a, <2>3
    <3>2. LockStep("tasks", {}, {"agent"}, "adapt")
      BY <1>0, <2>3, <3>1 DEF LockStep, Move
    <3> QED BY <1>0, <3>2, LockStepInv
  <2> QED BY <1>3, <2>1, <2>2, <2>3 DEF Each
<1>4. CASE Adapt
  <2>1. lock' = Changed(lock, "tasks", {}, {"delayQueue"})
    BY <1>0, <1>4, <1>a DEF Adapt
  <2>2. LockStep("tasks", {}, {"delayQueue"}, "enter")
    BY <1>0, <1>4, <2>1 DEF Adapt, LockStep, Move
  <2> QED BY <1>0, <2>2, LockStepInv
<1>5. CASE Enter
  <2>1. lock' = Changed(lock, "tasks", {"delayQueue", "agent"}, {})
    BY <1>0, <1>5, <1>a DEF Enter
  <2>2. LockStep("tasks", {"delayQueue", "agent"}, {}, "each")
    BY <1>0, <1>5, <2>1 DEF Enter, LockStep, Move
  <2> QED BY <1>0, <2>2, LockStepInv
<1>6. CASE LookUp
  <2>1. lock' = Changed(lock, "tasks", {"registry"}, {})
    BY <1>0, <1>6, <1>a DEF LookUp
  <2>2. LockStep("tasks", {"registry"}, {}, "each")
    BY <1>0, <1>6, <2>1 DEF LookUp, LockStep, Move
  <2> QED BY <1>0, <2>2, LockStepInv
<1>7. CASE TasksSleep
  <2>1. lock' = Changed(lock, "tasks", {"joinSet"}, {})
    BY <1>0, <1>7, <1>a DEF TasksSleep
  <2>2. LockStep("tasks", {"joinSet"}, {}, "check")
    BY <1>0, <1>7, <2>1 DEF TasksSleep, LockStep, Move
  <2> QED BY <1>0, <2>2, LockStepInv
<1>8. CASE Abort("tasks")
  <2>1. lock' = Changed(lock, "tasks", {}, {})
    BY <1>0, <1>8, <1>a DEF Abort
  <2>2. LockStep("tasks", {}, {}, "drain")
    BY <1>0, <1>8, <2>1 DEF Abort, LockStep, Move
  <2> QED BY <1>0, <2>2, LockStepInv
<1>9. CASE Drain("tasks")
  <2>1. lock' = Changed(lock, "tasks", {"joinSet"}, {})
    BY <1>0, <1>9, <1>a DEF Drain
  <2>2. LockStep("tasks", {"joinSet"}, {}, "done")
    BY <1>0, <1>9, <2>1 DEF Drain, LockStep, Move
  <2> QED BY <1>0, <2>2, LockStepInv
<1> QED BY <1>1, <1>2, <1>3, <1>4, <1>5, <1>6, <1>7, <1>8, <1>9 DEF TasksLoop

LEMMA LockNext == FlightInv /\ LockInv /\ [Next]_vars => LockInv'
<1> SUFFICES ASSUME FlightInv, LockInv, [Next]_vars PROVE LockInv'
  OBVIOUS
<1>1. CASE \/ \E t \in Tasks : Finish(t) \/ FallDue(t) \/ Learn(t)
           \/ Stop \/ Ended \/ UNCHANGED vars
  <2>1. UNCHANGED <<lock, at>>
    BY <1>1 DEF Finish, FallDue, Learn, Stop, Ended, vars
  <2> QED BY <2>1 DEF LockInv, Holds
<1> QED BY <1>1, QueueLocks, TasksLocks DEF Next

(* The variables keep their types: in particular no loop ever waits for a
   lock that it has, or stands in the line of a lock twice, and a lock is
   given back only by the loop that has it. *)
THEOREM ManagerTypes == Spec => []TypeOK
<1>1. Init => cancelled \in BOOLEAN
  BY DEF Init
<1>2. cancelled \in BOOLEAN /\ [Next]_vars => (cancelled \in BOOLEAN)'
  BY DEF Next, QueueLoop, TasksLoop, FirstTasks, FirstRegistry, FirstSpawn, SpawnAll,
         QueueCheck, Expire, PollTimeout, Settle, GetTasks, Spawn, QueueSleep,
         TasksCheck, Collect, Each, Adapt, Enter, LookUp, TasksSleep, Abort, Drain,
         Finish, FallDue, Learn, Stop, Ended, vars
<1>3. FlightInv /\ LockInv /\ cancelled \in BOOLEAN => TypeOK
  BY DEF FlightInv, FlightTypes, LockInv, Lines, TypeOK
<1> QED BY FlightInit, FlightNext, LockInit, LockNext, <1>1, <1>2, <1>3, PTL DEF Spec

-----------------------------------------------------------------------------

(***************************************************************************)
(* No task is lost.  CarryInv says what each loop carries where: results   *)
(* are in the batch or at hand only while the tasks loop handles them, an  *)
(* expired one is at hand only until it is settled, and so nothing is      *)
(* overwritten; the loops shut the join set down only when they have been  *)
(* told to stop; and the result that is dropped is that of a panic.        *)
(***************************************************************************)

Flies(t) == t \in running \/ \E x \in Places : x.task = t

CarryInv ==
  /\ \A p \in Loops : at[p] \in {"abort", "drain", "done"} => cancelled
  /\ at["tasks"] \notin {"each", "adapt", "enter", "lookUp"} => batch = {}
  /\ at["tasks"] \notin {"adapt", "enter", "lookUp"} => result = None
  /\ at["tasks"] = "lookUp" => result.outcome = "panic"
  /\ at["queue"] # "settle" => expired = None
  /\ \A r \in Results :
       r \in finished \cup batch \cup {result} /\ r.outcome = "panic" => r.task \in MayPanic

Carried ==
  \A t \in Tasks \ MayPanic : registry[t] = "pending" /\ ~ cancelled => Flies(t)

LEMMA FliesInFlight ==
  ASSUME NEW t \in Tasks, Flies(t)
  PROVE  InFlight(t)
<1>1. CASE t \in running
  <2>1. <<"running", t>> \in Tokens(t)
    BY <1>1 DEF Tokens
  <2> QED BY <2>1 DEF InFlight
<1>2. CASE \E x \in Places : x.task = t
  <2>1. PICK x \in Places : x.task = t
    BY <1>2
  <2>2. \/ <<"finished", x>> \in Tokens(t) \/ <<"batch", x>> \in Tokens(t)
        \/ <<"result", x>> \in Tokens(t) \/ <<"delayed", x>> \in Tokens(t)
        \/ <<"expired", x>> \in Tokens(t)
    BY <2>1 DEF Tokens, Places
  <2> QED BY <2>2 DEF InFlight
<1> QED BY <1>1, <1>2 DEF Flies

LEMMA CarryInit == Init => CarryInv /\ Carried
<1> SUFFICES ASSUME Init PROVE CarryInv /\ Carried
  OBVIOUS
<1> USE DEF Init
<1>1. CarryInv
  BY NoneIsNoTask DEF CarryInv, Loops
<1>2. Carried
  BY DEF Carried
<1> QED BY <1>1, <1>2

(* Steps that change no place, and neither the registry nor the flag. *)
LEMMA QuietCarry ==
  ASSUME FlightInv, CarryInv, Carried, at' \in [Loops -> Steps],
         UNCHANGED <<cancelled, running, finished, batch, result, delayQueue,
                     expired, registry>>,
         \A p \in Loops : at'[p] \in {"abort", "drain", "done"} => cancelled,
         at'["queue"] # "settle" => expired = None,
         at'["tasks"] \in {"each", "adapt", "enter", "lookUp"} \/ batch = {},
         at'["tasks"] \in {"adapt", "enter", "lookUp"} \/ result = None,
         at'["tasks"] = "lookUp" => at["tasks"] = "lookUp"
  PROVE  CarryInv' /\ Carried'
<1>1. CarryInv'
  BY DEF CarryInv
<1>2. Carried'
  BY DEF Carried, Flies, Places
<1> QED BY <1>1, <1>2

LEMMA SpawnCarry ==
  ASSUME FlightInv, CarryInv, Carried, SpawnAll, at' \in [Loops -> Steps],
         at["queue"] # "settle", at'["queue"] \in {"check", "sleep"},
         at'["tasks"] = at["tasks"]
  PROVE  CarryInv' /\ Carried'
<1>1. CarryInv'
  BY DEF CarryInv, SpawnAll, tasksVars, Loops
<1>2. Carried'
  <2>1. SUFFICES ASSUME NEW t \in Tasks \ MayPanic, registry'[t] = "pending", ~ cancelled'
                 PROVE  Flies(t)'
    BY DEF Carried
  <2>2. CASE t \in fns
    BY <2>2 DEF SpawnAll, Flies
  <2>3. CASE t \notin fns
    <3>1. registry[t] = "pending" /\ ~ cancelled
      BY <2>1, <2>3 DEF SpawnAll
    <3>2. Flies(t)
      BY <3>1 DEF Carried
    <3> QED BY <3>2 DEF SpawnAll, tasksVars, Flies, Places
  <2> QED BY <2>2, <2>3
<1> QED BY <1>1, <1>2

(* Once cancelled nothing is owed to anybody. *)
LEMMA EndCarry ==
  ASSUME FlightInv, CarryInv, Carried, NEW p \in Loops, Abort(p) \/ Drain(p)
  PROVE  CarryInv' /\ Carried'
<1>1. /\ at \in [Loops -> Steps] /\ at[p] \in {"abort", "drain"}
      /\ at' = [at EXCEPT ![p] = IF at[p] = "abort" THEN "drain" ELSE "done"]
  BY DEF FlightInv, FlightTypes, Abort, Drain, Move
<1>2. /\ finished' \subseteq finished
      /\ UNCHANGED <<cancelled, batch, result, expired>> /\ cancelled
  BY <1>1 DEF Abort, Drain, queueVars, tasksVars, CarryInv
<1>3. /\ at'[p] \in {"drain", "done"} /\ \A q \in Loops : q # p => at'[q] = at[q]
  BY <1>1
<1>4. /\ p = "tasks" => batch = {} /\ result = None
      /\ p = "queue" => expired = None
  BY <1>1 DEF CarryInv
<1>5. CarryInv'
  BY <1>2, <1>3, <1>4 DEF CarryInv, Loops
<1>6. Carried'
  BY <1>2 DEF Carried
<1> QED BY <1>5, <1>6

LEMMA QueueCarry ==
  ASSUME FlightInv, CarryInv, Carried, QueueLoop
  PROVE  CarryInv' /\ Carried'
<1>0. at \in [Loops -> Steps] /\ "queue" \in Loops /\ "tasks" \in Loops
  BY DEF FlightInv, FlightTypes, Loops
<1>1. CASE FirstTasks
  <2>1. /\ at' \in [Loops -> Steps] /\ at["queue"] = "firstTasks"
        /\ at'["queue"] \in {"check", "firstRegistry"} /\ at'["tasks"] = at["tasks"]
    BY <1>0, <1>1 DEF Move, Loops, Steps, FirstTasks
  <2> QED BY <1>1, <2>1, QuietCarry DEF FirstTasks, joinSet, tasksVars, CarryInv, Loops
<1>2. CASE FirstRegistry
  <2>1. /\ at' \in [Loops -> Steps] /\ at["queue"] = "firstRegistry"
        /\ at'["queue"] = "firstSpawn" /\ at'["tasks"] = at["tasks"]
    BY <1>0, <1>2 DEF Move, Loops, Steps, FirstRegistry
  <2> QED BY <1>2, <2>1, QuietCarry DEF FirstRegistry, joinSet, tasksVars, queueVars, CarryInv, Loops
<1>3. CASE FirstSpawn
  <2>1. /\ at' \in [Loops -> Steps] /\ at["queue"] = "firstSpawn"
        /\ at'["queue"] = "check" /\ at'["tasks"] = at["tasks"]
    BY <1>0, <1>3 DEF Move, Loops, Steps, FirstSpawn
  <2> QED BY <1>3, <2>1, SpawnCarry DEF FirstSpawn
<1>4. CASE QueueCheck
  <2>1. /\ at' \in [Loops -> Steps] /\ at["queue"] = "check"
        /\ at'["queue"] \in {"abort", "poll"} /\ at'["tasks"] = at["tasks"]
        /\ at'["queue"] = "abort" => cancelled
    BY <1>0, <1>4 DEF Move, Loops, Steps, QueueCheck
  <2> QED BY <1>4, <2>1, QuietCarry DEF QueueCheck, joinSet, tasksVars, queueVars, CarryInv, Loops
<1>5. CASE Expire
  <2>1. /\ at' \in [Loops -> Steps] /\ at["queue"] = "poll"
        /\ at'["queue"] = "settle" /\ at'["tasks"] = at["tasks"]
    BY <1>0, <1>5 DEF Move, Loops, Steps, Expire
  <2>2. PICK e \in delayQueue : expired' = e /\ delayQueue' = delayQueue \ {e}
    BY <1>5 DEF Expire
  <2>3. UNCHANGED <<cancelled, running, finished, batch, result, registry>>
    BY <1>5 DEF Expire, joinSet, tasksVars
  <2>4. CarryInv'
    BY <2>1, <2>3 DEF CarryInv, Loops
  <2>5. expired = None
    BY <2>1 DEF CarryInv
  <2>6. Carried'
    BY <2>2, <2>3, <2>5, NoneIsNoTask DEF Carried, Flies, Places
  <2> QED BY <2>4, <2>6
<1>6. CASE PollTimeout
  <2>1. /\ at' \in [Loops -> Steps] /\ at["queue"] = "poll"
        /\ at'["queue"] = "sleep" /\ at'["tasks"] = at["tasks"]
    BY <1>0, <1>6 DEF Move, Loops, Steps, PollTimeout
  <2> QED BY <1>6, <2>1, QuietCarry DEF PollTimeout, joinSet, tasksVars, queueVars, CarryInv, Loops
<1>7. CASE Settle
  <2>1. /\ at' \in [Loops -> Steps] /\ at["queue"] = "settle"
        /\ at'["queue"] = "getTasks" /\ at'["tasks"] = at["tasks"]
    BY <1>0, <1>7 DEF Move, Loops, Steps, Settle
  <2>2. /\ expired' = None
        /\ UNCHANGED <<cancelled, running, finished, batch, result, delayQueue>>
        /\ registry' = [registry EXCEPT ![expired.task] =
                          IF expired.outcome = "ok" THEN "resolved" ELSE "failed"]
    BY <1>7 DEF Settle, joinSet, tasksVars
  <2>3. CarryInv'
    BY <2>1, <2>2 DEF CarryInv, Loops
  <2>4. ASSUME NEW t \in Tasks \ MayPanic, registry'[t] = "pending", ~ cancelled'
        PROVE  Flies(t)'
    <3>1. t # expired.task /\ registry[t] = "pending"
      BY <2>2, <2>4 DEF FlightInv, FlightTypes
    <3>2. Flies(t)
      BY <2>2, <2>4, <3>1 DEF Carried
    <3> QED BY <2>2, <3>1, <3>2 DEF Flies, Places
  <2> QED BY <2>3, <2>4 DEF Carried
<1>8. CASE GetTasks
  <2>1. /\ at' \in [Loops -> Steps] /\ at["queue"] = "getTasks" /\ at'["tasks"] = at["tasks"]
        /\ at'["queue"] \in {"sleep", "spawn"}
    BY <1>0, <1>8 DEF Move, Loops, Steps, GetTasks
  <2> QED BY <1>8, <2>1, QuietCarry DEF GetTasks, joinSet, tasksVars, CarryInv, Loops
<1>9. CASE Spawn
  <2>1. /\ at' \in [Loops -> Steps] /\ at["queue"] = "spawn"
        /\ at'["queue"] = "sleep" /\ at'["tasks"] = at["tasks"]
    BY <1>0, <1>9 DEF Move, Loops, Steps, Spawn
  <2> QED BY <1>9, <2>1, SpawnCarry DEF Spawn
<1>10. CASE QueueSleep
  <2>1. /\ at' \in [Loops -> Steps] /\ at["queue"] = "sleep"
        /\ at'["queue"] = "check" /\ at'["tasks"] = at["tasks"]
    BY <1>0, <1>10 DEF Move, Loops, Steps, QueueSleep
  <2> QED BY <1>10, <2>1, QuietCarry DEF QueueSleep, joinSet, tasksVars, queueVars, CarryInv, Loops
<1>11. CASE Abort("queue") \/ Drain("queue")
  BY <1>0, <1>11, EndCarry
<1> QED BY <1>1, <1>2, <1>3, <1>4, <1>5, <1>6, <1>7, <1>8, <1>9, <1>10, <1>11 DEF QueueLoop

LEMMA TasksCarry ==
  ASSUME FlightInv, CarryInv, Carried, TasksLoop
  PROVE  CarryInv' /\ Carried'
<1>0. at \in [Loops -> Steps] /\ "queue" \in Loops /\ "tasks" \in Loops
  BY DEF FlightInv, FlightTypes, Loops
<1>1. CASE TasksCheck
  <2>1. /\ at' \in [Loops -> Steps] /\ at["tasks"] = "check"
        /\ at'["tasks"] \in {"abort", "collect"} /\ at'["queue"] = at["queue"]
        /\ at'["tasks"] = "abort" => cancelled
    BY <1>0, <1>1 DEF Move, Loops, Steps, TasksCheck
  <2> QED BY <1>1, <2>1, QuietCarry DEF TasksCheck, joinSet, tasksVars, queueVars, CarryInv, Loops
<1>2. CASE Collect
  <2>1. /\ at' \in [Loops -> Steps] /\ at["tasks"] = "collect"
        /\ at'["tasks"] = "each" /\ at'["queue"] = at["queue"]
    BY <1>0, <1>2 DEF Move, Loops, Steps, Collect
  <2>2. /\ batch' = finished /\ finished' = {} /\ batch = {}
        /\ UNCHANGED <<cancelled, running, result, delayQueue, expired, registry>>
    BY <1>2, <2>1 DEF Collect, queueVars, CarryInv
  <2>3. CarryInv'
    BY <2>1, <2>2 DEF CarryInv, Loops
  <2>4. Carried'
    BY <2>2 DEF Carried, Flies, Places
  <2> QED BY <2>3, <2>4
<1>3. CASE Each
  <2>1. CASE batch = {} /\ Move("tasks", "each", "sleep") /\ UNCHANGED <<lock, batch, result>>
    <3>1. /\ at' \in [Loops -> Steps] /\ at["tasks"] = "each"
          /\ at'["tasks"] = "sleep" /\ at'["queue"] = at["queue"]
      BY <1>0, <2>1 DEF Move, Loops, Steps
    <3> QED BY <1>3, <2>1, <3>1, QuietCarry DEF Each, joinSet, queueVars, CarryInv, Loops
  <2>2. CASE \E r \in batch :
               /\ batch' = batch \ {r} /\ result' = r
               /\ IF r.outcome = "panic" THEN Move("tasks", "each", "lookUp")
                                         ELSE Move("tasks", "each", "adapt")
    <3>1. PICK r \in batch :
               /\ batch' = batch \ {r} /\ result' = r
               /\ IF r.outcome = "panic" THEN Move("tasks", "each", "lookUp")
                                         ELSE Move("tasks", "each", "adapt")
      BY <2>2
    <3>2. /\ at' \in [Loops -> Steps] /\ at["tasks"] = "each" /\ at'["queue"] = at["queue"]
          /\ at'["tasks"] = IF r.outcome = "panic" THEN "lookUp" ELSE "adapt"
      BY <1>0, <3>1 DEF Move, Loops, Steps
    <3>3. UNCHANGED <<cancelled, running, finished, delayQueue, expired, registry>>
      BY <1>3 DEF Each, joinSet, queueVars
    <3>4. result = None
      BY <3>2 DEF CarryInv
    <3>5. CarryInv'
      BY <3>1, <3>2, <3>3 DEF CarryInv, Loops
    <3>6. Carried'
      BY <3>1, <3>3, <3>4, NoneIsNoTask DEF Carried, Flies, Places
    <3> QED BY <3>5, <3>6
  <2> QED BY <1>3, <2>1, <2>2 DEF Each
<1>4. CASE Adapt
  <2>1. /\ at' \in [Loops -> Steps] /\ at'["tasks"] = "enter" /\ at'["queue"] = at["queue"]
        /\ at["tasks"] = "adapt"
    BY <1>0, <1>4 DEF Move, Loops, Steps, Adapt
  <2> QED BY <1>4, <2>1, QuietCarry DEF Adapt, joinSet, queueVars, CarryInv, Loops
<1>5. CASE Enter
  <2>1. /\ at' \in [Loops -> Steps] /\ at'["tasks"] = "each" /\ at'["queue"] = at["queue"]
        /\ at["tasks"] = "enter"
    BY <1>0, <1>5 DEF Move, Loops, Steps, Enter
  <2> DEFINE e == [task |-> result.task, outcome |-> result.outcome, due |-> FALSE,
                   delay |-> IF result.outcome = "ok" THEN UpdateInterval
                                                      ELSE retryDelay[result.task]]
  <2>2. /\ delayQueue' = delayQueue \cup {e} /\ result' = None
        /\ UNCHANGED <<cancelled, running, finished, batch, expired, registry>>
    BY <1>5 DEF Enter, joinSet, queueVars
  <2>3. e.task = result.task
    OBVIOUS
  <2> HIDE DEF e
  <2>4. CarryInv'
    BY <2>1, <2>2, NoneIsNoTask DEF CarryInv, Loops
  <2>5. Carried'
    BY <2>2, <2>3 DEF Carried, Flies, Places
  <2> QED BY <2>4, <2>5
<1>6. CASE LookUp
  <2>1. /\ at' \in [Loops -> Steps] /\ at'["tasks"] = "each" /\ at'["queue"] = at["queue"]
        /\ at["tasks"] = "lookUp"
    BY <1>0, <1>6 DEF Move, Loops, Steps, LookUp
  <2>2. /\ result' = None
        /\ UNCHANGED <<cancelled, running, finished, batch, delayQueue, expired, registry>>
    BY <1>6 DEF LookUp, joinSet, queueVars
  <2>3. result = None \/ result.task \in MayPanic
    BY <2>1 DEF CarryInv, FlightInv, FlightTypes
  <2>4. CarryInv'
    BY <2>1, <2>2, NoneIsNoTask DEF CarryInv, Loops
  <2>5. Carried'
    BY <2>2, <2>3, NoneIsNoTask DEF Carried, Flies, Places
  <2> QED BY <2>4, <2>5
<1>7. CASE TasksSleep
  <2>1. /\ at' \in [Loops -> Steps] /\ at["tasks"] = "sleep"
        /\ at'["tasks"] = "check" /\ at'["queue"] = at["queue"]
    BY <1>0, <1>7 DEF Move, Loops, Steps, TasksSleep
  <2> QED BY <1>7, <2>1, QuietCarry DEF TasksSleep, joinSet, tasksVars, queueVars, CarryInv, Loops
<1>8. CASE Abort("tasks") \/ Drain("tasks")
  BY <1>0, <1>8, EndCarry
<1> QED BY <1>1, <1>2, <1>3, <1>4, <1>5, <1>6, <1>7, <1>8 DEF TasksLoop

LEMMA OtherCarry ==
  ASSUME FlightInv, CarryInv, Carried,
         \/ \E t \in Tasks : Finish(t) \/ FallDue(t) \/ Learn(t)
         \/ Stop \/ Ended \/ UNCHANGED vars
  PROVE  CarryInv' /\ Carried'
<1>0. at \in [Loops -> Steps]
  BY DEF FlightInv, FlightTypes
<1>1. ASSUME NEW t \in Tasks, Finish(t) PROVE CarryInv' /\ Carried'
  <2>1. PICK o \in Outcomes(t) : finished' = finished \cup {[task |-> t, outcome |-> o]}
    BY <1>1 DEF Finish
  <2> DEFINE r == [task |-> t, outcome |-> o]
  <2>2. r.task = t /\ (r.outcome = "panic" => t \in MayPanic)
    BY DEF Outcomes
  <2>3. /\ running' = running \ {t} /\ finished' = finished \cup {r}
        /\ UNCHANGED <<cancelled, at, batch, result, delayQueue, expired, registry>>
    BY <1>1, <2>1 DEF Finish, queueVars, tasksVars
  <2> HIDE DEF r
  <2>4. CarryInv'
    BY <2>2, <2>3 DEF CarryInv
  <2>5. Carried'
    BY <2>2, <2>3 DEF Carried, Flies, Places
  <2> QED BY <2>4, <2>5
<1>2. ASSUME NEW t \in Tasks, FallDue(t) PROVE CarryInv' /\ Carried'
  <2>1. PICK e \in delayQueue : delayQueue' = (delayQueue \ {e}) \cup {[e EXCEPT !.due = TRUE]}
    BY <1>2 DEF FallDue
  <2> DEFINE f == [e EXCEPT !.due = TRUE]
  <2>2. f.task = e.task
    BY <2>1 DEF FlightInv, FlightTypes, Entries
  <2>3. /\ delayQueue' = (delayQueue \ {e}) \cup {f}
        /\ UNCHANGED <<cancelled, at, running, finished, batch, result, expired, registry>>
    BY <1>2, <2>1 DEF FallDue, joinSet, queueVars, tasksVars
  <2> HIDE DEF f
  <2>4. CarryInv'
    BY <2>3 DEF CarryInv
  <2>5. Carried'
    BY <2>2, <2>3 DEF Carried, Flies, Places
  <2> QED BY <2>4, <2>5
<1>3. ASSUME NEW t \in Tasks, Learn(t) PROVE CarryInv' /\ Carried'
  BY <1>0, <1>3, QuietCarry DEF Learn, joinSet, queueVars, tasksVars, CarryInv
<1>4. CASE Ended \/ UNCHANGED vars
  BY <1>0, <1>4, QuietCarry DEF Ended, vars, joinSet, queueVars, tasksVars, CarryInv
<1>5. CASE Stop
  BY <1>5 DEF Stop, joinSet, queueVars, tasksVars, CarryInv, Carried
<1> QED BY <1>1, <1>2, <1>3, <1>4, <1>5

LEMMA CarryNext ==
  FlightInv /\ (CarryInv /\ Carried) /\ [Next]_vars => (CarryInv /\ Carried)'
BY QueueCarry, TasksCarry, OtherCarry DEF Next

(* A task that is pending, and that get_tasks leaves out for that, is on
   its way to being run again: nothing that the loops carry is overwritten,
   whatever panics beside it, and whichever reads fail. *)
THEOREM NothingLost == Spec => []PendingInFlight
<1>1. CarryInv /\ Carried => PendingInFlight
  BY FliesInFlight DEF Carried, PendingInFlight, Lost
<1> QED BY FlightInit, FlightNext, CarryInit, CarryNext, <1>1, PTL DEF Spec

-----------------------------------------------------------------------------

(* Only the queue loop spawns: once it is done the join set stays empty. *)
QueueDoneEmpty == at["queue"] = "done" => running = {} /\ finished = {}

LEMMA DoneInit == Init => QueueDoneEmpty
  BY DEF Init, QueueDoneEmpty, Loops

LEMMA DoneNext == FlightInv /\ QueueDoneEmpty /\ [Next]_vars => QueueDoneEmpty'
<1> SUFFICES ASSUME FlightInv, QueueDoneEmpty, [Next]_vars, at'["queue"] = "done"
             PROVE  running' = {} /\ finished' = {}
  BY DEF QueueDoneEmpty
<1>0. at \in [Loops -> Steps] /\ "queue" \in Loops /\ "tasks" \in Loops
  BY DEF FlightInv, FlightTypes, Loops
<1>1. CASE QueueLoop
  <2>1. Drain("queue")
    BY <1>0, <1>1 DEF QueueLoop, FirstTasks, FirstRegistry, FirstSpawn, QueueCheck,
         Expire, PollTimeout, Settle, GetTasks, Spawn, QueueSleep, Abort, Move
  <2> QED BY <2>1 DEF Drain
<1>2. CASE TasksLoop
  <2>1. at["queue"] = "done"
    BY <1>0, <1>2 DEF TasksLoop, TasksCheck, Collect, Each, Adapt, Enter, LookUp,
         TasksSleep, Abort, Drain, Move
  <2>2. running' \subseteq running /\ finished' \subseteq finished
    BY <1>2 DEF TasksLoop, TasksCheck, Collect, Each, Adapt, Enter, LookUp,
         TasksSleep, Abort, Drain, joinSet
  <2> QED BY <2>1, <2>2 DEF QueueDoneEmpty
<1>3. CASE \/ \E t \in Tasks : Finish(t) \/ FallDue(t) \/ Learn(t)
           \/ Stop \/ Ended \/ UNCHANGED vars
  BY <1>3 DEF Finish, FallDue, Learn, Stop, Ended, vars, joinSet, QueueDoneEmpty
<1> QED BY <1>1, <1>2, <1>3 DEF Next

(* When both loops have ended, the join set is empty: no task is left
   running and no result is left lying, whichever loop ends first. *)
THEOREM EndsEmpty == Spec => []EndedEmpty
<1>1. QueueDoneEmpty => EndedEmpty
  BY DEF QueueDoneEmpty, EndedEmpty, Loops
<1> QED BY FlightInit, FlightNext, DoneInit, DoneNext, <1>1, PTL DEF Spec

-----------------------------------------------------------------------------

(***************************************************************************)
(* The manager implements a TaskRunner.  FlightInv makes the life of a     *)
(* task what any of its places says; RunnerInv adds that what is about to  *)
(* be spawned is not pending, not even as one that was lost, and that what *)
(* is taken out of the delay queue was due.                                *)
(***************************************************************************)

RunnerInv ==
  /\ \A t \in fns : registry[t] # "pending"
  /\ at["queue"] = "settle" => expired.due

LEMMA RunnerInit == Init => RunnerInv
  BY DEF Init, RunnerInv, Loops

LEMMA RunnerNext == FlightInv /\ RunnerInv /\ [Next]_vars => RunnerInv'
<1> SUFFICES ASSUME FlightInv, RunnerInv, [Next]_vars PROVE RunnerInv'
  OBVIOUS
<1>0. at \in [Loops -> Steps] /\ "queue" \in Loops /\ "tasks" \in Loops
      /\ registry \in [Tasks -> States] /\ fns \subseteq Tasks
  BY DEF FlightInv, FlightTypes, Loops
<1>1. CASE FirstTasks
  <2>1. at["queue"] = "firstTasks" /\ at'["queue"] # "settle" /\ registry' = registry
    BY <1>0, <1>1 DEF FirstTasks, Move
  <2>2. fns' \subseteq Tasks
    BY <1>1 DEF FirstTasks, TasksBut, FlightInv, FlightTypes
  <2>3. \A t \in Tasks : registry[t] # "pending"
    BY <2>1 DEF FlightInv, Placed
  <2> QED BY <2>1, <2>2, <2>3 DEF RunnerInv
<1>2. CASE GetTasks
  <2>1. at'["queue"] # "settle" /\ registry' = registry
        /\ \A t \in fns' : registry[t] # "pending"
    BY <1>0, <1>2 DEF GetTasks, TasksBut, Pending, Move, FlightInv, FlightTypes
  <2> QED BY <2>1 DEF RunnerInv
<1>3. CASE FirstSpawn \/ Spawn
  BY <1>0, <1>3 DEF FirstSpawn, Spawn, SpawnAll, Move, RunnerInv
<1>4. CASE Expire
  BY <1>0, <1>4 DEF Expire, RunnerInv
<1>5. CASE Settle
  <2>1. at'["queue"] # "settle" /\ fns' = fns
        /\ \A t \in Tasks : registry'[t] \in {registry[t], "resolved", "failed"}
    BY <1>0, <1>5 DEF Settle, Move
  <2> QED BY <1>0, <2>1 DEF RunnerInv
<1>6. CASE FirstRegistry \/ QueueCheck \/ PollTimeout \/ QueueSleep
           \/ Abort("queue") \/ Drain("queue")
  BY <1>0, <1>6 DEF FirstRegistry, QueueCheck, PollTimeout, QueueSleep, Abort, Drain,
       Move, queueVars, RunnerInv
<1>7. CASE TasksLoop
  <2>1. at'["queue"] = at["queue"] /\ UNCHANGED <<fns, registry, expired>>
    BY <1>0, <1>7 DEF TasksLoop, TasksCheck, Collect, Each, Adapt, Enter, LookUp,
         TasksSleep, Abort, Drain, Move, queueVars
  <2> QED BY <2>1 DEF RunnerInv
<1>8. CASE \/ \E t \in Tasks : Finish(t) \/ FallDue(t) \/ Learn(t)
           \/ Stop \/ Ended \/ UNCHANGED vars
  BY <1>8 DEF Finish, FallDue, Learn, Stop, Ended, vars, queueVars, RunnerInv
<1> QED BY <1>1, <1>2, <1>3, <1>4, <1>5, <1>6, <1>7, <1>8 DEF Next, QueueLoop

(* Whatever place a task is in says what its life is. *)
LifeFacts ==
  \A t \in Tasks :
    /\ t \in running => Life(t) = [at |-> "running", last |-> "none"]
    /\ \A r \in finished \cup batch \cup {result} :
         r.task = t => Life(t) = [at |-> "ended", last |-> r.outcome]
    /\ \A e \in delayQueue \cup {expired} :
         e.task = t => Life(t) = [at |-> IF e.due THEN "due" ELSE "waiting",
                                  last |-> e.outcome]
    /\ ~ Flies(t) /\ registry[t] = "pending" =>
         Life(t) = [at |-> "lost", last |-> "none"]
    /\ registry[t] # "pending" =>
         Life(t) = [at |-> "ready", last |-> OnRecord[registry[t]]]

LEMMA LifeIs == FlightInv => LifeFacts
<1> SUFFICES ASSUME FlightInv, NEW t \in Tasks
             PROVE  /\ t \in running => Life(t) = [at |-> "running", last |-> "none"]
                    /\ \A r \in finished \cup batch \cup {result} :
                         r.task = t => Life(t) = [at |-> "ended", last |-> r.outcome]
                    /\ \A e \in delayQueue \cup {expired} :
                         e.task = t => Life(t) = [at |-> IF e.due THEN "due" ELSE "waiting",
                                                  last |-> e.outcome]
                    /\ ~ Flies(t) /\ registry[t] = "pending" =>
                         Life(t) = [at |-> "lost", last |-> "none"]
                    /\ registry[t] # "pending" =>
                         Life(t) = [at |-> "ready", last |-> OnRecord[registry[t]]]
  BY DEF LifeFacts
<1>1. CASE t \in running
  <2>1. ~ \E x \in Places : x.task = t
    BY <1>1 DEF FlightInv, RunningAlone
  <2> QED BY <1>1, <2>1 DEF Life, Flies, FlightInv, FlightPending, Places
<1>2. CASE t \notin running
  <2>1. ASSUME NEW r \in finished \cup batch \cup {result}, r.task = t
        PROVE  /\ ResultsOf(t) = {r} /\ EntriesOf(t) = {}
               /\ registry[t] = "pending" /\ Flies(t)
    <3>1. ASSUME NEW x \in finished \cup batch \cup {result}, x.task = t PROVE x = r
      BY <2>1, <3>1 DEF FlightInv, Distinct, Unique, Apart
    <3>2. ASSUME NEW x \in delayQueue \cup {expired}, x.task = t PROVE FALSE
      BY <2>1, <3>2 DEF FlightInv, Distinct, Unique, Apart
    <3>3. r \in Places
      BY DEF Places
    <3> QED BY <2>1, <3>1, <3>2, <3>3 DEF ResultsOf, EntriesOf, FlightInv, FlightPending, Flies
  <2>2. ASSUME NEW e \in delayQueue \cup {expired}, e.task = t
        PROVE  /\ ResultsOf(t) = {} /\ EntriesOf(t) = {e}
               /\ registry[t] = "pending" /\ Flies(t)
    <3>1. ASSUME NEW x \in delayQueue \cup {expired}, x.task = t PROVE x = e
      BY <2>2, <3>1 DEF FlightInv, Distinct, Unique, Apart
    <3>2. ASSUME NEW x \in finished \cup batch \cup {result}, x.task = t PROVE FALSE
      BY <2>2, <3>2 DEF FlightInv, Distinct, Unique, Apart
    <3>3. e \in Places
      BY DEF Places
    <3> QED BY <2>2, <3>1, <3>2, <3>3 DEF ResultsOf, EntriesOf, FlightInv, FlightPending, Flies
  <2>3. CASE \E r \in finished \cup batch \cup {result} : r.task = t
    <3>1. PICK r \in finished \cup batch \cup {result} : r.task = t
      BY <2>3
    <3>2. /\ ResultsOf(t) = {r} /\ EntriesOf(t) = {}
          /\ registry[t] = "pending" /\ Flies(t)
      BY <2>1, <3>1
    <3>3. (CHOOSE x \in ResultsOf(t) : TRUE) = r
      BY <3>2
    <3>4. Life(t) = [at |-> "ended", last |-> r.outcome]
      BY <1>2, <3>2, <3>3 DEF Life
    <3>5. \A x \in finished \cup batch \cup {result} : x.task = t => x = r
      BY <3>2 DEF ResultsOf
    <3>6. \A x \in delayQueue \cup {expired} : x.task # t
      BY <3>2 DEF EntriesOf
    <3> QED BY <1>2, <3>2, <3>4, <3>5, <3>6
  <2>4. CASE \E e \in delayQueue \cup {expired} : e.task = t
    <3>1. PICK e \in delayQueue \cup {expired} : e.task = t
      BY <2>4
    <3>2. /\ ResultsOf(t) = {} /\ EntriesOf(t) = {e}
          /\ registry[t] = "pending" /\ Flies(t)
      BY <2>2, <3>1
    <3>3. (CHOOSE x \in EntriesOf(t) : TRUE) = e
      BY <3>2
    <3>4. Life(t) = [at |-> IF e.due THEN "due" ELSE "waiting", last |-> e.outcome]
      BY <1>2, <3>2, <3>3 DEF Life
    <3>5. \A x \in delayQueue \cup {expired} : x.task = t => x = e
      BY <3>2 DEF EntriesOf
    <3>6. \A x \in finished \cup batch \cup {result} : x.task # t
      BY <3>2 DEF ResultsOf
    <3> QED BY <1>2, <3>2, <3>4, <3>5, <3>6
  <2>5. CASE ~ Flies(t)
    <3>1. /\ \A x \in finished \cup batch \cup {result} : x.task # t
          /\ \A x \in delayQueue \cup {expired} : x.task # t
      BY <2>5 DEF Flies, Places
    <3>2. ResultsOf(t) = {} /\ EntriesOf(t) = {}
      BY <3>1 DEF ResultsOf, EntriesOf
    <3> QED BY <1>2, <3>1, <3>2 DEF Life
  <2> QED BY <1>2, <2>3, <2>4, <2>5 DEF Flies, Places
<1> QED BY <1>1, <1>2

-----------------------------------------------------------------------------

Simulated == [Runner!Next]_(Runner!rvars)

(* The tasks whose places do not change keep their lives. *)
LEMMA LifeKept ==
  ASSUME NEW t \in Tasks, t \in running' <=> t \in running,
         ResultsOf(t)' = ResultsOf(t), EntriesOf(t)' = EntriesOf(t),
         registry'[t] = registry[t]
  PROVE  Life(t)' = Life(t)
BY DEF Life

LEMMA Stutters ==
  ASSUME \A t \in Tasks : Life(t)' = Life(t), cancelled' = cancelled
  PROVE  Simulated
BY DEF Simulated, Runner!rvars

(* The tasks of S come to a new life, the others keep theirs. *)
LEMMA Becoming ==
  ASSUME NEW S \in SUBSET Tasks, NEW new, cancelled' = cancelled,
         \A t \in S : Life(t)' = new,
         \A t \in Tasks \ S : Life(t)' = Life(t)
  PROVE  Runner!Become(S, new)
BY DEF Runner!Become

(* Each of the abstract steps, by the lives of its tasks. *)
LEMMA OneLife ==
  ASSUME NEW t \in Tasks, NEW where, NEW outcome, cancelled' = cancelled,
         Life(t)' = [at |-> where, last |-> outcome],
         \A u \in Tasks \ {t} : Life(u)' = Life(u),
         \/ /\ Life(t).at = "running" /\ where = "ended" /\ outcome \in Outcomes(t)
         \/ /\ Life(t).at = "ended" /\ Life(t).last # "panic"
            /\ where = "waiting" /\ outcome = Life(t).last
         \/ Life(t).at = "waiting" /\ where = "due" /\ outcome = Life(t).last
         \/ Life(t).at = "due" /\ where = "ready" /\ outcome = Life(t).last
         \/ /\ Life(t) = [at |-> "ended", last |-> "panic"]
            /\ where = "lost" /\ outcome = "none"
  PROVE  Simulated
<1> DEFINE new == [at |-> where, last |-> outcome]
<1>1. Runner!Become({t}, new)
  BY Becoming
<1>2. Runner!At(where, outcome) = new /\ Runner!Outcomes(t) = Outcomes(t)
  BY DEF Runner!At, Runner!Outcomes, Outcomes
<1>3. [u \in Tasks |-> Life(u)][t] = Life(t)
  OBVIOUS
<1> HIDE DEF new
<1>4. \/ Runner!End(t) \/ Runner!PutOff(t) \/ Runner!FallDue(t)
      \/ Runner!Record(t) \/ Runner!LosePanicked(t)
  BY <1>1, <1>2, <1>3 DEF Runner!End, Runner!PutOff, Runner!FallDue, Runner!Record,
     Runner!LosePanicked, Runner!At
<1> QED BY <1>4 DEF Simulated, Runner!Next

LEMMA ManyLives ==
  ASSUME NEW S \in SUBSET Tasks, cancelled' = cancelled,
         \A u \in Tasks \ S : Life(u)' = Life(u),
         \/ \A t \in S : /\ Life(t).at = "ready"
                         /\ Life(t)' = [at |-> "running", last |-> "none"]
         \/ /\ cancelled
            /\ \A t \in S : /\ Life(t).at \in {"running", "ended"}
                            /\ Life(t)' = [at |-> "lost", last |-> "none"]
  PROVE  Simulated
<1>1. \A t \in Tasks : [u \in Tasks |-> Life(u)][t] = Life(t)
  OBVIOUS
<1>2. CASE \A t \in S : /\ Life(t).at = "ready"
                        /\ Life(t)' = [at |-> "running", last |-> "none"]
  <2>1. Runner!Become(S, [at |-> "running", last |-> "none"])
    BY <1>2, Becoming
  <2>2. Runner!Run(S)
    BY <1>1, <1>2, <2>1 DEF Runner!Run, Runner!At
  <2> QED BY <2>2 DEF Simulated, Runner!Next
<1>3. CASE /\ cancelled
           /\ \A t \in S : /\ Life(t).at \in {"running", "ended"}
                           /\ Life(t)' = [at |-> "lost", last |-> "none"]
  <2>1. Runner!Become(S, [at |-> "lost", last |-> "none"])
    BY <1>3, Becoming
  <2>2. Runner!Drop(S)
    BY <1>1, <1>3, <2>1 DEF Runner!Drop, Runner!At
  <2> QED BY <2>2 DEF Simulated, Runner!Next
<1> QED BY <1>2, <1>3

(* Steps that leave the tasks in their places. *)
LEMMA SamePlaces ==
  ASSUME UNCHANGED <<running, registry, cancelled>>,
         \A t \in Tasks : ResultsOf(t)' = ResultsOf(t) /\ EntriesOf(t)' = EntriesOf(t)
  PROVE  Simulated
BY LifeKept, Stutters

LEMMA SpawnSimulated ==
  ASSUME FlightInv, RunnerInv, LifeFacts, LifeFacts', SpawnAll
  PROVE  Simulated
<1>1. /\ running' = running \cup fns /\ cancelled' = cancelled
      /\ registry' = [t \in Tasks |-> IF t \in fns THEN "pending" ELSE registry[t]]
      /\ UNCHANGED <<finished, batch, result, delayQueue, expired>>
      /\ fns \in SUBSET Tasks
  BY DEF SpawnAll, tasksVars, FlightInv, FlightTypes
<1>2. ASSUME NEW t \in fns
      PROVE  Life(t).at = "ready" /\ Life(t)' = [at |-> "running", last |-> "none"]
  <2>1. Life(t) = [at |-> "ready", last |-> OnRecord[registry[t]]]
    BY <1>1 DEF RunnerInv, LifeFacts
  <2> QED BY <1>1, <2>1 DEF LifeFacts
<1>3. ASSUME NEW t \in Tasks \ fns PROVE Life(t)' = Life(t)
  BY <1>1, LifeKept DEF ResultsOf, EntriesOf
<1> QED BY <1>1, <1>2, <1>3, ManyLives

LEMMA EndSimulated ==
  ASSUME FlightInv, CarryInv, LifeFacts, LifeFacts', NEW p \in Loops, Abort(p) \/ Drain(p)
  PROVE  Simulated
<1>1. cancelled /\ UNCHANGED <<cancelled, batch, result, delayQueue, expired, registry>>
  BY DEF Abort, Drain, Move, queueVars, tasksVars, CarryInv
<1>2. CASE Abort(p)
  <2> DEFINE S == running \ Blocking
  <2>1. running' = running \ S /\ finished' = finished /\ S \in SUBSET Tasks
    BY <1>2 DEF Abort, FlightInv, FlightTypes
  <2>2. ASSUME NEW t \in S
        PROVE  Life(t).at = "running" /\ Life(t)' = [at |-> "lost", last |-> "none"]
    <3>1. t \in Tasks /\ registry[t] = "pending" /\ ~ \E x \in Places : x.task = t
      BY <2>1 DEF FlightInv, FlightPending, RunningAlone
    <3>2. ~ Flies(t)'
      BY <1>1, <2>1, <3>1 DEF Flies, Places
    <3> QED BY <1>1, <3>1, <3>2 DEF LifeFacts
  <2>3. ASSUME NEW t \in Tasks \ S PROVE Life(t)' = Life(t)
    BY <1>1, <2>1, LifeKept DEF ResultsOf, EntriesOf
  <2> QED BY <1>1, <2>1, <2>2, <2>3, ManyLives
<1>3. CASE Drain(p)
  <2> DEFINE S == {r.task : r \in finished}
  <2>1. finished' = {} /\ running' = running /\ S \in SUBSET Tasks
    BY <1>3 DEF Drain, FlightInv, FlightTypes, Results
  <2>2. ASSUME NEW t \in S
        PROVE  Life(t).at = "ended" /\ Life(t)' = [at |-> "lost", last |-> "none"]
    <3>1. PICK r \in finished : r.task = t
      OBVIOUS
    <3>2. t \in Tasks /\ t \notin running /\ registry[t] = "pending"
      BY <2>1, <3>1 DEF FlightInv, FlightPending, RunningAlone, Places
    <3>3. \A x \in batch \cup {result} \cup delayQueue \cup {expired} : x.task # t
      BY <3>1, <3>2 DEF FlightInv, Distinct, Apart
    <3>4. ~ Flies(t)'
      BY <1>1, <2>1, <3>2, <3>3 DEF Flies, Places
    <3> QED BY <1>1, <3>1, <3>2, <3>4 DEF LifeFacts
  <2>3. ASSUME NEW t \in Tasks \ S PROVE Life(t)' = Life(t)
    <3>1. \A r \in finished : r.task # t
      BY <2>3
    <3> QED BY <1>1, <2>1, <3>1, LifeKept DEF ResultsOf, EntriesOf
  <2> QED BY <1>1, <2>1, <2>2, <2>3, ManyLives
<1> QED BY <1>2, <1>3

LEMMA QueueSimulated ==
  ASSUME FlightInv, CarryInv, RunnerInv, LifeFacts, LifeFacts', QueueLoop
  PROVE  Simulated
<1>1. CASE FirstTasks \/ FirstRegistry \/ QueueCheck \/ PollTimeout \/ GetTasks \/ QueueSleep
  BY <1>1, SamePlaces DEF FirstTasks, FirstRegistry, QueueCheck, PollTimeout, GetTasks,
     QueueSleep, joinSet, queueVars, tasksVars, ResultsOf, EntriesOf
<1>2. CASE FirstSpawn \/ Spawn
  BY <1>2, SpawnSimulated DEF FirstSpawn, Spawn
<1>3. CASE Expire
  <2>1. PICK e \in delayQueue : expired' = e /\ delayQueue' = delayQueue \ {e}
    BY <1>3 DEF Expire
  <2>2. expired = None /\ UNCHANGED <<running, finished, batch, result, registry, cancelled>>
    BY <1>3 DEF Expire, Move, joinSet, tasksVars, CarryInv
  <2>3. ASSUME NEW t \in Tasks PROVE EntriesOf(t)' = EntriesOf(t)
    BY <2>1, <2>2, NoneIsNoTask DEF EntriesOf
  <2> QED BY <2>2, <2>3, SamePlaces DEF ResultsOf
<1>4. CASE Settle
  <2>1. /\ expired' = None /\ expired \in Entries /\ expired.due
        /\ UNCHANGED <<cancelled, running, finished, batch, result, delayQueue>>
        /\ registry' = [registry EXCEPT ![expired.task] =
                          IF expired.outcome = "ok" THEN "resolved" ELSE "failed"]
    BY <1>4 DEF Settle, Move, joinSet, tasksVars, RunnerInv, FlightInv, Placed
  <2>2. PICK t \in Tasks : t = expired.task
    BY <2>1 DEF Entries
  <2>3. expired.outcome \in {"ok", "err"} /\ registry \in [Tasks -> States]
    BY <2>1 DEF Entries, FlightInv, FlightTypes
  <2>4. Life(t) = [at |-> "due", last |-> expired.outcome]
    BY <2>1, <2>2 DEF LifeFacts
  <2>5. registry'[t] \in {"resolved", "failed"} /\ OnRecord[registry'[t]] = expired.outcome
    BY <2>1, <2>2, <2>3 DEF OnRecord
  <2>6. Life(t)' = [at |-> "ready", last |-> expired.outcome]
    <3>1. registry'[t] # "pending"
      BY <2>5
    <3>2. Life(t)' = [at |-> "ready", last |-> OnRecord[registry'[t]]]
      BY <3>1 DEF LifeFacts, OnRecord
    <3> QED BY <2>5, <3>2
  <2>7. ASSUME NEW u \in Tasks \ {t} PROVE Life(u)' = Life(u)
    <3>1. registry'[u] = registry[u]
      BY <2>1, <2>2, <2>3
    <3>2. EntriesOf(u)' = EntriesOf(u) /\ ResultsOf(u)' = ResultsOf(u)
      BY <2>1, <2>2, NoneIsNoTask DEF EntriesOf, ResultsOf
    <3> QED BY <2>1, <3>1, <3>2, LifeKept
  <2> QED BY <2>1, <2>4, <2>6, <2>7, OneLife
<1>5. CASE Abort("queue") \/ Drain("queue")
  BY <1>5, EndSimulated DEF Loops
<1> QED BY <1>1, <1>2, <1>3, <1>4, <1>5 DEF QueueLoop

LEMMA TasksSimulated ==
  ASSUME FlightInv, CarryInv, LifeFacts, LifeFacts', TasksLoop
  PROVE  Simulated
<1>1. CASE TasksCheck \/ Adapt \/ TasksSleep
  BY <1>1, SamePlaces DEF TasksCheck, Adapt, TasksSleep, joinSet, queueVars, tasksVars,
     ResultsOf, EntriesOf
<1>2. CASE Collect
  <2>1. /\ batch' = finished /\ finished' = {} /\ batch = {}
        /\ UNCHANGED <<cancelled, running, result, delayQueue, expired, registry>>
    BY <1>2 DEF Collect, Move, queueVars, CarryInv
  <2> QED BY <2>1, SamePlaces DEF ResultsOf, EntriesOf
<1>3. CASE Each
  <2>1. UNCHANGED <<cancelled, running, finished, delayQueue, expired, registry>>
        /\ result = None
    BY <1>3 DEF Each, Move, joinSet, queueVars, CarryInv
  <2>2. \/ UNCHANGED <<batch, result>>
        \/ \E r \in batch : batch' = batch \ {r} /\ result' = r
    BY <1>3 DEF Each
  <2>3. ASSUME NEW t \in Tasks PROVE ResultsOf(t)' = ResultsOf(t)
    BY <2>1, <2>2, NoneIsNoTask DEF ResultsOf
  <2> QED BY <2>1, <2>3, SamePlaces DEF EntriesOf
<1>4. CASE Enter
  <2> DEFINE e == [task |-> result.task, outcome |-> result.outcome, due |-> FALSE,
                   delay |-> IF result.outcome = "ok" THEN UpdateInterval
                                                      ELSE retryDelay[result.task]]
  <2>1. /\ delayQueue' = delayQueue \cup {e} /\ result' = None
        /\ UNCHANGED <<cancelled, running, finished, batch, expired, registry>>
    BY <1>4 DEF Enter, joinSet, queueVars
  <2>2. e.task = result.task /\ e.outcome = result.outcome /\ ~ e.due
    OBVIOUS
  <2> HIDE DEF e
  <2>3. result \in Results /\ result.outcome # "panic"
    BY <1>4 DEF Enter, Move, FlightInv, Placed
  <2>4. PICK t \in Tasks : t = result.task
    BY <2>3 DEF Results
  <2>5. Life(t) = [at |-> "ended", last |-> result.outcome]
    BY <2>4 DEF LifeFacts
  <2>6. Life(t)' = [at |-> "waiting", last |-> result.outcome]
    BY <2>1, <2>2, <2>4 DEF LifeFacts
  <2>7. ASSUME NEW u \in Tasks \ {t} PROVE Life(u)' = Life(u)
    <3>1. EntriesOf(u)' = EntriesOf(u) /\ ResultsOf(u)' = ResultsOf(u)
      BY <2>1, <2>2, <2>4, NoneIsNoTask DEF EntriesOf, ResultsOf
    <3> QED BY <2>1, <3>1, LifeKept
  <2> QED BY <2>1, <2>3, <2>5, <2>6, <2>7, OneLife
<1>5. CASE LookUp
  <2>1. /\ result' = None /\ (result \in Results => result.outcome = "panic")
        /\ UNCHANGED <<cancelled, running, finished, batch, delayQueue, expired, registry>>
    BY <1>5 DEF LookUp, Move, joinSet, queueVars, CarryInv
  <2>2. CASE result = None
    BY <2>1, <2>2, SamePlaces DEF ResultsOf, EntriesOf
  <2>3. CASE result \in Results
    <3>1. PICK t \in Tasks : t = result.task
      BY <2>3 DEF Results
    <3>2. Life(t) = [at |-> "ended", last |-> "panic"]
      BY <2>1, <2>3, <3>1 DEF LifeFacts
    <3>3. registry[t] = "pending" /\ ~ Flies(t)'
      <4>1. registry[t] = "pending" /\ t \notin running
        BY <3>1 DEF FlightInv, FlightPending, RunningAlone, Places
      <4>2. \A x \in finished \cup batch \cup delayQueue \cup {expired} : x.task # t
        BY <3>1 DEF FlightInv, Distinct, Apart
      <4> QED BY <2>1, <4>1, <4>2, NoneIsNoTask DEF Flies, Places
    <3>4. Life(t)' = [at |-> "lost", last |-> "none"]
      BY <2>1, <3>3 DEF LifeFacts
    <3>5. ASSUME NEW u \in Tasks \ {t} PROVE Life(u)' = Life(u)
      <4>1. EntriesOf(u)' = EntriesOf(u) /\ ResultsOf(u)' = ResultsOf(u)
        BY <2>1, <3>1, NoneIsNoTask DEF EntriesOf, ResultsOf
      <4> QED BY <2>1, <4>1, LifeKept
    <3> QED BY <2>1, <3>2, <3>4, <3>5, OneLife
  <2> QED BY <2>2, <2>3 DEF FlightInv, FlightTypes
<1>6. CASE Abort("tasks") \/ Drain("tasks")
  BY <1>6, EndSimulated DEF Loops
<1> QED BY <1>1, <1>2, <1>3, <1>4, <1>5, <1>6 DEF TasksLoop

LEMMA OtherSimulated ==
  ASSUME FlightInv, LifeFacts, LifeFacts',
         \/ \E t \in Tasks : Finish(t) \/ FallDue(t) \/ Learn(t)
         \/ Stop \/ Ended \/ UNCHANGED vars
  PROVE  Simulated
<1>1. ASSUME NEW t \in Tasks, Finish(t) PROVE Simulated
  <2>1. PICK o \in Outcomes(t) : finished' = finished \cup {[task |-> t, outcome |-> o]}
    BY <1>1 DEF Finish
  <2> DEFINE r == [task |-> t, outcome |-> o]
  <2>2. r.task = t /\ r.outcome = o
    OBVIOUS
  <2>3. /\ t \in running /\ running' = running \ {t} /\ finished' = finished \cup {r}
        /\ UNCHANGED <<cancelled, batch, result, delayQueue, expired, registry>>
    BY <1>1, <2>1 DEF Finish, queueVars, tasksVars
  <2> HIDE DEF r
  <2>4. Life(t) = [at |-> "running", last |-> "none"]
    BY <2>3 DEF LifeFacts
  <2>5. Life(t)' = [at |-> "ended", last |-> o]
    BY <2>2, <2>3 DEF LifeFacts
  <2>6. ASSUME NEW u \in Tasks \ {t} PROVE Life(u)' = Life(u)
    <3>1. EntriesOf(u)' = EntriesOf(u) /\ ResultsOf(u)' = ResultsOf(u)
      BY <2>2, <2>3 DEF EntriesOf, ResultsOf
    <3> QED BY <2>3, <3>1, LifeKept
  <2> QED BY <2>3, <2>4, <2>5, <2>6, OneLife
<1>2. ASSUME NEW t \in Tasks, FallDue(t) PROVE Simulated
  <2>1. PICK e \in delayQueue : /\ e.task = t /\ ~ e.due
                                /\ delayQueue' = (delayQueue \ {e}) \cup {[e EXCEPT !.due = TRUE]}
    BY <1>2 DEF FallDue
  <2> DEFINE f == [e EXCEPT !.due = TRUE]
  <2>2. f.task = t /\ f.due /\ f.outcome = e.outcome
    BY <2>1 DEF FlightInv, FlightTypes, Entries
  <2>3. /\ delayQueue' = (delayQueue \ {e}) \cup {f}
        /\ UNCHANGED <<cancelled, running, finished, batch, result, expired, registry>>
    BY <1>2, <2>1 DEF FallDue, joinSet, queueVars, tasksVars
  <2> HIDE DEF f
  <2>4. Life(t) = [at |-> "waiting", last |-> e.outcome]
    BY <2>1 DEF LifeFacts
  <2>5. Life(t)' = [at |-> "due", last |-> e.outcome]
    BY <2>2, <2>3 DEF LifeFacts
  <2>6. ASSUME NEW u \in Tasks \ {t} PROVE Life(u)' = Life(u)
    <3>1. EntriesOf(u)' = EntriesOf(u) /\ ResultsOf(u)' = ResultsOf(u)
      BY <2>1, <2>2, <2>3 DEF EntriesOf, ResultsOf
    <3> QED BY <2>3, <3>1, LifeKept
  <2> QED BY <2>3, <2>4, <2>5, <2>6, OneLife
<1>3. CASE (\E t \in Tasks : Learn(t)) \/ Ended \/ UNCHANGED vars
  BY <1>3, SamePlaces DEF Learn, Ended, vars, joinSet, queueVars, tasksVars,
     ResultsOf, EntriesOf
<1>4. CASE Stop
  <2>1. \A t \in Tasks : Life(t)' = Life(t)
    BY <1>4, LifeKept DEF Stop, joinSet, queueVars, tasksVars, ResultsOf, EntriesOf
  <2>2. Runner!Stop
    BY <1>4, <2>1 DEF Stop, Runner!Stop
  <2> QED BY <2>2 DEF Simulated, Runner!Next
<1> QED BY <1>1, <1>2, <1>3, <1>4

LEMMA RunnerStarts == Init => Runner!Init
<1> SUFFICES ASSUME Init PROVE Runner!Init
  OBVIOUS
<1>1. ASSUME NEW t \in Tasks PROVE Life(t) = [at |-> "ready", last |-> "none"]
  <2>1. ResultsOf(t) = {} /\ EntriesOf(t) = {} /\ registry[t] = "none" /\ t \notin running
    BY NoneIsNoTask DEF Init, ResultsOf, EntriesOf
  <2> QED BY <2>1 DEF Life, OnRecord
<1> QED BY <1>1 DEF Init, Runner!Init, Runner!At

(* The manager implements the abstract runner, for any number of tasks: a
   task is run again only after its result has been handled, put off until
   its delay has passed, and recorded as what it was; and nothing is lost
   but what has panicked, until the manager is stopped. *)
THEOREM RunsTasks == Spec => IsTaskRunner
<1>1. FlightInv /\ (CarryInv /\ Carried) /\ RunnerInv /\ LifeFacts /\ LifeFacts'
        /\ [Next]_vars => Simulated
  BY QueueSimulated, TasksSimulated, OtherSimulated DEF Next
<1>2. FlightInv /\ (CarryInv /\ Carried) /\ RunnerInv /\ LifeFacts /\ LifeFacts'
        /\ [Next]_vars => [Runner!Next]_(Runner!rvars)
  BY <1>1 DEF Simulated
<1>3. Spec => Runner!Spec
  BY FlightInit, FlightNext, CarryInit, CarryNext, RunnerInit, RunnerNext, LifeIs,
     RunnerStarts, <1>2, PTL DEF Spec, Runner!Spec
<1> QED BY <1>3 DEF IsTaskRunner

=============================================================================
