-------------------------- MODULE ProposalPipeline --------------------------
(***************************************************************************)
(* From a proposal of a blockchain to its page: the agents that fetch      *)
(* proposals, tally results and parameters and put them into the store,    *)
(* the agent that has proposals classified, and the agent that watches the *)
(* store and renews the page, and the stored view, of what has changed.    *)
(*                                                                         *)
(* The agents meet in the store only.  An insert is two operations of      *)
(* sled: the entry, whose event goes to the subscribers, and the index,    *)
(* without which a reader still sees the entry before.  A subscriber has a *)
(* queue of limited length, and an insert waits until there is room.  The  *)
(* agent that renews the views inserts them itself, under the keys of the  *)
(* proposals, which it watches.                                            *)
(*                                                                         *)
(* Params stands for all that is kept per blockchain: the parameters, the  *)
(* pool and the validators.  A proposal is its version; the last version   *)
(* is its end, before which it is active.  Two inserts of one key take the *)
(* order of their entries: FallbackEntryStore says what else may happen.   *)
(*                                                                         *)
(* The setting of a behaviour is what the surroundings do in it.           *)
(***************************************************************************)
EXTENDS Naturals, Sequences

CONSTANTS
  Proposals,   \* the proposals of a blockchain
  MaxVersion,  \* the last version of a proposal
  QueueSize,   \* the events that a subscriber's queue takes
  Settings     \* the settings to be considered

(***************************************************************************)
(* A proposal comes to version top at most, the parameters to params; it   *)
(* is fetched polls times, with 0 for no bound.  Of the writers in faulty, *)
(* named for what they write, each has one insert that fails, but "panic"  *)
(* is a panic of the fraud detection.  The proposals of rated have a spam  *)
(* likelihood when they have ended; those of tallied have tally results    *)
(* that the blockchain gives out.  If patient, a proposal is not fetched   *)
(* again before the events of the last time are taken.  sameSecond lets    *)
(* two views of a proposal be of one second, late lets subscriptions come  *)
(* after the first inserts.                                                *)
(***************************************************************************)
Writers == {"proposal", "tally", "params", "fraud", "view", "page", "panic"}

ASSUME PipelineAssumption ==
  /\ MaxVersion \in Nat \ {0}
  /\ QueueSize \in Nat \ {0}
  /\ Settings \subseteq [top : 1..MaxVersion, params : Nat, polls : Nat,
                         faulty : SUBSET Writers,
                         rated : SUBSET Proposals, tallied : SUBSET Proposals,
                         patient : BOOLEAN, sameSecond : BOOLEAN, late : BOOLEAN]

Active(v) == v < MaxVersion

ProposalKey(p) == <<"proposal", p>>
TallyKey(p)    == <<"tally", p>>
ParamsKey      == <<"params">>

(* Fault: the results of a proposal share a key. *)
FraudKeyShared(p) == TallyKey(p)

FraudKey(p) == <<"fraud", p>>

Keys == {ProposalKey(p) : p \in Proposals} \cup {FraudKey(p) : p \in Proposals}
          \cup {TallyKey(p) : p \in Proposals} \cup {ParamsKey}

Nothing     == [kind |-> "nothing"]
Proposal(v) == [kind |-> "proposal", ver |-> v]
Params(n)   == [kind |-> "params", ver |-> n]
Tally       == [kind |-> "tally"]
Fraud(ok)   == [kind |-> "fraud", ok |-> ok]

VARIABLES
  setting,  \* the setting of this behaviour, which never changes
  chain,    \* the blockchain: the version of every proposal, 0 for none
  entry,    \* the store: what a reader finds under a key
  fresh,    \* the entry above the index of a key, if there is one
  listed,   \* the keys that have an index
  job,      \* what the agent that writes a key is doing, and with what
  polls,    \* how many fetches there have been, if they are bounded
  failed,   \* the writers whose insert has failed
  vSub,     \* whether the view agent has subscribed
  vQueue,   \* the events it has not taken yet
  views,    \* the views of its event that are not stored yet
  vAt,      \* what it does: "next", "put" or "index"
  vCur,     \* the proposal whose view it stores
  fSub,     \* whether the fraud detection has subscribed
  fQueue,   \* the events it has not taken yet
  html,     \* the page of every proposal
  csv       \* the proposals whose spam likelihood has been exported

shop   == <<entry, fresh, listed>>
events == <<vQueue, fQueue>>
viewer == <<views, vAt, vCur>>
subs   == <<vSub, fSub>>
given  == <<setting, chain, polls, failed>>
output == <<html, csv>>
vars   == <<given, shop, job, events, viewer, subs, output>>

Idle == [at |-> "idle", with |-> Nothing]

Init ==
  /\ setting \in Settings
  /\ chain = [p \in Proposals |-> 0]
  /\ entry = [k \in Keys |-> IF k = ParamsKey THEN Params(0) ELSE Nothing]
  /\ fresh = [k \in Keys |-> Nothing]
  /\ listed = {ParamsKey}
  /\ job = [k \in Keys |-> Idle]
  /\ polls = 0 /\ failed = {}
  /\ vSub = ~setting.late /\ fSub = ~setting.late
  /\ vQueue = <<>> /\ fQueue = <<>>
  /\ views = <<>> /\ vAt = "next"
  /\ vCur \in Proposals
  /\ html = [p \in Proposals |-> Nothing]
  /\ csv = {}

-----------------------------------------------------------------------------

(***************************************************************************)
(* The store.  The entry of the first revision is found without an index,  *)
(* and the one above the index is not found before the index moves.        *)
(***************************************************************************)
Room(k) ==
  /\ vSub => Len(vQueue) < QueueSize
  /\ fSub /\ k[1] = "proposal" => Len(fQueue) < QueueSize

Send(k, e) ==
  LET event == [key |-> k, entry |-> e]
  IN /\ vQueue' = IF vSub THEN Append(vQueue, event) ELSE vQueue
     /\ fQueue' = IF fSub /\ k[1] = "proposal"
                    THEN Append(fQueue, event) ELSE fQueue

PutEntry(k, e) ==
  /\ Send(k, e)
  /\ IF k \in listed
       THEN fresh' = [fresh EXCEPT ![k] = e] /\ UNCHANGED entry
       ELSE entry' = [entry EXCEPT ![k] = e] /\ UNCHANGED fresh
  /\ UNCHANGED listed

PutIndex(k) ==
  /\ listed' = listed \cup {k}
  /\ entry' = IF fresh[k] = Nothing
                THEN entry ELSE [entry EXCEPT ![k] = fresh[k]]
  /\ fresh' = [fresh EXCEPT ![k] = Nothing]

(***************************************************************************)
(* The agents that fetch.  What they have fetched they insert if it is not *)
(* there yet; a proposal is not there when a view is in its place.         *)
(***************************************************************************)
Begin(k, e) ==
  /\ job[k] = Idle
  /\ job' = [job EXCEPT ![k] = [at |-> "put", with |-> e]]

FetchProposal(p) ==
  /\ chain[p] > 0
  /\ setting.patient => vQueue = <<>> /\ fQueue = <<>>
  /\ Begin(ProposalKey(p), Proposal(chain[p]))
  /\ setting.polls = 0 \/ polls < setting.polls
  /\ polls' = IF setting.polls = 0 THEN 0 ELSE polls + 1
  /\ UNCHANGED <<setting, chain, failed, shop, events, viewer, subs, output>>

FetchParams ==
  /\ entry[ParamsKey].ver < setting.params
  /\ Begin(ParamsKey, Params(entry[ParamsKey].ver + 1))
  /\ UNCHANGED <<given, shop, events, viewer, subs, output>>

(***************************************************************************)
(* The tally results are asked for of the proposals that the store lists.  *)
(***************************************************************************)
Readable(p) == entry[ProposalKey(p)].kind = "proposal"

Listed == {p \in Proposals : ProposalKey(p) \in listed /\ Readable(p)}

FetchTally(p) ==
  /\ p \in Listed /\ p \in setting.tallied
  /\ Active(entry[ProposalKey(p)].ver)
  /\ entry[TallyKey(p)] = Nothing
  /\ Begin(TallyKey(p), Tally)
  /\ UNCHANGED <<given, shop, events, viewer, subs, output>>

(* A classification is inserted without asking what is there. *)
Stored(k) == k[1] # "fraud" /\ entry[k] = job[k].with

Put(k) ==
  /\ job[k].at = "put"
  /\ ~Stored(k)
  /\ Room(k)
  /\ PutEntry(k, job[k].with)
  /\ job' = [job EXCEPT ![k].at = "index"]
  /\ UNCHANGED <<given, viewer, subs, output>>

Same(k) ==
  /\ job[k].at = "put"
  /\ Stored(k)
  /\ job' = [job EXCEPT ![k] = Idle]
  /\ UNCHANGED <<given, shop, events, viewer, subs, output>>

Index(k) ==
  /\ job[k].at = "index"
  /\ PutIndex(k)
  /\ job' = [job EXCEPT ![k] = Idle]
  /\ UNCHANGED <<given, events, viewer, subs, output>>

-----------------------------------------------------------------------------

(* Fault: the fraud detection is not run again. *)
SubscribeFraudOnce ==
  /\ ~fSub /\ fSub' = (failed = {})
  /\ "panic" \notin failed
  /\ UNCHANGED <<given, shop, job, events, viewer, vSub, output>>

(***************************************************************************)
(* The fraud detection takes the events of proposals.  An active one that  *)
(* has no classification yet, failed or not, is sent to the classifier,    *)
(* and what comes back is inserted.  One that has ended is exported if it  *)
(* has a spam likelihood.  A task that has panicked is not run again.      *)
(***************************************************************************)
SubscribeFraud ==
  /\ ~fSub /\ fSub' = TRUE
  /\ "panic" \notin failed
  /\ UNCHANGED <<given, shop, job, events, viewer, vSub, output>>

(* Fault: the store is not asked whether there is a classification. *)
ToClassifyAgain(event) == event.entry.kind = "proposal" /\ Active(event.entry.ver)

ToClassify(event) ==
  /\ event.entry.kind = "proposal"
  /\ Active(event.entry.ver)
  /\ FraudKey(event.key[2]) \notin listed

Exported(event) ==
  {p \in setting.rated : /\ event.entry.kind = "proposal" /\ p = event.key[2]
                         /\ ~Active(event.entry.ver)}

TakeFraud ==
  /\ fQueue # <<>>
  /\ \A p \in Proposals : job[FraudKey(p)] = Idle
  /\ fQueue' = Tail(fQueue)
  /\ job' = IF ToClassify(Head(fQueue))
              THEN [job EXCEPT ![FraudKey(Head(fQueue).key[2])] =
                                 [at |-> "asking", with |-> Nothing]]
              ELSE job
  /\ csv' = csv \cup Exported(Head(fQueue))
  /\ UNCHANGED <<given, shop, vQueue, viewer, subs, html>>

Classify(p) ==
  /\ job[FraudKey(p)].at = "asking"
  /\ \E ok \in BOOLEAN :
       job' = [job EXCEPT ![FraudKey(p)] = [at |-> "put", with |-> Fraud(ok)]]
  /\ UNCHANGED <<given, shop, events, viewer, subs, output>>

-----------------------------------------------------------------------------

(***************************************************************************)
(* The view of a proposal joins it with what is found in the store.        *)
(***************************************************************************)
ParamsKnown   == entry[ParamsKey].ver
FraudKnown(p) == entry[FraudKey(p)] = Fraud(TRUE)
TallyKnown(p) == entry[TallyKey(p)] = Tally

ViewOf(p, v) ==
  [kind |-> "view", ver |-> v, par |-> ParamsKnown,
   fraud |-> FraudKnown(p), tally |-> TallyKnown(p)]

(* Fault: the event of a view renews the view. *)
RenewedByAll(event) ==
  IF event.key[1] = "proposal" THEN {event.key[2]} ELSE {}

(* Fault: the view of a proposal that has ended is not renewed. *)
RenewedActive(event) ==
  {p \in Proposals : /\ event.entry.kind = "proposal" /\ p = event.key[2]
                     /\ Active(event.entry.ver)}

(***************************************************************************)
(* The proposals whose views an event renews: that of the event, if it can *)
(* be read, and for the parameters all those that the store lists and that *)
(* can be read.  The event of a view renews none.                          *)
(***************************************************************************)
Renewed(event) ==
  CASE event.entry.kind = "proposal" -> {event.key[2]}
    [] event.entry \in {Fraud(TRUE), Tally} ->
         {p \in Proposals : p = event.key[2] /\ Readable(p)}
    [] event.entry.kind = "params" -> Listed
    [] OTHER -> {}

VersionOf(event, p) ==
  IF event.entry.kind = "proposal" THEN event.entry.ver
                                   ELSE entry[ProposalKey(p)].ver

SubscribeView ==
  /\ ~vSub /\ vSub' = TRUE
  /\ UNCHANGED <<given, shop, job, events, viewer, fSub, output>>

TakeView ==
  /\ vAt = "next" /\ views = <<>>
  /\ vQueue # <<>>
  /\ vQueue' = Tail(vQueue)
  /\ LET event == Head(vQueue)
     IN views' = [p \in Renewed(event) |-> ViewOf(p, VersionOf(event, p))]
  /\ UNCHANGED <<given, shop, job, fQueue, vAt, vCur, subs, output>>

(***************************************************************************)
(* A writer of faulty fails once.                                          *)
(***************************************************************************)
Fails(w) == w \in setting.faulty \ failed /\ failed' = failed \cup {w}

(* A page that cannot be written is left as it is, and the view stored. *)
ShowView(p) ==
  /\ vAt = "next" /\ p \in DOMAIN views
  /\ \/ html' = [html EXCEPT ![p] = views[p]] /\ UNCHANGED failed
     \/ Fails("page") /\ UNCHANGED html
  /\ vAt' = "put" /\ vCur' = p
  /\ UNCHANGED <<setting, chain, polls, shop, job, events, views, subs, csv>>

(***************************************************************************)
(* A view carries the second in which it was made: one with the contents   *)
(* of the stored one is inserted nevertheless, unless both were made in    *)
(* the same second.                                                        *)
(***************************************************************************)
ViewDone == views' = [p \in DOMAIN views \ {vCur} |-> views[p]]

(* Fault: two views of one version are taken for the same. *)
SameVersion ==
  /\ vAt = "put"
  /\ entry[ProposalKey(vCur)].kind = "view"
  /\ entry[ProposalKey(vCur)].ver = views[vCur].ver
  /\ vAt' = "next" /\ ViewDone
  /\ UNCHANGED <<given, shop, job, events, vCur, subs, output>>

SameView ==
  /\ setting.sameSecond
  /\ vAt = "put"
  /\ entry[ProposalKey(vCur)] = views[vCur]
  /\ vAt' = "next" /\ ViewDone
  /\ UNCHANGED <<given, shop, job, events, vCur, subs, output>>

PutView ==
  /\ vAt = "put"
  /\ Room(ProposalKey(vCur))
  /\ PutEntry(ProposalKey(vCur), views[vCur])
  /\ vAt' = "index" /\ ViewDone
  /\ UNCHANGED <<given, job, vCur, subs, output>>

IndexView ==
  /\ vAt = "index"
  /\ PutIndex(ProposalKey(vCur))
  /\ vAt' = "next"
  /\ UNCHANGED <<given, job, events, views, vCur, subs, output>>

-----------------------------------------------------------------------------

(***************************************************************************)
(* An insert fails at its entry or at its index.  A fetch is repeated; the *)
(* fraud detection gives up its subscription, and with it the events that  *)
(* it has not taken, before it is run again; the view agent goes on.       *)
(***************************************************************************)
InsertFails(k) ==
  /\ Fails(k[1])
  /\ job[k].at \in {"put", "index"}
  /\ job' = [job EXCEPT ![k] = Idle]
  /\ fSub' = (fSub /\ k[1] # "fraud")
  /\ fQueue' = IF k[1] = "fraud" THEN <<>> ELSE fQueue
  /\ UNCHANGED <<setting, chain, polls, shop, vQueue, viewer, vSub, output>>

(* The file of the export cannot be opened or written, or what comes back
   from the classifier is empty: the task panics. *)
FraudGone == Fails("panic") /\ fSub' = FALSE /\ fQueue' = <<>>

ExportPanics ==
  /\ FraudGone
  /\ fQueue # <<>> /\ Exported(Head(fQueue)) # {}
  /\ \A p \in Proposals : job[FraudKey(p)] = Idle
  /\ csv' \in {csv, csv \cup Exported(Head(fQueue))}
  /\ UNCHANGED <<setting, chain, polls, shop, job, vQueue, viewer, vSub, html>>

AnswerPanics(p) ==
  /\ FraudGone
  /\ job[FraudKey(p)].at = "asking"
  /\ job' = [job EXCEPT ![FraudKey(p)] = Idle]
  /\ UNCHANGED <<setting, chain, polls, shop, vQueue, viewer, vSub, output>>

ViewFails ==
  /\ Fails("view")
  /\ \/ vAt = "put" /\ ViewDone
     \/ vAt = "index" /\ UNCHANGED views
  /\ vAt' = "next"
  /\ UNCHANGED <<setting, chain, polls, shop, job, events, vCur, subs, output>>

-----------------------------------------------------------------------------

Submit(p) ==
  /\ chain[p] < setting.top
  /\ chain' = [chain EXCEPT ![p] = @ + 1]
  /\ UNCHANGED <<setting, polls, failed, shop, job, events, viewer, subs, output>>

Insert(k) == Put(k) \/ Same(k) \/ Index(k)

ViewStep ==
  TakeView \/ (\E p \in Proposals : ShowView(p)) \/ SameView \/ PutView \/ IndexView

Next ==
  \/ FetchParams
  \/ \E p \in Proposals : Submit(p) \/ FetchProposal(p) \/ FetchTally(p)
  \/ \E k \in Keys : Insert(k)
  \/ SubscribeFraud \/ TakeFraud \/ (\E p \in Proposals : Classify(p))
  \/ SubscribeView \/ ViewStep
  \/ (\E k \in Keys : InsertFails(k)) \/ ViewFails
  \/ ExportPanics \/ (\E p \in Proposals : AnswerPanics(p))

Spec == Init /\ [][Next]_vars

(***************************************************************************)
(* Every task goes on while nothing holds it up, and proposals are fetched *)
(* again and again (AgentManager).  Nothing has to fail.                   *)
(***************************************************************************)
FraudTask ==
  \/ SubscribeFraud \/ TakeFraud
  \/ \E p \in Proposals : Classify(p) \/ Insert(FraudKey(p))

ViewTask == SubscribeView \/ ViewStep

Fairness ==
  /\ WF_vars(FraudTask) /\ WF_vars(ViewTask)
  /\ WF_vars(Insert(ParamsKey))
  /\ \A p \in Proposals : /\ SF_vars(FetchProposal(p))
                          /\ WF_vars(Insert(ProposalKey(p)))
                          /\ WF_vars(Insert(TallyKey(p)))

FairSpec == Spec /\ Fairness

-----------------------------------------------------------------------------

ViewType == [kind : {"view"}, ver : 1..MaxVersion, par : 0..setting.params,
             fraud : BOOLEAN, tally : BOOLEAN]

EntriesOf(k) ==
  CASE k[1] = "proposal" -> {Proposal(v) : v \in 1..MaxVersion} \cup ViewType
    [] k[1] = "fraud"    -> {Fraud(b) : b \in BOOLEAN}
    [] k[1] = "tally"    -> {Tally}
    [] k[1] = "params"   -> [kind : {"params"}, ver : 0..setting.params]

Events == UNION {[key : {k}, entry : EntriesOf(k)] : k \in Keys}

(***************************************************************************)
(* Every key holds entries of its own kind, with the views among the       *)
(* proposals, and so do the agents, the events and the pages.              *)
(***************************************************************************)
TypeOK ==
  /\ setting \in Settings
  /\ chain \in [Proposals -> 0..MaxVersion]
  /\ \A k \in Keys :
       /\ entry[k] \in EntriesOf(k) \cup {Nothing}
       /\ fresh[k] \in EntriesOf(k) \cup {Nothing}
       /\ job[k] \in [at : {"idle", "put", "index", "asking"},
                      with : EntriesOf(k) \cup {Nothing}]
  /\ listed \in SUBSET Keys
  /\ polls \in 0..setting.polls /\ failed \subseteq setting.faulty
  /\ vSub \in BOOLEAN /\ fSub \in BOOLEAN
  /\ vQueue \in Seq(Events) /\ Len(vQueue) <= QueueSize
  /\ fQueue \in Seq(Events) /\ Len(fQueue) <= QueueSize
  /\ DOMAIN views \subseteq Proposals
  /\ \A p \in DOMAIN views : views[p] \in ViewType
  /\ vAt \in {"next", "put", "index"}
  /\ vCur \in Proposals
  /\ html \in [Proposals -> ViewType \cup {Nothing}]
  /\ csv \subseteq Proposals

Quiet ==
  /\ vQueue = <<>> /\ fQueue = <<>>
  /\ vAt = "next" /\ views = <<>>
  /\ \A k \in Keys : job[k] = Idle

(***************************************************************************)
(* When nothing is under way, every proposal in the store has a page that  *)
(* shows the stored version, and a stored view is the one on the page: if  *)
(* the view agent was there in time, and nothing has failed.               *)
(***************************************************************************)
PagesAgree ==
  Quiet /\ ~setting.late /\ failed = {} =>
           \A p \in Proposals :
             LET e == entry[ProposalKey(p)]
             IN e # Nothing => /\ html[p] # Nothing
                               /\ html[p].ver = e.ver
                               /\ e.kind = "view" => html[p] = e

(***************************************************************************)
(* The classifier is asked once: a classification that has been stored,    *)
(* also a failed one, is never replaced.  (One whose insert has failed     *)
(* between entry and index is not stored.)                                 *)
(***************************************************************************)
ClassifiedOnce ==
  [][\A p \in Proposals :
       FraudKey(p) \in listed =>
         /\ entry'[FraudKey(p)] = entry[FraudKey(p)]
         /\ job'[FraudKey(p)].at # "asking"]_vars

(***************************************************************************)
(* The view agent watches what it writes itself, and yet the events come   *)
(* to an end: when nothing more is fetched, everything falls quiet.        *)
(***************************************************************************)
FallsQuiet == setting.polls > 0 => <>[]Quiet

(***************************************************************************)
(* In the end a page shows what is known: the version that the proposal    *)
(* has come to rest at, the parameters, classification and tally in the    *)
(* store.  A page that cannot be written and inserts that fail do not keep *)
(* it from that, but for an insert of a view: what is under way when it    *)
(* fails may miss the page.                                                *)
(***************************************************************************)
PagesCatchUp ==
  setting.polls = 0 /\ "view" \notin setting.faulty =>
    \A p \in Proposals : <>[](chain[p] > 0 => html[p] = ViewOf(p, chain[p]))

(***************************************************************************)
(* Every proposal is reviewed in the end, although the fraud detection     *)
(* loses its events when an insert fails: one that stays active has a      *)
(* classification, and one that has ended is exported exactly if it has a  *)
(* spam likelihood; unless the task has panicked, after which nothing is   *)
(* reviewed any more.  This rests on the views: the next fetch inserts,    *)
(* and announces, what a view has replaced.                                *)
(***************************************************************************)
Reviewed ==
  setting.polls = 0 =>
    \A p \in Proposals :
      <>[](chain[p] > 0 /\ "panic" \notin failed =>
             IF Active(chain[p]) THEN FraudKey(p) \in listed
                                 ELSE p \in csv <=> p \in setting.rated)

(***************************************************************************)
(* The view agent handles each type: the event of a classification or a    *)
(* tally of a proposal that is in the store renews the view of the         *)
(* proposal.                                                               *)
(***************************************************************************)
ResultsRenew ==
  [][TakeView /\ Head(vQueue).entry \in {Fraud(TRUE), Tally} =>
       Head(vQueue).key[2] \in DOMAIN views']_vars

=============================================================================
