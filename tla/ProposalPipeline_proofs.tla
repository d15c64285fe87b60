---------------------- MODULE ProposalPipeline_proofs -----------------------
(***************************************************************************)
(* Proofs about ProposalPipeline, for any proposals, versions, lengths of  *)
(* the queues and settings.                                                *)
(*                                                                         *)
(* PipeTypes is TypeOK made inductive: what is being inserted is an entry  *)
(* for its key, there are always parameters, and a view that is being put  *)
(* is one of those that are to be stored.  FraudInv says what may be under *)
(* way for a proposal that has its classification, and AgreeInv how the    *)
(* store, the events on their way, the views and the pages hang together   *)
(* while nothing has failed.                                               *)
(***************************************************************************)
EXTENDS ProposalPipeline, TLAPS

(* What an agent may be doing with key k. *)
JobsOf(k) ==
  {Idle, [at |-> "asking", with |-> Nothing]}
    \cup [at : {"put", "index"}, with : EntriesOf(k)]

EntryOrNone(k) == EntriesOf(k) \cup {Nothing}

StoreTypes ==
  /\ entry = [k \in Keys |-> entry[k]] /\ fresh = [k \in Keys |-> fresh[k]]
  /\ \A k \in Keys : entry[k] \in EntryOrNone(k) /\ fresh[k] \in EntryOrNone(k)
  /\ entry[ParamsKey] \in EntriesOf(ParamsKey)
  /\ listed \subseteq Keys

JobTypes ==
  /\ job = [k \in Keys |-> job[k]]
  /\ \A k \in Keys : job[k] \in JobsOf(k)

GivenTypes ==
  /\ setting \in Settings
  /\ chain \in [Proposals -> 0..MaxVersion]
  /\ polls \in 0..setting.polls /\ failed \subseteq setting.faulty

QueueTypes ==
  /\ vSub \in BOOLEAN /\ fSub \in BOOLEAN
  /\ vQueue \in Seq(Events) /\ Len(vQueue) <= QueueSize
  /\ fQueue \in Seq(Events) /\ Len(fQueue) <= QueueSize

ViewTypes ==
  /\ DOMAIN views \subseteq Proposals
  /\ \A p \in DOMAIN views : views[p] \in ViewType
  /\ vAt \in {"next", "put", "index"}
  /\ vCur \in Proposals
  /\ vAt = "put" => vCur \in DOMAIN views

PageTypes ==
  /\ html \in [Proposals -> ViewType \cup {Nothing}]
  /\ csv \subseteq Proposals

PipeTypes ==
  StoreTypes /\ JobTypes /\ GivenTypes /\ QueueTypes /\ ViewTypes /\ PageTypes

-----------------------------------------------------------------------------

(* The keys, and what is kept under them. *)

LEMMA KeysAre ==
  /\ ParamsKey \in Keys /\ ParamsKey[1] = "params"
  /\ \A p \in Proposals :
       /\ ProposalKey(p) \in Keys /\ TallyKey(p) \in Keys /\ FraudKey(p) \in Keys
       /\ ProposalKey(p)[1] = "proposal" /\ ProposalKey(p)[2] = p
       /\ TallyKey(p)[1] = "tally" /\ TallyKey(p)[2] = p
       /\ FraudKey(p)[1] = "fraud" /\ FraudKey(p)[2] = p
  /\ \A k \in Keys :
       \/ k = ParamsKey
       \/ \E p \in Proposals : k \in {ProposalKey(p), TallyKey(p), FraudKey(p)}
BY DEF Keys, ParamsKey, ProposalKey, TallyKey, FraudKey

LEMMA KeyKinds ==
  ASSUME NEW k \in Keys
  PROVE  /\ k[1] \in {"proposal", "tally", "fraud", "params"}
         /\ k[1] = "proposal" => k[2] \in Proposals /\ k = ProposalKey(k[2])
         /\ k[1] = "tally" => k[2] \in Proposals /\ k = TallyKey(k[2])
         /\ k[1] = "fraud" => k[2] \in Proposals /\ k = FraudKey(k[2])
         /\ k[1] = "params" => k = ParamsKey
<1>1. CASE k = ParamsKey
  BY <1>1, KeysAre
<1>2. CASE \E p \in Proposals : k \in {ProposalKey(p), TallyKey(p), FraudKey(p)}
  <2>1. PICK p \in Proposals : k \in {ProposalKey(p), TallyKey(p), FraudKey(p)}
    BY <1>2
  <2>2. CASE k = ProposalKey(p)
    BY <2>2, KeysAre
  <2>3. CASE k = TallyKey(p)
    BY <2>3, KeysAre
  <2>4. CASE k = FraudKey(p)
    BY <2>4, KeysAre
  <2> QED BY <2>1, <2>2, <2>3, <2>4
<1> QED BY <1>1, <1>2, KeysAre

LEMMA EntriesAre ==
  /\ EntriesOf(ParamsKey) = [kind : {"params"}, ver : 0..setting.params]
  /\ \A p \in Proposals :
       /\ EntriesOf(ProposalKey(p)) = {Proposal(v) : v \in 1..MaxVersion} \cup ViewType
       /\ EntriesOf(FraudKey(p)) = {Fraud(b) : b \in BOOLEAN}
       /\ EntriesOf(TallyKey(p)) = {Tally}
BY KeysAre DEF EntriesOf

LEMMA EntryKinds ==
  ASSUME NEW k \in Keys, NEW e \in EntriesOf(k)
  PROVE  /\ e # Nothing /\ e.kind # "nothing"
         /\ e.kind = "proposal" => k[1] = "proposal" /\ e.ver \in 1..MaxVersion
                                                     /\ e = Proposal(e.ver)
         /\ e.kind = "view" => k[1] = "proposal" /\ e \in ViewType
         /\ e.kind = "params" => k = ParamsKey /\ e.ver \in 0..setting.params
         /\ e.kind = "fraud" => k[1] = "fraud"
         /\ e.kind = "tally" => k[1] = "tally"
<1>0. Nothing.kind = "nothing"
  BY DEF Nothing
<1>1. CASE k = ParamsKey
  BY <1>0, <1>1, EntriesAre
<1>2. ASSUME NEW p \in Proposals, k = ProposalKey(p)
      PROVE  /\ e.kind \in {"proposal", "view"} /\ k[1] = "proposal"
             /\ e.kind = "proposal" => e.ver \in 1..MaxVersion /\ e = Proposal(e.ver)
             /\ e.kind = "view" => e \in ViewType
  <2>1. CASE e \in ViewType
    BY <1>2, <2>1, KeysAre DEF ViewType
  <2>2. CASE \E v \in 1..MaxVersion : e = Proposal(v)
    BY <1>2, <2>2, KeysAre DEF Proposal
  <2> QED BY <1>2, <2>1, <2>2, EntriesAre
<1>3. ASSUME NEW p \in Proposals, k = FraudKey(p)
      PROVE  e.kind = "fraud" /\ k[1] = "fraud"
  BY <1>3, EntriesAre, KeysAre DEF Fraud
<1>4. ASSUME NEW p \in Proposals, k = TallyKey(p)
      PROVE  e.kind = "tally" /\ k[1] = "tally"
  BY <1>4, EntriesAre, KeysAre DEF Tally
<1> QED BY <1>0, <1>1, <1>2, <1>3, <1>4, KeysAre

(* What the setting allows does not change. *)
LEMMA SameKinds ==
  ASSUME setting' = setting
  PROVE  /\ \A k : EntriesOf(k)' = EntriesOf(k)
         /\ ViewType' = ViewType /\ Events' = Events
         /\ \A k : JobsOf(k)' = JobsOf(k) /\ EntryOrNone(k)' = EntryOrNone(k)
<1>1. ViewType' = ViewType
  BY DEF ViewType
<1>2. \A k : EntriesOf(k)' = EntriesOf(k)
  BY <1>1 DEF EntriesOf
<1>3. Events' = Events
  BY <1>2 DEF Events
<1>4. \A k : JobsOf(k)' = JobsOf(k) /\ EntryOrNone(k)' = EntryOrNone(k)
  BY <1>2 DEF JobsOf, EntryOrNone
<1> QED BY <1>1, <1>2, <1>3, <1>4

LEMMA SettingTypes ==
  ASSUME PipelineAssumption, setting \in Settings
  PROVE  /\ setting.top \in 1..MaxVersion /\ setting.params \in Nat
         /\ setting.polls \in Nat /\ setting.faulty \subseteq Writers
         /\ setting.rated \subseteq Proposals
         /\ MaxVersion \in Nat \ {0} /\ QueueSize \in Nat \ {0}
BY DEF PipelineAssumption

LEMMA EventTypes ==
  /\ \A k \in Keys : \A e \in EntriesOf(k) : [key |-> k, entry |-> e] \in Events
  /\ \A v \in Events : v.key \in Keys /\ v.entry \in EntriesOf(v.key)
<1>1. ASSUME NEW k \in Keys, NEW e \in EntriesOf(k)
      PROVE  [key |-> k, entry |-> e] \in Events
  <2>1. [key |-> k, entry |-> e] \in [key : {k}, entry : EntriesOf(k)]
    OBVIOUS
  <2> QED BY <2>1 DEF Events
<1>2. ASSUME NEW v \in Events
      PROVE  v.key \in Keys /\ v.entry \in EntriesOf(v.key)
  <2>1. PICK k \in Keys : v \in [key : {k}, entry : EntriesOf(k)]
    BY DEF Events
  <2>2. v.key = k /\ v.entry \in EntriesOf(k)
    BY <2>1
  <2> QED BY <2>2
<1> QED BY <1>1, <1>2

LEMMA TypesAreOK == PipeTypes => TypeOK
<1> SUFFICES ASSUME PipeTypes PROVE TypeOK
  OBVIOUS
<1>1. \A k \in Keys :
        /\ entry[k] \in EntriesOf(k) \cup {Nothing}
        /\ fresh[k] \in EntriesOf(k) \cup {Nothing}
  BY DEF PipeTypes, StoreTypes, EntryOrNone
<1>2. ASSUME NEW k \in Keys
      PROVE  job[k] \in [at : {"idle", "put", "index", "asking"},
                         with : EntriesOf(k) \cup {Nothing}]
  <2>1. job[k] \in JobsOf(k)
    BY DEF PipeTypes, JobTypes
  <2>2. CASE job[k] = Idle
    BY <2>2 DEF Idle
  <2>3. CASE job[k] = [at |-> "asking", with |-> Nothing]
    BY <2>3
  <2>4. CASE job[k] \in [at : {"put", "index"}, with : EntriesOf(k)]
    BY <2>4
  <2> QED BY <2>1, <2>2, <2>3, <2>4 DEF JobsOf
<1> QED BY <1>1, <1>2 DEF PipeTypes, StoreTypes, GivenTypes, QueueTypes, ViewTypes,
                          PageTypes, TypeOK

-----------------------------------------------------------------------------

(* What the operations of the store do to the types. *)

LEMMA SendTypes ==
  ASSUME PipeTypes, setting' = setting, NEW k \in Keys, NEW e \in EntriesOf(k),
         Room(k), Send(k, e), UNCHANGED subs
  PROVE  QueueTypes'
<1> DEFINE v == [key |-> k, entry |-> e]
<1>1. v \in Events
  BY EventTypes
<1>2. /\ vQueue' = IF vSub THEN Append(vQueue, v) ELSE vQueue
      /\ fQueue' = IF fSub /\ k[1] = "proposal" THEN Append(fQueue, v) ELSE fQueue
  BY DEF Send
<1> HIDE DEF v
<1>3. /\ vQueue \in Seq(Events) /\ fQueue \in Seq(Events)
      /\ Len(vQueue) <= QueueSize /\ Len(fQueue) <= QueueSize /\ QueueSize \in Nat
      /\ vSub \in BOOLEAN /\ fSub \in BOOLEAN /\ UNCHANGED <<vSub, fSub>>
  BY PipelineAssumption DEF PipeTypes, QueueTypes, subs, PipelineAssumption
<1>4. vQueue' \in Seq(Events) /\ Len(vQueue') <= QueueSize
  <2>1. CASE vSub
    BY <1>1, <1>2, <1>3, <2>1 DEF Room
  <2>2. CASE ~vSub
    BY <1>2, <1>3, <2>2
  <2> QED BY <2>1, <2>2
<1>5. fQueue' \in Seq(Events) /\ Len(fQueue') <= QueueSize
  <2>1. CASE fSub /\ k[1] = "proposal"
    BY <1>1, <1>2, <1>3, <2>1 DEF Room
  <2>2. CASE ~(fSub /\ k[1] = "proposal")
    BY <1>2, <1>3, <2>2
  <2> QED BY <2>1, <2>2
<1> QED BY <1>3, <1>4, <1>5, SameKinds DEF QueueTypes

LEMMA PutEntryTypes ==
  ASSUME PipeTypes, setting' = setting, NEW k \in Keys, NEW e \in EntriesOf(k),
         PutEntry(k, e)
  PROVE  StoreTypes'
<1>1. /\ e \in EntryOrNone(k)
      /\ entry = [l \in Keys |-> entry[l]] /\ fresh = [l \in Keys |-> fresh[l]]
      /\ \A l \in Keys : entry[l] \in EntryOrNone(l) /\ fresh[l] \in EntryOrNone(l)
      /\ entry[ParamsKey] \in EntriesOf(ParamsKey) /\ listed \subseteq Keys
      /\ UNCHANGED listed
  BY DEF EntryOrNone, PipeTypes, StoreTypes, PutEntry
<1>2. /\ entry' = [l \in Keys |-> entry'[l]] /\ fresh' = [l \in Keys |-> fresh'[l]]
      /\ \A l \in Keys : entry'[l] \in {entry[l]} \cup {x \in {e} : l = k}
      /\ \A l \in Keys : fresh'[l] \in {fresh[l]} \cup {x \in {e} : l = k}
  BY <1>1 DEF PutEntry
<1>3. \A l \in Keys : entry'[l] \in EntryOrNone(l) /\ fresh'[l] \in EntryOrNone(l)
  BY <1>1, <1>2
<1>4. entry'[ParamsKey] \in EntriesOf(ParamsKey)
  BY <1>1, <1>2, KeysAre
<1> QED BY <1>1, <1>2, <1>3, <1>4, SameKinds DEF StoreTypes

LEMMA PutIndexTypes ==
  ASSUME PipeTypes, setting' = setting, NEW k \in Keys, PutIndex(k)
  PROVE  StoreTypes'
<1>1. /\ entry = [l \in Keys |-> entry[l]] /\ fresh = [l \in Keys |-> fresh[l]]
      /\ \A l \in Keys : entry[l] \in EntryOrNone(l) /\ fresh[l] \in EntryOrNone(l)
      /\ entry[ParamsKey] \in EntriesOf(ParamsKey) /\ listed \subseteq Keys
      /\ listed' = listed \cup {k}
  BY DEF PipeTypes, StoreTypes, PutIndex
<1>2. /\ entry' = [l \in Keys |-> entry'[l]]
      /\ \A l \in Keys : entry'[l] = entry[l] \/ (entry'[l] = fresh[l] /\ fresh[l] # Nothing)
  BY <1>1 DEF PutIndex
<1>3. /\ fresh' = [l \in Keys |-> fresh'[l]]
      /\ \A l \in Keys : fresh'[l] = fresh[l] \/ fresh'[l] = Nothing
  BY <1>1 DEF PutIndex
<1>4. \A l \in Keys : entry'[l] \in EntryOrNone(l) /\ fresh'[l] \in EntryOrNone(l)
  BY <1>1, <1>2, <1>3 DEF EntryOrNone
<1>5. entry'[ParamsKey] \in EntriesOf(ParamsKey)
  BY <1>1, <1>2, KeysAre DEF EntryOrNone
<1> QED BY <1>1, <1>2, <1>3, <1>4, <1>5, SameKinds DEF StoreTypes

(* A job that begins, goes on or ends. *)
LEMMA SetJobTypes ==
  ASSUME PipeTypes, setting' = setting, NEW k \in Keys, NEW j \in JobsOf(k),
         job' = [job EXCEPT ![k] = j]
  PROVE  JobTypes'
<1>1. job = [l \in Keys |-> job[l]] /\ \A l \in Keys : job[l] \in JobsOf(l)
  BY DEF PipeTypes, JobTypes
<1>2. job' = [l \in Keys |-> job'[l]] /\ \A l \in Keys : job'[l] \in JobsOf(l)
  BY <1>1
<1> QED BY <1>2, SameKinds DEF JobTypes

LEMMA IdleJob == \A k : Idle \in JobsOf(k) /\ [at |-> "asking", with |-> Nothing] \in JobsOf(k)
BY DEF JobsOf

LEMMA PutJob ==
  ASSUME NEW k, NEW e \in EntriesOf(k)
  PROVE  [at |-> "put", with |-> e] \in JobsOf(k)
BY DEF JobsOf

LEMMA PuttingJob ==
  ASSUME PipeTypes, NEW k \in Keys, job[k].at \in {"put", "index"}
  PROVE  /\ job[k].with \in EntriesOf(k)
         /\ job[k] = [at |-> job[k].at, with |-> job[k].with]
         /\ [job[k] EXCEPT !.at = "index"] \in JobsOf(k)
<1>1. job[k] \in JobsOf(k)
  BY DEF PipeTypes, JobTypes
<1>2. job[k] # Idle /\ job[k] # [at |-> "asking", with |-> Nothing]
  BY DEF Idle
<1>3. job[k] \in [at : {"put", "index"}, with : EntriesOf(k)]
  BY <1>1, <1>2 DEF JobsOf
<1> QED BY <1>3 DEF JobsOf

-----------------------------------------------------------------------------

(* Parts that a step leaves alone keep their types. *)
LEMMA SameTypes ==
  ASSUME PipeTypes, setting' = setting
  PROVE  /\ UNCHANGED shop => StoreTypes'
         /\ UNCHANGED job => JobTypes'
         /\ UNCHANGED <<chain, polls, failed>> => GivenTypes'
         /\ UNCHANGED <<events, subs>> => QueueTypes'
         /\ UNCHANGED viewer => ViewTypes'
         /\ UNCHANGED output => PageTypes'
<1>1. UNCHANGED shop => StoreTypes'
  BY SameKinds DEF PipeTypes, StoreTypes, shop
<1>2. UNCHANGED job => JobTypes'
  BY SameKinds DEF PipeTypes, JobTypes
<1>3. UNCHANGED <<chain, polls, failed>> => GivenTypes'
  BY DEF PipeTypes, GivenTypes
<1>4. UNCHANGED <<events, subs>> => QueueTypes'
  BY SameKinds DEF PipeTypes, QueueTypes, events, subs
<1>5. UNCHANGED viewer => ViewTypes'
  BY SameKinds DEF PipeTypes, ViewTypes, viewer
<1>6. UNCHANGED output => PageTypes'
  BY SameKinds DEF PipeTypes, PageTypes, output
<1> QED BY <1>1, <1>2, <1>3, <1>4, <1>5, <1>6

LEMMA PipeInit == Init => PipeTypes
<1> SUFFICES ASSUME Init PROVE PipeTypes
  OBVIOUS
<1>0. setting \in Settings /\ setting.polls \in Nat /\ setting.params \in Nat
      /\ MaxVersion \in Nat /\ QueueSize \in Nat
  BY PipelineAssumption, SettingTypes DEF Init
<1>1. StoreTypes
  <2>1. Params(0) \in EntriesOf(ParamsKey)
    BY <1>0, EntriesAre DEF Params
  <2>2. /\ entry = [k \in Keys |-> IF k = ParamsKey THEN Params(0) ELSE Nothing]
        /\ fresh = [k \in Keys |-> Nothing] /\ listed = {ParamsKey}
    BY DEF Init
  <2> QED BY <2>1, <2>2, KeysAre DEF StoreTypes, EntryOrNone
<1>2. JobTypes
  BY IdleJob DEF Init, JobTypes
<1>3. GivenTypes
  <2>1. chain \in [Proposals -> 0..MaxVersion]
    BY <1>0 DEF Init
  <2> QED BY <1>0, <2>1 DEF Init, GivenTypes
<1>4. QueueTypes
  <2>1. vQueue = <<>> /\ fQueue = <<>>
        /\ vSub = ~setting.late /\ fSub = ~setting.late
    BY DEF Init
  <2>2. vQueue \in Seq(Events) /\ fQueue \in Seq(Events)
        /\ Len(vQueue) = 0 /\ Len(fQueue) = 0
    BY <2>1
  <2> QED BY <1>0, <2>1, <2>2 DEF QueueTypes
<1>5. ViewTypes
  <2>1. views = <<>> /\ vAt = "next" /\ vCur \in Proposals
    BY DEF Init
  <2>2. DOMAIN views = {}
    BY <2>1
  <2> QED BY <2>1, <2>2 DEF ViewTypes
<1>6. PageTypes
  BY DEF Init, PageTypes
<1> QED BY <1>1, <1>2, <1>3, <1>4, <1>5, <1>6 DEF PipeTypes

(* A fetch begins: what has been fetched is an entry for its key. *)
LEMMA FetchTypes ==
  ASSUME PipeTypes, NEW p \in Proposals,
         FetchParams \/ FetchProposal(p) \/ FetchTally(p)
  PROVE  PipeTypes'
<1>0. setting \in Settings /\ setting' = setting
  BY DEF PipeTypes, GivenTypes, FetchParams, FetchProposal, FetchTally, given
<1>1. UNCHANGED <<shop, events, viewer, subs, output>>
  BY DEF FetchParams, FetchProposal, FetchTally
<1>2. ASSUME NEW k \in Keys, NEW e \in EntriesOf(k), Begin(k, e)
      PROVE  JobTypes'
  BY <1>0, <1>2, PutJob, SetJobTypes DEF Begin
<1>3. JobTypes'
  <2>1. CASE FetchParams
    <3>1. entry[ParamsKey] \in [kind : {"params"}, ver : 0..setting.params]
      BY EntriesAre DEF PipeTypes, StoreTypes
    <3>2. entry[ParamsKey].ver + 1 \in 0..setting.params
      BY <1>0, <2>1, <3>1, PipelineAssumption, SettingTypes DEF FetchParams
    <3>3. Params(entry[ParamsKey].ver + 1) \in EntriesOf(ParamsKey)
      BY <3>2, EntriesAre DEF Params
    <3> QED BY <1>2, <2>1, <3>3, KeysAre DEF FetchParams
  <2>2. CASE FetchProposal(p)
    <3>1. chain[p] \in 1..MaxVersion
      BY <2>2, PipelineAssumption DEF PipelineAssumption, FetchProposal, PipeTypes, GivenTypes
    <3>2. Proposal(chain[p]) \in EntriesOf(ProposalKey(p))
      BY <3>1, EntriesAre
    <3> QED BY <1>2, <2>2, <3>2, KeysAre DEF FetchProposal
  <2>3. CASE FetchTally(p)
    BY <1>2, <2>3, EntriesAre, KeysAre DEF FetchTally
  <2> QED BY <2>1, <2>2, <2>3
<1>4. GivenTypes'
  <2>1. chain' = chain /\ failed' = failed /\ polls \in 0..setting.polls
        /\ setting.polls \in Nat
    BY <1>0, PipelineAssumption, SettingTypes
       DEF FetchParams, FetchProposal, FetchTally, given, PipeTypes, GivenTypes
  <2>2. polls' \in 0..setting.polls
    <3>1. CASE UNCHANGED polls
      BY <2>1, <3>1
    <3>2. CASE FetchProposal(p)
      BY <2>1, <3>2 DEF FetchProposal
    <3> QED BY <3>1, <3>2 DEF FetchParams, FetchTally, given
  <2> QED BY <1>0, <2>1, <2>2 DEF PipeTypes, GivenTypes
<1> QED BY <1>0, <1>1, <1>3, <1>4, SameTypes DEF PipeTypes

(* The inserts of what was fetched or classified. *)
LEMMA InsertTypes ==
  ASSUME PipeTypes, NEW k \in Keys, Insert(k) \/ InsertFails(k)
  PROVE  PipeTypes'
<1>0. setting' = setting
  BY DEF Insert, Put, Same, Index, InsertFails, given
<1>1. CASE Put(k)
  <2>1. job[k].at \in {"put", "index"}
    BY <1>1 DEF Put
  <2>2. job[k].with \in EntriesOf(k) /\ [job[k] EXCEPT !.at = "index"] \in JobsOf(k)
    BY <2>1, PuttingJob
  <2>3. job' = [job EXCEPT ![k] = [job[k] EXCEPT !.at = "index"]]
    BY <1>1 DEF Put
  <2>4. JobTypes'
    BY <1>0, <2>2, <2>3, SetJobTypes
  <2>5. StoreTypes' /\ QueueTypes'
    BY <1>0, <1>1, <2>2, PutEntryTypes, SendTypes DEF Put, PutEntry
  <2> QED BY <1>0, <1>1, <2>4, <2>5, SameTypes DEF Put, given, PipeTypes
<1>2. CASE Same(k)
  <2>1. JobTypes'
    BY <1>0, <1>2, IdleJob, SetJobTypes DEF Same
  <2> QED BY <1>0, <1>2, <2>1, SameTypes DEF Same, given, PipeTypes
<1>3. CASE Index(k)
  <2>1. JobTypes'
    BY <1>0, <1>3, IdleJob, SetJobTypes DEF Index
  <2>2. StoreTypes'
    BY <1>0, <1>3, PutIndexTypes DEF Index
  <2> QED BY <1>0, <1>3, <2>1, <2>2, SameTypes DEF Index, given, PipeTypes
<1>4. CASE InsertFails(k)
  <2>1. JobTypes'
    BY <1>0, <1>4, IdleJob, SetJobTypes DEF InsertFails
  <2>2. GivenTypes'
    BY <1>0, <1>4 DEF InsertFails, Fails, PipeTypes, GivenTypes
  <2>3. QueueTypes'
    <3>1. fSub' \in BOOLEAN /\ UNCHANGED <<vQueue, vSub>>
          /\ (fQueue' = <<>> \/ fQueue' = fQueue)
      BY <1>4 DEF InsertFails, PipeTypes, QueueTypes
    <3>2. <<>> \in Seq(Events) /\ Len(<<>>) <= QueueSize
      BY PipelineAssumption DEF PipelineAssumption
    <3>3. fQueue' \in Seq(Events) /\ Len(fQueue') <= QueueSize
      BY <3>1, <3>2 DEF PipeTypes, QueueTypes
    <3> QED BY <1>0, <3>1, <3>3, SameKinds DEF PipeTypes, QueueTypes
  <2> QED BY <1>0, <1>4, <2>1, <2>2, <2>3, SameTypes DEF InsertFails, PipeTypes
<1> QED BY <1>1, <1>2, <1>3, <1>4 DEF Insert

(* Taking the first event of a queue. *)
LEMMA TakenEvent ==
  ASSUME NEW q \in Seq(Events), q # <<>>, Len(q) <= QueueSize
  PROVE  /\ Head(q).key \in Keys /\ Head(q).entry \in EntriesOf(Head(q).key)
         /\ Tail(q) \in Seq(Events) /\ Len(Tail(q)) <= QueueSize
<1>1. Head(q) \in Events /\ Tail(q) \in Seq(Events) /\ Len(Tail(q)) = Len(q) - 1
  OBVIOUS
<1>2. Len(q) \in Nat /\ QueueSize \in Nat
  BY PipelineAssumption DEF PipelineAssumption
<1> QED BY <1>1, <1>2, EventTypes

LEMMA ExportedTypes ==
  ASSUME PipeTypes, NEW v
  PROVE  Exported(v) \subseteq Proposals
<1>1. setting.rated \subseteq Proposals
  BY PipelineAssumption, SettingTypes DEF PipeTypes, GivenTypes
<1> QED BY <1>1 DEF Exported

(* The panics of the fraud detection, after which it has no subscription. *)
LEMMA PanicTypes ==
  ASSUME PipeTypes, ExportPanics \/ \E p \in Proposals : AnswerPanics(p)
  PROVE  PipeTypes'
<1>0. /\ setting' = setting /\ FraudGone
      /\ UNCHANGED <<chain, polls, shop, vQueue, vSub, viewer, html>>
  BY DEF ExportPanics, AnswerPanics, output
<1>1. GivenTypes'
  BY <1>0 DEF FraudGone, Fails, PipeTypes, GivenTypes
<1>2. QueueTypes'
  <2>1. <<>> \in Seq(Events) /\ Len(<<>>) <= QueueSize
    BY PipelineAssumption DEF PipelineAssumption
  <2> QED BY <1>0, <2>1, SameKinds DEF FraudGone, PipeTypes, QueueTypes
<1>3. CASE ExportPanics
  <2>1. html' = html /\ csv' \subseteq csv \cup Proposals
    BY <1>0, <1>3, ExportedTypes DEF ExportPanics
  <2>2. PageTypes'
    BY <1>0, <2>1, SameKinds DEF PipeTypes, PageTypes
  <2> QED BY <1>0, <1>1, <1>2, <1>3, <2>2, SameTypes DEF ExportPanics, PipeTypes
<1>4. ASSUME NEW p \in Proposals, AnswerPanics(p) PROVE PipeTypes'
  <2>1. JobTypes'
    BY <1>0, <1>4, KeysAre, IdleJob, SetJobTypes DEF AnswerPanics
  <2> QED BY <1>0, <1>1, <1>2, <1>4, <2>1, SameTypes DEF AnswerPanics, PipeTypes
<1> QED BY <1>3, <1>4

(* The fraud detection. *)
LEMMA FraudTypes ==
  ASSUME PipeTypes,
         SubscribeFraud \/ TakeFraud \/ (\E p \in Proposals : Classify(p))
  PROVE  PipeTypes'
<1>0. setting' = setting
  BY DEF SubscribeFraud, TakeFraud, Classify, given
<1>1. CASE SubscribeFraud
  <2>1. QueueTypes'
    BY <1>0, <1>1, SameKinds DEF SubscribeFraud, events, PipeTypes, QueueTypes
  <2> QED BY <1>0, <1>1, <2>1, SameTypes DEF SubscribeFraud, given, PipeTypes
<1>2. CASE TakeFraud
  <2> DEFINE v == Head(fQueue)
  <2>1. /\ v.key \in Keys /\ v.entry \in EntriesOf(v.key)
        /\ Tail(fQueue) \in Seq(Events) /\ Len(Tail(fQueue)) <= QueueSize
    BY <1>2, TakenEvent DEF TakeFraud, PipeTypes, QueueTypes
  <2>2. QueueTypes'
    BY <1>0, <1>2, <2>1, SameKinds DEF TakeFraud, subs, PipeTypes, QueueTypes
  <2>3. v.entry.kind = "proposal" => v.key[2] \in Proposals
    BY <2>1, EntryKinds, KeyKinds
  <2>4. JobTypes'
    <3>1. CASE ToClassify(v)
      <4>1. FraudKey(v.key[2]) \in Keys
        BY <2>3, <3>1, KeysAre DEF ToClassify
      <4>2. job' = [job EXCEPT ![FraudKey(v.key[2])] = [at |-> "asking", with |-> Nothing]]
        BY <1>2, <3>1 DEF TakeFraud
      <4> QED BY <1>0, <4>1, <4>2, IdleJob, SetJobTypes
    <3>2. CASE ~ToClassify(v)
      BY <1>0, <1>2, <3>2, SameTypes DEF TakeFraud
    <3> QED BY <3>1, <3>2
  <2>5. PageTypes'
    <3>1. html' = html /\ csv' = csv \cup Exported(v)
      BY <1>2 DEF TakeFraud
    <3>2. Exported(v) \subseteq Proposals
      BY ExportedTypes
    <3> QED BY <1>0, <3>1, <3>2, SameKinds DEF PipeTypes, PageTypes
  <2> QED BY <1>0, <1>2, <2>2, <2>4, <2>5, SameTypes DEF TakeFraud, given, PipeTypes
<1>3. ASSUME NEW p \in Proposals, Classify(p) PROVE PipeTypes'
  <2>1. PICK ok \in BOOLEAN :
          job' = [job EXCEPT ![FraudKey(p)] = [at |-> "put", with |-> Fraud(ok)]]
    BY <1>3 DEF Classify
  <2>2. Fraud(ok) \in EntriesOf(FraudKey(p)) /\ FraudKey(p) \in Keys
    BY <2>1, EntriesAre, KeysAre
  <2>3. JobTypes'
    BY <1>0, <2>1, <2>2, PutJob, SetJobTypes
  <2> QED BY <1>0, <1>3, <2>3, SameTypes DEF Classify, given, PipeTypes
<1> QED BY <1>1, <1>2, <1>3

(* A view joins what is in the store. *)
LEMMA ViewTyped ==
  ASSUME PipeTypes, NEW p \in Proposals, NEW v \in 1..MaxVersion
  PROVE  ViewOf(p, v) \in ViewType
<1>1. ParamsKnown \in 0..setting.params
  BY EntriesAre DEF ParamsKnown, PipeTypes, StoreTypes
<1>2. FraudKnown(p) \in BOOLEAN /\ TallyKnown(p) \in BOOLEAN
  BY DEF FraudKnown, TallyKnown
<1> QED BY <1>1, <1>2 DEF ViewOf, ViewType

(* What an event renews is a proposal, with a version. *)
LEMMA RenewedTypes ==
  ASSUME PipeTypes, NEW k \in Keys, NEW e \in EntriesOf(k), NEW v,
         v.key = k, v.entry = e, NEW p \in Renewed(v)
  PROVE  /\ p \in Proposals /\ VersionOf(v, p) \in 1..MaxVersion
         /\ \/ v.entry.kind = "proposal" /\ k = ProposalKey(p) /\ VersionOf(v, p) = e.ver
            \/ v.entry.kind # "proposal" /\ Readable(p)
               /\ VersionOf(v, p) = entry[ProposalKey(p)].ver
<1>1. CASE e.kind = "proposal"
  <2>1. Renewed(v) = {v.key[2]} /\ VersionOf(v, p) = e.ver
    BY <1>1 DEF Renewed, VersionOf
  <2> QED BY <1>1, <2>1, EntryKinds, KeyKinds
<1>2. CASE e.kind # "proposal"
  <2>1. p \in Proposals /\ Readable(p)
    BY <1>2 DEF Renewed, Listed
  <2>2. VersionOf(v, p) = entry[ProposalKey(p)].ver
    BY <1>2 DEF VersionOf
  <2>3. ProposalKey(p) \in Keys /\ entry[ProposalKey(p)] \in EntriesOf(ProposalKey(p))
    BY <2>1, KeysAre DEF Readable, PipeTypes, StoreTypes, EntryOrNone, Nothing
  <2>4. entry[ProposalKey(p)].ver \in 1..MaxVersion
    BY <2>1, <2>3, EntryKinds DEF Readable
  <2> QED BY <1>2, <2>1, <2>2, <2>4
<1> QED BY <1>1, <1>2

(* The view agent. *)
LEMMA ViewerTypes ==
  ASSUME PipeTypes, SubscribeView \/ ViewStep \/ ViewFails
  PROVE  PipeTypes'
<1>0. setting' = setting
  BY DEF SubscribeView, ViewStep, TakeView, ShowView, SameView, PutView, IndexView,
         ViewFails, given
<1>a. ViewType' = ViewType
  BY <1>0, SameKinds
<1>b. ASSUME ViewDone, vAt' \in {"next", "index"}, vCur' = vCur
      PROVE  ViewTypes'
  BY <1>a, <1>b DEF ViewDone, PipeTypes, ViewTypes
<1>1. CASE SubscribeView
  <2>1. QueueTypes'
    BY <1>0, <1>1, SameKinds DEF SubscribeView, events, PipeTypes, QueueTypes
  <2> QED BY <1>0, <1>1, <2>1, SameTypes DEF SubscribeView, given, PipeTypes
<1>2. CASE TakeView
  <2> DEFINE v == Head(vQueue)
  <2>1. /\ v.key \in Keys /\ v.entry \in EntriesOf(v.key)
        /\ Tail(vQueue) \in Seq(Events) /\ Len(Tail(vQueue)) <= QueueSize
    BY <1>2, TakenEvent DEF TakeView, PipeTypes, QueueTypes
  <2>2. QueueTypes'
    BY <1>0, <1>2, <2>1, SameKinds DEF TakeView, subs, PipeTypes, QueueTypes
  <2>3. \A p \in Renewed(v) : p \in Proposals /\ VersionOf(v, p) \in 1..MaxVersion
    BY <2>1, RenewedTypes
  <2>4. /\ views' = [p \in Renewed(v) |-> ViewOf(p, VersionOf(v, p))]
        /\ vAt = "next" /\ UNCHANGED <<vAt, vCur>>
    BY <1>2 DEF TakeView
  <2>5. ViewTypes'
    <3>1. DOMAIN views' = Renewed(v)
      BY <2>4
    <3>2. \A p \in Renewed(v) : views'[p] \in ViewType
      BY <2>3, <2>4, ViewTyped
    <3> QED BY <1>a, <2>3, <2>4, <3>1, <3>2 DEF PipeTypes, ViewTypes
  <2> QED BY <1>0, <1>2, <2>2, <2>5, SameTypes DEF TakeView, given, PipeTypes
<1>3. ASSUME NEW p \in Proposals, ShowView(p) PROVE PipeTypes'
  <2>1. /\ p \in DOMAIN views /\ views' = views /\ vAt' = "put" /\ vCur' = p
        /\ UNCHANGED <<chain, polls, shop, job, events, subs, csv>>
    BY <1>3 DEF ShowView
  <2>2. ViewTypes'
    BY <1>a, <2>1 DEF PipeTypes, ViewTypes
  <2>3. PageTypes'
    BY <1>3, <1>a, <2>1 DEF ShowView, PipeTypes, PageTypes, ViewTypes
  <2>4. GivenTypes'
    BY <1>0, <1>3, <2>1 DEF ShowView, Fails, PipeTypes, GivenTypes
  <2> QED BY <1>0, <2>1, <2>2, <2>3, <2>4, SameTypes DEF PipeTypes
<1>4. CASE SameView
  <2>1. ViewTypes'
    BY <1>4, <1>b DEF SameView
  <2> QED BY <1>0, <1>4, <2>1, SameTypes DEF SameView, given, PipeTypes
<1>5. CASE PutView
  <2> DEFINE k == ProposalKey(vCur)
  <2>1. ViewTypes'
    BY <1>5, <1>b DEF PutView
  <2>2. k \in Keys /\ views[vCur] \in EntriesOf(k)
    BY <1>5, KeysAre, EntriesAre DEF PutView, PipeTypes, ViewTypes
  <2>3. StoreTypes' /\ QueueTypes'
    BY <1>0, <1>5, <2>2, PutEntryTypes, SendTypes DEF PutView, PutEntry
  <2> QED BY <1>0, <1>5, <2>1, <2>3, SameTypes DEF PutView, given, PipeTypes
<1>6. CASE IndexView
  <2>1. ViewTypes'
    BY <1>6, <1>a DEF IndexView, PipeTypes, ViewTypes
  <2>2. StoreTypes'
    BY <1>0, <1>6, KeysAre, PutIndexTypes DEF IndexView, PipeTypes, ViewTypes
  <2> QED BY <1>0, <1>6, <2>1, <2>2, SameTypes DEF IndexView, given, PipeTypes
<1>7. CASE ViewFails
  <2>1. ViewTypes'
    <3>1. CASE ViewDone
      BY <1>7, <1>b, <3>1 DEF ViewFails
    <3>2. CASE UNCHANGED views
      BY <1>7, <1>a, <3>2 DEF ViewFails, PipeTypes, ViewTypes
    <3> QED BY <1>7, <3>1, <3>2 DEF ViewFails
  <2>2. GivenTypes'
    BY <1>0, <1>7 DEF ViewFails, Fails, PipeTypes, GivenTypes
  <2> QED BY <1>0, <1>7, <2>1, <2>2, SameTypes DEF ViewFails, PipeTypes
<1> QED BY <1>1, <1>2, <1>3, <1>4, <1>5, <1>6, <1>7 DEF ViewStep

LEMMA SubmitTypes ==
  ASSUME PipeTypes, NEW p \in Proposals, Submit(p)
  PROVE  PipeTypes'
<1>0. setting' = setting /\ setting \in Settings
  BY DEF Submit, PipeTypes, GivenTypes
<1>1. setting.top \in 1..MaxVersion /\ MaxVersion \in Nat
  BY <1>0, PipelineAssumption, SettingTypes
<1>2. chain[p] \in 0..MaxVersion /\ chain[p] + 1 \in 0..MaxVersion
  BY <1>1 DEF Submit, PipeTypes, GivenTypes
<1>3. GivenTypes'
  BY <1>0, <1>2 DEF Submit, PipeTypes, GivenTypes
<1> QED BY <1>0, <1>3, SameTypes DEF Submit, PipeTypes

LEMMA PipeNext == PipeTypes /\ [Next]_vars => PipeTypes'
<1> SUFFICES ASSUME PipeTypes, [Next]_vars PROVE PipeTypes'
  OBVIOUS
<1>1. CASE FetchParams
  <2>1. CASE Proposals = {}
    BY <2>1 DEF PipeTypes, ViewTypes
  <2>2. CASE Proposals # {}
    BY <1>1, <2>2, FetchTypes
  <2> QED BY <2>1, <2>2
<1>2. ASSUME NEW p \in Proposals, Submit(p) \/ FetchProposal(p) \/ FetchTally(p)
      PROVE  PipeTypes'
  BY <1>2, SubmitTypes, FetchTypes
<1>3. ASSUME NEW k \in Keys, Insert(k) \/ InsertFails(k)
      PROVE  PipeTypes'
  BY <1>3, InsertTypes
<1>4. CASE SubscribeFraud \/ TakeFraud \/ (\E p \in Proposals : Classify(p))
  BY <1>4, FraudTypes
<1>5. CASE SubscribeView \/ ViewStep \/ ViewFails
  BY <1>5, ViewerTypes
<1>6. CASE UNCHANGED vars
  BY <1>6, SameTypes DEF vars, given, PipeTypes
<1>7. CASE ExportPanics \/ \E p \in Proposals : AnswerPanics(p)
  BY <1>7, PanicTypes
<1> QED BY <1>1, <1>2, <1>3, <1>4, <1>5, <1>6, <1>7 DEF Next

LEMMA PipeInvariant == Spec => []PipeTypes
BY PipeInit, PipeNext, PTL DEF Spec

(* Entries, events, views and pages stay what they are for, whatever fails,
   and no queue is ever longer than it may be. *)
THEOREM PipelineTypes == Spec => []TypeOK
BY PipeInvariant, TypesAreOK, PTL

-----------------------------------------------------------------------------

(* What the operations of the store do to every key. *)

KeySame(k) ==
  /\ entry'[k] = entry[k] /\ fresh'[k] = fresh[k]
  /\ k \in listed' <=> k \in listed

LEMMA PutAt ==
  ASSUME PipeTypes, NEW k \in Keys, NEW e, PutEntry(k, e)
  PROVE  /\ \A l \in Keys : l # k => KeySame(l)
         /\ k \in listed' <=> k \in listed
         /\ k \in listed => fresh'[k] = e /\ entry'[k] = entry[k]
         /\ k \notin listed => entry'[k] = e /\ fresh'[k] = fresh[k]
<1>1. entry = [l \in Keys |-> entry[l]] /\ fresh = [l \in Keys |-> fresh[l]]
  BY DEF PipeTypes, StoreTypes
<1>2. listed' = listed
  BY DEF PutEntry
<1>3. CASE k \in listed
  <2>1. fresh' = [fresh EXCEPT ![k] = e] /\ entry' = entry
    BY <1>3 DEF PutEntry
  <2> QED BY <1>1, <1>2, <1>3, <2>1 DEF KeySame
<1>4. CASE k \notin listed
  <2>1. entry' = [entry EXCEPT ![k] = e] /\ fresh' = fresh
    BY <1>4 DEF PutEntry
  <2> QED BY <1>1, <1>2, <1>4, <2>1 DEF KeySame
<1> QED BY <1>3, <1>4

LEMMA IndexAt ==
  ASSUME PipeTypes, NEW k \in Keys, PutIndex(k)
  PROVE  /\ \A l \in Keys : l # k => KeySame(l)
         /\ k \in listed' /\ fresh'[k] = Nothing
         /\ fresh[k] = Nothing => entry'[k] = entry[k]
         /\ fresh[k] # Nothing => entry'[k] = fresh[k]
<1>1. entry = [l \in Keys |-> entry[l]] /\ fresh = [l \in Keys |-> fresh[l]]
  BY DEF PipeTypes, StoreTypes
<1>2. listed' = listed \cup {k} /\ fresh' = [fresh EXCEPT ![k] = Nothing]
  BY DEF PutIndex
<1>3. CASE fresh[k] = Nothing
  <2>1. entry' = entry
    BY <1>3 DEF PutIndex
  <2> QED BY <1>1, <1>2, <1>3, <2>1 DEF KeySame
<1>4. CASE fresh[k] # Nothing
  <2>1. entry' = [entry EXCEPT ![k] = fresh[k]]
    BY <1>4 DEF PutIndex
  <2> QED BY <1>1, <1>2, <1>4, <2>1 DEF KeySame
<1> QED BY <1>3, <1>4

LEMMA ShopSame ==
  UNCHANGED shop => \A k \in Keys : KeySame(k)
BY DEF shop, KeySame

LEMMA JobAt ==
  ASSUME PipeTypes, NEW k \in Keys, NEW j, job' = [job EXCEPT ![k] = j]
  PROVE  job'[k] = j /\ \A l \in Keys : l # k => job'[l] = job[l]
BY DEF PipeTypes, JobTypes

LEMMA KeysDiffer ==
  \A p, q :
    /\ FraudKey(p) # ProposalKey(q) /\ FraudKey(p) # TallyKey(q)
    /\ ProposalKey(p) # TallyKey(q)
    /\ FraudKey(p) # ParamsKey /\ ProposalKey(p) # ParamsKey
    /\ FraudKey(p) = FraudKey(q) => p = q
    /\ ProposalKey(p) = ProposalKey(q) => p = q
BY DEF FraudKey, ProposalKey, TallyKey, ParamsKey

-----------------------------------------------------------------------------

(***************************************************************************)
(* The classifications.  One that is stored has nothing under way for it,  *)
(* and none ever stands above its index.                                   *)
(***************************************************************************)
FraudAt(p) ==
  /\ FraudKey(p) \in listed => job[FraudKey(p)] = Idle
  /\ fresh[FraudKey(p)] = Nothing

FraudInv == \A p \in Proposals : FraudAt(p)

(* What a step does to the classification of p. *)
FraudStep(p) ==
  /\ FraudAt(p)'
  /\ FraudKey(p) \in listed =>
       /\ entry'[FraudKey(p)] = entry[FraudKey(p)]
       /\ job'[FraudKey(p)].at # "asking"

LEMMA FraudSame ==
  ASSUME FraudInv, NEW p \in Proposals, KeySame(FraudKey(p)),
         job'[FraudKey(p)] = job[FraudKey(p)]
  PROVE  FraudStep(p)
BY DEF FraudInv, FraudAt, FraudStep, KeySame, Idle

LEMMA FraudNext ==
  ASSUME PipeTypes, FraudInv, [Next]_vars, NEW p \in Proposals
  PROVE  FraudStep(p)
<1> DEFINE k == FraudKey(p)
<1>0. k \in Keys /\ k[1] = "fraud"
  BY KeysAre
<1>a. ASSUME UNCHANGED shop, job'[k] = job[k] PROVE FraudStep(p)
  BY <1>0, <1>a, ShopSame, FraudSame
<1>b. ASSUME NEW l \in Keys, l # k, NEW j, job' = [job EXCEPT ![l] = j]
      PROVE  job'[k] = job[k]
  BY <1>0, <1>b, JobAt
<1>c. ASSUME UNCHANGED shop, job'[k] = Idle PROVE FraudStep(p)
  BY <1>0, <1>c, ShopSame DEF FraudInv, FraudAt, FraudStep, KeySame, Idle
<1>1. ASSUME FetchParams PROVE FraudStep(p)
  <2>1. job'[k] = job[k]
    BY <1>1, <1>b, KeysAre, KeysDiffer DEF FetchParams, Begin
  <2> QED BY <1>1, <1>a, <2>1 DEF FetchParams
<1>2. ASSUME NEW q \in Proposals, Submit(q) \/ FetchProposal(q) \/ FetchTally(q)
      PROVE  FraudStep(p)
  <2>1. UNCHANGED shop
    BY <1>2 DEF Submit, FetchProposal, FetchTally
  <2>2. CASE Submit(q)
    BY <1>a, <2>1, <2>2 DEF Submit
  <2>3. CASE FetchProposal(q)
    BY <1>a, <1>b, <2>1, <2>3, KeysAre, KeysDiffer DEF FetchProposal, Begin
  <2>4. CASE FetchTally(q)
    BY <1>a, <1>b, <2>1, <2>4, KeysAre, KeysDiffer DEF FetchTally, Begin
  <2> QED BY <1>2, <2>2, <2>3, <2>4
<1>3. ASSUME NEW l \in Keys, l # k, Insert(l) \/ InsertFails(l) PROVE FraudStep(p)
  <2>1. job'[k] = job[k]
    <3>1. \E j : job' = [job EXCEPT ![l] = j]
      BY <1>3 DEF Insert, Put, Same, Index, InsertFails
    <3> QED BY <1>3, <1>b, <3>1
  <2>2. KeySame(k)
    <3>1. CASE Put(l)
      BY <1>0, <1>3, <3>1, PutAt DEF Put
    <3>2. CASE Index(l)
      BY <1>0, <1>3, <3>2, IndexAt DEF Index
    <3>3. CASE Same(l) \/ InsertFails(l)
      BY <1>0, <3>3, ShopSame DEF Same, InsertFails
    <3> QED BY <1>3, <3>1, <3>2, <3>3 DEF Insert
  <2> QED BY <2>1, <2>2, FraudSame
<1>4. ASSUME Insert(k) \/ InsertFails(k) PROVE FraudStep(p)
  <2>1. k \in listed => job[k] = Idle
    BY DEF FraudInv, FraudAt
  <2>2. CASE Put(k)
    <3>1. k \notin listed
      BY <2>1, <2>2 DEF Put, Idle
    <3>2. k \notin listed' /\ fresh'[k] = fresh[k]
      BY <1>0, <2>2, <3>1, PutAt DEF Put
    <3> QED BY <3>1, <3>2 DEF FraudInv, FraudAt, FraudStep
  <2>3. CASE Index(k)
    <3>1. k \notin listed
      BY <2>1, <2>3 DEF Index, Idle
    <3>2. fresh'[k] = Nothing /\ job'[k] = Idle
      BY <1>0, <2>3, IndexAt, JobAt DEF Index
    <3> QED BY <3>1, <3>2 DEF FraudAt, FraudStep
  <2>4. CASE Same(k)
    BY <1>0, <2>4 DEF Same, Stored
  <2>5. CASE InsertFails(k)
    BY <1>0, <1>c, <2>5, JobAt DEF InsertFails
  <2> QED BY <1>4, <2>2, <2>3, <2>4, <2>5 DEF Insert
<1>5. ASSUME SubscribeFraud \/ SubscribeView PROVE FraudStep(p)
  BY <1>5, <1>a DEF SubscribeFraud, SubscribeView
<1>6. ASSUME TakeFraud PROVE FraudStep(p)
  <2> DEFINE v == Head(fQueue)
             l == FraudKey(v.key[2])
  <2>0. UNCHANGED shop
    BY <1>6 DEF TakeFraud
  <2>1. CASE ToClassify(v) /\ l = k
    BY <2>0, <2>1 DEF FraudInv, FraudAt, FraudStep, ToClassify, shop
  <2>2. CASE ToClassify(v) /\ l # k
    <3>1. job' = [job EXCEPT ![l] = [at |-> "asking", with |-> Nothing]]
      BY <1>6, <2>2 DEF TakeFraud
    <3>2. job'[k] = job[k]
      BY <1>0, <2>2, <3>1 DEF PipeTypes, JobTypes
    <3> QED BY <1>a, <2>0, <3>2
  <2>3. CASE ~ToClassify(v)
    BY <1>6, <1>a, <2>0, <2>3 DEF TakeFraud
  <2> QED BY <2>1, <2>2, <2>3
<1>7. ASSUME NEW q \in Proposals, Classify(q) PROVE FraudStep(p)
  <2>0. UNCHANGED shop
    BY <1>7 DEF Classify
  <2>1. PICK j : job' = [job EXCEPT ![FraudKey(q)] = j]
    BY <1>7 DEF Classify
  <2>2. CASE q = p
    <3>1. k \notin listed
      BY <1>7, <2>2 DEF Classify, FraudInv, FraudAt, Idle
    <3> QED BY <2>0, <3>1 DEF FraudInv, FraudAt, FraudStep, shop
  <2>3. CASE q # p
    BY <1>a, <1>b, <2>0, <2>1, <2>3, KeysAre, KeysDiffer
  <2> QED BY <2>2, <2>3
<1>8. ASSUME ViewStep \/ ViewFails PROVE FraudStep(p)
  <2>1. UNCHANGED job
    BY <1>8 DEF ViewStep, TakeView, ShowView, SameView, PutView, IndexView, ViewFails, given
  <2>2. ProposalKey(vCur) \in Keys /\ k # ProposalKey(vCur)
    BY KeysAre, KeysDiffer DEF PipeTypes, ViewTypes
  <2>3. CASE PutView
    BY <1>0, <2>1, <2>2, <2>3, PutAt, FraudSame DEF PutView
  <2>4. CASE IndexView
    BY <1>0, <2>1, <2>2, <2>4, IndexAt, FraudSame DEF IndexView
  <2>5. CASE UNCHANGED shop
    BY <1>a, <2>1, <2>5
  <2> QED BY <1>8, <2>3, <2>4, <2>5 DEF ViewStep, TakeView, ShowView, SameView, ViewFails
<1>9. ASSUME UNCHANGED vars \/ ExportPanics PROVE FraudStep(p)
  BY <1>9, <1>a DEF vars, ExportPanics
<1>10. ASSUME NEW q \in Proposals, AnswerPanics(q) PROVE FraudStep(p)
  <2>1. UNCHANGED shop /\ job' = [job EXCEPT ![FraudKey(q)] = Idle]
    BY <1>10 DEF AnswerPanics
  <2>2. CASE q = p
    <3>1. k \notin listed
      BY <1>10, <2>2 DEF AnswerPanics, FraudInv, FraudAt, Idle
    <3> QED BY <2>1, <3>1 DEF FraudInv, FraudAt, FraudStep, shop
  <2>3. CASE q # p
    BY <1>a, <1>b, <2>1, <2>3, KeysAre, KeysDiffer
  <2> QED BY <2>2, <2>3
<1> QED BY <1>1, <1>2, <1>3, <1>4, <1>5, <1>6, <1>7, <1>8, <1>9, <1>10 DEF Next

LEMMA FraudInitially == Init => FraudInv
<1> SUFFICES ASSUME Init, NEW p \in Proposals PROVE FraudAt(p)
  BY DEF FraudInv
<1>1. FraudKey(p) \in Keys
  BY KeysAre
<1>2. fresh = [k \in Keys |-> Nothing] /\ job = [k \in Keys |-> Idle]
  BY DEF Init
<1> QED BY <1>1, <1>2 DEF FraudAt

LEMMA FraudInvariant == Spec => []FraudInv
<1>1. PipeTypes /\ FraudInv /\ [Next]_vars => FraudInv'
  BY FraudNext DEF FraudInv, FraudStep
<1> QED BY <1>1, FraudInitially, PipeInvariant, PTL DEF Spec

(* The classifier is asked once about a proposal, and a classification that
   has been stored is never replaced, whatever fails. *)
THEOREM ClassifiesOnce == Spec => ClassifiedOnce
<1>1. PipeTypes /\ FraudInv /\ [Next]_vars =>
        [\A p \in Proposals :
           FraudKey(p) \in listed =>
             /\ entry'[FraudKey(p)] = entry[FraudKey(p)]
             /\ job'[FraudKey(p)].at # "asking"]_vars
  BY FraudNext DEF FraudStep
<1> QED BY <1>1, PipeInvariant, FraudInvariant, PTL DEF Spec, ClassifiedOnce

-----------------------------------------------------------------------------

(***************************************************************************)
(* The pages.  Latest(p) is what the store has taken last for p, above the *)
(* index or not.  While the events announce a version of p, the last that  *)
(* does announces the latest; when none does any more, the latest version  *)
(* is that of the view to be stored, or else it is on the page.            *)
(***************************************************************************)
Latest(p) ==
  IF fresh[ProposalKey(p)] = Nothing THEN entry[ProposalKey(p)]
                                     ELSE fresh[ProposalKey(p)]

Announces(v, p) == v.key = ProposalKey(p) /\ v.entry.kind = "proposal"

Due(q, p) == \E i \in 1..Len(q) : Announces(q[i], p)

LastSays(q, p, e) ==
  \A i \in 1..Len(q) :
    Announces(q[i], p) /\ (\A j \in (i + 1)..Len(q) : ~Announces(q[j], p))
      => q[i].entry = e

Shown(p) ==
  Latest(p) # Nothing =>
    /\ html[p] # Nothing /\ html[p].ver = Latest(p).ver
    /\ Latest(p).kind = "view" => html[p] = Latest(p)

Storing(p) == vAt = "index" /\ vCur = p

(* What stands above the index is there because somebody is to move it. *)
FreshAt(p) ==
  LET k == ProposalKey(p)
  IN /\ k \notin listed => fresh[k] = Nothing
     /\ fresh[k].kind = "proposal" => job[k].at = "index"
     /\ fresh[k].kind = "view" => Storing(p)
     /\ job[k].with.kind # "view"

ToldAt(p) ==
  /\ Latest(p).kind = "proposal" => LastSays(vQueue, p, Latest(p))
  /\ ~Due(vQueue, p) =>
       /\ p \in DOMAIN views /\ Latest(p).kind = "proposal" =>
            views[p].ver = Latest(p).ver
       /\ p \notin DOMAIN views => Shown(p)
       /\ p \notin DOMAIN views /\ fresh[ProposalKey(p)] # Nothing /\ ~Storing(p) =>
            entry[ProposalKey(p)].kind = "view"

ViewerAt ==
  /\ vSub
  /\ vAt = "put" => html[vCur] = views[vCur]
  /\ vAt = "index" => vCur \notin DOMAIN views

Undisturbed == ~setting.late /\ failed = {}

AgreeInv ==
  Undisturbed => ViewerAt /\ \A p \in Proposals : FreshAt(p) /\ ToldAt(p)

-----------------------------------------------------------------------------

(* What an event added, or taken, says of a proposal. *)

LEMMA DueAppend ==
  ASSUME NEW S, NEW q \in Seq(S), NEW v, NEW p
  PROVE  /\ Due(Append(q, v), p) <=> Due(q, p) \/ Announces(v, p)
         /\ Announces(v, p) => LastSays(Append(q, v), p, v.entry)
         /\ ~Announces(v, p) =>
              \A e : LastSays(q, p, e) => LastSays(Append(q, v), p, e)
<1> DEFINE r == Append(q, v)
<1>1. /\ Len(q) \in Nat /\ Len(r) = Len(q) + 1 /\ r[Len(q) + 1] = v
      /\ \A i \in 1..Len(q) : r[i] = q[i]
  OBVIOUS
<1> HIDE DEF r
<1>2. Due(r, p) <=> Due(q, p) \/ Announces(v, p)
  BY <1>1 DEF Due
<1>3. ASSUME Announces(v, p) PROVE LastSays(r, p, v.entry)
  <2> SUFFICES ASSUME NEW i \in 1..Len(r), r[i].entry # v.entry,
                      \A j \in (i + 1)..Len(r) : ~Announces(r[j], p)
               PROVE  FALSE
    BY DEF LastSays
  <2>1. i # Len(q) + 1
    BY <1>1
  <2>2. Len(q) + 1 \in (i + 1)..Len(r)
    BY <1>1, <2>1
  <2> QED BY <1>1, <1>3, <2>2
<1>4. ASSUME ~Announces(v, p), NEW e, LastSays(q, p, e) PROVE LastSays(r, p, e)
  <2> SUFFICES ASSUME NEW i \in 1..Len(r), Announces(r[i], p),
                      \A j \in (i + 1)..Len(r) : ~Announces(r[j], p)
               PROVE  r[i].entry = e
    BY DEF LastSays
  <2>1. i \in 1..Len(q) /\ r[i] = q[i]
    BY <1>1, <1>4
  <2>2. \A j \in (i + 1)..Len(q) : ~Announces(q[j], p)
    BY <1>1
  <2> QED BY <1>4, <2>1, <2>2 DEF LastSays
<1> QED BY <1>2, <1>3, <1>4 DEF r

LEMMA DueTail ==
  ASSUME NEW S, NEW q \in Seq(S), q # <<>>, NEW p
  PROVE  /\ Due(q, p) <=> Due(Tail(q), p) \/ Announces(Head(q), p)
         /\ \A e : LastSays(q, p, e) =>
              /\ LastSays(Tail(q), p, e)
              /\ Announces(Head(q), p) /\ ~Due(Tail(q), p) => Head(q).entry = e
<1> DEFINE r == Tail(q)
<1>1. /\ Len(r) \in Nat /\ Len(q) = Len(r) + 1 /\ Head(q) = q[1]
      /\ \A i \in 1..Len(r) : r[i] = q[i + 1]
  OBVIOUS
<1>2. \A i \in 1..Len(q) : i = 1 \/ (i - 1 \in 1..Len(r) /\ q[i] = r[i - 1])
  BY <1>1
<1> HIDE DEF r
<1>3. Due(q, p) <=> Due(r, p) \/ Announces(q[1], p)
  <2>1. Due(r, p) => Due(q, p)
    <3> SUFFICES ASSUME NEW i \in 1..Len(r), Announces(r[i], p) PROVE Due(q, p)
      BY DEF Due
    <3>1. i + 1 \in 1..Len(q) /\ Announces(q[i + 1], p)
      BY <1>1
    <3> QED BY <3>1 DEF Due
  <2>2. Announces(q[1], p) => Due(q, p)
    BY <1>1 DEF Due
  <2>3. Due(q, p) => Due(r, p) \/ Announces(q[1], p)
    BY <1>2 DEF Due
  <2> QED BY <2>1, <2>2, <2>3
<1>4. ASSUME NEW e, LastSays(q, p, e) PROVE LastSays(r, p, e)
  <2> SUFFICES ASSUME NEW i \in 1..Len(r), Announces(r[i], p),
                      \A j \in (i + 1)..Len(r) : ~Announces(r[j], p)
               PROVE  r[i].entry = e
    BY DEF LastSays
  <2>1. i + 1 \in 1..Len(q) /\ q[i + 1] = r[i]
    BY <1>1
  <2>2. ASSUME NEW j \in (i + 1 + 1)..Len(q) PROVE ~Announces(q[j], p)
    <3>1. j - 1 \in (i + 1)..Len(r) /\ q[j] = r[j - 1]
      BY <1>1, <1>2
    <3> QED BY <3>1
  <2> QED BY <1>4, <2>1, <2>2 DEF LastSays
<1>5. ASSUME NEW e, LastSays(q, p, e), Announces(q[1], p), ~Due(r, p)
      PROVE  q[1].entry = e
  <2>1. 1 \in 1..Len(q)
    BY <1>1
  <2>2. \A j \in (1 + 1)..Len(q) : ~Announces(q[j], p)
    <3> SUFFICES ASSUME NEW j \in (1 + 1)..Len(q) PROVE ~Announces(q[j], p)
      OBVIOUS
    <3>1. j - 1 \in 1..Len(r) /\ q[j] = r[j - 1]
      BY <1>1, <1>2
    <3> QED BY <1>5, <3>1 DEF Due
  <2> QED BY <1>5, <2>1, <2>2 DEF LastSays
<1> QED BY <1>1, <1>3, <1>4, <1>5 DEF r

LEMMA NoneDue == \A p : ~Due(<<>>, p) /\ \A e : LastSays(<<>>, p, e)
BY DEF Due, LastSays

-----------------------------------------------------------------------------

(* What the view agent's queue says of p is what it said. *)
QueueSame(p) ==
  /\ Due(vQueue', p) <=> Due(vQueue, p)
  /\ \A e : LastSays(vQueue, p, e) => LastSays(vQueue', p, e)

LEMMA SentSame ==
  ASSUME PipeTypes, NEW k, NEW e, Send(k, e), NEW p,
         ~(k = ProposalKey(p) /\ e.kind = "proposal")
  PROVE  QueueSame(p)
<1> DEFINE v == [key |-> k, entry |-> e]
<1>1. ~Announces(v, p)
  BY DEF Announces
<1>2. vQueue \in Seq(Events)
  BY DEF PipeTypes, QueueTypes
<1>3. vQueue' = vQueue \/ vQueue' = Append(vQueue, v)
  BY DEF Send
<1> HIDE DEF v
<1>4. CASE vQueue' = vQueue
  BY <1>4 DEF QueueSame
<1>5. CASE vQueue' = Append(vQueue, v)
  BY <1>1, <1>2, <1>5, DueAppend DEF QueueSame
<1> QED BY <1>3, <1>4, <1>5

LEMMA SentDue ==
  ASSUME PipeTypes, vSub, NEW e, NEW p, Send(ProposalKey(p), e), e.kind = "proposal"
  PROVE  Due(vQueue', p) /\ LastSays(vQueue', p, e)
<1> DEFINE v == [key |-> ProposalKey(p), entry |-> e]
<1>1. Announces(v, p) /\ v.entry = e
  BY DEF Announces
<1>2. vQueue \in Seq(Events)
  BY DEF PipeTypes, QueueTypes
<1>3. vQueue' = Append(vQueue, v)
  BY DEF Send
<1> HIDE DEF v
<1> QED BY <1>1, <1>2, <1>3, DueAppend

(* What can be above and below the index of a proposal. *)
LEMMA ProposalKinds ==
  ASSUME PipeTypes, NEW p \in Proposals
  PROVE  LET k == ProposalKey(p)
         IN /\ k \in Keys
            /\ entry[k] = Nothing \/ entry[k].kind \in {"proposal", "view"}
            /\ fresh[k] = Nothing \/ fresh[k].kind \in {"proposal", "view"}
            /\ Nothing.kind = "nothing"
<1> DEFINE k == ProposalKey(p)
<1>1. k \in Keys /\ Nothing.kind = "nothing"
  BY KeysAre DEF Nothing
<1>2. entry[k] \in EntryOrNone(k) /\ fresh[k] \in EntryOrNone(k)
  BY <1>1 DEF PipeTypes, StoreTypes
<1>3. \A e \in EntriesOf(k) : e.kind \in {"proposal", "view"}
  BY EntriesAre DEF Proposal, ViewType
<1> QED BY <1>1, <1>2, <1>3 DEF EntryOrNone

-----------------------------------------------------------------------------

PageSame(p) ==
  /\ html'[p] = html[p]
  /\ p \in DOMAIN views' <=> p \in DOMAIN views
  /\ p \in DOMAIN views => views'[p] = views[p]

(* What the store knows of p stays, and so does what is told of it. *)
LEMMA StillFresh ==
  ASSUME NEW p, FreshAt(p), KeySame(ProposalKey(p)), Storing(p)' <=> Storing(p),
         job'[ProposalKey(p)] = job[ProposalKey(p)]
  PROVE  FreshAt(p)'
BY DEF FreshAt, KeySame

LEMMA StillLatest ==
  ASSUME NEW p, KeySame(ProposalKey(p))
  PROVE  Latest(p)' = Latest(p)
BY DEF Latest, KeySame

LEMMA StillTold ==
  ASSUME NEW p, ToldAt(p), Latest(p)' = Latest(p), QueueSame(p), PageSame(p),
         fresh'[ProposalKey(p)] # Nothing /\ ~Storing(p)' =>
           /\ fresh[ProposalKey(p)] # Nothing /\ ~Storing(p)
           /\ entry'[ProposalKey(p)] = entry[ProposalKey(p)]
  PROVE  ToldAt(p)'
<1>1. Shown(p) => Shown(p)'
  BY DEF Shown, PageSame
<1>2. (Due(vQueue, p))' <=> Due(vQueue, p)
  BY DEF QueueSame
<1>3. LastSays(vQueue, p, Latest(p)) => (LastSays(vQueue, p, Latest(p)))'
  BY DEF QueueSame
<1> QED BY <1>1, <1>2, <1>3 DEF ToldAt, PageSame

LEMMA NowDue ==
  ASSUME NEW p, Due(vQueue', p), LastSays(vQueue', p, Latest(p)')
  PROVE  ToldAt(p)'
BY DEF ToldAt

LEMMA PassedBy ==
  ASSUME NEW p, FreshAt(p), ToldAt(p), KeySame(ProposalKey(p)),
         job'[ProposalKey(p)] = job[ProposalKey(p)], QueueSame(p), PageSame(p),
         Storing(p)' <=> Storing(p)
  PROVE  FreshAt(p)' /\ ToldAt(p)'
<1>1. Latest(p)' = Latest(p)
  BY StillLatest
<1> QED BY <1>1, StillFresh, StillTold DEF KeySame

-----------------------------------------------------------------------------

LEMMA QueueKept == UNCHANGED vQueue => \A p : QueueSame(p)
BY DEF QueueSame

(* A step of the agents that fetch, of one that classifies, or none at all. *)
LEMMA JobAgrees ==
  ASSUME PipeTypes, NEW p \in Proposals, FreshAt(p), ToldAt(p),
         UNCHANGED <<shop, vQueue, viewer, html>>,
         \/ UNCHANGED job
         \/ /\ job[ProposalKey(p)] = Idle \/ job[ProposalKey(p)].at = "put"
            /\ job'[ProposalKey(p)].with.kind # "view"
         \/ \E l \in Keys : l # ProposalKey(p) /\ \E j : job' = [job EXCEPT ![l] = j]
  PROVE  FreshAt(p)' /\ ToldAt(p)'
<1> DEFINE k == ProposalKey(p)
<1>1. k \in Keys /\ KeySame(k) /\ QueueSame(p) /\ PageSame(p) /\ (Storing(p)' <=> Storing(p))
  BY ShopSame, KeysAre, QueueKept DEF viewer, PageSame, Storing
<1>2. CASE job'[k] = job[k]
  BY <1>1, <1>2, PassedBy
<1>3. CASE /\ job[k] = Idle \/ job[k].at = "put"
           /\ job'[k].with.kind # "view"
  <2>1. fresh[k].kind # "proposal"
    BY <1>3 DEF FreshAt, Idle
  <2>2. FreshAt(p)'
    BY <1>1, <1>3, <2>1 DEF FreshAt, KeySame
  <2>3. ToldAt(p)'
    BY <1>1, StillLatest, StillTold DEF KeySame
  <2> QED BY <2>2, <2>3
<1>4. ASSUME NEW l \in Keys, l # k, NEW j, job' = [job EXCEPT ![l] = j]
      PROVE  job'[k] = job[k]
  BY <1>1, <1>4, JobAt
<1> QED BY <1>2, <1>3, <1>4

LEMMA FetchAgrees ==
  ASSUME PipeTypes, NEW p \in Proposals, FreshAt(p), ToldAt(p),
         NEW q \in Proposals, FetchParams \/ FetchProposal(q) \/ FetchTally(q)
  PROVE  FreshAt(p)' /\ ToldAt(p)'
<1> DEFINE k == ProposalKey(p)
<1>0. UNCHANGED <<shop, vQueue, viewer, html>>
  BY DEF FetchParams, FetchProposal, FetchTally, events, output
<1>1. CASE FetchParams
  BY <1>0, <1>1, JobAgrees, KeysAre, KeysDiffer DEF FetchParams, Begin
<1>2. CASE FetchTally(q)
  BY <1>0, <1>2, JobAgrees, KeysAre, KeysDiffer DEF FetchTally, Begin
<1>3. CASE FetchProposal(q) /\ q # p
  <2>1. ProposalKey(q) \in Keys /\ ProposalKey(q) # k
    BY <1>3, KeysAre, KeysDiffer
  <2>2. \E j : job' = [job EXCEPT ![ProposalKey(q)] = j]
    BY <1>3 DEF FetchProposal, Begin
  <2> QED BY <1>0, <2>1, <2>2, JobAgrees
<1>4. CASE FetchProposal(p)
  <2>1. job[k] = Idle
    BY <1>4 DEF FetchProposal, Begin
  <2>2. job'[k].with.kind # "view"
    <3>1. job' = [job EXCEPT ![k] = [at |-> "put", with |-> Proposal(chain[p])]]
      BY <1>4 DEF FetchProposal, Begin
    <3>2. job'[k] = [at |-> "put", with |-> Proposal(chain[p])]
      BY <3>1, KeysAre DEF PipeTypes, JobTypes
    <3> QED BY <3>2 DEF Proposal
  <2> QED BY <1>0, <2>1, <2>2, JobAgrees
<1> QED BY <1>1, <1>2, <1>3, <1>4

LEMMA InsertAgrees ==
  ASSUME PipeTypes, vSub, NEW p \in Proposals, FreshAt(p), ToldAt(p),
         NEW l \in Keys, Insert(l)
  PROVE  FreshAt(p)' /\ ToldAt(p)'
<1> DEFINE k == ProposalKey(p)
<1>0. /\ UNCHANGED <<viewer, html>>
      /\ PageSame(p) /\ (Storing(p)' <=> Storing(p)) /\ k \in Keys
  BY KeysAre DEF Insert, Put, Same, Index, output, viewer, PageSame, Storing
<1>1. CASE l # k
  <2>1. job'[k] = job[k]
    <3>1. \E j : job' = [job EXCEPT ![l] = j]
      BY DEF Insert, Put, Same, Index
    <3> QED BY <1>0, <1>1, <3>1, JobAt
  <2>2. CASE Put(l)
    BY <1>0, <1>1, <2>1, <2>2, PutAt, SentSame, PassedBy DEF Put, PutEntry
  <2>3. CASE Same(l)
    BY <1>0, <2>1, <2>3, ShopSame, QueueKept, PassedBy DEF Same, events
  <2>4. CASE Index(l)
    BY <1>0, <1>1, <2>1, <2>4, IndexAt, QueueKept, PassedBy DEF Index, events
  <2> QED BY <2>2, <2>3, <2>4 DEF Insert
<1>2. CASE Put(k)
  <2> DEFINE e == job[k].with
  <2>1. e \in EntriesOf(k) /\ job'[k].at = "index" /\ job'[k].with = e
    <3>1. e \in EntriesOf(k) /\ job[k] = [at |-> job[k].at, with |-> job[k].with]
      BY <1>0, <1>2, PuttingJob DEF Put
    <3>2. job' = [job EXCEPT ![k] = [job[k] EXCEPT !.at = "index"]]
      BY <1>2 DEF Put
    <3>3. job'[k] = [job[k] EXCEPT !.at = "index"]
      BY <1>0, <3>2, JobAt
    <3> QED BY <3>1, <3>3
  <2>2. e.kind = "proposal"
    <3>1. e.kind \in {"proposal", "view"}
      BY <2>1, EntriesAre DEF Proposal, ViewType
    <3> QED BY <3>1 DEF FreshAt
  <2>3. Due(vQueue', p) /\ LastSays(vQueue', p, e)
    BY <1>2, <2>2, SentDue DEF Put, PutEntry
  <2>4. /\ k \in listed' <=> k \in listed
        /\ k \in listed => fresh'[k] = e /\ entry'[k] = entry[k]
        /\ k \notin listed => entry'[k] = e /\ fresh'[k] = Nothing
    <3>1. PutEntry(k, e)
      BY <1>2 DEF Put
    <3> QED BY <1>0, <3>1, PutAt DEF FreshAt
  <2>5. e # Nothing
    BY <2>2 DEF Nothing
  <2>6. FreshAt(p)'
    BY <2>1, <2>2, <2>4 DEF FreshAt, Nothing
  <2>7. Latest(p)' = e
    BY <2>4, <2>5 DEF Latest
  <2> QED BY <2>3, <2>6, <2>7, NowDue
<1>3. CASE Same(k)
  <2>1. job[k].at = "put" /\ job'[k] = Idle
    BY <1>0, <1>3, JobAt DEF Same
  <2>2. job'[k].with.kind # "view"
    BY <2>1 DEF Idle, Nothing
  <2> QED BY <1>0, <1>3, <2>1, <2>2, JobAgrees DEF Same, events
<1>4. CASE Index(k)
  <2>1. /\ k \in listed' /\ fresh'[k] = Nothing /\ job'[k] = Idle
        /\ fresh[k] = Nothing => entry'[k] = entry[k]
        /\ fresh[k] # Nothing => entry'[k] = fresh[k]
    BY <1>0, <1>4, IndexAt, JobAt DEF Index
  <2>2. FreshAt(p)'
    BY <2>1 DEF FreshAt, Idle, Nothing
  <2>3. Latest(p)' = Latest(p)
    BY <2>1 DEF Latest
  <2>4. QueueSame(p)
    BY <1>4, QueueKept DEF Index, events
  <2>5. ToldAt(p)'
    BY <1>0, <2>1, <2>3, <2>4, StillTold
  <2> QED BY <2>2, <2>5
<1> QED BY <1>1, <1>2, <1>3, <1>4 DEF Insert

-----------------------------------------------------------------------------

LEMMA TakeAgrees ==
  ASSUME PipeTypes, NEW p \in Proposals, FreshAt(p), ToldAt(p), TakeView
  PROVE  FreshAt(p)' /\ ToldAt(p)'
<1> DEFINE k == ProposalKey(p)
           v == Head(vQueue)
<1>1. /\ k \in Keys /\ KeySame(k) /\ job'[k] = job[k] /\ html'[p] = html[p]
      /\ ~Storing(p) /\ ~(Storing(p)') /\ DOMAIN views = {}
      /\ vQueue # <<>> /\ vQueue' = Tail(vQueue)
      /\ views' = [q \in Renewed(v) |-> ViewOf(q, VersionOf(v, q))]
  BY KeysAre, ShopSame DEF TakeView, Storing, output
<1>2. /\ v.key \in Keys /\ v.entry \in EntriesOf(v.key)
      /\ vQueue \in Seq(Events)
  BY <1>1, TakenEvent DEF PipeTypes, QueueTypes
<1>3. /\ Due(vQueue, p) <=> Due(vQueue', p) \/ Announces(v, p)
      /\ \A e : LastSays(vQueue, p, e) =>
           /\ LastSays(vQueue', p, e)
           /\ Announces(v, p) /\ ~Due(vQueue', p) => v.entry = e
  BY <1>1, <1>2, DueTail
<1>4. FreshAt(p)'
  BY <1>1, StillFresh
<1>5. Latest(p)' = Latest(p)
  BY <1>1, StillLatest
<1>6. Latest(p).kind = "proposal" => LastSays(vQueue', p, Latest(p))
  BY <1>3 DEF ToldAt
<1>7. DOMAIN views' = Renewed(v)
      /\ \A q \in Renewed(v) : views'[q].ver = VersionOf(v, q)
  BY <1>1 DEF ViewOf
<1>8. ASSUME ~Due(vQueue', p), Announces(v, p)
      PROVE  /\ p \in DOMAIN views'
             /\ Latest(p).kind = "proposal" => views'[p].ver = Latest(p).ver
  <2>1. v.entry.kind = "proposal" /\ v.key[2] = p
    BY <1>8, KeysAre DEF Announces
  <2> HIDE DEF v
  <2>2. Renewed(v) = {v.key[2]}
    BY <2>1 DEF Renewed, Fraud, Tally
  <2>4. VersionOf(v, p) = v.entry.ver
    BY <2>1 DEF VersionOf
  <2>3. Latest(p).kind = "proposal" => v.entry = Latest(p)
    BY <1>3, <1>8 DEF ToldAt
  <2> QED BY <1>7, <2>1, <2>2, <2>3, <2>4
<1>9. ASSUME ~Due(vQueue', p), ~Announces(v, p)
      PROVE  /\ Shown(p) /\ (fresh[k] # Nothing => entry[k].kind = "view")
             /\ p \in Renewed(v) /\ Latest(p).kind = "proposal" =>
                  views'[p].ver = Latest(p).ver
  <2>1. Shown(p) /\ (fresh[k] # Nothing => entry[k].kind = "view")
    BY <1>1, <1>3, <1>9 DEF ToldAt
  <2>2. ASSUME p \in Renewed(v), Latest(p).kind = "proposal"
        PROVE  views'[p].ver = Latest(p).ver
    <3>1. Readable(p) /\ VersionOf(v, p) = entry[k].ver
      BY <1>2, <1>9, <2>2, RenewedTypes DEF Announces
    <3>2. fresh[k] = Nothing
      BY <2>1, <3>1 DEF Readable
    <3> QED BY <1>7, <2>2, <3>1, <3>2 DEF Latest
  <2> QED BY <2>1, <2>2
<1>10. Shown(p)' <=> Shown(p)
  BY <1>1, <1>5 DEF Shown
<1>11. ToldAt(p)'
  <2>1. (Due(vQueue, p))' <=> Due(vQueue', p)
    OBVIOUS
  <2>2. (LastSays(vQueue, p, Latest(p)))' <=> LastSays(vQueue', p, Latest(p)')
    OBVIOUS
  <2>3. ASSUME ~Due(vQueue', p)
        PROVE  /\ p \in DOMAIN views' /\ Latest(p)'.kind = "proposal" =>
                    views'[p].ver = Latest(p)'.ver
               /\ p \notin DOMAIN views' => Shown(p)'
               /\ p \notin DOMAIN views' /\ fresh'[k] # Nothing => entry'[k].kind = "view"
    <3>1. CASE Announces(v, p)
      BY <1>5, <1>8, <2>3, <3>1
    <3>2. CASE ~Announces(v, p)
      <4>1. /\ Shown(p) /\ (fresh[k] # Nothing => entry[k].kind = "view")
            /\ p \in Renewed(v) /\ Latest(p).kind = "proposal" =>
                 views'[p].ver = Latest(p).ver
        BY <1>9, <2>3, <3>2
      <4>2. fresh'[k] = fresh[k] /\ entry'[k] = entry[k]
        BY <1>1 DEF KeySame
      <4> QED BY <1>5, <1>7, <1>10, <4>1, <4>2
    <3> QED BY <3>1, <3>2
  <2> QED BY <1>5, <1>6, <2>1, <2>2, <2>3 DEF ToldAt
<1> QED BY <1>4, <1>11

LEMMA ShowAgrees ==
  ASSUME PipeTypes, NEW p \in Proposals, FreshAt(p), ToldAt(p),
         NEW q \in Proposals, ShowView(q)
  PROVE  FreshAt(p)' /\ ToldAt(p)'
<1> DEFINE k == ProposalKey(p)
<1>1. /\ KeySame(k) /\ job'[k] = job[k] /\ views' = views /\ q \in DOMAIN views
      /\ ~Storing(p) /\ ~(Storing(p)') /\ UNCHANGED vQueue
  BY KeysAre, ShopSame DEF ShowView, Storing, events
<1>2. QueueSame(p)
  BY <1>1, QueueKept
<1>3. CASE q # p
  <2>1. html'[p] = html[p]
    BY <1>3 DEF ShowView, PipeTypes, PageTypes
  <2>2. PageSame(p)
    BY <1>1, <2>1 DEF PageSame
  <2> QED BY <1>1, <1>2, <2>2, PassedBy
<1>4. CASE q = p
  <2>1. FreshAt(p)'
    BY <1>1, StillFresh
  <2>2. Latest(p)' = Latest(p)
    BY <1>1, StillLatest
  <2>3. p \in DOMAIN views
    BY <1>1, <1>4
  <2>4. /\ (Due(vQueue, p))' <=> Due(vQueue, p)
        /\ (LastSays(vQueue, p, Latest(p)))' <=> LastSays(vQueue, p, Latest(p))
    BY <1>1, <2>2
  <2> QED BY <1>1, <2>1, <2>2, <2>3, <2>4 DEF ToldAt
<1> QED BY <1>3, <1>4

LEMMA SameAgrees ==
  ASSUME PipeTypes, ViewerAt, NEW p \in Proposals, FreshAt(p), ToldAt(p), SameView
  PROVE  FreshAt(p)' /\ ToldAt(p)'
<1> DEFINE k == ProposalKey(p)
<1>1. /\ k \in Keys /\ KeySame(k) /\ job'[k] = job[k] /\ html'[p] = html[p]
      /\ ~Storing(p) /\ ~(Storing(p)') /\ UNCHANGED vQueue /\ vCur' = vCur
      /\ vAt = "put" /\ entry[ProposalKey(vCur)] = views[vCur]
      /\ views' = [q \in DOMAIN views \ {vCur} |-> views[q]]
  BY KeysAre, ShopSame DEF SameView, Storing, events, output, ViewDone
<1>2. QueueSame(p)
  BY <1>1, QueueKept
<1>3. CASE vCur # p
  <2>1. PageSame(p)
    BY <1>1, <1>3 DEF PageSame
  <2> QED BY <1>1, <1>2, <2>1, PassedBy
<1>4. CASE vCur = p
  <2>1. FreshAt(p)'
    BY <1>1, StillFresh
  <2>2. Latest(p)' = Latest(p)
    BY <1>1, StillLatest
  <2>3. p \in DOMAIN views /\ p \notin DOMAIN views'
    BY <1>1, <1>4 DEF PipeTypes, ViewTypes
  <2>4. entry[k] = views[p] /\ html[p] = views[p] /\ views[p].kind = "view"
    BY <1>1, <1>4, <2>3 DEF ViewerAt, PipeTypes, ViewTypes, ViewType
  <2>5. ~Due(vQueue, p) => Shown(p)
    <3>1. CASE fresh[k] = Nothing
      BY <2>4, <3>1 DEF Shown, Latest, Nothing
    <3>2. CASE fresh[k] # Nothing
      <4>1. fresh[k].kind = "proposal"
        BY <1>1, <3>2, ProposalKinds DEF FreshAt
      <4> QED BY <2>3, <2>4, <3>2, <4>1 DEF ToldAt, Shown, Latest, Nothing
    <3> QED BY <3>1, <3>2
  <2>6. Shown(p)' <=> Shown(p)
    BY <1>1, <2>2 DEF Shown
  <2>7. /\ (Due(vQueue, p))' <=> Due(vQueue, p)
        /\ (LastSays(vQueue, p, Latest(p)))' <=> LastSays(vQueue, p, Latest(p))
        /\ entry'[k].kind = "view"
    BY <1>1, <2>2, <2>4 DEF KeySame
  <2> QED BY <2>1, <2>2, <2>3, <2>5, <2>6, <2>7 DEF ToldAt
<1> QED BY <1>3, <1>4

LEMMA PutViewAgrees ==
  ASSUME PipeTypes, ViewerAt, NEW p \in Proposals, FreshAt(p), ToldAt(p), PutView
  PROVE  FreshAt(p)' /\ ToldAt(p)'
<1> DEFINE k == ProposalKey(p)
           e == views[vCur]
<1>1. /\ k \in Keys /\ ProposalKey(vCur) \in Keys /\ job'[k] = job[k]
      /\ html'[p] = html[p] /\ vCur' = vCur
      /\ vAt = "put" /\ vAt' = "index" /\ PutEntry(ProposalKey(vCur), e)
      /\ views' = [q \in DOMAIN views \ {vCur} |-> views[q]]
  BY KeysAre DEF PutView, output, ViewDone, PipeTypes, ViewTypes
<1>2. vCur \in DOMAIN views /\ e.kind = "view" /\ html[vCur] = e /\ e # Nothing
  BY <1>1 DEF ViewerAt, PipeTypes, ViewTypes, ViewType, Nothing
<1>3. QueueSame(p)
  BY <1>1, <1>2, SentSame DEF PutEntry
<1>4. CASE vCur # p
  <2>1. KeySame(k)
    BY <1>1, <1>4, PutAt, KeysDiffer
  <2>2. PageSame(p) /\ (Storing(p)' <=> Storing(p))
    BY <1>1, <1>4 DEF PageSame, Storing
  <2> QED BY <1>1, <1>3, <2>1, <2>2, PassedBy
<1>5. CASE vCur = p
  <2>1. /\ k \in listed' <=> k \in listed
        /\ k \in listed => fresh'[k] = e /\ entry'[k] = entry[k]
        /\ k \notin listed => entry'[k] = e /\ fresh'[k] = Nothing
    BY <1>1, <1>5, PutAt DEF FreshAt
  <2>2. Storing(p)' /\ p \notin DOMAIN views'
    BY <1>1, <1>5 DEF Storing
  <2>3. FreshAt(p)'
    BY <1>1, <1>2, <2>1, <2>2 DEF FreshAt, Nothing
  <2>4. Latest(p)' = e
    BY <1>2, <2>1 DEF Latest
  <2>5. Shown(p)'
    BY <1>1, <1>2, <1>5, <2>4 DEF Shown
  <2> QED BY <1>2, <2>2, <2>3, <2>4, <2>5 DEF ToldAt
<1> QED BY <1>4, <1>5

LEMMA IndexViewAgrees ==
  ASSUME PipeTypes, ViewerAt, NEW p \in Proposals, FreshAt(p), ToldAt(p), IndexView
  PROVE  FreshAt(p)' /\ ToldAt(p)'
<1> DEFINE k == ProposalKey(p)
<1>1. /\ k \in Keys /\ ProposalKey(vCur) \in Keys /\ job'[k] = job[k]
      /\ PageSame(p) /\ QueueSame(p) /\ ~(Storing(p)') /\ PutIndex(ProposalKey(vCur))
  BY KeysAre, QueueKept
     DEF IndexView, output, events, Storing, PageSame, PipeTypes, ViewTypes
<1>2. CASE vCur # p
  <2>1. KeySame(k)
    BY <1>1, <1>2, IndexAt, KeysDiffer
  <2>2. ~Storing(p)
    BY <1>2 DEF Storing
  <2> QED BY <1>1, <2>1, <2>2, PassedBy
<1>3. CASE vCur = p
  <2>1. /\ k \in listed' /\ fresh'[k] = Nothing
        /\ fresh[k] = Nothing => entry'[k] = entry[k]
        /\ fresh[k] # Nothing => entry'[k] = fresh[k]
    BY <1>1, <1>3, IndexAt
  <2>2. FreshAt(p)'
    BY <1>1, <2>1 DEF FreshAt, Nothing
  <2>3. Latest(p)' = Latest(p)
    BY <2>1 DEF Latest
  <2>4. ToldAt(p)'
    BY <1>1, <2>1, <2>3, StillTold
  <2> QED BY <2>2, <2>4
<1> QED BY <1>2, <1>3

-----------------------------------------------------------------------------

LEMMA AgreeInitially == Init => AgreeInv
<1> SUFFICES ASSUME Init, ~setting.late
             PROVE  ViewerAt /\ \A p \in Proposals : FreshAt(p) /\ ToldAt(p)
  BY DEF AgreeInv, Undisturbed
<1>1. ViewerAt
  BY DEF Init, ViewerAt
<1>2. ASSUME NEW p \in Proposals PROVE FreshAt(p) /\ ToldAt(p)
  <2> DEFINE k == ProposalKey(p)
  <2>1. k \in Keys /\ k # ParamsKey
    BY KeysAre, KeysDiffer
  <2>2. /\ entry = [l \in Keys |-> IF l = ParamsKey THEN Params(0) ELSE Nothing]
        /\ fresh = [l \in Keys |-> Nothing] /\ job = [l \in Keys |-> Idle]
        /\ vQueue = <<>>
    BY DEF Init
  <2>3. entry[k] = Nothing /\ fresh[k] = Nothing /\ job[k] = Idle
    BY <2>1, <2>2
  <2>4. FreshAt(p)
    BY <2>3 DEF FreshAt, Idle, Nothing
  <2>5. Latest(p) = Nothing
    BY <2>3 DEF Latest
  <2>6. Nothing.kind # "proposal"
    BY DEF Nothing
  <2>7. p \notin DOMAIN views
    BY DEF Init
  <2>8. ToldAt(p)
    BY <2>3, <2>5, <2>6, <2>7 DEF ToldAt, Shown
  <2> QED BY <2>4, <2>8
<1> QED BY <1>1, <1>2

(* A writer that has failed is remembered. *)
LEMMA FailuresStay ==
  ASSUME [Next]_vars
  PROVE  setting' = setting /\ failed \subseteq failed'
<1>1. CASE \E p \in Proposals : ShowView(p)
  BY <1>1 DEF ShowView, Fails
<1>2. CASE \E k \in Keys : InsertFails(k)
  BY <1>2 DEF InsertFails, Fails
<1>3. CASE ViewFails
  BY <1>3 DEF ViewFails, Fails
<1>4. CASE ExportPanics \/ \E p \in Proposals : AnswerPanics(p)
  BY <1>4 DEF ExportPanics, AnswerPanics, FraudGone, Fails
<1>5. CASE UNCHANGED given
  BY <1>5 DEF given
<1> QED
  BY <1>1, <1>2, <1>3, <1>4, <1>5
     DEF Next, FetchParams, Submit, FetchProposal, FetchTally, Insert, Put, Same, Index,
         SubscribeFraud, TakeFraud, Classify, SubscribeView, ViewStep, TakeView,
         SameView, PutView, IndexView, vars, given

LEMMA NothingFails ==
  ASSUME failed' = {}
  PROVE  /\ ~ViewFails /\ \A k \in Keys : ~InsertFails(k)
         /\ ~ExportPanics /\ \A p \in Proposals : ~AnswerPanics(p)
         /\ \A p \in Proposals : ShowView(p) => html' = [html EXCEPT ![p] = views[p]]
BY DEF ViewFails, InsertFails, ExportPanics, AnswerPanics, FraudGone, ShowView, Fails

(* The view agent's own part: it shows a view before it stores it, and lets
   go of it when it is stored. *)
LEMMA ViewerNext ==
  ASSUME PipeTypes, ViewerAt, [Next]_vars, failed' = {}
  PROVE  ViewerAt'
<1>1. vSub'
  BY NothingFails
     DEF ViewerAt, Next, FetchParams, Submit, FetchProposal, FetchTally, Insert, Put,
         Same, Index, SubscribeFraud, TakeFraud, Classify, SubscribeView, ViewStep,
         TakeView, ShowView, SameView, PutView, IndexView, vars, subs
<1>2. CASE UNCHANGED <<viewer, html>>
  BY <1>1, <1>2 DEF ViewerAt, viewer
<1>3. CASE TakeView \/ SameView \/ IndexView
  BY <1>1, <1>3 DEF ViewerAt, TakeView, SameView, IndexView
<1>4. ASSUME NEW p \in Proposals, ShowView(p) PROVE ViewerAt'
  <2>1. html' = [html EXCEPT ![p] = views[p]] /\ html = [q \in Proposals |-> html[q]]
    BY <1>4, NothingFails DEF PipeTypes, PageTypes
  <2>2. html'[p] = views[p]
    BY <2>1
  <2> QED BY <1>1, <1>4, <2>2 DEF ViewerAt, ShowView
<1>5. CASE PutView
  <2>1. vAt' = "index" /\ views' = [q \in DOMAIN views \ {vCur} |-> views[q]] /\ vCur' = vCur
    BY <1>5 DEF PutView, ViewDone
  <2> QED BY <1>1, <2>1 DEF ViewerAt
<1> QED
  BY <1>2, <1>3, <1>4, <1>5, NothingFails
     DEF Next, FetchParams, Submit, FetchProposal, FetchTally, Insert, Put, Same, Index,
         SubscribeFraud, TakeFraud, Classify, SubscribeView, ViewStep, vars, output

LEMMA PageNext ==
  ASSUME PipeTypes, ViewerAt, NEW p \in Proposals, FreshAt(p), ToldAt(p),
         [Next]_vars, failed' = {}
  PROVE  FreshAt(p)' /\ ToldAt(p)'
<1>1. ASSUME UNCHANGED <<shop, vQueue, viewer, html, job>>
      PROVE  FreshAt(p)' /\ ToldAt(p)'
  BY <1>1, JobAgrees
<1>2. ASSUME NEW q \in Proposals, Submit(q) \/ FetchProposal(q) \/ FetchTally(q)
      PROVE  FreshAt(p)' /\ ToldAt(p)'
  BY <1>1, <1>2, FetchAgrees DEF Submit, events, output
<1>3. CASE FetchParams
  BY <1>3, FetchAgrees
<1>4. ASSUME NEW k \in Keys, Insert(k)
      PROVE  FreshAt(p)' /\ ToldAt(p)'
  BY <1>4, InsertAgrees DEF ViewerAt
<1>5. CASE SubscribeFraud \/ SubscribeView \/ UNCHANGED vars
  BY <1>1, <1>5 DEF SubscribeFraud, SubscribeView, vars, events, output
<1>6. CASE TakeFraud
  <2>1. UNCHANGED <<shop, vQueue, viewer, html>>
    BY <1>6 DEF TakeFraud
  <2>2. CASE UNCHANGED job
    BY <1>1, <2>1, <2>2
  <2>3. CASE ToClassify(Head(fQueue))
    <3> DEFINE v == Head(fQueue)
    <3>1. v.key \in Keys /\ v.entry \in EntriesOf(v.key) /\ v.entry.kind = "proposal"
      BY <1>6, <2>3, TakenEvent DEF TakeFraud, ToClassify, PipeTypes, QueueTypes
    <3>2. FraudKey(v.key[2]) \in Keys /\ FraudKey(v.key[2]) # ProposalKey(p)
      BY <3>1, EntryKinds, KeyKinds, KeysAre, KeysDiffer
    <3>3. \E j : job' = [job EXCEPT ![FraudKey(v.key[2])] = j]
      BY <1>6, <2>3 DEF TakeFraud
    <3> QED BY <2>1, <3>2, <3>3, JobAgrees
  <2> QED BY <1>6, <2>2, <2>3 DEF TakeFraud
<1>7. ASSUME NEW q \in Proposals, Classify(q)
      PROVE  FreshAt(p)' /\ ToldAt(p)'
  <2>1. UNCHANGED <<shop, vQueue, viewer, html>>
    BY <1>7 DEF Classify, events, output
  <2>2. FraudKey(q) \in Keys /\ FraudKey(q) # ProposalKey(p)
    BY KeysAre, KeysDiffer
  <2>3. \E j : job' = [job EXCEPT ![FraudKey(q)] = j]
    BY <1>7 DEF Classify
  <2> QED BY <2>1, <2>2, <2>3, JobAgrees
<1>8. CASE ViewStep
  BY <1>8, TakeAgrees, ShowAgrees, SameAgrees, PutViewAgrees, IndexViewAgrees DEF ViewStep
<1> QED BY <1>2, <1>3, <1>4, <1>5, <1>6, <1>7, <1>8, NothingFails DEF Next

LEMMA AgreeNext == PipeTypes /\ AgreeInv /\ [Next]_vars => AgreeInv'
<1> SUFFICES ASSUME PipeTypes, AgreeInv, [Next]_vars, Undisturbed'
             PROVE  ViewerAt' /\ \A p \in Proposals : FreshAt(p)' /\ ToldAt(p)'
  BY DEF AgreeInv
<1>1. failed' = {} /\ Undisturbed
  BY FailuresStay DEF Undisturbed
<1>2. ViewerAt /\ \A p \in Proposals : FreshAt(p) /\ ToldAt(p)
  BY <1>1 DEF AgreeInv
<1> QED BY <1>1, <1>2, ViewerNext, PageNext

LEMMA AgreeInvariant == Spec => []AgreeInv
BY AgreeInitially, AgreeNext, PipeInvariant, PTL DEF Spec

(* When everything is quiet, what stands above an index is nothing, and what
   the view agent has not been told of is nothing. *)
LEMMA QuietAgrees == PipeTypes /\ AgreeInv => PagesAgree
<1> SUFFICES ASSUME PipeTypes, AgreeInv, Quiet, Undisturbed, NEW p \in Proposals,
                    entry[ProposalKey(p)] # Nothing
             PROVE  LET e == entry[ProposalKey(p)]
                    IN /\ html[p] # Nothing
                       /\ html[p].ver = e.ver
                       /\ e.kind = "view" => html[p] = e
  BY DEF PagesAgree, Undisturbed
<1> DEFINE k == ProposalKey(p)
<1>1. FreshAt(p) /\ ToldAt(p)
  BY DEF AgreeInv
<1>2. job[k].at # "index" /\ ~Storing(p)
  BY KeysAre DEF Quiet, Idle, Storing
<1>3. fresh[k] = Nothing
  BY <1>1, <1>2, ProposalKinds DEF FreshAt
<1>4. ~Due(vQueue, p) /\ p \notin DOMAIN views
  BY NoneDue DEF Quiet
<1>5. Shown(p)
  BY <1>1, <1>4 DEF ToldAt
<1> QED BY <1>3, <1>5 DEF Shown, Latest

(* When nothing is under way, nothing has failed and the view agent was there
   in time, every proposal in the store has a page of its stored version, and
   a stored view is the one on its page: whatever the proposals, the versions
   they come to and the lengths of the queues. *)
THEOREM PagesTellTheStore == Spec => []PagesAgree
BY PipeInvariant, AgreeInvariant, QuietAgrees, PTL

=============================================================================
