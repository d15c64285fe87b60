------------------- MODULE FallbackEntryStoreReads_proofs -------------------
(***************************************************************************)
(* What the only writer of a key and its readers are answered, and what    *)
(* is left in the tree.  The refinement already says what a write makes of *)
(* the key's contents.  Here are the properties that need more than the    *)
(* contents: the revisions a scan comes by while the owner changes them,   *)
(* what a reader has seen since its call began, and what the loops of the  *)
(* clean-up, the wipe and remove_all have left to remove.                  *)
(*                                                                         *)
(* The assumptions say what may fail.  An index that cannot be written     *)
(* leaves an entry that insert_if_not_exists meets before there is an      *)
(* index.  A wipe or a clean-up that fails half way leaves revisions       *)
(* behind, at which a later clean-up does not look; remove_all does not,   *)
(* because it removes upwards.                                             *)
(***************************************************************************)
EXTENDS FallbackEntryStoreReads, FallbackEntryStore_refinement

-----------------------------------------------------------------------------

(***************************************************************************)
(* Who takes a step, and what it leaves alone.                             *)
(***************************************************************************)

LEMMA OthersUndisturbed ==
  ASSUME TypeOK, NEW p \in Proc, Step(p) \/ (p \in Writers /\ WriterCalls(p)),
         NEW q \in Proc, q # p
  PROVE  Undisturbed(q)
<1> USE GotoThread, AtThread, ReturnThread DEF Undisturbed
<1>1. CASE WriterCalls(p)
  BY <1>1, CallThread DEF WriterCalls, Insert, InsertIfNotExists, RemoveAll
<1>2. CASE GetIndex(p)
  BY <1>2 DEF GetIndex
<1>3. CASE GetEntry(p)
  <2>1. ASSUME NEW e, Answer(p, e)
        PROVE  /\ pc'[q] = pc[q] /\ data'[q] = data[q] /\ idx'[q] = idx[q]
               /\ cur'[q] = cur[q] /\ ret'[q] = ret[q]
    <3>1. data' = data \/ data' = [data EXCEPT ![p] = e]
      BY <2>1 DEF Answer
    <3>2. data'[q] = data[q]
      BY <3>1 DEF TypeOK
    <3> QED
      BY <2>1, <3>2 DEF Answer
  <2> QED
    BY <1>3, <2>1 DEF GetEntry
<1>4. CASE NextIndex(p)
  <2>1. idx'[q] = idx[q]
    BY <1>4 DEF NextIndex, TypeOK
  <2> QED
    BY <1>4, <2>1 DEF NextIndex
<1>5. CASE Wipe(p)
  BY <1>5 DEF Wipe, Remove
<1>6. CASE PutEntry(p) \/ PutIndex(p)
  BY <1>6 DEF PutEntry, PutIndex
<1>7. CASE FindOk(p)
  BY <1>7 DEF FindOk, TrimBelow
<1>8. CASE Trim(p)
  BY <1>8 DEF Trim, Remove
<1>9. CASE MaxIndex(p)
  <2>1. idx'[q] = idx[q]
    <3>1. CASE revIndex = NoIndex
      BY <1>9, <3>1 DEF MaxIndex
    <3>2. CASE revIndex # NoIndex
      BY <1>9, <3>2 DEF MaxIndex, TypeOK
    <3> QED
      BY <3>1, <3>2
  <2> QED
    BY <1>9, <2>1 DEF MaxIndex
<1>10. CASE DropEntry(p)
  BY <1>10 DEF DropEntry, Remove
<1>11. CASE DropIndex(p)
  BY <1>11 DEF DropIndex
<1>12. CASE SledError(p)
  BY <1>12 DEF SledError, TrimBelow
<1> QED
  BY <1>1, <1>2, <1>3, <1>4, <1>5, <1>6, <1>7, <1>8, <1>9, <1>10, <1>11, <1>12 DEF Step

(* A step is the owner's, which leaves the readers alone, or leaves the tree
   and the owner alone, or is a crash. *)
LEMMA OwnerOrOther ==
  ASSUME SingleOwner, TypeOK, DropBound, StoreInv, [Next]_vars, ~ Crashes,
         NEW w \in Writers
  PROVE  /\ w \in Proc /\ w \notin Readers /\ Before(w) /\ \A v \in Writers : v = w
         /\ \/ /\ Step(w) \/ WriterCalls(w)
               /\ \A r \in Readers : Undisturbed(r)
            \/ UNCHANGED <<revIndex, revs>> /\ Undisturbed(w)
<1>1. w \in Proc /\ w \notin Readers /\ Before(w) /\ \A v \in Writers : v = w
  BY ProcAssumption DEF SingleOwner, StoreInv, Before, Proc
<1>2. CASE Step(w) \/ WriterCalls(w)
  BY <1>1, <1>2, OthersUndisturbed DEF Proc
<1>3. ASSUME NEW r \in Readers, Step(r) \/ ListKey(r) \/ ReaderCalls(r)
      PROVE  UNCHANGED <<revIndex, revs>> /\ Undisturbed(w)
  BY <1>1, <1>3, ReaderStep, ReaderCall DEF StoreInv
<1>4. CASE UNCHANGED vars
  BY <1>1, <1>4 DEF vars, Undisturbed
<1>5. CASE Flush \/ Crash
  BY <1>5 DEF Flush, Crash
<1>6. CASE Next
  <2>1. \/ Step(w) \/ WriterCalls(w)
        \/ \E r \in Readers : Step(r) \/ ListKey(r) \/ ReaderCalls(r)
        \/ Flush \/ Crash
    BY <1>1, <1>6 DEF Next, Proc
  <2> QED
    BY <2>1, <1>1, <1>2, <1>3, <1>5
<1> QED
  BY <1>1, <1>4, <1>6

-----------------------------------------------------------------------------

(***************************************************************************)
(* A key without an index.                                                 *)
(***************************************************************************)

IndexSucceeds == "putIndex" \notin FailingCalls /\ ~ Crashes

(* Without an index, an entry is there only between its own write and that
   of its index: remove_all begins with the first. *)
FirstAt(w) ==
  /\ revIndex = NoIndex => revs[0] = NoEntry \/ pc[w] = "putIndex"
  /\ pc[w] = "dropEntry" => cur[w] = 0 \/ revs[0] = NoEntry
  /\ pc[w] = "dropIndex" => revs[0] = NoEntry

(* The owner looks for the last success behind errors only. *)
LookingAt(w) ==
  pc[w] = "getEntry" =>
    IF revIndex = NoIndex
    THEN cur[w] = 0
    ELSE /\ cur[w] <= revIndex
         /\ \A j \in Rev : cur[w] < j /\ j <= revIndex => revs[j] \in ErrData

SameAt(w) == pc[w] = "idle" /\ ret[w] = "same" => LastOk = data[w]

FirstInv == \A w \in Writers : FirstAt(w) /\ LookingAt(w) /\ SameAt(w)

(* Steps after which the thread neither looks nor has answered. *)
LEMMA FirstElsewhere ==
  ASSUME NEW w, FirstAt(w), UNCHANGED <<revIndex, revs>>,
         pc[w] \notin {"putIndex", "dropEntry", "dropIndex"},
         \/ pc'[w] \notin {"getEntry", "idle", "dropEntry", "dropIndex"}
         \/ pc'[w] = "idle" /\ ret'[w] # "same"
         \/ pc'[w] = "dropEntry" /\ cur'[w] = 0
  PROVE  FirstAt(w)' /\ LookingAt(w)' /\ SameAt(w)'
BY DEF FirstAt, LookingAt, SameAt

LEMMA FirstGetEntry ==
  ASSUME NEW w, Before(w), FirstAt(w), LookingAt(w), GetEntry(w)
  PROVE  FirstAt(w)' /\ LookingAt(w)' /\ SameAt(w)'
<1>1. /\ pc[w] = "getEntry" /\ op[w] = "insertIfNew" /\ data[w] \in Data
      /\ UNCHANGED <<revIndex, revs, op>> /\ cur[w] \in Rev /\ cur[w] \in Nat
      /\ data[w] # NoEntry /\ ~ TakesLatest(w)
  BY Facts, Order, DataAssumption DEF GetEntry, WriterRole, tree, TakesLatest
<1>2. ASSUME NEW e, Answer(w, e)
      PROVE  \/ pc'[w] = "idle" /\ ret'[w] = "same" /\ data' = data /\ e = data[w]
             \/ pc'[w] = "nextIndex"
  BY <1>1, <1>2, GotoThread, ReturnThread DEF Answer, Before
<1>3. ASSUME revs[cur[w]] = data[w], revs[cur[w]] \in OkData
      PROVE  LastOk = data[w]
  <2>1. revIndex # NoIndex
    BY <1>1, <1>3 DEF FirstAt, LookingAt
  <2>2. IsLastOk(revIndex, revs, cur[w])
    BY <1>1, <1>3, <2>1, Facts, Order DEF LookingAt, IsLastOk
  <2>3. revIndex \in Rev \cup {NoIndex}
    BY Facts
  <2> QED
    BY <1>1, <1>3, <2>2, <2>3, LastOkIs DEF LastOk
<1>4. CASE pc'[w] = "idle" /\ ret'[w] = "same" /\ data' = data /\ LastOk = data[w]
  <2>1. LastOk' = LastOk
    BY <1>1 DEF LastOk
  <2> QED
    BY <1>1, <1>4, <2>1 DEF FirstAt, LookingAt, SameAt
<1>5. CASE pc'[w] = "nextIndex"
  BY <1>1, <1>5, FirstElsewhere
<1>6. CASE revs[cur[w]] \in OkData \cup {NoEntry} /\ Answer(w, revs[cur[w]])
  BY <1>1, <1>2, <1>3, <1>4, <1>5, <1>6
<1>7. CASE Answer(w, NoEntry)
  BY <1>1, <1>2, <1>5, <1>7
<1>8. CASE revs[cur[w]] \in ErrData /\ cur[w] > 0 /\ At(w, cur[w] - 1) /\ UNCHANGED pc
  <2>1. cur'[w] = cur[w] - 1 /\ pc'[w] = "getEntry"
    BY <1>1, <1>8, AtThread DEF Before
  <2>2. LookingAt(w)'
    <3>1. CASE revIndex = NoIndex
      BY <1>1, <1>8, <3>1 DEF LookingAt
    <3>2. CASE revIndex # NoIndex
      <4>1. cur[w] <= revIndex /\ revIndex \in Nat
            /\ \A j \in Rev : cur[w] < j /\ j <= revIndex => revs[j] \in ErrData
        BY <1>1, <3>2, Facts, Order DEF LookingAt
      <4>2. ASSUME NEW j \in Rev, cur[w] - 1 < j, j <= revIndex
            PROVE  revs[j] \in ErrData
        <5>1. j = cur[w] \/ cur[w] < j
          BY <1>1, <4>2, Order
        <5> QED
          BY <1>8, <4>1, <4>2, <5>1
      <4>3. cur[w] - 1 <= revIndex
        BY <1>1, <4>1
      <4> QED
        BY <1>1, <2>1, <3>2, <4>2, <4>3 DEF LookingAt
    <3> QED
      BY <3>1, <3>2
  <2> QED
    BY <1>1, <2>1, <2>2 DEF FirstAt, SameAt
<1> QED
  BY <1>1, <1>6, <1>7, <1>8 DEF GetEntry

LEMMA FirstStep ==
  ASSUME NEW w, Before(w), IndexSucceeds, FirstAt(w), LookingAt(w),
         Step(w) \/ WriterCalls(w)
  PROVE  FirstAt(w)' /\ LookingAt(w)' /\ SameAt(w)'
<1> USE GotoThread, AtThread, ReturnThread DEF Before
<1>1. CASE WriterCalls(w)
  <2>1. PICK o, d, step : /\ Call(w, o, d, step)
                          /\ step \in {"nextIndex", "getIndex", "maxIndex"}
    BY <1>1 DEF WriterCalls, Insert, InsertIfNotExists, RemoveAll
  <2>2. pc[w] = "idle" /\ pc'[w] = step /\ UNCHANGED <<revIndex, revs>>
    BY <2>1, CallThread
  <2> QED
    BY <2>1, <2>2, FirstElsewhere
<1>2. CASE GetIndex(w)
  <2>1. /\ pc[w] = "getIndex" /\ pc'[w] = "getEntry" /\ UNCHANGED <<revIndex, revs>>
        /\ cur'[w] = IF revIndex = NoIndex THEN 0 ELSE revIndex
    BY <1>2 DEF GetIndex, tree
  <2>2. revIndex # NoIndex =>
          revIndex <= revIndex /\ \A j \in Rev : ~ (revIndex < j /\ j <= revIndex)
    BY Facts, RevAssumption DEF Rev
  <2> QED
    BY <2>1, <2>2 DEF FirstAt, LookingAt, SameAt
<1>3. CASE GetEntry(w)
  BY <1>3, FirstGetEntry
<1>4. CASE NextIndex(w)
  BY <1>4, FirstElsewhere DEF NextIndex, tree
<1>5. CASE Wipe(w)
  <2>1. revIndex = MaxRev /\ revIndex' = revIndex /\ MaxRev # NoIndex
    BY <1>5, Facts, Order DEF Wipe, Remove, OwnerInv, Wiping
  <2>2. pc'[w] \in {"wipe", "putEntry"}
    BY <1>5 DEF Wipe
  <2> QED
    BY <2>1, <2>2 DEF FirstAt, LookingAt, SameAt
<1>6. CASE PutEntry(w)
  <2>1. pc'[w] = "putIndex"
    BY <1>6 DEF PutEntry
  <2> QED
    BY <2>1 DEF FirstAt, LookingAt, SameAt
<1>7. CASE PutIndex(w)
  <2>1. pc'[w] = "findOk" /\ revIndex' # NoIndex
    BY <1>7, Facts, Order DEF PutIndex
  <2> QED
    BY <2>1 DEF FirstAt, LookingAt, SameAt
<1>8. CASE FindOk(w)
  <2>1. pc[w] = "findOk" /\ UNCHANGED <<revIndex, revs>>
        /\ (pc'[w] \in {"findOk", "trim"} \/ (pc'[w] = "idle" /\ ret'[w] = "done"))
    BY <1>8 DEF FindOk, TrimBelow, tree
  <2> QED
    BY <2>1, FirstElsewhere
<1>9. CASE Trim(w)
  <2>1. revIndex' = revIndex /\ revIndex # NoIndex
    BY <1>9, Facts, Order DEF Trim, Remove, OwnerInv, Trimming
  <2>2. pc'[w] = "trim" \/ (pc'[w] = "idle" /\ ret'[w] = "done")
    BY <1>9 DEF Trim
  <2> QED
    BY <2>1, <2>2 DEF FirstAt, LookingAt, SameAt
<1>10. CASE MaxIndex(w)
  <2>1. /\ pc[w] = "maxIndex" /\ UNCHANGED <<revIndex, revs>>
        /\ \/ pc'[w] = "idle" /\ ret'[w] = "done"
           \/ pc'[w] = "dropEntry" /\ cur'[w] = 0
    BY <1>10 DEF MaxIndex, tree
  <2> QED
    BY <2>1, FirstElsewhere
<1>11. CASE DropEntry(w)
  <2>1. /\ pc[w] = "dropEntry" /\ revIndex' = revIndex /\ revIndex # NoIndex
        /\ revs' = [revs EXCEPT ![cur[w]] = NoEntry]
    BY <1>11, Facts, Order DEF DropEntry, Remove, OwnerInv, Dropping
  <2>2. revs'[0] = NoEntry
    <3>1. cur[w] = 0 \/ revs[0] = NoEntry
      BY <2>1 DEF FirstAt
    <3> QED
      BY <2>1, <3>1, Facts, Order
  <2>3. pc'[w] \in {"dropEntry", "dropIndex"}
    BY <1>11 DEF DropEntry
  <2> QED
    BY <2>1, <2>2, <2>3 DEF FirstAt, LookingAt, SameAt
<1>12. CASE DropIndex(w)
  <2>1. pc[w] = "dropIndex" /\ revs' = revs /\ pc'[w] = "idle" /\ ret'[w] = "done"
    BY <1>12 DEF DropIndex
  <2> QED
    BY <2>1 DEF FirstAt, LookingAt, SameAt
<1>13. CASE SledError(w)
  <2>1. /\ pc[w] \notin {"findOk", "listKey", "putIndex"} /\ UNCHANGED <<revIndex, revs>>
        /\ pc'[w] = "nextIndex" \/ (pc'[w] = "idle" /\ ret'[w] = "failed")
    BY <1>13, Facts DEF SledError, WriterRole, SingleOwner, tree, IndexSucceeds
  <2>2. pc[w] \in {"dropEntry", "dropIndex"} => revIndex # NoIndex
    BY Facts, Order DEF OwnerInv, Dropping
  <2> QED
    BY <2>1, <2>2 DEF FirstAt, LookingAt, SameAt
<1> QED
  BY <1>1, <1>2, <1>3, <1>4, <1>5, <1>6, <1>7, <1>8, <1>9, <1>10, <1>11, <1>12, <1>13
     DEF Step

LEMMA FirstInvariant ==
  ASSUME SingleOwner, IndexSucceeds
  PROVE  Spec => []FirstInv
<1>1. Init => FirstInv
  <2> SUFFICES ASSUME Init, NEW w \in Writers
               PROVE  FirstAt(w) /\ LookingAt(w) /\ SameAt(w)
    BY DEF FirstInv
  <2>1. /\ pc[w] = "idle" /\ ret[w] = "none" /\ revs[0] = NoEntry
    BY Order DEF Init, Proc
  <2> QED
    BY <2>1 DEF FirstAt, LookingAt, SameAt
<1>2. TypeOK /\ DropBound /\ StoreInv /\ FirstInv /\ [Next]_vars => FirstInv'
  <2> SUFFICES ASSUME TypeOK, DropBound, StoreInv, FirstInv, [Next]_vars,
                      NEW w \in Writers
               PROVE  FirstAt(w)' /\ LookingAt(w)' /\ SameAt(w)'
    BY DEF FirstInv
  <2>1. Before(w) /\ (\/ Step(w) \/ WriterCalls(w)
                      \/ UNCHANGED <<revIndex, revs>> /\ Undisturbed(w))
    BY OwnerOrOther DEF IndexSucceeds
  <2>2. CASE Step(w) \/ WriterCalls(w)
    BY <2>1, <2>2, FirstStep DEF FirstInv
  <2>3. CASE UNCHANGED <<revIndex, revs>> /\ Undisturbed(w)
    BY <2>3 DEF FirstInv, FirstAt, LookingAt, SameAt, Undisturbed, LastOk
  <2> QED
    BY <2>1, <2>2, <2>3
<1> QED
  BY <1>1, <1>2, Typed, OwnerInvariant, PTL DEF Spec

(* What insert_if_not_exists of the only writer takes for the payload that is
   there already is the last success, also after calls that failed, as long
   as an index can be written. *)
THEOREM SameSettles ==
  ASSUME SingleOwner, IndexSucceeds
  PROVE  Spec => []SettledSame
<1>1. FirstInv => SettledSame
  BY DEF FirstInv, SameAt, SettledSame
<1> QED
  BY <1>1, FirstInvariant, PTL

-----------------------------------------------------------------------------

(***************************************************************************)
(* What a reader may be handed.  Of a reader that scans for the last       *)
(* success at revision c, these are the revisions it may still end at.     *)
(***************************************************************************)
Within(c, i) ==
  /\ i <= c /\ revs[i] \in OkData
  /\ \A j \in Rev : i < j /\ j <= c => revs[j] \in ErrData

(* The key's contents, and those about to be, are known to every reader. *)
SeenNow(r) ==
  pc[r] # "idle" =>
    /\ Latest \in latestSeen[r] /\ Publishing \subseteq latestSeen[r]
    /\ LastOk \in okSeen[r] /\ Publishing \subseteq okSeen[r]

(* Whatever a reader may still come to is known to it. *)
SeenAhead(r) ==
  pc[r] = "getEntry" =>
    IF TakesLatest(r)
    THEN revs[cur[r]] \in {NoEntry} \cup latestSeen[r]
    ELSE \A i \in Rev : Within(cur[r], i) => revs[i] \in okSeen[r]

SeenInv == \A r \in Readers : SeenNow(r) /\ SeenAhead(r)

(* The history variables. *)
LEMMA Recorded ==
  ASSUME ReadsNext, NEW r \in Readers, pc'[r] # "idle"
  PROVE  /\ latestSeen'[r] = latestSeen[r] \cup {Latest'} \cup Publishing'
         /\ okSeen'[r] = okSeen[r] \cup {LastOk'} \cup Publishing'
BY DEF ReadsNext, Record

(* The owner's steps, seen from the revisions. *)
LEMMA RevsStep ==
  ASSUME NEW w, Before(w), Step(w) \/ WriterCalls(w)
  PROVE  \/ revs' = revs
         \/ \E c \in Rev : revs' = [revs EXCEPT ![c] = NoEntry]
         \/ /\ revs' = [revs EXCEPT ![idx[w]] = data[w]] /\ idx[w] \in Rev
            /\ idx[w] = NextRev(revIndex) /\ data[w] \in Publishing'
<1>1. CASE WriterCalls(w)
  BY <1>1 DEF WriterCalls, Insert, InsertIfNotExists, RemoveAll, Call, tree
<1>2. CASE Wipe(w) \/ Trim(w) \/ DropEntry(w)
  BY <1>2, Facts DEF Wipe, Trim, DropEntry, Remove
<1>3. CASE PutEntry(w)
  <2>1. /\ revs' = [revs EXCEPT ![idx[w]] = data[w]] /\ idx[w] \in Rev
        /\ idx[w] = NextRev(revIndex) /\ pc'[w] = "putIndex" /\ data' = data
    BY <1>3, Facts, GotoThread DEF PutEntry, OwnerInv, Putting, Before
  <2>2. data[w] \in Publishing'
    BY <2>1 DEF Publishing, Before
  <2> QED
    BY <2>1, <2>2
<1>4. CASE \/ GetIndex(w) \/ GetEntry(w) \/ NextIndex(w) \/ PutIndex(w) \/ FindOk(w)
           \/ MaxIndex(w) \/ DropIndex(w) \/ SledError(w)
  BY <1>4 DEF GetIndex, GetEntry, NextIndex, PutIndex, FindOk, MaxIndex, DropIndex,
              SledError, tree
<1> QED
  BY <1>1, <1>2, <1>3, <1>4 DEF Step

(* A reader that scans meets nothing new but what is being published, and
   below it what was the last success before. *)
LEMMA WithinAfter ==
  ASSUME NEW w, Before(w), Step(w) \/ WriterCalls(w),
         NEW c \in Rev, NEW i \in Rev, Within(c, i)'
  PROVE  \/ Within(c, i) /\ revs'[i] = revs[i]
         \/ revs'[i] \in Publishing'
         \/ revs'[i] = LastOk
<1>0. revs \in [Rev -> Data \cup {NoEntry}] /\ NoEntry \notin OkData /\ NoEntry \notin ErrData
  BY Facts, DataAssumption DEF Data
<1>1. /\ i <= c /\ revs'[i] \in OkData
      /\ \A j \in Rev : i < j /\ j <= c => revs'[j] \in ErrData
  BY DEF Within
<1>2. CASE revs' = revs
  BY <1>1, <1>2 DEF Within
<1>3. ASSUME NEW x \in Rev, revs' = [revs EXCEPT ![x] = NoEntry]
      PROVE  Within(c, i) /\ revs'[i] = revs[i]
  <2>1. revs'[x] = NoEntry /\ \A j \in Rev : j # x => revs'[j] = revs[j]
    BY <1>0, <1>3
  <2>2. i # x /\ \A j \in Rev : i < j /\ j <= c => j # x
    BY <1>0, <1>1, <2>1
  <2> QED
    BY <1>1, <2>1, <2>2 DEF Within
<1>4. ASSUME revs' = [revs EXCEPT ![idx[w]] = data[w]], idx[w] \in Rev,
             idx[w] = NextRev(revIndex), data[w] \in Publishing'
      PROVE  \/ Within(c, i) /\ revs'[i] = revs[i]
             \/ revs'[i] \in Publishing'
             \/ revs'[i] = LastOk
  <2> DEFINE x == idx[w]
  <2>1. revs'[x] = data[w] /\ \A j \in Rev : j # x => revs'[j] = revs[j]
    BY <1>0, <1>4
  <2>2. CASE i = x
    BY <1>4, <2>1, <2>2
  <2>3. CASE i # x /\ ~ (i < x /\ x <= c)
    BY <1>1, <2>1, <2>3 DEF Within
  <2>4. CASE i < x /\ x <= c
    <3>0. x \in Nat /\ i \in Nat /\ c \in Nat /\ x # 0 /\ i # x
      BY <1>4, <2>4, RevAssumption DEF Rev
    <3>1. /\ revIndex \in Rev /\ revIndex # NoIndex /\ x = revIndex + 1
          /\ revIndex \in Nat /\ i \in Nat /\ c \in Nat /\ i # x
      BY <1>4, <3>0, Facts, Order DEF NextRev
    <3>2. \A j \in Rev : i < j /\ j <= revIndex => revs[j] \in ErrData
      <4> SUFFICES ASSUME NEW j \in Rev, i < j, j <= revIndex PROVE revs[j] \in ErrData
        OBVIOUS
      <4>1. j \in Nat /\ j <= c /\ j # x
        BY <2>4, <3>1, Order
      <4> QED
        BY <1>1, <2>1, <4>1
    <3>3. i \in 0..revIndex /\ revs[i] \in OkData /\ revs'[i] = revs[i]
      BY <1>1, <2>1, <2>4, <3>1
    <3>4. IsLastOk(revIndex, revs, i)
      BY <3>1, <3>2, <3>3 DEF IsLastOk
    <3> QED
      BY <3>1, <3>3, <3>4, LastOkIs DEF LastOk
  <2> QED
    BY <2>2, <2>3, <2>4
<1> QED
  BY <1>2, <1>3, <1>4, RevsStep

(* The owner's step. *)
LEMMA SeenByOwner ==
  ASSUME NEW w, Before(w), Step(w) \/ WriterCalls(w), ReadsNext,
         NEW r \in Readers, Undisturbed(r), SeenNow(r), SeenAhead(r),
         pc'[r] = "getEntry"
  PROVE  SeenAhead(r)'
<1>1. /\ pc[r] = "getEntry" /\ cur'[r] = cur[r] /\ (TakesLatest(r)' <=> TakesLatest(r))
      /\ cur[r] \in Rev
  BY DEF Undisturbed, TakesLatest, Before, TypeOK, Proc
<1>2. /\ latestSeen'[r] = latestSeen[r] \cup {Latest'} \cup Publishing'
      /\ okSeen'[r] = okSeen[r] \cup {LastOk'} \cup Publishing'
  BY Recorded
<1>3. LastOk \in okSeen[r]
  BY <1>1 DEF SeenNow
<1>4. CASE TakesLatest(r)
  <2>1. revs[cur[r]] \in {NoEntry} \cup latestSeen[r]
    BY <1>1, <1>4 DEF SeenAhead
  <2>2. revs \in [Rev -> Data \cup {NoEntry}]
    BY Facts
  <2>3. revs'[cur[r]] \in {revs[cur[r]], NoEntry} \cup Publishing'
    BY <1>1, <2>2, RevsStep
  <2>4. revs'[cur[r]] \in {NoEntry} \cup latestSeen'[r]
    BY <1>2, <2>1, <2>3
  <2> QED
    BY <1>1, <1>4, <2>4 DEF SeenAhead
<1>5. CASE ~ TakesLatest(r)
  <2>1. \A i \in Rev : Within(cur[r], i) => revs[i] \in okSeen[r]
    BY <1>1, <1>5 DEF SeenAhead
  <2>2. PICK c \in Rev : c = cur[r]
    BY <1>1
  <2>3. ASSUME NEW i \in Rev, Within(c, i)'
        PROVE  revs'[i] \in okSeen'[r]
    <3>1. \/ Within(c, i) /\ revs'[i] = revs[i]
          \/ revs'[i] \in Publishing'
          \/ revs'[i] = LastOk
      BY <2>3, WithinAfter
    <3>2. Within(c, i) => revs[i] \in okSeen[r]
      BY <2>1, <2>2
    <3> QED
      BY <1>2, <1>3, <3>1, <3>2
  <2>4. \A i \in Rev : Within(cur[r], i)' <=> Within(c, i)'
    BY <1>1, <2>2 DEF Within
  <2> QED
    BY <1>1, <1>5, <2>3, <2>4 DEF SeenAhead
<1> QED
  BY <1>4, <1>5

-----------------------------------------------------------------------------

(* A step is that of a reader, or leaves the reader alone. *)
LEMMA ReaderOrOther ==
  ASSUME SingleOwner, TypeOK, DropBound, StoreInv, [Next]_vars, ~ Crashes,
         NEW r \in Readers
  PROVE  \/ Undisturbed(r)
         \/ Step(r) \/ ListKey(r) \/ ReaderCalls(r)
<1>1. r \in Proc /\ r \notin Writers
  BY ProcAssumption DEF Proc
<1>2. ASSUME NEW w \in Writers, Step(w) \/ WriterCalls(w) PROVE Undisturbed(r)
  BY <1>1, <1>2, OthersUndisturbed DEF Proc
<1>3. ASSUME NEW q \in Readers, q # r, Step(q) \/ ListKey(q) \/ ReaderCalls(q)
      PROVE  Undisturbed(r)
  BY <1>1, <1>3, ReaderStep, ReaderCall DEF StoreInv
<1>4. CASE UNCHANGED vars
  BY <1>4 DEF vars, Undisturbed
<1>5. CASE Flush \/ Crash
  BY <1>5 DEF Flush, Crash, local, Undisturbed
<1>6. CASE Next
  <2>1. \/ \E w \in Writers : Step(w) \/ WriterCalls(w)
        \/ \E q \in Readers : Step(q) \/ ListKey(q) \/ ReaderCalls(q)
        \/ Flush \/ Crash
    BY <1>6 DEF Next, Proc
  <2> QED
    BY <2>1, <1>2, <1>3, <1>5
<1> QED
  BY <1>4, <1>6

(* The steps of a reader that is looking at a revision, or comes to. *)
LEMMA ReaderLooks ==
  ASSUME TypeOK, NEW r \in Readers, ReaderRole(r),
         Step(r) \/ ListKey(r) \/ ReaderCalls(r), pc'[r] = "getEntry"
  PROVE  /\ op'[r] = op[r]
         /\ \/ /\ pc[r] = "getIndex"
               /\ cur'[r] = IF revIndex = NoIndex THEN 0 ELSE revIndex
            \/ /\ pc[r] = "getEntry" /\ ~ TakesLatest(r) /\ revs[cur[r]] \in ErrData
               /\ cur[r] > 0 /\ cur'[r] = cur[r] - 1
<1>1. r \in Proc
  BY DEF Proc
<1>2. ~ ReaderCalls(r)
  <2> SUFFICES ASSUME ReaderCalls(r) PROVE FALSE
    OBVIOUS
  <2>1. \E o : \E s \in {"getIndex", "listKey"} : Call(r, o, NoEntry, s)
    BY DEF ReaderCalls, Get, Iterate, ContainsKey
  <2> QED
    BY <1>1, <2>1, CallThread
<1>3. ListKey(r) \/ GetIndex(r) \/ GetEntry(r) \/ SledError(r)
  BY <1>2 DEF ReaderRole, Step, NextIndex, Wipe, PutEntry, PutIndex, FindOk, Trim,
     MaxIndex, DropEntry, DropIndex
<1> USE <1>1, GotoThread, AtThread, ReturnThread
<1>4. ~ ListKey(r)
  BY DEF ListKey
<1>5. ~ SledError(r)
  BY DEF SledError, ReaderRole
<1>6. CASE GetIndex(r)
  BY <1>6 DEF GetIndex
<1>7. CASE GetEntry(r)
  <2>1. \A e : ~ Answer(r, e)
    BY DEF Answer, ReaderRole
  <2> QED
    BY <1>7, <2>1 DEF GetEntry
<1> QED
  BY <1>3, <1>4, <1>5, <1>6, <1>7

(* A step that leaves the tree and the owner alone. *)
LEMMA SeenByReader ==
  ASSUME TypeOK, StoreInv, FirstInv, NEW w \in Writers, \A v \in Writers : v = w,
         UNCHANGED <<revIndex, revs>>, ReadsNext,
         NEW r \in Readers, SeenNow(r), SeenAhead(r), pc'[r] = "getEntry",
         Undisturbed(r) \/ Step(r) \/ ListKey(r) \/ ReaderCalls(r)
  PROVE  SeenAhead(r)'
<1>0. /\ TakesLatest(r)' <=> op'[r] \in {"get", "valueIter", "errorIter"}
      /\ \A c \in Rev : cur'[r] = c =>
           \A i \in Rev : Within(cur[r], i)' <=> Within(c, i)
  BY DEF TakesLatest, Within
<1>1. latestSeen[r] \subseteq latestSeen'[r] /\ okSeen[r] \subseteq okSeen'[r]
  BY Recorded
<1>2. r \in Proc /\ cur[r] \in Rev /\ revIndex \in Rev \cup {NoIndex} /\ ReaderRole(r)
  BY DEF TypeOK, Proc, StoreInv
<1>3. CASE Undisturbed(r)
  BY <1>0, <1>1, <1>2, <1>3 DEF SeenAhead, Undisturbed, TakesLatest
<1>4. ASSUME pc[r] = "getIndex", op'[r] = op[r],
             cur'[r] = IF revIndex = NoIndex THEN 0 ELSE revIndex
      PROVE  SeenAhead(r)'
  <2>1. /\ Latest \in latestSeen[r] /\ Publishing \subseteq latestSeen[r]
        /\ LastOk \in okSeen[r] /\ Publishing \subseteq okSeen[r]
    BY <1>4 DEF SeenNow
  <2>2. CASE revIndex = NoIndex
    <3>1. cur'[r] = 0 /\ 0 \in Rev
      BY <1>4, <2>2, Order
    <3>2. revs[0] \in {NoEntry} \cup Publishing
      <4>1. revs[0] = NoEntry \/ pc[w] = "putIndex"
        BY <2>2 DEF FirstInv, FirstAt
      <4>2. pc[w] = "putIndex" => revs[0] = data[w]
        BY <2>2 DEF StoreInv, WriterInv, OwnerInv, Putting, NextRev
      <4>3. pc[w] = "putIndex" => data[w] \in Publishing
        BY DEF Publishing
      <4> QED
        BY <4>1, <4>2, <4>3
    <3>3. \A i \in Rev : Within(0, i) => i = 0 /\ revs[0] # NoEntry
      BY DataAssumption, RevAssumption DEF Within, Rev, Data
    <3> QED
      BY <1>0, <1>1, <2>1, <3>1, <3>2, <3>3 DEF SeenAhead
  <2>3. CASE revIndex # NoIndex
    <3>1. cur'[r] = revIndex /\ revIndex \in Rev /\ revs[revIndex] = Latest
      BY <1>2, <1>4, <2>3 DEF Latest, LatestIn
    <3>2. ASSUME NEW i \in Rev, Within(revIndex, i) PROVE revs[i] = LastOk
      <4>1. IsLastOk(revIndex, revs, i)
        BY <2>3, <3>1, <3>2, RevAssumption DEF Within, IsLastOk, Rev
      <4> QED
        BY <3>1, <4>1, LastOkIs DEF LastOk
    <3> QED
      BY <1>0, <1>1, <2>1, <3>1, <3>2 DEF SeenAhead
  <2> QED
    BY <2>2, <2>3
<1>5. ASSUME pc[r] = "getEntry", op'[r] = op[r], ~ TakesLatest(r),
             revs[cur[r]] \in ErrData, cur[r] > 0, cur'[r] = cur[r] - 1
      PROVE  SeenAhead(r)'
  <2>1. \A i \in Rev : Within(cur[r], i) => revs[i] \in okSeen[r]
    BY <1>5 DEF SeenAhead
  <2>2. cur[r] - 1 \in Rev
    BY <1>2, <1>5, RevAssumption DEF Rev
  <2>3. \A i \in Rev : Within(cur[r] - 1, i) => Within(cur[r], i)
    <3> SUFFICES ASSUME NEW i \in Rev, Within(cur[r] - 1, i) PROVE Within(cur[r], i)
      OBVIOUS
    <3>1. i <= cur[r]
      <4>1. i <= cur[r] - 1
        BY DEF Within
      <4>2. i \in Nat /\ cur[r] \in Nat
        BY <1>2, Order
      <4> QED
        BY <4>1, <4>2
    <3>2. ASSUME NEW j \in Rev, i < j, j <= cur[r] PROVE revs[j] \in ErrData
      <4>1. j = cur[r] \/ j <= cur[r] - 1
        BY <1>2, <3>2, Order
      <4> QED
        BY <1>5, <3>2, <4>1 DEF Within
    <3> QED
      BY <3>1, <3>2 DEF Within
  <2> QED
    BY <1>0, <1>1, <1>5, <2>1, <2>2, <2>3 DEF SeenAhead, TakesLatest
<1> QED
  BY <1>2, <1>3, <1>4, <1>5, ReaderLooks

LEMMA SeenStep ==
  ASSUME SingleOwner, IndexSucceeds, TypeOK, DropBound, StoreInv, FirstInv, SeenInv,
         ReadsNext, NEW r \in Readers
  PROVE  SeenNow(r)' /\ SeenAhead(r)'
<1>1. PICK w \in Writers : Writers = {w}
  BY DEF SingleOwner
<1>2. Next
  BY DEF ReadsNext
<1>3. SeenNow(r)'
  BY Recorded DEF SeenNow
<1>4. ASSUME pc'[r] = "getEntry" PROVE SeenAhead(r)'
  BY <1>1, <1>2, <1>4, OwnerOrOther, ReaderOrOther, SeenByOwner, SeenByReader
     DEF IndexSucceeds, SeenInv
<1> QED
  BY <1>3, <1>4 DEF SeenAhead

LEMMA SeenInvariant ==
  ASSUME SingleOwner, IndexSucceeds
  PROVE  ReadsSpec => [](TypeOK /\ DropBound /\ StoreInv /\ FirstInv /\ SeenInv)
<1>1. ReadsInit => SeenInv
  BY DEF ReadsInit, Init, SeenInv, SeenNow, SeenAhead, Proc
<1>2. TypeOK /\ DropBound /\ StoreInv /\ FirstInv /\ SeenInv /\ [ReadsNext]_hvars
        => SeenInv'
  <2>1. CASE UNCHANGED hvars
    BY <2>1 DEF hvars, vars, SeenInv, SeenNow, SeenAhead, Within, TakesLatest,
                Latest, LastOk, Publishing
  <2> QED
    BY <2>1, SeenStep DEF SeenInv
<1>3. ReadsInit => Init
  BY DEF ReadsInit
<1>4. [ReadsNext]_hvars => [Next]_vars
  BY DEF ReadsNext, hvars
<1>5. ReadsSpec => Spec
  BY <1>3, <1>4, PTL DEF ReadsSpec, Spec
<1> QED
  BY <1>1, <1>2, <1>5, Typed, OwnerInvariant, FirstInvariant, PTL DEF ReadsSpec

(* A reader is handed what the key has held at some moment of the call: Get
   what was the latest entry, GetOk what was the last success, for any number
   of readers next to the only writer, and any number of revisions, whatever
   else fails as long as an index can be written. *)
THEOREM RegularReads ==
  ASSUME SingleOwner, IndexSucceeds
  PROVE  ReadsSpec => ReadsAreRegular
<1> DEFINE Regular ==
             \A r \in Readers :
               Answered(r, "done") =>
                 data'[r] \in IF TakesLatest(r) THEN latestSeen[r] ELSE okSeen[r]
<1>1. TypeOK /\ DropBound /\ StoreInv /\ FirstInv /\ SeenInv /\ [ReadsNext]_hvars
        => [Regular]_hvars
  <2> SUFFICES ASSUME TypeOK, DropBound, StoreInv, SeenInv, ReadsNext,
                      NEW r \in Readers, Answered(r, "done")
               PROVE  data'[r] \in IF TakesLatest(r) THEN latestSeen[r] ELSE okSeen[r]
    OBVIOUS
  <2>1. /\ pc[r] # "idle" /\ pc'[r] = "idle" /\ ret'[r] = "done"
        /\ op[r] # "containsKey" /\ r \in Proc /\ ReaderRole(r) /\ Next
    BY DEF Answered, Proc, StoreInv, ReadsNext
  <2>2. Step(r) \/ ListKey(r) \/ ReaderCalls(r)
    BY <2>1, ReaderOrOther DEF Undisturbed, IndexSucceeds
  <2>3. ~ ReaderCalls(r)
    BY <2>1 DEF ReaderCalls, Get, Iterate, ContainsKey, Call
  <2>4. ListKey(r) \/ GetIndex(r) \/ GetEntry(r) \/ SledError(r)
    BY <2>1, <2>2, <2>3 DEF ReaderRole, Step, NextIndex, Wipe, PutEntry, PutIndex,
       FindOk, Trim, MaxIndex, DropEntry, DropIndex
  <2> USE <2>1, GotoThread, ReturnThread
  <2>5. ~ ListKey(r) /\ ~ GetIndex(r)
    BY DEF ListKey, GetIndex
  <2>6. ~ SledError(r)
    BY DEF SledError, ReaderRole
  <2>7. GetEntry(r)
    BY <2>4, <2>5, <2>6
  <2>8. ASSUME NEW e, Answer(r, e) PROVE data'[r] = e /\ e # NoEntry
    <3>1. data' = [data EXCEPT ![r] = e] /\ ret'[r] = IF e = NoEntry THEN "missing" ELSE "done"
      BY <2>8 DEF Answer, ReaderRole
    <3> QED
      BY <3>1 DEF TypeOK
  <2>9. /\ data'[r] = revs[cur[r]] /\ revs[cur[r]] # NoEntry
        /\ TakesLatest(r) \/ revs[cur[r]] \in OkData
    BY <2>7, <2>8 DEF GetEntry
  <2>10. CASE TakesLatest(r)
    BY <2>7, <2>9, <2>10 DEF SeenInv, SeenAhead, GetEntry
  <2>11. CASE ~ TakesLatest(r)
    <3>1. cur[r] \in Rev
      BY DEF TypeOK
    <3>2. Within(cur[r], cur[r])
      BY <2>9, <2>11, <3>1, RevAssumption DEF Within, Rev
    <3> QED
      BY <2>7, <2>9, <2>11, <3>1, <3>2 DEF SeenInv, SeenAhead, GetEntry
  <2> QED
    BY <2>10, <2>11
<1> QED
  BY <1>1, SeenInvariant, PTL DEF ReadsAreRegular, ReadsSpec

-----------------------------------------------------------------------------

(***************************************************************************)
(* What is left in the tree.                                               *)
(***************************************************************************)

(* The loops that remove old revisions run to their end, and an entry that
   was put gets its index. *)
SweepsSucceed ==
  /\ FailingCalls \cap {"wipe", "putIndex", "trim"} = {}
  /\ ~ Crashes

(* Nor does an insert fail between the wipe and its entry, or a remove_all
   between the entries and the index. *)
WritesSucceed ==
  /\ SweepsSucceed
  /\ FailingCalls \cap {"putEntry", "dropIndex"} = {}

Nothing(rv) == \A j \in Rev : rv[j] = NoEntry

Spanned(rv, lo, hi) == \A j \in Rev : rv[j] # NoEntry <=> lo <= j /\ j <= hi

Errors(rv, lo, hi) == \A j \in Rev : lo < j /\ j < hi => rv[j] \in ErrData

(* The revisions up to the index, without a gap, and errors above the
   first; or nothing, be there an index or not. *)
TidyIn(ix, rv) ==
  \/ Nothing(rv)
  \/ /\ ix # NoIndex
     /\ \E lo \in Rev : lo <= ix /\ Spanned(rv, lo, ix) /\ Errors(rv, lo, ix + 1)

(* Of those, no more than a reader may need. *)
TrimmedIn(ix, rv) ==
  /\ ix # NoIndex
  /\ \E keep \in Rev :
       /\ keep <= ix /\ Spanned(rv, keep, ix) /\ Errors(rv, keep, ix + 1)
       /\ rv[keep] \in OkData \/ keep = ix

(* Revision hi has been written, above a tidy history. *)
WrittenIn(rv, hi) ==
  \E lo \in Rev : lo <= hi /\ Spanned(rv, lo, hi) /\ Errors(rv, lo, hi)

(* The clean-up has come down to c: it removes from the top, down to a
   revision that is not there, so no gap is ever left below it. *)
TrimmingIn(rv, c, hi) ==
  \E keep \in Rev : \E lo \in Rev :
    /\ c < keep /\ keep <= hi
    /\ \A j \in Rev : rv[j] # NoEntry <=> \/ lo <= j /\ j <= c
                                          \/ keep <= j /\ j <= hi
    /\ Errors(rv, keep, hi + 1)
    /\ rv[keep] \in OkData \/ keep = hi

LooksOnly(w) == pc[w] \in {"idle", "getIndex", "getEntry", "nextIndex", "maxIndex"}

HistAt(w) ==
  /\ LooksOnly(w) => TidyIn(revIndex, revs)
  /\ pc[w] = "wipe" => \E lo \in Nat : lo <= cur[w] + 1 /\ Spanned(revs, lo, cur[w])
  /\ pc[w] = "putEntry" =>
       IF revIndex = MaxRev THEN Nothing(revs) ELSE TidyIn(revIndex, revs)
  /\ pc[w] \in {"putIndex", "findOk"} => WrittenIn(revs, idx[w])
  /\ pc[w] = "trim" => TrimmingIn(revs, cur[w], idx[w])
  /\ pc[w] = "dropEntry" =>
       /\ \A j \in Rev : revs[j] # NoEntry => cur[w] <= j /\ j <= idx[w]
       /\ TidyIn(revIndex, revs)
  /\ pc[w] = "dropIndex" => Nothing(revs)
  /\ pc[w] = "idle" /\ ret[w] = "done" /\ op[w] \in {"insert", "insertIfNew"} =>
       TrimmedIn(revIndex, revs)

HistInv == \A w \in Writers : HistAt(w)

LEMMA TrimmedTidy ==
  ASSUME NEW ix, NEW rv, TrimmedIn(ix, rv)
  PROVE  TidyIn(ix, rv)
BY DEF TrimmedIn, TidyIn

(* Removing one revision. *)
LEMMA WipedOne ==
  ASSUME NEW rv \in [Rev -> Data \cup {NoEntry}], NEW c \in Rev,
         NEW lo \in Nat, lo <= c + 1, Spanned(rv, lo, c)
  PROVE  LET rw == [rv EXCEPT ![c] = NoEntry] IN
         /\ rv[c] = NoEntry \/ c = 0 => Nothing(rw)
         /\ ~ (rv[c] = NoEntry \/ c = 0) => lo <= (c - 1) + 1 /\ Spanned(rw, lo, c - 1)
<1> DEFINE rw == [rv EXCEPT ![c] = NoEntry]
<1>1. rw[c] = NoEntry /\ \A j \in Rev : j # c => rw[j] = rv[j]
  OBVIOUS
<1>2. c \in Nat /\ \A j \in Rev : j \in Nat
  BY Order
<1>3. \A j \in Rev : rv[j] # NoEntry <=> lo <= j /\ j <= c
  BY DEF Spanned
<1> HIDE DEF rw
<1>4. ASSUME rv[c] = NoEntry \/ c = 0 PROVE Nothing(rw)
  BY <1>1, <1>2, <1>3, <1>4 DEF Nothing
<1>5. ASSUME rv[c] # NoEntry PROVE lo <= c /\ Spanned(rw, lo, c - 1)
  BY <1>1, <1>2, <1>3, <1>5 DEF Spanned
<1>6. lo <= c => lo <= (c - 1) + 1
  BY <1>2
<1> QED
  BY <1>4, <1>5, <1>6 DEF rw

LEMMA TrimmedOne ==
  ASSUME NEW rv \in [Rev -> Data \cup {NoEntry}], NEW c \in Rev, NEW hi \in Rev,
         TrimmingIn(rv, c, hi)
  PROVE  LET rw == [rv EXCEPT ![c] = NoEntry] IN
         /\ rv[c] = NoEntry \/ c = 0 => TrimmedIn(hi, rw)
         /\ ~ (rv[c] = NoEntry \/ c = 0) => TrimmingIn(rw, c - 1, hi)
<1> DEFINE rw == [rv EXCEPT ![c] = NoEntry]
<1>1. rw[c] = NoEntry /\ \A j \in Rev : j # c => rw[j] = rv[j]
  OBVIOUS
<1>2. c \in Nat /\ hi \in Nat /\ hi # NoIndex /\ \A j \in Rev : j \in Nat
  BY Order
<1>3. PICK keep \in Rev, lo \in Rev :
        /\ c < keep /\ keep <= hi
        /\ \A j \in Rev : rv[j] # NoEntry <=> \/ lo <= j /\ j <= c
                                              \/ keep <= j /\ j <= hi
        /\ Errors(rv, keep, hi + 1)
        /\ rv[keep] \in OkData \/ keep = hi
  BY DEF TrimmingIn
<1> HIDE DEF rw
<1>4. keep \in Nat /\ lo \in Nat /\ \A j \in Rev : keep <= j => j # c
  BY <1>2, <1>3
<1>5. rw[keep] = rv[keep] /\ Errors(rw, keep, hi + 1)
  <2>1. \A j \in Rev : keep < j => keep <= j
    BY <1>2, <1>4
  <2>2. keep <= keep
    BY <1>4
  <2> QED
    BY <1>1, <1>3, <1>4, <2>1, <2>2 DEF Errors
<1>6. ASSUME rv[c] = NoEntry \/ c = 0 PROVE TrimmedIn(hi, rw)
  <2>1. ASSUME NEW j \in Rev PROVE rw[j] # NoEntry <=> keep <= j /\ j <= hi
    <3>1. rv[j] # NoEntry <=> (lo <= j /\ j <= c) \/ (keep <= j /\ j <= hi)
      BY <1>3
    <3>2. CASE j = c
      BY <1>1, <1>4, <3>2
    <3>3. CASE j # c
      <4>1. rw[j] = rv[j]
        BY <1>1, <3>3
      <4>2. ~ (lo <= j /\ j <= c)
        <5>1. CASE c = 0
          BY <1>2, <3>3, <5>1
        <5>2. CASE rv[c] = NoEntry
          <6>1. ~ (lo <= c /\ c <= c)
            BY <1>3, <5>2
          <6> QED
            BY <1>2, <1>4, <6>1
        <5> QED
          BY <1>6, <5>1, <5>2
      <4> QED
        BY <3>1, <4>1, <4>2
    <3> QED
      BY <3>2, <3>3
  <2>2. Spanned(rw, keep, hi)
    BY <2>1 DEF Spanned
  <2> QED
    BY <1>2, <1>3, <1>5, <2>2 DEF TrimmedIn
<1>7. ASSUME rv[c] # NoEntry PROVE TrimmingIn(rw, c - 1, hi)
  <2>1. \A j \in Rev : rw[j] # NoEntry <=> \/ lo <= j /\ j <= c - 1
                                           \/ keep <= j /\ j <= hi
    BY <1>1, <1>2, <1>3, <1>4
  <2>2. c - 1 < keep
    BY <1>2, <1>3, <1>4
  <2> QED
    BY <1>3, <1>5, <2>1, <2>2 DEF TrimmingIn
<1> QED
  BY <1>6, <1>7 DEF rw

(* Writing the next one. *)
LEMMA WrittenOne ==
  ASSUME NEW rv \in [Rev -> Data \cup {NoEntry}], NEW ix \in Rev \cup {NoIndex},
         NEW d \in Data,
         IF ix = MaxRev THEN Nothing(rv) ELSE TidyIn(ix, rv)
  PROVE  WrittenIn([rv EXCEPT ![NextRev(ix)] = d], NextRev(ix))
<1> DEFINE n == NextRev(ix)
           rw == [rv EXCEPT ![n] = d]
<1>1. d # NoEntry
  BY DataAssumption
<1>2. CASE Nothing(rv)
  <2>1. n \in Rev /\ n \in Nat /\ \A j \in Rev : j \in Nat
    BY RevAssumption DEF NextRev, Rev
  <2>2. rw[n] = d /\ \A j \in Rev : j # n => rw[j] = NoEntry
    BY <1>2, <2>1 DEF Nothing
  <2> HIDE DEF rw, n
  <2>3. Spanned(rw, n, n) /\ Errors(rw, n, n)
    BY <1>1, <2>1, <2>2 DEF Spanned, Errors
  <2>4. n <= n
    BY <2>1
  <2>5. WrittenIn(rw, n)
    BY <2>1, <2>3, <2>4 DEF WrittenIn
  <2> QED
    BY <2>5 DEF rw, n
<1>3. CASE ~ Nothing(rv)
  <2>1. ix \notin {NoIndex, MaxRev}
    BY <1>3 DEF TidyIn
  <2>2. ix \in Nat /\ n = ix + 1 /\ n \in Rev /\ \A j \in Rev : j \in Nat
    BY <2>1, RevAssumption DEF NextRev, Rev
  <2>3. PICK lo \in Rev : lo <= ix /\ Spanned(rv, lo, ix) /\ Errors(rv, lo, ix + 1)
    BY <1>3, <2>1 DEF TidyIn
  <2>4. rw[n] = d /\ \A j \in Rev : j # n => rw[j] = rv[j]
    BY <2>2
  <2> HIDE DEF rw, n
  <2>5. Spanned(rw, lo, n)
    BY <1>1, <2>2, <2>3, <2>4 DEF Spanned
  <2>6. Errors(rw, lo, n)
    BY <2>2, <2>3, <2>4 DEF Errors
  <2>7. WrittenIn(rw, n)
    BY <2>2, <2>3, <2>5, <2>6 DEF WrittenIn
  <2> QED
    BY <2>7 DEF rw, n
<1> QED
  BY <1>2, <1>3

(* Removing the lowest revision, below the index. *)
LEMMA DroppedOne ==
  ASSUME NEW rv \in [Rev -> Data \cup {NoEntry}], NEW c \in Rev, NEW ix \in Rev,
         c # ix, TidyIn(ix, rv), \A j \in Rev : rv[j] # NoEntry => c <= j
  PROVE  TidyIn(ix, [rv EXCEPT ![c] = NoEntry])
<1> DEFINE rw == [rv EXCEPT ![c] = NoEntry]
<1>1. rw[c] = NoEntry /\ \A j \in Rev : j # c => rw[j] = rv[j]
  OBVIOUS
<1>2. c \in Nat /\ ix \in Nat /\ \A j \in Rev : j \in Nat
  BY Order
<1> HIDE DEF rw
<1>3. CASE Nothing(rv)
  BY <1>1, <1>3 DEF Nothing, TidyIn, rw
<1>4. CASE ~ Nothing(rv)
  <2>1. PICK lo \in Rev : lo <= ix /\ Spanned(rv, lo, ix) /\ Errors(rv, lo, ix + 1)
    BY <1>4 DEF TidyIn
  <2>2. lo \in Nat /\ ix # NoIndex /\ c <= lo
    BY <1>2, <2>1, Order DEF Spanned
  <2>3. PICK l \in Rev : l = IF lo = c THEN c + 1 ELSE lo
    BY <1>2, <2>1, <2>2, RevAssumption DEF Rev
  <2>4. l <= ix /\ lo <= l
    BY <1>2, <2>1, <2>2, <2>3
  <2>5. ASSUME NEW j \in Rev PROVE rw[j] # NoEntry <=> l <= j /\ j <= ix
    <3>1. rv[j] # NoEntry <=> lo <= j /\ j <= ix
      BY <2>1 DEF Spanned
    <3>2. CASE j = c
      BY <1>1, <1>2, <2>2, <2>3, <3>2
    <3>3. CASE j # c
      BY <1>1, <1>2, <2>2, <2>3, <3>1, <3>3
    <3> QED
      BY <3>2, <3>3
  <2>6. Spanned(rw, l, ix)
    BY <2>5 DEF Spanned
  <2>7. ASSUME NEW j \in Rev, l < j, j < ix + 1 PROVE rw[j] \in ErrData
    <3>1. lo < j /\ j # c
      BY <1>2, <2>2, <2>3, <2>4, <2>7
    <3>2. rv[j] \in ErrData
      BY <2>1, <2>7, <3>1 DEF Errors
    <3> QED
      BY <1>1, <3>1, <3>2
  <2>8. Errors(rw, l, ix + 1)
    BY <2>7 DEF Errors
  <2> QED
    BY <2>2, <2>4, <2>6, <2>8 DEF TidyIn, rw
<1> QED
  BY <1>3, <1>4

(* Once it is known what to keep. *)
LEMMA KeptFrom ==
  ASSUME NEW rv \in [Rev -> Data \cup {NoEntry}], NEW hi \in Rev, NEW keep \in Rev,
         keep <= hi, WrittenIn(rv, hi),
         \/ rv[keep] \in OkData /\ \A j \in Rev : keep < j /\ j <= hi => rv[j] \notin OkData
         \/ keep = hi
  PROVE  /\ keep = 0 => TrimmedIn(hi, rv)
         /\ keep > 0 => TrimmingIn(rv, keep - 1, hi)
<1>1. hi \in Nat /\ keep \in Nat /\ hi # NoIndex /\ \A j \in Rev : j \in Nat
  BY Order
<1>2. PICK lo \in Rev : lo <= hi /\ Spanned(rv, lo, hi) /\ Errors(rv, lo, hi)
  BY DEF WrittenIn
<1>3. lo \in Nat /\ NoEntry \notin OkData
  BY <1>1, DataAssumption DEF Data
<1>4. lo <= keep
  BY <1>1, <1>2, <1>3 DEF Spanned
<1>5. Errors(rv, keep, hi + 1)
  <2> SUFFICES ASSUME NEW j \in Rev, keep < j, j < hi + 1 PROVE rv[j] \in ErrData
    BY DEF Errors
  <2>1. j \in Nat /\ lo <= j /\ j <= hi /\ keep # hi
    BY <1>1, <1>3, <1>4
  <2>2. rv[j] # NoEntry /\ rv[j] \notin OkData
    BY <1>2, <2>1 DEF Spanned
  <2>3. rv[j] \in Data \cup {NoEntry}
    OBVIOUS
  <2> QED
    BY <2>2, <2>3 DEF Data
<1>6. ASSUME keep = 0 PROVE TrimmedIn(hi, rv)
  <2>1. lo = 0
    BY <1>3, <1>4, <1>6
  <2> QED
    BY <1>1, <1>2, <1>5, <1>6, <2>1 DEF TrimmedIn
<1>7. ASSUME keep > 0 PROVE TrimmingIn(rv, keep - 1, hi)
  <2>1. \A j \in Rev : rv[j] # NoEntry <=> \/ lo <= j /\ j <= keep - 1
                                           \/ keep <= j /\ j <= hi
    BY <1>1, <1>2, <1>3, <1>4 DEF Spanned
  <2>2. keep - 1 < keep
    BY <1>1
  <2> QED
    BY <1>5, <2>1, <2>2 DEF TrimmingIn
<1> QED
  BY <1>6, <1>7

-----------------------------------------------------------------------------

(* A step that leaves the tree alone, to where the thread looks only. *)
LEMMA HistLooks ==
  ASSUME NEW w, UNCHANGED <<revIndex, revs>>, TidyIn(revIndex, revs), LooksOnly(w)',
         pc'[w] = "idle" => ret'[w] # "done" \/ op'[w] = "removeAll"
  PROVE  HistAt(w)'
BY DEF HistAt, LooksOnly

(* An operation of a writer that fails. *)
LEMMA SledStays ==
  ASSUME NEW w, Before(w), SledError(w)
  PROVE  /\ UNCHANGED <<revIndex, revs, op>>
         /\ pc[w] \in {"getIndex", "getEntry", "nextIndex", "wipe", "putEntry", "putIndex",
                       "trim", "maxIndex", "dropEntry", "dropIndex"} \cap FailingCalls
         /\ \/ pc[w] \in {"getIndex", "getEntry"} /\ pc'[w] = "nextIndex"
            \/ pc'[w] = "idle" /\ ret'[w] = "failed"
<1> USE GotoThread, AtThread, ReturnThread DEF Before
<1>1. UNCHANGED <<revIndex, revs, op>> /\ pc[w] \in FailingCalls
  BY DEF SledError, tree
<1>2. pc[w] \in Steps /\ pc[w] # "listKey" /\ pc[w] # "findOk"
  BY <1>1, Facts, FaultAssumption DEF WriterRole, SingleOwner
<1>3. pc[w] \in {"getIndex", "getEntry", "nextIndex", "wipe", "putEntry", "putIndex",
               "trim", "maxIndex", "dropEntry", "dropIndex"}
  BY <1>2 DEF Steps
<1>4. \/ pc[w] \in {"getIndex", "getEntry"} /\ pc'[w] = "nextIndex"
      \/ pc'[w] = "idle" /\ ret'[w] = "failed"
  BY <1>2 DEF SledError
<1> QED
  BY <1>1, <1>3, <1>4

LEMMA HistStep ==
  ASSUME NEW w, Before(w), SweepsSucceed, HistAt(w), Step(w) \/ WriterCalls(w)
  PROVE  HistAt(w)'
<1> USE GotoThread, AtThread, ReturnThread DEF Before
<1>0. LooksOnly(w) => TidyIn(revIndex, revs)
  BY DEF HistAt
<1>1. CASE WriterCalls(w)
  <2>1. PICK o, d, step : /\ Call(w, o, d, step)
                          /\ step \in {"nextIndex", "getIndex", "maxIndex"}
    BY <1>1 DEF WriterCalls, Insert, InsertIfNotExists, RemoveAll
  <2>2. pc[w] = "idle" /\ pc'[w] = step /\ UNCHANGED <<revIndex, revs>>
    BY <2>1, CallThread
  <2> QED
    BY <1>0, <2>1, <2>2, HistLooks DEF LooksOnly
<1>2. CASE GetIndex(w)
  <2>1. pc[w] = "getIndex" /\ pc'[w] = "getEntry" /\ UNCHANGED <<revIndex, revs>>
    BY <1>2 DEF GetIndex, tree
  <2> QED
    BY <1>0, <2>1, HistLooks DEF LooksOnly
<1>3. CASE GetEntry(w)
  <2>1. pc[w] = "getEntry" /\ UNCHANGED <<revIndex, revs>> /\ op[w] = "insertIfNew"
    BY <1>3, Facts DEF GetEntry, tree, WriterRole
  <2>2. \A e : Answer(w, e) => pc'[w] = "nextIndex" \/ (pc'[w] = "idle" /\ ret'[w] = "same")
    BY <2>1 DEF Answer
  <2>3. \/ pc'[w] \in {"getEntry", "nextIndex"}
        \/ pc'[w] = "idle" /\ ret'[w] = "same"
    BY <1>3, <2>1, <2>2 DEF GetEntry
  <2> QED
    BY <1>0, <2>1, <2>3, HistLooks DEF LooksOnly
<1>4. CASE NextIndex(w)
  <2>1. /\ pc[w] = "nextIndex" /\ UNCHANGED <<revIndex, revs>>
        /\ TidyIn(revIndex, revs)
        /\ \/ revIndex # MaxRev /\ pc'[w] = "putEntry"
           \/ revIndex = MaxRev /\ pc'[w] = "wipe" /\ cur'[w] = MaxRev
    BY <1>0, <1>4 DEF NextIndex, tree, LooksOnly
  <2>2. CASE revIndex # MaxRev
    BY <2>1, <2>2 DEF HistAt, LooksOnly
  <2>3. CASE revIndex = MaxRev
    <3>1. MaxRev \in Nat /\ \A j \in Rev : j \in Nat
      BY RevAssumption, Order
    <3>2. \E lo \in Nat : lo <= MaxRev + 1 /\ Spanned(revs, lo, MaxRev)
      <4>1. CASE Nothing(revs)
        <5>1. MaxRev + 1 \in Nat /\ MaxRev + 1 <= MaxRev + 1
          BY <3>1
        <5>2. Spanned(revs, MaxRev + 1, MaxRev)
          BY <3>1, <4>1 DEF Nothing, Spanned
        <5> QED
          BY <5>1, <5>2
      <4>2. CASE ~ Nothing(revs)
        <5>1. PICK lo \in Rev : lo <= MaxRev /\ Spanned(revs, lo, MaxRev)
          BY <2>1, <2>3, <4>2 DEF TidyIn
        <5>2. lo \in Nat /\ lo <= MaxRev + 1
          BY <3>1, <5>1
        <5> QED
          BY <5>1, <5>2
      <4> QED
        BY <4>1, <4>2
    <3>3. \E l \in Nat : l <= cur'[w] + 1 /\ Spanned(revs', l, cur'[w])
      BY <2>1, <2>3, <3>2
    <3> QED
      BY <2>1, <2>3, <3>3 DEF HistAt, LooksOnly
  <2> QED
    BY <2>2, <2>3
<1>5. CASE Wipe(w)
  <2>1. /\ pc[w] = "wipe" /\ revs' = [revs EXCEPT ![cur[w]] = NoEntry]
        /\ revIndex = MaxRev /\ revIndex' = revIndex
        /\ IF LoopEnds(w) THEN pc'[w] = "putEntry"
                          ELSE pc'[w] = "wipe" /\ cur'[w] = cur[w] - 1
    BY <1>5, Facts DEF Wipe, Remove, OwnerInv, Wiping
  <2>2. PICK lo \in Nat : lo <= cur[w] + 1 /\ Spanned(revs, lo, cur[w])
    BY <2>1 DEF HistAt
  <2>3. PICK c \in Rev : c = cur[w]
    BY Facts
  <2>4. /\ LoopEnds(w) => Nothing(revs')
        /\ ~ LoopEnds(w) => lo <= (c - 1) + 1 /\ Spanned(revs', lo, c - 1)
    BY <2>1, <2>2, <2>3, WipedOne, Facts DEF LoopEnds
  <2>5. CASE LoopEnds(w)
    BY <2>1, <2>4, <2>5 DEF HistAt, LooksOnly
  <2>6. CASE ~ LoopEnds(w)
    <3>1. \E l \in Nat : l <= cur'[w] + 1 /\ Spanned(revs', l, cur'[w])
      BY <2>1, <2>3, <2>4, <2>6
    <3> QED
      BY <2>1, <2>6, <3>1 DEF HistAt, LooksOnly
  <2> QED
    BY <2>5, <2>6
<1>6. CASE PutEntry(w)
  <2>1. /\ pc[w] = "putEntry" /\ pc'[w] = "putIndex" /\ data[w] \in Data
        /\ revs' = [revs EXCEPT ![idx[w]] = data[w]] /\ idx' = idx
        /\ idx[w] = NextRev(revIndex)
    BY <1>6, Facts DEF PutEntry, OwnerInv, Putting, WriterRole
  <2>2. IF revIndex = MaxRev THEN Nothing(revs) ELSE TidyIn(revIndex, revs)
    BY <2>1 DEF HistAt
  <2>3. WrittenIn([revs EXCEPT ![NextRev(revIndex)] = data[w]], NextRev(revIndex))
    BY <2>1, <2>2, WrittenOne, Facts
  <2>4. WrittenIn(revs', idx'[w])
    BY <2>1, <2>3
  <2> QED
    BY <2>1, <2>4 DEF HistAt, LooksOnly
<1>7. CASE PutIndex(w)
  <2>1. pc[w] = "putIndex" /\ pc'[w] = "findOk" /\ UNCHANGED <<revs, idx>>
    BY <1>7 DEF PutIndex
  <2> QED
    BY <2>1 DEF HistAt, LooksOnly
<1>8. CASE FindOk(w)
  <2>1. /\ pc[w] = "findOk" /\ UNCHANGED <<revIndex, revs>> /\ revIndex = idx[w]
        /\ cur[w] <= idx[w] /\ WrittenIn(revs, idx[w]) /\ idx[w] # NoIndex
        /\ \A j \in Rev : cur[w] < j /\ j <= idx[w] => revs[j] \notin OkData
    BY <1>8, Facts, Order DEF FindOk, OwnerInv, Trimming, tree, HistAt
  <2>2. ASSUME NEW keep \in Rev, keep <= idx[w], TrimBelow(w, keep),
               \/ /\ revs[keep] \in OkData
                  /\ \A j \in Rev : keep < j /\ j <= idx[w] => revs[j] \notin OkData
               \/ keep = idx[w]
        PROVE  HistAt(w)'
    <3>1. /\ keep = 0 => TrimmedIn(idx[w], revs)
          /\ keep > 0 => TrimmingIn(revs, keep - 1, idx[w])
      BY <2>1, <2>2, KeptFrom, Facts
    <3>2. CASE keep = 0 /\ pc'[w] = "idle"
      BY <2>1, <3>1, <3>2, TrimmedTidy DEF HistAt, LooksOnly
    <3>3. CASE keep > 0 /\ pc'[w] = "trim" /\ cur'[w] = keep - 1 /\ idx' = idx
      BY <2>1, <3>1, <3>3 DEF HistAt, LooksOnly
    <3> QED
      BY <2>2, <3>2, <3>3 DEF TrimBelow
  <2>3. CASE revs[cur[w]] \in OkData /\ TrimBelow(w, cur[w])
    BY <2>1, <2>2, <2>3, Facts
  <2>4. CASE TrimBelow(w, idx[w])
    BY <2>2, <2>4, Facts, Order
  <2>5. CASE UNCHANGED <<pc, idx>>
    BY <2>1, <2>5 DEF HistAt, LooksOnly
  <2> QED
    BY <1>8, <2>3, <2>4, <2>5 DEF FindOk
<1>9. CASE Trim(w)
  <2>1. /\ pc[w] = "trim" /\ revs' = [revs EXCEPT ![cur[w]] = NoEntry]
        /\ revIndex = idx[w] /\ revIndex' = revIndex
        /\ IF LoopEnds(w) THEN pc'[w] = "idle"
                          ELSE pc'[w] = "trim" /\ cur'[w] = cur[w] - 1 /\ idx' = idx
    BY <1>9, Facts DEF Trim, Remove, OwnerInv, Trimming
  <2>2. PICK c \in Rev : c = cur[w]
    BY Facts
  <2>3. TrimmingIn(revs, c, idx[w])
    BY <2>1, <2>2 DEF HistAt
  <2>4. /\ LoopEnds(w) => TrimmedIn(idx[w], revs')
        /\ ~ LoopEnds(w) => TrimmingIn(revs', c - 1, idx[w])
    BY <2>1, <2>2, <2>3, TrimmedOne, Facts DEF LoopEnds
  <2>5. CASE LoopEnds(w)
    BY <2>1, <2>4, <2>5, TrimmedTidy DEF HistAt, LooksOnly
  <2>6. CASE ~ LoopEnds(w)
    BY <2>1, <2>2, <2>4, <2>6 DEF HistAt, LooksOnly
  <2> QED
    BY <2>5, <2>6
<1>10. CASE MaxIndex(w)
  <2>1. /\ pc[w] = "maxIndex" /\ op[w] = "removeAll" /\ op' = op
        /\ UNCHANGED <<revIndex, revs>> /\ TidyIn(revIndex, revs)
    BY <1>0, <1>10, Facts DEF MaxIndex, tree, WriterRole, LooksOnly
  <2>2. CASE revIndex = NoIndex
    <3>1. pc'[w] = "idle"
      BY <1>10, <2>2 DEF MaxIndex
    <3> QED
      BY <2>1, <3>1, HistLooks DEF LooksOnly
  <2>3. CASE revIndex # NoIndex
    <3>1. idx' = [idx EXCEPT ![w] = revIndex] /\ pc'[w] = "dropEntry" /\ cur'[w] = 0
      BY <1>10, <2>3 DEF MaxIndex
    <3>2. idx'[w] = revIndex
      BY <3>1 DEF TypeOK
    <3>3. \A j \in Rev : revs[j] # NoEntry => 0 <= j /\ j <= revIndex
      BY <2>1, <2>3, Order DEF TidyIn, Nothing, Spanned
    <3> QED
      BY <2>1, <3>1, <3>2, <3>3 DEF HistAt, LooksOnly
  <2> QED
    BY <2>2, <2>3
<1>11. CASE DropEntry(w)
  <2>1. /\ pc[w] = "dropEntry" /\ revs' = [revs EXCEPT ![cur[w]] = NoEntry]
        /\ idx' = idx /\ revIndex' = revIndex /\ revIndex = idx[w]
        /\ IF cur[w] = idx[w] THEN pc'[w] = "dropIndex"
                              ELSE pc'[w] = "dropEntry" /\ cur'[w] = cur[w] + 1
    BY <1>11, Facts DEF DropEntry, Remove, OwnerInv, Dropping
  <2>2. revs'[cur[w]] = NoEntry /\ \A j \in Rev : j # cur[w] => revs'[j] = revs[j]
    BY <2>1, Facts
  <2>3. cur[w] \in Nat /\ idx[w] \in Nat /\ \A j \in Rev : j \in Nat
    BY Facts, Order
  <2>4. \A j \in Rev : revs[j] # NoEntry => cur[w] <= j /\ j <= idx[w]
    BY <2>1 DEF HistAt
  <2>5. \A j \in Rev : revs'[j] # NoEntry => cur[w] + 1 <= j /\ j <= idx[w]
    BY <2>2, <2>3, <2>4
  <2>6. ASSUME cur[w] # idx[w] PROVE TidyIn(revIndex', revs')
    <3>1. TidyIn(revIndex, revs)
      BY <2>1 DEF HistAt
    <3>2. PICK c \in Rev : c = cur[w]
      BY Facts
    <3>3. PICK ix \in Rev : ix = idx[w]
      BY Facts
    <3> QED
      BY <2>1, <2>4, <2>6, <3>1, <3>2, <3>3, DroppedOne, Facts
  <2>7. CASE cur[w] = idx[w]
    <3>1. Nothing(revs')
      BY <2>3, <2>5, <2>7 DEF Nothing
    <3> QED
      BY <2>1, <2>7, <3>1 DEF HistAt, LooksOnly
  <2>8. CASE cur[w] # idx[w]
    BY <2>1, <2>5, <2>8, <2>6 DEF HistAt, LooksOnly
  <2> QED
    BY <2>7, <2>8
<1>12. CASE DropIndex(w)
  <2>1. /\ pc[w] = "dropIndex" /\ pc'[w] = "idle" /\ revs' = revs /\ revIndex' = NoIndex
        /\ op[w] = "removeAll" /\ op' = op
    BY <1>12, Facts DEF DropIndex, OwnerInv, Dropping, WriterRole
  <2>2. op[w] = "removeAll"
    BY <2>1
  <2>3. TidyIn(revIndex', revs')
    BY <2>1 DEF HistAt, TidyIn
  <2> QED
    BY <2>1, <2>3 DEF HistAt, LooksOnly
<1>13. CASE SledError(w)
  <2>1. LooksOnly(w) \/ pc[w] \in {"putEntry", "dropEntry", "dropIndex"}
    BY <1>13, SledStays DEF SweepsSucceed, LooksOnly
  <2>2. /\ UNCHANGED <<revIndex, revs>>
        /\ pc'[w] = "nextIndex" \/ (pc'[w] = "idle" /\ ret'[w] = "failed")
    BY <1>13, SledStays
  <2>3. TidyIn(revIndex, revs)
    BY <1>0, <2>1 DEF HistAt, TidyIn
  <2> QED
    BY <2>2, <2>3, HistLooks DEF LooksOnly
<1> QED
  BY <1>1, <1>2, <1>3, <1>4, <1>5, <1>6, <1>7, <1>8, <1>9, <1>10, <1>11, <1>12, <1>13
     DEF Step

LEMMA HistInvariant ==
  ASSUME SingleOwner, SweepsSucceed
  PROVE  Spec => []HistInv
<1>1. Init => HistInv
  <2> SUFFICES ASSUME Init, NEW w \in Writers PROVE HistAt(w)
    BY DEF HistInv
  <2>1. pc[w] = "idle" /\ ret[w] = "none" /\ revIndex = NoIndex /\ Nothing(revs)
    BY DEF Init, Proc, Nothing
  <2> QED
    BY <2>1 DEF HistAt, TidyIn
<1>2. TypeOK /\ DropBound /\ StoreInv /\ HistInv /\ [Next]_vars => HistInv'
  <2> SUFFICES ASSUME TypeOK, DropBound, StoreInv, HistInv, [Next]_vars, NEW w \in Writers
               PROVE  HistAt(w)'
    BY DEF HistInv
  <2>1. Before(w) /\ (\/ Step(w) \/ WriterCalls(w)
                      \/ UNCHANGED <<revIndex, revs>> /\ Undisturbed(w))
    BY OwnerOrOther DEF SweepsSucceed
  <2>2. CASE Step(w) \/ WriterCalls(w)
    BY <2>1, <2>2, HistStep DEF HistInv
  <2>3. CASE UNCHANGED <<revIndex, revs>> /\ Undisturbed(w)
    BY <2>3 DEF HistInv, HistAt, LooksOnly, Undisturbed
  <2> QED
    BY <2>1, <2>2, <2>3
<1> QED
  BY <1>1, <1>2, Typed, OwnerInvariant, PTL DEF Spec

LEMMA TrimmedKept ==
  ASSUME revIndex \in Rev, revs \in [Rev -> Data \cup {NoEntry}],
         TrimmedIn(revIndex, revs)
  PROVE  \/ \E i \in Rev : IsLastOk(revIndex, revs, i) /\ Kept = i..revIndex
         \/ LastOk = NoEntry /\ Kept = {revIndex}
<1>1. PICK keep \in Rev :
        /\ keep <= revIndex /\ Spanned(revs, keep, revIndex)
        /\ Errors(revs, keep, revIndex + 1)
        /\ revs[keep] \in OkData \/ keep = revIndex
  BY DEF TrimmedIn
<1>2. /\ revIndex \in Nat /\ keep \in Nat /\ revIndex # NoIndex
      /\ \A j \in Rev : j \in Nat
      /\ \A j \in Nat : j <= revIndex => j \in Rev
  BY <1>1, Order
<1>3. Kept = keep..revIndex
  <2>1. \A j : j \in Kept <=> j \in Rev /\ keep <= j /\ j <= revIndex
    BY <1>1 DEF Kept, Spanned
  <2>2. \A j : j \in keep..revIndex <=> j \in Nat /\ keep <= j /\ j <= revIndex
    BY <1>2
  <2>3. \A j : j \in Kept <=> j \in keep..revIndex
    BY <1>2, <2>1, <2>2
  <2> QED
    BY <2>3
<1>4. CASE revs[keep] \in OkData
  <2>1. IsLastOk(revIndex, revs, keep)
    BY <1>1, <1>2, <1>4 DEF IsLastOk, Errors
  <2> QED
    BY <1>3, <2>1
<1>5. CASE revs[keep] \notin OkData
  <2>1. keep = revIndex
    BY <1>1, <1>5
  <2>2. ASSUME NEW i \in Rev, IsLastOk(revIndex, revs, i) PROVE FALSE
    <3>1. revs[i] \in OkData /\ revs[i] # NoEntry
      BY <2>2, DataAssumption DEF IsLastOk, Data
    <3>2. keep <= i /\ i <= revIndex
      BY <1>1, <3>1 DEF Spanned
    <3> QED
      BY <1>2, <1>5, <2>1, <3>1, <3>2
  <2>3. LastOk = NoEntry
    BY <2>2, NoLastOk DEF LastOk
  <2>4. keep..revIndex = {revIndex}
    BY <1>2, <2>1
  <2> QED
    BY <1>3, <2>3, <2>4
<1> QED
  BY <1>4, <1>5

(* After a successful insert of the only writer the tree keeps the last
   success and the errors after it, or the latest error alone: whatever the
   number of revisions, the history does not grow beyond what a reader may
   need.  Earlier calls may have failed, before they wrote anything, at the
   write of the entry, or while remove_all removed: what they left is
   trimmed with the rest. *)
THEOREM TrimsHistory ==
  ASSUME SingleOwner, SweepsSucceed
  PROVE  Spec => []HistoryTrimmed
<1>1. TypeOK /\ HistInv => HistoryTrimmed
  <2> SUFFICES ASSUME TypeOK, HistInv, NEW w \in Writers,
                      pc[w] = "idle" /\ ret[w] = "done" /\ op[w] \in {"insert", "insertIfNew"}
               PROVE  \/ \E i \in Rev : IsLastOk(revIndex, revs, i) /\ Kept = i..revIndex
                      \/ LastOk = NoEntry /\ Kept = {revIndex}
    BY DEF HistoryTrimmed
  <2>1. TrimmedIn(revIndex, revs)
    BY DEF HistInv, HistAt
  <2>2. revIndex \in Rev /\ revs \in [Rev -> Data \cup {NoEntry}]
    BY <2>1 DEF TypeOK, TrimmedIn
  <2> QED
    BY <2>1, <2>2, TrimmedKept
<1> QED
  BY <1>1, HistInvariant, Typed, PTL

-----------------------------------------------------------------------------

(***************************************************************************)
(* The entry of the index.                                                 *)
(***************************************************************************)

(* remove_all removes the entry of the index last. *)
WholeAt(w) ==
  (LooksOnly(w) \/ pc[w] = "dropEntry") /\ revIndex # NoIndex =>
    revs[revIndex] # NoEntry

WholeInv == \A w \in Writers : WholeAt(w)

(* A successful insert leaves the entry of its index. *)
LEMMA WholeInserted ==
  ASSUME NEW w, HistAt(w)', pc'[w] = "idle", ret'[w] = "done",
         op'[w] \in {"insert", "insertIfNew"}, revIndex' \in Rev
  PROVE  WholeAt(w)'
<1>1. TrimmedIn(revIndex', revs')
  BY DEF HistAt
<1>2. revIndex' <= revIndex'
  BY Order
<1>3. revs'[revIndex'] # NoEntry
  BY <1>1, <1>2 DEF TrimmedIn, Spanned
<1> QED
  BY <1>3 DEF WholeAt

LEMMA WholeStep ==
  ASSUME NEW w, Before(w), WritesSucceed, WholeAt(w), HistAt(w)',
         Step(w) \/ WriterCalls(w)
  PROVE  WholeAt(w)'
<1> USE GotoThread, AtThread, ReturnThread DEF Before
<1>0. ASSUME UNCHANGED <<revIndex, revs>>, LooksOnly(w) \/ pc[w] = "dropEntry"
      PROVE  WholeAt(w)'
  BY <1>0 DEF WholeAt
<1>1. CASE WriterCalls(w)
  <2>1. PICK o, d, step : Call(w, o, d, step)
    BY <1>1 DEF WriterCalls, Insert, InsertIfNotExists, RemoveAll
  <2>2. pc[w] = "idle" /\ UNCHANGED <<revIndex, revs>>
    BY <2>1, CallThread
  <2> QED
    BY <1>0, <2>2 DEF LooksOnly
<1>2. CASE GetIndex(w) \/ GetEntry(w) \/ NextIndex(w) \/ MaxIndex(w)
  <2>1. LooksOnly(w) /\ UNCHANGED <<revIndex, revs>>
    BY <1>2 DEF GetIndex, GetEntry, NextIndex, MaxIndex, tree, LooksOnly
  <2> QED
    BY <1>0, <2>1
<1>3. CASE Wipe(w) \/ PutEntry(w) \/ PutIndex(w)
  <2>1. pc'[w] \in {"wipe", "putEntry", "putIndex", "findOk"}
    BY <1>3 DEF Wipe, PutEntry, PutIndex
  <2> QED
    BY <2>1 DEF WholeAt, LooksOnly
<1>4. CASE FindOk(w) \/ Trim(w)
  <2>1. /\ pc[w] \in {"findOk", "trim"}
        /\ revIndex \in Rev /\ revIndex' = revIndex /\ op' = op
        /\ op[w] \in {"insert", "insertIfNew"}
    BY <1>4, Facts DEF FindOk, Trim, Remove, tree, OwnerInv, Trimming, WriterRole
  <2>2. \A keep : TrimBelow(w, keep) => pc'[w] = "trim" \/ (pc'[w] = "idle" /\ ret'[w] = "done")
    BY DEF TrimBelow
  <2>3. \/ pc'[w] \in {"findOk", "trim"}
        \/ pc'[w] = "idle" /\ ret'[w] = "done"
    BY <1>4, <2>1, <2>2 DEF FindOk, Trim
  <2>4. CASE pc'[w] \in {"findOk", "trim"}
    BY <2>4 DEF WholeAt, LooksOnly
  <2>5. CASE pc'[w] = "idle" /\ ret'[w] = "done"
    BY <2>1, <2>5, WholeInserted
  <2> QED
    BY <2>3, <2>4, <2>5
<1>5. CASE DropEntry(w)
  <2>1. /\ pc[w] = "dropEntry" /\ revs' = [revs EXCEPT ![cur[w]] = NoEntry]
        /\ revIndex = idx[w] /\ revIndex' = revIndex
        /\ pc'[w] = "dropIndex" \/ cur[w] # idx[w]
    BY <1>5, Facts DEF DropEntry, Remove, OwnerInv, Dropping
  <2>2. CASE pc'[w] = "dropIndex"
    BY <2>2 DEF WholeAt, LooksOnly
  <2>3. CASE cur[w] # idx[w]
    <3>1. revs'[idx[w]] = revs[idx[w]]
      BY <2>1, <2>3, Facts
    <3> QED
      BY <2>1, <3>1 DEF WholeAt
  <2> QED
    BY <2>1, <2>2, <2>3
<1>6. CASE DropIndex(w)
  BY <1>6 DEF DropIndex, WholeAt
<1>7. CASE SledError(w)
  <2>1. UNCHANGED <<revIndex, revs>> /\ (LooksOnly(w) \/ pc[w] = "dropEntry")
    BY <1>7, SledStays DEF WritesSucceed, SweepsSucceed, LooksOnly
  <2> QED
    BY <1>0, <2>1
<1> QED
  BY <1>1, <1>2, <1>3, <1>4, <1>5, <1>6, <1>7 DEF Step

LEMMA WholeInvariant ==
  ASSUME SingleOwner, WritesSucceed
  PROVE  Spec => []WholeInv
<1>1. Init => WholeInv
  BY DEF Init, WholeInv, WholeAt
<1>2. TypeOK /\ DropBound /\ StoreInv /\ HistInv' /\ WholeInv /\ [Next]_vars => WholeInv'
  <2> SUFFICES ASSUME TypeOK, DropBound, StoreInv, HistInv', WholeInv, [Next]_vars,
                      NEW w \in Writers
               PROVE  WholeAt(w)'
    BY DEF WholeInv
  <2>1. Before(w) /\ (\/ Step(w) \/ WriterCalls(w)
                      \/ UNCHANGED <<revIndex, revs>> /\ Undisturbed(w))
    BY OwnerOrOther DEF WritesSucceed, SweepsSucceed
  <2>2. CASE Step(w) \/ WriterCalls(w)
    BY <2>1, <2>2, WholeStep DEF WholeInv, HistInv
  <2>3. CASE UNCHANGED <<revIndex, revs>> /\ Undisturbed(w)
    BY <2>3 DEF WholeInv, WholeAt, LooksOnly, Undisturbed
  <2> QED
    BY <2>1, <2>2, <2>3
<1>3. Spec => []HistInv
  BY HistInvariant DEF WritesSucceed
<1> QED
  BY <1>1, <1>2, <1>3, Typed, OwnerInvariant, PTL DEF Spec

(* Between the calls of the only writer the index names a revision that is
   there, and without an index nothing is, whether the calls succeeded or
   failed at an operation that looks, or at the removal of an entry by
   remove_all. *)
THEOREM IndexedExists ==
  ASSUME SingleOwner, WritesSucceed
  PROVE  Spec => []IndexedEntryExists
<1>1. TypeOK /\ HistInv /\ WholeInv => IndexedEntryExists
  <2> SUFFICES ASSUME TypeOK, HistInv, WholeInv, \A w \in Writers : pc[w] = "idle"
               PROVE  IF revIndex = NoIndex THEN Kept = {} ELSE revIndex \in Kept
    BY DEF IndexedEntryExists
  <2>1. TidyIn(revIndex, revs)
    BY DEF SingleOwner, HistInv, HistAt, LooksOnly
  <2>2. CASE revIndex = NoIndex
    BY <2>1, <2>2 DEF TidyIn, Nothing, Kept
  <2>3. CASE revIndex # NoIndex
    <3>1. revIndex \in Rev
      BY <2>3 DEF TypeOK
    <3>2. revs[revIndex] # NoEntry
      BY <2>3 DEF SingleOwner, WholeInv, WholeAt, LooksOnly
    <3> QED
      BY <2>3, <3>1, <3>2 DEF Kept
  <2> QED
    BY <2>2, <2>3
<1>2. Spec => []HistInv
  BY HistInvariant DEF WritesSucceed
<1> QED
  BY <1>1, <1>2, WholeInvariant, Typed, PTL

=============================================================================
