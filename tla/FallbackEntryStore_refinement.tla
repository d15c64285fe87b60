-------------------- MODULE FallbackEntryStore_refinement --------------------
(***************************************************************************)
(* A key with a single writer is an EntryRegister, for every number of     *)
(* readers, every set of payloads and every greatest revision, if sled     *)
(* operations fail anywhere but in the scan of the clean-up and the        *)
(* process is killed at any step.                                          *)
(***************************************************************************)
EXTENDS FallbackEntryStore_proofs

SingleOwner ==
  /\ \E w \in Writers : Writers = {w}
  /\ "findOk" \notin FailingCalls

-----------------------------------------------------------------------------

(***************************************************************************)
(* The inductive invariant.                                                *)
(***************************************************************************)

(* Only writers write, and only insert_if_not_exists reads for them. *)
ReaderRole(r) ==
  /\ pc[r] \in {"idle", "listKey", "getIndex", "getEntry"}
  /\ op[r] # "insertIfNew"

WriterRole(w) ==
  /\ pc[w] # "listKey"
  /\ pc[w] \in {"getIndex", "getEntry"} => op[w] = "insertIfNew"
  /\ pc[w] \in {"getIndex", "getEntry", "nextIndex", "wipe", "putEntry",
                "putIndex", "findOk", "trim"}
       => op[w] \in {"insert", "insertIfNew"} /\ data[w] \in Data
  /\ pc[w] \in {"maxIndex", "dropEntry", "dropIndex"} => op[w] = "removeAll"

(* The wipe leaves nothing behind it, and in particular nothing at the
   index that is still there. *)
Wiping(w) ==
  pc[w] = "wipe" =>
    /\ revIndex = MaxRev /\ idx[w] = 0
    /\ \A j \in Rev : cur[w] < j => revs[j] = NoEntry

(* The revision that is written is the next one: it is not visible before
   its index is written, and writing it disturbs no visible one. *)
Putting(w) ==
  /\ pc[w] \in {"putEntry", "putIndex"} =>
       /\ idx[w] = NextRev(revIndex)
       /\ revIndex = MaxRev => revs[MaxRev] = NoEntry
  /\ pc[w] = "putIndex" => revs[idx[w]] = data[w]

(* The clean-up stays below the last success. *)
Trimming(w) ==
  /\ pc[w] \in {"findOk", "trim"} => revIndex = idx[w] /\ revs[idx[w]] = data[w]
  /\ pc[w] = "findOk" =>
       /\ cur[w] <= idx[w]
       /\ \A j \in Rev : cur[w] < j /\ j <= idx[w] => revs[j] \notin OkData
  /\ pc[w] = "trim" =>
       /\ cur[w] < idx[w]
       /\ \A j \in Rev : j <= cur[w] => ~ IsLastOk(revIndex, revs, j)

(* remove_all takes the index away when its entry is gone. *)
Dropping(w) ==
  /\ pc[w] = "dropEntry" => revIndex = idx[w]
  /\ pc[w] = "dropIndex" => revIndex = idx[w] /\ revs[idx[w]] = NoEntry

OwnerInv(w) == Wiping(w) /\ Putting(w) /\ Trimming(w) /\ Dropping(w)

(* What SettledWrite says of one writer. *)
Settled(w) ==
  pc[w] = "idle" /\ ret[w] = "done" =>
    IF op[w] = "removeAll"
    THEN revIndex = NoIndex
    ELSE Latest = data[w] /\ (data[w] \in OkData => LastOk = data[w])

WriterInv(w) == WriterRole(w) /\ OwnerInv(w) /\ Settled(w)

StoreInv ==
  /\ \A r \in Readers : ReaderRole(r)
  /\ \A w \in Writers : WriterInv(w)

-----------------------------------------------------------------------------

(***************************************************************************)
(* The last success.                                                       *)
(***************************************************************************)

(* There is at most one last success, and LastOkIn is its payload. *)
LEMMA LastOkIs ==
  ASSUME NEW ix \in Rev \cup {NoIndex}, NEW rv, NEW i \in Rev, IsLastOk(ix, rv, i)
  PROVE  LastOkIn(ix, rv) = rv[i]
<1> DEFINE k == CHOOSE j \in Rev : IsLastOk(ix, rv, j)
<1>1. k \in Rev /\ IsLastOk(ix, rv, k)
  OBVIOUS
<1>2. k = i
  <2>1. ix \in Nat /\ i \in Nat /\ k \in Nat /\ i <= ix /\ k <= ix
    BY <1>1, RevAssumption DEF IsLastOk, Rev
  <2>2. ~ i < k /\ ~ k < i
    BY <1>1, <2>1, DataAssumption DEF IsLastOk
  <2> QED
    BY <2>1, <2>2
<1> QED
  BY <1>2 DEF LastOkIn

LEMMA NoLastOk ==
  ASSUME NEW ix, NEW rv, \A i \in Rev : ~ IsLastOk(ix, rv, i)
  PROVE  LastOkIn(ix, rv) = NoEntry
BY DEF LastOkIn

(* A success at the index is the last one. *)
LEMMA LastOkAtIndex ==
  ASSUME NEW ix \in Rev, NEW rv, rv[ix] \in OkData
  PROVE  LastOkIn(ix, rv) = rv[ix]
<1>1. IsLastOk(ix, rv, ix)
  BY RevAssumption DEF IsLastOk, Rev
<1> QED
  BY <1>1, LastOkIs

(* Removing a revision other than the one at the index, none of whose lower
   ones is the last success, leaves the last success where it is. *)
LEMMA RemovedBelow ==
  ASSUME NEW ix \in Rev, NEW rv \in [Rev -> Data \cup {NoEntry}],
         NEW c \in Rev, c < ix,
         \A j \in Rev : j <= c => ~ IsLastOk(ix, rv, j)
  PROVE  /\ LastOkIn(ix, [rv EXCEPT ![c] = NoEntry]) = LastOkIn(ix, rv)
         /\ \A j \in Rev : j <= c => ~ IsLastOk(ix, [rv EXCEPT ![c] = NoEntry], j)
<1> DEFINE rw == [rv EXCEPT ![c] = NoEntry]
<1>1. rw[c] = NoEntry /\ \A j \in Rev : j # c => rw[j] = rv[j]
  OBVIOUS
<1>2. NoEntry \notin OkData /\ NoEntry \notin ErrData
  BY DataAssumption DEF Data
<1>3. \A j \in Rev : j <= c => ~ IsLastOk(ix, rw, j)
  <2> SUFFICES ASSUME NEW j \in Rev, j <= c, IsLastOk(ix, rw, j) PROVE FALSE
    OBVIOUS
  <2>1. c \in Nat /\ j \in Nat /\ ix \in Nat
    BY RevAssumption DEF Rev
  <2>2. j # c
    BY <1>1, <1>2 DEF IsLastOk
  <2>3. rw[c] \in ErrData
    BY <2>1, <2>2 DEF IsLastOk
  <2> QED
    BY <1>1, <1>2, <2>3
<1>4. \A j \in Rev : c < j => (IsLastOk(ix, rw, j) <=> IsLastOk(ix, rv, j))
  <2> SUFFICES ASSUME NEW j \in Rev, c < j
               PROVE  IsLastOk(ix, rw, j) <=> IsLastOk(ix, rv, j)
    OBVIOUS
  <2>1. \A k \in Rev : j <= k => rw[k] = rv[k]
    BY <1>1, RevAssumption DEF Rev
  <2> QED
    BY <2>1, RevAssumption DEF IsLastOk, Rev
<1>5. \A j \in Rev : j <= c \/ c < j
  BY RevAssumption DEF Rev
<1>6. \A i \in Rev : IsLastOk(ix, rv, i) => IsLastOk(ix, rw, i) /\ rv[i] = rw[i]
  <2> SUFFICES ASSUME NEW i \in Rev, IsLastOk(ix, rv, i)
               PROVE  IsLastOk(ix, rw, i) /\ rv[i] = rw[i]
    OBVIOUS
  <2>1. c < i
    BY <1>5
  <2>2. i # c
    BY <2>1, RevAssumption DEF Rev
  <2> HIDE DEF rw
  <2> QED
    BY <1>1, <1>4, <2>1, <2>2
<1>7. \A i \in Rev : IsLastOk(ix, rw, i) => IsLastOk(ix, rv, i)
  BY <1>3, <1>4, <1>5
<1> HIDE DEF rw
<1>8. LastOkIn(ix, rv) = LastOkIn(ix, rw)
  <2>1. ix \in Rev \cup {NoIndex}
    OBVIOUS
  <2>2. CASE \E i \in Rev : IsLastOk(ix, rv, i)
    BY <2>1, <2>2, <1>6, LastOkIs
  <2>3. CASE \A i \in Rev : ~ IsLastOk(ix, rv, i)
    BY <2>3, <1>7, NoLastOk
  <2> QED
    BY <2>2, <2>3
<1> QED
  BY <1>3, <1>8 DEF rw

-----------------------------------------------------------------------------

(***************************************************************************)
(* The steps, seen by the EntryRegister.                                   *)
(***************************************************************************)

Simulated == [Register!Next]_(Register!rvars)

LEMMA ClearingOwner ==
  ASSUME SingleOwner, NEW w \in Writers
  PROVE  /\ Clearing <=> pc[w] \in {"wipe", "dropEntry", "dropIndex"}
         /\ Clearing' <=> pc'[w] \in {"wipe", "dropEntry", "dropIndex"}
BY DEF SingleOwner, Clearing

(* A step that changes neither the tree nor whether it is being cleared. *)
LEMMA Stutter ==
  ASSUME UNCHANGED <<revIndex, revs, disk>>, Clearing' <=> Clearing
  PROVE  Simulated
<1>1. Clearing' = Clearing
  BY DEF Clearing
<1> QED
  BY <1>1 DEF Simulated, Register!rvars, Latest, LastOk

(* A step that changes the tree in a way that no reader of the key sees. *)
LEMMA Invisible ==
  ASSUME UNCHANGED disk, Latest' = Latest, LastOk' = LastOk, Clearing' <=> Clearing
  PROVE  Simulated
<1>1. Clearing' = Clearing
  BY DEF Clearing
<1> QED
  BY <1>1 DEF Simulated, Register!rvars

LEMMA Begins ==
  ASSUME UNCHANGED <<revIndex, revs, disk>>, ~ Clearing, Clearing'
  PROVE  Simulated
<1>1. Register!BeginClear
  <2>1. Clearing' = TRUE
    BY DEF Clearing
  <2> QED
    BY <2>1 DEF Register!BeginClear, Latest, LastOk
<1> QED
  BY <1>1 DEF Simulated, Register!Next

LEMMA Forgets ==
  ASSUME UNCHANGED disk, Clearing, Clearing',
         Latest' \in {Latest, NoEntry}, LastOk' \in {LastOk, NoEntry}
  PROVE  Simulated
<1>1. Register!Forget
  <2>1. Clearing' = Clearing
    BY DEF Clearing
  <2> QED
    BY <2>1 DEF Register!Forget
<1> QED
  BY <1>1 DEF Simulated, Register!Next

LEMMA Ends ==
  ASSUME UNCHANGED disk, Clearing, ~ Clearing', Latest' = Latest, LastOk' = LastOk
  PROVE  Simulated
<1>1. Register!EndClear
  <2>1. Clearing' = FALSE
    BY DEF Clearing
  <2> QED
    BY <2>1 DEF Register!EndClear
<1> QED
  BY <1>1 DEF Simulated, Register!Next

LEMMA Puts ==
  ASSUME UNCHANGED disk, ~ Clearing, ~ Clearing', NEW d \in Data,
         Latest' = d, LastOk' = IF d \in OkData THEN d ELSE LastOk
  PROVE  Simulated
<1>1. Register!Put(d)
  <2>1. Clearing' = Clearing
    BY DEF Clearing
  <2> QED
    BY <2>1 DEF Register!Put
<1> QED
  BY <1>1 DEF Simulated, Register!Next, Register!Data, Data

-----------------------------------------------------------------------------

(***************************************************************************)
(* The steps of the owner, one by one: each keeps its invariant and is     *)
(* simulated.                                                              *)
(***************************************************************************)

(* What a step of the owner has to do, and the facts it may use. *)
Correct(w) == WriterInv(w)' /\ Simulated

Before(w) ==
  /\ SingleOwner /\ w \in Writers /\ w \in Proc
  /\ TypeOK /\ DropBound /\ WriterInv(w)

LEMMA Facts ==
  ASSUME NEW w, Before(w)
  PROVE  /\ revIndex \in Rev \cup {NoIndex}
         /\ revs \in [Rev -> Data \cup {NoEntry}]
         /\ idx[w] \in Rev /\ cur[w] \in Rev /\ data[w] \in Data \cup {NoEntry}
         /\ revs[cur[w]] \in Data \cup {NoEntry}
         /\ OwnerInv(w) /\ Settled(w) /\ WriterRole(w)
         /\ Clearing <=> pc[w] \in {"wipe", "dropEntry", "dropIndex"}
         /\ Clearing' <=> pc'[w] \in {"wipe", "dropEntry", "dropIndex"}
BY ClearingOwner DEF Before, TypeOK, WriterInv

LEMMA Order ==
  /\ Rev \subseteq Nat /\ 0 \in Rev /\ MaxRev \in Rev /\ NoIndex \notin Rev
  /\ \A i \in Rev : i <= MaxRev
  /\ MaxRev > 0
  /\ \A i \in Rev, j \in Nat : j <= i => j \in Rev
BY RevAssumption DEF Rev

(* Calls. *)
LEMMA CallCorrect ==
  ASSUME NEW w, Before(w), WriterCalls(w)
  PROVE  Correct(w)
<1>1. \E d \in Data \cup {NoEntry} :
        \/ Call(w, "insert", d, "nextIndex") /\ d \in Data
        \/ Call(w, "insertIfNew", d, "getIndex") /\ d \in Data
        \/ Call(w, "removeAll", d, "maxIndex")
  BY DEF WriterCalls, Insert, InsertIfNotExists, RemoveAll
<1>2. PICK o, d, step :
        /\ Call(w, o, d, step)
        /\ \/ o = "insert" /\ step = "nextIndex" /\ d \in Data
           \/ o = "insertIfNew" /\ step = "getIndex" /\ d \in Data
           \/ o = "removeAll" /\ step = "maxIndex"
  BY <1>1
<1>3. /\ pc[w] = "idle" /\ pc'[w] = step /\ op'[w] = o /\ data'[w] = d
      /\ ret'[w] = "none" /\ UNCHANGED <<revIndex, revs, disk, idx, cur>>
  BY <1>2, CallThread DEF Before
<1>4. Simulated
  BY <1>2, <1>3, Facts, Stutter
<1>5. WriterInv(w)'
  BY <1>2, <1>3 DEF WriterInv, WriterRole, OwnerInv, Settled, Wiping, Putting,
     Trimming, Dropping
<1> QED
  BY <1>4, <1>5 DEF Correct

(* Steps that look but do not write. *)
LEMMA GetIndexCorrect ==
  ASSUME NEW w, Before(w), GetIndex(w)
  PROVE  Correct(w)
<1>1. /\ pc[w] = "getIndex" /\ pc'[w] = "getEntry"
      /\ UNCHANGED <<revIndex, revs, disk, op, data, idx, ret>>
  BY GotoThread DEF GetIndex, Before, tree
<1>2. Simulated
  BY <1>1, Facts, Stutter
<1>3. WriterInv(w)'
  BY <1>1, Facts DEF WriterInv, WriterRole, OwnerInv, Settled, Wiping, Putting,
     Trimming, Dropping
<1> QED
  BY <1>2, <1>3 DEF Correct

LEMMA GetEntryCorrect ==
  ASSUME NEW w, Before(w), GetEntry(w)
  PROVE  Correct(w)
<1>1. /\ pc[w] = "getEntry" /\ op[w] = "insertIfNew" /\ data[w] \in Data
      /\ UNCHANGED <<revIndex, revs, disk, op>>
  BY Facts DEF GetEntry, WriterRole, tree
<1>2. ASSUME NEW e, Answer(w, e)
      PROVE  /\ UNCHANGED data
             /\ \/ pc'[w] = "idle" /\ ret'[w] = "same"
                \/ pc'[w] = "nextIndex" /\ UNCHANGED <<idx, cur, ret>>
  BY <1>1, <1>2, GotoThread, ReturnThread DEF Answer, Before
<1>3. /\ UNCHANGED data
      /\ \/ pc'[w] = "idle" /\ ret'[w] = "same"
         \/ pc'[w] = "nextIndex"
         \/ pc'[w] = "getEntry"
  BY <1>1, <1>2 DEF GetEntry
<1>4. Simulated
  BY <1>1, <1>3, Facts, Stutter
<1>5. WriterInv(w)'
  BY <1>1, <1>3 DEF WriterInv, WriterRole, OwnerInv, Settled, Wiping, Putting,
     Trimming, Dropping
<1> QED
  BY <1>4, <1>5 DEF Correct

LEMMA NextIndexCorrect ==
  ASSUME NEW w, Before(w), NextIndex(w)
  PROVE  Correct(w)
<1>1. /\ pc[w] = "nextIndex" /\ idx'[w] = NextRev(revIndex)
      /\ UNCHANGED <<revIndex, revs, disk, op, data, ret>>
  BY DEF NextIndex, Before, TypeOK, tree
<1>2. CASE revIndex = MaxRev
  <2>1. pc'[w] = "wipe" /\ cur'[w] = MaxRev /\ idx'[w] = 0
    BY <1>1, <1>2, GotoThread, AtThread DEF NextIndex, Before, NextRev
  <2>2. Simulated
    BY <1>1, <2>1, Facts, Begins
  <2>3. WriterInv(w)'
    <3>1. \A j \in Rev : ~ MaxRev < j
      BY RevAssumption DEF Rev
    <3> QED
      BY <1>1, <1>2, <2>1, <3>1, Facts DEF WriterInv, WriterRole, OwnerInv,
         Settled, Wiping, Putting, Trimming, Dropping
  <2> QED
    BY <2>2, <2>3 DEF Correct
<1>3. CASE revIndex # MaxRev
  <2>1. pc'[w] = "putEntry"
    BY <1>1, <1>3, GotoThread DEF NextIndex, Before
  <2>2. Simulated
    BY <1>1, <2>1, Facts, Stutter
  <2>3. WriterInv(w)'
    BY <1>1, <1>3, <2>1, Facts DEF WriterInv, WriterRole, OwnerInv, Settled,
       Wiping, Putting, Trimming, Dropping
  <2> QED
    BY <2>2, <2>3 DEF Correct
<1> QED
  BY <1>2, <1>3

(* Removing revisions. *)
LEMMA WipeCorrect ==
  ASSUME NEW w, Before(w), Wipe(w)
  PROVE  Correct(w)
<1>1. /\ pc[w] = "wipe" /\ revs' = [revs EXCEPT ![cur[w]] = NoEntry]
      /\ UNCHANGED <<revIndex, disk, op, data, idx, ret>>
      /\ revIndex = MaxRev /\ idx[w] = 0
      /\ \A j \in Rev : cur[w] < j => revs[j] = NoEntry
  BY Facts DEF Wipe, Remove, OwnerInv, Wiping
<1>2. revs'[cur[w]] = NoEntry /\ \A j \in Rev : j # cur[w] => revs'[j] = revs[j]
  BY <1>1, Facts
<1>3. /\ cur[w] \in Nat /\ MaxRev \in Nat /\ cur[w] <= MaxRev /\ MaxRev \in Rev
      /\ MaxRev # NoIndex /\ MaxRev > 0
  BY Facts, Order
<1>4. Latest' \in {Latest, NoEntry}
  BY <1>1, <1>2, <1>3, Order DEF Latest, LatestIn
<1>5. LastOk' \in {LastOk, NoEntry}
  <2>1. CASE cur[w] = MaxRev
    <3>1. ASSUME NEW i \in Rev PROVE ~ IsLastOk(revIndex', revs', i)
      <4>1. revs'[MaxRev] \notin OkData /\ revs'[MaxRev] \notin ErrData
        BY <1>2, <2>1, DataAssumption DEF Data
      <4>2. i \in Nat /\ i <= MaxRev
        BY Order
      <4> QED
        BY <1>1, <1>3, <4>1, <4>2 DEF IsLastOk
    <3> QED
      BY <3>1, NoLastOk DEF LastOk
  <2>2. CASE cur[w] < MaxRev
    <3>1. revs[MaxRev] = NoEntry /\ revs'[MaxRev] = NoEntry
      BY <1>1, <1>2, <1>3, <2>2
    <3>2. NoEntry \notin OkData /\ NoEntry \notin ErrData
      BY DataAssumption DEF Data
    <3>3. ASSUME NEW i \in Rev PROVE ~ IsLastOk(revIndex', revs', i)
      <4>1. i \in Nat /\ i <= MaxRev
        BY Order
      <4> QED
        BY <1>1, <1>3, <3>1, <3>2, <4>1 DEF IsLastOk
    <3> QED
      BY <3>3, NoLastOk DEF LastOk
  <2> QED
    BY <1>3, <2>1, <2>2
<1>6. CASE LoopEnds(w)
  <2>1. pc'[w] = "putEntry"
    BY <1>6, GotoThread DEF Wipe, Before
  <2>2. cur[w] # MaxRev => revs[MaxRev] = NoEntry /\ revs'[MaxRev] = NoEntry
    BY <1>1, <1>2, <1>3
  <2>3. revs[MaxRev] = NoEntry /\ revs'[MaxRev] = NoEntry
    BY <1>2, <1>3, <1>6, <2>2 DEF LoopEnds
  <2>4. Latest' = Latest /\ LastOk' = LastOk
    <3>1. NoEntry \notin OkData /\ NoEntry \notin ErrData
      BY DataAssumption DEF Data
    <3>2. ASSUME NEW i \in Rev
          PROVE  ~ IsLastOk(revIndex', revs', i) /\ ~ IsLastOk(revIndex, revs, i)
      <4>1. i \in Nat /\ i <= MaxRev
        BY Order
      <4> QED
        BY <1>1, <1>3, <2>3, <3>1, <4>1 DEF IsLastOk
    <3>3. LastOk' = NoEntry /\ LastOk = NoEntry
      BY <3>2, NoLastOk DEF LastOk
    <3> QED
      BY <1>1, <1>3, <2>3, <3>3 DEF Latest, LatestIn
  <2>5. Simulated
    BY <1>1, <2>1, <2>4, Facts, Ends
  <2>6. WriterInv(w)'
    BY <1>1, <1>3, <2>1, <2>3, Facts DEF WriterInv, WriterRole, OwnerInv, Settled,
       Wiping, Putting, Trimming, Dropping, NextRev
  <2> QED
    BY <2>5, <2>6 DEF Correct
<1>7. CASE ~ LoopEnds(w)
  <2>1. pc'[w] = "wipe" /\ cur'[w] = cur[w] - 1 /\ cur[w] # 0
    BY <1>1, <1>7, AtThread DEF Wipe, LoopEnds, Before
  <2>2. Simulated
    BY <1>1, <1>4, <1>5, <2>1, Facts, Forgets
  <2>3. \A j \in Rev : cur'[w] < j => revs'[j] = NoEntry
    <3> SUFFICES ASSUME NEW j \in Rev, cur[w] - 1 < j PROVE revs'[j] = NoEntry
      BY <2>1
    <3>1. j \in Nat
      BY Order
    <3>2. CASE j = cur[w]
      BY <1>2, <3>2
    <3>3. CASE cur[w] < j
      BY <1>1, <1>2, <1>3, <3>1, <3>3
    <3> QED
      BY <1>3, <3>1, <3>2, <3>3
  <2>4. WriterInv(w)'
    BY <1>1, <2>1, <2>3, Facts DEF WriterInv, WriterRole, OwnerInv, Settled,
       Wiping, Putting, Trimming, Dropping
  <2> QED
    BY <2>2, <2>4 DEF Correct
<1> QED
  BY <1>6, <1>7

(* Writing an entry, and then its index. *)
LEMMA PutEntryCorrect ==
  ASSUME NEW w, Before(w), PutEntry(w)
  PROVE  Correct(w)
<1>1. /\ pc[w] = "putEntry" /\ pc'[w] = "putIndex"
      /\ revs' = [revs EXCEPT ![idx[w]] = data[w]]
      /\ UNCHANGED <<revIndex, disk, op, data, idx, cur, ret>>
      /\ idx[w] = NextRev(revIndex) /\ idx[w] \in Rev
      /\ revIndex = MaxRev => revs[MaxRev] = NoEntry
  BY Facts, GotoThread DEF PutEntry, OwnerInv, Putting, Before
<1>2. revs'[idx[w]] = data[w] /\ \A j \in Rev : j # idx[w] => revs'[j] = revs[j]
  BY <1>1, Facts
<1>3. revIndex = MaxRev => revs'[MaxRev] = NoEntry
  BY <1>1, <1>2, Order DEF NextRev
<1>4. Latest' = Latest /\ LastOk' = LastOk
  <2>1. CASE revIndex = NoIndex
    <3>1. ASSUME NEW i \in Rev
          PROVE  ~ IsLastOk(revIndex', revs', i) /\ ~ IsLastOk(revIndex, revs, i)
      BY <1>1, <2>1 DEF IsLastOk
    <3>2. LastOk' = NoEntry /\ LastOk = NoEntry
      BY <3>1, NoLastOk DEF LastOk
    <3> QED
      BY <1>1, <2>1, <3>2 DEF Latest, LatestIn
  <2>2. CASE revIndex = MaxRev
    <3>1. NoEntry \notin OkData /\ NoEntry \notin ErrData
      BY DataAssumption DEF Data
    <3>2. ASSUME NEW i \in Rev
          PROVE  ~ IsLastOk(revIndex', revs', i) /\ ~ IsLastOk(revIndex, revs, i)
      <4>1. i \in Nat /\ i <= MaxRev /\ MaxRev \in Rev
        BY Order
      <4> QED
        BY <1>1, <1>3, <2>2, <3>1, <4>1 DEF IsLastOk
    <3>3. LastOk' = NoEntry /\ LastOk = NoEntry
      BY <3>2, NoLastOk DEF LastOk
    <3> QED
      BY <1>1, <1>3, <2>2, <3>3, Order DEF Latest, LatestIn
  <2>3. CASE revIndex \in Rev /\ revIndex # MaxRev
    <3>1. revIndex \in Nat /\ idx[w] = revIndex + 1 /\ revIndex # NoIndex
      BY <1>1, <2>3, Order DEF NextRev
    <3>2. \A j \in Rev : j <= revIndex => revs'[j] = revs[j]
      <4> SUFFICES ASSUME NEW j \in Rev, j <= revIndex PROVE j # idx[w]
        BY <1>2
      <4> QED
        BY <3>1, Order
    <3>3. ASSUME NEW i \in Rev
          PROVE  IsLastOk(revIndex', revs', i) <=> IsLastOk(revIndex, revs, i)
      <4>1. i \in 0..revIndex => revs'[i] = revs[i]
        BY <3>1, <3>2
      <4> QED
        BY <1>1, <3>2, <4>1 DEF IsLastOk
    <3>4. CASE \E i \in Rev : IsLastOk(revIndex, revs, i)
      <4>1. PICK i \in Rev : IsLastOk(revIndex, revs, i)
        BY <3>4
      <4>2. LastOk = revs[i]
        BY <4>1, <2>3, LastOkIs DEF LastOk
      <4>3. LastOk' = revs'[i]
        <5>1. IsLastOk(revIndex', revs', i) /\ revIndex' \in Rev \cup {NoIndex}
          BY <4>1, <3>3, <1>1, <2>3
        <5>2. LastOkIn(revIndex', revs') = revs'[i]
          BY <5>1, LastOkIs
        <5> QED
          BY <5>2 DEF LastOk
      <4>4. revs'[i] = revs[i]
        BY <4>1, <3>1, <3>2 DEF IsLastOk
      <4> QED
        BY <1>1, <2>3, <3>1, <3>2, <4>2, <4>3, <4>4 DEF Latest, LatestIn
    <3>5. CASE \A i \in Rev : ~ IsLastOk(revIndex, revs, i)
      <4>1. LastOk = NoEntry /\ LastOk' = NoEntry
        BY <3>3, <3>5, NoLastOk DEF LastOk
      <4> QED
        BY <1>1, <2>3, <3>1, <3>2, <4>1 DEF Latest, LatestIn
    <3> QED
      BY <3>4, <3>5
  <2> QED
    BY <2>1, <2>2, <2>3, Facts
<1>5. Simulated
  BY <1>1, <1>4, Facts, Invisible
<1>6. WriterInv(w)'
  BY <1>1, <1>2, <1>3, Facts DEF WriterInv, WriterRole, OwnerInv, Settled,
     Wiping, Putting, Trimming, Dropping, NextRev
<1> QED
  BY <1>5, <1>6 DEF Correct

LEMMA PutIndexCorrect ==
  ASSUME NEW w, Before(w), PutIndex(w)
  PROVE  Correct(w)
<1>1. /\ pc[w] = "putIndex" /\ pc'[w] = "findOk" /\ revIndex' = idx[w]
      /\ cur'[w] = idx[w] /\ idx[w] \in Rev
      /\ UNCHANGED <<revs, disk, op, data, idx, ret>>
      /\ idx[w] = NextRev(revIndex)
      /\ revIndex = MaxRev => revs[MaxRev] = NoEntry
      /\ revs[idx[w]] = data[w] /\ data[w] \in Data
  BY Facts, GotoThread, AtThread DEF PutIndex, OwnerInv, Putting, WriterRole, Before
<1>2. Latest' = data[w]
  BY <1>1, Order DEF Latest, LatestIn
<1>3. ASSUME data[w] \in OkData PROVE LastOk' = data[w]
  BY <1>1, <1>3, LastOkAtIndex DEF LastOk
<1>4. ASSUME data[w] \notin OkData PROVE LastOk' = LastOk
  <2>1. data[w] \in ErrData
    BY <1>1, <1>4 DEF Data
  <2>2. NoEntry \notin OkData /\ NoEntry \notin ErrData
    BY DataAssumption DEF Data
  <2>3. CASE idx[w] = 0
    <3>1. ASSUME NEW i \in Rev
          PROVE  ~ IsLastOk(idx[w], revs, i) /\ ~ IsLastOk(revIndex, revs, i)
      <4>1. ~ IsLastOk(idx[w], revs, i)
        <5>1. IsLastOk(idx[w], revs, i) => i = 0
          BY <2>3 DEF IsLastOk
        <5>2. IsLastOk(idx[w], revs, i) => revs[i] \in OkData
          BY DEF IsLastOk
        <5> QED
          BY <1>1, <1>4, <2>3, <5>1, <5>2
      <4>2. revIndex = NoIndex \/ revIndex = MaxRev
        <5>1. revIndex \in Rev => revIndex + 1 # 0
          BY RevAssumption DEF Rev
        <5> QED
          BY <1>1, <2>3, <5>1, Facts DEF NextRev
      <4>3. CASE revIndex = NoIndex
        <5>1. ~ IsLastOk(NoIndex, revs, i)
          BY DEF IsLastOk
        <5> QED
          BY <4>1, <4>3, <5>1
      <4>4. CASE revIndex = MaxRev
        <5>1. i \in Nat /\ i <= MaxRev /\ MaxRev \in Rev /\ MaxRev \in Nat
          BY Order
        <5>2. revs[MaxRev] \notin OkData /\ revs[MaxRev] \notin ErrData
          BY <1>1, <2>2, <4>4
        <5>3. IsLastOk(MaxRev, revs, i) => i = MaxRev \/ revs[MaxRev] \in ErrData
          BY <5>1 DEF IsLastOk
        <5>4. IsLastOk(MaxRev, revs, i) => revs[i] \in OkData
          BY DEF IsLastOk
        <5> QED
          BY <4>1, <4>4, <5>2, <5>3, <5>4
      <4> QED
        BY <4>2, <4>3, <4>4
    <3>2. LastOk' = NoEntry /\ LastOk = NoEntry
      BY <1>1, <3>1, NoLastOk DEF LastOk
    <3> QED
      BY <1>4, <3>2
  <2>4. CASE idx[w] # 0
    <3>1. /\ revIndex \in Rev /\ revIndex \in Nat /\ idx[w] = revIndex + 1
          /\ revIndex # NoIndex
      BY <1>1, <2>4, Facts, Order DEF NextRev
    <3>2. ASSUME NEW i \in Rev
          PROVE  IsLastOk(idx[w], revs, i) <=> IsLastOk(revIndex, revs, i)
      <4>1. i \in Nat /\ idx[w] # NoIndex
        BY <1>1, Order
      <4>2. IsLastOk(idx[w], revs, i) => IsLastOk(revIndex, revs, i)
        <5>1. IsLastOk(idx[w], revs, i) => i # idx[w]
          BY <1>1, <1>4 DEF IsLastOk
        <5> QED
          BY <3>1, <4>1, <5>1, Order DEF IsLastOk
      <4>3. IsLastOk(revIndex, revs, i) => IsLastOk(idx[w], revs, i)
        <5> SUFFICES ASSUME IsLastOk(revIndex, revs, i)
                     PROVE  IsLastOk(idx[w], revs, i)
          OBVIOUS
        <5>1. \A j \in Rev : i < j /\ j <= idx[w] => revs[j] \in ErrData
          <6> SUFFICES ASSUME NEW j \in Rev, i < j, j <= idx[w]
                       PROVE  revs[j] \in ErrData
            OBVIOUS
          <6>1. j \in Nat
            BY Order
          <6>2. CASE j = idx[w]
            BY <1>1, <2>1, <6>2
          <6>3. CASE j # idx[w]
            BY <3>1, <6>1, <6>3 DEF IsLastOk
          <6> QED
            BY <6>2, <6>3
        <5> QED
          BY <3>1, <4>1, <5>1 DEF IsLastOk
      <4> QED
        BY <4>2, <4>3
    <3>3. CASE \E i \in Rev : IsLastOk(revIndex, revs, i)
      BY <1>1, <1>4, <3>1, <3>2, <3>3, LastOkIs DEF LastOk
    <3>4. CASE \A i \in Rev : ~ IsLastOk(revIndex, revs, i)
      BY <1>1, <1>4, <3>2, <3>4, NoLastOk DEF LastOk
    <3> QED
      BY <3>3, <3>4
  <2> QED
    BY <2>3, <2>4
<1>5. LastOk' = IF data[w] \in OkData THEN data[w] ELSE LastOk
  BY <1>3, <1>4
<1>6. Simulated
  BY <1>1, <1>2, <1>5, Facts, Puts
<1>7. WriterInv(w)'
  <2>1. /\ \A j \in Rev : ~ (idx[w] < j /\ j <= idx[w])
        /\ idx[w] <= idx[w]
    BY <1>1, RevAssumption DEF Rev
  <2> QED
    BY <1>1, <2>1, Facts DEF WriterInv, WriterRole, OwnerInv, Settled,
       Wiping, Putting, Trimming, Dropping
<1> QED
  BY <1>6, <1>7 DEF Correct

(* The clean-up. *)
LEMMA TrimBelowCorrect ==
  ASSUME NEW w, Before(w), NEW keep \in Rev, TrimBelow(w, keep),
         pc[w] = "findOk", UNCHANGED <<revIndex, revs, disk, op, data>>,
         keep <= idx[w],
         \A j \in Rev : j < keep => ~ IsLastOk(revIndex, revs, j)
  PROVE  Correct(w)
<1>1. /\ revIndex = idx[w] /\ revs[idx[w]] = data[w] /\ idx[w] \in Rev
      /\ op[w] \in {"insert", "insertIfNew"} /\ keep \in Nat /\ idx[w] \in Nat
  BY Facts, Order DEF OwnerInv, Trimming, WriterRole
<1>2. CASE keep = 0
  <2>1. pc'[w] = "idle" /\ ret'[w] = "done"
    BY <1>2, ReturnThread DEF TrimBelow, Before
  <2>2. Simulated
    BY <2>1, Facts, Stutter
  <2>3. revs[idx[w]] \in OkData => LastOk = data[w]
    BY <1>1, LastOkAtIndex DEF LastOk
  <2>4. Latest' = data[w] /\ (data[w] \in OkData => LastOk' = data[w])
    BY <1>1, <2>3, Order DEF Latest, LastOk, LatestIn
  <2>5. WriterInv(w)'
    BY <1>1, <2>1, <2>4, Facts DEF WriterInv, WriterRole, OwnerInv, Settled,
       Wiping, Putting, Trimming, Dropping
  <2> QED
    BY <2>2, <2>5 DEF Correct
<1>3. CASE keep > 0
  <2>1. pc'[w] = "trim" /\ cur'[w] = keep - 1 /\ UNCHANGED <<idx, ret>>
    BY <1>1, <1>3, GotoThread, AtThread DEF TrimBelow, Before
  <2>2. Simulated
    BY <2>1, Facts, Stutter
  <2>3. /\ cur'[w] < idx[w]
        /\ \A j \in Rev : j <= cur'[w] => ~ IsLastOk(revIndex, revs, j)
    <3>1. \A j \in Rev : j <= keep - 1 => j < keep
      BY <1>1, RevAssumption DEF Rev
    <3>2. keep - 1 < idx[w]
      BY <1>1
    <3> QED
      BY <2>1, <3>1, <3>2
  <2>4. WriterInv(w)'
    BY <1>1, <2>1, <2>3, Facts DEF WriterInv, WriterRole, OwnerInv, Settled,
       Wiping, Putting, Trimming, Dropping
  <2> QED
    BY <2>2, <2>4 DEF Correct
<1> QED
  BY <1>1, <1>2, <1>3

LEMMA FindOkCorrect ==
  ASSUME NEW w, Before(w), FindOk(w)
  PROVE  Correct(w)
<1>1. /\ pc[w] = "findOk" /\ revIndex = idx[w] /\ cur[w] <= idx[w]
      /\ \A j \in Rev : cur[w] < j /\ j <= idx[w] => revs[j] \notin OkData
      /\ UNCHANGED <<revIndex, revs, disk, op, data>>
      /\ cur[w] \in Rev /\ idx[w] \in Rev /\ cur[w] \in Nat /\ idx[w] \in Nat
  BY Facts, Order DEF FindOk, OwnerInv, Trimming, tree
<1>2. CASE revs[cur[w]] \in OkData
  <2>1. ASSUME NEW j \in Rev, j < cur[w] PROVE ~ IsLastOk(revIndex, revs, j)
    <3>1. revs[cur[w]] \notin ErrData
      BY <1>2, DataAssumption
    <3> QED
      BY <1>1, <2>1, <3>1 DEF IsLastOk
  <2>2. TrimBelow(w, cur[w])
    BY <1>2 DEF FindOk
  <2> QED
    BY <1>1, <2>1, <2>2, TrimBelowCorrect
<1>3. CASE revs[cur[w]] \notin OkData /\ cur[w] = 0
  <2>1. ASSUME NEW j \in Rev, j < idx[w] PROVE ~ IsLastOk(revIndex, revs, j)
    <3>1. j \in Nat
      BY Order
    <3>2. revs[j] \notin OkData
      BY <1>1, <1>3, <2>1, <3>1
    <3> QED
      BY <3>2 DEF IsLastOk
  <2>2. TrimBelow(w, idx[w]) /\ idx[w] <= idx[w]
    BY <1>1, <1>3 DEF FindOk
  <2> QED
    BY <1>1, <2>1, <2>2, TrimBelowCorrect
<1>4. CASE revs[cur[w]] \notin OkData /\ cur[w] # 0
  <2>1. pc'[w] = "findOk" /\ cur'[w] = cur[w] - 1 /\ UNCHANGED <<idx, ret>>
    BY <1>1, <1>4, AtThread DEF FindOk, Before
  <2>2. Simulated
    BY <1>1, <2>1, Facts, Stutter
  <2>3. ASSUME NEW j \in Rev, cur'[w] < j, j <= idx[w] PROVE revs[j] \notin OkData
    <3>1. j \in Nat
      BY Order
    <3>2. CASE j = cur[w]
      BY <1>4, <3>2
    <3>3. CASE cur[w] < j
      BY <1>1, <2>3, <3>3
    <3> QED
      BY <1>1, <2>1, <2>3, <3>1, <3>2, <3>3
  <2>4. cur'[w] <= idx[w]
    BY <1>1, <2>1
  <2>5. WriterInv(w)'
    BY <1>1, <2>1, <2>3, <2>4, Facts DEF WriterInv, WriterRole, OwnerInv, Settled,
       Wiping, Putting, Trimming, Dropping
  <2> QED
    BY <2>2, <2>5 DEF Correct
<1> QED
  BY <1>2, <1>3, <1>4

LEMMA TrimCorrect ==
  ASSUME NEW w, Before(w), Trim(w)
  PROVE  Correct(w)
<1>1. /\ pc[w] = "trim" /\ revs' = [revs EXCEPT ![cur[w]] = NoEntry]
      /\ UNCHANGED <<revIndex, disk, op, data>>
      /\ revIndex = idx[w] /\ revs[idx[w]] = data[w] /\ cur[w] < idx[w]
      /\ \A j \in Rev : j <= cur[w] => ~ IsLastOk(revIndex, revs, j)
      /\ cur[w] \in Rev /\ idx[w] \in Rev /\ cur[w] \in Nat /\ idx[w] \in Nat
      /\ idx[w] # NoIndex /\ op[w] \in {"insert", "insertIfNew"}
  BY Facts, Order DEF Trim, Remove, OwnerInv, Trimming, WriterRole
<1>2. /\ LastOk' = LastOk
      /\ \A j \in Rev : j <= cur[w] => ~ IsLastOk(revIndex', revs', j)
  BY <1>1, Facts, RemovedBelow DEF LastOk
<1>3. revs'[idx[w]] = data[w]
  <2>1. cur[w] # idx[w]
    BY <1>1
  <2> QED
    BY <1>1, <2>1, Facts
<1>4. Latest' = data[w] /\ Latest = data[w]
  BY <1>1, <1>3 DEF Latest, LatestIn
<1>5. CASE LoopEnds(w)
  <2>1. pc'[w] = "idle" /\ ret'[w] = "done"
    BY <1>5, ReturnThread DEF Trim, Before
  <2>2. Simulated
    BY <1>1, <1>2, <1>4, <2>1, Facts, Invisible
  <2>3. data[w] \in OkData => LastOk' = data[w]
    <3>1. data[w] \in OkData => LastOkIn(idx[w], revs) = data[w]
      BY <1>1, LastOkAtIndex
    <3> QED
      BY <1>1, <1>2, <3>1 DEF LastOk
  <2>4. WriterInv(w)'
    BY <1>1, <1>4, <2>1, <2>3, Facts DEF WriterInv, WriterRole, OwnerInv, Settled,
       Wiping, Putting, Trimming, Dropping
  <2> QED
    BY <2>2, <2>4 DEF Correct
<1>6. CASE ~ LoopEnds(w)
  <2>1. /\ pc'[w] = "trim" /\ cur'[w] = cur[w] - 1 /\ cur[w] # 0
        /\ UNCHANGED <<idx, ret>>
    BY <1>1, <1>6, AtThread DEF Trim, LoopEnds, Before
  <2>2. Simulated
    BY <1>1, <1>2, <1>4, <2>1, Facts, Invisible
  <2>3. /\ cur'[w] < idx[w]
        /\ \A j \in Rev : j <= cur'[w] => ~ IsLastOk(revIndex', revs', j)
    <3>1. \A j \in Rev : j <= cur[w] - 1 => j <= cur[w]
      BY <1>1, RevAssumption DEF Rev
    <3>2. cur[w] - 1 < idx[w]
      BY <1>1
    <3> QED
      BY <1>2, <2>1, <3>1, <3>2
  <2>4. WriterInv(w)'
    BY <1>1, <1>3, <2>1, <2>3, Facts DEF WriterInv, WriterRole, OwnerInv, Settled,
       Wiping, Putting, Trimming, Dropping
  <2> QED
    BY <2>2, <2>4 DEF Correct
<1> QED
  BY <1>5, <1>6

(* remove_all. *)
LEMMA MaxIndexCorrect ==
  ASSUME NEW w, Before(w), MaxIndex(w)
  PROVE  Correct(w)
<1>1. /\ pc[w] = "maxIndex" /\ op[w] = "removeAll"
      /\ UNCHANGED <<revIndex, revs, disk, op, data>>
  BY Facts DEF MaxIndex, WriterRole, tree
<1>2. CASE revIndex = NoIndex
  <2>1. pc'[w] = "idle"
    BY <1>2, ReturnThread DEF MaxIndex, Before
  <2>2. Simulated
    BY <1>1, <2>1, Facts, Stutter
  <2>3. WriterInv(w)'
    BY <1>1, <1>2, <2>1 DEF WriterInv, WriterRole, OwnerInv, Settled,
       Wiping, Putting, Trimming, Dropping
  <2> QED
    BY <2>2, <2>3 DEF Correct
<1>3. CASE revIndex # NoIndex
  <2>1. idx' = [idx EXCEPT ![w] = revIndex] /\ Goto(w, "dropEntry")
    BY <1>3 DEF MaxIndex
  <2>2. pc'[w] = "dropEntry" /\ idx'[w] = revIndex
    BY <2>1, GotoThread DEF Before, TypeOK
  <2>3. Simulated
    BY <1>1, <2>2, Facts, Begins
  <2>4. WriterInv(w)'
    BY <1>1, <2>2 DEF WriterInv, WriterRole, OwnerInv, Settled,
       Wiping, Putting, Trimming, Dropping
  <2> QED
    BY <2>3, <2>4 DEF Correct
<1> QED
  BY <1>2, <1>3

LEMMA DropEntryCorrect ==
  ASSUME NEW w, Before(w), DropEntry(w)
  PROVE  Correct(w)
<1>1. /\ pc[w] = "dropEntry" /\ op[w] = "removeAll"
      /\ revs' = [revs EXCEPT ![cur[w]] = NoEntry]
      /\ UNCHANGED <<revIndex, disk, op, data, idx, ret>>
      /\ revIndex = idx[w] /\ cur[w] <= idx[w]
      /\ cur[w] \in Rev /\ idx[w] \in Rev /\ cur[w] \in Nat /\ idx[w] \in Nat
      /\ idx[w] # NoIndex
  BY Facts, Order DEF DropEntry, Remove, OwnerInv, Dropping, WriterRole, Before,
     DropBound
<1>2. revs'[cur[w]] = NoEntry /\ \A j \in Rev : j # cur[w] => revs'[j] = revs[j]
  BY <1>1, Facts
<1>3. NoEntry \notin OkData /\ NoEntry \notin ErrData
  BY DataAssumption DEF Data
<1>4. Latest' \in {Latest, NoEntry}
  BY <1>1, <1>2 DEF Latest, LatestIn
<1>5. LastOk' \in {LastOk, NoEntry}
  <2>1. CASE \E i \in Rev : IsLastOk(revIndex', revs', i)
    <3>1. PICK i \in Rev : IsLastOk(revIndex', revs', i)
      BY <2>1
    <3>2. i \in Nat /\ i <= idx[w] /\ revs'[i] \in OkData
      BY <1>1, <3>1, Order DEF IsLastOk
    <3>3. i # cur[w]
      BY <1>2, <1>3, <3>2
    <3>4. ~ (i < cur[w])
      BY <1>1, <1>2, <1>3, <3>1 DEF IsLastOk
    <3>5. \A j \in Rev : i <= j => revs'[j] = revs[j]
      <4> SUFFICES ASSUME NEW j \in Rev, i <= j PROVE j # cur[w]
        BY <1>2
      <4>1. i < cur[w] \/ cur[w] < i
        BY <1>1, <3>2, <3>3
      <4>2. j = cur[w] => cur[w] < i
        BY <3>4, <4>1
      <4>3. ~ (cur[w] < i /\ i <= cur[w])
        BY <1>1, <3>2
      <4> QED
        BY <4>2, <4>3
    <3>6. IsLastOk(revIndex, revs, i)
      <4>1. \A j \in Rev : i < j => i <= j
        BY <3>2, Order
      <4>2. revs'[i] = revs[i]
        BY <1>2, <3>3
      <4> QED
        BY <1>1, <3>1, <3>5, <4>1, <4>2 DEF IsLastOk
    <3>7. LastOk = revs[i]
      BY <1>1, <3>6, LastOkIs DEF LastOk
    <3>8. revIndex' \in Rev \cup {NoIndex}
      BY <1>1
    <3>9. LastOkIn(revIndex', revs') = revs'[i]
      BY <3>1, <3>8, LastOkIs
    <3> QED
      BY <1>2, <3>3, <3>7, <3>9 DEF LastOk
  <2>2. CASE \A i \in Rev : ~ IsLastOk(revIndex', revs', i)
    BY <2>2, NoLastOk DEF LastOk
  <2> QED
    BY <2>1, <2>2
<1>6. pc'[w] \in {"dropEntry", "dropIndex"}
  BY <1>1, GotoThread DEF DropEntry, Before
<1>7. Simulated
  BY <1>1, <1>4, <1>5, <1>6, Facts, Forgets
<1>8. pc'[w] = "dropIndex" => revs'[idx[w]] = NoEntry
  BY <1>1, <1>2 DEF DropEntry
<1>9. WriterInv(w)'
  BY <1>1, <1>6, <1>8 DEF WriterInv, WriterRole, OwnerInv, Settled,
     Wiping, Putting, Trimming, Dropping
<1> QED
  BY <1>7, <1>9 DEF Correct

LEMMA DropIndexCorrect ==
  ASSUME NEW w, Before(w), DropIndex(w)
  PROVE  Correct(w)
<1>1. /\ pc[w] = "dropIndex" /\ pc'[w] = "idle" /\ op[w] = "removeAll"
      /\ UNCHANGED <<revs, disk, op, data>> /\ revIndex' = NoIndex
      /\ revIndex = idx[w] /\ revs[idx[w]] = NoEntry /\ idx[w] \in Rev
  BY Facts, ReturnThread DEF DropIndex, OwnerInv, Dropping, WriterRole, Before
<1>2. NoEntry \notin OkData /\ NoEntry \notin ErrData
  BY DataAssumption DEF Data
<1>3. Latest = NoEntry /\ Latest' = NoEntry
  BY <1>1 DEF Latest, LatestIn
<1>4. ASSUME NEW i \in Rev
      PROVE  ~ IsLastOk(revIndex, revs, i) /\ ~ IsLastOk(revIndex', revs', i)
  <2>1. ~ IsLastOk(revIndex', revs', i)
    BY <1>1 DEF IsLastOk
  <2>2. IsLastOk(idx[w], revs, i) =>
          i = idx[w] \/ revs[idx[w]] \in ErrData
    BY <1>1, RevAssumption DEF IsLastOk, Rev
  <2>3. IsLastOk(idx[w], revs, i) => revs[i] \in OkData
    BY DEF IsLastOk
  <2> QED
    BY <1>1, <1>2, <2>1, <2>2, <2>3
<1>5. LastOk = NoEntry /\ LastOk' = NoEntry
  BY <1>4, NoLastOk DEF LastOk
<1>6. Simulated
  BY <1>1, <1>3, <1>5, Facts, Ends
<1>7. WriterInv(w)'
  BY <1>1 DEF WriterInv, WriterRole, OwnerInv, Settled,
     Wiping, Putting, Trimming, Dropping
<1> QED
  BY <1>6, <1>7 DEF Correct

(* Failures.  A loop that is given up leaves a key that is being cleared. *)
LEMMA SledErrorCorrect ==
  ASSUME NEW w, Before(w), SledError(w)
  PROVE  Correct(w)
<1>1. /\ pc[w] # "findOk" /\ pc[w] # "listKey"
      /\ UNCHANGED <<revIndex, revs, disk, op, data>>
  BY Facts DEF SledError, WriterRole, Before, SingleOwner, tree
<1>2. CASE Goto(w, "nextIndex") /\ pc[w] \in {"getIndex", "getEntry"}
  <2>1. pc'[w] = "nextIndex"
    BY <1>2, GotoThread DEF Before
  <2>2. Simulated
    BY <1>1, <1>2, <2>1, Facts, Stutter
  <2>3. WriterInv(w)'
    BY <1>1, <1>2, <2>1, Facts DEF WriterInv, WriterRole, OwnerInv, Settled,
       Wiping, Putting, Trimming, Dropping
  <2> QED
    BY <2>2, <2>3 DEF Correct
<1>3. CASE Return(w, "failed")
  <2>1. pc'[w] = "idle" /\ ret'[w] = "failed"
    BY <1>3, ReturnThread DEF Before
  <2>2. Latest' = Latest /\ LastOk' = LastOk
    BY <1>1 DEF Latest, LastOk
  <2>3. ~ Clearing'
    BY <2>1, Facts
  <2>4. Simulated
    <3>1. CASE Clearing
      BY <1>1, <2>2, <2>3, <3>1, Ends
    <3>2. CASE ~ Clearing
      BY <1>1, <2>3, <3>2, Stutter
    <3> QED
      BY <3>1, <3>2
  <2>5. WriterInv(w)'
    BY <1>1, <2>1 DEF WriterInv, WriterRole, OwnerInv, Settled,
       Wiping, Putting, Trimming, Dropping
  <2> QED
    BY <2>4, <2>5 DEF Correct
<1> QED
  BY <1>1, <1>2, <1>3 DEF SledError

-----------------------------------------------------------------------------

(***************************************************************************)
(* Every step of the system.                                               *)
(***************************************************************************)

LEMMA OwnerStep ==
  ASSUME NEW w, Before(w), Step(w)
  PROVE  Correct(w)
BY GetIndexCorrect, GetEntryCorrect, NextIndexCorrect, WipeCorrect,
   PutEntryCorrect, PutIndexCorrect, FindOkCorrect, TrimCorrect,
   MaxIndexCorrect, DropEntryCorrect, DropIndexCorrect, SledErrorCorrect
DEF Step

(* A step of another thread leaves the local state of this one. *)
Undisturbed(q) ==
  /\ pc'[q] = pc[q] /\ op'[q] = op[q] /\ data'[q] = data[q]
  /\ idx'[q] = idx[q] /\ cur'[q] = cur[q] /\ ret'[q] = ret[q]

(* A reader only reads. *)
LEMMA ReaderStep ==
  ASSUME TypeOK, NEW r \in Readers, ReaderRole(r), Step(r) \/ ListKey(r)
  PROVE  /\ ReaderRole(r)'
         /\ UNCHANGED <<revIndex, revs, disk>>
         /\ \A q \in Proc : q # r => Undisturbed(q)
<1>1. r \in Proc
  BY DEF Proc
<1>2. ListKey(r) \/ GetIndex(r) \/ GetEntry(r) \/ SledError(r)
  BY DEF ReaderRole, Step, NextIndex, Wipe, PutEntry, PutIndex, FindOk, Trim,
     MaxIndex, DropEntry, DropIndex
<1> USE <1>1, GotoThread, AtThread, ReturnThread DEF ReaderRole, Undisturbed, tree
<1>3. CASE ListKey(r)
  BY <1>3 DEF ListKey
<1>4. CASE GetIndex(r)
  BY <1>4 DEF GetIndex
<1>5. CASE GetEntry(r)
  <2>1. ASSUME NEW e, Answer(r, e)
        PROVE  /\ pc'[r] = "idle"
               /\ \A q \in Proc : q # r => /\ pc'[q] = pc[q] /\ data'[q] = data[q]
                                          /\ idx'[q] = idx[q] /\ cur'[q] = cur[q]
                                          /\ ret'[q] = ret[q]
    <3>1. data' = [data EXCEPT ![r] = e]
      BY <2>1 DEF Answer
    <3>2. \A q \in Proc : q # r => data'[q] = data[q]
      BY <3>1 DEF TypeOK
    <3> QED
      BY <2>1, <3>2 DEF Answer
  <2> QED
    BY <1>5, <2>1 DEF GetEntry
<1>6. CASE SledError(r)
  BY <1>6 DEF SledError
<1> QED
  BY <1>2, <1>3, <1>4, <1>5, <1>6

LEMMA ReaderCall ==
  ASSUME TypeOK, NEW r \in Readers, ReaderRole(r), ReaderCalls(r)
  PROVE  /\ ReaderRole(r)'
         /\ UNCHANGED <<revIndex, revs, disk>>
         /\ \A q \in Proc : q # r => Undisturbed(q)
<1>1. r \in Proc
  BY DEF Proc
<1>2. \E o \in ReadOps : \E s \in {"getIndex", "listKey"} : Call(r, o, NoEntry, s)
  BY DEF ReaderCalls, Get, Iterate, ContainsKey, ReadOps
<1> QED
  BY <1>1, <1>2, CallThread DEF ReaderRole, ReadOps, Undisturbed

(* The owner's invariant survives what leaves the tree and the owner alone. *)
LEMMA WriterInvKept ==
  ASSUME NEW w, WriterInv(w), UNCHANGED <<revIndex, revs>>, Undisturbed(w)
  PROVE  WriterInv(w)'
BY DEF WriterInv, WriterRole, OwnerInv, Settled, Wiping, Putting, Trimming,
   Dropping, Undisturbed, Latest, LastOk

LEMMA WriterLocal ==
  ASSUME TypeOK, NEW w \in Writers, Step(w) \/ WriterCalls(w),
         NEW r \in Readers, ReaderRole(r)
  PROVE  ReaderRole(r)'
<1>1. w \in Proc /\ r \in Proc /\ r # w
  BY ProcAssumption DEF Proc
<1>2. pc'[r] = pc[r] /\ op'[r] = op[r]
  <2>1. CASE WriterCalls(w)
    BY <1>1, <2>1, CallThread DEF WriterCalls, Insert, InsertIfNotExists, RemoveAll
  <2>2. CASE Step(w)
    <3> USE <1>1, GotoThread, AtThread, ReturnThread
    <3>1. op' = op
      BY <2>2 DEF Step, GetIndex, GetEntry, NextIndex, Wipe, PutEntry,
         PutIndex, FindOk, Trim, MaxIndex, DropEntry, DropIndex, SledError, Remove
    <3>2. (GetIndex(w) \/ GetEntry(w)) => pc'[r] = pc[r]
      BY DEF GetIndex, GetEntry, Answer
    <3>3. (NextIndex(w) \/ Wipe(w) \/ PutEntry(w) \/ PutIndex(w)) => pc'[r] = pc[r]
      BY DEF NextIndex, Wipe, PutEntry, PutIndex
    <3>4. (FindOk(w) \/ Trim(w) \/ MaxIndex(w)) => pc'[r] = pc[r]
      BY DEF FindOk, Trim, TrimBelow, MaxIndex
    <3>5. (DropEntry(w) \/ DropIndex(w) \/ SledError(w)) => pc'[r] = pc[r]
      BY DEF DropEntry, DropIndex, SledError, TrimBelow
    <3> QED
      BY <2>2, <3>1, <3>2, <3>3, <3>4, <3>5 DEF Step
  <2> QED
    BY <2>1, <2>2
<1> QED
  BY <1>2 DEF ReaderRole

LEMMA Restart ==
  ASSUME Crash
  PROVE  StoreInv' /\ Simulated
<1>1. StoreInv'
  BY DEF Crash, StoreInv, ReaderRole, WriterInv, WriterRole, OwnerInv, Settled,
     Wiping, Putting, Trimming, Dropping, Proc
<1>2. Register!Crash
  <2>1. Clearing' = FALSE
    BY DEF Crash, Clearing, Proc
  <2> QED
    BY <2>1 DEF Crash, Register!Crash, Latest, LastOk
<1> QED
  BY <1>1, <1>2 DEF Simulated, Register!Next

LEMMA Flushed ==
  ASSUME StoreInv, Flush
  PROVE  StoreInv' /\ Simulated
<1>1. UNCHANGED <<revIndex, revs, pc, op, data, idx, cur, ret>>
  BY DEF Flush, tree, local
<1>2. StoreInv'
  BY <1>1 DEF StoreInv, ReaderRole, WriterInv, WriterRole, OwnerInv, Settled,
     Wiping, Putting, Trimming, Dropping, Latest, LastOk
<1>3. Register!Flush
  <2>1. Clearing' = Clearing
    BY <1>1 DEF Clearing
  <2> QED
    BY <1>1, <2>1 DEF Flush, Register!Flush, Latest, LastOk
<1> QED
  BY <1>2, <1>3 DEF Simulated, Register!Next

LEMMA EveryStep ==
  ASSUME SingleOwner, TypeOK, DropBound, StoreInv, [Next]_vars
  PROVE  StoreInv' /\ Simulated
<1>1. PICK w \in Writers : Writers = {w}
  BY DEF SingleOwner
<1>2. w \in Proc /\ Before(w) /\ Readers \subseteq Proc /\ w \notin Readers
  BY <1>1, ProcAssumption DEF Before, StoreInv, Proc
<1>3. ASSUME Step(w) \/ WriterCalls(w) PROVE StoreInv' /\ Simulated
  <2>1. Correct(w)
    BY <1>2, <1>3, OwnerStep, CallCorrect
  <2>2. \A r \in Readers : ReaderRole(r)'
    BY <1>3, WriterLocal DEF StoreInv
  <2> QED
    BY <1>1, <2>1, <2>2 DEF Correct, StoreInv
<1>4. ASSUME NEW r \in Readers, Step(r) \/ ListKey(r) \/ ReaderCalls(r)
      PROVE  StoreInv' /\ Simulated
  <2>1. /\ ReaderRole(r)'
        /\ UNCHANGED <<revIndex, revs, disk>>
        /\ \A q \in Proc : q # r => Undisturbed(q)
    BY <1>4, ReaderStep, ReaderCall DEF StoreInv
  <2>2. WriterInv(w)'
    BY <1>2, <2>1, WriterInvKept DEF StoreInv
  <2>3. \A q \in Readers : ReaderRole(q)'
    BY <1>2, <2>1 DEF ReaderRole, Undisturbed, StoreInv
  <2>4. Clearing' <=> Clearing
    BY <1>2, <2>1, ClearingOwner DEF Undisturbed, Before
  <2> QED
    BY <1>1, <2>1, <2>2, <2>3, <2>4, Stutter DEF StoreInv
<1>5. CASE UNCHANGED vars
  <2>1. StoreInv'
    BY <1>5 DEF vars, StoreInv, ReaderRole, WriterInv, WriterRole, OwnerInv,
       Settled, Wiping, Putting, Trimming, Dropping, Latest, LastOk
  <2>2. Clearing' <=> Clearing
    BY <1>5 DEF vars, Clearing
  <2> QED
    BY <1>5, <2>1, <2>2, Stutter DEF vars
<1>6. ASSUME Next PROVE StoreInv' /\ Simulated
  <2>1. \/ Step(w) \/ WriterCalls(w)
        \/ \E r \in Readers : Step(r) \/ ListKey(r) \/ ReaderCalls(r)
        \/ Flush \/ Crash
    BY <1>1, <1>6 DEF Next, Proc
  <2> QED
    BY <2>1, <1>3, <1>4, Restart, Flushed
<1> QED
  BY <1>5, <1>6

LEMMA Start ==
  ASSUME Init
  PROVE  StoreInv /\ Register!Init
<1>1. StoreInv
  BY DEF Init, StoreInv, ReaderRole, WriterInv, WriterRole, OwnerInv, Settled,
     Wiping, Putting, Trimming, Dropping, Proc
<1>2. /\ revIndex = NoIndex /\ disk.index = NoIndex
      /\ ~ Clearing
  BY DEF Init, Clearing, Proc
<1>3. \A rv : LatestIn(NoIndex, rv) = NoEntry /\ LastOkIn(NoIndex, rv) = NoEntry
  BY NoLastOk DEF LatestIn, IsLastOk
<1>4. Clearing = FALSE
  BY <1>2 DEF Clearing
<1> QED
  BY <1>1, <1>2, <1>3, <1>4 DEF Register!Init, Latest, LastOk

-----------------------------------------------------------------------------

LEMMA OwnerInvariant == ASSUME SingleOwner PROVE Spec => []StoreInv
<1>1. Init => StoreInv
  BY Start
<1>2. TypeOK /\ DropBound /\ StoreInv /\ [Next]_vars => StoreInv'
  BY EveryStep
<1> QED
  BY <1>1, <1>2, Typed, PTL DEF Spec

(* When an insert or a remove_all of the only writer has succeeded the key
   holds what the call promised, whatever sled operations have failed and
   however often the process was killed before. *)
THEOREM WritesSettle == ASSUME SingleOwner PROVE Spec => []SettledWrite
<1>1. StoreInv => SettledWrite
  BY DEF StoreInv, WriterInv, Settled, SettledWrite
<1> QED
  BY <1>1, OwnerInvariant, PTL

(* A key with a single writer is an EntryRegister: no error, no clean-up and
   no failed call loses its last success. *)
THEOREM Refinement == ASSUME SingleOwner PROVE Spec => IsEntryRegister
<1>1. Init => StoreInv /\ Register!Init
  BY Start
<1>2. TypeOK /\ DropBound /\ StoreInv /\ [Next]_vars => StoreInv' /\ Simulated
  BY EveryStep
<1>3. TypeOK /\ DropBound /\ StoreInv /\ [Next]_vars
        => [Register!Next]_(Register!rvars)
  BY <1>2 DEF Simulated
<1> QED
  BY <1>1, <1>2, <1>3, Typed, PTL DEF Spec, IsEntryRegister, Register!Spec

=============================================================================
