---------------------- MODULE FallbackEntryStore_proofs ----------------------
(***************************************************************************)
(* The entry store, proved for every set of threads, payloads and          *)
(* revisions: its types, and, for a key with a single writer whose scans   *)
(* do not fail, that it is an EntryRegister.                               *)
(***************************************************************************)
EXTENDS FallbackEntryStore, TLAPS

-----------------------------------------------------------------------------

(* Where a step leads its own thread, and that it leaves the others alone. *)
LEMMA GotoThread ==
  ASSUME TypeOK, NEW p \in Proc, NEW step, Goto(p, step)
  PROVE  pc'[p] = step /\ \A q \in Proc : q # p => pc'[q] = pc[q]
BY DEF TypeOK, Goto

LEMMA AtThread ==
  ASSUME TypeOK, NEW p \in Proc, NEW i, At(p, i)
  PROVE  cur'[p] = i /\ \A q \in Proc : q # p => cur'[q] = cur[q]
BY DEF TypeOK, At

LEMMA ReturnThread ==
  ASSUME TypeOK, NEW p \in Proc, NEW result, Return(p, result)
  PROVE  /\ pc'[p] = "idle" /\ cur'[p] = 0 /\ idx'[p] = 0 /\ ret'[p] = result
         /\ \A q \in Proc : q # p => /\ pc'[q] = pc[q] /\ cur'[q] = cur[q]
                                    /\ idx'[q] = idx[q] /\ ret'[q] = ret[q]
BY DEF TypeOK, Return, Goto, At

LEMMA CallThread ==
  ASSUME TypeOK, NEW p \in Proc, NEW o, NEW d, NEW step, Call(p, o, d, step)
  PROVE  /\ pc[p] = "idle" /\ pc'[p] = step /\ op'[p] = o /\ data'[p] = d
         /\ ret'[p] = "none"
         /\ \A q \in Proc : q # p => /\ pc'[q] = pc[q] /\ op'[q] = op[q]
                                    /\ data'[q] = data[q] /\ ret'[q] = ret[q]
         /\ UNCHANGED <<revIndex, revs, disk, idx, cur>>
BY DEF TypeOK, Call, Goto, tree

(* Calling a method keeps the types. *)
LEMMA CallTyped ==
  ASSUME TypeOK, NEW p \in Proc, NEW o \in WriteOps \cup ReadOps,
         NEW d \in Data \cup {NoEntry}, NEW step \in Steps,
         Call(p, o, d, step)
  PROVE  TypeOK'
BY DEF TypeOK, Call, Goto, tree, Results

(* So do the ways in which a step leaves its thread. *)
ThreadTyped ==
  /\ pc \in [Proc -> Steps \cup {"idle"}]
  /\ idx \in [Proc -> Rev]
  /\ cur \in [Proc -> Rev]
  /\ ret \in [Proc -> Results]

LEMMA GotoTyped ==
  ASSUME ThreadTyped, NEW p \in Proc, NEW step \in Steps, Goto(p, step)
  PROVE  pc' \in [Proc -> Steps \cup {"idle"}]
BY DEF ThreadTyped, Goto

LEMMA AtTyped ==
  ASSUME ThreadTyped, NEW p \in Proc, NEW i \in Rev, At(p, i)
  PROVE  cur' \in [Proc -> Rev]
BY DEF ThreadTyped, At

LEMMA ReturnTyped ==
  ASSUME ThreadTyped, NEW p \in Proc, NEW result \in Results, Return(p, result)
  PROVE  ThreadTyped'
<1>1. 0 \in Rev
  BY RevAssumption DEF Rev
<1> QED
  BY <1>1 DEF ThreadTyped, Return, Goto, At

LEMMA LoopTyped ==
  ASSUME ThreadTyped, NEW p \in Proc, NEW i \in Rev, At(p, i),
         UNCHANGED <<idx, ret>>, UNCHANGED pc \/ \E s \in Steps : Goto(p, s)
  PROVE  ThreadTyped'
BY AtTyped, GotoTyped DEF ThreadTyped

LEMMA GoTyped ==
  ASSUME ThreadTyped, NEW p \in Proc, NEW s \in Steps, Goto(p, s),
         UNCHANGED <<idx, cur, ret>>
  PROVE  ThreadTyped'
BY GotoTyped DEF ThreadTyped

LEMMA TrimBelowTyped ==
  ASSUME ThreadTyped, NEW p \in Proc, NEW keep \in Rev, TrimBelow(p, keep)
  PROVE  ThreadTyped'
<1>1. CASE keep = 0
  BY <1>1, ReturnTyped DEF TrimBelow, Results
<1>2. CASE keep > 0
  <2>1. keep - 1 \in Rev /\ "trim" \in Steps /\ keep # 0
    BY <1>2, RevAssumption DEF Rev, Steps
  <2> QED
    BY <1>2, <2>1, LoopTyped DEF TrimBelow
<1> QED
  BY <1>1, <1>2, RevAssumption DEF Rev

LEMMA AnswerTyped ==
  ASSUME ThreadTyped, NEW p \in Proc, NEW e \in Data \cup {NoEntry},
         data \in [Proc -> Data \cup {NoEntry}], Answer(p, e)
  PROVE  ThreadTyped' /\ data' \in [Proc -> Data \cup {NoEntry}]
<1>1. CASE Return(p, "same") /\ UNCHANGED data
  BY <1>1, ReturnTyped DEF Results
<1>2. CASE Goto(p, "nextIndex") /\ UNCHANGED <<data, idx, cur, ret>>
  BY <1>2, GoTyped DEF Steps
<1>3. CASE /\ data' = [data EXCEPT ![p] = e]
           /\ Return(p, IF e = NoEntry THEN "missing" ELSE "done")
  <2>1. (IF e = NoEntry THEN "missing" ELSE "done") \in Results
    BY DEF Results
  <2>2. ThreadTyped'
    BY <1>3, <2>1, ReturnTyped
  <2> QED
    BY <1>3, <2>2
<1> QED
  BY <1>1, <1>2, <1>3 DEF Answer

(* The loop of remove_all does not run past max_index. *)
DropBound == \A p \in Proc : pc[p] = "dropEntry" => cur[p] <= idx[p]

(* The types and that bound are inductive together. *)
LEMMA Typed == Spec => [](TypeOK /\ DropBound)
<1>1. Init => TypeOK /\ DropBound
  BY RevAssumption DEF Init, TypeOK, DropBound, Rev, Data, Steps, WriteOps,
     ReadOps, Results
<1>2. TypeOK /\ DropBound /\ [Next]_vars => TypeOK'
  <2> SUFFICES ASSUME TypeOK, DropBound, [Next]_vars PROVE TypeOK'
    OBVIOUS
  <2>1. ASSUME NEW w \in Writers, WriterCalls(w) PROVE TypeOK'
    <3>1. w \in Proc
      BY DEF Proc
    <3>2. ASSUME NEW d \in Data, Insert(w, d) PROVE TypeOK'
      BY <3>1, <3>2, CallTyped DEF Insert, WriteOps, Steps
    <3>3. ASSUME NEW d \in Data, InsertIfNotExists(w, d) PROVE TypeOK'
      BY <3>1, <3>3, CallTyped DEF InsertIfNotExists, WriteOps, Steps
    <3>4. CASE RemoveAll(w)
      BY <3>1, <3>4, CallTyped DEF RemoveAll, WriteOps, Steps
    <3> QED
      BY <2>1, <3>2, <3>3, <3>4 DEF WriterCalls
  <2>2. ASSUME NEW r \in Readers, ReaderCalls(r) PROVE TypeOK'
    <3>1. r \in Proc
      BY DEF Proc
    <3>2. PICK o \in ReadOps, s \in {"getIndex", "listKey"} :
            Call(r, o, NoEntry, s)
      BY <2>2 DEF ReaderCalls, Get, Iterate, ContainsKey, ReadOps
    <3> QED
      BY <3>1, <3>2, CallTyped DEF Steps
  <2>3. ASSUME NEW p \in Proc, Step(p) \/ ListKey(p) PROVE TypeOK'
    <3> DEFINE Stored == Data \cup {NoEntry}
               TreeTyped == /\ revIndex \in Rev \cup {NoIndex}
                            /\ revs \in [Rev -> Stored]
    <3>a. /\ ThreadTyped /\ TreeTyped
          /\ data \in [Proc -> Stored]
          /\ cur[p] \in Rev /\ idx[p] \in Rev
          /\ revs[cur[p]] \in Stored /\ data[p] \in Stored
          /\ NoEntry \in Stored
      BY DEF TypeOK, ThreadTyped
    <3>b. /\ \A i \in Rev : i # 0 => i - 1 \in Rev
          /\ \A i \in Rev : i > 0 => i # 0
          /\ 0 \in Rev /\ MaxRev \in Rev
          /\ NextRev(revIndex) \in Rev
      BY <3>a, RevAssumption DEF Rev, NextRev
    <3>c. ASSUME ThreadTyped', TreeTyped', UNCHANGED <<disk, op>>,
                 data' \in [Proc -> Stored]
          PROVE  TypeOK'
      BY <3>c DEF TypeOK, ThreadTyped
    <3>d. ASSUME Remove(p)
          PROVE  TreeTyped' /\ UNCHANGED <<disk, op, data>>
      BY <3>a, <3>d DEF Remove
    <3>e. ASSUME UNCHANGED tree PROVE TreeTyped'
      BY <3>a, <3>e DEF tree
    <3>f. TreeTyped => revIndex \in Rev \cup {NoIndex}
      OBVIOUS
    <3> HIDE DEF Stored, TreeTyped
    <3>1. CASE ListKey(p)
      <4>1. ThreadTyped'
        BY <3>1, <3>a, GoTyped, ReturnTyped DEF ListKey, Results, Steps
      <4> QED
        BY <3>1, <4>1, <3>a, <3>c, <3>e DEF ListKey
    <3>2. CASE GetIndex(p)
      <4>1. PICK i \in Rev : At(p, i)
        BY <3>2, <3>a, <3>b, <3>f DEF GetIndex
      <4>2. ThreadTyped'
        BY <3>2, <3>a, <4>1, LoopTyped DEF GetIndex, Steps
      <4> QED
        BY <3>2, <4>2, <3>a, <3>c, <3>e DEF GetIndex
    <3>3. CASE GetEntry(p)
      <4>1. ASSUME NEW e \in Stored, Answer(p, e)
            PROVE  ThreadTyped' /\ data' \in [Proc -> Stored]
        BY <4>1, <3>a, AnswerTyped DEF Stored
      <4>2. ASSUME cur[p] > 0, At(p, cur[p] - 1), UNCHANGED <<pc, data, idx, ret>>
            PROVE  ThreadTyped' /\ data' \in [Proc -> Stored]
        BY <4>2, <3>a, <3>b, LoopTyped
      <4>3. ThreadTyped' /\ data' \in [Proc -> Stored]
        BY <3>3, <3>a, <4>1, <4>2 DEF GetEntry
      <4> QED
        BY <3>3, <4>3, <3>a, <3>c, <3>e DEF GetEntry
    <3>4. CASE NextIndex(p)
      <4>1. ThreadTyped'
        BY <3>4, <3>a, <3>b DEF NextIndex, ThreadTyped, Goto, At, Steps
      <4> QED
        BY <3>4, <4>1, <3>a, <3>c, <3>e DEF NextIndex
    <3>5. CASE Wipe(p)
      <4>1. ThreadTyped'
        BY <3>5, <3>a, <3>b, LoopTyped DEF Wipe, LoopEnds, Steps
      <4> QED
        BY <3>5, <4>1, <3>a, <3>c, <3>d DEF Wipe
    <3>6. CASE PutEntry(p)
      <4>1. ThreadTyped'
        BY <3>6, <3>a, GoTyped DEF PutEntry, Steps
      <4>2. TreeTyped'
        BY <3>6, <3>a DEF PutEntry, TreeTyped
      <4> QED
        BY <3>6, <4>1, <4>2, <3>a, <3>c DEF PutEntry
    <3>7. CASE PutIndex(p)
      <4>1. ThreadTyped'
        BY <3>7, <3>a, LoopTyped DEF PutIndex, Steps
      <4>2. TreeTyped'
        BY <3>7, <3>a DEF PutIndex, TreeTyped
      <4> QED
        BY <3>7, <4>1, <4>2, <3>a, <3>c DEF PutIndex
    <3>8. CASE FindOk(p)
      <4>1. ThreadTyped'
        BY <3>8, <3>a, <3>b, LoopTyped, TrimBelowTyped DEF FindOk
      <4> QED
        BY <3>8, <4>1, <3>a, <3>c, <3>e DEF FindOk
    <3>9. CASE Trim(p)
      <4>1. ThreadTyped'
        BY <3>9, <3>a, <3>b, LoopTyped, ReturnTyped DEF Trim, LoopEnds, Results
      <4> QED
        BY <3>9, <4>1, <3>a, <3>c, <3>d DEF Trim
    <3>10. CASE MaxIndex(p)
      <4>1. CASE revIndex = NoIndex
        <5>1. ThreadTyped'
          BY <3>10, <4>1, <3>a, ReturnTyped DEF MaxIndex, Results
        <5> QED
          BY <3>10, <5>1, <3>a, <3>c, <3>e DEF MaxIndex
      <4>2. CASE revIndex # NoIndex
        <5>1. ThreadTyped'
          BY <3>10, <4>2, <3>a, <3>b, <3>f DEF MaxIndex, ThreadTyped, Goto, At, Steps
        <5> QED
          BY <3>10, <5>1, <3>a, <3>c, <3>e DEF MaxIndex
      <4> QED
        BY <4>1, <4>2
    <3>11. CASE DropEntry(p)
      <4>1. cur[p] # idx[p] => cur[p] + 1 \in Rev
        BY <3>11, <3>a, RevAssumption DEF DropEntry, DropBound, Rev
      <4>2. ThreadTyped'
        BY <3>11, <4>1, <3>a, <3>b, LoopTyped DEF DropEntry, Steps
      <4> QED
        BY <3>11, <4>2, <3>a, <3>c, <3>d DEF DropEntry
    <3>12. CASE DropIndex(p)
      <4>1. ThreadTyped'
        BY <3>12, <3>a, ReturnTyped DEF DropIndex, Results
      <4>2. TreeTyped'
        BY <3>12, <3>a DEF DropIndex, TreeTyped
      <4> QED
        BY <3>12, <4>1, <4>2, <3>a, <3>c DEF DropIndex
    <3>13. CASE SledError(p)
      <4>1. ThreadTyped'
        BY <3>13, <3>a, GoTyped, ReturnTyped, TrimBelowTyped
           DEF SledError, Results, Steps
      <4> QED
        BY <3>13, <4>1, <3>a, <3>c, <3>e DEF SledError
    <3> QED
      BY <2>3, <3>1, <3>2, <3>3, <3>4, <3>5, <3>6, <3>7, <3>8, <3>9, <3>10,
         <3>11, <3>12, <3>13 DEF Step
  <2>4. CASE Flush
    BY <2>4 DEF Flush, TypeOK, tree, local
  <2>5. CASE Crash
    BY <2>5, RevAssumption DEF Crash, TypeOK, Rev, Results
  <2>6. CASE UNCHANGED vars
    BY <2>6 DEF vars, TypeOK
  <2> QED
    BY <2>1, <2>2, <2>3, <2>4, <2>5, <2>6 DEF Next, Proc
<1>3. TypeOK /\ DropBound /\ [Next]_vars => DropBound'
  <2> SUFFICES ASSUME TypeOK, DropBound, [Next]_vars PROVE DropBound'
    OBVIOUS
  <2>1. ASSUME NEW p \in Proc, NEW o, NEW d, NEW step \in Steps \ {"dropEntry"},
               Call(p, o, d, step)
        PROVE  DropBound'
    BY <2>1 DEF Call, Goto, TypeOK, DropBound
  <2>2. ASSUME NEW p \in Proc, Step(p) \/ ListKey(p) PROVE DropBound'
    <3> USE GotoThread, AtThread, ReturnThread DEF DropBound
    <3>1. CASE ListKey(p)
      BY <3>1 DEF ListKey
    <3>2. CASE GetIndex(p)
      BY <3>2 DEF GetIndex
    <3>3. CASE GetEntry(p)
      BY <3>3 DEF GetEntry, Answer
    <3>4. CASE NextIndex(p)
      BY <3>4 DEF NextIndex, TypeOK
    <3>5. CASE Wipe(p)
      BY <3>5 DEF Wipe
    <3>6. CASE PutEntry(p)
      BY <3>6 DEF PutEntry
    <3>7. CASE PutIndex(p)
      BY <3>7 DEF PutIndex
    <3>8. CASE FindOk(p)
      BY <3>8 DEF FindOk, TrimBelow
    <3>9. CASE Trim(p)
      BY <3>9 DEF Trim
    <3>10. CASE MaxIndex(p)
      <4>1. CASE revIndex = NoIndex
        BY <3>10, <4>1 DEF MaxIndex
      <4>2. CASE revIndex # NoIndex
        <5>1. /\ idx' = [idx EXCEPT ![p] = revIndex] /\ At(p, 0)
              /\ Goto(p, "dropEntry")
          BY <3>10, <4>2 DEF MaxIndex
        <5>2. /\ idx'[p] = revIndex /\ revIndex \in Rev
              /\ \A q \in Proc : q # p => idx'[q] = idx[q]
          BY <4>2, <5>1 DEF TypeOK
        <5> QED
          BY <5>1, <5>2, RevAssumption DEF Rev
      <4> QED
        BY <4>1, <4>2
    <3>11. CASE DropEntry(p)
      <4>1. /\ cur[p] \in Nat /\ idx[p] \in Nat /\ cur[p] <= idx[p]
            /\ UNCHANGED idx /\ pc[p] = "dropEntry"
        BY <3>11, RevAssumption DEF DropEntry, TypeOK, Rev
      <4>2. CASE cur[p] = idx[p]
        BY <3>11, <4>1, <4>2 DEF DropEntry
      <4>3. CASE cur[p] # idx[p]
        BY <3>11, <4>1, <4>3 DEF DropEntry
      <4> QED
        BY <4>2, <4>3
    <3>12. CASE DropIndex(p)
      BY <3>12 DEF DropIndex
    <3>13. CASE SledError(p)
      BY <3>13 DEF SledError, TrimBelow
    <3> QED
      BY <2>2, <3>1, <3>2, <3>3, <3>4, <3>5, <3>6, <3>7, <3>8, <3>9, <3>10,
         <3>11, <3>12, <3>13 DEF Step
  <2>3. ASSUME NEW w \in Writers, WriterCalls(w) PROVE DropBound'
    <3>1. w \in Proc
      BY DEF Proc
    <3>2. \E o, d : \E s \in Steps \ {"dropEntry"} : Call(w, o, d, s)
      BY <2>3 DEF WriterCalls, Insert, InsertIfNotExists, RemoveAll, Steps
    <3> QED
      BY <2>1, <3>1, <3>2
  <2>4. ASSUME NEW r \in Readers, ReaderCalls(r) PROVE DropBound'
    <3>1. r \in Proc
      BY DEF Proc
    <3>2. \E o, d : \E s \in Steps \ {"dropEntry"} : Call(r, o, d, s)
      BY <2>4 DEF ReaderCalls, Get, Iterate, ContainsKey, Steps
    <3> QED
      BY <2>1, <3>1, <3>2
  <2>5. CASE Flush
    BY <2>5 DEF Flush, local, DropBound
  <2>6. CASE Crash
    BY <2>6 DEF Crash, DropBound
  <2>7. CASE UNCHANGED vars
    BY <2>7 DEF vars, DropBound
  <2> QED
    BY <2>2, <2>3, <2>4, <2>5, <2>6, <2>7 DEF Next, Proc
<1> QED
  BY <1>1, <1>2, <1>3, PTL DEF Spec

(* The variables of FallbackEntryStore stay in their types, whatever the
   threads do and however the sled operations and the process fail. *)
THEOREM TypeCorrect == Spec => []TypeOK
BY Typed, PTL

=============================================================================
