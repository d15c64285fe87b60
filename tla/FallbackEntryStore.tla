------------------------- MODULE FallbackEntryStore -------------------------
(***************************************************************************)
(* The revisioned key-value store of the plugins, FallbackEntryStore, seen *)
(* from one key.                                                           *)
(*                                                                         *)
(* A key is kept in the sled tree as one index, rev_index_<key>, and one   *)
(* entry per revision, key_<key>_rev_<i>.  No method of the store holds a  *)
(* lock or a transaction: a call is a sequence of single sled operations,  *)
(* and those of other threads fall between them.  Here every sled          *)
(* operation is one step, so that all their interleavings are explored.    *)
(* Keys do not influence each other, hence one is enough.                  *)
(*                                                                         *)
(* An entry is its payload: Ok(T) is a member of OkData, Err(EntryError)   *)
(* one of ErrData.  Time stamps take no part in any decision.  MaxRev      *)
(* stands for u64::MAX, the revision after which the index wraps to zero.  *)
(***************************************************************************)
EXTENDS Naturals

CONSTANTS
  Writers,      \* threads that insert and remove
  Readers,      \* threads that get and iterate
  OkData,       \* payloads Ok(T)
  ErrData,      \* payloads Err(EntryError)
  NoEntry,      \* what sled returns for a revision that is not there
  NoIndex,      \* what sled returns for an index that is not there
  MaxRev,       \* the greatest revision
  FailingCalls, \* the steps whose sled operation, or decoding, may fail
  Crashes       \* whether the process may be killed

Data == OkData \cup ErrData
Rev  == 0..MaxRev
Proc == Writers \cup Readers

WriteOps == {"insert", "insertIfNew", "removeAll"}
ReadOps  == {"get", "getOk", "valueIter", "valueIterOk", "errorIter",
             "containsKey"}

Steps == {"listKey", "getIndex", "getEntry", "nextIndex", "wipe", "putEntry",
          "putIndex", "findOk", "trim", "maxIndex", "dropEntry", "dropIndex"}

Results == {"none", "done", "same", "missing", "unlisted", "failed"}

ASSUME DataAssumption ==
  /\ OkData \cap ErrData = {}
  /\ NoEntry \notin Data

ASSUME RevAssumption ==
  /\ MaxRev \in Nat \ {0}
  /\ NoIndex \notin Rev

ASSUME ProcAssumption == Writers \cap Readers = {}

ASSUME FaultAssumption ==
  /\ FailingCalls \subseteq Steps
  /\ Crashes \in BOOLEAN

VARIABLES
  revIndex, \* rev_index_<key>
  revs,     \* key_<key>_rev_<i>, for every i
  disk,     \* both of them, as the last flush left them
  pc,       \* the sled operation a thread performs next, or "idle"
  op,       \* the method it is in
  data,     \* what it writes, and in the end what it has read
  idx,      \* next_index, max_index or index of the method
  cur,      \* the revision its loop is at
  ret       \* how its last call ended

tree  == <<revIndex, revs>>
local == <<pc, op, data, idx, cur, ret>>
vars  == <<revIndex, revs, disk, pc, op, data, idx, cur, ret>>

-----------------------------------------------------------------------------

(***************************************************************************)
(* What a key holds.  The entry of the index is the latest one; the last   *)
(* successful one is found below it, behind errors only: GetOk stops at    *)
(* the first revision that is not there.                                   *)
(***************************************************************************)

IsLastOk(ix, rv, i) ==
  /\ ix # NoIndex
  /\ i \in 0..ix
  /\ rv[i] \in OkData
  /\ \A j \in Rev : i < j /\ j <= ix => rv[j] \in ErrData

LatestIn(ix, rv) == IF ix = NoIndex THEN NoEntry ELSE rv[ix]

LastOkIn(ix, rv) ==
  IF \E i \in Rev : IsLastOk(ix, rv, i)
  THEN rv[CHOOSE i \in Rev : IsLastOk(ix, rv, i)]
  ELSE NoEntry

Latest   == LatestIn(revIndex, revs)
LastOk   == LastOkIn(revIndex, revs)
Clearing == \E w \in Writers : pc[w] \in {"wipe", "dropEntry", "dropIndex"}

-----------------------------------------------------------------------------

Init ==
  /\ revIndex = NoIndex
  /\ revs = [i \in Rev |-> NoEntry]
  /\ disk = [index |-> NoIndex, revs |-> [i \in Rev |-> NoEntry]]
  /\ pc = [p \in Proc |-> "idle"]
  /\ op = [p \in Proc |-> "none"]
  /\ data = [p \in Proc |-> NoEntry]
  /\ idx = [p \in Proc |-> 0]
  /\ cur = [p \in Proc |-> 0]
  /\ ret = [p \in Proc |-> "none"]

Goto(p, step) == pc' = [pc EXCEPT ![p] = step]

At(p, i) == cur' = [cur EXCEPT ![p] = i]

Return(p, result) ==
  /\ Goto(p, "idle")
  /\ At(p, 0)
  /\ idx' = [idx EXCEPT ![p] = 0]
  /\ ret' = [ret EXCEPT ![p] = result]

(* A thread calls a method of the store. *)
Call(p, o, d, step) ==
  /\ pc[p] = "idle"
  /\ Goto(p, step)
  /\ op' = [op EXCEPT ![p] = o]
  /\ data' = [data EXCEPT ![p] = d]
  /\ ret' = [ret EXCEPT ![p] = "none"]
  /\ UNCHANGED <<tree, disk, idx, cur>>

Insert(w, d) == Call(w, "insert", d, "nextIndex")

InsertIfNotExists(w, d) == Call(w, "insertIfNew", d, "getIndex")

RemoveAll(w) == Call(w, "removeAll", NoEntry, "maxIndex")

Get(r) == \E o \in {"get", "getOk"} : Call(r, o, NoEntry, "getIndex")

Iterate(r) ==
  \E o \in {"valueIter", "valueIterOk", "errorIter"} :
    Call(r, o, NoEntry, "listKey")

ContainsKey(r) == Call(r, "containsKey", NoEntry, "listKey")

-----------------------------------------------------------------------------

(***************************************************************************)
(* Reading.                                                                *)
(***************************************************************************)

(* key_iter and contains_key look for the index only. *)
ListKey(p) ==
  /\ pc[p] = "listKey"
  /\ \/ /\ revIndex = NoIndex
        /\ Return(p, "unlisted")
     \/ /\ revIndex # NoIndex
        /\ op[p] = "containsKey"
        /\ Return(p, "done")
     \/ /\ revIndex # NoIndex
        /\ op[p] # "containsKey"
        /\ Goto(p, "getIndex")
        /\ UNCHANGED <<idx, cur, ret>>
  /\ UNCHANGED <<tree, disk, op, data>>

GetIndex(p) ==
  /\ pc[p] = "getIndex"
  /\ At(p, IF revIndex = NoIndex THEN 0 ELSE revIndex)
  /\ Goto(p, "getEntry")
  /\ UNCHANGED <<tree, disk, op, data, idx, ret>>

(* Fault: insert_if_not_exists takes any value for the same one. *)
AnswerAnySame(p, e) ==
  \/ /\ op[p] = "insertIfNew" /\ e # NoEntry
     /\ Return(p, "same")
     /\ UNCHANGED data
  \/ /\ op[p] = "insertIfNew" /\ e = NoEntry
     /\ Goto(p, "nextIndex")
     /\ UNCHANGED <<data, idx, cur, ret>>
  \/ /\ op[p] # "insertIfNew"
     /\ data' = [data EXCEPT ![p] = e]
     /\ Return(p, IF e = NoEntry THEN "missing" ELSE "done")

(* What becomes of the entry e that was found, NoEntry if none was. *)
Answer(p, e) ==
  \/ /\ op[p] = "insertIfNew"
     /\ e = data[p]
     /\ Return(p, "same")
     /\ UNCHANGED data
  \/ /\ op[p] = "insertIfNew"
     /\ e # data[p]
     /\ Goto(p, "nextIndex")
     /\ UNCHANGED <<data, idx, cur, ret>>
  \/ /\ op[p] # "insertIfNew"
     /\ data' = [data EXCEPT ![p] = e]
     /\ Return(p, IF e = NoEntry THEN "missing" ELSE "done")

TakesLatest(p) == op[p] \in {"get", "valueIter", "errorIter"}

GetEntry(p) ==
  /\ pc[p] = "getEntry"
  /\ \/ /\ TakesLatest(p) \/ revs[cur[p]] \in OkData \cup {NoEntry}
        /\ Answer(p, revs[cur[p]])
     \/ /\ ~ TakesLatest(p) /\ revs[cur[p]] \in ErrData
        /\ cur[p] = 0
        /\ Answer(p, NoEntry)
     \/ /\ ~ TakesLatest(p) /\ revs[cur[p]] \in ErrData
        /\ cur[p] > 0
        /\ At(p, cur[p] - 1)
        /\ UNCHANGED <<pc, data, idx, ret>>
  /\ UNCHANGED <<tree, disk, op>>

-----------------------------------------------------------------------------

(***************************************************************************)
(* Writing.                                                                *)
(***************************************************************************)

(* Fault: the index is not wrapped. *)
NextRevUnwrapped(ix) == IF ix = NoIndex THEN 0 ELSE ix + 1

(* None gives 0, and so does the overflow of u64::MAX. *)
NextRev(ix) == IF ix \in {NoIndex, MaxRev} THEN 0 ELSE ix + 1

(* Fault: the index wraps over the old revisions, which stay. *)
NextIndexUnwiped(p) ==
  /\ pc[p] = "nextIndex"
  /\ idx' = [idx EXCEPT ![p] = NextRev(revIndex)]
  /\ At(p, 0)
  /\ Goto(p, "putEntry")
  /\ UNCHANGED <<tree, disk, op, data, ret>>

NextIndex(p) ==
  /\ pc[p] = "nextIndex"
  /\ idx' = [idx EXCEPT ![p] = NextRev(revIndex)]
  /\ At(p, IF revIndex = MaxRev THEN MaxRev ELSE 0)
  /\ Goto(p, IF revIndex = MaxRev THEN "wipe" ELSE "putEntry")
  /\ UNCHANGED <<tree, disk, op, data, ret>>

(* Removes the entry the loop is at. *)
Remove(p) ==
  /\ revs' = [revs EXCEPT ![cur[p]] = NoEntry]
  /\ UNCHANGED <<revIndex, disk, op, data>>

(* A loop that removes downwards ends at a revision that is not there. *)
LoopEnds(p) == revs[cur[p]] = NoEntry \/ cur[p] = 0

Wipe(p) ==
  /\ pc[p] = "wipe"
  /\ Remove(p)
  /\ IF LoopEnds(p) THEN Goto(p, "putEntry") /\ At(p, 0)
                    ELSE UNCHANGED pc /\ At(p, cur[p] - 1)
  /\ UNCHANGED <<idx, ret>>

PutEntry(p) ==
  /\ pc[p] = "putEntry"
  /\ revs' = [revs EXCEPT ![idx[p]] = data[p]]
  /\ Goto(p, "putIndex")
  /\ UNCHANGED <<revIndex, disk, op, data, idx, cur, ret>>

PutIndex(p) ==
  /\ pc[p] = "putIndex"
  /\ revIndex' = idx[p]
  /\ At(p, idx[p])
  /\ Goto(p, "findOk")
  /\ UNCHANGED <<revs, disk, op, data, idx, ret>>

(* Fault: the clean-up starts at the smallest index to keep. *)
TrimFrom(p, keep) ==
  \/ /\ keep = 0
     /\ Return(p, "done")
  \/ /\ keep > 0
     /\ At(p, keep)
     /\ Goto(p, "trim")
     /\ UNCHANGED <<idx, ret>>

(* cleanup_revision_history, once it knows the smallest index to keep. *)
TrimBelow(p, keep) ==
  \/ /\ keep = 0
     /\ Return(p, "done")
  \/ /\ keep > 0
     /\ At(p, keep - 1)
     /\ Goto(p, "trim")
     /\ UNCHANGED <<idx, ret>>

(* get_index_of_ok_result, which passes over missing revisions. *)
FindOk(p) ==
  /\ pc[p] = "findOk"
  /\ \/ /\ revs[cur[p]] \in OkData
        /\ TrimBelow(p, cur[p])
     \/ /\ revs[cur[p]] \notin OkData
        /\ cur[p] = 0
        /\ TrimBelow(p, idx[p])
     \/ /\ revs[cur[p]] \notin OkData
        /\ cur[p] > 0
        /\ At(p, cur[p] - 1)
        /\ UNCHANGED <<pc, idx, ret>>
  /\ UNCHANGED <<tree, disk, op, data>>

(* Fault: the clean-up removes one revision only. *)
TrimOne(p) ==
  /\ pc[p] = "trim"
  /\ Remove(p)
  /\ Return(p, "done")

Trim(p) ==
  /\ pc[p] = "trim"
  /\ Remove(p)
  /\ IF LoopEnds(p) THEN Return(p, "done")
                    ELSE At(p, cur[p] - 1) /\ UNCHANGED <<pc, idx, ret>>

-----------------------------------------------------------------------------

(* Fault: remove_all removes the index and leaves the entries. *)
MaxIndexOnly(p) ==
  /\ pc[p] = "maxIndex"
  /\ IF revIndex = NoIndex THEN Return(p, "done")
                           ELSE Goto(p, "dropIndex") /\ UNCHANGED <<idx, cur, ret>>
  /\ UNCHANGED <<tree, disk, op, data>>

MaxIndex(p) ==
  /\ pc[p] = "maxIndex"
  /\ \/ /\ revIndex = NoIndex
        /\ Return(p, "done")
     \/ /\ revIndex # NoIndex
        /\ idx' = [idx EXCEPT ![p] = revIndex]
        /\ At(p, 0)
        /\ Goto(p, "dropEntry")
        /\ UNCHANGED ret
  /\ UNCHANGED <<tree, disk, op, data>>

(* Fault: remove_all stops short of the entry of the index. *)
DropEntryBelow(p) ==
  /\ pc[p] = "dropEntry"
  /\ IF cur[p] = idx[p]
     THEN Goto(p, "dropIndex") /\ At(p, 0) /\ UNCHANGED <<tree, disk, op, data>>
     ELSE UNCHANGED pc /\ At(p, cur[p] + 1) /\ Remove(p)
  /\ UNCHANGED <<idx, ret>>

DropEntry(p) ==
  /\ pc[p] = "dropEntry"
  /\ Remove(p)
  /\ IF cur[p] = idx[p] THEN Goto(p, "dropIndex") /\ At(p, 0)
                        ELSE UNCHANGED pc /\ At(p, cur[p] + 1)
  /\ UNCHANGED <<idx, ret>>

DropIndex(p) ==
  /\ pc[p] = "dropIndex"
  /\ revIndex' = NoIndex
  /\ Return(p, "done")
  /\ UNCHANGED <<revs, disk, op, data>>

-----------------------------------------------------------------------------

(***************************************************************************)
(* Faults.  Most methods pass an error on with `?`.  Three do not: the     *)
(* iterators and contains_key take a failed look-up for an absent key,     *)
(* insert_if_not_exists takes a failed get for an absent value, and the    *)
(* clean-up takes a failed scan for a history without a success.           *)
(***************************************************************************)

(* Fault: insert goes on when the entry could not be put. *)
SledErrorIgnored(p) ==
  /\ pc[p] \in FailingCalls
  /\ IF pc[p] = "putEntry" THEN Goto(p, "putIndex") /\ UNCHANGED <<idx, cur, ret>>
                           ELSE Return(p, "failed")
  /\ UNCHANGED <<tree, disk, op, data>>

SledError(p) ==
  /\ pc[p] \in FailingCalls
  /\ \/ /\ pc[p] = "listKey"
        /\ Return(p, "unlisted")
     \/ /\ pc[p] \in {"getIndex", "getEntry"} /\ op[p] = "insertIfNew"
        /\ Goto(p, "nextIndex")
        /\ UNCHANGED <<idx, cur, ret>>
     \/ /\ pc[p] = "findOk"
        /\ TrimBelow(p, idx[p])
     \/ /\ pc[p] \notin {"listKey", "findOk"}
        /\ ~ (pc[p] \in {"getIndex", "getEntry"} /\ op[p] = "insertIfNew")
        /\ Return(p, "failed")
  /\ UNCHANGED <<tree, disk, op, data>>

(* sled writes its log in the background. *)
Flush ==
  /\ Crashes
  /\ disk' = [index |-> revIndex, revs |-> revs]
  /\ UNCHANGED <<tree, local>>

(* The process is killed and started again. *)
Crash ==
  /\ Crashes
  /\ revIndex' = disk.index
  /\ revs' = disk.revs
  /\ pc' = [p \in Proc |-> "idle"]
  /\ op' = [p \in Proc |-> "none"]
  /\ data' = [p \in Proc |-> NoEntry]
  /\ idx' = [p \in Proc |-> 0]
  /\ cur' = [p \in Proc |-> 0]
  /\ ret' = [p \in Proc |-> "none"]
  /\ UNCHANGED disk

-----------------------------------------------------------------------------

WriterCalls(w) ==
  \/ \E d \in Data : Insert(w, d) \/ InsertIfNotExists(w, d)
  \/ RemoveAll(w)

ReaderCalls(r) == Get(r) \/ Iterate(r) \/ ContainsKey(r)

(* Everyone's steps but ListKey, which only readers take. *)
Step(p) ==
  \/ GetIndex(p) \/ GetEntry(p)
  \/ NextIndex(p) \/ Wipe(p) \/ PutEntry(p) \/ PutIndex(p)
  \/ FindOk(p) \/ Trim(p)
  \/ MaxIndex(p) \/ DropEntry(p) \/ DropIndex(p)
  \/ SledError(p)

Next ==
  \/ \E w \in Writers : WriterCalls(w)
  \/ \E r \in Readers : ReaderCalls(r) \/ ListKey(r)
  \/ \E p \in Proc : Step(p)
  \/ Flush
  \/ Crash

Spec == Init /\ [][Next]_vars

-----------------------------------------------------------------------------

(* The store's variables stay in their types. *)
TypeOK ==
  /\ revIndex \in Rev \cup {NoIndex}
  /\ revs \in [Rev -> Data \cup {NoEntry}]
  /\ disk \in [index : Rev \cup {NoIndex}, revs : [Rev -> Data \cup {NoEntry}]]
  /\ pc \in [Proc -> Steps \cup {"idle"}]
  /\ op \in [Proc -> WriteOps \cup ReadOps \cup {"none"}]
  /\ data \in [Proc -> Data \cup {NoEntry}]
  /\ idx \in [Proc -> Rev]
  /\ cur \in [Proc -> Rev]
  /\ ret \in [Proc -> Results]

(***************************************************************************)
(* What the store promises the owner of a key.                             *)
(***************************************************************************)

Register ==
  INSTANCE EntryRegister WITH
    latest <- Latest,
    lastOk <- LastOk,
    clearing <- Clearing,
    savedLatest <- LatestIn(disk.index, disk.revs),
    savedLastOk <- LastOkIn(disk.index, disk.revs)

(* To its single owner, a key is an EntryRegister: writing an error leaves
   the last success alone, the clean-up never removes what can be read, and
   a failed call or a crash at any sled operation leaves either the old
   contents or the new ones. *)
IsEntryRegister == Register!Spec

(* When an insert or a remove_all of the only writer has succeeded, whatever
   failed before it, the key holds what the call promised: the payload
   inserted is the latest one, it is the last success if it is one, and
   after remove_all there is none. *)
SettledWrite ==
  \A w \in Writers :
    pc[w] = "idle" /\ ret[w] = "done" =>
      IF op[w] = "removeAll"
      THEN revIndex = NoIndex
      ELSE Latest = data[w] /\ (data[w] \in OkData => LastOk = data[w])

(* When insert_if_not_exists has found the payload to be there already, the
   payload is the last success that the key holds. *)
SettledSame ==
  \A w \in Writers :
    pc[w] = "idle" /\ ret[w] = "same" => LastOk = data[w]

Kept == {i \in Rev : revs[i] # NoEntry}

(* After a successful insert the tree keeps the last success and the errors
   after it, or the latest error alone when there is no success: the
   history does not grow beyond what a reader may still need. *)
HistoryTrimmed ==
  \A w \in Writers :
    pc[w] = "idle" /\ ret[w] = "done" /\ op[w] \in {"insert", "insertIfNew"} =>
      \/ \E i \in Rev : IsLastOk(revIndex, revs, i) /\ Kept = i..revIndex
      \/ LastOk = NoEntry /\ Kept = {revIndex}

(* Whenever no writer is in a call, the index names a revision that is
   there, and no index means no entry. *)
IndexedEntryExists ==
  (\A w \in Writers : pc[w] = "idle") =>
    IF revIndex = NoIndex THEN Kept = {} ELSE revIndex \in Kept

=============================================================================
