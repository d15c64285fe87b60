----------------------- MODULE FallbackEntryStoreReads -----------------------
(***************************************************************************)
(* The reads of the entry store, told from the outside.                    *)
(*                                                                         *)
(* Two history variables record, for every read in progress, what the key  *)
(* has held since the read began.  They let us say what a reader that runs *)
(* among the sled operations of a writer may be answered.                  *)
(***************************************************************************)
EXTENDS FallbackEntryStore

VARIABLES
  latestSeen, \* per reader, the latest entries since its call began
  okSeen      \* per reader, the last successes since its call began

hvars == <<vars, latestSeen, okSeen>>

(* The entries whose index is about to be written: one of them may already
   be met at a revision that was in use before the index wrapped. *)
Publishing == {data[w] : w \in {v \in Writers : pc[v] = "putIndex"}}

ReadsInit ==
  /\ Init
  /\ latestSeen = [r \in Readers |-> {}]
  /\ okSeen = [r \in Readers |-> {}]

Record(seen, now) ==
  [r \in Readers |-> IF pc'[r] = "idle" THEN {} ELSE seen[r] \cup now]

ReadsNext ==
  /\ Next
  /\ latestSeen' = Record(latestSeen, {Latest'} \cup Publishing')
  /\ okSeen' = Record(okSeen, {LastOk'} \cup Publishing')

ReadsSpec == ReadsInit /\ [][ReadsNext]_hvars

-----------------------------------------------------------------------------

Answered(r, result) ==
  /\ pc[r] # "idle" /\ pc'[r] = "idle"
  /\ ret'[r] = result
  /\ op[r] # "containsKey"

(* A reader is never handed an entry that the key did not hold at some
   moment of the call: Get returns what was the latest entry then, GetOk
   what was the last success, even while the writer trims the history,
   removes it, or wraps the index under the reader's loop. *)
ReadsAreRegular ==
  [][\A r \in Readers :
       Answered(r, "done") =>
         data'[r] \in IF TakesLatest(r) THEN latestSeen[r] ELSE okSeen[r]]_hvars

=============================================================================
