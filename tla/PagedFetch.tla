----------------------------- MODULE PagedFetch -----------------------------
(***************************************************************************)
(* The paged fetches of one blockchain: the proposals, one task per        *)
(* status, and the validators, a single task, go through the same code.    *)
(*                                                                         *)
(* A task asks the chain for one page of its list per run, saves the items *)
(* of the page one by one, and then moves its cursor, which is kept in the *)
(* store with the items, so that the next run asks for the next page.  The *)
(* tasks run side by side and write the same keys, those of the items;     *)
(* meanwhile items move from one list of the chain to another.             *)
(*                                                                         *)
(* An item is its number, which is also its place in the pages: a page     *)
(* goes on from the number the cursor holds.  What is saved of an item is  *)
(* the list it was found on.  The cursor Beginning stands for None, for an *)
(* empty key and for no cursor at all, which the code treats alike.  A key *)
(* of the store is the register that FallbackEntryStore implements, and    *)
(* AgentManager runs no task twice at a time.  What is saved of a proposal *)
(* is what this agent has saved of it: the views that another agent puts   *)
(* under the same key make the next run save the proposal again.           *)
(***************************************************************************)
EXTENDS Naturals

CONSTANTS
  Items,      \* the numbers of the items
  Lists,      \* the lists of the chain: the statuses of a proposal
  Entry,      \* the list on which an item appears first
  Moves,      \* from which list to which an item may move
  Nowhere,    \* the list of an item that is not on the chain, or not saved
  Failing,    \* the lists whose tasks meet failing operations of the store
  MaxCrashes  \* how often the process may be killed

Beginning == 0

ASSUME ItemsAssumption == Items \subseteq Nat \ {0}

ASSUME ListsAssumption ==
  /\ Nowhere \notin Lists
  /\ Entry \in Lists
  /\ Moves \subseteq Lists \X Lists
  /\ \A m \in Moves : m[1] # m[2]

ASSUME FaultsAssumption ==
  /\ Failing \subseteq Lists
  /\ MaxCrashes \in Nat

Cursors == Items \cup {Beginning}

VARIABLES
  list,    \* the chain: the list every item is on
  saved,   \* the store: what is saved of every item
  cursor,  \* the store: where the task of every list goes on
  disk,    \* both of them, as the last flush left them
  at,      \* what a task does: "idle", "asking" or "saving"
  from,    \* the cursor it has read
  page,    \* the items of its page that are not saved yet
  next,    \* the cursor that came with the page
  crashes  \* how often the process has been killed

(***************************************************************************)
(* History, for the properties only: on which lists an item was found, of  *)
(* what the store holds, and which items came to a list during its pass.   *)
(***************************************************************************)
VARIABLES found, late

vars  == <<list, saved, cursor, disk, at, from, page, next, crashes,
           found, late>>

-----------------------------------------------------------------------------

Init ==
  /\ list = [i \in Items |-> Nowhere]
  /\ saved = [i \in Items |-> Nowhere]
  /\ cursor = [l \in Lists |-> Beginning]
  /\ found = [i \in Items |-> {}]
  /\ at = [l \in Lists |-> "idle"]
  /\ from = [l \in Lists |-> Beginning]
  /\ page = [l \in Lists |-> {}]
  /\ next = [l \in Lists |-> Beginning]
  /\ late = [l \in Lists |-> {}]
  /\ disk = [saved |-> saved, cursor |-> cursor, found |-> found, late |-> late]
  /\ crashes = 0

(***************************************************************************)
(* The chain: an item appears, or moves on.                                *)
(***************************************************************************)
Arrive(i, l) ==
  /\ \/ list[i] = Nowhere /\ l = Entry
     \/ <<list[i], l>> \in Moves
  /\ list' = [list EXCEPT ![i] = l]
  /\ late' = [late EXCEPT ![l] = @ \cup {i}]
  /\ disk' = [disk EXCEPT !.late[l] = @ \cup {i}]
  /\ UNCHANGED <<saved, cursor, found, at, from, page, next, crashes>>

(***************************************************************************)
(* A run of the task of a list begins with the cursor.  When it cannot be  *)
(* read, the task begins at the beginning.                                 *)
(***************************************************************************)
Start(l) ==
  /\ at[l] = "idle"
  /\ \/ from' = [from EXCEPT ![l] = cursor[l]]
     \/ l \in Failing /\ from' = [from EXCEPT ![l] = Beginning]
  /\ at' = [at EXCEPT ![l] = "asking"]
  /\ late' = IF cursor[l] = Beginning THEN [late EXCEPT ![l] = {}] ELSE late
  /\ UNCHANGED <<list, saved, cursor, found, disk, page, next, crashes>>

(***************************************************************************)
(* The chain answers with the first of the items that are left, as many as *)
(* it likes, and with the number of the first one after them.              *)
(***************************************************************************)
Rest(l, c) == {i \in Items : list[i] = l /\ i >= c}

IsPage(pg, nx, rest) ==
  /\ pg \subseteq rest
  /\ rest = {} \/ pg # {}
  /\ \A i \in pg, j \in rest \ pg : i < j
  /\ \/ pg = rest /\ nx = Beginning
     \/ nx \in rest \ pg /\ \A j \in rest \ pg : nx <= j

Answer(l) ==
  /\ at[l] = "asking"
  /\ \E pg \in SUBSET Items, nx \in Cursors :
       /\ IsPage(pg, nx, Rest(l, from[l]))
       /\ page' = [page EXCEPT ![l] = pg]
       /\ next' = [next EXCEPT ![l] = nx]
  /\ at' = [at EXCEPT ![l] = "saving"]
  /\ UNCHANGED <<list, saved, cursor, found, late, disk, from, crashes>>

-----------------------------------------------------------------------------

(***************************************************************************)
(* A run ends, and what it kept for itself is gone.                        *)
(***************************************************************************)
Leave(l) ==
  /\ at' = [at EXCEPT ![l] = "idle"]
  /\ from' = [from EXCEPT ![l] = Beginning]
  /\ page' = [page EXCEPT ![l] = {}]
  /\ next' = [next EXCEPT ![l] = Beginning]

SetCursor(l, c) == cursor' = [cursor EXCEPT ![l] = c]

(* Fault: after a failed query the task begins at the beginning again. *)
RefuseForgets(l) ==
  /\ at[l] = "asking"
  /\ SetCursor(l, Beginning)
  /\ Leave(l)
  /\ UNCHANGED <<list, saved, found, late, disk, crashes>>

(***************************************************************************)
(* The query fails.  The cursor that was read is saved again.              *)
(***************************************************************************)
Refuse(l) ==
  /\ at[l] = "asking"
  /\ \/ SetCursor(l, from[l])
     \/ l \in Failing /\ UNCHANGED cursor
  /\ Leave(l)
  /\ UNCHANGED <<list, saved, found, late, disk, crashes>>

(***************************************************************************)
(* The items of the page are saved in their order.  One that cannot be     *)
(* saved ends the run, and the cursor stays where it is; the insert that   *)
(* failed may have been done.                                              *)
(***************************************************************************)
Put(l, i) ==
  /\ saved' = [saved EXCEPT ![i] = l]
  /\ found' = [found EXCEPT ![i] = @ \cup {l}]

First(l, i) == i \in page[l] /\ \A j \in page[l] : i <= j

(* Fault: the task goes on behind an item that could not be saved. *)
SaveRegardless(l, i) ==
  /\ at[l] = "saving"
  /\ First(l, i)
  /\ \/ Put(l, i)
     \/ l \in Failing /\ UNCHANGED <<saved, found>>
  /\ page' = [page EXCEPT ![l] = @ \ {i}]
  /\ UNCHANGED <<list, cursor, late, disk, at, from, next, crashes>>

Save(l, i) ==
  /\ at[l] = "saving"
  /\ First(l, i)
  /\ \/ /\ Put(l, i)
        /\ page' = [page EXCEPT ![l] = @ \ {i}]
        /\ UNCHANGED <<at, from, next>>
     \/ /\ l \in Failing
        /\ Leave(l)
        /\ \/ UNCHANGED <<saved, found>>
           \/ Put(l, i)
  /\ UNCHANGED <<list, cursor, late, disk, crashes>>

(* Fault: the cursor is not removed behind the last page. *)
FinishStaying(l) ==
  /\ at[l] = "saving"
  /\ page[l] = {}
  /\ cursor' = IF next[l] = Beginning
                 THEN cursor ELSE [cursor EXCEPT ![l] = next[l]]
  /\ Leave(l)
  /\ UNCHANGED <<list, saved, found, late, disk, crashes>>

(* Fault: the cursor is set behind the item it should name. *)
FinishBehind(l) ==
  /\ at[l] = "saving"
  /\ page[l] = {}
  /\ SetCursor(l, next[l] + 1)
  /\ Leave(l)
  /\ UNCHANGED <<list, saved, found, late, disk, crashes>>

(***************************************************************************)
(* Behind the last item of the page the cursor moves: to the next page, or *)
(* back to the beginning when the page was the last one.                   *)
(***************************************************************************)
Finish(l) ==
  /\ at[l] = "saving"
  /\ page[l] = {}
  /\ \/ SetCursor(l, next[l])
     \/ l \in Failing /\ UNCHANGED cursor
  /\ Leave(l)
  /\ UNCHANGED <<list, saved, found, late, disk, crashes>>

-----------------------------------------------------------------------------

(***************************************************************************)
(* sled writes its log in order and flushes it now and then; a process     *)
(* that is killed comes back with what was flushed.  MaxCrashes bounds how *)
(* often it is; a flush after the last time would be of no consequence.    *)
(***************************************************************************)
Flush ==
  /\ crashes < MaxCrashes
  /\ disk' = [saved |-> saved, cursor |-> cursor, found |-> found,
              late |-> late]
  /\ UNCHANGED <<list, saved, cursor, found, late, at, from, page, next,
                 crashes>>

Crash ==
  /\ crashes < MaxCrashes
  /\ crashes' = crashes + 1
  /\ saved' = disk.saved
  /\ cursor' = disk.cursor
  /\ found' = disk.found
  /\ late' = disk.late
  /\ at' = [l \in Lists |-> "idle"]
  /\ from' = [l \in Lists |-> Beginning]
  /\ page' = [l \in Lists |-> {}]
  /\ next' = [l \in Lists |-> Beginning]
  /\ UNCHANGED <<list, disk>>

Run(l) ==
  Start(l) \/ Answer(l) \/ Refuse(l) \/ (\E i \in Items : Save(l, i)) \/ Finish(l)

Next ==
  \/ \E i \in Items, l \in Lists : Arrive(i, l)
  \/ \E l \in Lists : Run(l)
  \/ Flush \/ Crash

Spec == Init /\ [][Next]_vars

(***************************************************************************)
(* Every task is run again and again (AgentManager), goes on while nothing *)
(* holds it up, and is answered now and then.                              *)
(***************************************************************************)
Fairness ==
  \A l \in Lists :
    /\ WF_vars(Start(l) \/ (\E i \in Items : Save(l, i)) \/ Finish(l))
    /\ SF_vars(Answer(l))

FairSpec == Spec /\ Fairness

-----------------------------------------------------------------------------

TypeOK ==
  /\ list \in [Items -> Lists \cup {Nowhere}]
  /\ saved \in [Items -> Lists \cup {Nowhere}]
  /\ cursor \in [Lists -> Cursors]
  /\ found \in [Items -> SUBSET Lists]
  /\ late \in [Lists -> SUBSET Items]
  /\ disk \in [saved  : [Items -> Lists \cup {Nowhere}],
               cursor : [Lists -> Cursors],
               found  : [Items -> SUBSET Lists],
               late   : [Lists -> SUBSET Items]]
  /\ at \in [Lists -> {"idle", "asking", "saving"}]
  /\ from \in [Lists -> Cursors]
  /\ page \in [Lists -> SUBSET Items]
  /\ next \in [Lists -> Cursors]
  /\ crashes \in 0..MaxCrashes

(***************************************************************************)
(* No item is skipped.  What lies before the cursor of a list and has been *)
(* on the list since the pass began is in the store as an item of that     *)
(* list, or has been: whatever failed, and wherever the process was        *)
(* killed.                                                                 *)
(***************************************************************************)
Settled(i, l) == list[i] = l /\ i \notin late[l]

NothingSkipped ==
  \A l \in Lists, i \in Items :
    Settled(i, l) /\ i < cursor[l] => l \in found[i]

(***************************************************************************)
(* A pass is not begun anew before it is complete.  Unless the process is  *)
(* killed, or the store fails the task, a cursor moves back only when      *)
(* every item that was on the list when the pass began has been found; a   *)
(* query that fails, which is why the cursor is kept at all, does not move *)
(* it.                                                                     *)
(***************************************************************************)
BackWhenComplete ==
  [][\A l \in Lists \ Failing :
       cursor'[l] < cursor[l] =>
         \/ crashes' # crashes
         \/ \A i \in Items : Settled(i, l) => l \in found[i]]_vars

(***************************************************************************)
(* In the end the store agrees with the chain, although the tasks of two   *)
(* lists may save an item in the wrong order: what is saved of an item is  *)
(* the list it has come to rest on.  A task that the store fails for ever  *)
(* harms the items of its own list only.                                   *)
(***************************************************************************)
Agrees ==
  \A i \in Items : <>[](list[i] \in Failing \/ saved[i] = list[i])

=============================================================================
