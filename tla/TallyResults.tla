---------------------------- MODULE TallyResults ----------------------------
(***************************************************************************)
(* The tally results of a blockchain: a run of the task asks the chain for *)
(* the tally of every proposal that the store shows as being voted on, in  *)
(* the order of their numbers, and stores it.  It ends with the first one  *)
(* that fails, whose number it leaves in the cursor: the next run lists    *)
(* the proposals from there on.  The first success removes the cursor.     *)
(*                                                                         *)
(* The proposals come and go meanwhile, by what other agents insert: one   *)
(* is out of sight before it is fetched, while its view is in its place,   *)
(* until it is fetched again, and when its voting period is over.          *)
(* A tally is the number of the votes.  Of a key the last success counts,  *)
(* so that an error that is stored above it changes nothing.               *)
(***************************************************************************)
EXTENDS Naturals

CONSTANTS
  Ids,       \* the numbers of the proposals
  MaxVotes,  \* how many votes a proposal gets
  MaxFaults  \* how often a run is cut short

None == 0

ASSUME TallyAssumption ==
  /\ Ids \subseteq Nat \ {None}
  /\ MaxVotes \in Nat /\ MaxFaults \in Nat

VARIABLES
  shown,   \* the proposals that the store shows in their voting period
  votes,   \* the chain: the votes for a proposal so far, 1 to begin with
  stored,  \* the tally results in the store, 0 for none
  cursor,  \* the store: the number to continue at, or None
  at,      \* what the run does: "idle", "asking", "marking" or "saving"
  todo,    \* the proposals it has listed and not done yet
  cur,     \* the proposal it has asked for
  answer,  \* the tally that has come back, 0 for a failure
  faults   \* how many runs have been cut short

(***************************************************************************)
(* History, for the properties only: what was there to be asked for when a *)
(* pass began, and has not been stored since, nor been away.               *)
(***************************************************************************)
VARIABLE due

world == <<shown, votes>>
run   == <<at, todo, cur, answer>>
vars  == <<world, stored, cursor, run, faults, due>>

Init ==
  /\ shown = {}
  /\ votes = [i \in Ids |-> 1]
  /\ stored = [i \in Ids |-> 0]
  /\ cursor = None
  /\ at = "idle" /\ todo = {} /\ cur = None /\ answer = 0
  /\ faults = 0
  /\ due = {}

-----------------------------------------------------------------------------

(* Fault: the list begins after the number to continue at. *)
ListedAfter(c) == {i \in shown : c = None \/ i > c}

(* The proposals in their voting period from the one to continue at. *)
Listed(c) == {i \in shown : c = None \/ i >= c}

(***************************************************************************)
(* What is due when a run begins.  It is a new pass without a cursor.      *)
(***************************************************************************)
DueNow == IF cursor = None THEN shown ELSE due \cap shown

(* Fault: a run begins without a proposal. *)
ListFromEmpty(c) ==
  /\ todo' = Listed(c)
  /\ at' = "asking"
  /\ due' = DueNow
  /\ UNCHANGED <<world, stored, cursor, cur, answer>>

(***************************************************************************)
(* A run begins with the cursor; one that cannot be read counts as none.   *)
(* Without a proposal the run ends where it begins.                        *)
(***************************************************************************)
ListFrom(c) ==
  /\ todo' = Listed(c)
  /\ at' = IF Listed(c) = {} THEN "idle" ELSE "asking"
  /\ due' = DueNow
  /\ UNCHANGED <<world, stored, cursor, cur, answer>>

Start ==
  /\ at = "idle"
  /\ ListFrom(cursor) /\ UNCHANGED faults

StartUnread ==
  /\ at = "idle" /\ cursor # None
  /\ faults < MaxFaults /\ faults' = faults + 1
  /\ ListFrom(None)

(* Fault: the proposals are not sorted. *)
AskAny(i, a) ==
  /\ at = "asking"
  /\ i \in todo
  /\ cur' = i /\ answer' = a
  /\ at' = "marking"
  /\ UNCHANGED <<world, stored, cursor, todo, faults, due>>

(* The first of the list is asked for, and answered with votes or failure. *)
Ask(i, a) ==
  /\ at = "asking"
  /\ i \in todo /\ \A j \in todo : i <= j
  /\ cur' = i /\ answer' = a
  /\ at' = "marking"
  /\ UNCHANGED <<world, stored, cursor, todo, faults, due>>

Answered(i) == Ask(i, votes[i])
Refused(i)  == Ask(i, 0)

(* The cursor is written before the result. *)
Mark ==
  /\ at = "marking"
  /\ cursor' = IF answer = 0 THEN cur ELSE None
  /\ at' = "saving"
  /\ UNCHANGED <<world, stored, todo, cur, answer, faults, due>>

Drop == cur' = None /\ answer' = 0

End == at' = "idle" /\ todo' = {}

(* A failure is the last of its run; a success goes on to the next. *)
Save ==
  /\ at = "saving"
  /\ IF answer = 0
       THEN End /\ UNCHANGED <<stored, due>>
       ELSE /\ stored' = [stored EXCEPT ![cur] = answer]
            /\ due' = due \ {cur}
            /\ todo' = todo \ {cur}
            /\ at' = IF todo = {cur} THEN "idle" ELSE "asking"
  /\ Drop
  /\ UNCHANGED <<world, cursor, faults>>

(***************************************************************************)
(* A run is cut short by a store that fails or by the end of the runtime,  *)
(* before or after what it was about to write has been written.            *)
(***************************************************************************)
CutShort ==
  /\ at # "idle"
  /\ faults < MaxFaults /\ faults' = faults + 1
  /\ End /\ Drop
  /\ cursor' \in {cursor} \cup
       (IF at = "marking" THEN {IF answer = 0 THEN cur ELSE None} ELSE {})
  /\ UNCHANGED <<world, stored, due>>

-----------------------------------------------------------------------------

(***************************************************************************)
(* The other agents insert a proposal, or something else in its place.     *)
(***************************************************************************)
Appear(i) ==
  /\ shown' = shown \cup {i}
  /\ UNCHANGED <<votes, stored, cursor, run, faults, due>>

Vanish(i) ==
  /\ shown' = shown \ {i}
  /\ UNCHANGED <<votes, stored, cursor, run, faults, due>>

Vote(i) ==
  /\ votes[i] < MaxVotes
  /\ votes' = [votes EXCEPT ![i] = @ + 1]
  /\ UNCHANGED <<shown, stored, cursor, run, faults, due>>

Step == Start \/ Mark \/ Save \/ \E i \in Ids : Refused(i)

Next ==
  \/ Step \/ StartUnread \/ CutShort
  \/ \E i \in Ids : Answered(i) \/ Vote(i) \/ Appear(i) \/ Vanish(i)

Spec == Init /\ [][Next]_vars

(***************************************************************************)
(* The task is run again and again (AgentManager), and the chain does not  *)
(* refuse the same proposal for ever.                                      *)
(***************************************************************************)
FairSpec ==
  /\ Spec
  /\ WF_vars(Step)
  /\ \A i \in Ids : SF_vars(Answered(i))

-----------------------------------------------------------------------------

(***************************************************************************)
(* The store and the run are what their comments say, and a run that goes  *)
(* on has something to do.                                                 *)
(***************************************************************************)
TypeOK ==
  /\ shown \subseteq Ids
  /\ votes \in [Ids -> Nat]
  /\ stored \in [Ids -> Nat]
  /\ cursor \in Ids \cup {None}
  /\ at \in {"idle", "asking", "marking", "saving"}
  /\ todo \subseteq Ids /\ due \subseteq Ids
  /\ cur \in Ids \cup {None} /\ answer \in Nat
  /\ faults \in 0..MaxFaults
  /\ at = "idle" <=> todo = {}
  /\ at \in {"marking", "saving"} => cur \in todo

(***************************************************************************)
(* The cursor passes nothing over: what was there when a pass began and is *)
(* still to be stored comes at the cursor or after it, wherever runs have  *)
(* failed or were cut short, and whatever has come and gone.               *)
(***************************************************************************)
NothingPassed == cursor # None => \A i \in due : i >= cursor

(***************************************************************************)
(* A cursor above all that is in sight: the list is empty, and the cursor, *)
(* which only an answer removes, stays.                                    *)
(***************************************************************************)
Starving == cursor # None /\ \A i \in shown : i < cursor

(***************************************************************************)
(* The last tally of a proposal that stays in sight is stored in the end,  *)
(* unless the cursor is left above all that is in sight, over and over.    *)
(***************************************************************************)
CatchesUp ==
  \A i \in Ids :
    <>[](i \in shown) => <>[](stored[i] = votes[i]) \/ []<>Starving

=============================================================================
