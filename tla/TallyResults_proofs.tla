------------------------ MODULE TallyResults_proofs ------------------------
(***************************************************************************)
(* The cursor of the tally results passes nothing over, for every set of   *)
(* proposals and any number of votes and faults.                           *)
(*                                                                         *)
(* NothingPassed is not inductive: a failure moves the cursor to the first *)
(* proposal of the list, so what is due has to be in the list while a run  *)
(* goes on.                                                                *)
(***************************************************************************)
EXTENDS TallyResults, TLAPS

DueListed == at # "idle" => due \subseteq todo

First == at \in {"marking", "saving"} => \A j \in todo : cur <= j

TallyInv == TypeOK /\ NothingPassed /\ DueListed /\ First

LEMMA InitInv == Init => TallyInv
  BY TallyAssumption DEF Init, TallyInv, TypeOK, NothingPassed, DueListed,
     First, None

(* A run that begins lists all that is due. *)
LEMMA ListFromInv ==
  ASSUME TallyInv, at = "idle", NEW c \in {cursor, None}, ListFrom(c),
         faults' \in 0..MaxFaults
  PROVE  TallyInv'
<1>1. due' \subseteq Listed(c)
  BY TallyAssumption
     DEF TallyInv, TypeOK, NothingPassed, ListFrom, DueNow, Listed, None
<1>2. TypeOK'
  BY <1>1 DEF TallyInv, TypeOK, ListFrom, Listed, world
<1>3. NothingPassed'
  BY DEF TallyInv, NothingPassed, ListFrom, DueNow, None
<1>4. DueListed' /\ First'
  BY <1>1 DEF DueListed, First, ListFrom
<1> QED BY <1>2, <1>3, <1>4 DEF TallyInv

LEMMA AskInv ==
  ASSUME TallyInv, NEW i \in Ids, NEW a \in Nat, Ask(i, a)
  PROVE  TallyInv'
  BY DEF TallyInv, TypeOK, NothingPassed, DueListed, First, Ask, world

LEMMA MarkInv ==
  ASSUME TallyInv, Mark
  PROVE  TallyInv'
  BY DEF TallyInv, TypeOK, NothingPassed, DueListed, First, Mark, world, None

LEMMA SaveInv ==
  ASSUME TallyInv, Save
  PROVE  TallyInv'
<1>1. CASE answer = 0
  BY <1>1 DEF TallyInv, TypeOK, NothingPassed, DueListed, First, Save, End,
     Drop, world, None
<1>2. CASE answer # 0
  BY <1>2 DEF TallyInv, TypeOK, NothingPassed, DueListed, First, Save, End,
     Drop, world, None
<1> QED BY <1>1, <1>2

LEMMA CutShortInv ==
  ASSUME TallyInv, CutShort
  PROVE  TallyInv'
  BY TallyAssumption
     DEF TallyInv, TypeOK, NothingPassed, DueListed, First, CutShort, End,
         Drop, world, None

LEMMA NextInv == TallyInv /\ [Next]_vars => TallyInv'
<1> SUFFICES ASSUME TallyInv, [Next]_vars
             PROVE  TallyInv'
  OBVIOUS
<1>1. CASE Start
  BY <1>1, ListFromInv DEF Start, TallyInv, TypeOK
<1>2. CASE StartUnread
  <2>1. faults' \in 0..MaxFaults
    BY <1>2, TallyAssumption DEF StartUnread, TallyInv, TypeOK
  <2> QED BY <1>2, <2>1, ListFromInv DEF StartUnread
<1>3. CASE Mark
  BY <1>3, MarkInv
<1>4. CASE Save
  BY <1>4, SaveInv
<1>5. CASE CutShort
  BY <1>5, CutShortInv
<1>6. ASSUME NEW i \in Ids, Refused(i)
      PROVE  TallyInv'
  BY <1>6, AskInv DEF Refused
<1>7. ASSUME NEW i \in Ids, Answered(i)
      PROVE  TallyInv'
  BY <1>7, AskInv DEF Answered, TallyInv, TypeOK
<1>8. ASSUME NEW i \in Ids, Vote(i) \/ Appear(i) \/ Vanish(i)
      PROVE  TallyInv'
  BY <1>8 DEF Vote, Appear, Vanish, TallyInv, TypeOK, NothingPassed,
     DueListed, First, run
<1>9. CASE UNCHANGED vars
  BY <1>9 DEF vars, world, run, TallyInv, TypeOK, NothingPassed, DueListed, First
<1> QED BY <1>1, <1>2, <1>3, <1>4, <1>5, <1>6, <1>7, <1>8, <1>9 DEF Next, Step

(***************************************************************************)
(* The variables of the tally results have their types.                    *)
(***************************************************************************)
THEOREM TallyTypes == Spec => []TypeOK
<1>1. TallyInv => TypeOK
  BY DEF TallyInv
<1> QED BY <1>1, InitInv, NextInv, PTL DEF Spec

(***************************************************************************)
(* A failed or interrupted run passes over nothing that was there when its *)
(* pass began: what is still to be stored is at the cursor or after it.    *)
(***************************************************************************)
THEOREM TalliesNothingPassed == Spec => []NothingPassed
<1>1. TallyInv => NothingPassed
  BY DEF TallyInv
<1> QED BY <1>1, InitInv, NextInv, PTL DEF Spec

=============================================================================
