------------------------- MODULE PagedFetch_proofs -------------------------
(***************************************************************************)
(* PagedFetch skips no item, for any items, lists and moves between them,  *)
(* any failures and any number of crashes; and without failures of the     *)
(* store a pass is not begun anew before it is complete.                   *)
(***************************************************************************)
EXTENDS PagedFetch, TLAPS

(***************************************************************************)
(* What lies before a cursor has been found.  This holds of the cursors in *)
(* the store, of those on the disk and of those that tasks have read.      *)
(***************************************************************************)
Behind(l, c, f, lt) ==
  \A i \in Items : list[i] = l /\ i \notin lt[l] /\ i < c => l \in f[i]

StoreSafe == \A l \in Lists : Behind(l, cursor[l], found, late)

DiskSafe == \A l \in Lists : Behind(l, disk.cursor[l], disk.found, disk.late)

FromSafe == \A l \in Lists : Behind(l, from[l], found, late)

(***************************************************************************)
(* What a page should bring up to the next cursor has been found, or is    *)
(* still on the page.                                                      *)
(***************************************************************************)
PageSafe ==
  \A l \in Lists :
    at[l] = "saving" =>
      \A i \in Items :
        Settled(i, l) /\ (next[l] = Beginning \/ i < next[l]) =>
          l \in found[i] \/ i \in page[l]

SkipInv == TypeOK /\ StoreSafe /\ DiskSafe /\ FromSafe /\ PageSafe

USE ItemsAssumption, ListsAssumption, FaultsAssumption

LEMMA CursorsAreNat == Items \subseteq Nat /\ Cursors \subseteq Nat
BY DEF Cursors, Beginning

LEMMA InitSkip == Init => SkipInv
<1> SUFFICES ASSUME Init PROVE SkipInv
  OBVIOUS
<1>1. TypeOK
  BY DEF Init, TypeOK, Cursors, Beginning
<1>2. StoreSafe /\ DiskSafe /\ FromSafe /\ PageSafe
  BY DEF Init, StoreSafe, DiskSafe, FromSafe, PageSafe, Behind, Beginning
<1> QED
  BY <1>1, <1>2 DEF SkipInv

-----------------------------------------------------------------------------

(***************************************************************************)
(* Type correctness.                                                       *)
(***************************************************************************)
LEMMA LeaveTypes ==
  ASSUME TypeOK, NEW l \in Lists, Leave(l)
  PROVE  /\ at' \in [Lists -> {"idle", "asking", "saving"}]
         /\ from' \in [Lists -> Cursors]
         /\ page' \in [Lists -> SUBSET Items]
         /\ next' \in [Lists -> Cursors]
BY DEF TypeOK, Leave, Cursors, Beginning

LEMMA PutTypes ==
  ASSUME TypeOK, NEW l \in Lists, NEW i \in Items, Put(l, i)
  PROVE  /\ saved' \in [Items -> Lists \cup {Nowhere}]
         /\ found' \in [Items -> SUBSET Lists]
BY DEF TypeOK, Put

LEMMA SaveTypes ==
  ASSUME TypeOK, NEW l \in Lists, NEW i \in Items, Save(l, i)
  PROVE  TypeOK'
<1>1. UNCHANGED <<list, cursor, late, disk, crashes>>
  BY DEF Save
<1>2. CASE /\ Put(l, i)
           /\ page' = [page EXCEPT ![l] = @ \ {i}]
           /\ UNCHANGED <<at, from, next>>
  BY <1>1, <1>2, PutTypes DEF TypeOK
<1>3. CASE Leave(l) /\ UNCHANGED <<saved, found>>
  BY <1>1, <1>3, LeaveTypes DEF TypeOK
<1>4. CASE Leave(l) /\ Put(l, i)
  BY <1>1, <1>4, LeaveTypes, PutTypes DEF TypeOK
<1> QED
  BY <1>2, <1>3, <1>4 DEF Save

LEMMA ArriveTypes ==
  ASSUME TypeOK, NEW i \in Items, NEW l \in Lists, Arrive(i, l)
  PROVE  TypeOK'
<1>1. UNCHANGED <<saved, cursor, found, at, from, page, next, crashes>>
  BY DEF Arrive
<1>2. /\ list' \in [Items -> Lists \cup {Nowhere}]
      /\ late' \in [Lists -> SUBSET Items]
  BY DEF Arrive, TypeOK
<1>3. disk.late \in [Lists -> SUBSET Items]
  BY DEF TypeOK
<1>4. [disk.late EXCEPT ![l] = @ \cup {i}] \in [Lists -> SUBSET Items]
  BY <1>3
<1>5. disk' = [saved |-> disk.saved, cursor |-> disk.cursor,
               found |-> disk.found,
               late |-> [disk.late EXCEPT ![l] = @ \cup {i}]]
  BY DEF Arrive, TypeOK
<1> QED
  BY <1>1, <1>2, <1>4, <1>5 DEF TypeOK

LEMMA TypeStep == TypeOK /\ [Next]_vars => TypeOK'
<1> SUFFICES ASSUME TypeOK, [Next]_vars PROVE TypeOK'
  OBVIOUS
<1>2. ASSUME NEW l \in Lists, Start(l) PROVE TypeOK'
  BY <1>2 DEF Start, TypeOK, Cursors, Beginning
<1>3. ASSUME NEW l \in Lists, Answer(l) PROVE TypeOK'
  BY <1>3 DEF Answer, TypeOK
<1>4. ASSUME NEW l \in Lists, Refuse(l) PROVE TypeOK'
  <2>1. cursor' \in [Lists -> Cursors]
    BY <1>4 DEF Refuse, SetCursor, TypeOK
  <2> QED
    BY <1>4, <2>1, LeaveTypes DEF Refuse, SetCursor, TypeOK
<1>6. ASSUME NEW l \in Lists, Finish(l) PROVE TypeOK'
  <2>1. cursor' \in [Lists -> Cursors]
    BY <1>6 DEF Finish, SetCursor, TypeOK
  <2> QED
    BY <1>6, <2>1, LeaveTypes DEF Finish, SetCursor, TypeOK
<1>7. ASSUME Flush PROVE TypeOK'
  BY <1>7 DEF Flush, TypeOK
<1>8. ASSUME Crash PROVE TypeOK'
  BY <1>8 DEF Crash, TypeOK, Cursors, Beginning
<1>9. ASSUME UNCHANGED vars PROVE TypeOK'
  BY <1>9 DEF vars, TypeOK
<1> QED
  BY ArriveTypes, <1>2, <1>3, <1>4, SaveTypes, <1>6, <1>7, <1>8, <1>9
     DEF Next, Run

-----------------------------------------------------------------------------

(***************************************************************************)
(* Nothing is skipped: one lemma per action.                               *)
(***************************************************************************)
LEMMA ArriveSkip ==
  ASSUME SkipInv, NEW k \in Items, NEW m \in Lists, Arrive(k, m)
  PROVE  StoreSafe' /\ DiskSafe' /\ FromSafe' /\ PageSafe'
<1>1. UNCHANGED <<cursor, found, at, from, page, next>>
  BY DEF Arrive
<1>2. ASSUME NEW l \in Lists, NEW i \in Items, list'[i] = l, i \notin late'[l]
      PROVE  list[i] = l /\ i \notin late[l]
  BY <1>2 DEF Arrive, SkipInv, TypeOK
<1>3. ASSUME NEW l \in Lists, NEW i \in Items, list'[i] = l,
             i \notin disk'.late[l]
      PROVE  list[i] = l /\ i \notin disk.late[l]
  <2>1. disk.late \in [Lists -> SUBSET Items]
    BY DEF SkipInv, TypeOK
  <2>2. disk'.late = [disk.late EXCEPT ![m] = @ \cup {k}]
    BY DEF Arrive, SkipInv, TypeOK
  <2>3. k \in disk'.late[m]
    BY <2>1, <2>2
  <2>4. i \notin disk.late[l]
    BY <1>3, <2>1, <2>2
  <2> QED
    BY <1>3, <2>3, <2>4 DEF Arrive, SkipInv, TypeOK
<1>4. disk'.cursor = disk.cursor /\ disk'.found = disk.found
  BY DEF Arrive, SkipInv, TypeOK
<1>5. StoreSafe' /\ FromSafe'
  BY <1>1, <1>2 DEF SkipInv, StoreSafe, FromSafe, Behind
<1>6. DiskSafe'
  BY <1>3, <1>4 DEF SkipInv, DiskSafe, Behind
<1>7. PageSafe'
  BY <1>1, <1>2 DEF SkipInv, PageSafe, Settled
<1> QED
  BY <1>5, <1>6, <1>7

LEMMA StartSkip ==
  ASSUME SkipInv, NEW m \in Lists, Start(m)
  PROVE  StoreSafe' /\ DiskSafe' /\ FromSafe' /\ PageSafe'
<1>1. UNCHANGED <<list, cursor, found, disk, page, next>>
  BY DEF Start
<1>2. ASSUME NEW l \in Lists, l # m
      PROVE  late'[l] = late[l] /\ from'[l] = from[l] /\ at'[l] = at[l]
  BY <1>2 DEF Start, SkipInv, TypeOK
<1>3. /\ at'[m] = "asking"
      /\ from'[m] = cursor[m] \/ from'[m] = Beginning
      /\ cursor[m] = Beginning \/ late'[m] = late[m]
  BY DEF Start, SkipInv, TypeOK
<1>4. \A i \in Items : ~(i < Beginning)
  BY DEF Beginning
<1>5. StoreSafe'
  BY <1>1, <1>2, <1>3, <1>4 DEF SkipInv, StoreSafe, Behind
<1>6. FromSafe'
  BY <1>1, <1>2, <1>3, <1>4 DEF SkipInv, StoreSafe, FromSafe, Behind
<1>7. DiskSafe'
  BY <1>1 DEF SkipInv, DiskSafe, Behind
<1>8. PageSafe'
  BY <1>1, <1>2, <1>3 DEF SkipInv, PageSafe, Settled
<1> QED
  BY <1>5, <1>6, <1>7, <1>8

LEMMA AnswerSkip ==
  ASSUME SkipInv, NEW m \in Lists, Answer(m)
  PROVE  StoreSafe' /\ DiskSafe' /\ FromSafe' /\ PageSafe'
<1>1. UNCHANGED <<list, cursor, found, late, disk, from>>
  BY DEF Answer
<1>2. StoreSafe' /\ DiskSafe' /\ FromSafe'
  BY <1>1 DEF SkipInv, StoreSafe, DiskSafe, FromSafe, Behind
<1>3. PICK pg \in SUBSET Items, nx \in Cursors :
        /\ IsPage(pg, nx, Rest(m, from[m]))
        /\ page' = [page EXCEPT ![m] = pg]
        /\ next' = [next EXCEPT ![m] = nx]
  BY DEF Answer
<1>4. page'[m] = pg /\ next'[m] = nx
  BY <1>3 DEF SkipInv, TypeOK
<1>5. ASSUME NEW l \in Lists, l # m
      PROVE  page'[l] = page[l] /\ next'[l] = next[l] /\ at'[l] = at[l]
  BY <1>3, <1>5 DEF Answer, SkipInv, TypeOK
<1>6. ASSUME NEW i \in Items, Settled(i, m), nx = Beginning \/ i < nx,
             m \notin found[i]
      PROVE  i \in pg
  <2>1. ~(i < from[m])
    BY <1>6 DEF SkipInv, FromSafe, Behind, Settled
  <2>2. i \in Rest(m, from[m])
    <3>1. from[m] \in Nat /\ i \in Nat
      BY CursorsAreNat DEF SkipInv, TypeOK
    <3>2. i >= from[m]
      BY <2>1, <3>1
    <3> QED
      BY <1>6, <3>2 DEF Rest, Settled
  <2>3. CASE pg = Rest(m, from[m])
    BY <2>2, <2>3
  <2>4. CASE /\ nx \in Rest(m, from[m]) \ pg
             /\ \A j \in Rest(m, from[m]) \ pg : nx <= j
    <3>1. nx \in Items
      BY <2>4 DEF Rest
    <3>2. i < nx
      BY <3>1, <1>6 DEF Beginning
    <3> QED
      BY <2>2, <2>4, <3>1, <3>2
  <2> QED
    BY <1>3, <2>3, <2>4 DEF IsPage
<1>7. PageSafe'
  BY <1>1, <1>4, <1>5, <1>6 DEF SkipInv, PageSafe, Settled
<1> QED
  BY <1>2, <1>7

(***************************************************************************)
(* A run that ends leaves no cursor and no page behind.                    *)
(***************************************************************************)
LEMMA LeaveSkip ==
  ASSUME SkipInv, NEW m \in Lists, Leave(m), UNCHANGED <<list, late>>,
         \A i \in Items : found[i] \subseteq found'[i]
  PROVE  FromSafe' /\ PageSafe'
<1>1. at'[m] = "idle" /\ from'[m] = Beginning
  BY DEF Leave, SkipInv, TypeOK
<1>2. ASSUME NEW l \in Lists, l # m
      PROVE  /\ at'[l] = at[l] /\ from'[l] = from[l]
             /\ page'[l] = page[l] /\ next'[l] = next[l]
  BY <1>2 DEF Leave, SkipInv, TypeOK
<1>3. \A i \in Items : ~(i < Beginning)
  BY DEF Beginning
<1>4. FromSafe'
  BY <1>1, <1>2, <1>3 DEF SkipInv, FromSafe, Behind
<1>5. PageSafe'
  BY <1>1, <1>2 DEF SkipInv, PageSafe, Settled
<1> QED
  BY <1>4, <1>5

LEMMA RefuseSkip ==
  ASSUME SkipInv, NEW m \in Lists, Refuse(m)
  PROVE  StoreSafe' /\ DiskSafe' /\ FromSafe' /\ PageSafe'
<1>1. Leave(m) /\ UNCHANGED <<list, found, late, disk>>
  BY DEF Refuse, SetCursor
<1>2. ASSUME NEW l \in Lists
      PROVE  cursor'[l] = cursor[l] \/ cursor'[l] = from[l]
  BY DEF Refuse, SetCursor, SkipInv, TypeOK
<1>3. StoreSafe'
  BY <1>1, <1>2 DEF SkipInv, StoreSafe, FromSafe, Behind
<1>4. DiskSafe'
  BY <1>1 DEF SkipInv, DiskSafe, Behind
<1> QED
  BY <1>1, <1>3, <1>4, LeaveSkip

LEMMA PutFinds ==
  ASSUME TypeOK, NEW m \in Lists, NEW k \in Items, Put(m, k)
  PROVE  m \in found'[k] /\ \A i \in Items : found[i] \subseteq found'[i]
BY DEF Put, TypeOK

LEMMA SaveSkip ==
  ASSUME SkipInv, NEW m \in Lists, NEW k \in Items, Save(m, k)
  PROVE  StoreSafe' /\ DiskSafe' /\ FromSafe' /\ PageSafe'
<1>1. UNCHANGED <<list, cursor, late, disk>>
  BY DEF Save
<1>2. \A i \in Items : found[i] \subseteq found'[i]
  BY PutFinds DEF Save, SkipInv
<1>3. StoreSafe' /\ DiskSafe'
  BY <1>1, <1>2 DEF SkipInv, StoreSafe, DiskSafe, Behind
<1>4. CASE Leave(m)
  BY <1>1, <1>2, <1>3, <1>4, LeaveSkip
<1>5. CASE /\ Put(m, k)
           /\ page' = [page EXCEPT ![m] = @ \ {k}]
           /\ UNCHANGED <<at, from, next>>
  <2>1. FromSafe'
    BY <1>1, <1>2, <1>5 DEF SkipInv, FromSafe, Behind
  <2>2. ASSUME NEW l \in Lists, NEW i \in page[l]
        PROVE  i \in page'[l] \/ (l = m /\ i = k)
    BY <1>5 DEF SkipInv, TypeOK
  <2>3. m \in found'[k]
    BY <1>5, PutFinds DEF SkipInv
  <2>4. PageSafe'
    BY <1>1, <1>2, <1>5, <2>2, <2>3 DEF SkipInv, PageSafe, Settled
  <2> QED
    BY <1>3, <2>1, <2>4
<1> QED
  BY <1>4, <1>5 DEF Save

LEMMA FinishSkip ==
  ASSUME SkipInv, NEW m \in Lists, Finish(m)
  PROVE  StoreSafe' /\ DiskSafe' /\ FromSafe' /\ PageSafe'
<1>1. Leave(m) /\ UNCHANGED <<list, found, late, disk>>
  BY DEF Finish, SetCursor
<1>2. ASSUME NEW l \in Lists
      PROVE  cursor'[l] = cursor[l] \/ (l = m /\ cursor'[l] = next[l])
  BY DEF Finish, SetCursor, SkipInv, TypeOK
<1>3. Behind(m, next[m], found, late)
  BY DEF Finish, SetCursor, SkipInv, PageSafe, Settled, Behind
<1>4. StoreSafe'
  BY <1>1, <1>2, <1>3 DEF SkipInv, StoreSafe, Behind
<1>5. DiskSafe'
  BY <1>1 DEF SkipInv, DiskSafe, Behind
<1> QED
  BY <1>1, <1>4, <1>5, LeaveSkip

LEMMA FlushSkip ==
  ASSUME SkipInv, Flush
  PROVE  StoreSafe' /\ DiskSafe' /\ FromSafe' /\ PageSafe'
<1>1. UNCHANGED <<list, cursor, found, late, at, from, page, next>>
  BY DEF Flush
<1>2. disk'.cursor = cursor /\ disk'.found = found /\ disk'.late = late
  BY DEF Flush
<1>3. StoreSafe' /\ DiskSafe' /\ FromSafe'
  BY <1>1, <1>2 DEF SkipInv, StoreSafe, DiskSafe, FromSafe, Behind
<1>4. PageSafe'
  BY <1>1 DEF SkipInv, PageSafe, Settled
<1> QED
  BY <1>3, <1>4

LEMMA CrashSkip ==
  ASSUME SkipInv, Crash
  PROVE  StoreSafe' /\ DiskSafe' /\ FromSafe' /\ PageSafe'
<1>1. /\ UNCHANGED <<list, disk>>
      /\ cursor' = disk.cursor /\ found' = disk.found /\ late' = disk.late
  BY DEF Crash
<1>2. StoreSafe' /\ DiskSafe'
  BY <1>1 DEF SkipInv, StoreSafe, DiskSafe, Behind
<1>3. \A l \in Lists : at'[l] = "idle" /\ from'[l] = Beginning
  BY DEF Crash
<1>4. \A i \in Items : ~(i < Beginning)
  BY DEF Beginning
<1>5. FromSafe' /\ PageSafe'
  BY <1>3, <1>4 DEF FromSafe, PageSafe, Behind
<1> QED
  BY <1>2, <1>5

LEMMA StepSkip == SkipInv /\ [Next]_vars => SkipInv'
<1> SUFFICES ASSUME SkipInv, [Next]_vars PROVE SkipInv'
  OBVIOUS
<1>1. TypeOK'
  BY TypeStep DEF SkipInv
<1>2. ASSUME UNCHANGED vars
      PROVE  StoreSafe' /\ DiskSafe' /\ FromSafe' /\ PageSafe'
  BY <1>2 DEF vars, SkipInv, StoreSafe, DiskSafe, FromSafe, PageSafe,
              Behind, Settled
<1>3. StoreSafe' /\ DiskSafe' /\ FromSafe' /\ PageSafe'
  BY <1>2, ArriveSkip, StartSkip, AnswerSkip, RefuseSkip, SaveSkip,
     FinishSkip, FlushSkip, CrashSkip DEF Next, Run
<1> QED
  BY <1>1, <1>3 DEF SkipInv

(***************************************************************************)
(* The variables of the fetches have their types: a task is never left     *)
(* with a page or a cursor that is not one.                                *)
(***************************************************************************)
THEOREM FetchTypes == Spec => []TypeOK
<1>1. SkipInv => TypeOK
  BY DEF SkipInv
<1> QED
  BY InitSkip, StepSkip, <1>1, PTL DEF Spec

(***************************************************************************)
(* What lies before the cursor of a list, and has been on the list since   *)
(* the pass began, has been saved as an item of the list.                  *)
(***************************************************************************)
THEOREM SkipsNothing == Spec => []NothingSkipped
<1>1. SkipInv => NothingSkipped
  BY DEF SkipInv, StoreSafe, Behind, NothingSkipped, Settled
<1> QED
  BY InitSkip, StepSkip, <1>1, PTL DEF Spec

-----------------------------------------------------------------------------

(***************************************************************************)
(* A task that the store does not fail holds the cursor that the store     *)
(* holds, and the next page of any task lies behind the one it has.        *)
(***************************************************************************)
ForwardInv ==
  /\ \A l \in Lists \ Failing : at[l] # "idle" => from[l] = cursor[l]
  /\ \A l \in Lists : at[l] # "saving" => next[l] = Beginning
  /\ \A l \in Lists : next[l] = Beginning \/ next[l] >= from[l]

LEMMA InitForward == Init => ForwardInv
BY DEF Init, ForwardInv, Beginning

LEMMA LeaveForward ==
  ASSUME SkipInv, ForwardInv, NEW m \in Lists, Leave(m),
         \A l \in Lists : l # m => cursor'[l] = cursor[l]
  PROVE  ForwardInv'
<1>1. at'[m] = "idle" /\ next'[m] = Beginning
  BY DEF Leave, SkipInv, TypeOK
<1>2. ASSUME NEW l \in Lists, l # m
      PROVE  at'[l] = at[l] /\ from'[l] = from[l] /\ next'[l] = next[l]
  BY <1>2 DEF Leave, SkipInv, TypeOK
<1> QED
  BY <1>1, <1>2 DEF ForwardInv

LEMMA StepForward ==
  ASSUME SkipInv, ForwardInv, [Next]_vars
  PROVE  ForwardInv'
<1>1. ASSUME NEW i \in Items, NEW l \in Lists, Arrive(i, l) PROVE ForwardInv'
  BY <1>1 DEF Arrive, ForwardInv
<1>2. ASSUME NEW m \in Lists, Start(m) PROVE ForwardInv'
  <2>1. at[m] = "idle" /\ UNCHANGED <<cursor, next>>
    BY <1>2 DEF Start
  <2>2. next[m] = Beginning
    BY <2>1 DEF ForwardInv
  <2>3. m \notin Failing => from'[m] = cursor[m]
    BY <1>2 DEF Start, SkipInv, TypeOK
  <2>4. ASSUME NEW l \in Lists, l # m
        PROVE  at'[l] = at[l] /\ from'[l] = from[l]
    BY <1>2, <2>4 DEF Start, SkipInv, TypeOK
  <2> QED
    BY <2>1, <2>2, <2>3, <2>4 DEF ForwardInv
<1>3. ASSUME NEW m \in Lists, Answer(m) PROVE ForwardInv'
  <2>1. PICK pg \in SUBSET Items, nx \in Cursors :
          /\ IsPage(pg, nx, Rest(m, from[m]))
          /\ next' = [next EXCEPT ![m] = nx]
    BY <1>3 DEF Answer
  <2>2. nx = Beginning \/ nx >= from[m]
    BY <2>1 DEF IsPage, Rest
  <2> QED
    BY <1>3, <2>1, <2>2 DEF Answer, ForwardInv, SkipInv, TypeOK
<1>4. ASSUME NEW m \in Lists, Refuse(m) PROVE ForwardInv'
  BY <1>4, LeaveForward DEF Refuse, SetCursor, SkipInv, TypeOK
<1>5. ASSUME NEW m \in Lists, NEW i \in Items, Save(m, i) PROVE ForwardInv'
  <2>1. CASE Leave(m) /\ UNCHANGED cursor
    BY <2>1, LeaveForward
  <2>2. CASE UNCHANGED <<at, from, next, cursor>>
    BY <2>2 DEF ForwardInv
  <2> QED
    BY <1>5, <2>1, <2>2 DEF Save
<1>6. ASSUME NEW m \in Lists, Finish(m) PROVE ForwardInv'
  BY <1>6, LeaveForward DEF Finish, SetCursor, SkipInv, TypeOK
<1>7. ASSUME Flush PROVE ForwardInv'
  BY <1>7 DEF Flush, ForwardInv
<1>8. ASSUME Crash PROVE ForwardInv'
  BY <1>8 DEF Crash, ForwardInv
<1>9. ASSUME UNCHANGED vars PROVE ForwardInv'
  BY <1>9 DEF vars, ForwardInv
<1> QED
  BY <1>1, <1>2, <1>3, <1>4, <1>5, <1>6, <1>7, <1>8, <1>9 DEF Next, Run

(***************************************************************************)
(* The cursor of a task that the store does not fail moves back only when  *)
(* its pass is complete or the process is killed.                          *)
(***************************************************************************)
LEMMA FinishComplete ==
  ASSUME SkipInv, ForwardInv, NEW m \in Lists, Finish(m),
         NEW l \in Lists \ Failing, cursor'[l] < cursor[l]
  PROVE  \A i \in Items : Settled(i, l) => l \in found[i]
<1>1. l = m /\ cursor'[l] = next[l]
  <2>1. cursor[l] \in Nat
    BY CursorsAreNat DEF SkipInv, TypeOK
  <2>2. cursor' # cursor
    BY <2>1
  <2>3. cursor' = [cursor EXCEPT ![m] = next[m]]
    BY <2>2 DEF Finish, SetCursor
  <2>4. l = m
    BY <2>1, <2>3 DEF SkipInv, TypeOK
  <2> QED
    BY <2>3, <2>4 DEF SkipInv, TypeOK
<1>2. at[m] = "saving" /\ page[m] = {}
  BY DEF Finish, SetCursor
<1>3. from[m] = cursor[m]
  BY <1>1, <1>2 DEF ForwardInv
<1>4. next[m] \in Nat /\ cursor[m] \in Nat
  BY CursorsAreNat DEF SkipInv, TypeOK
<1>5. next[m] = Beginning
  BY <1>1, <1>3, <1>4 DEF ForwardInv
<1> QED
  BY <1>1, <1>2, <1>5 DEF SkipInv, PageSafe

LEMMA StepBack ==
  ASSUME SkipInv, ForwardInv, [Next]_vars, NEW l \in Lists \ Failing,
         cursor'[l] < cursor[l]
  PROVE  \/ crashes' # crashes
         \/ \A i \in Items : Settled(i, l) => l \in found[i]
<1>1. cursor[l] \in Nat
  BY CursorsAreNat DEF SkipInv, TypeOK
<1>2. cursor' # cursor
  BY <1>1
<1>3. ASSUME NEW m \in Lists, Refuse(m) PROVE FALSE
  <2>1. cursor' = [cursor EXCEPT ![m] = from[m]] /\ m = l
    BY <1>1, <1>2, <1>3 DEF Refuse, SetCursor, SkipInv, TypeOK
  <2>2. from[l] = cursor[l]
    BY <1>3, <2>1 DEF Refuse, ForwardInv
  <2> QED
    BY <1>1, <2>1, <2>2 DEF SkipInv, TypeOK
<1>4. ASSUME NEW m \in Lists, Finish(m)
      PROVE  \A i \in Items : Settled(i, l) => l \in found[i]
  BY <1>4, FinishComplete
<1>5. ASSUME Crash PROVE crashes' # crashes
  <2>1. crashes \in Nat
    BY DEF SkipInv, TypeOK
  <2> QED
    BY <1>5, <2>1 DEF Crash
<1> QED
  BY <1>2, <1>3, <1>4, <1>5
     DEF Next, Run, Arrive, Start, Answer, Save, Flush, vars

THEOREM PassesComplete == Spec => BackWhenComplete
<1>1. SkipInv /\ ForwardInv /\ [Next]_vars =>
        [\A l \in Lists \ Failing :
           cursor'[l] < cursor[l] =>
             \/ crashes' # crashes
             \/ \A i \in Items : Settled(i, l) => l \in found[i]]_vars
  BY StepBack
<1>2. SkipInv /\ ForwardInv /\ [Next]_vars => ForwardInv'
  BY StepForward
<1> QED
  BY InitSkip, StepSkip, InitForward, <1>1, <1>2, PTL
     DEF Spec, BackWhenComplete

=============================================================================
