------------------------- MODULE PluginHost_proofs --------------------------
(***************************************************************************)
(* Proofs about PluginHost, for any files, settings, numbers of changes    *)
(* and of starts of the bot.                                               *)
(*                                                                         *)
(* HostInv is inductive.  Beside the types and OneSet it says that the     *)
(* plugin that is being opened runs nothing yet (Quiet), and that a file   *)
(* of the listing which is still to be started has no active plugin and    *)
(* is not the one being started (Unstarted): starting it again would run   *)
(* its agents twice.                                                       *)
(***************************************************************************)
EXTENDS PluginHost, TLAPS

Image == [ver : Nat, refs : 0..2, inited : BOOLEAN, rt : BOOLEAN, sets : Nat]

Busy == at \in {"open", "init", "start", "insert"}

(* What the loader does not have has no handles. *)
NoHandles == \A n \in Names : image[n].ver = Gone => image[n].refs = 0

(* What is opened runs no agents before it is started. *)
Quiet == at \in {"open", "init", "start"} => image[cur].sets = 0

(* What the listing has left to start is started for the first time. *)
Unstarted ==
  /\ phase = "listing" => at = "idle" /\ plugins = {} /\ left = {}
  /\ phase = "watching" => left = {}
  /\ \A f \in left : /\ ListedName(f) \notin plugins
                     /\ Busy => cur # ListedName(f)

HostInv == TypeOK /\ OneSet /\ NoHandles /\ Quiet /\ Unstarted

-----------------------------------------------------------------------------

LEMMA NamesOfFiles ==
  ASSUME NEW f \in Files
  PROVE  /\ ListedName(f) \in Names /\ WatchedName(f) \in Names
         /\ \A g \in Files : ListedName(g) = ListedName(f) => g = f
  BY DEF ListedName, WatchedName, Names

LEMMA NoImageType == NoImage \in Image
  BY DEF NoImage, Image, Gone

LEMMA ShutDownImage ==
  ASSUME NEW i \in Image
  PROVE  /\ ShutDown(i) \in Image
         /\ ShutDown(i).sets = 0 /\ ShutDown(i).refs = i.refs
         /\ ShutDown(i).ver = i.ver
  BY DEF ShutDown, Image

(* Closing gives a handle back; an image that goes had the last one. *)
LEMMA CloseImage ==
  ASSUME NEW i \in Image, i.refs > 0, NEW j \in Close(i)
  PROVE  /\ j \in Image /\ j.refs = i.refs - 1
         /\ j.sets = i.sets \/ j.sets = 0
<1> DEFINE k == [i EXCEPT !.refs = @ - 1]
<1>1. k \in Image /\ k.refs = i.refs - 1 /\ k.sets = i.sets
  BY DEF Image
<1>2. NoImage.refs = 0 /\ NoImage.sets = 0
  BY DEF NoImage
<1>3. j = k \/ (i.refs = 1 /\ j = NoImage)
  BY DEF Close
<1> QED BY <1>1, <1>2, <1>3, NoImageType DEF Image

(* An image under one name changes, the others stay. *)
LEMMA PutImage ==
  ASSUME TypeOK, NEW n \in Names, NEW i \in Image,
         image' = [image EXCEPT ![n] = i]
  PROVE  /\ image' \in [Names -> Image] /\ image'[n] = i
         /\ \A m \in Names : m # n => image'[m] = image[m]
  BY DEF TypeOK, Image

-----------------------------------------------------------------------------

LEMMA InitHost == HostAssumption /\ Init => HostInv
<1> SUFFICES ASSUME HostAssumption, Init PROVE HostInv
  OBVIOUS
<1>a. changes \in 0..MaxChanges /\ boots \in 1..(MaxBoots + 1)
  <2>1. changes = 0 /\ boots = 1
    BY DEF Init
  <2> QED BY <2>1 DEF HostAssumption
<1>1. /\ setting \in Settings
      /\ phase = "listing" /\ left = {} /\ missed = {} /\ plugins = {}
      /\ at = "idle" /\ cur \in Names /\ again \in BOOLEAN
  BY DEF Init
<1>0. disk \in [Files -> Nat]
  BY DEF Init, Gone
<1>2. events \in Seq([file : Files, kind : {"change", "remove"}])
  BY DEF Init
<1>3. image = [n \in Names |-> NoImage] /\ image \in [Names -> Image]
  BY NoImageType DEF Init, NoImages
<1>4. TypeOK
  BY <1>0, <1>a, <1>1, <1>2, <1>3 DEF TypeOK, Image
<1>5. OneSet /\ NoHandles
  <2>1. \A n \in Names : image[n].sets = 0 /\ image[n].refs = 0
    BY <1>3 DEF NoImage
  <2> QED BY <1>1, <2>1 DEF OneSet, NoHandles, Count, Holding
<1>6. Quiet /\ Unstarted
  BY <1>1 DEF Quiet, Unstarted
<1> QED BY <1>4, <1>5, <1>6 DEF HostInv

-----------------------------------------------------------------------------

(* The directory changes; the bot stays where it is. *)
LEMMA NotifyHost ==
  ASSUME HostInv, HostAssumption, NEW f \in Files,
         NEW k \in {"change", "remove"}, NEW n \in 1..2, Notify(f, k, n),
         disk' \in [Files -> Nat]
  PROVE  HostInv'
<1>1. events' \in Seq([file : Files, kind : {"change", "remove"}])
  <2> DEFINE E == [file : Files, kind : {"change", "remove"}]
             new == [i \in 1..n |-> [file |-> f, kind |-> k]]
  <2>1. new \in Seq(E)
    <3>1. [file |-> f, kind |-> k] \in E
      OBVIOUS
    <3> HIDE DEF E
    <3>2. n \in Nat /\ new \in [1..n -> E]
      BY <3>1
    <3> QED BY <3>2
  <2>2. events \in Seq(E)
    BY DEF HostInv, TypeOK
  <2>3. events' = events \o new \/ events' = events
    BY DEF Notify
  <2> HIDE DEF E, new
  <2>4. events \o new \in Seq(E)
    BY <2>1, <2>2
  <2>5. events' \in Seq(E)
    BY <2>2, <2>3, <2>4
  <2> QED BY <2>5 DEF E
<1>2. changes' \in 0..MaxChanges /\ missed' \subseteq Files
  BY DEF Notify, HostInv, TypeOK, HostAssumption
<1>3. UNCHANGED <<setting, boots, phase, left, plugins, image, at, cur, again>>
  BY DEF Notify, work
<1>4. TypeOK'
  BY <1>1, <1>2, <1>3 DEF HostInv, TypeOK
<1>5. (OneSet /\ NoHandles /\ Quiet /\ Unstarted)'
  BY <1>3 DEF HostInv, OneSet, NoHandles, Holding, Quiet, Unstarted, Busy, ListedName
<1> QED BY <1>4, <1>5 DEF HostInv

LEMMA DiskHost ==
  ASSUME HostInv, HostAssumption, NEW f \in Files, PutFile(f) \/ DeleteFile(f)
  PROVE  HostInv'
<1>1. disk' \in [Files -> Nat]
  <2>1. disk \in [Files -> Nat] /\ changes + 2 \in Nat /\ Gone \in Nat
    BY DEF HostInv, TypeOK, HostAssumption, Gone
  <2>2. CASE PutFile(f)
    BY <2>1, <2>2 DEF PutFile
  <2>3. CASE DeleteFile(f)
    BY <2>1, <2>3 DEF DeleteFile
  <2> QED BY <2>2, <2>3
<1>2. PICK k \in {"change", "remove"}, n \in 1..2 : Notify(f, k, n)
  BY DEF PutFile, DeleteFile
<1> QED BY <1>1, <1>2, NotifyHost

-----------------------------------------------------------------------------

LEMMA ListHost ==
  ASSUME HostInv, List
  PROVE  HostInv'
<1>1. /\ left' \subseteq Files /\ phase' = "starting"
      /\ plugins = {} /\ at = "idle"
      /\ UNCHANGED <<setting, disk, changes, boots, events, plugins, image,
                     at, cur, again, missed>>
  BY DEF List, HostInv, TypeOK, Unstarted, directory, work
<1>2. TypeOK'
  BY <1>1 DEF HostInv, TypeOK
<1>3. (OneSet /\ NoHandles /\ Quiet /\ Unstarted)'
  BY <1>1 DEF HostInv, OneSet, NoHandles, Holding, Quiet, Unstarted, Busy
<1> QED BY <1>2, <1>3 DEF HostInv

LEMMA StartListedHost ==
  ASSUME HostInv, NEW f \in Files, StartListed(f)
  PROVE  HostInv'
<1>1. /\ at = "idle" /\ at' = "open" /\ f \in left /\ left' = left \ {f}
      /\ cur' = ListedName(f) /\ again' = FALSE
      /\ UNCHANGED <<setting, disk, changes, boots, phase, events, plugins,
                     image, missed>>
  BY DEF StartListed, directory
<1>2. TypeOK'
  BY <1>1, NamesOfFiles DEF HostInv, TypeOK
<1>3. (OneSet /\ NoHandles)'
  BY <1>1 DEF HostInv, OneSet, NoHandles, Holding
<1>4. image[ListedName(f)].sets = 0
  <2>1. ListedName(f) \in Names /\ ListedName(f) \notin plugins
    BY <1>1, NamesOfFiles DEF HostInv, Unstarted
  <2>2. image[ListedName(f)].sets \in Nat
    BY <2>1 DEF HostInv, TypeOK
  <2> QED BY <1>1, <2>1, <2>2 DEF HostInv, OneSet, Holding
<1>5. Unstarted'
  <2>1. /\ phase # "listing" /\ phase' = phase
        /\ phase = "watching" => left' = {}
    BY <1>1 DEF HostInv, Unstarted
  <2>2. ASSUME NEW g \in left'
        PROVE  ListedName(g)' \notin plugins' /\ cur' # ListedName(g)'
    <3>1. g \in left /\ g # f /\ g \in Files
      BY <1>1, <2>2 DEF HostInv, TypeOK
    <3>2. ListedName(g) \notin plugins /\ ListedName(g) # ListedName(f)
      BY <3>1, NamesOfFiles DEF HostInv, Unstarted
    <3>3. ListedName(g)' = ListedName(g)
      BY DEF ListedName
    <3> QED BY <1>1, <3>2, <3>3
  <2> QED BY <2>1, <2>2 DEF Unstarted
<1> QED BY <1>1, <1>2, <1>3, <1>4, <1>5 DEF HostInv, Quiet

LEMMA WatchHost ==
  ASSUME HostInv, Watch
  PROVE  HostInv'
<1>1. /\ at = "idle" /\ left = {} /\ phase' = "watching"
      /\ UNCHANGED <<setting, disk, changes, boots, left, events, plugins,
                     image, at, cur, again, missed>>
  BY DEF Watch, directory, work
<1>2. TypeOK'
  BY <1>1 DEF HostInv, TypeOK
<1>3. (OneSet /\ NoHandles /\ Quiet /\ Unstarted)'
  BY <1>1 DEF HostInv, OneSet, NoHandles, Holding, Quiet, Unstarted, Busy
<1> QED BY <1>2, <1>3 DEF HostInv

-----------------------------------------------------------------------------

(* The watcher takes the first event. *)
LEMMA TakeEvent ==
  ASSUME TypeOK, events # <<>>
  PROVE  /\ Head(events).file \in Files
         /\ Tail(events) \in Seq([file : Files, kind : {"change", "remove"}])
<1> DEFINE E == [file : Files, kind : {"change", "remove"}]
<1>1. events \in Seq(E)
  BY DEF TypeOK
<1>2. Head(events) \in E /\ Tail(events) \in Seq(E)
  <2> HIDE DEF E
  <2> QED BY <1>1
<1> QED BY <1>2

LEMMA TakeChangeHost ==
  ASSUME HostInv, TakeChange
  PROVE  HostInv'
<1> DEFINE n == WatchedName(Head(events).file)
<1>1. /\ phase = "watching" /\ at = "idle" /\ events # <<>>
      /\ events' = Tail(events)
      /\ cur' = n /\ at' = "open" /\ again' = (n \in plugins)
      /\ image' = IF n \in plugins
                    THEN [image EXCEPT ![n] = ShutDown(image[n])] ELSE image
      /\ UNCHANGED <<setting, disk, changes, boots, phase, left, plugins, missed>>
  BY DEF TakeChange, directory
<1>2. n \in Names
  BY <1>1, TakeEvent, NamesOfFiles DEF HostInv
<1>3. events' \in Seq([file : Files, kind : {"change", "remove"}])
  BY <1>1, TakeEvent DEF HostInv
<1> HIDE DEF n
<1>4. image[n] \in Image /\ ShutDown(image[n]) \in Image
  BY <1>2, ShutDownImage DEF HostInv, TypeOK, Image
<1>5. /\ image' \in [Names -> Image]
      /\ \A m \in Names : m # n => image'[m] = image[m]
      /\ image'[n].refs = image[n].refs /\ image'[n].ver = image[n].ver
      /\ image'[n].sets = 0
  <2>1. CASE n \in plugins
    <3>1. image'[n] = ShutDown(image[n]) /\ image' \in [Names -> Image]
          /\ \A m \in Names : m # n => image'[m] = image[m]
      BY <1>1, <1>2, <1>4, <2>1, PutImage DEF HostInv
    <3> QED BY <1>4, <3>1, ShutDownImage
  <2>2. CASE n \notin plugins
    <3>1. image[n].sets = 0
      BY <1>1, <1>2, <1>4, <2>2 DEF HostInv, OneSet, Holding, Image
    <3> QED BY <1>1, <2>2, <3>1 DEF HostInv, TypeOK, Image
  <2> QED BY <2>1, <2>2
<1>6. TypeOK'
  BY <1>1, <1>2, <1>3, <1>5 DEF HostInv, TypeOK, Image
<1>7. OneSet'
  <2>1. ASSUME NEW m \in Names
        PROVE  /\ image'[m].sets <= 1 /\ (image'[m].sets = 1 => m \in plugins)
               /\ image'[m].refs = IF m \in plugins THEN 1 ELSE 0
    <3>1. /\ image[m].sets <= 1 /\ (image[m].sets = 1 => m \in plugins)
          /\ image[m].refs = IF m \in plugins THEN 1 ELSE 0
      BY <1>1 DEF HostInv, OneSet, Holding, Count
    <3> QED BY <1>5, <3>1
  <2> QED BY <1>1, <2>1 DEF OneSet, Count, Holding
<1>8. NoHandles' /\ Quiet' /\ Unstarted'
  BY <1>1, <1>2, <1>5 DEF NoHandles, Quiet, Unstarted, HostInv
<1> QED BY <1>6, <1>7, <1>8 DEF HostInv

LEMMA TakeRemoveHost ==
  ASSUME HostInv, TakeRemove
  PROVE  HostInv'
<1> DEFINE n == WatchedName(Head(events).file)
<1>1. /\ phase = "watching" /\ at = "idle" /\ events # <<>>
      /\ events' = Tail(events) /\ plugins' = plugins \ {n}
      /\ IF n \in plugins
           THEN \E i \in Close(ShutDown(image[n])) :
                  image' = [image EXCEPT ![n] = i]
           ELSE image' = image
      /\ UNCHANGED <<setting, disk, changes, boots, phase, left, at, cur,
                     again, missed>>
  BY DEF TakeRemove, directory, work
<1>2. n \in Names
  BY <1>1, TakeEvent, NamesOfFiles DEF HostInv
<1>3. events' \in Seq([file : Files, kind : {"change", "remove"}])
  BY <1>1, TakeEvent DEF HostInv
<1> HIDE DEF n
<1>4. /\ image[n] \in Image /\ ShutDown(image[n]) \in Image
      /\ ShutDown(image[n]).sets = 0 /\ ShutDown(image[n]).refs = image[n].refs
  BY <1>2, ShutDownImage DEF HostInv, TypeOK, Image
<1>5. \A m \in Names :
        /\ image[m].sets <= 1 /\ (image[m].sets = 1 => m \in plugins)
        /\ image[m].refs = IF m \in plugins THEN 1 ELSE 0
  BY <1>1 DEF HostInv, OneSet, Holding, Count
<1>6. /\ image' \in [Names -> Image]
      /\ \A m \in Names :
           /\ image'[m].sets <= 1 /\ (image'[m].sets = 1 => m \in plugins')
           /\ image'[m].refs = IF m \in plugins' THEN 1 ELSE 0
           /\ image'[m].ver = Gone => image'[m].refs = 0
  <2>1. CASE n \in plugins
    <3>1. PICK i \in Close(ShutDown(image[n])) :
            image' = [image EXCEPT ![n] = i]
      BY <1>1, <2>1
    <3>2. ShutDown(image[n]).refs = 1
      BY <1>2, <1>4, <1>5, <2>1
    <3>3. i \in Image /\ i.refs = 0 /\ i.sets = 0
      BY <1>4, <3>1, <3>2, CloseImage
    <3>4. /\ image' \in [Names -> Image] /\ image'[n] = i
          /\ \A m \in Names : m # n => image'[m] = image[m]
      BY <1>2, <3>1, <3>3, PutImage DEF HostInv
    <3>5. \A m \in Names : m # n => (m \in plugins' <=> m \in plugins)
      BY <1>1
    <3>6. n \notin plugins'
      BY <1>1
    <3>7. \A m \in Names : image[m].ver = Gone => image[m].refs = 0
      BY DEF HostInv, NoHandles
    <3> QED BY <1>2, <1>5, <3>3, <3>4, <3>5, <3>6, <3>7
  <2>2. CASE n \notin plugins
    <3>1. image' = image /\ plugins' = plugins
      BY <1>1, <2>2
    <3> QED BY <1>5, <3>1 DEF HostInv, NoHandles, TypeOK, Image
  <2> QED BY <2>1, <2>2
<1>7. TypeOK'
  BY <1>1, <1>3, <1>6 DEF HostInv, TypeOK, Image
<1>8. OneSet'
  <2>1. ~(at \in {"init", "start", "insert"})'
    BY <1>1
  <2> QED BY <1>6, <2>1 DEF OneSet, Count, Holding
<1>9. NoHandles' /\ Quiet' /\ Unstarted'
  BY <1>1, <1>6 DEF NoHandles, Quiet, Unstarted, HostInv
<1> QED BY <1>7, <1>8, <1>9 DEF HostInv

-----------------------------------------------------------------------------

(* What the steps that open, initialise, start and insert leave alone. *)
LEMMA StepsOfStart ==
  ASSUME HostInv, Busy, at' \in {"idle", "init", "start", "insert", "dead"},
         image' \in [Names -> Image],
         \A m \in Names : m # cur => image'[m] = image[m],
         plugins' \in {plugins, plugins \cup {cur}},
         UNCHANGED <<directory, phase, left, events, cur, again, missed>>
  PROVE  TypeOK' /\ Unstarted'
<1>1. UNCHANGED <<setting, disk, changes, boots>>
  BY DEF directory
<1>2. TypeOK'
  BY <1>1 DEF HostInv, TypeOK, Image
<1>3. Unstarted'
  <2>1. phase # "listing" /\ (phase = "watching" => left = {})
    BY DEF HostInv, Unstarted, Busy
  <2>2. \A f \in left : ListedName(f) \notin plugins /\ cur # ListedName(f)
    BY DEF HostInv, Unstarted
  <2> QED BY <2>1, <2>2 DEF Unstarted, ListedName
<1> QED BY <1>2, <1>3

LEMMA OpenHost ==
  ASSUME HostInv, Open
  PROVE  HostInv'
<1>1. /\ at = "open" /\ Busy /\ cur \in Names /\ image[cur] \in Image
      /\ image \in [Names -> Image] /\ disk[cur[1]] \in Nat
      /\ image[cur].sets = 0
      /\ UNCHANGED <<directory, phase, left, events, plugins, cur, again, missed>>
  BY DEF Open, HostInv, TypeOK, Image, Busy, Names, Quiet
<1>2. \A m \in Names :
        /\ image[m].sets <= 1 /\ (image[m].sets = 1 => m \in plugins)
        /\ image[m].refs = IF m \in plugins THEN 1 ELSE 0
  BY <1>1 DEF HostInv, OneSet, Holding, Count
<1>3. CASE disk[cur[1]] = Gone
  <2>1. at' = "dead" /\ image' = image
    BY <1>3 DEF Open
  <2>2. TypeOK' /\ Unstarted'
    BY <1>1, <2>1, StepsOfStart
  <2> QED BY <2>1, <2>2 DEF HostInv, OneSet, NoHandles, Quiet
<1>4. CASE disk[cur[1]] # Gone
  <2> DEFINE j == IF image[cur].ver = Gone
                    THEN [NoImage EXCEPT !.ver = disk[cur[1]], !.refs = 1]
                    ELSE [image[cur] EXCEPT !.refs = image[cur].refs + 1]
  <2>1. at' = "init" /\ image' = [image EXCEPT ![cur] = j]
    BY <1>4 DEF Open
  <2>2. j \in Image /\ j.sets = 0 /\ j.refs = image[cur].refs + 1
    <3>1. CASE image[cur].ver = Gone
      <4>1. image[cur].refs = 0
        BY <1>1, <3>1 DEF HostInv, NoHandles
      <4>2. j = [NoImage EXCEPT !.ver = disk[cur[1]], !.refs = 1]
        BY <3>1
      <4>3. j = [ver |-> disk[cur[1]], refs |-> 1, inited |-> FALSE, rt |-> TRUE,
                 sets |-> 0]
        BY <4>2 DEF NoImage
      <4> HIDE DEF j
      <4> QED BY <1>1, <4>1, <4>3 DEF Image
    <3>2. CASE image[cur].ver # Gone
      <4>1. image[cur].refs <= 1
        BY <1>1, <1>2
      <4>2. j = [image[cur] EXCEPT !.refs = image[cur].refs + 1]
        BY <3>2
      <4> HIDE DEF j
      <4>3. \A i \in Image : i.refs <= 1 =>
              LET k == [i EXCEPT !.refs = i.refs + 1]
              IN k \in Image /\ k.sets = i.sets /\ k.refs = i.refs + 1
        BY DEF Image
      <4> QED BY <1>1, <4>1, <4>2, <4>3
    <3> QED BY <3>1, <3>2
  <2>3. j.ver # Gone
    <3>1. CASE image[cur].ver = Gone
      <4>1. j = [NoImage EXCEPT !.ver = disk[cur[1]], !.refs = 1]
        BY <3>1
      <4> QED BY <1>4, <4>1 DEF NoImage
    <3>2. CASE image[cur].ver # Gone
      <4>1. j = [image[cur] EXCEPT !.refs = image[cur].refs + 1]
        BY <3>2
      <4> QED BY <1>1, <3>2, <4>1 DEF Image
    <3> QED BY <3>1, <3>2
  <2> HIDE DEF j
  <2>4. /\ image' \in [Names -> Image] /\ image'[cur] = j
        /\ \A m \in Names : m # cur => image'[m] = image[m]
    BY <1>1, <2>1, <2>2, PutImage DEF HostInv
  <2>5. TypeOK' /\ Unstarted'
    BY <1>1, <2>1, <2>4, StepsOfStart
  <2>6. OneSet'
    <3>1. ASSUME NEW m \in Names
          PROVE  /\ image'[m].sets <= 1
                 /\ image'[m].sets = 1 => m \in plugins \/ m = cur
                 /\ image'[m].refs = (IF m \in plugins THEN 1 ELSE 0)
                                    + (IF m = cur THEN 1 ELSE 0)
      <4>1. CASE m = cur
        BY <1>1, <1>2, <2>2, <2>4, <4>1
      <4>2. CASE m # cur
        BY <1>2, <2>4, <4>2
      <4> QED BY <4>1, <4>2
    <3> QED BY <1>1, <2>1, <3>1 DEF OneSet, Count, Holding
  <2>7. NoHandles' /\ Quiet'
    BY <1>1, <2>1, <2>2, <2>3, <2>4 DEF NoHandles, Quiet, HostInv
  <2> QED BY <2>5, <2>6, <2>7 DEF HostInv
<1> QED BY <1>3, <1>4

(* The handles and agents while one plugin is being started. *)
LEMMA WhileHolding ==
  ASSUME HostInv, at \in {"init", "start", "insert"}
  PROVE  \A m \in Names :
           /\ image[m].sets <= 1
           /\ image[m].sets = 1 => m \in plugins \/ m = cur
           /\ image[m].refs = (IF m \in plugins THEN 1 ELSE 0)
                             + (IF m = cur THEN 1 ELSE 0)
BY DEF HostInv, OneSet, Holding, Count

LEMMA InitialiseHost ==
  ASSUME HostInv, Initialise
  PROVE  HostInv'
<1> DEFINE j == [image[cur] EXCEPT !.inited = TRUE]
<1>1. /\ at = "init" /\ Busy /\ cur \in Names /\ image[cur] \in Image
      /\ image[cur].sets = 0 /\ at' \in {"dead", "start"}
      /\ UNCHANGED <<directory, phase, left, events, plugins, cur, again, missed>>
  BY DEF Initialise, HostInv, TypeOK, Image, Busy, Quiet
<1>2. image' = [image EXCEPT ![cur] = j]
  BY DEF Initialise
<1>3. /\ j \in Image /\ j.sets = 0
      /\ j.refs = image[cur].refs /\ j.ver = image[cur].ver
  BY <1>1 DEF Image
<1> HIDE DEF j
<1>4. /\ image' \in [Names -> Image] /\ image'[cur] = j
      /\ \A m \in Names : m # cur => image'[m] = image[m]
  BY <1>1, <1>2, <1>3, PutImage DEF HostInv
<1>5. TypeOK' /\ Unstarted'
  BY <1>1, <1>4, StepsOfStart
<1>6. ASSUME NEW m \in Names
      PROVE  /\ image'[m].sets <= 1
             /\ image'[m].sets = 1 => m \in plugins \/ m = cur
             /\ image'[m].refs = (IF m \in plugins THEN 1 ELSE 0)
                                + (IF m = cur THEN 1 ELSE 0)
  BY <1>1, <1>3, <1>4, WhileHolding
<1>7. OneSet'
  BY <1>1, <1>6 DEF OneSet, Count, Holding
<1>8. NoHandles' /\ Quiet'
  BY <1>1, <1>3, <1>4 DEF NoHandles, Quiet, HostInv
<1> QED BY <1>5, <1>7, <1>8 DEF HostInv

LEMMA StartHost ==
  ASSUME HostInv, Start
  PROVE  HostInv'
<1> DEFINE j == [image[cur] EXCEPT
                   !.sets = IF image[cur].rt THEN image[cur].sets + 1
                                             ELSE image[cur].sets]
<1>1. /\ at = "start" /\ Busy /\ cur \in Names /\ image[cur] \in Image
      /\ image[cur].sets = 0 /\ at' = "insert"
      /\ UNCHANGED <<directory, phase, left, events, plugins, cur, again, missed>>
  BY DEF Start, HostInv, TypeOK, Image, Busy, Quiet
<1>2. image' = [image EXCEPT ![cur] = j]
  BY DEF Start
<1>3. /\ j \in Image /\ j.sets <= 1
      /\ j.refs = image[cur].refs /\ j.ver = image[cur].ver
  BY <1>1 DEF Image
<1> HIDE DEF j
<1>4. /\ image' \in [Names -> Image] /\ image'[cur] = j
      /\ \A m \in Names : m # cur => image'[m] = image[m]
  BY <1>1, <1>2, <1>3, PutImage DEF HostInv
<1>5. TypeOK' /\ Unstarted'
  BY <1>1, <1>4, StepsOfStart
<1>6. ASSUME NEW m \in Names
      PROVE  /\ image'[m].sets <= 1
             /\ image'[m].sets = 1 => m \in plugins \/ m = cur
             /\ image'[m].refs = (IF m \in plugins THEN 1 ELSE 0)
                                + (IF m = cur THEN 1 ELSE 0)
  BY <1>1, <1>3, <1>4, WhileHolding
<1>7. OneSet'
  BY <1>1, <1>6 DEF OneSet, Count, Holding
<1>8. NoHandles' /\ Quiet'
  BY <1>1, <1>3, <1>4 DEF NoHandles, Quiet, HostInv
<1> QED BY <1>5, <1>7, <1>8 DEF HostInv

LEMMA InsertHost ==
  ASSUME HostInv, Insert
  PROVE  HostInv'
<1>1. /\ at = "insert" /\ Busy /\ cur \in Names /\ image[cur] \in Image
      /\ image \in [Names -> Image]
      /\ at' = "idle" /\ plugins' = plugins \cup {cur}
      /\ UNCHANGED <<directory, phase, left, events, cur, again, missed>>
  BY DEF Insert, HostInv, TypeOK, Image, Busy
<1>2. /\ image' \in [Names -> Image]
      /\ \A m \in Names : m # cur => image'[m] = image[m]
      /\ image'[cur].refs = 1 /\ image'[cur].sets = image[cur].sets
      /\ image'[cur].ver = image[cur].ver
  <2>1. CASE cur \in plugins
    <3> DEFINE j == [image[cur] EXCEPT !.refs = image[cur].refs - 1]
    <3>1. image' = [image EXCEPT ![cur] = j]
      BY <2>1 DEF Insert
    <3>2. image[cur].refs = 2
      BY <1>1, <2>1, WhileHolding
    <3>3. /\ j \in Image /\ j.refs = 1 /\ j.sets = image[cur].sets
          /\ j.ver = image[cur].ver
      BY <1>1, <3>2 DEF Image
    <3> HIDE DEF j
    <3> QED BY <1>1, <3>1, <3>3, PutImage DEF HostInv
  <2>2. CASE cur \notin plugins
    <3>1. image' = image
      BY <2>2 DEF Insert
    <3>2. image[cur].refs = 1
      BY <1>1, <2>2, WhileHolding
    <3> QED BY <1>1, <3>1, <3>2
  <2> QED BY <2>1, <2>2
<1>3. TypeOK' /\ Unstarted'
  BY <1>1, <1>2, StepsOfStart
<1>4. ASSUME NEW m \in Names
      PROVE  /\ image'[m].sets <= 1
             /\ image'[m].sets = 1 => m \in plugins'
             /\ image'[m].refs = IF m \in plugins' THEN 1 ELSE 0
  BY <1>1, <1>2, WhileHolding
<1>5. OneSet'
  BY <1>1, <1>4 DEF OneSet, Count, Holding
<1>6. image[cur].ver # Gone
  <2>1. image[cur].refs > 0
    BY <1>1, WhileHolding
  <2> QED BY <1>1, <2>1 DEF HostInv, NoHandles
<1>7. NoHandles' /\ Quiet'
  BY <1>1, <1>2, <1>6 DEF NoHandles, Quiet, HostInv
<1> QED BY <1>3, <1>5, <1>7 DEF HostInv

-----------------------------------------------------------------------------

LEMMA RebootHost ==
  ASSUME HostInv, HostAssumption, Reboot
  PROVE  HostInv'
<1>1. /\ boots < MaxBoots /\ boots' = boots + 1
      /\ phase' = "listing" /\ left' = {} /\ events' = <<>>
      /\ plugins' = {} /\ image' = [n \in Names |-> NoImage]
      /\ at' = "idle" /\ again' = FALSE /\ missed' = {}
      /\ UNCHANGED <<setting, disk, changes, cur>>
  BY DEF Reboot, NoImages
<1>2. image' \in [Names -> Image]
  BY <1>1, NoImageType
<1>3. events' \in Seq([file : Files, kind : {"change", "remove"}])
  BY <1>1
<1>4. boots' \in 1..(MaxBoots + 1)
  BY <1>1 DEF HostInv, TypeOK, HostAssumption
<1>5. TypeOK'
  BY <1>1, <1>2, <1>3, <1>4 DEF HostInv, TypeOK, Image
<1>6. \A m \in Names : image'[m].sets = 0 /\ image'[m].refs = 0
  BY <1>1 DEF NoImage
<1>7. OneSet' /\ NoHandles'
  BY <1>1, <1>6 DEF OneSet, NoHandles, Count, Holding
<1>8. Quiet' /\ Unstarted'
  BY <1>1 DEF Quiet, Unstarted
<1> QED BY <1>5, <1>7, <1>8 DEF HostInv

LEMMA NextHost == HostAssumption /\ HostInv /\ [Next]_vars => HostInv'
<1> SUFFICES ASSUME HostAssumption, HostInv, [Next]_vars PROVE HostInv'
  OBVIOUS
<1>1. CASE List
  BY <1>1, ListHost
<1>2. ASSUME NEW f \in Files, StartListed(f) PROVE HostInv'
  BY <1>2, StartListedHost
<1>3. CASE Watch
  BY <1>3, WatchHost
<1>4. CASE TakeChange
  BY <1>4, TakeChangeHost
<1>5. CASE TakeRemove
  BY <1>5, TakeRemoveHost
<1>6. CASE Open
  BY <1>6, OpenHost
<1>7. CASE Initialise
  BY <1>7, InitialiseHost
<1>8. CASE Start
  BY <1>8, StartHost
<1>9. CASE Insert
  BY <1>9, InsertHost
<1>10. CASE Reboot
  BY <1>10, RebootHost
<1>11. ASSUME NEW f \in Files, PutFile(f) \/ DeleteFile(f) PROVE HostInv'
  BY <1>11, DiskHost
<1>12. CASE UNCHANGED vars
  BY <1>12 DEF vars, directory, work, HostInv, TypeOK, OneSet, NoHandles, Quiet,
               Unstarted, Holding, Busy, ListedName
<1> QED BY <1>1, <1>2, <1>3, <1>4, <1>5, <1>6, <1>7, <1>8, <1>9, <1>10, <1>11,
           <1>12 DEF Next, Run

LEMMA HostInvariant == Spec => []HostInv
<1>1. Init => HostInv
  BY HostAssumption, InitHost
<1>2. HostInv /\ [Next]_vars => HostInv'
  BY HostAssumption, NextHost
<1> QED BY <1>1, <1>2, PTL DEF Spec

(***************************************************************************)
(* The variables of the bot keep their types: no image ever has more than  *)
(* two handles, however often a library is opened, closed and opened       *)
(* again, and whatever happens to its file meanwhile.                      *)
(***************************************************************************)
THEOREM HostTypes == Spec => []TypeOK
<1>1. HostInv => TypeOK
  BY DEF HostInv
<1> QED BY <1>1, HostInvariant, PTL

(***************************************************************************)
(* Under one name the agents of a plugin run once at most, what runs can   *)
(* be shut down, and no handle is lost: for any files that are put and     *)
(* removed in any order while their events are under way, with the same    *)
(* names for the listing and the watcher or with different ones.           *)
(***************************************************************************)
THEOREM HostOneSet == Spec => []OneSet
<1>1. HostInv => OneSet
  BY DEF HostInv
<1> QED BY <1>1, HostInvariant, PTL

=============================================================================
