----------------------------- MODULE PluginHost -----------------------------
(***************************************************************************)
(* The bot and its plugins.  Every plugin is a library in one directory.   *)
(* The bot lists the directory and starts what it finds, then watches it:  *)
(* a library that changes is shut down, opened and started again, one that *)
(* is removed is shut down and closed.  The events of the directory come   *)
(* one by one, some time after what they tell of.                          *)
(*                                                                         *)
(* The bot knows a plugin by the name of its file; the dynamic loader (see *)
(* dlopen) gives every name one image, for as long as it is there: opening *)
(* a name again takes the image that is there, whatever the file holds     *)
(* now.  An image has the statics of the plugin: whether it has been       *)
(* initialised, and the runtime, which its shutdown takes away for good.   *)
(* When its last handle is closed the image goes, unless threads hold it.  *)
(*                                                                         *)
(* What the agents of a plugin do is AgentManager's: here they only run.   *)
(* Tasks that block their thread are not among what a shutdown ends.       *)
(***************************************************************************)
EXTENDS Naturals, Sequences

CONSTANTS
  Files,       \* the files of the plugins
  MaxChanges,  \* how often a file is put or removed
  MaxBoots,    \* how often the bot is started
  Settings     \* the settings to be considered

(***************************************************************************)
(* With sameNames the watcher has the same name for a file as the listing, *)
(* with logger the plugins are built with a logger of their own.           *)
(***************************************************************************)
ASSUME HostAssumption ==
  /\ MaxChanges \in Nat /\ MaxBoots \in Nat
  /\ Settings \subseteq [sameNames : BOOLEAN, logger : BOOLEAN]

Names == Files \X {"listed", "watched"}

Gone == 0

VARIABLES
  setting,  \* the setting of this behaviour, which never changes
  disk,     \* the directory: the version of every file, or Gone
  changes,  \* how often it has changed
  boots,    \* how often the bot has been started
  phase,    \* of the bot: "listing", "starting" or "watching"
  left,     \* the files of the listing that are still to be started
  events,   \* the events that the watcher has not handled yet
  plugins,  \* the names of the active plugins
  image,    \* what the loader has under a name
  at,       \* where the bot is with cur: "idle", "open", "init", "start",
            \* "insert", or "dead" once it has panicked
  cur,      \* the name that it opens
  again     \* whether a plugin of that name was active

(***************************************************************************)
(* History, for the properties only: the files that have changed between   *)
(* the listing and the watch.                                              *)
(***************************************************************************)
VARIABLE missed

directory == <<setting, disk, changes, boots>>
work      == <<at, cur, again>>
vars      == <<directory, phase, left, events, plugins, image, work, missed>>

(* The version of an image, Gone if there is none, its handles, its        *)
(* statics, and how many sets of its agents are running.                   *)
NoImage == [ver |-> Gone, refs |-> 0, inited |-> FALSE, rt |-> TRUE, sets |-> 0]

NoImages == [n \in Names |-> NoImage]

Init ==
  /\ setting \in Settings
  /\ disk \in [Files -> {Gone, 1}]
  /\ changes = 0 /\ boots = 1
  /\ phase = "listing" /\ left = {} /\ events = <<>>
  /\ plugins = {} /\ image = NoImages
  /\ at = "idle" /\ again = FALSE
  /\ cur \in Names
  /\ missed = {}

ListedName(f)  == <<f, "listed">>
WatchedName(f) == <<f, IF setting.sameNames THEN "listed" ELSE "watched">>

-----------------------------------------------------------------------------

(***************************************************************************)
(* The build moves a new version into the directory, or a file is deleted. *)
(* One change may come as several events.                                  *)
(***************************************************************************)
Notify(f, kind, n) ==
  /\ changes < MaxChanges /\ changes' = changes + 1
  /\ missed' = IF phase = "starting" THEN missed \cup {f} ELSE missed
  /\ events' = IF phase = "watching"
                 THEN events \o [i \in 1..n |-> [file |-> f, kind |-> kind]]
                 ELSE events
  /\ UNCHANGED <<setting, boots, phase, left, plugins, image, work>>

PutFile(f) ==
  /\ disk' = [disk EXCEPT ![f] = changes + 2]
  /\ \E n \in 1..2 : Notify(f, "change", n)

DeleteFile(f) ==
  /\ disk[f] # Gone
  /\ disk' = [disk EXCEPT ![f] = Gone]
  /\ Notify(f, "remove", 1)

-----------------------------------------------------------------------------

List ==
  /\ phase = "listing" /\ phase' = "starting"
  /\ left' = {f \in Files : disk[f] # Gone}
  /\ UNCHANGED <<directory, events, plugins, image, work, missed>>

StartListed(f) ==
  /\ at = "idle" /\ f \in left
  /\ left' = left \ {f}
  /\ at' = "open" /\ cur' = ListedName(f) /\ again' = FALSE
  /\ UNCHANGED <<directory, phase, events, plugins, image, missed>>

Watch ==
  /\ phase = "starting" /\ left = {} /\ at = "idle"
  /\ phase' = "watching"
  /\ UNCHANGED <<directory, left, events, plugins, image, work, missed>>

-----------------------------------------------------------------------------

(* Fault: the shutdown does not end what runs. *)
Cancel(i) == [i EXCEPT !.rt = FALSE]

(***************************************************************************)
(* The plugin's shutdown: it takes the runtime and ends what runs in it.   *)
(***************************************************************************)
ShutDown(i) == [i EXCEPT !.rt = FALSE, !.sets = 0]

(* Closing a handle; the image of the last one may go. *)
Close(i) ==
  {[i EXCEPT !.refs = @ - 1]} \cup (IF i.refs = 1 THEN {NoImage} ELSE {})

TakeChange ==
  /\ phase = "watching" /\ at = "idle"
  /\ events # <<>> /\ Head(events).kind = "change"
  /\ events' = Tail(events)
  /\ LET n == WatchedName(Head(events).file)
     IN /\ cur' = n /\ at' = "open" /\ again' = (n \in plugins)
        /\ image' = IF n \in plugins
                      THEN [image EXCEPT ![n] = ShutDown(@)] ELSE image
  /\ UNCHANGED <<directory, phase, left, plugins, missed>>

(* Fault: the plugin stays among the active ones. *)
TakeRemoveKeeping ==
  /\ phase = "watching" /\ at = "idle"
  /\ events # <<>> /\ Head(events).kind = "remove"
  /\ events' = Tail(events)
  /\ LET n == WatchedName(Head(events).file)
     IN image' = IF n \in plugins
                   THEN [image EXCEPT ![n] = ShutDown(@)] ELSE image
  /\ UNCHANGED <<directory, phase, left, plugins, work, missed>>

TakeRemove ==
  /\ phase = "watching" /\ at = "idle"
  /\ events # <<>> /\ Head(events).kind = "remove"
  /\ events' = Tail(events)
  /\ LET n == WatchedName(Head(events).file)
     IN /\ plugins' = plugins \ {n}
        /\ IF n \in plugins
             THEN \E i \in Close(ShutDown(image[n])) :
                    image' = [image EXCEPT ![n] = i]
             ELSE UNCHANGED image
  /\ UNCHANGED <<directory, phase, left, work, missed>>

(***************************************************************************)
(* Opening, initialising and starting.  A file that is not there any more  *)
(* is a panic, and so is a second logger of one image.                     *)
(***************************************************************************)
Open ==
  /\ at = "open"
  /\ LET f == cur[1]
         i == image[cur]
     IN IF disk[f] = Gone
          THEN at' = "dead" /\ UNCHANGED image
          ELSE /\ at' = "init"
               /\ image' = [image EXCEPT ![cur] =
                    IF i.ver = Gone THEN [NoImage EXCEPT !.ver = disk[f], !.refs = 1]
                                    ELSE [i EXCEPT !.refs = @ + 1]]
  /\ UNCHANGED <<directory, phase, left, events, plugins, cur, again, missed>>

Initialise ==
  /\ at = "init"
  /\ at' = IF setting.logger /\ image[cur].inited THEN "dead" ELSE "start"
  /\ image' = [image EXCEPT ![cur].inited = TRUE]
  /\ UNCHANGED <<directory, phase, left, events, plugins, cur, again, missed>>

(* Without a runtime nothing is started, and nobody is told. *)
Start ==
  /\ at = "start" /\ at' = "insert"
  /\ image' = [image EXCEPT ![cur].sets = IF image[cur].rt THEN @ + 1 ELSE @]
  /\ UNCHANGED <<directory, phase, left, events, plugins, cur, again, missed>>

(* Fault: the handle before is not closed. *)
InsertLeaking ==
  /\ at = "insert" /\ at' = "idle"
  /\ plugins' = plugins \cup {cur}
  /\ UNCHANGED <<directory, phase, left, events, image, cur, again, missed>>

(* The handle takes the place of the one before, which is closed. *)
Insert ==
  /\ at = "insert" /\ at' = "idle"
  /\ plugins' = plugins \cup {cur}
  /\ IF cur \in plugins
       THEN image' = [image EXCEPT ![cur].refs = @ - 1]
       ELSE UNCHANGED image
  /\ UNCHANGED <<directory, phase, left, events, cur, again, missed>>

(* The bot ends and is started again. *)
Reboot ==
  /\ boots < MaxBoots /\ boots' = boots + 1
  /\ phase' = "listing" /\ left' = {} /\ events' = <<>>
  /\ plugins' = {} /\ image' = NoImages
  /\ at' = "idle" /\ again' = FALSE
  /\ missed' = {}
  /\ UNCHANGED <<setting, disk, changes, cur>>

Run == List \/ (\E f \in Files : StartListed(f)) \/ Watch
         \/ TakeChange \/ TakeRemove \/ Open \/ Initialise \/ Start \/ Insert

Next == Run \/ Reboot \/ \E f \in Files : PutFile(f) \/ DeleteFile(f)

Spec == Init /\ [][Next]_vars

(* The bot goes on; nothing has to change, and nobody has to restart it. *)
FairSpec == Spec /\ WF_vars(Run)

-----------------------------------------------------------------------------

(***************************************************************************)
(* The variables are what their comments say.                              *)
(***************************************************************************)
TypeOK ==
  /\ setting \in Settings
  /\ disk \in [Files -> Nat] /\ changes \in 0..MaxChanges
  /\ boots \in 1..(MaxBoots + 1)
  /\ phase \in {"listing", "starting", "watching"}
  /\ left \subseteq Files /\ missed \subseteq Files
  /\ events \in Seq([file : Files, kind : {"change", "remove"}])
  /\ plugins \subseteq Names
  /\ image \in [Names -> [ver : Nat, refs : 0..2, inited : BOOLEAN,
                          rt : BOOLEAN, sets : Nat]]
  /\ at \in {"idle", "open", "init", "start", "insert", "dead"}
  /\ cur \in Names /\ again \in BOOLEAN

Count(b) == IF b THEN 1 ELSE 0

Holding(n) == at \in {"init", "start", "insert"} /\ cur = n

(***************************************************************************)
(* Unless the bot has panicked: under one name the agents run once at      *)
(* most, however often it has been opened, closed and opened again; what   *)
(* runs can be shut down, as it is one of the active plugins, or about to  *)
(* be; and every handle is one of an active plugin or of the one being     *)
(* started, so that none is lost.                                          *)
(***************************************************************************)
OneSet ==
  at # "dead" =>
    \A n \in Names :
      /\ image[n].sets <= 1
      /\ image[n].sets = 1 => n \in plugins \/ Holding(n)
      /\ image[n].refs = Count(n \in plugins) + Count(Holding(n))

(***************************************************************************)
(* In the end the active plugins are those of the directory, in whatever   *)
(* order files were put and removed while events were under way: unless    *)
(* the bot has panicked, and but for files that changed after the listing  *)
(* and before the watch, and for names that only the listing uses.         *)
(***************************************************************************)
Follows ==
  \A f \in Files :
    <>[](\/ at = "dead" \/ f \in missed
         \/ IF disk[f] = Gone THEN WatchedName(f) \notin plugins
                              ELSE {ListedName(f), WatchedName(f)} \cap plugins # {})

(***************************************************************************)
(* A plugin that is active when its file changes is shut down and started  *)
(* again ("Re-starting library").                                          *)
(***************************************************************************)
Restarted ==
  [][Insert /\ again => image[cur].sets = 1]_vars

=============================================================================
