--------------------------- MODULE EntryRegister ---------------------------
(***************************************************************************)
(* What the entry store promises to the owner of one key.                  *)
(*                                                                         *)
(* A key holds the entry written last (latest) and the successful entry    *)
(* written last (lastOk).  Writing an error never disturbs lastOk.         *)
(* Entries are forgotten only while the key is being cleared, which        *)
(* happens in remove_all and in the wipe that precedes the insert after    *)
(* the last revision number.  A crash takes the key back to what it held   *)
(* at the last flush, never to a mixture.                                  *)
(***************************************************************************)

CONSTANTS
  OkData,   \* payloads of successful entries, Ok(T)
  ErrData,  \* payloads of failed entries, Err(EntryError)
  NoEntry   \* the absence of an entry

Data == OkData \cup ErrData

VARIABLES
  latest,      \* the entry written last
  lastOk,      \* the successful entry written last
  clearing,    \* is the key being cleared?
  savedLatest, \* latest at the last flush
  savedLastOk  \* lastOk at the last flush

rvars == <<latest, lastOk, clearing, savedLatest, savedLastOk>>

Init ==
  /\ latest = NoEntry
  /\ lastOk = NoEntry
  /\ clearing = FALSE
  /\ savedLatest = NoEntry
  /\ savedLastOk = NoEntry

Put(d) ==
  /\ ~ clearing
  /\ latest' = d
  /\ lastOk' = IF d \in OkData THEN d ELSE lastOk
  /\ UNCHANGED <<clearing, savedLatest, savedLastOk>>

BeginClear ==
  /\ ~ clearing
  /\ clearing' = TRUE
  /\ UNCHANGED <<latest, lastOk, savedLatest, savedLastOk>>

Forget ==
  /\ clearing
  /\ latest' \in {latest, NoEntry}
  /\ lastOk' \in {lastOk, NoEntry}
  /\ UNCHANGED <<clearing, savedLatest, savedLastOk>>

EndClear ==
  /\ clearing
  /\ clearing' = FALSE
  /\ UNCHANGED <<latest, lastOk, savedLatest, savedLastOk>>

Flush ==
  /\ savedLatest' = latest
  /\ savedLastOk' = lastOk
  /\ UNCHANGED <<latest, lastOk, clearing>>

Crash ==
  /\ latest' = savedLatest
  /\ lastOk' = savedLastOk
  /\ clearing' = FALSE
  /\ UNCHANGED <<savedLatest, savedLastOk>>

Next ==
  \/ \E d \in Data : Put(d)
  \/ BeginClear
  \/ Forget
  \/ EndClear
  \/ Flush
  \/ Crash

Spec == Init /\ [][Next]_rvars

=============================================================================
