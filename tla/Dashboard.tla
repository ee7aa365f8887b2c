----------------------------- MODULE Dashboard ------------------------------
(***************************************************************************)
(* The live feed of the dashboard (dashboard/mod.rs, server.rs): the        *)
(* system logger's writer task publishes numbered events, keeps the last    *)
(* ones in a ring buffer and broadcasts them; a connection replays the      *)
(* buffer and then relays the broadcast, dropping what it has replayed.     *)
(*                                                                          *)
(* An event is represented by its number.                                   *)
(***************************************************************************)
EXTENDS Integers, Sequences

CONSTANTS
  Clients,    \* connections to /events, each of which may come back
  History,    \* events the ring buffer keeps (dashboard.history, 0: none)
  Buffer,     \* events the broadcast channel keeps (CHANNEL_CAPACITY, 512)
  MaxEvents   \* bound of the model: events published

ASSUME HistoryAssumption   == History \in Nat
ASSUME BufferAssumption    == Buffer \in Nat \ {0}
ASSUME MaxEventsAssumption == MaxEvents \in Nat

VARIABLES
  seq,         \* Hub.seq: the number of the next event
  publisher,   \* where publish() is
  backlog,     \* Hub.backlog
  sent,        \* events broadcast so far: the tail of the channel
  phase,       \* where stream_events is, per connection
  cursor,      \* the number the connection's receiver reads next
  replay,      \* its copy of the backlog, as far as it is not yet written
  lastSeq,     \* last_seq; -1 stands for None
  out,         \* what was written to the connection
  joined,      \* history: the cursor when it subscribed
  lost         \* history: events its "lagged" lines stand for

hubVars    == <<seq, publisher, backlog, sent>>
clientVars == <<phase, cursor, replay, lastSeq, out, joined, lost>>
dashVars   == <<hubVars, clientVars>>

PublisherStates == {"idle", "numbered", "kept"}
Phases          == {"off", "connected", "subscribed", "replaying", "live"}

Init ==
  /\ seq = 0
  /\ publisher = "idle"
  /\ backlog = <<>>
  /\ sent = 0
  /\ phase   = [c \in Clients |-> "off"]
  /\ cursor  = [c \in Clients |-> 0]
  /\ replay  = [c \in Clients |-> <<>>]
  /\ lastSeq = [c \in Clients |-> -1]
  /\ out     = [c \in Clients |-> <<>>]
  /\ joined  = [c \in Clients |-> 0]
  /\ lost    = [c \in Clients |-> {}]

-----------------------------------------------------------------------------
(***************************************************************************)
(* publish: one task calls it, so the next call starts when this one ends   *)
(***************************************************************************)

\* Mutant of Trimmed: off by one.
TrimmedLate(b) == IF Len(b) > History THEN Tail(b) ELSE b

\* The ring buffer with room for one more.
Trimmed(b) == IF Len(b) >= History THEN Tail(b) ELSE b

\* seq.fetch_add
Number ==
  /\ publisher = "idle"
  /\ seq < MaxEvents
  /\ seq' = seq + 1
  /\ publisher' = "numbered"
  /\ UNCHANGED <<backlog, sent, clientVars>>

\* Under the lock of the backlog.
Keep ==
  /\ publisher = "numbered"
  /\ backlog' = IF History > 0 THEN Append(Trimmed(backlog), seq - 1)
                ELSE backlog
  /\ publisher' = "kept"
  /\ UNCHANGED <<seq, sent, clientVars>>

\* tx.send never waits; with no receiver it has no effect.
Broadcast ==
  /\ publisher = "kept"
  /\ sent' = sent + 1
  /\ publisher' = "idle"
  /\ UNCHANGED <<seq, backlog, clientVars>>

-----------------------------------------------------------------------------
(***************************************************************************)
(* stream_events                                                            *)
(***************************************************************************)

\* The browser connects, for the first time or again; the header is written.
Connect(c) ==
  /\ phase[c] = "off"
  /\ phase' = [phase EXCEPT ![c] = "connected"]
  /\ UNCHANGED <<hubVars, cursor, replay, lastSeq, out, joined, lost>>

\* tx.subscribe: the receiver starts at the tail.
Subscribe(c) ==
  /\ phase[c] = "connected"
  /\ phase' = [phase EXCEPT ![c] = "subscribed"]
  /\ cursor' = [cursor EXCEPT ![c] = sent]
  /\ joined' = [joined EXCEPT ![c] = sent]
  /\ UNCHANGED <<hubVars, replay, lastSeq, out, lost>>

CopyBacklog(c) ==
  /\ phase[c] = "subscribed"
  /\ phase' = [phase EXCEPT ![c] = "replaying"]
  /\ replay' = [replay EXCEPT ![c] = backlog]
  /\ UNCHANGED <<hubVars, cursor, lastSeq, out, joined, lost>>

\* Write one event and note its number.
Deliver(c, n) ==
  /\ out' = [out EXCEPT ![c] = Append(@, n)]
  /\ lastSeq' = [lastSeq EXCEPT ![c] = n]

Replay(c) ==
  /\ phase[c] = "replaying"
  /\ replay[c] # <<>>
  /\ Deliver(c, Head(replay[c]))
  /\ replay' = [replay EXCEPT ![c] = Tail(@)]
  /\ UNCHANGED <<hubVars, phase, cursor, joined, lost>>

\* Mutant of ReadFrom: subscribing only when the replay is written.
ReadFromTail(c) == sent

\* What was broadcast during the replay is still to be read.
ReadFrom(c) == cursor[c]

GoLive(c) ==
  /\ phase[c] = "replaying"
  /\ replay[c] = <<>>
  /\ phase' = [phase EXCEPT ![c] = "live"]
  /\ cursor' = [cursor EXCEPT ![c] = ReadFrom(c)]
  /\ UNCHANGED <<hubVars, replay, lastSeq, out, joined, lost>>

\* Mutant of Oldest: the receiver is not moved.
OldestUnread(c) == cursor[c]

\* The oldest event the channel still holds.
Oldest(c) == sent - Buffer

\* Mutant of IsNew: what was replayed is written again.
AlwaysNew(c) == TRUE

\* The event the receiver is at was not replayed.
IsNew(c) == lastSeq[c] < cursor[c]

Behind(c) == cursor[c] < sent - Buffer

Relay(c) ==
  /\ phase[c] = "live"
  /\ cursor[c] < sent
  /\ ~ Behind(c)
  /\ IF IsNew(c) THEN Deliver(c, cursor[c]) ELSE UNCHANGED <<out, lastSeq>>
  /\ cursor' = [cursor EXCEPT ![c] = @ + 1]
  /\ UNCHANGED <<hubVars, phase, replay, joined, lost>>

\* RecvError::Lagged: say how many were lost and go on with the oldest.
Lag(c) ==
  /\ phase[c] = "live"
  /\ Behind(c)
  /\ lost' = [lost EXCEPT ![c] = @ \cup (cursor[c] .. Oldest(c) - 1)]
  /\ cursor' = [cursor EXCEPT ![c] = Oldest(c)]
  /\ UNCHANGED <<hubVars, phase, replay, lastSeq, out, joined>>

\* A write fails because the browser is gone: the task ends.
Disconnect(c) ==
  /\ phase[c] # "off"
  /\ phase'   = [phase   EXCEPT ![c] = "off"]
  /\ cursor'  = [cursor  EXCEPT ![c] = 0]
  /\ replay'  = [replay  EXCEPT ![c] = <<>>]
  /\ lastSeq' = [lastSeq EXCEPT ![c] = -1]
  /\ out'     = [out     EXCEPT ![c] = <<>>]
  /\ joined'  = [joined  EXCEPT ![c] = 0]
  /\ lost'    = [lost    EXCEPT ![c] = {}]
  /\ UNCHANGED hubVars

-----------------------------------------------------------------------------
Publish == Number \/ Keep \/ Broadcast

Stream(c) == Subscribe(c) \/ CopyBacklog(c) \/ Replay(c) \/ GoLive(c)
             \/ Relay(c) \/ Lag(c)

Next ==
  \/ Publish
  \/ \E c \in Clients : Stream(c) \/ Connect(c) \/ Disconnect(c)

Spec == Init /\ [][Next]_dashVars

(***************************************************************************)
(* The connection's task is scheduled and its writes end, or it             *)
(* disconnects.  Nothing is assumed of browsers or of what is logged.       *)
(***************************************************************************)
Fairness == \A c \in Clients : WF_dashVars(Stream(c))

FairSpec == Spec /\ Fairness
=============================================================================
