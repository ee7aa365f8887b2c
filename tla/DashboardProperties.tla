------------------------ MODULE DashboardProperties -------------------------
(***************************************************************************)
(* What the live feed of the dashboard guarantees.                          *)
(***************************************************************************)
EXTENDS Dashboard

\* Every variable keeps its type; the ring buffer keeps to its limit.
TypeOK ==
  /\ seq       \in Nat
  /\ publisher \in PublisherStates
  /\ backlog   \in Seq(Nat)
  /\ Len(backlog) <= History
  /\ sent      \in Nat
  /\ phase     \in [Clients -> Phases]
  /\ cursor    \in [Clients -> Nat]
  /\ replay    \in [Clients -> Seq(Nat)]
  /\ lastSeq   \in [Clients -> Nat \cup {-1}]
  /\ out       \in [Clients -> Seq(Nat)]
  /\ joined    \in [Clients -> Nat]
  /\ lost      \in [Clients -> SUBSET Nat]

(***************************************************************************)
(* Replay and live feed overlap, and an event is put into the buffer before *)
(* it is broadcast; yet no connection is sent an event twice or out of      *)
(* order (server.rs: duplicates are told by their seq).                     *)
(***************************************************************************)
StreamAscends ==
  \A c \in Clients : \A i \in 1 .. Len(out[c]) - 1 : out[c][i] < out[c][i + 1]

(***************************************************************************)
(* Nothing is skipped silently at the seam of replay and live feed, nor     *)
(* later: what is missing between two events of a connection, or between    *)
(* the last one and its receiver, is covered by "lagged" lines.  server.rs  *)
(* subscribes before it copies the ring buffer so that no event at the seam *)
(* is missed; what was broadcast from then on and is older than the first   *)
(* event written is lost only if the buffer was overrun in between, that    *)
(* is, if the replay was History newer events.                              *)
(***************************************************************************)
FullReplay(q) ==
  /\ History > 0 /\ Len(q) >= History
  /\ \A i \in 1 .. History - 1 : q[i + 1] = q[i] + 1

NothingSkipped ==
  \A c \in Clients : phase[c] = "live" =>
    /\ \A i \in 1 .. Len(out[c]) - 1 :
         out[c][i] + 1 .. out[c][i + 1] - 1 \subseteq lost[c]
    /\ LET seen == IF out[c] = <<>> THEN joined[c] ELSE out[c][Len(out[c])] + 1
       IN  seen .. cursor[c] - 1 \subseteq lost[c]
    /\ out[c] # <<>> =>
         joined[c] .. out[c][1] - 1 \subseteq lost[c] \/ FullReplay(out[c])

(***************************************************************************)
(* However far it fell behind, a connection catches up with what was        *)
(* published, or it ends.                                                   *)
(***************************************************************************)
FeedCatchesUp ==
  \A c \in Clients :
    phase[c] # "off"
      ~> (phase[c] = "off" \/ (phase[c] = "live" /\ cursor[c] = sent))
=============================================================================
