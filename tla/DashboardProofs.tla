-------------------------- MODULE DashboardProofs ---------------------------
(***************************************************************************)
(* Theorems of the live feed, for every set of connections, size of the     *)
(* ring buffer, capacity of the channel and number of events.               *)
(***************************************************************************)
EXTENDS DashboardProperties, TLAPS

USE HistoryAssumption, BufferAssumption

(***************************************************************************)
(* The inductive invariant.  The ring buffer is a run of consecutive events *)
(* that ends with the newest one kept, and what was kept is at most one     *)
(* event ahead of what was broadcast.  So the copy a connection replays is  *)
(* a run too, and it reaches at least to where its receiver began: from     *)
(* then on, every event below the receiver was written, came before the     *)
(* replay, or is among the lost ones.  It starts no later than its receiver *)
(* unless the buffer is full.                                               *)
(***************************************************************************)
IsRun(q) == \A i \in 1 .. Len(q) - 1 : q[i + 1] = q[i] + 1

Last(q) == q[Len(q)]

Kept == IF publisher = "numbered" THEN seq - 1 ELSE seq

HubInv ==
  /\ publisher # "idle" => seq > 0
  /\ sent = IF publisher = "idle" THEN seq ELSE seq - 1
  /\ IsRun(backlog)
  /\ backlog # <<>> => /\ Last(backlog) = Kept - 1
                       /\ Head(backlog) = 0 \/ Len(backlog) = History
  /\ backlog = <<>> => History = 0 \/ Kept = 0

Noted(c) == lastSeq[c] = IF out[c] = <<>> THEN -1 ELSE Last(out[c])

Covered(c) ==
  \A i \in 1 .. Len(out[c]) - 1 :
    /\ out[c][i] < out[c][i + 1]
    /\ out[c][i] + 1 .. out[c][i + 1] - 1 \subseteq lost[c]

Placed(c) ==
  /\ joined[c] <= cursor[c] /\ cursor[c] <= sent
  /\ phase[c] # "live" => cursor[c] = joined[c]

Joining(c) ==
  /\ phase[c] \in {"off", "connected", "subscribed"} => out[c] = <<>>
  /\ phase[c] # "replaying" => replay[c] = <<>>

\* The replay goes on where what was written ends, and reaches the receiver.
Replaying(c) ==
  phase[c] = "replaying" =>
    /\ IsRun(replay[c])
    /\ replay[c] # <<>> => joined[c] <= Last(replay[c]) + 1
    /\ replay[c] # <<>> /\ out[c] # <<>> => Head(replay[c]) = lastSeq[c] + 1
    /\ replay[c] = <<>> /\ out[c] # <<>> => joined[c] <= lastSeq[c] + 1

Unseen(c) == IF out[c] = <<>> THEN joined[c] ELSE lastSeq[c] + 1

Live(c) == phase[c] = "live" => Unseen(c) .. cursor[c] - 1 \subseteq lost[c]

\* The first event written, or about to be, is no later than the receiver
\* began, or the replay is a full buffer.
Whole(c) ==
  phase[c] = "replaying" =>
    /\ IsRun(out[c])
    /\ out[c] # <<>> => \/ out[c][1] <= joined[c]
                        \/ History > 0 /\ Len(out[c]) + Len(replay[c]) >= History
    /\ out[c] = <<>> /\ replay[c] # <<>> =>
         \/ Head(replay[c]) <= joined[c]
         \/ History > 0 /\ Len(replay[c]) >= History

Begun(c) ==
  phase[c] = "live" /\ out[c] # <<>> =>
    joined[c] .. out[c][1] - 1 \subseteq lost[c] \/ FullReplay(out[c])

ClientInv(c) ==
  /\ Noted(c)
  /\ Covered(c)
  /\ Placed(c)
  /\ Joining(c)
  /\ Replaying(c)
  /\ Live(c)
  /\ Whole(c)
  /\ Begun(c)

FeedInv == TypeOK /\ HubInv /\ \A c \in Clients : ClientInv(c)

-----------------------------------------------------------------------------
\* Runs, and ascending sequences, under the operations of a queue.
LEMMA RunOps ==
  ASSUME NEW q \in Seq(Nat), IsRun(q)
  PROVE  /\ q # <<>> =>
              /\ Head(q) \in Nat /\ Last(q) \in Nat
              /\ Tail(q) \in Seq(Nat) /\ Len(Tail(q)) = Len(q) - 1
              /\ IsRun(Tail(q))
              /\ Tail(q) # <<>> => /\ Last(Tail(q)) = Last(q)
                                   /\ Head(Tail(q)) = Head(q) + 1
              /\ Tail(q) = <<>> => Last(q) = Head(q)
         /\ \A n \in Nat :
              (q # <<>> => n = Last(q) + 1) => IsRun(Append(q, n))
<1>1. ASSUME q # <<>>
      PROVE  /\ Head(q) \in Nat /\ Last(q) \in Nat
             /\ Tail(q) \in Seq(Nat) /\ Len(Tail(q)) = Len(q) - 1
             /\ IsRun(Tail(q))
             /\ Tail(q) # <<>> => /\ Last(Tail(q)) = Last(q)
                                  /\ Head(Tail(q)) = Head(q) + 1
             /\ Tail(q) = <<>> => Last(q) = Head(q)
  <2>1. /\ Len(q) \in Nat \ {0} /\ Head(q) = q[1] /\ q[1] \in Nat
        /\ q[Len(q)] \in Nat
        /\ Tail(q) \in Seq(Nat) /\ Len(Tail(q)) = Len(q) - 1
        /\ \A i \in 1 .. Len(q) - 1 : Tail(q)[i] = q[i + 1]
    BY <1>1
  <2>2. \A i \in 1 .. Len(Tail(q)) - 1 : Tail(q)[i + 1] = Tail(q)[i] + 1
    BY <2>1 DEF IsRun
  <2>3. ASSUME Tail(q) # <<>>
        PROVE  Len(q) > 1 /\ Head(Tail(q)) = Tail(q)[1]
    BY <2>1, <2>3
  <2>4. ASSUME Tail(q) # <<>>
        PROVE  /\ Last(Tail(q)) = Last(q)
               /\ Head(Tail(q)) = Head(q) + 1
    <3>1. Tail(q)[Len(q) - 1] = q[(Len(q) - 1) + 1] /\ Tail(q)[1] = q[1 + 1]
      BY <2>1, <2>3, <2>4
    <3> QED
      BY <2>1, <2>3, <2>4, <3>1 DEF IsRun, Last
  <2>5. ASSUME Tail(q) = <<>>
        PROVE  Len(q) = 1
    <3>1. Len(Tail(q)) = 0
      <4>1. \A r : r = <<>> => Len(r) = 0
        OBVIOUS
      <4> QED
        BY <2>5, <4>1, Zenon
    <3> QED
      BY <2>1, <3>1
  <2> QED
    BY <2>1, <2>2, <2>4, <2>5 DEF IsRun, Last
<1>2. ASSUME NEW n \in Nat, q # <<>> => n = Last(q) + 1
      PROVE  IsRun(Append(q, n))
  <2>1. /\ Len(q) \in Nat /\ Len(Append(q, n)) = Len(q) + 1
        /\ \A i \in 1 .. Len(q) : Append(q, n)[i] = q[i]
        /\ Append(q, n)[Len(q) + 1] = n
    OBVIOUS
  <2> SUFFICES ASSUME NEW i \in 1 .. Len(q)
               PROVE  Append(q, n)[i + 1] = Append(q, n)[i] + 1
    BY <2>1 DEF IsRun
  <2>2. CASE i = Len(q)
    <3>1. q # <<>> /\ n = Last(q) + 1
      BY <1>2, <2>2
    <3> QED
      BY <2>1, <2>2, <3>1 DEF Last
  <2>3. CASE i # Len(q)
    <3>1. i \in 1 .. Len(q) - 1 /\ i + 1 \in 1 .. Len(q)
      BY <2>1, <2>3
    <3> QED
      BY <2>1, <3>1 DEF IsRun
  <2> QED
    BY <2>2, <2>3
<1> QED
  BY <1>1, <1>2

LEMMA AppendLast ==
  ASSUME NEW S, NEW q \in Seq(S), NEW n \in S
  PROVE  /\ Append(q, n) \in Seq(S) /\ Append(q, n) # <<>>
         /\ Len(Append(q, n)) = Len(q) + 1 /\ Last(Append(q, n)) = n
  BY DEF Last

\* The ring buffer stays a run that ends with the newest event kept.
LEMMA StepHub ==
  ASSUME TypeOK, HubInv, [Next]_dashVars
  PROVE  /\ HubInv'
         /\ seq' \in Nat /\ sent' \in Nat /\ sent <= sent'
         /\ publisher' \in PublisherStates
         /\ backlog' \in Seq(Nat) /\ Len(backlog') <= History
<1> USE DEF TypeOK, HubInv, PublisherStates, Kept
<1>1. CASE Number
  BY <1>1 DEF Number
<1>2. CASE Keep
  <2>1. CASE History = 0
    BY <1>2, <2>1 DEF Keep, Last
  <2>2. CASE History # 0
    <3> DEFINE b == Trimmed(backlog)
               n == seq - 1
    <3>1. n \in Nat /\ publisher = "numbered" /\ backlog' = Append(b, n)
      BY <1>2, <2>2 DEF Keep
    <3>2. /\ b \in Seq(Nat) /\ IsRun(b) /\ Len(b) + 1 <= History
          /\ b # <<>> => n = Last(b) + 1
          /\ \/ Len(b) + 1 = History
             \/ b # <<>> /\ Head(b) = 0
             \/ b = <<>> /\ n = 0
      <4>1. CASE Len(backlog) >= History
        <5>1. backlog # <<>> /\ b = Tail(backlog)
          BY <2>2, <4>1 DEF Trimmed
        <5>2. /\ b \in Seq(Nat) /\ Len(b) = Len(backlog) - 1 /\ IsRun(b)
              /\ b # <<>> => Last(b) = Last(backlog)
          BY <5>1, RunOps
        <5>3. Last(backlog) = n - 1 /\ n - 1 \in Int
          BY <3>1, <5>1
        <5>4. Len(backlog) = History
          BY <4>1
        <5> QED
          BY <5>2, <5>3, <5>4, <3>1
      <4>2. CASE ~ Len(backlog) >= History
        <5>1. b = backlog
          BY <4>2 DEF Trimmed
        <5> QED
          BY <3>1, <4>2, <5>1
      <4> QED
        BY <4>1, <4>2
    <3> HIDE DEF b
    <3>3. IsRun(Append(b, n))
      BY <3>1, <3>2, RunOps
    <3>4. /\ Append(b, n) \in Seq(Nat) /\ Len(Append(b, n)) <= History
          /\ Last(Append(b, n)) = n /\ Append(b, n) # <<>>
          /\ Len(Append(b, n)) = Len(b) + 1
      BY <3>1, <3>2, AppendLast, SMTT(30)
    <3>7. Head(Append(b, n)) = IF b = <<>> THEN n ELSE Head(b)
      BY <3>1, <3>2
    <3>8. Head(backlog') = 0 \/ Len(backlog') = History
      BY <3>1, <3>2, <3>4, <3>7
    <3>5. Last(backlog)' = n /\ IsRun(backlog)'
      BY <3>1, <3>3, <3>4 DEF Last, IsRun
    <3>6. publisher' = "kept" /\ UNCHANGED <<seq, sent>>
      BY <1>2 DEF Keep
    <3> QED
      BY <3>1, <3>4, <3>5, <3>6, <3>8
  <2> QED
    BY <2>1, <2>2
<1>3. CASE Broadcast
  BY <1>3 DEF Broadcast, IsRun, Last
<1>4. CASE UNCHANGED hubVars
  BY <1>4 DEF hubVars, IsRun, Last
<1>5. ASSUME NEW c \in Clients, Stream(c) \/ Connect(c) \/ Disconnect(c)
      PROVE  UNCHANGED hubVars
  BY <1>5 DEF Stream, Connect, Subscribe, CopyBacklog, Replay, GoLive, Relay,
              Lag, Disconnect
<1> QED
  BY <1>1, <1>2, <1>3, <1>4, <1>5 DEF Next, Publish, dashVars

\* Every step keeps the types.
LEMMA StepType ==
  ASSUME TypeOK, HubInv, [Next]_dashVars
  PROVE  TypeOK'
PROOF
<1> DEFINE ClientTypes ==
             /\ phase   \in [Clients -> Phases]
             /\ cursor  \in [Clients -> Nat]
             /\ replay  \in [Clients -> Seq(Nat)]
             /\ lastSeq \in [Clients -> Nat \cup {-1}]
             /\ out     \in [Clients -> Seq(Nat)]
             /\ joined  \in [Clients -> Nat]
             /\ lost    \in [Clients -> SUBSET Nat]
<1>1. /\ seq' \in Nat /\ sent' \in Nat
      /\ publisher' \in PublisherStates
      /\ backlog' \in Seq(Nat) /\ Len(backlog') <= History
  BY StepHub
<1> SUFFICES ClientTypes'
  BY <1>1 DEF TypeOK
<1> USE DEF TypeOK, Phases
<1>2. CASE UNCHANGED clientVars
  BY <1>2 DEF clientVars
<1>3. CASE Publish \/ UNCHANGED dashVars
  BY <1>2, <1>3 DEF Publish, Number, Keep, Broadcast, dashVars
<1>4. ASSUME NEW c \in Clients, NEW n \in Nat, Deliver(c, n)
      PROVE  /\ out' \in [Clients -> Seq(Nat)]
             /\ lastSeq' \in [Clients -> Nat \cup {-1}]
  <2>1. Append(out[c], n) \in Seq(Nat)
    BY AppendLast
  <2> QED
    BY <1>4, <2>1 DEF Deliver
<1>5. ASSUME NEW c \in Clients,
             Connect(c) \/ Subscribe(c) \/ CopyBacklog(c) \/ Disconnect(c)
      PROVE  ClientTypes'
  <2>1. CASE Connect(c)
    BY <2>1 DEF Connect
  <2>4. CASE Subscribe(c)
    BY <2>4 DEF Subscribe
  <2>2. CASE CopyBacklog(c)
    BY <2>2 DEF CopyBacklog
  <2>3. CASE Disconnect(c)
    <3>1. /\ <<>> \in Seq(Nat) /\ {} \in SUBSET Nat /\ 0 \in Nat
          /\ -1 \in Nat \cup {-1} /\ "off" \in Phases
      OBVIOUS
    <3> QED
      BY <2>3, <3>1 DEF Disconnect
  <2> QED
    BY <1>5, <2>1, <2>2, <2>3, <2>4
<1>6. ASSUME NEW c \in Clients, Replay(c)
      PROVE  ClientTypes'
  <2>1. Head(replay[c]) \in Nat /\ Tail(replay[c]) \in Seq(Nat)
    BY <1>6 DEF Replay
  <2>2. replay' \in [Clients -> Seq(Nat)]
    BY <1>6, <2>1 DEF Replay
  <2> QED
    BY <1>4, <1>6, <2>1, <2>2 DEF Replay
<1>7. ASSUME NEW c \in Clients, GoLive(c)
      PROVE  ClientTypes'
  BY <1>7 DEF GoLive, ReadFrom
<1>8. ASSUME NEW c \in Clients, Relay(c)
      PROVE  ClientTypes'
  <2>1. /\ out' \in [Clients -> Seq(Nat)]
        /\ lastSeq' \in [Clients -> Nat \cup {-1}]
    <3>1. CASE Deliver(c, cursor[c])
      BY <1>4, <3>1
    <3>2. CASE UNCHANGED <<out, lastSeq>>
      BY <3>2
    <3> QED
      BY <1>8, <3>1, <3>2 DEF Relay
  <2>2. /\ cursor' \in [Clients -> Nat]
        /\ UNCHANGED <<phase, replay, joined, lost>>
    BY <1>8 DEF Relay
  <2> QED
    BY <2>1, <2>2
<1>9. ASSUME NEW c \in Clients, Lag(c)
      PROVE  ClientTypes'
  <2>1. Oldest(c) \in Nat /\ cursor[c] .. Oldest(c) - 1 \subseteq Nat
    BY <1>9 DEF Lag, Behind, Oldest
  <2> QED
    BY <1>9, <2>1 DEF Lag
<1> QED
  BY <1>3, <1>5, <1>6, <1>7, <1>8, <1>9 DEF Next, Stream

\* A connection that does nothing keeps its invariant while events are sent.
LEMMA ClientStays ==
  ASSUME TypeOK, NEW c \in Clients, ClientInv(c),
         sent' \in Nat, sent <= sent',
         phase'[c] = phase[c], cursor'[c] = cursor[c],
         replay'[c] = replay[c], lastSeq'[c] = lastSeq[c],
         out'[c] = out[c], joined'[c] = joined[c], lost'[c] = lost[c]
  PROVE  ClientInv(c)'
<1>1. cursor[c] \in Nat /\ sent \in Nat
  BY DEF TypeOK
<1>2. Placed(c)'
  BY <1>1 DEF ClientInv, Placed
<1>3. Noted(c)' /\ Covered(c)' /\ Joining(c)'
  BY DEF ClientInv, Noted, Covered, Joining, Last
<1>4. Replaying(c)' /\ Live(c)'
  BY DEF ClientInv, Replaying, Live, Unseen, IsRun, Last
<1>5. Whole(c)' /\ Begun(c)'
  BY DEF ClientInv, Whole, Begun, FullReplay, IsRun
<1> QED
  BY <1>2, <1>3, <1>4, <1>5 DEF ClientInv

\* Writing an event: the gap before it is the one the receiver knew of.
LEMMA DeliverCovers ==
  ASSUME TypeOK, NEW c \in Clients, Noted(c), Covered(c), lost'[c] = lost[c],
         NEW n \in Nat, Deliver(c, n), lastSeq[c] < n,
         out[c] # <<>> => lastSeq[c] + 1 .. n - 1 \subseteq lost[c]
  PROVE  /\ Noted(c)' /\ Covered(c)'
         /\ out'[c] # <<>> /\ lastSeq'[c] = n
         /\ out'[c] = Append(out[c], n)
<1> DEFINE q == out[c]
<1>1. q \in Seq(Nat) /\ out'[c] = Append(q, n) /\ lastSeq'[c] = n
  BY DEF TypeOK, Deliver
<1>2. /\ Len(q) \in Nat /\ Len(Append(q, n)) = Len(q) + 1
      /\ \A i \in 1 .. Len(q) : Append(q, n)[i] = q[i]
      /\ Append(q, n)[Len(q) + 1] = n
      /\ Append(q, n) # <<>>
  BY <1>1
<1>3. Noted(c)'
  BY <1>1, <1>2 DEF Noted, Last
<1>4. ASSUME NEW i \in 1 .. Len(q)
      PROVE  /\ Append(q, n)[i] < Append(q, n)[i + 1]
             /\ Append(q, n)[i] + 1 .. Append(q, n)[i + 1] - 1 \subseteq lost[c]
  <2>1. CASE i = Len(q)
    <3>1. q # <<>> /\ lastSeq[c] = q[i]
      BY <1>1, <2>1 DEF Noted, Last
    <3> QED
      BY <1>2, <2>1, <3>1
  <2>2. CASE i # Len(q)
    <3>1. i \in 1 .. Len(q) - 1 /\ i + 1 \in 1 .. Len(q)
      BY <1>2, <2>2
    <3> QED
      BY <1>2, <3>1 DEF Covered
  <2> QED
    BY <2>1, <2>2
<1>5. Covered(c)'
  BY <1>1, <1>2, <1>4 DEF Covered
<1> QED
  BY <1>1, <1>2, <1>3, <1>5

\* The stages before the feed is live.
LEMMA JoinStep ==
  ASSUME TypeOK, HubInv, NEW c \in Clients, ClientInv(c),
         Connect(c) \/ Subscribe(c) \/ CopyBacklog(c) \/ Disconnect(c)
  PROVE  ClientInv(c)'
<1> USE DEF TypeOK, ClientInv, Noted, Covered, Placed, Joining, Replaying,
            Live, Unseen, Whole, Begun
<1>1. sent' = sent
  BY DEF Connect, Subscribe, CopyBacklog, Disconnect, hubVars
<1>2. CASE Connect(c)
  BY <1>1, <1>2 DEF Connect
<1>3. CASE Subscribe(c)
  BY <1>1, <1>3 DEF Subscribe
<1>4. CASE CopyBacklog(c)
  <2>1. /\ phase'[c] = "replaying" /\ replay'[c] = backlog /\ out[c] = <<>>
        /\ UNCHANGED <<cursor, lastSeq, out, joined, lost>>
        /\ cursor[c] = joined[c]
    BY <1>4 DEF CopyBacklog
  <2>2. IsRun(backlog) /\ (backlog # <<>> => sent <= Last(backlog) + 1)
    <3>1. backlog # <<>> => Last(backlog) = Kept - 1
      BY DEF HubInv
    <3>2. sent <= Kept /\ Kept \in Int
      <4>1. seq \in Nat /\ sent = IF publisher = "idle" THEN seq ELSE seq - 1
        BY DEF HubInv
      <4> QED
        BY ONLY <4>1 DEF Kept
    <3> QED
      BY <3>1, <3>2 DEF HubInv
  <2>3. IsRun(replay'[c]) /\ Last(replay'[c]) = Last(backlog)
    BY <2>1, <2>2
  <2>4. backlog # <<>> => joined[c] <= Last(backlog) + 1
    <3>1. joined[c] <= sent
      BY <2>1
    <3>2. joined[c] \in Nat /\ sent \in Nat
      OBVIOUS
    <3>3. backlog # <<>> => Last(backlog) \in Int
      BY SMTT(30) DEF Last
    <3> QED
      BY ONLY <2>2, <3>1, <3>2, <3>3
  <2>5. Replaying(c)'
    BY <2>1, <2>3, <2>4 DEF IsRun, Last
  <2>6. backlog # <<>> => \/ Head(backlog) <= joined[c]
                          \/ History > 0 /\ Len(backlog) >= History
    <3>1. backlog # <<>> => Head(backlog) = 0 \/ Len(backlog) = History
      BY DEF HubInv
    <3>2. backlog # <<>> => Len(backlog) > 0
      OBVIOUS
    <3> QED
      BY <3>1, <3>2
  <2>7. IsRun(<<>>)
    BY DEF IsRun
  <2>8. Whole(c)'
    BY <2>1, <2>6, <2>7 DEF IsRun
  <2> QED
    BY <1>1, <2>1, <2>5, <2>8
<1>5. CASE Disconnect(c)
  <2>1. <<>> # <<0>> /\ Len(<<>>) = 0
    OBVIOUS
  <2> QED
    BY <1>1, <1>5, <2>1 DEF Disconnect
<1> QED
  BY <1>2, <1>3, <1>4, <1>5

\* The replay writes consecutive events.
LEMMA ReplayStep ==
  ASSUME TypeOK, NEW c \in Clients, ClientInv(c), Replay(c)
  PROVE  ClientInv(c)'
<1> DEFINE q == replay[c]
           n == Head(q)
<1>1. /\ phase[c] = "replaying" /\ q # <<>> /\ q \in Seq(Nat) /\ Deliver(c, n)
      /\ replay'[c] = Tail(q)
      /\ UNCHANGED <<sent, phase, cursor, joined, lost>>
  BY DEF Replay, TypeOK, hubVars
<1>2. /\ IsRun(q) /\ joined[c] <= Last(q) + 1
      /\ out[c] # <<>> => n = lastSeq[c] + 1
      /\ Noted(c) /\ Covered(c) /\ Placed(c) /\ Whole(c)
  BY <1>1 DEF ClientInv, Replaying
<1>3. /\ n \in Nat /\ IsRun(Tail(q)) /\ Last(q) \in Nat
      /\ Tail(q) # <<>> => Last(Tail(q)) = Last(q) /\ Head(Tail(q)) = n + 1
      /\ Tail(q) = <<>> => Last(q) = n
  BY <1>1, <1>2, RunOps
<1>4. /\ lastSeq[c] < n
      /\ out[c] # <<>> => lastSeq[c] + 1 .. n - 1 = {}
      /\ lastSeq[c] \in Nat \cup {-1}
  <2>1. lastSeq[c] \in Nat \cup {-1}
    BY DEF TypeOK
  <2> HIDE DEF n
  <2>2. out[c] = <<>> => lastSeq[c] = -1
    BY <1>2 DEF Noted
  <2> QED
    BY <1>2, <1>3, <2>1, <2>2
<1>5. /\ Noted(c)' /\ Covered(c)'
      /\ out'[c] # <<>> /\ lastSeq'[c] = n
      /\ out'[c] = Append(out[c], n)
  <2> HIDE DEF n
  <2> QED
    BY <1>1, <1>2, <1>3, <1>4, DeliverCovers
<1>6. Placed(c)' /\ Joining(c)' /\ Live(c)'
  BY <1>1, <1>2, <1>5 DEF Placed, Joining, Live
<1>7. Replaying(c)'
  <2>1. /\ IsRun(replay'[c])
        /\ replay'[c] # <<>> => joined'[c] <= Last(replay'[c]) + 1
        /\ replay'[c] # <<>> => Head(replay'[c]) = lastSeq'[c] + 1
        /\ replay'[c] = <<>> => joined'[c] <= lastSeq'[c] + 1
    <3> HIDE DEF n, q
    <3> QED
      BY <1>1, <1>2, <1>3, <1>5
  <2> QED
    BY <2>1 DEF Replaying, IsRun, Last
<1>8. Whole(c)'
  <2>1. /\ out[c] \in Seq(Nat) /\ IsRun(out[c]) /\ Len(q) \in Nat
        /\ out[c] # <<>> => n = Last(out[c]) + 1
    BY <1>1, <1>2 DEF Whole, Noted, TypeOK
  <2>2. IsRun(out'[c])
    <3> HIDE DEF n
    <3> QED
      BY <1>3, <1>5, <2>1, RunOps
  <2>3. /\ out'[c][1] = IF out[c] = <<>> THEN n ELSE out[c][1]
        /\ Len(out'[c]) = Len(out[c]) + 1
    <3> HIDE DEF n
    <3> QED
      BY <1>3, <1>5, <2>1
  <2>4. Len(replay'[c]) = Len(q) - 1
    BY <1>1, <1>2, RunOps
  <2>5. \/ out'[c][1] <= joined[c]
        \/ History > 0 /\ Len(out'[c]) + Len(replay'[c]) >= History
    <3>1. CASE out[c] = <<>>
      <4>1. Len(out[c]) = 0
        BY <3>1
      <4>2. \/ n <= joined[c]
            \/ History > 0 /\ Len(q) >= History
        BY <1>1, <1>2, <3>1, Zenon DEF Whole
      <4> HIDE DEF n, q
      <4> QED
        BY <2>1, <2>3, <2>4, <3>1, <4>1, <4>2
    <3>2. CASE out[c] # <<>>
      <4>1. \/ out[c][1] <= joined[c]
            \/ History > 0 /\ Len(out[c]) + Len(q) >= History
        BY <1>1, <1>2, <3>2 DEF Whole
      <4>2. Len(out[c]) \in Nat
        BY <2>1
      <4> HIDE DEF n, q
      <4> QED
        BY <2>1, <2>3, <2>4, <3>2, <4>1, <4>2
    <3> QED
      BY <3>1, <3>2
  <2> QED
    BY <1>1, <1>5, <2>2, <2>5 DEF Whole, IsRun
<1>9. Begun(c)'
  BY <1>1 DEF Begun
<1> QED
  BY <1>5, <1>6, <1>7, <1>8, <1>9 DEF ClientInv

\* The replay reached the receiver, or nothing was to be replayed.
LEMMA GoLiveStep ==
  ASSUME TypeOK, NEW c \in Clients, ClientInv(c), GoLive(c)
  PROVE  ClientInv(c)'
<1>1. /\ phase[c] = "replaying" /\ replay[c] = <<>> /\ phase'[c] = "live"
      /\ cursor'[c] = cursor[c]
      /\ UNCHANGED <<sent, replay, lastSeq, out, joined, lost>>
  BY DEF GoLive, ReadFrom, TypeOK, hubVars
<1>2. cursor[c] = joined[c] /\ cursor[c] \in Nat /\ lastSeq[c] \in Nat \cup {-1}
  BY <1>1 DEF ClientInv, Placed, TypeOK
<1>3. out[c] # <<>> => joined[c] <= lastSeq[c] + 1
  BY <1>1 DEF ClientInv, Replaying
<1>4. Unseen(c) .. cursor[c] - 1 = {}
  BY <1>2, <1>3 DEF Unseen
<1>5. Live(c)'
  BY <1>1, <1>4 DEF Live, Unseen
<1>6. Noted(c)' /\ Covered(c)' /\ Placed(c)' /\ Joining(c)' /\ Replaying(c)'
  BY <1>1 DEF ClientInv, Noted, Covered, Placed, Joining, Replaying, Last
<1>7. out[c] # <<>> =>
        joined[c] .. out[c][1] - 1 \subseteq lost[c] \/ FullReplay(out[c])
  <2> SUFFICES ASSUME out[c] # <<>>
               PROVE  \/ joined[c] .. out[c][1] - 1 \subseteq lost[c]
                      \/ FullReplay(out[c])
    OBVIOUS
  <2>1. /\ IsRun(out[c])
        /\ \/ out[c][1] <= joined[c]
           \/ History > 0 /\ Len(out[c]) + Len(replay[c]) >= History
    BY <1>1 DEF ClientInv, Whole
  <2>2. Len(replay[c]) = 0 /\ Len(out[c]) \in Nat \ {0} /\ out[c][1] \in Nat
    BY <1>1 DEF TypeOK
  <2>3. CASE out[c][1] <= joined[c]
    <3>1. joined[c] .. out[c][1] - 1 = {}
      BY <1>1, <1>2, <2>2, <2>3
    <3> QED
      BY <3>1
  <2>4. CASE History > 0 /\ Len(out[c]) >= History
    BY <2>1, <2>2, <2>4 DEF FullReplay, IsRun
  <2> QED
    BY <2>1, <2>2, <2>3, <2>4
<1>8. Whole(c)' /\ Begun(c)'
  BY <1>1, <1>7 DEF Whole, Begun, FullReplay
<1> QED
  BY <1>5, <1>6, <1>8 DEF ClientInv

\* The receiver passes an event: it is written now or was replayed.
LEMMA RelayStep ==
  ASSUME TypeOK, NEW c \in Clients, ClientInv(c), Relay(c)
  PROVE  ClientInv(c)'
<1> DEFINE n == cursor[c]
<1>1. /\ phase[c] = "live" /\ n < sent /\ cursor'[c] = n + 1
      /\ UNCHANGED <<sent, phase, replay, joined, lost>>
      /\ n \in Nat /\ sent \in Nat /\ joined[c] \in Nat
      /\ lastSeq[c] \in Nat \cup {-1}
  BY DEF Relay, TypeOK, hubVars
<1>2. /\ Noted(c) /\ Covered(c) /\ Placed(c) /\ Joining(c)
      /\ Unseen(c) .. n - 1 \subseteq lost[c]
      /\ Begun(c)
  BY <1>1 DEF ClientInv, Live
<1>3. Placed(c)' /\ Joining(c)' /\ Replaying(c)' /\ Whole(c)'
  <2>1. phase'[c] # "replaying"
    BY <1>1
  <2>2. Placed(c)' /\ Joining(c)'
    BY <1>1, <1>2 DEF Placed, Joining
  <2> QED
    BY <2>1, <2>2 DEF Replaying, Whole
<1>4. CASE IsNew(c)
  <2>1. Deliver(c, n) /\ lastSeq[c] < n
    BY <1>4 DEF Relay, IsNew
  <2>2. out[c] # <<>> => lastSeq[c] + 1 .. n - 1 \subseteq lost[c]
    BY <1>2 DEF Unseen
  <2>3. /\ Noted(c)' /\ Covered(c)'
        /\ out'[c] # <<>> /\ lastSeq'[c] = n
        /\ out'[c] = Append(out[c], n)
    <3> HIDE DEF n
    <3> QED
      BY <1>1, <1>2, <2>1, <2>2, DeliverCovers
  <2>6. Begun(c)'
    <3>1. out[c] \in Seq(Nat)
      BY DEF TypeOK
    <3>2. CASE out[c] = <<>>
      <4>1. out'[c][1] = n /\ joined[c] .. n - 1 \subseteq lost[c]
        BY <1>2, <2>3, <3>2 DEF Unseen
      <4> QED
        BY <1>1, <4>1 DEF Begun
    <3>3. CASE out[c] # <<>>
      <4>1. /\ Len(out'[c]) = Len(out[c]) + 1 /\ Len(out[c]) \in Nat
            /\ \A i \in 1 .. Len(out[c]) : out'[c][i] = out[c][i]
            /\ 1 \in 1 .. Len(out[c])
        <5> HIDE DEF n
        <5> QED
          BY <1>1, <2>3, <3>1, <3>3
      <4>2. out'[c][1] = out[c][1]
        BY <4>1
      <4>3. FullReplay(out[c]) => FullReplay(out'[c])
        <5> SUFFICES ASSUME FullReplay(out[c]) PROVE FullReplay(out'[c])
          OBVIOUS
        <5>1. /\ History > 0 /\ Len(out[c]) >= History
              /\ \A i \in 1 .. History - 1 : out[c][i + 1] = out[c][i] + 1
          BY DEF FullReplay
        <5>2. ASSUME NEW i \in 1 .. History - 1
              PROVE  out'[c][i + 1] = out'[c][i] + 1
          <6>1. i \in 1 .. Len(out[c]) /\ i + 1 \in 1 .. Len(out[c])
            BY <4>1, <5>1
          <6> QED
            BY <4>1, <5>1, <6>1
        <5>3. Len(out'[c]) >= History
          BY <4>1, <5>1
        <5> QED
          BY <5>1, <5>2, <5>3 DEF FullReplay
      <4>4. \/ joined[c] .. out[c][1] - 1 \subseteq lost[c]
            \/ FullReplay(out[c])
        BY <1>1, <1>2, <3>3 DEF Begun
      <4> QED
        BY <1>1, <4>2, <4>3, <4>4 DEF Begun, FullReplay
    <3> QED
      BY <3>2, <3>3
  <2>4. Unseen(c)' = n + 1
    BY <2>3 DEF Unseen
  <2>5. Live(c)'
    BY <1>1, <2>4 DEF Live
  <2> QED
    BY <1>3, <2>3, <2>5, <2>6 DEF ClientInv
<1>5. CASE ~ IsNew(c)
  <2>1. UNCHANGED <<out, lastSeq>> /\ n <= lastSeq[c]
    BY <1>1, <1>5 DEF Relay, IsNew
  <2>2. out[c] # <<>>
    BY <1>1, <1>2, <2>1 DEF Noted
  <2>3. Unseen(c)' = lastSeq[c] + 1
    BY <2>1, <2>2 DEF Unseen
  <2>4. Live(c)'
    BY <1>1, <2>1, <2>3 DEF Live
  <2>5. Noted(c)' /\ Covered(c)'
    BY <1>1, <1>2, <2>1 DEF Noted, Covered, Last
  <2>6. Begun(c)'
    BY <1>1, <1>2, <2>1 DEF Begun, FullReplay
  <2> QED
    BY <1>3, <2>4, <2>5, <2>6 DEF ClientInv
<1> QED
  BY <1>4, <1>5

\* What the channel no longer holds is among the lost.
LEMMA LagStep ==
  ASSUME TypeOK, NEW c \in Clients, ClientInv(c), Lag(c)
  PROVE  ClientInv(c)'
<1> DEFINE n == cursor[c]
           o == sent - Buffer
<1>1. /\ phase[c] = "live" /\ n < o /\ cursor'[c] = o
      /\ UNCHANGED <<sent, phase, replay, lastSeq, out, joined>>
      /\ lost'[c] = lost[c] \cup (n .. o - 1)
      /\ n \in Nat /\ o \in Int /\ sent \in Nat /\ joined[c] \in Nat
      /\ lastSeq[c] \in Nat \cup {-1}
  BY DEF Lag, Behind, Oldest, TypeOK, hubVars
<1>2. /\ Noted(c) /\ Covered(c) /\ Placed(c) /\ Joining(c)
      /\ Unseen(c) .. n - 1 \subseteq lost[c]
      /\ Begun(c)
  BY <1>1 DEF ClientInv, Live
<1>3. Noted(c)' /\ Joining(c)' /\ Replaying(c)' /\ Whole(c)'
  BY <1>1, <1>2 DEF Noted, Joining, Replaying, Last, Whole
<1>9. Begun(c)'
  BY <1>1, <1>2 DEF Begun, FullReplay
<1>4. Placed(c)'
  BY <1>1, <1>2 DEF Placed
<1>5. Covered(c)'
  BY <1>1, <1>2 DEF Covered
<1>6. Unseen(c)' = Unseen(c) /\ Unseen(c) \in Int
  BY <1>1 DEF Unseen
<1>7. Unseen(c) .. o - 1 \subseteq (Unseen(c) .. n - 1) \cup (n .. o - 1)
  BY <1>1, <1>6
<1>8. Live(c)'
  BY <1>1, <1>2, <1>6, <1>7 DEF Live
<1> QED
  BY <1>3, <1>4, <1>5, <1>8, <1>9 DEF ClientInv

LEMMA StepClient ==
  ASSUME FeedInv, [Next]_dashVars, NEW c \in Clients
  PROVE  ClientInv(c)'
PROOF
<1>1. TypeOK /\ HubInv /\ ClientInv(c)
  BY DEF FeedInv
<1>2. sent' \in Nat /\ sent <= sent'
  BY <1>1, StepHub
<1>3. ASSUME phase'[c] = phase[c], cursor'[c] = cursor[c],
             replay'[c] = replay[c], lastSeq'[c] = lastSeq[c],
             out'[c] = out[c], joined'[c] = joined[c], lost'[c] = lost[c]
      PROVE  ClientInv(c)'
  BY <1>1, <1>2, <1>3, ClientStays
<1>4. CASE Publish \/ UNCHANGED dashVars
  BY <1>3, <1>4 DEF Publish, Number, Keep, Broadcast, dashVars, clientVars
<1>5. ASSUME NEW d \in Clients, d # c, Stream(d) \/ Connect(d) \/ Disconnect(d)
      PROVE  ClientInv(c)'
  <2>1. /\ phase'[c] = phase[c] /\ cursor'[c] = cursor[c]
        /\ replay'[c] = replay[c] /\ lastSeq'[c] = lastSeq[c]
        /\ out'[c] = out[c] /\ joined'[c] = joined[c] /\ lost'[c] = lost[c]
    BY <1>1, <1>5 DEF TypeOK, Stream, Connect, Subscribe, CopyBacklog, Replay,
                      Deliver, GoLive, Relay, Lag, Disconnect
  <2> QED
    BY <1>3, <2>1
<1>6. ASSUME Stream(c) \/ Connect(c) \/ Disconnect(c)
      PROVE  ClientInv(c)'
  BY <1>1, <1>6, JoinStep, ReplayStep, GoLiveStep, RelayStep, LagStep
     DEF Stream
<1> QED
  BY <1>4, <1>5, <1>6 DEF Next

\* The inductive invariant holds throughout: the ring buffer is a run of the
\* newest events, and every connection knows of each event where it went.
THEOREM FeedInvariant == Spec => []FeedInv
<1>1. Init => FeedInv
  BY DEF Init, FeedInv, TypeOK, PublisherStates, Phases, HubInv, IsRun, Kept,
         ClientInv, Noted, Covered, Placed, Joining, Replaying, Live, Whole,
         Begun
<1>2. FeedInv /\ [Next]_dashVars => FeedInv'
  <2> SUFFICES ASSUME FeedInv, [Next]_dashVars PROVE FeedInv'
    OBVIOUS
  <2>1. TypeOK /\ HubInv
    BY DEF FeedInv
  <2>2. TypeOK' /\ HubInv'
    BY <2>1, StepType, StepHub
  <2> QED
    BY <2>2, StepClient DEF FeedInv
<1> QED
  BY <1>1, <1>2, PTL DEF Spec

\* The types hold, and the ring buffer never exceeds its limit.
THEOREM FeedTypes == Spec => []TypeOK
<1>1. FeedInv => TypeOK
  BY DEF FeedInv
<1> QED
  BY <1>1, FeedInvariant, PTL

\* No connection is sent an event twice or out of order.
THEOREM FeedAscends == Spec => []StreamAscends
<1>1. FeedInv => StreamAscends
  BY DEF FeedInv, ClientInv, Covered, StreamAscends
<1> QED
  BY <1>1, FeedInvariant, PTL

\* Once the feed is live, whatever a connection misses between two events, or
\* after the last one, its "lagged" lines account for; and before the first
\* one it misses something only if the ring buffer was overrun meanwhile.
THEOREM NothingIsSkipped == Spec => []NothingSkipped
<1>1. FeedInv => NothingSkipped
  <2> SUFFICES ASSUME FeedInv, NEW c \in Clients, phase[c] = "live"
               PROVE
                 /\ \A i \in 1 .. Len(out[c]) - 1 :
                      out[c][i] + 1 .. out[c][i + 1] - 1 \subseteq lost[c]
                 /\ LET seen == IF out[c] = <<>> THEN joined[c]
                                ELSE out[c][Len(out[c])] + 1
                    IN  seen .. cursor[c] - 1 \subseteq lost[c]
                 /\ Begun(c)
    BY DEF NothingSkipped, Begun
  <2>1. Noted(c) /\ Covered(c) /\ Live(c) /\ Begun(c)
    BY DEF FeedInv, ClientInv
  <2> QED
    BY <2>1 DEF Noted, Covered, Live, Unseen, Last
<1> QED
  BY <1>1, FeedInvariant, PTL
=============================================================================
