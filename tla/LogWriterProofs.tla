-------------------------- MODULE LogWriterProofs ---------------------------
(***************************************************************************)
(* For any number of entries and days, what was logged before a logger was   *)
(* shut down is in a file when its task has ended (FlushedAtEnd).            *)
(*                                                                          *)
(* The invariant follows an entry on its way: until it is in a file, or kept *)
(* out by an I/O error, it is in the channel, in the batch or in the buffer  *)
(* (OnItsWay); and behind a Shutdown, which makes the task drop the rest,    *)
(* nothing stands that was logged before it (NothingBehind).                 *)
(*                                                                          *)
(* And what is in the files can be read as one log (FilesInOrder): lines are *)
(* in order all the way from the files to the channel (Order), the date is   *)
(* taken after the batch (Dated), and the number of the last block is that   *)
(* of the last header in the file or the buffer (Numbered).                  *)
(***************************************************************************)
EXTENDS LogWriterProperties, TLAPS

Record == [what : What, day : Days, due : BOOLEAN]

TypeInv ==
  /\ day \in Days /\ fileDay \in Days
  /\ queue \in Seq(Entries) /\ batch \in Seq(Entries)
  /\ buf \in Seq(Lines) /\ file \in [Days -> Seq(Lines)]
  /\ block \in Nat /\ last \in BOOLEAN
  /\ owner \in OwnerStates /\ writer \in WriterStates
  /\ logged \in Seq(Record)

\* Of a log l: entry n was logged before a Shutdown, and is written by this
\* logger.
Due(l, n) == n \in DOMAIN l /\ l[n].due /\ l[n].what # "other"

In(n, s) == \E i \in DOMAIN s : s[i].no = n

Filed(n) == \E d \in Days : In(n, file[d])

OnItsWay ==
  \A n \in Nat : Due(logged, n) =>
    Filed(n) \/ n \in missed \/ In(n, buf) \/ In(n, batch) \/ In(n, queue)

\* An entry is the one that was logged, or a Shutdown.
Genuine(l, e) == IF e.what = "shutdown" THEN e.no = 0
                 ELSE e.no \in DOMAIN l /\ l[e.no].what = e.what

AllGenuine(l, s) == \A i \in DOMAIN s : Genuine(l, s[i])

EntriesGenuine == AllGenuine(logged, queue) /\ AllGenuine(logged, batch)

HasShutdown(s)   == \E i \in DOMAIN s : s[i].what = "shutdown"
NothingDue(l, s) == \A i \in DOMAIN s : ~ Due(l, s[i].no)

BehindShutdown(l, s) ==
  \A i, j \in DOMAIN s : i < j /\ s[i].what = "shutdown" => ~ Due(l, s[j].no)

NothingBehind ==
  /\ BehindShutdown(logged, queue) /\ BehindShutdown(logged, batch)
  /\ HasShutdown(batch) \/ last \/ writer = "ended" => NothingDue(logged, queue)
  /\ owner = "running" => /\ ~ HasShutdown(queue) /\ ~ HasShutdown(batch)
                          /\ ~ last /\ writer # "ended"

\* What is empty when, and that an awaited process has waited.
Stages ==
  /\ writer \in {"waiting", "ended"} => batch = <<>> /\ buf = <<>>
  /\ writer = "appending" => batch = <<>>
  /\ writer \notin {"appending", "ended"} => ~ last
  /\ owner = "exited" => writer = "ended"

IInv == TypeInv /\ OnItsWay /\ EntriesGenuine /\ NothingBehind /\ Stages

-----------------------------------------------------------------------------
LEMMA PathIsADay == ASSUME NEW d \in Days PROVE Path(d) \in Days
BY LogBoundsAssumption DEF Path, Days

LEMMA InHeadOrTail ==
  ASSUME NEW S, NEW s \in Seq(S), s # <<>>, NEW n
  PROVE  In(n, s) <=> Head(s).no = n \/ In(n, Tail(s))
<1>1. ASSUME In(n, s) PROVE Head(s).no = n \/ In(n, Tail(s))
  <2>1. PICK i \in DOMAIN s : s[i].no = n
    BY <1>1 DEF In
  <2>2. CASE i = 1
    BY <2>1, <2>2
  <2>3. CASE i # 1
    <3>1. i - 1 \in DOMAIN Tail(s) /\ Tail(s)[i - 1] = s[i]
      BY <2>1, <2>3
    <3> QED BY <2>1, <3>1 DEF In
  <2> QED BY <2>2, <2>3
<1>2. ASSUME Head(s).no = n PROVE In(n, s)
  <2>1. 1 \in DOMAIN s /\ s[1] = Head(s)
    OBVIOUS
  <2> QED BY <1>2, <2>1 DEF In
<1>3. ASSUME In(n, Tail(s)) PROVE In(n, s)
  <2>1. PICK i \in DOMAIN Tail(s) : Tail(s)[i].no = n
    BY <1>3 DEF In
  <2>2. i + 1 \in DOMAIN s /\ s[i + 1] = Tail(s)[i]
    BY <2>1
  <2> QED BY <2>1, <2>2 DEF In
<1> QED BY <1>1, <1>2, <1>3

LEMMA InAppended ==
  ASSUME NEW S, NEW s \in Seq(S), NEW e \in S, NEW n
  PROVE  In(n, Append(s, e)) <=> In(n, s) \/ e.no = n
<1>1. ASSUME In(n, Append(s, e)) PROVE In(n, s) \/ e.no = n
  <2>1. PICK i \in DOMAIN Append(s, e) : Append(s, e)[i].no = n
    BY <1>1 DEF In
  <2> QED BY <2>1 DEF In
<1>2. ASSUME In(n, s) PROVE In(n, Append(s, e))
  <2>1. PICK i \in DOMAIN s : s[i].no = n
    BY <1>2 DEF In
  <2>2. i \in DOMAIN Append(s, e) /\ Append(s, e)[i] = s[i]
    BY <2>1
  <2> QED BY <2>1, <2>2 DEF In
<1>3. ASSUME e.no = n PROVE In(n, Append(s, e))
  <2>1. /\ Len(s) + 1 \in DOMAIN Append(s, e)
        /\ Append(s, e)[Len(s) + 1] = e
    OBVIOUS
  <2> QED BY <1>3, <2>1 DEF In
<1> QED BY <1>1, <1>2, <1>3

LEMMA InEmpty == ASSUME NEW n PROVE ~ In(n, <<>>)
BY DEF In

(***************************************************************************)
(* The first lines of the buffer reach the file, the rest is missed.        *)
(***************************************************************************)
LEMMA InAppendedLines ==
  ASSUME NEW f \in Seq(Lines), NEW b \in Seq(Lines), NEW k \in 0 .. Len(b), NEW n
  PROVE  /\ f \o SubSeq(b, 1, k) \in Seq(Lines)
         /\ In(n, f) => In(n, f \o SubSeq(b, 1, k))
         /\ In(n, b) => \/ In(n, f \o SubSeq(b, 1, k))
                        \/ n \in {b[i].no : i \in k + 1 .. Len(b)}
<1> DEFINE t == SubSeq(b, 1, k)
<1>1. t \in Seq(Lines) /\ Len(t) = k /\ \A i \in 1 .. k : t[i] = b[i]
  OBVIOUS
<1> HIDE DEF t
<1>2. /\ f \o t \in Seq(Lines)
      /\ Len(f \o t) = Len(f) + k
      /\ \A i \in 1 .. Len(f) : (f \o t)[i] = f[i]
      /\ \A i \in 1 .. k : (f \o t)[Len(f) + i] = t[i]
  BY <1>1
<1>3. ASSUME In(n, f) PROVE In(n, f \o t)
  <2>1. PICK i \in 1 .. Len(f) : f[i].no = n
    BY <1>3 DEF In
  <2>2. i \in DOMAIN (f \o t)
    BY <1>2, <2>1
  <2> QED BY <1>2, <2>1, <2>2 DEF In
<1>4. ASSUME In(n, b)
      PROVE  In(n, f \o t) \/ n \in {b[i].no : i \in k + 1 .. Len(b)}
  <2>1. PICK i \in 1 .. Len(b) : b[i].no = n
    BY <1>4 DEF In
  <2>2. CASE i > k
    BY <2>1, <2>2
  <2>3. CASE i <= k
    <3>1. Len(f) + i \in DOMAIN (f \o t) /\ (f \o t)[Len(f) + i] = b[i]
      BY <1>1, <1>2, <2>1, <2>3
    <3> QED BY <2>1, <3>1 DEF In
  <2> QED BY <2>2, <2>3
<1> QED BY <1>2, <1>3, <1>4 DEF t

-----------------------------------------------------------------------------
LEMMA Initially == Init => IInv
<1> SUFFICES ASSUME Init PROVE IInv
  OBVIOUS
<1>1. 0 \in Days
  BY LogBoundsAssumption DEF Days
<1>2. TypeInv
  BY <1>1 DEF Init, TypeInv, OwnerStates, WriterStates
<1>3. OnItsWay /\ EntriesGenuine
  BY DEF Init, OnItsWay, EntriesGenuine, AllGenuine, Due
<1>4. NothingBehind /\ Stages
  BY DEF Init, NothingBehind, BehindShutdown, HasShutdown, NothingDue, Stages
<1> QED BY <1>2, <1>3, <1>4 DEF IInv

(***************************************************************************)
(* What goes onto the channel: a line that is due only while the logger is   *)
(* open, or the Shutdown.                                                    *)
(***************************************************************************)
LEMMA LogStep ==
  ASSUME IInv, NEW what \in What, Log(what)
  PROVE  IInv'
<1> USE DEF IInv
<1> DEFINE r == [what |-> what, day |-> day, due |-> owner = "running"]
           k == Len(logged) + 1
           e == [no |-> k, what |-> what]
<1>1. r \in Record /\ e \in Entries /\ e.no = k /\ e.what = what
  BY DEF Record, Entries, TypeInv, What
<1>2. /\ logged' = Append(logged, r) /\ logged' \in Seq(Record)
      /\ Len(logged') = k
      /\ owner \in {"running", "awaiting"}
      /\ queue' = IF writer = "ended" THEN queue ELSE Append(queue, e)
      /\ UNCHANGED <<opts, day, owner, writer, batch, fileDay, block, buf, last,
                     file, missed>>
  <2>1. logged' = Append(logged, r) /\ Len(logged') = k
    BY DEF Log, TypeInv
  <2>2. r \in Record /\ logged \in Seq(Record)
    BY <1>1 DEF TypeInv
  <2>3. logged' \in Seq(Record)
    BY <2>1, <2>2
  <2>4. /\ owner \in {"running", "awaiting"}
        /\ Post([no |-> Len(logged'), what |-> what])
        /\ UNCHANGED <<opts, day, owner, writer, batch, fileDay, block, buf,
                       last, file, missed>>
    BY DEF Log, task
  <2> HIDE DEF r
  <2> QED BY <2>1, <2>3, <2>4 DEF Post
<1>3. /\ \A n \in DOMAIN logged : n \in DOMAIN logged' /\ logged'[n] = logged[n]
      /\ DOMAIN logged' = DOMAIN logged \cup {k}
      /\ k \notin DOMAIN logged /\ k \in Nat
      /\ logged'[k] = r
  <2>1. logged \in Seq(Record) /\ r \in Record
    BY <1>1 DEF TypeInv
  <2> HIDE DEF r
  <2> QED BY <1>2, <2>1
<1>4. r.due = (owner = "running") /\ r.what = what
  OBVIOUS
<1> HIDE DEF r, e, k
<1>5. ASSUME NEW n
      PROVE  Due(logged', n) => Due(logged, n) \/ (n = k /\ owner = "running")
  BY <1>3, <1>4 DEF Due
<1>6. queue' \in Seq(Entries)
  BY <1>1, <1>2 DEF TypeInv
<1>7. TypeInv'
  BY <1>2, <1>6 DEF TypeInv
<1>8. ASSUME NEW n PROVE In(n, queue') <=> In(n, queue) \/ (writer # "ended" /\ n = k)
  BY <1>1, <1>2, InAppended DEF TypeInv
<1>9. OnItsWay'
  <2> SUFFICES ASSUME NEW n \in Nat, Due(logged', n)
               PROVE  Filed(n)' \/ n \in missed' \/ In(n, buf') \/ In(n, batch')
                        \/ In(n, queue')
    BY DEF OnItsWay, In
  <2>1. CASE Due(logged, n)
    <3>1. Filed(n) \/ n \in missed \/ In(n, buf) \/ In(n, batch) \/ In(n, queue)
      BY <2>1 DEF OnItsWay
    <3>2. Filed(n)' <=> Filed(n)
      BY <1>2 DEF Filed, In
    <3> QED BY <1>2, <1>8, <3>1, <3>2
  <2>2. CASE n = k /\ owner = "running"
    <3>1. writer # "ended"
      BY <2>2 DEF NothingBehind
    <3> QED BY <1>8, <2>2, <3>1
  <2> QED BY <1>5, <2>1, <2>2
<1>10. \A i \in DOMAIN queue' :
         queue'[i] = e \/ (i \in DOMAIN queue /\ queue'[i] = queue[i])
  BY <1>1, <1>2 DEF TypeInv
<1>11. ASSUME NEW x, Genuine(logged, x) PROVE Genuine(logged', x)
  BY <1>3, <1>11 DEF Genuine
<1>12. Genuine(logged', e)
  BY <1>1, <1>3, <1>4 DEF Genuine, What
<1>13. EntriesGenuine'
  <2>1. AllGenuine(logged', queue')
    BY <1>10, <1>11, <1>12 DEF EntriesGenuine, AllGenuine
  <2>2. AllGenuine(logged', batch')
    BY <1>2, <1>11 DEF EntriesGenuine, AllGenuine
  <2> QED BY <2>1, <2>2 DEF EntriesGenuine
<1>14. e.what # "shutdown"
  BY <1>1 DEF What
<1>15. NothingBehind'
  <2>1. CASE owner = "running"
    <3>1. /\ ~ HasShutdown(queue') /\ ~ HasShutdown(batch')
          /\ ~ last' /\ writer' # "ended"
      BY <1>2, <1>10, <1>14, <2>1 DEF NothingBehind, HasShutdown
    <3> QED BY <3>1 DEF NothingBehind, BehindShutdown, HasShutdown
  <2>2. CASE owner # "running"
    <3>1. ASSUME NEW n PROVE Due(logged', n) => Due(logged, n)
      BY <1>5, <2>2
    <3>2. ~ Due(logged', k)
      BY <1>3, <1>4, <2>2 DEF Due
    <3>3. NothingDue(logged, queue) => NothingDue(logged', queue')
      BY <1>1, <1>10, <3>1, <3>2 DEF NothingDue
    <3>4. BehindShutdown(logged', batch')
      BY <1>2, <3>1 DEF NothingBehind, BehindShutdown
    <3>5. BehindShutdown(logged', queue')
      <4> SUFFICES ASSUME NEW i \in DOMAIN queue', NEW j \in DOMAIN queue',
                          i < j, queue'[i].what = "shutdown"
                   PROVE  ~ Due(logged', queue'[j].no)
        BY DEF BehindShutdown
      <4>1. CASE queue'[j] = e
        BY <1>1, <3>2, <4>1
      <4>2. CASE queue'[j] # e
        <5>1. j \in DOMAIN queue /\ queue'[j] = queue[j]
          BY <1>10, <4>2
        <5>2. i \in DOMAIN queue /\ queue'[i] = queue[i]
          BY <1>10, <1>14
        <5>3. ~ Due(logged, queue[j].no)
          BY <5>1, <5>2 DEF NothingBehind, BehindShutdown
        <5> QED BY <3>1, <5>1, <5>3
      <4> QED BY <4>1, <4>2
    <3>6. HasShutdown(batch') \/ last' \/ writer' = "ended" => NothingDue(logged', queue')
      BY <1>2, <3>3 DEF NothingBehind
    <3> QED BY <1>2, <2>2, <3>4, <3>5, <3>6 DEF NothingBehind
  <2> QED BY <2>1, <2>2
<1>16. Stages'
  BY <1>2 DEF Stages
<1> QED BY <1>7, <1>9, <1>13, <1>15, <1>16

(***************************************************************************)
(* Steps that move no entry.                                                *)
(***************************************************************************)
LEMMA NothingMoves ==
  ASSUME IInv, TypeInv', Stages',
         logged' = logged, queue' = queue, batch' = batch, buf' = buf,
         file' = file, missed' = missed, last' = last,
         owner' = "running" => owner = "running",
         writer' = "ended" => /\ owner' # "running"
                              /\ writer = "ended" \/ queue = <<>>
  PROVE  IInv'
<1> USE DEF IInv
<1>1. OnItsWay' /\ EntriesGenuine'
  BY DEF OnItsWay, EntriesGenuine, Filed
<1>2. queue = <<>> => NothingDue(logged, queue)
  BY DEF NothingDue
<1>3. NothingBehind'
  BY <1>2 DEF NothingBehind
<1> QED BY <1>1, <1>3

LEMMA ShutdownStep == ASSUME IInv, Shutdown PROVE IInv'
<1> USE DEF IInv
<1> DEFINE e == [no |-> 0, what |-> "shutdown"]
<1>1. e \in Entries /\ e.no = 0 /\ e.what = "shutdown"
  BY DEF Entries
<1>2. /\ owner = "running" /\ owner' = "awaiting"
      /\ queue' = IF writer = "ended" THEN queue ELSE Append(queue, e)
      /\ UNCHANGED <<day, logged, writer, batch, fileDay, block, buf, last, file,
                     missed>>
  BY DEF Shutdown, Post, task
<1> HIDE DEF e
<1>3. /\ writer # "ended" /\ ~ HasShutdown(queue) /\ ~ HasShutdown(batch)
      /\ ~ last
  BY <1>2 DEF NothingBehind
<1>4. queue' = Append(queue, e) /\ queue' \in Seq(Entries)
  BY <1>1, <1>2, <1>3 DEF TypeInv
<1>5. TypeInv'
  BY <1>2, <1>4 DEF TypeInv, OwnerStates
<1>6. ASSUME NEW n, In(n, queue) PROVE In(n, queue')
  BY <1>1, <1>4, <1>6, InAppended DEF TypeInv
<1>7. OnItsWay'
  BY <1>2, <1>6 DEF OnItsWay, Filed
<1>8. \A i \in DOMAIN queue' :
        \/ i \in DOMAIN queue /\ queue'[i] = queue[i]
        \/ i = Len(queue) + 1 /\ queue'[i] = e
  BY <1>1, <1>4 DEF TypeInv
<1>9. EntriesGenuine'
  BY <1>1, <1>2, <1>8 DEF EntriesGenuine, AllGenuine, Genuine
<1>10. BehindShutdown(logged', queue')
  <2> SUFFICES ASSUME NEW i \in DOMAIN queue', NEW j \in DOMAIN queue',
                      i < j, queue'[i].what = "shutdown"
               PROVE  ~ Due(logged, queue'[j].no)
    BY <1>2 DEF BehindShutdown
  <2>1. i = Len(queue) + 1
    BY <1>3, <1>8 DEF HasShutdown
  <2>2. j \in 1 .. Len(queue) + 1
    BY <1>1, <1>4 DEF TypeInv
  <2> QED BY <2>1, <2>2 DEF TypeInv
<1>11. NothingBehind'
  BY <1>2, <1>3, <1>10 DEF NothingBehind
<1>12. Stages'
  BY <1>2 DEF Stages
<1> QED BY <1>5, <1>7, <1>9, <1>11, <1>12

LEMMA OwnerSteps == ASSUME IInv, Cancel \/ Exit \/ Midnight PROVE IInv'
<1>1. CASE Cancel
  <2>1. TypeInv' /\ Stages'
    BY <1>1 DEF IInv, Cancel, TypeInv, Stages, OwnerStates, task
  <2> QED BY <1>1, <2>1, NothingMoves DEF Cancel, task, IInv, NothingBehind
<1>2. CASE Exit
  <2>1. TypeInv' /\ Stages'
    BY <1>2 DEF IInv, Exit, MayExit, TypeInv, Stages, OwnerStates, task
  <2> QED BY <1>2, <2>1, NothingMoves DEF Exit, task
<1>3. CASE Midnight
  <2>1. day' \in Days
    BY <1>3, LogBoundsAssumption DEF IInv, TypeInv, Midnight, Days
  <2>2. TypeInv' /\ Stages'
    BY <1>3, <2>1 DEF IInv, Midnight, TypeInv, Stages, task
  <2> QED BY <1>3, <2>2, NothingMoves DEF Midnight, task, IInv, NothingBehind
<1> QED BY <1>1, <1>2, <1>3

LEMMA PausingSteps == ASSUME IInv, SendersGone \/ Collected \/ Roll PROVE IInv'
<1>1. CASE SendersGone
  <2>1. TypeInv' /\ Stages'
    BY <1>1 DEF IInv, SendersGone, At, TypeInv, Stages, WriterStates, task, outside
  <2> QED BY <1>1, <2>1, NothingMoves DEF SendersGone, task, outside
<1>2. CASE Collected
  <2>1. TypeInv' /\ Stages'
    BY <1>2 DEF IInv, Collected, At, TypeInv, Stages, WriterStates, task, outside
  <2> QED BY <1>2, <2>1, NothingMoves DEF Collected, task, outside
<1>3. CASE Roll
  <2>1. fileDay' \in Days /\ block' \in Nat
    BY <1>3 DEF Roll, NewDay, Today, FirstBlock, IInv, TypeInv
  <2>2. TypeInv' /\ Stages'
    BY <1>3, <2>1 DEF IInv, Roll, At, TypeInv, Stages, WriterStates, outside
  <2> QED BY <1>3, <2>2, NothingMoves DEF Roll, outside
<1> QED BY <1>1, <1>2, <1>3

(***************************************************************************)
(* Receive and Collect: the oldest entry of the channel joins the batch.    *)
(***************************************************************************)
LEMMA TakeStep ==
  ASSUME IInv, writer \in {"waiting", "collecting"}, writer' = "collecting",
         queue # <<>>, queue' = Tail(queue), batch' = Append(batch, Head(queue)),
         UNCHANGED <<day, owner, logged, fileDay, block, buf, last, file, missed>>
  PROVE  IInv'
<1> USE DEF IInv
<1> DEFINE e == Head(queue)
<1>1. /\ queue \in Seq(Entries) /\ batch \in Seq(Entries)
      /\ e \in Entries
      /\ queue' \in Seq(Entries) /\ batch' \in Seq(Entries)
  BY DEF TypeInv
<1>2. TypeInv'
  BY <1>1 DEF TypeInv, WriterStates
<1>3. /\ 1 \in DOMAIN queue /\ queue[1] = e
      /\ \A i \in DOMAIN queue' : /\ i \in Nat \ {0} /\ i + 1 \in DOMAIN queue
                                  /\ queue'[i] = queue[i + 1]
  BY <1>1
<1>4. \A i \in DOMAIN batch' : \/ i \in DOMAIN batch /\ batch'[i] = batch[i]
                               \/ i = Len(batch) + 1 /\ batch'[i] = e
  BY <1>1
<1>5. ASSUME NEW n PROVE /\ In(n, queue) => e.no = n \/ In(n, queue')
                         /\ In(n, batch) \/ e.no = n => In(n, batch')
  BY <1>1, InHeadOrTail, InAppended
<1> HIDE DEF e
<1>6. OnItsWay'
  BY <1>5 DEF OnItsWay, Filed
<1>7. EntriesGenuine'
  BY <1>3, <1>4 DEF EntriesGenuine, AllGenuine
<1>8. BehindShutdown(logged, queue')
  <2> SUFFICES ASSUME NEW i \in DOMAIN queue', NEW j \in DOMAIN queue',
                      i < j, queue'[i].what = "shutdown"
               PROVE  ~ Due(logged, queue'[j].no)
    BY DEF BehindShutdown
  <2>1. i + 1 < j + 1
    BY <1>3
  <2> QED BY <1>3, <2>1 DEF NothingBehind, BehindShutdown
<1>9. BehindShutdown(logged, batch')
  <2> SUFFICES ASSUME NEW i \in DOMAIN batch', NEW j \in DOMAIN batch',
                      i < j, batch'[i].what = "shutdown"
               PROVE  ~ Due(logged, batch'[j].no)
    BY DEF BehindShutdown
  <2>1. j \in 1 .. Len(batch) + 1 /\ Len(batch) \in Nat
    BY <1>1, <1>4
  <2>2. i \in DOMAIN batch /\ batch'[i] = batch[i]
    BY <1>4, <2>1
  <2>3. CASE j \in DOMAIN batch /\ batch'[j] = batch[j]
    BY <2>2, <2>3 DEF NothingBehind, BehindShutdown
  <2>4. CASE batch'[j] = e
    BY <1>3, <2>2, <2>4 DEF NothingBehind, HasShutdown, NothingDue
  <2> QED BY <1>4, <2>3, <2>4
<1>10. HasShutdown(batch') => NothingDue(logged, queue')
  <2>1. HasShutdown(batch') => HasShutdown(batch) \/ e.what = "shutdown"
    BY <1>4 DEF HasShutdown
  <2>2. HasShutdown(batch) => NothingDue(logged, queue')
    BY <1>3 DEF NothingBehind, NothingDue
  <2>3. e.what = "shutdown" => NothingDue(logged, queue')
    <3> SUFFICES ASSUME e.what = "shutdown", NEW i \in DOMAIN queue'
                 PROVE  ~ Due(logged, queue'[i].no)
      BY DEF NothingDue
    <3>1. 1 < i + 1
      BY <1>3
    <3> QED BY <1>3, <3>1 DEF NothingBehind, BehindShutdown
  <2> QED BY <2>1, <2>2, <2>3
<1>11. owner' = "running" => ~ HasShutdown(queue') /\ ~ HasShutdown(batch')
  BY <1>3, <1>4 DEF NothingBehind, HasShutdown
<1>12. ~ last
  BY DEF Stages
<1>13. NothingBehind'
  BY <1>8, <1>9, <1>10, <1>11, <1>12 DEF NothingBehind
<1>14. Stages'
  BY <1>12 DEF Stages
<1> QED BY <1>2, <1>6, <1>7, <1>13, <1>14

LEMMA TakingSteps == ASSUME IInv, Receive \/ Collect PROVE IInv'
<1>1. CASE Receive
  <2>1. batch = <<>> /\ queue \in Seq(Entries) /\ Head(queue) \in Entries
    BY <1>1 DEF IInv, Stages, TypeInv, Receive, At
  <2>2. batch' = Append(batch, Head(queue))
    BY <1>1, <2>1 DEF Receive
  <2> QED BY <1>1, <2>2, TakeStep DEF Receive, At, outside
<1>2. CASE Collect
  BY <1>2, TakeStep DEF Collect, At, outside
<1> QED BY <1>1, <1>2

(***************************************************************************)
(* file_line: the oldest entry of the batch becomes a line, or nothing if    *)
(* this logger does not write it.                                            *)
(***************************************************************************)
LEMMA FormatStep == ASSUME IInv, Format PROVE IInv'
<1> USE DEF IInv
<1> DEFINE e == Head(batch)
           m == [no |-> e.no, block |-> IF e.what = "block" THEN block + 1 ELSE 0]
<1>1. /\ writer = "formatting" /\ batch # <<>> /\ e.what # "shutdown"
      /\ batch' = Tail(batch)
      /\ block' = IF e.what = "block" THEN block + 1 ELSE block
      /\ buf' = IF e.what = "other" THEN buf ELSE Append(buf, m)
      /\ UNCHANGED <<day, owner, logged, queue, writer, fileDay, last, file, missed>>
  BY DEF Format, At, outside
<1>2. /\ batch \in Seq(Entries) /\ e \in Entries /\ batch' \in Seq(Entries)
      /\ 1 \in DOMAIN batch /\ batch[1] = e
      /\ \A i \in DOMAIN batch' : /\ i \in Nat \ {0} /\ i + 1 \in DOMAIN batch
                                  /\ batch'[i] = batch[i + 1]
  BY <1>1 DEF TypeInv
<1>3. m \in Lines /\ m.no = e.no
  BY <1>2 DEF Lines, Entries, TypeInv
<1>4. ASSUME NEW n PROVE In(n, batch) => e.no = n \/ In(n, batch')
  BY <1>1, <1>2, InHeadOrTail
<1> HIDE DEF e, m
<1>5. buf' \in Seq(Lines) /\ block' \in Nat
  BY <1>1, <1>3 DEF TypeInv
<1>6. TypeInv'
  BY <1>1, <1>2, <1>5 DEF TypeInv
<1>7. ASSUME NEW n PROVE /\ In(n, buf) => In(n, buf')
                         /\ e.what # "other" /\ n = e.no => In(n, buf')
  BY <1>1, <1>3, InAppended DEF TypeInv
<1>8. e.what = "other" => ~ Due(logged, e.no)
  BY <1>2 DEF EntriesGenuine, AllGenuine, Genuine, Due
<1>9. OnItsWay'
  BY <1>1, <1>4, <1>7, <1>8 DEF OnItsWay, Filed
<1>10. EntriesGenuine'
  BY <1>1, <1>2 DEF EntriesGenuine, AllGenuine
<1>11. BehindShutdown(logged, batch')
  <2> SUFFICES ASSUME NEW i \in DOMAIN batch', NEW j \in DOMAIN batch',
                      i < j, batch'[i].what = "shutdown"
               PROVE  ~ Due(logged, batch'[j].no)
    BY DEF BehindShutdown
  <2>1. i + 1 < j + 1
    BY <1>2
  <2> QED BY <1>2, <2>1 DEF NothingBehind, BehindShutdown
<1>12. HasShutdown(batch') => HasShutdown(batch)
  BY <1>2 DEF HasShutdown
<1>13. NothingBehind'
  BY <1>1, <1>11, <1>12 DEF NothingBehind
<1>14. Stages'
  BY <1>1 DEF Stages
<1> QED BY <1>6, <1>9, <1>10, <1>13, <1>14

(***************************************************************************)
(* The batch ends, or its rest is dropped: nothing of it is due.            *)
(***************************************************************************)
LEMMA FormattedStep == ASSUME IInv, Formatted PROVE IInv'
<1> USE DEF IInv
<1>1. /\ writer = "formatting" /\ writer' = "appending"
      /\ batch # <<>> => Head(batch).what = "shutdown"
      /\ last' = (batch # <<>>) /\ batch' = <<>>
      /\ UNCHANGED <<day, owner, logged, queue, fileDay, block, buf, file, missed>>
  BY DEF Formatted, At, outside, StopsHere
<1>2. TypeInv'
  BY <1>1 DEF TypeInv, WriterStates
<1>3. batch \in Seq(Entries)
  BY DEF TypeInv
<1>4. ASSUME batch # <<>>
      PROVE  /\ 1 \in DOMAIN batch /\ batch[1].what = "shutdown"
             /\ HasShutdown(batch)
             /\ NothingDue(logged, queue)
  BY <1>1, <1>3, <1>4 DEF HasShutdown, NothingBehind
<1>5. NothingDue(logged, batch)
  <2> SUFFICES ASSUME NEW i \in DOMAIN batch PROVE ~ Due(logged, batch[i].no)
    BY DEF NothingDue
  <2>1. batch # <<>>
    BY <1>3
  <2>2. CASE i = 1
    BY <1>4, <2>1, <2>2 DEF EntriesGenuine, AllGenuine, Genuine, Due, TypeInv
  <2>3. CASE i # 1
    <3>1. 1 < i
      BY <1>3, <2>3
    <3> QED BY <1>4, <2>1, <3>1 DEF NothingBehind, BehindShutdown
  <2> QED BY <2>2, <2>3
<1>6. OnItsWay'
  BY <1>1, <1>5 DEF OnItsWay, Filed, NothingDue, In
<1>7. EntriesGenuine'
  BY <1>1 DEF EntriesGenuine, AllGenuine
<1>8. ~ HasShutdown(batch') /\ BehindShutdown(logged, batch')
  BY <1>1 DEF HasShutdown, BehindShutdown
<1>9. last' => NothingDue(logged, queue)
  BY <1>1, <1>4
<1>10. owner = "running" => ~ last'
  BY <1>1, <1>4 DEF NothingBehind
<1>11. NothingBehind'
  BY <1>1, <1>8, <1>9, <1>10 DEF NothingBehind
<1>12. Stages'
  BY <1>1 DEF Stages
<1> QED BY <1>2, <1>6, <1>7, <1>11, <1>12

(***************************************************************************)
(* append_to_file                                                           *)
(***************************************************************************)
LEMMA AppendStep ==
  ASSUME IInv, NEW k \in 0 .. Len(buf), AppendLines(k)
  PROVE  IInv'
<1> USE DEF IInv
<1> DEFINE p == Path(fileDay)
           f == file[p] \o SubSeq(buf, 1, k)
<1>1. /\ writer = "appending"
      /\ file' = [file EXCEPT ![p] = f]
      /\ missed' = missed \cup {buf[i].no : i \in k + 1 .. Len(buf)}
      /\ buf' = <<>>
      /\ writer' = IF last THEN "ended" ELSE "waiting"
      /\ UNCHANGED <<day, owner, logged, queue, batch, fileDay, block, last>>
  BY DEF AppendLines, At, outside, Leave, EmptyBuffer
<1>2. p \in Days /\ file[p] \in Seq(Lines) /\ buf \in Seq(Lines)
  BY PathIsADay DEF TypeInv
<1>3. f \in Seq(Lines)
  BY <1>2, InAppendedLines
<1>4. ASSUME NEW n PROVE In(n, file[p]) => In(n, f)
  BY <1>2, InAppendedLines
<1>5. ASSUME NEW n PROVE In(n, buf) => In(n, f) \/ n \in missed'
  BY <1>1, <1>2, InAppendedLines
<1> HIDE DEF f, p
<1>6. TypeInv'
  BY <1>1, <1>2, <1>3 DEF TypeInv, WriterStates
<1>7. file'[p] = f /\ \A d \in Days : d # p => file'[d] = file[d]
  BY <1>1, <1>2 DEF TypeInv
<1>8. ASSUME NEW n PROVE /\ Filed(n) => Filed(n)'
                         /\ In(n, f) => Filed(n)'
  BY <1>2, <1>4, <1>7 DEF Filed
<1>9. OnItsWay'
  <2> SUFFICES ASSUME NEW n \in Nat, Due(logged, n)
               PROVE  Filed(n)' \/ n \in missed' \/ In(n, batch) \/ In(n, queue)
    BY <1>1 DEF OnItsWay
  <2>1. Filed(n) \/ n \in missed \/ In(n, buf) \/ In(n, batch) \/ In(n, queue)
    BY DEF OnItsWay
  <2>2. n \in missed => n \in missed'
    BY <1>1
  <2> QED BY <1>5, <1>8, <2>1, <2>2
<1>10. EntriesGenuine'
  BY <1>1 DEF EntriesGenuine
<1>11. NothingBehind'
  BY <1>1 DEF NothingBehind
<1>12. Stages'
  BY <1>1 DEF Stages
<1> QED BY <1>6, <1>9, <1>10, <1>11, <1>12

-----------------------------------------------------------------------------
LEMMA EveryStep == IInv /\ [Next]_logVars => IInv'
<1> SUFFICES ASSUME IInv, [Next]_logVars PROVE IInv'
  OBVIOUS
<1>1. CASE Writer
  BY <1>1, TakingSteps, PausingSteps, FormatStep, FormattedStep, AppendStep
     DEF Writer
<1>2. CASE \E what \in What : Log(what)
  BY <1>2, LogStep
<1>3. CASE Shutdown
  BY <1>3, ShutdownStep
<1>4. CASE Cancel \/ Exit \/ Midnight
  BY <1>4, OwnerSteps
<1>5. CASE UNCHANGED logVars
  <2>1. /\ UNCHANGED <<day, owner, logged, queue, writer, batch, fileDay, block,
                       buf, last, file, missed>>
    BY <1>5 DEF logVars, outside, task
  <2> QED BY <2>1 DEF IInv, TypeInv, OnItsWay, Filed, EntriesGenuine,
                      NothingBehind, Stages
<1> QED BY <1>1, <1>2, <1>3, <1>4, <1>5 DEF Next

(***************************************************************************)
(* When the task has ended nothing is under way any more.                   *)
(***************************************************************************)
LEMMA EndedMeansFlushed == IInv => FlushedAtEnd
<1> SUFFICES ASSUME IInv, writer = "ended" \/ owner = "exited",
                    NEW n \in DOMAIN logged,
                    logged[n].due, logged[n].what # "other"
             PROVE  (\E d \in Days : \E x \in LinesOf(d) : x.no = n) \/ n \in missed
  BY DEF FlushedAtEnd
<1>1. writer = "ended" /\ batch = <<>> /\ buf = <<>>
  BY DEF IInv, Stages
<1>2. Due(logged, n) /\ n \in Nat
  BY DEF Due, IInv, TypeInv
<1>3. NothingDue(logged, queue)
  BY <1>1 DEF IInv, NothingBehind
<1>4. ~ In(n, queue) /\ ~ In(n, buf) /\ ~ In(n, batch)
  BY <1>1, <1>2, <1>3 DEF NothingDue, In
<1>5. Filed(n) \/ n \in missed
  BY <1>2, <1>4 DEF IInv, OnItsWay
<1>6. Filed(n) => \E d \in Days : \E x \in LinesOf(d) : x.no = n
  BY DEF Filed, In, LinesOf
<1> QED BY <1>5, <1>6

(***************************************************************************)
(* The invariant holds of every behaviour.                                  *)
(***************************************************************************)
THEOREM LoggerInvariant == Spec => []IInv
<1>1. Init => IInv
  BY Initially
<1>2. IInv /\ [Next]_logVars => IInv'
  BY EveryStep
<1> QED BY <1>1, <1>2, PTL DEF Spec

(***************************************************************************)
(* Flushed at the end, for every number of entries and days and whatever     *)
(* the order of batches, shutdown, midnights and I/O errors.                 *)
(***************************************************************************)
THEOREM FlushedWhenEnded == Spec => []FlushedAtEnd
<1>1. Spec => []IInv
  BY LoggerInvariant
<1>2. IInv => FlushedAtEnd
  BY EndedMeansFlushed
<1> QED BY <1>1, <1>2, PTL

-----------------------------------------------------------------------------
(***************************************************************************)
(* The order of the lines: what is in the files comes before what is in the  *)
(* buffer, that before the batch, that before the channel, and each of them  *)
(* ascends.  A Shutdown has no number.                                       *)
(***************************************************************************)
Precedes(x, y) == x.no # 0 /\ y.no # 0 => x.no < y.no
Ascends(s)     == \A i, j \in DOMAIN s : i < j => Precedes(s[i], s[j])
Below(s, t)    == \A i \in DOMAIN s, j \in DOMAIN t : Precedes(s[i], t[j])

Order ==
  /\ Ascends(buf) /\ Ascends(batch) /\ Ascends(queue)
  /\ Below(buf, batch) /\ Below(buf, queue) /\ Below(batch, queue)
  /\ \A d \in Days : /\ Ascends(file[d]) /\ Below(file[d], buf)
                     /\ Below(file[d], batch) /\ Below(file[d], queue)
  /\ \A d, e \in Days : d < e => Below(file[d], file[e])

\* A line is one of what was logged.
OfLog(l, s) == \A i \in DOMAIN s : s[i].no \in DOMAIN l

LinesKnown == OfLog(logged, buf) /\ \A d \in Days : OfLog(logged, file[d])

\* The files of later days are not begun.
NothingAhead ==
  /\ fileDay <= day
  /\ \A d \in Days : Path(fileDay) < d => file[d] = <<>>

OInv == IInv /\ Order /\ LinesKnown /\ NothingAhead

LEMMA AppendedOrder ==
  ASSUME NEW S, NEW s \in Seq(S), NEW e \in S, NEW t
  PROVE  /\ Ascends(s) /\ (\A i \in DOMAIN s : Precedes(s[i], e))
              => Ascends(Append(s, e))
         /\ Below(t, s) /\ (\A i \in DOMAIN t : Precedes(t[i], e))
              => Below(t, Append(s, e))
         /\ Below(s, t) /\ (\A i \in DOMAIN t : Precedes(e, t[i]))
              => Below(Append(s, e), t)
<1>1. \A i \in DOMAIN Append(s, e) :
        \/ i \in DOMAIN s /\ Append(s, e)[i] = s[i]
        \/ i = Len(s) + 1 /\ Append(s, e)[i] = e
  OBVIOUS
<1>2. /\ \A i \in DOMAIN Append(s, e) : i \in 1 .. Len(s) + 1
      /\ Len(s) \in Nat
  OBVIOUS
<1>3. ASSUME Ascends(s), \A i \in DOMAIN s : Precedes(s[i], e)
      PROVE  Ascends(Append(s, e))
  <2> SUFFICES ASSUME NEW i \in DOMAIN Append(s, e), NEW j \in DOMAIN Append(s, e),
                      i < j
               PROVE  Precedes(Append(s, e)[i], Append(s, e)[j])
    BY DEF Ascends
  <2>1. i \in DOMAIN s /\ Append(s, e)[i] = s[i]
    BY <1>1, <1>2
  <2>2. CASE j \in DOMAIN s /\ Append(s, e)[j] = s[j]
    BY <1>3, <2>1, <2>2 DEF Ascends
  <2>3. CASE Append(s, e)[j] = e
    BY <1>3, <2>1, <2>3
  <2> QED BY <1>1, <2>2, <2>3
<1>4. ASSUME Below(t, s), \A i \in DOMAIN t : Precedes(t[i], e)
      PROVE  Below(t, Append(s, e))
  BY <1>1, <1>4, Zenon DEF Below
<1>5. ASSUME Below(s, t), \A i \in DOMAIN t : Precedes(e, t[i])
      PROVE  Below(Append(s, e), t)
  BY <1>1, <1>5, Zenon DEF Below
<1> QED BY <1>3, <1>4, <1>5

LEMMA TailOrder ==
  ASSUME NEW S, NEW s \in Seq(S), s # <<>>, NEW t
  PROVE  /\ Ascends(s) => /\ Ascends(Tail(s))
                          /\ \A i \in DOMAIN Tail(s) : Precedes(Head(s), Tail(s)[i])
         /\ Below(t, s) => /\ Below(t, Tail(s))
                           /\ \A i \in DOMAIN t : Precedes(t[i], Head(s))
         /\ Below(s, t) => /\ Below(Tail(s), t)
                           /\ \A i \in DOMAIN t : Precedes(Head(s), t[i])
<1>1. /\ 1 \in DOMAIN s /\ Head(s) = s[1]
      /\ \A i \in DOMAIN Tail(s) : /\ i \in Nat \ {0}
                                   /\ i + 1 \in DOMAIN s /\ Tail(s)[i] = s[i + 1]
  OBVIOUS
<1>2. ASSUME Ascends(s)
      PROVE  /\ Ascends(Tail(s))
             /\ \A i \in DOMAIN Tail(s) : Precedes(Head(s), Tail(s)[i])
  <2>1. ASSUME NEW i \in DOMAIN Tail(s), NEW j \in DOMAIN Tail(s), i < j
        PROVE  Precedes(Tail(s)[i], Tail(s)[j])
    <3>1. i + 1 < j + 1
      BY <1>1, <2>1
    <3> QED BY <1>1, <1>2, <3>1 DEF Ascends
  <2>2. ASSUME NEW i \in DOMAIN Tail(s) PROVE Precedes(Head(s), Tail(s)[i])
    <3>1. 1 < i + 1
      BY <1>1
    <3> QED BY <1>1, <1>2, <3>1 DEF Ascends
  <2> QED BY <2>1, <2>2 DEF Ascends
<1>3. ASSUME Below(t, s)
      PROVE  Below(t, Tail(s)) /\ \A i \in DOMAIN t : Precedes(t[i], Head(s))
  BY <1>1, <1>3 DEF Below
<1>4. ASSUME Below(s, t)
      PROVE  Below(Tail(s), t) /\ \A i \in DOMAIN t : Precedes(Head(s), t[i])
  BY <1>1, <1>4 DEF Below
<1> QED BY <1>2, <1>3, <1>4

LEMMA OrderInitially == Init => OInv
<1> SUFFICES ASSUME Init PROVE OInv
  OBVIOUS
<1>1. IInv
  BY Initially
<1>2. Order /\ LinesKnown /\ NothingAhead
  BY DEF Init, Order, Ascends, Below, LinesKnown, OfLog, NothingAhead
<1> QED BY <1>1, <1>2 DEF OInv

\* An entry is put on the channel: it is new, or has no number.
LEMMA OrderPosted ==
  ASSUME Order, LinesKnown, EntriesGenuine, TypeInv, NEW e \in Entries,
         e.no = 0 \/ e.no = Len(logged) + 1,
         queue' = queue \/ queue' = Append(queue, e),
         UNCHANGED <<batch, buf, file>>
  PROVE  Order'
<1>1. \A x : (x.no = 0 \/ x.no \in DOMAIN logged) => Precedes(x, e)
  BY DEF Precedes, TypeInv
<1>2. \A i \in DOMAIN buf : Precedes(buf[i], e)
  BY <1>1 DEF LinesKnown, OfLog
<1>3. \A d \in Days : \A i \in DOMAIN file[d] : Precedes(file[d][i], e)
  BY <1>1 DEF LinesKnown, OfLog
<1>4. /\ \A i \in DOMAIN batch : Precedes(batch[i], e)
      /\ \A i \in DOMAIN queue : Precedes(queue[i], e)
  BY <1>1 DEF EntriesGenuine, AllGenuine, Genuine
<1>5. CASE queue' = Append(queue, e)
  <2>1. queue \in Seq(Entries)
    BY DEF TypeInv
  <2>2. Ascends(queue') /\ Below(buf, queue') /\ Below(batch, queue')
    BY <1>2, <1>4, <1>5, <2>1, AppendedOrder DEF Order
  <2>3. \A d \in Days : Below(file[d], queue')
    <3> TAKE d \in Days
    <3>1. Below(file[d], queue)
      BY DEF Order
    <3> QED BY <1>3, <1>5, <2>1, <3>1, AppendedOrder
  <2> QED BY <2>2, <2>3 DEF Order
<1>6. CASE queue' = queue
  BY <1>6 DEF Order
<1> QED BY <1>5, <1>6

LEMMA OrderOutside ==
  ASSUME OInv,
         (\E what \in What : Log(what)) \/ Shutdown \/ Cancel \/ Exit \/ Midnight
  PROVE  (Order /\ LinesKnown /\ NothingAhead)'
<1> USE DEF OInv, IInv
<1>1. CASE \E what \in What : Log(what)
  <2>1. PICK what \in What : Log(what)
    BY <1>1
  <2> DEFINE e == [no |-> Len(logged) + 1, what |-> what]
  <2>2. /\ e \in Entries /\ e.no = Len(logged) + 1
    BY DEF TypeInv, Entries
  <2>3. /\ logged' = Append(logged, [what |-> what, day |-> day,
                                     due |-> owner = "running"])
        /\ queue' = queue \/ queue' = Append(queue, e)
        /\ UNCHANGED <<opts, day, batch, buf, file, fileDay>>
    BY <2>1 DEF Log, Post, task, TypeInv
  <2>4. DOMAIN logged \subseteq DOMAIN logged'
    BY <2>3 DEF TypeInv
  <2> HIDE DEF e
  <2>5. Order'
    BY <2>2, <2>3, OrderPosted
  <2> QED BY <2>3, <2>4, <2>5 DEF LinesKnown, OfLog, NothingAhead, Path
<1>2. CASE Shutdown
  <2> DEFINE e == [no |-> 0, what |-> "shutdown"]
  <2>1. e \in Entries /\ e.no = 0
    BY DEF Entries
  <2>2. /\ queue' = queue \/ queue' = Append(queue, e)
        /\ UNCHANGED <<opts, day, logged, batch, buf, file, fileDay>>
    BY <1>2 DEF Shutdown, Post, task
  <2> HIDE DEF e
  <2>3. Order'
    BY <2>1, <2>2, OrderPosted
  <2> QED BY <2>2, <2>3 DEF LinesKnown, OfLog, NothingAhead, Path
<1>3. CASE Cancel \/ Exit
  <2>1. UNCHANGED <<opts, day, logged, queue, batch, buf, file, fileDay>>
    BY <1>3 DEF Cancel, Exit, task
  <2> QED BY <2>1 DEF Order, LinesKnown, NothingAhead, Path
<1>4. CASE Midnight
  <2>1. /\ day' = day + 1
        /\ UNCHANGED <<opts, logged, queue, batch, buf, file, fileDay>>
    BY <1>4 DEF Midnight, task
  <2>2. fileDay <= day'
    BY <2>1 DEF NothingAhead, TypeInv, Days
  <2> QED BY <2>1, <2>2 DEF Order, LinesKnown, NothingAhead, Path
<1> QED BY <1>1, <1>2, <1>3, <1>4

LEMMA OrderTaking ==
  ASSUME OInv, Receive \/ Collect
  PROVE  (Order /\ LinesKnown /\ NothingAhead)'
<1> USE DEF OInv, IInv
<1> DEFINE e == Head(queue)
<1>1. /\ queue \in Seq(Entries) /\ batch \in Seq(Entries) /\ queue # <<>>
      /\ e \in Entries
      /\ queue' = Tail(queue)
      /\ UNCHANGED <<opts, day, logged, buf, file, fileDay>>
  BY DEF Receive, Collect, outside, TypeInv
<1>2. batch' = Append(batch, e)
  <2>1. CASE Receive
    BY <2>1 DEF Receive, At, Stages
  <2>2. CASE Collect
    BY <2>2 DEF Collect
  <2> QED BY <2>1, <2>2
<1> HIDE DEF e
<1>3. /\ Ascends(queue') /\ \A i \in DOMAIN queue' : Precedes(e, queue'[i])
      /\ Below(buf, queue') /\ \A i \in DOMAIN buf : Precedes(buf[i], e)
      /\ Below(batch, queue') /\ \A i \in DOMAIN batch : Precedes(batch[i], e)
  BY <1>1, TailOrder DEF Order, e
<1>4. ASSUME NEW d \in Days
      PROVE  /\ Below(file[d], queue')
             /\ \A i \in DOMAIN file[d] : Precedes(file[d][i], e)
  <2>1. Below(file[d], queue)
    BY DEF Order
  <2> QED BY <1>1, <2>1, TailOrder DEF e
<1>5. Ascends(batch') /\ Below(buf, batch') /\ Below(batch', queue')
  BY <1>1, <1>2, <1>3, AppendedOrder DEF Order
<1>6. \A d \in Days : Below(file[d], batch')
  <2> TAKE d \in Days
  <2>1. Below(file[d], batch)
    BY DEF Order
  <2> QED BY <1>1, <1>2, <1>4, <2>1, AppendedOrder
<1>7. Order'
  BY <1>1, <1>3, <1>4, <1>5, <1>6 DEF Order
<1> QED BY <1>1, <1>7 DEF LinesKnown, NothingAhead, Path

LEMMA OrderFormat ==
  ASSUME OInv, Format
  PROVE  (Order /\ LinesKnown /\ NothingAhead)'
<1> USE DEF OInv, IInv
<1> DEFINE e == Head(batch)
           m == [no |-> e.no, block |-> IF e.what = "block" THEN block + 1 ELSE 0]
<1>1. /\ batch \in Seq(Entries) /\ batch # <<>> /\ e \in Entries
      /\ e.what # "shutdown" /\ 1 \in DOMAIN batch /\ e = batch[1]
      /\ batch' = Tail(batch)
      /\ buf' = buf \/ buf' = Append(buf, m)
      /\ UNCHANGED <<opts, day, logged, queue, file, fileDay>>
  BY DEF Format, outside, TypeInv
<1>2. e.no \in DOMAIN logged
  BY <1>1 DEF EntriesGenuine, AllGenuine, Genuine
<1>3. m.no = e.no /\ m \in Lines /\ buf \in Seq(Lines)
  BY <1>1 DEF Lines, Entries, TypeInv
<1>4. /\ Ascends(batch') /\ \A i \in DOMAIN batch' : Precedes(e, batch'[i])
      /\ Below(buf, batch') /\ \A i \in DOMAIN buf : Precedes(buf[i], e)
      /\ Below(batch', queue) /\ \A i \in DOMAIN queue : Precedes(e, queue[i])
  BY <1>1, TailOrder DEF Order
<1>5. ASSUME NEW d \in Days
      PROVE  /\ Below(file[d], batch')
             /\ \A i \in DOMAIN file[d] : Precedes(file[d][i], e)
  <2>1. Below(file[d], batch)
    BY DEF Order
  <2> QED BY <1>1, <2>1, TailOrder
<1> HIDE DEF e, m
<1>6. \A x : (Precedes(x, e) => Precedes(x, m)) /\ (Precedes(e, x) => Precedes(m, x))
  BY <1>3 DEF Precedes
<1>7. CASE buf' = buf
  BY <1>1, <1>4, <1>5, <1>7 DEF Order, LinesKnown, NothingAhead, Path
<1>8. CASE buf' = Append(buf, m)
  <2>1. Ascends(buf') /\ Below(buf', batch') /\ Below(buf', queue)
    BY <1>3, <1>4, <1>6, <1>8, AppendedOrder DEF Order
  <2>2. \A d \in Days : Below(file[d], buf')
    <3> TAKE d \in Days
    <3>1. Below(file[d], buf)
      BY DEF Order
    <3> QED BY <1>3, <1>5, <1>6, <1>8, <3>1, AppendedOrder
  <2>3. OfLog(logged, buf')
    <3>1. \A i \in DOMAIN buf' : (i \in DOMAIN buf /\ buf'[i] = buf[i]) \/ buf'[i] = m
      BY <1>3, <1>8
    <3> QED BY <1>2, <1>3, <3>1 DEF LinesKnown, OfLog
  <2> QED BY <1>1, <1>4, <1>5, <2>1, <2>2, <2>3 DEF Order, LinesKnown, NothingAhead, Path
<1> QED BY <1>1, <1>7, <1>8

LEMMA OrderPausing ==
  ASSUME OInv, SendersGone \/ Collected \/ Roll \/ Formatted
  PROVE  (Order /\ LinesKnown /\ NothingAhead)'
<1> USE DEF OInv, IInv
<1>1. CASE SendersGone \/ Collected
  <2>1. UNCHANGED <<opts, day, logged, queue, batch, buf, file, fileDay>>
    BY <1>1 DEF SendersGone, Collected, task, outside
  <2> QED BY <2>1 DEF Order, LinesKnown, NothingAhead, Path
<1>2. CASE Roll
  <2>1. /\ UNCHANGED <<opts, day, logged, queue, batch, buf, file>>
        /\ fileDay' = day \/ fileDay' = fileDay
    BY <1>2 DEF Roll, outside, Today
  <2>2. \A d \in Days : Path(fileDay') < d => file[d] = <<>>
    BY <2>1 DEF NothingAhead, Path, TypeInv, Days
  <2>3. fileDay' <= day
    BY <2>1 DEF NothingAhead, TypeInv, Days
  <2>4. NothingAhead'
    BY <2>1, <2>2, <2>3 DEF NothingAhead, Path
  <2> QED BY <2>1, <2>4 DEF Order, LinesKnown
<1>3. CASE Formatted
  <2>1. /\ UNCHANGED <<opts, day, logged, queue, buf, file, fileDay>>
        /\ batch' = <<>>
    BY <1>3 DEF Formatted, outside
  <2>2. Ascends(batch') /\ \A t : Below(batch', t) /\ Below(t, batch')
    BY <2>1 DEF Ascends, Below
  <2> QED BY <2>1, <2>2 DEF Order, LinesKnown, NothingAhead, Path
<1> QED BY <1>1, <1>2, <1>3

\* g is f, which has n elements, with the first k of b behind it: a file and
\* what is written of the buffer.
Joined(f, n, b, k, g) ==
  /\ n \in Nat /\ k \in Nat
  /\ DOMAIN f = 1 .. n /\ 1 .. k \subseteq DOMAIN b /\ DOMAIN g = 1 .. n + k
  /\ \A i \in 1 .. n : g[i] = f[i]
  /\ \A i \in 1 .. k : g[n + i] = b[i]

LEMMA JoinedLines ==
  ASSUME NEW f \in Seq(Lines), NEW b \in Seq(Lines), NEW k \in 0 .. Len(b)
  PROVE  Joined(f, Len(f), b, k, f \o SubSeq(b, 1, k))
<1> DEFINE n == Len(f)
           t == SubSeq(b, 1, k)
           g == f \o t
<1>1. t \in Seq(Lines) /\ Len(t) = k /\ \A i \in 1 .. k : t[i] = b[i]
  OBVIOUS
<1>2. k \in Nat /\ 1 .. k \subseteq DOMAIN b /\ n \in Nat /\ DOMAIN f = 1 .. n
  OBVIOUS
<1> HIDE DEF t
<1>3. \A i \in 1 .. n + k : g[i] = IF i <= n THEN f[i] ELSE t[i - n]
  BY <1>1
<1>4. DOMAIN g = 1 .. n + k
  BY <1>1, SMTT(30)
<1> HIDE DEF n, g
<1>5. ASSUME NEW i \in 1 .. n PROVE g[i] = f[i]
  BY <1>2, <1>3
<1>6. ASSUME NEW i \in 1 .. k PROVE g[n + i] = b[i]
  <2>1. n + i \in 1 .. n + k /\ ~ (n + i <= n) /\ (n + i) - n = i
    BY <1>2
  <2> QED BY <1>1, <1>3, <2>1
<1>7. Joined(f, n, b, k, g)
  BY <1>2, <1>4, <1>5, <1>6 DEF Joined
<1> QED BY <1>7 DEF n, g, t

LEMMA JoinedOrder ==
  ASSUME NEW f, NEW n, NEW b, NEW k, NEW g, Joined(f, n, b, k, g),
         Ascends(f), Ascends(b), Below(f, b)
  PROVE  /\ Ascends(g)
         /\ \A i \in DOMAIN g : \/ \E j \in DOMAIN f : g[i] = f[j]
                                \/ \E j \in DOMAIN b : g[i] = b[j]
<1> USE DEF Joined
<1>1. \A i \in n + 1 .. n + k :
        i - n \in 1 .. k /\ i - n \in DOMAIN b /\ g[i] = b[i - n]
  <2> TAKE i \in n + 1 .. n + k
  <2>1. i - n \in 1 .. k /\ n + (i - n) = i
    OBVIOUS
  <2> QED BY <2>1
<1>2. ASSUME NEW i \in DOMAIN g, NEW j \in DOMAIN g, i < j
      PROVE  Precedes(g[i], g[j])
  <2>1. CASE j <= n
    BY <1>2, <2>1 DEF Ascends
  <2>2. CASE i <= n /\ j > n
    <3>1. i \in DOMAIN f /\ g[i] = f[i]
      BY <2>2
    <3>2. j - n \in DOMAIN b /\ g[j] = b[j - n]
      BY <1>1, <2>2
    <3> QED BY <3>1, <3>2 DEF Below
  <2>3. CASE i > n
    <3>1. /\ i - n \in DOMAIN b /\ g[i] = b[i - n]
          /\ j - n \in DOMAIN b /\ g[j] = b[j - n]
          /\ i - n < j - n
      BY <1>1, <1>2, <2>3
    <3> QED BY <3>1 DEF Ascends
  <2> QED BY <2>1, <2>2, <2>3
<1>3. Ascends(g)
  BY <1>2 DEF Ascends
<1>4. ASSUME NEW i \in DOMAIN g
      PROVE  (\E j \in DOMAIN f : g[i] = f[j]) \/ (\E j \in DOMAIN b : g[i] = b[j])
  <2>1. CASE i \in 1 .. n
    BY <2>1
  <2>2. CASE i \in n + 1 .. n + k
    BY <1>1, <2>2
  <2> QED BY <2>1, <2>2
<1> QED BY <1>3, <1>4

LEMMA OrderAppend ==
  ASSUME OInv, NEW k \in 0 .. Len(buf), AppendLines(k)
  PROVE  (Order /\ LinesKnown /\ NothingAhead)'
<1> USE DEF OInv, IInv
<1> DEFINE p == Path(fileDay)
<1>1. /\ file' = [file EXCEPT ![p] = @ \o SubSeq(buf, 1, k)]
      /\ buf' = <<>> /\ batch = <<>>
      /\ UNCHANGED <<opts, day, logged, queue, batch, fileDay>>
  BY DEF AppendLines, At, outside, Leave, EmptyBuffer, Stages
<1>2. p \in Days /\ file[p] \in Seq(Lines) /\ buf \in Seq(Lines)
  BY PathIsADay DEF TypeInv
<1>3. /\ file'[p] = file[p] \o SubSeq(buf, 1, k)
      /\ \A d \in Days : d # p => file'[d] = file[d]
  BY <1>1, <1>2 DEF TypeInv
<1> DEFINE g == file'[p]
<1>4. Ascends(file[p]) /\ Ascends(buf) /\ Below(file[p], buf)
  BY <1>2 DEF Order
<1>5. /\ Ascends(g)
      /\ \A i \in DOMAIN g : (\E j \in DOMAIN file[p] : g[i] = file[p][j])
                             \/ (\E j \in DOMAIN buf : g[i] = buf[j])
  <2>1. Joined(file[p], Len(file[p]), buf, k, g)
    BY <1>2, <1>3, JoinedLines
  <2> HIDE DEF g, p
  <2> QED BY <1>4, <2>1, JoinedOrder
<1>6. Below(g, queue)
  <2>1. Below(file[p], queue) /\ Below(buf, queue)
    BY <1>2 DEF Order
  <2> QED BY <1>5, <2>1 DEF Below
<1>7. ASSUME NEW d \in Days, d < p PROVE Below(file[d], g)
  <2>1. Below(file[d], file[p]) /\ Below(file[d], buf)
    BY <1>2, <1>7 DEF Order
  <2> QED BY <1>5, <2>1 DEF Below
<1>8. ASSUME NEW d \in Days, p < d PROVE Below(g, file'[d])
  <2>1. file'[d] = <<>>
    BY <1>2, <1>3, <1>8 DEF NothingAhead, Days
  <2> QED BY <2>1 DEF Below
<1>9. OfLog(logged, g)
  BY <1>2, <1>5 DEF LinesKnown, OfLog
<1>10. \A d \in Days : p < d => file'[d] = <<>>
  BY <1>2, <1>3 DEF NothingAhead, Days
<1> HIDE DEF p
<1>11. \A d \in Days : /\ Ascends(file'[d]) /\ Below(file'[d], queue)
                       /\ OfLog(logged, file'[d])
  BY <1>3, <1>5, <1>6, <1>9 DEF Order, LinesKnown
<1>12. \A d, e \in Days : d < e => Below(file'[d], file'[e])
  <2> TAKE d, e \in Days
  <2> HAVE d < e
  <2>1. CASE d = p
    BY <1>8, <2>1
  <2>2. CASE e = p
    <3>1. d < p /\ d # p
      BY <2>2 DEF Days
    <3>2. file'[d] = file[d]
      BY <1>3, <3>1
    <3> QED BY <1>7, <2>2, <3>1, <3>2
  <2>3. CASE d # p /\ e # p
    BY <1>3, <2>3 DEF Order
  <2> QED BY <2>1, <2>2, <2>3
<1>13. /\ Ascends(<<>>) /\ OfLog(logged, <<>>)
       /\ \A t : Below(<<>>, t) /\ Below(t, <<>>)
  BY DEF Ascends, Below, OfLog
<1>14. Order'
  BY <1>1, <1>11, <1>12, <1>13 DEF Order
<1>15. LinesKnown'
  BY <1>1, <1>11, <1>13 DEF LinesKnown
<1>16. NothingAhead'
  BY <1>1, <1>10 DEF NothingAhead, Path, p
<1> QED BY <1>14, <1>15, <1>16

LEMMA OrderStep == OInv /\ [Next]_logVars => OInv'
<1> SUFFICES ASSUME OInv, [Next]_logVars PROVE OInv'
  OBVIOUS
<1>1. IInv'
  BY EveryStep DEF OInv
<1>2. CASE Writer
  BY <1>1, <1>2, OrderTaking, OrderPausing, OrderFormat, OrderAppend DEF Writer, OInv
<1>3. CASE (\E what \in What : Log(what)) \/ Shutdown \/ Cancel \/ Exit \/ Midnight
  BY <1>1, <1>3, OrderOutside DEF OInv
<1>4. CASE UNCHANGED logVars
  <2>1. UNCHANGED <<opts, day, logged, queue, batch, buf, file, fileDay>>
    BY <1>4 DEF logVars, task, outside
  <2>2. (Order /\ LinesKnown /\ NothingAhead)'
    BY <2>1 DEF OInv, Order, LinesKnown, NothingAhead, Path
  <2> QED BY <1>1, <2>2 DEF OInv
<1> QED BY <1>2, <1>3, <1>4 DEF Next

LEMMA OrderSuffices == OInv => LinesInOrder
<1> SUFFICES ASSUME OInv PROVE LinesInOrder
  OBVIOUS
<1>1. ASSUME NEW d \in Days, NEW i \in DOMAIN file[d] PROVE file[d][i].no # 0
  BY DEF OInv, IInv, TypeInv, LinesKnown, OfLog
<1>2. ASSUME NEW d \in Days, NEW i \in DOMAIN file[d], NEW j \in DOMAIN file[d], i < j
      PROVE  file[d][i].no < file[d][j].no
  BY <1>1, <1>2 DEF OInv, Order, Ascends, Precedes
<1>3. ASSUME NEW d \in Days, NEW e \in Days, d < e,
             NEW x \in LinesOf(d), NEW y \in LinesOf(e)
      PROVE  x.no < y.no
  <2>1. PICK i \in DOMAIN file[d] : x = file[d][i]
    BY DEF LinesOf
  <2>2. PICK j \in DOMAIN file[e] : y = file[e][j]
    BY DEF LinesOf
  <2>3. Below(file[d], file[e])
    BY <1>3 DEF OInv, Order
  <2> QED BY <1>1, <2>1, <2>2, <2>3 DEF Below, Precedes
<1> QED BY <1>2, <1>3 DEF LinesInOrder

-----------------------------------------------------------------------------
(***************************************************************************)
(* The days of the lines: none in the files is of a later day than its file, *)
(* and none in the buffer, or in a batch that has its date, of a later one   *)
(* than that date.                                                          *)
(***************************************************************************)
OnTime(l, s, d) == \A i \in DOMAIN s : s[i].no \in DOMAIN l => l[s[i].no].day <= d

NoneAhead == \A n \in DOMAIN logged : logged[n].day <= day

Dated ==
  opts.daily /\ opts.dated =>
    /\ writer = "formatting" => OnTime(logged, batch, fileDay)
    /\ OnTime(logged, buf, fileDay)
    /\ \A d \in Days : OnTime(logged, file[d], d)

(***************************************************************************)
(* The numbers of the blocks: those of s go on from those of f.             *)
(***************************************************************************)
Fresh       == opts.dated \/ ~ opts.daily
Has(s, n)   == \E i \in DOMAIN s : s[i].block = n
UpTo(s, n)  == \A i \in DOMAIN s : s[i].block <= n

Counts(f, s) ==
  \A i \in DOMAIN s : s[i].block > 1 =>
    /\ \/ Has(f, s[i].block - 1)
       \/ \E j \in DOMAIN s : j < i /\ s[j].block = s[i].block - 1
    /\ Fresh => /\ ~ Has(f, s[i].block)
                /\ \A j \in DOMAIN s : j < i => s[j].block # s[i].block

Current == file[Path(fileDay)]

Numbered ==
  missed = {} =>
    /\ \A d \in Days : Counts(<<>>, file[d])
    /\ Counts(Current, buf)
    /\ block > 0 => Has(Current, block) \/ Has(buf, block)
    /\ Fresh => UpTo(Current, block) /\ UpTo(buf, block)

\* The buffer is used from the date on.
BufferUsed == writer \notin {"formatting", "appending"} => buf = <<>>

Kept == NoneAhead /\ Dated /\ Numbered /\ BufferUsed
FInv == OInv /\ Kept

LEMMA KeptInitially == Init => FInv
<1> SUFFICES ASSUME Init PROVE FInv
  OBVIOUS
<1>1. OInv
  BY OrderInitially
<1>2. Path(0) \in Days
  BY PathIsADay, LogBoundsAssumption DEF Days
<1>3. Current = <<>> /\ block = 0 /\ buf = <<>> /\ \A d \in Days : file[d] = <<>>
  BY <1>2 DEF Init, Current
<1>4. NoneAhead /\ Dated /\ BufferUsed
  BY <1>3 DEF Init, NoneAhead, Dated, OnTime, BufferUsed
<1>5. Numbered
  BY <1>3 DEF Numbered, Counts, UpTo
<1> QED BY <1>1, <1>4, <1>5 DEF FInv, Kept

\* Steps that leave the buffer, the numbers and the files alone.
LEMMA NumbersStay ==
  ASSUME Numbered, UNCHANGED <<opts, fileDay, block, buf, file, missed>>
  PROVE  Numbered'
BY DEF Numbered, Counts, Current, Path, Fresh

\* What is logged later is not among the lines there are.
LEMMA OnTimeStays ==
  ASSUME NEW r \in Record, NEW s, NEW d, TypeInv,
         \A i \in DOMAIN s : s[i].no = 0 \/ s[i].no \in DOMAIN logged,
         OnTime(logged, s, d), logged' = Append(logged, r)
  PROVE  OnTime(logged', s, d)
<1>1. \A n \in DOMAIN logged : n \in DOMAIN logged' /\ logged'[n] = logged[n]
  BY DEF TypeInv
<1>2. 0 \notin DOMAIN logged'
  BY DEF TypeInv
<1> QED BY <1>1, <1>2 DEF OnTime

LEMMA KeptOutside ==
  ASSUME FInv,
         (\E what \in What : Log(what)) \/ Shutdown \/ Cancel \/ Exit \/ Midnight
  PROVE  Kept'
<1> USE DEF FInv, OInv, IInv, Kept
<1>1. UNCHANGED <<opts, fileDay, block, batch, buf, file, missed, writer>>
  BY DEF Log, Shutdown, Cancel, Exit, Midnight, task
<1>2. Numbered' /\ BufferUsed'
  BY <1>1, NumbersStay DEF BufferUsed
<1>3. CASE \E what \in What : Log(what)
  <2>1. PICK what \in What : Log(what)
    BY <1>3
  <2> DEFINE r == [what |-> what, day |-> day, due |-> owner = "running"]
  <2>2. r \in Record /\ r.day = day
    BY DEF Record, TypeInv
  <2>3. logged' = Append(logged, r) /\ UNCHANGED day
    BY <2>1 DEF Log
  <2> HIDE DEF r
  <2>4. NoneAhead'
    <3>1. \A n \in DOMAIN logged' : \/ n \in DOMAIN logged /\ logged'[n] = logged[n]
                                   \/ logged'[n] = r
      BY <2>2, <2>3 DEF TypeInv
    <3>2. /\ \A n \in DOMAIN logged : logged[n].day <= day
          /\ day <= day
      BY DEF NoneAhead, TypeInv, Days
    <3>3. \A n \in DOMAIN logged' : logged'[n].day <= day
      BY ONLY <2>2, <3>1, <3>2
    <3> QED BY <2>3, <3>3 DEF NoneAhead
  <2>5. \A i \in DOMAIN batch : batch[i].no = 0 \/ batch[i].no \in DOMAIN logged
    BY DEF EntriesGenuine, AllGenuine, Genuine
  <2>6. OnTime(logged, batch, fileDay) => OnTime(logged', batch, fileDay)
    BY <2>2, <2>3, <2>5, OnTimeStays
  <2>7. OnTime(logged, buf, fileDay) => OnTime(logged', buf, fileDay)
    BY <2>2, <2>3, OnTimeStays DEF LinesKnown, OfLog
  <2>8. ASSUME NEW d \in Days, OnTime(logged, file[d], d)
        PROVE  OnTime(logged', file[d], d)
    <3>1. \A i \in DOMAIN file[d] : file[d][i].no \in DOMAIN logged
      BY DEF LinesKnown, OfLog
    <3> QED BY <2>2, <2>3, <2>8, <3>1, OnTimeStays
  <2>9. Dated'
    BY <1>1, <2>6, <2>7, <2>8 DEF Dated
  <2> QED BY <1>2, <2>4, <2>9
<1>4. CASE Shutdown \/ Cancel \/ Exit \/ Midnight
  <2>1. UNCHANGED logged /\ (day' = day \/ day' = day + 1)
    BY <1>4 DEF Shutdown, Cancel, Exit, Midnight
  <2>2. NoneAhead'
    <3> SUFFICES ASSUME NEW n \in DOMAIN logged PROVE logged[n].day <= day'
      BY <2>1 DEF NoneAhead
    <3> DEFINE r == logged[n]
    <3>1. r \in Record
      BY DEF TypeInv
    <3>2. r.day <= day
      BY DEF NoneAhead
    <3> HIDE DEF r
    <3>3. r.day \in Nat /\ day \in Nat
      BY <3>1 DEF Record, Days, TypeInv
    <3>4. r.day <= day'
      BY <2>1, <3>2, <3>3
    <3> QED BY <3>4 DEF r
  <2>3. Dated'
    BY <1>1, <2>1 DEF Dated
  <2> QED BY <1>2, <2>2, <2>3
<1> QED BY <1>3, <1>4

LEMMA KeptPausing ==
  ASSUME FInv, Receive \/ Collect \/ SendersGone \/ Collected \/ Formatted
  PROVE  Kept'
<1> USE DEF FInv, OInv, IInv, Kept
<1>1. UNCHANGED <<opts, day, logged, fileDay, block, buf, file, missed>>
  BY DEF Receive, Collect, SendersGone, Collected, Formatted, outside, task
<1>2. Numbered' /\ NoneAhead'
  BY <1>1, NumbersStay DEF NoneAhead
<1>3. writer' # "formatting"
  BY DEF Receive, Collect, SendersGone, Collected, Formatted, At
<1>4. Dated'
  BY <1>1, <1>3 DEF Dated
<1>5. BufferUsed'
  <2>1. CASE Formatted
    BY <2>1 DEF Formatted, BufferUsed
  <2>2. CASE Receive \/ Collect \/ SendersGone \/ Collected
    BY <1>1, <2>2 DEF Receive, Collect, SendersGone, Collected, At, BufferUsed
  <2> QED BY <2>1, <2>2
<1> QED BY <1>2, <1>4, <1>5

LEMMA KeptRoll == ASSUME FInv, Roll PROVE Kept'
<1> USE DEF FInv, OInv, IInv, Kept
<1>1. /\ UNCHANGED <<opts, day, logged, batch, buf, file, missed>>
      /\ buf = <<>> /\ writer' = "formatting"
      /\ IF NewDay THEN fileDay' = day /\ block' = 0
         ELSE UNCHANGED <<fileDay, block>>
  BY DEF Roll, outside, At, BufferUsed, Today, FirstBlock
<1>2. NoneAhead' /\ BufferUsed'
  BY <1>1 DEF NoneAhead, BufferUsed
<1>3. opts.daily => fileDay' = day
  BY <1>1 DEF NewDay
<1>4. OnTime(logged, batch, day)
  BY DEF OnTime, NoneAhead
<1>5. Dated'
  BY <1>1, <1>3, <1>4 DEF Dated, OnTime
<1>6. CASE ~ NewDay
  <2>1. UNCHANGED <<opts, fileDay, block, buf, file, missed>>
    BY <1>1, <1>6
  <2>2. Numbered'
    BY <2>1, NumbersStay
  <2> QED BY <1>2, <1>5, <2>2
<1>7. CASE NewDay
  <2>1. fileDay' = day /\ block' = 0 /\ opts.daily
    BY <1>1, <1>7 DEF NewDay
  <2>2. Fresh => file[Path(day)] = <<>>
    <3>1. day # fileDay /\ fileDay <= day /\ day \in Days /\ fileDay \in Days
      BY <1>7 DEF NewDay, NothingAhead, TypeInv
    <3>2. Fresh => Path(day) = day /\ Path(fileDay) = fileDay
      BY <2>1 DEF Fresh, Path
    <3>3. fileDay < day
      BY <3>1 DEF Days
    <3> QED BY <3>1, <3>2, <3>3 DEF NothingAhead
  <2>3. Current' = file[Path(day)] /\ (Fresh' <=> Fresh) /\ buf' = <<>>
    BY <1>1, <2>1 DEF Current, Path, Fresh
  <2>4. Counts(Current, buf)' /\ UpTo(buf, block)'
    BY <2>3 DEF Counts, UpTo
  <2>5. Fresh => UpTo(Current, block)'
    BY <2>2, <2>3 DEF UpTo
  <2>6. missed = {} => \A d \in Days : Counts(<<>>, file[d])'
    BY <1>1 DEF Numbered, Counts, Fresh
  <2>7. Numbered'
    BY <1>1, <2>1, <2>3, <2>4, <2>5, <2>6 DEF Numbered
  <2> QED BY <1>2, <1>5, <2>7
<1> QED BY <1>6, <1>7

LEMMA CountsAppended ==
  ASSUME NEW f, NEW s \in Seq(Lines), NEW m \in Lines, Counts(f, s),
         m.block > 1 => /\ Has(f, m.block - 1) \/ Has(s, m.block - 1)
                        /\ Fresh => ~ Has(f, m.block) /\ ~ Has(s, m.block)
  PROVE  Counts(f, Append(s, m))
<1> DEFINE t == Append(s, m)
<1>1. DOMAIN t = 1 .. Len(s) + 1 /\ DOMAIN s = 1 .. Len(s) /\ Len(s) \in Nat
  OBVIOUS
<1>2. (\A i \in DOMAIN s : i \in DOMAIN t /\ t[i] = s[i]) /\ t[Len(s) + 1] = m
  OBVIOUS
<1> HIDE DEF t
<1>3. /\ DOMAIN t \subseteq Nat
      /\ \A i \in DOMAIN s : i < Len(s) + 1
      /\ \A i \in DOMAIN t : i \in DOMAIN s \/ i = Len(s) + 1
  BY <1>1
<1> SUFFICES ASSUME NEW i \in DOMAIN t, t[i].block > 1
             PROVE  /\ \/ Has(f, t[i].block - 1)
                       \/ \E j \in DOMAIN t : j < i /\ t[j].block = t[i].block - 1
                    /\ Fresh => /\ ~ Has(f, t[i].block)
                                /\ \A j \in DOMAIN t : j < i => t[j].block # t[i].block
  BY DEF Counts, t
<1>4. CASE i \in DOMAIN s /\ t[i] = s[i]
  <2>1. /\ \/ Has(f, s[i].block - 1)
           \/ \E j \in DOMAIN s : j < i /\ s[j].block = s[i].block - 1
        /\ Fresh => /\ ~ Has(f, s[i].block)
                    /\ \A j \in DOMAIN s : j < i => s[j].block # s[i].block
    BY <1>4 DEF Counts
  <2>2. \A j \in DOMAIN t : j < i => j \in DOMAIN s
    BY <1>1, <1>3, <1>4
  <2> QED BY <1>2, <1>4, <2>1, <2>2
<1>5. CASE i = Len(s) + 1 /\ t[i] = m
  <2>1. \A j \in DOMAIN t : j < i => j \in DOMAIN s
    BY <1>1, <1>3, <1>5
  <2>2. Has(f, m.block - 1) \/ \E j \in DOMAIN t : j < i /\ t[j].block = m.block - 1
    BY <1>2, <1>3, <1>5 DEF Has
  <2>3. Fresh => /\ ~ Has(f, m.block)
                 /\ \A j \in DOMAIN t : j < i => t[j].block # m.block
    BY <1>2, <1>5, <2>1 DEF Has
  <2> QED BY <1>5, <2>2, <2>3
<1> QED BY <1>2, <1>3, <1>4, <1>5

LEMMA KeptFormat == ASSUME FInv, Format PROVE Kept'
<1> USE DEF FInv, OInv, IInv, Kept
<1> DEFINE e == Head(batch)
           m == [no |-> e.no, block |-> IF e.what = "block" THEN block + 1 ELSE 0]
<1>1. /\ batch \in Seq(Entries) /\ batch # <<>> /\ e \in Entries
      /\ writer = "formatting" /\ writer' = writer
      /\ e.what # "shutdown" /\ 1 \in DOMAIN batch /\ e = batch[1]
      /\ batch' = Tail(batch)
      /\ UNCHANGED <<opts, day, logged, fileDay, file, missed>>
  BY DEF Format, outside, TypeInv, At
<1>2. /\ block' = IF e.what = "block" THEN block + 1 ELSE block
      /\ buf' = IF e.what = "other" THEN buf ELSE Append(buf, m)
  BY DEF Format
<1>3. e.no \in DOMAIN logged /\ m \in Lines /\ m.no = e.no /\ buf \in Seq(Lines)
  BY <1>1 DEF EntriesGenuine, AllGenuine, Genuine, Lines, Entries, TypeInv
<1>4. m.block = IF e.what = "block" THEN block + 1 ELSE 0
  OBVIOUS
<1>5. \A i \in DOMAIN batch' : i + 1 \in DOMAIN batch /\ batch'[i] = batch[i + 1]
  BY <1>1
<1> HIDE DEF e, m
<1>6. \A i \in DOMAIN Append(buf, m) : \/ i \in DOMAIN buf /\ Append(buf, m)[i] = buf[i]
                                      \/ Append(buf, m)[i] = m
  BY <1>3
<1>7. /\ \A i \in DOMAIN buf : i \in DOMAIN Append(buf, m) /\ Append(buf, m)[i] = buf[i]
      /\ Len(buf) + 1 \in DOMAIN Append(buf, m) /\ Append(buf, m)[Len(buf) + 1] = m
  BY <1>3
<1>8. NoneAhead' /\ BufferUsed'
  BY <1>1 DEF NoneAhead, BufferUsed
<1>9. ASSUME opts.daily, opts.dated
      PROVE  OnTime(logged, batch', fileDay) /\ OnTime(logged, buf', fileDay)
  <2>1. OnTime(logged, batch, fileDay) /\ OnTime(logged, buf, fileDay)
    BY <1>1, <1>9 DEF Dated
  <2>2. OnTime(logged, batch', fileDay)
    BY <1>5, <2>1 DEF OnTime
  <2>3. logged[m.no].day <= fileDay
    BY <1>1, <1>3, <2>1 DEF OnTime
  <2>4. \A i \in DOMAIN buf' : (i \in DOMAIN buf /\ buf'[i] = buf[i]) \/ buf'[i] = m
    BY <1>2, <1>6
  <2>5. OnTime(logged, buf', fileDay)
    BY <2>1, <2>3, <2>4 DEF OnTime
  <2> QED BY <2>2, <2>5
<1>10. Dated'
  BY <1>1, <1>9 DEF Dated
<1>11. ASSUME missed = {}
       PROVE  /\ Counts(Current, buf')
              /\ block' > 0 => Has(Current, block') \/ Has(buf', block')
              /\ Fresh => UpTo(Current, block') /\ UpTo(buf', block')
  <2>1. /\ Counts(Current, buf)
        /\ block > 0 => Has(Current, block) \/ Has(buf, block)
        /\ Fresh => UpTo(Current, block) /\ UpTo(buf, block)
    BY <1>11 DEF Numbered
  <2>2. block \in Nat /\ Current \in Seq(Lines)
    BY PathIsADay DEF TypeInv, Current
  <2> HIDE DEF FInv
  <2>3. CASE e.what = "block"
    <3>1. block' = block + 1 /\ buf' = Append(buf, m) /\ m.block = block + 1
      BY <1>2, <1>4, <2>3
    <3>2. ASSUME UpTo(Current, block), UpTo(buf, block)
          PROVE  /\ ~ Has(Current, block + 1) /\ ~ Has(buf, block + 1)
                 /\ UpTo(Current, block + 1) /\ UpTo(buf', block + 1)
      <4>1. /\ \A i \in DOMAIN Current : Current[i].block \in Nat
            /\ \A i \in DOMAIN buf : buf[i].block \in Nat
        <5>1. /\ \A i \in DOMAIN Current : Current[i] \in Lines
              /\ \A i \in DOMAIN buf : buf[i] \in Lines
          BY <1>3, <2>2
        <5> QED BY <5>1 DEF Lines
      <4>2. \A x \in Nat : x <= block => x # block + 1 /\ x <= block + 1
        BY <2>2
      <4>3. \A i \in DOMAIN buf' : (i \in DOMAIN buf /\ buf'[i] = buf[i]) \/ buf'[i] = m
        BY <1>6, <3>1
      <4>4. block + 1 <= block + 1
        BY <2>2
      <4> QED BY <3>1, <3>2, <4>1, <4>2, <4>3, <4>4 DEF UpTo, Has
    <3>3. Has(buf', block')
      BY <1>7, <3>1 DEF Has
    <3>4. block + 1 > 1 => block > 0 /\ (block + 1) - 1 = block
      BY <2>2
    <3>5. m.block > 1 => /\ Has(Current, m.block - 1) \/ Has(buf, m.block - 1)
                         /\ Fresh => ~ Has(Current, m.block) /\ ~ Has(buf, m.block)
      BY <2>1, <3>1, <3>2, <3>4
    <3>6. Counts(Current, buf')
      BY <1>3, <2>1, <3>1, <3>5, CountsAppended
    <3> QED BY <2>1, <3>1, <3>2, <3>3, <3>6
  <2>4. CASE e.what = "other"
    BY <1>2, <2>1, <2>4
  <2>5. CASE e.what \notin {"block", "other"}
    <3>1. block' = block /\ buf' = Append(buf, m) /\ m.block = 0
      BY <1>2, <1>4, <2>5
    <3>2. Counts(Current, buf')
      BY <1>3, <2>1, <3>1, CountsAppended
    <3>3. Has(buf, block) => Has(buf', block)
      BY <1>7, <3>1 DEF Has
    <3>4. UpTo(buf, block) => UpTo(buf', block)
      BY <1>6, <2>2, <3>1 DEF UpTo
    <3> QED BY <2>1, <3>1, <3>2, <3>3, <3>4
  <2> QED BY <2>3, <2>4, <2>5
<1>12. Numbered'
  <2>1. (Current' = Current) /\ (Fresh' <=> Fresh)
    BY <1>1 DEF Current, Path, Fresh
  <2> QED BY <1>1, <1>11, <2>1 DEF Numbered, Counts, UpTo, Has
<1> QED BY <1>8, <1>10, <1>12

LEMMA CountsJoined ==
  ASSUME NEW f, NEW n, NEW b, NEW k, NEW g, Joined(f, n, b, k, g), DOMAIN b = 1 .. k,
         Counts(<<>>, f), Counts(f, b)
  PROVE  Counts(<<>>, g) /\ \A x : Has(g, x) <=> Has(f, x) \/ Has(b, x)
<1>1. n \in Nat /\ k \in Nat /\ DOMAIN f = 1 .. n /\ DOMAIN g = 1 .. n + k
  BY DEF Joined
<1>2. \A i \in DOMAIN f : i \in DOMAIN g /\ g[i] = f[i]
  BY <1>1 DEF Joined
<1>3. \A i \in DOMAIN b : n + i \in DOMAIN g /\ g[n + i] = b[i] /\ i \in Nat /\ n < n + i
  BY <1>1 DEF Joined
<1>4. ASSUME NEW i \in DOMAIN g, i \notin DOMAIN f
      PROVE  i - n \in DOMAIN b /\ g[i] = b[i - n]
  <2>1. i - n \in 1 .. k /\ n + (i - n) = i
    BY <1>1, <1>4
  <2> QED BY <1>3, <2>1
<1>5. ASSUME NEW x PROVE Has(g, x) <=> Has(f, x) \/ Has(b, x)
  BY <1>2, <1>3, <1>4 DEF Has
<1>6. ASSUME NEW i \in DOMAIN g, g[i].block > 1
      PROVE  /\ \E j \in DOMAIN g : j < i /\ g[j].block = g[i].block - 1
             /\ Fresh => \A j \in DOMAIN g : j < i => g[j].block # g[i].block
  <2>1. CASE i \in DOMAIN f
    <3>1. /\ Has(<<>>, f[i].block - 1)
             \/ \E j \in DOMAIN f : j < i /\ f[j].block = f[i].block - 1
          /\ Fresh => \A j \in DOMAIN f : j < i => f[j].block # f[i].block
      BY <1>2, <1>6, <2>1 DEF Counts
    <3>2. ~ Has(<<>>, f[i].block - 1)
      BY DEF Has
    <3>3. \A j \in DOMAIN g : j < i => j \in DOMAIN f
      BY <1>1, <2>1
    <3> QED BY <1>2, <2>1, <3>1, <3>2, <3>3
  <2>2. CASE i \notin DOMAIN f
    <3> DEFINE h == i - n
    <3>1. h \in DOMAIN b /\ g[i] = b[h]
      BY <1>4, <2>2
    <3>2. /\ \A j \in DOMAIN f : j < i
          /\ \A j \in DOMAIN b : j < h => n + j < i
          /\ \A j \in DOMAIN g : j < i => j \in DOMAIN f \/ j - n < h
      BY <1>1, <2>2
    <3> HIDE DEF h
    <3>3. /\ Has(f, b[h].block - 1)
             \/ \E j \in DOMAIN b : j < h /\ b[j].block = b[h].block - 1
          /\ Fresh => /\ ~ Has(f, b[h].block)
                      /\ \A j \in DOMAIN b : j < h => b[j].block # b[h].block
      BY <1>6, <3>1 DEF Counts
    <3>4. \E j \in DOMAIN g : j < i /\ g[j].block = g[i].block - 1
      <4>1. CASE Has(f, b[h].block - 1)
        BY <1>2, <3>1, <3>2, <4>1 DEF Has
      <4>2. CASE \E j \in DOMAIN b : j < h /\ b[j].block = b[h].block - 1
        BY <1>3, <3>1, <3>2, <4>2
      <4> QED BY <3>3, <4>1, <4>2
    <3>5. ASSUME Fresh, NEW j \in DOMAIN g, j < i PROVE g[j].block # g[i].block
      <4>1. CASE j \in DOMAIN f
        BY <1>2, <3>1, <3>3, <3>5, <4>1 DEF Has
      <4>2. CASE j \notin DOMAIN f
        <5>1. j - n \in DOMAIN b /\ g[j] = b[j - n] /\ j - n < h
          BY <1>4, <3>2, <3>5, <4>2
        <5> QED BY <3>1, <3>3, <3>5, <5>1
      <4> QED BY <4>1, <4>2
    <3> QED BY <3>4, <3>5
  <2> QED BY <2>1, <2>2
<1>7. Counts(<<>>, g)
  BY <1>6 DEF Counts, Has
<1> QED BY <1>5, <1>7

LEMMA KeptAppend ==
  ASSUME FInv, NEW k \in 0 .. Len(buf), AppendLines(k)
  PROVE  Kept'
<1> USE DEF FInv, OInv, IInv, Kept
<1> DEFINE p == Path(fileDay)
           g == file'[p]
<1>1. /\ file' = [file EXCEPT ![p] = @ \o SubSeq(buf, 1, k)]
      /\ missed' = missed \cup {buf[i].no : i \in k + 1 .. Len(buf)}
      /\ buf' = <<>> /\ batch' = batch /\ writer' # "formatting"
      /\ UNCHANGED <<opts, day, logged, fileDay, block>>
  BY DEF AppendLines, outside, Leave, EmptyBuffer
<1>2. p \in Days /\ file[p] \in Seq(Lines) /\ buf \in Seq(Lines) /\ block \in Nat
  BY PathIsADay DEF TypeInv
<1>3. /\ g = file[p] \o SubSeq(buf, 1, k)
      /\ \A d \in Days : d # p => file'[d] = file[d]
  BY <1>1, <1>2 DEF TypeInv
<1>4. Joined(file[p], Len(file[p]), buf, k, g)
  BY <1>2, <1>3, JoinedLines
<1>5. Current = file[p] /\ Current' = g /\ (Fresh' <=> Fresh)
  BY <1>1 DEF Current, Path, Fresh
<1>6. opts.daily /\ opts.dated => p = fileDay
  BY DEF Path
<1> HIDE DEF g, p
<1>7. NoneAhead' /\ BufferUsed'
  BY <1>1 DEF NoneAhead, BufferUsed
<1>8. \A i \in DOMAIN g : \/ \E j \in DOMAIN file[p] : g[i] = file[p][j]
                         \/ \E j \in DOMAIN buf : g[i] = buf[j]
  <2>1. Ascends(file[p]) /\ Ascends(buf) /\ Below(file[p], buf)
    BY <1>2 DEF Order
  <2> QED BY <1>4, <2>1, JoinedOrder
<1>9. ASSUME opts.daily, opts.dated, NEW d \in Days PROVE OnTime(logged, file'[d], d)
  <2>1. OnTime(logged, file[d], d) /\ OnTime(logged, buf, fileDay)
    BY <1>9 DEF Dated
  <2>2. CASE d = p
    BY <1>6, <1>8, <1>9, <2>1, <2>2 DEF OnTime, g
  <2>3. CASE d # p
    BY <1>3, <2>1, <2>3
  <2> QED BY <2>2, <2>3
<1>10. Dated'
  <2>1. OnTime(logged, <<>>, fileDay)
    BY DEF OnTime
  <2> QED BY <1>1, <1>9, <2>1 DEF Dated
<1>11. ASSUME missed' = {}
       PROVE  /\ \A d \in Days : Counts(<<>>, file'[d])
              /\ block > 0 => Has(g, block)
              /\ Fresh => UpTo(g, block)
  <2>1. missed = {} /\ DOMAIN buf = 1 .. k
    <3>1. /\ Len(buf) \in Nat /\ DOMAIN buf = 1 .. Len(buf)
          /\ k \in Nat /\ k <= Len(buf)
      BY <1>2
    <3>2. k + 1 .. Len(buf) = {}
      BY <1>1, <1>11
    <3>3. k < Len(buf) => Len(buf) \in k + 1 .. Len(buf)
      BY <3>1
    <3>4. ~ (k < Len(buf))
      BY <3>2, <3>3
    <3>5. \A x, y \in Nat : x <= y /\ ~ (x < y) => x = y
      OBVIOUS
    <3>6. k = Len(buf)
      BY ONLY <3>1, <3>4, <3>5, Zenon
    <3> QED BY <1>1, <1>11, <3>1, <3>6
  <2>2. /\ \A d \in Days : Counts(<<>>, file[d])
        /\ Counts(file[p], buf)
        /\ block > 0 => Has(file[p], block) \/ Has(buf, block)
        /\ Fresh => UpTo(file[p], block) /\ UpTo(buf, block)
    BY <1>5, <2>1 DEF Numbered
  <2>3. Counts(<<>>, g) /\ \A x : Has(g, x) <=> Has(file[p], x) \/ Has(buf, x)
    BY <1>2, <1>4, <2>1, <2>2, CountsJoined
  <2>4. ASSUME NEW d \in Days PROVE Counts(<<>>, file'[d])
    <3>1. CASE d = p
      BY <2>3, <3>1 DEF g
    <3>2. CASE d # p
      BY <1>3, <2>2, <3>2
    <3> QED BY <3>1, <3>2
  <2>5. Fresh => UpTo(g, block)
    BY <1>8, <2>2 DEF UpTo
  <2> QED BY <2>2, <2>3, <2>4, <2>5
<1>12. Numbered'
  <2> SUFFICES ASSUME missed' = {}
               PROVE  /\ \A d \in Days : Counts(<<>>, file[d])'
                      /\ Counts(Current, buf)'
                      /\ (block > 0 => Has(Current, block))'
                      /\ (Fresh => UpTo(Current, block) /\ UpTo(buf, block))'
    BY DEF Numbered
  <2>1. \A d \in Days : Counts(<<>>, file[d])'
    BY <1>5, <1>11 DEF Counts
  <2>2. Counts(Current, buf)' /\ UpTo(buf, block)'
    BY <1>1 DEF Counts, UpTo
  <2>3. (block > 0 => Has(Current, block))'
    BY <1>1, <1>5, <1>11 DEF Has
  <2>4. Fresh' => UpTo(Current, block)'
    BY <1>1, <1>5, <1>11 DEF UpTo
  <2> QED BY <2>1, <2>2, <2>3, <2>4
<1> QED BY <1>7, <1>10, <1>12

-----------------------------------------------------------------------------
LEMMA FilesStep == FInv /\ [Next]_logVars => FInv'
<1> SUFFICES ASSUME FInv, [Next]_logVars PROVE FInv'
  OBVIOUS
<1>1. OInv'
  BY OrderStep DEF FInv
<1>2. CASE Writer
  BY <1>1, <1>2, KeptPausing, KeptRoll, KeptFormat, KeptAppend DEF Writer, FInv
<1>3. CASE (\E what \in What : Log(what)) \/ Shutdown \/ Cancel \/ Exit \/ Midnight
  BY <1>1, <1>3, KeptOutside DEF FInv
<1>4. CASE UNCHANGED logVars
  <2>1. UNCHANGED <<opts, day, logged, batch, buf, file, fileDay, block, missed, writer>>
    BY <1>4 DEF logVars, task, outside
  <2>2. Kept'
    BY <2>1, NumbersStay DEF FInv, Kept, NoneAhead, Dated, BufferUsed
  <2> QED BY <1>1, <2>2 DEF FInv
<1> QED BY <1>2, <1>3, <1>4 DEF Next

LEMMA FilesReadable == FInv => FilesInOrder
<1> SUFFICES ASSUME FInv PROVE FilesInOrder
  OBVIOUS
<1>1. LinesInOrder
  BY OrderSuffices DEF FInv
<1>2. NoLineInThePast
  <2> SUFFICES ASSUME opts.daily, opts.dated, NEW d \in Days, NEW x \in LinesOf(d)
               PROVE  logged[x.no].day <= d
    BY DEF NoLineInThePast
  <2>1. PICK i \in DOMAIN file[d] : x = file[d][i]
    BY DEF LinesOf
  <2>2. x.no \in DOMAIN logged /\ OnTime(logged, file[d], d)
    BY <2>1 DEF FInv, OInv, Kept, Dated, LinesKnown, OfLog
  <2> QED BY <2>1, <2>2 DEF OnTime
<1>3. BlocksNumbered
  <2> SUFFICES ASSUME missed = {}, NEW d \in Days, NEW i \in DOMAIN file[d],
                      file[d][i].block > 1
               PROVE  /\ file[d][i].block - 1 \in {file[d][j].block : j \in 1 .. i - 1}
                      /\ opts.dated \/ ~ opts.daily =>
                           file[d][i].block \notin {file[d][j].block : j \in 1 .. i - 1}
    BY DEF BlocksNumbered
  <2>1. Counts(<<>>, file[d])
    BY DEF FInv, Kept, Numbered
  <2>2. file[d] \in Seq(Lines)
    BY DEF FInv, OInv, IInv, TypeInv
  <2>3. /\ \A j \in DOMAIN file[d] : j < i => j \in 1 .. i - 1
        /\ \A j \in 1 .. i - 1 : j \in DOMAIN file[d] /\ j < i
    BY <2>2
  <2>4. ~ Has(<<>>, file[d][i].block - 1)
    BY DEF Has
  <2>5. /\ \E j \in DOMAIN file[d] : j < i /\ file[d][j].block = file[d][i].block - 1
        /\ Fresh => \A j \in DOMAIN file[d] : j < i => file[d][j].block # file[d][i].block
    BY <2>1, <2>4 DEF Counts
  <2> QED BY <2>3, <2>5 DEF Fresh
<1> QED BY <1>1, <1>2, <1>3 DEF FilesInOrder

(***************************************************************************)
(* A logger's files can be read as one log, for every number of entries and  *)
(* days: lines in order, none filed under a day that was over, and blocks     *)
(* numbered in each file when nothing was lost.                              *)
(***************************************************************************)
THEOREM FilesStandInOrder == Spec => []FilesInOrder
<1>1. Init => FInv
  BY KeptInitially
<1>2. FInv /\ [Next]_logVars => FInv'
  BY FilesStep
<1>3. FInv => FilesInOrder
  BY FilesReadable
<1> QED BY <1>1, <1>2, <1>3, PTL DEF Spec
=============================================================================
