------------------------- MODULE ReadDirectoryProofs -------------------------
(***************************************************************************)
(* Theorems of the Windows back end, for any folders, any number of events, *)
(* any size of the buffer, with and without the extended call.              *)
(***************************************************************************)
EXTENDS ReadDirectoryProperties, SequenceTheorems, TLAPS

Types ==
  /\ handle \in [Dirs -> {"none", "open", "closed", "freed"}]
  /\ sem \in [Dirs -> Nat]
  /\ io \in [Dirs -> Reads]
  /\ target \in Dirs \cup {NoDir}
  /\ watches \in SUBSET Dirs
  /\ toStop \in SUBSET Dirs
  /\ actions \in Seq(Action)
  /\ owner \in Dirs \cup {"idle", "gone"}
  /\ server \in Servers
  /\ stopped \in BOOLEAN

\* What can still be stopped is open, and what stop_watch waits for is not.
Stops ==
  /\ ~ stopped => toStop = {} /\ \A d \in watches : handle[d] = "open"
  /\ \A d \in toStop : handle[d] = "open"
  /\ stopped => server \in {"stopping", "ended"}
  /\ target # NoDir => server = "stopping" /\ handle[target] = "closed"

\* A request to watch is in the channel only while its owner waits for the
\* answer, and nothing was opened for it yet.
Pending(i) ==
  actions[i].op = "watch" =>
    /\ actions[i].dir = owner /\ owner \in Dirs
    /\ handle[owner] = "none"

Alone(i, j) ==
  actions[i].op = "watch" /\ actions[j].op = "watch" => i = j

Queue ==
  /\ \A i \in 1 .. Len(actions) : Pending(i)
  /\ \A i, j \in 1 .. Len(actions) : Alone(i, j)
  /\ owner \in Dirs => owner \in asked
  /\ \A d \in Dirs : d \notin asked => handle[d] = "none"

Inv == Types /\ Stops /\ Queue /\ OneToken

-----------------------------------------------------------------------------
\* A read is started, or its semaphore is released: one or the other.
LEMMA StartReadGives ==
  ASSUME Types, NEW d \in Dirs, NEW x, NEW open,
         sem[d] = 0, StartRead(d, x, open)
  PROVE  /\ io' \in [Dirs -> Reads] /\ sem' \in [Dirs -> Nat]
         /\ \A e \in Dirs \ {d} : io'[e] = io[e] /\ sem'[e] = sem[e]
         /\ \/ io'[d] = "none" /\ sem'[d] = 1
            \/ io'[d] # "none" /\ sem'[d] = 0
PROOF
<1> USE DEF Types, Reads
<1>1. CASE ReadEnds(d)
  BY <1>1 DEF ReadEnds, ReadIs
<1>2. CASE ReadIs(d, "pending", TRUE, TRUE) /\ UNCHANGED sem
  BY <1>2 DEF ReadIs
<1>3. CASE ReadIs(d, "pending", FALSE, FALSE) /\ UNCHANGED sem
  BY <1>3 DEF ReadIs
<1> QED BY <1>1, <1>2, <1>3 DEF StartRead

\* The read of one folder ends.
LEMMA ReadEndsGives ==
  ASSUME Types, NEW d \in Dirs, sem[d] = 0, ReadEnds(d)
  PROVE  /\ io' \in [Dirs -> Reads] /\ sem' \in [Dirs -> Nat]
         /\ \A e \in Dirs \ {d} : io'[e] = io[e] /\ sem'[e] = sem[e]
         /\ io'[d] = "none" /\ sem'[d] = 1
BY DEF Types, Reads, ReadEnds, ReadIs

\* The channel keeps its shape when something other than a request to watch
\* is sent.
LEMMA QueuePost ==
  ASSUME Types, Queue, NEW new \in Action, new.op # "watch",
         actions' = Append(actions, new), handle' = handle, asked' = asked,
         owner \in Dirs \/ owner' \in Dirs => owner' = owner
  PROVE  actions' \in Seq(Action) /\ Queue'
PROOF
<1>2. /\ actions' \in Seq(Action)
      /\ Len(actions') = Len(actions) + 1
      /\ actions'[Len(actions) + 1] = new
      /\ \A i \in 1 .. Len(actions) : actions'[i] = actions[i]
  BY DEF Types
<1>3. Len(actions) \in Nat
  BY DEF Types
<1>4. \A i \in 1 .. Len(actions') :
        actions'[i].op = "watch" => i \in 1 .. Len(actions) /\ actions'[i] = actions[i]
  BY <1>2, <1>3
<1>5. ASSUME NEW i \in 1 .. Len(actions')  PROVE Pending(i)'
  <2> SUFFICES ASSUME actions'[i].op = "watch"
               PROVE  actions'[i].dir = owner' /\ owner' \in Dirs /\ handle'[owner'] = "none"
    BY DEF Pending
  <2>1. i \in 1 .. Len(actions) /\ actions'[i] = actions[i]
    BY <1>4
  <2>2. Pending(i)
    BY <2>1 DEF Queue
  <2>3. owner' = owner
    BY <2>1, <2>2, OwnerAssumption DEF Pending
  <2> QED BY <2>1, <2>2, <2>3 DEF Pending
<1>6. ASSUME NEW i \in 1 .. Len(actions'), NEW j \in 1 .. Len(actions')
      PROVE  Alone(i, j)'
  BY <1>4 DEF Queue, Alone
<1>7. owner' \in Dirs => owner' \in asked'
  BY OwnerAssumption DEF Queue
<1>8. \A e \in Dirs : e \notin asked' => handle'[e] = "none"
  BY DEF Queue
<1> QED BY <1>2, <1>5, <1>6, <1>7, <1>8 DEF Queue

\* The server takes an action: what remains of the channel.
LEMMA QueueTake ==
  ASSUME Types, Queue, actions # <<>>, actions' = Tail(actions)
  PROVE  /\ actions' \in Seq(Action)
         /\ Len(actions') = Len(actions) - 1
         /\ \A i \in 1 .. Len(actions') :
              i + 1 \in 1 .. Len(actions) /\ actions'[i] = actions[i + 1]
         /\ Head(actions) = actions[1] /\ actions[1] \in Action
         /\ 1 \in 1 .. Len(actions)
BY DEF Types

\* Nothing of the channel changes.
LEMMA QueueStays ==
  ASSUME Types, Queue, UNCHANGED <<actions, owner, asked>>,
         \A d \in Dirs : handle[d] = "none" => handle'[d] = "none"
  PROVE  Queue'
PROOF
<1>1. ASSUME NEW i \in 1 .. Len(actions)  PROVE Pending(i)'
  BY DEF Queue, Pending
<1>2. ASSUME NEW i \in 1 .. Len(actions), NEW j \in 1 .. Len(actions)
      PROVE  Alone(i, j)'
  BY DEF Queue, Alone
<1> QED BY <1>1, <1>2 DEF Queue

\* An action other than a request to watch is taken.
LEMMA QueueSkips ==
  ASSUME Types, Queue, actions # <<>>, actions' = Tail(actions),
         UNCHANGED <<owner, asked>>,
         \A d \in Dirs : handle[d] = "none" => handle'[d] = "none"
  PROVE  Queue'
PROOF
<1>0. Len(actions) \in Nat
  BY DEF Types
<1>1. ASSUME NEW i \in 1 .. Len(actions')  PROVE Pending(i)'
  <2>1. i + 1 \in 1 .. Len(actions) /\ actions'[i] = actions[i + 1]
    BY QueueTake
  <2>2. Pending(i + 1)
    BY <2>1 DEF Queue
  <2> QED BY <2>1, <2>2 DEF Pending
<1>2. ASSUME NEW i \in 1 .. Len(actions'), NEW j \in 1 .. Len(actions')
      PROVE  Alone(i, j)'
  <2>1. /\ i + 1 \in 1 .. Len(actions) /\ actions'[i] = actions[i + 1]
        /\ j + 1 \in 1 .. Len(actions) /\ actions'[j] = actions[j + 1]
    BY QueueTake
  <2>2. Alone(i + 1, j + 1)
    BY <2>1 DEF Queue
  <2>3. i \in Nat /\ j \in Nat
    BY <1>0, QueueTake
  <2> QED BY <2>1, <2>2, <2>3 DEF Alone
<1> QED BY <1>1, <1>2 DEF Queue

-----------------------------------------------------------------------------
\* Everything the invariant speaks of.
invVars == <<handle, sem, io, target, watches, toStop, actions, owner, server,
             stopped, asked>>

LEMMA StutterInv == ASSUME Inv, UNCHANGED invVars  PROVE Inv'
BY DEF Inv, Types, Stops, Queue, Pending, Alone, OneToken, invVars

\* The kernel may complete a read that is under way, and nothing else of it.
LEMMA KernelInv == ASSUME Inv, Kernel  PROVE Inv'
PROOF
<1>1. /\ UNCHANGED <<handle, sem, target, watches, toStop, actions, owner,
                     server, stopped, asked>>
      /\ io' \in [Dirs -> Reads]
      /\ \A d \in Dirs : io'[d] = "none" <=> io[d] = "none"
  <2> USE DEF Inv, Types, Reads, Completed
  <2>1. ASSUME NEW d \in Dirs, Happens(d)  PROVE <1>1
    BY <2>1 DEF Happens, state, thread, client
  <2>2. ASSUME NEW d \in Dirs, Completes(d)  PROVE <1>1
    BY <2>2 DEF Completes, state, thread, client
  <2>3. ASSUME NEW d \in Dirs, Fails(d)  PROVE <1>1
    BY <2>3 DEF Fails, state, thread, client
  <2> QED BY <2>1, <2>2, <2>3 DEF Kernel
<1>2. Types' /\ Stops'
  BY <1>1 DEF Inv, Types, Stops
<1>3. Queue'
  BY <1>1, QueueStays DEF Inv
<1>4. OneToken'
  BY <1>1 DEF Inv, OneToken
<1> QED BY <1>2, <1>3, <1>4 DEF Inv

LEMMA OwnerInv == ASSUME Inv, Owner  PROVE Inv'
PROOF
<1>1. ASSUME NEW d \in Dirs, AskWatch(d)  PROVE Inv'
  <2>1. CASE UNCHANGED <<owner, actions>>
    <3>1. UNCHANGED <<handle, sem, io, target, watches, toStop, actions, owner,
                      server, stopped>> /\ asked' = asked \cup {d}
      BY <1>1, <2>1 DEF AskWatch, reads, state, thread
    <3>2. Queue'
      BY <3>1 DEF Inv, Queue, Pending, Alone
    <3>3. Types' /\ Stops' /\ OneToken'
      BY <3>1 DEF Inv, Types, Stops, OneToken
    <3> QED BY <3>2, <3>3 DEF Inv
  <2>2. CASE owner' = d /\ Post("watch", d)
    <3> DEFINE new == [op |-> "watch", dir |-> d]
    <3>1. /\ UNCHANGED <<handle, sem, io, target, watches, toStop, server, stopped>>
          /\ asked' = asked \cup {d} /\ owner = "idle" /\ d \notin asked
          /\ actions' = Append(actions, new)
      BY <1>1, <2>2 DEF AskWatch, reads, state, thread, Post
    <3>2. new \in Action /\ new.op = "watch" /\ new.dir = d
      BY DEF Action
    <3> HIDE DEF new
    <3>3. /\ actions' \in Seq(Action) /\ Len(actions') = Len(actions) + 1
          /\ Len(actions) \in Nat
          /\ actions'[Len(actions) + 1] = new
          /\ \A i \in 1 .. Len(actions) : actions'[i] = actions[i]
      BY <3>1, <3>2 DEF Inv, Types
    <3>4. \A i \in 1 .. Len(actions) : actions[i].op # "watch"
      BY <3>1, OwnerAssumption DEF Inv, Queue, Pending
    <3>5. \A i \in 1 .. Len(actions') :
            actions'[i].op = "watch" => i = Len(actions) + 1 /\ actions'[i] = new
      BY <3>3, <3>4
    <3>6. handle'[d] = "none"
      BY <3>1 DEF Inv, Queue
    <3>7. \A i \in 1 .. Len(actions') : Pending(i)'
      BY <2>2, <3>2, <3>5, <3>6 DEF Pending
    <3>8. \A i, j \in 1 .. Len(actions') : Alone(i, j)'
      BY <3>5 DEF Alone
    <3>9. Queue'
      BY <3>7, <3>8, <3>1, <2>2 DEF Inv, Queue
    <3>10. Types' /\ Stops' /\ OneToken'
      BY <3>1, <3>3, <2>2 DEF Inv, Types, Stops, OneToken
    <3> QED BY <3>9, <3>10 DEF Inv
  <2> QED BY <1>1, <2>1, <2>2 DEF AskWatch
<1>2. ASSUME NEW d \in Dirs, AskUnwatch(d)  PROVE Inv'
  <2>1. UNCHANGED <<handle, sem, io, target, watches, toStop, owner, asked,
                    server, stopped>> /\ Post("unwatch", d)
    BY <1>2 DEF AskUnwatch, reads, state, thread
  <2> DEFINE new == [op |-> "unwatch", dir |-> d]
  <2>2. new \in Action /\ new.op # "watch" /\ actions' = Append(actions, new)
    BY <2>1 DEF Action, Post
  <2> HIDE DEF new
  <2>3. /\ handle' = handle /\ asked' = asked
        /\ owner \in Dirs \/ owner' \in Dirs => owner' = owner
    BY <2>1
  <2>4. actions' \in Seq(Action) /\ Queue'
    BY <2>2, <2>3, QueuePost DEF Inv
  <2> QED BY <2>1, <2>4 DEF Inv, Types, Stops, OneToken
<1>3. CASE DropWatcher
  <2>1. UNCHANGED <<handle, sem, io, target, watches, toStop, asked,
                    server, stopped>> /\ Post("stop", NoDir)
        /\ owner = "idle" /\ owner' = "gone"
    BY <1>3 DEF DropWatcher, reads, state, thread
  <2> DEFINE new == [op |-> "stop", dir |-> NoDir]
  <2>2. new \in Action /\ new.op # "watch" /\ actions' = Append(actions, new)
    BY <2>1 DEF Action, Post
  <2> HIDE DEF new
  <2>3. /\ handle' = handle /\ asked' = asked
        /\ owner \in Dirs \/ owner' \in Dirs => owner' = owner
    BY <2>1, OwnerAssumption
  <2>4. actions' \in Seq(Action) /\ Queue'
    BY <2>2, <2>3, QueuePost DEF Inv
  <2> QED BY <2>1, <2>4 DEF Inv, Types, Stops, OneToken
<1> QED BY <1>1, <1>2, <1>3, OwnerAssumption DEF Owner

LEMMA TakeWatchInv == ASSUME Inv, TakeWatch  PROVE Inv'
PROOF
<1> DEFINE d == Head(actions).dir
<1>1. /\ server = "draining" /\ actions # <<>> /\ actions' = Tail(actions)
      /\ Head(actions).op = "watch" /\ owner' = "idle"
      /\ UNCHANGED <<target, toStop, server, stopped, asked>>
  BY DEF TakeWatch, Taking, Answer, thread
<1>2. actions' \in Seq(Action) /\ Head(actions) = actions[1] /\ 1 \in 1 .. Len(actions)
  BY <1>1, QueueTake DEF Inv
<1>3. d = owner /\ owner \in Dirs /\ handle[owner] = "none" /\ owner \in asked
  BY <1>1, <1>2 DEF Inv, Queue, Pending
<1>4. ~ stopped /\ toStop = {}
  BY <1>1 DEF Inv, Stops
<1>5. \A i \in 1 .. Len(actions') : actions'[i].op # "watch"
  <2>1. SUFFICES ASSUME NEW i \in 1 .. Len(actions'), actions'[i].op = "watch"
                 PROVE  FALSE
    OBVIOUS
  <2>2. i + 1 \in 1 .. Len(actions) /\ actions'[i] = actions[i + 1]
    BY <1>1, QueueTake DEF Inv
  <2>3. Alone(1, i + 1)
    BY <1>2, <2>2 DEF Inv, Queue
  <2>4. 1 = i + 1
    BY <1>1, <1>2, <2>1, <2>2, <2>3 DEF Alone
  <2>5. i \in Nat /\ i # 0
    OBVIOUS
  <2> QED BY <2>4, <2>5
<1> HIDE DEF d
<1>6. CASE UNCHANGED <<state, reads>>
  <2>1. UNCHANGED <<handle, sem, watches, io>>
    BY <1>6 DEF state, reads
  <2>2. Queue'
    BY <1>1, <1>5, <2>1, OwnerAssumption DEF Inv, Queue, Pending, Alone
  <2>3. Types' /\ Stops' /\ OneToken'
    BY <1>1, <1>2, <2>1 DEF Inv, Types, Stops, OneToken
  <2> QED BY <2>2, <2>3 DEF Inv
<1>7. CASE /\ handle' = [handle EXCEPT ![d] = "open"]
           /\ watches' = watches \cup {d}
           /\ StartRead(d, Extended, TRUE)
  <2>1. sem[d] = 0 /\ d \in Dirs /\ d \in asked /\ handle[d] = "none"
    BY <1>3 DEF Inv, OneToken
  <2>2. /\ io' \in [Dirs -> Reads] /\ sem' \in [Dirs -> Nat]
        /\ \A e \in Dirs \ {d} : io'[e] = io[e] /\ sem'[e] = sem[e]
        /\ \/ io'[d] = "none" /\ sem'[d] = 1
           \/ io'[d] # "none" /\ sem'[d] = 0
    BY <1>7, <2>1, StartReadGives DEF Inv
  <2>3. /\ handle' \in [Dirs -> {"none", "open", "closed", "freed"}]
        /\ handle'[d] = "open" /\ \A e \in Dirs \ {d} : handle'[e] = handle[e]
    BY <1>7, <2>1 DEF Inv, Types
  <2>4. Types'
    BY <1>1, <1>2, <1>7, <2>1, <2>2, <2>3 DEF Inv, Types
  <2>5. Stops'
    BY <1>1, <1>4, <1>7, <2>1, <2>3 DEF Inv, Stops, Types
  <2>6. Queue'
    BY <1>1, <1>5, <2>1, <2>3, OwnerAssumption DEF Inv, Queue, Pending, Alone
  <2>7. OneToken'
    BY <2>2, <2>3 DEF Inv, OneToken
  <2> QED BY <2>4, <2>5, <2>6, <2>7 DEF Inv
<1> QED BY <1>6, <1>7 DEF TakeWatch, d

\* stop_watch begins with an open folder.
LEMMA StoppingGives ==
  ASSUME Types, OneToken, NEW d \in Dirs, handle[d] = "open",
         Stopping(d), UNCHANGED sem
  PROVE  /\ io' \in [Dirs -> Reads]
         /\ handle' \in [Dirs -> {"none", "open", "closed", "freed"}]
         /\ handle'[d] = "closed" /\ \A e \in Dirs \ {d} : handle'[e] = handle[e]
         /\ OneToken'
PROOF
<1>1. /\ io' \in [Dirs -> Reads]
      /\ \A e \in Dirs : io'[e] = "none" <=> io[e] = "none"
  BY DEF Stopping, Types, Reads, Completed
<1>2. /\ handle' \in [Dirs -> {"none", "open", "closed", "freed"}]
      /\ handle'[d] = "closed" /\ \A e \in Dirs \ {d} : handle'[e] = handle[e]
  BY DEF Stopping, Types
<1>3. OneToken'
  BY <1>1, <1>2 DEF OneToken
<1> QED BY <1>1, <1>2, <1>3

LEMMA TakeUnwatchInv == ASSUME Inv, TakeUnwatch  PROVE Inv'
PROOF
<1> DEFINE d == Head(actions).dir
<1>1. /\ server = "draining" /\ actions # <<>> /\ actions' = Tail(actions)
      /\ UNCHANGED <<sem, toStop, stopped, owner, asked>>
      /\ watches' = watches \ {d}
  BY DEF TakeUnwatch, Taking, client
<1>2. actions' \in Seq(Action)
  BY <1>1, QueueTake DEF Inv
<1>3. ~ stopped /\ toStop = {} /\ target = NoDir
  BY <1>1 DEF Inv, Stops
<1>4. CASE d \notin watches
  <2>1. UNCHANGED <<io, handle, target, server>>
    BY <1>4 DEF TakeUnwatch
  <2>2. Queue'
    BY <1>1, <2>1, QueueSkips DEF Inv
  <2>3. Types' /\ Stops' /\ OneToken'
    BY <1>1, <1>2, <2>1 DEF Inv, Types, Stops, OneToken
  <2> QED BY <2>2, <2>3 DEF Inv
<1>5. CASE d \in watches
  <2>1. Stopping(d) /\ d \in Dirs /\ handle[d] = "open"
    BY <1>3, <1>5 DEF TakeUnwatch, Inv, Types, Stops
  <2> HIDE DEF d
  <2>2. /\ io' \in [Dirs -> Reads]
        /\ handle' \in [Dirs -> {"none", "open", "closed", "freed"}]
        /\ handle'[d] = "closed" /\ \A e \in Dirs \ {d} : handle'[e] = handle[e]
        /\ OneToken'
    BY <1>1, <2>1, StoppingGives DEF Inv
  <2>3. target' = d /\ server' = "stopping"
    BY <2>1 DEF Stopping
  <2>4. Types'
    BY <1>1, <1>2, <2>1, <2>2, <2>3 DEF Inv, Types, Servers
  <2>5. Stops'
    BY <1>1, <1>3, <2>2, <2>3 DEF Inv, Stops, Types
  <2>6. \A e \in Dirs : handle[e] = "none" => handle'[e] = "none"
    BY <2>1, <2>2
  <2>7. Queue'
    BY <1>1, <2>6, QueueSkips DEF Inv
  <2> QED BY <2>2, <2>4, <2>5, <2>7 DEF Inv
<1> QED BY <1>4, <1>5

LEMMA StopInv ==
  ASSUME Inv, TakeStop \/ StopEnds \/ \E d \in Dirs : StopNext(d)  PROVE Inv'
PROOF
<1>1. CASE TakeStop
  <2>1. /\ server = "draining" /\ actions # <<>> /\ actions' = Tail(actions)
        /\ UNCHANGED <<handle, sem, io, target, watches, owner, asked>>
        /\ stopped' = TRUE /\ toStop' = watches /\ server' = "stopping"
    BY <1>1 DEF TakeStop, Taking, state, reads, client
  <2>2. Queue'
    BY <2>1, QueueSkips DEF Inv
  <2>3. actions' \in Seq(Action)
    BY <2>1, QueueTake DEF Inv
  <2>4. Types' /\ Stops' /\ OneToken'
    BY <2>1, <2>3 DEF Inv, Types, Stops, OneToken, Servers
  <2> QED BY <2>2, <2>4 DEF Inv
<1>2. CASE StopEnds
  <2>1. /\ UNCHANGED <<io, watches, toStop, actions, stopped, owner, asked>>
        /\ target \in Dirs /\ handle[target] = "closed" /\ target' = NoDir
        /\ sem[target] = 1 /\ io[target] = "none"
        /\ sem' = [sem EXCEPT ![target] = @ - 1]
        /\ handle' = [handle EXCEPT ![target] = "freed"]
        /\ server' = IF stopped THEN "stopping" ELSE "draining"
    BY <1>2 DEF StopEnds, Inv, Types, Stops, OneToken, reads, client
  <2>2. /\ handle' \in [Dirs -> {"none", "open", "closed", "freed"}]
        /\ handle'[target] = "freed"
        /\ \A e \in Dirs \ {target} : handle'[e] = handle[e]
        /\ sem' \in [Dirs -> Nat] /\ sem'[target] = 0
        /\ \A e \in Dirs \ {target} : sem'[e] = sem[e]
    BY <2>1 DEF Inv, Types
  <2>3. Types'
    BY <2>1, <2>2 DEF Inv, Types, Servers
  <2>4. Stops'
    BY <2>1, <2>2 DEF Inv, Types, Stops
  <2>5. \A e \in Dirs : handle[e] = "none" => handle'[e] = "none"
    BY <2>1, <2>2
  <2>6. Queue'
    BY <2>1, <2>5, QueueStays DEF Inv
  <2>7. OneToken'
    BY <2>1, <2>2 DEF Inv, OneToken
  <2> QED BY <2>3, <2>4, <2>6, <2>7 DEF Inv
<1>3. ASSUME NEW d \in Dirs, StopNext(d)  PROVE Inv'
  <2>1. /\ UNCHANGED <<sem, watches, actions, stopped, owner, asked>>
        /\ server = "stopping" /\ d \in toStop /\ toStop' = toStop \ {d}
        /\ handle[d] = "open" /\ stopped /\ target' = d /\ server' = "stopping"
        /\ Stopping(d)
    BY <1>3 DEF StopNext, Stopping, Inv, Stops, client
  <2>2. /\ io' \in [Dirs -> Reads]
        /\ handle' \in [Dirs -> {"none", "open", "closed", "freed"}]
        /\ handle'[d] = "closed" /\ \A e \in Dirs \ {d} : handle'[e] = handle[e]
        /\ OneToken'
    BY <2>1, StoppingGives DEF Inv
  <2>3. Types'
    BY <2>1, <2>2 DEF Inv, Types, Servers
  <2>4. Stops'
    BY <2>1, <2>2 DEF Inv, Types, Stops
  <2>5. \A e \in Dirs : handle[e] = "none" => handle'[e] = "none"
    BY <2>1, <2>2
  <2>6. Queue'
    BY <2>1, <2>5, QueueStays DEF Inv
  <2> QED BY <2>2, <2>3, <2>4, <2>6 DEF Inv
<1> QED BY <1>1, <1>2, <1>3

LEMMA HandleEventInv ==
  ASSUME Inv, NEW d \in Dirs, HandleEvent(d)  PROVE Inv'
PROOF
<1>1. UNCHANGED <<handle, target, watches, toStop, owner, asked, server, stopped>>
  BY DEF HandleEvent, thread, client
<1>2. io[d] # "none" /\ sem[d] = 0 /\ handle[d] \in {"open", "closed"}
  <2>1. io[d] # "none"
    BY DEF HandleEvent
  <2> QED BY <2>1 DEF Inv, OneToken, Types
<1>3. /\ io' \in [Dirs -> Reads] /\ sem' \in [Dirs -> Nat]
      /\ \A e \in Dirs \ {d} : io'[e] = io[e] /\ sem'[e] = sem[e]
      /\ \/ io'[d] = "none" /\ sem'[d] = 1
         \/ io'[d] # "none" /\ sem'[d] = 0
  <2>1. CASE ReadEnds(d)
    BY <1>2, <2>1, ReadEndsGives DEF Inv
  <2>2. CASE StartRead(d, extended[d], handle[d] = "open")
    BY <1>2, <2>2, StartReadGives DEF Inv
  <2> QED BY <2>1, <2>2 DEF HandleEvent
<1>4. OneToken'
  BY <1>1, <1>2, <1>3 DEF Inv, OneToken
<1>5. actions' \in Seq(Action) /\ Queue'
  <2>1. CASE UNCHANGED actions
    <3>1. actions' \in Seq(Action)
      BY <2>1 DEF Inv, Types
    <3>2. Queue'
      BY <1>1, <2>1, QueueStays DEF Inv
    <3> QED BY <3>1, <3>2
  <2>2. CASE Post("unwatch", d)
    <3> DEFINE new == [op |-> "unwatch", dir |-> d]
    <3>1. new \in Action /\ new.op # "watch" /\ actions' = Append(actions, new)
      BY <2>2 DEF Action, Post
    <3> HIDE DEF new
    <3>2. /\ handle' = handle /\ asked' = asked
          /\ owner \in Dirs \/ owner' \in Dirs => owner' = owner
      BY <1>1
    <3> QED BY <3>1, <3>2, QueuePost DEF Inv
  <2> QED BY <2>1, <2>2 DEF HandleEvent
<1> QED BY <1>1, <1>3, <1>4, <1>5 DEF Inv, Types, Stops

LEMMA WaitInv == ASSUME Inv, Drained \/ WaitEnds \/ ServerEnds  PROVE Inv'
PROOF
<1>1. /\ UNCHANGED <<handle, sem, io, target, watches, toStop, actions, owner,
                     stopped, asked>>
      /\ server' \in Servers
      /\ stopped => server' \in {"stopping", "ended"}
      /\ target # NoDir => server' = "stopping"
  BY DEF Drained, WaitEnds, ServerEnds, Inv, Stops, Servers, reads, state, client
<1>2. Queue'
  BY <1>1, QueueStays DEF Inv
<1> QED BY <1>1, <1>2 DEF Inv, Types, Stops, OneToken

LEMMA InitInv == Init => Inv
PROOF
<1> SUFFICES ASSUME Init  PROVE Inv
  OBVIOUS
<1>0. <<>> \in Seq(Action)
  OBVIOUS
<1>1. Types
  BY <1>0 DEF Init, Types, Reads, Servers
<1>2. Stops /\ OneToken
  BY DEF Init, Stops, OneToken
<1>3. actions = <<>> /\ owner = "idle" /\ \A d \in Dirs : handle[d] = "none"
  BY DEF Init
<1>4. Queue
  BY <1>3, OwnerAssumption DEF Queue
<1> QED BY <1>1, <1>2, <1>4 DEF Inv

LEMMA NextInv == Inv /\ [Next]_readVars => Inv'
PROOF
<1> SUFFICES ASSUME Inv, [Next]_readVars  PROVE Inv'
  OBVIOUS
<1>1. CASE UNCHANGED readVars
  BY <1>1, StutterInv DEF readVars, invVars, reads, state, thread, client
<1>2. CASE Emit \/ EmitEnds
  BY <1>2, StutterInv DEF Emit, EmitEnds, invVars, reads, state, thread, client
<1> QED BY <1>1, <1>2, KernelInv, OwnerInv, TakeWatchInv, TakeUnwatchInv, StopInv,
           HandleEventInv, WaitInv DEF Next, Server

-----------------------------------------------------------------------------
(***************************************************************************)
(* The inductive invariant: besides OneToken, that what can be stopped is   *)
(* open and that a folder is opened at most once.                           *)
(***************************************************************************)
THEOREM ReadsInvariant == Spec => []Inv
BY InitInv, NextInv, PTL DEF Spec

(***************************************************************************)
(* A watch that is not freed has a read under way or one signal of its      *)
(* semaphore, never both and never neither: what stop_watch waits for comes. *)
(***************************************************************************)
THEOREM EveryReadHasItsToken == Spec => []OneToken
PROOF
<1>1. Inv => OneToken
  BY DEF Inv
<1> QED BY <1>1, ReadsInvariant, PTL
-----------------------------------------------------------------------------
(***************************************************************************)
(* The stream of a folder: what the handler was given, what handle_event is *)
(* parsing, what a completed read holds and what the kernel buffers, one    *)
(* after the other.                                                         *)
(***************************************************************************)
InJob(d) == IF job.dir = d THEN job.rest ELSE <<>>

Jobs == [dir : Dirs \cup {NoDir}, rest : Seq(Nat), good : {TRUE}]

\* Only a read that succeeded holds events, and each request knows the layout
\* of its buffer.
StreamTypes ==
  /\ happened \in [Dirs -> Nat]
  /\ reported \in [Dirs -> Seq(Nat)]
  /\ kbuf \in [Dirs -> Seq(Nat)]
  /\ filled \in [Dirs -> Seq(Nat)]
  /\ lost \in [Dirs -> SUBSET Nat]
  /\ extended \in [Dirs -> BOOLEAN]
  /\ api = extended
  /\ job \in Jobs
  /\ job.dir = NoDir => job.rest = <<>>
  /\ \A d \in Dirs : io[d] # "success" => filled[d] = <<>>

\* A stream ascends and, with what was lost, is everything that happened.
Exact(all, gone, n) ==
  /\ \A i \in 1 .. Len(all) - 1 : all[i] < all[i + 1]
  /\ Numbers(all) \cup gone = 1 .. n

-----------------------------------------------------------------------------
LEMMA NumbersConcat ==
  ASSUME NEW s \in Seq(Nat), NEW t \in Seq(Nat)
  PROVE  Numbers(s \o t) = Numbers(s) \cup Numbers(t)
PROOF
<1>1. /\ s \o t \in Seq(Nat) /\ Len(s \o t) = Len(s) + Len(t)
      /\ \A i \in 1 .. Len(s) + Len(t) :
           (s \o t)[i] = IF i <= Len(s) THEN s[i] ELSE t[i - Len(s)]
  BY ConcatProperties
<1>2. /\ DOMAIN s = 1 .. Len(s) /\ Len(s) \in Nat
      /\ DOMAIN t = 1 .. Len(t) /\ Len(t) \in Nat
      /\ DOMAIN (s \o t) = 1 .. Len(s) + Len(t)
  BY <1>1, LenProperties
<1> DEFINE st == s \o t
<1> HIDE DEF st
<1>3. ASSUME NEW x \in Numbers(st)  PROVE x \in Numbers(s) \cup Numbers(t)
  <2>1. PICK i \in 1 .. Len(s) + Len(t) : x = st[i]
    BY <1>2, <1>3 DEF Numbers, st
  <2>2. CASE i <= Len(s)
    BY <1>1, <1>2, <2>1, <2>2 DEF Numbers, st
  <2>3. CASE ~ (i <= Len(s))
    <3>1. i - Len(s) \in 1 .. Len(t)
      BY <1>2, <2>3
    <3> QED BY <1>1, <1>2, <2>1, <2>3, <3>1 DEF Numbers, st
  <2> QED BY <2>2, <2>3
<1>4. ASSUME NEW x \in Numbers(s)  PROVE x \in Numbers(st)
  <2>1. PICK i \in 1 .. Len(s) : x = s[i]
    BY <1>2, <1>4 DEF Numbers
  <2>2. i \in 1 .. Len(s) + Len(t) /\ i <= Len(s)
    BY <1>2
  <2> QED BY <1>1, <1>2, <2>1, <2>2 DEF Numbers, st
<1>5. ASSUME NEW x \in Numbers(t)  PROVE x \in Numbers(st)
  <2>1. PICK i \in 1 .. Len(t) : x = t[i]
    BY <1>2, <1>5 DEF Numbers
  <2>2. /\ i + Len(s) \in 1 .. Len(s) + Len(t) /\ ~ (i + Len(s) <= Len(s))
        /\ (i + Len(s)) - Len(s) = i
    BY <1>2
  <2>3. st[i + Len(s)] = t[i]
    BY <1>1, <2>2 DEF st
  <2> QED BY <1>2, <2>1, <2>2, <2>3 DEF Numbers, st
<1> QED BY <1>3, <1>4, <1>5 DEF st

\* The next event comes to the end of the stream.
LEMMA ExactAppend ==
  ASSUME NEW s \in Seq(Nat), NEW gone, NEW n \in Nat, Exact(s, gone, n)
  PROVE  Exact(Append(s, n + 1), gone, n + 1)
PROOF
<1>1. Len(s) \in Nat /\ DOMAIN s = 1 .. Len(s)
  BY LenProperties
<1> DEFINE t == Append(s, n + 1)
<1>2. /\ t \in Seq(Nat) /\ Len(t) = Len(s) + 1
      /\ \A i \in 1 .. Len(s) : t[i] = s[i]
      /\ t[Len(s) + 1] = n + 1
      /\ DOMAIN t = 1 .. Len(s) + 1
  BY AppendProperties, LenProperties
<1> HIDE DEF t
<1>3. \A i \in 1 .. Len(s) : s[i] \in Numbers(s)
  BY <1>1 DEF Numbers
<1>4. \A i \in 1 .. Len(s) : s[i] \in 1 .. n
  BY <1>3 DEF Exact
<1>5. ASSUME NEW i \in 1 .. Len(t) - 1  PROVE t[i] < t[i + 1]
  <2>1. i \in 1 .. Len(s) /\ t[i] = s[i]
    BY <1>1, <1>2
  <2>2. CASE i = Len(s)
    <3>1. t[i + 1] = n + 1 /\ t[i] \in 1 .. n
      BY <1>2, <1>4, <2>1, <2>2
    <3> QED BY <3>1
  <2>3. CASE i # Len(s)
    <3>1. i \in 1 .. Len(s) - 1 /\ i + 1 \in 1 .. Len(s)
      <4>1. \A m \in Nat : \A j \in 1 .. m :
              j # m => j \in 1 .. m - 1 /\ j + 1 \in 1 .. m
        OBVIOUS
      <4> QED BY ONLY <1>1, <2>1, <2>3, <4>1, Zenon
    <3>2. t[i + 1] = s[i + 1] /\ s[i] < s[i + 1]
      BY <1>2, <3>1 DEF Exact
    <3> QED BY <2>1, <3>2
  <2> QED BY <2>2, <2>3
<1>6. Numbers(t) = Numbers(s) \cup {n + 1}
  <2>1. \A i \in 1 .. Len(s) + 1 : i \in 1 .. Len(s) \/ i = Len(s) + 1
    BY <1>1
  <2>2. \A i \in 1 .. Len(s) : i \in 1 .. Len(s) + 1
    BY <1>1
  <2>3. Len(s) + 1 \in 1 .. Len(s) + 1
    BY <1>1
  <2> QED BY <1>1, <1>2, <2>1, <2>2, <2>3 DEF Numbers
<1>7. 1 .. n + 1 = (1 .. n) \cup {n + 1}
  OBVIOUS
<1> QED BY <1>5, <1>6, <1>7 DEF Exact, t

\* An overflow takes the end of the stream away.
LEMMA ExactCut ==
  ASSUME NEW s \in Seq(Nat), NEW k \in Seq(Nat), NEW gone, NEW n \in Nat,
         Exact(s \o k, gone, n)
  PROVE  Exact(s, gone \cup Numbers(k) \cup {n + 1}, n + 1)
PROOF
<1>1. Len(s) \in Nat /\ Len(k) \in Nat
  BY LenProperties
<1>2. /\ Len(s \o k) = Len(s) + Len(k)
      /\ \A i \in 1 .. Len(s) + Len(k) : i <= Len(s) => (s \o k)[i] = s[i]
  BY ConcatProperties
<1>3. ASSUME NEW i \in 1 .. Len(s) - 1  PROVE s[i] < s[i + 1]
  <2>1. /\ i \in 1 .. Len(s \o k) - 1 /\ i \in 1 .. Len(s) + Len(k)
        /\ i + 1 \in 1 .. Len(s) + Len(k) /\ i <= Len(s) /\ i + 1 <= Len(s)
    BY <1>1, <1>2
  <2>2. (s \o k)[i] = s[i] /\ (s \o k)[i + 1] = s[i + 1]
    BY <1>2, <2>1
  <2> QED BY <2>1, <2>2 DEF Exact
<1>4. Numbers(s \o k) = Numbers(s) \cup Numbers(k)
  BY NumbersConcat
<1>5. 1 .. n + 1 = (1 .. n) \cup {n + 1}
  OBVIOUS
<1> QED BY <1>3, <1>4, <1>5 DEF Exact

-----------------------------------------------------------------------------
\* Concatenation and Append under names of their own: the provers read \o by
\* its definition and then no longer see that it is associative.
Cat(s, t) == s \o t

Then(s, x) == Append(s, x)

LEMMA CatType == ASSUME NEW s \in Seq(Nat), NEW t \in Seq(Nat)
                 PROVE  Cat(s, t) \in Seq(Nat)
BY ConcatProperties DEF Cat

LEMMA CatAssociative ==
  ASSUME NEW s \in Seq(Nat), NEW t \in Seq(Nat), NEW u \in Seq(Nat)
  PROVE  Cat(Cat(s, t), u) = Cat(s, Cat(t, u))
BY ConcatAssociative, SMTT(30) DEF Cat

LEMMA CatEmpty ==
  ASSUME NEW s \in Seq(Nat)  PROVE  Cat(s, <<>>) = s /\ Cat(<<>>, s) = s
BY ConcatEmptySeq DEF Cat

LEMMA AppendConcat ==
  ASSUME NEW s \in Seq(Nat), NEW x \in Nat
  PROVE  Append(s, x) \in Seq(Nat) /\ <<x>> \in Seq(Nat)
         /\ Append(s, x) = Cat(s, <<x>>)
PROOF
<1> DEFINE o == <<x>>
           a == Append(s, x)
<1>1. o \in Seq(Nat) /\ Len(o) = 1 /\ o[1] = x
  OBVIOUS
<1>2. /\ a \in Seq(Nat) /\ Len(a) = Len(s) + 1 /\ Len(s) \in Nat
      /\ \A i \in 1 .. Len(s) : a[i] = s[i]
      /\ a[Len(s) + 1] = x
  BY AppendProperties, LenProperties
<1> HIDE DEF o, a
<1>3. /\ s \o o \in Seq(Nat) /\ Len(s \o o) = Len(s) + Len(o)
      /\ \A i \in 1 .. Len(s) + Len(o) :
           (s \o o)[i] = IF i <= Len(s) THEN s[i] ELSE o[i - Len(s)]
  BY <1>1, ConcatProperties
<1>4. ASSUME NEW i \in 1 .. Len(a)  PROVE a[i] = (s \o o)[i]
  <2>1. CASE i <= Len(s)
    BY <1>1, <1>2, <1>3, <2>1
  <2>2. CASE ~ (i <= Len(s))
    <3>1. i = Len(s) + 1 /\ i - Len(s) = 1
      BY <1>2, <2>2
    <3> QED BY <1>1, <1>2, <1>3, <2>2, <3>1
  <2> QED BY <2>1, <2>2
<1>5. Len(a) = Len(s \o o)
  BY <1>1, <1>2, <1>3
<1>6. a = s \o o
  BY <1>2, <1>3, <1>4, <1>5, SeqEqual
<1> QED BY <1>1, <1>2, <1>6 DEF a, o, Cat

\* A stream in its four parts: reported, parsed, completed and buffered.
Parts(r, j, f, k) == Cat(r, Cat(Cat(j, f), k))

LEMMA PartsType ==
  ASSUME NEW r \in Seq(Nat), NEW j \in Seq(Nat), NEW f \in Seq(Nat),
         NEW k \in Seq(Nat)
  PROVE  /\ Parts(r, j, f, k) \in Seq(Nat)
         /\ Cat(r, Cat(j, f)) \in Seq(Nat)
         /\ Parts(r, j, f, k) = Cat(Cat(r, Cat(j, f)), k)
         /\ Parts(r, j, f, <<>>) = Cat(r, Cat(j, f))
BY CatType, CatAssociative, CatEmpty, SMTT(30) DEF Parts

\* What was completed is parsed; what was buffered is completed.
LEMMA PartsShift ==
  ASSUME NEW r \in Seq(Nat), NEW j \in Seq(Nat), NEW f \in Seq(Nat),
         NEW k \in Seq(Nat)
  PROVE  /\ Parts(r, <<>>, f, k) = Parts(r, f, <<>>, k)
         /\ Parts(r, j, <<>>, k) = Parts(r, j, k, <<>>)
BY CatType, CatEmpty DEF Parts

\* An event is buffered.
LEMMA PartsAppend ==
  ASSUME NEW r \in Seq(Nat), NEW j \in Seq(Nat), NEW f \in Seq(Nat),
         NEW k \in Seq(Nat), NEW x \in Nat
  PROVE  Parts(r, j, f, Then(k, x)) = Then(Parts(r, j, f, k), x)
PROOF
<1> DEFINE o == <<x>>
<1>1. o \in Seq(Nat) /\ Then(k, x) = Cat(k, o)
  BY AppendConcat DEF Then
<1>2. Parts(r, j, f, k) \in Seq(Nat)
  BY PartsType
<1>3. Then(Parts(r, j, f, k), x) = Cat(Parts(r, j, f, k), o)
  BY <1>2, AppendConcat DEF Then
<1> HIDE DEF o
<1>4. Parts(r, j, f, Cat(k, o)) = Cat(Parts(r, j, f, k), o)
  BY <1>1, CatType, CatAssociative DEF Parts
<1> QED BY <1>1, <1>3, <1>4, Zenon

\* An event is reported.
LEMMA PartsEmit ==
  ASSUME NEW r \in Seq(Nat), NEW j \in Seq(Nat), NEW f \in Seq(Nat),
         NEW k \in Seq(Nat), j # <<>>
  PROVE  Parts(Append(r, Head(j)), Tail(j), f, k) = Parts(r, j, f, k)
PROOF
<1>1. Head(j) \in Nat /\ Tail(j) \in Seq(Nat) /\ <<Head(j)>> \in Seq(Nat)
  BY HeadTailProperties
<1>2. j = Cat(<<Head(j)>>, Tail(j))
  <2> DEFINE h == <<Head(j)>>
             t == Tail(j)
  <2>1. /\ Len(t) = Len(j) - 1 /\ Len(j) \in Nat
        /\ \A i \in 1 .. Len(t) : t[i] = j[i + 1]
    BY HeadTailProperties
  <2>2. Len(h) = 1 /\ h[1] = j[1]
    OBVIOUS
  <2>3. h \in Seq(Nat) /\ t \in Seq(Nat)
    BY <1>1
  <2> HIDE DEF h, t
  <2>4. /\ h \o t \in Seq(Nat) /\ Len(h \o t) = Len(h) + Len(t)
        /\ \A i \in 1 .. Len(h) + Len(t) :
             (h \o t)[i] = IF i <= Len(h) THEN h[i] ELSE t[i - Len(h)]
    BY <2>3, ConcatProperties
  <2>5. Len(h \o t) = Len(j)
    BY <2>1, <2>2, <2>4
  <2>6. ASSUME NEW i \in 1 .. Len(j)  PROVE j[i] = (h \o t)[i]
    <3>1. CASE i = 1
      BY <2>1, <2>2, <2>4, <3>1
    <3>2. CASE i # 1
      <4>1. i - 1 \in 1 .. Len(t) /\ (i - 1) + 1 = i /\ ~ (i <= 1)
            /\ i \in 1 .. 1 + Len(t)
        BY <2>1, <3>2
      <4>2. (h \o t)[i] = t[i - 1]
        BY <2>2, <2>4, <4>1
      <4>3. t[i - 1] = j[(i - 1) + 1]
        BY <2>1, <4>1
      <4> QED BY <4>1, <4>2, <4>3
    <3> QED BY <3>1, <3>2
  <2>7. j = h \o t
    BY <2>4, <2>5, <2>6, SeqEqual
  <2> QED BY <2>7 DEF h, t, Cat
<1> DEFINE h == <<Head(j)>>
           t == Tail(j)
<1>3. h \in Seq(Nat) /\ t \in Seq(Nat) /\ j = Cat(h, t)
  BY <1>1, <1>2
<1>4. Append(r, Head(j)) = Cat(r, h)
  BY <1>1, AppendConcat
<1> HIDE DEF h, t
<1>5. Parts(Cat(r, h), t, f, k) = Parts(r, Cat(h, t), f, k)
  BY <1>3, CatType, CatAssociative DEF Parts
<1>9. Parts(Append(r, Head(j)), t, f, k) = Parts(r, j, f, k)
  BY <1>3, <1>4, <1>5, Zenon
<1> QED BY <1>9 DEF t

-----------------------------------------------------------------------------
Stream(d) == Parts(reported[d], InJob(d), filled[d], kbuf[d])

StreamInv ==
  StreamTypes /\ \A d \in Dirs : Exact(Stream(d), lost[d], happened[d])

LEMMA StreamIsASequence ==
  ASSUME StreamTypes, NEW d \in Dirs
  PROVE  /\ InJob(d) \in Seq(Nat) /\ reported[d] \in Seq(Nat)
         /\ filled[d] \in Seq(Nat) /\ kbuf[d] \in Seq(Nat)
         /\ Stream(d) \in Seq(Nat)
PROOF
<1>1. /\ InJob(d) \in Seq(Nat) /\ reported[d] \in Seq(Nat)
      /\ filled[d] \in Seq(Nat) /\ kbuf[d] \in Seq(Nat)
  BY DEF StreamTypes, InJob, Jobs
<1> QED BY <1>1, PartsType DEF Stream

\* An event is buffered, or an overflow drops it with the buffer.
LEMMA StreamHappens ==
  ASSUME StreamInv, NEW d \in Dirs, Happens(d)
  PROVE  StreamInv'
PROOF
<1>1. /\ UNCHANGED <<reported, filled, extended, api, job>>
      /\ happened' = [happened EXCEPT ![d] = @ + 1]
  BY DEF Happens
<1>2. \A e \in Dirs : InJob(e)' = InJob(e)
  BY <1>1 DEF InJob
<1>3. happened[d] \in Nat /\ happened[d] + 1 \in Nat
  BY DEF StreamInv, StreamTypes
<1>4. CASE Len(kbuf[d]) < BufferCap
  <2>1. /\ kbuf' = [kbuf EXCEPT ![d] = Append(@, happened[d] + 1)]
        /\ UNCHANGED <<lost, io>>
    BY <1>4 DEF Happens
  <2>2. kbuf[d] \in Seq(Nat) /\ Append(kbuf[d], happened[d] + 1) \in Seq(Nat)
    BY <1>3, StreamIsASequence DEF StreamInv
  <2>3. StreamTypes'
    BY <1>1, <1>3, <2>1, <2>2 DEF StreamInv, StreamTypes
  <2>4. ASSUME NEW e \in Dirs, e # d  PROVE Exact(Stream(e), lost[e], happened[e])'
    BY <1>1, <1>2, <2>1, <2>4 DEF StreamInv, StreamTypes, Stream
  <2>5. /\ kbuf'[d] = Append(kbuf[d], happened[d] + 1)
        /\ happened'[d] = happened[d] + 1
    BY <1>1, <2>1 DEF StreamInv, StreamTypes
  <2>6. Stream(d)' = Append(Stream(d), happened[d] + 1)
    <3>1. Stream(d)' = Parts(reported[d], InJob(d), filled[d],
                             Then(kbuf[d], happened[d] + 1))
      BY <1>1, <1>2, <2>5 DEF Stream, Then
    <3>2. /\ reported[d] \in Seq(Nat) /\ InJob(d) \in Seq(Nat)
          /\ filled[d] \in Seq(Nat) /\ kbuf[d] \in Seq(Nat)
      BY StreamIsASequence DEF StreamInv
    <3>3. Stream(d)' = Then(Stream(d), happened[d] + 1)
      BY <1>3, <3>1, <3>2, PartsAppend DEF Stream
    <3> QED BY <3>3 DEF Then
  <2>7. Exact(Stream(d), lost[d], happened[d])'
    BY <1>3, <2>1, <2>5, <2>6, StreamIsASequence, ExactAppend DEF StreamInv
  <2> QED BY <2>3, <2>4, <2>7 DEF StreamInv
<1>5. CASE ~ (Len(kbuf[d]) < BufferCap)
  <2>1. /\ kbuf' = [kbuf EXCEPT ![d] = <<>>]
        /\ lost' = [lost EXCEPT ![d] =
                      @ \cup Numbers(kbuf[d]) \cup {happened[d] + 1}]
        /\ io' = IF io[d] # "pending" THEN io
                 ELSE [io EXCEPT ![d] = "success"]
    BY <1>5 DEF Happens, Numbers
  <2>2. kbuf[d] \in Seq(Nat) /\ <<>> \in Seq(Nat)
    BY StreamIsASequence DEF StreamInv
  <2>3. Numbers(kbuf[d]) \in SUBSET Nat
    BY <2>2 DEF Numbers
  <2>4. lost' \in [Dirs -> SUBSET Nat] /\ kbuf' \in [Dirs -> Seq(Nat)]
    BY <1>3, <2>1, <2>2, <2>3 DEF StreamInv, StreamTypes
  <2>5. \A e \in Dirs : io'[e] # "success" => filled'[e] = <<>>
    BY <1>1, <2>1 DEF StreamInv, StreamTypes
  <2>6. StreamTypes'
    BY <1>1, <1>3, <2>4, <2>5 DEF StreamInv, StreamTypes
  <2>7. ASSUME NEW e \in Dirs, e # d  PROVE Exact(Stream(e), lost[e], happened[e])'
    BY <1>1, <1>2, <2>1, <2>7 DEF StreamInv, StreamTypes, Stream
  <2> DEFINE s == Cat(reported[d], Cat(InJob(d), filled[d]))
  <2>8. s \in Seq(Nat) /\ Stream(d) = Cat(s, kbuf[d]) /\ Stream(d)' = s
    <3>1. kbuf'[d] = <<>>
      BY <2>1 DEF StreamInv, StreamTypes
    <3> QED
      BY <1>1, <1>2, <3>1, StreamIsASequence, PartsType DEF StreamInv, Stream
  <2> HIDE DEF s
  <2>9. Exact(s \o kbuf[d], lost[d], happened[d])
    BY <2>8 DEF StreamInv, Cat
  <2>10. Exact(s, lost[d] \cup Numbers(kbuf[d]) \cup {happened[d] + 1},
               happened[d] + 1)
    BY <1>3, <2>2, <2>8, <2>9, ExactCut
  <2>11. /\ lost'[d] = lost[d] \cup Numbers(kbuf[d]) \cup {happened[d] + 1}
         /\ happened'[d] = happened[d] + 1
    BY <1>1, <2>1 DEF StreamInv, StreamTypes
  <2>12. Exact(Stream(d), lost[d], happened[d])'
    BY <2>8, <2>10, <2>11
  <2> QED BY <2>6, <2>7, <2>12 DEF StreamInv
<1> QED BY <1>4, <1>5

\* What is on its way moves on: nothing of the stream changes.
LEMMA StreamMoves ==
  ASSUME StreamInv, StreamTypes', UNCHANGED <<lost, happened>>,
         NEW d \in Dirs, Stream(d)' = Stream(d),
         \A e \in Dirs \ {d} : Stream(e)' = Stream(e)
  PROVE  StreamInv'
BY DEF StreamInv

LEMMA StreamCompletes ==
  ASSUME Types, StreamInv, NEW d \in Dirs, Completes(d)
  PROVE  StreamInv'
PROOF
<1>1. /\ UNCHANGED <<reported, happened, lost, extended, api, job>>
      /\ io[d] = "pending"
      /\ io'     = [io EXCEPT ![d] = "success"]
      /\ filled' = [filled EXCEPT ![d] = kbuf[d]]
      /\ kbuf'   = [kbuf EXCEPT ![d] = <<>>]
  BY DEF Completes
<1>2. \A e \in Dirs : InJob(e)' = InJob(e)
  BY <1>1 DEF InJob
<1>3. kbuf[d] \in Seq(Nat) /\ <<>> \in Seq(Nat)
  BY StreamIsASequence DEF StreamInv
<1>4. /\ filled' \in [Dirs -> Seq(Nat)] /\ kbuf' \in [Dirs -> Seq(Nat)]
      /\ filled'[d] = kbuf[d] /\ kbuf'[d] = <<>> /\ filled[d] = <<>>
      /\ \A e \in Dirs \ {d} : filled'[e] = filled[e] /\ kbuf'[e] = kbuf[e]
  BY <1>1, <1>3 DEF StreamInv, StreamTypes
<1>5. /\ io'[d] = "success"
      /\ \A e \in Dirs \ {d} : io'[e] = io[e]
  BY <1>1 DEF Types
<1>6. StreamTypes'
  BY <1>1, <1>4, <1>5 DEF StreamInv, StreamTypes
<1>7. \A e \in Dirs \ {d} : Stream(e)' = Stream(e)
  BY <1>1, <1>2, <1>4 DEF Stream
<1>8. Stream(d)' = Stream(d)
  <2>1. Stream(d)' = Parts(reported[d], InJob(d), kbuf[d], <<>>)
    BY <1>1, <1>2, <1>4 DEF Stream
  <2>2. Stream(d) = Parts(reported[d], InJob(d), <<>>, kbuf[d])
    BY <1>4 DEF Stream
  <2> QED BY <2>1, <2>2, StreamIsASequence, PartsShift DEF StreamInv
<1> QED BY <1>1, <1>6, <1>7, <1>8, StreamMoves

\* A read that ended or was aborted holds nothing, whatever becomes of it.
LEMMA StreamStays ==
  ASSUME StreamInv, UNCHANGED <<reported, happened, lost, kbuf, job, filled>>,
         extended' \in [Dirs -> BOOLEAN], api' = extended',
         \A e \in Dirs : io[e] = "success" => io'[e] = "success"
  PROVE  StreamInv'
PROOF
<1>1. StreamTypes'
  BY DEF StreamInv, StreamTypes
<1>2. \A e \in Dirs : Stream(e)' = Stream(e)
  BY DEF Stream, InJob
<1> QED BY <1>1, <1>2 DEF StreamInv

\* A read is started in its own layout, with an empty buffer.
LEMMA ReadIsGives ==
  ASSUME Types, StreamTypes, NEW d \in Dirs, NEW x, NEW open,
         StartRead(d, x, open) \/ ReadEnds(d)
  PROVE  /\ filled' \in [Dirs -> Seq(Nat)] /\ filled'[d] = <<>>
         /\ \A e \in Dirs \ {d} : filled'[e] = filled[e] /\ io'[e] = io[e]
         /\ extended' \in [Dirs -> BOOLEAN] /\ api' = extended'
PROOF
<1>1. <<>> \in Seq(Nat)
  OBVIOUS
<1>2. ASSUME NEW how \in {"none", "pending"}, NEW b \in BOOLEAN,
             ReadIs(d, how, b, b)
      PROVE  /\ filled' \in [Dirs -> Seq(Nat)] /\ filled'[d] = <<>>
             /\ \A e \in Dirs \ {d} : filled'[e] = filled[e] /\ io'[e] = io[e]
             /\ extended' \in [Dirs -> BOOLEAN] /\ api' = extended'
  BY <1>1, <1>2 DEF ReadIs, Types, StreamTypes
<1> QED BY <1>2 DEF StartRead, ReadEnds

LEMMA StreamTakeWatch ==
  ASSUME Inv, StreamInv, TakeWatch
  PROVE  StreamInv'
PROOF
<1> DEFINE d == Head(actions).dir
<1>1. UNCHANGED <<reported, happened, lost, kbuf, job>>
  BY DEF TakeWatch, kernel
<1>2. CASE UNCHANGED <<state, reads>>
  <2>1. UNCHANGED <<io, filled, extended, api>>
    BY <1>2 DEF reads
  <2> QED BY <1>1, <2>1, StreamStays DEF StreamInv, StreamTypes
<1>3. CASE StartRead(d, Extended, TRUE)
  <2>1. /\ actions # <<>> /\ Head(actions).op = "watch"
        /\ actions' = Tail(actions)
    BY DEF TakeWatch, Taking
  <2>2. d \in Dirs /\ handle[d] = "none"
    <3>1. Head(actions) = actions[1] /\ 1 \in 1 .. Len(actions)
      BY <2>1, QueueTake DEF Inv
    <3> QED BY <2>1, <3>1 DEF Inv, Queue, Pending
  <2> HIDE DEF d
  <2>3. filled[d] = <<>>
    BY <2>2 DEF Inv, OneToken, StreamInv, StreamTypes
  <2>4. /\ filled' \in [Dirs -> Seq(Nat)] /\ filled'[d] = <<>>
        /\ \A e \in Dirs \ {d} : filled'[e] = filled[e] /\ io'[e] = io[e]
        /\ extended' \in [Dirs -> BOOLEAN] /\ api' = extended'
    BY <1>3, <2>2, ReadIsGives DEF Inv, StreamInv
  <2>5. StreamTypes'
    BY <1>1, <2>4 DEF StreamInv, StreamTypes
  <2>6. \A e \in Dirs : Stream(e)' = Stream(e)
    BY <1>1, <2>3, <2>4 DEF Stream, InJob
  <2> QED BY <1>1, <2>5, <2>6 DEF StreamInv
<1> QED BY <1>2, <1>3 DEF TakeWatch

\* handle_event takes the buffer of the read, then starts the next.
LEMMA StreamHandleEvent ==
  ASSUME Inv, StreamInv, NEW d \in Dirs, HandleEvent(d)
  PROVE  StreamInv'
PROOF
<1>1. UNCHANGED <<reported, happened, lost, kbuf>> /\ job.dir = NoDir
  BY DEF HandleEvent, kernel, Alertable
<1>2. StartRead(d, extended[d], handle[d] = "open") \/ ReadEnds(d)
  BY DEF HandleEvent
<1>3. /\ filled' \in [Dirs -> Seq(Nat)] /\ filled'[d] = <<>>
      /\ \A e \in Dirs \ {d} : filled'[e] = filled[e] /\ io'[e] = io[e]
      /\ extended' \in [Dirs -> BOOLEAN] /\ api' = extended'
  BY <1>2, ReadIsGives DEF Inv, StreamInv
<1>4. \A e \in Dirs : InJob(e) = <<>>
  BY <1>1, NoDirAssumption DEF InJob
<1>5. CASE UNCHANGED job /\ io[d] # "success"
  <2>1. filled[d] = <<>>
    BY <1>5 DEF StreamInv, StreamTypes
  <2>2. StreamTypes'
    BY <1>1, <1>3, <1>5 DEF StreamInv, StreamTypes
  <2>3. \A e \in Dirs : Stream(e)' = Stream(e)
    BY <1>1, <1>3, <1>5, <2>1 DEF Stream, InJob
  <2> QED BY <1>1, <2>2, <2>3 DEF StreamInv
<1>6. CASE job' = [dir |-> d, rest |-> filled[d], good |-> extended[d] = api[d]]
  <2>1. filled[d] \in Seq(Nat) /\ extended[d] = api[d]
    BY DEF StreamInv, StreamTypes
  <2>2. job' = [dir |-> d, rest |-> filled[d], good |-> TRUE]
    BY <1>6, <2>1
  <2>3. job' \in Jobs /\ job'.dir = d /\ job'.rest = filled[d]
    BY <2>1, <2>2 DEF Jobs
  <2>4. StreamTypes'
    BY <1>1, <1>3, <2>3, NoDirAssumption DEF StreamInv, StreamTypes
  <2>5. InJob(d)' = filled[d] /\ \A e \in Dirs \ {d} : InJob(e)' = <<>>
    BY <2>3 DEF InJob
  <2>6. \A e \in Dirs \ {d} : Stream(e)' = Stream(e)
    BY <1>1, <1>3, <1>4, <2>5 DEF Stream
  <2>7. Stream(d)' = Stream(d)
    <3>1. Stream(d)' = Parts(reported[d], filled[d], <<>>, kbuf[d])
      BY <1>1, <1>3, <2>5 DEF Stream
    <3>2. Stream(d) = Parts(reported[d], <<>>, filled[d], kbuf[d])
      BY <1>4 DEF Stream
    <3> QED BY <3>1, <3>2, StreamIsASequence, PartsShift DEF StreamInv
  <2> QED BY <1>1, <2>4, <2>6, <2>7, StreamMoves
<1> QED BY <1>5, <1>6 DEF HandleEvent

LEMMA StreamEmit ==
  ASSUME StreamInv, Emit
  PROVE  StreamInv'
PROOF
<1>0. PICK d \in Dirs : d = job.dir
  BY DEF Emit, StreamInv, StreamTypes, Jobs
<1>1. /\ UNCHANGED <<happened, lost, kbuf, filled, io, extended, api>>
      /\ job.rest # <<>> /\ job.good
      /\ reported' = [reported EXCEPT ![d] = Append(@, Head(job.rest))]
      /\ job' = [job EXCEPT !.rest = Tail(@)]
  BY <1>0 DEF Emit, kernel, reads, StreamInv, StreamTypes, Jobs
<1>2. job \in Jobs
  BY DEF StreamInv, StreamTypes, Jobs
<1>3. /\ job'.dir = d /\ job'.rest = Tail(job.rest) /\ job.rest \in Seq(Nat)
      /\ job'.good = job.good
  BY <1>0, <1>1, <1>2 DEF Jobs
<1>4. Head(job.rest) \in Nat /\ Tail(job.rest) \in Seq(Nat)
  BY <1>1, <1>3, HeadTailProperties
<1>5. job' \in Jobs
  BY <1>1, <1>2, <1>4 DEF Jobs
<1>6. reported[d] \in Seq(Nat) /\ Append(reported[d], Head(job.rest)) \in Seq(Nat)
  BY <1>2, <1>4, StreamIsASequence DEF StreamInv
<1>7. /\ reported' \in [Dirs -> Seq(Nat)]
      /\ reported'[d] = Append(reported[d], Head(job.rest))
      /\ \A e \in Dirs \ {d} : reported'[e] = reported[e]
  BY <1>1, <1>2, <1>6 DEF StreamInv, StreamTypes
<1>8. StreamTypes'
  BY <1>1, <1>2, <1>3, <1>5, <1>7, <1>0, NoDirAssumption DEF StreamInv, StreamTypes
<1>9. /\ InJob(d) = job.rest /\ InJob(d)' = Tail(job.rest)
      /\ \A e \in Dirs \ {d} : InJob(e)' = InJob(e)
  BY <1>0, <1>3 DEF InJob
<1>10. \A e \in Dirs \ {d} : Stream(e)' = Stream(e)
  BY <1>1, <1>7, <1>9 DEF Stream
<1>11. Stream(d)' = Stream(d)
  <2>1. Stream(d)' = Parts(Append(reported[d], Head(job.rest)), Tail(job.rest),
                           filled[d], kbuf[d])
    BY <1>1, <1>7, <1>9 DEF Stream
  <2>2. Stream(d) = Parts(reported[d], job.rest, filled[d], kbuf[d])
    BY <1>9 DEF Stream
  <2>3. /\ reported[d] \in Seq(Nat) /\ job.rest \in Seq(Nat)
        /\ filled[d] \in Seq(Nat) /\ kbuf[d] \in Seq(Nat)
    BY <1>3, StreamIsASequence DEF StreamInv
  <2> QED BY <1>1, <2>1, <2>2, <2>3, PartsEmit
<1> QED BY <1>1, <1>8, <1>10, <1>11, StreamMoves

LEMMA StreamEmitEnds ==
  ASSUME StreamInv, EmitEnds
  PROVE  StreamInv'
PROOF
<1>1. /\ UNCHANGED <<happened, lost, kbuf, filled, io, extended, api, reported>>
      /\ job.rest = <<>> /\ job' = NoJob
  BY DEF EmitEnds, kernel, reads
<1>2. <<>> \in Seq(Nat)
  OBVIOUS
<1>3. job' \in Jobs /\ job'.dir = NoDir /\ job'.rest = <<>>
  BY <1>1, <1>2 DEF NoJob, Jobs
<1>4. StreamTypes'
  BY <1>1, <1>3 DEF StreamInv, StreamTypes
<1>5. \A e \in Dirs : InJob(e)' = InJob(e)
  BY <1>1, <1>3 DEF InJob
<1>6. \A e \in Dirs : Stream(e)' = Stream(e)
  BY <1>1, <1>5 DEF Stream
<1> QED BY <1>1, <1>4, <1>6 DEF StreamInv

\* The steps that take nothing from the stream and add nothing to it.
LEMMA StreamOthers ==
  ASSUME Inv, StreamInv,
         \/ UNCHANGED readVars
         \/ Owner \/ TakeUnwatch \/ TakeStop \/ Drained \/ WaitEnds
         \/ StopEnds \/ ServerEnds
         \/ \E d \in Dirs : Fails(d) \/ StopNext(d)
  PROVE  StreamInv'
PROOF
<1>1. UNCHANGED <<reported, happened, lost, kbuf, job, filled, extended, api>>
  <2> USE DEF kernel, reads
  <2>1. CASE Owner \/ UNCHANGED readVars
    BY <2>1 DEF Owner, AskWatch, AskUnwatch, DropWatcher, readVars
  <2>2. CASE TakeUnwatch \/ TakeStop \/ Drained \/ WaitEnds \/ StopEnds
             \/ ServerEnds
    BY <2>2 DEF TakeUnwatch, TakeStop, Drained, WaitEnds, StopEnds, ServerEnds
  <2>3. CASE \E d \in Dirs : Fails(d) \/ StopNext(d)
    BY <2>3 DEF Fails, StopNext
  <2> QED BY <2>1, <2>2, <2>3
<1>2. \A e \in Dirs : io[e] = "success" => io'[e] = "success"
  <2> USE DEF reads, Inv, Types
  <2>1. CASE UNCHANGED io
    BY <2>1
  <2>2. ASSUME NEW d, Stopping(d)  PROVE <1>2
    BY <2>2 DEF Stopping
  <2>3. ASSUME NEW d \in Dirs, Fails(d)  PROVE <1>2
    BY <2>3 DEF Fails
  <2>4. CASE TakeUnwatch
    BY <2>1, <2>2, <2>4 DEF TakeUnwatch
  <2>5. ASSUME NEW d \in Dirs, StopNext(d)  PROVE <1>2
    BY <2>2, <2>5 DEF StopNext
  <2>6. CASE Owner \/ UNCHANGED readVars
    BY <2>1, <2>6 DEF Owner, AskWatch, AskUnwatch, DropWatcher, readVars
  <2>7. CASE TakeStop \/ Drained \/ WaitEnds \/ StopEnds \/ ServerEnds
    BY <2>1, <2>7 DEF TakeStop, Drained, WaitEnds, StopEnds, ServerEnds
  <2> QED BY <2>3, <2>4, <2>5, <2>6, <2>7
<1>3. extended' \in [Dirs -> BOOLEAN] /\ api' = extended'
  BY <1>1 DEF StreamInv, StreamTypes
<1> QED BY <1>1, <1>2, <1>3, StreamStays

LEMMA StreamInit == Init => StreamInv
PROOF
<1> SUFFICES ASSUME Init  PROVE StreamInv
  OBVIOUS
<1>1. <<>> \in Seq(Nat)
  OBVIOUS
<1>2. job \in Jobs /\ job.dir = NoDir /\ job.rest = <<>>
  BY <1>1 DEF Init, NoJob, Jobs
<1>3. StreamTypes
  BY <1>1, <1>2 DEF Init, StreamTypes
<1>4. ASSUME NEW d \in Dirs  PROVE Exact(Stream(d), lost[d], happened[d])
  <2>1. InJob(d) = <<>> /\ reported[d] = <<>> /\ filled[d] = <<>>
        /\ kbuf[d] = <<>> /\ lost[d] = {} /\ happened[d] = 0
    BY <1>2 DEF Init, InJob
  <2>2. Cat(<<>>, <<>>) = <<>>
    BY <1>1, CatEmpty
  <2>3. Stream(d) = <<>>
    BY <2>1, <2>2 DEF Stream, Parts
  <2>4. Exact(<<>>, {}, 0)
    <3>1. \A i \in 1 .. Len(<<>>) - 1 : <<>>[i] < <<>>[i + 1]
      OBVIOUS
    <3>2. Numbers(<<>>) = {}
      BY DEF Numbers
    <3> QED BY <3>1, <3>2 DEF Exact
  <2> QED BY <2>1, <2>3, <2>4
<1> QED BY <1>3, <1>4 DEF StreamInv

\* What is reported is the beginning of the stream, and the stream has no
\* number that no event has.
LEMMA StreamIsExactly == StreamInv => StreamIsExact
PROOF
<1> SUFFICES ASSUME StreamInv, NEW d \in Dirs
             PROVE  /\ Exact(reported[d] \o OnItsWay(d), lost[d], happened[d])
                    /\ Garbage \notin Numbers(reported[d])
  BY DEF StreamIsExact, Exact
<1>1. OnItsWay(d) = Cat(Cat(InJob(d), filled[d]), kbuf[d])
  <2>1. (IF io[d] = "success" THEN filled[d] ELSE <<>>) = filled[d]
    BY DEF StreamInv, StreamTypes
  <2> QED BY <2>1 DEF OnItsWay, InJob, Cat
<1>2. /\ OnItsWay(d) \in Seq(Nat) /\ reported[d] \in Seq(Nat)
      /\ reported[d] \o OnItsWay(d) = Stream(d)
  <2>1. Stream(d) = reported[d] \o OnItsWay(d)
    BY <1>1 DEF Stream, Parts, Cat
  <2>2. OnItsWay(d) \in Seq(Nat)
    BY <1>1, StreamIsASequence, CatType DEF StreamInv
  <2> QED BY <2>1, <2>2, StreamIsASequence DEF StreamInv
<1>3. Exact(Stream(d), lost[d], happened[d])
  BY DEF StreamInv
<1>4. Numbers(Stream(d)) = Numbers(reported[d]) \cup Numbers(OnItsWay(d))
  BY <1>2, NumbersConcat
<1>5. Numbers(Stream(d)) \in SUBSET (1 .. happened[d])
  BY <1>3 DEF Exact
<1>6. Garbage \notin 1 .. happened[d]
  BY DEF Garbage, StreamInv, StreamTypes
<1> QED BY <1>2, <1>3, <1>4, <1>5, <1>6

(***************************************************************************)
(* The handler is given what happened, in order, once and undistorted: all  *)
(* but what the kernel itself has dropped is reported or on its way.        *)
(***************************************************************************)
THEOREM EventsAreReportedExactly == Spec => []StreamIsExact
PROOF
<1>1. Init => StreamInv
  BY StreamInit
<1>2. Inv /\ StreamInv /\ [Next]_readVars => StreamInv'
  BY StreamHappens, StreamCompletes, StreamTakeWatch, StreamHandleEvent,
     StreamEmit, StreamEmitEnds, StreamOthers DEF Next, Kernel, Server, Inv
<1>3. StreamInv => StreamIsExact
  BY StreamIsExactly
<1> QED BY <1>1, <1>2, <1>3, ReadsInvariant, PTL DEF Spec
=============================================================================
