---------------------------- MODULE ChainProofs -----------------------------
(***************************************************************************)
(* Theorems of an action chain: for chains of any length on both platforms, *)
(* and whatever the processes it starts do.                                 *)
(***************************************************************************)
EXTENDS ChainProperties, SequenceTheorems, TLAPS

\* A process is in hand: spawn_process awaits the command at no.
Awaiting == {"assign", "wait", "kill", "reap", "collect"}

\* What an action has to be for execute_chain to be there.
InHand ==
  /\ stage = "transfer" => no <= Len(chain) /\ chain[no] \in Transfers
  /\ stage \in Awaiting \cup {"spawn"} =>
       no <= Len(chain) /\ chain[no] \in Commands
  /\ stage \in Awaiting => chain[no] # "detach" /\ shell[no] # "none"
  /\ stage = "assign" => platform = "windows" /\ ~ asUser[no]
  /\ stage = "done" => no = Len(chain) + 1

\* Actions that have not been begun: from no on, or after it.
Begun(k) == k < no \/ (k = no /\ stage \in Awaiting)

Untouched ==
  \A k \in Numbers :
    /\ k >= no => result[k] = "none"
    /\ ~ Begun(k) => shell[k] = "none" /\ given[k] = 0
    /\ shell[k] = "none" => work[k] = "none"

\* Only the last action can have failed, and then the chain is at its end.
FailedLast ==
  \A k \in Numbers : result[k] \in {"failed", "timeout"} =>
    stage = "failed" /\ k = no - 1

\* d is where the entry was put last, as far as action n can know.
Latest(d, n) ==
  /\ d # 0 => /\ d < n
              /\ result[d] = "ok" /\ chain[d] \in Transfers
  /\ \A j \in d + 1 .. n - 1 :
       chain[j] \in Transfers => result[j] \in {"skipped", "failed"}

DestinationInv ==
  /\ Latest(dest, no)
  /\ \A k \in DOMAIN chain : shell[k] # "none" => Latest(given[k], k)

\* The kill of the group of command k has been sent.
Told(k) == result[k] = "timeout" \/ (k = no /\ stage \in {"reap", "collect"})

\* Why a working process may have been left out of it.
Excused(k) ==
  \/ member[k] = "left"
  \/ member[k] = "outside" /\ platform = "windows" /\ ~ asUser[k]
  \/ ignored[k] \cap {"shell", "work"} # {}

TreeInv ==
  \A k \in Numbers : group[k] =>
    /\ work[k] # "none" /\ member[k] = "outside" =>
         platform = "windows" /\ ~ asUser[k]
    /\ Told(k) => /\ shell[k] = "running" => "shell" \in ignored[k]
                  /\ work[k] = "running" => Excused(k)
    /\ result[k] = "timeout" /\ shell[k] # "ended" =>
         asUser[k] \/ "wait" \in ignored[k]

\* The inductive invariant.
ChainInv ==
  /\ TypeOK /\ InHand /\ Untouched /\ FailedLast
  /\ OkMeansExited /\ DestinationInv /\ TreeInv

-----------------------------------------------------------------------------
\* What the type of a chain says of its length and its actions.
LEMMA ChainShape ==
  ASSUME NEW s, NEW n \in Nat, s \in [1 .. n -> Actions]
  PROVE  Len(s) = n /\ DOMAIN s = 1 .. n
PROOF
<1>1. s \in Seq(Actions)
  BY SeqDef
<1>2. Len(s) \in Nat /\ 1 .. Len(s) = 1 .. n
  BY <1>1, LenProperties
<1> QED
  BY <1>2

\* The initial states satisfy the invariant.
LEMMA InitChainInv ==
  ASSUME Init
  PROVE  ChainInv
PROOF
<1>1. PICK n \in Numbers : chain \in [1 .. n -> Actions]
  BY DEF Init
<1>2. Len(chain) = n /\ Len(chain) \in Numbers
  BY <1>1, ChainShape, MaxActionsAssumption DEF Numbers
<1>3. TypeOK
  BY <1>1, <1>2, MaxActionsAssumption
  DEF Init, TypeOK, Numbers, Stages, Results, Processes, Standings, Failures,
      Codes
<1>4. InHand /\ Untouched /\ FailedLast /\ TreeInv
  BY <1>1, <1>2, MaxActionsAssumption
  DEF Init, InHand, Untouched, Begun, FailedLast, TreeInv, Told, Numbers,
      Awaiting
<1>5. OkMeansExited
  BY <1>1, <1>2, MaxActionsAssumption DEF Init, OkMeansExited, Numbers
<1>6. DestinationInv
  BY <1>1, <1>2, MaxActionsAssumption
  DEF Init, DestinationInv, Latest, Numbers
<1> QED
  BY <1>3, <1>4, <1>5, <1>6 DEF ChainInv

\* Every step keeps the types.
LEMMA StepTypes ==
  ASSUME TypeOK, InHand, Untouched, FailedLast, [Next]_chainVars
  PROVE  TypeOK'
PROOF
<1> USE MaxActionsAssumption DEF TypeOK, InHand, Numbers, Stages, Results,
      Processes, Standings, Failures, Codes, Awaiting, Commands, Transfers, Actions, order,
      progress, processes
<1>1. CASE Begin
  BY <1>1 DEF Begin
<1>2. ASSUME NEW r \in {"ok", "skipped", "failed"}, Transfer(r)
      PROVE  TypeOK'
  BY <1>2 DEF Transfer, Conclude, Delivers, AfterFailure, Following
<1>3. CASE SpawnFails
  BY <1>3 DEF SpawnFails, Conclude, AfterFailure, Following
<1>4. ASSUME NEW u \in BOOLEAN, NEW g \in BOOLEAN, Spawn(u, g)
      PROVE  TypeOK'
  <2>1. stage' \in Stages /\ no' \in 1 .. Len(chain) + 1
        /\ result' \in [Numbers -> Results]
    <3>1. CASE chain[no] = "detach"
      BY <1>4, <3>1 DEF Spawn, Conclude, Following, AfterFailure
    <3>2. CASE chain[no] # "detach"
      <4>1. stage' \in {"assign", "wait"} /\ no' = no /\ result' = result
        BY <1>4, <3>2, Zenon DEF Spawn
      <4> QED
        BY <4>1
    <3> QED
      BY <3>1, <3>2
  <2>2. /\ given' \in [Numbers -> 0 .. MaxActions]
        /\ shell' \in [Numbers -> Processes]
    BY <1>4 DEF Spawn
  <2>3. group' \in [Numbers -> BOOLEAN] /\ asUser' \in [Numbers -> BOOLEAN]
    BY <1>4 DEF Spawn
  <2>4. UNCHANGED <<order, source, dest, work, member, ignored, code>>
    BY <1>4 DEF Spawn
  <2> QED
    BY <2>1, <2>2, <2>3, <2>4
<1>5. ASSUME NEW g \in BOOLEAN, Assign(g)
      PROVE  TypeOK'
  BY <1>5 DEF Assign
<1>6. CASE Exited
  BY <1>6 DEF Exited, Conclude, Accepted, AfterFailure, Following
<1>7. CASE WaitFails
  BY <1>7 DEF WaitFails, Conclude, AfterFailure, Following
<1>8. CASE TimeOut
  BY <1>8 DEF TimeOut, Limited
<1>9. ASSUME NEW reached \in SUBSET {"shell", "work"},
             KillGroup(reached)
      PROVE  TypeOK'
  <2>1. \A p \in Processes : Killed(p) \in Processes
    BY DEF Killed
  <2>2. /\ shell' \in [Numbers -> Processes]
        /\ work' \in [Numbers -> Processes]
        /\ ignored' \in [Numbers -> SUBSET Failures]
    <3>1. CASE group[no]
      <4>1. PICK p : shell' = [shell EXCEPT ![no] = p]
                     /\ p \in {shell[no], Killed(shell[no])}
        BY <1>9, <3>1 DEF KillGroup
      <4>2. PICK q : work' = [work EXCEPT ![no] = q]
                     /\ q \in {work[no], Killed(work[no])}
        BY <1>9, <3>1 DEF KillGroup
      <4>3. no \in Numbers
        BY <1>9 DEF KillGroup
      <4>4. /\ shell \in [Numbers -> Processes]
            /\ work \in [Numbers -> Processes]
            /\ ignored \in [Numbers -> SUBSET Failures]
        OBVIOUS
      <4>5. ignored' = [ignored EXCEPT ![no] = Members \ reached]
            /\ Members \subseteq Failures
        BY <1>9, <3>1 DEF KillGroup, Members
      <4> HIDE DEF TypeOK, Processes, Numbers, Failures
      <4>6. p \in Processes /\ q \in Processes
        BY <2>1, <4>1, <4>2, <4>3, <4>4
      <4>7. Members \ reached \in SUBSET Failures
        BY <4>5
      <4> QED
        BY <4>1, <4>2, <4>3, <4>4, <4>5, <4>6, <4>7
    <3>2. CASE ~ group[no]
      BY <1>9, <3>2 DEF KillGroup
    <3> QED
      BY <3>1, <3>2
  <2>3. /\ UNCHANGED <<order, no, source, dest, result, given, asUser, group,
                      member, code>>
        /\ stage' = "reap"
    BY <1>9 DEF KillGroup
  <2> QED
    BY <2>2, <2>3
<1>10. CASE Collect
  BY <1>10 DEF Collect, Conclude, AfterFailure, Following
<1>17. CASE CollectFails
  BY <1>17 DEF CollectFails, Conclude, AfterFailure, Following
<1>15. ASSUME NEW reached \in BOOLEAN, KillShell(reached)
      PROVE  TypeOK'
  BY <1>15 DEF KillShell, Killed
<1>16. ASSUME NEW k \in Numbers, ShellDies(k)
      PROVE  TypeOK'
  BY <1>16 DEF ShellDies
<1>11. ASSUME NEW k \in Numbers, NEW leaves \in BOOLEAN, StartWork(k, leaves)
      PROVE  TypeOK'
  BY <1>11 DEF StartWork
<1>12. ASSUME NEW k \in Numbers, NEW c \in Codes, ShellEnds(k, c)
      PROVE  TypeOK'
  BY <1>12 DEF ShellEnds
<1>13. ASSUME NEW k \in Numbers, WorkEnds(k)
      PROVE  TypeOK'
  BY <1>13 DEF WorkEnds
<1>14. CASE UNCHANGED chainVars
  BY <1>14 DEF chainVars
<1> HIDE DEF TypeOK, Numbers, Codes
<1> QED
  BY <1>1, <1>2, <1>3, <1>4, <1>5, <1>6, <1>7, <1>8, <1>9, <1>10, <1>11,
     <1>12, <1>13, <1>14, <1>15, <1>16, <1>17
  DEF Next, Step, Others

\* Every step keeps what is in hand.
LEMMA StepInHand ==
  ASSUME TypeOK, InHand, [Next]_chainVars
  PROVE  InHand'
PROOF
<1> USE MaxActionsAssumption DEF TypeOK, InHand, Numbers, Awaiting, Commands,
      Transfers, Actions, order, progress, processes
<1>1. CASE Begin
  <2>1. CASE no > Len(chain)
    BY <1>1, <2>1 DEF Begin
  <2>2. CASE no <= Len(chain) /\ chain[no] \in Transfers
    BY <1>1, <2>2 DEF Begin
  <2>3. CASE no <= Len(chain) /\ chain[no] \in Commands
    BY <1>1, <2>3 DEF Begin
  <2>4. no <= Len(chain) => no \in 1 .. Len(chain)
    OBVIOUS
  <2>5. no <= Len(chain) => chain[no] \in Transfers \cup Commands
    <3> USE DEF Actions
    <3>1. chain \in [1 .. Len(chain) -> Transfers \cup Commands]
      OBVIOUS
    <3> HIDE DEF TypeOK
    <3> QED
      BY <2>4, <3>1
  <2> QED
    BY <2>1, <2>2, <2>3, <2>4, <2>5
<1>2. ASSUME NEW r \in {"ok", "skipped", "failed"}, Transfer(r)
      PROVE  InHand'
  BY <1>2 DEF Transfer, Conclude, Delivers, AfterFailure, Following
<1>3. CASE SpawnFails
  BY <1>3 DEF SpawnFails, Conclude, AfterFailure, Following
<1>4. ASSUME NEW u \in BOOLEAN, NEW g \in BOOLEAN, Spawn(u, g)
      PROVE  InHand'
  BY <1>4 DEF Spawn, GroupedFirst, Limited, Conclude, Following, AfterFailure
<1>5. ASSUME NEW g \in BOOLEAN, Assign(g)
      PROVE  InHand'
  BY <1>5 DEF Assign
<1>6. CASE Exited
  BY <1>6 DEF Exited, Conclude, Accepted, AfterFailure, Following
<1>7. CASE WaitFails
  BY <1>7 DEF WaitFails, Conclude, AfterFailure, Following
<1>8. CASE TimeOut
  BY <1>8 DEF TimeOut, Limited
<1>9. ASSUME NEW reached \in SUBSET {"shell", "work"},
             KillGroup(reached)
      PROVE  InHand'
  BY <1>9 DEF KillGroup, Killed, Members
<1>10. CASE Collect
  BY <1>10 DEF Collect, Conclude, AfterFailure, Following
<1>17. CASE CollectFails
  BY <1>17 DEF CollectFails, Conclude, AfterFailure, Following
<1>15. ASSUME NEW reached \in BOOLEAN, KillShell(reached)
      PROVE  InHand'
  BY <1>15 DEF KillShell, Killed
<1>16. ASSUME NEW k \in Numbers, ShellDies(k)
      PROVE  InHand'
  BY <1>16 DEF ShellDies
<1>11. ASSUME NEW k \in Numbers, NEW leaves \in BOOLEAN, StartWork(k, leaves)
      PROVE  InHand'
  BY <1>11 DEF StartWork
<1>12. ASSUME NEW k \in Numbers, NEW c \in Codes, ShellEnds(k, c)
      PROVE  InHand'
  BY <1>12 DEF ShellEnds
<1>13. ASSUME NEW k \in Numbers, WorkEnds(k)
      PROVE  InHand'
  BY <1>13 DEF WorkEnds
<1>14. CASE UNCHANGED chainVars
  BY <1>14 DEF chainVars
<1> QED
  BY <1>1, <1>2, <1>3, <1>4, <1>5, <1>6, <1>7, <1>8, <1>9, <1>10, <1>11,
     <1>12, <1>13, <1>14, <1>15, <1>16, <1>17
  DEF Next, Step, Others

\* No step does anything for an action that was not begun.
LEMMA StepUntouched ==
  ASSUME TypeOK, InHand, Untouched, [Next]_chainVars
  PROVE  Untouched'
PROOF
<1> USE MaxActionsAssumption DEF TypeOK, InHand, Untouched, Begun, Numbers,
      Awaiting, order, progress, processes
<1>1. CASE Begin
  BY <1>1 DEF Begin
<1>2. ASSUME NEW r \in {"ok", "skipped", "failed"}, Transfer(r)
      PROVE  Untouched'
  BY <1>2 DEF Transfer, Conclude, Delivers, AfterFailure, Following
<1>3. CASE SpawnFails
  BY <1>3 DEF SpawnFails, Conclude, AfterFailure, Following
<1>4. ASSUME NEW u \in BOOLEAN, NEW g \in BOOLEAN, Spawn(u, g)
      PROVE  Untouched'
  BY <1>4 DEF Spawn, GroupedFirst, Limited, Conclude, Following, AfterFailure
<1>5. ASSUME NEW g \in BOOLEAN, Assign(g)
      PROVE  Untouched'
  BY <1>5 DEF Assign
<1>6. CASE Exited
  BY <1>6 DEF Exited, Conclude, Accepted, AfterFailure, Following
<1>7. CASE WaitFails
  BY <1>7 DEF WaitFails, Conclude, AfterFailure, Following
<1>8. CASE TimeOut
  BY <1>8 DEF TimeOut, Limited
<1>9. ASSUME NEW reached \in SUBSET {"shell", "work"},
             KillGroup(reached)
      PROVE  Untouched'
  BY <1>9 DEF KillGroup, Killed, Members
<1>10. CASE Collect
  BY <1>10 DEF Collect, Conclude, AfterFailure, Following
<1>17. CASE CollectFails
  BY <1>17 DEF CollectFails, Conclude, AfterFailure, Following
<1>15. ASSUME NEW reached \in BOOLEAN, KillShell(reached)
      PROVE  Untouched'
  BY <1>15 DEF KillShell, Killed
<1>16. ASSUME NEW k \in Numbers, ShellDies(k)
      PROVE  Untouched'
  BY <1>16 DEF ShellDies
<1>11. ASSUME NEW k \in Numbers, NEW leaves \in BOOLEAN, StartWork(k, leaves)
      PROVE  Untouched'
  BY <1>11 DEF StartWork
<1>12. ASSUME NEW k \in Numbers, NEW c \in Codes, ShellEnds(k, c)
      PROVE  Untouched'
  BY <1>12 DEF ShellEnds
<1>13. ASSUME NEW k \in Numbers, WorkEnds(k)
      PROVE  Untouched'
  BY <1>13 DEF WorkEnds
<1>14. CASE UNCHANGED chainVars
  BY <1>14 DEF chainVars
<1> QED
  BY <1>1, <1>2, <1>3, <1>4, <1>5, <1>6, <1>7, <1>8, <1>9, <1>10, <1>11,
     <1>12, <1>13, <1>14, <1>15, <1>16, <1>17
  DEF Next, Step, Others

\* A step that follows a failure ends the chain.
LEMMA StepFailedLast ==
  ASSUME TypeOK, InHand, Untouched, FailedLast, [Next]_chainVars
  PROVE  FailedLast'
PROOF
<1> USE MaxActionsAssumption DEF TypeOK, InHand, Untouched, FailedLast,
      Numbers, Awaiting, order, progress, processes
<1>1. CASE Begin
  BY <1>1 DEF Begin
<1>2. ASSUME NEW r \in {"ok", "skipped", "failed"}, Transfer(r)
      PROVE  FailedLast'
  BY <1>2 DEF Transfer, Conclude, Delivers, AfterFailure, Following
<1>3. CASE SpawnFails
  BY <1>3 DEF SpawnFails, Conclude, AfterFailure, Following
<1>4. ASSUME NEW u \in BOOLEAN, NEW g \in BOOLEAN, Spawn(u, g)
      PROVE  FailedLast'
  BY <1>4 DEF Spawn, GroupedFirst, Limited, Conclude, Following, AfterFailure
<1>5. ASSUME NEW g \in BOOLEAN, Assign(g)
      PROVE  FailedLast'
  BY <1>5 DEF Assign
<1>6. CASE Exited
  BY <1>6 DEF Exited, Conclude, Accepted, AfterFailure, Following
<1>7. CASE WaitFails
  BY <1>7 DEF WaitFails, Conclude, AfterFailure, Following
<1>8. CASE TimeOut
  BY <1>8 DEF TimeOut, Limited
<1>9. ASSUME NEW reached \in SUBSET {"shell", "work"},
             KillGroup(reached)
      PROVE  FailedLast'
  BY <1>9 DEF KillGroup, Killed, Members
<1>10. CASE Collect
  BY <1>10 DEF Collect, Conclude, AfterFailure, Following
<1>17. CASE CollectFails
  BY <1>17 DEF CollectFails, Conclude, AfterFailure, Following
<1>15. ASSUME NEW reached \in BOOLEAN, KillShell(reached)
      PROVE  FailedLast'
  BY <1>15 DEF KillShell, Killed
<1>16. ASSUME NEW k \in Numbers, ShellDies(k)
      PROVE  FailedLast'
  BY <1>16 DEF ShellDies
<1>11. ASSUME NEW k \in Numbers, NEW leaves \in BOOLEAN, StartWork(k, leaves)
      PROVE  FailedLast'
  BY <1>11 DEF StartWork
<1>12. ASSUME NEW k \in Numbers, NEW c \in Codes, ShellEnds(k, c)
      PROVE  FailedLast'
  BY <1>12 DEF ShellEnds
<1>13. ASSUME NEW k \in Numbers, WorkEnds(k)
      PROVE  FailedLast'
  BY <1>13 DEF WorkEnds
<1>14. CASE UNCHANGED chainVars
  BY <1>14 DEF chainVars
<1> QED
  BY <1>1, <1>2, <1>3, <1>4, <1>5, <1>6, <1>7, <1>8, <1>9, <1>10, <1>11,
     <1>12, <1>13, <1>14, <1>15, <1>16, <1>17
  DEF Next, Step, Others

\* What has ended and was accepted stays so.
LEMMA StepOkMeansExited ==
  ASSUME TypeOK, InHand, Untouched, OkMeansExited, [Next]_chainVars
  PROVE  OkMeansExited'
PROOF
<1> USE MaxActionsAssumption DEF TypeOK, InHand, Untouched, OkMeansExited,
      Begun, Numbers, Processes, Codes, Awaiting, Commands, Transfers, order,
      progress, processes
<1>1. CASE Begin
  BY <1>1 DEF Begin
<1>2. ASSUME NEW r \in {"ok", "skipped", "failed"}, Transfer(r)
      PROVE  OkMeansExited'
  BY <1>2 DEF Transfer, Conclude, Delivers, AfterFailure, Following
<1>3. CASE SpawnFails
  BY <1>3 DEF SpawnFails, Conclude, AfterFailure, Following
<1>4. ASSUME NEW u \in BOOLEAN, NEW g \in BOOLEAN, Spawn(u, g)
      PROVE  OkMeansExited'
  BY <1>4 DEF Spawn, GroupedFirst, Limited, Conclude, Following, AfterFailure
<1>5. ASSUME NEW g \in BOOLEAN, Assign(g)
      PROVE  OkMeansExited'
  BY <1>5 DEF Assign
<1>6. CASE Exited
  BY <1>6 DEF Exited, Conclude, Accepted, AfterFailure, Following
<1>7. CASE WaitFails
  BY <1>7 DEF WaitFails, Conclude, AfterFailure, Following
<1>8. CASE TimeOut
  BY <1>8 DEF TimeOut, Limited
<1>9. ASSUME NEW reached \in SUBSET {"shell", "work"},
             KillGroup(reached)
      PROVE  OkMeansExited'
  BY <1>9 DEF KillGroup, Killed, Members
<1>10. CASE Collect
  BY <1>10 DEF Collect, Conclude, AfterFailure, Following
<1>17. CASE CollectFails
  BY <1>17 DEF CollectFails, Conclude, AfterFailure, Following
<1>15. ASSUME NEW reached \in BOOLEAN, KillShell(reached)
      PROVE  OkMeansExited'
  BY <1>15 DEF KillShell, Killed
<1>16. ASSUME NEW k \in Numbers, ShellDies(k)
      PROVE  OkMeansExited'
  BY <1>16 DEF ShellDies
<1>11. ASSUME NEW k \in Numbers, NEW leaves \in BOOLEAN, StartWork(k, leaves)
      PROVE  OkMeansExited'
  BY <1>11 DEF StartWork
<1>12. ASSUME NEW k \in Numbers, NEW c \in Codes, ShellEnds(k, c)
      PROVE  OkMeansExited'
  BY <1>12 DEF ShellEnds
<1>13. ASSUME NEW k \in Numbers, WorkEnds(k)
      PROVE  OkMeansExited'
  BY <1>13 DEF WorkEnds
<1>14. CASE UNCHANGED chainVars
  BY <1>14 DEF chainVars
<1> QED
  BY <1>1, <1>2, <1>3, <1>4, <1>5, <1>6, <1>7, <1>8, <1>9, <1>10, <1>11,
     <1>12, <1>13, <1>14, <1>15, <1>16, <1>17
  DEF Next, Step, Others

\* Results before an action are settled when it is begun.
LEMMA StepDestination ==
  ASSUME TypeOK, InHand, Untouched, FailedLast, DestinationInv,
         [Next]_chainVars
  PROVE  DestinationInv'
PROOF
<1> USE MaxActionsAssumption DEF TypeOK, InHand, Untouched, FailedLast,
      DestinationInv, Latest, Begun, Numbers, Awaiting, Commands, Transfers,
      order, progress, processes
<1>1. CASE Begin
  BY <1>1 DEF Begin
<1>2. ASSUME NEW r \in {"ok", "skipped", "failed"}, Transfer(r)
      PROVE  DestinationInv'
  BY <1>2 DEF Transfer, Conclude, Delivers, AfterFailure, Following
<1>3. CASE SpawnFails
  BY <1>3 DEF SpawnFails, Conclude, AfterFailure, Following
<1>4. ASSUME NEW u \in BOOLEAN, NEW g \in BOOLEAN, Spawn(u, g)
      PROVE  DestinationInv'
  <2>1. Latest(dest, no)'
    BY <1>4 DEF Spawn, Conclude, AfterFailure, Following
  <2>2. ASSUME NEW k \in DOMAIN chain, shell'[k] # "none"
        PROVE  Latest(given[k], k)'
    <3>1. k \in Numbers /\ k <= no /\ (shell[k] # "none" \/ k = no)
      BY <1>4, <2>2 DEF Spawn, Conclude, AfterFailure, Following
    <3>2. /\ chain' = chain
          /\ \A j \in Numbers : j # no => result'[j] = result[j]
      BY <1>4 DEF Spawn, Conclude
    <3>3. /\ given' = [given EXCEPT ![no] = dest]
          /\ given \in [Numbers -> 0 .. MaxActions]
      BY <1>4 DEF Spawn
    <3>4. k < no => Latest(given[k], k) /\ given'[k] = given[k]
      BY <2>2, <3>1, <3>3, SMTT(30)
    <3>5. k = no => Latest(dest, k) /\ given'[k] = dest
      BY <3>1, <3>3
    <3> DEFINE d == given'[k]
    <3>6. d \in 0 .. MaxActions
      BY <3>1, <3>3, <3>4, <3>5
    <3>7. Latest(d, k)
      BY <3>1, <3>4, <3>5
    <3>8. d # 0 => /\ d \in Numbers /\ d < k
                   /\ result'[d] = "ok" /\ chain[d] \in Transfers
      <4> HIDE DEF d
      <4> QED
        BY <3>1, <3>2, <3>6, <3>7
    <3>9. ASSUME NEW j \in d + 1 .. k - 1, chain[j] \in Transfers
          PROVE  result'[j] \in {"skipped", "failed"}
      <4> HIDE DEF d
      <4> QED
        BY <3>1, <3>2, <3>6, <3>7, <3>9, SMTT(30)
    <3> QED
      BY <3>1, <3>2, <3>6, <3>8, <3>9
  <2>3. DOMAIN chain' = DOMAIN chain
    BY <1>4 DEF Spawn
  <2> QED
    BY <2>1, <2>2, <2>3
<1>5. ASSUME NEW g \in BOOLEAN, Assign(g)
      PROVE  DestinationInv'
  BY <1>5 DEF Assign
<1>6. CASE Exited
  <2>1. Latest(dest, no)'
    BY <1>6 DEF Exited, Conclude, AfterFailure, Following
  <2>2. ASSUME NEW k \in DOMAIN chain, shell'[k] # "none"
        PROVE  Latest(given[k], k)'
    <3>1. k \in Numbers /\ k <= no /\ (shell[k] # "none" \/ k = no)
      BY <1>6, <2>2 DEF Exited, Conclude, AfterFailure, Following
    <3>2. CASE k < no
      BY <1>6, <2>2, <3>1, <3>2, SMTT(30)
      DEF Exited, Conclude, AfterFailure, Following
    <3>3. CASE k = no
      BY <1>6, <2>2, <3>1, <3>3, SMTT(30)
      DEF Exited, Conclude, AfterFailure, Following
    <3> QED
      BY <3>1, <3>2, <3>3
  <2>3. DOMAIN chain' = DOMAIN chain
    BY <1>6 DEF Exited, Conclude, AfterFailure, Following
  <2> QED
    BY <2>1, <2>2, <2>3
<1>7. CASE WaitFails
  <2>1. Latest(dest, no)'
    BY <1>7 DEF WaitFails, Conclude, AfterFailure, Following
  <2>2. ASSUME NEW k \in DOMAIN chain, shell'[k] # "none"
        PROVE  Latest(given[k], k)'
    <3>1. k \in Numbers /\ k <= no /\ (shell[k] # "none" \/ k = no)
      BY <1>7, <2>2 DEF WaitFails, Conclude, AfterFailure, Following
    <3>2. CASE k < no
      BY <1>7, <2>2, <3>1, <3>2, SMTT(30)
      DEF WaitFails, Conclude, AfterFailure, Following
    <3>3. CASE k = no
      BY <1>7, <2>2, <3>1, <3>3
      DEF WaitFails, Conclude, AfterFailure, Following
    <3> QED
      BY <3>1, <3>2, <3>3
  <2>3. DOMAIN chain' = DOMAIN chain
    BY <1>7 DEF WaitFails, Conclude, AfterFailure, Following
  <2> QED
    BY <2>1, <2>2, <2>3
<1>8. CASE TimeOut
  BY <1>8 DEF TimeOut, Limited
<1>9. ASSUME NEW reached \in SUBSET {"shell", "work"},
             KillGroup(reached)
      PROVE  DestinationInv'
  <2>1. Latest(dest, no)'
    BY <1>9 DEF KillGroup, Killed, Members
  <2>2. ASSUME NEW k \in DOMAIN chain, shell'[k] # "none"
        PROVE  Latest(given[k], k)'
    <3>1. k \in Numbers /\ k <= no /\ (shell[k] # "none" \/ k = no)
      <4>1. k \in Numbers
        BY <2>2
      <4>2. shell[k] # "none" \/ k = no
        BY <1>9, <2>2, <4>1 DEF KillGroup
      <4>3. k <= no
        BY <4>1, <4>2
      <4> QED
        BY ONLY <4>1, <4>2, <4>3
    <3>2. CASE k < no
      BY <1>9, <2>2, <3>1, <3>2 DEF KillGroup, Killed
    <3>3. CASE k = no
      BY <1>9, <2>2, <3>1, <3>3 DEF KillGroup, Killed
    <3> QED
      BY <3>1, <3>2, <3>3
  <2>3. DOMAIN chain' = DOMAIN chain
    BY <1>9 DEF KillGroup, Killed, Members
  <2> QED
    BY <2>1, <2>2, <2>3
<1>10. CASE Collect
  BY <1>10, SMTT(30) DEF Collect, Conclude, AfterFailure, Following
<1>17. CASE CollectFails
  BY <1>17, SMTT(30) DEF CollectFails, Conclude, AfterFailure, Following
<1>15. ASSUME NEW reached \in BOOLEAN, KillShell(reached)
      PROVE  DestinationInv'
  BY <1>15 DEF KillShell, Killed
<1>16. ASSUME NEW k \in Numbers, ShellDies(k)
      PROVE  DestinationInv'
  <2>1. /\ UNCHANGED <<chain, no, stage, dest, result, given>>
        /\ \A j \in Numbers : shell'[j] # "none" => shell[j] # "none"
    BY <1>16 DEF ShellDies
  <2>2. DOMAIN chain \subseteq Numbers
    OBVIOUS
  <2> QED
    BY <2>1, <2>2
<1>11. ASSUME NEW k \in Numbers, NEW leaves \in BOOLEAN, StartWork(k, leaves)
      PROVE  DestinationInv'
  BY <1>11 DEF StartWork
<1>12. ASSUME NEW k \in Numbers, NEW c \in Codes, ShellEnds(k, c)
      PROVE  DestinationInv'
  <2>1. Latest(dest, no)'
    BY <1>12 DEF ShellEnds
  <2>2. ASSUME NEW j \in DOMAIN chain, shell'[j] # "none"
        PROVE  Latest(given[j], j)'
    <3>1. j \in Numbers /\ j <= no /\ (shell[j] # "none" \/ j = no)
      BY <1>12, <2>2 DEF ShellEnds
    <3>2. CASE j < no
      BY <1>12, <2>2, <3>1, <3>2 DEF ShellEnds
    <3>3. CASE j = no
      BY <1>12, <2>2, <3>1, <3>3 DEF ShellEnds
    <3> QED
      BY <3>1, <3>2, <3>3
  <2>3. DOMAIN chain' = DOMAIN chain
    BY <1>12 DEF ShellEnds
  <2> QED
    BY <2>1, <2>2, <2>3
<1>13. ASSUME NEW k \in Numbers, WorkEnds(k)
      PROVE  DestinationInv'
  BY <1>13 DEF WorkEnds
<1>14. CASE UNCHANGED chainVars
  BY <1>14 DEF chainVars
<1> QED
  BY <1>1, <1>2, <1>3, <1>4, <1>5, <1>6, <1>7, <1>8, <1>9, <1>10, <1>11,
     <1>12, <1>13, <1>14, <1>15, <1>16, <1>17
  DEF Next, Step, Others

\* What a kill leaves out stands outside the tree, or could not be reached.
LEMMA StepTree ==
  ASSUME TypeOK, InHand, Untouched, TreeInv, [Next]_chainVars
  PROVE  TreeInv'
PROOF
<1> USE MaxActionsAssumption DEF TypeOK, InHand, Untouched, TreeInv, Told,
      Excused, Begun, Numbers, Processes, Awaiting, order, progress, processes
<1>1. CASE Begin
  BY <1>1 DEF Begin
<1>2. ASSUME NEW r \in {"ok", "skipped", "failed"}, Transfer(r)
      PROVE  TreeInv'
  BY <1>2 DEF Transfer, Conclude, Delivers, AfterFailure, Following
<1>3. CASE SpawnFails
  BY <1>3 DEF SpawnFails, Conclude, AfterFailure, Following
<1>4. ASSUME NEW u \in BOOLEAN, NEW g \in BOOLEAN, Spawn(u, g)
      PROVE  TreeInv'
  BY <1>4 DEF Spawn, GroupedFirst, Limited, Conclude, Following, AfterFailure
<1>5. ASSUME NEW g \in BOOLEAN, Assign(g)
      PROVE  TreeInv'
  BY <1>5 DEF Assign
<1>6. CASE Exited
  BY <1>6 DEF Exited, Conclude, Accepted, AfterFailure, Following
<1>7. CASE WaitFails
  BY <1>7 DEF WaitFails, Conclude, AfterFailure, Following
<1>8. CASE TimeOut
  BY <1>8 DEF TimeOut, Limited
<1>9. ASSUME NEW reached \in SUBSET {"shell", "work"},
             KillGroup(reached)
      PROVE  TreeInv'
  <2>1. /\ UNCHANGED <<platform, no, result, asUser, group, member>>
        /\ stage = "kill" /\ stage' = "reap" /\ no \in Numbers
        /\ result[no] = "none"
    BY <1>9 DEF KillGroup
  <2>2. \A k \in Numbers \ {no} : /\ shell'[k] = shell[k]
                                 /\ work'[k] = work[k]
                                 /\ ignored'[k] = ignored[k]
    BY <1>9 DEF KillGroup
  <2>3. ASSUME group[no]
        PROVE  /\ ignored'[no] = Members \ reached
               /\ shell'[no] = "running" => "shell" \notin reached
               /\ work'[no] = "running" =>
                    work[no] = "running" /\ "work" \notin reached
               /\ work'[no] # "none" => work[no] # "none"
    BY <1>9, <2>3 DEF KillGroup, Killed
  <2>4. ASSUME NEW k \in Numbers \ {no}, group[k]
        PROVE  /\ Told(k)' <=> Told(k)
               /\ Excused(k)' <=> Excused(k)
    BY <2>1, <2>2, <2>4
  <2>5. ASSUME group[no]
        PROVE  /\ shell'[no] = "running" => "shell" \in ignored'[no]
               /\ work'[no] = "running" => Excused(no)'
    BY <2>1, <2>3, <2>5 DEF Members, Standings
  <2> HIDE DEF Told, Excused
  <2>6. ASSUME NEW k \in Numbers \ {no}, group'[k]
        PROVE  /\ work'[k] # "none" /\ member'[k] = "outside" =>
                    platform' = "windows" /\ ~ asUser'[k]
               /\ Told(k)' => /\ shell'[k] = "running" => "shell" \in ignored'[k]
                              /\ work'[k] = "running" => Excused(k)'
               /\ result'[k] = "timeout" /\ shell'[k] # "ended" =>
                    asUser'[k] \/ "wait" \in ignored'[k]
    BY <2>1, <2>2, <2>4, <2>6
  <2>7. ASSUME group'[no]
        PROVE  /\ work'[no] # "none" /\ member'[no] = "outside" =>
                    platform' = "windows" /\ ~ asUser'[no]
               /\ shell'[no] = "running" => "shell" \in ignored'[no]
               /\ work'[no] = "running" => Excused(no)'
               /\ result'[no] # "timeout"
    BY <2>1, <2>3, <2>5, <2>7
  <2> QED
    BY <2>1, <2>6, <2>7
<1>10. CASE Collect
  BY <1>10 DEF Collect, Conclude, AfterFailure, Following
<1>17. CASE CollectFails
  BY <1>17 DEF CollectFails, Conclude, AfterFailure, Following
<1>15. ASSUME NEW reached \in BOOLEAN, KillShell(reached)
      PROVE  TreeInv'
  BY <1>15 DEF KillShell, Killed
<1>16. ASSUME NEW k \in Numbers, ShellDies(k)
      PROVE  TreeInv'
  BY <1>16 DEF ShellDies
<1>11. ASSUME NEW k \in Numbers, NEW leaves \in BOOLEAN, StartWork(k, leaves)
      PROVE  TreeInv'
  BY <1>11 DEF StartWork
<1>12. ASSUME NEW k \in Numbers, NEW c \in Codes, ShellEnds(k, c)
      PROVE  TreeInv'
  BY <1>12 DEF ShellEnds
<1>13. ASSUME NEW k \in Numbers, WorkEnds(k)
      PROVE  TreeInv'
  BY <1>13 DEF WorkEnds
<1>14. CASE UNCHANGED chainVars
  BY <1>14 DEF chainVars
<1> QED
  BY <1>1, <1>2, <1>3, <1>4, <1>5, <1>6, <1>7, <1>8, <1>9, <1>10, <1>11,
     <1>12, <1>13, <1>14, <1>15, <1>16, <1>17
  DEF Next, Step, Others

-----------------------------------------------------------------------------
\* The inductive invariant holds in every state.
THEOREM ChainInvariant == Spec => []ChainInv
PROOF
<1>1. ChainInv /\ [Next]_chainVars => ChainInv'
  BY StepTypes, StepInHand, StepUntouched, StepFailedLast, StepOkMeansExited,
     StepDestination, StepTree DEF ChainInv
<1> QED
  BY InitChainInv, <1>1, PTL DEF Spec

\* The chain stays in what execute_chain can be in: no step indexes an action
\* the chain does not have, and {Destination} names an action of it or none.
THEOREM TypesAreKept == Spec => []TypeOK
PROOF
<1>1. ChainInv => TypeOK
  BY DEF ChainInv
<1> QED
  BY <1>1, ChainInvariant, PTL

\* A command that was waited for is only reported as done when it has ended
\* and has not reported a failure.
THEOREM OkMeansItHasExited == Spec => []OkMeansExited
PROOF
<1>1. ChainInv => OkMeansExited
  BY DEF ChainInv
<1> QED
  BY <1>1, ChainInvariant, PTL

\* Nothing is started after an action of the chain failed.
THEOREM NothingFollowsAFailure == Spec => []NothingAfterFailure
PROOF
<1>1. ASSUME ChainInv, NEW j \in Numbers, NEW k \in Numbers, j < k,
             result[j] \in {"failed", "timeout"}
      PROVE  result[k] = "none" /\ shell[k] = "none"
  <2>1. stage = "failed" /\ j = no - 1
    BY <1>1 DEF ChainInv, FailedLast
  <2>2. no \in Nat
    BY <1>1, MaxActionsAssumption DEF ChainInv, TypeOK, Numbers
  <2>3. k >= no /\ ~ Begun(k)
    BY <1>1, <2>1, <2>2 DEF Begun, Awaiting, Numbers
  <2> QED
    BY <1>1, <2>3 DEF ChainInv, Untouched
<1>2. ChainInv => NothingAfterFailure
  BY <1>1 DEF NothingAfterFailure
<1> QED
  BY <1>2, ChainInvariant, PTL

\* The {Destination} of a command is the last place the chain delivered to.
THEOREM DestinationsAreLatest == Spec => []DestinationIsLatest
PROOF
<1>1. ASSUME ChainInv
      PROVE  DestinationIsLatest
  <2>1. SUFFICES ASSUME NEW k \in DOMAIN chain, shell[k] # "none"
        PROVE /\ given[k] # 0 => /\ result[given[k]] = "ok"
                                 /\ chain[given[k]] \in Transfers
              /\ \A j \in given[k] + 1 .. k - 1 :
                   chain[j] \in Transfers => result[j] = "skipped"
    BY DEF DestinationIsLatest
  <2>2. k \in Numbers /\ given[k] \in 0 .. MaxActions /\ Latest(given[k], k)
    BY <1>1, <2>1, MaxActionsAssumption
    DEF ChainInv, TypeOK, DestinationInv, Numbers
  <2>3. ASSUME NEW j \in given[k] + 1 .. k - 1
        PROVE  result[j] # "failed"
    <3>1. j \in Numbers /\ j < k /\ no \in Nat
      BY <1>1, <2>2, MaxActionsAssumption DEF ChainInv, TypeOK, Numbers
    <3>2. result[j] = "failed" => stage = "failed" /\ j = no - 1
      BY <1>1, <3>1 DEF ChainInv, FailedLast
    <3>3. Begun(k)
      BY <1>1, <2>1, <2>2 DEF ChainInv, Untouched
    <3> QED
      BY <2>2, <3>1, <3>2, <3>3 DEF Begun, Awaiting, Numbers
  <2> QED
    BY <2>2, <2>3 DEF Latest
<1> QED
  BY <1>1, ChainInvariant, PTL

\* A time limit leaves nothing running that was not told to end, except what
\* is out of the tree or out of reach; the shell has ended.
THEOREM TimeOutsEndTrees == Spec => []TimeOutEndsTree
PROOF
<1>1. ChainInv => TimeOutEndsTree
  BY DEF ChainInv, TreeInv, Told, Excused, TimeOutEndsTree, TimedOutAsGroup
<1> QED
  BY <1>1, ChainInvariant, PTL
=============================================================================
