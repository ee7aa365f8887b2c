--------------------------- MODULE WatcherProofs ----------------------------
(***************************************************************************)
(* Theorems of the event loop, for every set of paths, list of rules,       *)
(* channel capacity and debounce time, and for every environment; then of   *)
(* start_watching around it: the closed system keeps the interface of the   *)
(* event loop, no file is missed at the seam of watching and scanning, and  *)
(* none is processed more often than it was reported.                       *)
(***************************************************************************)
EXTENDS WatcherProperties, FiniteSetTheorems, TLAPS

USE DEF Events, Kinds, Unknown, None, RuleIds, Finished, Selecting

(***************************************************************************)
(* The inductive invariant.  Evaluation happens inside branch (B), so while *)
(* the loop is at its select! there is no snapshot and no path in hand; the *)
(* budget counts, for a path and a rule, the chains run, the chain still    *)
(* owed to the path in hand and the one an open entry will lead to.         *)
(***************************************************************************)
InHand ==
  /\ router \in {"rules", "chain"} => cur.path \in Paths
  /\ router \in {"poll", "suspended", "batch"} => cur = NoEntry
  /\ router = "chain" => ruleNo \in RuleIds

NoSnapshot ==
  router \in {"poll", "suspended"} => \A p \in Paths : ready[p].events = {}

Open(p) == IF pending[p].events # {} THEN 1 ELSE 0

Owed(p, r) == IF \/ router = "rules" /\ cur.path = p /\ ruleNo <= r
                 \/ router = "chain" /\ cur.path = p /\ ruleNo < r
              THEN 1 ELSE 0

Budget == \A p \in Paths : \A r \in RuleIds :
            runs[p][r] + Open(p) + Owed(p, r) <= got[p]

RouterInv == TypeOK /\ InHand /\ NoSnapshot /\ SnapshotFresh /\ Budget

-----------------------------------------------------------------------------
\* The channel conversions return what the map stores.
LEMMA ConversionTypes ==
  ASSUME NEW raw
  PROVE  /\ ToConfigEvent(raw) \in Events \cup {None}
         /\ KindFromNotifyEvent(raw) \in Kinds \cup {Unknown}
  BY DEF ToConfigEvent, KindFromNotifyEvent

\* Taking the head of the channel leaves a shorter channel of messages.
LEMMA HeadTail ==
  ASSUME NEW S, NEW q \in Seq(S), q # <<>>
  PROVE  Head(q) \in S /\ Tail(q) \in Seq(S) /\ Len(Tail(q)) = Len(q) - 1
  OBVIOUS

\* Appending to the channel makes it one longer.
LEMMA AppendOne ==
  ASSUME NEW S, NEW q \in Seq(S), NEW m \in S
  PROVE  Append(q, m) \in Seq(S) /\ Len(Append(q, m)) = Len(q) + 1
  OBVIOUS

\* Counting one more run changes that count and no other.
LEMMA CountRun ==
  ASSUME NEW P, NEW R, NEW f \in [P -> [R -> Nat]], NEW p \in P, NEW r \in R
  PROVE  /\ [f EXCEPT ![p][r] = @ + 1] \in [P -> [R -> Nat]]
         /\ \A q \in P, s \in R :
              [f EXCEPT ![p][r] = @ + 1][q][s]
                = IF q = p /\ s = r THEN f[q][s] + 1 ELSE f[q][s]
<1> DEFINE g == [f EXCEPT ![p][r] = @ + 1]
<1>1. f[p] \in [R -> Nat] /\ f[p][r] + 1 \in Nat
  OBVIOUS
<1>2. g = [f EXCEPT ![p] = [f[p] EXCEPT ![r] = f[p][r] + 1]]
  OBVIOUS
<1>3. [f[p] EXCEPT ![r] = f[p][r] + 1] \in [R -> Nat]
  BY <1>1
<1>4. g \in [P -> [R -> Nat]]
  BY <1>2, <1>3
<1>5. \A q \in P, s \in R :
        g[q][s] = IF q = p /\ s = r THEN f[q][s] + 1 ELSE f[q][s]
  BY <1>1, <1>2
<1> QED
  BY <1>4, <1>5

\* Every variable has its type initially.
LEMMA InitType == Init => TypeOK
<1> SUFFICES ASSUME Init PROVE TypeOK
  OBVIOUS
<1> USE DEF Init
<1>1. Len(Rules) \in Nat
  BY RulesAssumption
<1>2. chan \in Seq(Messages) /\ Len(chan) <= Capacity
  BY CapacityAssumption
<1>3. pending \in [Paths -> Entries]
  BY QuietAssumption DEF Absent, Entries
<1>4. ready \in [Paths -> Snapshots] /\ cur \in Confirmed
  BY DEF NotReady, Snapshots, NoEntry, Confirmed
<1>5. router \in RouterStates /\ sigint \in SigintStates /\ pressed \in BOOLEAN
  BY DEF RouterStates, SigintStates
<1>7. sent \in 0 .. MaxSends
  BY MaxSendsAssumption
<1>6. got \in [Paths -> Nat] /\ runs \in [Paths -> [RuleIds -> Nat]]
  <2>1. [r \in RuleIds |-> 0] \in [RuleIds -> Nat]
    OBVIOUS
  <2> QED
    BY <2>1
<1>8. hidden \in SUBSET Paths
  BY DEF Existing
<1> QED
  BY <1>1, <1>2, <1>3, <1>4, <1>5, <1>6, <1>7, <1>8 DEF TypeOK

\* Changes of entries keep the types.
LEMMA ChangeTypes ==
  ASSUME TypeOK
  PROVE  /\ \A S : Attributes(S) => hidden' \in SUBSET Paths
         /\ ChangeFiles => /\ files' \in [Paths -> Kinds \cup {"absent"}]
                          /\ hidden' \in SUBSET Paths
<1>1. ASSUME NEW S, Attributes(S) PROVE hidden' \in SUBSET Paths
  BY <1>1 DEF Attributes, Existing
<1>2. ASSUME NEW p \in Paths, NEW kind \in Kinds \cup {"absent"},
             SetFile(p, kind)
      PROVE  /\ files' \in [Paths -> Kinds \cup {"absent"}]
             /\ hidden' \in SUBSET Paths
  BY <1>1, <1>2 DEF SetFile, TypeOK
<1>3. ASSUME NEW p \in Paths, NEW q \in Paths, MoveFile(p, q)
      PROVE  /\ files' \in [Paths -> Kinds \cup {"absent"}]
             /\ hidden' \in SUBSET Paths
  BY <1>3 DEF MoveFile, TypeOK
<1> QED
  BY <1>1, <1>2, <1>3 DEF ChangeFiles

\* A step of the loop, or of its environment, keeps every type.
LEMMA StepType ==
  ASSUME TypeOK, InHand, [Next]_vars
  PROVE  TypeOK'
PROOF
<1> USE RulesAssumption, CapacityAssumption, QuietAssumption,
        MaxSendsAssumption, NoPathAssumption
    DEF TypeOK, RouterStates, SigintStates
<1>1. CASE Receive
  <2> DEFINE m == Head(chan)
             touched == IF ToConfigEvent(m.raw) = None THEN {} ELSE m.paths
  <2>1. /\ m \in Messages
        /\ chan' \in Seq(Messages)
        /\ Len(chan') <= Capacity
    BY <1>1, HeadTail DEF Receive
  <2>2. pending' \in [Paths -> Entries]
    BY <1>1, ConversionTypes DEF Receive, Entries, MergedKind
  <2>3. got' \in [Paths -> Nat]
    BY <1>1 DEF Receive
  <2>4. router' \in RouterStates /\ sigint' \in SigintStates
    BY <1>1 DEF Receive, DropCtrlC
  <2> QED
    BY <1>1, <2>1, <2>2, <2>3, <2>4 DEF Receive
<1>2. CASE Tick
  <2>1. ready' \in [Paths -> Snapshots]
    BY <1>2 DEF Tick, Snapshots, NotReady, Entries
  <2> QED
    BY <1>2, <2>1 DEF Tick, DropCtrlC
<1>3. ASSUME NEW p \in Paths, TakePath(p)
      PROVE  TypeOK'
  <2>1. pending' \in [Paths -> Entries]
    BY <1>3 DEF TakePath, Without, Absent, Entries
  <2>2. ready' \in [Paths -> Snapshots]
    BY <1>3 DEF TakePath, NotReady, Snapshots
  <2>3. cur' \in Confirmed
    BY <1>3 DEF TakePath, Snapshots, Confirmed
  <2> QED
    BY <1>3, <2>1, <2>2, <2>3 DEF TakePath
<1>4. CASE BatchDone
  BY <1>4 DEF BatchDone
<1>5. CASE SkipRule
  BY <1>5 DEF SkipRule
<1>6. CASE StartChain
  <2>1. cur.path \in Paths /\ ruleNo \in RuleIds
    BY <1>6 DEF StartChain, InHand
  <2>2. runs' \in [Paths -> [RuleIds -> Nat]]
    <3>1. /\ runs \in [Paths -> [RuleIds -> Nat]]
          /\ runs' = [runs EXCEPT ![cur.path][ruleNo] = @ + 1]
      BY <1>6 DEF StartChain
    <3> QED
      BY ONLY <2>1, <3>1, CountRun
  <2> QED
    BY <1>6, <2>2 DEF StartChain
<1>7. ASSUME NEW wrote \in BOOLEAN, NEW took \in BOOLEAN,
             EndChain(wrote, took)
      PROVE  TypeOK'
  <2>1. files' \in [Paths -> Kinds \cup {"absent"}]
    BY <1>7 DEF EndChain, ChainResult, InHand
  <2>2. ruleNo' \in 1 .. Len(Rules) + 1
    BY <1>7 DEF EndChain, InHand
  <2>3. hidden' \in SUBSET Paths
    BY <1>7, ChangeTypes DEF EndChain
  <2> QED
    BY <1>7, <2>1, <2>2, <2>3 DEF EndChain
<1>8. CASE RulesDone
  BY <1>8 DEF RulesDone, NoEntry, Confirmed
<1>9. CASE Suspend
  BY <1>9 DEF Suspend
<1>10. CASE Stop
  BY <1>10 DEF Stop
<1>11. CASE Elapse
  <2>1. ASSUME NEW p \in Paths, pending[p].age < Quiet
        PROVE  [pending[p] EXCEPT !.age = @ + 1] \in Entries
    <3>1. pending[p] \in [events : SUBSET Events, age : 0 .. Quiet,
                          kind : Kinds \cup {Unknown}]
      BY DEF Entries
    <3>2. pending[p].age + 1 \in 0 .. Quiet
      BY <2>1, <3>1
    <3> QED
      BY <3>1, <3>2 DEF Entries
  <2>2. pending' \in [Paths -> Entries]
    BY <1>11, <2>1 DEF Elapse
  <2> QED
    BY <1>11, <2>2 DEF Elapse
<1>12. ASSUME NEW m \in Messages, Send(m)
       PROVE  TypeOK'
  <2>1. chan' \in Seq(Messages) /\ Len(chan') <= Capacity
    BY <1>12, AppendOne DEF Send, HasRoom
  <2> QED
    BY <1>12, <2>1 DEF Send
<1>13. CASE ChangeFiles
  <2>1. /\ files' \in [Paths -> Kinds \cup {"absent"}]
        /\ hidden' \in SUBSET Paths
    BY <1>13, ChangeTypes
  <2> QED
    BY <1>13, <2>1 DEF ChangeFiles
<1>14. CASE Interrupt
  BY <1>14 DEF Interrupt
<1>15. CASE UNCHANGED vars
  BY <1>15 DEF vars
<1> QED
  BY <1>1, <1>2, <1>3, <1>4, <1>5, <1>6, <1>7, <1>8, <1>9, <1>10, <1>11,
     <1>12, <1>13, <1>14, <1>15 DEF Next, RouterStep

-----------------------------------------------------------------------------
\* While the loop is at its select! the snapshot is used up, and only there
\* is the map added to: nothing makes a snapshot stale.
LEMMA StepSnapshot ==
  ASSUME TypeOK, InHand, NoSnapshot, SnapshotFresh, [Next]_vars
  PROVE  InHand' /\ NoSnapshot' /\ SnapshotFresh'
PROOF
<1> USE DEF InHand, NoSnapshot, SnapshotFresh
<1>1. CASE Receive
  <2>1. router' = "poll" /\ cur' = cur /\ ready' = ready
    BY <1>1 DEF Receive
  <2>2. cur = NoEntry /\ \A p \in Paths : ready[p].events = {}
    BY <1>1 DEF Receive
  <2> QED
    BY <2>1, <2>2
<1>2. CASE Tick
  <2>1. router' = "batch" /\ cur' = cur /\ pending' = pending
    BY <1>2 DEF Tick
  <2>2. cur = NoEntry
    BY <1>2 DEF Tick
  <2>3. ASSUME NEW p \in Paths, ready'[p].events # {}
        PROVE  /\ ready'[p].events = pending[p].events
               /\ ready'[p].kind = pending[p].kind
               /\ pending[p].age = Quiet
    <3>1. Settled(p)
      BY <1>2, <2>3 DEF Tick, NotReady
    <3>2. pending[p].age \in 0 .. Quiet
      BY DEF TypeOK, Entries
    <3>3. pending[p].age = Quiet
      BY <3>1, <3>2, QuietAssumption DEF Settled
    <3> QED
      BY <1>2, <3>1, <3>3 DEF Tick
  <2> QED
    BY <2>1, <2>2, <2>3
<1>3. ASSUME NEW p \in Paths, TakePath(p)
      PROVE  InHand' /\ NoSnapshot' /\ SnapshotFresh'
  <2>1. router' = "rules" /\ cur'.path = p
    BY <1>3 DEF TakePath
  <2>2. ASSUME NEW q \in Paths, ready'[q].events # {}
        PROVE  q # p /\ ready'[q] = ready[q] /\ pending'[q] = pending[q]
    BY <1>3, <2>2 DEF TakePath, Without, NotReady, TypeOK
  <2> QED
    BY <2>1, <2>2
<1>4. CASE BatchDone
  BY <1>4 DEF BatchDone
<1>5. CASE SkipRule
  BY <1>5 DEF SkipRule
<1>6. CASE StartChain
  BY <1>6 DEF StartChain
<1>7. ASSUME NEW wrote \in BOOLEAN, NEW took \in BOOLEAN,
             EndChain(wrote, took)
      PROVE  InHand' /\ NoSnapshot' /\ SnapshotFresh'
  BY <1>7 DEF EndChain
<1>8. CASE RulesDone
  BY <1>8 DEF RulesDone
<1>9. CASE Suspend
  BY <1>9 DEF Suspend
<1>10. CASE Stop
  BY <1>10 DEF Stop
<1>11. CASE Elapse
  <2>1. ASSUME NEW p \in Paths
        PROVE  /\ pending'[p].events = pending[p].events
               /\ pending'[p].kind = pending[p].kind
               /\ pending[p].age = Quiet => pending'[p].age = Quiet
    BY <1>11, QuietAssumption DEF Elapse, TypeOK, Entries
  <2>2. UNCHANGED <<router, cur, ready, ruleNo>>
    BY <1>11 DEF Elapse
  <2> QED
    BY <2>1, <2>2
<1>12. ASSUME NEW m \in Messages, Send(m)
       PROVE  InHand' /\ NoSnapshot' /\ SnapshotFresh'
  BY <1>12 DEF Send
<1>13. CASE ChangeFiles
  BY <1>13 DEF ChangeFiles
<1>14. CASE Interrupt
  BY <1>14 DEF Interrupt
<1>15. CASE UNCHANGED vars
  BY <1>15 DEF vars
<1> QED
  BY <1>1, <1>2, <1>3, <1>4, <1>5, <1>6, <1>7, <1>8, <1>9, <1>10, <1>11,
     <1>12, <1>13, <1>14, <1>15 DEF Next, RouterStep

-----------------------------------------------------------------------------
\* The terms of the budget are natural numbers.
LEMMA BudgetTypes ==
  ASSUME TypeOK, NEW p \in Paths, NEW r \in RuleIds
  PROVE  /\ runs[p][r] \in Nat /\ got[p] \in Nat
         /\ Open(p) \in {0, 1} /\ Owed(p, r) \in {0, 1}
  BY DEF TypeOK, Open, Owed

\* No step spends more than its path has received.
LEMMA StepBudget ==
  ASSUME TypeOK, TypeOK', InHand, SnapshotFresh, Budget, [Next]_vars,
         NEW p \in Paths, NEW r \in RuleIds
  PROVE  runs'[p][r] + Open(p)' + Owed(p, r)' <= got'[p]
PROOF
<1> USE BudgetTypes DEF Owed
<1>0. runs[p][r] + Open(p) + Owed(p, r) <= got[p]
  BY DEF Budget
<1>1. CASE Receive
  <2>1. \/ got'[p] = got[p] /\ pending'[p] = pending[p]
        \/ got'[p] = got[p] + 1 /\ Open(p)' \in {0, 1}
    BY <1>1 DEF Receive, Open, TypeOK
  <2>2. runs' = runs /\ Owed(p, r)' = 0 /\ Owed(p, r) = 0
    BY <1>1 DEF Receive
  <2>3. CASE got'[p] = got[p] /\ pending'[p] = pending[p]
    BY <1>0, <2>2, <2>3 DEF Open
  <2>4. CASE got'[p] = got[p] + 1 /\ Open(p)' \in {0, 1}
    BY <1>0, <2>2, <2>4
  <2> QED
    BY <2>1, <2>3, <2>4
<1>2. CASE Tick
  BY <1>0, <1>2 DEF Tick, Open
<1>3. ASSUME NEW q \in Paths, TakePath(q)
      PROVE  runs'[p][r] + Open(p)' + Owed(p, r)' <= got'[p]
  <2>1. runs' = runs /\ got' = got /\ Owed(p, r) = 0 /\ cur'.path = q
    BY <1>3 DEF TakePath
  <2>2. CASE p = q
    <3>1. Open(p) = 1
      BY <1>3, <2>2 DEF TakePath, SnapshotFresh, Open
    <3>2. Open(p)' = 0
      BY <1>3, <2>2 DEF TakePath, Without, Absent, Open, TypeOK
    <3> QED
      BY <1>0, <2>1, <3>1, <3>2
  <2>3. CASE p # q
    <3>1. Open(p)' = Open(p)
      BY <1>3, <2>3 DEF TakePath, Without, Open, TypeOK
    <3>2. Owed(p, r)' = 0
      BY <1>3, <2>1, <2>3 DEF TakePath
    <3> QED
      BY <1>0, <2>1, <3>1, <3>2
  <2> QED
    BY <2>2, <2>3
<1>4. CASE BatchDone
  BY <1>0, <1>4 DEF BatchDone, Open
<1>5. CASE SkipRule
  <2>1. Owed(p, r)' <= Owed(p, r)
    BY <1>5 DEF SkipRule, TypeOK
  <2> QED
    BY <1>0, <1>5, <2>1 DEF SkipRule, Open
<1>6. CASE StartChain
  <2>1. cur.path \in Paths /\ ruleNo \in RuleIds /\ Open(p)' = Open(p)
    BY <1>6 DEF StartChain, InHand, Open
  <2>2. runs'[p][r] = IF p = cur.path /\ r = ruleNo THEN runs[p][r] + 1
                      ELSE runs[p][r]
    BY <1>6, <2>1, CountRun DEF StartChain, TypeOK
  <2>3. Owed(p, r)' = IF p = cur.path /\ r = ruleNo THEN Owed(p, r) - 1
                      ELSE Owed(p, r)
    BY <1>6, <2>1 DEF StartChain
  <2>4. got' = got
    BY <1>6 DEF StartChain
  <2> QED
    BY <1>0, <2>1, <2>2, <2>3, <2>4
<1>7. ASSUME NEW wrote \in BOOLEAN, NEW took \in BOOLEAN,
             EndChain(wrote, took)
      PROVE  runs'[p][r] + Open(p)' + Owed(p, r)' <= got'[p]
  <2>1. Owed(p, r)' = Owed(p, r)
    BY <1>7 DEF EndChain, TypeOK
  <2> QED
    BY <1>0, <1>7, <2>1 DEF EndChain, Open
<1>8. CASE RulesDone
  <2>1. Owed(p, r)' = 0
    BY <1>8 DEF RulesDone
  <2> QED
    BY <1>0, <1>8, <2>1 DEF RulesDone, Open
<1>9. CASE Suspend
  BY <1>0, <1>9 DEF Suspend, Open
<1>10. CASE Stop
  BY <1>0, <1>10 DEF Stop, Open
<1>11. CASE Elapse
  <2>1. Open(p)' = Open(p)
    BY <1>11 DEF Elapse, Open, TypeOK, Entries
  <2> QED
    BY <1>0, <1>11, <2>1 DEF Elapse
<1>12. ASSUME NEW m \in Messages, Send(m)
       PROVE  runs'[p][r] + Open(p)' + Owed(p, r)' <= got'[p]
  BY <1>0, <1>12 DEF Send, Open
<1>13. CASE ChangeFiles
  BY <1>0, <1>13 DEF ChangeFiles, Open
<1>14. CASE Interrupt
  <2>1. Owed(p, r)' <= Owed(p, r)
    BY <1>14 DEF Interrupt
  <2> QED
    BY <1>0, <1>14, <2>1 DEF Interrupt, Open
<1>15. CASE UNCHANGED vars
  BY <1>0, <1>15 DEF vars, Open
<1> QED
  BY <1>1, <1>2, <1>3, <1>4, <1>5, <1>6, <1>7, <1>8, <1>9, <1>10, <1>11,
     <1>12, <1>13, <1>14, <1>15 DEF Next, RouterStep

-----------------------------------------------------------------------------
\* The invariant holds initially and every step keeps it.
LEMMA InitRouterInv == Init => RouterInv
<1> SUFFICES ASSUME Init PROVE RouterInv
  OBVIOUS
<1>1. InHand /\ NoSnapshot /\ SnapshotFresh
  BY DEF Init, InHand, NoSnapshot, SnapshotFresh, NotReady
<1>2. ASSUME NEW p \in Paths, NEW r \in RuleIds
      PROVE  runs[p][r] + Open(p) + Owed(p, r) <= got[p]
  BY DEF Init, Open, Owed, Absent
<1> QED
  BY <1>1, <1>2, InitType DEF RouterInv, Budget

LEMMA StepRouterInv ==
  ASSUME RouterInv, [Next]_vars
  PROVE  RouterInv'
<1>1. TypeOK'
  BY StepType DEF RouterInv
<1>2. InHand' /\ NoSnapshot' /\ SnapshotFresh'
  BY StepSnapshot DEF RouterInv
<1>3. Budget'
  BY <1>1, StepBudget DEF RouterInv, Budget
<1> QED
  BY <1>1, <1>2, <1>3 DEF RouterInv

\* The inductive invariant holds in every reachable state.
THEOREM RouterInvariant == Spec => []RouterInv
<1>1. RouterInv /\ [Next]_vars => RouterInv'
  BY StepRouterInv
<1> QED
  BY <1>1, InitRouterInv, PTL DEF Spec

\* Type correctness, the capacity bound of the channel among it.
THEOREM RouterTypes == Spec => []TypeOK
<1>1. RouterInv => TypeOK
  BY DEF RouterInv
<1> QED
  BY <1>1, RouterInvariant, PTL

\* The snapshot taken at a tick is never stale when a path of it is handled,
\* although the chains of the paths before it have been awaited in between.
THEOREM SnapshotsStayFresh == Spec => []SnapshotFresh
<1>1. RouterInv => SnapshotFresh
  BY DEF RouterInv
<1> QED
  BY <1>1, RouterInvariant, PTL

\* A rule never runs more often for a path than the path was reported.
THEOREM ChainsAreBounded == Spec => []AtMostOneChainPerEvent
<1>1. RouterInv => AtMostOneChainPerEvent
  BY BudgetTypes DEF RouterInv, Budget, AtMostOneChainPerEvent
<1> QED
  BY <1>1, RouterInvariant, PTL

-----------------------------------------------------------------------------
(***************************************************************************)
(* Rules that matched when the path was taken                               *)
(***************************************************************************)
IndependentOfDisk(r) == cur.kind # Unknown \/ Rules[r].target = "Both"

\* All a rule asks of the path in hand but whether it is hidden.
MatchesOtherwise(r) ==
  /\ Rules[r].enabled
  /\ MatchesTarget(cur.path, cur.kind, Rules[r])
  /\ cur.path \in Rules[r].scope
  /\ cur.events \cap Rules[r].events # {}

DueStillMatches ==
  router \in {"rules", "chain"} =>
    \A r \in due : IndependentOfDisk(r) => MatchesOtherwise(r)

\* A match that does not look at the disk is not undone by changes on disk.
LEMMA StepDue ==
  ASSUME DueStillMatches, [Next]_vars
  PROVE  DueStillMatches'
PROOF
<1> USE DEF DueStillMatches, IndependentOfDisk, MatchesOtherwise
<1>1. ASSUME router' \in {"rules", "chain"} => router \in {"rules", "chain"},
             UNCHANGED <<cur, due>>
      PROVE  DueStillMatches'
  BY <1>1 DEF MatchesTarget
<1>2. ASSUME NEW p \in Paths, TakePath(p)
      PROVE  DueStillMatches'
  BY <1>2 DEF TakePath, EvaluateRule, MatchesTarget
<1>3. CASE Receive \/ Tick \/ BatchDone \/ Suspend \/ Stop
  BY <1>1, <1>3 DEF Receive, Tick, BatchDone, Suspend, Stop
<1>4. CASE SkipRule \/ StartChain
  BY <1>1, <1>4 DEF SkipRule, StartChain
<1>5. ASSUME NEW wrote \in BOOLEAN, NEW took \in BOOLEAN,
             EndChain(wrote, took)
      PROVE  DueStillMatches'
  BY <1>1, <1>5 DEF EndChain
<1>6. CASE RulesDone
  BY <1>6 DEF RulesDone
<1>7. CASE Elapse \/ Interrupt \/ UNCHANGED vars
  BY <1>1, <1>7 DEF Elapse, Interrupt, vars
<1>8. ASSUME NEW m \in Messages, Send(m)
      PROVE  DueStillMatches'
  BY <1>1, <1>8 DEF Send
<1>9. CASE ChangeFiles
  BY <1>1, <1>9 DEF ChangeFiles
<1> QED
  BY <1>2, <1>3, <1>4, <1>5, <1>6, <1>7, <1>8, <1>9 DEF Next, RouterStep

\* A rule whose match rests on what was reported runs, whatever the chains of
\* the rules before it do to the file - unless they hide it from the rule.
THEOREM KnownKindsReachEveryRule == Spec => KnownKindReachesEveryRule
<1> DEFINE Pass == (router = "rules" /\ router' = "rules" /\ ruleNo' # ruleNo
                      /\ ruleNo \in due)
                     => \/ cur.kind = Unknown /\ Rules[ruleNo].target # "Both"
                        \/ /\ ~ Rules[ruleNo].includeHidden
                           /\ cur.path \in hidden
<1>1. Init => DueStillMatches
  BY DEF Init, DueStillMatches
<1>2. DueStillMatches /\ [Next]_vars => DueStillMatches'
  BY StepDue
<1>3. DueStillMatches /\ [Next]_vars => [Pass]_vars
  <2> SUFFICES ASSUME DueStillMatches, Next,
                      router = "rules", router' = "rules", ruleNo' # ruleNo,
                      ruleNo \in due
               PROVE  \/ cur.kind = Unknown /\ Rules[ruleNo].target # "Both"
                      \/ /\ ~ Rules[ruleNo].includeHidden
                         /\ cur.path \in hidden
    OBVIOUS
  <2>1. SkipRule
    BY DEF Next, RouterStep, Receive, Tick, TakePath, BatchDone, StartChain,
           EndChain, RulesDone, Suspend, Stop, Elapse, Send, ChangeFiles,
           Interrupt
  <2> QED
    BY <2>1 DEF SkipRule, DueStillMatches, IndependentOfDisk,
                MatchesOtherwise, EvaluateRule, MatchesHidden
<1> QED
  BY <1>1, <1>2, <1>3, PTL DEF Spec, KnownKindReachesEveryRule

-----------------------------------------------------------------------------
(***************************************************************************)
(* Refinement of Delivery                                                   *)
(***************************************************************************)

\* Converting the notifications of the channel commutes with its operations.
LEMMA InboxOps ==
  ASSUME NEW q \in Seq(Messages)
  PROVE  /\ Inbox(q) \in Seq(D!Notes) /\ Len(Inbox(q)) = Len(q)
         /\ q # <<>> => /\ Inbox(q) # <<>>
                        /\ Head(Inbox(q)) = Converted(Head(q))
                        /\ Inbox(Tail(q)) = Tail(Inbox(q))
         /\ \A m \in Messages :
              Inbox(Append(q, m)) = Append(Inbox(q), Converted(m))
<1>1. \A m \in Messages : Converted(m) \in D!Notes
  BY ConversionTypes DEF Converted, D!Notes, Messages
<1>2. Inbox(q) \in Seq(D!Notes) /\ Len(Inbox(q)) = Len(q)
  BY <1>1 DEF Inbox
<1>3. ASSUME q # <<>>
      PROVE  /\ Inbox(q) # <<>>
             /\ Head(Inbox(q)) = Converted(Head(q))
             /\ Inbox(Tail(q)) = Tail(Inbox(q))
  BY <1>2, <1>3 DEF Inbox
<1>4. ASSUME NEW m \in Messages
      PROVE  Inbox(Append(q, m)) = Append(Inbox(q), Converted(m))
  BY <1>2 DEF Inbox
<1> QED
  BY <1>2, <1>3, <1>4

\* The map as the abstract specification sees it.
OpenEntry(p) == [events |-> pending[p].events, kind |-> pending[p].kind]

\* Steps that change neither channel, map contents nor path in hand stutter.
LEMMA HiddenStep ==
  ASSUME chan' = chan, cur' = cur,
         \A p \in Paths : OpenEntry(p)' = OpenEntry(p)
  PROVE  UNCHANGED D!deliveryVars
  BY DEF D!deliveryVars, Inbox, OpenEntry

\* Every step of the loop and its environment is an abstract step or hidden.
LEMMA StepDelivery ==
  ASSUME RouterInv, [Next]_vars
  PROVE  [D!Deliver]_D!deliveryVars
PROOF
<1> USE DEF RouterInv
<1>0. chan \in Seq(Messages)
  BY DEF TypeOK
<1>1. CASE Receive
  <2> DEFINE m == Head(chan)
             n == Converted(m)
             touched == IF ToConfigEvent(m.raw) = None THEN {} ELSE m.paths
  <2>1. chan # <<>> /\ chan' = Tail(chan) /\ cur' = cur /\ cur = NoEntry
    BY <1>1 DEF Receive, InHand
  <2>2. /\ Inbox(chan) # <<>>
        /\ Head(Inbox(chan)) = n
        /\ Inbox(chan') = Tail(Inbox(chan))
    BY <1>0, <2>1, InboxOps
  <2>3. ASSUME NEW p \in Paths
        PROVE  OpenEntry(p)' = IF p \in n.paths /\ n.event # None
                               THEN D!Folded(p, n) ELSE OpenEntry(p)
    <3>1. pending'[p] =
            IF p \in touched
            THEN [events |-> pending[p].events \cup {ToConfigEvent(m.raw)},
                  age    |-> 0,
                  kind   |-> MergedKind(p, KindFromNotifyEvent(m.raw))]
            ELSE pending[p]
      BY <1>1 DEF Receive
    <3>2. p \in touched <=> p \in n.paths /\ n.event # None
      BY DEF Converted
    <3>3. CASE p \in touched
      BY <3>1, <3>2, <3>3, SMTT(30) DEF OpenEntry, D!Folded, MergedKind, Converted
    <3>4. CASE p \notin touched
      BY <3>1, <3>2, <3>4 DEF OpenEntry
    <3> QED
      BY <3>3, <3>4
  <2>4. D!Fold
    BY <2>1, <2>2, <2>3 DEF D!Fold, OpenEntry, NoEntry, D!NoEvaluation
  <2> QED
    BY <2>4 DEF D!Deliver
<1>2. CASE Tick \/ BatchDone \/ SkipRule \/ StartChain \/ Suspend \/ Stop
  BY <1>2, HiddenStep
     DEF Tick, BatchDone, SkipRule, StartChain, Suspend, Stop, OpenEntry
<1>3. ASSUME NEW p \in Paths, TakePath(p)
      PROVE  [D!Deliver]_D!deliveryVars
  <2>1. cur = NoEntry /\ chan' = chan
    BY <1>3 DEF TakePath, InHand
  <2>2. /\ pending[p].events # {}
        /\ cur' = [path |-> p, events |-> pending[p].events,
                   kind |-> pending[p].kind]
    BY <1>3 DEF TakePath, SnapshotFresh
  <2>3. \A q \in Paths :
          OpenEntry(q)' = IF q = p THEN D!Nothing ELSE OpenEntry(q)
    BY <1>3 DEF TakePath, Without, Absent, OpenEntry, D!Nothing, TypeOK
  <2>4. D!Evaluate(p)
    BY <2>1, <2>2, <2>3
       DEF D!Evaluate, OpenEntry, NoEntry, D!NoEvaluation, Inbox
  <2> QED
    BY <2>4 DEF D!Deliver
<1>4. ASSUME NEW wrote \in BOOLEAN, NEW took \in BOOLEAN,
             EndChain(wrote, took)
      PROVE  [D!Deliver]_D!deliveryVars
  BY <1>4, HiddenStep DEF EndChain, OpenEntry
<1>5. CASE RulesDone
  <2>1. cur # NoEntry
    BY <1>5, NoPathAssumption DEF RulesDone, InHand, NoEntry
  <2>2. cur' = NoEntry /\ chan' = chan /\ pending' = pending
    BY <1>5 DEF RulesDone
  <2>3. D!Finish
    BY <2>1, <2>2 DEF D!Finish, NoEntry, D!NoEvaluation, Inbox
  <2> QED
    BY <2>3 DEF D!Deliver
<1>6. CASE Elapse
  <2>1. \A p \in Paths : OpenEntry(p)' = OpenEntry(p)
    BY <1>6 DEF Elapse, OpenEntry, TypeOK, Entries
  <2> QED
    BY <1>6, <2>1, HiddenStep DEF Elapse
<1>7. ASSUME NEW m \in Messages, Send(m)
      PROVE  [D!Deliver]_D!deliveryVars
  <2>1. chan' = Append(chan, m) /\ pending' = pending /\ cur' = cur
    BY <1>7 DEF Send
  <2>2. /\ Inbox(chan') = Append(Inbox(chan), Converted(m))
        /\ Inbox(chan) \in Seq(D!Notes)
        /\ Converted(m) \in D!Notes
    BY <1>0, <2>1, InboxOps, ConversionTypes DEF Converted, D!Notes, Messages
  <2>3. /\ Len(Inbox(chan')) = Len(Inbox(chan)) + 1
        /\ Inbox(chan')[Len(Inbox(chan'))] = Converted(m)
    BY <2>2
  <2>4. D!Accept
    BY <2>1, <2>2, <2>3 DEF D!Accept
  <2> QED
    BY <2>4 DEF D!Deliver
<1>8. CASE ChangeFiles
  BY <1>8, HiddenStep DEF ChangeFiles, OpenEntry
<1>9. CASE Interrupt \/ UNCHANGED vars
  BY <1>9, HiddenStep DEF Interrupt, vars, OpenEntry
<1> QED
  BY <1>1, <1>2, <1>3, <1>4, <1>5, <1>6, <1>7, <1>8, <1>9 DEF Next, RouterStep

\* The pipeline keeps the abstract promise: no notification it accepted is
\* lost, reordered or shown to the rules twice, in any environment.
THEOREM RouterImplementsDelivery == Spec => ImplementsDelivery
<1>1. Init => D!Start
  BY DEF Init, D!Start, Inbox, Absent, D!Nothing, NoEntry, D!NoEvaluation
<1>2. RouterInv /\ [Next]_vars => [D!Deliver]_D!deliveryVars
  BY StepDelivery
<1> QED
  BY <1>1, <1>2, RouterInvariant, PTL
     DEF Spec, ImplementsDelivery, D!DeliverySpec

-----------------------------------------------------------------------------
(***************************************************************************)
(* start_watching.  The loop's interface is kept: every notification sent   *)
(* tells the router something about its paths; only the Rescan, which has   *)
(* none, is ignored by to_config_event.                                     *)
(***************************************************************************)
HIDE DEF Events, Kinds, Unknown, None, RuleIds, Finished, Selecting

Telling == {m \in Messages : m.paths # {} => ToConfigEvent(m.raw) # None}

QueuesTell ==
  /\ os \in Seq(Telling)
  /\ chan \in Seq(Telling)
  /\ todo \subseteq [root : Roots, event : Telling]

LEMMA MessagesTell ==
  ASSUME NEW p \in Paths, NEW kind
  PROVE  /\ CreateMessage(p, kind) \in Telling
         /\ RemoveMessage(p, kind) \in Telling
         /\ ModifyMessage(p) \in Telling
         /\ RenameMessage(p) \in Telling
         /\ RescanMessage \in Telling
         /\ p \in CreateMessage(p, kind).paths
         /\ p \in ModifyMessage(p).paths
         /\ p \in RenameMessage(p).paths
<1>1. /\ CreatedAs(kind) \in {"CreateFile", "CreateFolder", "CreateAny"}
      /\ RemovedAs(kind) \in {"RemoveFile", "RemoveFolder", "RemoveAny"}
  BY DEF CreatedAs, RemovedAs
<1>2. \A raw \in {"CreateFile", "CreateFolder", "CreateAny", "RemoveFile",
                  "RemoveFolder", "RemoveAny", "ModifyName", "ModifyOther"} :
        raw \in RawKinds /\ ToConfigEvent(raw) # None
  BY DEF RawKinds, ToConfigEvent, None
<1> QED
  BY <1>1, <1>2 DEF CreateMessage, RemoveMessage, ModifyMessage,
     RenameMessage, RescanMessage, Telling, Messages, RawKinds

LEMMA BothTells ==
  ASSUME NEW p \in Paths, NEW q \in Paths
  PROVE  BothMessage(p, q) \in Telling
<1>1. {p, q} \in SUBSET Paths
  OBVIOUS
<1> QED
  BY <1>1 DEF BothMessage, Telling, Messages, RawKinds, ToConfigEvent, None

\* What Notify does to the queue of the operating system.
LEMMA NotifyType ==
  ASSUME os \in Seq(Telling), NEW msgs \in Seq(Telling), Notify(msgs)
  PROVE  os' \in Seq(Telling)
<1>1. RescanMessage \in Telling
  BY DEF RescanMessage, Telling, Messages, RawKinds
<1>2. Append(os, RescanMessage) \in Seq(Telling)
  BY <1>1
<1>3. os \o msgs \in Seq(Telling)
  OBVIOUS
<1> QED
  BY <1>2, <1>3 DEF Notify, Marked

\* The handles below which a path lies can be counted, and once every root is
\* watched there is one.
LEMMA ReportsType ==
  ASSUME NEW p \in Paths
  PROVE  Reports(p) \in Nat /\ (watched = Roots => Reports(p) > 0)
<1> DEFINE S == RootsOf[p] \cap watched
<1>1. RootsOf[p] \subseteq Roots /\ RootsOf[p] # {}
  BY RootsAssumption
<1>2. IsFiniteSet(RootsOf[p])
  BY <1>1, RootsAssumption, FS_Subset
<1>3. IsFiniteSet(S)
  <2>1. S \subseteq RootsOf[p]
    OBVIOUS
  <2> QED
    BY <1>2, <2>1, FS_Subset
<1>4. Cardinality(S) \in Nat /\ (Cardinality(S) = 0 <=> S = {})
  <2> HIDE DEF S
  <2> QED
    BY <1>3, FS_CardinalityType, FS_EmptySet
<1>5. watched = Roots => S # {}
  BY <1>1
<1>6. Reports(p) = IF PerRoot \/ Cardinality(S) = 0 THEN Cardinality(S) ELSE 1
  BY DEF Reports
<1> HIDE DEF S
<1> QED
  BY <1>4, <1>5, <1>6

LEMMA SeenType ==
  ASSUME NEW p \in Paths, NEW m \in Telling
  PROVE  Seen(p, m) \in Seq(Telling)
<1>1. Reports(p) \in Nat
  BY ReportsType
<1> QED
  BY <1>1 DEF Seen

LEMMA ConcatType ==
  ASSUME NEW S, NEW q \in Seq(S), NEW r \in Seq(S)
  PROVE  q \o r \in Seq(S)
  OBVIOUS

\* Mentioning a path distributes over the operations of a queue.
LEMMA MentionsConcat ==
  ASSUME NEW q \in Seq(Telling), NEW r \in Seq(Telling), NEW p
  PROVE  Mentions(q \o r, p) <=> Mentions(q, p) \/ Mentions(r, p)
<1>1. /\ q \o r \in Seq(Telling)
      /\ Len(q \o r) = Len(q) + Len(r)
      /\ \A i \in 1 .. Len(q) : (q \o r)[i] = q[i]
      /\ \A i \in 1 .. Len(r) : (q \o r)[Len(q) + i] = r[i]
  OBVIOUS
<1>2. ASSUME Mentions(q, p) PROVE Mentions(q \o r, p)
  BY <1>1, <1>2 DEF Mentions
<1>3. ASSUME Mentions(r, p) PROVE Mentions(q \o r, p)
  <2>1. PICK i \in 1 .. Len(r) : p \in r[i].paths
    BY <1>3 DEF Mentions
  <2>2. Len(q) + i \in DOMAIN (q \o r)
    BY <1>1, <2>1
  <2> QED
    BY <1>1, <2>1, <2>2 DEF Mentions
<1>4. ASSUME Mentions(q \o r, p) PROVE Mentions(q, p) \/ Mentions(r, p)
  <2>1. PICK i \in 1 .. Len(q) + Len(r) : p \in (q \o r)[i].paths
    BY <1>1, <1>4 DEF Mentions
  <2>2. CASE i <= Len(q)
    BY <1>1, <2>1, <2>2 DEF Mentions
  <2>3. CASE i > Len(q)
    <3>1. i - Len(q) \in 1 .. Len(r) /\ i = Len(q) + (i - Len(q))
      BY <2>1, <2>3
    <3> QED
      BY <1>1, <2>1, <3>1 DEF Mentions
  <2> QED
    BY <2>2, <2>3
<1> QED
  BY <1>2, <1>3, <1>4

LEMMA MentionsAppend ==
  ASSUME NEW q \in Seq(Telling), NEW m \in Telling, NEW p
  PROVE  Mentions(Append(q, m), p) <=> Mentions(q, p) \/ p \in m.paths
  BY SMTT(30) DEF Mentions

LEMMA MentionsTail ==
  ASSUME NEW q \in Seq(Telling), q # <<>>, NEW p
  PROVE  Mentions(q, p) => p \in Head(q).paths \/ Mentions(Tail(q), p)
<1>1. /\ Len(Tail(q)) = Len(q) - 1
      /\ \A i \in 1 .. Len(q) - 1 : Tail(q)[i] = q[i + 1]
      /\ Head(q) = q[1]
      /\ DOMAIN Tail(q) = 1 .. Len(q) - 1
  OBVIOUS
<1> SUFFICES ASSUME NEW i \in 1 .. Len(q), p \in q[i].paths, i # 1
             PROVE  Mentions(Tail(q), p)
  BY <1>1 DEF Mentions
<1>2. i - 1 \in 1 .. Len(q) - 1 /\ (i - 1) + 1 = i
  OBVIOUS
<1> QED
  BY <1>1, <1>2 DEF Mentions

LEMMA MentionsSeen ==
  ASSUME NEW q \in Paths, NEW m \in Telling, NEW p \in m.paths,
         watched = Roots
  PROVE  Mentions(Seen(q, m), p)
<1>1. 1 \in 1 .. Reports(q)
  BY ReportsType
<1>2. 1 \in DOMAIN Seen(q, m) /\ Seen(q, m)[1] = m
  BY <1>1 DEF Seen
<1> QED
  BY <1>2 DEF Mentions

\* However a rename is reported, the new name is among what is told.
LEMMA RenameTells ==
  ASSUME NEW p \in Paths, NEW q \in Paths, NEW msgs \in RenameReports(p, q)
  PROVE  msgs \in Seq(Telling) /\ (watched = Roots => Mentions(msgs, q))
<1> DEFINE kind == Reported(files[p])
           old == Seen(p, RenameMessage(p))
           new == Seen(q, RenameMessage(q))
           gone == Seen(p, RemoveMessage(p, kind))
           here == Seen(q, CreateMessage(q, kind))
           both == <<BothMessage(p, q)>>
<1>1. /\ old \in Seq(Telling) /\ new \in Seq(Telling)
      /\ gone \in Seq(Telling) /\ here \in Seq(Telling)
  <2> HIDE DEF kind
  <2> QED
    BY MessagesTell, SeenType
<1>2. both \in Seq(Telling)
  BY BothTells
<1>3. watched = Roots => Mentions(new, q) /\ Mentions(here, q)
  <2> HIDE DEF kind
  <2> QED
    BY MessagesTell, MentionsSeen
<1>4. msgs \in {old \o new, gone \o here, Append(old \o new, BothMessage(p, q))}
  BY DEF RenameReports
<1> HIDE DEF old, new, gone, here
<1>5. /\ old \o new \in Seq(Telling) /\ gone \o here \in Seq(Telling)
      /\ watched = Roots => Mentions(old \o new, q) /\ Mentions(gone \o here, q)
  BY <1>1, <1>3, ConcatType, MentionsConcat
<1>6. /\ Append(old \o new, BothMessage(p, q)) \in Seq(Telling)
      /\ watched = Roots
           => Mentions(Append(old \o new, BothMessage(p, q)), q)
  BY <1>5, BothTells, AppendOne, MentionsAppend
<1> QED
  BY <1>4, <1>5, <1>6

-----------------------------------------------------------------------------
\* What a chain makes the operating system report is worth telling, and an
\* entry it creates is among it.
LEMMA ChainTells ==
  ASSUME NEW p \in Paths, NEW rule \in RuleRecords,
         NEW wrote \in BOOLEAN, NEW took \in BOOLEAN,
         NEW msgs \in ChainReports(p, rule, wrote, took)
  PROVE  /\ msgs \in Seq(Telling)
         /\ (watched = Roots /\ wrote /\ rule.dest \in Paths
               /\ files[rule.dest] = "absent") => Mentions(msgs, rule.dest)
<1> DEFINE kind == Reported(files[p])
           writes == wrote /\ rule.dest # NoPath
           created == Seen(rule.dest, CreateMessage(rule.dest, kind))
           changed == Seen(rule.dest, ModifyMessage(rule.dest))
           written == IF ~ writes THEN <<>>
                      ELSE IF files[rule.dest] = "absent" THEN created
                      ELSE changed
           removed == IF took /\ rule.takes THEN Seen(p, RemoveMessage(p, kind))
                      ELSE <<>>
           New == /\ watched = Roots /\ wrote /\ rule.dest \in Paths
                  /\ files[rule.dest] = "absent"
<1>0. <<>> \in Seq(Telling)
  OBVIOUS
<1>1. rule.dest = NoPath \/ rule.dest \in Paths
  BY DEF RuleRecords
<1>2. rule.dest \in Paths
        => /\ created \in Seq(Telling) /\ changed \in Seq(Telling)
           /\ watched = Roots => Mentions(created, rule.dest)
  <2> HIDE DEF kind
  <2> QED
    BY MessagesTell, SeenType, MentionsSeen
<1>3. Seen(p, RemoveMessage(p, kind)) \in Seq(Telling)
  <2> HIDE DEF kind
  <2> QED
    BY MessagesTell, SeenType
<1>4. written \in Seq(Telling) /\ (New => Mentions(written, rule.dest))
  <2> HIDE DEF created, changed
  <2> QED
    BY <1>0, <1>1, <1>2, NoPathAssumption
<1>5. removed \in Seq(Telling)
  <2> HIDE DEF kind
  <2> QED
    BY <1>0, <1>3
<1>6. \/ msgs = written \o removed
      \/ rule.dest \in Paths /\ msgs \in RenameReports(p, rule.dest)
  BY <1>1 DEF ChainReports
<1>7. CASE msgs = written \o removed
  <2> HIDE DEF written, removed
  <2> QED
    BY <1>4, <1>5, <1>7, ConcatType, MentionsConcat
<1>8. CASE rule.dest \in Paths /\ msgs \in RenameReports(p, rule.dest)
  BY <1>8, RenameTells
<1> QED
  BY <1>6, <1>7, <1>8

\* So it is with the report of a changed attribute before it.
LEMMA AttributeTells ==
  ASSUME NEW p \in Paths, NEW msgs \in Seq(Telling)
  PROVE  /\ AttributeReport(p) \o msgs \in Seq(Telling)
         /\ \A q : Mentions(msgs, q) => Mentions(AttributeReport(p) \o msgs, q)
<1>1. Seen(p, ModifyMessage(p)) \in Seq(Telling)
  BY MessagesTell, SeenType
<1>3. <<>> \in Seq(Telling)
  OBVIOUS
<1>2. AttributeReport(p) \in Seq(Telling)
  BY <1>1, <1>3 DEF AttributeReport
<1> QED
  BY <1>2, ConcatType, MentionsConcat

\* Only telling notifications enter the two queues.
LEMMA StepQueues ==
  ASSUME RouterInv, QueuesTell, [WatchNext]_allVars
  PROVE  QueuesTell'
PROOF
<1> USE DEF QueuesTell
<1>1. ASSUME NEW p \in Paths, NEW kind \in Kinds, CreateFile(p, kind)
      PROVE  QueuesTell'
  BY <1>1, MessagesTell, SeenType, NotifyType DEF CreateFile, UserChanges
<1>2. ASSUME NEW p \in Paths, ModifyFile(p)
      PROVE  QueuesTell'
  BY <1>2, MessagesTell, SeenType, NotifyType DEF ModifyFile, UserChanges
<1>3. ASSUME NEW p \in Paths, DeleteFile(p)
      PROVE  QueuesTell'
  BY <1>3, MessagesTell, SeenType, NotifyType DEF DeleteFile, UserChanges
<1>4. ASSUME NEW p \in Paths, NEW q \in Paths, RenameFile(p, q)
      PROVE  QueuesTell'
  <2>1. PICK msgs \in RenameReports(p, q) : Notify(msgs)
    BY <1>4 DEF RenameFile
  <2>2. os' \in Seq(Telling)
    BY <2>1, RenameTells, NotifyType
  <2> QED
    BY <1>4, <2>2 DEF RenameFile, UserChanges
<1>5. CASE Callback
  <2>1. os # <<>> /\ Head(os) \in Telling /\ os' \in Seq(Telling)
    BY <1>5, HeadTail DEF Callback
  <2>2. chan' \in Seq(Telling)
    BY <1>5, <2>1, AppendOne DEF Callback, Send, vars
  <2> QED
    BY <1>5, <2>1, <2>2 DEF Callback
<1>6. CASE MainThread
  BY <1>6 DEF MainThread, MainProceeds, Register, RegisterFails, SpawnScan, CompileRules,
              Return, vars
<1>7. ASSUME NEW r \in Roots, NEW p \in Paths, Visit(r, p)
      PROVE  QueuesTell'
  BY <1>7, MessagesTell DEF Visit, Found, vars
<1>8. CASE WalkDone \/ ScanDone
  BY <1>8 DEF WalkDone, ScanDone, vars
<1>9. ASSUME NEW found \in todo, ScanSend(found)
      PROVE  QueuesTell'
  BY <1>9, AppendOne DEF ScanSend, Send
<1>10. CASE RouterRuns /\ OtherRouterStep
  <2>1. os' = os /\ todo' = todo
    BY <1>10 DEF OtherRouterStep, ownVars
  <2>2. chan' = chan \/ (chan # <<>> /\ chan' = Tail(chan))
    BY <1>10 DEF OtherRouterStep, Receive, Tick, TakePath, BatchDone, SkipRule,
                 StartChain, RulesDone, Suspend, Stop
  <2> QED
    BY <2>1, <2>2, HeadTail
<1>11. ASSUME NEW wrote \in BOOLEAN, NEW took \in BOOLEAN,
              WatchedEndChain(wrote, took)
       PROVE  QueuesTell'
  <2>1. cur.path \in Paths /\ Rules[ruleNo] \in RuleRecords
    BY <1>11, RulesAssumption
       DEF WatchedEndChain, EndChain, RouterInv, InHand, RuleIds
  <2>2. \A msgs \in ChainReports(cur.path, Rules[ruleNo], wrote, took) :
          AttributeReport(cur.path) \o msgs \in Seq(Telling)
    BY <2>1, ChainTells, AttributeTells
  <2>3. os' \in Seq(Telling)
    BY <1>11, <2>2, NotifyType DEF WatchedEndChain
  <2> QED
    BY <1>11, <2>3 DEF WatchedEndChain, EndChain
<1>12. CASE Outside
  BY <1>12 DEF Outside, Elapse, Interrupt, ownVars
<1>13. CASE UNCHANGED allVars
  BY <1>13 DEF allVars, ownVars, vars
<1>14. CASE ReadBatch
  BY <1>14 DEF ReadBatch, vars
<1> QED
  BY <1>1, <1>2, <1>3, <1>4, <1>5, <1>6, <1>7, <1>8, <1>9, <1>10, <1>11,
     <1>12, <1>13, <1>14 DEF WatchNext, RouterRuns, ScanThread, Users

\* Every step of the closed system is one the router's interface allows.
LEMMA StepRouter ==
  ASSUME RouterInv, QueuesTell, [WatchNext]_allVars
  PROVE  [Next]_vars
PROOF
<1> USE DEF Next, RouterStep
<1>1. ASSUME NEW p \in Paths, NEW kind \in Kinds \cup {"absent"},
             SetFile(p, kind), UserChanges
      PROVE  [Next]_vars
  BY <1>1 DEF ChangeFiles, UserChanges
<1>2. CASE Users
  <2>1. ASSUME NEW p \in Paths, NEW kind \in Kinds, CreateFile(p, kind)
        PROVE  [Next]_vars
    BY <1>1, <2>1 DEF CreateFile
  <2>2. ASSUME NEW p \in Paths, ModifyFile(p) \/ DeleteFile(p)
        PROVE  [Next]_vars
    BY <1>1, <2>2 DEF ModifyFile, DeleteFile, Kinds
  <2>3. ASSUME NEW p \in Paths, NEW q \in Paths, RenameFile(p, q)
        PROVE  [Next]_vars
    BY <2>3 DEF RenameFile, UserChanges, ChangeFiles
  <2> QED
    BY <1>2, <2>1, <2>2, <2>3 DEF Users
<1>3. CASE Callback
  <2>1. Head(os) \in Messages
    BY <1>3, HeadTail DEF Callback, QueuesTell, Telling
  <2> QED
    BY <1>3, <2>1 DEF Callback
<1>4. ASSUME NEW found \in todo, ScanSend(found)
      PROVE  [Next]_vars
  BY <1>4 DEF ScanSend, QueuesTell, Telling
<1>5. CASE MainThread
  BY <1>5 DEF MainThread, MainProceeds, Register, RegisterFails, SpawnScan, CompileRules,
              Return
<1>6. CASE (\E r \in Roots, p \in Paths : Visit(r, p)) \/ WalkDone \/ ScanDone
  BY <1>6 DEF Visit, WalkDone, ScanDone
<1>7. CASE RouterRuns
  BY <1>7 DEF RouterRuns, OtherRouterStep, WatchedEndChain
<1>8. CASE Outside
  BY <1>8 DEF Outside
<1>9. CASE UNCHANGED allVars
  BY <1>9 DEF allVars
<1>10. CASE ReadBatch
  BY <1>10 DEF ReadBatch
<1> QED
  BY <1>2, <1>3, <1>4, <1>5, <1>6, <1>7, <1>8, <1>9, <1>10 DEF WatchNext, ScanThread

\* The invariants of the router hold of the closed system, whose queues carry
\* only notifications that tell it something.
LEMMA ClosedInvariant == WatchSpec => [](RouterInv /\ QueuesTell)
<1>1. StartInit => RouterInv /\ QueuesTell
  BY InitRouterInv DEF StartInit, Init, QueuesTell
<1>2. RouterInv /\ QueuesTell /\ [WatchNext]_allVars
        => (RouterInv /\ QueuesTell)'
  BY StepRouter, StepQueues, StepRouterInv
<1> QED
  BY <1>1, <1>2, PTL DEF WatchSpec

\* The senders start_watching installs respect the interface of the event
\* loop: what is proved of it for any environment holds in the program.
THEOREM WatcherImplementsRouter == WatchSpec => ImplementsRouter
<1>1. StartInit => Init
  BY DEF StartInit
<1>2. RouterInv /\ QueuesTell /\ [WatchNext]_allVars => [Next]_vars
  BY StepRouter
<1> QED
  BY <1>1, <1>2, ClosedInvariant, PTL DEF WatchSpec, ImplementsRouter, Spec

-----------------------------------------------------------------------------
(***************************************************************************)
(* No file is missed.  The inductive invariant says where an entry that     *)
(* exists is, from the moment the walk begins: noticed, in one of the two   *)
(* queues, ahead of the walk, or among what the scan has yet to send.       *)
(***************************************************************************)
Phases ==
  /\ main = "registering" => scan = "off"
  /\ main \in {"compiling", "routing", "returned"} => watched = Roots
  /\ main \in MainStates
  /\ scan \in ScanStates
  /\ scan # "walking" => unvisited = {}
  /\ scan \in {"off", "done"} => todo = {}

Located(p) ==
  \/ got[p] > 0
  \/ InFlight(p)
  \/ \E r \in Roots : <<r, p>> \in unvisited
  \/ \E found \in todo : p \in found.event.paths

Scanning == scan \in {"walking", "sending", "done"} /\ gaps = {} /\ ~ Closed

Tracked == Scanning => \A p \in Paths : files[p] # "absent" => Located(p)

WatchInv == RouterInv /\ QueuesTell /\ Phases /\ Tracked

\* The stages of the main thread and of the scan fit together.
LEMMA StepPhases ==
  ASSUME Phases, [WatchNext]_allVars
  PROVE  Phases'
PROOF
<1> USE DEF Phases, MainStates, ScanStates
<1>1. CASE UNCHANGED <<main, watched, scan, unvisited, todo>>
  BY <1>1
<1>2. CASE Users \/ ReadBatch \/ Callback \/ RouterRuns \/ Outside \/ UNCHANGED allVars
  BY <1>1, <1>2
     DEF Users, CreateFile, ModifyFile, DeleteFile, RenameFile, UserChanges,
         ReadBatch, Callback, RouterRuns, OtherRouterStep, WatchedEndChain, Outside,
         allVars, ownVars
<1>3. CASE MainThread
  BY <1>3 DEF MainThread, MainProceeds, Register, RegisterFails, SpawnScan, CompileRules,
              Return, Starting, AllWatched
<1>4. CASE ScanThread
  BY <1>4 DEF ScanThread, Visit, WalkDone, ScanSend, ScanDone
<1> QED
  BY <1>2, <1>3, <1>4 DEF WatchNext

\* While the scan is under way every root is watched, so a notification that
\* is not lost enters the queue, and what was in it stays.
LEMMA NotifyMentions ==
  ASSUME os \in Seq(Telling), NEW msgs \in Seq(Telling), Notify(msgs),
         gaps' = {}, NEW p
  PROVE  Mentions(os', p) <=> Mentions(os, p) \/ Mentions(msgs, p)
<1>1. os' = os \o msgs
  BY DEF Notify
<1> QED
  BY <1>1, MentionsConcat

\* A path keeps its place when only notifications are added.
LEMMA LocatedStays ==
  ASSUME NEW p \in Paths, Located(p),
         UNCHANGED <<got, chan, unvisited, todo>>,
         Mentions(os, p) => Mentions(os', p)
  PROVE  Located(p)'
  BY DEF Located, InFlight, Mentions

\* What users do leaves every entry located.
LEMMA UsersTracked ==
  ASSUME RouterInv, QueuesTell, Phases, Tracked, Users
  PROVE  Tracked'
PROOF
<1> SUFFICES ASSUME Scanning', NEW p \in Paths, files'[p] # "absent"
             PROVE  Located(p)'
  BY DEF Tracked
<1>1. UserChanges
  BY DEF Users, CreateFile, ModifyFile, DeleteFile, RenameFile
<1>2. gaps' = {} /\ gaps = {} /\ UNCHANGED <<main, router, scan>>
  BY <1>1 DEF UserChanges, Scanning, Users, CreateFile, ModifyFile,
              DeleteFile, RenameFile, Notify
<1>3. Scanning /\ watched = Roots
  BY <1>2 DEF Scanning, Closed, Finished, Phases, MainStates
<1>4. UNCHANGED <<got, chan, unvisited, todo>>
  BY <1>1 DEF UserChanges
<1>5. ASSUME NEW msgs \in Seq(Telling), Notify(msgs),
             files[p] = "absent" => Mentions(msgs, p)
      PROVE  Located(p)'
  <2>1. Mentions(os', p) <=> Mentions(os, p) \/ Mentions(msgs, p)
    BY <1>2, <1>5, NotifyMentions DEF QueuesTell
  <2>2. CASE files[p] = "absent"
    BY <1>5, <2>1, <2>2 DEF Located, InFlight, Mentions
  <2>3. CASE files[p] # "absent"
    BY <1>3, <1>4, <2>1, <2>3, LocatedStays DEF Tracked
  <2> QED
    BY <2>2, <2>3
<1>6. ASSUME NEW q \in Paths, NEW kind \in Kinds, CreateFile(q, kind)
      PROVE  Located(p)'
  <2> DEFINE m == CreateMessage(q, Reported(kind))
  <2>1. m \in Telling /\ q \in m.paths /\ Seen(q, m) \in Seq(Telling)
    BY MessagesTell, SeenType
  <2>2. Mentions(Seen(q, m), q)
    BY <1>3, <2>1, MentionsSeen
  <2>3. files[p] = "absent" => p = q
    BY <1>6 DEF CreateFile, SetFile
  <2> QED
    BY <1>5, <1>6, <2>1, <2>2, <2>3 DEF CreateFile
<1>7. ASSUME NEW q \in Paths, ModifyFile(q)
      PROVE  Located(p)'
  <2>1. Seen(q, ModifyMessage(q)) \in Seq(Telling)
    BY MessagesTell, SeenType
  <2>2. files[p] # "absent"
    BY <1>7 DEF ModifyFile, SetFile
  <2> QED
    BY <1>5, <1>7, <2>1, <2>2 DEF ModifyFile
<1>8. ASSUME NEW q \in Paths, DeleteFile(q)
      PROVE  Located(p)'
  <2>1. Seen(q, RemoveMessage(q, Reported(files[q]))) \in Seq(Telling)
    BY MessagesTell, SeenType
  <2>2. files[p] # "absent"
    BY <1>8 DEF DeleteFile, SetFile
  <2> QED
    BY <1>5, <1>8, <2>1, <2>2 DEF DeleteFile
<1>9. ASSUME NEW q \in Paths, NEW r \in Paths, RenameFile(q, r)
      PROVE  Located(p)'
  <2>1. PICK msgs \in RenameReports(q, r) : Notify(msgs)
    BY <1>9 DEF RenameFile
  <2>2. msgs \in Seq(Telling) /\ Mentions(msgs, r)
    BY <1>3, <2>1, RenameTells
  <2>3. files[p] = "absent" => p = r
    BY <1>9 DEF RenameFile, MoveFile, RouterInv, TypeOK
  <2> QED
    BY <1>5, <2>1, <2>2, <2>3
<1> QED
  BY <1>6, <1>7, <1>8, <1>9 DEF Users

\* A chain of the router leaves every entry located.
LEMMA ChainTracked ==
  ASSUME RouterInv, QueuesTell, Phases, Tracked, main = "routing",
         NEW wrote \in BOOLEAN, NEW took \in BOOLEAN,
         WatchedEndChain(wrote, took)
  PROVE  Tracked'
PROOF
<1> SUFFICES ASSUME Scanning', NEW p \in Paths, files'[p] # "absent"
             PROVE  Located(p)'
  BY DEF Tracked
<1> DEFINE rule == Rules[ruleNo]
<1>1. /\ cur.path \in Paths
      /\ rule \in RuleRecords
      /\ router = "chain"
      /\ watched = Roots
  BY RulesAssumption
     DEF WatchedEndChain, EndChain, RouterInv, InHand, RuleIds, Phases
<1>2. UNCHANGED <<got, chan, unvisited, todo, main, scan>>
  BY DEF WatchedEndChain, EndChain
<1>3. gaps = {} /\ gaps' = {}
  BY DEF WatchedEndChain, Scanning, Notify
<1>4. Scanning
  BY <1>1, <1>2, <1>3 DEF Scanning, Closed, Finished
<1>5. files'[p] = ChainResult(cur.path, rule, wrote, took)[p]
  BY DEF WatchedEndChain, EndChain
<1>6. CASE files[cur.path] = "absent"
  <2>1. os' = os /\ files[p] # "absent"
    BY <1>5, <1>6 DEF WatchedEndChain, EndChain, ChainResult
  <2> QED
    BY <1>2, <1>4, <2>1, LocatedStays DEF Tracked, Mentions
<1>7. CASE files[cur.path] # "absent"
  <2>1. PICK msgs \in ChainReports(cur.path, rule, wrote, took) :
          Notify(AttributeReport(cur.path) \o msgs)
    BY <1>7 DEF WatchedEndChain
  <2> DEFINE reports == AttributeReport(cur.path) \o msgs
  <2>2. /\ reports \in Seq(Telling)
        /\ \A q : Mentions(msgs, q) => Mentions(reports, q)
    BY <1>1, <2>1, ChainTells, AttributeTells
  <2> HIDE DEF reports
  <2>3. Mentions(os', p) <=> Mentions(os, p) \/ Mentions(reports, p)
    BY <1>3, <2>1, <2>2, NotifyMentions DEF QueuesTell, reports
  <2>4. CASE files[p] # "absent"
    BY <1>2, <1>4, <2>3, <2>4, LocatedStays DEF Tracked
  <2>5. CASE files[p] = "absent"
    <3>1. wrote /\ p = rule.dest
      BY <1>5, <2>5 DEF ChainResult
    <3>2. Mentions(msgs, p)
      BY <1>1, <2>1, <2>5, <3>1, ChainTells
    <3> QED
      BY <2>2, <2>3, <3>2 DEF Located, InFlight, Mentions
  <2> QED
    BY <2>4, <2>5
<1> QED
  BY <1>6, <1>7

\* What the router takes from the channel it counts.
LEMMA ReceiveTracked ==
  ASSUME RouterInv, QueuesTell, Tracked, main = "routing", Receive,
         UNCHANGED ownVars
  PROVE  Tracked'
PROOF
<1> SUFFICES ASSUME Scanning', NEW p \in Paths, files'[p] # "absent"
             PROVE  Located(p)'
  BY DEF Tracked
<1> DEFINE m == Head(chan)
<1>1. UNCHANGED <<os, unvisited, todo, scan, gaps, main>> /\ files' = files
  BY DEF ownVars, history, Receive
<1>2. Scanning
  BY <1>1 DEF Receive, Selecting, Scanning, Closed, Finished
<1>3. Located(p)
  BY <1>1, <1>2 DEF Tracked
<1>4. chan # <<>> /\ chan' = Tail(chan) /\ m \in Telling
  BY HeadTail DEF Receive, QueuesTell
<1>5. got[p] \in Nat /\ got \in [Paths -> Nat]
  BY DEF RouterInv, TypeOK
<1>6. got'[p] = IF p \in m.paths /\ ToConfigEvent(m.raw) # None
                THEN got[p] + 1 ELSE got[p]
  BY DEF Receive
<1>7. p \in m.paths => got'[p] > 0
  BY <1>4, <1>5, <1>6 DEF Telling
<1>8. got[p] > 0 => got'[p] > 0
  BY <1>5, <1>6
<1>9. Mentions(chan, p) => got'[p] > 0 \/ Mentions(chan', p)
  BY <1>4, <1>7, MentionsTail DEF QueuesTell
<1> QED
  BY <1>1, <1>3, <1>8, <1>9 DEF Located, InFlight, Mentions

\* A notification passes from one queue to the next, or from the scan.
LEMMA HandedOn ==
  ASSUME chan \in Seq(Telling), NEW m \in Telling, Send(m), NEW p
  PROVE  /\ Mentions(chan', p) <=> Mentions(chan, p) \/ p \in m.paths
         /\ UNCHANGED <<files, got, router>>
  BY MentionsAppend DEF Send

LEMMA CallbackTracked ==
  ASSUME QueuesTell, Tracked, Callback
  PROVE  Tracked'
PROOF
<1> SUFFICES ASSUME Scanning', NEW p \in Paths, files'[p] # "absent"
             PROVE  Located(p)'
  BY DEF Tracked
<1>1. os # <<>> /\ os' = Tail(os) /\ Head(os) \in Telling
  BY HeadTail DEF Callback, QueuesTell
<1>2. UNCHANGED <<main, scan, unvisited, todo, gaps>>
  BY DEF Callback, history
<1>3. Send(Head(os))
  BY <1>2 DEF Callback, vars, Scanning, Closed, Finished
<1>4. /\ Mentions(chan', p) <=> Mentions(chan, p) \/ p \in Head(os).paths
      /\ UNCHANGED <<files, got, router>>
  BY <1>1, <1>3, HandedOn DEF QueuesTell
<1>5. Located(p)
  BY <1>2, <1>4 DEF Tracked, Scanning, Closed, Finished
<1>6. Mentions(os, p) => p \in Head(os).paths \/ Mentions(os', p)
  BY <1>1, MentionsTail DEF QueuesTell
<1> QED
  BY <1>2, <1>4, <1>5, <1>6 DEF Located, InFlight, Mentions

LEMMA ScanTracked ==
  ASSUME QueuesTell, Phases, Tracked, ScanThread
  PROVE  Tracked'
PROOF
<1> SUFFICES ASSUME Scanning', NEW p \in Paths, files'[p] # "absent"
             PROVE  Located(p)'
  BY DEF Tracked
<1>1. ASSUME NEW r \in Roots, NEW q \in Paths, Visit(r, q)
      PROVE  Located(p)'
  <2>1. UNCHANGED <<files, got, chan, os, main, scan, router>>
    BY <1>1 DEF Visit, vars
  <2>2. gaps = {} /\ gaps' = {}
    BY <1>1 DEF Visit, Scanning
  <2>3. Located(p)
    BY <2>1, <2>2 DEF Tracked, Scanning, Closed, Finished
  <2>4. todo' = IF files[q] = "absent" THEN todo
                ELSE todo \cup {Found(r, q, files[q])}
    BY <1>1, <2>2 DEF Visit
  <2>5. unvisited' = unvisited \ {<<r, q>>}
    BY <1>1 DEF Visit
  <2>6. q \in Found(r, q, files[q]).event.paths
    BY MessagesTell DEF Found
  <2>7. p = q => \E found \in todo' : p \in found.event.paths
    BY <2>1, <2>4, <2>6
  <2> QED
    BY <2>1, <2>3, <2>4, <2>5, <2>7 DEF Located, InFlight, Mentions
<1>2. CASE WalkDone
  <2>1. UNCHANGED <<files, got, chan, os, main, router, unvisited, todo, gaps>>
    BY <1>2 DEF WalkDone, vars, history
  <2>2. Located(p)
    BY <1>2, <2>1 DEF WalkDone, Tracked, Scanning, Closed, Finished
  <2> QED
    BY <2>1, <2>2, LocatedStays DEF Mentions
<1>3. ASSUME NEW found \in todo, ScanSend(found)
      PROVE  Located(p)'
  <2> DEFINE m == found.event
  <2>1. m \in Telling /\ chan \in Seq(Telling) /\ Send(m)
    BY <1>3 DEF QueuesTell, ScanSend
  <2>2. /\ Mentions(chan', p) <=> Mentions(chan, p) \/ p \in m.paths
        /\ UNCHANGED <<files, got, router>>
    BY <2>1, HandedOn
  <2>3. /\ todo' = todo \ {found}
        /\ UNCHANGED <<main, os, scan, unvisited, gaps>>
    BY <1>3 DEF ScanSend, history
  <2>4. Located(p)
    BY <2>2, <2>3 DEF Tracked, Scanning, Closed, Finished
  <2> QED
    BY <2>2, <2>3, <2>4 DEF Located, InFlight, Mentions
<1>4. CASE ScanDone
  <2>1. /\ UNCHANGED <<files, got, chan, os, main, router, unvisited, gaps>>
        /\ todo = {} /\ todo' = {}
    BY <1>4 DEF ScanDone, vars, history, Scanning, Closed, Finished
  <2>2. Located(p)
    BY <1>4, <2>1 DEF ScanDone, Tracked, Scanning, Closed, Finished
  <2> QED
    BY <2>1, <2>2, LocatedStays DEF Mentions
<1> QED
  BY <1>1, <1>2, <1>3, <1>4 DEF ScanThread

LEMMA StepTracked ==
  ASSUME RouterInv, QueuesTell, Phases, Tracked, [WatchNext]_allVars
  PROVE  Tracked'
PROOF
<1>1. ASSUME UNCHANGED <<files, got, chan, os, unvisited, todo, scan, gaps>>,
             Scanning' => Scanning
      PROVE  Tracked'
  BY <1>1, LocatedStays DEF Tracked, Mentions
<1>2. CASE SpawnScan
  <2>1. Scanning' => unvisited' = Walk
    BY <1>2 DEF SpawnScan, Scanning, Phases, Starting
  <2>2. \A p \in Paths : \E r \in Roots : <<r, p>> \in Walk
    BY RootsAssumption DEF Walk
  <2> QED
    BY <2>1, <2>2 DEF Tracked, Located
<1>3. CASE MainThread /\ ~ SpawnScan
  BY <1>1, <1>3 DEF MainThread, MainProceeds, Register, RegisterFails, CompileRules, Return,
                    Starting, vars, history, Scanning, Closed, Finished
<1>4. CASE RouterRuns /\ Receive /\ UNCHANGED ownVars
  BY <1>4, ReceiveTracked DEF RouterRuns
<1>5. CASE RouterRuns /\ OtherRouterStep /\ ~ Receive
  <2>1. UNCHANGED <<files, got, chan>>
    BY <1>5 DEF OtherRouterStep, Tick, TakePath, BatchDone, SkipRule,
                StartChain, RulesDone, Suspend, Stop
  <2>2. UNCHANGED <<os, unvisited, todo, scan, gaps, main>>
    BY <1>5 DEF OtherRouterStep, ownVars, history
  <2>3. router \notin {"stopped", "killed"}
    BY <1>5 DEF OtherRouterStep, Tick, TakePath, BatchDone, SkipRule,
                StartChain, RulesDone, Suspend, Stop, Selecting
  <2> QED
    BY <1>1, <2>1, <2>2, <2>3 DEF Scanning, Closed, Finished
<1>6. CASE RouterRuns /\ ~ OtherRouterStep
  BY <1>6, ChainTracked DEF RouterRuns
<1>7. CASE Outside
  BY <1>1, <1>7 DEF Outside, Elapse, Interrupt, ownVars, history, Scanning,
                    Closed, Finished
<1>8. CASE UNCHANGED allVars
  BY <1>1, <1>8 DEF allVars, ownVars, vars, history, Scanning, Closed, Finished
<1>9. CASE ReadBatch
  BY <1>1, <1>9 DEF ReadBatch, vars, history, Scanning, Closed, Finished
<1> QED
  BY <1>2, <1>3, <1>4, <1>5, <1>6, <1>7, <1>8, <1>9, ScanTracked, CallbackTracked,
     UsersTracked DEF WatchNext, RouterRuns, OtherRouterStep

\* Once the startup scan is over, every entry below the watched folders has
\* been noticed or is about to be, unless a loss was noted.
THEOREM NoFileIsMissed == WatchSpec => []NoFileMissed
<1>1. StartInit => WatchInv
  BY InitRouterInv
     DEF StartInit, WatchInv, Init, QueuesTell, Phases, Tracked, Scanning,
         MainStates, ScanStates
<1>2. WatchInv /\ [WatchNext]_allVars => WatchInv'
  BY StepRouter, StepQueues, StepRouterInv, StepPhases, StepTracked
     DEF WatchInv
<1>3. WatchInv => NoFileMissed
  BY DEF WatchInv, Phases, Tracked, Scanning, Located, NoFileMissed
<1> QED
  BY <1>1, <1>2, <1>3, PTL DEF WatchSpec

-----------------------------------------------------------------------------
(***************************************************************************)
(* The scan adds at most one run per root.  Notifications are conserved:    *)
(* those that came to name a path are in one of the two queues, or the      *)
(* router counted them; what is counted beyond is what the walks below the  *)
(* roots have sent, one for each root a path lies in, which they still owe  *)
(* while they are ahead of the path.                                        *)
(***************************************************************************)
Ahead(r, p) ==
  \/ scan = "off"
  \/ <<r, p>> \in unvisited
  \/ \E found \in todo : found.root = r /\ p \in found.event.paths

Passed(p) == {r \in RootsOf[p] : ~ Ahead(r, p)}

Allowance(p) == IF ScanOnStart THEN Cardinality(Passed(p)) ELSE 0

\* What a walk has collected names each path once, when it has passed it.
ScanNames ==
  /\ ~ ScanOnStart => scan = "off"
  /\ unvisited \subseteq Walk
  /\ \A found \in todo : \A p \in found.event.paths :
       found.root \in RootsOf[p] /\ <<found.root, p>> \notin unvisited
  /\ \A f, g \in todo :
       f.root = g.root /\ f.event.paths \cap g.event.paths # {} => f = g

CountsHold(p) ==
  /\ notified[p] \in Nat
  /\ got[p] + Naming(chan, p) + Naming(os, p) <= notified[p] + Allowance(p)

Conserved == \A p \in Paths : CountsHold(p)

ConservedInv == RouterInv /\ QueuesTell /\ Phases /\ ScanNames /\ Conserved

\* The allowance is a number, at most that of the roots, and grows as the
\* walks pass the path.
LEMMA AllowanceType ==
  ASSUME NEW p \in Paths
  PROVE  /\ IsFiniteSet(Passed(p))
         /\ Allowance(p) \in Nat
         /\ Cardinality(RootsOf[p]) \in Nat
         /\ Allowance(p) <= IF ScanOnStart THEN Cardinality(RootsOf[p]) ELSE 0
<1>1. IsFiniteSet(RootsOf[p])
  <2>1. RootsOf[p] \subseteq Roots
    BY RootsAssumption
  <2> QED
    BY <2>1, RootsAssumption, FS_Subset
<1>2. Passed(p) \subseteq RootsOf[p]
  BY DEF Passed
<1>3. /\ IsFiniteSet(Passed(p))
      /\ Cardinality(Passed(p)) <= Cardinality(RootsOf[p])
  BY <1>1, <1>2, FS_Subset
<1>4. Cardinality(Passed(p)) \in Nat /\ Cardinality(RootsOf[p]) \in Nat
  BY <1>1, <1>3, FS_CardinalityType
<1> QED
  BY <1>3, <1>4 DEF Allowance

LEMMA AllowanceGrows ==
  ASSUME NEW p \in Paths,
         \A r \in RootsOf[p] : Ahead(r, p)' => Ahead(r, p)
  PROVE  Allowance(p)' \in Nat /\ Allowance(p) <= Allowance(p)'
<1>1. IsFiniteSet(RootsOf[p])
  <2>1. RootsOf[p] \subseteq Roots
    BY RootsAssumption
  <2> QED
    BY <2>1, RootsAssumption, FS_Subset
<1>2. Passed(p) \subseteq Passed(p)' /\ Passed(p)' \subseteq RootsOf[p]
  BY DEF Passed
<1>3. IsFiniteSet(Passed(p)')
  BY <1>1, <1>2, FS_Subset
<1>4. /\ Cardinality(Passed(p)) <= Cardinality(Passed(p)')
      /\ Cardinality(Passed(p)') \in Nat
  BY <1>2, <1>3, FS_Subset, FS_CardinalityType
<1> QED
  BY <1>4 DEF Allowance

\* The positions of a queue that name a path are finitely many.
LEMMA NamingType ==
  ASSUME NEW q \in Seq(Telling), NEW p
  PROVE  /\ IsFiniteSet({i \in DOMAIN q : p \in q[i].paths})
         /\ Naming(q, p) \in Nat
<1>1. IsFiniteSet(1 .. Len(q)) /\ DOMAIN q = 1 .. Len(q)
  BY FS_Interval
<1>2. {i \in DOMAIN q : p \in q[i].paths} \in SUBSET (1 .. Len(q))
  BY <1>1
<1>3. IsFiniteSet({i \in DOMAIN q : p \in q[i].paths})
  BY <1>1, <1>2, FS_Subset
<1> QED
  BY <1>3, FS_CardinalityType DEF Naming

\* What CountsHold says of a path, and the counts are natural numbers.
LEMMA Counted ==
  ASSUME RouterInv, QueuesTell, NEW p \in Paths, CountsHold(p)
  PROVE  /\ got[p] + Naming(chan, p) + Naming(os, p) <= notified[p] + Allowance(p)
         /\ notified[p] \in Nat /\ got[p] \in Nat
         /\ Naming(chan, p) \in Nat /\ Naming(os, p) \in Nat
         /\ Allowance(p) \in Nat
<1>1. /\ got[p] + Naming(chan, p) + Naming(os, p) <= notified[p] + Allowance(p)
      /\ notified[p] \in Nat
  BY DEF CountsHold
<1>2. got[p] \in Nat
  BY DEF RouterInv, TypeOK
<1>3. Naming(chan, p) \in Nat /\ Naming(os, p) \in Nat
  BY NamingType DEF QueuesTell
<1>4. Allowance(p) \in Nat
  BY AllowanceType
<1> QED
  BY <1>1, <1>2, <1>3, <1>4

\* An empty queue names nothing, and one notification names a path or not.
LEMMA NamingFew ==
  ASSUME NEW m, NEW p
  PROVE  /\ Naming(<<>>, p) = 0
         /\ Naming(<<m>>, p) = IF p \in m.paths THEN 1 ELSE 0
<1>1. {i \in DOMAIN <<>> : p \in <<>>[i].paths} = {}
  OBVIOUS
<1>2. {i \in DOMAIN <<m>> : p \in <<m>>[i].paths}
        = IF p \in m.paths THEN {1} ELSE {}
  OBVIOUS
<1> QED
  BY <1>1, <1>2, FS_EmptySet, FS_Singleton DEF Naming

\* Counting the notifications that name a path adds up over two queues.
LEMMA NamingConcat ==
  ASSUME NEW q \in Seq(Telling), NEW r \in Seq(Telling), NEW p
  PROVE  Naming(q \o r, p) = Naming(q, p) + Naming(r, p)
<1> DEFINE A == {i \in 1 .. Len(q) : p \in q[i].paths}
           B == {i \in 1 .. Len(r) : p \in r[i].paths}
           C == {Len(q) + i : i \in B}
           shift == [i \in B |-> Len(q) + i]
<1>1. /\ Len(q) \in Nat /\ Len(r) \in Nat
      /\ DOMAIN q = 1 .. Len(q) /\ DOMAIN r = 1 .. Len(r)
      /\ DOMAIN (q \o r) = 1 .. Len(q) + Len(r)
      /\ \A i \in 1 .. Len(q) : (q \o r)[i] = q[i]
      /\ \A i \in 1 .. Len(r) : (q \o r)[Len(q) + i] = r[i]
  OBVIOUS
<1>2. /\ Naming(q, p) = Cardinality(A) /\ IsFiniteSet(A)
      /\ Naming(r, p) = Cardinality(B) /\ IsFiniteSet(B)
  BY <1>1, NamingType DEF Naming
<1>3. IsFiniteSet(C) /\ Cardinality(C) = Cardinality(B)
  <2>1. B \subseteq Nat
    OBVIOUS
  <2> HIDE DEF B
  <2>2. /\ \A x, y \in B : shift[x] = shift[y] => x = y
        /\ \A c \in C : \E x \in B : shift[x] = c
        /\ shift \in [B -> C]
    <3>1. \A x \in B : shift[x] = Len(q) + x /\ Len(q) + x \in C
      OBVIOUS
    <3>2. ASSUME NEW x \in B, NEW y \in B, shift[x] = shift[y]
          PROVE  x = y
      <4>1. Len(q) + x = Len(q) + y
        BY <3>1, <3>2
      <4>2. Len(q) \in Nat /\ x \in Nat /\ y \in Nat
        BY <1>1, <2>1
      <4> QED
        BY ONLY <4>1, <4>2
    <3>3. ASSUME NEW c \in C PROVE \E x \in B : shift[x] = c
      <4>1. PICK x \in B : c = Len(q) + x
        OBVIOUS
      <4> QED
        BY <3>1, <4>1
    <3>4. shift \in [B -> C]
      OBVIOUS
    <3> QED
      BY <3>2, <3>3, <3>4
  <2>4. shift \in Bijection(B, C)
    <3> HIDE DEF shift, C
    <3> QED
      BY <2>2 DEF Bijection, Injection, Surjection, IsInjective
  <2>3. ExistsBijection(B, C)
    BY <2>4 DEF ExistsBijection
  <2> QED
    BY <1>2, <2>3, FS_Bijection
<1>4. {i \in DOMAIN (q \o r) : p \in (q \o r)[i].paths} = A \cup C
  <2>1. ASSUME NEW i \in 1 .. Len(q) + Len(r), i > Len(q)
        PROVE  p \in (q \o r)[i].paths <=> i \in C
    <3>1. i - Len(q) \in 1 .. Len(r) /\ i = Len(q) + (i - Len(q))
      BY <1>1, <2>1
    <3>2. (q \o r)[i] = r[i - Len(q)]
      BY <1>1, <3>1
    <3>3. i \in C <=> i - Len(q) \in B
      BY <1>1, <3>1
    <3> QED
      BY <3>1, <3>2, <3>3
  <2>2. C \subseteq 1 .. Len(q) + Len(r) /\ \A i \in C : i > Len(q)
    BY <1>1
  <2>3. \A i \in 1 .. Len(q) : p \in (q \o r)[i].paths <=> i \in A
    BY <1>1
  <2>4. A \subseteq 1 .. Len(q)
    OBVIOUS
  <2>5. \A i \in 1 .. Len(q) + Len(r) :
          p \in (q \o r)[i].paths <=> i \in A \cup C
    <3>1. ASSUME NEW i \in 1 .. Len(q) + Len(r)
          PROVE  p \in (q \o r)[i].paths <=> i \in A \cup C
      <4> HIDE DEF A, C
      <4>1. CASE i > Len(q)
        <5>1. i \notin A
          BY <1>1, <2>4, <4>1
        <5> QED
          BY <2>1, <4>1, <5>1
      <4>2. CASE ~ i > Len(q)
        <5>1. i \in 1 .. Len(q) /\ i \notin C
          BY <1>1, <2>2, <4>2
        <5> QED
          BY <2>3, <5>1
      <4> QED
        BY <4>1, <4>2
    <3> QED
      BY <3>1
  <2>6. A \cup C \subseteq 1 .. Len(q) + Len(r)
    <3> HIDE DEF A, C
    <3> QED
      BY <1>1, <2>2, <2>4
  <2> HIDE DEF A, C
  <2> QED
    BY <1>1, <2>5, <2>6
<1>5. A \cap C = {}
  BY <1>1
<1>6. Cardinality(A \cup C) = Cardinality(A) + Cardinality(C)
  <2> HIDE DEF A, B, C
  <2>1. Cardinality(A) \in Nat /\ Cardinality(C) \in Nat
    BY <1>2, <1>3, FS_CardinalityType
  <2>2. Cardinality(A \cap C) = 0
    BY <1>5, FS_EmptySet
  <2>3. Cardinality(A \cup C)
          = Cardinality(A) + Cardinality(C) - Cardinality(A \cap C)
    BY <1>2, <1>3, FS_Union
  <2> QED
    BY <2>1, <2>2, <2>3
<1> QED
  BY <1>2, <1>3, <1>4, <1>6 DEF Naming

\* Appending a notification, and taking the first one, count by one.
LEMMA NamingEnds ==
  ASSUME NEW q \in Seq(Telling), NEW m \in Telling, NEW p
  PROVE  /\ Naming(Append(q, m), p)
              = Naming(q, p) + (IF p \in m.paths THEN 1 ELSE 0)
         /\ q # <<>> => Naming(q, p)
              = (IF p \in Head(q).paths THEN 1 ELSE 0) + Naming(Tail(q), p)
<1>1. Append(q, m) = q \o <<m>> /\ <<m>> \in Seq(Telling)
  OBVIOUS
<1>2. Naming(Append(q, m), p)
        = Naming(q, p) + (IF p \in m.paths THEN 1 ELSE 0)
  <2>1. Naming(q \o <<m>>, p) = Naming(q, p) + Naming(<<m>>, p)
    BY <1>1, NamingConcat
  <2>2. Naming(<<m>>, p) = IF p \in m.paths THEN 1 ELSE 0
    BY NamingFew
  <2> QED
    BY <1>1, <2>1, <2>2, Zenon
<1>3. ASSUME q # <<>>
      PROVE  Naming(q, p)
               = (IF p \in Head(q).paths THEN 1 ELSE 0) + Naming(Tail(q), p)
  <2>1. /\ q = <<Head(q)>> \o Tail(q)
        /\ <<Head(q)>> \in Seq(Telling) /\ Tail(q) \in Seq(Telling)
    BY <1>3
  <2>2. Naming(<<Head(q)>> \o Tail(q), p)
          = Naming(<<Head(q)>>, p) + Naming(Tail(q), p)
    BY <2>1, NamingConcat
  <2>3. Naming(<<Head(q)>>, p) = IF p \in Head(q).paths THEN 1 ELSE 0
    BY NamingFew
  <2> QED
    BY <2>1, <2>2, <2>3
<1> QED
  BY <1>2, <1>3

\* The scan passes an entry once and sends what it noted of it once.
LEMMA StepScanNames ==
  ASSUME Phases, ScanNames, [WatchNext]_allVars
  PROVE  ScanNames'
PROOF
<1> USE DEF ScanNames
<1>1. CASE UNCHANGED <<scan, unvisited, todo>>
  BY <1>1
<1>2. CASE Users \/ ReadBatch \/ Callback \/ RouterRuns \/ Outside \/ UNCHANGED allVars
  BY <1>1, <1>2
     DEF Users, CreateFile, ModifyFile, DeleteFile, RenameFile, UserChanges,
         ReadBatch, Callback, RouterRuns, OtherRouterStep, WatchedEndChain, Outside,
         allVars, ownVars
<1>3. CASE MainThread
  BY <1>1, <1>3 DEF MainThread, MainProceeds, Register, RegisterFails, SpawnScan,
              CompileRules, Return, Starting, Phases
<1>4. ASSUME NEW r \in Roots, NEW p \in Paths, Visit(r, p)
      PROVE  ScanNames'
  <2>1. /\ scan' = scan /\ scan = "walking" /\ <<r, p>> \in unvisited
        /\ unvisited' = unvisited \ {<<r, p>>}
        /\ todo' = todo \/ todo' = todo \cup {Found(r, p, files[p])}
    BY <1>4 DEF Visit
  <2>2. /\ Found(r, p, files[p]).event.paths = {p}
        /\ Found(r, p, files[p]).root = r
    BY DEF Found, CreateMessage
  <2>3. r \in RootsOf[p]
    BY <2>1 DEF Walk
  <2>4. \A found \in todo : found.root = r => p \notin found.event.paths
    BY <2>1
  <2> HIDE DEF Found
  <2> QED
    BY <2>1, <2>2, <2>3, <2>4
<1>5. CASE WalkDone \/ ScanDone
  BY <1>5 DEF WalkDone, ScanDone, Phases
<1>6. ASSUME NEW found \in todo, ScanSend(found)
      PROVE  ScanNames'
  BY <1>6 DEF ScanSend, Phases
<1> QED
  BY <1>2, <1>3, <1>4, <1>5, <1>6 DEF WatchNext, ScanThread

\* The counts hold as long as the queues and the counters stay, whatever the
\* scan passes.
LEMMA CountsStay ==
  ASSUME RouterInv, QueuesTell, NEW p \in Paths, CountsHold(p),
         UNCHANGED <<got, chan, os, notified>>,
         \A r \in RootsOf[p] : Ahead(r, p)' => Ahead(r, p)
  PROVE  CountsHold(p)'
<1>1. Naming(chan, p)' = Naming(chan, p) /\ Naming(os, p)' = Naming(os, p)
  BY DEF Naming
<1>2. Allowance(p)' \in Nat /\ Allowance(p) \in Nat /\ Allowance(p) <= Allowance(p)'
  BY AllowanceType, AllowanceGrows
<1>3. /\ got[p] + Naming(chan, p) + Naming(os, p) <= notified[p] + Allowance(p)
      /\ notified[p] \in Nat /\ got[p] \in Nat
      /\ Naming(chan, p) \in Nat /\ Naming(os, p) \in Nat
  BY Counted
<1>4. got[p] + Naming(chan, p) + Naming(os, p) <= notified[p] + Allowance(p)'
  BY ONLY <1>2, <1>3
<1> QED
  BY <1>1, <1>3, <1>4 DEF CountsHold

\* What Notify lets in it counts; a Rescan names no path.
LEMMA NotifyCounts ==
  ASSUME RouterInv, QueuesTell, NEW msgs \in Seq(Telling), Notify(msgs),
         NEW p \in Paths, CountsHold(p),
         UNCHANGED <<got, chan, scan, unvisited, todo>>
  PROVE  CountsHold(p)'
<1>1. Naming(chan, p)' = Naming(chan, p) /\ Allowance(p)' = Allowance(p)
  BY DEF Naming, Allowance, Passed, Ahead
<1>2. /\ got[p] + Naming(chan, p) + Naming(os, p) <= notified[p] + Allowance(p)
      /\ notified[p] \in Nat /\ got[p] \in Nat
      /\ Naming(chan, p) \in Nat /\ Naming(os, p) \in Nat
      /\ Allowance(p) \in Nat
  BY Counted
<1>3. CASE Fits(msgs)
  <2>1. Naming(os, p)' = Naming(os \o msgs, p)
    BY <1>3 DEF Notify, Naming
  <2>2. Naming(os \o msgs, p) = Naming(os, p) + Naming(msgs, p)
    BY NamingConcat DEF QueuesTell
  <2>3. notified'[p] = notified[p] + Naming(msgs, p)
    BY <1>3 DEF Notify
  <2>4. Naming(msgs, p) \in Nat
    BY NamingType
  <2>5. /\ got[p] + Naming(chan, p) + (Naming(os, p) + Naming(msgs, p))
             <= (notified[p] + Naming(msgs, p)) + Allowance(p)
        /\ notified[p] + Naming(msgs, p) \in Nat
    <3>1. ASSUME NEW g \in Nat, NEW c \in Nat, NEW o \in Nat, NEW n \in Nat,
                 NEW a \in Nat, NEW k \in Nat, g + c + o <= n + a
          PROVE  g + c + (o + k) <= (n + k) + a /\ n + k \in Nat
      BY ONLY <3>1
    <3> QED
      BY ONLY <1>2, <2>4, <3>1, SMTT(30)
  <2> QED
    BY <1>1, <2>1, <2>2, <2>3, <2>5, Zenon DEF CountsHold
<1>4. CASE ~ Fits(msgs)
  <2>1. RescanMessage \in Telling /\ RescanMessage.paths = {}
    BY DEF RescanMessage, Telling, Messages, RawKinds
  <2>2. Naming(Append(os, RescanMessage), p) = Naming(os, p)
    <3>1. Naming(Append(os, RescanMessage), p)
            = Naming(os, p) + (IF p \in RescanMessage.paths THEN 1 ELSE 0)
      BY <2>1, NamingEnds, Zenon DEF QueuesTell
    <3>2. p \notin RescanMessage.paths
      BY <2>1
    <3> QED
      BY ONLY <1>2, <3>1, <3>2
  <2>3. os' = Marked(os) /\ notified' = notified
    BY <1>4 DEF Notify
  <2>4. Naming(os', p) = Naming(os, p)
    BY <2>2, <2>3 DEF Marked
  <2>5. Naming(os, p)' = Naming(os', p)
    BY DEF Naming
  <2> QED
    BY <1>1, <1>2, <2>3, <2>4, <2>5, Zenon DEF CountsHold
<1> QED
  BY <1>3, <1>4

\* A notification sent enters the count of the channel.
LEMMA SendCounts ==
  ASSUME QueuesTell, NEW m \in Telling, Send(m), NEW p \in Paths
  PROVE  /\ Naming(chan, p)'
              = Naming(chan, p) + (IF p \in m.paths THEN 1 ELSE 0)
         /\ got' = got
<1>1. chan' = Append(chan, m) /\ got' = got
  BY DEF Send
<1>2. Naming(chan, p)' = Naming(chan', p)
  BY DEF Naming
<1> QED
  BY <1>1, <1>2, NamingEnds DEF QueuesTell

LEMMA UsersCounts ==
  ASSUME RouterInv, QueuesTell, NEW p \in Paths, CountsHold(p), Users
  PROVE  CountsHold(p)'
<1>1. UNCHANGED <<got, chan, scan, unvisited, todo>>
  BY DEF Users, CreateFile, ModifyFile, DeleteFile, RenameFile, UserChanges
<1>2. ASSUME NEW msgs \in Seq(Telling), Notify(msgs)
      PROVE  CountsHold(p)'
  BY <1>1, <1>2, NotifyCounts
<1>3. ASSUME NEW q \in Paths, NEW kind \in Kinds, CreateFile(q, kind)
      PROVE  CountsHold(p)'
  <2>1. Seen(q, CreateMessage(q, Reported(kind))) \in Seq(Telling)
    BY MessagesTell, SeenType
  <2> QED
    BY <1>2, <1>3, <2>1 DEF CreateFile
<1>4. ASSUME NEW q \in Paths, ModifyFile(q)
      PROVE  CountsHold(p)'
  <2>1. Seen(q, ModifyMessage(q)) \in Seq(Telling)
    BY MessagesTell, SeenType
  <2> QED
    BY <1>2, <1>4, <2>1 DEF ModifyFile
<1>5. ASSUME NEW q \in Paths, DeleteFile(q)
      PROVE  CountsHold(p)'
  <2>1. Seen(q, RemoveMessage(q, Reported(files[q]))) \in Seq(Telling)
    BY MessagesTell, SeenType
  <2> QED
    BY <1>2, <1>5, <2>1 DEF DeleteFile
<1>6. ASSUME NEW q \in Paths, NEW r \in Paths, RenameFile(q, r)
      PROVE  CountsHold(p)'
  <2>1. PICK msgs \in RenameReports(q, r) : Notify(msgs)
    BY <1>6 DEF RenameFile
  <2> QED
    BY <1>2, <2>1, RenameTells
<1> QED
  BY <1>3, <1>4, <1>5, <1>6 DEF Users

\* The watcher thread moves a notification from one queue to the other, or
\* drops it when the loop has ended.
LEMMA CallbackCounts ==
  ASSUME RouterInv, QueuesTell, NEW p \in Paths, CountsHold(p), Callback
  PROVE  CountsHold(p)'
<1>1. /\ os # <<>> /\ os' = Tail(os) /\ Head(os) \in Telling
      /\ Tail(os) \in Seq(Telling)
  BY HeadTail DEF Callback, QueuesTell
<1>2. /\ notified' = notified /\ Allowance(p)' = Allowance(p)
      /\ Naming(os, p)' = Naming(os', p)
  BY DEF Callback, history, Allowance, Passed, Ahead, Naming
<1>3. Naming(os, p)
        = (IF p \in Head(os).paths THEN 1 ELSE 0) + Naming(Tail(os), p)
  BY <1>1, NamingEnds DEF QueuesTell
<1>4. /\ got[p] + Naming(chan, p) + Naming(os, p) <= notified[p] + Allowance(p)
      /\ notified[p] \in Nat /\ got[p] \in Nat
      /\ Naming(chan, p) \in Nat /\ Naming(os, p) \in Nat
      /\ Allowance(p) \in Nat
  BY Counted
<1>. DEFINE first == IF p \in Head(os).paths THEN 1 ELSE 0
<1>7. first \in Nat /\ Naming(Tail(os), p) \in Nat
  BY <1>1, NamingType
<1>8. Naming(os, p) = first + Naming(Tail(os), p)
  BY <1>3
<1>. HIDE DEF first
<1>5. CASE Send(Head(os))
  <2>1. /\ Naming(chan, p)'
             = Naming(chan, p) + first
        /\ got' = got
    BY <1>1, <1>5, SendCounts DEF first
  <2>2. got[p] + (Naming(chan, p) + first) + Naming(Tail(os), p)
          <= notified[p] + Allowance(p)
    BY ONLY <1>4, <1>7, <1>8
  <2> QED
    BY <1>1, <1>2, <1>4, <2>1, <2>2, Zenon DEF CountsHold
<1>6. CASE UNCHANGED vars
  <2>1. got' = got /\ Naming(chan, p)' = Naming(chan, p)
    BY <1>6 DEF vars, Naming
  <2>2. got[p] + Naming(chan, p) + Naming(Tail(os), p) <= notified[p] + Allowance(p)
    BY ONLY <1>4, <1>7, <1>8
  <2> QED
    BY <1>1, <1>2, <1>4, <2>1, <2>2, Zenon DEF CountsHold
<1> QED
  BY <1>5, <1>6 DEF Callback

\* The router counts what it takes from the channel.
LEMMA ReceiveCounts ==
  ASSUME RouterInv, QueuesTell, NEW p \in Paths, CountsHold(p), Receive,
         UNCHANGED ownVars
  PROVE  CountsHold(p)'
<1>1. /\ chan # <<>> /\ chan' = Tail(chan) /\ Tail(chan) \in Seq(Telling)
      /\ Head(chan) \in Telling
  BY HeadTail DEF Receive, QueuesTell
<1>2. /\ notified' = notified /\ Allowance(p)' = Allowance(p)
      /\ Naming(os, p)' = Naming(os, p) /\ Naming(chan, p)' = Naming(chan', p)
  BY DEF ownVars, history, Allowance, Passed, Ahead, Naming
<1>3. Naming(chan, p)
        = (IF p \in Head(chan).paths THEN 1 ELSE 0) + Naming(Tail(chan), p)
  BY <1>1, NamingEnds DEF QueuesTell
<1>4. /\ got[p] + Naming(chan, p) + Naming(os, p) <= notified[p] + Allowance(p)
      /\ notified[p] \in Nat /\ got[p] \in Nat
      /\ Naming(chan, p) \in Nat /\ Naming(os, p) \in Nat
      /\ Allowance(p) \in Nat
  BY Counted
<1>5. Naming(Tail(chan), p) \in Nat
  BY <1>1, NamingType
<1>6. /\ p \notin Head(chan).paths => got'[p] = got[p]
      /\ got'[p] = got[p] \/ got'[p] = got[p] + 1
  BY DEF Receive
<1>7. got'[p] + Naming(Tail(chan), p) + Naming(os, p) <= notified[p] + Allowance(p)
  <2>1. CASE p \in Head(chan).paths
    <3>1. Naming(chan, p) = 1 + Naming(Tail(chan), p)
      BY <1>3, <2>1
    <3> QED
      BY ONLY <1>4, <1>5, <1>6, <3>1
  <2>2. CASE p \notin Head(chan).paths
    <3>1. Naming(chan, p) = 0 + Naming(Tail(chan), p)
      BY <1>3, <2>2
    <3>2. got'[p] = got[p]
      BY <1>6, <2>2
    <3> QED
      BY ONLY <1>4, <1>5, <3>1, <3>2
  <2> QED
    BY <2>1, <2>2
<1> QED
  BY <1>1, <1>2, <1>4, <1>7, Zenon DEF CountsHold

\* What the scan sends of a path it has passed is what it was allowed.
LEMMA ScanCounts ==
  ASSUME RouterInv, QueuesTell, Phases, ScanNames,
         NEW p \in Paths, CountsHold(p), ScanThread
  PROVE  CountsHold(p)'
<1>1. ASSUME NEW r \in Roots, NEW q \in Paths, Visit(r, q)
      PROVE  CountsHold(p)'
  <2>1. UNCHANGED <<got, chan, os, notified, scan>>
    BY <1>1 DEF Visit, vars
  <2>2. \A t \in RootsOf[p] : Ahead(t, p)' => Ahead(t, p)
    <3>1. \/ todo' = todo
          \/ todo' = todo \cup {Found(r, q, files[q])}
      BY <1>1 DEF Visit
    <3>2. <<r, q>> \in unvisited /\ unvisited' = unvisited \ {<<r, q>>}
      BY <1>1 DEF Visit
    <3>3. /\ Found(r, q, files[q]).event.paths = {q}
          /\ Found(r, q, files[q]).root = r
      BY DEF Found, CreateMessage
    <3> QED
      BY <2>1, <3>1, <3>2, <3>3 DEF Ahead
  <2> QED
    BY <2>1, <2>2, CountsStay
<1>2. CASE WalkDone \/ ScanDone
  <2>1. UNCHANGED <<got, chan, os, notified>>
    BY <1>2 DEF WalkDone, ScanDone, vars, history
  <2>2. \A t \in RootsOf[p] : Ahead(t, p)' => Ahead(t, p)
    BY <1>2 DEF WalkDone, ScanDone, Ahead
  <2> QED
    BY <2>1, <2>2, CountsStay
<1>3. ASSUME NEW found \in todo, ScanSend(found)
      PROVE  CountsHold(p)'
  <2> DEFINE m == found.event
  <2>1. /\ m \in Telling /\ Send(m) /\ scan = "sending" /\ scan' = scan
        /\ todo' = todo \ {found} /\ UNCHANGED <<os, unvisited, notified>>
    BY <1>3 DEF QueuesTell, ScanSend, history
  <2>2. /\ Naming(chan, p)'
             = Naming(chan, p) + (IF p \in m.paths THEN 1 ELSE 0)
        /\ got' = got
    BY <2>1, SendCounts
  <2>3. /\ got[p] + Naming(chan, p) + Naming(os, p) <= notified[p] + Allowance(p)
        /\ notified[p] \in Nat /\ got[p] \in Nat
        /\ Naming(chan, p) \in Nat /\ Naming(os, p) \in Nat
        /\ Allowance(p) \in Nat
    BY Counted
  <2>4. Naming(os, p)' = Naming(os, p)
    BY <2>1 DEF Naming
  <2>5. CASE p \in m.paths
    <3>1. /\ found.root \in RootsOf[p] /\ Ahead(found.root, p)
          /\ ~ Ahead(found.root, p)' /\ ScanOnStart
      BY <2>1, <2>5 DEF Ahead, ScanNames, Phases
    <3>2. \A t \in RootsOf[p] \ {found.root} : Ahead(t, p)' <=> Ahead(t, p)
      BY <2>1 DEF Ahead
    <3>3. Allowance(p)' = Allowance(p) + 1
      <4>1. /\ Passed(p)' = Passed(p) \cup {found.root}
            /\ found.root \notin Passed(p)
        BY <3>1, <3>2 DEF Passed
      <4>2. Cardinality(Passed(p) \cup {found.root}) = Cardinality(Passed(p)) + 1
        BY <4>1, AllowanceType, FS_AddElement
      <4> QED
        BY <3>1, <4>1, <4>2 DEF Allowance
    <3>6. got[p] + (Naming(chan, p) + 1) + Naming(os, p)
            <= notified[p] + (Allowance(p) + 1)
      BY ONLY <2>3
    <3>4. Naming(chan, p)' = Naming(chan, p) + 1
      BY <2>2, <2>5
    <3>5. notified'[p] = notified[p] /\ got'[p] = got[p]
      BY <2>1, <2>2
    <3> QED
      BY <2>3, <2>4, <3>3, <3>4, <3>5, <3>6, Zenon DEF CountsHold
  <2>6. CASE p \notin m.paths
    <3>1. \A t \in RootsOf[p] : Ahead(t, p)' => Ahead(t, p)
      BY <2>1 DEF Ahead
    <3>2. Allowance(p)' \in Nat /\ Allowance(p) <= Allowance(p)'
      BY <3>1, AllowanceGrows
    <3>3. got[p] + Naming(chan, p) + Naming(os, p) <= notified[p] + Allowance(p)'
      BY ONLY <2>3, <3>2
    <3>4. Naming(chan, p)' = Naming(chan, p)
      BY <2>2, <2>3, <2>6
    <3>5. notified'[p] = notified[p] /\ got'[p] = got[p]
      BY <2>1, <2>2
    <3> QED
      BY <2>3, <2>4, <3>3, <3>4, <3>5, Zenon DEF CountsHold
  <2> QED
    BY <2>5, <2>6
<1> QED
  BY <1>1, <1>2, <1>3 DEF ScanThread

LEMMA StepConserved ==
  ASSUME ConservedInv, [WatchNext]_allVars
  PROVE  Conserved'
PROOF
<1> SUFFICES ASSUME NEW p \in Paths PROVE CountsHold(p)'
  BY DEF Conserved
<1> USE DEF ConservedInv
<1>1. CountsHold(p)
  BY DEF Conserved
<1>2. ASSUME UNCHANGED <<got, chan, os, notified, scan, unvisited, todo>>
      PROVE  CountsHold(p)'
  BY <1>1, <1>2, CountsStay DEF Ahead
<1>3. CASE SpawnScan
  <2>1. UNCHANGED <<got, chan, os, notified>>
    BY <1>3 DEF SpawnScan, vars
  <2>2. \A t \in RootsOf[p] : Ahead(t, p)
    BY <1>3 DEF SpawnScan, Starting, Phases, Ahead
  <2> QED
    BY <1>1, <2>1, <2>2, CountsStay
<1>4. CASE MainThread /\ ~ SpawnScan
  BY <1>2, <1>4 DEF MainThread, MainProceeds, Register, RegisterFails, CompileRules,
              Return, vars, history
<1>5. CASE RouterRuns /\ Receive /\ UNCHANGED ownVars
  BY <1>1, <1>5, ReceiveCounts
<1>6. CASE RouterRuns /\ OtherRouterStep /\ ~ Receive
  <2>1. UNCHANGED <<got, chan>>
    BY <1>6 DEF OtherRouterStep, Tick, TakePath, BatchDone, SkipRule,
                StartChain, RulesDone, Suspend, Stop
  <2>2. UNCHANGED <<os, notified, scan, unvisited, todo>>
    BY <1>6 DEF OtherRouterStep, ownVars, history
  <2> QED
    BY <1>2, <2>1, <2>2
<1>7. ASSUME NEW wrote \in BOOLEAN, NEW took \in BOOLEAN,
             WatchedEndChain(wrote, took)
      PROVE  CountsHold(p)'
  <2>1. cur.path \in Paths /\ Rules[ruleNo] \in RuleRecords
    BY <1>7, RulesAssumption
       DEF WatchedEndChain, EndChain, RouterInv, InHand, RuleIds
  <2>2. \A msgs \in ChainReports(cur.path, Rules[ruleNo], wrote, took) :
          AttributeReport(cur.path) \o msgs \in Seq(Telling)
    BY <2>1, ChainTells, AttributeTells
  <2>3. UNCHANGED <<got, chan, scan, unvisited, todo>>
    BY <1>7 DEF WatchedEndChain, EndChain
  <2>4. CASE \E msgs \in ChainReports(cur.path, Rules[ruleNo], wrote, took) :
               Notify(AttributeReport(cur.path) \o msgs)
    BY <1>1, <2>2, <2>3, <2>4, NotifyCounts
  <2>5. CASE UNCHANGED <<notified, os, gaps>>
    BY <1>2, <2>3, <2>5
  <2> QED
    BY <1>7, <2>4, <2>5 DEF WatchedEndChain
<1>8. CASE Outside
  BY <1>2, <1>8 DEF Outside, Elapse, Interrupt, ownVars, history
<1>9. CASE UNCHANGED allVars
  BY <1>2, <1>9 DEF allVars, ownVars, vars, history
<1>10. CASE ReadBatch
  BY <1>2, <1>10 DEF ReadBatch, vars, history
<1> QED
  BY <1>1, <1>3, <1>4, <1>5, <1>6, <1>7, <1>8, <1>9, <1>10, ScanCounts,
     CallbackCounts, UsersCounts DEF WatchNext, RouterRuns, OtherRouterStep

\* However scan and watch notifications interleave, a rule's chain runs for a
\* path at most once per notification of the watcher, and once for each watched
\* folder the scan finds it in.
THEOREM ScanAddsOneRunForEachRoot == WatchSpec => []ScanAddsOneRunPerRoot
<1>1. StartInit => ConservedInv
  <2> SUFFICES ASSUME StartInit PROVE ConservedInv
    OBVIOUS
  <2>1. RouterInv /\ QueuesTell /\ Phases /\ ScanNames
    BY InitRouterInv
       DEF StartInit, Init, QueuesTell, Phases, ScanNames, MainStates, ScanStates
  <2>2. ASSUME NEW p \in Paths PROVE CountsHold(p)
    <3>1. got[p] = 0 /\ notified[p] = 0 /\ chan = <<>> /\ os = <<>>
      BY DEF StartInit, Init
    <3>2. Naming(<<>>, p) = 0
      BY NamingFew
    <3> QED
      BY <3>1, <3>2, AllowanceType DEF CountsHold
  <2> QED
    BY <2>1, <2>2 DEF ConservedInv, Conserved
<1>2. ConservedInv /\ [WatchNext]_allVars => ConservedInv'
  <2> SUFFICES ASSUME ConservedInv, [WatchNext]_allVars PROVE ConservedInv'
    OBVIOUS
  <2>1. RouterInv' /\ QueuesTell' /\ Phases' /\ ScanNames'
    BY StepRouter, StepQueues, StepRouterInv, StepPhases, StepScanNames
       DEF ConservedInv
  <2> QED
    BY <2>1, StepConserved DEF ConservedInv
<1>3. ConservedInv => ScanAddsOneRunPerRoot
  <2> SUFFICES ASSUME ConservedInv, NEW p \in Paths, NEW r \in RuleIds
               PROVE  runs[p][r] <= notified[p] +
                        (IF ScanOnStart THEN Cardinality(RootsOf[p]) ELSE 0)
    BY DEF ScanAddsOneRunPerRoot
  <2>1. CountsHold(p) /\ RouterInv /\ QueuesTell
    BY DEF ConservedInv, Conserved
  <2>2. runs[p][r] + Open(p) + Owed(p, r) <= got[p]
    BY <2>1 DEF RouterInv, Budget
  <2>3. /\ runs[p][r] \in Nat /\ got[p] \in Nat
        /\ Open(p) \in Nat /\ Owed(p, r) \in Nat
    BY <2>1 DEF RouterInv, TypeOK, Open, Owed
  <2>4. Naming(chan, p) \in Nat /\ Naming(os, p) \in Nat
    BY <2>1, NamingType DEF QueuesTell
  <2>5. /\ Allowance(p) \in Nat /\ Cardinality(RootsOf[p]) \in Nat
        /\ Allowance(p) <= (IF ScanOnStart THEN Cardinality(RootsOf[p]) ELSE 0)
    BY AllowanceType
  <2>6. runs[p][r] <= notified[p] + Allowance(p) /\ notified[p] \in Nat
    <3>1. /\ got[p] + Naming(chan, p) + Naming(os, p) <= notified[p] + Allowance(p)
          /\ notified[p] \in Nat
      BY <2>1, Counted
    <3> QED
      BY ONLY <2>2, <2>3, <2>4, <2>5, <3>1
  <2> QED
    BY <2>3, <2>5, <2>6
<1> QED
  BY <1>1, <1>2, <1>3, PTL DEF WatchSpec
=============================================================================
