------------------------------- MODULE Router -------------------------------
(***************************************************************************)
(* The event loop of cat-watcher (router.rs): file-system notifications     *)
(* arrive on a bounded channel, are folded per path into a debounce map,    *)
(* and every path that has been quiet long enough is evaluated against the  *)
(* rules, whose action chains run inline in the loop.                       *)
(*                                                                          *)
(* The module is open: its environment may send any notification, change    *)
(* any file and press Ctrl+C at any time.  Module Watcher closes it with    *)
(* the producers start_watching really installs.                            *)
(***************************************************************************)
EXTENDS Naturals, Sequences

CONSTANTS
  Paths,      \* the entries below the watched folders
  NoPath,     \* "no path": a rule that writes no watched entry
  Rules,      \* the compiled rules, in the order of rules.toml
  Capacity,   \* slots of the detection channel (100 in watcher.rs)
  Quiet,      \* ages a path must reach without a new event (debounce_ms)
  HiddenAttribute, \* is "hidden" an attribute on disk (Windows) or a name
  MaxSends    \* bound of the model: notifications sent in a behaviour

(***************************************************************************)
(* Data of notifications and rules                                          *)
(***************************************************************************)
Events  == {"Create", "Modify", "Rename", "Delete"}
Kinds   == {"File", "Dir"}
Unknown == "Unknown"
None    == "None"
Targets == {"File", "Dir", "Both"}

\* The notify::EventKind values the two conversions below tell apart.
RawKinds == {"CreateFile", "CreateFolder", "CreateAny", "RemoveFile",
             "RemoveFolder", "RemoveAny", "ModifyName", "ModifyOther",
             "Other", "Error"}

Messages == [paths : SUBSET Paths, raw : RawKinds]

\* A compiled rule.  "scope" is the set of paths that lie in its watch folder
\* and pass the filters which read nothing but the name: file and folder
\* patterns, exclusions and, where names starting with a dot are the hidden
\* ones, include_hidden.  "takes" and "dest" say what its action chain does
\* below the watched folders when it succeeds: whether it removes the path
\* (move), and which watched path, if any, it writes.
RuleRecords == [enabled : BOOLEAN, target : Targets, scope : SUBSET Paths,
                includeHidden : BOOLEAN, events : SUBSET Events,
                takes : BOOLEAN, dest : Paths \cup {NoPath}]

RuleIds == 1 .. Len(Rules)

ASSUME NoPathAssumption   == NoPath \notin Paths
ASSUME RulesAssumption    == Rules \in Seq(RuleRecords)
ASSUME CapacityAssumption == Capacity \in Nat \ {0}
ASSUME QuietAssumption    == Quiet \in Nat
ASSUME HiddenAssumption   == HiddenAttribute \in BOOLEAN
ASSUME MaxSendsAssumption == MaxSends \in Nat

\* kind_from_notify_event: only Create and Remove can carry the entry kind.
KindFromNotifyEvent(raw) ==
  CASE raw \in {"CreateFile", "RemoveFile"}     -> "File"
    [] raw \in {"CreateFolder", "RemoveFolder"} -> "Dir"
    [] OTHER                                    -> Unknown

\* to_config_event: a rename is told from other modifications; access,
\* rescan and unclassified notifications concern no rule.
ToConfigEvent(raw) ==
  CASE raw \in {"CreateFile", "CreateFolder", "CreateAny"} -> "Create"
    [] raw \in {"RemoveFile", "RemoveFolder", "RemoveAny"} -> "Delete"
    [] raw = "ModifyName"                                  -> "Rename"
    [] raw = "ModifyOther"                                 -> "Modify"
    [] OTHER                                               -> None

-----------------------------------------------------------------------------
VARIABLES
  files,      \* kind of the entry at each path, or "absent"
  hidden,     \* the entries that carry the hidden attribute
  chan,       \* the mpsc channel of notifications
  pending,    \* the debounce map: events, age since the last one, kind
  ready,      \* the snapshot one timer tick takes of the quiet paths
  cur,        \* the snapshot entry whose rules are being evaluated
  ruleNo,     \* index of the rule evaluated next for cur
  router,     \* where run_router is
  sigint,     \* what a Ctrl+C would meet: see SigintStates
  pressed,    \* history: Ctrl+C was pressed during the chain that runs
  sent,       \* number of notifications sent (bounds the model)
  got,        \* history: notifications folded into pending, per path
  runs,       \* history: action chains started, per path and rule
  due         \* history: rules that matched when cur was taken

vars == <<files, hidden, chan, pending, ready, cur, ruleNo, router, sigint,
          pressed, sent, got, runs, due>>

\* An entry with no event stands for a path that is not in the map.
Entries == [events : SUBSET Events, age : 0 .. Quiet,
            kind : Kinds \cup {Unknown}]
Absent  == [events |-> {}, age |-> 0, kind |-> Unknown]

Snapshots == [events : SUBSET Events, kind : Kinds \cup {Unknown}]
NotReady  == [events |-> {}, kind |-> Unknown]

Confirmed == [path : Paths \cup {NoPath}, events : SUBSET Events,
              kind : Kinds \cup {Unknown}]
NoEntry   == [path |-> NoPath, events |-> {}, kind |-> Unknown]

\* "default": no handler yet, the process dies; "ignored": tokio's handler is
\* installed but no ctrl_c() future exists; "armed": the suspended select!
\* holds one; "fired": that future is ready.
SigintStates == {"default", "ignored", "armed", "fired"}

RouterStates == {"poll", "suspended", "batch", "rules", "chain", "stopped",
                 "killed"}

Finished == router \in {"stopped", "killed"}

Existing == {p \in Paths : files[p] # "absent"}

Init ==
  /\ files   \in [Paths -> Kinds \cup {"absent"}]
  /\ hidden  \in IF HiddenAttribute THEN SUBSET Existing ELSE {{}}
  /\ chan    = <<>>
  /\ pending = [p \in Paths |-> Absent]
  /\ ready   = [p \in Paths |-> NotReady]
  /\ cur     = NoEntry
  /\ ruleNo  = 1
  /\ router  = "poll"
  /\ sigint  = "default"
  /\ pressed = FALSE
  /\ sent    = 0
  /\ got     = [p \in Paths |-> 0]
  /\ runs    = [p \in Paths |-> [r \in RuleIds |-> 0]]
  /\ due     = {}

-----------------------------------------------------------------------------
(***************************************************************************)
(* Rule evaluation                                                          *)
(***************************************************************************)

\* Mutant of MatchesTarget: the entry is looked up even when its kind is known.
AlwaysLookUp(p, kind, rule) == rule.target \in {"Both", files[p]}

\* matches_target: an unknown kind is looked up on disk at this moment.
MatchesTarget(p, kind, rule) ==
  \/ rule.target = "Both"
  \/ kind = rule.target
  \/ kind = Unknown /\ files[p] = rule.target

\* matches_hidden: the attribute is read at this moment, unless the rule takes
\* hidden entries too; what does not exist is not hidden.
MatchesHidden(p, rule) == rule.includeHidden \/ p \notin hidden

EvaluateRule(c, rule) ==
  /\ rule.enabled
  /\ MatchesTarget(c.path, c.kind, rule)
  /\ MatchesHidden(c.path, rule)
  /\ c.path \in rule.scope
  /\ c.events \cap rule.events # {}

-----------------------------------------------------------------------------
(***************************************************************************)
(* The environment                                                          *)
(***************************************************************************)

\* Mutant of HasRoom: off by one.
RoomLate == Len(chan) <= Capacity

\* The channel has a free slot.
HasRoom == Len(chan) < Capacity

\* blocking_send by the watcher callback or the startup scan; it waits while
\* the channel is full and fails without effect once the receiver is dropped.
Send(m) ==
  /\ ~ Finished
  /\ HasRoom
  /\ sent < MaxSends
  /\ chan' = Append(chan, m)
  /\ sent' = sent + 1
  /\ UNCHANGED <<files, hidden, pending, ready, cur, ruleNo, router, sigint,
                 pressed, got, runs, due>>

\* The hidden attribute after a step that touches the entries of "touched":
\* it comes and goes with an entry and can be set or cleared (attrib).
Attributes(touched) ==
  /\ hidden' \in IF HiddenAttribute THEN SUBSET Existing' ELSE {{}}
  /\ hidden' \ touched = hidden \ touched

\* An entry is created, replaced, deleted, hidden or shown.
SetFile(p, kind) ==
  /\ files' = [files EXCEPT ![p] = kind]
  /\ Attributes({p})

\* An entry is renamed, with its attribute.
MoveFile(p, q) ==
  /\ files[p] # "absent"
  /\ p # q
  /\ files' = [files EXCEPT ![p] = "absent", ![q] = files[p]]
  /\ hidden' = IF p \in hidden THEN (hidden \ {p}) \cup {q} ELSE hidden \ {q}

\* Other programs change entries.
ChangeFiles ==
  /\ \/ \E p \in Paths, kind \in Kinds \cup {"absent"} : SetFile(p, kind)
     \/ \E p, q \in Paths : MoveFile(p, q)
  /\ UNCHANGED <<chan, pending, ready, cur, ruleNo, router, sigint, pressed,
                 sent, got, runs, due>>

\* The user presses Ctrl+C, once or again.
Interrupt ==
  /\ ~ Finished
  /\ pressed' = (pressed \/ router = "chain")
  /\ router' = IF sigint = "default" THEN "killed" ELSE router
  /\ sigint' = IF sigint = "armed" THEN "fired" ELSE sigint
  /\ UNCHANGED <<files, hidden, chan, pending, ready, cur, ruleNo, sent, got,
                 runs, due>>

\* Time passes.  An age stops at Quiet: more makes no difference to the code.
Elapse ==
  /\ ~ Finished
  /\ \E p \in Paths : pending[p].events # {} /\ pending[p].age < Quiet
  /\ pending' = [p \in Paths |->
                   IF pending[p].events # {} /\ pending[p].age < Quiet
                   THEN [pending[p] EXCEPT !.age = @ + 1]
                   ELSE pending[p]]
  /\ UNCHANGED <<files, hidden, chan, ready, cur, ruleNo, router, sigint,
                 pressed, sent, got, runs, due>>

-----------------------------------------------------------------------------
(***************************************************************************)
(* run_router                                                               *)
(***************************************************************************)

\* Taking another branch drops the ctrl_c() future of this iteration, with
\* the notification it may hold.  Whether the first iteration polled it at
\* all depends on select!'s random order.
DropCtrlC ==
  \/ sigint = "default" /\ sigint' = "default"
  \/ sigint' = "ignored"

\* Mutant of Selecting: a batch does not keep the loop from select!.
SelectingDuringBatch == router \in {"poll", "suspended", "batch"}

\* The loop is at its select!, not inside a branch.
Selecting == router \in {"poll", "suspended"}

\* Mutant of Settled: off by one at the boundary.
SettledLate(p) == pending[p].events # {} /\ pending[p].age > Quiet

\* The filter of branch (B): the path has been quiet for long enough.
Settled(p) == pending[p].events # {} /\ pending[p].age >= Quiet

\* Mutant of Without: the path stays in the map while it is handled.
Keeping(p) == pending

\* pending.remove(&path)
Without(p) == [pending EXCEPT ![p] = Absent]

\* Mutant of MergedKind: a notification without a kind erases the known one.
LastKind(p, kind) == kind

\* The kind noted for a path: a known kind replaces it, an unknown does not.
MergedKind(p, kind) == IF kind # Unknown THEN kind ELSE pending[p].kind

\* Branch (A): fold one notification into the debounce map.
Receive ==
  /\ Selecting
  /\ chan # <<>>
  /\ LET m == Head(chan)
         e == ToConfigEvent(m.raw)
         k == KindFromNotifyEvent(m.raw)
         touched == IF e = None THEN {} ELSE m.paths
     IN  /\ pending' = [p \in Paths |->
                          IF p \in touched
                          THEN [events |-> pending[p].events \cup {e},
                                age    |-> 0,
                                kind   |-> MergedKind(p, k)]
                          ELSE pending[p]]
         /\ got' = [p \in Paths |->
                      IF p \in touched THEN got[p] + 1 ELSE got[p]]
  /\ chan' = Tail(chan)
  /\ router' = "poll"
  /\ DropCtrlC
  /\ UNCHANGED <<files, hidden, ready, cur, ruleNo, pressed, sent, runs, due>>

\* Branch (B): the timer fires; snapshot the paths that have been quiet.
Tick ==
  /\ Selecting
  /\ ready' = [p \in Paths |->
                 IF Settled(p)
                 THEN [events |-> pending[p].events, kind |-> pending[p].kind]
                 ELSE NotReady]
  /\ router' = "batch"
  /\ DropCtrlC
  /\ UNCHANGED <<files, hidden, chan, pending, cur, ruleNo, pressed, sent,
                 got, runs, due>>

\* The next path of the snapshot, in the HashMap's order, leaves the map.
TakePath(p) ==
  /\ router = "batch"
  /\ ready[p].events # {}
  /\ pending' = Without(p)
  /\ ready' = [ready EXCEPT ![p] = NotReady]
  /\ cur' = [path |-> p, events |-> ready[p].events, kind |-> ready[p].kind]
  /\ ruleNo' = 1
  /\ due' = {r \in RuleIds : EvaluateRule(cur', Rules[r])}
  /\ router' = "rules"
  /\ UNCHANGED <<files, hidden, chan, sigint, pressed, sent, got, runs>>

BatchDone ==
  /\ router = "batch"
  /\ \A p \in Paths : ready[p].events = {}
  /\ router' = "poll"
  /\ UNCHANGED <<files, hidden, chan, pending, ready, cur, ruleNo, sigint,
                 pressed, sent, got, runs, due>>

\* The rule does not match at the moment it is evaluated.
SkipRule ==
  /\ router = "rules"
  /\ ruleNo \in RuleIds
  /\ ~ EvaluateRule(cur, Rules[ruleNo])
  /\ ruleNo' = ruleNo + 1
  /\ UNCHANGED <<files, hidden, chan, pending, ready, cur, router, sigint,
                 pressed, sent, got, runs, due>>

\* The rule matches: log the match and start its chain, awaited in the loop.
StartChain ==
  /\ router = "rules"
  /\ ruleNo \in RuleIds
  /\ EvaluateRule(cur, Rules[ruleNo])
  /\ runs' = [runs EXCEPT ![cur.path][ruleNo] = @ + 1]
  /\ router' = "chain"
  /\ UNCHANGED <<files, hidden, chan, pending, ready, cur, ruleNo, sigint,
                 pressed, sent, got, due>>

\* What a chain has done below the watched folders when it ends: all it was to
\* do when it succeeded, any part of it when an action failed.
ChainResult(p, rule, wrote, took) ==
  [q \in Paths |->
     IF wrote /\ q = rule.dest THEN files[p]
     ELSE IF took /\ rule.takes /\ q = p THEN "absent"
     ELSE files[q]]

\* The chain ends; the router goes on whether it succeeded or not.  Copies
\* carry the hidden attribute along and commands may set it (attrib).
EndChain(wrote, took) ==
  /\ router = "chain"
  /\ wrote => files[cur.path] # "absent"
  /\ files' = ChainResult(cur.path, Rules[ruleNo], wrote, took)
  /\ Attributes({cur.path} \cup (IF wrote THEN {Rules[ruleNo].dest} ELSE {}))
  /\ ruleNo' = ruleNo + 1
  /\ router' = "rules"
  /\ pressed' = FALSE
  /\ UNCHANGED <<chan, pending, ready, cur, sigint, sent, got, runs, due>>

RulesDone ==
  /\ router = "rules"
  /\ ruleNo > Len(Rules)
  /\ router' = "batch"
  /\ cur' = NoEntry
  /\ due' = {}
  /\ UNCHANGED <<files, hidden, chan, pending, ready, ruleNo, sigint, pressed,
                 sent, got, runs>>

\* Every branch of select! is pending: the task sleeps holding a ctrl_c().
Suspend ==
  /\ router = "poll"
  /\ chan = <<>>
  /\ router' = "suspended"
  /\ sigint' = "armed"
  /\ UNCHANGED <<files, hidden, chan, pending, ready, cur, ruleNo, pressed,
                 sent, got, runs, due>>

\* Branch (C): leave the loop; the receiver and the map are dropped.
Stop ==
  /\ router = "suspended"
  /\ sigint = "fired"
  /\ router' = "stopped"
  /\ UNCHANGED <<files, hidden, chan, pending, ready, cur, ruleNo, sigint,
                 pressed, sent, got, runs, due>>

RouterStep ==
  \/ Receive
  \/ Tick
  \/ \E p \in Paths : TakePath(p)
  \/ BatchDone
  \/ SkipRule
  \/ StartChain
  \/ \E wrote, took \in BOOLEAN : EndChain(wrote, took)
  \/ RulesDone
  \/ Suspend
  \/ Stop

Next ==
  \/ RouterStep
  \/ Elapse
  \/ \E m \in Messages : Send(m)
  \/ ChangeFiles
  \/ Interrupt

Spec == Init /\ [][Next]_vars

(***************************************************************************)
(* Fairness of the program alone.  The task is scheduled and chains end:    *)
(* weak fairness.  select! polls its branches in a random order, so a       *)
(* branch that is ready again and again is taken: strong fairness.  The     *)
(* clock advances.  Nothing is assumed of senders, files or the user.       *)
(***************************************************************************)
Fairness ==
  /\ WF_vars(Elapse)
  /\ SF_vars(Receive)
  /\ SF_vars(Tick)
  /\ WF_vars(\E p \in Paths : TakePath(p))
  /\ WF_vars(BatchDone \/ SkipRule \/ StartChain \/ RulesDone)
  /\ WF_vars(\E wrote, took \in BOOLEAN : EndChain(wrote, took))
  /\ WF_vars(Suspend)
  /\ SF_vars(Stop)

FairSpec == Spec /\ Fairness
=============================================================================
