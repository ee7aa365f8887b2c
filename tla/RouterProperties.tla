-------------------------- MODULE RouterProperties --------------------------
(***************************************************************************)
(* What run_router must guarantee, and what its documents say of it.        *)
(***************************************************************************)
EXTENDS Router

\* Every variable keeps its type; the channel never exceeds its capacity.
TypeOK ==
  /\ files   \in [Paths -> Kinds \cup {"absent"}]
  /\ hidden  \in SUBSET Paths
  /\ chan    \in Seq(Messages)
  /\ Len(chan) <= Capacity
  /\ pending \in [Paths -> Entries]
  /\ ready   \in [Paths -> Snapshots]
  /\ cur     \in Confirmed
  /\ ruleNo  \in 1 .. Len(Rules) + 1
  /\ router  \in RouterStates
  /\ sigint  \in SigintStates
  /\ pressed \in BOOLEAN
  /\ sent    \in 0 .. MaxSends
  /\ got     \in [Paths -> Nat]
  /\ runs    \in [Paths -> [RuleIds -> Nat]]
  /\ due     \in SUBSET RuleIds

(***************************************************************************)
(* The batch is a snapshot taken before the chains are awaited and used     *)
(* after.  It must not be stale when used: as long as a path waits in the   *)
(* snapshot, the map holds the same events and kind for it, and it has been *)
(* quiet for the debounce time (router.rs: "ready", branch (B)).            *)
(***************************************************************************)
SnapshotFresh ==
  \A p \in Paths : ready[p].events # {} =>
    /\ ready[p].events = pending[p].events
    /\ ready[p].kind = pending[p].kind
    /\ pending[p].age = Quiet

(***************************************************************************)
(* Debouncing bundles but never multiplies: a rule's chain runs for a path  *)
(* at most once per notification received for the path (branch (B) removes  *)
(* the path from the map before the chains run).                            *)
(***************************************************************************)
AtMostOneChainPerEvent ==
  \A p \in Paths : \A r \in RuleIds : runs[p][r] <= got[p]

(***************************************************************************)
(* A rule that matched when its path was taken is passed over later only    *)
(* if it had to look at the disk again: because no notification named the   *)
(* entry's kind, or because the rule leaves hidden entries out and the      *)
(* entry has been hidden since (Windows).  From anything else that earlier  *)
(* rules' chains or other programs do to the file the match is safe.        *)
(***************************************************************************)
KnownKindReachesEveryRule ==
  [][(router = "rules" /\ router' = "rules" /\ ruleNo' # ruleNo
        /\ ruleNo \in due)
       => \/ cur.kind = Unknown /\ Rules[ruleNo].target # "Both"
          \/ ~ Rules[ruleNo].includeHidden /\ cur.path \in hidden]_vars

(***************************************************************************)
(* The pipeline implements the abstract delivery promise.                   *)
(***************************************************************************)
Converted(m) == [paths |-> m.paths, event |-> ToConfigEvent(m.raw),
                 kind |-> KindFromNotifyEvent(m.raw)]

Inbox(q) == [i \in DOMAIN q |-> Converted(q[i])]

D == INSTANCE Delivery WITH
       inbox   <- Inbox(chan),
       open    <- [p \in Paths |-> [events |-> pending[p].events,
                                    kind   |-> pending[p].kind]],
       handled <- cur

ImplementsDelivery == D!DeliverySpec

-----------------------------------------------------------------------------
(***************************************************************************)
(* A claim of the documents that the code does not keep                     *)
(***************************************************************************)

\* specification.md 6.2 and detailed-design.md 5.2: after Ctrl+C the program
\* waits for the action in progress and stops.
CtrlCStops == pressed ~> Finished
=============================================================================
