------------------------- MODULE WatcherProperties --------------------------
(***************************************************************************)
(* What start_watching must guarantee, and what its documents say of it.    *)
(***************************************************************************)
EXTENDS Watcher, RouterProperties

Mentions(q, p) == \E i \in DOMAIN q : p \in q[i].paths

InFlight(p) == Mentions(os, p) \/ Mentions(chan, p)

(***************************************************************************)
(* The seam between watching and scanning (watcher.rs: the scan is spawned  *)
(* after the folders are registered so that nothing that arrives while it   *)
(* runs is missed): once the scan is over, every entry that exists has been *)
(* noticed by the router or is on its way to it - unless a loss was noted.  *)
(***************************************************************************)
NoFileMissed ==
  (scan = "done" /\ gaps = {} /\ ~ Closed) =>
    \A p \in Paths : files[p] # "absent" => got[p] > 0 \/ InFlight(p)

(***************************************************************************)
(* A path runs a rule's chain at most once per notification of the watcher  *)
(* that names it, and the scan adds at most one run for each watched folder *)
(* the path lies in, however scan and watch notifications and the program's *)
(* own changes interleave (watcher.rs: collect_existing_events walks every  *)
(* key of watch_map; nested watch folders are walked twice).                *)
(***************************************************************************)
ScanAddsOneRunPerRoot ==
  \A p \in Paths : \A r \in RuleIds :
    runs[p][r]
      <= notified[p] + (IF ScanOnStart THEN Cardinality(RootsOf[p]) ELSE 0)

(***************************************************************************)
(* The closed system is an instance of the open one: the senders respect    *)
(* the interface of module Router, so what is proved there holds here.      *)
(***************************************************************************)
ImplementsRouter == Spec

(***************************************************************************)
(* An entry that exists while the loop runs, whether it was there at the    *)
(* start or came later, is eventually noticed and then evaluated against    *)
(* the rules, also when its notification came while the loop was about to   *)
(* sleep or its quiet time ends exactly when the timer looks.               *)
(***************************************************************************)
EventuallyProcessed ==
  \A p \in Paths :
    (ScanOnStart /\ main = "routing" /\ files[p] # "absent")
      ~> \/ got[p] > 0 /\ pending[p].events = {}
         \/ files[p] = "absent" \/ Finished \/ gaps # {}

(***************************************************************************)
(* The scan thread never outlives the channel: blocked on a full channel or *)
(* not, it ends, also when start_watching fails after spawning it.          *)
(***************************************************************************)
ScanEnds == scan = "walking" ~> (scan = "done" \/ ~ Running)

-----------------------------------------------------------------------------
(***************************************************************************)
(* A claim of the documents that the code does not keep                     *)
(***************************************************************************)

\* watcher.rs:208-210: a full channel only makes its senders wait until the
\* router has drained it.  While the folders are registered there is no router
\* yet, and the thread that waits is the one that registers them.
StartUpEnds == main = "registering" ~> (main # "registering" \/ ~ Running)
=============================================================================
