----------------------------- MODULE MCWatcher ------------------------------
(***************************************************************************)
(* Instances of WatcherProperties for TLC.                                  *)
(***************************************************************************)
EXTENDS WatcherProperties
CONSTANTS a, b, outer, inner

\* Files are processed in place where they arrive.
ReadRule == [enabled |-> TRUE, target |-> "File", scope |-> Paths,
             includeHidden |-> TRUE, events |-> {"Create", "Modify"},
             takes |-> FALSE, dest |-> NoPath]
InPlace  == <<ReadRule>>

\* Two watch folders, one in the other: b lies in both, a in the outer one.
Nested == [p \in Paths |-> IF p = b THEN {outer, inner} ELSE {outer}]

\* At the start there is a file at a and nothing at b.
RoomAtB == StartInit /\ files = [p \in Paths |-> IF p = a THEN "File" ELSE "absent"]

FairSpecRoomAtB == RoomAtB /\ [][WatchNext]_allVars /\ WatchFairness
=============================================================================
