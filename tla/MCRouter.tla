------------------------------ MODULE MCRouter ------------------------------
(***************************************************************************)
(* Instances of RouterProperties for TLC.                                   *)
(***************************************************************************)
EXTENDS RouterProperties
CONSTANTS a, b

\* Files that are created or modified at a are moved away.
MoveRule == [enabled |-> TRUE, target |-> "File", scope |-> {a},
             includeHidden |-> TRUE, events |-> {"Create", "Modify"},
             takes |-> TRUE, dest |-> NoPath]

OneRule == <<MoveRule>>

\* The second rule wants the same files, and renamed ones, unless they are
\* hidden, and copies them to b, which no rule looks at.
MoveThenCopy == <<
  MoveRule,
  [MoveRule EXCEPT !.takes = FALSE, !.dest = b, !.includeHidden = FALSE,
                   !.events = {"Create", "Rename"}]>>

\* Bounds: at b, which no rule looks at, there is a plain file or nothing; a
\* Ctrl+C is heard before the first notification or left to the other runs.
Bounded ==
  /\ files[b] # "Dir" /\ b \notin hidden
  /\ ~ pressed /\ (sigint = "fired" => sent = 0) /\ router # "killed"
=============================================================================
