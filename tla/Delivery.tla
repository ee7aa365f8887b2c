------------------------------ MODULE Delivery ------------------------------
(***************************************************************************)
(* What the detection pipeline promises its rules: notifications are taken  *)
(* in the order they were accepted, and each evaluation of a path sees      *)
(* exactly the notifications folded since the previous evaluation of that   *)
(* path - none of them lost, none seen twice - with the last entry kind     *)
(* any of them reported.  Time, snapshots, rules and chains are hidden.     *)
(***************************************************************************)
EXTENDS Naturals, Sequences

CONSTANTS Paths, NoPath, Events, Kinds, Unknown, None

VARIABLES
  inbox,    \* accepted notifications, oldest first
  open,     \* per path: what was folded since its last evaluation
  handled   \* the evaluation in progress, or NoEvaluation

deliveryVars == <<inbox, open, handled>>

Notes == [paths : SUBSET Paths, event : Events \cup {None},
          kind : Kinds \cup {Unknown}]
Nothing == [events |-> {}, kind |-> Unknown]
NoEvaluation == [path |-> NoPath, events |-> {}, kind |-> Unknown]

Start ==
  /\ inbox = <<>>
  /\ open = [p \in Paths |-> Nothing]
  /\ handled = NoEvaluation

Accept ==
  /\ Len(inbox') = Len(inbox) + 1
  /\ LET n == inbox'[Len(inbox')]
     IN  n \in Notes /\ inbox' = Append(inbox, n)
  /\ UNCHANGED <<open, handled>>

Folded(p, n) ==
  [events |-> open[p].events \cup {n.event},
   kind   |-> IF n.kind = Unknown THEN open[p].kind ELSE n.kind]

Fold ==
  /\ inbox # <<>>
  /\ handled = NoEvaluation
  /\ inbox' = Tail(inbox)
  /\ LET n == Head(inbox)
     IN  open' = [p \in Paths |-> IF p \in n.paths /\ n.event # None
                                  THEN Folded(p, n) ELSE open[p]]
  /\ UNCHANGED handled

Evaluate(p) ==
  /\ handled = NoEvaluation
  /\ open[p].events # {}
  /\ handled' = [path |-> p, events |-> open[p].events, kind |-> open[p].kind]
  /\ open' = [open EXCEPT ![p] = Nothing]
  /\ UNCHANGED inbox

Finish ==
  /\ handled # NoEvaluation
  /\ handled' = NoEvaluation
  /\ UNCHANGED <<inbox, open>>

Deliver == Accept \/ Fold \/ (\E p \in Paths : Evaluate(p)) \/ Finish

DeliverySpec == Start /\ [][Deliver]_deliveryVars
=============================================================================
