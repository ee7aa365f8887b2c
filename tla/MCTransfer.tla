----------------------------- MODULE MCTransfer ------------------------------
(***************************************************************************)
(* Instances of TransferProperties for TLC.                                 *)
(***************************************************************************)
EXTENDS TransferProperties
CONSTANTS f, g, f2, g2, old, new

\* The destination is another folder, the source folder itself, or a folder
\* in it: there f becomes g, and what was g goes one level deeper.
Elsewhere == [target |-> [n \in {f, g} |-> IF n = f THEN f2 ELSE g2],
              below  |-> {f, g}]
Onto == [target |-> [n \in {f, g} |-> n], below |-> {f, g}]
Into == [target |-> [n \in {f, g} |-> IF n = f THEN g ELSE g2],
         below  |-> {f, g, g2}]
AllLayouts == {Elsewhere, Onto, Into}
ElsewhereOnly == {[target |-> [n \in {f} |-> f2], below |-> {f}]}
=============================================================================
