--------------------------- MODULE TransferProofs ----------------------------
(***************************************************************************)
(* Theorems of the copy and move actions, for any files, contents, number   *)
(* of retries and interference of other programs.                           *)
(***************************************************************************)
EXTENDS TransferProperties, TLAPS

\* A file is in hand.
Active == {"parent", "rename", "copy", "reading", "hashing", "comparing",
           "copied", "cleanup"}

\* What may stand at a destination.
States == Contents \cup {NoFile, Partial, Torn}

Shape ==
  /\ layout \in Layouts
  /\ scope \subseteq Names
  /\ opts.folder => scope = Names
  /\ ~ opts.folder => \A m, n \in scope : m = n
  /\ disk \in [Places -> States]
  /\ read \in States
  /\ stage \in Stages
  /\ listed \in SUBSET scope
  /\ listed \cap skipped = {}
  /\ stage \in Active => cur \in scope \ (listed \cup skipped)
  /\ stage = "start" => listed = {} /\ skipped = {} /\ unlisted = {}
  /\ stage = "rename" => opts.move
  /\ stage = "remove" => /\ opts.move /\ opts.folder
                         /\ listed = {} /\ skipped = {}

\* Every file of the action has a destination, and one of its own.
LEMMA Destinations ==
  ASSUME Shape
  PROVE  /\ scope \subseteq Places
         /\ \A n \in scope : Target(n) \in Places
         /\ \A m, n \in scope : Target(m) = Target(n) => m = n
         /\ Names \subseteq layout.below
         /\ layout.below \subseteq Places
BY NamesAssumption, LayoutsAssumption DEF Shape, Target

\* Where the action is harmless and may replace files or remove a folder, no
\* destination is in the source.
LEMMA Separate ==
  ASSUME Shape, Harmless
  PROVE  /\ opts.overwrite \/ (opts.move /\ opts.folder) =>
              \A m, n \in scope : Target(m) # n
         /\ opts.move /\ opts.folder =>
              \A m \in scope : Target(m) \notin layout.below
BY Destinations DEF Shape, Harmless, Circular, Reach

\* Where a file stands that nobody else changes and that the walk reported:
\* still whole at the source until its copy is, and then at the destination;
\* meanwhile no other file has the place of it as its destination.
Guarded(n) == n \in scope /\ Harmless /\ Ours(n)

AtSource(n) == disk[n] = disk0[n]
AtTarget(n) == disk[Target(n)] = disk0[n]

Handled(n) == stage \notin {"start", "ok", "skipped", "failed"}
              /\ n \notin listed \cup skipped /\ ~ (n = cur /\ stage \in Active)

Custody(n) ==
  /\ AtSource(n) \/ AtTarget(n)
  /\ stage = "start" \/ ~ opts.move => AtSource(n)
  /\ n \in listed \cup skipped => AtSource(n)
  /\ stage \in Active /\ cur = n => AtSource(n)
  /\ stage = "reading" /\ cur = n => read = disk0[n]
  /\ stage = "comparing" /\ cur = n => hash = disk0[n]
  /\ stage = "copied" /\ cur = n => AtTarget(n)
  /\ Handled(n) /\ opts.folder => AtTarget(n)
  /\ stage \in Active => Target(cur) # n

CustodyInv == Shape /\ \A n : Guarded(n) => Custody(n)

LEMMA StepShape ==
  ASSUME Shape, [Next]_transferVars
  PROVE  Shape'
PROOF
<1> USE Destinations DEF Shape, Active, Stages, Outcomes
<1>1. CASE OneFile \/ \E n \in Names : Skip(n) \/ Begin(n)
  BY <1>1 DEF OneFile, Skip, Begin, options
<1>2. ASSUME NEW found \in SUBSET Present, Walk(found)
      PROVE  Shape'
  BY <1>2 DEF Walk, Present, options
<1>3. CASE NoFolder \/ MakeParent \/ Rename \/ OpenCopy
  BY <1>3 DEF NoFolder, MakeParent, Rename, OpenCopy, options, progress, States
<1>4. ASSUME NEW cross \in BOOLEAN, RenameFails(cross)
      PROVE  Shape'
  BY <1>4 DEF RenameFails, options, progress
<1>5. CASE FillCopy
  BY <1>5 DEF FillCopy, Delivered, options, progress, States
<1>6. CASE HashSource \/ Compare \/ CopyFails \/ Finish \/ RemoveFails
  BY <1>6 DEF HashSource, Compare, CopyFails, Finish, RemoveFails, options,
              progress, States
<1>7. ASSUME NEW removed \in BOOLEAN, CleanUp(removed)
      PROVE  Shape'
  BY <1>7 DEF CleanUp, Cleaned, options, States
<1>8. CASE AllDone
  BY <1>8 DEF AllDone, MayRemoveFolder, options, progress
<1>9. ASSUME NEW gone \in SUBSET layout.below, RemoveFolder(gone)
      PROVE  Shape'
  BY <1>9 DEF RemoveFolder, options, progress, States
<1>10. CASE Others
  BY <1>10 DEF Others, Involved, Edit, options, progress,
               States
<1>11. CASE UNCHANGED transferVars
  BY <1>11 DEF transferVars, options, progress
<1> QED
  BY <1>1, <1>2, <1>3, <1>4, <1>5, <1>6, <1>7, <1>8, <1>9, <1>10, <1>11
     DEF Next, Step

\* What concerns a file nobody has changed concerned it before, too.
LEMMA GuardedBefore ==
  ASSUME Shape, NEW n, Guarded(n)', [Next]_transferVars
  PROVE  /\ options' = options
         /\ Guarded(n)
         /\ n \in scope /\ n \notin unlisted' /\ disk0[n] # NoFile
         /\ n \notin touched' /\ Target(n) \notin touched'
         /\ \A m : Target(m)' = Target(m)
PROOF
<1>1. /\ options' = options
      /\ touched \subseteq touched'
      /\ unlisted \subseteq unlisted'
  BY DEF Shape, Next, Step, OneFile, Skip, Begin, Walk, NoFolder, MakeParent,
         Rename, RenameFails, OpenCopy, FillCopy, HashSource, Compare,
         CopyFails, Finish, RemoveFails, CleanUp, AllDone, RemoveFolder,
         Others, Edit, others, progress, transferVars
<1> QED
  BY <1>1 DEF options, Guarded, Harmless, Circular, Reach, Ours, Target

LEMMA StepCustody ==
  ASSUME Shape, NEW n, Guarded(n)', Guarded(n) => Custody(n),
         [Next]_transferVars
  PROVE  Custody(n)'
PROOF
<1>a. /\ options' = options
      /\ Guarded(n) /\ Custody(n)
      /\ n \in scope /\ n \notin unlisted' /\ disk0[n] # NoFile
      /\ n \notin touched' /\ Target(n) \notin touched'
      /\ \A m : Target(m)' = Target(m)
  BY GuardedBefore
<1>b. /\ opts.overwrite \/ (opts.move /\ opts.folder) =>
           \A m \in scope : Target(m) # n /\ Target(n) # m
      /\ opts.move /\ opts.folder => Target(n) \notin layout.below
      /\ \A m \in scope : Target(m) = Target(n) => m = n
      /\ \A m \in scope : m \in Places /\ Target(m) \in Places
  BY <1>a, Separate, Destinations DEF Guarded
<1> USE <1>a, <1>b DEF Shape, Active, AtSource, AtTarget, Handled, Custody
<1>1. ASSUME NEW m \in Names, Skip(m) \/ Begin(m)
      PROVE  Custody(n)'
  BY <1>1 DEF Skip, Begin, Existing, options, others
<1>0. CASE OneFile
  BY <1>0 DEF OneFile, options, others
<1>2. ASSUME NEW found \in SUBSET Present, Walk(found)
      PROVE  Custody(n)'
  BY <1>2 DEF Walk, Present, Guarded, Ours, options, others
<1>3. CASE NoFolder \/ MakeParent
  BY <1>3 DEF NoFolder, MakeParent, options, others, progress
<1>4. CASE Rename
  BY <1>4 DEF Rename, options, others, progress
<1>5. ASSUME NEW cross \in BOOLEAN, RenameFails(cross)
      PROVE  Custody(n)'
  BY <1>5 DEF RenameFails, options, others, progress
<1>6. CASE OpenCopy
  BY <1>6 DEF OpenCopy, options, others
<1>7. CASE FillCopy
  BY <1>7 DEF FillCopy, Delivered, options, others, progress
<1>8. CASE HashSource
  BY <1>8 DEF HashSource, options, others
<1>9. CASE Compare
  BY <1>9 DEF Compare, Matches, options, others, progress
<1>10. CASE CopyFails \/ RemoveFails
  BY <1>10 DEF CopyFails, RemoveFails, options, others, progress
<1>11. CASE Finish
  BY <1>11 DEF Finish, options, others, progress
<1>12. ASSUME NEW removed \in BOOLEAN, CleanUp(removed)
      PROVE  Custody(n)'
  BY <1>12 DEF CleanUp, Cleaned, options, others
<1>13. CASE AllDone
  BY <1>13 DEF AllDone, MayRemoveFolder, options, others, progress
<1>14. ASSUME NEW gone \in SUBSET layout.below, RemoveFolder(gone)
      PROVE  Custody(n)'
  BY <1>14 DEF RemoveFolder, options, others, progress
<1>15. CASE Others
  BY <1>15 DEF Others, Edit, options, progress
<1>16. CASE UNCHANGED transferVars
  BY <1>16 DEF transferVars, options, others, progress
<1> QED
  BY <1>0, <1>1, <1>2, <1>3, <1>4, <1>5, <1>6, <1>7, <1>8, <1>9, <1>10, <1>11,
     <1>12, <1>13, <1>14, <1>15, <1>16 DEF Next, Step

\* No file is lost between its source and its destination, whatever fails.
THEOREM NothingIsLost == Spec => []NothingLost
<1>1. Init => CustodyInv
  BY DEF Init, CustodyInv, Shape, Guarded, Custody, AtSource, Handled, Active,
         Stages, Outcomes, States
<1>2. CustodyInv /\ [Next]_transferVars => CustodyInv'
  BY StepShape, StepCustody DEF CustodyInv
<1>3. CustodyInv => NothingLost
  BY DEF CustodyInv, Guarded, Custody, AtSource, AtTarget, NothingLost
<1> QED
  BY <1>1, <1>2, <1>3, PTL DEF Spec

-----------------------------------------------------------------------------
\* A file that must be kept is never the destination of the file in hand, so
\* no step of the action reaches it.
Protected(p) == /\ ~ opts.overwrite
                /\ p \in Places \ touched
                /\ disk0[p] # NoFile
                /\ ~ (opts.move /\ p \in Reach)

Untouched(p) == disk[p] = disk0[p] /\ (stage \in Active => Target(cur) # p)

LEMMA StepUntouched ==
  ASSUME Shape, NEW p, Protected(p)', Protected(p) => Untouched(p),
         [Next]_transferVars
  PROVE  Untouched(p)'
PROOF
<1>a. /\ options' = options
      /\ touched \subseteq touched'
  BY DEF Shape, Next, Step, OneFile, Skip, Begin, Walk, NoFolder, MakeParent,
         Rename, RenameFails, OpenCopy, FillCopy, HashSource, Compare,
         CopyFails, Finish, RemoveFails, CleanUp, AllDone, RemoveFolder,
         Others, Edit, others, progress, transferVars
<1>b. /\ Untouched(p)
      /\ ~ opts.overwrite /\ p \in Places /\ p \notin touched'
      /\ disk0[p] # NoFile /\ disk0' = disk0
      /\ opts.move => p \notin scope
      /\ opts.move /\ opts.folder => p \notin layout.below
      /\ \A m : Target(m)' = Target(m)
  BY <1>a, Destinations DEF Shape, Protected, Reach, options, Target
<1>c. \A m \in scope : m \in Places /\ Target(m) \in Places
  BY Destinations
<1> USE <1>b, <1>c DEF Shape, Active, Untouched
<1>1. CASE OneFile \/ \E m \in Names : Skip(m) \/ Begin(m)
  BY <1>1 DEF OneFile, Skip, Begin, Existing, others
<1>2. ASSUME NEW found \in SUBSET Present, Walk(found)
      PROVE  Untouched(p)'
  BY <1>2 DEF Walk
<1>3. CASE NoFolder \/ MakeParent \/ Rename \/ OpenCopy \/ FillCopy
  BY <1>3 DEF NoFolder, MakeParent, Rename, OpenCopy, FillCopy, progress
<1>4. ASSUME NEW cross \in BOOLEAN, RenameFails(cross)
      PROVE  Untouched(p)'
  BY <1>4 DEF RenameFails, progress
<1>5. CASE HashSource \/ Compare \/ CopyFails \/ Finish \/ RemoveFails
  BY <1>5 DEF HashSource, Compare, CopyFails, Finish, RemoveFails, progress
<1>6. ASSUME NEW removed \in BOOLEAN, CleanUp(removed)
      PROVE  Untouched(p)'
  BY <1>6 DEF CleanUp, Cleaned
<1>7. CASE AllDone
  BY <1>7 DEF AllDone, MayRemoveFolder, progress
<1>8. ASSUME NEW gone \in SUBSET layout.below, RemoveFolder(gone)
      PROVE  Untouched(p)'
  BY <1>8 DEF RemoveFolder, progress
<1>9. CASE Others
  BY <1>9 DEF Others, Edit, progress
<1>10. CASE UNCHANGED transferVars
  BY <1>10 DEF transferVars, progress
<1> QED
  BY <1>1, <1>2, <1>3, <1>4, <1>5, <1>6, <1>7, <1>8, <1>9, <1>10
     DEF Next, Step

\* With overwrite = false no attempt, clean-up or retry replaces or removes a
\* file that was there before the action began, but what a move is to take;
\* wherever the destination lies.
THEOREM ExistingFilesAreKept == Spec => []ExistingKept
<1> DEFINE Inv == Shape /\ \A p : Protected(p) => Untouched(p)
<1>1. Init => Inv
  BY DEF Init, Shape, Protected, Untouched, Active, Stages, Outcomes, States
<1>2. Inv /\ [Next]_transferVars => Inv'
  BY StepShape, StepUntouched
<1>3. Inv => ExistingKept
  BY DEF Protected, Untouched, ExistingKept
<1> QED
  BY <1>1, <1>2, <1>3, PTL DEF Spec
-----------------------------------------------------------------------------
\* An unfinished copy stands only where the copy is being filled or is about
\* to be cleaned up, and after a failed clean-up until the next attempt; with
\* verify_integrity a mixture goes no further than the comparison, since what
\* was read and hashed is a whole file.
Whole(c) == c # Partial /\ (opts.verify => c # Torn)

AtHand(p) == /\ cur \in scope
             /\ p = Target(cur)
             /\ \/ stage \in {"reading", "hashing", "comparing", "cleanup"}
                \/ p \in left /\ stage \in {"copy", "failed"}

Clean(p) ==
  /\ ~ Whole(disk[p]) => AtHand(p)
  /\ disk[p] = Partial => stage \notin {"hashing", "comparing"}

Distinct == \A n \in scope : Target(n) # n

CleanInv == /\ Shape
            /\ Distinct => /\ stage = "reading" => Whole(read)
                           /\ stage = "comparing" => Whole(hash)
                           /\ \A p \in Places : Clean(p)

LEMMA StepClean ==
  ASSUME CleanInv, Distinct, [Next]_transferVars
  PROVE  /\ stage' = "reading" => Whole(read)'
         /\ stage' = "comparing" => Whole(hash)'
         /\ \A p \in Places : Clean(p)'
PROOF
<1>a. options' = options
  BY DEF Shape, Next, Step, OneFile, Skip, Begin, Walk, NoFolder, MakeParent,
         Rename, RenameFails, OpenCopy, FillCopy, HashSource, Compare,
         CopyFails, Finish, RemoveFails, CleanUp, AllDone, RemoveFolder,
         Others, Edit, progress, transferVars
<1>b. /\ opts' = opts /\ scope' = scope
      /\ \A m : Target(m)' = Target(m)
  BY <1>a DEF options, Target
<1>c. /\ \A m \in scope : m \in Places /\ Target(m) \in Places
      /\ \A p \in Places : Clean(p)
      /\ stage \in Active => cur \in scope
      /\ cur \in scope => Target(cur) # cur
  BY Destinations DEF CleanInv, Shape, Distinct
<1> DEFINE Goal == /\ stage' = "reading" => Whole(read)'
                   /\ stage' = "comparing" => Whole(hash)'
                   /\ \A p \in Places : Clean(p)'
<1> USE <1>b, <1>c, ContentsAssumption
    DEF CleanInv, Shape, Active, Clean, AtHand, Whole, NoFile, Partial, Torn
<1>1. CASE OneFile \/ \E m \in Names : Skip(m) \/ Begin(m)
  BY <1>1 DEF OneFile, Skip, Begin
<1>2. ASSUME NEW found \in SUBSET Present, Walk(found)
      PROVE  Goal
  BY <1>2 DEF Walk
<1>3. CASE NoFolder \/ MakeParent \/ Rename
  BY <1>3 DEF NoFolder, MakeParent, Rename, progress
<1>4. CASE OpenCopy
  BY <1>4 DEF OpenCopy, Distinct
<1>5. CASE FillCopy
  BY <1>5 DEF FillCopy, Delivered, Distinct, progress
<1>6. ASSUME NEW cross \in BOOLEAN, RenameFails(cross)
      PROVE  Goal
  BY <1>6 DEF RenameFails, progress
<1>7. CASE HashSource
  BY <1>7 DEF HashSource, Distinct
<1>8. CASE CopyFails \/ Finish \/ RemoveFails
  BY <1>8 DEF CopyFails, Finish, RemoveFails, progress
<1>9. CASE Compare
  BY <1>9 DEF Compare, Matches, progress
<1>10. ASSUME NEW removed \in BOOLEAN, CleanUp(removed)
       PROVE  Goal
  BY <1>10 DEF CleanUp, Cleaned
<1>11. CASE AllDone
  BY <1>11 DEF AllDone, progress
<1>12. ASSUME NEW gone \in SUBSET layout.below, RemoveFolder(gone)
       PROVE  Goal
  BY <1>12 DEF RemoveFolder, progress
<1>13. CASE Others
  BY <1>13 DEF Others, Edit, progress
<1>14. CASE UNCHANGED transferVars
  BY <1>14 DEF transferVars, progress
<1> QED
  BY <1>1, <1>2, <1>3, <1>4, <1>5, <1>6, <1>7, <1>8, <1>9, <1>10, <1>11,
     <1>12, <1>13, <1>14 DEF Next, Step

\* The action leaves no unfinished copy behind, nor a mixture when it
\* verifies, unless the removal of one failed or a file was copied onto
\* itself: for any files, layouts and retries.
THEOREM NoBrokenCopyIsLeft == Spec => []NoBrokenCopyRemains
<1>1. Init => CleanInv
  BY ContentsAssumption
     DEF Init, CleanInv, Shape, Clean, AtHand, Whole, Active, Stages,
         Outcomes, States, NoFile, Partial, Torn
<1>2. CleanInv /\ [Next]_transferVars => CleanInv'
  <2> SUFFICES ASSUME CleanInv, [Next]_transferVars PROVE CleanInv'
    OBVIOUS
  <2>1. Shape'
    BY StepShape DEF CleanInv
  <2>2. Distinct' => Distinct
    BY DEF Distinct, Target, options, Next, Step, OneFile, Skip, Begin, Walk,
           NoFolder, MakeParent, Rename, RenameFails, OpenCopy, FillCopy,
           HashSource, Compare, CopyFails, Finish, RemoveFails, CleanUp,
           AllDone, RemoveFolder, Others, Edit, progress, transferVars
  <2> QED
    BY <2>1, <2>2, StepClean DEF CleanInv
<1>3. CleanInv => NoBrokenCopyRemains
  BY DEF CleanInv, Clean, AtHand, Whole, Distinct, NoBrokenCopyRemains, Ended,
         Outcomes
<1> QED
  BY <1>1, <1>2, <1>3, PTL DEF Spec

-----------------------------------------------------------------------------
\* What success rests on: a file not yet begun, or skipped, is as it was on
\* both sides; a file that is through is at the destination, and at the source
\* exactly when the action is a copy.
Fresh(n) == AtSource(n) /\ disk[Target(n)] = disk0[Target(n)]

Transferred(n) == AtTarget(n) /\ (disk[n] = NoFile <=> opts.move)

Through(n) ==
  /\ stage \notin {"start", "skipped", "failed"}
  /\ n \notin listed \cup skipped /\ ~ (n = cur /\ stage \in Active)
  /\ opts.folder \/ n = cur

Accounted(n) ==
  /\ stage = "start" => Fresh(n)
  /\ n \in listed \cup skipped => Fresh(n)
  /\ Through(n) => Transferred(n)

Course == /\ stage = "start" => cur = NoName
          /\ stage = "ok" => listed = {}
          /\ ~ opts.folder =>
               /\ stage = "next" => cur \in scope \/ listed \cup skipped # {}
               /\ stage = "ok" => cur \in scope

LEMMA StepCourse ==
  ASSUME Shape, ~ opts.folder => scope # {}, Course, [Next]_transferVars
  PROVE  Course' /\ (~ opts.folder => scope # {})'
BY DEF Shape, Active, Course, Next, Step, OneFile, Skip, Begin, Walk, NoFolder,
       MakeParent, Rename, RenameFails, OpenCopy, FillCopy, HashSource,
       Compare, CopyFails, Finish, RemoveFails, CleanUp, AllDone,
       MayRemoveFolder, RemoveFolder, Others, Edit, options, progress,
       transferVars

LEMMA StepAccounted ==
  ASSUME Shape, Course, NEW n, Guarded(n)',
         Guarded(n) => Custody(n) /\ Accounted(n), [Next]_transferVars
  PROVE  Accounted(n)'
PROOF
<1>a. /\ options' = options
      /\ Guarded(n) /\ Custody(n) /\ Accounted(n)
      /\ n \in scope /\ n \notin unlisted' /\ disk0[n] # NoFile
      /\ n \notin touched' /\ Target(n) \notin touched'
      /\ \A m : Target(m)' = Target(m)
  BY GuardedBefore
<1>b. /\ opts.overwrite \/ (opts.move /\ opts.folder) =>
           \A m \in scope : Target(m) # n /\ Target(n) # m
      /\ opts.move /\ opts.folder => Target(n) \notin layout.below
      /\ \A m \in scope : Target(m) = Target(n) => m = n
      /\ \A m \in scope : m \in Places /\ Target(m) \in Places
      /\ Names \subseteq layout.below
      /\ n # NoName
  BY <1>a, Separate, Destinations, NamesAssumption DEF Guarded, Shape
<1> USE <1>a, <1>b
    DEF Shape, Course, Active, AtSource, AtTarget, Custody, Fresh, Transferred,
        Through, Accounted
<1>0. CASE OneFile
  BY <1>0 DEF OneFile, options, others
<1>1. ASSUME NEW m \in Names, Skip(m) \/ Begin(m)
      PROVE  Accounted(n)'
  BY <1>1 DEF Skip, Begin, options, others
<1>2. ASSUME NEW found \in SUBSET Present, Walk(found)
      PROVE  Accounted(n)'
  BY <1>2 DEF Walk, Present, options, others
<1>3. CASE NoFolder \/ MakeParent
  BY <1>3 DEF NoFolder, MakeParent, options, others, progress
<1>4. CASE Rename
  BY <1>4 DEF Rename, options, others, progress
<1>5. ASSUME NEW cross \in BOOLEAN, RenameFails(cross)
      PROVE  Accounted(n)'
  BY <1>5 DEF RenameFails, options, others, progress
<1>6. CASE OpenCopy
  BY <1>6 DEF OpenCopy, options, others
<1>7. CASE FillCopy
  BY <1>7 DEF FillCopy, options, others, progress
<1>8. CASE HashSource
  BY <1>8 DEF HashSource, options, others
<1>9. CASE Compare \/ CopyFails \/ RemoveFails
  BY <1>9 DEF Compare, CopyFails, RemoveFails, options, others, progress
<1>10. CASE Finish
  BY <1>10 DEF Finish, options, others, progress
<1>11. ASSUME NEW removed \in BOOLEAN, CleanUp(removed)
       PROVE  Accounted(n)'
  BY <1>11 DEF CleanUp, Cleaned, options, others
<1>12. CASE AllDone
  BY <1>12 DEF AllDone, MayRemoveFolder, options, others, progress
<1>13. ASSUME NEW gone \in SUBSET layout.below, RemoveFolder(gone)
       PROVE  Accounted(n)'
  BY <1>13 DEF RemoveFolder, options, others, progress
<1>14. CASE Others
  BY <1>14 DEF Others, Edit, options, progress
<1>15. CASE UNCHANGED transferVars
  BY <1>15 DEF transferVars, options, others, progress
<1> QED
  BY <1>0, <1>1, <1>2, <1>3, <1>4, <1>5, <1>6, <1>7, <1>8, <1>9, <1>10,
     <1>11, <1>12, <1>13, <1>14, <1>15 DEF Next, Step

\* An action that reports success has every file of it, save those skipped,
\* at the destination, and a move has none of them left at the source -
\* unless the destination lies in the source and files may be destroyed.
THEOREM SuccessIsTransfer == Spec => []OkMeansTransferred
<1> DEFINE Inv == /\ CustodyInv
                  /\ Course
                  /\ ~ opts.folder => scope # {}
                  /\ \A n : Guarded(n) => Accounted(n)
<1>1. Init => Inv
  BY DEF Init, CustodyInv, Shape, Guarded, Custody, AtSource, AtTarget,
         Handled, Active, Stages, Outcomes, States, Course, Accounted, Fresh,
         Through
<1>2. Inv /\ [Next]_transferVars => Inv'
  BY StepShape, StepCustody, StepCourse, StepAccounted DEF CustodyInv
<1>3. Inv => OkMeansTransferred
  <2> SUFFICES ASSUME Inv, stage = "ok", Harmless, NEW n \in scope, Ours(n)
               PROVE  \/ Transferred(n)
                      \/ n \in skipped /\ Fresh(n)
    BY DEF OkMeansTransferred, Transferred, Fresh, AtSource, AtTarget
  <2>1. opts.folder \/ n = cur
    BY DEF CustodyInv, Shape, Course
  <2> QED
    BY <2>1 DEF Course, Guarded, Accounted, Through, Active
<1> QED
  BY <1>1, <1>2, <1>3, PTL DEF Spec
=============================================================================
