--------------------------- MODULE InotifyProofs ----------------------------
(***************************************************************************)
(* Theorems of the Linux back end, for every tree of folders, every set of  *)
(* names and every limit of the kernel: a successful unwatch leaves nothing *)
(* that an event could still be reported under, and, once it has read       *)
(* everything, the thread watches the folders below the root where they     *)
(* are, and no other.                                                       *)
(*                                                                          *)
(* The second needs what the thread knows to be tied to the tree at every   *)
(* moment.  So below come the order of the paths, the tree, the numbers of  *)
(* the kernel, the invariant (Sound), and one lemma per action of Inotify.  *)
(***************************************************************************)
EXTENDS InotifyProperties, FiniteSetTheorems, SequenceTheorems, TLAPS

-----------------------------------------------------------------------------
(***************************************************************************)
(* The inductive invariant.  Everything the thread keeps or has noted lies  *)
(* below the watched folder, because a watch is only added for what an      *)
(* event named below a watched folder, or a walk found in one.  So the one  *)
(* removal of unwatch covers every descriptor; afterwards no event names a  *)
(* path, and no batch has anything to add.                                  *)
(***************************************************************************)
Tokens      == Names \cup {"root", "away", ""}
Descriptors == Wds \cup {NoWd}

Raised == [kind : {"create", "delete", "delete_self", "moved_from", "moved_to",
                   "move_self", "overflow"},
           wd   : Descriptors,
           name : Tokens]

KernelTypes ==
  /\ at \in [Dirs -> AllPaths \cup {Nowhere}]
  /\ half \in AllPaths \cup {Nowhere}
  /\ wd \in [Dirs -> Descriptors]
  /\ os \in Seq(Raised)

UnderRoot == {p \in Seq(Tokens) : p # <<>> /\ p[1] = "root"}

AllUnderRoot ==
  /\ paths \in [Wds -> UnderRoot \cup {Nowhere}]
  /\ add \in Seq(UnderRoot)
  /\ walk \in Seq(UnderRoot)

Walking == {"walking", "watching", "recording"}

\* A walk has a folder in hand, and is the user's or that of a batch with one.
WalksForSomeone ==
  /\ pc \in {"watching", "recording"} => walk # <<>>
  /\ (pc \in Walking /\ user # "watch?") => add # <<>>
  /\ user = "watch?" => pc \in {"idle"} \cup Walking

\* Before the first watch the kernel has nothing to report.
SilentAtFirst ==
  (user = "new" \/ (user = "watch?" /\ pc = "idle")) =>
    /\ pc = "idle"
    /\ os = <<>>
    /\ \A d \in Dirs : wd[d] = NoWd

Forgotten ==
  user = "unwatched" =>
    /\ \A w \in Wds : paths[w] = Nowhere
    /\ pc \in {"idle", "reading", "removing", "adding"}
    /\ pc # "idle" => add = <<>>

InotifyInv ==
  KernelTypes /\ AllUnderRoot /\ WalksForSomeone /\ SilentAtFirst /\ Forgotten

-----------------------------------------------------------------------------
\* A path is a sequence of names that is not empty.
LEMMA PathTokens ==
  ASSUME NEW p \in AllPaths
  PROVE  /\ p \in Seq(Tokens) /\ p # <<>> /\ p # Nowhere
         /\ Last(p) \in Tokens
<1>1. PICK t \in {"root", "away"}, s \in Routes : p = <<t>> \o s
  BY DEF AllPaths, Root, Away
<1>2. PICK n \in 0 .. MaxDepth : s \in [1 .. n -> Names]
  BY DEF Routes
<1>3. MaxDepth \in Nat
  BY InotifyAssumption
<1>4. s \in Seq(Names)
  BY <1>2, <1>3
<1>5. <<t>> \in Seq(Tokens) /\ s \in Seq(Tokens)
  <2>1. t \in Tokens /\ Names \subseteq Tokens
    BY DEF Tokens
  <2>2. Len(s) \in Nat /\ s = [i \in 1 .. Len(s) |-> s[i]]
        /\ \A i \in 1 .. Len(s) : s[i] \in Names
    BY <1>4
  <2> HIDE DEF Tokens
  <2>3. \A i \in 1 .. Len(s) : s[i] \in Tokens
    BY <2>1, <2>2
  <2>4. s \in Seq(Tokens)
    BY <2>2, <2>3
  <2> QED
    BY <2>1, <2>4
<1>6. p \in Seq(Tokens) /\ Len(p) = 1 + Len(s)
  BY <1>1, <1>5
<1>7. Len(p) \in 1 .. Len(p) /\ p # <<>>
  BY <1>5, <1>6
<1> QED
  BY <1>6, <1>7 DEF Last, Nowhere

\* What is named in a folder below the watched one is below it.
LEMMA AppendStaysUnder ==
  ASSUME NEW p \in UnderRoot, NEW n \in Tokens
  PROVE  Append(p, n) \in UnderRoot
<1>1. p \in Seq(Tokens) /\ Len(p) \in Nat /\ Len(p) >= 1 /\ p[1] = "root"
  BY DEF UnderRoot
<1>2. Append(p, n) \in Seq(Tokens) /\ Append(p, n)[1] = p[1]
  BY <1>1
<1>3. Append(p, n) # <<>>
  BY <1>1
<1> QED
  BY <1>1, <1>2, <1>3 DEF UnderRoot

LEMMA RootIsUnder == Root \in UnderRoot
<1>1. <<"root">> \in Seq(Tokens)
  BY DEF Tokens
<1> QED
  BY <1>1 DEF UnderRoot, Root

LEMMA UnderIsBelow ==
  ASSUME NEW p \in UnderRoot
  PROVE  p # Nowhere /\ IsBelow(p, Root)
<1>1. p \in Seq(Tokens) /\ Len(p) \in Nat /\ Len(p) >= 1 /\ p[1] = "root"
  BY DEF UnderRoot
<1>2. /\ SubSeq(p, 1, 1) \in Seq(Tokens) /\ Len(SubSeq(p, 1, 1)) = 1
      /\ SubSeq(p, 1, 1)[1] = "root"
  <2>1. \A i \in 1 .. 1 : p[i] \in Tokens
    BY <1>1
  <2> HIDE DEF Tokens
  <2> QED
    BY <1>1, <2>1, SubSeqProperties
<1>3. Root \in Seq(Tokens) /\ Len(Root) = 1 /\ Root[1] = "root"
  BY RootIsUnder DEF UnderRoot, Root
<1>4. SubSeq(Root, 1, 1) = Root
  BY <1>3, SubSeqFull
<1>5. SubSeq(p, 1, 1) = Root
  BY <1>2, <1>3, SeqEqual
<1> QED
  BY <1>1, <1>3, <1>4, <1>5 DEF IsBelow, IsPrefix, Nowhere

\* The folder at a path has one of the descriptors, none when none has any.
LEMMA DescriptorAt ==
  ASSUME KernelTypes, NEW p
  PROVE  /\ WdAt(p) \in Descriptors
         /\ (\A d \in Dirs : wd[d] = NoWd) => WdAt(p) = NoWd
<1>1. (\E d \in Dirs : at[d] = p) => InodeAt(p) \in Dirs
  BY DEF InodeAt
<1> QED
  BY <1>1 DEF WdAt, KernelTypes, Descriptors

\* The queue keeps its type, and what no watch asked for does not join it.
LEMMA QueuedType ==
  ASSUME NEW q \in Seq(Raised), NEW w \in Descriptors, NEW e \in Raised
  PROVE  /\ Queued(q, w, e) \in Seq(Raised)
         /\ w = NoWd => Queued(q, w, e) = q
<1>1. [kind |-> "overflow", wd |-> NoWd, name |-> ""] \in Raised
  BY DEF Raised, Descriptors, Tokens
<1> HIDE DEF Raised
<1>2. Len(q) \in Nat /\ OsCapacity \in Nat
  BY InotifyAssumption
<1>3. CASE w = NoWd \/ Len(q) > OsCapacity
  BY <1>3 DEF Queued
<1>4. CASE ~ (w = NoWd \/ Len(q) > OsCapacity)
  <2>1. \A x \in Raised : Append(q, x) \in Seq(Raised)
    OBVIOUS
  <2> QED
    BY <1>1, <1>4, <2>1 DEF Queued
<1> QED
  BY <1>3, <1>4

LEMMA EntryType ==
  ASSUME KernelTypes, NEW p, Last(p) \in Tokens,
         NEW kind \in {"create", "delete", "moved_from", "moved_to"}
  PROVE  Entry(kind, p) \in Raised
BY DescriptorAt DEF Entry, Raised

LEMMA SelfType ==
  ASSUME NEW w \in Descriptors, NEW kind \in {"delete_self", "move_self"}
  PROVE  Self(kind, w) \in Raised
BY DEF Self, Raised, Tokens

\* What a walk finds in the folder it opened is below it.
LEMMA ListingUnder ==
  ASSUME KernelTypes, NEW p \in UnderRoot, NEW below \in SetToSeqs(Listing(p))
  PROVE  below \in Seq(UnderRoot) /\ IsFiniteSet(Listing(p))
<1> DEFINE in == {d \in Dirs : /\ at[open] # Nowhere
                               /\ at[d] # Nowhere
                               /\ Parent(at[d]) = at[open]}
           entry == [c \in in |-> Append(p, Last(at[c]))]
<1>1. IsFiniteSet(Dirs)
  BY StartAssumption, FS_Interval DEF Dirs
<1>2. in \in SUBSET Dirs
  OBVIOUS
<1>3. IsFiniteSet(in)
  BY <1>1, <1>2, FS_Subset
<1>4. Listing(p) = {entry[c] : c \in in}
  BY DEF Listing
<1>5. \A c \in in : Append(p, Last(at[c])) \in UnderRoot
  <2> SUFFICES ASSUME NEW c \in in PROVE Append(p, Last(at[c])) \in UnderRoot
    OBVIOUS
  <2>1. at[c] \in AllPaths
    BY DEF KernelTypes
  <2>2. Last(at[c]) \in Tokens
    BY <2>1, PathTokens
  <2> QED
    BY <2>2, AppendStaysUnder
<1>6. Listing(p) \subseteq UnderRoot
  BY <1>5 DEF Listing
<1>7. IsFiniteSet(Listing(p))
  <2> HIDE DEF in
  <2>1. entry \in [in -> Listing(p)] /\ \A y \in Listing(p) : \E c \in in : entry[c] = y
    BY <1>4
  <2> HIDE DEF entry
  <2>2. entry \in Surjection(in, Listing(p))
    BY <2>1 DEF Surjection
  <2> QED
    BY <1>3, <2>2, FS_Surjection
<1>8. Cardinality(Listing(p)) \in Nat
  BY <1>7, FS_CardinalityType
<1>9. below \in [1 .. Cardinality(Listing(p)) -> Listing(p)]
  BY DEF SetToSeqs
<1> QED
  BY <1>6, <1>7, <1>8, <1>9

-----------------------------------------------------------------------------
(***************************************************************************)
(* One lemma per part of the invariant.                                     *)
(***************************************************************************)
\* The kernel's part keeps its type, whoever changes it.
LEMMA StepKernelTypes ==
  ASSUME KernelTypes, [Next]_vars
  PROVE  KernelTypes'
PROOF
<1> USE DEF KernelTypes
<1>1. CASE UNCHANGED <<at, half, wd, os>>
  BY <1>1
<1>2. ASSUME NEW d \in Dirs, NEW p \in AllPaths, Mkdir(d, p)
      PROVE  KernelTypes'
  <2>1. Entry("create", p) \in Raised /\ WdAt(Parent(p)) \in Descriptors
    BY PathTokens, EntryType, DescriptorAt
  <2>2. os' \in Seq(Raised)
    BY <1>2, <2>1, QueuedType DEF Mkdir
  <2> QED
    BY <1>2, <2>2 DEF Mkdir
<1>3. ASSUME NEW d \in Dirs, Rmdir(d)
      PROVE  KernelTypes'
  <2>1. at[d] \in AllPaths
    BY <1>3 DEF Rmdir
  <2>2. Entry("delete", at[d]) \in Raised /\ WdAt(Parent(at[d])) \in Descriptors
    BY <2>1, PathTokens, EntryType, DescriptorAt
  <2>3. d = Top => Self("delete_self", wd[Top]) \in Raised /\ wd[Top] \in Descriptors
    BY SelfType
  <2>4. os' \in Seq(Raised)
    BY <1>3, <2>2, <2>3, QueuedType DEF Rmdir
  <2> QED
    BY <1>3, <2>4 DEF Rmdir, Descriptors
<1>4. ASSUME NEW d \in Dirs, NEW p \in AllPaths, Rename(d, p)
      PROVE  KernelTypes'
  <2>1. at[d] \in AllPaths
    BY <1>4 DEF Rename
  <2>2. Entry("moved_from", at[d]) \in Raised /\ WdAt(Parent(at[d])) \in Descriptors
    BY <2>1, PathTokens, EntryType, DescriptorAt
  <2>3. d = Top => Self("move_self", wd[Top]) \in Raised /\ wd[Top] \in Descriptors
    BY SelfType
  <2>4. os' \in Seq(Raised)
    BY <1>4, <2>2, <2>3, QueuedType DEF Rename
  <2>5. at' \in [Dirs -> AllPaths \cup {Nowhere}]
    BY <1>4 DEF Rename, Moved
  <2> QED
    BY <1>4, <2>4, <2>5 DEF Rename
<1>5. CASE RenameEnds
  <2>1. half \in AllPaths
    BY <1>5 DEF RenameEnds
  <2>2. Entry("moved_to", half) \in Raised /\ WdAt(Parent(half)) \in Descriptors
    BY <2>1, PathTokens, EntryType, DescriptorAt
  <2>3. os' \in Seq(Raised)
    BY <1>5, <2>2, QueuedType DEF RenameEnds
  <2> QED
    BY <1>5, <2>3 DEF RenameEnds
<1>6. CASE ReadEvent
  BY <1>6 DEF ReadEvent
<1>7. ASSUME NEW p, NEW ok \in BOOLEAN, RemoveWatch(p, ok),
             UNCHANGED <<at, half, os>>
      PROVE  KernelTypes'
  BY <1>7 DEF RemoveWatch, Forgetting, Descriptors
<1>8. CASE AddWatch
  <2>1. UNCHANGED <<at, half, os>>
    BY <1>8 DEF AddWatch
  <2>2. wd' \in [Dirs -> Descriptors]
    <3>1. \/ wd' = wd
          \/ nextWd \in Wds /\ wd' = [wd EXCEPT ![InodeAt(Head(walk))] = nextWd]
      BY <1>8 DEF AddWatch
    <3> QED
      BY <3>1 DEF Descriptors
  <2> QED
    BY <2>1, <2>2
<1>9. CASE HandleShutdown
  BY <1>9 DEF HandleShutdown, Descriptors
<1>10. CASE RemoveNext \/ HandleUnwatch
  BY <1>7, <1>10 DEF RemoveNext, HandleUnwatch
<1>11. CASE BatchBegins \/ BatchRead \/ ReadFails \/ RemovalsDone \/ AddNext \/ BatchEnds \/ WalkNext
            \/ RecordWatch \/ WalkEnds \/ HandleWatch \/ Owner \/ UNCHANGED vars
  BY <1>1, <1>11
     DEF BatchBegins, BatchRead, ReadFails, RemovalsDone, AddNext, BatchEnds, WalkNext,
         RecordWatch, WalkEnds, HandleWatch, Owner, Ask, kernel, vars
<1> QED
  BY <1>2, <1>3, <1>4, <1>5, <1>6, <1>8, <1>9, <1>10, <1>11
     DEF Next, FileSystem, EventLoop

\* Whatever the thread records or notes lies below the watched folder.
LEMMA StepAllUnderRoot ==
  ASSUME KernelTypes, AllUnderRoot, WalksForSomeone, [Next]_vars
  PROVE  AllUnderRoot'
PROOF
<1> USE DEF AllUnderRoot
<1> HIDE DEF UnderRoot
<1>1. CASE UNCHANGED <<paths, add, walk>>
  BY <1>1
<1>2. \A q \in Seq(UnderRoot) : q # <<>> => /\ Head(q) \in UnderRoot
                                           /\ Tail(q) \in Seq(UnderRoot)
  OBVIOUS
<1>3. <<>> \in Seq(UnderRoot) /\ \A p \in UnderRoot : <<p>> \in Seq(UnderRoot)
  OBVIOUS
<1>4. ASSUME NEW limit \in BOOLEAN, WalkAborted(limit), UNCHANGED paths,
             pc \in Walking
      PROVE  AllUnderRoot'
  <2>1. add' = add \/ add' = <<>> \/ (add' = Tail(add) /\ add # <<>>)
    BY <1>4 DEF WalkAborted, WalksForSomeone
  <2>2. walk' = <<>>
    BY <1>4 DEF WalkAborted
  <2> QED
    BY <1>2, <1>3, <1>4, <2>1, <2>2
<1>5. CASE ReadEvent
  <2> DEFINE e == Head(os)
  <2>1. e \in Raised
    BY <1>5 DEF ReadEvent, KernelTypes
  <2>2. PathOf(e) # Nowhere => PathOf(e) \in UnderRoot
    <3>1. e.wd \in Descriptors /\ e.name \in Tokens
      BY <2>1 DEF Raised
    <3>2. ASSUME e.wd \in Wds, paths[e.wd] # Nowhere
          PROVE  paths[e.wd] \in UnderRoot /\ Append(paths[e.wd], e.name) \in UnderRoot
      BY <3>1, <3>2, AppendStaysUnder
    <3> HIDE DEF e
    <3> QED
      BY <3>1, <3>2 DEF PathOf, Descriptors
  <2> HIDE DEF e
  <2>3. add' = add \/ (PathOf(e) # Nowhere /\ add' = Append(add, PathOf(e)))
    BY <1>5 DEF ReadEvent, Handle, ToAdd, e
  <2>4. add' \in Seq(UnderRoot)
    BY <2>2, <2>3, SMTT(30)
  <2> QED
    BY <1>5, <2>4 DEF ReadEvent, maps, walker
<1>6. ASSUME NEW p, NEW ok \in BOOLEAN, RemoveWatch(p, ok), UNCHANGED <<add, walk>>
      PROVE  AllUnderRoot'
  BY <1>6 DEF RemoveWatch, Forgetting, maps
<1>7. CASE RemoveNext \/ HandleUnwatch
  BY <1>6, <1>7 DEF RemoveNext, HandleUnwatch, walker, batch
<1>8. CASE BatchBegins
  BY <1>3, <1>8 DEF BatchBegins, maps, walker
<1>9. CASE AddNext
  BY <1>2, <1>3, <1>9 DEF AddNext, maps, walker
<1>10. CASE WalkNext
  BY <1>2, <1>10 DEF WalkNext, maps, batch
<1>11. CASE WalkEnds
  <2>1. add' = add \/ (add' = Tail(add) /\ add # <<>>)
    BY <1>11 DEF WalkEnds, WalksForSomeone, Walking
  <2> QED
    BY <1>2, <1>11, <2>1 DEF WalkEnds, maps, walker
<1>12. CASE AddWatch
  <2>1. \/ UNCHANGED <<paths, add, walk>>
        \/ \E limit \in BOOLEAN : WalkAborted(limit) /\ UNCHANGED paths
    BY <1>12 DEF AddWatch, maps
  <2> QED
    BY <1>1, <1>4, <1>12, <2>1 DEF AddWatch, Walking
<1>13. CASE RecordWatch
  <2>1. CASE WalkAborted(FALSE) /\ UNCHANGED maps
    BY <1>4, <1>13, <2>1 DEF RecordWatch, Walking, maps
  <2>2. CASE ~ (WalkAborted(FALSE) /\ UNCHANGED maps)
    <3>1. walk # <<>>
      BY <1>13 DEF RecordWatch, WalksForSomeone
    <3> DEFINE p == Head(walk)
    <3>2. p \in UnderRoot /\ Tail(walk) \in Seq(UnderRoot)
      BY <1>2, <3>1
    <3>3. PICK below \in SetToSeqs(Listing(p)) : walk' = below \o Tail(walk)
      BY <1>13, <2>2 DEF RecordWatch
    <3>4. paths' = [paths EXCEPT ![fresh] = p] /\ add' = add
      BY <1>13, <2>2 DEF RecordWatch
    <3> HIDE DEF p
    <3>5. below \in Seq(UnderRoot)
      BY <3>2, <3>3, ListingUnder
    <3>6. walk' \in Seq(UnderRoot)
      BY <3>2, <3>3, <3>5
    <3>7. paths' \in [Wds -> UnderRoot \cup {Nowhere}]
      BY <3>2, <3>4
    <3> QED
      BY <3>4, <3>6, <3>7
  <2> QED
    BY <2>1, <2>2
<1>14. CASE HandleWatch
  BY <1>3, <1>14, RootIsUnder DEF HandleWatch, maps
<1>15. CASE HandleShutdown
  BY <1>15 DEF HandleShutdown, maps, batch, walker
<1>16. CASE BatchRead \/ ReadFails \/ RemovalsDone \/ BatchEnds \/ Owner \/ FileSystem
            \/ RenameEnds \/ UNCHANGED vars
  BY <1>1, <1>16
     DEF BatchRead, ReadFails, RemovalsDone, BatchEnds, Owner, Ask, FileSystem, RenameEnds,
         maps, batch, walker, vars
<1> QED
  BY <1>5, <1>7, <1>8, <1>9, <1>10, <1>11, <1>12, <1>13, <1>14, <1>15, <1>16
     DEF Next, EventLoop

\* A walk is always somebody's.
LEMMA StepWalksForSomeone ==
  ASSUME KernelTypes, AllUnderRoot, WalksForSomeone, SilentAtFirst, [Next]_vars
  PROVE  WalksForSomeone'
PROOF
<1> USE DEF WalksForSomeone, Walking
<1>1. CASE FileSystem \/ RenameEnds \/ UNCHANGED vars
  BY <1>1 DEF FileSystem, RenameEnds, vars, walker, batch
<1>2. CASE Owner
  BY <1>2 DEF Owner, Ask, walker, batch, SilentAtFirst
<1>3. CASE BatchBegins
  BY <1>3 DEF BatchBegins, SilentAtFirst
<1>4. CASE ReadEvent \/ BatchRead \/ ReadFails \/ RemoveNext \/ RemovalsDone \/ BatchEnds
  BY <1>4 DEF ReadEvent, BatchRead, ReadFails, RemoveNext, RemovalsDone, BatchEnds
<1>5. CASE AddNext \/ WalkNext
  BY <1>5 DEF AddNext, WalkNext, batch
<1>6. CASE WalkEnds
  BY <1>6 DEF WalkEnds
<1>7. ASSUME NEW limit \in BOOLEAN, WalkAborted(limit)
      PROVE  WalksForSomeone'
  BY <1>7 DEF WalkAborted
<1>8. CASE AddWatch
  BY <1>7, <1>8 DEF AddWatch
<1>9. CASE RecordWatch
  BY <1>7, <1>9 DEF RecordWatch
<1>10. CASE HandleWatch \/ HandleUnwatch \/ HandleShutdown
  BY <1>10 DEF HandleWatch, HandleUnwatch, HandleShutdown
<1> QED
  BY <1>1, <1>2, <1>3, <1>4, <1>5, <1>6, <1>8, <1>9, <1>10 DEF Next, EventLoop

\* No watch, no event.
LEMMA StepSilentAtFirst ==
  ASSUME KernelTypes, AllUnderRoot, WalksForSomeone, SilentAtFirst, [Next]_vars
  PROVE  SilentAtFirst'
PROOF
<1> USE DEF SilentAtFirst
<1>1. CASE UNCHANGED <<user, pc, os, wd>>
  BY <1>1
<1>2. CASE Owner
  BY <1>2 DEF Owner, Ask, kernel
<1>3. ASSUME FileSystem, user = "new" \/ (user = "watch?" /\ pc = "idle")
      PROVE  os' = <<>> /\ \A d \in Dirs : wd'[d] = NoWd
  <2>1. \A p : WdAt(p) = NoWd
    BY <1>3, DescriptorAt
  <2>2. \A w, e : w = NoWd => Queued(os, w, e) = os
    BY DEF Queued
  <2>3. CASE \E d \in Dirs, p \in AllPaths : Mkdir(d, p)
    BY <1>3, <2>1, <2>2, <2>3 DEF Mkdir
  <2>4. CASE \E d \in Dirs : Rmdir(d)
    BY <1>3, <2>1, <2>2, <2>4 DEF Rmdir, KernelTypes
  <2>5. CASE \E d \in Dirs, p \in AllPaths : Rename(d, p)
    BY <1>3, <2>1, <2>2, <2>5 DEF Rename
  <2> QED
    BY <1>3, <2>3, <2>4, <2>5 DEF FileSystem
<1>4. CASE FileSystem
  BY <1>3, <1>4 DEF FileSystem
<1>5. CASE RenameEnds
  <2>1. \A p : (\A d \in Dirs : wd[d] = NoWd) => WdAt(p) = NoWd
    BY DescriptorAt
  <2>2. \A w, e : w = NoWd => Queued(os, w, e) = os
    BY DEF Queued
  <2> QED
    BY <1>5, <2>1, <2>2 DEF RenameEnds
<1>6. CASE BatchBegins
  BY <1>6 DEF BatchBegins
<1>7. CASE ReadEvent \/ BatchRead \/ ReadFails \/ RemoveNext \/ RemovalsDone \/ AddNext \/ BatchEnds
  BY <1>7
     DEF ReadEvent, BatchRead, ReadFails, RemoveNext, RemovalsDone, AddNext, BatchEnds,
         WalksForSomeone, Walking
<1>8. CASE WalkNext \/ WalkEnds
  BY <1>8 DEF WalkNext, WalkEnds
<1>9. ASSUME NEW limit \in BOOLEAN, WalkAborted(limit), pc \in Walking
      PROVE  SilentAtFirst'
  BY <1>9 DEF WalkAborted, Walking
<1>10. CASE AddWatch
  BY <1>9, <1>10 DEF AddWatch, Walking
<1>11. CASE RecordWatch
  BY <1>9, <1>11 DEF RecordWatch, Walking
<1>12. CASE HandleWatch
  BY <1>12 DEF HandleWatch
<1>13. CASE HandleUnwatch \/ HandleShutdown
  BY <1>13 DEF HandleUnwatch, HandleShutdown
<1> QED
  BY <1>1, <1>2, <1>4, <1>5, <1>6, <1>7, <1>8, <1>10, <1>11, <1>12, <1>13
     DEF Next, EventLoop, vars, kernel

\* After unwatch no event has a path, so no batch adds a watch.
LEMMA StepForgotten ==
  ASSUME AllUnderRoot, WalksForSomeone, Forgotten, KernelTypes, [Next]_vars
  PROVE  Forgotten'
PROOF
<1> USE DEF Forgotten
<1>1. CASE FileSystem \/ RenameEnds \/ UNCHANGED vars
  BY <1>1 DEF FileSystem, RenameEnds, vars, maps, batch
<1>2. CASE Owner
  BY <1>2 DEF Owner, Ask
<1>3. CASE BatchBegins
  BY <1>3 DEF BatchBegins, maps
<1>4. CASE ReadEvent
  <2>1. ASSUME \A w \in Wds : paths[w] = Nowhere
        PROVE  PathOf(Head(os)) = Nowhere
    <3>1. Head(os).wd \in Descriptors
      <4>1. Head(os) \in Raised
        BY <1>4 DEF ReadEvent, KernelTypes
      <4> QED
        BY <4>1 DEF Raised
    <3> QED
      BY <2>1, <3>1 DEF PathOf, Descriptors
  <2> QED
    BY <1>4, <2>1 DEF ReadEvent, Handle, maps
<1>5. CASE BatchRead \/ ReadFails \/ RemovalsDone \/ BatchEnds
  BY <1>5 DEF BatchRead, ReadFails, RemovalsDone, BatchEnds, maps, batch
<1>6. CASE RemoveNext
  BY <1>6 DEF RemoveNext, RemoveWatch, Forgetting, maps
<1>7. CASE AddNext \/ WalkNext
  BY <1>7 DEF AddNext, WalkNext, Walking
<1>8. CASE WalkEnds
  BY <1>8 DEF WalkEnds
<1>9. CASE AddWatch \/ RecordWatch
  BY <1>9 DEF AddWatch, RecordWatch, WalkAborted
<1>10. CASE HandleWatch \/ HandleShutdown
  BY <1>10 DEF HandleWatch, HandleShutdown
<1>11. CASE HandleUnwatch
  <2>1. CASE user' = "unwatched"
    <3>1. RemoveWatch(Root, TRUE) /\ pc' = "idle"
      BY <1>11, <2>1 DEF HandleUnwatch
    <3>2. paths' = [w \in Wds |-> IF w \in {watches[Root]} \cup (Within(Root) \ {watches[Root]})
                                    THEN Nowhere ELSE paths[w]]
      BY <3>1 DEF RemoveWatch, Forgetting
    <3>3. \A w \in Wds : paths[w] # Nowhere => w \in Within(Root)
      BY UnderIsBelow DEF AllUnderRoot, Within
    <3>4. \A w \in Wds : paths'[w] = Nowhere
      BY <3>2, <3>3
    <3> QED
      BY <3>1, <3>4
  <2> QED
    BY <1>11, <2>1
<1> QED
  BY <1>1, <1>2, <1>3, <1>4, <1>5, <1>6, <1>7, <1>8, <1>9, <1>10, <1>11
     DEF Next, EventLoop

-----------------------------------------------------------------------------
\* At the start nothing is watched, queued or kept.
LEMMA InotifyFirst ==
  ASSUME Init
  PROVE  InotifyInv
<1>1. KernelTypes
  BY StartAssumption DEF Init, KernelTypes, Dirs, Descriptors
<1>2. AllUnderRoot /\ WalksForSomeone /\ SilentAtFirst /\ Forgotten
  BY DEF Init, AllUnderRoot, WalksForSomeone, SilentAtFirst, Forgotten, Walking
<1> QED
  BY <1>1, <1>2 DEF InotifyInv

\* What the back end keeps and what is queued for it hold together in every
\* reachable state: all of it is below the watched folder, a walk is somebody's.
THEOREM InotifyInvariant == Spec => []InotifyInv
<1>1. Init => InotifyInv
  BY InotifyFirst
<1>2. InotifyInv /\ [Next]_vars => InotifyInv'
  BY StepKernelTypes, StepAllUnderRoot, StepWalksForSomeone, StepSilentAtFirst,
     StepForgotten DEF InotifyInv
<1> QED
  BY <1>1, <1>2, PTL DEF Spec

\* When unwatch has returned Ok no event, queued or still to come, has a path
\* it could be reported under, whatever the thread goes on reading.
THEOREM UnwatchIsFinal == Spec => []UnwatchForgets
<1>1. InotifyInv => UnwatchForgets
  BY DEF InotifyInv, Forgotten, UnwatchForgets
<1> QED
  BY <1>1, InotifyInvariant, PTL

-----------------------------------------------------------------------------
(***************************************************************************)
(* Paths.  Below these lemmas a path is never taken apart any more.         *)
(***************************************************************************)
Trails == Seq(Tokens)

LEMMA BelowIs ==
  ASSUME NEW p \in Trails, NEW q \in Trails
  PROVE  IsBelow(p, q) <=> Len(q) <= Len(p) /\ \A i \in 1 .. Len(q) : p[i] = q[i]
<1> USE DEF Trails
<1>1. Len(p) \in Nat /\ Len(q) \in Nat
  OBVIOUS
<1>2. /\ SubSeq(q, 1, Len(q)) = q
  BY SubSeqFull
<1>3. CASE Len(q) <= Len(p)
  <2>1. \A i \in 1 .. Len(q) : p[i] \in Tokens
    <3>1. \A i \in 1 .. Len(q) : i \in 1 .. Len(p)
      BY <1>1, <1>3
    <3> QED
      BY <3>1
  <2>2. /\ SubSeq(p, 1, Len(q)) \in Seq(Tokens)
        /\ Len(SubSeq(p, 1, Len(q))) = IF 1 <= Len(q) THEN Len(q) - 1 + 1 ELSE 0
        /\ \A i \in 1 .. Len(q) - 1 + 1 : SubSeq(p, 1, Len(q))[i] = p[1 + i - 1]
    <3> HIDE DEF Tokens
    <3> QED
      BY <1>1, <2>1, SubSeqProperties
  <2>3. Len(SubSeq(p, 1, Len(q))) = Len(q)
        /\ \A i \in 1 .. Len(q) : SubSeq(p, 1, Len(q))[i] = p[i]
    <3>1. Len(q) - 1 + 1 = Len(q) /\ \A i \in 1 .. Len(q) : 1 + i - 1 = i
      BY <1>1
    <3>2. Len(SubSeq(p, 1, Len(q))) = Len(q)
      BY <1>1, <2>2
    <3>3. \A i \in 1 .. Len(q) : SubSeq(p, 1, Len(q))[i] = p[i]
      BY <2>2, <3>1
    <3> QED
      BY <3>2, <3>3
  <2>4. SubSeq(p, 1, Len(q)) = q <=> \A i \in 1 .. Len(q) : p[i] = q[i]
    <3>1. ASSUME \A i \in 1 .. Len(q) : p[i] = q[i] PROVE SubSeq(p, 1, Len(q)) = q
      <4> DEFINE s == SubSeq(p, 1, Len(q))
      <4>1. s \in Seq(Tokens) /\ Len(s) = Len(q) /\ \A i \in 1 .. Len(s) : s[i] = q[i]
        BY <2>2, <2>3, <3>1
      <4> HIDE DEF s, Tokens
      <4>2. s = q
        BY <4>1, SeqEqual
      <4> QED
        BY <4>2 DEF s
    <3> QED
      BY <2>3, <3>1
  <2> QED
    BY <1>2, <1>3, <2>4 DEF IsBelow, IsPrefix
<1>4. CASE ~ (Len(q) <= Len(p))
  BY <1>4 DEF IsBelow, IsPrefix
<1> QED
  BY <1>3, <1>4

\* "Is below" is an order on paths, and the paths above one are in a chain.
LEMMA BelowOrder ==
  /\ \A p \in Trails : IsBelow(p, p) /\ IsBelow(p, Nowhere)
  /\ \A p, q, r \in Trails : IsBelow(p, q) /\ IsBelow(q, r) => IsBelow(p, r)
  /\ \A p, q \in Trails : IsBelow(p, q) /\ IsBelow(q, p) => p = q
  /\ \A p, q, r \in Trails : IsBelow(p, q) /\ IsBelow(p, r) => IsBelow(q, r) \/ IsBelow(r, q)
  /\ \A q \in Trails : IsBelow(Nowhere, q) => q = Nowhere
<1>1. \A p \in Trails : Len(p) \in Nat
  BY DEF Trails
<1>2. Nowhere \in Trails /\ Len(Nowhere) = 0
  BY DEF Trails, Nowhere
<1>3. \A p \in Trails : IsBelow(p, p) /\ IsBelow(p, Nowhere)
  BY <1>1, <1>2, BelowIs
<1>4. ASSUME NEW p \in Trails, NEW q \in Trails, NEW r \in Trails, IsBelow(p, q), IsBelow(q, r)
      PROVE  IsBelow(p, r)
  <2>1. Len(q) <= Len(p) /\ Len(r) <= Len(q)
        /\ (\A i \in 1 .. Len(q) : p[i] = q[i]) /\ \A i \in 1 .. Len(r) : q[i] = r[i]
    BY <1>4, BelowIs
  <2>2. Len(r) <= Len(p) /\ \A i \in 1 .. Len(r) : i \in 1 .. Len(q)
    BY <1>1, <2>1
  <2> QED
    BY <2>1, <2>2, BelowIs
<1>5. ASSUME NEW p \in Trails, NEW q \in Trails, IsBelow(p, q), IsBelow(q, p)
      PROVE  p = q
  <2>1. Len(q) <= Len(p) /\ Len(p) <= Len(q) /\ \A i \in 1 .. Len(q) : p[i] = q[i]
    BY <1>5, BelowIs
  <2>2. Len(p) = Len(q)
    BY <1>1, <2>1
  <2> QED
    BY <2>1, <2>2, SeqEqual DEF Trails
<1>6. ASSUME NEW p \in Trails, NEW q \in Trails, NEW r \in Trails, IsBelow(p, q), IsBelow(p, r)
      PROVE  IsBelow(q, r) \/ IsBelow(r, q)
  <2>1. (\A i \in 1 .. Len(q) : p[i] = q[i]) /\ \A i \in 1 .. Len(r) : p[i] = r[i]
    BY <1>6, BelowIs
  <2>2. CASE Len(r) <= Len(q)
    <3>1. \A i \in 1 .. Len(r) : i \in 1 .. Len(q)
      BY <1>1, <2>2
    <3> QED
      BY <2>1, <2>2, <3>1, BelowIs
  <2>3. CASE Len(q) <= Len(r)
    <3>1. \A i \in 1 .. Len(q) : i \in 1 .. Len(r)
      BY <1>1, <2>3
    <3> QED
      BY <2>1, <2>3, <3>1, BelowIs
  <2> QED
    BY <1>1, <2>2, <2>3
<1>7. ASSUME NEW q \in Trails, IsBelow(Nowhere, q) PROVE q = Nowhere
  BY <1>2, <1>3, <1>5, <1>7
<1> QED
  BY <1>3, <1>4, <1>5, <1>6, <1>7

\* A folder in q is right below q.
LEMMA Entries ==
  ASSUME NEW q \in Trails, NEW n \in Tokens
  PROVE  /\ Append(q, n) \in Trails
         /\ Append(q, n) # Nowhere
         /\ Parent(Append(q, n)) = q
         /\ Last(Append(q, n)) = n
         /\ IsBelow(Append(q, n), q)
         /\ ~ IsBelow(q, Append(q, n))
         /\ \A r \in Trails : IsBelow(Append(q, n), r) => r = Append(q, n) \/ IsBelow(q, r)
<1> DEFINE p == Append(q, n)
<1> HIDE DEF Tokens
<1>1. p \in Seq(Tokens) /\ Len(p) = Len(q) + 1 /\ Len(q) \in Nat
      /\ (\A i \in 1 .. Len(q) : p[i] = q[i]) /\ p[Len(q) + 1] = n
  BY DEF Trails
<1> HIDE DEF p
<1>2. p # Nowhere /\ Last(p) = n
  BY <1>1 DEF Nowhere, Last
<1>3. Parent(p) = q
  <2>1. Len(p) - 1 = Len(q)
    BY <1>1
  <2>2. \A i \in 1 .. Len(q) : p[i] \in Tokens
    BY <1>1 DEF Trails
  <2>3. /\ SubSeq(p, 1, Len(q)) \in Seq(Tokens)
        /\ Len(SubSeq(p, 1, Len(q))) = IF 1 <= Len(q) THEN Len(q) - 1 + 1 ELSE 0
        /\ \A i \in 1 .. Len(q) - 1 + 1 : SubSeq(p, 1, Len(q))[i] = p[1 + i - 1]
    BY <1>1, <2>2, SubSeqProperties
  <2> DEFINE s == SubSeq(p, 1, Len(q))
  <2>4. Len(s) = Len(q)
    BY <1>1, <2>3
  <2>5. \A i \in 1 .. Len(q) : s[i] = q[i]
    <3>1. Len(q) - 1 + 1 = Len(q) /\ \A i \in 1 .. Len(q) : 1 + i - 1 = i
      BY <1>1
    <3> QED
      BY <1>1, <2>3, <3>1
  <2>6. s \in Seq(Tokens)
    BY <2>3
  <2> HIDE DEF s
  <2>7. s = q
    BY <2>4, <2>5, <2>6, SeqEqual DEF Trails
  <2> QED
    BY <2>1, <2>7 DEF s, Parent, Front
<1>4. IsBelow(p, q) /\ ~ IsBelow(q, p)
  BY <1>1, BelowIs DEF Trails
<1>5. ASSUME NEW r \in Trails, IsBelow(p, r), r # p PROVE IsBelow(q, r)
  <2>1. Len(r) <= Len(p) /\ Len(r) \in Nat /\ \A i \in 1 .. Len(r) : p[i] = r[i]
    BY <1>1, <1>5, BelowIs DEF Trails
  <2>2. Len(r) # Len(p)
    BY <1>1, <1>5, <2>1, SeqEqual DEF Trails
  <2>3. Len(r) <= Len(q) /\ \A i \in 1 .. Len(r) : i \in 1 .. Len(q)
    BY <1>1, <2>1, <2>2
  <2> QED
    BY <1>1, <2>1, <2>3, BelowIs
<1> QED
  BY <1>1, <1>2, <1>3, <1>4, <1>5 DEF p, Trails

\* Every path but the empty one is an entry of the folder it is in.
LEMMA Splitting ==
  ASSUME NEW p \in Trails, p # Nowhere
  PROVE  Parent(p) \in Trails /\ Last(p) \in Tokens /\ p = Append(Parent(p), Last(p))
<1> HIDE DEF Tokens
<1>1. Len(p) \in Nat /\ Len(p) >= 1 /\ \A i \in 1 .. Len(p) : p[i] \in Tokens
  BY DEF Trails, Nowhere
<1>2. Last(p) \in Tokens
  BY <1>1 DEF Last
<1> DEFINE n == Len(p) - 1
           s == SubSeq(p, 1, n)
<1>3. n \in Nat /\ Len(p) = n + 1
  BY <1>1
<1>4. \A i \in 1 .. n : p[i] \in Tokens
  <2>1. \A i \in 1 .. n : i \in 1 .. Len(p)
    BY <1>3
  <2> QED
    BY <1>1, <2>1
<1> HIDE DEF n
<1>5. /\ s \in Seq(Tokens)
      /\ Len(s) = IF 1 <= n THEN n - 1 + 1 ELSE 0
      /\ \A i \in 1 .. n - 1 + 1 : s[i] = p[1 + i - 1]
  BY <1>3, <1>4, SubSeqProperties
<1>6. Len(s) = n /\ \A i \in 1 .. n : s[i] = p[i]
  <2>1. n - 1 + 1 = n /\ \A i \in 1 .. n : 1 + i - 1 = i
    BY <1>3
  <2>2. Len(s) = n
    BY <1>3, <1>5
  <2>3. \A i \in 1 .. n : s[i] = p[i]
    BY <1>5, <2>1
  <2> QED
    BY <2>2, <2>3
<1>7. s = Parent(p) /\ p[n + 1] = Last(p)
  BY <1>3 DEF n, Parent, Front, Last
<1> HIDE DEF s
<1> DEFINE a == Append(s, Last(p))
<1>8. a \in Seq(Tokens) /\ Len(a) = n + 1
      /\ (\A i \in 1 .. n : a[i] = p[i]) /\ a[n + 1] = Last(p)
  BY <1>2, <1>3, <1>5, <1>6
<1> HIDE DEF a
<1>9. \A i \in 1 .. Len(a) : i \in 1 .. n \/ i = n + 1
  BY <1>3, <1>8
<1>10. \A i \in 1 .. Len(a) : a[i] = p[i]
  BY <1>7, <1>8, <1>9
<1>11. Len(a) = Len(p)
  BY <1>3, <1>8
<1>12. a = p
  BY <1>8, <1>10, <1>11, SeqEqual DEF Trails
<1> QED
  BY <1>2, <1>5, <1>7, <1>12 DEF a, Trails

\* Anything deeper in q is in an entry of q.
LEMMA NextBelow ==
  ASSUME NEW p \in Trails, NEW q \in Trails, IsBelow(p, q), p # q
  PROVE  \E n \in Tokens : IsBelow(p, Append(q, n))
<1> HIDE DEF Tokens
<1>1. Len(q) \in Nat /\ Len(p) \in Nat /\ Len(q) <= Len(p) /\ \A i \in 1 .. Len(q) : p[i] = q[i]
  BY BelowIs DEF Trails
<1>2. Len(p) # Len(q)
  BY <1>1, SeqEqual DEF Trails
<1>3. Len(q) + 1 <= Len(p) /\ Len(q) + 1 \in 1 .. Len(p)
  BY <1>1, <1>2
<1> DEFINE n == p[Len(q) + 1]
           a == Append(q, n)
<1>4. n \in Tokens
  BY <1>3 DEF Trails
<1> HIDE DEF n
<1>5. a \in Seq(Tokens) /\ Len(a) = Len(q) + 1 /\ (\A i \in 1 .. Len(q) : a[i] = q[i])
      /\ a[Len(q) + 1] = n
  BY <1>4 DEF Trails
<1> HIDE DEF a
<1>6. \A i \in 1 .. Len(a) : i \in 1 .. Len(q) \/ i = Len(q) + 1
  BY <1>1, <1>5
<1>7. \A i \in 1 .. Len(a) : p[i] = a[i]
  BY <1>1, <1>5, <1>6 DEF n
<1>8. IsBelow(p, a)
  BY <1>3, <1>5, <1>7, BelowIs DEF Trails
<1> QED
  BY <1>4, <1>8 DEF a

\* What lies above a path of the file system is one too.
LEMMA PathsAbove ==
  ASSUME NEW p \in AllPaths, NEW q \in Trails, q # Nowhere, IsBelow(p, q)
  PROVE  q \in AllPaths
<1>1. PICK t \in {"root", "away"}, s \in Routes : p = <<t>> \o s
  BY DEF AllPaths, Root, Away
<1>2. PICK n \in 0 .. MaxDepth : s \in [1 .. n -> Names]
  BY <1>1 DEF Routes
<1>3. MaxDepth \in Nat /\ n \in Nat
  BY InotifyAssumption
<1>4. s \in Seq(Names) /\ Len(s) = n /\ <<t>> \in Seq({t}) /\ Len(<<t>>) = 1 /\ <<t>>[1] = t
  BY <1>2, <1>3
<1>5. p \in Trails /\ q \in Seq(Tokens)
  BY PathTokens DEF Trails
<1> DEFINE T == Names \cup {t}
<1>6. <<t>> \in Seq(T) /\ s \in Seq(T)
  <2> HIDE DEF T
  <2>1. {t} \subseteq T /\ Names \subseteq T
    BY DEF T
  <2> QED
    BY <1>4, <2>1, SeqMonotonic
<1>7. /\ Len(p) = 1 + n
      /\ \A i \in 1 .. 1 + n : p[i] = IF i <= 1 THEN <<t>>[i] ELSE s[i - 1]
  <2> HIDE DEF T
  <2> QED
    BY <1>1, <1>4, <1>6, ConcatProperties
<1>8. Len(q) \in Nat /\ Len(q) >= 1 /\ Len(q) <= Len(p) /\ \A i \in 1 .. Len(q) : p[i] = q[i]
  BY <1>5, BelowIs DEF Nowhere
<1> DEFINE m == Len(q) - 1
           u == [i \in 1 .. m |-> q[i + 1]]
<1>9. m \in 0 .. MaxDepth /\ m <= n
  BY <1>3, <1>7, <1>8
<1>10. \A i \in 1 .. m : q[i + 1] \in Names
  <2> SUFFICES ASSUME NEW i \in 1 .. m PROVE q[i + 1] \in Names
    OBVIOUS
  <2>1. i + 1 \in 1 .. Len(q) /\ i + 1 \in 1 .. 1 + n /\ ~ (i + 1 <= 1) /\ i + 1 - 1 = i /\ i \in 1 .. n
    BY <1>3, <1>7, <1>8
  <2>2. q[i + 1] = p[i + 1] /\ p[i + 1] = s[i + 1 - 1]
    BY <1>7, <1>8, <2>1
  <2>3. q[i + 1] = s[i]
    BY <2>1, <2>2
  <2> QED
    BY <1>2, <2>1, <2>3
<1>11. u \in [1 .. m -> Names]
  BY <1>10
<1>12. u \in Routes
  BY <1>9, <1>11 DEF Routes
<1>13. u \in Seq(Names) /\ Len(u) = m
  <2>1. m \in Nat
    BY <1>3, <1>9
  <2> HIDE DEF m, u
  <2> QED
    BY <1>11, <2>1
<1>14. u \in Seq(T) /\ \A i \in 1 .. m : u[i] = q[i + 1]
  <2>1. Names \subseteq T
    OBVIOUS
  <2> HIDE DEF T, u
  <2>2. u \in Seq(T)
    BY <1>13, <2>1, SeqMonotonic
  <2> QED
    BY <2>2 DEF u
<1> DEFINE c == <<t>> \o u
<1>15. /\ c \in Seq(T)
       /\ Len(c) = 1 + m
       /\ \A i \in 1 .. 1 + m : c[i] = IF i <= 1 THEN <<t>>[i] ELSE u[i - 1]
  <2> HIDE DEF T, u, m
  <2> QED
    BY <1>4, <1>6, <1>13, <1>14, ConcatProperties
<1>16. c \in AllPaths
  BY <1>12 DEF AllPaths, Root, Away
<1>17. c \in Seq(Tokens)
  BY <1>16, PathTokens
<1>18. Len(c) = Len(q)
  <2> HIDE DEF u, c
  <2> QED
    BY <1>8, <1>15
<1>19. \A i \in 1 .. Len(q) : c[i] = q[i]
  <2> SUFFICES ASSUME NEW i \in 1 .. Len(q) PROVE c[i] = q[i]
    OBVIOUS
  <2>1. CASE i = 1
    <3>1. c[1] = t
      <4>1. 1 \in 1 .. 1 + m /\ 1 <= 1
        BY <1>8
      <4> HIDE DEF u, c, m
      <4> QED
        BY <1>4, <1>15, <4>1
    <3>2. p[1] = t
      <4>1. 1 \in 1 .. 1 + n /\ 1 <= 1
        BY <1>3
      <4> QED
        BY <1>4, <1>7, <4>1
    <3>3. p[1] = q[1]
      BY <1>8
    <3> QED
      BY <2>1, <3>1, <3>2, <3>3
  <2>2. CASE i # 1
    <3>1. i \in 1 .. 1 + m /\ ~ (i <= 1) /\ i - 1 \in 1 .. m /\ i - 1 + 1 = i
      BY <1>8, <2>2
    <3>2. c[i] = u[i - 1]
      <4> HIDE DEF u, c, m
      <4> QED
        BY <1>15, <3>1
    <3>3. u[i - 1] = q[i - 1 + 1]
      <4> HIDE DEF u, c, m
      <4> QED
        BY <1>14, <3>1
    <3> HIDE DEF u, c, m
    <3> QED
      BY <3>1, <3>2, <3>3
  <2> QED
    BY <2>1, <2>2
<1>20. c = q
  <2> HIDE DEF c, T, Tokens
  <2> QED
    BY <1>5, <1>17, <1>18, <1>19, SeqEqual
<1> QED
  BY <1>16, <1>20

\* A path of the file system is one of the two roots or an entry of another.
LEMMA PathForms ==
  ASSUME NEW p \in AllPaths
  PROVE  /\ p \in Trails /\ p # Nowhere
         /\ Last(p) \in Tokens /\ Last(p) # ""
         /\ Parent(p) \in Trails
         /\ p = Append(Parent(p), Last(p))
         /\ Parent(p) # Nowhere => Parent(p) \in AllPaths
         /\ Len(p) > 1 <=> Parent(p) # Nowhere
<1>1. p \in Trails /\ p # Nowhere /\ Last(p) \in Tokens
  BY PathTokens DEF Trails
<1>2. Parent(p) \in Trails /\ p = Append(Parent(p), Last(p))
  BY <1>1, Splitting
<1>3. IsBelow(p, Parent(p))
  <2> DEFINE q == Parent(p)
             n == Last(p)
  <2>1. q \in Trails /\ n \in Tokens /\ p = Append(q, n)
    BY <1>1, <1>2
  <2> HIDE DEF q, n
  <2>2. IsBelow(Append(q, n), q)
    BY <2>1, Entries
  <2> QED
    BY <2>1, <2>2 DEF q
<1>4. Parent(p) # Nowhere => Parent(p) \in AllPaths
  BY <1>2, <1>3, PathsAbove
<1>5. Last(p) # ""
  <2>1. PICK t \in {"root", "away"}, s \in Routes : p = <<t>> \o s
    BY DEF AllPaths, Root, Away
  <2>2. PICK n \in 0 .. MaxDepth : s \in [1 .. n -> Names]
    BY <2>1 DEF Routes
  <2>3. n \in Nat
    BY InotifyAssumption
  <2>4. p[Len(p)] \in Names \cup {t}
    <3>1. s \in Seq(Names) /\ Len(s) = n
      BY <2>2, <2>3
    <3> DEFINE T == Names \cup {t}
    <3>2. <<t>> \in Seq(T) /\ Names \subseteq T
      OBVIOUS
    <3> HIDE DEF T
    <3>3. s \in Seq(T)
      BY <3>1, <3>2, SeqMonotonic
    <3>4. p \in Seq(T) /\ Len(p) = 1 + n
      BY <2>1, <3>1, <3>2, <3>3
    <3>5. Len(p) \in 1 .. Len(p)
      BY <2>3, <3>4
    <3>6. p[Len(p)] \in T
      BY <3>4, <3>5, ElementOfSeq
    <3> QED
      BY <3>6 DEF T
  <2> QED
    BY <2>4, NamesAssumption DEF Last
<1>6. Len(p) > 1 <=> Parent(p) # Nowhere
  <2>1. Len(p) = Len(Parent(p)) + 1 /\ Len(Parent(p)) \in Nat
    <3> HIDE DEF Tokens
    <3>1. Parent(p) \in Seq(Tokens)
      BY <1>2 DEF Trails
    <3>2. Len(Append(Parent(p), Last(p))) = Len(Parent(p)) + 1 /\ Len(Parent(p)) \in Nat
      BY <3>1
    <3> QED
      BY <1>2, <3>2
  <2>2. Len(Parent(p)) = 0 <=> Parent(p) = Nowhere
    <3> HIDE DEF Tokens
    <3> QED
      BY <1>2 DEF Trails, Nowhere
  <2> QED
    BY <2>1, <2>2
<1> QED
  BY <1>1, <1>2, <1>4, <1>5, <1>6

\* The two roots are not in anything, and the watched folder is at one.
LEMMA Roots ==
  /\ Root \in AllPaths /\ Root \in Trails /\ Root # Nowhere
  /\ Parent(Root) = Nowhere /\ Parent(Away) = Nowhere
  /\ \A p \in AllPaths : Parent(p) = Nowhere => p \in {Root, Away}
  /\ \A p \in Trails : IsBelow(p, Root) <=> p \in UnderRoot
  /\ ~ IsBelow(Away, Root)
<1>0. Root \in UnderRoot
  BY RootIsUnder
<1>1. MaxDepth \in Nat
  BY InotifyAssumption
<1>2. <<>> \in Routes
  <2>1. <<>> \in [1 .. 0 -> Names]
    OBVIOUS
  <2>2. 0 \in 0 .. MaxDepth
    BY <1>1
  <2> QED
    BY <2>1, <2>2 DEF Routes
<1>3. Root \o <<>> = Root /\ Away \o <<>> = Away
  BY DEF Root, Away
<1>4. Root \in AllPaths /\ Away \in AllPaths
  BY <1>2, <1>3 DEF AllPaths
<1>5. Parent(Root) = Nowhere /\ Parent(Away) = Nowhere
  <2>1. ~ (Len(Root) > 1) /\ ~ (Len(Away) > 1)
    BY DEF Root, Away
  <2> QED
    BY <1>4, <2>1, PathForms
<1>6. ASSUME NEW p \in AllPaths, Parent(p) = Nowhere PROVE p \in {Root, Away}
  <2>1. p = Append(<<>>, Last(p)) /\ Last(p) \in Tokens
    BY <1>6, PathForms DEF Nowhere
  <2>2. p = <<Last(p)>>
    BY <2>1
  <2>3. PICK t \in {"root", "away"}, s \in Routes : p = <<t>> \o s
    BY DEF AllPaths, Root, Away
  <2>4. PICK n \in 0 .. MaxDepth : s \in [1 .. n -> Names]
    BY DEF Routes
  <2>5. s \in Seq(Names) /\ n \in Nat
    BY <1>1, <2>4
  <2>6. p[1] = t
    <3> DEFINE T == Names \cup {t}
    <3>1. <<t>> \in Seq(T) /\ Names \subseteq T
      OBVIOUS
    <3> HIDE DEF T
    <3>2. s \in Seq(T) /\ Len(s) \in Nat
      BY <2>5, <3>1, SeqMonotonic
    <3>3. Len(<<t>>) = 1 /\ <<t>>[1] = t
      OBVIOUS
    <3>4. \A i \in 1 .. Len(<<t>>) + Len(s) :
             (<<t>> \o s)[i] = IF i <= Len(<<t>>) THEN <<t>>[i] ELSE s[i - Len(<<t>>)]
      BY <3>1, <3>2, ConcatProperties
    <3>5. 1 \in 1 .. Len(<<t>>) + Len(s) /\ 1 <= Len(<<t>>)
      BY <3>2, <3>3
    <3> QED
      BY <2>3, <3>3, <3>4, <3>5
  <2>7. Last(p) = t
    <3> DEFINE l == Last(p)
    <3>1. p = <<l>>
      BY <2>2
    <3> HIDE DEF l
    <3>2. p[1] = l
      BY <3>1
    <3> QED
      BY <2>6, <3>2 DEF l
  <2> QED
    BY <2>2, <2>7 DEF Root, Away
<1>7. ASSUME NEW p \in Trails, IsBelow(p, Root) PROVE p \in UnderRoot
  <2>1. Len(Root) = 1 /\ Root[1] = "root" /\ Root \in Trails
    BY <1>0 DEF Root, UnderRoot, Trails
  <2>2. Len(p) \in Nat /\ 1 <= Len(p) /\ p[1] = "root"
    BY <1>7, <2>1, BelowIs DEF Trails
  <2> QED
    BY <2>2 DEF UnderRoot, Trails
<1>8. Away \notin UnderRoot
  BY DEF Away, UnderRoot
<1>9. UnderRoot \subseteq Trails /\ AllPaths \subseteq Trails
  BY PathForms DEF UnderRoot, Trails
<1> QED
  BY <1>0, <1>4, <1>5, <1>6, <1>7, <1>8, <1>9, UnderIsBelow, PathForms

\* A rename carries what is below a folder along and keeps it in order.
LEMMA Moving ==
  ASSUME NEW old \in Trails, NEW new \in Trails, new # Nowhere
  PROVE  /\ \A p \in Trails : IsBelow(p, old) =>
              Moved(p, old, new) \in Trails /\ IsBelow(Moved(p, old, new), new)
         /\ Moved(old, old, new) = new
         /\ \A p, q \in Trails : IsBelow(p, old) /\ IsBelow(q, old)
              /\ Moved(p, old, new) = Moved(q, old, new) => p = q
         /\ \A p, q \in Trails : IsBelow(p, old) /\ IsBelow(Moved(p, old, new), q) =>
              IsBelow(new, q)
              \/ \E r \in Trails : IsBelow(p, r) /\ IsBelow(r, old) /\ Moved(r, old, new) = q
<1> HIDE DEF Tokens
<1>1. old \in Seq(Tokens) /\ new \in Seq(Tokens) /\ Len(old) \in Nat /\ Len(new) \in Nat
  BY DEF Trails
<1> DEFINE rest(p) == SubSeq(p, Len(old) + 1, Len(p))
<1>2. ASSUME NEW p \in Trails, IsBelow(p, old)
      PROVE  /\ Moved(p, old, new) \in Seq(Tokens)
             /\ Len(p) \in Nat /\ Len(old) <= Len(p)
             /\ \A i \in 1 .. Len(old) : p[i] = old[i]
             /\ Len(Moved(p, old, new)) = Len(new) + (Len(p) - Len(old))
             /\ \A i \in 1 .. Len(new) : Moved(p, old, new)[i] = new[i]
             /\ \A i \in 1 .. Len(p) - Len(old) :
                  Moved(p, old, new)[Len(new) + i] = p[Len(old) + i]
  <2>1. p \in Seq(Tokens) /\ Len(p) \in Nat /\ Len(old) <= Len(p)
        /\ \A i \in 1 .. Len(old) : p[i] = old[i]
    BY <1>1, <1>2, BelowIs DEF Trails
  <2> DEFINE k == Len(p) - Len(old)
             t == rest(p)
             m == new \o t
  <2>2. k \in Nat /\ Len(p) = Len(old) + k
    BY <1>1, <2>1
  <2>3. \A i \in Len(old) + 1 .. Len(p) : p[i] \in Tokens
    <3>1. \A i \in Len(old) + 1 .. Len(p) : i \in 1 .. Len(p)
      BY <1>1, <2>1
    <3> QED
      BY <2>1, <3>1
  <2>4. /\ t \in Seq(Tokens)
        /\ Len(t) = IF Len(old) + 1 <= Len(p) THEN Len(p) - (Len(old) + 1) + 1 ELSE 0
        /\ \A i \in 1 .. Len(p) - (Len(old) + 1) + 1 : t[i] = p[Len(old) + 1 + i - 1]
    BY <1>1, <2>1, <2>3, SubSeqProperties
  <2> HIDE DEF t, rest
  <2>5. Len(t) = k
    <3> DEFINE l == Len(t)
    <3>1. l = IF Len(old) + 1 <= Len(p) THEN Len(p) - (Len(old) + 1) + 1 ELSE 0
      BY <2>4
    <3> HIDE DEF l
    <3>2. CASE Len(old) + 1 <= Len(p)
      <4>1. l = Len(p) - (Len(old) + 1) + 1
        BY <3>1, <3>2
      <4> QED
        BY <1>1, <2>1, <4>1 DEF l
    <3>3. CASE ~ (Len(old) + 1 <= Len(p))
      <4>1. l = 0 /\ Len(p) = Len(old)
        BY <1>1, <2>1, <3>1, <3>3
      <4> QED
        BY <1>1, <4>1 DEF l
    <3> QED
      BY <3>2, <3>3
  <2>6. \A i \in 1 .. k : t[i] = p[Len(old) + i]
    <3> SUFFICES ASSUME NEW i \in 1 .. k PROVE t[i] = p[Len(old) + i]
      OBVIOUS
    <3>1. i \in 1 .. Len(p) - (Len(old) + 1) + 1 /\ Len(old) + 1 + i - 1 = Len(old) + i
      BY ONLY <1>1, <2>1, i \in 1 .. k
    <3> QED
      BY <2>4, <3>1
  <2> HIDE DEF k
  <2>7. /\ m \in Seq(Tokens) /\ Len(m) = Len(new) + k
        /\ \A i \in 1 .. Len(new) + k : m[i] = IF i <= Len(new) THEN new[i] ELSE t[i - Len(new)]
    BY <1>1, <2>4, <2>5, ConcatProperties
  <2> HIDE DEF m
  <2>8. \A i \in 1 .. Len(new) : m[i] = new[i]
    <3>1. \A i \in 1 .. Len(new) : i \in 1 .. Len(new) + k /\ i <= Len(new)
      BY <1>1, <2>2
    <3> QED
      BY <2>7, <3>1
  <2>9. \A i \in 1 .. k : m[Len(new) + i] = t[i]
    <3> SUFFICES ASSUME NEW i \in 1 .. k PROVE m[Len(new) + i] = t[i]
      OBVIOUS
    <3>1. Len(new) + i \in 1 .. Len(new) + k /\ ~ (Len(new) + i <= Len(new))
          /\ Len(new) + i - Len(new) = i
      BY <1>1, <2>2
    <3> QED
      BY <2>7, <3>1
  <2>10. m = Moved(p, old, new)
    BY <1>2 DEF m, t, rest, Moved
  <2>11. \A i \in 1 .. k : m[Len(new) + i] = p[Len(old) + i]
    BY <2>6, <2>9
  <2> QED
    BY <2>1, <2>7, <2>8, <2>10, <2>11 DEF k
<1> HIDE DEF rest
<1>3. ASSUME NEW p \in Trails, IsBelow(p, old)
      PROVE  Moved(p, old, new) \in Trails /\ IsBelow(Moved(p, old, new), new)
  <2> DEFINE m == Moved(p, old, new)
  <2>1. m \in Trails /\ Len(m) = Len(new) + (Len(p) - Len(old)) /\ Len(p) \in Nat
        /\ Len(old) <= Len(p) /\ \A i \in 1 .. Len(new) : m[i] = new[i]
    BY <1>2, <1>3 DEF Trails
  <2> HIDE DEF m
  <2>2. Len(new) <= Len(m)
    BY <1>1, <2>1
  <2>3. IsBelow(m, new)
    BY <2>1, <2>2, BelowIs
  <2> QED
    BY <2>1, <2>3 DEF m
<1>4. ASSUME NEW p \in Trails, NEW q \in Trails, IsBelow(p, old), IsBelow(q, old),
             Moved(p, old, new) = Moved(q, old, new)
      PROVE  p = q
  <2> DEFINE m == Moved(p, old, new)
  <2>1. /\ Len(p) \in Nat /\ Len(old) <= Len(p)
        /\ \A i \in 1 .. Len(old) : p[i] = old[i]
        /\ Len(m) = Len(new) + (Len(p) - Len(old))
        /\ \A i \in 1 .. Len(p) - Len(old) : m[Len(new) + i] = p[Len(old) + i]
    BY <1>2, <1>4
  <2>2. /\ Len(q) \in Nat /\ Len(old) <= Len(q)
        /\ \A i \in 1 .. Len(old) : q[i] = old[i]
        /\ Len(m) = Len(new) + (Len(q) - Len(old))
        /\ \A i \in 1 .. Len(q) - Len(old) : m[Len(new) + i] = q[Len(old) + i]
    BY <1>2, <1>4
  <2> HIDE DEF m
  <2>3. Len(p) = Len(q)
    BY <1>1, <2>1, <2>2
  <2>4. ASSUME NEW i \in 1 .. Len(p) PROVE p[i] = q[i]
    <3>1. CASE i <= Len(old)
      <4>1. i \in 1 .. Len(old)
        BY <1>1, <2>1, <3>1
      <4> QED
        BY <2>1, <2>2, <4>1
    <3>2. CASE ~ (i <= Len(old))
      <4> DEFINE j == i - Len(old)
      <4>1. j \in 1 .. Len(p) - Len(old) /\ i = Len(old) + j
        BY <1>1, <2>1, <3>2
      <4> HIDE DEF j
      <4> QED
        BY <2>1, <2>2, <2>3, <4>1
    <3> QED
      BY <3>1, <3>2
  <2> QED
    BY <2>3, <2>4, SeqEqual DEF Trails
<1>5. Moved(old, old, new) = new
  <2> DEFINE m == Moved(old, old, new)
  <2>1. m \in Seq(Tokens) /\ Len(m) = Len(new) + (Len(old) - Len(old))
        /\ \A i \in 1 .. Len(new) : m[i] = new[i]
    BY <1>2, BelowOrder
  <2> HIDE DEF m
  <2>2. Len(m) = Len(new)
    BY <1>1, <2>1
  <2>3. m = new
    BY <1>1, <2>1, <2>2, SeqEqual
  <2> QED
    BY <2>3 DEF m
<1>6. ASSUME NEW p \in Trails, NEW q \in Trails, IsBelow(p, old),
             IsBelow(Moved(p, old, new), q), ~ IsBelow(new, q)
      PROVE  \E r \in Trails : IsBelow(p, r) /\ IsBelow(r, old) /\ Moved(r, old, new) = q
  <2> DEFINE m == Moved(p, old, new)
  <2>1. /\ m \in Trails
        /\ p \in Seq(Tokens) /\ Len(p) \in Nat /\ Len(old) <= Len(p)
        /\ \A i \in 1 .. Len(old) : p[i] = old[i]
        /\ Len(m) = Len(new) + (Len(p) - Len(old))
        /\ \A i \in 1 .. Len(new) : m[i] = new[i]
        /\ \A i \in 1 .. Len(p) - Len(old) : m[Len(new) + i] = p[Len(old) + i]
    BY <1>2, <1>6 DEF Trails
  <2>2. IsBelow(m, q) /\ IsBelow(m, new)
    BY <1>3, <1>6
  <2> HIDE DEF m
  <2>3. Len(q) \in Nat /\ Len(q) <= Len(m) /\ \A i \in 1 .. Len(q) : m[i] = q[i]
    BY <2>1, <2>2, BelowIs DEF Trails
  <2>4. IsBelow(q, new)
    BY <1>6, <2>1, <2>2, BelowOrder
  <2>5. Len(new) <= Len(q)
    BY <2>4, BelowIs
  <2> DEFINE k == Len(old) + (Len(q) - Len(new))
             r == SubSeq(p, 1, k)
  <2>6. k \in Nat /\ Len(old) <= k /\ k <= Len(p)
    BY <1>1, <2>1, <2>3, <2>5
  <2>7. \A i \in 1 .. k : p[i] \in Tokens /\ i \in 1 .. Len(p)
    <3>1. \A i \in 1 .. k : i \in 1 .. Len(p)
      BY <2>1, <2>6
    <3> QED
      BY <2>1, <3>1
  <2>8. k - Len(old) = Len(q) - Len(new)
    BY <1>1, <2>3
  <2> HIDE DEF k
  <2>9. /\ r \in Seq(Tokens)
        /\ Len(r) = IF 1 <= k THEN k - 1 + 1 ELSE 0
        /\ \A i \in 1 .. k - 1 + 1 : r[i] = p[1 + i - 1]
    BY <2>6, <2>7, SubSeqProperties
  <2> HIDE DEF r
  <2>10. Len(r) = k /\ \A i \in 1 .. k : r[i] = p[i]
    <3>1. k - 1 + 1 = k /\ \A i \in 1 .. k : 1 + i - 1 = i
      BY <2>6
    <3>2. Len(r) = k
      BY <2>6, <2>9
    <3>3. \A i \in 1 .. k : r[i] = p[i]
      BY <2>9, <3>1
    <3> QED
      BY <3>2, <3>3
  <2>11. r \in Trails /\ IsBelow(p, r)
    BY <2>6, <2>9, <2>10, BelowIs DEF Trails
  <2>12. IsBelow(r, old)
    <3>1. \A i \in 1 .. Len(old) : i \in 1 .. k
      BY <1>1, <2>6
    <3>2. \A i \in 1 .. Len(old) : r[i] = old[i]
      BY <2>1, <2>10, <3>1
    <3> QED
      BY <2>6, <2>10, <2>11, <3>2, BelowIs
  <2> DEFINE n == Moved(r, old, new)
  <2>13. /\ n \in Seq(Tokens)
         /\ Len(n) = Len(new) + (Len(r) - Len(old))
         /\ \A i \in 1 .. Len(new) : n[i] = new[i]
         /\ \A i \in 1 .. Len(r) - Len(old) : n[Len(new) + i] = r[Len(old) + i]
    BY <1>2, <2>11, <2>12
  <2> HIDE DEF n
  <2>14. Len(n) = Len(q)
    BY <1>1, <2>3, <2>8, <2>10, <2>13
  <2>15. ASSUME NEW i \in 1 .. Len(q) PROVE n[i] = q[i]
    <3>1. m[i] = q[i]
      BY <2>3
    <3>2. CASE i <= Len(new)
      <4>1. i \in 1 .. Len(new)
        BY <1>1, <2>3, <3>2
      <4> QED
        BY <2>1, <2>13, <3>1, <4>1
    <3>3. CASE ~ (i <= Len(new))
      <4> DEFINE j == i - Len(new)
      <4>1. /\ i = Len(new) + j /\ j \in 1 .. k - Len(old)
            /\ j \in 1 .. Len(p) - Len(old) /\ Len(old) + j \in 1 .. k
        BY <1>1, <2>1, <2>3, <2>6, <2>8, <3>3
      <4> HIDE DEF j
      <4>2. m[Len(new) + j] = p[Len(old) + j]
        BY <2>1, <4>1
      <4>3. n[Len(new) + j] = r[Len(old) + j]
        BY <2>10, <2>13, <4>1
      <4> QED
        BY <2>10, <3>1, <4>1, <4>2, <4>3
    <3> QED
      BY <3>2, <3>3
  <2>16. n = q
    BY <2>13, <2>14, <2>15, SeqEqual DEF Trails
  <2> QED
    BY <2>11, <2>12, <2>16 DEF n
<1> QED
  BY <1>3, <1>4, <1>5, <1>6

\* What a sequence holds after the operations the model uses.
LEMMA Elements ==
  ASSUME NEW S, NEW s \in Seq(S)
  PROVE  /\ ToSet(s) \subseteq S
         /\ ToSet(<<>>) = {}
         /\ \A x \in S : ToSet(Append(s, x)) = ToSet(s) \cup {x}
         /\ s # <<>> => /\ Head(s) \in S /\ Tail(s) \in Seq(S)
                        /\ ToSet(s) = {Head(s)} \cup ToSet(Tail(s))
         /\ \A t \in Seq(S) : ToSet(s \o t) = ToSet(s) \cup ToSet(t)
<1>1. \A t \in Seq(S) : DOMAIN t = 1 .. Len(t) /\ Len(t) \in Nat
  BY LenProperties
<1>2. ToSet(s) \subseteq S
  BY <1>1, ElementOfSeq DEF ToSet
<1>3. ToSet(<<>>) = {}
  BY DEF ToSet
<1>4. ASSUME NEW x \in S PROVE ToSet(Append(s, x)) = ToSet(s) \cup {x}
  <2> DEFINE a == Append(s, x)
  <2>1. a \in Seq(S) /\ Len(a) = Len(s) + 1 /\ (\A i \in 1 .. Len(s) : a[i] = s[i])
        /\ a[Len(s) + 1] = x
    OBVIOUS
  <2> HIDE DEF a
  <2>2. \A i : i \in 1 .. Len(a) <=> i \in 1 .. Len(s) \/ i = Len(s) + 1
    BY <1>1, <2>1
  <2>3. DOMAIN a = 1 .. Len(a) /\ DOMAIN s = 1 .. Len(s)
    BY <1>1, <2>1
  <2>4. ToSet(a) = ToSet(s) \cup {x}
    BY <2>1, <2>2, <2>3 DEF ToSet
  <2> QED
    BY <2>4 DEF a
<1>5. ASSUME s # <<>>
      PROVE  /\ Head(s) \in S /\ Tail(s) \in Seq(S)
             /\ ToSet(s) = {Head(s)} \cup ToSet(Tail(s))
  <2> DEFINE t == Tail(s)
  <2>1. Head(s) \in S /\ t \in Seq(S) /\ Len(t) = Len(s) - 1 /\ \A i \in 1 .. Len(t) : t[i] = s[i + 1]
    BY <1>5, HeadTailProperties
  <2>2. Head(s) = s[1]
    BY <1>5
  <2> HIDE DEF t
  <2>3. DOMAIN t = 1 .. Len(t) /\ DOMAIN s = 1 .. Len(s) /\ Len(t) \in Nat /\ Len(s) \in Nat
    BY <1>1, <2>1
  <2>4. \A i : i \in 1 .. Len(s) <=> i = 1 \/ (i - 1 \in 1 .. Len(t) /\ i \in Int)
    BY <2>1, <2>3
  <2>5. \A i \in 1 .. Len(s) : i = 1 \/ (i - 1 \in 1 .. Len(t) /\ i = (i - 1) + 1)
    BY <2>3, <2>4
  <2>6. \A i \in 1 .. Len(t) : i + 1 \in 1 .. Len(s)
    BY <2>1, <2>3
  <2>7. 1 \in 1 .. Len(s)
    BY <2>1, <2>3
  <2>8. ToSet(s) \subseteq {s[1]} \cup ToSet(t)
    <3> SUFFICES ASSUME NEW i \in 1 .. Len(s) PROVE s[i] \in {s[1]} \cup ToSet(t)
      BY <2>3 DEF ToSet
    <3>1. CASE i = 1
      BY <3>1
    <3>2. CASE i # 1
      <4>1. i - 1 \in 1 .. Len(t) /\ i = (i - 1) + 1
        BY <2>5, <3>2
      <4>2. t[i - 1] = s[(i - 1) + 1]
        BY <2>1, <4>1
      <4>3. t[i - 1] \in ToSet(t)
        BY <2>3, <4>1 DEF ToSet
      <4> QED
        BY <4>1, <4>2, <4>3
    <3> QED
      BY <3>1, <3>2
  <2>9. {s[1]} \cup ToSet(t) \subseteq ToSet(s)
    BY <2>1, <2>3, <2>6, <2>7 DEF ToSet
  <2>10. ToSet(s) = {Head(s)} \cup ToSet(t)
    BY <2>2, <2>8, <2>9
  <2> QED
    BY <2>1, <2>10 DEF t
<1>6. ASSUME NEW t \in Seq(S) PROVE ToSet(s \o t) = ToSet(s) \cup ToSet(t)
  <2> DEFINE c == s \o t
  <2>1. c \in Seq(S) /\ Len(c) = Len(s) + Len(t) /\ \A i \in 1 .. Len(s) + Len(t) :
           c[i] = IF i <= Len(s) THEN s[i] ELSE t[i - Len(s)]
    BY ConcatProperties
  <2> HIDE DEF c
  <2>2. DOMAIN t = 1 .. Len(t) /\ DOMAIN s = 1 .. Len(s) /\ DOMAIN c = 1 .. Len(c)
        /\ Len(t) \in Nat /\ Len(s) \in Nat
    BY <1>1, <2>1
  <2>3. \A i \in 1 .. Len(s) : i \in 1 .. Len(c) /\ c[i] = s[i]
    BY <2>1, <2>2
  <2>4. \A i \in 1 .. Len(t) : Len(s) + i \in 1 .. Len(c) /\ c[Len(s) + i] = t[i]
    <3> SUFFICES ASSUME NEW i \in 1 .. Len(t)
                 PROVE  Len(s) + i \in 1 .. Len(c) /\ c[Len(s) + i] = t[i]
      OBVIOUS
    <3>1. Len(s) + i \in 1 .. Len(s) + Len(t) /\ ~ (Len(s) + i <= Len(s)) /\ Len(s) + i - Len(s) = i
      BY <2>2
    <3> QED
      BY <2>1, <3>1
  <2>5. \A i \in 1 .. Len(c) : c[i] \in ToSet(s) \cup ToSet(t)
    <3> SUFFICES ASSUME NEW i \in 1 .. Len(c) PROVE c[i] \in ToSet(s) \cup ToSet(t)
      OBVIOUS
    <3>1. CASE i <= Len(s)
      <4>1. i \in 1 .. Len(s)
        BY <2>1, <2>2, <3>1
      <4> QED
        BY <2>2, <2>3, <4>1 DEF ToSet
    <3>2. CASE ~ (i <= Len(s))
      <4>1. i - Len(s) \in 1 .. Len(t) /\ i \in 1 .. Len(s) + Len(t)
        BY <2>1, <2>2, <3>2
      <4> QED
        BY <2>1, <2>2, <3>2, <4>1 DEF ToSet
    <3> QED
      BY <3>1, <3>2
  <2>6. ToSet(c) \subseteq ToSet(s) \cup ToSet(t)
    <3>1. ToSet(c) = {c[i] : i \in 1 .. Len(c)}
      BY <2>2 DEF ToSet
    <3> QED
      BY <2>5, <3>1
  <2>7. ToSet(s) \subseteq ToSet(c)
    BY <2>2, <2>3 DEF ToSet
  <2>8. ToSet(t) \subseteq ToSet(c)
    BY <2>2, <2>4 DEF ToSet
  <2>9. ToSet(c) = ToSet(s) \cup ToSet(t)
    BY <2>6, <2>7, <2>8
  <2> QED
    BY <2>9 DEF c
<1> QED
  BY <1>2, <1>3, <1>4, <1>5, <1>6

-----------------------------------------------------------------------------
(***************************************************************************)
(* The tree, and the numbers the kernel gives to watches.                   *)
(***************************************************************************)
Distinct == \A c, d \in Dirs : at[c] = at[d] /\ at[c] # Nowhere => c = d
Closed   == \A d \in Dirs, p \in AllPaths : IsBelow(at[d], p) => Exists(p)
HalfWay  == half # Nowhere => Parent(half) # Nowhere /\ Exists(Parent(half))

Tree == Distinct /\ Closed /\ HalfWay

Bookkeeping ==
  /\ paths \in [Wds -> AllPaths \cup {Nowhere}]
  /\ watches \in [AllPaths -> Descriptors]
  /\ rm \in Seq(AllPaths)
  /\ cut \subseteq UnderRoot
  /\ open \in Dirs
  /\ fresh \in Descriptors

Numbered ==
  /\ nextWd \in Nat \ {0} /\ fresh < nextWd
  /\ \A d \in Dirs : wd[d] < nextWd /\ (at[d] = Nowhere => wd[d] = NoWd)
  /\ \A c, d \in Dirs : wd[c] = wd[d] /\ wd[c] # NoWd => c = d
  /\ \A e \in ToSet(os) : e.wd < nextWd
  /\ \A w \in Wds : paths[w] # Nowhere => w < nextWd

\* Nothing lies above the two roots.
LEMMA RootsAreTops ==
  ASSUME NEW p \in {Root, Away}, NEW q \in AllPaths, IsBelow(p, q)
  PROVE  q = p
<1>1. p \in AllPaths /\ Parent(p) = Nowhere
  <2>1. Away \in AllPaths
    <3>1. <<>> \in [1 .. 0 -> Names]
      OBVIOUS
    <3>2. 0 \in 0 .. MaxDepth
      BY InotifyAssumption
    <3>3. <<>> \in Routes /\ Away \o <<>> = Away
      BY <3>1, <3>2 DEF Routes, Away
    <3> QED
      BY <3>3 DEF AllPaths
  <2> QED
    BY <2>1, Roots
<1>2. p = Append(Nowhere, Last(p)) /\ Last(p) \in Tokens /\ Nowhere \in Trails
  BY <1>1, PathForms DEF Nowhere
<1>3. q \in Trails /\ q # Nowhere
  BY PathForms
<1> DEFINE n == Last(p)
<1>4. p = Append(Nowhere, n) /\ n \in Tokens
  BY <1>2
<1> HIDE DEF n
<1>5. q = Append(Nowhere, n) \/ IsBelow(Nowhere, q)
  BY <1>2, <1>3, <1>4, Entries
<1> QED
  BY <1>3, <1>4, <1>5, BelowOrder

\* In a tree a path leads to one folder, and what lies above a folder exists.
LEMMA FolderAt ==
  ASSUME KernelTypes, Tree, Numbered, NEW p
  PROVE  /\ \A d \in Dirs : at[d] = p /\ p # Nowhere => InodeAt(p) = d /\ WdAt(p) = wd[d]
         /\ WdAt(p) # NoWd => p # Nowhere /\ \E d \in Dirs : at[d] = p /\ wd[d] = WdAt(p)
<1>1. (\E d \in Dirs : at[d] = p) => InodeAt(p) \in Dirs /\ at[InodeAt(p)] = p
  BY DEF InodeAt
<1> QED
  BY <1>1 DEF WdAt, Tree, Distinct, Numbered

\* Whatever is made, removed or renamed, it stays a tree.
LEMMA StepTree ==
  ASSUME KernelTypes, Tree, [Next]_vars
  PROVE  Tree'
PROOF
<1> USE DEF Tree
<1>0. \A d \in Dirs : at[d] \in Trails /\ (at[d] # Nowhere => at[d] \in AllPaths)
  <2>1. Nowhere \in Trails
    BY DEF Trails, Nowhere
  <2>2. \A d \in Dirs : at[d] \in AllPaths \cup {Nowhere}
    BY DEF KernelTypes
  <2> QED
    BY <2>1, <2>2, PathForms
<1>1. CASE UNCHANGED at /\ (half' = half \/ half' = Nowhere)
  BY <1>1 DEF Distinct, Closed, HalfWay, Exists
<1>2. ASSUME NEW d \in Dirs, NEW p \in AllPaths, Mkdir(d, p)
      PROVE  Tree'
  <2>1. /\ at[d] = Nowhere /\ ~ Exists(p) /\ Exists(Parent(p)) /\ Parent(p) # Nowhere
        /\ at' = [at EXCEPT ![d] = p] /\ half' = Nowhere
    BY <1>2, PathForms DEF Mkdir, Changing
  <2>2. /\ \A c \in Dirs : at'[c] = IF c = d THEN p ELSE at[c]
        /\ \A c \in Dirs : at[c] # p
    BY <2>1 DEF KernelTypes, Exists
  <2>3. \A q : Exists(q) /\ q # Nowhere => Exists(q)'
    BY <2>1, <2>2 DEF Exists
  <2>4. Distinct'
    BY <2>2 DEF Distinct
  <2>5. ASSUME NEW c \in Dirs, NEW q \in AllPaths, IsBelow(at'[c], q)
        PROVE  Exists(q)'
    <3>1. CASE c # d
      BY <2>2, <2>3, <2>5, <3>1, PathForms DEF Closed
    <3>2. CASE c = d /\ q = p
      BY <2>2, <3>2 DEF Exists
    <3>3. CASE c = d /\ q # p
      <4>1. Parent(p) \in AllPaths /\ q \in Trails
        BY <2>1, PathForms
      <4>2. IsBelow(Parent(p), q)
        <5> DEFINE r == Parent(p)
                   n == Last(p)
        <5>1. r \in Trails /\ n \in Tokens /\ p = Append(r, n)
          BY PathForms
        <5>2. IsBelow(p, q)
          BY <2>2, <2>5, <3>3
        <5> HIDE DEF r, n
        <5>3. IsBelow(r, q)
          BY <3>3, <4>1, <5>1, <5>2, Entries
        <5> QED
          BY <5>3 DEF r
      <4>3. CASE Parent(p) = Away
        BY <4>2, <4>3, RootsAreTops DEF Exists
      <4>4. CASE Parent(p) # Away
        <5>1. Exists(q)
          BY <2>1, <4>2, <4>4 DEF Exists, Closed
        <5> QED
          BY <2>3, <5>1, PathForms
      <4> QED
        BY <4>3, <4>4
    <3> QED
      BY <3>1, <3>2, <3>3
  <2>6. Closed' /\ HalfWay'
    BY <2>1, <2>5 DEF Closed, HalfWay
  <2> QED
    BY <2>4, <2>6
<1>3. ASSUME NEW d \in Dirs, Rmdir(d)
      PROVE  Tree'
  <2>1. /\ at[d] # Nowhere /\ \A c \in Dirs \ {d} : ~ IsBelow(at[c], at[d])
        /\ at' = [at EXCEPT ![d] = Nowhere] /\ half' = Nowhere
    BY <1>3 DEF Rmdir, Changing
  <2>2. \A c \in Dirs : at'[c] = IF c = d THEN Nowhere ELSE at[c]
    BY <2>1 DEF KernelTypes
  <2>3. Distinct'
    BY <2>2 DEF Distinct
  <2>4. ASSUME NEW c \in Dirs, NEW q \in AllPaths, IsBelow(at'[c], q)
        PROVE  Exists(q)'
    <3>1. c # d
      BY <2>2, <2>4, BelowOrder, PathForms
    <3>2. Exists(q)
      BY <2>2, <2>4, <3>1 DEF Closed
    <3>3. q # at[d]
      BY <2>1, <2>2, <2>4, <3>1
    <3> QED
      BY <2>2, <3>2, <3>3 DEF Exists
  <2> QED
    BY <2>1, <2>3, <2>4 DEF Closed, HalfWay
<1>4. ASSUME NEW d \in Dirs, NEW p \in AllPaths, Rename(d, p)
      PROVE  Tree'
  <2> DEFINE old == at[d]
  <2>1. /\ old # Nowhere /\ Parent(p) # Nowhere
        /\ ~ Exists(p) /\ Exists(Parent(p)) /\ ~ IsBelow(p, old)
        /\ \A c \in Dirs : IsBelow(at[c], old) => Moved(at[c], old, p) \in AllPaths
        /\ at' = [c \in Dirs |-> IF at[c] = Nowhere THEN Nowhere ELSE Moved(at[c], old, p)]
        /\ half' = p
    BY <1>4, PathForms DEF Rename
  <2>2. /\ old \in AllPaths /\ old \in Trails /\ p \in Trails /\ p # Nowhere
        /\ Parent(p) \in AllPaths /\ Parent(p) \in Trails
    BY <1>0, <2>1, PathForms
  <2> HIDE DEF old
  <2>3. \A c \in Dirs : at[c] = Nowhere => ~ IsBelow(at[c], old)
    BY <2>1, <2>2, BelowOrder
  <2>4. \A c \in Dirs : /\ IsBelow(at[c], old) => at'[c] = Moved(at[c], old, p) /\ IsBelow(at'[c], p)
                                                 /\ at'[c] # Nowhere
                        /\ ~ IsBelow(at[c], old) => at'[c] = at[c]
    <3> SUFFICES ASSUME NEW c \in Dirs
                 PROVE  /\ IsBelow(at[c], old) => at'[c] = Moved(at[c], old, p) /\ IsBelow(at'[c], p)
                                                 /\ at'[c] # Nowhere
                        /\ ~ IsBelow(at[c], old) => at'[c] = at[c]
      OBVIOUS
    <3>1. CASE IsBelow(at[c], old)
      <4>1. at'[c] = Moved(at[c], old, p) /\ at'[c] \in AllPaths
        BY <2>1, <2>3, <3>1
      <4>2. IsBelow(Moved(at[c], old, p), p)
        BY <1>0, <2>2, <3>1, Moving
      <4>3. at'[c] # Nowhere
        BY <4>1, PathForms
      <4> QED
        BY <3>1, <4>1, <4>2, <4>3
    <3>2. CASE ~ IsBelow(at[c], old)
      BY <2>1, <3>2 DEF Moved
    <3> QED
      BY <3>1, <3>2
  <2>5. \A c \in Dirs : ~ IsBelow(at[c], old) => ~ IsBelow(at[c], p)
    BY <2>1 DEF Closed
  <2>6. Distinct'
    <3> SUFFICES ASSUME NEW b \in Dirs, NEW c \in Dirs, at'[b] = at'[c], at'[b] # Nowhere
                 PROVE  b = c
      BY DEF Distinct
    <3>1. CASE IsBelow(at[b], old) /\ IsBelow(at[c], old)
      <4>1. at[b] = at[c]
        BY <1>0, <2>2, <2>4, <3>1, Moving, SMTT(30)
      <4>2. at[b] # Nowhere
        BY <2>3, <3>1
      <4> QED
        BY <4>1, <4>2 DEF Distinct
    <3>2. CASE ~ IsBelow(at[b], old) /\ ~ IsBelow(at[c], old)
      BY <2>4, <3>2 DEF Distinct
    <3>3. CASE IsBelow(at[b], old) <=> ~ IsBelow(at[c], old)
      BY <2>4, <2>5, <3>3
    <3> QED
      BY <3>1, <3>2, <3>3
  <2>7. at'[d] = p
    <3>1. at[d] = old
      BY DEF old
    <3>2. IsBelow(at[d], old) /\ Moved(at[d], old, p) = p
      BY <2>2, <3>1, Moving, BelowOrder
    <3> QED
      BY <2>4, <3>2
  <2>8. \A q \in AllPaths : Exists(q) /\ ~ IsBelow(q, old) => Exists(q)'
    BY <2>4 DEF Exists
  <2>9. ASSUME NEW c \in Dirs, NEW q \in AllPaths, IsBelow(at'[c], q)
        PROVE  Exists(q)'
    <3>1. q \in Trails
      BY PathForms
    <3>2. CASE ~ IsBelow(at[c], old)
      <4>1. at'[c] = at[c] /\ Exists(q)
        BY <2>4, <2>9, <3>2 DEF Closed
      <4>2. ~ IsBelow(q, old)
        BY <1>0, <2>2, <2>9, <3>1, <3>2, <4>1, BelowOrder
      <4> QED
        BY <2>8, <4>1, <4>2
    <3>3. CASE IsBelow(at[c], old) /\ IsBelow(p, q)
      <4>1. CASE q = p
        BY <2>7, <4>1 DEF Exists
      <4>2. CASE q # p
        <5>1. IsBelow(Parent(p), q)
          <6> DEFINE r == Parent(p)
                     n == Last(p)
          <6>1. r \in Trails /\ n \in Tokens /\ p = Append(r, n)
            BY PathForms
          <6> HIDE DEF r, n
          <6>2. IsBelow(r, q)
            BY <3>1, <3>3, <4>2, <6>1, Entries
          <6> QED
            BY <6>2 DEF r
        <5>2. Exists(q)
          BY <2>1, <2>2, <5>1, RootsAreTops DEF Exists, Closed
        <5>3. ~ IsBelow(q, old)
          BY <2>1, <2>2, <3>1, <3>3, BelowOrder
        <5> QED
          BY <2>8, <5>2, <5>3
      <4> QED
        BY <4>1, <4>2
    <3>4. CASE IsBelow(at[c], old) /\ ~ IsBelow(p, q)
      <4>1. PICK r \in Trails : IsBelow(at[c], r) /\ IsBelow(r, old) /\ Moved(r, old, p) = q
        BY <1>0, <2>2, <2>4, <2>9, <3>1, <3>4, Moving
      <4>2. at[c] \in AllPaths /\ r # Nowhere
        BY <1>0, <2>2, <2>3, <3>4, <4>1, BelowOrder, PathForms
      <4>3. r \in AllPaths
        BY <4>1, <4>2, PathsAbove
      <4>4. CASE r = Away
        <5>1. old = Away /\ q = p
          BY <2>2, <4>1, <4>4, RootsAreTops, Moving
        <5> QED
          BY <2>2, <3>4, <5>1, BelowOrder
      <4>5. CASE r # Away
        <5>1. PICK b \in Dirs : at[b] = r
          BY <4>1, <4>3, <4>5 DEF Closed, Exists
        <5>2. at'[b] = q
          BY <2>4, <4>1, <5>1
        <5> QED
          BY <5>2 DEF Exists
      <4> QED
        BY <4>4, <4>5
    <3> QED
      BY <3>2, <3>3, <3>4
  <2>10. Exists(Parent(p))'
    <3>1. ~ IsBelow(Parent(p), old)
      <4> DEFINE r == Parent(p)
                 n == Last(p)
      <4>1. r \in Trails /\ n \in Tokens /\ p = Append(r, n)
        BY PathForms
      <4> HIDE DEF r, n
      <4>2. IsBelow(p, r)
        BY <4>1, Entries
      <4>3. ~ IsBelow(r, old)
        BY <2>1, <2>2, <4>1, <4>2, BelowOrder
      <4> QED
        BY <4>3 DEF r
    <3> QED
      BY <2>1, <2>2, <2>8, <3>1
  <2> QED
    BY <2>1, <2>6, <2>9, <2>10 DEF Closed, HalfWay
<1>5. CASE RenameEnds \/ HandleShutdown
  BY <1>1, <1>5 DEF RenameEnds, HandleShutdown
<1>6. CASE (EventLoop /\ ~ HandleShutdown) \/ Owner \/ ReadFails \/ UNCHANGED vars
  BY <1>1, <1>6
     DEF EventLoop, BatchBegins, ReadEvent, BatchRead, ReadFails, RemoveNext, RemovalsDone, AddNext,
         BatchEnds, WalkNext, AddWatch, RecordWatch, WalkEnds, HandleWatch,
         HandleUnwatch, Owner, Ask, kernel, vars
<1> QED
  BY <1>2, <1>3, <1>4, <1>5, <1>6 DEF Next, FileSystem

\* A path below the watched folder that exists is that of a folder.
LEMMA FolderUnder ==
  ASSUME KernelTypes, NEW p \in UnderRoot, Exists(p)
  PROVE  p \in AllPaths /\ InodeAt(p) \in Dirs /\ at[InodeAt(p)] = p
<1>1. p # Away /\ p # Nowhere
  BY UnderIsBelow, Roots
<1>2. \E d \in Dirs : at[d] = p
  BY <1>1 DEF Exists
<1>3. InodeAt(p) \in Dirs /\ at[InodeAt(p)] = p
  BY <1>2 DEF InodeAt
<1> QED
  BY <1>1, <1>3 DEF KernelTypes

\* A queue gains the event, or the one that tells of the overflow, or nothing.
LEMMA QueuedElements ==
  ASSUME NEW q \in Seq(Raised), NEW w \in Descriptors, NEW e \in Raised
  PROVE  ToSet(Queued(q, w, e))
           \subseteq ToSet(q) \cup {[kind |-> "overflow", wd |-> NoWd, name |-> ""]}
                            \cup (IF w = NoWd THEN {} ELSE {e})
<1> DEFINE o == [kind |-> "overflow", wd |-> NoWd, name |-> ""]
<1>1. o \in Raised
  BY DEF Raised, Descriptors, Tokens
<1> HIDE DEF Raised, o
<1>2. ToSet(Append(q, o)) = ToSet(q) \cup {o} /\ ToSet(Append(q, e)) = ToSet(q) \cup {e}
  BY <1>1, Elements
<1>3. Queued(q, w, e) = q \/ Queued(q, w, e) = Append(q, o)
      \/ (w # NoWd /\ Queued(q, w, e) = Append(q, e))
  BY DEF Queued, o
<1>4. ToSet(Queued(q, w, e)) \subseteq ToSet(q) \cup {o} \cup (IF w = NoWd THEN {} ELSE {e})
  BY <1>2, <1>3
<1> QED
  BY <1>4 DEF o

\* What the thread keeps has its type.
LEMMA StepBookkeeping ==
  ASSUME KernelTypes, AllUnderRoot, WalksForSomeone, Bookkeeping, [Next]_vars
  PROVE  Bookkeeping'
PROOF
<1> USE DEF Bookkeeping
<1> HIDE DEF UnderRoot
<1>1. CASE UNCHANGED <<paths, watches, rm, cut, open, fresh>>
  BY <1>1
<1>2. \A q \in Seq(UnderRoot) : q # <<>> => ToSet(Tail(q)) \subseteq UnderRoot
  <2> SUFFICES ASSUME NEW q \in Seq(UnderRoot), q # <<>> PROVE ToSet(Tail(q)) \subseteq UnderRoot
    OBVIOUS
  <2>1. Tail(q) \in Seq(UnderRoot)
    BY Elements
  <2> QED
    BY <2>1, Elements
<1>3. Top \in Dirs
  BY StartAssumption, EmptySeq DEF Top, Dirs
<1>4. ASSUME NEW limit \in BOOLEAN, WalkAborted(limit), UNCHANGED <<paths, watches, rm>>,
             pc \in Walking, walk # <<>>,
             open' \in Dirs, fresh' \in Descriptors
      PROVE  Bookkeeping'
  <2>1. cut' = cut \cup ToSet(Tail(walk))
    BY <1>4 DEF WalkAborted
  <2>2. cut' \subseteq UnderRoot
    BY <1>2, <1>4, <2>1 DEF AllUnderRoot
  <2> QED
    BY <1>4, <2>2
<1>5. CASE ReadEvent
  <2> DEFINE p == PathOf(Head(os))
  <2>1. /\ rm' = rm \/ (p \in AllPaths /\ rm' = Append(rm, p))
        /\ UNCHANGED <<paths, watches, cut, open, fresh>>
    BY <1>5 DEF ReadEvent, Handle, ToRemove, Has, maps, walker
  <2> HIDE DEF p
  <2>2. rm' \in Seq(AllPaths)
    BY <2>1
  <2> QED
    BY <2>1, <2>2
<1>6. ASSUME NEW p, NEW ok \in BOOLEAN, RemoveWatch(p, ok)
      PROVE  /\ paths' \in [Wds -> AllPaths \cup {Nowhere}]
             /\ watches' \in [AllPaths -> Descriptors]
  BY <1>6 DEF RemoveWatch, Forgetting, maps, Descriptors
<1>7. CASE RemoveNext
  <2>1. rm' \in Seq(AllPaths)
    BY <1>7 DEF RemoveNext
  <2> QED
    BY <1>6, <1>7, <2>1 DEF RemoveNext, walker
<1>8. CASE HandleUnwatch
  BY <1>6, <1>8 DEF HandleUnwatch, walker, batch
<1>9. CASE BatchBegins
  BY <1>9 DEF BatchBegins, maps, walker
<1>10. CASE WalkNext
  <2>1. Head(walk) \in UnderRoot
    BY <1>10, Elements DEF WalkNext, AllUnderRoot
  <2>2. Exists(Head(walk)) => InodeAt(Head(walk)) \in Dirs
    BY <2>1, FolderUnder
  <2> QED
    BY <1>10, <2>2 DEF WalkNext, maps, batch
<1>11. CASE AddWatch
  <2>1. fresh' \in Descriptors
    <3>1. fresh' = fresh \/ fresh' = WdAt(Head(walk)) \/ (nextWd \in Wds /\ fresh' = nextWd)
      BY <1>11 DEF AddWatch
    <3> QED
      BY <3>1, DescriptorAt DEF Descriptors
  <2>2. UNCHANGED <<paths, watches, rm, open>> /\ pc \in Walking /\ walk # <<>>
    BY <1>11 DEF AddWatch, maps, Walking, WalksForSomeone
  <2>3. UNCHANGED cut \/ \E limit \in BOOLEAN : WalkAborted(limit)
    BY <1>11 DEF AddWatch
  <2> QED
    BY <1>4, <2>1, <2>2, <2>3
<1>12. CASE RecordWatch
  <2> DEFINE p == Head(walk)
  <2>1. walk # <<>> /\ pc \in Walking
    BY <1>12 DEF RecordWatch, WalksForSomeone, Walking
  <2>2. p \in UnderRoot
    BY <2>1, Elements DEF AllUnderRoot
  <2>3. open' \in Dirs /\ fresh' \in Descriptors /\ rm' = rm
    BY <1>3, <1>12 DEF RecordWatch, Descriptors
  <2>4. CASE WalkAborted(FALSE) /\ UNCHANGED maps
    BY <1>4, <2>1, <2>3, <2>4 DEF maps
  <2>5. CASE ~ (WalkAborted(FALSE) /\ UNCHANGED maps)
    <3>1. Exists(p) /\ watches' = [watches EXCEPT ![p] = fresh]
          /\ paths' = [paths EXCEPT ![fresh] = p] /\ cut' = cut
      BY <1>12, <2>5 DEF RecordWatch
    <3>2. p \in AllPaths
      BY <2>2, <3>1, FolderUnder
    <3> HIDE DEF p
    <3> QED
      BY <2>3, <3>1, <3>2
  <2> QED
    BY <2>4, <2>5
<1>13. CASE HandleShutdown
  BY <1>13 DEF HandleShutdown, batch, walker, Descriptors
<1>14. CASE BatchRead \/ ReadFails \/ RemovalsDone \/ AddNext \/ BatchEnds \/ WalkEnds \/ HandleWatch
            \/ Owner \/ FileSystem \/ RenameEnds \/ UNCHANGED vars
  BY <1>1, <1>14
     DEF BatchRead, ReadFails, RemovalsDone, AddNext, BatchEnds, WalkEnds, HandleWatch, Owner, Ask,
         FileSystem, RenameEnds, maps, batch, walker, vars
<1> QED
  BY <1>5, <1>7, <1>8, <1>9, <1>10, <1>11, <1>12, <1>13, <1>14 DEF Next, EventLoop

\* The kernel never hands out a descriptor twice.
LEMMA StepNumbered ==
  ASSUME KernelTypes, AllUnderRoot, WalksForSomeone, Bookkeeping, Tree, Numbered, [Next]_vars
  PROVE  Numbered'
PROOF
<1> USE DEF Numbered
<1>0. nextWd \in Nat /\ 0 < nextWd /\ \A d \in Dirs : wd[d] \in Int
  BY DEF KernelTypes, Descriptors, NoWd, Wds
<1>1. \A p : WdAt(p) \in Descriptors /\ WdAt(p) < nextWd
  <2>1. \A p : (\E d \in Dirs : at[d] = p) => InodeAt(p) \in Dirs
    BY DEF InodeAt
  <2> QED
    BY <1>0, <2>1, DescriptorAt DEF WdAt, NoWd
<1>2. ASSUME NEW w \in Descriptors, NEW e \in Raised, os' = Queued(os, w, e),
             w # NoWd => e.wd < nextWd
      PROVE  \A x \in ToSet(os') : x.wd < nextWd
  <2>1. ToSet(os') \subseteq ToSet(os) \cup {[kind |-> "overflow", wd |-> NoWd, name |-> ""]}
                                 \cup (IF w = NoWd THEN {} ELSE {e})
    BY <1>2, QueuedElements DEF KernelTypes
  <2>2. [kind |-> "overflow", wd |-> NoWd, name |-> ""].wd < nextWd
    BY <1>0 DEF NoWd
  <2> DEFINE o == [kind |-> "overflow", wd |-> NoWd, name |-> ""]
  <2> SUFFICES ASSUME NEW x \in ToSet(os') PROVE x.wd < nextWd
    OBVIOUS
  <2>3. x \in ToSet(os) \/ x = o \/ (w # NoWd /\ x = e)
    BY <2>1
  <2>4. o.wd < nextWd
    BY <2>2
  <2> HIDE DEF o, Raised
  <2> QED
    BY <1>2, <2>3, <2>4
<1>3. \A w \in Descriptors : \A k : Self(k, w).wd = w
  BY DEF Self
<1>4. \A k, p : Entry(k, p).wd = WdAt(Parent(p))
  BY DEF Entry
<1>5. ASSUME NEW d \in Dirs, NEW p \in AllPaths, Mkdir(d, p)
      PROVE  \A x \in ToSet(os') : x.wd < nextWd
  <2>1. Entry("create", p) \in Raised
    BY PathForms, EntryType
  <2> QED
    BY <1>1, <1>2, <1>4, <1>5, <2>1 DEF Mkdir
<1>6. ASSUME NEW d \in Dirs, Rmdir(d)
      PROVE  \A x \in ToSet(os') : x.wd < nextWd
  <2>1. at[d] \in AllPaths /\ wd[Top] \in Descriptors
    <3>1. Top \in Dirs
      BY StartAssumption, EmptySeq DEF Top, Dirs
    <3>2. at[d] # Nowhere
      BY <1>6 DEF Rmdir
    <3> QED
      BY <3>1, <3>2 DEF KernelTypes
  <2>2. Entry("delete", at[d]) \in Raised /\ Self("delete_self", wd[Top]) \in Raised
    BY <2>1, PathForms, EntryType, SelfType
  <2>3. d = Top => wd[Top] < nextWd
    OBVIOUS
  <2>4. CASE d = Top
    BY <1>2, <1>3, <1>6, <2>1, <2>2, <2>3, <2>4 DEF Rmdir
  <2>5. CASE d # Top
    BY <1>1, <1>2, <1>4, <1>6, <2>2, <2>5 DEF Rmdir
  <2> QED
    BY <2>4, <2>5
<1>7. ASSUME NEW d \in Dirs, NEW p \in AllPaths, Rename(d, p)
      PROVE  \A x \in ToSet(os') : x.wd < nextWd
  <2>1. at[d] \in AllPaths /\ wd[Top] \in Descriptors
    BY <1>7, StartAssumption, EmptySeq DEF Rename, KernelTypes, Top, Dirs
  <2>2. Entry("moved_from", at[d]) \in Raised /\ Self("move_self", wd[Top]) \in Raised
    BY <2>1, PathForms, EntryType, SelfType
  <2>3. d = Top => wd[Top] < nextWd
    OBVIOUS
  <2>4. CASE d = Top
    BY <1>2, <1>3, <1>7, <2>1, <2>2, <2>3, <2>4 DEF Rename
  <2>5. CASE d # Top
    BY <1>1, <1>2, <1>4, <1>7, <2>2, <2>5 DEF Rename
  <2> QED
    BY <2>4, <2>5
<1>8. CASE RenameEnds
  <2>1. half \in AllPaths
    BY <1>8 DEF RenameEnds, KernelTypes
  <2>2. Entry("moved_to", half) \in Raised
    BY <2>1, PathForms, EntryType
  <2>3. \A x \in ToSet(os') : x.wd < nextWd
    BY <1>1, <1>2, <1>4, <1>8, <2>2 DEF RenameEnds
  <2> QED
    BY <1>8, <2>3 DEF RenameEnds, maps, walker
<1>9. CASE FileSystem
  <2>1. \A x \in ToSet(os') : x.wd < nextWd
    BY <1>5, <1>6, <1>7, <1>9 DEF FileSystem
  <2>2. UNCHANGED <<nextWd, fresh, paths>>
    BY <1>9 DEF FileSystem, Mkdir, Rmdir, Rename, maps, walker
  <2>3. (\A d \in Dirs : wd'[d] < nextWd' /\ (at'[d] = Nowhere => wd'[d] = NoWd))
        /\ \A c, d \in Dirs : wd'[c] = wd'[d] /\ wd'[c] # NoWd => c = d
    <3>1. ASSUME NEW d \in Dirs, NEW p \in AllPaths, Mkdir(d, p) PROVE <2>3!1 /\ <2>3!2
      BY <2>2, <3>1, PathForms DEF Mkdir, KernelTypes
    <3>2. ASSUME NEW d \in Dirs, Rmdir(d) PROVE <2>3!1 /\ <2>3!2
      <4>1. \A c \in Dirs : wd'[c] = IF c = d THEN NoWd ELSE wd[c]
        BY <3>2 DEF Rmdir, KernelTypes
      <4>2. \A c \in Dirs : at'[c] = IF c = d THEN Nowhere ELSE at[c]
        BY <3>2 DEF Rmdir, KernelTypes
      <4> QED
        BY <1>0, <2>2, <4>1, <4>2 DEF NoWd
    <3>3. ASSUME NEW d \in Dirs, NEW p \in AllPaths, Rename(d, p) PROVE <2>3!1 /\ <2>3!2
      <4>1. \A c \in Dirs : at'[c] = Nowhere => at[c] = Nowhere
        <5> SUFFICES ASSUME NEW c \in Dirs, at[c] # Nowhere PROVE at'[c] # Nowhere
          OBVIOUS
        <5>1. at'[c] = Moved(at[c], at[d], p)
          BY <3>3 DEF Rename
        <5>2. IsBelow(at[c], at[d]) => at'[c] \in AllPaths
          BY <3>3, <5>1 DEF Rename
        <5>3. ~ IsBelow(at[c], at[d]) => at'[c] = at[c]
          BY <5>1 DEF Moved
        <5> QED
          BY <5>2, <5>3, PathForms
      <4>2. UNCHANGED wd
        BY <3>3 DEF Rename
      <4> QED
        BY <2>2, <4>1, <4>2
    <3> QED
      BY <1>9, <3>1, <3>2, <3>3 DEF FileSystem
  <2> QED
    BY <2>1, <2>2, <2>3
<1>10. CASE UNCHANGED <<at, wd, nextWd, os, fresh, paths>>
  BY <1>10
<1>11. CASE ReadEvent
  <2>1. ToSet(os') \subseteq ToSet(os)
    BY <1>11, Elements DEF ReadEvent, KernelTypes
  <2> QED
    BY <1>11, <2>1 DEF ReadEvent, maps, walker
<1>12. ASSUME NEW p, NEW ok \in BOOLEAN, RemoveWatch(p, ok), UNCHANGED <<at, nextWd, os, fresh>>
       PROVE  Numbered'
  <2>1. \A d \in Dirs : wd'[d] = wd[d] \/ wd'[d] = NoWd
    BY <1>12 DEF RemoveWatch, Forgetting
  <2>2. \A w \in Wds : paths'[w] # Nowhere => paths[w] # Nowhere
    BY <1>12 DEF RemoveWatch, Forgetting, maps
  <2> QED
    BY <1>0, <1>12, <2>1, <2>2 DEF NoWd
<1>13. CASE RemoveNext \/ HandleUnwatch
  BY <1>12, <1>13 DEF RemoveNext, HandleUnwatch, walker
<1>14. CASE AddWatch
  <2>1. CASE nextWd' = nextWd
    <3>1. UNCHANGED <<at, wd, os, paths>> /\ (fresh' = fresh \/ fresh' = WdAt(Head(walk)))
      <4>1. nextWd' # nextWd + 1
        BY <1>0, <2>1
      <4> QED
        BY <1>14, <4>1 DEF AddWatch, maps
    <3> QED
      BY <1>1, <2>1, <3>1
  <2>2. CASE nextWd' # nextWd
    <3> DEFINE i == InodeAt(Head(walk))
    <3>1. /\ Exists(Head(walk)) /\ nextWd \in Wds
          /\ wd' = [wd EXCEPT ![i] = nextWd] /\ nextWd' = nextWd + 1 /\ fresh' = nextWd
          /\ UNCHANGED <<at, os, paths>>
      BY <1>14, <2>2 DEF AddWatch, maps
    <3>2. Head(walk) \in UnderRoot /\ Head(walk) # Nowhere
      <4>1. walk # <<>>
        BY <1>14 DEF AddWatch, WalksForSomeone
      <4> HIDE DEF UnderRoot
      <4>2. Head(walk) \in UnderRoot
        BY <4>1, Elements DEF AllUnderRoot
      <4> QED
        BY <4>2, UnderIsBelow
    <3>3. i \in Dirs /\ at[i] # Nowhere
      BY <3>1, <3>2, FolderUnder
    <3> HIDE DEF i
    <3>4. \A d \in Dirs : wd'[d] = IF d = i THEN nextWd ELSE wd[d]
      BY <3>1 DEF KernelTypes
    <3>5. \A d \in Dirs : wd'[d] < nextWd + 1 /\ (at'[d] = Nowhere => wd'[d] = NoWd)
      BY <1>0, <3>1, <3>3, <3>4
    <3>6. \A c, d \in Dirs : wd'[c] = wd'[d] /\ wd'[c] # NoWd => c = d
      BY <1>0, <3>4
    <3>7. \A x \in ToSet(os) : x.wd \in Int
      <4>1. \A x \in ToSet(os) : x \in Raised
        BY Elements DEF KernelTypes
      <4> QED
        BY <4>1 DEF Raised, Descriptors, NoWd, Wds
    <3>8. (\A x \in ToSet(os') : x.wd < nextWd + 1) /\ \A w \in Wds : paths'[w] # Nowhere => w < nextWd + 1
      <4>1. \A x \in ToSet(os') : x.wd < nextWd + 1
        BY <1>0, <3>1, <3>7
      <4>2. \A w \in Wds : paths'[w] # Nowhere => w < nextWd + 1
        BY <1>0, <3>1 DEF Wds
      <4> QED
        BY <4>1, <4>2
    <3>9. nextWd + 1 \in Nat \ {0} /\ fresh' < nextWd + 1
      BY <1>0, <3>1
    <3> QED
      BY <3>1, <3>5, <3>6, <3>8, <3>9
  <2> QED
    BY <2>1, <2>2
<1>15. CASE RecordWatch
  <2>1. /\ UNCHANGED <<at, wd, nextWd, os>> /\ fresh' = NoWd
        /\ \A w \in Wds : paths'[w] = paths[w] \/ w = fresh
    BY <1>15 DEF RecordWatch, kernel, maps, Bookkeeping
  <2> QED
    BY <1>0, <2>1 DEF NoWd
<1>16. CASE HandleShutdown
  <2>1. /\ UNCHANGED <<at, nextWd, fresh>> /\ os' = <<>> /\ wd' = [d \in Dirs |-> NoWd]
        /\ \A w \in Wds : paths'[w] = paths[w] \/ paths'[w] = Nowhere
    BY <1>16 DEF HandleShutdown, walker
  <2>2. ToSet(os') = {}
    BY <2>1 DEF ToSet
  <2> QED
    BY <1>0, <2>1, <2>2 DEF NoWd
<1>17. CASE BatchBegins \/ BatchRead \/ ReadFails \/ RemovalsDone \/ AddNext \/ BatchEnds \/ WalkNext
            \/ WalkEnds \/ HandleWatch \/ Owner \/ UNCHANGED vars
  BY <1>10, <1>17
     DEF BatchBegins, BatchRead, ReadFails, RemovalsDone, AddNext, BatchEnds, WalkNext, WalkEnds,
         HandleWatch, Owner, Ask, kernel, maps, walker, vars
<1> QED
  BY <1>8, <1>9, <1>11, <1>13, <1>14, <1>15, <1>16, <1>17 DEF Next, EventLoop

-----------------------------------------------------------------------------
(***************************************************************************)
(* The tree and the watches.  Leaving is what the thread knows, or will     *)
(* read, it has to remove; Coming what it has to add: what waits in the     *)
(* batch, in the walk, in the queue, in the second half of a rename, and    *)
(* what an aborted walk left out.                                           *)
(***************************************************************************)
Reading     == pc \in {"idle", "reading"}
Recorded(w) == w # NoWd /\ paths[w] # Nowhere
Dropping    == {"delete", "moved_from"}
Adding      == {"create", "moved_to"}

Drops == {e \in ToSet(os) : Reading /\ e.kind \in Dropping /\ Recorded(e.wd)}

Leaving == ToSet(rm) \cup {PathOf(e) : e \in Drops}

Doomed(p) == \E q \in Leaving : IsBelow(p, q)

\* The thread still asks for what an event of this watch names: a batch removes
\* before it adds, and while it reads no removal has happened yet.
Heard(w) ==
  /\ Recorded(w)
  /\ IF Reading THEN watches[paths[w]] # NoWd
                ELSE \A q \in ToSet(rm) : ~ IsBelow(paths[w], q)

Adds == {e \in ToSet(os) : e.kind \in Adding /\ Heard(e.wd)}

Later == IF pc \in Walking THEN {add[i] : i \in 2 .. Len(add)} ELSE ToSet(add)

\* WalkDir has the folder open that it is about to watch.
OnTrack ==
  \/ pc = "walking"
  \/ at[open] = Head(walk) /\ (pc = "recording" => fresh = wd[open])

ToWalk ==
  IF pc \notin Walking \/ walk = <<>> THEN {}
  ELSE ToSet(Tail(walk)) \cup (IF OnTrack THEN {Head(walk)} ELSE {})

Coming ==
  Later \cup ToWalk \cup {PathOf(e) : e \in Adds} \cup ({half} \ {Nowhere}) \cup cut

Expected(p) == \E q \in Coming : IsBelow(p, q)

\* A folder is followed and stays so, or it is going to be.
Covered(d) == (Followed(d) /\ ~ Doomed(at[d])) \/ Expected(at[d])

\* Nothing has happened yet that the code does not survive.
Good ==
  /\ Undisturbed
  /\ user \in {"new", "watch?", "watching"}
  /\ \A e \in ToSet(os) : e.kind # "overflow"

Roomy ==
  /\ Len(os) <= OsCapacity
  /\ \A e \in ToSet(os) : e.kind \in Dropping \cup Adding /\ e.name # "" /\ e.wd \in Wds

Phases ==
  /\ pc = "idle" => rm = <<>> /\ add = <<>>
  /\ pc \in {"adding"} \cup Walking => rm = <<>>
  /\ user = "watch?" => add = <<>>
  /\ pc # "stopped"

\* The two maps agree, but for descriptors the kernel has dropped.
Agree ==
  /\ \A d \in Dirs : Recorded(wd[d]) => watches[paths[wd[d]]] = wd[d]
  /\ \A p \in AllPaths : watches[p] # NoWd => paths[watches[p]] = p

\* Only the descriptor in hand is not recorded yet.
InHand ==
  /\ \A d \in Dirs : wd[d] # NoWd /\ paths[wd[d]] = Nowhere => pc = "recording" /\ fresh = wd[d]
  /\ pc = "recording" => \E d \in Dirs : wd[d] # NoWd /\ fresh = wd[d] /\ at[d] = Head(walk)

\* A watch recorded under a path its folder has left is about to be removed.
Stale ==
  \A d \in Dirs : Recorded(wd[d]) /\ paths[wd[d]] # at[d] =>
    \E r \in Leaving : Has(r) /\ IsBelow(paths[wd[d]], r)

\* So is the entry of a descriptor the kernel has dropped, with nothing below
\* it that a removal would then leave behind.
Dead ==
  \A p \in AllPaths : watches[p] # NoWd /\ ~ Live(watches[p]) =>
    /\ p \in Leaving
    /\ \A d \in Dirs : Recorded(wd[d]) => ~ IsBelow(paths[wd[d]], p)

\* What is queued while the watches change is of a live watch, and when it says
\* that a folder has gone and there is one, there is also an event of that one.
Answered ==
  ~ Reading => \A e \in ToSet(os) :
    /\ Recorded(e.wd) => Live(e.wd)
    /\ \A c, d \in Dirs :
         e.kind \in Dropping /\ wd[d] = e.wd /\ at[c] = Append(at[d], e.name) =>
           \E f \in ToSet(os) : f.kind \in Adding /\ f.wd = e.wd /\ f.name = e.name

Begun == user = "watching" \/ pc \in Walking

AllCovered == Begun => \A d \in Dirs : IsBelow(at[d], Root) => Covered(d)

Sound ==
  Roomy /\ Phases /\ Agree /\ InHand /\ Stale /\ Dead /\ Answered /\ AllCovered

Base == InotifyInv /\ Tree /\ Bookkeeping /\ Numbered

-----------------------------------------------------------------------------
\* A state with everything in order comes from one with everything in order.
LEMMA GoodBefore ==
  ASSUME Base, [Next]_vars, Good'
  PROVE  Good
PROOF
<1> USE DEF Good, Undisturbed
<1>0. KernelTypes /\ WalksForSomeone /\ SilentAtFirst
  BY DEF Base, InotifyInv
<1>1. Top \in Dirs
  BY StartAssumption, EmptySeq DEF Top, Dirs
<1>2. \A q \in Seq(Raised), w \in Descriptors, e \in Raised : ToSet(q) \subseteq ToSet(Queued(q, w, e))
  <2> SUFFICES ASSUME NEW q \in Seq(Raised), NEW w \in Descriptors, NEW e \in Raised
               PROVE  ToSet(q) \subseteq ToSet(Queued(q, w, e))
    OBVIOUS
  <2> DEFINE o == [kind |-> "overflow", wd |-> NoWd, name |-> ""]
  <2>1. o \in Raised
    BY DEF Raised, Descriptors, Tokens
  <2> HIDE DEF Raised, o
  <2>2. ToSet(Append(q, o)) = ToSet(q) \cup {o} /\ ToSet(Append(q, e)) = ToSet(q) \cup {e}
    BY <2>1, Elements
  <2>3. Queued(q, w, e) = q \/ Queued(q, w, e) = Append(q, o) \/ Queued(q, w, e) = Append(q, e)
    BY DEF Queued, o
  <2> QED
    BY <2>2, <2>3
<1>3. CASE UNCHANGED <<at, os, raced>> /\ UNCHANGED <<user, told, broken>>
  BY <1>3
<1>4. ASSUME NEW d \in Dirs, NEW p \in AllPaths, Mkdir(d, p), UNCHANGED <<user, told, broken>>
      PROVE  Good
  <2>1. Entry("create", p) \in Raised /\ WdAt(Parent(p)) \in Descriptors
    BY <1>0, PathForms, EntryType, DescriptorAt
  <2>2. ToSet(os) \subseteq ToSet(os')
    BY <1>0, <1>2, <1>4, <2>1 DEF Mkdir, KernelTypes
  <2>3. p # Root
    BY <1>4, PathForms, Roots DEF Mkdir
  <2>4. at[Top] = Root
    BY <1>0, <1>1, <1>4, <2>3 DEF Mkdir, KernelTypes
  <2> QED
    BY <1>4, <2>2, <2>4 DEF Mkdir
<1>5. ASSUME NEW d \in Dirs, Rmdir(d), UNCHANGED <<user, told, broken>>
      PROVE  Good
  <2>1. at[d] \in AllPaths /\ wd[Top] \in Descriptors
    BY <1>0, <1>1, <1>5 DEF Rmdir, KernelTypes
  <2>2. /\ Entry("delete", at[d]) \in Raised /\ Self("delete_self", wd[Top]) \in Raised
        /\ WdAt(Parent(at[d])) \in Descriptors
    BY <1>0, <2>1, PathForms, EntryType, SelfType, DescriptorAt
  <2>3. ToSet(os) \subseteq ToSet(os')
    BY <1>0, <1>2, <1>5, <2>1, <2>2 DEF Rmdir, KernelTypes
  <2>4. at[Top] = Root
    BY <1>0, <1>1, <1>5, Roots DEF Rmdir, KernelTypes
  <2> QED
    BY <1>5, <2>3, <2>4 DEF Rmdir
<1>6. ASSUME NEW d \in Dirs, NEW p \in AllPaths, Rename(d, p), UNCHANGED <<user, told, broken>>
      PROVE  Good
  <2>1. at[d] \in AllPaths /\ wd[Top] \in Descriptors /\ at[Top] \in AllPaths \cup {Nowhere}
    BY <1>0, <1>1, <1>6 DEF Rename, KernelTypes
  <2>2. /\ Entry("moved_from", at[d]) \in Raised /\ Self("move_self", wd[Top]) \in Raised
        /\ WdAt(Parent(at[d])) \in Descriptors
    BY <1>0, <2>1, PathForms, EntryType, SelfType, DescriptorAt
  <2>3. ToSet(os) \subseteq ToSet(os')
    BY <1>0, <1>2, <1>6, <2>1, <2>2 DEF Rename, KernelTypes
  <2>4. at[Top] # Nowhere /\ at'[Top] = Moved(at[Top], at[d], p)
    BY <1>1, <1>6, Roots DEF Rename
  <2>5. ~ IsBelow(at[Top], at[d])
    <3> SUFFICES ASSUME IsBelow(at[Top], at[d]) PROVE FALSE
      OBVIOUS
    <3>1. p \in Trails /\ p # Nowhere /\ p # Root /\ p # Away
      BY <1>6, PathForms, Roots DEF Rename
    <3>2. at[Top] \in Trails /\ at[d] \in Trails
      BY <2>1, <2>4, PathForms
    <3>3. IsBelow(Moved(at[Top], at[d], p), p)
      BY <3>1, <3>2, Moving
    <3>4. IsBelow(Root, p)
      BY <2>4, <3>3
    <3> QED
      BY <3>1, <3>4, RootsAreTops
  <2>6. at[Top] = Root
    BY <2>4, <2>5 DEF Moved
  <2> QED
    BY <1>6, <2>3, <2>6 DEF Rename
<1>7. CASE FileSystem
  BY <1>4, <1>5, <1>6, <1>7 DEF FileSystem, maps
<1>8. CASE RenameEnds
  <2>1. half \in AllPaths
    BY <1>0, <1>8 DEF RenameEnds, KernelTypes
  <2>2. Entry("moved_to", half) \in Raised /\ WdAt(Parent(half)) \in Descriptors
    BY <1>0, <2>1, PathForms, EntryType, DescriptorAt
  <2>3. ToSet(os) \subseteq ToSet(os')
    BY <1>0, <1>2, <1>8, <2>2 DEF RenameEnds, KernelTypes
  <2> QED
    BY <1>8, <2>3 DEF RenameEnds, maps
<1>9. CASE ReadEvent
  <2>1. os # <<>> /\ os' = Tail(os) /\ UNCHANGED <<at, raced, user, broken>>
    BY <1>9 DEF ReadEvent, maps
  <2>2. ToSet(os) = {Head(os)} \cup ToSet(os')
    BY <1>0, <2>1, Elements DEF KernelTypes
  <2>3. \/ Head(os).kind = "overflow" /\ told' = told \cup {"rescan"}
        \/ Head(os).kind # "overflow" /\ told' = told
    BY <1>9 DEF ReadEvent, Handle
  <2>4. "rescan" \notin told'
    OBVIOUS
  <2>5. told' = told /\ Head(os).kind # "overflow"
    BY <2>3, <2>4
  <2> QED
    BY <2>1, <2>2, <2>5
<1>10. CASE Owner
  <2>1. UNCHANGED <<at, os, raced, told, broken>> /\ user \in {"new", "watching"}
    BY <1>10 DEF Owner, Ask, kernel, maps
  <2> QED
    BY <2>1
<1>11. CASE RemoveNext
  <2>1. UNCHANGED <<at, os, raced, user, told>>
    BY <1>11 DEF RemoveNext
  <2>2. broken' = broken \/ broken' = TRUE
    BY <1>11 DEF RemoveNext, RemoveWatch, maps
  <2> QED
    BY <2>1, <2>2
<1>12. CASE BatchBegins \/ BatchRead \/ RemovalsDone \/ AddNext \/ BatchEnds \/ WalkNext
  BY <1>3, <1>12
     DEF BatchBegins, BatchRead, RemovalsDone, AddNext, BatchEnds, WalkNext, kernel, maps
<1>13. CASE WalkEnds
  <2>1. UNCHANGED <<at, os, raced, told, broken>> /\ (user = "watch?" \/ user' = user)
    BY <1>13 DEF WalkEnds, kernel, maps
  <2> QED
    BY <2>1
<1>14. ASSUME NEW limit \in BOOLEAN, WalkAborted(limit)
       PROVE  told \subseteq {"error"} /\ user' = user
  BY <1>14 DEF WalkAborted
<1>15. CASE AddWatch
  <2>1. UNCHANGED <<at, os, raced, broken>> /\ told \subseteq {"error"} /\ user' = user
    BY <1>14, <1>15 DEF AddWatch, maps
  <2> QED
    BY <2>1
<1>16. CASE RecordWatch
  <2>1. UNCHANGED <<at, os, raced, broken>> /\ told \subseteq {"error"} /\ user' = user
    BY <1>14, <1>16 DEF RecordWatch, kernel, maps
  <2> QED
    BY <2>1
<1>17. CASE HandleWatch
  BY <1>17 DEF HandleWatch, kernel, maps
<1>18. CASE HandleUnwatch \/ HandleShutdown
  BY <1>18 DEF HandleUnwatch, HandleShutdown
<1>19. CASE ReadFails
  BY <1>19 DEF ReadFails, kernel, maps
<1>20. CASE UNCHANGED vars
  BY <1>3, <1>20 DEF vars, kernel, maps
<1> QED
  BY <1>7, <1>8, <1>9, <1>10, <1>11, <1>12, <1>13, <1>15, <1>16, <1>17, <1>18, <1>19, <1>20
     DEF Next, EventLoop

\* Where nothing is lost a queue gains the event or, of no watch, nothing.
LEMMA GoodQueue ==
  ASSUME NEW q \in Seq(Raised), NEW w \in Descriptors, NEW e \in Raised, Len(q) <= OsCapacity,
         \A x \in ToSet(Queued(q, w, e)) : x.kind # "overflow"
  PROVE  /\ w = NoWd => Queued(q, w, e) = q
         /\ w # NoWd => /\ ToSet(Queued(q, w, e)) = ToSet(q) \cup {e}
                        /\ Len(Queued(q, w, e)) <= OsCapacity
<1> DEFINE o == [kind |-> "overflow", wd |-> NoWd, name |-> ""]
<1>1. o \in Raised /\ o.kind = "overflow"
  BY DEF Raised, Descriptors, Tokens
<1> HIDE DEF Raised, o
<1>2. Len(q) \in Nat /\ OsCapacity \in Nat
  BY InotifyAssumption
<1>3. ToSet(Append(q, o)) = ToSet(q) \cup {o} /\ ToSet(Append(q, e)) = ToSet(q) \cup {e}
      /\ Len(Append(q, e)) = Len(q) + 1
  BY <1>1, Elements
<1>4. ~ (Len(q) > OsCapacity)
  BY <1>2
<1>5. CASE w = NoWd
  BY <1>5 DEF Queued
<1>6. CASE w # NoWd
  <2>1. Queued(q, w, e) = Append(q, IF Len(q) = OsCapacity THEN o ELSE e)
    BY <1>4, <1>6 DEF Queued, o
  <2>2. Len(q) # OsCapacity
    BY <1>1, <1>3, <2>1
  <2>3. Queued(q, w, e) = Append(q, e)
    BY <2>1, <2>2
  <2>4. Len(q) + 1 <= OsCapacity
    BY <1>2, <2>2
  <2> QED
    BY <1>3, <1>6, <2>3, <2>4
<1> QED
  BY <1>5, <1>6

\* The path an event is about is below the watched folder.
LEMMA EventPath ==
  ASSUME Base, Roomy, NEW e \in ToSet(os), Recorded(e.wd)
  PROVE  /\ e.wd \in Wds /\ paths[e.wd] \in AllPaths /\ paths[e.wd] \in UnderRoot
         /\ e.name \in Tokens
         /\ PathOf(e) = Append(paths[e.wd], e.name)
         /\ PathOf(e) \in UnderRoot /\ PathOf(e) \in Trails
<1>1. e \in Raised /\ e.wd \in Wds /\ e.name # ""
  BY Elements DEF Roomy, Base, InotifyInv, KernelTypes
<1>2. e.name \in Tokens
  BY <1>1 DEF Raised
<1>3. paths[e.wd] \in AllPaths /\ paths[e.wd] \in UnderRoot
  BY <1>1 DEF Recorded, Base, InotifyInv, AllUnderRoot, Bookkeeping
<1>4. PathOf(e) = Append(paths[e.wd], e.name)
  BY <1>1 DEF PathOf, Recorded
<1>5. PathOf(e) \in UnderRoot
  BY <1>2, <1>3, <1>4, AppendStaysUnder
<1>6. UnderRoot \subseteq Trails
  BY DEF UnderRoot, Trails
<1> QED
  BY <1>1, <1>2, <1>3, <1>4, <1>5, <1>6

\* Everything the invariant speaks of is a path.
LEMMA AllTrails ==
  ASSUME Base, Roomy
  PROVE  /\ Nowhere \in Trails
         /\ \A d \in Dirs : at[d] \in Trails /\ (at[d] # Nowhere => at[d] \in AllPaths)
         /\ \A w \in Wds : paths[w] \in Trails
         /\ AllPaths \subseteq Trails /\ UnderRoot \subseteq Trails
         /\ Leaving \subseteq Trails /\ Coming \subseteq Trails
         /\ ToSet(rm) \subseteq AllPaths
         /\ Nowhere \notin Leaving /\ Nowhere \notin Coming
<1> USE DEF Base, InotifyInv
<1>1. Nowhere \in Trails /\ AllPaths \subseteq Trails /\ UnderRoot \subseteq Trails
  <2>1. Nowhere \in Trails
    BY DEF Nowhere, Trails
  <2>2. UnderRoot \subseteq Trails
    BY DEF UnderRoot, Trails
  <2> QED
    BY <2>1, <2>2, PathForms
<1>2. \A d \in Dirs : at[d] \in AllPaths \cup {Nowhere}
  BY DEF KernelTypes
<1>3. \A w \in Wds : paths[w] \in AllPaths \cup {Nowhere}
  BY DEF Bookkeeping
<1>4. ToSet(rm) \subseteq AllPaths
  BY Elements DEF Bookkeeping
<1>5. \A e \in ToSet(os) : Recorded(e.wd) => PathOf(e) \in UnderRoot
  BY EventPath
<1>6. Leaving \subseteq AllPaths \cup UnderRoot
  BY <1>4, <1>5 DEF Leaving, Drops
<1>7. Later \subseteq UnderRoot
  <2> HIDE DEF UnderRoot
  <2>1. add \in Seq(UnderRoot)
    BY DEF AllUnderRoot
  <2>2. ToSet(add) \subseteq UnderRoot
    BY <2>1, Elements
  <2>3. DOMAIN add = 1 .. Len(add) /\ Len(add) \in Nat
    BY <2>1, LenProperties
  <2>4. \A i \in 2 .. Len(add) : i \in DOMAIN add
    BY <2>3
  <2>5. \A i \in 2 .. Len(add) : add[i] \in UnderRoot
    BY <2>2, <2>4 DEF ToSet
  <2> QED
    BY <2>2, <2>5 DEF Later
<1>8. ToWalk \subseteq UnderRoot
  <2> HIDE DEF UnderRoot
  <2>1. walk \in Seq(UnderRoot)
    BY DEF AllUnderRoot
  <2>2. walk # <<>> => Head(walk) \in UnderRoot /\ Tail(walk) \in Seq(UnderRoot)
    BY <2>1, Elements
  <2>3. walk # <<>> => ToSet(Tail(walk)) \subseteq UnderRoot
    BY <2>2, Elements
  <2> QED
    BY <2>2, <2>3 DEF ToWalk
<1>9. Coming \subseteq UnderRoot \cup (AllPaths \cap {half})
  <2>1. {PathOf(e) : e \in Adds} \subseteq UnderRoot
    BY <1>5 DEF Adds, Heard
  <2>2. {half} \ {Nowhere} \subseteq AllPaths \cap {half}
    BY DEF KernelTypes
  <2>3. cut \subseteq UnderRoot
    BY DEF Bookkeeping
  <2> QED
    BY <1>7, <1>8, <2>1, <2>2, <2>3 DEF Coming
<1>10. Nowhere \notin AllPaths /\ Nowhere \notin UnderRoot
  BY PathForms, UnderIsBelow
<1> HIDE DEF Base, InotifyInv
<1> QED
  BY <1>1, <1>2, <1>3, <1>4, <1>6, <1>9, <1>10

-----------------------------------------------------------------------------
(***************************************************************************)
(* The steps: those that only move the thread on, the walk, a removal, and  *)
(* the changes to the file system.                                          *)
(***************************************************************************)
\* A step that changes neither folders nor watches, forgets nothing it has to
\* remove and finds nothing new to remove, leaves what is in order in order.
LEMMA Steady ==
  ASSUME Agree, Stale, Dead, UNCHANGED <<at, wd, watches, paths>>,
         Leaving' \subseteq Leaving, \A q \in Leaving : Has(q) => q \in Leaving'
  PROVE  /\ Agree' /\ Stale' /\ Dead'
         /\ \A d \in Dirs : Followed(d) /\ ~ Doomed(at[d]) => Covered(d)'
<1>1. /\ \A w : Recorded(w)' <=> Recorded(w)
      /\ \A w : Live(w)' <=> Live(w)
      /\ \A p : Has(p)' <=> Has(p)
      /\ \A d : Followed(d)' <=> Followed(d)
  BY DEF Recorded, Live, Has, Followed
<1>2. Agree'
  BY <1>1 DEF Agree, Recorded
<1>3. Stale'
  BY <1>1 DEF Stale, Recorded
<1>4. Dead'
  <2>1. \A p \in AllPaths : watches[p] # NoWd /\ p \in Leaving => p \in Leaving'
    BY DEF Has
  <2> QED
    BY <1>1, <2>1 DEF Dead, Recorded, Live
<1>5. \A d \in Dirs : Followed(d) /\ ~ Doomed(at[d]) => Covered(d)'
  BY <1>1 DEF Covered, Doomed
<1> QED
  BY <1>2, <1>3, <1>4, <1>5

\* Asking for the watch changes nothing yet.
LEMMA OwnerSound ==
  ASSUME Base, Good, Good', Sound, Owner
  PROVE  Sound'
<1>1. /\ UNCHANGED <<at, wd, nextWd, os, half, pc, watches, paths, rm, add, walk, open, fresh, cut>>
      /\ user = "new" /\ user' = "watch?"
  BY DEF Owner, Ask, kernel, maps, batch, walker, Good
<1>2. pc = "idle"
  BY <1>1 DEF Base, InotifyInv, SilentAtFirst
<1>3. Leaving' = Leaving
  BY <1>1 DEF Leaving, Drops, Reading, Recorded, PathOf
<1>4. Agree' /\ Stale' /\ Dead'
  BY <1>1, <1>3, Steady DEF Sound
<1>5. Roomy' /\ Phases' /\ InHand' /\ Answered'
  BY <1>1, <1>2 DEF Sound, Roomy, Phases, InHand, Answered, Reading
<1>6. AllCovered'
  BY <1>1, <1>2 DEF AllCovered, Begun, Walking
<1> QED
  BY <1>4, <1>5, <1>6 DEF Sound

\* While the batch is empty reading begins with what was known when idle.
LEMMA BatchBeginsSound ==
  ASSUME Base, Sound, BatchBegins
  PROVE  Sound'
<1>1. /\ UNCHANGED <<at, wd, nextWd, os, half, watches, paths, rm, add, walk, open, fresh, cut, user>>
      /\ pc = "idle" /\ pc' = "reading" /\ rm = <<>> /\ add = <<>>
  BY DEF BatchBegins, kernel, maps, walker, Sound, Phases
<1>2. Leaving' = Leaving
  BY <1>1 DEF Leaving, Drops, Reading, Recorded, PathOf
<1>3. Coming' = Coming
  <2>1. Adds' = Adds
    BY <1>1 DEF Adds, Heard, Reading, Recorded
  <2>2. Later' = Later /\ ToWalk' = ToWalk
    BY <1>1 DEF Later, ToWalk, Walking
  <2>3. \A e : PathOf(e)' = PathOf(e)
    BY <1>1 DEF PathOf
  <2> QED
    BY <1>1, <2>1, <2>2, <2>3 DEF Coming
<1>4. Agree' /\ Stale' /\ Dead' /\ \A d \in Dirs : Followed(d) /\ ~ Doomed(at[d]) => Covered(d)'
  BY <1>1, <1>2, Steady DEF Sound
<1>5. Roomy' /\ Phases' /\ InHand' /\ Answered'
  BY <1>1 DEF Sound, Roomy, Phases, InHand, Answered, Reading, Walking
<1>6. AllCovered'
  BY <1>1, <1>3, <1>4 DEF Sound, AllCovered, Begun, Walking, Covered, Expected
<1> QED
  BY <1>4, <1>5, <1>6 DEF Sound

\* What has been read is what there was to read.
LEMMA BatchReadSound ==
  ASSUME Base, Sound, BatchRead
  PROVE  Sound'
<1>1. /\ UNCHANGED <<at, wd, nextWd, os, half, watches, paths, rm, add, walk, open, fresh, cut, user>>
      /\ pc = "reading" /\ pc' = "removing" /\ os = <<>>
  BY DEF BatchRead, kernel, maps, batch, walker
<1>2. ToSet(os) = {} /\ ToSet(os') = {}
  BY <1>1 DEF ToSet
<1>3. Leaving = ToSet(rm) /\ Leaving' = ToSet(rm)
  BY <1>1, <1>2 DEF Leaving, Drops
<1>4. Coming' = Coming
  <2>1. Adds = {} /\ Adds' = {}
    BY <1>2 DEF Adds
  <2>2. Later' = Later /\ ToWalk' = ToWalk
    BY <1>1 DEF Later, ToWalk, Walking
  <2> QED
    BY <1>1, <2>1, <2>2 DEF Coming
<1>5. Agree' /\ Stale' /\ Dead' /\ \A d \in Dirs : Followed(d) /\ ~ Doomed(at[d]) => Covered(d)'
  BY <1>1, <1>3, Steady DEF Sound
<1>6. Roomy' /\ Phases' /\ InHand' /\ Answered'
  BY <1>1, <1>2 DEF Sound, Roomy, Phases, InHand, Answered, Reading, Walking
<1>7. AllCovered'
  BY <1>1, <1>4, <1>5 DEF Sound, AllCovered, Begun, Walking, Covered, Expected
<1> QED
  BY <1>5, <1>6, <1>7 DEF Sound

\* With the last removal done the additions begin.
LEMMA RemovalsDoneSound ==
  ASSUME Base, Sound, RemovalsDone
  PROVE  Sound'
<1>1. /\ UNCHANGED <<at, wd, nextWd, os, half, watches, paths, rm, add, walk, open, fresh, cut, user>>
      /\ pc = "removing" /\ pc' = "adding" /\ rm = <<>>
  BY DEF RemovalsDone, kernel, maps, batch, walker
<1>2. Leaving' = Leaving
  BY <1>1 DEF Leaving, Drops, Reading
<1>3. Coming' = Coming
  <2>1. Adds' = Adds
    BY <1>1 DEF Adds, Heard, Reading, Recorded
  <2>2. Later' = Later /\ ToWalk' = ToWalk
    BY <1>1 DEF Later, ToWalk, Walking
  <2>3. \A e : PathOf(e)' = PathOf(e)
    BY <1>1 DEF PathOf
  <2> QED
    BY <1>1, <2>1, <2>2, <2>3 DEF Coming
<1>4. Agree' /\ Stale' /\ Dead' /\ \A d \in Dirs : Followed(d) /\ ~ Doomed(at[d]) => Covered(d)'
  BY <1>1, <1>2, Steady DEF Sound
<1>5. Roomy' /\ Phases' /\ InHand'
  BY <1>1 DEF Sound, Roomy, Phases, InHand, Walking, Base, InotifyInv, WalksForSomeone
<1>6. Answered'
  BY <1>1 DEF Sound, Answered, Reading, Recorded, Live
<1>7. AllCovered'
  BY <1>1, <1>3, <1>4 DEF Sound, AllCovered, Begun, Walking, Covered, Expected
<1> QED
  BY <1>4, <1>5, <1>6, <1>7 DEF Sound

\* An event read goes from the queue to the batch, unless it asks for the
\* removal of what is not watched.
LEMMA ReadEventSound ==
  ASSUME Base, Base', Good, Good', Sound, ReadEvent
  PROVE  Sound'
<1> DEFINE e == Head(os)
           p == PathOf(e)
<1>1. /\ UNCHANGED <<at, wd, nextWd, half, watches, paths, walk, open, fresh, cut, user, pc>>
      /\ pc = "reading" /\ os # <<>> /\ os' = Tail(os) /\ Handle(e, p)
  BY DEF ReadEvent, maps, walker
<1>2. /\ ToSet(os) = {e} \cup ToSet(os') /\ os' \in Seq(Raised)
      /\ e.kind \in Dropping \cup Adding /\ e.name # "" /\ e.wd \in Wds
      /\ e \in ToSet(os) /\ Roomy
  <2>1. os \in Seq(Raised)
    BY DEF Base, InotifyInv, KernelTypes
  <2>2. ToSet(os) = {e} \cup ToSet(os') /\ os' \in Seq(Raised)
    BY <1>1, <2>1, Elements
  <2> QED
    BY <2>2 DEF Sound, Roomy
<1>3. /\ \A x : PathOf(x)' = PathOf(x)
      /\ \A w : Recorded(w)' <=> Recorded(w)
      /\ \A q : Has(q)' <=> Has(q)
      /\ \A w : Heard(w)' <=> Heard(w)
  BY <1>1 DEF PathOf, Recorded, Has, Heard, Reading
<1>4. Recorded(e.wd) => p \in Trails /\ p # Nowhere /\ p = Append(paths[e.wd], e.name)
                       /\ p \in UnderRoot /\ e.name \in Tokens
                       /\ paths[e.wd] \in AllPaths
  <2>1. Recorded(e.wd) => p \in Trails /\ p = Append(paths[e.wd], e.name)
                       /\ p \in UnderRoot /\ e.name \in Tokens
                       /\ paths[e.wd] \in AllPaths
    BY <1>2, EventPath
  <2>2. Recorded(e.wd) => p # Nowhere
    BY <2>1, UnderIsBelow
  <2> QED
    BY <2>1, <2>2
<1>5. ~ Recorded(e.wd) => p = Nowhere
  BY DEF PathOf, Recorded
<1>6. /\ e.kind \in Dropping /\ Recorded(e.wd) =>
           add' = add /\ (Has(p) => rm' = Append(rm, p)) /\ (~ Has(p) => rm' = rm)
      /\ ~ (e.kind \in Dropping /\ Recorded(e.wd)) => rm' = rm
      /\ e.kind \in Adding /\ Recorded(e.wd) =>
           (Has(Parent(p)) => add' = Append(add, p)) /\ (~ Has(Parent(p)) => add' = add)
      /\ ~ (e.kind \in Adding /\ Recorded(e.wd)) => add' = add
  <2> HIDE DEF e, p
  <2> QED
    BY <1>1, <1>2, <1>4, <1>5 DEF Handle, ToRemove, ToAdd, Dropping, Adding
<1>7. /\ rm \in Seq(AllPaths) /\ add \in Seq(UnderRoot) /\ Has(p) => p \in AllPaths
  BY DEF Base, InotifyInv, Bookkeeping, AllUnderRoot, Has
<1> HIDE DEF e, p, UnderRoot
<1>8. ToSet(rm') = ToSet(rm) \cup (IF e.kind \in Dropping /\ Recorded(e.wd) /\ Has(p) THEN {p} ELSE {})
  <2>1. rm \in Seq(AllPaths)
    BY DEF Base, Bookkeeping
  <2>2. Has(p) => p \in AllPaths
    BY DEF Has
  <2>3. \A x \in AllPaths : ToSet(Append(rm, x)) = ToSet(rm) \cup {x}
    BY <2>1, Elements
  <2> QED
    BY <1>6, <2>2, <2>3
<1>9. ToSet(add') = ToSet(add) \cup (IF e.kind \in Adding /\ Recorded(e.wd) /\ Has(Parent(p)) THEN {p} ELSE {})
  <2>1. add \in Seq(UnderRoot)
    BY DEF Base, InotifyInv, AllUnderRoot
  <2>2. \A x \in UnderRoot : ToSet(Append(add, x)) = ToSet(add) \cup {x}
    BY <2>1, Elements
  <2> QED
    BY <1>4, <1>6, <2>2
<1>10. /\ Drops' = {f \in ToSet(os') : f.kind \in Dropping /\ Recorded(f.wd)}
       /\ Drops = {f \in ToSet(os) : f.kind \in Dropping /\ Recorded(f.wd)}
  BY <1>1, <1>3 DEF Drops, Reading
<1>11. Drops = Drops' \cup (IF e.kind \in Dropping /\ Recorded(e.wd) THEN {e} ELSE {})
  BY <1>2, <1>10
<1>12. /\ Leaving' = ToSet(rm') \cup {PathOf(f) : f \in Drops'}
       /\ Leaving = ToSet(rm) \cup {PathOf(f) : f \in Drops}
  BY <1>3 DEF Leaving
<1>13. Leaving' \subseteq Leaving
  <2>1. e.kind \in Dropping /\ Recorded(e.wd) => p \in {PathOf(f) : f \in Drops}
    BY <1>11 DEF p
  <2>2. {PathOf(f) : f \in Drops'} \subseteq {PathOf(f) : f \in Drops}
    BY <1>11
  <2> QED
    BY <1>8, <1>12, <2>1, <2>2
<1>14. ASSUME NEW q \in Leaving, Has(q) PROVE q \in Leaving'
  <2>1. CASE q \in ToSet(rm)
    BY <1>8, <1>12, <2>1
  <2>2. CASE q \in {PathOf(f) : f \in Drops}
    <3>1. PICK f \in Drops : q = PathOf(f)
      BY <2>2
    <3>2. CASE f \in Drops'
      BY <1>12, <3>1, <3>2
    <3>3. CASE f = e /\ e.kind \in Dropping /\ Recorded(e.wd)
      BY <1>8, <1>12, <1>14, <3>1, <3>3 DEF p
    <3> QED
      BY <1>11, <3>2, <3>3
  <2> QED
    BY <1>12, <2>1, <2>2
<1>15. Agree' /\ Stale' /\ Dead' /\ \A d \in Dirs : Followed(d) /\ ~ Doomed(at[d]) => Covered(d)'
  BY <1>1, <1>13, <1>14, Steady DEF Sound
<1>16. Adds = Adds' \cup (IF e.kind \in Adding /\ Heard(e.wd) THEN {e} ELSE {})
  BY <1>2, <1>3 DEF Adds
<1>17. Heard(e.wd) => Has(Parent(p)) /\ Recorded(e.wd)
  <2>1. ASSUME Recorded(e.wd) PROVE Parent(p) = paths[e.wd]
    <3> DEFINE q == paths[e.wd]
               n == e.name
    <3>1. p = Append(q, n) /\ q \in Trails /\ n \in Tokens
      BY <1>4, <2>1, PathForms
    <3> HIDE DEF q, n
    <3>2. Parent(Append(q, n)) = q
      BY <3>1, Entries
    <3> QED
      BY <3>1, <3>2 DEF q
  <2> QED
    BY <1>1, <1>4, <2>1 DEF Heard, Has, Reading
<1>18. Coming \subseteq Coming'
  <2>1. Later = ToSet(add) /\ Later' = ToSet(add') /\ ToWalk = {}
    BY <1>1 DEF Later, ToWalk, Walking
  <2>2. {PathOf(f) : f \in Adds} \subseteq {PathOf(f) : f \in Adds'} \cup ToSet(add')
    <3> SUFFICES ASSUME NEW f \in Adds PROVE PathOf(f) \in {PathOf(g) : g \in Adds'} \cup ToSet(add')
      OBVIOUS
    <3>1. CASE f \in Adds'
      BY <3>1
    <3>2. CASE f = e /\ e.kind \in Adding /\ Heard(e.wd)
      BY <1>9, <1>17, <3>2 DEF p
    <3> QED
      BY <1>16, <3>1, <3>2
  <2>3. Coming = ToSet(add) \cup {PathOf(f) : f \in Adds} \cup ({half} \ {Nowhere}) \cup cut
    BY <2>1 DEF Coming
  <2>4. ToSet(add') \cup {PathOf(f) : f \in Adds'} \cup ({half} \ {Nowhere}) \cup cut \subseteq Coming'
    BY <1>1, <1>3, <2>1 DEF Coming
  <2> QED
    BY <1>9, <2>2, <2>3, <2>4
<1>19. Roomy'
  <2>1. Len(os') <= OsCapacity
    <3>1. Len(os) \in Nat /\ Len(os') = Len(os) - 1 /\ OsCapacity \in Nat
      BY <1>1, HeadTailProperties, InotifyAssumption DEF Base, InotifyInv, KernelTypes
    <3>2. Len(os) <= OsCapacity
      BY <1>2 DEF Roomy
    <3> QED
      BY ONLY <3>1, <3>2
  <2> QED
    BY <1>2, <2>1 DEF Roomy
<1>20. Phases' /\ InHand' /\ Answered'
  <2>1. user # "watch?"
    BY <1>1 DEF Base, InotifyInv, WalksForSomeone, Walking
  <2> QED
    BY <1>1, <2>1 DEF Sound, Phases, InHand, Answered, Reading, Walking
<1>21. AllCovered'
  BY <1>1, <1>15, <1>18 DEF Sound, AllCovered, Begun, Covered, Expected
<1> QED
  BY <1>15, <1>19, <1>20, <1>21 DEF Sound

\* A sequence without its first element.
LEMMA TailElements ==
  ASSUME NEW S, NEW s \in Seq(S), s # <<>>
  PROVE  ToSet(Tail(s)) = {s[i] : i \in 2 .. Len(s)}
<1>1. Tail(s) \in Seq(S) /\ Len(s) \in Nat /\ Len(Tail(s)) = Len(s) - 1
      /\ \A i \in 1 .. Len(s) - 1 : Tail(s)[i] = s[i + 1]
  BY HeadTailProperties, LenProperties
<1> DEFINE t == Tail(s)
<1>2. ToSet(t) = {t[i] : i \in 1 .. Len(t)}
  BY <1>1, LenProperties DEF ToSet
<1>3. Len(t) = Len(s) - 1
  BY <1>1
<1> HIDE DEF t
<1>4. ASSUME NEW i \in 1 .. Len(t) PROVE t[i] \in {s[j] : j \in 2 .. Len(s)}
  <2>1. i + 1 \in 2 .. Len(s) /\ i \in 1 .. Len(s) - 1
    BY <1>1, <1>3
  <2> QED
    BY <1>1, <2>1 DEF t
<1>5. ASSUME NEW j \in 2 .. Len(s) PROVE s[j] \in {t[i] : i \in 1 .. Len(t)}
  <2>1. j - 1 \in 1 .. Len(t) /\ j - 1 \in 1 .. Len(s) - 1 /\ j - 1 + 1 = j
    BY <1>1, <1>3
  <2> QED
    BY <1>1, <2>1 DEF t
<1> QED
  BY <1>2, <1>4, <1>5 DEF t

\* Below what does not exist there is no folder.
LEMMA GoneIsEmpty ==
  ASSUME Base, NEW d \in Dirs, NEW q \in UnderRoot, ~ Exists(q)
  PROVE  ~ IsBelow(at[d], q)
<1> SUFFICES ASSUME IsBelow(at[d], q) PROVE FALSE
  OBVIOUS
<1>1. q \in Trails /\ q # Nowhere
  BY UnderIsBelow DEF UnderRoot, Trails
<1>2. at[d] # Nowhere
  BY <1>1, BelowOrder
<1>3. at[d] \in AllPaths
  BY <1>2 DEF Base, InotifyInv, KernelTypes
<1>4. q \in AllPaths
  BY <1>1, <1>3, PathsAbove
<1> QED
  BY <1>4 DEF Base, Tree, Closed

\* What is below something is somewhere.
LEMMA IsSomewhere ==
  ASSUME Base, NEW d \in Dirs, NEW q \in Trails, q # Nowhere, IsBelow(at[d], q)
  PROVE  at[d] \in AllPaths /\ at[d] \in Trails /\ at[d] # Nowhere
<1>1. at[d] # Nowhere
  BY BelowOrder
<1>2. at[d] \in AllPaths
  BY <1>1 DEF Base, InotifyInv, KernelTypes
<1> QED
  BY <1>1, <1>2, PathForms

\* A followed folder is somewhere, and recorded there.
LEMMA FollowedAt ==
  ASSUME Base, NEW d \in Dirs, Followed(d)
  PROVE  /\ Recorded(wd[d]) /\ wd[d] \in Wds /\ paths[wd[d]] = at[d]
         /\ at[d] \in AllPaths /\ at[d] \in Trails
<1>1. wd[d] # NoWd /\ wd[d] \in Wds /\ at[d] # Nowhere /\ paths[wd[d]] = at[d]
  BY DEF Followed, Base, Numbered, InotifyInv, KernelTypes, Descriptors
<1>2. at[d] \in AllPaths
  BY <1>1 DEF Base, InotifyInv, KernelTypes
<1> QED
  BY <1>1, <1>2, PathForms DEF Recorded

\* Once the removals are done nothing is left to remove.
LEMMA NothingLeaves ==
  ASSUME Phases, pc \in {"adding"} \cup Walking
  PROVE  /\ ~ Reading /\ Leaving = {} /\ \A p : ~ Doomed(p)
         /\ \A w : Heard(w) <=> Recorded(w)
<1>1. ~ Reading /\ rm = <<>>
  BY DEF Phases, Reading, Walking
<1>2. ToSet(rm) = {}
  BY <1>1 DEF ToSet
<1>3. Leaving = {}
  BY <1>1, <1>2 DEF Leaving, Drops
<1> QED
  BY <1>1, <1>2, <1>3 DEF Doomed, Heard

\* The maps are as they were; what was expected still is, or there is no folder.
LEMMA CoverageKept ==
  ASSUME Base, Sound, UNCHANGED <<at, wd, watches, paths>>, Leaving' = Leaving,
         Begun' => Begun,
         \A q \in Coming : q \in Coming' \/ (q \in UnderRoot /\ ~ Exists(q))
  PROVE  Agree' /\ Stale' /\ Dead' /\ AllCovered'
<1>1. Agree' /\ Stale' /\ Dead' /\ \A d \in Dirs : Followed(d) /\ ~ Doomed(at[d]) => Covered(d)'
  BY Steady DEF Sound
<1>2. ASSUME NEW d \in Dirs, Expected(at[d]) PROVE Covered(d)'
  <2>1. PICK q \in Coming : IsBelow(at[d], q)
    BY <1>2 DEF Expected
  <2>2. q \in Coming'
    BY <2>1, GoneIsEmpty
  <2> QED
    BY <2>1, <2>2 DEF Covered, Expected
<1>3. AllCovered'
  BY <1>1, <1>2 DEF Sound, AllCovered, Covered
<1> QED
  BY <1>1, <1>3

\* The next path of the batch is walked, or has gone and took its folders along.
LEMMA AddNextSound ==
  ASSUME Base, Good, Sound, AddNext
  PROVE  Sound'
<1>1. /\ UNCHANGED <<at, wd, nextWd, os, half, watches, paths, rm, open, fresh, cut, user>>
      /\ pc = "adding" /\ add # <<>>
      /\ Exists(Head(add)) => pc' = "walking" /\ walk' = <<Head(add)>> /\ add' = add
      /\ ~ Exists(Head(add)) => add' = Tail(add) /\ pc' = pc /\ walk' = walk
  BY DEF AddNext, kernel, maps
<1>2. pc' \in {"adding", "walking"} /\ user # "watch?" /\ rm = <<>>
  BY <1>1 DEF Base, InotifyInv, WalksForSomeone, Walking, Sound, Phases
<1>3. Roomy' /\ Phases' /\ InHand' /\ Answered'
  <2>1. Roomy' /\ Phases' /\ InHand'
    BY <1>1, <1>2 DEF Sound, Roomy, Phases, InHand, Walking
  <2>2. Answered'
    BY <1>1, <1>2 DEF Sound, Answered, Reading, Recorded, Live
  <2> QED
    BY <2>1, <2>2
<1>4. Leaving' = Leaving
  BY <1>1, <1>2 DEF Leaving, Drops, Reading
<1>5. add \in Seq(UnderRoot)
  BY DEF Base, InotifyInv, AllUnderRoot
<1> DEFINE h == Head(add)
<1>6. ToSet(add) = {h} \cup ToSet(Tail(add)) /\ ToSet(Tail(add)) = {add[i] : i \in 2 .. Len(add)}
      /\ h \in UnderRoot
  <2> HIDE DEF UnderRoot
  <2> QED
    BY <1>1, <1>5, Elements, TailElements
<1>7. /\ Adds' = Adds /\ \A e : PathOf(e)' = PathOf(e)
  BY <1>1, <1>2 DEF Adds, Heard, Reading, Recorded, PathOf
<1>8. Later = ToSet(add) /\ ToWalk = {}
  BY <1>1 DEF Later, ToWalk, Walking
<1> HIDE DEF h, UnderRoot
<1>9. \A q \in Coming : q \in Coming' \/ (q \in UnderRoot /\ ~ Exists(q))
  <2>1. CASE Exists(h)
    <3>1. pc' = "walking" /\ walk' = <<h>> /\ add' = add
      BY <1>1, <2>1 DEF h
    <3>2. Later' = {add[i] : i \in 2 .. Len(add)}
      BY <3>1 DEF Later, Walking
    <3>3. h \in ToWalk'
      BY <3>1 DEF ToWalk, Walking, OnTrack
    <3>4. Coming \subseteq Coming'
      BY <1>1, <1>6, <1>7, <1>8, <3>2, <3>3 DEF Coming
    <3> QED
      BY <3>4
  <2>2. CASE ~ Exists(h)
    <3>1. Later' = ToSet(Tail(add))
      BY <1>1, <2>2 DEF Later, Walking, h
    <3>2. Coming \subseteq Coming' \cup {h}
      BY <1>1, <1>6, <1>7, <1>8, <3>1 DEF Coming
    <3> QED
      BY <1>6, <2>2, <3>2
  <2> QED
    BY <2>1, <2>2
<1>10. Begun
  BY <1>1 DEF Begun, Good, Base, InotifyInv, SilentAtFirst, WalksForSomeone, Walking
<1> QED
  BY <1>1, <1>3, <1>4, <1>9, <1>10, CoverageKept DEF Sound

\* So it is with the next path of the walk; opened, it is on its way.
LEMMA WalkNextSound ==
  ASSUME Base, Sound, WalkNext
  PROVE  Sound'
<1> DEFINE h == Head(walk)
<1>1. /\ UNCHANGED <<at, wd, nextWd, os, half, watches, paths, rm, add, fresh, cut, user>>
      /\ pc = "walking" /\ walk # <<>>
      /\ Exists(h) => open' = InodeAt(h) /\ pc' = "watching" /\ walk' = walk
      /\ ~ Exists(h) => walk' = Tail(walk) /\ pc' = pc
  BY DEF WalkNext, kernel, maps, batch
<1>2. pc' \in {"walking", "watching"}
  BY <1>1
<1>3. Roomy' /\ Phases' /\ InHand'
  BY <1>1, <1>2 DEF Sound, Roomy, Phases, InHand, Walking
<1>4. Answered'
  BY <1>1, <1>2 DEF Sound, Answered, Reading, Recorded, Live
<1>5. Leaving' = Leaving
  BY <1>1, <1>2 DEF Leaving, Drops, Reading
<1>6. Adds' = Adds /\ (\A e : PathOf(e)' = PathOf(e)) /\ Later' = Later
  BY <1>1, <1>2 DEF Adds, Heard, Reading, Recorded, PathOf, Later, Walking
<1>7. walk \in Seq(UnderRoot)
  BY DEF Base, InotifyInv, AllUnderRoot
<1> HIDE DEF UnderRoot, h
<1>8. /\ h \in UnderRoot /\ Tail(walk) \in Seq(UnderRoot)
      /\ Tail(walk) # <<>> => ToSet(Tail(walk)) = {Head(Tail(walk))} \cup ToSet(Tail(Tail(walk)))
  <2>1. h \in UnderRoot /\ Tail(walk) \in Seq(UnderRoot)
    BY <1>1, <1>7, Elements DEF h
  <2> QED
    BY <2>1, Elements
<1>9. ToWalk = ToSet(Tail(walk)) \cup {h}
  BY <1>1 DEF ToWalk, Walking, OnTrack, h
<1>10. \A q \in Coming : q \in Coming' \/ (q \in UnderRoot /\ ~ Exists(q))
  <2>1. CASE Exists(h)
    <3>1. at[InodeAt(h)] = h
      BY <1>8, <2>1, FolderUnder DEF Base, InotifyInv
    <3>2. OnTrack'
      BY <1>1, <2>1, <3>1 DEF OnTrack, h
    <3>3. ToWalk' = ToSet(Tail(walk)) \cup {h}
      BY <1>1, <2>1, <3>2 DEF ToWalk, Walking, h
    <3> QED
      BY <1>1, <1>6, <1>9, <3>3 DEF Coming
  <2>2. CASE ~ Exists(h)
    <3>1. OnTrack' /\ walk' = Tail(walk) /\ pc' = "walking"
      BY <1>1, <2>2 DEF OnTrack
    <3>2. ToSet(Tail(walk)) \subseteq ToWalk'
      <4>1. CASE Tail(walk) = <<>>
        BY <4>1 DEF ToSet
      <4>2. CASE Tail(walk) # <<>>
        BY <1>8, <3>1, <4>2 DEF ToWalk, Walking
      <4> QED
        BY <4>1, <4>2
    <3>3. Coming \subseteq Coming' \cup {h}
      BY <1>1, <1>6, <1>9, <3>2 DEF Coming
    <3> QED
      BY <1>8, <2>2, <3>3
  <2> QED
    BY <2>1, <2>2
<1>11. Begun
  BY <1>1 DEF Begun, Walking
<1> QED
  BY <1>1, <1>3, <1>4, <1>5, <1>10, <1>11, CoverageKept DEF Sound

\* When the batch or the user's walk is over, whatever was queued meanwhile names
\* watches that still are where they are recorded: a folder gone has come back
\* only with an event that says so.
LEMMA IdleAgain ==
  ASSUME Base, Sound, Begun, UNCHANGED <<at, wd, os, half, watches, paths, rm, add, cut>>,
         pc \in {"adding"} \cup Walking, pc # "recording", ToWalk = {}, add = <<>>, pc' = "idle"
  PROVE  Sound'
<1>1. /\ ~ Reading /\ Leaving = {} /\ \A p : ~ Doomed(p)
      /\ \A w : Heard(w) <=> Recorded(w)
      /\ rm = <<>>
  BY NothingLeaves DEF Sound, Phases
<1>2. /\ Reading' /\ \A e : PathOf(e)' = PathOf(e)
      /\ \A w : Recorded(w)' <=> Recorded(w)
      /\ \A d : Followed(d)' <=> Followed(d)
      /\ \A w : Live(w)' <=> Live(w)
  BY DEF Reading, PathOf, Recorded, Followed, Live
<1>3. \A d \in Dirs : Recorded(wd[d]) => paths[wd[d]] = at[d]
  BY <1>1 DEF Sound, Stale
<1>4. \A p \in AllPaths : watches[p] # NoWd => Live(watches[p])
  BY <1>1 DEF Sound, Dead
<1>5. \A e \in ToSet(os) : Recorded(e.wd) =>
        Heard(e.wd)' /\ \E b \in Dirs : wd[b] = e.wd /\ paths[e.wd] = at[b]
  <2> SUFFICES ASSUME NEW e \in ToSet(os), Recorded(e.wd)
               PROVE  Heard(e.wd)' /\ \E b \in Dirs : wd[b] = e.wd /\ paths[e.wd] = at[b]
    OBVIOUS
  <2>1. PICK b \in Dirs : wd[b] = e.wd
    BY <1>1 DEF Sound, Answered, Live
  <2>2. paths[e.wd] = at[b] /\ watches[paths[e.wd]] = e.wd /\ e.wd # NoWd
    BY <1>3, <2>1 DEF Sound, Agree, Recorded
  <2>3. Heard(e.wd)'
    BY <1>2, <2>2 DEF Heard
  <2> QED
    BY <2>1, <2>2, <2>3
<1>6. Coming \subseteq Coming'
  <2>1. Adds \subseteq Adds'
    BY <1>1, <1>5 DEF Adds
  <2>2. Later = {}
    <3>1. ToSet(add) = {} /\ {add[i] : i \in 2 .. Len(add)} = {}
      BY DEF ToSet
    <3> QED
      BY <3>1 DEF Later
  <2> QED
    BY <1>2, <2>1, <2>2 DEF Coming
<1>7. ASSUME NEW c \in Dirs, IsBelow(at[c], Root), Followed(c) PROVE Covered(c)'
  <2>1. CASE ~ Doomed(at[c])'
    BY <1>2, <1>7, <2>1 DEF Covered
  <2>2. CASE Doomed(at[c])'
    <3>1. PICK e \in ToSet(os) : e.kind \in Dropping /\ Recorded(e.wd) /\ IsBelow(at[c], PathOf(e))
      <4>1. ToSet(rm') = {}
        BY <1>1 DEF ToSet
      <4> QED
        BY <1>2, <2>2, <4>1 DEF Doomed, Leaving, Drops
    <3>2. PICK b \in Dirs : wd[b] = e.wd /\ paths[e.wd] = at[b]
      BY <1>5, <3>1
    <3> DEFINE q == PathOf(e)
    <3>3. q = Append(at[b], e.name) /\ q \in UnderRoot
      BY <3>1, <3>2, EventPath DEF Sound
    <3> HIDE DEF UnderRoot, q
    <3>4. Exists(q)
      BY <3>1, <3>3, GoneIsEmpty DEF q
    <3>5. InodeAt(q) \in Dirs /\ at[InodeAt(q)] = q
      BY <3>3, <3>4, FolderUnder DEF Base, InotifyInv
    <3>6. PICK f \in ToSet(os) : f.kind \in Adding /\ f.wd = e.wd /\ f.name = e.name
      BY <1>1, <3>1, <3>2, <3>3, <3>5 DEF Sound, Answered
    <3>7. f \in Adds' /\ PathOf(f)' = q
      BY <1>2, <1>5, <3>1, <3>6 DEF Adds, PathOf, q
    <3>8. q \in Coming'
      BY <3>7 DEF Coming
    <3> QED
      BY <3>1, <3>8 DEF Covered, Expected, q
  <2> QED
    BY <2>1, <2>2
<1>8. AllCovered'
  BY <1>1, <1>6, <1>7 DEF Sound, AllCovered, Covered, Expected
<1>9. Stale' /\ Dead'
  BY <1>2, <1>3, <1>4 DEF Stale, Dead
<1>10. Roomy' /\ Phases' /\ Agree'
  BY <1>1, <1>2 DEF Sound, Roomy, Phases, Agree, Walking
<1>11. InHand' /\ Answered'
  BY <1>2 DEF Sound, InHand, Answered
<1> QED
  BY <1>8, <1>9, <1>10, <1>11 DEF Sound

\* The batch is over when nothing is left to add.
LEMMA BatchEndsSound ==
  ASSUME Base, Good, Sound, BatchEnds
  PROVE  Sound'
<1>1. /\ UNCHANGED <<at, wd, os, half, watches, paths, rm, add, cut>>
      /\ pc = "adding" /\ add = <<>> /\ pc' = "idle"
  BY DEF BatchEnds, kernel, maps, batch
<1>2. ToWalk = {}
  BY <1>1 DEF ToWalk, Walking
<1>3. Begun
  BY <1>1 DEF Begun, Good, Base, InotifyInv, SilentAtFirst, WalksForSomeone, Walking
<1> QED
  BY <1>1, <1>2, <1>3, IdleAgain

\* The walk is over: the user has his answer, or the batch goes on.
LEMMA WalkEndsSound ==
  ASSUME Base, Good, Sound, WalkEnds
  PROVE  Sound'
<1>1. /\ UNCHANGED <<at, wd, nextWd, os, half, watches, paths, rm, walk, open, fresh, cut>>
      /\ pc = "walking" /\ walk = <<>>
      /\ user = "watch?" => user' = "watching" /\ pc' = "idle" /\ add' = add
      /\ user # "watch?" => add' = Tail(add) /\ pc' = "adding" /\ user' = user
  BY DEF WalkEnds, kernel, maps, walker
<1>2. ToWalk = {} /\ Begun
  BY <1>1 DEF ToWalk, Begun, Walking
<1>3. CASE user = "watch?"
  <2>1. add = <<>>
    BY <1>3 DEF Sound, Phases
  <2> QED
    BY <1>1, <1>2, <1>3, <2>1, IdleAgain DEF Walking
<1>4. CASE user # "watch?"
  <2>1. add' = Tail(add) /\ pc' = "adding" /\ user' = user
    BY <1>1, <1>4
  <2>2. add # <<>> /\ add \in Seq(UnderRoot)
    BY <1>1, <1>4 DEF Base, InotifyInv, WalksForSomeone, Walking, AllUnderRoot
  <2>3. Later = {add[i] : i \in 2 .. Len(add)} /\ Later' = ToSet(Tail(add))
    BY <1>1, <2>1 DEF Later, Walking
  <2>4. Later' = Later
    <3> HIDE DEF UnderRoot
    <3> QED
      BY <2>2, <2>3, TailElements
  <2>5. ToWalk' = {}
    BY <2>1 DEF ToWalk, Walking
  <2>6. Adds' = Adds /\ (\A e : PathOf(e)' = PathOf(e)) /\ Leaving' = Leaving
    BY <1>1, <2>1 DEF Adds, Heard, Reading, Recorded, PathOf, Leaving, Drops
  <2>7. Coming' = Coming
    BY <1>1, <1>2, <2>4, <2>5, <2>6 DEF Coming
  <2>8. Agree' /\ Stale' /\ Dead' /\ AllCovered'
    BY <1>1, <1>2, <2>6, <2>7, CoverageKept
  <2>9. Roomy' /\ Phases' /\ InHand'
    BY <1>1, <1>4, <2>1 DEF Sound, Roomy, Phases, InHand, Walking
  <2>10. Answered'
    BY <1>1, <2>1 DEF Sound, Answered, Reading, Recorded, Live
  <2> QED
    BY <2>8, <2>9, <2>10 DEF Sound
<1> QED
  BY <1>3, <1>4

\* The first walk starts with nothing watched yet, from the top.
LEMMA HandleWatchSound ==
  ASSUME Base, Good, Good', Sound, HandleWatch
  PROVE  Sound'
<1>1. Exists(Root)
  <2>1. Top \in Dirs /\ at[Top] = Root
    BY StartAssumption, EmptySeq DEF Top, Dirs, Good, Undisturbed
  <2> QED
    BY <2>1 DEF Exists
<1>2. /\ UNCHANGED <<at, wd, nextWd, os, half, watches, paths, rm, open, fresh, cut, user>>
      /\ pc = "idle" /\ user = "watch?" /\ pc' = "walking" /\ walk' = <<Root>> /\ add' = <<>>
  BY <1>1 DEF HandleWatch, kernel, maps
<1>3. os = <<>> /\ rm = <<>> /\ \A d \in Dirs : wd[d] = NoWd
  BY <1>2 DEF Base, InotifyInv, SilentAtFirst, Sound, Phases
<1>4. ToSet(os) = {} /\ ToSet(rm) = {}
  BY <1>3 DEF ToSet
<1>5. Leaving = {} /\ Leaving' = {}
  BY <1>2, <1>4 DEF Leaving, Drops
<1>6. Agree' /\ Stale' /\ Dead'
  BY <1>2, <1>5, Steady DEF Sound
<1>7. Root \in Coming'
  BY <1>2 DEF Coming, ToWalk, Walking, OnTrack
<1>8. AllCovered'
  BY <1>2, <1>7 DEF AllCovered, Covered, Expected
<1>9. Roomy' /\ Phases'
  BY <1>2, <1>3 DEF Sound, Roomy, Phases
<1>10. InHand' /\ Answered'
  BY <1>2, <1>3, <1>4 DEF InHand, Answered
<1> QED
  BY <1>6, <1>8, <1>9, <1>10 DEF Sound

\* One of the sequences of all elements of a set has them all.
LEMMA AllListed ==
  ASSUME NEW S, IsFiniteSet(S), NEW s \in SetToSeqs(S)
  PROVE  ToSet(s) = S
<1> DEFINE n == Cardinality(S)
<1>1. n \in Nat
  BY FS_CardinalityType
<1>2. s \in [1 .. n -> S] /\ \A i, j \in 1 .. n : i # j => s[i] # s[j]
  BY DEF SetToSeqs
<1>3. IsFiniteSet(1 .. n) /\ Cardinality(1 .. n) = n
  <2> HIDE DEF n
  <2> QED
    BY <1>1, FS_Interval
<1>4. s \in Injection(1 .. n, S)
  BY <1>2 DEF Injection, IsInjective
<1>5. s \in Surjection(1 .. n, S)
  BY <1>3, <1>4, FS_Injection
<1>6. \A x \in S : \E i \in 1 .. n : s[i] = x
  BY <1>5 DEF Surjection
<1>7. DOMAIN s = 1 .. n
  BY <1>2
<1> QED
  BY <1>2, <1>6, <1>7 DEF ToSet

\* The folder about to be watched, if it exists.
LEMMA InSight ==
  ASSUME Base, pc \in {"watching", "recording"}
  PROVE  /\ walk # <<>> /\ walk \in Seq(UnderRoot)
         /\ Head(walk) \in UnderRoot /\ Tail(walk) \in Seq(UnderRoot)
         /\ Exists(Head(walk)) =>
              /\ Head(walk) \in AllPaths /\ InodeAt(Head(walk)) \in Dirs
              /\ at[InodeAt(Head(walk))] = Head(walk)
              /\ WdAt(Head(walk)) = wd[InodeAt(Head(walk))]
<1> DEFINE p == Head(walk)
<1>1. walk # <<>> /\ walk \in Seq(UnderRoot)
  BY DEF Base, InotifyInv, WalksForSomeone, AllUnderRoot
<1> HIDE DEF UnderRoot
<1>2. p \in UnderRoot /\ Tail(walk) \in Seq(UnderRoot)
  BY <1>1, Elements
<1>3. KernelTypes /\ Tree /\ Numbered
  BY DEF Base, InotifyInv
<1> HIDE DEF p
<1>4. ASSUME Exists(p)
      PROVE  /\ p \in AllPaths /\ InodeAt(p) \in Dirs /\ at[InodeAt(p)] = p
             /\ WdAt(p) = wd[InodeAt(p)]
  <2>1. p \in AllPaths /\ InodeAt(p) \in Dirs /\ at[InodeAt(p)] = p
    BY <1>2, <1>3, <1>4, FolderUnder
  <2>2. p # Nowhere
    BY <1>2, UnderIsBelow
  <2> QED
    BY <1>3, <2>1, <2>2, FolderAt
<1> QED
  BY <1>1, <1>2, <1>4 DEF p

\* The four outcomes of inotify_add_watch.  The walk stops where the folder has
\* gone; what it then leaves out is noted.
LEMMA AddWatchSound ==
  ASSUME Base, Good, Good', Sound, AddWatch
  PROVE  Sound'
<1> DEFINE p == Head(walk)
           d == InodeAt(p)
<1>1. /\ UNCHANGED <<at, os, half, watches, paths, rm, open>>
      /\ pc = "watching" /\ rm = <<>> /\ user \in {"watch?", "watching"}
  BY DEF AddWatch, maps, Good, Sound, Phases, Walking, Base, InotifyInv, SilentAtFirst
<1>2. /\ walk # <<>> /\ p \in UnderRoot /\ Tail(walk) \in Seq(UnderRoot)
      /\ Exists(p) => p \in AllPaths /\ d \in Dirs /\ at[d] = p /\ WdAt(p) = wd[d]
  BY <1>1, InSight
<1>3. /\ ~ Reading /\ Leaving = {} /\ \A w : Heard(w) <=> Recorded(w)
  BY <1>1, NothingLeaves DEF Sound, Walking
<1>4. /\ \A c \in Dirs : Recorded(wd[c]) => paths[wd[c]] = at[c]
      /\ \A q \in AllPaths : watches[q] # NoWd => Live(watches[q])
  BY <1>3 DEF Sound, Stale, Dead
<1>5. /\ \A e : PathOf(e)' = PathOf(e)
      /\ \A w : Recorded(w)' <=> Recorded(w)
  BY <1>1 DEF PathOf, Recorded
<1>6. ToWalk \subseteq {p} \cup ToSet(Tail(walk))
  BY DEF ToWalk
<1>7. Begun
  BY <1>1 DEF Begun, Walking
<1> HIDE DEF p, d, UnderRoot
<1>8. CASE WalkAborted(FALSE) /\ UNCHANGED wd /\ ~ Exists(p)
  <2>1. /\ walk' = <<>> /\ cut' = cut \cup ToSet(Tail(walk)) /\ pc' = "adding"
        /\ add' = Tail(add) /\ user' = user /\ user # "watch?"
    BY <1>8 DEF WalkAborted, Good
  <2>2. add # <<>> /\ add \in Seq(UnderRoot)
    BY <1>1, <2>1 DEF Base, InotifyInv, WalksForSomeone, Walking, AllUnderRoot
  <2>3. Later' = Later
    <3>1. Later = {add[i] : i \in 2 .. Len(add)} /\ Later' = ToSet(Tail(add))
      BY <1>1, <2>1 DEF Later, Walking
    <3> QED
      BY <2>2, <3>1, TailElements
  <2>4. ~ Reading' /\ rm' = <<>>
    BY <1>1, <2>1 DEF Reading
  <2>5. Leaving' = {} /\ Adds' = Adds
    <3>1. ToSet(rm) = {} /\ ToSet(rm') = {}
      BY <1>1, <2>4 DEF ToSet
    <3> QED
      BY <1>1, <1>3, <1>5, <2>4, <3>1 DEF Leaving, Drops, Adds, Heard
  <2>6. Coming \subseteq Coming' \cup {p}
    BY <1>1, <1>5, <1>6, <2>1, <2>3, <2>5 DEF Coming
  <2>7. \A q \in Coming : q \in Coming' \/ (q \in UnderRoot /\ ~ Exists(q))
    BY <1>2, <1>8, <2>6
  <2>8. Agree' /\ Stale' /\ Dead' /\ AllCovered'
    BY <1>1, <1>3, <1>7, <1>8, <2>5, <2>7, CoverageKept
  <2>9. Roomy' /\ Phases'
    BY <1>1, <2>1, <2>4 DEF Sound, Roomy, Phases, Walking
  <2>10. InHand'
    BY <1>1, <1>8, <2>1 DEF Sound, InHand
  <2>11. Answered'
    BY <1>1, <1>3, <1>5, <1>8, <2>4 DEF Sound, Answered, Live
  <2> QED
    BY <2>8, <2>9, <2>10, <2>11 DEF Sound
<1>9. ASSUME pc' = "recording", Exists(p), fresh' = wd'[d], wd'[d] # NoWd,
             UNCHANGED <<walk, user, add, cut>>
      PROVE  /\ Coming \subseteq Coming' /\ Leaving' = {} /\ Roomy' /\ Phases'
             /\ \E c \in Dirs : wd'[c] # NoWd /\ fresh' = wd'[c] /\ at'[c] = Head(walk')
  <2>1. ~ Reading' /\ rm' = <<>>
    BY <1>1, <1>9 DEF Reading
  <2>2. ToSet(rm) = {} /\ ToSet(rm') = {}
    BY <1>1, <2>1 DEF ToSet
  <2>3. Leaving' = {} /\ Adds' = Adds
    BY <1>1, <1>3, <1>5, <2>1, <2>2 DEF Leaving, Drops, Adds, Heard
  <2>4. OnTrack => OnTrack'
    <3> SUFFICES ASSUME OnTrack PROVE OnTrack'
      OBVIOUS
    <3>1. at[open] = p /\ open \in Dirs
      BY <1>1 DEF OnTrack, p, Base, Bookkeeping
    <3>2. p # Nowhere
      BY <1>2, UnderIsBelow
    <3>3. open = d
      BY <1>2, <1>9, <3>1, <3>2 DEF Base, Tree, Distinct
    <3> QED
      BY <1>1, <1>9, <3>1, <3>3 DEF OnTrack, p
  <2>5. ToWalk \subseteq ToWalk' /\ Later' = Later
    BY <1>1, <1>2, <1>9, <2>4 DEF ToWalk, Later, Walking
  <2>6. Coming \subseteq Coming'
    BY <1>1, <1>5, <1>9, <2>3, <2>5 DEF Coming
  <2>7. Roomy' /\ Phases'
    BY <1>1, <1>9, <2>1 DEF Sound, Roomy, Phases, Walking
  <2>8. \E c \in Dirs : wd'[c] # NoWd /\ fresh' = wd'[c] /\ at'[c] = Head(walk')
    BY <1>1, <1>2, <1>9 DEF p
  <2> QED
    BY <2>3, <2>6, <2>7, <2>8
<1>10. CASE /\ Exists(p) /\ WdAt(p) # NoWd /\ fresh' = WdAt(p) /\ pc' = "recording"
            /\ UNCHANGED <<wd, walk, user, add, cut>>
  <2>1. fresh' = wd'[d] /\ wd'[d] # NoWd
    BY <1>2, <1>10
  <2>2. /\ Coming \subseteq Coming' /\ Leaving' = {} /\ Roomy' /\ Phases'
        /\ \E c \in Dirs : wd'[c] # NoWd /\ fresh' = wd'[c] /\ at'[c] = Head(walk')
    BY <1>9, <1>10, <2>1
  <2>3. Agree' /\ Stale' /\ Dead' /\ AllCovered'
    BY <1>1, <1>3, <1>7, <1>10, <2>2, CoverageKept
  <2>4. InHand'
    BY <1>1, <1>10, <2>2 DEF Sound, InHand
  <2>5. Answered'
    BY <1>1, <1>3, <1>5, <1>10 DEF Sound, Answered, Live
  <2> QED
    BY <2>2, <2>3, <2>4, <2>5 DEF Sound
<1>11. CASE /\ Exists(p) /\ WdAt(p) = NoWd /\ nextWd \in Wds
            /\ wd' = [wd EXCEPT ![d] = nextWd] /\ fresh' = nextWd /\ pc' = "recording"
            /\ UNCHANGED <<walk, user, add, cut>>
  <2>1. /\ wd \in [Dirs -> Descriptors] /\ wd[d] = NoWd /\ nextWd # NoWd
        /\ wd'[d] = nextWd /\ \A c \in Dirs : c # d => wd'[c] = wd[c]
    BY <1>2, <1>11 DEF Base, InotifyInv, KernelTypes, Wds, NoWd
  <2>2. paths[nextWd] = Nowhere /\ \A e \in ToSet(os) : e.wd # nextWd
    BY <1>11 DEF Base, Numbered
  <2>3. /\ Coming \subseteq Coming' /\ Leaving' = {} /\ Roomy' /\ Phases'
        /\ \E c \in Dirs : wd'[c] # NoWd /\ fresh' = wd'[c] /\ at'[c] = Head(walk')
    BY <1>9, <1>11, <2>1
  <2>4. \A c \in Dirs : Recorded(wd[c])' => c # d /\ wd'[c] = wd[c] /\ Recorded(wd[c])
    BY <1>5, <2>1, <2>2 DEF Recorded
  <2>5. \A w : w # NoWd /\ Live(w) => Live(w)'
    BY <2>1 DEF Live
  <2>6. Agree'
    BY <1>1, <2>4 DEF Sound, Agree
  <2>7. Stale' /\ Dead'
    BY <1>1, <1>4, <2>4, <2>5 DEF Stale, Dead
  <2>8. InHand'
    BY <1>1, <1>11, <2>1, <2>3 DEF Sound, InHand
  <2>9. Answered'
    <3> SUFFICES ASSUME NEW e \in ToSet(os)
                 PROVE  /\ Recorded(e.wd) => Live(e.wd)'
                        /\ \A b, c \in Dirs :
                             e.kind \in Dropping /\ wd'[c] = e.wd /\ at[b] = Append(at[c], e.name) =>
                             \E f \in ToSet(os) : f.kind \in Adding /\ f.wd = e.wd /\ f.name = e.name
      BY <1>1, <1>5 DEF Answered
    <3>1. Recorded(e.wd) => Live(e.wd)'
      BY <1>3, <2>5 DEF Sound, Answered, Recorded
    <3>2. \A c \in Dirs : wd'[c] = e.wd => wd[c] = e.wd
      BY <2>1, <2>2
    <3> QED
      BY <1>3, <3>1, <3>2 DEF Sound, Answered
  <2>10. AllCovered'
    <3>1. \A c \in Dirs : Followed(c) => Followed(c)'
      BY <1>1, <2>1 DEF Followed
    <3>2. \A q : ~ Doomed(q)'
      BY <2>3 DEF Doomed
    <3> QED
      BY <1>1, <1>7, <2>3, <3>1, <3>2 DEF Sound, AllCovered, Covered, Expected
  <2> QED
    BY <2>3, <2>6, <2>7, <2>8, <2>9, <2>10 DEF Sound
<1>12. CASE WalkAborted(TRUE)
  BY <1>1, <1>12 DEF WalkAborted, Good, Undisturbed
<1> QED
  BY <1>8, <1>10, <1>11, <1>12 DEF AddWatch, p, d

\* The watch in hand is recorded where its folder is, and what is in the folder
\* is next, before what the walk had in mind already.
LEMMA RecordWatchSound ==
  ASSUME Base, Sound, RecordWatch
  PROVE  Sound'
<1> DEFINE p == Head(walk)
<1>1. /\ UNCHANGED <<at, wd, nextWd, os, half, rm>> /\ pc = "recording" /\ rm = <<>>
  BY DEF RecordWatch, kernel, Sound, Phases, Walking
<1>2. PICK d \in Dirs : wd[d] # NoWd /\ fresh = wd[d] /\ at[d] = p
  BY <1>1 DEF Sound, InHand
<1>3. Exists(p)
  BY <1>2 DEF Exists
<1>4. /\ walk # <<>> /\ walk \in Seq(UnderRoot) /\ p \in UnderRoot
      /\ Tail(walk) \in Seq(UnderRoot) /\ p \in AllPaths
  BY <1>1, <1>3, InSight
<1>5. PICK below \in SetToSeqs(Listing(p)) : walk' = below \o Tail(walk)
  BY <1>3 DEF RecordWatch
<1>6. /\ watches' = [watches EXCEPT ![p] = fresh] /\ paths' = [paths EXCEPT ![fresh] = p]
      /\ pc' = "walking" /\ UNCHANGED <<user, add, told, cut>>
  BY <1>3 DEF RecordWatch
<1>7. /\ ~ Reading /\ Leaving = {} /\ \A w : Heard(w) <=> Recorded(w)
  BY <1>1, NothingLeaves DEF Sound, Walking
<1>8. /\ \A c \in Dirs : Recorded(wd[c]) => paths[wd[c]] = at[c]
      /\ \A q \in AllPaths : watches[q] # NoWd => Live(watches[q])
  BY <1>7 DEF Sound, Stale, Dead
<1>9. /\ fresh \in Wds /\ p # Nowhere /\ wd \in [Dirs -> Descriptors]
      /\ paths'[fresh] = p /\ (\A w \in Wds : w # fresh => paths'[w] = paths[w])
      /\ watches'[p] = fresh /\ (\A q \in AllPaths : q # p => watches'[q] = watches[q])
      /\ \A c \in Dirs : wd[c] = fresh => c = d
  <2>1. fresh \in Wds /\ p # Nowhere
    BY <1>2, <1>4, UnderIsBelow DEF Base, InotifyInv, KernelTypes, Descriptors
  <2>2. /\ paths'[fresh] = p /\ (\A w \in Wds : w # fresh => paths'[w] = paths[w])
        /\ watches'[p] = fresh /\ (\A q \in AllPaths : q # p => watches'[q] = watches[q])
    BY <1>4, <1>6, <2>1 DEF Base, Bookkeeping
  <2>3. (\A c \in Dirs : wd[c] = fresh => c = d) /\ wd \in [Dirs -> Descriptors]
    BY <1>2 DEF Base, Numbered, InotifyInv, KernelTypes
  <2> QED
    BY <2>1, <2>2, <2>3
<1>10. \A c \in Dirs : c # d => at[c] # p /\ wd[c] # fresh
  BY <1>2, <1>9 DEF Base, Tree, Distinct
<1>11. /\ ~ Reading' /\ Leaving' = {} /\ rm' = <<>>
  <2>1. ~ Reading' /\ rm' = <<>>
    BY <1>1, <1>6 DEF Reading
  <2>2. ToSet(rm') = {}
    BY <2>1 DEF ToSet
  <2> QED
    BY <2>1, <2>2 DEF Leaving, Drops
<1> HIDE DEF p, UnderRoot
<1>12. /\ \A w \in Wds : Recorded(w)' <=> Recorded(w) \/ w = fresh
       /\ \A c \in Dirs : Recorded(wd[c])' => paths'[wd[c]] = at[c]
       /\ \A w : Live(w)' <=> Live(w)
       /\ \A e \in ToSet(os) : Recorded(e.wd) => PathOf(e)' = PathOf(e) /\ Recorded(e.wd)'
  <2>1. \A w \in Wds : Recorded(w)' <=> Recorded(w) \/ w = fresh
    BY <1>2, <1>9 DEF Recorded
  <2>2. \A c \in Dirs : Recorded(wd[c])' => paths'[wd[c]] = at[c]
    <3> SUFFICES ASSUME NEW c \in Dirs, Recorded(wd[c])' PROVE paths'[wd[c]] = at[c]
      OBVIOUS
    <3>1. wd'[c] = wd[c] /\ wd[c] # NoWd /\ wd[c] \in Wds
      BY <1>1, <1>9 DEF Recorded, Descriptors
    <3>2. CASE c = d
      BY <1>2, <1>9, <3>2
    <3>3. CASE c # d
      <4>1. wd[c] # fresh
        BY <1>10, <3>3
      <4>2. paths'[wd[c]] = paths[wd[c]]
        BY <1>9, <3>1, <4>1
      <4>3. Recorded(wd[c])
        BY <1>1, <3>1, <4>2 DEF Recorded
      <4> QED
        BY <1>8, <4>2, <4>3
    <3> QED
      BY <3>2, <3>3
  <2>3. \A w : Live(w)' <=> Live(w)
    BY <1>1 DEF Live
  <2>4. ASSUME NEW e \in ToSet(os), Recorded(e.wd)
        PROVE  PathOf(e)' = PathOf(e) /\ Recorded(e.wd)'
    <3>1. e.wd \in Wds
      BY DEF Sound, Roomy
    <3>2. paths'[e.wd] = paths[e.wd]
      <4>1. CASE e.wd = fresh
        BY <1>2, <1>8, <1>9, <2>4, <4>1
      <4>2. CASE e.wd # fresh
        BY <1>9, <3>1, <4>2
      <4> QED
        BY <4>1, <4>2
    <3> QED
      BY <2>4, <3>2 DEF PathOf, Recorded
  <2> QED
    BY <2>1, <2>2, <2>3, <2>4
<1>13. Agree'
  <2>1. ASSUME NEW c \in Dirs, Recorded(wd[c])' PROVE watches'[paths'[wd[c]]] = wd[c]
    <3>1. CASE c = d
      BY <1>2, <1>9, <3>1
    <3>2. CASE c # d
      <4>1. wd[c] \in Wds /\ Recorded(wd[c]) /\ paths'[wd[c]] = at[c] /\ at[c] # p
        BY <1>1, <1>9, <1>10, <1>12, <2>1, <3>2 DEF Recorded, Descriptors
      <4>2. paths[wd[c]] = at[c] /\ watches[at[c]] = wd[c]
        BY <1>8, <4>1 DEF Sound, Agree
      <4>3. at[c] \in AllPaths
        BY <4>1, <4>2 DEF Recorded, Base, InotifyInv, KernelTypes
      <4> QED
        BY <1>9, <4>1, <4>2, <4>3
    <3> QED
      BY <3>1, <3>2
  <2>2. ASSUME NEW q \in AllPaths, watches'[q] # NoWd PROVE paths'[watches'[q]] = q
    <3>1. CASE q = p
      BY <1>9, <3>1
    <3>2. CASE q # p
      <4>1. watches'[q] = watches[q] /\ paths[watches[q]] = q /\ watches[q] \in Wds
        BY <1>9, <2>2, <3>2 DEF Sound, Agree, Base, Bookkeeping, Descriptors
      <4>2. watches[q] # fresh
        <5>1. q # Nowhere
          BY PathForms
        <5> QED
          BY <1>2, <1>8, <3>2, <4>1, <5>1 DEF Recorded
      <4> QED
        BY <1>9, <4>1, <4>2
    <3> QED
      BY <3>1, <3>2
  <2> QED
    BY <1>1, <2>1, <2>2 DEF Agree
<1>14. InHand'
  <2>1. ASSUME NEW c \in Dirs, wd[c] # NoWd, paths'[wd[c]] = Nowhere PROVE FALSE
    <3>1. wd[c] # fresh /\ wd[c] \in Wds
      BY <1>9, <2>1 DEF Descriptors
    <3>2. paths[wd[c]] = Nowhere
      BY <1>9, <2>1, <3>1
    <3> QED
      BY <2>1, <3>1, <3>2 DEF Sound, InHand
  <2> QED
    BY <1>1, <1>6, <2>1 DEF InHand
<1>15. Stale' /\ Dead'
  <2>1. Stale'
    BY <1>1, <1>12 DEF Stale
  <2>2. \A q \in AllPaths : watches'[q] # NoWd => Live(watches'[q])
    <3> SUFFICES ASSUME NEW q \in AllPaths, watches'[q] # NoWd PROVE Live(watches'[q])
      OBVIOUS
    <3>1. CASE q = p
      BY <1>2, <1>9, <3>1 DEF Live
    <3>2. CASE q # p
      BY <1>8, <1>9, <3>2
    <3> QED
      BY <3>1, <3>2
  <2>3. \A q \in AllPaths : watches'[q] # NoWd => Live(watches[q])'
    BY <1>1, <2>2 DEF Live
  <2> QED
    BY <2>1, <2>3 DEF Dead
<1>16. Answered'
  <2>1. \A e \in ToSet(os) : Recorded(e.wd)' => Live(e.wd)'
    <3> SUFFICES ASSUME NEW e \in ToSet(os), Recorded(e.wd)' PROVE Live(e.wd)
      BY <1>12
    <3>1. e.wd \in Wds
      BY DEF Sound, Roomy
    <3>2. Recorded(e.wd) \/ e.wd = fresh
      BY <1>12, <3>1
    <3> QED
      BY <1>2, <1>7, <3>2 DEF Sound, Answered, Live
  <2> QED
    BY <1>1, <1>7, <2>1 DEF Sound, Answered
<1>17. ToWalk' = ToSet(below) \cup ToSet(Tail(walk)) /\ ToSet(below) = Listing(p)
  <2>1. below \in Seq(UnderRoot) /\ IsFiniteSet(Listing(p))
    BY <1>4, ListingUnder DEF Base, InotifyInv
  <2>2. walk' \in Seq(UnderRoot) /\ ToSet(walk') = ToSet(below) \cup ToSet(Tail(walk))
    <3> DEFINE t == Tail(walk)
    <3>1. t \in Seq(UnderRoot) /\ walk' = below \o t
      BY <1>4, <1>5
    <3> HIDE DEF t
    <3>2. ToSet(below \o t) = ToSet(below) \cup ToSet(t)
      BY <2>1, <3>1, Elements
    <3>3. below \o t \in Seq(UnderRoot)
      BY <2>1, <3>1
    <3> QED
      BY <3>1, <3>2, <3>3 DEF t
  <2>3. ToWalk' = ToSet(walk')
    <3>1. CASE walk' = <<>>
      BY <3>1 DEF ToWalk, ToSet
    <3>2. CASE walk' # <<>>
      <4>1. ToSet(walk') = {Head(walk')} \cup ToSet(Tail(walk'))
        BY <2>2, <3>2, Elements
      <4>2. OnTrack'
        BY <1>6 DEF OnTrack
      <4> QED
        BY <1>6, <3>2, <4>1, <4>2 DEF ToWalk, Walking
    <3> QED
      BY <3>1, <3>2
  <2>4. ToSet(below) = Listing(p)
    BY <2>1, AllListed
  <2> QED
    BY <2>2, <2>3, <2>4
<1>18. Coming \subseteq Coming' \cup (IF OnTrack THEN {p} ELSE {})
  <2>1. ToWalk \subseteq ToWalk' \cup (IF OnTrack THEN {p} ELSE {})
    BY <1>1, <1>4, <1>17 DEF ToWalk, p
  <2>2. Later' = Later
    BY <1>1, <1>6 DEF Later, Walking
  <2>3. {PathOf(e) : e \in Adds} \subseteq {PathOf(e) : e \in Adds}'
    <3>1. \A w : Recorded(w)' => Heard(w)'
      BY <1>11 DEF Leaving, Heard
    <3>2. \A e \in Adds : e \in Adds' /\ PathOf(e)' = PathOf(e)
      BY <1>1, <1>7, <1>12, <3>1 DEF Adds
    <3> QED
      BY <3>2
  <2> QED
    BY <1>1, <1>6, <2>1, <2>2, <2>3 DEF Coming
<1>19. ASSUME NEW c \in Dirs, IsBelow(at[c], Root), Covered(c) PROVE Covered(c)'
  <2>1. CASE c = d
    <3>1. Followed(c)'
      BY <1>1, <1>2, <1>9, <2>1 DEF Followed
    <3> QED
      BY <1>11, <3>1 DEF Covered, Doomed
  <2>2. CASE c # d /\ Followed(c)
    <3>1. at[c] \in AllPaths /\ wd[c] \in Wds
      BY <1>9, <1>19, <2>2, IsSomewhere, Roots DEF Followed, Descriptors
    <3>2. Followed(c)'
      BY <1>1, <1>9, <1>10, <2>2, <3>1 DEF Followed
    <3> QED
      BY <1>11, <3>2 DEF Covered, Doomed
  <2>3. CASE c # d /\ ~ Followed(c)
    <3>1. PICK q \in Coming : IsBelow(at[c], q)
      BY <1>19, <2>3 DEF Covered, Expected
    <3>2. CASE q \in Coming'
      BY <1>1, <3>1, <3>2 DEF Covered, Expected
    <3>3. CASE OnTrack /\ q = p
      <4>1. at[open] = p /\ at[c] # p /\ IsBelow(at[c], p)
        BY <1>1, <1>10, <2>3, <3>1, <3>3 DEF OnTrack, p
      <4>2. p \in Trails /\ at[c] \in Trails /\ at[c] # Nowhere
        BY <1>4, <1>19, IsSomewhere, PathForms, Roots
      <4>3. PICK n \in Tokens : IsBelow(at[c], Append(p, n))
        BY <4>1, <4>2, NextBelow
      <4> DEFINE b == Append(p, n)
      <4>4. b \in UnderRoot
        BY <1>4, AppendStaysUnder
      <4>5. Exists(b)
        BY <4>3, <4>4, GoneIsEmpty
      <4> HIDE DEF b
      <4>6. PICK i \in Dirs : at[i] = b
        BY <4>4, <4>5, FolderUnder DEF Base, InotifyInv
      <4>7. Parent(b) = p /\ Last(b) = n /\ b # Nowhere
        BY <4>2, Entries DEF b
      <4>8. b \in Listing(p)
        <5>1. at[open] # Nowhere /\ at[i] # Nowhere /\ Parent(at[i]) = at[open]
          BY <1>9, <4>1, <4>6, <4>7
        <5>2. Append(p, Last(at[i])) = b
          BY <4>6, <4>7 DEF b
        <5> QED
          BY <5>1, <5>2 DEF Listing
      <4>9. b \in Coming'
        BY <1>17, <4>8 DEF Coming
      <4> QED
        BY <1>1, <4>3, <4>9 DEF Covered, Expected, b
    <3> QED
      BY <1>18, <3>1, <3>2, <3>3
  <2> QED
    BY <2>1, <2>2, <2>3
<1>20. AllCovered'
  BY <1>1, <1>19 DEF Sound, AllCovered, Begun, Walking
<1>21. Roomy' /\ Phases'
  BY <1>1, <1>6, <1>11 DEF Sound, Roomy, Phases, Walking
<1> QED
  BY <1>13, <1>14, <1>15, <1>16, <1>20, <1>21 DEF Sound

\* A removal takes everything that is recorded within a path, or finds nothing.
LEMMA RemoveNextSound ==
  ASSUME Base, Base', Good, Good', Sound, RemoveNext
  PROVE  Sound'
<1> DEFINE s == Head(rm)
           own == watches[s]
<1>1. /\ UNCHANGED <<at, nextWd, os, half, user, pc, add, walk, open, fresh, cut>>
      /\ pc = "removing" /\ rm # <<>> /\ rm' = Tail(rm)
  BY DEF RemoveNext, walker
<1>2. PICK ok \in BOOLEAN : RemoveWatch(s, ok)
  BY DEF RemoveNext
<1>3. /\ rm \in Seq(AllPaths) /\ s \in AllPaths /\ ToSet(rm) = {s} \cup ToSet(rm')
      /\ wd \in [Dirs -> Descriptors] /\ paths \in [Wds -> AllPaths \cup {Nowhere}]
      /\ watches \in [AllPaths -> Descriptors]
  <2>1. rm \in Seq(AllPaths)
    BY DEF Base, Bookkeeping
  <2>2. s \in AllPaths /\ ToSet(rm) = {s} \cup ToSet(rm')
    BY <1>1, <2>1, Elements
  <2> QED
    BY <2>1, <2>2 DEF Base, Bookkeeping, InotifyInv, KernelTypes
<1>4. ~ Reading /\ ~ Reading' /\ Begun /\ user = "watching"
  BY <1>1 DEF Reading, Begun, Good, Base, InotifyInv, SilentAtFirst, WalksForSomeone, Walking
<1>5. Leaving = ToSet(rm) /\ Leaving' = ToSet(rm')
  BY <1>4 DEF Leaving, Drops
<1> HIDE DEF s
<1>6. s \in Leaving /\ Leaving = {s} \cup Leaving'
  BY <1>3, <1>5
<1>7. /\ \A w \in Wds : Recorded(w) <=> paths[w] \in AllPaths
      /\ \A d \in Dirs : wd[d] # NoWd => wd[d] \in Wds
      /\ \A q \in AllPaths : watches[q] # NoWd => watches[q] \in Wds /\ Recorded(watches[q])
      /\ NoWd \notin Wds
  <2>1. \A w \in Wds : Recorded(w) <=> paths[w] \in AllPaths
    <3>1. NoWd \notin Wds
      BY DEF Wds, NoWd
    <3>2. Nowhere \notin AllPaths
      BY PathForms
    <3> QED
      BY <1>3, <3>1, <3>2 DEF Recorded
  <2>2. \A q \in AllPaths : watches[q] # NoWd => watches[q] \in Wds
    BY <1>3 DEF Descriptors
  <2>3. \A q \in AllPaths : watches[q] # NoWd => Recorded(watches[q])
    BY <2>2, PathForms DEF Sound, Agree, Recorded
  <2> QED
    BY <1>3, <2>1, <2>2, <2>3 DEF Descriptors, Wds, NoWd
<1>8. \A p \in AllPaths : p \in Trails
  BY PathForms
<1>9. Roomy' /\ Phases'
  BY <1>1, <1>4 DEF Sound, Roomy, Phases, Walking
<1>10. ASSUME \A w \in Wds : Recorded(w) /\ ~ IsBelow(paths[w], s) => paths'[w] = paths[w]
       PROVE  Coming \subseteq Coming'
  <2>1. \A e \in Adds : e \in Adds' /\ PathOf(e)' = PathOf(e)
    <3> SUFFICES ASSUME NEW e \in Adds PROVE e \in Adds' /\ PathOf(e)' = PathOf(e)
      OBVIOUS
    <3>1. e \in ToSet(os) /\ e.kind \in Adding /\ Recorded(e.wd) /\ e.wd \in Wds
          /\ \A q \in ToSet(rm) : ~ IsBelow(paths[e.wd], q)
      BY <1>4 DEF Adds, Heard, Sound, Roomy
    <3>2. paths'[e.wd] = paths[e.wd]
      BY <1>3, <1>10, <3>1
    <3>3. Heard(e.wd)'
      BY <1>3, <1>4, <3>1, <3>2 DEF Heard, Recorded
    <3> QED
      BY <1>1, <3>1, <3>2, <3>3 DEF Adds, PathOf
  <2>2. Later' = Later /\ ToWalk = {}
    BY <1>1 DEF Later, ToWalk, Walking
  <2> QED
    BY <1>1, <2>1, <2>2 DEF Coming
<1>11. CASE own = NoWd /\ UNCHANGED <<wd, maps>>
  <2>1. UNCHANGED <<wd, watches, paths>>
    BY <1>11 DEF maps
  <2>2. Leaving' \subseteq Leaving /\ \A q \in Leaving : Has(q) => q \in Leaving'
    BY <1>6, <1>11 DEF Has
  <2>3. Agree' /\ Stale' /\ Dead' /\ \A d \in Dirs : Followed(d) /\ ~ Doomed(at[d]) => Covered(d)'
    BY <1>1, <2>1, <2>2, Steady DEF Sound
  <2>4. Coming \subseteq Coming'
    BY <1>10, <2>1
  <2>5. AllCovered'
    BY <1>1, <1>4, <2>3, <2>4 DEF Sound, AllCovered, Covered, Expected
  <2>6. InHand' /\ Answered'
    BY <1>1, <1>4, <2>1 DEF Sound, InHand, Answered, Recorded, Live
  <2> QED
    BY <1>9, <2>3, <2>5, <2>6 DEF Sound
<1>12. CASE own # NoWd /\ ~ Live(own) /\ Forgetting(s, {}, {}, {})
  <2>1. wd' = wd /\ paths' = paths
        /\ \A q \in AllPaths : watches'[q] = IF q = s THEN NoWd ELSE watches[q]
    BY <1>3, <1>12 DEF Forgetting
  <2>2. \A d \in Dirs : Recorded(wd[d]) => ~ IsBelow(paths[wd[d]], s)
    BY <1>3, <1>12 DEF Sound, Dead
  <2>3. /\ \A w : Recorded(w)' <=> Recorded(w)
        /\ \A w : Live(w)' <=> Live(w)
    BY <2>1 DEF Recorded, Live
  <2>4. \A d \in Dirs : Recorded(wd[d]) =>
          paths[wd[d]] \in AllPaths /\ paths[wd[d]] # s /\ watches'[paths[wd[d]]] = watches[paths[wd[d]]]
    <3> SUFFICES ASSUME NEW d \in Dirs, Recorded(wd[d])
                 PROVE  paths[wd[d]] \in AllPaths /\ paths[wd[d]] # s
                        /\ watches'[paths[wd[d]]] = watches[paths[wd[d]]]
      OBVIOUS
    <3>1. paths[wd[d]] \in AllPaths
      BY <1>7 DEF Recorded
    <3>2. paths[wd[d]] # s
      BY <1>3, <1>8, <2>2, BelowOrder
    <3> QED
      BY <2>1, <3>1, <3>2
  <2>5. Agree'
    <3>1. \A q \in AllPaths : watches'[q] # NoWd => paths[watches'[q]] = q
      BY <2>1 DEF Sound, Agree
    <3>2. \A d \in Dirs : Recorded(wd[d]) => watches'[paths[wd[d]]] = wd[d]
      BY <2>4 DEF Sound, Agree
    <3> QED
      BY <2>1, <2>3, <3>1, <3>2 DEF Agree
  <2>6. Stale'
    <3> SUFFICES ASSUME NEW d \in Dirs, Recorded(wd[d]), paths[wd[d]] # at[d]
                 PROVE  \E r \in Leaving' : Has(r)' /\ IsBelow(paths[wd[d]], r)
      BY <1>1, <2>1, <2>3 DEF Stale
    <3>1. PICK r \in Leaving : Has(r) /\ IsBelow(paths[wd[d]], r)
      BY DEF Sound, Stale
    <3>2. r # s
      BY <2>2, <3>1
    <3> QED
      BY <1>6, <2>1, <3>1, <3>2 DEF Has
  <2>7. Dead'
    <3> SUFFICES ASSUME NEW q \in AllPaths, watches'[q] # NoWd, ~ Live(watches'[q])
                 PROVE  /\ q \in Leaving'
                        /\ \A d \in Dirs : Recorded(wd[d]) => ~ IsBelow(paths[wd[d]], q)
      BY <2>1 DEF Dead, Live, Recorded
    <3>1. q # s /\ watches'[q] = watches[q]
      BY <2>1
    <3> QED
      BY <1>6, <3>1 DEF Sound, Dead
  <2>8. AllCovered'
    <3>1. Coming \subseteq Coming'
      BY <1>10, <2>1
    <3>2. \A d \in Dirs : Followed(d) => Followed(d)'
      <4> SUFFICES ASSUME NEW d \in Dirs, Followed(d) PROVE Followed(d)'
        OBVIOUS
      <4>1. Recorded(wd[d])
        BY FollowedAt
      <4> QED
        BY <1>1, <2>1, <2>4, <4>1 DEF Followed
    <3>3. \A q : ~ Doomed(q) => ~ Doomed(q)'
      BY <1>6 DEF Doomed
    <3> QED
      BY <1>1, <1>4, <3>1, <3>2, <3>3 DEF Sound, AllCovered, Covered, Expected
  <2>9. InHand' /\ Answered'
    BY <1>1, <1>4, <2>1, <2>3 DEF Sound, InHand, Answered
  <2> QED
    BY <1>9, <2>5, <2>6, <2>7, <2>8, <2>9 DEF Sound
<1>13. CASE /\ own # NoWd /\ Live(own)
            /\ Forgetting(s, {own} \cup (Within(s) \ {own}), Within(s) \ {own},
                          {own} \cup (Within(s) \ {own}))
  <2> DEFINE rest == Within(s) \ {own}
  <2>1. own \in Wds /\ paths[own] = s /\ own \in Within(s) /\ {own} \cup rest = Within(s)
    <3>1. own \in Wds /\ paths[own] = s
      BY <1>3, <1>7, <1>13 DEF Sound, Agree
    <3>2. own \in Within(s)
      BY <1>3, <1>8, <3>1, PathForms, BelowOrder DEF Within
    <3> QED
      BY <3>1, <3>2
  <2>2. /\ \A d \in Dirs : wd'[d] = IF wd[d] \in Within(s) THEN NoWd ELSE wd[d]
        /\ \A w \in Wds : paths'[w] = IF w \in Within(s) THEN Nowhere ELSE paths[w]
        /\ \A q \in AllPaths :
             watches'[q] = IF q = s \/ \E w \in rest : paths[w] = q THEN NoWd ELSE watches[q]
    BY <1>13, <2>1 DEF Forgetting
  <2>3. \A w : w \in Within(s) <=> w \in Wds /\ Recorded(w) /\ IsBelow(paths[w], s)
    BY <1>7 DEF Within, Recorded
  <2>4. \A q \in AllPaths : ~ IsBelow(q, s) => watches'[q] = watches[q]
    <3>1. IsBelow(s, s)
      BY <1>3, <1>8, BelowOrder
    <3> QED
      BY <2>2, <2>3, <3>1
  <2>5. \A q \in AllPaths : watches'[q] # NoWd => ~ IsBelow(q, s) /\ watches'[q] = watches[q]
    <3> SUFFICES ASSUME NEW q \in AllPaths, watches'[q] # NoWd
                 PROVE  ~ IsBelow(q, s) /\ watches'[q] = watches[q]
      OBVIOUS
    <3>1. q # s /\ ~ (\E w \in rest : paths[w] = q) /\ watches'[q] = watches[q]
      BY <2>2
    <3>2. watches[q] \in Wds /\ Recorded(watches[q]) /\ paths[watches[q]] = q
      BY <1>7, <3>1 DEF Sound, Agree
    <3>3. watches[q] # own
      BY <2>1, <3>1, <3>2
    <3>4. watches[q] \notin Within(s)
      BY <3>1, <3>2, <3>3
    <3> QED
      BY <2>3, <3>1, <3>2, <3>4
  <2> HIDE DEF rest
  <2>6. \A w \in Wds : Recorded(w)' <=> Recorded(w) /\ ~ IsBelow(paths[w], s)
    BY <2>2, <2>3 DEF Recorded
  <2>7. \A w \in Wds : Recorded(w)' => paths'[w] = paths[w]
    BY <2>2 DEF Recorded
  <2>8. ASSUME NEW d \in Dirs, wd'[d] # NoWd
        PROVE  wd'[d] = wd[d] /\ wd[d] \in Wds /\ paths'[wd[d]] = paths[wd[d]]
    BY <1>7, <2>2, <2>8
  <2>9. \A w \in Wds : Recorded(w)' /\ Live(w) => Live(w)'
    <3> SUFFICES ASSUME NEW w \in Wds, Recorded(w)', Live(w) PROVE Live(w)'
      OBVIOUS
    <3>1. PICK d \in Dirs : wd[d] = w
      BY DEF Live
    <3>2. wd'[d] = w
      BY <2>2, <2>3, <2>6, <3>1
    <3> QED
      BY <3>2 DEF Live
  <2>10. \A d \in Dirs : Recorded(wd[d])' =>
           /\ wd'[d] = wd[d] /\ wd[d] \in Wds /\ Recorded(wd[d])
           /\ paths'[wd[d]] = paths[wd[d]] /\ paths[wd[d]] \in AllPaths
           /\ ~ IsBelow(paths[wd[d]], s)
    <3> SUFFICES ASSUME NEW d \in Dirs, wd'[d] # NoWd, paths'[wd'[d]] # Nowhere
                 PROVE  /\ wd'[d] = wd[d] /\ wd[d] \in Wds /\ Recorded(wd[d])
                        /\ paths'[wd[d]] = paths[wd[d]] /\ paths[wd[d]] \in AllPaths
                        /\ ~ IsBelow(paths[wd[d]], s)
      BY DEF Recorded
    <3>1. wd'[d] = wd[d] /\ wd[d] \in Wds /\ paths'[wd[d]] = paths[wd[d]]
      BY <2>8
    <3>2. Recorded(wd[d])
      BY <3>1 DEF Recorded
    <3> QED
      BY <1>7, <2>2, <2>3, <3>1, <3>2
  <2>11. Agree'
    <3>1. \A d \in Dirs : Recorded(wd[d])' => watches'[paths'[wd'[d]]] = wd'[d]
      BY <2>4, <2>10 DEF Sound, Agree
    <3>2. \A q \in AllPaths : watches'[q] # NoWd => paths'[watches'[q]] = q
      <4> SUFFICES ASSUME NEW q \in AllPaths, watches'[q] # NoWd PROVE paths'[watches'[q]] = q
        OBVIOUS
      <4>1. ~ IsBelow(q, s) /\ watches'[q] = watches[q]
        BY <2>5
      <4>2. watches[q] \in Wds /\ paths[watches[q]] = q
        BY <1>7, <4>1 DEF Sound, Agree
      <4> QED
        BY <2>2, <2>3, <4>1, <4>2
    <3> QED
      BY <3>1, <3>2 DEF Agree
  <2>12. Stale'
    <3> SUFFICES ASSUME NEW d \in Dirs, Recorded(wd[d])', paths'[wd'[d]] # at[d]
                 PROVE  \E r \in Leaving' : Has(r)' /\ IsBelow(paths'[wd'[d]], r)
      BY <1>1 DEF Stale
    <3>1. /\ wd'[d] = wd[d] /\ Recorded(wd[d]) /\ paths'[wd[d]] = paths[wd[d]]
          /\ paths[wd[d]] \in AllPaths /\ ~ IsBelow(paths[wd[d]], s)
      BY <2>10
    <3>2. PICK r \in Leaving : Has(r) /\ IsBelow(paths[wd[d]], r)
      BY <3>1 DEF Sound, Stale
    <3>3. r # s /\ r \in AllPaths
      BY <3>1, <3>2 DEF Has
    <3>4. ~ IsBelow(r, s)
      BY <1>3, <1>8, <3>1, <3>2, <3>3, BelowOrder
    <3>5. watches'[r] = watches[r]
      BY <2>4, <3>3, <3>4
    <3> QED
      BY <1>6, <3>1, <3>2, <3>3, <3>5 DEF Has
  <2>13. Dead'
    <3> SUFFICES ASSUME NEW q \in AllPaths, watches'[q] # NoWd, ~ Live(watches[q])'
                 PROVE  /\ q \in Leaving'
                        /\ \A d \in Dirs : Recorded(wd[d])' => ~ IsBelow(paths'[wd'[d]], q)
      BY DEF Dead
    <3>1. ~ IsBelow(q, s) /\ watches'[q] = watches[q]
      BY <2>5
    <3>2. watches[q] \in Wds /\ Recorded(watches[q]) /\ paths[watches[q]] = q
      BY <1>7, <3>1 DEF Sound, Agree
    <3>3. ~ Live(watches[q])
      <4> DEFINE w == watches[q]
      <4>1. w \in Wds /\ Recorded(w) /\ ~ IsBelow(paths[w], s) /\ w = watches'[q]
        BY <3>1, <3>2
      <4>2. ASSUME NEW v \in Wds, v = watches'[q] PROVE ~ Live(v)'
        BY <4>2 DEF Live
      <4> HIDE DEF w
      <4>3. \A v \in Wds : v = w => (Recorded(v)' /\ ~ Live(v)' )
        BY <2>6, <4>1, <4>2
      <4>4. ~ Live(w)
        BY <2>9, <4>1, <4>3
      <4> QED
        BY <4>4 DEF w
    <3>4. q \in Leaving /\ \A d \in Dirs : Recorded(wd[d]) => ~ IsBelow(paths[wd[d]], q)
      BY <3>1, <3>3 DEF Sound, Dead
    <3>5. q # s
      BY <1>3, <1>8, <3>1, BelowOrder
    <3> QED
      BY <1>6, <2>10, <3>4, <3>5
  <2>14. Answered'
    <3> SUFFICES ASSUME NEW e \in ToSet(os)
                 PROVE  /\ Recorded(e.wd)' => Live(e.wd)'
                        /\ \A c, d \in Dirs :
                             e.kind \in Dropping /\ wd'[d] = e.wd /\ at[c] = Append(at[d], e.name) =>
                               \E f \in ToSet(os) : f.kind \in Adding /\ f.wd = e.wd /\ f.name = e.name
      BY <1>1 DEF Answered
    <3>1. e.wd \in Wds
      BY DEF Sound, Roomy
    <3>2. Recorded(e.wd)' => Live(e.wd)'
      BY <1>4, <2>6, <2>9, <3>1 DEF Sound, Answered
    <3>3. \A d \in Dirs : wd'[d] = e.wd => wd[d] = e.wd
      BY <1>7, <2>2, <3>1
    <3> QED
      BY <1>4, <3>2, <3>3 DEF Sound, Answered
  <2>15. InHand'
    <3>1. ASSUME NEW d \in Dirs, wd'[d] # NoWd, paths'[wd'[d]] = Nowhere PROVE FALSE
      <4>1. wd'[d] = wd[d] /\ paths'[wd[d]] = paths[wd[d]]
        BY <2>8, <3>1
      <4> QED
        BY <1>1, <3>1, <4>1 DEF Sound, InHand
    <3> QED
      BY <1>1, <3>1 DEF InHand
  <2>16. AllCovered'
    <3>1. Coming \subseteq Coming'
      BY <1>10, <2>6, <2>7
    <3>2. ASSUME NEW d \in Dirs, Followed(d), ~ Doomed(at[d])
          PROVE  Followed(d)' /\ ~ Doomed(at[d])'
      <4>1. Recorded(wd[d]) /\ wd[d] \in Wds /\ paths[wd[d]] = at[d] /\ at[d] \in AllPaths
        BY <3>2, FollowedAt
      <4>2. ~ IsBelow(at[d], s)
        BY <1>6, <3>2 DEF Doomed
      <4>3. wd'[d] = wd[d] /\ paths'[wd[d]] = paths[wd[d]] /\ watches'[at[d]] = watches[at[d]]
        BY <2>2, <2>3, <2>4, <4>1, <4>2
      <4>4. ~ Doomed(at[d])'
        BY <1>1, <1>6, <3>2 DEF Doomed
      <4> QED
        BY <1>1, <3>2, <4>3, <4>4 DEF Followed
    <3> QED
      BY <1>1, <1>4, <3>1, <3>2 DEF Sound, AllCovered, Covered, Expected
  <2> QED
    BY <1>9, <2>11, <2>12, <2>13, <2>14, <2>15, <2>16 DEF Sound
<1>14. CASE broken' = TRUE
  BY <1>14 DEF Good, Undisturbed
<1> HIDE DEF own
<1> QED
  BY <1>2, <1>11, <1>12, <1>13, <1>14 DEF RemoveWatch, own

\* A folder appears at p and its parent's watch tells of it.  If the thread does
\* not hear of it through that watch, the folder p is in is yet to be added, and
\* p with it.
LEMMA Announced ==
  ASSUME Base, Good', Sound, NEW p \in AllPaths, NEW kind \in {"create", "moved_to"},
         Parent(p) # Nowhere, Exists(Parent(p)),
         os' = Queued(os, WdAt(Parent(p)), Entry(kind, p)),
         UNCHANGED <<wd, watches, paths, user, pc, rm, add, walk, open, fresh, cut>>,
         half \in {Nowhere, p}, half' = Nowhere,
         \A d \in Dirs : at'[d] = at[d] \/ (at[d] = Nowhere /\ at'[d] = p)
  PROVE  Sound'
<1> DEFINE w == WdAt(Parent(p))
           ev == Entry(kind, p)
           q0 == Parent(p)
<1>1. /\ p \in Trails /\ p # Nowhere /\ Last(p) \in Tokens /\ Last(p) # ""
      /\ q0 \in Trails /\ q0 \in AllPaths /\ p = Append(q0, Last(p))
  BY PathForms
<1>2. /\ os \in Seq(Raised) /\ w \in Descriptors /\ ev \in Raised /\ KernelTypes /\ Tree /\ Numbered
      /\ wd \in [Dirs -> Descriptors]
  BY <1>1, EntryType, DescriptorAt DEF Base, InotifyInv, KernelTypes
<1>3. /\ ev.kind = kind /\ ev.wd = w /\ ev.name = Last(p)
  BY DEF Entry
<1>4. Len(os) <= OsCapacity /\ \A x \in ToSet(os') : x.kind # "overflow"
  BY DEF Sound, Roomy, Good
<1> HIDE DEF w, ev, q0
<1>5. /\ w = NoWd => os' = os
      /\ w # NoWd => ToSet(os') = ToSet(os) \cup {ev} /\ Len(os') <= OsCapacity
  <2>1. os' = Queued(os, w, ev)
    BY DEF w, ev
  <2> QED
    BY <1>2, <1>4, <2>1, GoodQueue
<1>6. w # NoWd => w \in Wds /\ \E d \in Dirs : at[d] = q0 /\ wd[d] = w
  BY <1>2, FolderAt DEF w, q0, Descriptors
<1>7. \A d \in Dirs : at[d] = q0 => w = wd[d]
  <2>1. q0 # Nowhere
    BY DEF q0
  <2> QED
    BY <1>2, <2>1, FolderAt DEF w, q0
<1>8. \A d \in Dirs : wd[d] # NoWd => at'[d] = at[d]
  BY DEF Base, Numbered
<1>9. /\ ToSet(os) \subseteq ToSet(os') /\ ToSet(os') \subseteq ToSet(os) \cup {ev}
      /\ Len(os') <= OsCapacity
  BY <1>4, <1>5
<1>10. /\ \A x : PathOf(x)' = PathOf(x)
       /\ \A v : Recorded(v)' <=> Recorded(v)
       /\ \A v : Live(v)' <=> Live(v)
       /\ \A v : Heard(v)' <=> Heard(v)
       /\ \A q : Has(q)' <=> Has(q)
       /\ Reading' <=> Reading
  BY DEF PathOf, Recorded, Live, Heard, Has, Reading
<1>11. Roomy'
  <2>1. w # NoWd => ev.kind \in Adding /\ ev.name # "" /\ ev.wd \in Wds
    BY <1>1, <1>3, <1>6 DEF Adding
  <2>2. \A x \in ToSet(os') : x \in ToSet(os) \/ (w # NoWd /\ x = ev)
    BY <1>5
  <2> QED
    BY <1>9, <2>1, <2>2 DEF Sound, Roomy
<1>12. Leaving' = Leaving
  <2>1. ev.kind \notin Dropping
    BY <1>3 DEF Dropping
  <2>2. Drops' = Drops
    BY <1>9, <1>10, <2>1 DEF Drops
  <2> QED
    BY <1>10, <2>2 DEF Leaving
<1>13. Phases' /\ Agree'
  BY <1>10 DEF Sound, Phases, Agree, Walking
<1>14. InHand'
  BY <1>8 DEF Sound, InHand
<1>15. Stale' /\ Dead'
  <2>1. Stale'
    BY <1>8, <1>10, <1>12 DEF Sound, Stale, Recorded
  <2>2. Dead'
    BY <1>10, <1>12 DEF Sound, Dead
  <2> QED
    BY <2>1, <2>2
<1>16. Answered'
  <2> SUFFICES ASSUME ~ Reading, NEW x \in ToSet(os')
               PROVE  /\ Recorded(x.wd) => Live(x.wd)
                      /\ \A c, d \in Dirs :
                           x.kind \in Dropping /\ wd[d] = x.wd /\ at'[c] = Append(at'[d], x.name) =>
                             \E f \in ToSet(os') : f.kind \in Adding /\ f.wd = x.wd /\ f.name = x.name
    BY <1>10 DEF Answered
  <2>1. CASE x \in ToSet(os)
    <3>1. Recorded(x.wd) => Live(x.wd)
      BY <2>1 DEF Sound, Answered
    <3>2. ASSUME NEW c \in Dirs, NEW d \in Dirs, x.kind \in Dropping, wd[d] = x.wd,
                 at'[c] = Append(at'[d], x.name)
          PROVE  \E f \in ToSet(os') : f.kind \in Adding /\ f.wd = x.wd /\ f.name = x.name
      <4>1. x.wd \in Wds /\ x.wd # NoWd /\ x.name \in Tokens
        <5>1. x \in Raised
          BY <1>2, <2>1, Elements
        <5>2. x.wd \in Wds
          BY <2>1 DEF Sound, Roomy
        <5> QED
          BY <5>1, <5>2 DEF Raised, Wds, NoWd
      <4>2. at'[d] = at[d]
        BY <1>8, <3>2, <4>1
      <4>3. CASE at'[c] = at[c]
        <5>1. \E f \in ToSet(os) : f.kind \in Adding /\ f.wd = x.wd /\ f.name = x.name
          BY <2>1, <3>2, <4>2, <4>3 DEF Sound, Answered
        <5> QED
          BY <1>9, <5>1
      <4>4. CASE at'[c] = p
        <5>1. at[d] \in Trails
          BY AllTrails DEF Sound
        <5> DEFINE r == at[d]
                   n == x.name
        <5>2. p = Append(r, n) /\ r \in Trails /\ n \in Tokens
          BY <3>2, <4>1, <4>2, <4>4, <5>1
        <5> HIDE DEF r, n
        <5>3. Parent(p) = r /\ Last(p) = n
          BY <5>2, Entries
        <5>4. w = x.wd
          BY <1>7, <3>2, <5>3 DEF r, q0
        <5>5. ev \in ToSet(os')
          BY <1>5, <4>1, <5>4
        <5> QED
          BY <1>3, <5>3, <5>4, <5>5 DEF Adding, n
      <4> QED
        BY <4>3, <4>4
    <3> QED
      BY <3>1, <3>2
  <2>2. CASE x = ev /\ w # NoWd
    BY <1>3, <1>6, <2>2 DEF Dropping, Live
  <2> QED
    BY <1>5, <2>1, <2>2
<1>17. Coming \subseteq Coming' \cup ({half} \ {Nowhere})
  <2>1. OnTrack => OnTrack' \/ walk = <<>> \/ pc \notin Walking
    <3> SUFFICES ASSUME OnTrack, walk # <<>>, pc \in Walking PROVE OnTrack'
      OBVIOUS
    <3>1. CASE pc = "walking"
      BY <3>1 DEF OnTrack
    <3>2. CASE pc # "walking"
      <4>1. Head(walk) \in UnderRoot
        BY Elements DEF Base, InotifyInv, AllUnderRoot
      <4>2. at[open] # Nowhere /\ open \in Dirs
        BY <3>2, <4>1, UnderIsBelow DEF OnTrack, Base, Bookkeeping
      <4>3. at'[open] = at[open]
        BY <4>2
      <4> QED
        BY <4>3 DEF OnTrack
    <3> QED
      BY <3>1, <3>2
  <2>2. Later' = Later /\ ToWalk \subseteq ToWalk'
    BY <2>1 DEF Later, ToWalk, Walking
  <2>3. Adds \subseteq Adds'
    BY <1>9, <1>10 DEF Adds
  <2> QED
    BY <1>10, <2>2, <2>3 DEF Coming
<1>18. ASSUME Begun, IsBelow(p, Root) PROVE \E q \in Coming' : q \in Trails /\ IsBelow(p, q)
  <2>1. IsBelow(q0, Root) /\ ~ IsBelow(q0, p)
    <3> DEFINE n == Last(p)
    <3>1. p # Root
      BY Roots
    <3>2. p = Append(q0, n) /\ q0 \in Trails /\ n \in Tokens
      BY <1>1
    <3> HIDE DEF n
    <3> QED
      BY <1>18, <3>1, <3>2, Entries, Roots
  <2>2. IsBelow(p, q0)
    <3> DEFINE n == Last(p)
    <3>1. p = Append(q0, n) /\ q0 \in Trails /\ n \in Tokens
      BY <1>1
    <3> HIDE DEF n
    <3> QED
      BY <3>1, Entries
  <2>3. q0 \in UnderRoot
    BY <1>1, <2>1, Roots
  <2>4. PICK e \in Dirs : at[e] = q0
    BY <1>2, <2>3, FolderUnder DEF q0
  <2>5. Covered(e)
    BY <1>18, <2>1, <2>4 DEF Sound, AllCovered
  <2>6. CASE Followed(e) /\ ~ Doomed(at[e])
    <3>1. w = wd[e] /\ w # NoWd /\ paths[w] = q0 /\ watches[q0] = w
      BY <1>7, <2>4, <2>6 DEF Followed
    <3>2. ev \in ToSet(os')
      BY <1>5, <3>1
    <3>3. \A q \in ToSet(rm) : ~ IsBelow(q0, q)
      BY <2>4, <2>6 DEF Doomed, Leaving
    <3>4. Heard(w)
      BY <1>1, <3>1, <3>3 DEF Heard, Recorded, q0
    <3>5. ev \in Adds'
      BY <1>3, <1>10, <3>2, <3>4 DEF Adds, Adding
    <3>6. PathOf(ev) = p
      BY <1>1, <1>3, <3>1 DEF PathOf, q0
    <3>7. p \in Coming'
      BY <1>10, <3>5, <3>6 DEF Coming
    <3> QED
      BY <1>1, <3>7, BelowOrder
  <2>7. CASE Expected(at[e])
    <3>1. PICK q \in Coming : IsBelow(q0, q)
      BY <2>4, <2>7 DEF Expected
    <3>2. q \in Coming'
      BY <1>17, <2>1, <3>1
    <3>3. q \in Trails
      BY AllTrails DEF Sound
    <3>4. IsBelow(p, q)
      BY <1>1, <2>2, <3>1, <3>3, BelowOrder
    <3> QED
      BY <3>2, <3>3, <3>4
  <2> QED
    BY <2>5, <2>6, <2>7 DEF Covered
<1>19. AllCovered'
  <2> SUFFICES ASSUME Begun, NEW d \in Dirs, IsBelow(at'[d], Root) PROVE Covered(d)'
    BY DEF AllCovered, Begun, Walking
  <2>1. CASE at'[d] = at[d]
    <3>1. CASE Followed(d) /\ ~ Doomed(at[d])
      BY <1>12, <2>1, <3>1 DEF Covered, Followed, Doomed
    <3>2. CASE Expected(at[d])
      <4>1. PICK q \in Coming : IsBelow(at[d], q)
        BY <3>2 DEF Expected
      <4>2. CASE q \in Coming'
        BY <2>1, <4>1, <4>2 DEF Covered, Expected
      <4>3. CASE q = p
        <5>1. at[d] \in Trails /\ Root \in Trails /\ Root # Nowhere /\ Root \in AllPaths
          BY AllTrails, Roots DEF Sound
        <5>2. IsBelow(p, Root) \/ IsBelow(Root, p)
          BY <1>1, <2>1, <4>1, <4>3, <5>1, BelowOrder
        <5>3. IsBelow(p, Root)
          BY <1>1, <5>1, <5>2, RootsAreTops, BelowOrder
        <5>4. PICK r \in Coming' : r \in Trails /\ IsBelow(p, r)
          BY <1>18, <5>3
        <5>5. IsBelow(at[d], r)
          BY <1>1, <4>1, <4>3, <5>1, <5>4, BelowOrder
        <5> QED
          BY <2>1, <5>4, <5>5 DEF Covered, Expected
      <4> QED
        BY <1>17, <4>1, <4>2, <4>3
    <3> QED
      BY <2>1, <3>1, <3>2 DEF Sound, AllCovered, Covered
  <2>2. CASE at'[d] = p
    BY <1>18, <2>2 DEF Covered, Expected
  <2> QED
    BY <2>1, <2>2
<1> QED
  BY <1>11, <1>13, <1>14, <1>15, <1>16, <1>19 DEF Sound

\* A folder is made, and its parent's watch tells of it at once.
LEMMA MkdirSound ==
  ASSUME Base, Good', Sound, NEW d \in Dirs, NEW p \in AllPaths, Mkdir(d, p),
         UNCHANGED <<user, pc, maps, batch, walker, told, cut>>
  PROVE  Sound'
<1>1. /\ at' = [at EXCEPT ![d] = p] /\ at[d] = Nowhere /\ Len(p) > 1 /\ Exists(Parent(p))
      /\ os' = Queued(os, WdAt(Parent(p)), Entry("create", p))
      /\ half = Nowhere /\ half' = half /\ UNCHANGED wd
  BY DEF Mkdir, Changing
<1>2. Parent(p) # Nowhere
  BY <1>1, PathForms
<1>3. \A c \in Dirs : at'[c] = at[c] \/ (at[c] = Nowhere /\ at'[c] = p)
  BY <1>1 DEF Base, InotifyInv, KernelTypes
<1>4. UNCHANGED <<watches, paths, user, pc, rm, add, walk, open, fresh, cut>>
  BY DEF maps, batch, walker
<1> QED
  BY <1>1, <1>2, <1>3, <1>4, Announced

\* A rename is over when the watch of the new parent has told of it.
LEMMA RenameEndsSound ==
  ASSUME Base, Good', Sound, RenameEnds
  PROVE  Sound'
<1>1. /\ UNCHANGED <<at, wd, watches, paths, user, pc, rm, add, walk, open, fresh, cut>>
      /\ half # Nowhere /\ half' = Nowhere
      /\ os' = Queued(os, WdAt(Parent(half)), Entry("moved_to", half))
  BY DEF RenameEnds, maps, batch, walker
<1>2. half \in AllPaths /\ Parent(half) # Nowhere /\ Exists(Parent(half))
  BY <1>1 DEF Base, InotifyInv, KernelTypes, Tree, HalfWay
<1> QED
  BY <1>1, <1>2, Announced

\* What the thread takes for the path of a folder that went, when it is not, lies
\* in what it is about to remove anyway.
LEMMA Attributed ==
  ASSUME Base, Sound, NEW x \in AllPaths, NEW ev \in Raised,
         ev.wd = WdAt(Parent(x)), ev.name = Last(x), Recorded(ev.wd),
         NEW c \in Dirs, ~ Doomed(at[c]), IsBelow(at[c], PathOf(ev))
  PROVE  IsBelow(at[c], x)
<1> DEFINE w == ev.wd
<1>1. /\ x \in Trails /\ Last(x) \in Tokens /\ Last(x) # ""
      /\ Parent(x) \in Trails /\ x = Append(Parent(x), Last(x))
  BY PathForms
<1>2. KernelTypes /\ Tree /\ Numbered /\ Roomy /\ w # NoWd
  BY DEF Base, InotifyInv, Sound, Recorded
<1>3. PICK e \in Dirs : at[e] = Parent(x) /\ wd[e] = w
  BY <1>2, FolderAt
<1>4. PathOf(ev) = Append(paths[w], Last(x)) /\ w \in Wds
  BY <1>1 DEF PathOf, Recorded, Raised, Descriptors
<1> HIDE DEF w
<1>5. CASE paths[w] = at[e]
  BY <1>1, <1>3, <1>4, <1>5
<1>6. CASE paths[w] # at[e]
  <2>1. PICK r \in Leaving : IsBelow(paths[w], r)
    BY <1>3, <1>6 DEF Sound, Stale, w
  <2> DEFINE r1 == paths[w]
             n == Last(x)
             y == at[c]
  <2>2. r1 \in Trails /\ n \in Tokens /\ r \in Trails /\ y \in Trails
    BY <1>1, <1>2, <1>4, AllTrails
  <2>3. IsBelow(r1, r) /\ IsBelow(y, Append(r1, n))
    BY <1>4, <2>1
  <2>4. ~ IsBelow(y, r)
    BY <2>1 DEF Doomed
  <2> HIDE DEF r1, n, y
  <2> QED
    BY <2>2, <2>3, <2>4, Entries, BelowOrder
<1> QED
  BY <1>5, <1>6

\* An empty folder goes.  If it was watched, the thread had caught up with it and
\* will remove exactly its entry; if not, nothing that is followed was in it.
LEMMA RmdirSound ==
  ASSUME Base, Good, Good', Sound, NEW d \in Dirs, Rmdir(d),
         UNCHANGED <<user, pc, maps, batch, walker, told, cut>>
  PROVE  Sound'
<1> DEFINE x == at[d]
           w == WdAt(Parent(x))
           ev == Entry("delete", x)
           q0 == Parent(x)
<1>1. /\ KernelTypes /\ Tree /\ Numbered /\ Roomy
      /\ wd \in [Dirs -> Descriptors] /\ os \in Seq(Raised)
      /\ UNCHANGED <<watches, paths, user, pc, rm, add, walk, open, fresh, cut, half>>
  BY DEF Rmdir, maps, batch, walker, Base, InotifyInv, KernelTypes, Sound
<1>2. /\ x # Nowhere /\ x \in AllPaths
      /\ \A c \in Dirs : c # d => ~ IsBelow(at[c], x)
      /\ at'[d] = Nowhere /\ wd'[d] = NoWd
      /\ \A c \in Dirs : c # d => at'[c] = at[c] /\ wd'[c] = wd[c]
  BY <1>1 DEF Rmdir, KernelTypes
<1>3. d # Top
  BY <1>2, Roots DEF Good, Undisturbed
<1>4. /\ os' = Queued(os, w, ev)
      /\ \/ wd[d] = NoWd
         \/ /\ ~ Between /\ Placed(d)
            /\ \A c \in Dirs \ {d} : wd[c] # NoWd => ~ IsBelow(paths[wd[c]], x)
  BY <1>3 DEF Rmdir, Good, Undisturbed
<1>5. /\ x \in Trails /\ Last(x) \in Tokens /\ Last(x) # ""
      /\ q0 \in Trails /\ x = Append(q0, Last(x))
  BY <1>2, PathForms
<1>6. /\ w \in Descriptors /\ ev \in Raised
  BY <1>1, <1>5, EntryType, DescriptorAt
<1>7. /\ ev.kind = "delete" /\ ev.wd = w /\ ev.name = Last(x)
  BY DEF Entry
<1>8. Len(os) <= OsCapacity /\ \A y \in ToSet(os') : y.kind # "overflow"
  BY <1>1 DEF Roomy, Good
<1> HIDE DEF x, w, ev, q0
<1>9. /\ w = NoWd => os' = os
      /\ w # NoWd => ToSet(os') = ToSet(os) \cup {ev} /\ Len(os') <= OsCapacity
  BY <1>1, <1>4, <1>6, <1>8, GoodQueue
<1>10. w # NoWd => w \in Wds /\ q0 # Nowhere /\ \E e \in Dirs : at[e] = q0 /\ wd[e] = w
  BY <1>1, <1>6, FolderAt DEF w, q0, Descriptors
<1>11. \A e \in Dirs : at[e] = q0 /\ q0 # Nowhere => w = wd[e]
  BY <1>1, FolderAt DEF w, q0
<1>12. /\ ToSet(os) \subseteq ToSet(os') /\ Len(os') <= OsCapacity
       /\ \A y \in ToSet(os') : y \in ToSet(os) \/ (w # NoWd /\ y = ev)
  BY <1>8, <1>9
<1>13. /\ \A y : PathOf(y)' = PathOf(y)
       /\ \A v : Recorded(v)' <=> Recorded(v)
       /\ \A v : Heard(v)' <=> Heard(v)
       /\ \A q : Has(q)' <=> Has(q)
       /\ Reading' <=> Reading
  BY <1>1 DEF PathOf, Recorded, Heard, Has, Reading
<1>14. Roomy' /\ Phases'
  <2>1. w # NoWd => ev.kind \in Dropping /\ ev.name # "" /\ ev.wd \in Wds
    BY <1>5, <1>7, <1>10 DEF Dropping
  <2>2. Roomy'
    BY <1>1, <1>12, <2>1 DEF Roomy
  <2> QED
    BY <1>1, <2>2 DEF Sound, Phases, Walking
<1>15. /\ Leaving \subseteq Leaving'
       /\ \A q \in Leaving' : q \in Leaving \/ (w # NoWd /\ Reading /\ Recorded(w) /\ q = PathOf(ev))
       /\ w # NoWd /\ Reading /\ Recorded(w) => PathOf(ev) \in Leaving'
  <2>1. \A y : y \in Drops' <=> y \in ToSet(os') /\ Reading /\ y.kind \in Dropping /\ Recorded(y.wd)
    BY <1>13 DEF Drops
  <2>2. Drops \subseteq Drops'
    BY <1>12, <2>1 DEF Drops
  <2>3. \A y \in Drops' : y \in Drops \/ (w # NoWd /\ Reading /\ Recorded(w) /\ y = ev)
    BY <1>7, <1>12, <2>1 DEF Drops
  <2>4. w # NoWd /\ Reading /\ Recorded(w) => ev \in Drops'
    BY <1>7, <1>9, <2>1 DEF Dropping
  <2>5. Leaving' = ToSet(rm) \cup {PathOf(y) : y \in Drops'}
    BY <1>1, <1>13 DEF Leaving
  <2> QED
    BY <2>2, <2>3, <2>4, <2>5 DEF Leaving
<1>16. Agree'
  <2>1. \A c \in Dirs : Recorded(wd[c])' => wd'[c] = wd[c] /\ Recorded(wd[c])
    BY <1>1, <1>2 DEF Recorded
  <2> QED
    BY <1>1, <2>1 DEF Sound, Agree
<1>17. Stale'
  <2> SUFFICES ASSUME NEW c \in Dirs, wd'[c] # NoWd, paths[wd'[c]] # Nowhere, paths[wd'[c]] # at'[c]
               PROVE  \E r \in Leaving' : Has(r) /\ IsBelow(paths[wd'[c]], r)
    BY <1>1, <1>13 DEF Stale, Recorded
  <2>1. wd'[c] = wd[c] /\ at'[c] = at[c]
    BY <1>2
  <2> QED
    BY <1>15, <2>1 DEF Sound, Stale, Recorded
<1>18. \A q \in Coming : q \in Coming' \/ q = x
  <2>1. ~ OnTrack' /\ OnTrack /\ walk # <<>> => Head(walk) = x
    BY <1>1, <1>2 DEF OnTrack, Base, Bookkeeping, x
  <2>2. Later' = Later /\ \A q \in ToWalk : q \in ToWalk' \/ q = x
    BY <1>1, <2>1 DEF Later, ToWalk, Walking
  <2>3. Adds \subseteq Adds'
    BY <1>12, <1>13 DEF Adds
  <2> QED
    BY <1>1, <1>13, <2>2, <2>3 DEF Coming
<1>19. ASSUME NEW c \in Dirs, c # d, Followed(c), ~ Doomed(at[c]) PROVE Covered(c)'
  <2>1. Followed(c)'
    BY <1>1, <1>2, <1>19 DEF Followed
  <2>2. ASSUME w # NoWd, Reading, Recorded(w), IsBelow(at[c], PathOf(ev)) PROVE FALSE
    BY <1>2, <1>6, <1>7, <1>19, <2>2, Attributed DEF w, x
  <2>3. ~ Doomed(at[c])'
    BY <1>2, <1>15, <1>19, <2>2 DEF Doomed
  <2> QED
    BY <2>1, <2>3 DEF Covered
<1>20. AllCovered'
  <2> SUFFICES ASSUME Begun, NEW c \in Dirs, IsBelow(at'[c], Root) PROVE Covered(c)'
    BY <1>1 DEF AllCovered, Begun, Walking
  <2>1. at'[c] # Nowhere
    BY Roots, BelowOrder
  <2>2. c # d /\ at'[c] = at[c]
    BY <1>2, <2>1
  <2>3. CASE Expected(at[c])
    <3>1. PICK q \in Coming : IsBelow(at[c], q)
      BY <2>3 DEF Expected
    <3>2. q # x
      BY <1>2, <2>2, <3>1
    <3> QED
      BY <1>18, <2>2, <3>1, <3>2 DEF Covered, Expected
  <2> QED
    BY <1>19, <2>2, <2>3 DEF Sound, AllCovered, Covered
<1>21. CASE wd[d] = NoWd
  <2>1. \A c \in Dirs : wd'[c] = wd[c]
    BY <1>2, <1>21
  <2>2. \A v : Live(v)' <=> Live(v)
    BY <2>1 DEF Live
  <2>3. \A c \in Dirs : Recorded(wd[c])' <=> Recorded(wd[c])
    BY <1>1, <2>1 DEF Recorded
  <2>4. InHand'
    <3>1. \A c \in Dirs : wd[c] # NoWd => at'[c] = at[c]
      BY <1>2, <1>21
    <3> QED
      BY <1>1, <2>1, <3>1 DEF Sound, InHand
  <2>5. Dead'
    BY <1>1, <1>15, <2>1, <2>2, <2>3 DEF Sound, Dead
  <2>6. Answered'
    <3> SUFFICES ASSUME ~ Reading, NEW y \in ToSet(os')
                 PROVE  /\ Recorded(y.wd) => Live(y.wd)
                        /\ \A b, c \in Dirs :
                             y.kind \in Dropping /\ wd[b] = y.wd /\ at'[c] = Append(at'[b], y.name) =>
                               \E f \in ToSet(os') : f.kind \in Adding /\ f.wd = y.wd /\ f.name = y.name
      BY <1>13, <2>1, <2>2 DEF Answered
    <3>1. y.wd \in Wds /\ y.name \in Tokens /\ y.wd # NoWd
      <4>1. y \in Raised
        BY <1>1, <1>6, <1>12, Elements
      <4>2. y.wd \in Wds
        BY <1>7, <1>10, <1>12 DEF Sound, Roomy
      <4> QED
        BY <4>1, <4>2 DEF Raised, Wds, NoWd
    <3>2. Recorded(y.wd) => Live(y.wd)
      BY <1>7, <1>10, <1>12 DEF Sound, Answered, Live
    <3>3. ASSUME NEW b \in Dirs, NEW c \in Dirs, y.kind \in Dropping, wd[b] = y.wd,
                 at'[c] = Append(at'[b], y.name)
          PROVE  \E f \in ToSet(os') : f.kind \in Adding /\ f.wd = y.wd /\ f.name = y.name
      <4>1. b # d /\ at'[b] = at[b] /\ at[b] \in Trails
        BY <1>1, <1>2, <1>21, <3>1, <3>3, AllTrails
      <4>2. at'[c] # Nowhere
        <5> DEFINE r == at[b]
                   n == y.name
        <5>1. r \in Trails /\ n \in Tokens /\ at'[c] = Append(r, n)
          BY <3>1, <3>3, <4>1
        <5> HIDE DEF r, n
        <5> QED
          BY <5>1, Entries
      <4>3. c # d /\ at'[c] = at[c]
        BY <1>2, <4>2
      <4>4. CASE y \in ToSet(os)
        <5>1. \E f \in ToSet(os) : f.kind \in Adding /\ f.wd = y.wd /\ f.name = y.name
          BY <3>3, <4>1, <4>3, <4>4 DEF Sound, Answered
        <5> QED
          BY <1>12, <5>1
      <4>5. CASE w # NoWd /\ y = ev
        <5>1. PICK e \in Dirs : at[e] = q0 /\ wd[e] = w
          BY <1>10, <4>5
        <5>2. b = e
          BY <1>1, <1>7, <3>3, <4>5, <5>1 DEF Numbered
        <5>3. at[c] = x
          BY <1>5, <1>7, <3>3, <4>1, <4>3, <4>5, <5>1, <5>2
        <5> QED
          BY <1>1, <1>2, <4>3, <5>3 DEF Tree, Distinct, x
      <4> QED
        BY <1>12, <4>4, <4>5
    <3> QED
      BY <3>2, <3>3
  <2> QED
    BY <1>14, <1>16, <1>17, <1>20, <2>4, <2>5, <2>6 DEF Sound
<1>22. CASE /\ wd[d] # NoWd /\ ~ Between /\ Placed(d)
            /\ \A c \in Dirs \ {d} : wd[c] # NoWd => ~ IsBelow(paths[wd[c]], x)
  <2>1. pc \in {"idle", "reading"} /\ Reading
    BY <1>22 DEF Between, Sound, Phases, Reading
  <2>2. Followed(d)
    BY <1>22 DEF Placed
  <2>3. PICK e \in Dirs : at[e] = q0 /\ Followed(e)
    BY <1>22 DEF Placed, q0, x
  <2>4. Recorded(wd[e]) /\ paths[wd[e]] = q0 /\ q0 # Nowhere
    BY <2>3, FollowedAt, PathForms
  <2>5. w = wd[e] /\ w # NoWd /\ Recorded(w) /\ paths[w] = q0
    BY <1>11, <2>3, <2>4 DEF Recorded
  <2>6. PathOf(ev) = x
    BY <1>5, <1>7, <2>5 DEF PathOf, Recorded
  <2>7. x \in Leaving'
    BY <1>15, <2>1, <2>5, <2>6
  <2>8. InHand'
    <3>1. \A c \in Dirs : wd'[c] # NoWd => wd'[c] = wd[c]
      BY <1>2
    <3> QED
      BY <1>1, <2>1, <3>1 DEF Sound, InHand
  <2>9. \A c \in Dirs : wd'[c] # NoWd => c # d /\ wd'[c] = wd[c] /\ ~ IsBelow(paths[wd'[c]], x)
    BY <1>2, <1>22
  <2>10. Dead'
    <3> SUFFICES ASSUME NEW q \in AllPaths, watches[q] # NoWd,
                        ~ \E c \in Dirs : wd'[c] = watches[q]
                 PROVE  /\ q \in Leaving'
                        /\ \A c \in Dirs : wd'[c] # NoWd /\ Recorded(wd'[c]) =>
                             ~ IsBelow(paths[wd'[c]], q)
      BY <1>1 DEF Dead, Live, Recorded
    <3>1. CASE watches[q] = wd[d]
      <4>1. q = x
        BY <2>2, <3>1 DEF Sound, Agree, Followed, x
      <4> QED
        BY <2>7, <2>9, <4>1
    <3>2. CASE watches[q] # wd[d]
      <4>1. ~ Live(watches[q])
        BY <1>2, <3>2 DEF Live
      <4>2. q \in Leaving /\ \A c \in Dirs : Recorded(wd[c]) => ~ IsBelow(paths[wd[c]], q)
        BY <4>1 DEF Sound, Dead
      <4> QED
        BY <1>15, <2>9, <4>2
    <3> QED
      BY <3>1, <3>2
  <2>11. Answered'
    BY <1>13, <2>1 DEF Answered
  <2> QED
    BY <1>14, <1>16, <1>17, <1>20, <2>8, <2>10, <2>11 DEF Sound
<1> QED
  BY <1>4, <1>21, <1>22

\* A folder is renamed with everything in it.  What was followed there is removed
\* under its old path, and everything is expected under the new one.
LEMMA RenameSound ==
  ASSUME Base, Good, Good', Sound, NEW d \in Dirs, NEW p \in AllPaths, Rename(d, p),
         UNCHANGED <<user, pc, maps, batch, walker, told, cut>>
  PROVE  Sound'
<1> DEFINE x == at[d]
           w == WdAt(Parent(x))
           ev == Entry("moved_from", x)
<1>1. /\ KernelTypes /\ Tree /\ Numbered /\ Roomy /\ os \in Seq(Raised)
      /\ UNCHANGED <<wd, watches, paths, user, pc, rm, add, walk, open, fresh, cut>>
  BY DEF Rename, maps, batch, walker, Base, InotifyInv, KernelTypes, Sound
<1>2. /\ x # Nowhere /\ x \in AllPaths /\ x \in Trails
      /\ p \in Trails /\ p # Nowhere /\ p \notin {Root, Away}
      /\ half = Nowhere /\ half' = p
      /\ \A c \in Dirs : at[c] = Nowhere => at'[c] = Nowhere
      /\ \A c \in Dirs : at[c] # Nowhere => at'[c] = Moved(at[c], x, p)
  <2>1. x # Nowhere /\ x \in AllPaths
    BY <1>1 DEF Rename, KernelTypes
  <2>2. p \notin {Root, Away}
    BY PathForms, Roots DEF Rename
  <2>3. half = Nowhere /\ half' = p
    BY DEF Rename, Changing
  <2>4. /\ \A c \in Dirs : at[c] = Nowhere => at'[c] = Nowhere
        /\ \A c \in Dirs : at[c] # Nowhere => at'[c] = Moved(at[c], x, p)
    BY DEF Rename
  <2> QED
    BY <2>1, <2>2, <2>3, <2>4, PathForms
<1>3. d # Top
  <2>1. at'[Top] = Root /\ at[Top] = Root
    BY DEF Good, Undisturbed
  <2> SUFFICES ASSUME d = Top PROVE FALSE
    OBVIOUS
  <2> DEFINE old == at[d]
  <2>2. Moved(old, old, p) = p
    <3>1. old \in Trails
      BY <1>2
    <3> HIDE DEF old
    <3> QED
      BY <1>2, <3>1, Moving
  <2> QED
    BY <1>2, <2>1, <2>2
<1>4. /\ os' = Queued(os, w, ev) /\ ~ Between
      /\ Placed(d) \/ \A c \in Dirs : ~ (Followed(c) /\ IsBelow(at[c], x))
  BY <1>3 DEF Rename, Good, Undisturbed
<1>5. /\ Last(x) \in Tokens /\ Last(x) # ""
      /\ Parent(x) \in Trails /\ x = Append(Parent(x), Last(x))
      /\ w \in Descriptors /\ ev \in Raised
  BY <1>1, <1>2, PathForms, EntryType, DescriptorAt
<1>6. /\ ev.kind = "moved_from" /\ ev.wd = w /\ ev.name = Last(x)
  BY DEF Entry
<1>7. pc \in {"idle", "reading"} /\ Reading
  BY <1>4 DEF Between, Sound, Phases, Reading
<1> HIDE DEF x, w, ev
<1>8. /\ w = NoWd => os' = os
      /\ w # NoWd => ToSet(os') = ToSet(os) \cup {ev} /\ Len(os') <= OsCapacity
  <2>1. Len(os) <= OsCapacity /\ \A y \in ToSet(os') : y.kind # "overflow"
    BY <1>1 DEF Roomy, Good
  <2> QED
    BY <1>1, <1>4, <1>5, <2>1, GoodQueue
<1>9. w # NoWd => w \in Wds
  BY <1>5 DEF Descriptors
<1>10. /\ \A y : PathOf(y)' = PathOf(y)
       /\ \A v : Recorded(v)' <=> Recorded(v)
       /\ \A v : Live(v)' <=> Live(v)
       /\ \A v : Heard(v)' <=> Heard(v)
       /\ \A q : Has(q)' <=> Has(q)
       /\ Reading'
  BY <1>1, <1>7 DEF PathOf, Recorded, Live, Heard, Has, Reading
<1>11. \A c \in Dirs : ~ IsBelow(at[c], x) => at'[c] = at[c]
  BY <1>2 DEF Moved
<1>12. \A c \in Dirs : IsBelow(at[c], x) => IsBelow(at'[c], p)
  <2> SUFFICES ASSUME NEW c \in Dirs, IsBelow(at[c], x) PROVE IsBelow(at'[c], p)
    OBVIOUS
  <2>1. at[c] \in Trails /\ at[c] # Nowhere
    BY <1>2, IsSomewhere
  <2>2. IsBelow(Moved(at[c], x, p), p)
    BY <1>2, <2>1, Moving
  <2> QED
    BY <1>2, <2>1, <2>2
<1>13. Roomy' /\ Phases'
  <2>1. w # NoWd => ev.kind \in Dropping /\ ev.name # "" /\ ev.wd \in Wds
    BY <1>5, <1>6, <1>9 DEF Dropping
  <2>2. Roomy'
    BY <1>1, <1>8, <2>1 DEF Roomy
  <2> QED
    BY <1>1, <2>2 DEF Sound, Phases, Walking
<1>14. /\ Leaving \subseteq Leaving'
       /\ \A q \in Leaving' : q \in Leaving \/ (w # NoWd /\ Recorded(w) /\ q = PathOf(ev))
       /\ w # NoWd /\ Recorded(w) => PathOf(ev) \in Leaving'
  <2>1. \A y : y \in Drops' <=> y \in ToSet(os') /\ y.kind \in Dropping /\ Recorded(y.wd)
    BY <1>10 DEF Drops
  <2>2. Drops \subseteq Drops'
    BY <1>8, <2>1 DEF Drops
  <2>3. \A y \in Drops' : y \in Drops \/ (w # NoWd /\ Recorded(w) /\ y = ev)
    BY <1>6, <1>7, <1>8, <2>1 DEF Drops
  <2>4. w # NoWd /\ Recorded(w) => ev \in Drops'
    BY <1>6, <1>8, <2>1 DEF Dropping
  <2>5. Leaving' = ToSet(rm) \cup {PathOf(y) : y \in Drops'}
    BY <1>1, <1>10 DEF Leaving
  <2> QED
    BY <2>2, <2>3, <2>4, <2>5 DEF Leaving
<1>15. Coming \subseteq Coming' /\ p \in Coming'
  <2>1. Later' = Later /\ ToWalk = {}
    BY <1>1, <1>7 DEF Later, ToWalk, Walking
  <2>2. Adds \subseteq Adds'
    BY <1>8, <1>10 DEF Adds
  <2> QED
    BY <1>1, <1>2, <1>10, <2>1, <2>2 DEF Coming
<1>16. Agree' /\ InHand' /\ Answered' /\ Dead'
  <2>1. Agree'
    BY <1>1, <1>10 DEF Sound, Agree
  <2>2. InHand'
    BY <1>1, <1>7 DEF Sound, InHand
  <2>3. Dead'
    BY <1>1, <1>10, <1>14 DEF Sound, Dead
  <2> QED
    BY <1>10, <2>1, <2>2, <2>3 DEF Answered
<1>17. Stale'
  <2> SUFFICES ASSUME NEW c \in Dirs, Recorded(wd[c]), paths[wd[c]] # at'[c]
               PROVE  \E r \in Leaving' : Has(r) /\ IsBelow(paths[wd[c]], r)
    BY <1>1, <1>10 DEF Stale
  <2>1. CASE paths[wd[c]] # at[c]
    BY <1>14, <2>1 DEF Sound, Stale
  <2>2. CASE paths[wd[c]] = at[c]
    <3>1. IsBelow(at[c], x)
      BY <1>11, <2>2
    <3>2. Followed(c)
      BY <2>2 DEF Sound, Agree, Recorded, Followed
    <3>3. Placed(d)
      BY <1>4, <3>1, <3>2
    <3>4. watches[x] # NoWd /\ Has(x)
      BY <1>2, <3>3 DEF Placed, Followed, Has, x
    <3>5. PICK e \in Dirs : at[e] = Parent(x) /\ Followed(e)
      BY <3>3 DEF Placed, x
    <3>6. Recorded(wd[e]) /\ paths[wd[e]] = Parent(x) /\ at[e] # Nowhere
      BY <3>5, FollowedAt, PathForms
    <3>7. w = wd[e]
      BY <1>1, <3>5, <3>6, FolderAt DEF w
    <3>8. PathOf(ev) = x
      BY <1>5, <1>6, <3>6, <3>7 DEF PathOf, Recorded
    <3>9. x \in Leaving'
      BY <1>14, <3>6, <3>7, <3>8 DEF Recorded
    <3> QED
      BY <2>2, <3>1, <3>4, <3>9
  <2> QED
    BY <2>1, <2>2
<1>18. AllCovered'
  <2> SUFFICES ASSUME Begun, NEW c \in Dirs, IsBelow(at'[c], Root) PROVE Covered(c)'
    BY <1>1 DEF AllCovered, Begun, Walking
  <2>1. CASE IsBelow(at[c], x)
    BY <1>12, <1>15, <2>1 DEF Covered, Expected
  <2>2. CASE ~ IsBelow(at[c], x)
    <3>1. at'[c] = at[c]
      BY <1>11, <2>2
    <3>2. CASE Expected(at[c])
      BY <1>15, <3>1, <3>2 DEF Covered, Expected
    <3>3. CASE Followed(c) /\ ~ Doomed(at[c])
      <4>1. Followed(c)'
        BY <1>1, <3>1, <3>3 DEF Followed
      <4>2. ~ (w # NoWd /\ Recorded(w) /\ IsBelow(at[c], PathOf(ev)))
        BY <1>2, <1>5, <1>6, <2>2, <3>3, Attributed DEF w
      <4>3. ~ Doomed(at[c])'
        BY <1>14, <3>1, <3>3, <4>2 DEF Doomed
      <4> QED
        BY <4>1, <4>3 DEF Covered
    <3> QED
      BY <3>1, <3>2, <3>3 DEF Sound, AllCovered, Covered
  <2> QED
    BY <2>1, <2>2
<1> QED
  BY <1>13, <1>16, <1>17, <1>18 DEF Sound

-----------------------------------------------------------------------------
(***************************************************************************)
(* The whole.                                                               *)
(***************************************************************************)
\* It holds until something happens that the code does not survive.
FollowInv == Base /\ (Good => Sound)

\* With nothing watched and nothing asked for, all is in order.
LEMMA SoundFirst ==
  ASSUME Init
  PROVE  Sound
<1>1. /\ os = <<>> /\ rm = <<>> /\ add = <<>> /\ pc = "idle" /\ user = "new"
      /\ wd = [d \in Dirs |-> NoWd] /\ watches = [p \in AllPaths |-> NoWd]
  BY DEF Init
<1>2. ToSet(os) = {} /\ Len(os) = 0
  BY <1>1 DEF ToSet
<1>3. Roomy /\ Phases
  <2>1. 0 <= OsCapacity
    BY InotifyAssumption
  <2>2. Roomy
    BY <1>2, <2>1 DEF Roomy
  <2> QED
    BY <1>1, <2>2 DEF Phases, Walking
<1>4. Agree /\ Stale /\ Dead /\ InHand
  BY <1>1 DEF Agree, Stale, Dead, InHand, Recorded
<1>5. Answered /\ AllCovered
  BY <1>1 DEF Answered, Reading, AllCovered, Begun, Walking
<1> QED
  BY <1>3, <1>4, <1>5 DEF Sound

\* The start is a tree, and no descriptor is out.
LEMMA BaseFirst ==
  ASSUME Init
  PROVE  Base
<1>1. InotifyInv
  BY InotifyFirst
<1>2. Tree
  BY TreeAssumption DEF Init, Tree, Distinct, Closed, HalfWay, Exists
<1>3. Bookkeeping
  <2>1. Top \in Dirs /\ <<>> \in Seq(AllPaths)
    BY StartAssumption, EmptySeq DEF Top, Dirs
  <2> QED
    BY <2>1 DEF Init, Bookkeeping, Descriptors
<1>4. Numbered
  <2>1. ToSet(<<>>) = {}
    BY DEF ToSet
  <2> QED
    BY <2>1 DEF Init, Numbered, NoWd
<1> QED
  BY <1>1, <1>2, <1>3, <1>4 DEF Base

\* The types, the tree and the numbers, together.
LEMMA BaseStep ==
  ASSUME Base, [Next]_vars
  PROVE  Base'
BY StepKernelTypes, StepAllUnderRoot, StepWalksForSomeone, StepSilentAtFirst, StepForgotten,
   StepTree, StepBookkeeping, StepNumbered DEF Base, InotifyInv

\* The steps, together.
LEMMA SoundStep ==
  ASSUME Base, Base', Good, Good', Sound, [Next]_vars
  PROVE  Sound'
<1>1. CASE FileSystem
  BY <1>1, MkdirSound, RmdirSound, RenameSound DEF FileSystem
<1>2. CASE RenameEnds \/ Owner
  BY <1>2, RenameEndsSound, OwnerSound
<1>3. CASE BatchBegins \/ ReadEvent \/ BatchRead \/ RemoveNext \/ RemovalsDone
  BY <1>3, BatchBeginsSound, ReadEventSound, BatchReadSound, RemoveNextSound, RemovalsDoneSound
<1>4. CASE AddNext \/ BatchEnds \/ WalkNext \/ AddWatch \/ RecordWatch \/ WalkEnds
  BY <1>4, AddNextSound, BatchEndsSound, WalkNextSound, AddWatchSound, RecordWatchSound,
     WalkEndsSound
<1>5. CASE HandleWatch
  BY <1>5, HandleWatchSound
<1>6. CASE HandleUnwatch \/ HandleShutdown
  BY <1>6 DEF HandleUnwatch, HandleShutdown, Good
<1>7. CASE ReadFails \/ UNCHANGED vars
  <2>1. UNCHANGED <<at, wd, os, half, user, pc, watches, paths, rm, add, walk, open, fresh, cut>>
    BY <1>7 DEF ReadFails, vars, kernel, maps, batch, walker
  <2>2. Leaving' = Leaving /\ Coming' = Coming
    <3>1. /\ Drops' = Drops /\ Adds' = Adds /\ \A e : PathOf(e)' = PathOf(e)
      BY <2>1 DEF Drops, Adds, Heard, Reading, Recorded, PathOf
    <3>2. Later' = Later /\ ToWalk' = ToWalk
      BY <2>1 DEF Later, ToWalk, Walking, OnTrack
    <3> QED
      BY <2>1, <3>1, <3>2 DEF Leaving, Coming
  <2>3. Begun' <=> Begun
    BY <2>1 DEF Begun, Walking
  <2>4. Agree' /\ Stale' /\ Dead' /\ AllCovered'
    BY <2>1, <2>2, <2>3, CoverageKept
  <2>5. Roomy' /\ Phases' /\ InHand'
    BY <2>1 DEF Sound, Roomy, Phases, InHand, Walking
  <2>6. Answered'
    BY <2>1 DEF Sound, Answered, Reading, Recorded, Live
  <2> QED
    BY <2>4, <2>5, <2>6 DEF Sound
<1> QED
  BY <1>1, <1>2, <1>3, <1>4, <1>5, <1>6, <1>7 DEF Next, EventLoop

(***************************************************************************)
(* The watches, the maps and the tree belong together all the time, as long *)
(* as nothing has happened that the code does not survive.                  *)
(***************************************************************************)
THEOREM FollowInvariant == Spec => []FollowInv
PROOF
<1>1. Init => FollowInv
  BY BaseFirst, SoundFirst DEF FollowInv
<1>2. FollowInv /\ [Next]_vars => FollowInv'
  BY BaseStep, GoodBefore, SoundStep DEF FollowInv
<1> QED
  BY <1>1, <1>2, PTL DEF Spec

\* With nothing under way there is nothing to remove, and to add only what an
\* aborted walk left out.
LEMMA QuietFollows ==
  ASSUME FollowInv, Quiet, Undisturbed
  PROVE  SubfoldersFollowed /\ NoStrayWatch
<1>1. pc = "idle" /\ os = <<>> /\ half = Nowhere /\ user = "watching" /\ ToSet(os) = {}
  BY DEF Quiet, ToSet
<1>2. Good
  BY <1>1 DEF Good
<1>3. Base /\ Sound
  BY <1>2 DEF FollowInv
<1>4. rm = <<>> /\ add = <<>>
  BY <1>1, <1>3 DEF Sound, Phases
<1>5. ToSet(rm) = {} /\ ToSet(add) = {}
  BY <1>4 DEF ToSet
<1>6. Leaving = {}
  BY <1>1, <1>5 DEF Leaving, Drops
<1>7. Coming = cut
  BY <1>1, <1>5 DEF Coming, Later, ToWalk, Walking, Adds
<1>8. NoStrayWatch
  BY <1>3, <1>6 DEF NoStrayWatch, Sound, Stale, Recorded
<1>9. SubfoldersFollowed
  BY <1>1, <1>3, <1>7 DEF SubfoldersFollowed, Sound, AllCovered, Begun, Covered, Expected
<1> QED
  BY <1>8, <1>9

\* Once everything is read, each folder below the watched one is followed where
\* it is, or lies where an aborted walk never came to.
THEOREM FoldersAreFollowed == Spec => []SubfoldersFollowed
PROOF
<1>1. FollowInv => SubfoldersFollowed
  BY QuietFollows DEF SubfoldersFollowed
<1> QED
  BY <1>1, FollowInvariant, PTL

\* And no watch is recorded under a path that its folder has left.
THEOREM NoWatchStrays == Spec => []NoStrayWatch
PROOF
<1>1. FollowInv => NoStrayWatch
  BY QuietFollows DEF NoStrayWatch
<1> QED
  BY <1>1, FollowInvariant, PTL
=============================================================================
