------------------------------ MODULE Inotify -------------------------------
(***************************************************************************)
(* The Linux back end of notify-fork (src/notify-fork/src/inotify.rs): one  *)
(* thread that reads the kernel's events, reports them, and keeps a watch   *)
(* on every folder below a recursively watched one, while folders are made, *)
(* removed and renamed under it.                                            *)
(*                                                                          *)
(* Abstractions.  A path is a sequence of names.  Only folders are tracked: *)
(* an event about a file changes no watch.  The kernel side (inodes, watch  *)
(* descriptors, the event queue) is external.  The thread's system calls    *)
(* are separate steps wherever the file system can change between two of    *)
(* them; the removal of one watch with everything below it is one step.     *)
(* IN_IGNORED, which the thread reads and drops, and symbolic links are     *)
(* left out; module Watcher has what is reported of files.                  *)
(***************************************************************************)
EXTENDS Naturals, Sequences, FiniteSets, SequencesExt

CONSTANTS Names,      \* what a folder can be called
          MaxDepth,   \* bound on the length of a path
          Start,      \* the paths of the folders at the start; its length bounds
                      \* the number of folders that exist at a time
          MaxChanges, \* bound on the changes made to the file system
          MaxWds,     \* bound on the watch descriptors ever handed out
          MaxWatches, \* fs.inotify.max_user_watches
          OsCapacity  \* fs.inotify.max_queued_events

ASSUME InotifyAssumption ==
  /\ IsFiniteSet(Names)
  /\ {MaxDepth, MaxChanges, MaxWds, MaxWatches, OsCapacity} \subseteq Nat \ {0}

\* An event without a name is about the watched folder itself.
ASSUME NamesAssumption == "" \notin Names

Root    == <<"root">>  \* the folder the program watches
Away    == <<"away">>  \* a folder outside of it, never watched
Nowhere == <<>>
Routes  == UNION {[1 .. n -> Names] : n \in 0 .. MaxDepth}
AllPaths == {Root \o s : s \in Routes} \cup {Away \o s : s \in Routes}

Parent(p)     == Front(p)
IsBelow(p, q) == IsPrefix(q, p)   \* q itself, or anything in it

Dirs == DOMAIN Start              \* inodes of folders

ASSUME StartAssumption ==
  Start \in Seq(AllPaths \cup {Nowhere}) /\ Start # <<>> /\ Start[1] = Root

\* No two folders have the same path, and a folder is in a folder.
ASSUME TreeAssumption ==
  /\ \A c, d \in Dirs : Start[c] = Start[d] /\ Start[c] # Nowhere => c = d
  /\ \A d \in Dirs, p \in AllPaths :
       IsBelow(Start[d], p) => p = Away \/ \E c \in Dirs : Start[c] = p

Top  == 1                         \* the inode the user watches
Wds  == 1 .. MaxWds

NoWd == 0

VARIABLES
  at,      \* kernel: the path of each inode, Nowhere when it does not exist
  wd,      \* kernel: the watch descriptor of each inode, or NoWd
  nextWd,  \* kernel: the next descriptor
  os,      \* kernel: the event queue
  half,    \* kernel: where a rename that is under way leads to, or Nowhere
  changes, \* how often the file system was changed
  raced,   \* history: a watched folder was renamed or deleted in the middle of the
           \* changes to the watches, or before the thread had caught up with it
  user,    \* where the owner of the INotifyWatcher is
  pc,      \* where the event loop thread is
  watches, \* EventLoop::watches: path -> descriptor, or NoWd
  paths,   \* EventLoop::paths: descriptor -> path, or Nowhere
  broken,  \* history: a removal stopped at a dead descriptor, its work half done
  rm, add, \* remove_watches and add_watches of this batch
  walk,    \* the entries WalkDir has still to yield
  open,    \* the inode WalkDir opened last
  fresh,   \* the descriptor the kernel has just returned
  told,    \* what the handler was told: "rescan", "limit", "error"
  cut      \* history: the entries that an aborted walk never came to

kernel == <<at, wd, nextWd, os, half, changes, raced>>
maps   == <<watches, paths, broken>>
batch  == <<rm, add>>
walker == <<walk, open, fresh>>
vars   == <<kernel, user, pc, maps, batch, walker, told, cut>>

-----------------------------------------------------------------------------
(***************************************************************************)
(* The kernel                                                               *)
(***************************************************************************)
Exists(p) == p = Away \/ \E d \in Dirs : at[d] = p

\* The inode at an existing path; Away has none that matters.
InodeAt(p) == CHOOSE d \in Dirs : at[d] = p

\* The descriptor that watches the folder p, if any.
WdAt(p) == IF \E d \in Dirs : at[d] = p THEN wd[InodeAt(p)] ELSE NoWd

\* An event for the watch w joins the queue; a full queue gets one overflow
\* event instead, and nothing more until it is read.
Queued(q, w, e) ==
  IF w = NoWd \/ Len(q) > OsCapacity THEN q
  ELSE Append(q, IF Len(q) = OsCapacity
                   THEN [kind |-> "overflow", wd |-> NoWd, name |-> ""]
                   ELSE e)

Entry(kind, p) ==
  [kind |-> kind, wd |-> WdAt(Parent(p)), name |-> Last(p)]

Self(kind, w) == [kind |-> kind, wd |-> w, name |-> ""]

\* The kernel and both maps agree on the folder.
Followed(d) ==
  wd[d] # NoWd /\ paths[wd[d]] = at[d] /\ watches[at[d]] = wd[d]

\* So do they on d and the folder it is in: the thread can tell that an event
\* about d is about d.
Placed(d) == Followed(d) /\ \E e \in Dirs : at[e] = Parent(at[d]) /\ Followed(e)

\* The thread has read a batch and is changing the watches.
Between == pc \notin {"idle", "reading", "stopped"}

Changing ==
  /\ changes < MaxChanges
  /\ half = Nowhere
  /\ changes' = changes + 1

Mkdir(d, p) ==
  /\ Changing
  /\ at[d] = Nowhere /\ \A c \in Dirs : at[c] = Nowhere => d <= c
  /\ Len(p) > 1 /\ ~ Exists(p) /\ Exists(Parent(p))
  /\ at' = [at EXCEPT ![d] = p]
  /\ os' = Queued(os, WdAt(Parent(p)), Entry("create", p))
  /\ UNCHANGED <<wd, nextWd, half, raced>>

\* Removing a folder ends its watch.  Only the watch of the top folder asks
\* for DELETE_SELF and MOVE_SELF.  The thread has not caught up with a folder
\* that still has watches recorded below it.
Rmdir(d) ==
  /\ Changing
  /\ at[d] # Nowhere
  /\ \A c \in Dirs \ {d} : ~ IsBelow(at[c], at[d])
  /\ at' = [at EXCEPT ![d] = Nowhere]
  /\ wd' = [wd EXCEPT ![d] = NoWd]
  /\ os' = IF d = Top THEN Queued(os, wd[Top], Self("delete_self", wd[Top]))
                      ELSE Queued(os, WdAt(Parent(at[d])), Entry("delete", at[d]))
  /\ raced' = \/ raced
              \/ /\ wd[d] # NoWd
                 /\ \/ Between
                    \/ ~ Placed(d)
                    \/ \E c \in Dirs \ {d} : wd[c] # NoWd /\ IsBelow(paths[wd[c]], at[d])
  /\ UNCHANGED <<nextWd, half>>

Moved(p, old, new) ==
  IF IsBelow(p, old) THEN new \o SubSeq(p, Len(old) + 1, Len(p)) ELSE p

\* A rename raises MOVED_FROM and, not in the same instant, MOVED_TO.  It is
\* lost on the thread when it takes a followed folder along unseen.
Rename(d, p) ==
  LET old == at[d] IN
  /\ Changing
  /\ old # Nowhere /\ Len(p) > 1 /\ ~ Exists(p) /\ Exists(Parent(p)) /\ ~ IsBelow(p, old)
  /\ \A c \in Dirs : IsBelow(at[c], old) => Moved(at[c], old, p) \in AllPaths
  /\ at' = [c \in Dirs |-> IF at[c] = Nowhere THEN Nowhere ELSE Moved(at[c], old, p)]
  /\ os' = IF d = Top THEN Queued(os, wd[Top], Self("move_self", wd[Top]))
                      ELSE Queued(os, WdAt(Parent(old)), Entry("moved_from", old))
  /\ half' = p
  /\ raced' = \/ raced
              \/ Between
              \/ ~ Placed(d) /\ \E c \in Dirs : Followed(c) /\ IsBelow(at[c], old)
  /\ UNCHANGED <<wd, nextWd>>

RenameEnds ==
  /\ half # Nowhere
  /\ os' = Queued(os, WdAt(Parent(half)), Entry("moved_to", half))
  /\ half' = Nowhere
  /\ UNCHANGED <<at, wd, nextWd, changes, raced, user, pc, maps, batch, walker, told, cut>>

FileSystem ==
  /\ \/ \E d \in Dirs, p \in AllPaths : Mkdir(d, p)
     \/ \E d \in Dirs : Rmdir(d)
     \/ \E d \in Dirs, p \in AllPaths : Rename(d, p)
  /\ UNCHANGED <<user, pc, maps, batch, walker, told, cut>>

-----------------------------------------------------------------------------
(***************************************************************************)
(* The owner of the INotifyWatcher: watch and unwatch wait for the answer,  *)
(* drop only sends Shutdown                                                 *)
(***************************************************************************)
Requests == {"watch?", "unwatch?", "drop?"}

Ask(from, request) ==
  /\ user \in from
  /\ user' = request
  /\ UNCHANGED <<kernel, pc, maps, batch, walker, told, cut>>

Owner ==
  \/ Ask({"new"}, "watch?")
  \/ Ask({"watching"}, "unwatch?")
  \/ Ask({"watching", "failed", "unwatched", "stuck"}, "drop?")

-----------------------------------------------------------------------------
(***************************************************************************)
(* handle_inotify: read events until there is none left                     *)
(***************************************************************************)
BatchBegins ==
  /\ pc = "idle" /\ os # <<>>
  /\ pc' = "reading"
  /\ rm' = <<>> /\ add' = <<>>
  /\ UNCHANGED <<kernel, user, maps, walker, told, cut>>

\* The path an event is about: unknown descriptors are skipped.
PathOf(e) ==
  IF e.wd = NoWd \/ paths[e.wd] = Nowhere THEN Nowhere
  ELSE IF e.name = "" THEN paths[e.wd] ELSE Append(paths[e.wd], e.name)

\* add_watch_by_event and remove_watch_by_event
Has(p)      == p \in AllPaths /\ watches[p] # NoWd
ToRemove(p) == IF Has(p) THEN Append(rm, p) ELSE rm
\* Mutant of ToAdd: a path that has a watch already is passed over.
ToAddUnknown(p) == IF Has(Parent(p)) /\ ~ Has(p) THEN Append(add, p) ELSE add
ToAdd(p) == IF Has(Parent(p)) THEN Append(add, p) ELSE add

Handle(e, p) ==
  \/ /\ e.kind = "overflow"
     /\ told' = told \cup {"rescan"}
     /\ UNCHANGED <<rm, add>>
  \/ /\ e.kind # "overflow" /\ (p = Nowhere \/ e.kind = "move_self")
     /\ UNCHANGED <<rm, add, told>>
  \/ /\ e.kind \in {"create", "moved_to"} /\ p # Nowhere
     /\ add' = ToAdd(p)
     /\ UNCHANGED <<rm, told>>
  \/ /\ e.kind \in {"delete", "delete_self", "moved_from"} /\ p # Nowhere
     /\ rm' = ToRemove(p)
     /\ UNCHANGED <<add, told>>

ReadEvent ==
  /\ pc = "reading" /\ os # <<>>
  /\ Handle(Head(os), PathOf(Head(os)))
  /\ os' = Tail(os)
  /\ UNCHANGED <<at, wd, nextWd, half, changes, raced, user, pc, maps, walker, cut>>

\* read_events would block: every removal first, then every addition.
BatchRead ==
  /\ pc = "reading" /\ os = <<>>
  /\ pc' = "removing"
  /\ UNCHANGED <<kernel, user, maps, batch, walker, told, cut>>

\* read_events failed: the handler is told, the loop reads again.
ReadFails ==
  /\ pc = "reading"
  /\ told' = told \cup {"error"}
  /\ UNCHANGED <<kernel, user, pc, maps, batch, walker, cut>>

-----------------------------------------------------------------------------
(***************************************************************************)
(* remove_watch(p, recursive): the entry of p goes first; a descriptor that *)
(* the kernel no longer has ends the call with an error, wherever it is.    *)
(* The folders below are visited in the order of a hash map: gone are those *)
(* that came before the first such descriptor.                              *)
(***************************************************************************)
Live(w)   == \E d \in Dirs : wd[d] = w
\* Mutant of Within: only the folder itself.
WithinFlat(p) == {w \in Wds : paths[w] = p}
Within(p) == {w \in Wds : paths[w] # Nowhere /\ IsBelow(paths[w], p)}

\* Mutant of Forgetting: the folders below stay in `paths`.
ForgettingTop(p, W, below, unmapped) ==
  /\ wd'      = [d \in Dirs |-> IF wd[d] \in W THEN NoWd ELSE wd[d]]
  /\ watches' = [q \in AllPaths |->
                   IF q = p \/ \E w \in below : paths[w] = q THEN NoWd ELSE watches[q]]
  /\ paths'   = [w \in Wds |-> IF w \in unmapped \ below THEN Nowhere ELSE paths[w]]

\* The kernel forgets the descriptors of W, `watches` forgets p and where
\* those of `below` are, `paths` those of `unmapped`.
Forgetting(p, W, below, unmapped) ==
  /\ wd'      = [d \in Dirs |-> IF wd[d] \in W THEN NoWd ELSE wd[d]]
  /\ watches' = [q \in AllPaths |->
                   IF q = p \/ \E w \in below : paths[w] = q THEN NoWd ELSE watches[q]]
  /\ paths'   = [w \in Wds |-> IF w \in unmapped THEN Nowhere ELSE paths[w]]

RemoveWatch(p, ok) ==
  LET own  == watches[p]
      rest == Within(p) \ {own}
      live == {w \in rest : Live(w)}
  IN
  \/ /\ own = NoWd /\ ~ ok
     /\ UNCHANGED <<wd, maps>>
  \/ /\ own # NoWd /\ ~ Live(own) /\ ~ ok
     /\ Forgetting(p, {}, {}, {})
     /\ UNCHANGED broken
  \/ /\ own # NoWd /\ Live(own) /\ live = rest /\ ok
     /\ Forgetting(p, {own} \cup rest, rest, {own} \cup rest)
     /\ UNCHANGED broken
  \/ /\ own # NoWd /\ Live(own) /\ live # rest /\ ~ ok
     /\ broken' = TRUE
     /\ \E before \in SUBSET live : Forgetting(p, {own} \cup before, before, {own})

RemoveNext ==
  /\ pc = "removing" /\ rm # <<>>
  /\ \E ok \in BOOLEAN : RemoveWatch(Head(rm), ok)
  /\ rm' = Tail(rm)
  /\ UNCHANGED <<at, nextWd, os, half, changes, raced, user, pc, add, walker, told, cut>>

RemovalsDone ==
  /\ pc = "removing" /\ rm = <<>>
  /\ pc' = "adding"
  /\ UNCHANGED <<kernel, user, maps, batch, walker, told, cut>>

-----------------------------------------------------------------------------
(***************************************************************************)
(* add_watch(p, recursive): one watch after the other, as WalkDir yields    *)
(* the folders; the first error ends the walk.                              *)
(***************************************************************************)

\* metadata(p) of the next folder of the batch: when it is gone the error is
\* dropped.
AddNext ==
  /\ pc = "adding" /\ add # <<>>
  /\ IF Exists(Head(add))
       THEN pc' = "walking" /\ walk' = <<Head(add)>> /\ UNCHANGED add
       ELSE add' = Tail(add) /\ UNCHANGED <<pc, walk>>
  /\ UNCHANGED <<kernel, user, maps, rm, open, fresh, told, cut>>

BatchEnds ==
  /\ pc = "adding" /\ add = <<>>
  /\ pc' = "idle"
  /\ UNCHANGED <<kernel, user, maps, batch, walker, told, cut>>

\* WalkDir yields the next entry, opening it; one that is gone is filtered.
WalkNext ==
  /\ pc = "walking" /\ walk # <<>>
  /\ IF Exists(Head(walk))
       THEN /\ open' = InodeAt(Head(walk))
            /\ pc' = "watching"
            /\ UNCHANGED walk
       ELSE /\ walk' = Tail(walk)
            /\ UNCHANGED <<open, pc>>
  /\ UNCHANGED <<kernel, user, maps, batch, fresh, told, cut>>

\* The walk is over: the batch goes on, or the user gets the answer.
WalkEnds ==
  /\ pc = "walking" /\ walk = <<>>
  /\ IF user = "watch?"
       THEN user' = "watching" /\ pc' = "idle" /\ UNCHANGED add
       ELSE add' = Tail(add) /\ pc' = "adding" /\ UNCHANGED user
  /\ UNCHANGED <<kernel, maps, rm, walker, told, cut>>

\* Mutant of WalkAborted: the user's request is dropped like one of a batch.
WalkDropped(limit) ==
  /\ walk' = <<>>
  /\ cut' = cut \cup ToSet(Tail(walk))
  /\ pc' = IF user = "watch?" THEN "idle" ELSE "adding"
  /\ add' = IF limit \/ add = <<>> THEN <<>> ELSE Tail(add)
  /\ told' = IF limit THEN told \cup {"limit"} ELSE told
  /\ UNCHANGED user

\* add_single_watch failed: MaxFilesWatch is reported and ends the batch, any
\* other error of a batch is dropped; a user's request is answered with it.
WalkAborted(limit) ==
  /\ walk' = <<>>
  /\ cut' = cut \cup ToSet(Tail(walk))
  /\ IF user = "watch?"
       THEN /\ user' = "failed" /\ pc' = "idle"
            /\ UNCHANGED <<add, told>>
       ELSE /\ pc' = "adding"
            /\ add' = IF limit THEN <<>> ELSE Tail(add)
            /\ told' = IF limit THEN told \cup {"limit"} ELSE told
            /\ UNCHANGED user

\* inotify_add_watch: an inode has one descriptor, however often it is added.
AddWatch ==
  LET p == Head(walk) IN
  /\ pc = "watching"
  /\ \/ /\ ~ Exists(p)
        /\ WalkAborted(FALSE)
        /\ UNCHANGED <<wd, nextWd, fresh>>
     \/ /\ Exists(p) /\ WdAt(p) # NoWd
        /\ fresh' = WdAt(p)
        /\ pc' = "recording"
        /\ UNCHANGED <<wd, nextWd, walk, user, add, told, cut>>
     \/ /\ Exists(p) /\ WdAt(p) = NoWd
        /\ Cardinality({d \in Dirs : wd[d] # NoWd}) < MaxWatches
        /\ nextWd \in Wds
        /\ wd' = [wd EXCEPT ![InodeAt(p)] = nextWd]
        /\ nextWd' = nextWd + 1
        /\ fresh' = nextWd
        /\ pc' = "recording"
        /\ UNCHANGED <<walk, user, add, told, cut>>
     \/ /\ Exists(p) /\ WdAt(p) = NoWd
        /\ Cardinality({d \in Dirs : wd[d] # NoWd}) >= MaxWatches
        /\ WalkAborted(TRUE)
        /\ UNCHANGED <<wd, nextWd, fresh>>
  /\ UNCHANGED <<at, os, half, changes, raced, maps, rm, open>>

\* metadata(p) once more, then the entry is recorded under its path; the next
\* call of WalkDir lists what the folder it opened holds by then.
Listing(p) ==
  {Append(p, Last(at[c])) : c \in {d \in Dirs : /\ at[open] # Nowhere
                                                /\ at[d] # Nowhere
                                                /\ Parent(at[d]) = at[open]}}

RecordWatch ==
  LET p == Head(walk) IN
  /\ pc = "recording"
  /\ \/ /\ ~ Exists(p)
        /\ WalkAborted(FALSE)
        /\ UNCHANGED maps
     \/ /\ Exists(p)
        /\ watches' = [watches EXCEPT ![p] = fresh]
        /\ paths'   = [paths EXCEPT ![fresh] = p]
        /\ UNCHANGED broken
        /\ \E below \in SetToSeqs(Listing(p)) : walk' = below \o Tail(walk)
        /\ pc' = "walking"
        /\ UNCHANGED <<user, add, told, cut>>
  /\ open' = Top /\ fresh' = NoWd
  /\ UNCHANGED <<kernel, rm>>

-----------------------------------------------------------------------------
(***************************************************************************)
(* handle_messages                                                          *)
(***************************************************************************)
HandleWatch ==
  /\ pc = "idle" /\ user = "watch?"
  /\ IF Exists(Root)
       THEN pc' = "walking" /\ walk' = <<Root>> /\ UNCHANGED user
       ELSE user' = "failed" /\ UNCHANGED <<pc, walk>>
  /\ add' = <<>>
  /\ UNCHANGED <<kernel, maps, rm, open, fresh, told, cut>>

HandleUnwatch ==
  /\ pc = "idle" /\ user = "unwatch?"
  /\ \E ok \in BOOLEAN :
       /\ RemoveWatch(Root, ok)
       /\ user' = IF ok THEN "unwatched" ELSE "stuck"
  /\ UNCHANGED <<at, nextWd, os, half, changes, raced, pc, batch, walker, told, cut>>

\* Shutdown: remove_all_watches stops at the first dead descriptor, but closing
\* the inotify instance ends every watch.
HandleShutdown ==
  /\ pc = "idle" /\ user = "drop?"
  /\ user' = "gone" /\ pc' = "stopped"
  /\ wd' = [d \in Dirs |-> NoWd]
  /\ os' = <<>>
  /\ half' = Nowhere
  /\ IF \A w \in Wds : paths[w] # Nowhere => Live(w)
       THEN watches' = [p \in AllPaths |-> NoWd] /\ paths' = [w \in Wds |-> Nowhere]
       ELSE UNCHANGED <<watches, paths>>
  /\ UNCHANGED broken
  /\ UNCHANGED <<at, nextWd, changes, raced, batch, walker, told, cut>>

-----------------------------------------------------------------------------
Init ==
  /\ at      = Start
  /\ wd      = [d \in Dirs |-> NoWd]
  /\ nextWd  = 1
  /\ os      = <<>>
  /\ half    = Nowhere
  /\ changes = 0
  /\ user    = "new"
  /\ pc      = "idle"
  /\ watches = [p \in AllPaths |-> NoWd]
  /\ paths   = [w \in Wds |-> Nowhere]
  /\ rm = <<>> /\ add = <<>> /\ walk = <<>>
  /\ open    = Top
  /\ fresh   = NoWd
  /\ told = {} /\ cut = {} /\ raced = FALSE /\ broken = FALSE

EventLoop ==
  \/ BatchBegins \/ ReadEvent \/ BatchRead
  \/ RemoveNext \/ RemovalsDone \/ AddNext \/ BatchEnds
  \/ WalkNext \/ AddWatch \/ RecordWatch \/ WalkEnds
  \/ HandleWatch \/ HandleUnwatch \/ HandleShutdown

Next == FileSystem \/ RenameEnds \/ Owner \/ EventLoop \/ ReadFails

Spec == Init /\ [][Next]_vars

\* The thread runs while it has something to do, and the kernel finishes the
\* rename it began; a read that fails succeeds in the end.  Neither the file
\* system nor the owner has to act.
FairSpec == Spec /\ WF_vars(EventLoop) /\ WF_vars(RenameEnds)
=============================================================================
