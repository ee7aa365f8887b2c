----------------------- MODULE ReadDirectoryProperties -----------------------
(***************************************************************************)
(* What the Windows back end guarantees about its reads, its semaphores and *)
(* the events it hands on.                                                  *)
(***************************************************************************)
EXTENDS ReadDirectory

(***************************************************************************)
(* Each way out of a read - aborted, refused, failed, or not started again  *)
(* - releases the semaphore of its watch exactly once, and each way on      *)
(* starts the next: so stop_watch waits for a read that will report, never  *)
(* for nothing, and no buffer outlives its watch while the kernel may still *)
(* write to it.                                                             *)
(***************************************************************************)
OneToken ==
  \A d \in Dirs :
    /\ handle[d] \in {"open", "closed"} =>
         (io[d] = "none" /\ sem[d] = 1) \/ (io[d] # "none" /\ sem[d] = 0)
    /\ handle[d] \in {"none", "freed"} => io[d] = "none" /\ sem[d] = 0

-----------------------------------------------------------------------------
Numbers(q) == {q[i] : i \in DOMAIN q}

\* What is still on its way to the handler, oldest first.
OnItsWay(d) ==
  (IF job.dir = d THEN job.rest ELSE <<>>)
    \o (IF io[d] = "success" THEN filled[d] ELSE <<>>) \o kbuf[d]

(***************************************************************************)
(* The handler is given the events of a folder in order, each once and      *)
(* decoded as it was encoded, although the next read is started before the  *)
(* buffer of the last is parsed, although stop_watch runs completed reads   *)
(* nested in it, and although a read may change to the plain call: what is  *)
(* neither reported nor on its way was dropped by an overflow.              *)
(***************************************************************************)
StreamIsExact ==
  \A d \in Dirs :
    LET all == reported[d] \o OnItsWay(d) IN
    /\ \A i \in 1 .. Len(all) - 1 : all[i] < all[i + 1]
    /\ Garbage \notin Numbers(reported[d])
    /\ Numbers(all) \cup lost[d] = 1 .. happened[d]

(***************************************************************************)
(* A request of the owner is answered, and the watcher, once dropped, ends  *)
(* with every handle and buffer freed: stop_watch never waits for ever.     *)
(***************************************************************************)
EveryRequestEnds ==
  /\ \A d \in Dirs : owner = d ~> owner # d
  /\ owner = "gone" ~>
       (server = "ended" /\ \A d \in watches : handle[d] = "freed")

(***************************************************************************)
(* What happens in a watched folder is reported, unless an overflow dropped *)
(* it, or its watch has ended because it was stopped or its read failed.    *)
(***************************************************************************)
EventuallyReported ==
  \A d \in Dirs, n \in 1 .. MaxEvents :
    happened[d] >= n ~>
      \/ n \in Numbers(reported[d]) \cup lost[d]
      \/ handle[d] # "open" \/ sem[d] > 0
=============================================================================
