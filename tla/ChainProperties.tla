-------------------------- MODULE ChainProperties ---------------------------
(***************************************************************************)
(* What an action chain guarantees, and what is said of it.                 *)
(***************************************************************************)
EXTENDS Chain

\* Every variable keeps its type; the chain is left at most one past its end.
TypeOK ==
  /\ platform \in Platforms
  /\ Len(chain) \in Numbers /\ chain \in [1 .. Len(chain) -> Actions]
  /\ no       \in 1 .. Len(chain) + 1
  /\ stage    \in Stages
  /\ source   \in BOOLEAN
  /\ dest     \in 0 .. MaxActions
  /\ result   \in [Numbers -> Results]
  /\ given    \in [Numbers -> 0 .. MaxActions]
  /\ shell    \in [Numbers -> Processes]
  /\ work     \in [Numbers -> Processes]
  /\ asUser   \in [Numbers -> BOOLEAN]
  /\ group    \in [Numbers -> BOOLEAN]
  /\ member   \in [Numbers -> Standings]
  /\ ignored  \in [Numbers -> SUBSET Failures]
  /\ code     \in [Numbers -> Codes]

(***************************************************************************)
(* After an action that failed or ran out of time nothing is started and    *)
(* nothing more is recorded (detailed-design.md: the rest of the chain is   *)
(* not run).                                                                *)
(***************************************************************************)
NothingAfterFailure ==
  \A j, k \in Numbers : (j < k /\ result[j] \in {"failed", "timeout"}) =>
    result[k] = "none" /\ shell[k] = "none"

(***************************************************************************)
(* A command that is waited for is only reported as done when its process   *)
(* has ended, and has not reported a failure itself.                        *)
(***************************************************************************)
OkMeansExited ==
  \A k \in DOMAIN chain : (result[k] = "ok" /\ chain[k] \in {"wait", "timed"}) =>
    shell[k] = "ended" /\ code[k] # "other"

(***************************************************************************)
(* The {Destination} a command is started with is where this chain has put  *)
(* the entry, and the last such place: transfers in between were skipped.   *)
(***************************************************************************)
DestinationIsLatest ==
  \A k \in DOMAIN chain : shell[k] # "none" =>
    /\ given[k] # 0 => result[given[k]] = "ok" /\ chain[given[k]] \in Transfers
    /\ \A j \in given[k] + 1 .. k - 1 :
         chain[j] \in Transfers => result[j] = "skipped"

\* The time limit ended a command of which the tree could be ended as a whole.
TimedOutAsGroup(k) == result[k] = "timeout" /\ group[k]

(***************************************************************************)
(* A command that ran out of time leaves behind nothing that was not told   *)
(* to end, whenever it was started: what goes on has left its group, was    *)
(* started before there was a job (only for a shell that does not run as    *)
(* the user), or is out of reach of the kill itself.  The shell has ended,  *)
(* but for the one that is waited for no longer than five seconds.          *)
(***************************************************************************)
TimeOutEndsTree ==
  \A k \in Numbers : TimedOutAsGroup(k) =>
    /\ shell[k] # "ended" => asUser[k] \/ "wait" \in ignored[k]
    /\ shell[k] = "running" => "shell" \in ignored[k]
    /\ work[k] = "running" =>
         \/ member[k] = "left"
         \/ member[k] = "outside" /\ platform = "windows" /\ ~ asUser[k]
         \/ ignored[k] \cap {"shell", "work"} # {}

(***************************************************************************)
(* A chain ends if no command is waited for without a limit, whatever its   *)
(* processes do - save a shell that no kill ends and that is waited for.    *)
(***************************************************************************)
ChainEnds == (\A k \in DOMAIN chain : chain[k] # "wait") ~>
               (Ended \/ [](stage = "collect" /\ shell[no] = "running"))

=============================================================================
