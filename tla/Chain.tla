------------------------------- MODULE Chain --------------------------------
(***************************************************************************)
(* One action chain (actions/mod.rs) and the external processes it starts   *)
(* (spawn.rs, win_runas.rs, win_job.rs): the actions of a rule run one      *)
(* after the other until one fails; a command is not waited for, waited     *)
(* for, or waited for until a time limit ends it and all it started.        *)
(*                                                                          *)
(* A copy or move is one step here, see module Transfer.  A command is a    *)
(* shell that may start one process to do the work, and end before it.      *)
(***************************************************************************)
EXTENDS Naturals, Sequences, FiniteSets

CONSTANTS
  MaxActions,   \* bound of the model: actions of a chain
  MaxCommands   \* bound of the model: commands among them

ASSUME MaxActionsAssumption == MaxActions \in Nat \ {0}

\* Commands: "detach" is wait = false, "wait" has no limit, "timed" has one.
Transfers == {"copy", "move"}
Commands  == {"detach", "wait", "timed"}
Actions   == Transfers \cup Commands

Platforms == {"unix", "windows"}

VARIABLES
  platform,  \* where the program runs
  chain,     \* the actions of the rule
  no,        \* the action that is executed
  stage,     \* where execute_chain is
  source,    \* is the entry that was detected still there
  dest,      \* ctx.destination: the action that delivered there, 0 if empty
  result,    \* what was logged of each action
  given,     \* history: the {Destination} each command was started with
  shell,     \* the process started by each command
  work,      \* the process its shell started
  asUser,    \* was it created suspended, for the user who is logged on
  group,     \* can each command's tree be ended as a whole
  member,    \* how its working process stands to that
  ignored,   \* what of a kill had no effect: on shell, work, or the wait for it
  code       \* exit status of each shell

order     == <<platform, chain>>
progress  == <<no, stage, source, dest, result, given>>
processes == <<shell, work, asUser, group, member, ignored, code>>
chainVars == <<order, progress, processes>>

Numbers   == 1 .. MaxActions
Stages    == {"next", "transfer", "spawn", "assign", "wait", "kill", "reap",
              "collect", "done", "failed"}
Results   == {"none", "ok", "skipped", "failed", "timeout"}
Processes == {"none", "running", "dying", "ended"}
Standings == {"outside", "in", "left"}
Failures  == {"shell", "work", "wait"}
Codes     == {"zero", "other", "unknown"}

Ended == stage \in {"done", "failed"}

Init ==
  /\ platform \in Platforms
  /\ chain \in UNION {[1 .. n -> Actions] : n \in Numbers}
  /\ Cardinality({k \in DOMAIN chain : chain[k] \in Commands}) <= MaxCommands
  /\ no = 1
  /\ stage = "next"
  /\ source = TRUE
  /\ dest = 0
  /\ result  = [k \in Numbers |-> "none"]
  /\ given   = [k \in Numbers |-> 0]
  /\ shell   = [k \in Numbers |-> "none"]
  /\ work    = [k \in Numbers |-> "none"]
  /\ asUser  = [k \in Numbers |-> FALSE]
  /\ group   = [k \in Numbers |-> FALSE]
  /\ member  = [k \in Numbers |-> "outside"]
  /\ ignored = [k \in Numbers |-> {}]
  /\ code    = [k \in Numbers |-> "unknown"]

-----------------------------------------------------------------------------
(***************************************************************************)
(* execute_chain                                                            *)
(***************************************************************************)

\* The next action, after its delay_ms; or there is none.
Begin ==
  /\ stage = "next"
  /\ stage' = IF no > Len(chain) THEN "done"
              ELSE IF chain[no] \in Transfers THEN "transfer" ELSE "spawn"
  /\ UNCHANGED <<order, no, source, dest, result, given, processes>>

\* Mutant of AfterFailure: the chain goes on.
NextAction == "next"

\* An action that fails ends the chain; the others are listed as not run.
AfterFailure == "failed"

\* Mutant of Following: every other action is passed over.
Second == no + 2

Following == no + 1

\* What execute_chain makes of the result of an action.
Conclude(r) ==
  /\ result' = [result EXCEPT ![no] = r]
  /\ stage' = IF r \in {"failed", "timeout"} THEN AfterFailure ELSE "next"
  /\ no' = Following

\* Mutant of Delivers: a skipped transfer sets {Destination}, too.
Always(r) == TRUE

\* Ok(Some(path)), not Ok(None).
Delivers(r) == r = "ok"

\* copy::execute or move::execute; it fails when the entry is gone.
Transfer(r) ==
  /\ stage = "transfer"
  /\ r \in {"ok", "skipped"} => source
  /\ Conclude(r)
  /\ dest' = IF r # "failed" /\ Delivers(r) THEN no ELSE dest
  /\ source' = (source /\ ~ (r = "ok" /\ chain[no] = "move"))
  /\ UNCHANGED <<order, given, processes>>

-----------------------------------------------------------------------------
(***************************************************************************)
(* spawn_process                                                            *)
(***************************************************************************)

\* Mutant of Limited: no limit is set.
Unlimited(k) == FALSE

\* timeout_ms is set, and waiting at all.
Limited(k) == chain[k] = "timed"

SpawnFails ==
  /\ stage = "spawn"
  /\ Conclude("failed")
  /\ UNCHANGED <<order, source, dest, given, processes>>

\* How a command with a limit is grouped before it runs: on Unix in a process
\* group of its own; the suspended process in a job, if that can be had.
GroupedFirst(u) == IF u THEN BOOLEAN ELSE {platform = "unix"}

\* The shell starts with the placeholders of its command expanded; u is for
\* a user who is logged on, it makes no difference here without a limit.
Spawn(u, g) ==
  /\ stage = "spawn"
  /\ u => platform = "windows" /\ Limited(no)
  /\ g \in IF Limited(no) THEN GroupedFirst(u) ELSE {FALSE}
  /\ shell'  = [shell EXCEPT ![no] = "running"]
  /\ asUser' = [asUser EXCEPT ![no] = u]
  /\ group'  = [group EXCEPT ![no] = g]
  /\ given'  = [given EXCEPT ![no] = dest]
  /\ IF chain[no] = "detach"
     THEN Conclude("ok")
     ELSE /\ stage' = IF Limited(no) /\ platform = "windows" /\ ~u
                      THEN "assign" ELSE "wait"
          /\ UNCHANGED <<no, result>>
  /\ UNCHANGED <<order, source, dest, work, member, ignored, code>>

\* JobHandle::assign on the running process; a failure is ignored.
Assign(g) ==
  /\ stage = "assign"
  /\ group' = [group EXCEPT ![no] = g]
  /\ stage' = "wait"
  /\ UNCHANGED <<order, no, source, dest, result, given, shell, work, asUser,
                 member, ignored, code>>

\* Mutant of Accepted: the exit status is not looked at.
AnyCode(c) == TRUE

\* outcome_message: only a known status other than 0 is a failure.
Accepted(c) == c \in {"zero", "unknown"}

\* child.wait() returns.
Exited ==
  /\ stage = "wait"
  /\ shell[no] = "ended"
  /\ Conclude(IF Accepted(code[no]) THEN "ok" ELSE "failed")
  /\ UNCHANGED <<order, source, dest, given, processes>>

\* child.wait() returns an error.
WaitFails ==
  /\ stage = "wait"
  /\ Conclude("failed")
  /\ UNCHANGED <<order, source, dest, given, processes>>

\* The limit passes; nothing has been heard of the end of the shell.
TimeOut ==
  /\ stage = "wait"
  /\ Limited(no)
  /\ stage' = "kill"
  /\ UNCHANGED <<order, no, source, dest, result, given, processes>>

\* Mutant of Killed: what the shell started goes on.
LeftAlone(p) == p

\* SIGKILL, TerminateProcess: a process that is told to end starts nothing
\* any more, but may be there for a while.
Killed(p) == IF p = "running" THEN "dying" ELSE p

\* The processes of the command that are in its group or job.
Members == {"shell"} \cup (IF member[no] = "in" THEN {"work"} ELSE {})

\* job.terminate() or killpg(), if there is a job or a group.  The results are
\* ignored: what it does not reach, another user's process say, goes on.
KillGroup(reached) ==
  /\ stage = "kill"
  /\ reached \subseteq Members
  /\ IF group[no]
     THEN /\ shell' = [shell EXCEPT ![no] = IF "shell" \in reached
                                           THEN Killed(@) ELSE @]
          /\ work' = [work EXCEPT ![no] = IF "work" \in reached
                                         THEN Killed(@) ELSE @]
          /\ ignored' = [ignored EXCEPT ![no] = Members \ reached]
     ELSE UNCHANGED <<shell, work, ignored>>
  /\ stage' = "reap"
  /\ UNCHANGED <<order, no, source, dest, result, given, asUser, group, member,
                 code>>

\* child.kill(), TerminateProcess(): the shell alone, without a look at the
\* result either.
KillShell(reached) ==
  /\ stage = "reap"
  /\ shell' = IF reached THEN [shell EXCEPT ![no] = Killed(@)] ELSE shell
  /\ stage' = "collect"
  /\ UNCHANGED <<order, no, source, dest, result, given, work, asUser, group,
                 member, ignored, code>>

\* child.wait() waits for the end of the shell as long as that takes; for the
\* process of a user WaitForSingleObject waits five seconds and no longer.
Collect ==
  /\ stage = "collect"
  /\ asUser[no] \/ shell[no] = "ended"
  /\ Conclude("timeout")
  /\ UNCHANGED <<order, source, dest, given, processes>>

\* That wait returns an error, which is ignored.
CollectFails ==
  /\ stage = "collect"
  /\ Conclude("timeout")
  /\ ignored' = [ignored EXCEPT ![no] = @ \cup {"wait"}]
  /\ UNCHANGED <<order, source, dest, given, shell, work, asUser, group, member,
                 code>>

-----------------------------------------------------------------------------
(***************************************************************************)
(* The processes                                                            *)
(***************************************************************************)

\* The shell starts the program that does the work, in its own group or job;
\* on Unix that may leave the group (setsid), a job cannot be left.
StartWork(k, leaves) ==
  /\ shell[k] = "running"
  /\ work[k] = "none"
  /\ leaves => group[k] /\ platform = "unix"
  /\ work' = [work EXCEPT ![k] = "running"]
  /\ member' = [member EXCEPT ![k] = IF leaves THEN "left"
                                     ELSE IF group[k] THEN "in" ELSE "outside"]
  /\ UNCHANGED <<order, progress, shell, asUser, group, ignored, code>>

ShellEnds(k, c) ==
  /\ shell[k] = "running"
  /\ shell' = [shell EXCEPT ![k] = "ended"]
  /\ code' = [code EXCEPT ![k] = c]
  /\ UNCHANGED <<order, progress, work, asUser, group, member, ignored>>

\* A shell that was told to end has ended.
ShellDies(k) ==
  /\ shell[k] = "dying"
  /\ shell' = [shell EXCEPT ![k] = "ended"]
  /\ UNCHANGED <<order, progress, work, asUser, group, member, ignored, code>>

WorkEnds(k) ==
  /\ work[k] \in {"running", "dying"}
  /\ work' = [work EXCEPT ![k] = "ended"]
  /\ UNCHANGED <<order, progress, shell, asUser, group, member, ignored, code>>

-----------------------------------------------------------------------------
Step ==
  \/ Begin
  \/ \E r \in {"ok", "skipped", "failed"} : Transfer(r)
  \/ SpawnFails
  \/ \E u, g \in BOOLEAN : Spawn(u, g)
  \/ \E g \in BOOLEAN : Assign(g)
  \/ Exited \/ TimeOut
  \/ \E reached \in SUBSET {"shell", "work"} : KillGroup(reached)
  \/ \E reached \in BOOLEAN : KillShell(reached)
  \/ Collect

Others ==
  \/ WaitFails \/ CollectFails
  \/ \E k \in Numbers : \/ \E leaves \in BOOLEAN : StartWork(k, leaves)
                        \/ \E c \in Codes : ShellEnds(k, c)
                        \/ ShellDies(k) \/ WorkEnds(k)

Next == Step \/ Others

Spec == Init /\ [][Next]_chainVars

\* The chain's task is scheduled and its timers fire, and a shell that SIGKILL
\* or TerminateProcess has reached does end; processes owe nothing else, nor
\* does the operating system owe an error.
FairSpec == /\ Spec /\ WF_chainVars(Step)
            /\ \A k \in Numbers : WF_chainVars(ShellDies(k))
=============================================================================
