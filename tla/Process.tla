------------------------------ MODULE Process -------------------------------
(***************************************************************************)
(* The life of the process (main.rs, platform/service.rs, the frame of       *)
(* start_watching), from the command line or from the service control        *)
(* manager to its end, composed with one of its loggers (LogWriter): the     *)
(* system logger, made before anything is watched and awaited at the end, or *)
(* a logger of a rule, made by compile_rules, awaited if run_router returns  *)
(* and abandoned if the service is told to stop.                             *)
(*                                                                          *)
(* What happens while it watches is the other modules' subject; here it is   *)
(* only lines that are logged.                                               *)
(***************************************************************************)
EXTENDS LogWriter, Config

CONSTANTS
  Configs,  \* the configurations on the disk
  Chatty    \* bound of the model: those with which all else is varied and
            \* lines are logged; the others are only followed to the watching

ASSUME ConfigsAssumption == Configs \subseteq Configurations /\ Chatty \subseteq Configs

VARIABLES
  subject,    \* which logger the variables of LogWriter are
  mode,       \* from the command line or as a service
  request,    \* the command line: nothing, --init, --validate, or to watch
  config,     \* the configuration files; found: they are where they are looked for
  found,
  phase,
  status,     \* what the service control manager was told last
  stop,       \* the stop it asked for: stop_tx and stop_rx
  started,    \* of run_watcher
  result,     \* "ok" or the error run or run_watcher_inner returns
  errorLine,  \* the number of the line that reports it, 0 if none does
  report,     \* where the error was shown: stderr, the start-up error log
  code        \* the exit code of the process, or of the service

asked    == <<subject, mode, request, config, found>>
service  == <<status, stop, started>>
outcome  == <<result, errorLine, report, code>>
processVars == <<asked, phase, service, outcome>>
vars     == <<logVars, processVars>>

Modes    == {"cli", "service"}
Requests == {"nothing", "init", "validate", "watch"}
Phases   == {"dispatching", "registering", "arguments", "runtime", "loading",
             "logger", "reporting", "starting", "watching", "failed", "closing",
             "flushing", "closed", "stopping", "ended"}

\* Where the service stands, and how far it is: the checkpoint.
Statuses == {"unknown", "start_pending_1", "start_pending_2", "running",
             "stop_pending", "stopped"}

NoCode == 99

ProcessInit ==
  /\ Init
  /\ subject \in {"system", "rule"}
  /\ mode \in Modes
  /\ request \in IF mode = "cli" THEN Requests ELSE {"watch"}
  /\ config \in Configs
  /\ found \in BOOLEAN
  /\ config \notin Chatty =>
       subject = "system" /\ request = "watch" /\ found /\ ~ opts.daily /\ ~ opts.dated
  /\ phase = "dispatching"
  /\ status = "unknown" /\ stop = "none" /\ started = FALSE
  /\ result = "ok" /\ errorLine = 0 /\ report = "none" /\ code = NoCode

Go(p) == phase' = p

\* An error is returned from here, to be reported where the phase p is.
Fail(error, p) ==
  /\ result' = error
  /\ phase' = p
  /\ UNCHANGED <<errorLine, report, code>>

-----------------------------------------------------------------------------
(***************************************************************************)
(* main: before anything is loaded                                          *)
(***************************************************************************)

\* try_run_as_service: the dispatcher calls service_main, or finds that the
\* program was not started by the service control manager, or fails.
Dispatch ==
  /\ phase = "dispatching"
  /\ Go(IF mode = "service" THEN "registering" ELSE "arguments")
  /\ UNCHANGED <<logVars, asked, service, outcome>>

DispatchFails ==
  /\ phase = "dispatching"
  /\ mode = "service"
  /\ Go("ended")
  /\ report' = "stderr"
  /\ code' = 1
  /\ UNCHANGED <<logVars, asked, service, result, errorLine>>

\* No arguments and no files to go by: the help is shown.
ShowHelp ==
  /\ phase = "arguments" /\ mode = "cli"
  /\ request = "nothing" /\ ~ found
  /\ Go("ended")
  /\ code' = 2
  /\ UNCHANGED <<logVars, asked, service, result, errorLine, report>>

\* --init: templates are written; the first error decides.
InitTemplates ==
  /\ phase = "arguments" /\ mode = "cli"
  /\ request = "init"
  /\ \E r \in {"ok", "Usage", "TemplateWrite"} : Fail(r, "closed")
  /\ UNCHANGED <<logVars, asked, service>>

GoOn ==
  /\ phase = "arguments" /\ mode = "cli"
  /\ request # "init"
  /\ request = "nothing" => found
  /\ Go("runtime")
  /\ UNCHANGED <<logVars, asked, service, outcome>>

-----------------------------------------------------------------------------
(***************************************************************************)
(* run_service and run_watcher                                              *)
(***************************************************************************)

\* service_control_handler::register, then set_start_pending(1).
Register ==
  /\ phase = "registering"
  /\ Go("arguments")
  /\ status' = "start_pending_1"
  /\ UNCHANGED <<logVars, asked, stop, started, outcome>>

\* Nobody is told: service_main prints to a stderr that leads nowhere.
RegisterFails ==
  /\ phase = "registering"
  /\ Fail("Runtime", "ended")
  /\ UNCHANGED <<logVars, asked, service>>

\* parse_service_args.
ServiceArguments ==
  /\ phase = "arguments" /\ mode = "service"
  /\ IF ~ found THEN Fail("Usage", "closed")
     ELSE Go("runtime") /\ UNCHANGED outcome
  /\ UNCHANGED <<logVars, asked, service>>

\* The runtime is built; the service reports its progress.
BuildRuntime ==
  /\ phase = "runtime"
  /\ Go("loading")
  /\ status' = IF mode = "service" THEN "start_pending_2" ELSE status
  /\ UNCHANGED <<logVars, asked, stop, started, outcome>>

RuntimeFails ==
  /\ phase = "runtime"
  /\ Fail("Runtime", "closed")
  /\ UNCHANGED <<logVars, asked, service>>

-----------------------------------------------------------------------------
(***************************************************************************)
(* run and run_watcher_inner                                                *)
(***************************************************************************)

\* resolve_config_path (the service has done that) and config::load.
Loaded == IF found THEN Load(config) ELSE "Usage"

LoadConfig ==
  /\ phase = "loading"
  /\ IF Loaded # "ok" THEN Fail(Loaded, "closed")
     ELSE /\ Go(IF request = "validate" THEN "closed" ELSE "logger")
          /\ UNCHANGED outcome
  /\ UNCHANGED <<logVars, asked, service>>

\* Logger::new_system
OpenLogger ==
  /\ phase = "logger"
  /\ Go(IF mode = "service" THEN "reporting" ELSE "starting")
  /\ UNCHANGED <<logVars, asked, service, outcome>>

\* The service is Running, and can be told to stop, only now.
ReportRunning ==
  /\ phase = "reporting"
  /\ Go("starting")
  /\ status' = "running"
  /\ started' = TRUE
  /\ UNCHANGED <<logVars, asked, stop, outcome>>

\* The future ends with the error, and the logger is dropped.
ReportFails ==
  /\ phase = "reporting"
  /\ Fail("Runtime", "closed")
  /\ IF subject = "system" THEN Cancel ELSE UNCHANGED logVars
  /\ UNCHANGED <<asked, service>>

\* start_watching up to run_router: the watches are registered - a folder may
\* be gone since it was checked - and the rules are compiled.
StartWatching ==
  /\ phase = "starting"
  /\ CompileRules(LoadedRules(config))
  /\ Go("watching")
  /\ UNCHANGED <<logVars, asked, service, outcome>>

WatchFails ==
  /\ phase = "starting"
  /\ Fail("Watch", IF subject = "system" THEN "failed" ELSE "closed")
  /\ UNCHANGED <<logVars, asked, service>>

\* Ctrl+C ends run_router, and start_watching returns.
Interrupt ==
  /\ phase = "watching" /\ mode = "cli"
  /\ Go("closing")
  /\ UNCHANGED <<logVars, asked, service, outcome>>

\* The phases in which this logger is there and may be logged to.
LoggerPhases == IF subject = "system"
                THEN {"starting", "watching", "closing", "flushing"}
                ELSE {"watching"}

\* Before an error may have to be logged, room is left for its line.
LogLine(what) ==
  /\ phase \in LoggerPhases
  /\ config \in Chatty
  /\ phase = "starting" => Len(logged) + 1 < MaxEntries
  /\ Log(what)
  /\ UNCHANGED processVars

\* Mutant of LogFailure: it does not either.
LeaveUnlogged ==
  /\ phase = "failed" /\ mode = "cli"
  /\ Go("closing")
  /\ UNCHANGED <<logVars, asked, service, outcome>>

\* run logs the error of start_watching; run_watcher_inner does not.
LogFailure ==
  /\ phase = "failed" /\ mode = "cli"
  /\ Log("line")
  /\ errorLine' = Len(logged')
  /\ Go("closing")
  /\ UNCHANGED <<asked, service, result, report, code>>

FailUnlogged ==
  /\ phase = "failed" /\ mode = "service"
  /\ Go("closing")
  /\ UNCHANGED <<logVars, asked, service, outcome>>

\* log.shutdown()
CloseLog ==
  /\ phase = "closing"
  /\ Shutdown
  /\ Go("flushing")
  /\ UNCHANGED <<asked, service, outcome>>

\* Mutant of LogFlushed: the handle is not awaited.
LogForgotten ==
  /\ phase = "flushing"
  /\ owner' = "exited"
  /\ Go("closed")
  /\ UNCHANGED <<opts, day, logged, queue, writer, task, file, missed, asked,
                 service, outcome>>

\* log_handle.await returns.
LogFlushed ==
  /\ phase = "flushing"
  /\ Exit
  /\ Go("closed")
  /\ UNCHANGED <<asked, service, outcome>>

-----------------------------------------------------------------------------
(***************************************************************************)
(* The service is told to stop                                              *)
(***************************************************************************)

\* Mutant of Remembered: a notification only those who wait are woken by.
OnlyIfAwaited == IF phase = "watching" THEN "requested" ELSE "lost"

\* The channel keeps what was sent before anybody waits.
Remembered == "requested"

\* The event handler; the control is accepted while the service is Running.
RequestStop ==
  /\ status = "running"
  /\ stop = "none"
  /\ stop' = Remembered
  /\ UNCHANGED <<logVars, asked, phase, status, started, outcome>>

\* select!: start_watching is dropped where it stands, or was never polled.
\* A rule's logger goes with it; the system logger is shut down.
TakeStop ==
  /\ phase \in {"starting", "watching"}
  /\ stop = "requested"
  /\ stop' = "taken"
  /\ status' = "stop_pending"
  /\ Go(IF subject = "system" THEN "closing" ELSE "closed")
  /\ IF subject = "rule" /\ phase = "watching" THEN Cancel
     ELSE UNCHANGED logVars
  /\ UNCHANGED <<asked, started, outcome>>

-----------------------------------------------------------------------------
(***************************************************************************)
(* The end                                                                  *)
(***************************************************************************)

\* The runtime is dropped, and what nobody awaits ends where it stands.
Abandon ==
  /\ phase = "closed"
  /\ owner = "cancelled"
  /\ Exit
  /\ UNCHANGED processVars

AllDropped == phase = "closed" /\ owner # "cancelled"

\* exit_with, or exit(0).
ExitProcess ==
  /\ AllDropped /\ mode = "cli"
  /\ Go("ended")
  /\ report' = IF result = "ok" THEN "none" ELSE "stderr"
  /\ code' = IF result = "ok" THEN 0 ELSE ExitCode(result)
  /\ UNCHANGED <<logVars, asked, service, result, errorLine>>

\* write_startup_error_log: into the first of three places that takes it.
WriteStartupError ==
  /\ AllDropped /\ mode = "service"
  /\ report' \in IF result # "ok" /\ ~ started
                 THEN {"startup_log", "unwritable"} ELSE {"none"}
  /\ Go("stopping")
  /\ UNCHANGED <<logVars, asked, service, result, errorLine, code>>

\* exit_code_for
ReportStopped ==
  /\ phase = "stopping"
  /\ Go("ended")
  /\ status' = "stopped"
  /\ code' = IF result = "ok" THEN 0 ELSE ExitCode(result)
  /\ UNCHANGED <<logVars, asked, stop, started, result, errorLine, report>>

-----------------------------------------------------------------------------
LogTask == Writer /\ UNCHANGED processVars

NextDay == phase \in LoggerPhases /\ config \in Chatty /\ Midnight /\ UNCHANGED processVars

Steps ==
  \/ Dispatch \/ ShowHelp \/ InitTemplates \/ GoOn
  \/ Register \/ ServiceArguments \/ BuildRuntime \/ LoadConfig \/ OpenLogger
  \/ ReportRunning \/ StartWatching \/ TakeStop
  \/ LogFailure \/ FailUnlogged \/ CloseLog \/ LogFlushed
  \/ Abandon \/ ExitProcess \/ WriteStartupError \/ ReportStopped

Faults == DispatchFails \/ RegisterFails \/ RuntimeFails \/ ReportFails \/ WatchFails

ProcessNext ==
  \/ Steps \/ Faults \/ LogTask \/ NextDay
  \/ Interrupt \/ RequestStop \/ \E what \in What : LogLine(what)

ProcessSpec == ProcessInit /\ [][ProcessNext]_vars

(***************************************************************************)
(* The process and the logger's task are scheduled.  Nothing is assumed of   *)
(* the user, of those who log, and of what may fail.                         *)
(***************************************************************************)
FairProcess == ProcessSpec /\ WF_vars(Steps) /\ WF_vars(LogTask)
=============================================================================
