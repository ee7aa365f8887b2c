--------------------------- MODULE ProcessProofs ----------------------------
(***************************************************************************)
(* For every set of configurations, every number of entries and of days:     *)
(* what is watched was checked, the process uses its logger the way          *)
(* LogWriter assumes, and a failure is told where it can be seen.            *)
(*                                                                          *)
(* The logger's own invariant is not proved again: every step of the process *)
(* is one of its steps or leaves it alone, so what holds of LogWriter's      *)
(* behaviours holds here.  The invariant added follows the error from where  *)
(* it arises to where it is told (Course, ByTheEnd), and the line that        *)
(* reports it (LineLogged).                                                  *)
(***************************************************************************)
EXTENDS ProcessProperties, LogWriterProofs

-----------------------------------------------------------------------------
(***************************************************************************)
(* What loading guarantees, for every configuration: the number of rules    *)
(* and actions, the values and the disk are arbitrary.                      *)
(***************************************************************************)

(***************************************************************************)
(* An action with the defaults differs from the one written in the keys that *)
(* can be inherited, and in nothing else.                                    *)
(***************************************************************************)
LEMMA DefaultsKeep ==
  ASSUME NEW a \in RawActions, NEW g \in Globals
  PROVE  LET b == ApplyDefaults(a, g)
         IN  /\ b.type = a.type
             /\ b.keys = a.keys \cup Inherited(a, g)
             /\ b.destination = a.destination
             /\ b.shell = a.shell
             /\ b.command = a.command
             /\ b.program = a.program
             /\ b.args = a.args
             /\ b.working_dir = a.working_dir
             /\ b.auto_create = IF "auto_create" \in Inherited(a, g)
                                THEN AutoCreateDestination(g) ELSE a.auto_create
             /\ b.wait = IF "wait" \in Inherited(a, g)
                         THEN WaitForProcess(g) ELSE a.wait
             /\ b.timeout_ms = IF "timeout_ms" \in Inherited(a, g)
                               THEN g.timeout_ms ELSE a.timeout_ms
BY DEF ApplyDefaults, RawActions

(***************************************************************************)
(* Defaults never make an action invalid that was not: copy and move inherit *)
(* no key they do not take, and nothing that is missing is filled in.        *)
(* loader.rs:126-128.                                                        *)
(***************************************************************************)
THEOREM DefaultsRejectNothing ==
  ASSUME NEW a \in RawActions, NEW g \in Globals
  PROVE  /\ RejectedFields(ApplyDefaults(a, g)) = RejectedFields(a)
         /\ MissingFields(ApplyDefaults(a, g)) = MissingFields(a)
<1>1. /\ ApplyDefaults(a, g).type = a.type
      /\ ApplyDefaults(a, g).keys = a.keys \cup Inherited(a, g)
  BY DefaultsKeep
<1>2. RejectedFields(ApplyDefaults(a, g)) = RejectedFields(a)
  BY <1>1 DEF RejectedFields, Inherited, SpawnsProcess
<1>3. MissingFields(ApplyDefaults(a, g)) = MissingFields(a)
  <2>1. a.type \in Types
    BY DEF RawActions
  <2>2. Requirements(a.type) \cap {"auto_create", "wait", "timeout_ms"} = {}
    BY <2>1 DEF Requirements, Types, TransferKeys, CommandKeys, ExecuteKeys
  <2>3. Inherited(a, g) \subseteq {"auto_create", "wait", "timeout_ms"}
    BY DEF Inherited
  <2> QED BY <1>1, <2>2, <2>3 DEF MissingFields
<1> QED BY <1>2, <1>3

(***************************************************************************)
(* What is converted when an action runs has the settings it was meant to    *)
(* have: its own, else those of global.toml, else the program's.             *)
(***************************************************************************)
LEMMA ConvertsAsWritten ==
  ASSUME NEW a \in RawActions, NEW g \in Globals,
         MissingFields(ApplyDefaults(a, g)) = {}
  PROVE  TryFrom(ApplyDefaults(a, g)) = AsWritten(a, g)
<1> DEFINE b == ApplyDefaults(a, g)
<1>1. /\ b.type = a.type
      /\ b.keys = a.keys \cup Inherited(a, g)
      /\ b.auto_create = IF "auto_create" \in Inherited(a, g)
                         THEN AutoCreateDestination(g) ELSE a.auto_create
      /\ b.wait = IF "wait" \in Inherited(a, g) THEN WaitForProcess(g) ELSE a.wait
      /\ b.timeout_ms = IF "timeout_ms" \in Inherited(a, g)
                        THEN g.timeout_ms ELSE a.timeout_ms
  BY DefaultsKeep
<1>2. MissingFields(b) = {}
  OBVIOUS
<1>t. /\ a.auto_create \in BOOLEAN /\ a.wait \in BOOLEAN
      /\ g.auto_create \in BOOLEAN /\ g.wait \in BOOLEAN
  BY DEF RawActions, Globals
<1> HIDE DEF b
<1>3. CASE SpawnsProcess(a.type)
  <2>1. "wait" \in b.keys
    BY <1>1, <1>3 DEF Inherited
  <2>2. b.wait = Own(a, g, "wait", a.wait, g.wait, FALSE)
    BY <1>1, <1>3, <1>t DEF Inherited, WaitForProcess, Own
  <2>3. "timeout_ms" \in b.keys <=> "timeout_ms" \in a.keys \cup g.keys
    BY <1>1, <1>3 DEF Inherited
  <2>4. (IF "timeout_ms" \in b.keys THEN b.timeout_ms ELSE Unlimited)
          = Own(a, g, "timeout_ms", a.timeout_ms, g.timeout_ms, Unlimited)
    BY <1>1, <1>3, <2>3 DEF Inherited, Own
  <2>5. ("wait" \in b.keys /\ b.wait) = Own(a, g, "wait", a.wait, g.wait, FALSE)
    BY <2>1, <2>2, <1>t DEF Own
  <2>6. SpawnsProcess(b.type) /\ b.type = a.type
    BY <1>1, <1>3
  <2>7. TryFrom(b) = ProcessWait(b)
    BY <1>2, <2>6 DEF TryFrom
  <2>8. ProcessWait(b) = AsWritten(a, g)
    BY <1>3, <2>4, <2>5, <2>6, Zenon DEF ProcessWait, AsWritten
  <2> QED BY <2>7, <2>8 DEF b
<1>4. CASE ~ SpawnsProcess(a.type)
  <2>1. "auto_create" \in b.keys
    BY <1>1 DEF Inherited
  <2>2. ("auto_create" \in b.keys => b.auto_create)
          = Own(a, g, "auto_create", a.auto_create, g.auto_create, TRUE)
    BY <1>1, <1>t, <2>1 DEF Inherited, AutoCreateDestination, Own
  <2>3. ~ SpawnsProcess(b.type) /\ b.type = a.type
    BY <1>1, <1>4
  <2>4. TryFrom(b) = TransferFrom(b)
    BY <1>2, <2>3 DEF TryFrom
  <2>5. TransferFrom(b) = AsWritten(a, g)
    BY <1>4, <2>2, <2>3, Zenon DEF TransferFrom, AsWritten
  <2> QED BY <2>4, <2>5 DEF b
<1> QED BY <1>3, <1>4

(***************************************************************************)
(* An action without problems can be run.                                   *)
(***************************************************************************)
LEMMA CheckedActionRuns ==
  ASSUME NEW a \in RawActions, NEW g \in Globals,
         ActionErrors(ApplyDefaults(a, g)) = {},
         PlaceholderErrors(ApplyDefaults(a, g)) = {}
  PROVE  /\ TryFrom(ApplyDefaults(a, g)) = AsWritten(a, g)
         /\ Runnable(a)
         /\ HasDestination(a, g)
<1> DEFINE b == ApplyDefaults(a, g)
<1>1. /\ b.type = a.type
      /\ b.keys = a.keys \cup Inherited(a, g)
      /\ b.destination = a.destination
      /\ b.shell = a.shell
      /\ b.command = a.command
      /\ b.program = a.program
      /\ b.working_dir = a.working_dir
      /\ b.auto_create = IF "auto_create" \in Inherited(a, g)
                         THEN AutoCreateDestination(g) ELSE a.auto_create
  BY DefaultsKeep
<1>2. /\ MissingFields(b) = {}
      /\ ValueErrors(b) = {}
      /\ PlaceholderErrors(b) = {}
  BY DEF ActionErrors
<1>3. TryFrom(b) = AsWritten(a, g)
  BY <1>2, ConvertsAsWritten
<1>t. a.type \in Types /\ a.auto_create \in BOOLEAN /\ g.auto_create \in BOOLEAN
  BY DEF RawActions, Globals
<1> HIDE DEF b
<1>4. Requirements(a.type) \subseteq b.keys
  BY <1>1, <1>2 DEF MissingFields
<1>5. a.type = "command" => /\ a.shell.listed
                            /\ Resolve(a.shell.program) = "found"
                            /\ ~ FindUnknownPlaceholder(a.command)
  <2> SUFFICES ASSUME a.type = "command"
               PROVE  /\ a.shell.listed
                      /\ Resolve(a.shell.program) = "found"
                      /\ ~ FindUnknownPlaceholder(a.command)
    OBVIOUS
  <2>1. "shell" \in b.keys /\ "command" \in b.keys
    BY <1>4 DEF Requirements, CommandKeys
  <2>2. CheckShell(b) = {}
    BY <1>1, <1>2 DEF ValueErrors
  <2>3. a.shell.listed /\ CheckExecutable(a.shell.program, "shell") = {}
    BY <1>1, <2>1, <2>2 DEF CheckShell
  <2>4. ~ FindUnknownPlaceholder(a.command)
    BY <1>1, <1>2, <2>1 DEF PlaceholderErrors, When
  <2> QED BY <2>3, <2>4 DEF CheckExecutable
<1>6. a.type = "execute" => /\ Resolve(a.program) = "found"
                            /\ a.program.names = {}
  <2> SUFFICES ASSUME a.type = "execute"
               PROVE  Resolve(a.program) = "found" /\ a.program.names = {}
    OBVIOUS
  <2>1. "program" \in b.keys
    BY <1>4 DEF Requirements, ExecuteKeys
  <2>2. ~ FindAnyPlaceholder(a.program.names)
    BY <1>1, <1>2, <2>1 DEF PlaceholderErrors, When
  <2>3. CheckProgram(b) = {}
    BY <1>1, <1>2 DEF ValueErrors
  <2>4. CheckExecutable(a.program, "program") = {}
    BY <1>1, <2>1, <2>2, <2>3 DEF CheckProgram
  <2> QED BY <2>2, <2>4 DEF CheckExecutable, FindAnyPlaceholder
<1>7. SpawnsProcess(a.type) => /\ a.working_dir.names = {}
                               /\ a.working_dir.path # "missing"
  <2> SUFFICES ASSUME SpawnsProcess(a.type)
               PROVE  a.working_dir.names = {} /\ a.working_dir.path # "missing"
    OBVIOUS
  <2>1. "working_dir" \in b.keys
    BY <1>4 DEF Requirements, CommandKeys, ExecuteKeys, SpawnsProcess
  <2>2. ~ FindAnyPlaceholder(a.working_dir.names)
    BY <1>1, <1>2, <2>1 DEF PlaceholderErrors, When
  <2>3. CheckWorkingDir(b) = {}
    BY <1>1, <1>2 DEF ValueErrors, SpawnsProcess
  <2> QED BY <1>1, <2>1, <2>2, <2>3 DEF CheckWorkingDir, When, FindAnyPlaceholder
<1>8. ASSUME a.type \in {"copy", "move"}
      PROVE  /\ ~ FindUnknownPlaceholder(a.destination.names)
             /\ HasDestination(a, g)
  <2>1. "destination" \in b.keys /\ "auto_create" \in b.keys
    BY <1>1, <1>4, <1>8 DEF Requirements, TransferKeys, Inherited
  <2>2. ~ FindUnknownPlaceholder(a.destination.names)
    BY <1>1, <1>2, <2>1 DEF PlaceholderErrors, When
  <2>3. CheckDestination(b) = {}
    BY <1>1, <1>2, <1>8 DEF ValueErrors
  <2>4. ~ DestinationMissing(a.destination, b.auto_create)
    <3>1. ~ DestinationMissing(b.destination,
                               "auto_create" \in b.keys => b.auto_create)
      BY <2>1, <2>3, Zenon DEF CheckDestination, When
    <3> QED BY <1>1, <2>1, <3>1 DEF DestinationMissing
  <2>5. b.auto_create = AsWritten(a, g).auto_create
    <3>1. AsWritten(a, g).auto_create
            = Own(a, g, "auto_create", a.auto_create, g.auto_create, TRUE)
      BY <1>8 DEF AsWritten, SpawnsProcess
    <3>2. b.auto_create
            = Own(a, g, "auto_create", a.auto_create, g.auto_create, TRUE)
      BY <1>1, <1>t DEF Inherited, AutoCreateDestination, Own
    <3> QED BY <3>1, <3>2
  <2>6. /\ a.destination.root # "lost"
        /\ b.auto_create \/ a.destination.root \in {"open", "folder"}
    BY <2>4 DEF DestinationMissing
  <2> QED BY <2>2, <2>5, <2>6 DEF HasDestination
<1>9. Runnable(a)
  BY <1>5, <1>6, <1>7, <1>8 DEF Runnable
<1>10. HasDestination(a, g)
  BY <1>8 DEF HasDestination
<1> QED BY <1>3, <1>9, <1>10 DEF b

(***************************************************************************)
(* A rule without problems is sound.                                        *)
(***************************************************************************)
LEMMA CheckedRuleIsSound ==
  ASSUME NEW r \in Rules, NEW g \in Globals, RuleErrors(WithDefaults(r, g)) = {}
  PROVE  RuleIsSound(r, g)
<1> DEFINE s == WithDefaults(r, g)
<1>1. /\ s.filters = r.filters
      /\ s.actions = [j \in DOMAIN r.actions |-> ApplyDefaults(r.actions[j], g)]
  BY DEF WithDefaults, Rules
<1>2. /\ \A key \in FilterKeys : FilterErrors(s.filters[key], key) = {}
      /\ \A j \in DOMAIN s.actions : /\ ActionErrors(s.actions[j]) = {}
                                     /\ PlaceholderErrors(s.actions[j]) = {}
  <2> HIDE DEF s
  <2>1. RuleErrors(s) = {}
    BY DEF s
  <2>2. PatternErrors(s) = {} /\ ChainErrors(s) = {}
    BY <2>1 DEF RuleErrors
  <2>4. ASSUME NEW key \in FilterKeys PROVE FilterErrors(s.filters[key], key) = {}
    BY <2>2, <2>4 DEF PatternErrors
  <2>5. ASSUME NEW j \in DOMAIN s.actions
        PROVE  /\ ActionErrors(s.actions[j]) = {}
               /\ PlaceholderErrors(s.actions[j]) = {}
    BY <2>2, <2>5 DEF ChainErrors
  <2> QED BY <2>4, <2>5
<1> HIDE DEF s
<1>3. ASSUME NEW key \in FilterKeys PROVE Compiles(s.filters[key])
  BY <1>2 DEF FilterErrors, SyntaxErrors, When, Compiles
<1>4. ASSUME NEW j \in DOMAIN r.actions
      PROVE  LET a == r.actions[j]
             IN  /\ TryFrom(ApplyDefaults(a, g)) = AsWritten(a, g)
                 /\ Runnable(a)
                 /\ HasDestination(a, g)
  <2>1. r.actions[j] \in RawActions
    BY DEF Rules
  <2>2. s.actions[j] = ApplyDefaults(r.actions[j], g) /\ j \in DOMAIN s.actions
    BY <1>1
  <2> QED BY <1>2, <2>1, <2>2, CheckedActionRuns
<1> QED BY <1>3, <1>4 DEF RuleIsSound, s

(***************************************************************************)
(* Checking is enough: whatever configuration is loaded without an error,    *)
(* its timer can be made, its patterns compile and its actions convert, with *)
(* the settings they were meant to have.                                     *)
(***************************************************************************)
THEOREM LoadedConfigIsSound ==
  ASSUME NEW c \in Configurations, Load(c) = "ok"
  PROVE  ConfigIsSound(c)
<1>1. Problems(c) = {}
  <2>1. c.globalFile \in Files /\ c.rulesFile \in Files
    BY DEF Configurations
  <2>2. c.globalFile = "read" /\ c.rulesFile = "read"
    BY <2>1 DEF Load, Files
  <2> QED BY <2>2 DEF Load
<1>t. c.global \in Globals /\ c.rules \in Seq(Rules)
  BY DEF Configurations
<1>2. PollInterval(c.global) > 0
  <2>1. PollInterval(c.global) # 0
    BY <1>1 DEF Problems, GlobalErrors, When
  <2>2. PollInterval(c.global) \in Nat
    BY <1>t DEF PollInterval, DefaultPollInterval, Globals
  <2> QED BY <2>1, <2>2
<1>3. ASSUME NEW i \in DOMAIN c.rules PROVE RuleIsSound(c.rules[i], c.global)
  <2>1. LoadedRules(c)[i] = WithDefaults(c.rules[i], c.global)
    BY DEF LoadedRules
  <2>2. i \in DOMAIN LoadedRules(c)
    BY DEF LoadedRules
  <2>3. UNION {RuleErrors(LoadedRules(c)[k]) : k \in DOMAIN LoadedRules(c)} = {}
    BY <1>1 DEF Problems, RulesErrors
  <2>4. RuleErrors(LoadedRules(c)[i]) = {}
    BY <2>2, <2>3
  <2>5. c.rules[i] \in Rules
    BY <1>t
  <2> QED BY <1>t, <2>1, <2>4, <2>5, CheckedRuleIsSound
<1> QED BY <1>2, <1>3 DEF ConfigIsSound

-----------------------------------------------------------------------------
(***************************************************************************)
(* The process                                                              *)
(***************************************************************************)

LoadErrors == {"Usage", "ConfigRead", "ConfigParse", "ConfigInvalid"}
Results    == {"ok", "TemplateWrite"} \cup LoadErrors \cup RunErrors

Early == {"dispatching", "registering", "arguments", "runtime", "loading"}
Later == {"logger", "reporting", "starting", "watching"}

ProcessTypeInv ==
  /\ config \in Configs
  /\ mode \in Modes /\ phase \in Phases /\ result \in Results
  /\ mode = "service" => request = "watch"
  /\ mode = "cli" => phase \notin {"registering", "reporting", "stopping"}

Accepted == found /\ Load(config) = "ok"

\* How far it came tells what can have gone wrong so far.
Course ==
  /\ phase \in Early \cup Later => result = "ok"
  /\ phase \in Later => Accepted
  /\ phase = "failed" => result = "Watch" /\ subject = "system"
  /\ phase \in {"closing", "flushing"} => result \in {"ok", "Watch"}
  /\ result = "Watch" => Accepted
  /\ result \in StartErrors => request = "init" \/ ~ Accepted
  /\ phase # "ended" => code = NoCode
  /\ phase \in {"dispatching", "registering"} => status = "unknown"

\* The owner of the logger.
Owner ==
  /\ phase \in Early \cup Later \cup {"failed", "closing"} => owner = "running"
  /\ phase = "flushing" => owner = "awaiting"

Told(e) == e = "ok" \/ report \in {"startup_log", "unwritable"}

\* What was told when the process has ended.
ByTheEnd ==
  /\ phase = "stopping" => started \/ Told(result)
  /\ (phase = "ended" /\ result # "ok") =>
       IF mode = "cli" THEN report = "stderr" /\ code = ExitCode(result)
       ELSE \/ status = "unknown" /\ code = NoCode
            \/ /\ status = "stopped" /\ code = ExitCode(result)
               /\ started \/ Told(result)

\* The line about the error was logged before the shutdown.
LineLogged ==
  (/\ mode = "cli" /\ subject = "system" /\ result = "Watch"
   /\ phase # "failed") =>
    /\ Due(logged, errorLine)
    /\ phase \in {"closing", "flushing", "closed", "ended"}
    /\ phase \in {"closed", "ended"} => owner = "exited"

PInv == ProcessTypeInv /\ Course /\ Owner /\ ByTheEnd /\ LineLogged

-----------------------------------------------------------------------------
(***************************************************************************)
(* The composition.                                                         *)
(***************************************************************************)
LEMMA LoggerSteps == [ProcessNext]_vars => [Next]_logVars
<1> SUFFICES ASSUME [ProcessNext]_vars PROVE [Next]_logVars
  OBVIOUS
<1>1. CASE Steps
  <2>1. CASE UNCHANGED logVars
    BY <2>1
  <2>2. CASE LogFailure
    BY <2>2 DEF LogFailure, Next, What
  <2>3. CASE CloseLog
    BY <2>3 DEF CloseLog, Next
  <2>4. CASE LogFlushed
    BY <2>4 DEF LogFlushed, Next
  <2>5. CASE TakeStop
    BY <2>5 DEF TakeStop, Next
  <2>6. CASE Abandon
    BY <2>6 DEF Abandon, Next
  <2> QED BY <1>1, <2>1, <2>2, <2>3, <2>4, <2>5, <2>6
          DEF Steps, Dispatch, ShowHelp, InitTemplates, GoOn, Register,
              ServiceArguments, BuildRuntime, LoadConfig, OpenLogger,
              ReportRunning, StartWatching, FailUnlogged, ExitProcess,
              WriteStartupError, ReportStopped
<1>2. CASE Faults
  BY <1>2 DEF Faults, DispatchFails, RegisterFails, RuntimeFails, ReportFails,
              WatchFails, Next
<1>3. CASE LogTask
  BY <1>3 DEF LogTask, Next
<1>4. CASE NextDay
  BY <1>4 DEF NextDay, Next
<1>5. CASE Interrupt \/ RequestStop
  BY <1>5 DEF Interrupt, RequestStop
<1>6. CASE \E what \in What : LogLine(what)
  BY <1>6 DEF LogLine, Next
<1>7. CASE UNCHANGED vars
  BY <1>7 DEF vars
<1> QED BY <1>1, <1>2, <1>3, <1>4, <1>5, <1>6, <1>7 DEF ProcessNext

(***************************************************************************)
(* The process uses its logger the way LogWriter assumes: it implements      *)
(* LogWriter's specification.                                               *)
(***************************************************************************)
THEOREM LoggerUsedRight == ProcessSpec => UsesLoggerRight
<1>1. ProcessInit => Init
  BY DEF ProcessInit
<1>2. [ProcessNext]_vars => [Next]_logVars
  BY LoggerSteps
<1> QED BY <1>1, <1>2, PTL DEF ProcessSpec, UsesLoggerRight, Spec

(***************************************************************************)
(* What was logged before the shutdown is in a file when the process that    *)
(* awaited its logger goes on to its end, or an I/O error kept it out.       *)
(***************************************************************************)
THEOREM ProcessFlushes == ProcessSpec => []FlushedAtEnd
<1>1. ProcessSpec => Spec
  BY LoggerUsedRight DEF UsesLoggerRight
<1> QED BY <1>1, FlushedWhenEnded, PTL

(***************************************************************************)
(* The lines the process logs can be read as one log when it has ended,      *)
(* and all along.                                                           *)
(***************************************************************************)
THEOREM ProcessFilesInOrder == ProcessSpec => []FilesInOrder
<1>1. ProcessSpec => Spec
  BY LoggerUsedRight DEF UsesLoggerRight
<1> QED BY <1>1, FilesStandInOrder, PTL

-----------------------------------------------------------------------------
(***************************************************************************)
(* The course of the process.                                               *)
(***************************************************************************)
LEMMA LoadResults == \A c \in Configurations : Load(c) \in LoadErrors \cup {"ok"}
<1> SUFFICES ASSUME NEW c \in Configurations PROVE Load(c) \in LoadErrors \cup {"ok"}
  OBVIOUS
<1>1. c.globalFile \in Files /\ c.rulesFile \in Files
  BY DEF Configurations
<1> QED BY <1>1 DEF Load, Files, LoadErrors

LEMMA ProcessInitially == ProcessInit => PInv
BY DEF ProcessInit, Init, PInv, ProcessTypeInv, Course, Owner, ByTheEnd, LineLogged,
       Modes, Phases, Results, RunErrors, StartErrors, Early, Later, Requests

LEMMA EarlySteps ==
  ASSUME PInv,
         \/ Dispatch \/ DispatchFails \/ ShowHelp \/ InitTemplates \/ GoOn
         \/ Register \/ RegisterFails \/ ServiceArguments \/ BuildRuntime
         \/ RuntimeFails
  PROVE  PInv'
<1> USE DEF PInv, ProcessTypeInv, Course, Owner, ByTheEnd, LineLogged, Modes,
            Phases, Results, LoadErrors, RunErrors, StartErrors, Early, Later,
            asked, service, outcome, logVars, outside, Go, Fail, Accepted, Told
<1>1. CASE Dispatch
  BY <1>1 DEF Dispatch
<1>2. CASE DispatchFails
  BY <1>2 DEF DispatchFails
<1>3. CASE ShowHelp
  BY <1>3 DEF ShowHelp
<1>4. CASE InitTemplates
  BY <1>4 DEF InitTemplates
<1>5. CASE GoOn
  BY <1>5 DEF GoOn
<1>6. CASE Register
  BY <1>6 DEF Register
<1>7. CASE RegisterFails
  BY <1>7 DEF RegisterFails
<1>8. CASE ServiceArguments
  BY <1>8 DEF ServiceArguments
<1>9. CASE BuildRuntime
  BY <1>9 DEF BuildRuntime
<1>10. CASE RuntimeFails
  BY <1>10 DEF RuntimeFails
<1> QED BY <1>1, <1>2, <1>3, <1>4, <1>5, <1>6, <1>7, <1>8, <1>9, <1>10

LEMMA StartingSteps ==
  ASSUME PInv,
         \/ LoadConfig \/ OpenLogger \/ ReportRunning \/ ReportFails
         \/ StartWatching \/ WatchFails \/ Interrupt
  PROVE  PInv'
<1> USE DEF PInv, ProcessTypeInv, Course, Owner, ByTheEnd, LineLogged, Modes,
            Phases, Results, LoadErrors, RunErrors, StartErrors, Early, Later,
            asked, service, outcome, logVars, outside, Go, Fail, Accepted, Told
<1>1. CASE LoadConfig
  <2>1. Load(config) \in LoadErrors \cup {"ok"}
    BY LoadResults, ConfigsAssumption
  <2> QED BY <1>1, <2>1 DEF LoadConfig, Loaded
<1>2. CASE OpenLogger
  BY <1>2 DEF OpenLogger
<1>3. CASE ReportRunning
  BY <1>3 DEF ReportRunning
<1>4. CASE ReportFails
  BY <1>4 DEF ReportFails, Cancel
<1>5. CASE StartWatching
  BY <1>5 DEF StartWatching
<1>6. CASE WatchFails
  BY <1>6 DEF WatchFails
<1>7. CASE Interrupt
  BY <1>7 DEF Interrupt
<1> QED BY <1>1, <1>2, <1>3, <1>4, <1>5, <1>6, <1>7

\* A line that is logged hides none that was.
LEMMA DueKept ==
  ASSUME TypeInv, NEW what \in What, Log(what), NEW n, Due(logged, n)
  PROVE  Due(logged', n)
<1>1. /\ logged \in Seq(Record)
      /\ logged' = Append(logged, [what |-> what, day |-> day,
                                   due |-> owner = "running"])
  BY DEF TypeInv, Log
<1>2. n \in DOMAIN logged' /\ logged'[n] = logged[n]
  BY <1>1 DEF Due
<1> QED BY <1>2 DEF Due

LEMMA LoggingSteps ==
  ASSUME PInv, TypeInv,
         \/ LogFailure \/ FailUnlogged \/ CloseLog \/ LogFlushed
         \/ \E what \in What : LogLine(what)
  PROVE  PInv'
<1> USE DEF PInv, ProcessTypeInv, Course, Owner, ByTheEnd, LineLogged, Modes,
            Phases, Results, LoadErrors, RunErrors, StartErrors, Early, Later,
            asked, service, outcome, logVars, outside, Go, Fail, Accepted, Told
<1>1. CASE LogFailure
  <2> DEFINE r == [what |-> "line", day |-> day, due |-> owner = "running"]
  <2>1. /\ logged \in Seq(Record) /\ logged' = Append(logged, r)
        /\ errorLine' = Len(logged') /\ owner = "running" /\ owner' = owner
    BY <1>1 DEF LogFailure, Log, TypeInv
  <2>2. r.due /\ r.what # "other"
    BY <2>1, Zenon
  <2> HIDE DEF r
  <2>3. errorLine' \in DOMAIN logged' /\ logged'[errorLine'] = r
    BY <2>1
  <2>4. Due(logged', errorLine')
    BY <2>2, <2>3, Zenon DEF Due
  <2> QED BY <1>1, <2>1, <2>4 DEF LogFailure
<1>2. CASE FailUnlogged
  BY <1>2 DEF FailUnlogged
<1>3. CASE CloseLog
  BY <1>3 DEF CloseLog, Shutdown
<1>4. CASE LogFlushed
  BY <1>4 DEF LogFlushed, Exit
<1>5. CASE \E what \in What : LogLine(what)
  <2>1. PICK what \in What : LogLine(what)
    BY <1>5
  <2>2. /\ Log(what) /\ UNCHANGED processVars /\ UNCHANGED owner
    BY <2>1 DEF LogLine, Log
  <2>3. Due(logged, errorLine) => Due(logged', errorLine)
    BY <2>2, DueKept
  <2> QED BY <2>2, <2>3 DEF processVars
<1> QED BY <1>1, <1>2, <1>3, <1>4, <1>5

LEMMA EndingSteps ==
  ASSUME PInv, \/ RequestStop \/ TakeStop \/ Abandon \/ ExitProcess
               \/ WriteStartupError \/ ReportStopped
  PROVE  PInv'
<1> USE DEF PInv, ProcessTypeInv, Course, Owner, ByTheEnd, LineLogged, Modes,
            Phases, Results, LoadErrors, RunErrors, StartErrors, Early, Later,
            asked, service, outcome, logVars, outside, Go, Fail, Accepted, Told
<1>1. CASE RequestStop
  BY <1>1 DEF RequestStop
<1>2. CASE TakeStop
  BY <1>2 DEF TakeStop, Cancel
<1>3. CASE Abandon
  BY <1>3 DEF Abandon, Exit, processVars
<1>4. CASE ExitProcess
  BY <1>4 DEF ExitProcess, AllDropped
<1>5. CASE WriteStartupError
  BY <1>5 DEF WriteStartupError, AllDropped
<1>6. CASE ReportStopped
  BY <1>6 DEF ReportStopped
<1> QED BY <1>1, <1>2, <1>3, <1>4, <1>5, <1>6

LEMMA ProcessSteps == PInv /\ IInv /\ [ProcessNext]_vars => PInv'
<1> SUFFICES ASSUME PInv, IInv, [ProcessNext]_vars PROVE PInv'
  OBVIOUS
<1>t. TypeInv
  BY DEF IInv
<1>1. CASE Steps
  BY <1>1, <1>t, EarlySteps, StartingSteps, LoggingSteps, EndingSteps DEF Steps
<1>2. CASE Faults
  BY <1>2, EarlySteps, StartingSteps DEF Faults
<1>3. CASE LogTask
  <2>1. UNCHANGED processVars /\ UNCHANGED <<owner, logged>>
    BY <1>3 DEF LogTask, Writer, Receive, SendersGone, Collect, Collected, Roll,
                Format, Formatted, AppendLines, outside
  <2> QED BY <2>1 DEF PInv, ProcessTypeInv, Course, Accepted, Owner, ByTheEnd, Told,
                      LineLogged, processVars, asked, service, outcome
<1>4. CASE NextDay
  <2>1. UNCHANGED processVars /\ UNCHANGED <<owner, logged>>
    BY <1>4 DEF NextDay, Midnight
  <2> QED BY <2>1 DEF PInv, ProcessTypeInv, Course, Accepted, Owner, ByTheEnd, Told,
                      LineLogged, processVars, asked, service, outcome
<1>5. CASE Interrupt
  BY <1>5, StartingSteps
<1>6. CASE RequestStop
  BY <1>6, EndingSteps
<1>7. CASE \E what \in What : LogLine(what)
  BY <1>7, <1>t, LoggingSteps
<1>8. CASE UNCHANGED vars
  <2>1. UNCHANGED processVars /\ UNCHANGED <<owner, logged>>
    BY <1>8 DEF vars, logVars, outside
  <2> QED BY <2>1 DEF PInv, ProcessTypeInv, Course, Accepted, Owner, ByTheEnd, Told,
                      LineLogged, processVars, asked, service, outcome
<1> QED BY <1>1, <1>2, <1>3, <1>4, <1>5, <1>6, <1>7, <1>8 DEF ProcessNext

LEMMA ProcessInvariant == ProcessSpec => [](PInv /\ IInv)
<1>1. ProcessInit => PInv
  BY ProcessInitially
<1>2. ProcessSpec => []IInv
  <2>1. ProcessSpec => Spec
    BY LoggerUsedRight DEF UsesLoggerRight
  <2> QED BY <2>1, LoggerInvariant, PTL
<1>3. PInv /\ IInv /\ [ProcessNext]_vars => PInv'
  BY ProcessSteps
<1> QED BY <1>1, <1>2, <1>3, PTL DEF ProcessSpec

(***************************************************************************)
(* For every configuration: what is watched was checked, and the check was   *)
(* enough.  main.rs:168-197, service.rs:219-284.                             *)
(***************************************************************************)
THEOREM CheckedBeforeWatching == ProcessSpec => []WatchesOnlyWhatWasChecked
<1>1. PInv => WatchesOnlyWhatWasChecked
  <2> SUFFICES ASSUME PInv, phase \in {"starting", "watching"}
               PROVE  ConfigIsSound(config)
    BY DEF WatchesOnlyWhatWasChecked
  <2>1. config \in Configurations /\ Load(config) = "ok"
    BY ConfigsAssumption DEF PInv, ProcessTypeInv, Course, Later, Accepted
  <2> QED BY <2>1, LoadedConfigIsSound
<1> QED BY <1>1, ProcessInvariant, PTL

\* The line that was logged is in a file when the process has ended.
LEMMA LineKept ==
  ASSUME IInv, owner = "exited", Due(logged, errorLine)
  PROVE  ErrorLineKept
<1>1. errorLine \in DOMAIN logged /\ logged[errorLine].due
      /\ logged[errorLine].what # "other"
  BY DEF Due
<1>2. errorLine # 0
  BY <1>1 DEF IInv, TypeInv
<1>3. FlushedAtEnd
  BY EndedMeansFlushed
<1> QED BY <1>1, <1>2, <1>3 DEF ErrorLineKept, FlushedAtEnd

(***************************************************************************)
(* A failure is told where it can be seen, and its line, once there is a     *)
(* log, is not lost by the shutdown that follows it.  main.rs:151-197,       *)
(* service.rs:85-126, 140-170.                                              *)
(***************************************************************************)
THEOREM FailureIsTold == ProcessSpec => []FailuresAreTold
<1>1. PInv /\ IInv => FailuresAreTold
  <2> SUFFICES ASSUME PInv, IInv, phase = "ended", result # "ok"
               PROVE  FailuresAreTold
    BY DEF FailuresAreTold
  <2>1. ExitCode(result) \in {10, 12}
    BY DEF ExitCode
  <2>2. /\ ExitCode(result) = 10 => result \in StartErrors
        /\ ExitCode(result) = 12 => result \in RunErrors
    BY DEF ExitCode, PInv, ProcessTypeInv, Results, LoadErrors, StartErrors
  <2>3. (mode = "cli" /\ result = "Watch" /\ subject = "system") => ErrorLineKept
    BY LineKept DEF PInv, LineLogged
  <2>4. /\ mode = "cli" => report = "stderr" /\ code = ExitCode(result)
        /\ mode = "service" =>
             \/ status = "unknown" /\ code = NoCode
             \/ /\ status = "stopped" /\ code = ExitCode(result)
                /\ started \/ report \in {"startup_log", "unwritable"}
    BY DEF PInv, ByTheEnd, Told
  <2>5. /\ result = "Watch" => found /\ Load(config) = "ok"
        /\ result \in StartErrors =>
             request = "init" \/ ~ found \/ Load(config) # "ok"
    BY DEF PInv, Course, Accepted
  <2>6. code = 10 \/ code = 12 => code = ExitCode(result)
    BY <2>4 DEF PInv, ProcessTypeInv, Modes, NoCode
  <2> QED BY <2>1, <2>2, <2>3, <2>4, <2>5, <2>6
          DEF FailuresAreTold, RunErrors
<1> QED BY <1>1, ProcessInvariant, PTL
=============================================================================
