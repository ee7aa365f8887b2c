------------------------------- MODULE Config -------------------------------
(***************************************************************************)
(* The configuration (config/*.rs, exe_path.rs, placeholder.rs): global.toml *)
(* and rules.toml are read, the defaults of the one are written into the     *)
(* actions of the other, both are checked, and later, when the rules are     *)
(* compiled and when an action runs, they are converted.                     *)
(*                                                                          *)
(* A value stands for what the checks tell apart of it, what is found on the *)
(* disk under it included.  A key that may be left out is in "keys" when it  *)
(* is written.  A problem is a pair: the key and what is wrong with it.      *)
(***************************************************************************)
EXTENDS Naturals, Sequences

Types == {"copy", "move", "command", "execute"}

\* PLACEHOLDER_REGEX: the names a text has in braces.
Names == {"known", "unknown"}
Texts == SUBSET Names

FindAnyPlaceholder(text)     == text # {}
FindUnknownPlaceholder(text) == "unknown" \in text

\* The part of a destination before its first placeholder: nothing at all, an
\* existing folder, a path under one, a relative path that does not exist, a
\* path of which not even the drive does.
Roots == {"open", "folder", "creatable", "relative", "lost"}
Destinations == [root : Roots, names : Texts]

\* The candidate files of a program that exist, folder by folder: for a path
\* one folder, for a name those of PATH.
FileStates == {"plain", "executable"}
Programs == [form : {"blank", "path", "name"}, folders : SUBSET SUBSET FileStates,
             names : Texts]
Shells   == [listed : BOOLEAN, program : Programs]
WorkDirs == [path : {"blank", "folder", "missing"}, names : Texts]

ActionKeys == {"destination", "overwrite", "preserve_structure",
               "verify_integrity", "auto_create", "shell", "command", "program",
               "args", "working_dir", "wait", "timeout_ms"}

\* ActionConfig
RawActions ==
  [type : Types, keys : SUBSET ActionKeys, destination : Destinations,
   auto_create : BOOLEAN, shell : Shells, command : Texts, program : Programs,
   args : SUBSET Texts, working_dir : WorkDirs, wait : BOOLEAN, timeout_ms : Nat]

\* What is written of a pair of pattern keys: "given" is whether the list is.
Syntaxes == {"good", "bad"}
Filters  == [given : BOOLEAN, globs : SUBSET Syntaxes,
             regex : Syntaxes \cup {"absent"}]
FilterKeys == {"patterns", "exclude_patterns", "exclude_dir_patterns",
               "dir_patterns"}

\* SystemLogConfig, RuleLogTarget
LogTargets == [enabled : BOOLEAN,
               dir : {"blank", "missing", "file", "folder"},
               file_name : {"blank", "plain", "dated", "unknown"}]

\* Rule and its Watch; a log that is left out is one that is not enabled.
Rules == [named : BOOLEAN, folder : BOOLEAN, events : BOOLEAN,
          filters : [FilterKeys -> Filters], detect : LogTargets,
          action : LogTargets, actions : Seq(RawActions)]

\* GlobalConfig.  Leaving out a section is leaving out its keys.
GlobalKeys == {"auto_create", "wait", "timeout_ms", "poll_interval_ms"}
Globals == [keys : SUBSET GlobalKeys, auto_create : BOOLEAN, wait : BOOLEAN,
            timeout_ms : Nat, poll_interval_ms : Nat, system_log : LogTargets,
            dashboard : [enabled : BOOLEAN, bind : Syntaxes]]

\* What read_toml finds.
Files == {"read", "unreadable", "unparsable"}
Configurations == [globalFile : Files, global : Globals,
                   rulesFile : Files, rules : Seq(Rules)]

-----------------------------------------------------------------------------
(***************************************************************************)
(* What a type of action needs, and what it does not take (action.rs)       *)
(***************************************************************************)

SpawnsProcess(type) == type \in {"command", "execute"}

TransferKeys == {"destination", "overwrite", "preserve_structure",
                 "verify_integrity"}
CommandKeys  == {"shell", "command", "working_dir"}
ExecuteKeys  == {"program", "args", "working_dir"}

Requirements(type) ==
  CASE type \in {"copy", "move"} -> TransferKeys
    [] type = "command"          -> CommandKeys
    [] type = "execute"          -> ExecuteKeys

MissingFields(a) == Requirements(a.type) \ a.keys

\* Written, but of no effect for this type.
RejectedFields(a) ==
  IF SpawnsProcess(a.type) THEN {} ELSE {"wait", "timeout_ms"} \cap a.keys

-----------------------------------------------------------------------------
(***************************************************************************)
(* The defaults of global.toml (model.rs, apply_global_defaults)            *)
(***************************************************************************)

AutoCreateDestination(g) == "auto_create" \in g.keys => g.auto_create
WaitForProcess(g)        == "wait" \in g.keys /\ g.wait
DefaultPollInterval      == 100
PollInterval(g) == IF "poll_interval_ms" \in g.keys THEN g.poll_interval_ms
                   ELSE DefaultPollInterval

\* Mutant of Inherited: the defaults replace what the action says.
Overridden(a, g) ==
  {"auto_create"} \cup (IF SpawnsProcess(a.type)
                        THEN {"wait"} \cup ({"timeout_ms"} \cap g.keys) ELSE {})

\* The keys an action takes from global.toml: those it leaves out.
Inherited(a, g) ==
  ({"auto_create"} \cup IF SpawnsProcess(a.type)
                        THEN {"wait"} \cup ({"timeout_ms"} \cap g.keys)
                        ELSE {}) \ a.keys

ApplyDefaults(a, g) ==
  LET new == Inherited(a, g)
  IN  [a EXCEPT
         !.keys = @ \cup new,
         !.auto_create = IF "auto_create" \in new THEN AutoCreateDestination(g)
                         ELSE @,
         !.wait = IF "wait" \in new THEN WaitForProcess(g) ELSE @,
         !.timeout_ms = IF "timeout_ms" \in new THEN g.timeout_ms ELSE @]

-----------------------------------------------------------------------------
(***************************************************************************)
(* Action::try_from                                                         *)
(***************************************************************************)

Unlimited == 0

NotAnAction == [type |-> "none"]

\* Transfer and ProcessWait, the parts defaults go into.
TransferFrom(a) ==
  [type |-> a.type,
   auto_create |-> "auto_create" \in a.keys => a.auto_create]

ProcessWait(a) ==
  [type |-> a.type,
   wait |-> "wait" \in a.keys /\ a.wait,
   timeout_ms |-> IF "timeout_ms" \in a.keys THEN a.timeout_ms ELSE Unlimited]

TryFrom(a) ==
  IF MissingFields(a) # {} THEN NotAnAction
  ELSE IF SpawnsProcess(a.type) THEN ProcessWait(a)
  ELSE TransferFrom(a)

-----------------------------------------------------------------------------
(***************************************************************************)
(* exe_path.rs: where a program is looked for                               *)
(***************************************************************************)

\* One folder: a file that can be executed counts before one that cannot.
Lookup(files) ==
  IF "executable" \in files THEN "executable"
  ELSE IF "plain" \in files THEN "plain" ELSE "missing"

\* PATH: files that cannot be executed are passed over.
SearchDirs(folders) ==
  LET seen == {Lookup(files) : files \in folders}
  IN  IF "executable" \in seen THEN "found"
      ELSE IF "plain" \in seen THEN "not_executable" ELSE "not_on_path"

\* A path is looked at, and PATH is not searched for it.
LookAt(folders) ==
  IF SearchDirs(folders) = "not_on_path" THEN "missing_at_path"
  ELSE SearchDirs(folders)

Resolve(program) ==
  CASE program.form = "blank" -> "not_on_path"
    [] program.form = "path"  -> LookAt(program.folders)
    [] program.form = "name"  -> SearchDirs(program.folders)

\* check_executable
CheckExecutable(program, key) ==
  IF Resolve(program) = "found" THEN {} ELSE {<<key, Resolve(program)>>}

-----------------------------------------------------------------------------
(***************************************************************************)
(* validate.rs                                                              *)
(***************************************************************************)

\* A problem if the condition holds.
When(condition, key, what) == IF condition THEN {<<key, what>>} ELSE {}

\* check_destination: with auto_create it is enough that something above
\* exists; where the text begins with a placeholder nothing can be said.
DestinationMissing(d, autoCreate) ==
  IF autoCreate THEN d.root = "lost" ELSE d.root \notin {"open", "folder"}

CheckDestination(a) ==
  When(/\ "destination" \in a.keys
       /\ DestinationMissing(a.destination,
                             "auto_create" \in a.keys => a.auto_create),
       "destination", "no folder")

CheckShell(a) ==
  IF "shell" \notin a.keys THEN {}
  ELSE IF ~ a.shell.listed THEN {<<"shell", "not of this system">>}
  ELSE CheckExecutable(a.shell.program, "shell")

\* collect_working_dir_errors
CheckWorkingDir(a) ==
  When(/\ "working_dir" \in a.keys
       /\ ~ FindAnyPlaceholder(a.working_dir.names)
       /\ a.working_dir.path = "missing", "working_dir", "no folder")

CheckProgram(a) ==
  IF "program" \in a.keys /\ ~ FindAnyPlaceholder(a.program.names)
  THEN CheckExecutable(a.program, "program") ELSE {}

\* The part of collect_action_errors that depends on the type.
ValueErrors(a) ==
  CASE a.type \in {"copy", "move"} -> CheckDestination(a)
    [] a.type = "command"          -> CheckShell(a) \cup CheckWorkingDir(a)
    [] a.type = "execute"          -> CheckWorkingDir(a) \cup CheckProgram(a)

\* collect_action_errors
ActionErrors(a) ==
  {<<key, "missing">> : key \in MissingFields(a)}
    \cup {<<key, "not of this type">> : key \in RejectedFields(a)}
    \cup ValueErrors(a)

\* collect_action_placeholder_errors: unknown names where names are replaced,
\* any name where they are not.  It does not ask for the type.
PlaceholderErrors(a) ==
  When("destination" \in a.keys /\ FindUnknownPlaceholder(a.destination.names),
       "destination", "unknown name")
    \cup When("command" \in a.keys /\ FindUnknownPlaceholder(a.command),
              "command", "unknown name")
    \cup When("args" \in a.keys /\ \E text \in a.args : FindUnknownPlaceholder(text),
              "args", "unknown name")
    \cup When("program" \in a.keys /\ FindAnyPlaceholder(a.program.names),
              "program", "not replaced")
    \cup When("working_dir" \in a.keys /\ FindAnyPlaceholder(a.working_dir.names),
              "working_dir", "not replaced")

\* collect_log_target_errors
LogTargetErrors(target, key) ==
  When(target.dir # "folder", key, "dir")
    \cup When(target.file_name \in {"blank", "unknown"}, key, "file_name")

\* collect_glob_errors, collect_regex_errors
SyntaxErrors(filter, key) ==
  When("bad" \in filter.globs \/ filter.regex = "bad", key, "syntax")

\* The list and the regex exclude each other; of watch.patterns and
\* watch.regex one must be there.
FilterErrors(filter, key) ==
  LET given == IF key = "patterns" THEN filter.given ELSE filter.globs # {}
  IN  When(given /\ filter.regex # "absent", key, "both")
        \cup When(key = "patterns" /\ ~ given /\ filter.regex = "absent",
                  key, "neither")
        \cup SyntaxErrors(filter, key)

\* The patterns and the actions of a rule.
PatternErrors(r) == UNION {FilterErrors(r.filters[key], key) : key \in FilterKeys}

ChainErrors(r) ==
  UNION {ActionErrors(r.actions[j]) \cup PlaceholderErrors(r.actions[j])
           : j \in DOMAIN r.actions}

\* The loop of validate_rules_config; a disabled rule is checked as well.
RuleErrors(r) ==
  When(~ r.named, "name", "blank")
    \cup When(r.actions = <<>>, "actions", "none")
    \cup When(~ r.folder, "watch.path", "no folder")
    \cup When(~ r.events, "watch.events", "none")
    \cup PatternErrors(r)
    \cup (IF r.detect.enabled THEN LogTargetErrors(r.detect, "detect") ELSE {})
    \cup (IF r.action.enabled THEN LogTargetErrors(r.action, "action") ELSE {})
    \cup ChainErrors(r)

\* validate_rules_config
RulesErrors(rules) ==
  When(rules = <<>>, "rules", "none")
    \cup UNION {RuleErrors(rules[i]) : i \in DOMAIN rules}

\* validate_global_config.  The log is checked whether it is enabled or not.
GlobalErrors(g) ==
  LogTargetErrors(g.system_log, "system_log")
    \cup When(g.dashboard.enabled /\ g.dashboard.bind = "bad",
              "dashboard.bind", "syntax")
    \cup When(PollInterval(g) = 0, "detect.poll_interval_ms", "zero")

-----------------------------------------------------------------------------
(***************************************************************************)
(* config::load (loader.rs) and compile_rules (router.rs)                   *)
(***************************************************************************)

\* apply_global_defaults
WithDefaults(rule, g) ==
  [rule EXCEPT !.actions = [j \in DOMAIN rule.actions |->
                              ApplyDefaults(rule.actions[j], g)]]

LoadedRules(c) ==
  [i \in DOMAIN c.rules |-> WithDefaults(c.rules[i], c.global)]

\* The problems of both files.
Problems(c) == GlobalErrors(c.global) \cup RulesErrors(LoadedRules(c))

\* How load ends: with the first file that cannot be read or parsed, else with
\* the problems found, else well.
Load(c) ==
  LET unread == IF c.globalFile # "read" THEN c.globalFile ELSE c.rulesFile
  IN  CASE unread = "unreadable" -> "ConfigRead"
        [] unread = "unparsable" -> "ConfigParse"
        [] unread = "read"       -> IF Problems(c) = {} THEN "ok"
                                    ELSE "ConfigInvalid"

\* build_glob_set, build_glob_set_if_any and build_regex succeed.
Compiles(filter) == "bad" \notin filter.globs /\ filter.regex # "bad"

\* compile_rules
CompileRules(rules) ==
  \A i \in DOMAIN rules : \A key \in FilterKeys : Compiles(rules[i].filters[key])

\* AppError::exit_code
StartErrors == {"Usage", "ConfigRead", "ConfigParse", "ConfigInvalid",
                "TemplateWrite"}
RunErrors   == {"Runtime", "Watch"}
ExitCode(error) == IF error \in StartErrors THEN 10 ELSE 12
=============================================================================
