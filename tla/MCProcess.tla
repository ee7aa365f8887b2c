----------------------------- MODULE MCProcess ------------------------------
(***************************************************************************)
(* Instances of ProcessProperties for TLC: one sound configuration under     *)
(* which lines are logged, and many that differ from it in one place, or in  *)
(* all the ways the settings of an action and their defaults combine.        *)
(***************************************************************************)
EXTENDS ProcessProperties, FiniteSets

Log0     == [enabled |-> TRUE, dir |-> "folder", file_name |-> "dated"]
Program0 == [form |-> "name", folders |-> {{"plain"}, {"executable"}}, names |-> {}]

Action0(type) ==
  [type |-> type, keys |-> Requirements(type),
   destination |-> [root |-> "creatable", names |-> {"known"}],
   auto_create |-> TRUE, shell |-> [listed |-> TRUE, program |-> Program0],
   command |-> {"known"}, program |-> Program0, args |-> {{}, {"known"}},
   working_dir |-> [path |-> "blank", names |-> {}],
   wait |-> FALSE, timeout_ms |-> 0]

Filter0(key) == IF key = "patterns"
                THEN [given |-> TRUE, globs |-> {"good"}, regex |-> "absent"]
                ELSE [given |-> TRUE, globs |-> {}, regex |-> "good"]

Rule0 == [named |-> TRUE, folder |-> TRUE, events |-> TRUE,
          filters |-> [key \in FilterKeys |-> Filter0(key)],
          detect |-> Log0, action |-> Log0,
          actions |-> <<Action0("copy"), Action0("command"), Action0("execute")>>]

Global0 == [keys |-> {}, auto_create |-> FALSE, wait |-> FALSE, timeout_ms |-> 0,
            poll_interval_ms |-> 0, system_log |-> Log0,
            dashboard |-> [enabled |-> TRUE, bind |-> "good"]]

Config0 == [globalFile |-> "read", global |-> Global0, rulesFile |-> "read",
            rules |-> <<Rule0>>]

WithRule(r)   == [Config0 EXCEPT !.rules = <<Rule0, r>>]
WithAction(a) == WithRule([Rule0 EXCEPT !.actions = <<a>>])
WithGlobal(g) == [Config0 EXCEPT !.global = g]

\* One value of an action is another one, with the keys its type needs.
Values ==
  {[Action0(t) EXCEPT !.keys = @ \cup {k}] : t \in Types, k \in ActionKeys}
    \cup {[Action0(t) EXCEPT !.keys = @ \ {k}] : t \in Types, k \in ActionKeys}
    \cup {[Action0("move") EXCEPT !.destination = d, !.keys = @ \cup k,
                                  !.auto_create = FALSE]
            : d \in Destinations, k \in {{}, {"auto_create"}}}
    \cup {[Action0("command") EXCEPT !.shell = [listed |-> l,
             program |-> [Program0 EXCEPT !.folders = f]]]
            : l \in BOOLEAN, f \in SUBSET SUBSET FileStates}
    \cup {[Action0("command") EXCEPT !.command = x, !.working_dir = w]
            : x \in Texts, w \in WorkDirs}
    \cup {[Action0("execute") EXCEPT !.program =
             [form |-> m, folders |-> {f, g}, names |-> x]]
            : m \in {"blank", "path", "name"}, f, g \in SUBSET FileStates,
              x \in Texts}
    \cup {[Action0("execute") EXCEPT !.args = x] : x \in SUBSET Texts}

Targets == [enabled : BOOLEAN, dir : {"blank", "missing", "file", "folder"},
            file_name : {"blank", "plain", "dated", "unknown"}]

RuleValues ==
  {[Rule0 EXCEPT !.named = FALSE], [Rule0 EXCEPT !.folder = FALSE],
   [Rule0 EXCEPT !.events = FALSE], [Rule0 EXCEPT !.actions = <<>>]}
    \cup {[Rule0 EXCEPT !.filters[key] = f] : key \in FilterKeys, f \in Filters}
    \cup {[Rule0 EXCEPT !.detect = t] : t \in Targets}
    \cup {[Rule0 EXCEPT !.action = t] : t \in Targets}

GlobalValues ==
  {[Global0 EXCEPT !.system_log = t] : t \in Targets}
    \cup {[Global0 EXCEPT !.dashboard = [enabled |-> e, bind |-> b]]
            : e \in BOOLEAN, b \in Syntaxes}
    \cup {[Global0 EXCEPT !.keys = {"poll_interval_ms"}, !.poll_interval_ms = n]
            : n \in 0 .. 1}

\* All that the settings and their defaults can be together.
Settings ==
  {[Config0 EXCEPT
      !.global = [Global0 EXCEPT !.keys = k, !.auto_create = u, !.wait = w,
                                 !.timeout_ms = n],
      !.rules = <<[Rule0 EXCEPT !.actions =
        <<[Action0("copy") EXCEPT !.keys = @ \cup (own \cap {"auto_create"}),
                                  !.auto_create = ~ u],
          [Action0("execute") EXCEPT !.keys = @ \cup own, !.wait = ~ w,
                                     !.timeout_ms = 1 - n]>>]>>]
    : k, own \in SUBSET {"auto_create", "wait", "timeout_ms"},
      u, w \in BOOLEAN, n \in 0 .. 1}

\* Both files have problems, or cannot be read.
Broken ==
  {[Config0 EXCEPT !.globalFile = f, !.rulesFile = h] : f, h \in Files}
    \cup {[Config0 EXCEPT !.global.system_log.dir = "missing", !.rules = r]
            : r \in {<<>>, <<Rule0>>, <<[Rule0 EXCEPT !.named = FALSE]>>}}

Variants == {WithAction(a) : a \in Values} \cup {WithRule(r) : r \in RuleValues}
              \cup {WithGlobal(g) : g \in GlobalValues} \cup Settings \cup Broken

ChattyConfigs == {Config0}
AllConfigs    == ChattyConfigs \cup Variants
FewConfigs    == ChattyConfigs
=============================================================================
