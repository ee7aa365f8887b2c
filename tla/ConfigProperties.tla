-------------------------- MODULE ConfigProperties --------------------------
(***************************************************************************)
(* What a configuration that was loaded can be relied on for.               *)
(***************************************************************************)
EXTENDS Config

Own(a, g, key, mine, theirs, otherwise) ==
  IF key \in a.keys THEN mine ELSE IF key \in g.keys THEN theirs ELSE otherwise

(***************************************************************************)
(* How an action is meant: what it says itself counts, else what            *)
(* global.toml says, else what the program does when neither says anything. *)
(***************************************************************************)
AsWritten(a, g) ==
  IF SpawnsProcess(a.type)
  THEN [type |-> a.type,
        wait |-> Own(a, g, "wait", a.wait, g.wait, FALSE),
        timeout_ms |-> Own(a, g, "timeout_ms", a.timeout_ms, g.timeout_ms,
                           Unlimited)]
  ELSE [type |-> a.type,
        auto_create |-> Own(a, g, "auto_create", a.auto_create, g.auto_create,
                            TRUE)]

\* What running the action presumes and does not look at again.
Runnable(a) ==
  /\ a.type = "command" => /\ a.shell.listed
                           /\ Resolve(a.shell.program) = "found"
                           /\ ~ FindUnknownPlaceholder(a.command)
  /\ a.type = "execute" => /\ Resolve(a.program) = "found"
                           /\ a.program.names = {}
  /\ SpawnsProcess(a.type) => /\ a.working_dir.names = {}
                              /\ a.working_dir.path # "missing"
  /\ a.type \in {"copy", "move"} => ~ FindUnknownPlaceholder(a.destination.names)

\* A transfer has somewhere to go: if it may not create its folder, the folder
\* is there, or its text is not known before it runs.
HasDestination(a, g) ==
  a.type \in {"copy", "move"} =>
    /\ a.destination.root # "lost"
    /\ AsWritten(a, g).auto_create \/ a.destination.root \in {"open", "folder"}

\* A loaded rule can be compiled, and each of its actions can be run and runs
\* as it is meant.  This is all that loading sees to: that no destination lies
\* in what is watched and that rules of one name watch alike, which
\* detailed-design.md 3.4 and 13.1 list as well, the code does not check.
RuleIsSound(rule, g) ==
  /\ \A key \in FilterKeys : Compiles(WithDefaults(rule, g).filters[key])
  /\ \A j \in DOMAIN rule.actions :
       LET a == rule.actions[j]
       IN  /\ TryFrom(ApplyDefaults(a, g)) = AsWritten(a, g)
           /\ Runnable(a)
           /\ HasDestination(a, g)

ConfigIsSound(c) ==
  /\ PollInterval(c.global) > 0
  /\ \A i \in DOMAIN c.rules : RuleIsSound(c.rules[i], c.global)
=============================================================================
