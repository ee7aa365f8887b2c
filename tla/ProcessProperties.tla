------------------------- MODULE ProcessProperties --------------------------
(***************************************************************************)
(* What the life of the process guarantees.                                 *)
(***************************************************************************)
EXTENDS Process, LogWriterProperties, ConfigProperties

(***************************************************************************)
(* Nothing is watched before it was checked, and the check is enough: the    *)
(* timer can be made, every pattern compiles, every action converts with     *)
(* the settings it was meant to have, its program was found, and no name is  *)
(* left in a text that is not expanded.  validate.rs, loader.rs and action.rs *)
(* look at the same keys from three sides.                                   *)
(***************************************************************************)
WatchesOnlyWhatWasChecked ==
  phase \in {"starting", "watching"} => ConfigIsSound(config)

\* The line about the error is in a file, or an I/O error kept it out.
ErrorLineKept ==
  errorLine # 0 /\ ((\E d \in Days : \E x \in LinesOf(d) : x.no = errorLine)
                      \/ errorLine \in missed)

(***************************************************************************)
(* A process that ends with an error has said so where it can be seen: from  *)
(* the command line on stderr and, once there is a log, in the log; as a     *)
(* service to the service control manager and, unless it was Running, in the *)
(* start-up error log.  The code tells whether the configuration is to blame *)
(* (error.rs:30-36).  The two ways to fail without the manager are its own.  *)
(***************************************************************************)
FailuresAreTold ==
  (phase = "ended" /\ result # "ok") =>
    /\ mode = "cli" => /\ report = "stderr"
                       /\ code # 0
                       /\ result = "Watch" /\ subject = "system" => ErrorLineKept
    /\ mode = "service" =>
         \/ status = "unknown"
         \/ /\ status = "stopped"
            /\ code # 0
            /\ ~ started => report \in {"startup_log", "unwritable"}
    /\ code = 10 => request = "init" \/ ~ found \/ Load(config) # "ok"
    /\ code = 12 => result = "Runtime" \/ (found /\ Load(config) = "ok")

(***************************************************************************)
(* The logger is used the way LogWriter assumes: every step of the process   *)
(* is one its owner may take, or does not touch it.                          *)
(***************************************************************************)
UsesLoggerRight == Spec

(***************************************************************************)
(* A stop the manager asked for ends the service, whenever it came - while   *)
(* start_watching was being prepared, while it watched, or while it failed.  *)
(***************************************************************************)
StopEnds == stop # "none" ~> status = "stopped"

(***************************************************************************)
(* README.md:717: errors after the start are in the ordinary system log and  *)
(* not in the start-up error log.  The code of the service does not log the  *)
(* error start_watching returns.                                             *)
(***************************************************************************)
RuntimeErrorIsLogged ==
  (phase = "ended" /\ started /\ result # "ok" /\ subject = "system") =>
    ErrorLineKept
=============================================================================
