------------------------------- MODULE Deploy -------------------------------
(***************************************************************************)
(* scripts/deploy.sh from its backup to its end, with the EXIT trap that   *)
(* rolls an unfinished installation back, and scripts/uninstall.sh.        *)
(*                                                                         *)
(* The parts of an installation are files, or groups of files that the     *)
(* scripts treat alike; each is absent, Partial, or of the deployment that *)
(* wrote it, 1 for what was there at first.  Downloads, their verification *)
(* and the probes of the network come before the first change and can only *)
(* fail; a step that fails, and a signal, are one action, Abort.           *)
(***************************************************************************)
EXTENDS Integers, FiniteSets, FiniteSetsExt, Functions

CONSTANTS
  Tool,      \* mini-singboxctl, -containerctl, -update, -uninstall
  Keep,      \* MINI_SINGBOX_BACKUP_KEEP
  MaxTime,   \* bound: timestamps; the clock of a host may go back
  MaxRun,    \* bound: deployments and uninstallations
  MaxFault   \* bound: failures, signals and kills

ASSUME DeployAssumption ==
  /\ Keep \in Nat \ {0} /\ MaxTime \in 1..9 /\ MaxRun \in 1..8
  /\ Tool \cap {"binary", "unit", "runner", "config", "delivery", "info"} = {}

VARIABLES
  runtime,   \* RUNTIME: "managed" (systemd, OpenRC) or "external"
  first,     \* the runtime of deployment 1
  disk,      \* the parts installed
  service,   \* the binary and the configuration that run
  enabled,   \* the service is started at boot
  tuned,     \* tune/active.json is there
  backups,   \* BACKUP_ROOT: what each backup directory holds
  pc,        \* the next step of the script that runs
  var,       \* its variables
  count, fault, \* how much of the bounds is used up
  last,      \* history: what the last deployment found when it came to its backup
  excused,   \* history: what the end of the deployment does not answer for
  unsaved,   \* history: a rollback removed the binary before it was in the backup
  orphaned   \* history: a rollback, or a kill, took the binary of an active tuning away

host    == <<runtime, first>>
bounds  == <<count, fault>>
history == <<last, excused, unsaved, orphaned>>
vars    == <<host, disk, service, enabled, tuned, backups, pc, var, bounds, history>>

Absent == 0
Partial == -1
Configuration == {"config", "delivery", "info"}
Part == Tool \cup {"binary", "unit", "runner"} \cup Configuration
Nothing == [p \in Part |-> Absent]
Stopped == [binary |-> Absent, config |-> Absent]
NoVar == [name |-> 0, had |-> {}, started |-> FALSE, replaced |-> FALSE, refreshed |-> FALSE, info |-> FALSE,
          retired |-> FALSE, active |-> FALSE, enabled |-> FALSE, migrating |-> FALSE, version |-> 0]

Everything == Part \cup {"service"}

\* "runtime=" of deployment-info.txt; a torn one has no such line yet.
EXISTING_RUNTIME == IF disk["info"] = 1 THEN first ELSE IF disk["info"] > 1 THEN runtime ELSE "none"

-----------------------------------------------------------------------------
(* The service manager.                                                    *)

\* A managed service is stopped; an external one is not the scripts' to stop.
runtime_stop == service' = IF runtime = "managed" THEN Stopped ELSE service

\* Starting what runs changes nothing.
runtime_start == service' = IF runtime = "managed" /\ service = Stopped
                              THEN [binary |-> disk["binary"], config |-> disk["config"]] ELSE service

-----------------------------------------------------------------------------
(* Control.                                                                *)

Step(l) == pc = l /\ UNCHANGED <<host, bounds>>

Quiet == UNCHANGED <<tuned, history>>

Set(f, v) == var' = [var EXCEPT ![f] = v]

Finish == pc' = "idle" /\ var' = NoVar

\* deploy.sh decides what to do: the runtime, and whether to generate.
Begin ==
  /\ pc = "idle" /\ count < MaxRun
  /\ count' = count + 1
  /\ LET migrating == EXISTING_RUNTIME = "external" /\ runtime = "managed" IN
       /\ EXISTING_RUNTIME \in {"none", runtime} \/ (migrating /\ service = Stopped)
       /\ \E regenerate, refresh \in BOOLEAN :
            /\ disk["config"] = Partial => regenerate
            /\ var' = [NoVar EXCEPT !.version = count + 2, !.migrating = migrating,
                                    !.replaced = regenerate \/ disk["config"] = Absent,
                                    !.refreshed = refresh /\ ~regenerate /\ disk["config"] # Absent]
  /\ pc' = "backup"
  /\ UNCHANGED <<host, disk, service, enabled, tuned, backups, fault, history>>

-----------------------------------------------------------------------------
(* The installation.                                                       *)

\* What is there is copied, the binary not yet; the name begins with the time.
Backup ==
  /\ Step("backup")
  /\ LET saved == {p \in Part \ {"binary", "runner"} : disk[p] # Absent}
                    \cup (IF var.migrating THEN {p \in {"runner"} : disk[p] # Absent} ELSE {})
     IN \E time \in 1..MaxTime :
          LET name == 10 * time + var.version IN
          /\ backups' = [n \in DOMAIN backups \cup {name} |->
                           IF n = name THEN [p \in Part |-> IF p \in saved THEN disk[p] ELSE Absent] ELSE backups[n]]
          /\ var' = [var EXCEPT !.name = name, !.had = saved, !.enabled = enabled /\ disk["unit"] # Absent,
                              !.active = service # Stopped]
  /\ last' = [disk |-> disk, service |-> service, enabled |-> enabled]
  /\ excused' = {} /\ unsaved' = FALSE
  /\ pc' = "stage"
  /\ UNCHANGED <<disk, service, enabled, tuned, orphaned>>

\* An external process that runs ends the deployment here.
Stage ==
  /\ Step("stage") /\ Quiet
  /\ IF runtime = "external" /\ var.active THEN Finish ELSE Set("started", TRUE) /\ pc' = "stop"
  /\ UNCHANGED <<disk, service, enabled, backups>>

Stop ==
  /\ Step("stop") /\ Quiet
  /\ runtime_stop
  /\ pc' = IF disk["binary"] = Absent THEN "switch" ELSE "move"
  /\ UNCHANGED <<disk, enabled, backups, var>>

\* Variant: the old binary is overwritten and not moved.
MoveNothing ==
  /\ Step("move") /\ Quiet
  /\ disk' = [disk EXCEPT !["binary"] = Absent]
  /\ pc' = "had binary"
  /\ UNCHANGED <<service, enabled, var, backups>>

Move ==
  /\ Step("move") /\ Quiet
  /\ disk' = [disk EXCEPT !["binary"] = Absent]
  /\ backups' = [backups EXCEPT ![var.name]["binary"] = disk["binary"]]
  /\ pc' = "had binary"
  /\ UNCHANGED <<service, enabled, var>>

HadBinary ==
  /\ Step("had binary") /\ Quiet
  /\ Set("had", var.had \cup {"binary"})
  /\ pc' = "switch"
  /\ UNCHANGED <<disk, service, enabled, backups>>

\* mv of the staged binary, then install of the tools and the unit, one by one.
Switch ==
  /\ Step("switch")
  /\ orphaned' = FALSE
  /\ disk' = [disk EXCEPT !["binary"] = var.version]
  /\ pc' = "tools"
  /\ UNCHANGED <<service, enabled, tuned, backups, var, last, excused, unsaved>>

Tools ==
  /\ Step("tools") /\ Quiet
  /\ \E p \in Tool \cup {"unit"} :
       /\ disk[p] # var.version
       /\ p = "unit" => \A t \in Tool : disk[t] = var.version
       /\ disk' = [disk EXCEPT ![p] = var.version]
       /\ pc' = IF p # "unit" THEN "tools" ELSE IF var.replaced THEN "config remove"
                ELSE IF var.refreshed THEN "delivery" ELSE "info"
  /\ UNCHANGED <<service, enabled, backups, var>>

ConfigRemove ==
  /\ Step("config remove") /\ Quiet
  /\ disk' = [p \in Part |-> IF p \in Configuration THEN Absent ELSE disk[p]]
  /\ pc' = "config"
  /\ UNCHANGED <<service, enabled, backups, var>>

\* The loops over the generated files: begun, and ended.
Install ==
  /\ \/ Step("config") /\ pc' = "config done"
     \/ Step("delivery") /\ pc' = "delivery done"
  /\ Quiet
  /\ disk' = [p \in Part |-> IF p = "delivery" \/ (p = "config" /\ var.replaced) THEN Partial ELSE disk[p]]
  /\ UNCHANGED <<service, enabled, backups, var>>

Installed ==
  /\ Step("config done") \/ Step("delivery done")
  /\ Quiet
  /\ disk' = [p \in Part |-> IF p = "delivery" \/ (p = "config" /\ var.replaced) THEN var.version ELSE disk[p]]
  /\ pc' = "info"
  /\ UNCHANGED <<service, enabled, backups, var>>

\* install of deployment-info.txt: begun, and ended.
Info ==
  /\ Step("info") /\ Quiet
  /\ disk' = [disk EXCEPT !["info"] = Partial]
  /\ pc' = "info begun"
  /\ UNCHANGED <<service, enabled, backups, var>>

InfoWritten ==
  /\ Step("info begun") /\ Quiet
  /\ disk' = [disk EXCEPT !["info"] = var.version]
  /\ pc' = "info rewritten"
  /\ UNCHANGED <<service, enabled, backups, var>>

InfoRewritten ==
  /\ Step("info rewritten") /\ Quiet
  /\ Set("info", TRUE)
  /\ pc' = IF runtime = "external" THEN "prune" ELSE "enable"
  /\ UNCHANGED <<disk, service, enabled, backups>>

\* After "check" with the new binary.
Enable ==
  /\ Step("enable") /\ Quiet
  /\ enabled' = TRUE
  /\ pc' = "start"
  /\ UNCHANGED <<disk, service, backups, var>>

\* The observation, the sockets and the delivery policy follow; they only fail.
Start ==
  /\ Step("start") /\ Quiet
  /\ runtime_start
  /\ pc' = IF var.migrating THEN "prune" ELSE "tune"
  /\ UNCHANGED <<disk, enabled, backups, var>>

\* tune apply; without AUTO_TUNE, or when it fails, nothing is active that was not.
Tune ==
  /\ Step("tune")
  /\ tuned' \in {tuned, TRUE}
  /\ pc' = "prune"
  /\ UNCHANGED <<disk, service, enabled, backups, var, history>>

\* Variant: the oldest backups go, this deployment's own not excepted.
PruneOldest(kept) ==
  \/ kept = DOMAIN backups
  \/ /\ kept \subseteq DOMAIN backups
     /\ Cardinality(kept) = Min({Keep, Cardinality(DOMAIN backups)})
     /\ \A n \in DOMAIN backups \ kept, k \in kept : n < k

\* What a pruning may leave: all when it cannot enumerate, or the newest, and
\* this deployment's own whatever its name.
Prune(kept) ==
  \/ kept = DOMAIN backups
  \/ /\ kept \subseteq DOMAIN backups /\ var.name \in kept
     /\ Cardinality(kept) = Min({Keep, Cardinality(DOMAIN backups)})
     /\ \A n \in DOMAIN backups \ kept, k \in kept \ {var.name} : n < k

PruneBackups ==
  /\ Step("prune") /\ Quiet
  /\ \E kept \in SUBSET DOMAIN backups : Prune(kept) /\ backups' = Restrict(backups, kept)
  /\ pc' = IF var.migrating THEN "retired" ELSE "succeeded"
  /\ UNCHANGED <<disk, service, enabled, var>>

Retired ==
  /\ Step("retired") /\ Quiet
  /\ Set("retired", TRUE)
  /\ pc' = "retire"
  /\ UNCHANGED <<disk, service, enabled, backups>>

Retire ==
  /\ Step("retire") /\ Quiet
  /\ disk' = [disk EXCEPT !["runner"] = Absent]
  /\ pc' = "succeeded"
  /\ UNCHANGED <<service, enabled, backups, var>>

Succeed ==
  /\ Step("succeeded") /\ Quiet
  /\ Finish
  /\ UNCHANGED <<disk, service, enabled, backups>>

-----------------------------------------------------------------------------
(* rollback.                                                               *)

Saved(p) == IF p \in var.had THEN backups[var.name][p] ELSE Absent

\* Variant: whatever runs goes on running.
UndoStopNothing ==
  /\ Step("undo stop") /\ Quiet
  /\ pc' = "undo binary"
  /\ UNCHANGED <<disk, service, enabled, backups, var>>

UndoStop ==
  /\ Step("undo stop") /\ Quiet
  /\ runtime_stop
  /\ pc' = "undo binary"
  /\ UNCHANGED <<disk, enabled, backups, var>>

UndoBinary ==
  /\ Step("undo binary")
  /\ disk' = [disk EXCEPT !["binary"] = Saved("binary")]
  /\ orphaned' = (orphaned \/ (tuned /\ "binary" \notin var.had))
  /\ unsaved' = (disk["binary"] # Absent /\ disk["binary"] # var.version /\ "binary" \notin var.had)
  /\ pc' = "undo tools"
  /\ UNCHANGED <<service, enabled, tuned, backups, var, last, excused>>

\* The tools, the retired runner and the unit.
UndoTools ==
  /\ Step("undo tools") /\ Quiet
  /\ disk' = [p \in Part |-> IF p \in Tool \cup {"unit"} \/ (p = "runner" /\ var.retired) THEN Saved(p) ELSE disk[p]]
  /\ pc' = "undo config"
  /\ UNCHANGED <<service, enabled, backups, var>>

\* A configuration that was to be replaced is removed, whether it was or not.
UndoConfig ==
  /\ Step("undo config") /\ Quiet
  /\ disk' = [p \in Part |-> IF p \in Configuration /\ var.replaced THEN Absent ELSE disk[p]]
  /\ pc' = "undo files"
  /\ UNCHANGED <<service, enabled, backups, var>>

UndoFiles ==
  /\ Step("undo files") /\ Quiet
  /\ disk' = [p \in Part |-> IF \/ p \in Configuration /\ var.replaced
                                \/ p = "delivery" /\ var.refreshed
                                \/ p = "info" /\ var.info
                             THEN Saved(p) ELSE disk[p]]
  /\ pc' = "undo service"
  /\ UNCHANGED <<service, enabled, backups, var>>

UndoService ==
  /\ Step("undo service") /\ Quiet
  /\ enabled' = (runtime = "managed" /\ var.enabled /\ "unit" \in var.had)
  /\ IF var.active /\ {"unit", "binary"} \subseteq var.had THEN runtime_start ELSE UNCHANGED service
  /\ Finish
  /\ UNCHANGED <<disk, backups>>

-----------------------------------------------------------------------------
(* uninstall.sh.                                                           *)

Uninstall ==
  /\ pc = "idle" /\ count < MaxRun
  /\ count' = count + 1
  /\ tuned => disk["binary"] > 0
  /\ last' = [disk |-> Nothing, service |-> Stopped, enabled |-> FALSE]
  /\ pc' = "un tune"
  /\ UNCHANGED <<host, disk, service, enabled, tuned, backups, var, fault, excused, unsaved, orphaned>>

\* Variant: the answer of the rollback is ignored.
UntuneAnyway ==
  /\ Step("un tune")
  /\ tuned' \in {tuned, FALSE}
  /\ pc' = "un service"
  /\ UNCHANGED <<disk, service, enabled, backups, var, history>>

\* tune rollback may refuse; then the installation is kept.
Untune ==
  /\ Step("un tune")
  /\ \/ tuned' = FALSE /\ pc' = "un service" /\ UNCHANGED var
     \/ tuned /\ UNCHANGED tuned /\ Finish
  /\ UNCHANGED <<disk, service, enabled, backups, history>>

\* The service and its unit; an external process that
\* deployment-info.txt tells of gets a TERM and ten seconds.
UnService ==
  /\ Step("un service") /\ Quiet
  /\ \/ /\ service' = IF runtime = "managed" \/ EXISTING_RUNTIME = "external" THEN Stopped ELSE service
        /\ pc' = "un files"
        /\ UNCHANGED var
     \/ /\ EXISTING_RUNTIME = "external" /\ service # Stopped
        /\ Finish
        /\ UNCHANGED service
  /\ enabled' = FALSE
  /\ disk' = IF runtime = "managed" THEN [disk EXCEPT !["unit"] = Absent] ELSE disk
  /\ UNCHANGED backups

\* PURGE and PURGE_BACKUPS decide what goes with the program.
UnFiles ==
  /\ Step("un files") /\ Quiet
  /\ \E purge, purgeBackups \in BOOLEAN :
       /\ disk' = [p \in Part |-> IF p \in Configuration /\ ~purge THEN disk[p] ELSE Absent]
       /\ backups' = IF purgeBackups THEN Restrict(backups, {}) ELSE backups
  /\ Finish
  /\ UNCHANGED <<service, enabled>>

-----------------------------------------------------------------------------
(* Failures and the surroundings.                                          *)

Undoing == pc \in {"undo stop", "undo binary", "undo tools", "undo config", "undo files", "undo service"}
Removing == pc \in {"un tune", "un service", "un files"}
Deploying == pc # "idle" /\ ~Undoing /\ ~Removing

\* What a rollback from here would not put back, because its flag comes late:
\* the rollback is on from before the stop, and HAD_BINARY set after the move;
\* DEPLOYMENT_INFO_REWRITTEN is set after the file is rewritten.
Late == {p \in {"binary"} : pc = "had binary" \/ (pc \in {"stop", "move"} /\ disk["binary"] # Absent)}
          \cup {p \in {"info"} : pc \in {"info begun", "info rewritten"} /\ ~var.replaced}

\* exit with a status: the EXIT trap.
Abort ==
  /\ Deploying /\ fault < MaxFault
  /\ fault' = fault + 1
  /\ IF var.started THEN pc' = "undo stop" /\ UNCHANGED var ELSE Finish
  /\ excused' = excused \cup Late
  /\ UNCHANGED <<host, disk, service, enabled, tuned, backups, count, last, unsaved, orphaned>>

\* KILL, a command of the rollback or of the uninstaller that fails, a signal then.
Kill ==
  /\ pc # "idle" /\ fault < MaxFault
  /\ fault' = fault + 1
  /\ Finish
  /\ excused' = Everything
  /\ orphaned' = (orphaned \/ (tuned /\ disk["binary"] = Absent))
  /\ UNCHANGED <<host, disk, service, enabled, tuned, backups, count, last, unsaved>>

\* "runtime_stop || true": the service may go on running.
StopFails ==
  /\ pc \in {"stop", "undo stop"} /\ service # Stopped /\ fault < MaxFault
  /\ fault' = fault + 1
  /\ excused' = excused \cup {"service"}
  /\ pc' = IF pc = "undo stop" THEN "undo binary" ELSE IF disk["binary"] = Absent THEN "switch" ELSE "move"
  /\ UNCHANGED <<host, disk, service, enabled, tuned, backups, var, count, last, unsaved, orphaned>>

\* The surrounding platform, which is told to keep still while a script runs.
Supervise ==
  /\ runtime = "external" /\ pc = "idle"
  /\ service' \in {s \in {Stopped, [binary |-> disk["binary"], config |-> disk["config"]]} :
                     s = Stopped \/ (disk["binary"] > 0 /\ disk["unit"] > 0 /\ disk["config"] > 0)}
  /\ UNCHANGED <<host, disk, enabled, tuned, backups, pc, var, bounds, history>>

\* A host without mini-singbox, one with an earlier release, which may lack
\* tools, and one that was deployed as external and has an OpenRC now.
Init ==
  /\ runtime \in {"managed", "external"} /\ first \in {runtime, "external"}
  /\ \/ disk = Nothing /\ service = Stopped /\ enabled = FALSE
     \/ /\ \E absent \in SUBSET Tool :
             disk = [p \in Part |-> IF p \in absent \/ p = (IF first = runtime THEN "runner" ELSE "unit")
                                      THEN Absent ELSE 1]
        /\ service = IF runtime = "managed" /\ first = runtime THEN [binary |-> 1, config |-> 1] ELSE Stopped
        /\ enabled = (runtime = "managed" /\ first = runtime)
  /\ tuned = FALSE /\ backups = [n \in {} |-> Nothing]
  /\ pc = "idle" /\ var = NoVar /\ count = 0 /\ fault = 0
  /\ last = [disk |-> Nothing, service |-> Stopped, enabled |-> FALSE]
  /\ excused = {} /\ unsaved = FALSE /\ orphaned = FALSE

Deployment == \/ Begin \/ Backup \/ Stage \/ Stop \/ Move \/ HadBinary \/ Switch \/ Tools \/ ConfigRemove
              \/ Install \/ Installed \/ Info \/ InfoWritten \/ InfoRewritten \/ Enable \/ Start \/ Tune \/ PruneBackups
              \/ Retired \/ Retire \/ Succeed
Rollback == UndoStop \/ UndoBinary \/ UndoTools \/ UndoConfig \/ UndoFiles \/ UndoService
Uninstallation == Uninstall \/ Untune \/ UnService \/ UnFiles

Next == Deployment \/ Rollback \/ Uninstallation \/ Abort \/ Kill \/ StopFails \/ Supervise

Spec == Init /\ [][Next]_vars

-----------------------------------------------------------------------------
(* Properties.                                                             *)

\* Types; the backup that a script would restore from is there.
TypeOK ==
  /\ disk \in [Part -> Partial..(MaxRun + 1)]
  /\ \A n \in DOMAIN backups : backups[n] \in [Part -> Partial..(MaxRun + 1)]
  /\ service.binary \in Partial..(MaxRun + 1) /\ service.config \in Partial..(MaxRun + 1)
  /\ enabled \in BOOLEAN /\ tuned \in BOOLEAN
  /\ var.had \subseteq Part /\ (var.name # 0 => var.name \in DOMAIN backups)

\* Whenever a deployment ends or is killed, every part of the installation it
\* found is in its place or in one of the backups ("keeps this deployment's
\* rollback point"); the one case that the code misses is named, see BinaryKept.
Kept(p) == last.disk[p] > 0 => \/ disk[p] = last.disk[p]
                               \/ \E n \in DOMAIN backups : backups[n][p] = last.disk[p]

NothingLost == \A p \in Part : Kept(p) \/ (p = "binary" /\ unsaved)

\* The rollback keeps the previous binary too, whenever the deployment fails
\* ("on failure the old binary, ... are restored").
BinaryKept == Kept("binary")

Deployed ==
  /\ \A p \in Tool \cup {"binary", "unit", "info"} : disk[p] = var.version
  /\ \A p \in {"config", "delivery"} : disk[p] = IF var.replaced \/ (p = "delivery" /\ var.refreshed)
                                                   THEN var.version ELSE last.disk[p]
  /\ var.migrating => disk["runner"] = Absent
  /\ runtime = "managed" => /\ enabled
                            /\ service = [binary |-> var.version, config |-> disk["config"]] \/ "service" \in excused

Restored(d, s, e, x) ==
  /\ \A p \in Part \ x : d[p] = last.disk[p]
  /\ d["unit"] # Absent => e = last.enabled
  /\ \/ s \in {last.service, IF last.service # Stopped /\ Absent \notin {d["unit"], d["binary"]}
                                THEN [binary |-> d["binary"], config |-> d["config"]] ELSE Stopped}
     \/ "service" \in x

\* A deployment that ends has installed everything and runs it, or is undone:
\* every part, the service and its start at boot are as they were.  Left out by
\* name (excused) are everything, after a kill or a command of the rollback that
\* fails; the service, when it survives its stop, which the script ignores; the
\* binary, when the deployment fails or is stopped between DEPLOYMENT_STARTED=1
\* and HAD_BINARY=1 (see BinaryKept); and deployment-info.txt in a configuration
\* that is kept, when its install fails or a signal comes between the install
\* and DEPLOYMENT_INFO_REWRITTEN=1, which the rollback then does not restore.
\* Tuning is not part of it: the rollback does not know of it.
DeployedOrRestored ==
  [][/\ pc # "idle" /\ ~Removing /\ var.name # 0
     /\ pc' = "idle" /\ excused' # Everything
     => IF pc = "succeeded" THEN Deployed ELSE Restored(disk', service', enabled', excused')]_vars

\* While tuning is active, the program that can undo it is installed: the
\* uninstaller removes it only after its rollback.  Left out by name (orphaned)
\* are three ways to lose it while tuning is active: a kill while the binary is
\* away, between the move and the switch or in a rollback; the rollback of a
\* first deployment after it has tuned; and that of a later one before
\* HAD_BINARY=1 (see BinaryKept).
TunedHasTool == tuned /\ pc = "idle" => disk["binary"] > 0 \/ orphaned
=============================================================================
