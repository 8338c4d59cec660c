-------------------------- MODULE RenewCertificate --------------------------
(***************************************************************************)
(* scripts/mini-singboxctl, "certificate renew": the new delivery is made  *)
(* in a work directory, the configuration is copied there, the service is  *)
(* stopped, the files are replaced one by one, and the service is started  *)
(* and looked at again.  The EXIT trap puts the copy back unless the       *)
(* renewal was committed, and removes the work directory.                  *)
(*                                                                         *)
(* A file's content is "old", "new", "torn" (half written) or None.  The   *)
(* script runs under "set -e" with traps for HUP, INT and TERM: a command  *)
(* that fails without an effect and a signal are the same step, Abort.     *)
(***************************************************************************)
EXTENDS Integers

CONSTANTS
  Renewal,       \* the names in RENEWAL_FILES
  Rank,          \* their order
  Required,      \* those every renewal makes
  Kept,          \* the other files of the configuration directory
  None,          \* no such file
  RecoveryFails, \* may the commands of the cleanup fail too?
  MaxFault       \* bound: failures, signals, kills, crashes of the service

File == Renewal \cup Kept
Content == {"old", "new", "torn", None}

ASSUME FileAssumption ==
  /\ Required \subseteq Renewal
  /\ Renewal # {}
  /\ Kept # {} /\ Kept \cap Renewal = {}
  /\ Rank \in [Renewal -> Nat]
  /\ \A f, g \in Renewal : Rank[f] = Rank[g] => f = g

ASSUME FaultAssumption ==
  /\ None \notin {"old", "new", "torn"}
  /\ RecoveryFails \in BOOLEAN
  /\ MaxFault \in Nat

VARIABLES
  managed,   \* RENEW_RUNTIME is systemd or openrc, not external
  made,      \* the files in $generated
  old,       \* history: CONFIG_DIR before the renewal
  disk,      \* CONFIG_DIR
  backup,    \* RENEW_BACKUP, in the work directory
  switched,  \* RENEW_SWITCHED
  committed, \* RENEW_COMMITTED
  pc,        \* the next command of the script
  todo,      \* the files its current loop has left
  critical,  \* the message that names the backup was printed
  up,        \* the service runs ...
  loaded,    \* ... with this configuration
  wanted,    \* the service manager restarts it when it fails
  fault      \* how much of MaxFault is used up

chosen  == <<managed, made, old>>
flags   == <<switched, committed, critical>>
service == <<up, loaded, wanted>>
vars    == <<chosen, disk, backup, flags, pc, todo, service, fault>>

NoFiles == [f \in File |-> None]

\* CONFIG_DIR after a complete renewal: what was not made is gone.
New == [f \in File |-> IF f \in made THEN "new"
                       ELSE IF f \in Renewal THEN None ELSE "old"]

\* The commands a failure or a signal takes to the trap, and the trap's own.
Guarded == {"generate", "copy", "switch", "stop", "install", "check", "start",
            "settle", "show", "commit", "uncover"}
Cleanup == {"cleanup", "cleanstop", "remove", "restore", "restart", "cleanwork"}
Over    == {"refused", "killed", "done"}

At(here) == pc = here
Goto(to) == pc' = to
Fail == fault < MaxFault /\ fault' = fault + 1

IsFirst(f, S) == f \in S /\ \A g \in S : Rank[f] <= Rank[g]

-----------------------------------------------------------------------------
(* The service manager.                                                    *)

RuntimeStop == managed /\ up' = FALSE /\ wanted' = FALSE /\ UNCHANGED loaded

\* Starting a service that runs does nothing.
RuntimeStart ==
  /\ managed
  /\ up' = TRUE /\ wanted' = TRUE
  /\ loaded' = IF up THEN loaded ELSE disk

\* An external runtime is neither stopped nor started.
NoRuntime == ~managed /\ UNCHANGED service

Die ==
  /\ up /\ up' = FALSE
  /\ Fail
  /\ UNCHANGED <<chosen, disk, backup, flags, pc, todo, loaded, wanted>>

Respawn ==
  /\ wanted /\ ~up
  /\ up' = TRUE /\ loaded' = disk
  /\ UNCHANGED <<chosen, disk, backup, flags, pc, todo, wanted, fault>>

-----------------------------------------------------------------------------
(* renew_certificate.                                                      *)

\* Variant: the renewal does not ask whether the service runs.
BeginAnyway ==
  /\ At("ready") /\ Goto("generate")
  /\ UNCHANGED <<chosen, disk, backup, flags, todo, service, fault>>

\* A managed service must be active, an external one must not be.
Begin ==
  /\ At("ready")
  /\ Goto(IF up = managed THEN "generate" ELSE "refused")
  /\ UNCHANGED <<chosen, disk, backup, flags, todo, service, fault>>

\* Variant: the flag is set before the copy is complete.
GenerateAndSwitch ==
  /\ At("generate") /\ Goto("copy")
  /\ switched' = TRUE
  /\ UNCHANGED <<chosen, disk, backup, committed, critical, todo, service, fault>>

\* Work directory, traps, renew-certificate, QR codes, required outputs.
Generate ==
  /\ At("generate") /\ Goto("copy")
  /\ UNCHANGED <<chosen, disk, backup, flags, todo, service, fault>>

Copy ==
  /\ At("copy") /\ Goto("switch")
  /\ backup' = disk
  /\ UNCHANGED <<chosen, disk, flags, todo, service, fault>>

Switch ==
  /\ At("switch") /\ Goto("stop")
  /\ switched' = TRUE
  /\ UNCHANGED <<chosen, disk, backup, committed, critical, todo, service, fault>>

\* Variant: the service runs on until it is restarted.
StopNothing ==
  /\ At("stop") /\ Goto("install")
  /\ todo' = Renewal
  /\ UNCHANGED <<chosen, disk, backup, flags, service, fault>>

Stop ==
  /\ At("stop") /\ Goto("install")
  /\ todo' = Renewal
  /\ RuntimeStop \/ NoRuntime
  /\ UNCHANGED <<chosen, disk, backup, flags, fault>>

\* install replaces a file, and may leave it half written; rm -f removes one
\* that is not made any more.
Install ==
  /\ At("install")
  /\ \E f \in todo :
       /\ IsFirst(f, todo)
       /\ \/ /\ disk' = [disk EXCEPT ![f] = New[f]]
             /\ todo' = todo \ {f}
             /\ Goto(IF todo = {f} THEN "check" ELSE "install")
             /\ UNCHANGED fault
          \/ /\ f \in made
             /\ disk' = [disk EXCEPT ![f] = "torn"]
             /\ Goto("cleanup")
             /\ Fail
             /\ UNCHANGED todo
  /\ UNCHANGED <<chosen, backup, flags, service>>

\* run_check fails by Abort.
Check ==
  /\ At("check") /\ Goto(IF managed THEN "start" ELSE "show")
  /\ UNCHANGED <<chosen, disk, backup, flags, todo, service, fault>>

Start ==
  /\ At("start") /\ Goto("settle")
  /\ RuntimeStart
  /\ UNCHANGED <<chosen, disk, backup, flags, todo, fault>>

\* After three seconds the service is active, or it is not.
Settle ==
  /\ At("settle") /\ Goto(IF up THEN "show" ELSE "cleanup")
  /\ UNCHANGED <<chosen, disk, backup, flags, todo, service, fault>>

\* show_certificate fails by Abort.
Show ==
  /\ At("show") /\ Goto("commit")
  /\ UNCHANGED <<chosen, disk, backup, flags, todo, service, fault>>

Commit ==
  /\ At("commit") /\ Goto("uncover")
  /\ committed' = TRUE
  /\ UNCHANGED <<chosen, disk, backup, switched, critical, todo, service, fault>>

\* The flag is cleared and the script ends, which runs the trap as well.
Uncover ==
  /\ At("uncover") /\ Goto("cleanup")
  /\ switched' = FALSE
  /\ UNCHANGED <<chosen, disk, backup, committed, critical, todo, service, fault>>

Abort ==
  /\ pc \in Guarded /\ Goto("cleanup")
  /\ Fail
  /\ UNCHANGED <<chosen, disk, backup, flags, todo, service>>

-----------------------------------------------------------------------------
(* renew_cleanup.  Its own traps are off: a signal kills it.               *)

CleanupFails == RecoveryFails /\ Fail

\* Variant: whatever was switched is undone.
DecideCommitted ==
  /\ At("cleanup") /\ Goto(IF switched THEN "cleanstop" ELSE "cleanwork")
  /\ UNCHANGED <<chosen, disk, backup, flags, todo, service, fault>>

Decide ==
  /\ At("cleanup")
  /\ Goto(IF switched /\ ~committed THEN "cleanstop" ELSE "cleanwork")
  /\ UNCHANGED <<chosen, disk, backup, flags, todo, service, fault>>

\* A failing stop is ignored.
CleanStop ==
  /\ At("cleanstop") /\ Goto("remove")
  /\ \/ (RuntimeStop \/ NoRuntime) /\ UNCHANGED fault
     \/ managed /\ CleanupFails /\ UNCHANGED service
  /\ UNCHANGED <<chosen, disk, backup, flags, todo>>

\* Variant: the backup is moved into place instead of copied, over what is
\* left of the failed replacement.
RemoveNothing ==
  /\ At("remove") /\ Goto("restore")
  /\ todo' = Renewal
  /\ backup' = NoFiles
  /\ UNCHANGED <<chosen, disk, flags, service, fault>>

\* rm -rf may stop after any of the files.
Remove ==
  /\ At("remove")
  /\ \/ /\ disk' = NoFiles
        /\ todo' = File
        /\ Goto("restore")
        /\ UNCHANGED fault
     \/ /\ CleanupFails
        /\ \E S \in SUBSET File : disk' = [f \in File |-> IF f \in S THEN None ELSE disk[f]]
        /\ Goto("cleanwork")
        /\ UNCHANGED todo
  /\ UNCHANGED <<chosen, backup, flags, service>>

\* cp -a, one file after the other in the order of the directory.
Restore ==
  /\ At("restore")
  /\ \/ \E f \in todo :
          /\ disk' = [disk EXCEPT ![f] = backup[f]]
          /\ todo' = todo \ {f}
          /\ Goto(IF todo = {f} THEN "restart" ELSE "restore")
          /\ UNCHANGED <<critical, fault>>
     \/ /\ CleanupFails
        /\ critical' = TRUE
        /\ Goto("cleanwork")
        /\ UNCHANGED <<disk, todo>>
  /\ UNCHANGED <<chosen, backup, switched, committed, service>>

\* Variant: the service manager is left to start the service by itself.
RestartNothing ==
  /\ At("restart") /\ Goto("cleanwork")
  /\ UNCHANGED <<chosen, disk, backup, flags, todo, service, fault>>

Restart ==
  /\ At("restart") /\ Goto("cleanwork")
  /\ \/ (RuntimeStart \/ NoRuntime) /\ UNCHANGED fault
     \/ managed /\ CleanupFails /\ UNCHANGED service
  /\ UNCHANGED <<chosen, disk, backup, flags, todo>>

\* The work directory goes, with the backup in it, however the restore went.
CleanWork ==
  /\ At("cleanwork") /\ Goto("done")
  /\ backup' = NoFiles
  /\ UNCHANGED <<chosen, disk, flags, todo, service, fault>>

Kill ==
  /\ pc \in Guarded \cup Cleanup /\ Goto("killed")
  /\ Fail
  /\ UNCHANGED <<chosen, disk, backup, flags, todo, service>>

-----------------------------------------------------------------------------
\* Any delivery may be installed, and any that includes Required be made.
Init ==
  /\ managed \in BOOLEAN
  /\ made \in SUBSET Renewal /\ Required \subseteq made
  /\ old \in [File -> {"old", None}] /\ \A f \in Required \cup Kept : old[f] = "old"
  /\ disk = old
  /\ backup = NoFiles
  /\ switched = FALSE /\ committed = FALSE /\ critical = FALSE
  /\ pc = "ready"
  /\ todo = {}
  /\ up \in BOOLEAN
  /\ wanted \in BOOLEAN /\ (managed /\ up => wanted) /\ (wanted => managed)
  /\ loaded = IF up THEN old ELSE NoFiles
  /\ fault = 0

Next ==
  \/ Begin \/ Generate \/ Copy \/ Switch \/ Stop \/ Install \/ Check \/ Start
  \/ Settle \/ Show \/ Commit \/ Uncover \/ Abort
  \/ Decide \/ CleanStop \/ Remove \/ Restore \/ Restart \/ CleanWork \/ Kill
  \/ Die \/ Respawn

Spec == Init /\ [][Next]_vars

-----------------------------------------------------------------------------
(* Properties.                                                             *)

\* Every variable stays in its type, a loop has a file left, and as long as the
\* flag tells the trap to restore, the backup is complete.
TypeOK ==
  /\ managed \in BOOLEAN
  /\ made \in SUBSET Renewal /\ Required \subseteq made
  /\ old \in [File -> Content] /\ disk \in [File -> Content]
  /\ backup \in [File -> Content] /\ loaded \in [File -> Content]
  /\ switched \in BOOLEAN /\ committed \in BOOLEAN /\ critical \in BOOLEAN
  /\ pc \in {"ready"} \cup Guarded \cup Cleanup \cup Over
  /\ todo \in SUBSET File
  /\ up \in BOOLEAN /\ wanted \in BOOLEAN
  /\ fault \in 0..MaxFault
  /\ pc \in {"install", "restore"} => todo # {}
  /\ switched /\ pc \notin Over => backup = old

\* At any time, a kill of the script included, the configuration directory is
\* the old or the new one as a whole, or the backup is the old one.
Recoverable == disk = old \/ disk = New \/ backup = old

\* A renewal that ends by itself has renewed everything, when it committed, or
\* has put everything back (README.md:386).
RenewedOrRestored == pc = "done" => disk = IF committed THEN New ELSE old

\* A managed service neither runs nor can be restarted while files change: it
\* never loads a mixture of two deliveries.
SwitchedWhileStopped == [][managed /\ disk' # disk => ~up /\ ~wanted]_vars

\* Renewed or restored, a managed service is left started (systemd restarts it
\* if it dies), and with the configuration that is on disk.
ServesWhatIsInstalled ==
  pc = "done" /\ managed => wanted /\ (up => loaded = disk)

\* The backup the CRITICAL message tells the operator to use is there
\* (mini-singboxctl line 47).
NamedBackupExists == pc = "done" /\ critical => backup = old

-----------------------------------------------------------------------------
(* Refinement.                                                             *)

\* What the trap, or the operator after a kill, can put in place: the backup as
\* long as a renewal can be undone.
Recovered == IF switched /\ ~committed /\ backup # NoFiles THEN backup ELSE disk

Promise == INSTANCE Replacement WITH
  Deliveries <- [File -> Content],
  Nothing <- None,
  delivery <- Recovered,
  next <- New,
  served <- IF up THEN loaded ELSE None,
  over <- committed \/ pc \in {"refused", "done"}

\* The script is as good as one that replaces the whole delivery at once or not
\* at all, and the service never loads a mixture, nor the delivery that was given
\* up or replaced.
ImplementsReplacement == Promise!Spec
=============================================================================
