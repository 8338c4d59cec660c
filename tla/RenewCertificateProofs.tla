----------------------- MODULE RenewCertificateProofs -----------------------
(***************************************************************************)
(* What a certificate renewal leaves behind, for every set of files and    *)
(* every number of faults: as long as the commands of the cleanup succeed, *)
(* the old or the new configuration is there, or the backup is, a managed  *)
(* service is stopped meanwhile and started again, and the script is as    *)
(* good as one that replaces all files at once (Replacement).              *)
(***************************************************************************)
EXTENDS RenewCertificate, TLAPS

-----------------------------------------------------------------------------
(* The inductive invariant.                                                *)

Typed ==
  /\ made \in SUBSET Renewal
  /\ old \in [File -> Content] /\ \A f \in Kept : old[f] = "old"
  /\ disk \in [File -> Content]
  /\ backup \in [File -> Content]
  /\ switched \in BOOLEAN /\ committed \in BOOLEAN
  /\ pc \in {"ready"} \cup Guarded \cup Cleanup \cup Over

\* What each place in renew_certificate can rely on.
Renewing ==
  /\ pc \in {"ready", "refused", "generate", "copy", "switch", "stop"} => disk = old
  /\ pc \in {"ready", "refused", "generate", "copy", "switch"} => ~switched
  /\ pc \in {"switch", "stop", "install", "check", "start", "settle", "show", "commit"}
       => backup = old
  /\ pc \in {"stop", "install", "check", "start", "settle", "show", "commit"} => switched
  /\ pc = "install" => /\ todo \subseteq Renewal
                       /\ \A f \in File \ todo : disk[f] = New[f]
  /\ pc \in {"check", "start", "settle", "show", "commit", "uncover"} => disk = New
  /\ pc \in {"ready"} \cup (Guarded \ {"uncover"}) => ~committed
  /\ pc = "uncover" => committed

\* What each place in renew_cleanup can rely on.
Cleaning ==
  /\ pc = "cleanup" => /\ committed => disk = New
                       /\ ~committed => IF switched THEN backup = old ELSE disk = old
  /\ pc \in {"cleanstop", "remove", "restore"} => ~committed /\ backup = old
  /\ pc = "restore" => /\ todo \subseteq File
                       /\ \A f \in File \ todo : disk[f] = old[f]
  /\ pc = "restart" => ~committed /\ disk = old
  /\ pc \in {"cleanwork", "done"} => disk = IF committed THEN New ELSE old
  /\ pc = "killed" => Recoverable

RenewInv == Typed /\ Renewing /\ Cleaning

-----------------------------------------------------------------------------
\* A configuration all of whose files are new is the new configuration, and
\* likewise for the old one.
LEMMA Whole ==
  ASSUME NEW S \in [File -> Content], NEW d \in [File -> Content],
         \A f \in File : d[f] = S[f]
  PROVE  d = S
OBVIOUS

\* The configuration a renewal aims at has the type of a configuration.
LEMMA NewTyped ==
  ASSUME Typed
  PROVE  New \in [File -> Content]
BY DEF Typed, New, File, Content

\* No step moves the target: which files are made, and what was there, is
\* chosen before the renewal.
LEMMA NewFixed ==
  ASSUME UNCHANGED chosen
  PROVE  New' = New /\ old' = old /\ made' = made
BY DEF chosen, New

\* The initial states.
LEMMA RenewInit == Init => RenewInv
<1> SUFFICES ASSUME Init
             PROVE  RenewInv
  OBVIOUS
<1>1. /\ made \in SUBSET Renewal
      /\ old \in [File -> Content] /\ \A f \in Kept : old[f] = "old"
  BY DEF Init, Content
<1>2. disk = old /\ pc = "ready" /\ ~switched /\ ~committed
  BY DEF Init
<1>3. backup \in [File -> Content] /\ switched \in BOOLEAN /\ committed \in BOOLEAN
  BY DEF Init, NoFiles, Content
<1>4. Typed
  BY <1>1, <1>2, <1>3 DEF Typed
<1>5. Renewing /\ Cleaning
  BY <1>2 DEF Renewing, Cleaning, Guarded
<1> QED
  BY <1>4, <1>5 DEF RenewInv

\* Wherever the invariant holds a kill leaves something to go back to.
LEMMA InvRecoverable ==
  ASSUME RenewInv
  PROVE  Recoverable
BY DEF RenewInv, Typed, Renewing, Cleaning, Recoverable, Guarded, Cleanup, Over

-----------------------------------------------------------------------------
(* Each step preserves it.                                                 *)

\* Nothing but the service, or nothing at all, changes.
LEMMA QuietStep ==
  ASSUME RenewInv, Die \/ Respawn \/ UNCHANGED vars
  PROVE  RenewInv'
<1>1. UNCHANGED <<chosen, disk, backup, flags, pc, todo>>
  BY DEF Die, Respawn, vars
<1>2. New' = New /\ old' = old /\ made' = made
  BY <1>1, NewFixed
<1> QED
  BY <1>1, <1>2 DEF RenewInv, Typed, Renewing, Cleaning, Recoverable, flags

\* The steps of the renewal that leave every file alone.
LEMMA PreparingStep ==
  ASSUME RenewInv,
         Begin \/ Generate \/ Copy \/ Switch \/ Check \/ Start \/ Settle \/ Show
           \/ Commit \/ Uncover
  PROVE  RenewInv'
<1>1. UNCHANGED <<chosen, disk, todo>>
  BY DEF Begin, Generate, Copy, Switch, Check, Start, Settle, Show, Commit, Uncover
<1>2. New' = New /\ old' = old /\ made' = made
  BY <1>1, NewFixed
<1> USE DEF RenewInv, Typed, Renewing, Cleaning, Guarded, Cleanup, Over, At, Goto, flags
<1>3. CASE Begin
  BY <1>1, <1>2, <1>3 DEF Begin
<1>4. CASE Generate
  BY <1>1, <1>2, <1>4 DEF Generate
<1>5. CASE Copy
  BY <1>1, <1>2, <1>5 DEF Copy
<1>6. CASE Switch
  BY <1>1, <1>2, <1>6 DEF Switch
<1>7. CASE Check
  BY <1>1, <1>2, <1>7 DEF Check
<1>8. CASE Start
  BY <1>1, <1>2, <1>8 DEF Start
<1>9. CASE Settle
  BY <1>1, <1>2, <1>9 DEF Settle
<1>10. CASE Show
  BY <1>1, <1>2, <1>10 DEF Show
<1>11. CASE Commit
  BY <1>1, <1>2, <1>11 DEF Commit
<1>12. CASE Uncover
  BY <1>1, <1>2, <1>12 DEF Uncover
<1> QED
  BY <1>3, <1>4, <1>5, <1>6, <1>7, <1>8, <1>9, <1>10, <1>11, <1>12

\* Before the first file is replaced, those that no renewal replaces are as
\* they will be.
LEMMA StopStep ==
  ASSUME RenewInv, Stop
  PROVE  RenewInv'
<1>1. /\ pc = "stop" /\ pc' = "install" /\ todo' = Renewal
      /\ UNCHANGED <<chosen, disk, backup, switched, committed>>
  BY DEF Stop, At, Goto, flags
<1>2. New' = New /\ old' = old /\ made' = made
  BY <1>1, NewFixed
<1>3. \A f \in File \ Renewal : disk[f] = New[f]
  BY <1>1, FileAssumption DEF RenewInv, Typed, Renewing, New, File
<1> QED
  BY <1>1, <1>2, <1>3 DEF RenewInv, Typed, Renewing, Cleaning, Guarded, Cleanup, Over

\* One more file is new, or half written with the trap about to run.
LEMMA InstallStep ==
  ASSUME RenewInv, Install
  PROVE  RenewInv'
<1>1. /\ pc = "install"
      /\ UNCHANGED <<chosen, backup, switched, committed>>
  BY DEF Install, At, flags
<1>2. New' = New /\ old' = old /\ made' = made
  BY <1>1, NewFixed
<1>3. New \in [File -> Content]
  BY NewTyped DEF RenewInv
<1>4. PICK f \in todo :
        \/ /\ disk' = [disk EXCEPT ![f] = New[f]]
           /\ todo' = todo \ {f}
           /\ pc' = IF todo = {f} THEN "check" ELSE "install"
        \/ /\ disk' = [disk EXCEPT ![f] = "torn"]
           /\ pc' = "cleanup"
           /\ UNCHANGED todo
  BY DEF Install, Goto
<1>5. f \in File
  BY <1>1 DEF RenewInv, Renewing, File
<1>6. CASE pc' = "cleanup"
  <2>1. disk' \in [File -> Content]
    BY <1>1, <1>3, <1>4, <1>5, <1>6 DEF RenewInv, Typed, Content
  <2> QED
    BY <1>1, <1>2, <1>6, <2>1 DEF RenewInv, Typed, Renewing, Cleaning, Guarded, Cleanup, Over
<1>7. CASE pc' # "cleanup"
  <2>1. /\ disk' = [disk EXCEPT ![f] = New[f]]
        /\ todo' = todo \ {f}
        /\ pc' = IF todo = {f} THEN "check" ELSE "install"
    BY <1>4, <1>7
  <2>2. disk' \in [File -> Content]
    BY <1>3, <1>5, <2>1 DEF RenewInv, Typed
  <2>3. \A g \in File \ todo' : disk'[g] = New[g]
    BY <1>1, <1>5, <2>1 DEF RenewInv, Typed, Renewing
  <2>4. CASE todo = {f}
    <3>1. disk' = New
      BY <1>3, <2>1, <2>2, <2>3, <2>4, Whole
    <3> QED
      BY <1>1, <1>2, <2>1, <2>2, <2>4, <3>1
      DEF RenewInv, Typed, Renewing, Cleaning, Guarded, Cleanup, Over
  <2>5. CASE todo # {f}
    BY <1>1, <1>2, <2>1, <2>2, <2>3, <2>5
    DEF RenewInv, Typed, Renewing, Cleaning, Guarded, Cleanup, Over
  <2> QED
    BY <2>4, <2>5
<1> QED
  BY <1>6, <1>7

\* A failure or a signal takes the script to the trap, a kill to its end.
LEMMA InterruptedStep ==
  ASSUME RenewInv, Abort \/ Kill
  PROVE  RenewInv'
<1>1. /\ UNCHANGED <<chosen, disk, backup, switched, committed>>
      /\ \/ pc \in Guarded /\ pc' = "cleanup"
         \/ pc' = "killed"
  BY DEF Abort, Kill, Goto, flags
<1>2. New' = New /\ old' = old /\ made' = made
  BY <1>1, NewFixed
<1>3. Recoverable'
  BY <1>1, <1>2, InvRecoverable DEF Recoverable
<1>4. CASE pc \in Guarded /\ pc' = "cleanup"
  BY <1>1, <1>2, <1>4 DEF RenewInv, Typed, Renewing, Cleaning, Guarded, Cleanup, Over
<1>5. CASE pc' = "killed"
  BY <1>1, <1>2, <1>3, <1>5 DEF RenewInv, Typed, Renewing, Cleaning, Guarded, Cleanup, Over
<1> QED
  BY <1>1, <1>4, <1>5

\* The trap's steps that leave every file of the configuration alone.
LEMMA TrapStep ==
  ASSUME RenewInv, Decide \/ CleanStop \/ Restart \/ CleanWork
  PROVE  RenewInv'
<1>1. UNCHANGED <<chosen, disk, todo, switched, committed>>
  BY DEF Decide, CleanStop, Restart, CleanWork, flags
<1>2. New' = New /\ old' = old /\ made' = made
  BY <1>1, NewFixed
<1> USE DEF RenewInv, Typed, Renewing, Cleaning, Guarded, Cleanup, Over, At, Goto
<1>3. CASE Decide
  BY <1>1, <1>2, <1>3 DEF Decide
<1>4. CASE CleanStop
  BY <1>1, <1>2, <1>4 DEF CleanStop
<1>5. CASE Restart
  BY <1>1, <1>2, <1>5 DEF Restart
<1>6. CASE CleanWork
  <2>1. NoFiles \in [File -> Content]
    BY DEF NoFiles, Content
  <2> QED
    BY <1>1, <1>2, <1>6, <2>1 DEF CleanWork
<1> QED
  BY <1>3, <1>4, <1>5, <1>6

\* When rm -rf succeeds, no file is left, and all are to be restored.
LEMMA RemoveStep ==
  ASSUME RenewInv, Remove, ~RecoveryFails
  PROVE  RenewInv'
<1>1. /\ pc = "remove" /\ pc' = "restore" /\ todo' = File /\ disk' = NoFiles
      /\ UNCHANGED <<chosen, backup, switched, committed>>
  BY DEF Remove, CleanupFails, At, Goto, flags
<1>2. New' = New /\ old' = old /\ made' = made
  BY <1>1, NewFixed
<1>3. NoFiles \in [File -> Content]
  BY DEF NoFiles, Content
<1> QED
  BY <1>1, <1>2, <1>3 DEF RenewInv, Typed, Renewing, Cleaning, Guarded, Cleanup, Over

\* When cp succeeds, one more file is the old one.
LEMMA RestoreStep ==
  ASSUME RenewInv, Restore, ~RecoveryFails
  PROVE  RenewInv'
<1>1. /\ pc = "restore"
      /\ UNCHANGED <<chosen, backup, switched, committed>>
  BY DEF Restore, At, flags
<1>2. New' = New /\ old' = old /\ made' = made
  BY <1>1, NewFixed
<1>3. PICK f \in todo : /\ disk' = [disk EXCEPT ![f] = old[f]]
                        /\ todo' = todo \ {f}
                        /\ pc' = IF todo = {f} THEN "restart" ELSE "restore"
  BY <1>1 DEF Restore, CleanupFails, Goto, RenewInv, Cleaning
<1>4. f \in File
  BY <1>1 DEF RenewInv, Cleaning
<1>5. disk' \in [File -> Content]
  BY <1>3, <1>4 DEF RenewInv, Typed
<1>6. \A g \in File \ todo' : disk'[g] = old[g]
  BY <1>1, <1>3, <1>4 DEF RenewInv, Typed, Cleaning
<1>7. CASE todo = {f}
  <2>1. disk' = old
    BY <1>3, <1>5, <1>6, <1>7, Whole DEF RenewInv, Typed
  <2> QED
    BY <1>1, <1>2, <1>3, <1>5, <1>7, <2>1
    DEF RenewInv, Typed, Renewing, Cleaning, Guarded, Cleanup, Over
<1>8. CASE todo # {f}
  BY <1>1, <1>2, <1>3, <1>5, <1>6, <1>8
  DEF RenewInv, Typed, Renewing, Cleaning, Guarded, Cleanup, Over
<1> QED
  BY <1>7, <1>8

\* The invariant is inductive as long as the cleanup's commands succeed.
LEMMA RenewStep ==
  ASSUME RenewInv, [Next]_vars, ~RecoveryFails
  PROVE  RenewInv'
BY QuietStep, PreparingStep, StopStep, InstallStep, InterruptedStep, TrapStep,
   RemoveStep, RestoreStep DEF Next

-----------------------------------------------------------------------------
(* The theorems.                                                           *)

\* Whatever fails, and wherever the script is killed, the old or the new
\* configuration is there as a whole, or the old one is in the backup.
THEOREM AlwaysRecoverable ==
  ASSUME ~RecoveryFails
  PROVE  Spec => []Recoverable
<1>1. RenewInv /\ [Next]_vars => RenewInv'
  BY RenewStep
<1>2. RenewInv => Recoverable
  BY InvRecoverable
<1> QED
  BY <1>1, <1>2, RenewInit, PTL DEF Spec

\* A renewal that ends by itself has renewed everything or put everything back.
THEOREM EndsRenewedOrRestored ==
  ASSUME ~RecoveryFails
  PROVE  Spec => []RenewedOrRestored
<1>1. RenewInv /\ [Next]_vars => RenewInv'
  BY RenewStep
<1>2. RenewInv => RenewedOrRestored
  BY DEF RenewInv, Cleaning, RenewedOrRestored
<1> QED
  BY <1>1, <1>2, RenewInit, PTL DEF Spec

-----------------------------------------------------------------------------
(* The types, whatever the cleanup's commands do.                          *)

\* The flag is not set before the copy is complete.
TypeInv ==
  /\ TypeOK
  /\ pc \in {"ready", "generate", "copy"} => ~switched /\ disk = old
  /\ pc = "switch" => ~switched /\ backup = old

LEMMA FileTypes ==
  ASSUME TypeOK
  PROVE  New \in [File -> Content] /\ NoFiles \in [File -> Content]
BY DEF TypeOK, New, NoFiles, File, Content

LEMMA FailTyped ==
  ASSUME TypeOK, Fail \/ UNCHANGED fault
  PROVE  fault' \in 0..MaxFault
BY FaultAssumption DEF TypeOK, Fail

LEMMA TypeInit == Init => TypeInv
<1> SUFFICES ASSUME Init
             PROVE  TypeInv
  OBVIOUS
<1>1. NoFiles \in [File -> Content] /\ old \in [File -> Content] /\ loaded \in [File -> Content]
  BY DEF Init, NoFiles, Content
<1>2. fault \in 0..MaxFault
  BY FaultAssumption DEF Init
<1> QED
  BY <1>1, <1>2 DEF Init, TypeInv, TypeOK, Over

\* The steps of the renewal and of the service manager.
LEMMA TypeRenewing ==
  ASSUME TypeInv,
         Begin \/ Generate \/ Copy \/ Switch \/ Check \/ Start \/ Settle \/ Show \/ Commit \/ Uncover
           \/ Abort \/ Kill \/ Die \/ Respawn
  PROVE  TypeInv'
<1>1. fault' \in 0..MaxFault
  <2>1. Fail \/ UNCHANGED fault
    BY DEF Begin, Generate, Copy, Switch, Check, Start, Settle, Show, Commit, Uncover, Abort, Kill, Die, Respawn
  <2> QED
    BY <2>1, FailTyped DEF TypeInv
<1>2. todo' = todo /\ disk' = disk /\ UNCHANGED chosen
  BY DEF Begin, Generate, Copy, Switch, Check, Start, Settle, Show, Commit, Uncover, Abort, Kill, Die, Respawn
<1> USE DEF TypeInv, TypeOK, Guarded, Cleanup, Over, At, Goto, flags, chosen, service
<1>3. CASE Begin
  BY <1>1, <1>2, <1>3 DEF Begin
<1>4. CASE Generate
  BY <1>1, <1>2, <1>4 DEF Generate
<1>5. CASE Copy
  BY <1>1, <1>2, <1>5 DEF Copy
<1>6. CASE Switch
  BY <1>1, <1>2, <1>6 DEF Switch
<1>7. CASE Check
  BY <1>1, <1>2, <1>7 DEF Check
<1>8. CASE Start
  BY <1>1, <1>2, <1>8 DEF Start, RuntimeStart
<1>9. CASE Settle
  BY <1>1, <1>2, <1>9 DEF Settle
<1>10. CASE Show
  BY <1>1, <1>2, <1>10 DEF Show
<1>11. CASE Commit
  BY <1>1, <1>2, <1>11 DEF Commit
<1>12. CASE Uncover
  BY <1>1, <1>2, <1>12 DEF Uncover
<1>13. CASE Abort
  BY <1>1, <1>2, <1>13 DEF Abort
<1>14. CASE Kill
  BY <1>1, <1>2, <1>14 DEF Kill
<1>15. CASE Die
  BY <1>1, <1>2, <1>15, ZenonT(40) DEF Die
<1>16. CASE Respawn
  BY <1>1, <1>2, <1>16 DEF Respawn
<1> QED
  BY <1>3, <1>4, <1>5, <1>6, <1>7, <1>8, <1>9, <1>10, <1>11, <1>12, <1>13, <1>14, <1>15, <1>16

\* The steps that replace files, and those of the trap.
LEMMA TypeReplacing ==
  ASSUME TypeInv, Stop \/ Install \/ Decide \/ CleanStop \/ Remove \/ Restore \/ Restart \/ CleanWork
  PROVE  TypeInv'
<1>1. fault' \in 0..MaxFault
  <2>1. Fail \/ UNCHANGED fault
    BY DEF Stop, Install, Decide, CleanStop, Remove, Restore, Restart, CleanWork, CleanupFails
  <2> QED
    BY <2>1, FailTyped DEF TypeInv
<1>2. New \in [File -> Content] /\ NoFiles \in [File -> Content]
  BY FileTypes DEF TypeInv
<1>3. UNCHANGED chosen
  BY DEF Stop, Install, Decide, CleanStop, Remove, Restore, Restart, CleanWork
<1> USE DEF TypeInv, TypeOK, Guarded, Cleanup, Over, At, Goto, flags, chosen, service
<1>4. CASE Stop
  <2>1. todo' \in SUBSET File /\ todo' # {}
    BY <1>4, FileAssumption DEF Stop, File
  <2> QED
    BY <1>1, <1>3, <1>4, <2>1 DEF Stop, RuntimeStop, NoRuntime
<1>5. CASE Install
  <2>1. PICK f \in todo :
          \/ /\ disk' = [disk EXCEPT ![f] = New[f]] /\ todo' = todo \ {f}
             /\ pc' = IF todo = {f} THEN "check" ELSE "install"
          \/ disk' = [disk EXCEPT ![f] = "torn"] /\ todo' = todo /\ pc' = "cleanup"
    BY <1>5 DEF Install
  <2>2. disk' \in [File -> Content]
    BY <1>2, <2>1 DEF Content
  <2>3. todo' \in SUBSET File /\ (pc' = "install" => todo' # {})
    BY <2>1
  <2> QED
    BY <1>1, <1>3, <1>5, <2>1, <2>2, <2>3 DEF Install
<1>6. CASE Decide
  BY <1>1, <1>6 DEF Decide
<1>7. CASE CleanStop
  BY <1>1, <1>7 DEF CleanStop, RuntimeStop, NoRuntime
<1>8. CASE Remove
  <2>1. disk' \in [File -> Content]
    BY <1>2, <1>8 DEF Remove, Content
  <2>2. todo' \in SUBSET File /\ (pc' = "restore" => todo' # {}) /\ pc' \in {"restore", "cleanwork"}
    BY <1>8, FileAssumption DEF Remove, File
  <2> QED
    BY <1>1, <1>3, <1>8, <2>1, <2>2 DEF Remove
<1>9. CASE Restore
  <2>1. /\ disk' \in [File -> Content]
        /\ todo' \in SUBSET File /\ (pc' = "restore" => todo' # {}) /\ pc' \in {"restore", "restart", "cleanwork"}
        /\ critical' \in BOOLEAN
    BY <1>9 DEF Restore
  <2> QED
    BY <1>1, <1>3, <1>9, <2>1 DEF Restore
<1>10. CASE Restart
  BY <1>1, <1>10 DEF Restart, RuntimeStart, NoRuntime
<1>11. CASE CleanWork
  BY <1>1, <1>2, <1>11 DEF CleanWork
<1> QED
  BY <1>4, <1>5, <1>6, <1>7, <1>8, <1>9, <1>10, <1>11

LEMMA TypeStutter ==
  ASSUME TypeInv, UNCHANGED vars
  PROVE  TypeInv'
BY DEF vars, TypeInv, TypeOK, flags, chosen, service

\* The types of the script's variables; a loop always has a file left, and the
\* backup that the flag tells the trap to restore is complete, whatever fails.
THEOREM TypeCorrect == Spec => []TypeOK
<1>1. TypeInv /\ [Next]_vars => TypeInv'
  BY TypeRenewing, TypeReplacing, TypeStutter, Zenon DEF Next
<1>2. TypeInv => TypeOK
  BY DEF TypeInv
<1> QED
  BY <1>1, <1>2, TypeInit, PTL DEF Spec

-----------------------------------------------------------------------------
(* The service.                                                            *)

\* A managed service does not run while files change, and is started when they
\* are as they will stay.
Serving == wanted /\ (up => loaded = disk)

ServiceInv ==
  managed =>
    /\ pc = "ready" /\ up => Serving
    /\ pc \in {"generate", "copy", "switch", "stop", "settle", "show", "commit", "uncover",
               "cleanwork", "done"} => Serving
    /\ pc = "cleanup" /\ (committed \/ ~switched) => Serving
    /\ pc \in {"install", "check", "start", "remove", "restore", "restart"} => ~up /\ ~wanted

LEMMA ServiceInit == Init => ServiceInv
BY DEF Init, ServiceInv, Serving

\* A step of the service manager, while the script stands still.
LEMMA ServiceAlone ==
  ASSUME ServiceInv, Die \/ Respawn
  PROVE  ServiceInv'
BY DEF ServiceInv, Serving, Die, Respawn, chosen, flags

LEMMA ServiceRenewing ==
  ASSUME RenewInv, TypeInv, ServiceInv,
         Begin \/ Generate \/ Copy \/ Switch \/ Stop \/ Install \/ Check \/ Start \/ Settle \/ Show
           \/ Commit \/ Uncover \/ Abort \/ Kill
  PROVE  ServiceInv'
<1>1. managed' = managed /\ managed \in BOOLEAN
  BY DEF Begin, Generate, Copy, Switch, Stop, Install, Check, Start, Settle, Show, Commit, Uncover, Abort, Kill,
         chosen, TypeInv, TypeOK
<1>2. /\ pc \in {"generate", "copy", "switch"} => ~switched /\ ~committed
      /\ pc \in {"stop", "install", "check", "start", "settle", "show", "commit"} => switched /\ ~committed
      /\ pc = "uncover" => committed
  BY DEF RenewInv, Renewing, Guarded
<1>3. up \in BOOLEAN /\ wanted \in BOOLEAN
  BY DEF TypeInv, TypeOK
<1> USE DEF ServiceInv, Serving, At, Goto, flags, service
<1>4. CASE Begin
  BY <1>1, <1>3, <1>4 DEF Begin
<1>5. CASE Generate \/ Copy \/ Switch
  BY <1>1, <1>5 DEF Generate, Copy, Switch
<1>6. CASE Stop
  BY <1>1, <1>6 DEF Stop, RuntimeStop, NoRuntime
<1>7. CASE Install
  <2>1. pc = "install" /\ pc' \in {"check", "install", "cleanup"} /\ UNCHANGED <<service, flags>>
    BY <1>7 DEF Install
  <2> QED
    BY <1>1, <1>2, <2>1
<1>8. CASE Check \/ Settle \/ Show \/ Commit \/ Uncover
  BY <1>1, <1>2, <1>8 DEF Check, Settle, Show, Commit, Uncover
<1>9. CASE Start
  BY <1>1, <1>9 DEF Start, RuntimeStart
<1>10. CASE Abort
  BY <1>1, <1>2, <1>10 DEF Abort, Guarded
<1>11. CASE Kill
  BY <1>1, <1>11 DEF Kill
<1> QED
  BY <1>4, <1>5, <1>6, <1>7, <1>8, <1>9, <1>10, <1>11

LEMMA ServiceCleaning ==
  ASSUME TypeInv, ServiceInv, ~RecoveryFails, Decide \/ CleanStop \/ Remove \/ Restore \/ Restart \/ CleanWork
  PROVE  ServiceInv'
<1>1. managed' = managed /\ managed \in BOOLEAN /\ switched \in BOOLEAN /\ committed \in BOOLEAN
  BY DEF Decide, CleanStop, Remove, Restore, Restart, CleanWork, chosen, TypeInv, TypeOK
<1> USE DEF ServiceInv, Serving, At, Goto, flags, service, CleanupFails
<1>2. CASE Decide
  BY <1>1, <1>2 DEF Decide
<1>3. CASE CleanStop
  BY <1>1, <1>3 DEF CleanStop, RuntimeStop, NoRuntime
<1>4. CASE Remove
  BY <1>1, <1>4 DEF Remove
<1>5. CASE Restore
  <2>1. pc = "restore" /\ pc' \in {"restart", "restore"} /\ UNCHANGED service
    BY <1>5 DEF Restore
  <2> QED
    BY <1>1, <2>1
<1>6. CASE Restart
  BY <1>1, <1>6 DEF Restart, RuntimeStart, NoRuntime
<1>7. CASE CleanWork
  BY <1>1, <1>7 DEF CleanWork
<1> QED
  BY <1>2, <1>3, <1>4, <1>5, <1>6, <1>7

LEMMA ServiceStutter ==
  ASSUME ServiceInv, UNCHANGED vars
  PROVE  ServiceInv'
BY DEF ServiceInv, Serving, vars, chosen, flags, service

LEMMA ServiceStep ==
  ASSUME RenewInv, TypeInv, ServiceInv, [Next]_vars, ~RecoveryFails
  PROVE  ServiceInv'
BY ServiceAlone, ServiceRenewing, ServiceCleaning, ServiceStutter, Zenon DEF Next

\* All three are invariants when the cleanup's commands succeed.
LEMMA ServiceAlways ==
  ASSUME ~RecoveryFails
  PROVE  Spec => [](RenewInv /\ TypeInv /\ ServiceInv)
<1>1. RenewInv /\ TypeInv /\ ServiceInv /\ [Next]_vars => (RenewInv /\ TypeInv /\ ServiceInv)'
  BY RenewStep, ServiceStep, TypeRenewing, TypeReplacing, TypeStutter, Zenon DEF Next
<1>2. Init => RenewInv /\ TypeInv /\ ServiceInv
  BY RenewInit, TypeInit, ServiceInit
<1> QED
  BY <1>1, <1>2, PTL DEF Spec

\* However a renewal ends, a managed service is left started, with the
\* configuration that is on disk.
THEOREM AlwaysServesWhatIsInstalled ==
  ASSUME ~RecoveryFails
  PROVE  Spec => []ServesWhatIsInstalled
<1>1. ServiceInv => ServesWhatIsInstalled
  BY DEF ServiceInv, Serving, ServesWhatIsInstalled
<1> QED
  BY <1>1, ServiceAlways, PTL

\* A managed service neither runs nor can be restarted while files change.
THEOREM AlwaysSwitchedWhileStopped ==
  ASSUME ~RecoveryFails
  PROVE  Spec => SwitchedWhileStopped
<1>1. ServiceInv /\ [Next]_vars => [managed /\ disk' # disk => ~up /\ ~wanted]_vars
  <2> SUFFICES ASSUME ServiceInv, Next, managed, disk' # disk
               PROVE  ~up /\ ~wanted
    OBVIOUS
  <2>1. Install \/ Remove \/ Restore
    BY DEF Next, Begin, Generate, Copy, Switch, Stop, Check, Start, Settle, Show, Commit, Uncover, Abort,
           Decide, CleanStop, Restart, CleanWork, Kill, Die, Respawn
  <2>2. pc \in {"install", "remove", "restore"}
    BY <2>1 DEF Install, Remove, Restore, At
  <2> QED
    BY <2>2 DEF ServiceInv
<1> QED
  BY <1>1, ServiceAlways, PTL DEF Spec, SwitchedWhileStopped

-----------------------------------------------------------------------------
(* The script implements Replacement.                                      *)

\* There is a way back until the renewal is committed, and none after that.
UndoInv ==
  /\ old # NoFiles
  /\ committed => disk = New
  /\ ~committed /\ pc # "done" => IF switched THEN backup = old ELSE disk = old
  /\ pc \in {"cleanstop", "remove", "restore"} => switched
  /\ pc = "done" => backup = NoFiles

\* A service that runs, or may be restarted at any time, has a whole delivery.
RunsInv ==
  /\ up \/ wanted => disk \in {old, New} /\ (up => loaded = disk)
  /\ ~managed => ~wanted /\ (up => pc \in {"ready", "refused"})

Invs == RenewInv /\ TypeInv /\ ServiceInv

LEMMA UndoInit == Init => UndoInv /\ RunsInv
<1> SUFFICES ASSUME Init
             PROVE  UndoInv /\ RunsInv
  OBVIOUS
<1>1. PICK f \in Kept : TRUE
  BY FileAssumption
<1>2. old[f] = "old" /\ NoFiles[f] = None /\ None # "old"
  BY <1>1, FaultAssumption DEF Init, NoFiles, File
<1>3. old # NoFiles
  BY <1>2
<1> QED
  BY <1>3 DEF Init, UndoInv, RunsInv

\* The steps that leave the files, the flags and the backup alone.
LEMMA UndoQuiet ==
  ASSUME Invs, UndoInv,
         Begin \/ Generate \/ Stop \/ Check \/ Start \/ Settle \/ Show \/ Abort \/ Decide \/ CleanStop \/ Restart
           \/ Kill \/ Die \/ Respawn \/ UNCHANGED vars
  PROVE  UndoInv'
<1>1. UNCHANGED <<chosen, disk, backup, switched, committed>>
  BY DEF Begin, Generate, Stop, Check, Start, Settle, Show, Abort, Decide, CleanStop, Restart, Kill, Die, Respawn,
         vars, flags
<1>2. New' = New /\ old' = old
  BY <1>1, NewFixed
<1>3. pc' = pc \/ (pc # "done" /\ pc' # "done")
  BY DEF Begin, Generate, Stop, Check, Start, Settle, Show, Abort, Decide, CleanStop, Restart, Kill, Die, Respawn,
         vars, At, Goto, Guarded, Cleanup
<1>4. pc' = pc \/ ((pc' \in {"cleanstop", "remove"} => switched) /\ pc' # "restore")
  BY DEF UndoInv, Begin, Generate, Stop, Check, Start, Settle, Show, Abort, Decide, CleanStop, Restart, Kill, Die,
         Respawn, vars, At, Goto
<1> QED
  BY <1>1, <1>2, <1>3, <1>4 DEF UndoInv, NoFiles

LEMMA UndoStep ==
  ASSUME Invs, UndoInv, [Next]_vars, ~RecoveryFails
  PROVE  UndoInv'
<1>1. CASE Copy \/ Switch \/ Commit \/ Uncover \/ CleanWork
  <2>1. New' = New /\ old' = old /\ disk' = disk
    BY <1>1, NewFixed DEF Copy, Switch, Commit, Uncover, CleanWork
  <2>2. /\ pc \in {"copy", "switch"} => ~switched /\ ~committed /\ disk = old
        /\ pc = "switch" => backup = old
        /\ pc = "commit" => disk = New
        /\ pc = "uncover" => committed
    BY DEF Invs, RenewInv, Renewing, Guarded
  <2>3. NoFiles' = NoFiles
    BY DEF NoFiles
  <2> QED
    BY <1>1, <2>1, <2>2, <2>3 DEF UndoInv, Copy, Switch, Commit, Uncover, CleanWork, At, Goto, flags
<1>2. CASE Install \/ Remove \/ Restore
  <2>1. /\ UNCHANGED <<chosen, backup, switched, committed>>
        /\ pc \in {"install", "remove", "restore"}
        /\ pc' \in {"check", "install", "cleanup", "restart"} \/ (pc \in {"remove", "restore"} /\ pc' = "restore")
    BY <1>2 DEF Install, Remove, Restore, CleanupFails, At, Goto, flags
  <2>2. switched /\ ~committed
    BY <2>1 DEF Invs, RenewInv, Renewing, Cleaning, UndoInv, Guarded
  <2>3. old' = old /\ NoFiles' = NoFiles
    BY <2>1, NewFixed DEF NoFiles
  <2> QED
    BY <2>1, <2>2, <2>3 DEF UndoInv
<1> QED
  BY <1>1, <1>2, UndoQuiet, Zenon DEF Next

LEMMA RunsStep ==
  ASSUME Invs, UndoInv, RunsInv, [Next]_vars, ~RecoveryFails
  PROVE  RunsInv'
<1>1. New' = New /\ old' = old /\ managed' = managed
  <2>1. UNCHANGED chosen
    BY DEF Next, Begin, Generate, Copy, Switch, Stop, Install, Check, Start, Settle, Show, Commit, Uncover, Abort,
           Decide, CleanStop, Remove, Restore, Restart, CleanWork, Kill, Die, Respawn, vars
  <2> QED
    BY <2>1, NewFixed DEF chosen
<1>2. managed \in BOOLEAN /\ up \in BOOLEAN /\ wanted \in BOOLEAN
  BY DEF Invs, TypeInv, TypeOK
<1>3. CASE Install \/ Remove \/ Restore
  <2>1. pc \in {"install", "remove", "restore"} /\ UNCHANGED service
    BY <1>3 DEF Install, Remove, Restore, At
  <2>2. ~up /\ ~wanted
    BY <1>2, <2>1 DEF Invs, ServiceInv, RunsInv
  <2> QED
    BY <2>1, <2>2 DEF RunsInv, service
<1>4. CASE Start \/ Restart \/ Respawn
  <2>1. disk' = disk
    BY <1>4 DEF Start, Restart, Respawn
  <2>2. pc = "start" => disk = New
    BY DEF Invs, RenewInv, Renewing
  <2>3. pc = "restart" => disk = old
    BY DEF Invs, RenewInv, Cleaning
  <2>4. CASE Start
    BY <1>1, <2>1, <2>2, <2>4 DEF RunsInv, Start, RuntimeStart, At
  <2>5. CASE Restart
    BY <1>1, <1>2, <2>1, <2>3, <2>5 DEF RunsInv, Restart, RuntimeStart, NoRuntime, CleanupFails, At, Goto, service
  <2>6. CASE Respawn
    BY <1>1, <1>2, <2>1, <2>6 DEF RunsInv, Respawn
  <2> QED
    BY <1>4, <2>4, <2>5, <2>6
<1>5. CASE Stop \/ CleanStop \/ Die
  <2>1. disk' = disk /\ loaded' = loaded /\ (up' => up) /\ (wanted' => wanted)
    BY <1>2, <1>5
    DEF Stop, CleanStop, Die, RuntimeStop, NoRuntime, CleanupFails, service, At, Goto, flags
  <2> QED
    BY <1>1, <1>5, <2>1 DEF RunsInv, Stop, CleanStop, Die, At
<1>6. CASE Begin
  BY <1>1, <1>2, <1>6 DEF RunsInv, Begin, At, Goto, service
<1>7. CASE UNCHANGED <<disk, service, pc>>
  BY <1>1, <1>7 DEF RunsInv, service
<1>8. CASE /\ UNCHANGED <<disk, service>>
           /\ pc \notin {"ready", "refused"}
  BY <1>1, <1>8 DEF RunsInv, service
<1>9. CASE Generate \/ Copy \/ Switch \/ Check \/ Settle \/ Show \/ Commit \/ Uncover \/ Abort \/ Decide \/ CleanWork
             \/ Kill
  <2>1. UNCHANGED <<disk, service>> /\ pc \notin {"ready", "refused"}
    BY <1>9 DEF Generate, Copy, Switch, Check, Settle, Show, Commit, Uncover, Abort, Decide, CleanWork, Kill,
                At, Guarded, Cleanup
  <2> QED
    BY <1>8, <2>1
<1>10. CASE UNCHANGED vars
  BY <1>7, <1>10 DEF vars
<1> QED
  BY <1>3, <1>4, <1>5, <1>6, <1>9, <1>10, Zenon DEF Next

\* What can be put back is the old delivery until the new one is committed.
Undoable == Recovered = IF committed THEN New ELSE old

LEMMA RecoveredIs ==
  ASSUME Invs, UndoInv
  PROVE  Undoable
<1> USE DEF Undoable
<1>1. CASE pc = "done"
  BY <1>1 DEF Recovered, UndoInv, Invs, RenewInv, Cleaning
<1>2. CASE pc # "done"
  BY <1>2 DEF Recovered, UndoInv
<1> QED
  BY <1>1, <1>2

Served == IF up THEN loaded ELSE None
Ended == committed \/ pc \in {"refused", "done"}

LEMMA InitReplacement ==
  ASSUME Init
  PROVE  Promise!Init
<1>1. RenewInv /\ TypeInv /\ UndoInv /\ ServiceInv
  BY RenewInit, TypeInit, UndoInit, ServiceInit
<1>2. Recovered = old
  BY <1>1, RecoveredIs DEF Init, Invs, Undoable
<1>3. old \in [File -> Content] /\ New \in [File -> Content]
  BY <1>1, FileTypes DEF TypeInv, TypeOK
<1> QED
  BY <1>2, <1>3 DEF Init, Promise!Init

LEMMA StepReplacement ==
  ASSUME Invs, UndoInv, RunsInv, Undoable, Undoable', [Next]_vars, ~RecoveryFails
  PROVE  [Promise!Next]_(Promise!renewal)
<1>1. UNCHANGED chosen
  BY DEF Next, Begin, Generate, Copy, Switch, Stop, Install, Check, Start, Settle, Show, Commit, Uncover, Abort,
         Decide, CleanStop, Remove, Restore, Restart, CleanWork, Kill, Die, Respawn, vars
<1>2. New' = New /\ old' = old
  BY <1>1, NewFixed
<1>3. /\ Recovered = IF committed THEN New ELSE old
      /\ Recovered' = IF committed' THEN New ELSE old
  BY <1>2 DEF Undoable
<1>4. /\ Promise!Lose <=> Served' = None /\ UNCHANGED <<Recovered, New, Ended>>
      /\ Promise!Serve <=> /\ Served = None
                           /\ Served' \in IF Ended THEN {Recovered} ELSE {Recovered, New}
                           /\ UNCHANGED <<Recovered, New, Ended>>
      /\ Promise!Replace <=> /\ ~Ended /\ Served \in {None, New} /\ Recovered' = New /\ Ended' = TRUE
                             /\ UNCHANGED <<New, Served>>
      /\ Promise!GiveUp <=> /\ ~Ended /\ Served \in {None, Recovered} /\ Ended' = TRUE
                            /\ UNCHANGED <<Recovered, New, Served>>
      /\ UNCHANGED Promise!renewal <=> UNCHANGED <<Recovered, New, Served, Ended>>
  BY DEF Promise!Lose, Promise!Serve, Promise!Replace, Promise!GiveUp, Promise!renewal, Served, Ended
<1> SUFFICES \/ Promise!Lose \/ Promise!Serve \/ Promise!Replace \/ Promise!GiveUp
             \/ UNCHANGED Promise!renewal
  BY DEF Promise!Next
<1>5. up \in BOOLEAN /\ wanted \in BOOLEAN
  BY DEF Invs, TypeInv, TypeOK
<1>6. CASE Begin
  <2>1. disk = old /\ ~committed /\ ~committed' /\ pc' \in {"generate", "refused"} /\ pc = "ready"
        /\ UNCHANGED service
    BY <1>6 DEF Begin, Invs, RenewInv, Renewing, At, Goto, flags
  <2>2. Served \in {None, old} /\ Served' = Served
    BY <2>1 DEF Served, RunsInv, service
  <2>3. CASE pc' = "generate"
    BY <1>2, <1>3, <1>4, <2>1, <2>2, <2>3 DEF Ended
  <2>4. CASE pc' = "refused"
    BY <1>2, <1>3, <1>4, <2>1, <2>2, <2>4 DEF Ended
  <2> QED
    BY <2>1, <2>3, <2>4
<1>7. CASE Commit
  <2>1. disk = New /\ ~committed /\ committed' /\ pc = "commit" /\ UNCHANGED service
    BY <1>7 DEF Commit, Invs, RenewInv, Renewing, Guarded, At
  <2>2. Served \in {None, New} /\ Served' = Served
    BY <2>1 DEF Served, RunsInv, service
  <2> QED
    BY <1>2, <1>3, <1>4, <2>1, <2>2 DEF Ended
<1>8. CASE CleanWork
  <2>1. committed' = committed /\ pc = "cleanwork" /\ pc' = "done" /\ UNCHANGED service
        /\ disk = IF committed THEN New ELSE old
    BY <1>8 DEF CleanWork, Invs, RenewInv, Cleaning, At, Goto, flags
  <2>2. (~committed => Served \in {None, old}) /\ Served' = Served
    BY <2>1 DEF Served, RunsInv, service
  <2>3. CASE committed
    BY <1>2, <1>3, <1>4, <2>1, <2>2, <2>3 DEF Ended
  <2>4. CASE ~committed
    BY <1>2, <1>3, <1>4, <2>1, <2>2, <2>4 DEF Ended
  <2> QED
    BY <2>3, <2>4
<1>9. CASE Start \/ Restart \/ Respawn
  <2>1. committed' = committed /\ Ended' = Ended /\ disk' = disk
    BY <1>9 DEF Start, Restart, Respawn, Ended, At, Goto, flags
  <2>2. \/ UNCHANGED <<up, loaded>>
        \/ ~up /\ up' /\ loaded' = disk
    BY <1>5, <1>9 DEF Start, Restart, Respawn, RuntimeStart, NoRuntime, CleanupFails, service
  <2>3. CASE UNCHANGED <<up, loaded>>
    BY <1>2, <1>3, <1>4, <2>1, <2>3 DEF Served
  <2>4. CASE ~up /\ up' /\ loaded' = disk
    <3>1. disk \in {old, New}
      BY <1>9 DEF Start, Restart, Respawn, RunsInv, Invs, RenewInv, Renewing, Cleaning, At
    <3>2. Ended => disk = IF committed THEN New ELSE old
      BY DEF Ended, UndoInv, Invs, RenewInv, Renewing, Cleaning
    <3>3. Served = None /\ Served' = disk
      BY <2>4 DEF Served
    <3> QED
      BY <1>2, <1>3, <1>4, <2>1, <3>1, <3>2, <3>3 DEF Ended
  <2> QED
    BY <2>2, <2>3, <2>4
<1>10. CASE Stop \/ CleanStop \/ Die
  <2>1. committed' = committed /\ Ended' = Ended
    BY <1>10 DEF Stop, CleanStop, Die, Ended, At, Goto, flags
  <2>2. UNCHANGED <<up, loaded>> \/ ~up'
    BY <1>10 DEF Stop, CleanStop, Die, RuntimeStop, NoRuntime, CleanupFails, service
  <2>3. Served' = Served \/ Served' = None
    BY <2>2 DEF Served
  <2> QED
    BY <1>2, <1>3, <1>4, <2>1, <2>3
<1>11. CASE \/ Generate \/ Copy \/ Switch \/ Install \/ Check \/ Settle \/ Show \/ Uncover \/ Abort
            \/ Decide \/ Remove \/ Restore \/ Kill \/ UNCHANGED vars
  <2>1. committed' = committed /\ UNCHANGED service
    BY <1>11 DEF Generate, Copy, Switch, Install, Check, Settle, Show, Uncover, Abort, Decide, Remove, Restore, Kill,
                 vars, flags
  <2>2. \/ pc' = pc
        \/ pc \notin {"refused", "done"} /\ pc' \notin {"refused", "done"}
    BY <1>11 DEF Generate, Copy, Switch, Install, Check, Settle, Show, Uncover, Abort, Decide, Remove, Restore, Kill,
                 vars, At, Goto, Guarded, Cleanup
  <2>3. Served' = Served /\ Ended' = Ended
    BY <2>1, <2>2 DEF Served, Ended, service
  <2> QED
    BY <1>2, <1>3, <1>4, <2>1, <2>3
<1> QED
  BY <1>6, <1>7, <1>8, <1>9, <1>10, <1>11, Zenon DEF Next

\* A renewal is as good as one that replaces the delivery in one step or not at
\* all, at whatever commands it fails or is killed, and its service runs no mixture
\* of two deliveries, nor the one that was replaced or given up
\* (scripts/mini-singboxctl:38-58 and :229-329).
THEOREM AlwaysImplementsReplacement ==
  ASSUME ~RecoveryFails
  PROVE  Spec => ImplementsReplacement
<1>1. Init => Promise!Init
  BY InitReplacement
<1>2. Init => UndoInv /\ RunsInv
  BY UndoInit
<1>3. Invs /\ UndoInv /\ RunsInv /\ [Next]_vars => (UndoInv /\ RunsInv)'
  BY UndoStep, RunsStep
<1>4. Invs /\ UndoInv => Undoable
  BY RecoveredIs
<1>5. /\ Invs /\ UndoInv /\ RunsInv /\ Undoable /\ Undoable' /\ [Next]_vars
      => [Promise!Next]_(Promise!renewal)
  BY StepReplacement
<1>6. Spec => []Invs
  BY ServiceAlways DEF Invs
<1> QED
  BY <1>1, <1>2, <1>3, <1>4, <1>5, <1>6, PTL DEF Spec, ImplementsReplacement, Promise!Spec
=============================================================================
