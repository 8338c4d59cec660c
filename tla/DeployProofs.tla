---------------------------- MODULE DeployProofs ----------------------------
(***************************************************************************)
(* Proofs about Deploy: its types, the two safety invariants of the        *)
(* scripts, that a deployment keeps what it found and that an active       *)
(* tuning keeps the program that can undo it, and how a deployment ends.   *)
(*                                                                         *)
(* None is inductive.  Inv adds what the script's variables say of where   *)
(* it is (Order), that a deployment's version is its own (Fresh), which    *)
(* copies its backup holds (SavedInv), where the binary is between the     *)
(* move, the switch and a rollback (BinaryInv), and that tuning begins     *)
(* only with a binary in place (TunedInv).  EndInv, on top of it, says     *)
(* that whatever has been changed is what the rollback will put back, or   *)
(* one of the parts that excused names.                                    *)
(***************************************************************************)
EXTENDS Deploy, TLAPS

Anywhere ==
  {"idle", "backup", "stage", "stop", "move", "had binary", "switch", "tools", "config remove", "config",
   "config done", "delivery", "delivery done", "info", "info begun", "info rewritten", "enable", "start", "tune",
   "prune", "retired", "retire", "succeeded", "undo stop", "undo binary", "undo tools", "undo config", "undo files",
   "undo service", "un tune", "un service", "un files"}

\* No deployment is at work; the new binary is in its place.
Quiescent == pc \in {"idle", "un tune", "un service", "un files"}
Switched ==
  {"tools", "config remove", "config", "config done", "delivery", "delivery done", "info", "info begun",
   "info rewritten", "enable", "start", "tune", "prune", "retired", "retire", "succeeded"}

Version == Partial..(MaxRun + 1)

Variables ==
  [name : Nat, had : SUBSET Part, started : BOOLEAN, replaced : BOOLEAN, refreshed : BOOLEAN, info : BOOLEAN,
   retired : BOOLEAN, active : BOOLEAN, enabled : BOOLEAN, migrating : BOOLEAN, version : 0..(MaxRun + 1)]

-----------------------------------------------------------------------------
(* The invariant.                                                          *)

\* Types, in three groups.
ControlTyped == pc \in Anywhere /\ var \in Variables /\ count \in 0..MaxRun

FilesTyped ==
  /\ disk \in [Part -> Version] /\ disk["binary"] # Partial
  /\ \A n \in DOMAIN backups : backups[n] \in [Part -> Version]
  /\ last.disk \in [Part -> Version] /\ last.disk["binary"] # Partial
  /\ var.name # 0 => var.name \in DOMAIN backups

ServiceTyped ==
  /\ service \in [binary : Version, config : Version]
  /\ enabled \in BOOLEAN /\ tuned \in BOOLEAN

\* Where the script is, and what its variables say of it.
Order ==
  /\ Quiescent => var = NoVar
  /\ pc = "backup" => var.name = 0 /\ var.had = {}
  /\ ~Quiescent /\ pc # "backup" => var.name # 0
  /\ ~Quiescent => var.version = count + 1
  /\ ~Quiescent => (var.started <=> pc \notin {"backup", "stage"})
  /\ pc \in {"retired", "retire"} \/ var.retired => var.migrating
  /\ pc \in {"un tune", "un service", "un files"} => \A p \in Part : last.disk[p] = Absent

\* The deployment at work has a version of its own.
Fresh ==
  /\ \A p \in Part : disk[p] <= count + 1
  /\ pc = "backup" => \A p \in Part : disk[p] <= count
  /\ var.name # 0 => \A p \in Part : last.disk[p] <= count

\* What the deployment found is in its backup: everything it will touch, but
\* the binary, which follows.
Here(p) == backups[var.name][p] = last.disk[p]

SavedInv ==
  var.name # 0 =>
    /\ \A p \in var.had : Here(p)
    /\ \A p \in Part \ {"binary", "runner"} : last.disk[p] # Absent => p \in var.had
    /\ var.migrating /\ last.disk["runner"] # Absent => "runner" \in var.had
    /\ \A p \in Part \ {"binary"} : last.disk[p] > 0 => disk[p] = last.disk[p] \/ Here(p)

\* The binary is in its place, or moved to the backup, or lost in the one case
\* that is named.
BinaryInv ==
  var.name # 0 =>
    /\ pc \in {"stage", "stop", "move"} => disk["binary"] = last.disk["binary"] /\ "binary" \notin var.had
    /\ pc \in {"move", "had binary"} \/ "binary" \in var.had => last.disk["binary"] > 0
    /\ pc = "had binary" => Here("binary")
    /\ pc = "switch" => last.disk["binary"] = Absent \/ Here("binary")
    /\ last.disk["binary"] > 0 => disk["binary"] = last.disk["binary"] \/ Here("binary") \/ unsaved
    /\ unsaved => pc \in {"undo tools", "undo config", "undo files", "undo service"}

\* An active tuning has its program but between the move and the switch, and
\* until the rollback has put the old one back.
TunedInv ==
  /\ pc \in {"un service", "un files"} => ~tuned
  /\ pc \in Switched => disk["binary"] = var.version
  /\ tuned => orphaned \/ disk["binary"] > 0 \/ pc \in {"had binary", "switch", "undo stop", "undo binary"}

Inv == ControlTyped /\ FilesTyped /\ ServiceTyped /\ Order /\ Fresh /\ SavedInv /\ BinaryInv /\ TunedInv /\ NothingLost

-----------------------------------------------------------------------------
(* Parts and values.                                                       *)

LEMMA Parts ==
  /\ {"binary", "unit", "runner", "config", "delivery", "info"} \subseteq Part
  /\ Tool \subseteq Part
  /\ \A t \in Tool : t \notin {"binary", "unit", "runner", "config", "delivery", "info"}
  /\ Configuration \subseteq Part \ {"binary", "unit", "runner"}
BY DeployAssumption DEF Part, Configuration

LEMMA Versions ==
  ASSUME ControlTyped, FilesTyped
  PROVE  /\ Absent \in Version /\ Partial \in Version /\ 1 \in Version /\ var.version \in Version
         /\ Absent # Partial /\ var.version # Partial
         /\ \A p \in Part : disk[p] \in Version /\ last.disk[p] \in Version
         /\ MaxRun \in Nat /\ Version \subseteq Int
BY DeployAssumption DEF ControlTyped, FilesTyped, Version, Variables, Absent, Partial

LEMMA Counts ==
  ASSUME ControlTyped
  PROVE  count \in Nat /\ count <= MaxRun /\ MaxRun \in Nat
<1>1. MaxRun \in Nat
  BY DeployAssumption
<1>2. count \in 0..MaxRun
  BY Zenon DEF ControlTyped
<1> QED
  BY <1>1, <1>2

LEMMA SetFields ==
  ASSUME var \in Variables
  PROVE  /\ Set("started", TRUE) =>
              /\ var' \in Variables
              /\ var'.started /\ var'.name = var.name /\ var'.had = var.had /\ var'.version = var.version
              /\ var'.migrating = var.migrating /\ var'.retired = var.retired
         /\ Set("had", var.had \cup {"binary"}) =>
              /\ var' \in Variables
              /\ var'.started = var.started /\ var'.name = var.name /\ var'.version = var.version
              /\ var'.had = var.had \cup {"binary"}
              /\ var'.migrating = var.migrating /\ var'.retired = var.retired
         /\ Set("info", TRUE) =>
              /\ var' \in Variables
              /\ var'.started = var.started /\ var'.name = var.name /\ var'.had = var.had /\ var'.version = var.version
              /\ var'.migrating = var.migrating /\ var'.retired = var.retired
         /\ Set("retired", TRUE) =>
              /\ var' \in Variables
              /\ var'.started = var.started /\ var'.name = var.name /\ var'.had = var.had /\ var'.version = var.version
              /\ var'.migrating = var.migrating /\ var'.retired = TRUE
<1>1. CASE Set("started", TRUE)
  BY <1>1 DEF Set, Variables
<1>2. CASE Set("had", var.had \cup {"binary"})
  BY <1>2 DEF Set, Variables, Part
<1>3. CASE Set("info", TRUE)
  BY <1>3 DEF Set, Variables
<1>4. CASE Set("retired", TRUE)
  BY <1>4 DEF Set, Variables
<1> QED
  BY <1>1, <1>2, <1>3, <1>4

LEMMA NoVarTyped ==
  /\ NoVar \in Variables /\ NoVar.name = 0 /\ NoVar.had = {} /\ NoVar.started = FALSE
  /\ NoVar.retired = FALSE /\ NoVar.migrating = FALSE
BY DeployAssumption DEF NoVar, Variables

-----------------------------------------------------------------------------
(* Classes of steps.                                                       *)

\* The deployment keeps its backup and what it knows of it.
GoesOn ==
  /\ UNCHANGED <<count, last, backups>>
  /\ var'.name = var.name /\ var'.had = var.had /\ var'.version = var.version /\ var'.migrating = var.migrating

\* What a step may write to a part.
Written(p) == disk'[p] \in {disk[p], Absent, Partial, var.version} \/ (p \in var.had /\ disk'[p] = backups[var.name][p])

LEMMA WrittenTyped ==
  ASSUME ControlTyped, FilesTyped, SavedInv, Order, ~Quiescent, pc # "backup", GoesOn,
         DOMAIN disk' = Part, disk' = [p \in Part |-> disk'[p]],
         \A p \in Part : Written(p), disk'["binary"] # Partial
  PROVE  FilesTyped'
<1>1. \A p \in Part : disk'[p] \in Version
  BY Versions, ZenonT(40) DEF Written, SavedInv, Order, Here
<1>2. disk' \in [Part -> Version]
  BY <1>1
<1> QED
  BY <1>2 DEF FilesTyped, GoesOn

LEMMA WrittenFresh ==
  ASSUME ControlTyped, FilesTyped, Fresh, SavedInv, Order, ~Quiescent, pc # "backup", GoesOn, pc' # "backup",
         \A p \in Part : Written(p)
  PROVE  Fresh'
<1>0. count \in Nat
  BY DeployAssumption DEF ControlTyped
<1>1. var.name # 0 /\ var.version = count + 1 /\ count \in Nat
  BY <1>0, Zenon DEF Order
<1>2. ASSUME NEW p \in Part
      PROVE  disk'[p] <= count + 1
  <2>1. disk[p] <= count + 1 /\ last.disk[p] <= count /\ disk[p] \in Int /\ last.disk[p] \in Int
    BY <1>1, Versions DEF Fresh
  <2>2. p \in var.had => backups[var.name][p] = last.disk[p]
    BY <1>1 DEF SavedInv, Here
  <2>3. disk'[p] \in {disk[p], 0, -1, count + 1, last.disk[p]}
    BY <1>1, <2>2 DEF Written, Absent, Partial
  <2> QED
    BY <1>1, <2>1, <2>3
<1> QED
  BY <1>1, <1>2 DEF Fresh, GoesOn

\* Whatever a step does to the parts that were copied, they are in the backup.
LEMMA CopiedSaved ==
  ASSUME FilesTyped, SavedInv, GoesOn,
         \A p \in Part \ {"binary"} : disk'[p] = disk[p] \/ p # "runner" \/ var.migrating
  PROVE  SavedInv'
<1>1. CASE var.name = 0
  BY <1>1 DEF SavedInv, GoesOn
<1>2. CASE var.name # 0
  <2>1. /\ \A p \in Part : Here(p)' = Here(p)
        /\ \A p \in var'.had : Here(p)' = Here(p)
    BY DEF Here, GoesOn
  <2>2. ASSUME NEW p \in Part \ {"binary"}, last.disk[p] > 0
        PROVE  disk'[p] = last.disk[p] \/ Here(p)
    <3>1. last.disk[p] # Absent
      BY <2>2 DEF Absent
    <3> QED
      BY <1>2, <2>2, <3>1 DEF SavedInv
  <2> QED
    BY <1>2, <2>1, <2>2 DEF SavedInv, GoesOn
<1> QED
  BY <1>1, <1>2

LEMMA SameBinary ==
  ASSUME BinaryInv, GoesOn, UNCHANGED unsaved, disk'["binary"] = disk["binary"],
         pc' \in {"stage", "stop", "move", "had binary", "switch"} => pc' = pc,
         pc \in {"undo tools", "undo config", "undo files"} => pc' \in {"undo config", "undo files", "undo service"},
         pc # "undo service"
  PROVE  BinaryInv'
BY DEF BinaryInv, GoesOn, Here

\* The invariant of the backup is what keeps everything.
LEMMA SavedKeeps ==
  ASSUME (var.name # 0 /\ FilesTyped /\ SavedInv /\ BinaryInv)'
  PROVE  NothingLost'
BY DEF FilesTyped, SavedInv, BinaryInv, NothingLost, Kept, Here

\* A step that touches no part.
LEMMA QuietKeeps ==
  ASSUME Inv, GoesOn, UNCHANGED disk, pc' # "backup"
  PROVE  FilesTyped' /\ Fresh' /\ SavedInv'
<1>1. FilesTyped' /\ Fresh'
  BY DEF Inv, FilesTyped, Fresh, GoesOn
<1>2. SavedInv'
  BY <1>1, CopiedSaved DEF Inv
<1> QED
  BY <1>1, <1>2

LEMMA ServiceKeeps ==
  ASSUME FilesTyped, ServiceTyped, enabled' \in BOOLEAN, tuned' \in BOOLEAN,
         service' \in {service, Stopped, [binary |-> disk["binary"], config |-> disk["config"]]}
  PROVE  ServiceTyped'
<1>1. disk["binary"] \in Version /\ disk["config"] \in Version
  BY Parts DEF FilesTyped
<1>2. [binary |-> disk["binary"], config |-> disk["config"]] \in [binary : Version, config : Version]
  BY <1>1
<1>3. Stopped \in [binary : Version, config : Version]
  BY DeployAssumption DEF Stopped, Version, Absent, Partial
<1> QED
  BY <1>2, <1>3 DEF ServiceTyped

\* A deployment that ends leaves no variables, and what was kept is kept.
LEMMA FinishKeeps ==
  ASSUME Inv, Finish, UNCHANGED <<count, last, backups, unsaved, disk>>
  PROVE  ControlTyped' /\ FilesTyped' /\ Order' /\ Fresh' /\ SavedInv' /\ BinaryInv' /\ NothingLost'
<1>1. pc' = "idle" /\ var' = NoVar
  BY DEF Finish
<1>2. ControlTyped' /\ Order'
  BY <1>1, NoVarTyped DEF ControlTyped, Order, Inv, Quiescent, Anywhere
<1>3. FilesTyped' /\ Fresh'
  BY <1>1, NoVarTyped DEF Inv, FilesTyped, Fresh
<1>4. SavedInv' /\ BinaryInv'
  BY <1>1, NoVarTyped DEF SavedInv, BinaryInv
<1>5. NothingLost'
  BY DEF Inv, NothingLost, Kept
<1> QED
  BY <1>2, <1>3, <1>4, <1>5

-----------------------------------------------------------------------------
(* The steps that change no part of the installation.                      *)

LEMMA StopKeeps ==
  ASSUME Inv, Stop
  PROVE  Inv'
<1>0. /\ pc = "stop" /\ pc' \in {"switch", "move"} /\ GoesOn /\ UNCHANGED <<disk, unsaved>>
      /\ var' \in Variables /\ var'.started = var.started /\ var'.retired = var.retired
  BY DEF Stop, Inv, ControlTyped, GoesOn, Step, Quiet, history, bounds, host
<1>1. ControlTyped' /\ Order'
  BY <1>0 DEF Inv, ControlTyped, Order, GoesOn, Anywhere, Quiescent, Stop
<1>2. FilesTyped' /\ Fresh' /\ SavedInv'
  BY <1>0, QuietKeeps
<1>3. BinaryInv'
  <2>1. /\ pc' = "switch" => disk["binary"] = Absent
        /\ pc' = "move" => disk["binary"] # Absent
    BY <1>0 DEF Stop
  <2>2. disk["binary"] \in Version /\ last.disk["binary"] \in Version /\ disk["binary"] # Partial
    BY Parts DEF Inv, FilesTyped
  <2>3. disk["binary"] # Absent => disk["binary"] > 0
    BY <2>2, DeployAssumption DEF Version, Absent, Partial
  <2> QED
    BY <1>0, <2>1, <2>3 DEF Inv, BinaryInv, Order, Quiescent, GoesOn, Here, Absent
<1>4. ServiceTyped'
  BY <1>0, ServiceKeeps DEF Inv, ServiceTyped, Stop, Quiet, runtime_stop
<1>5. TunedInv'
  BY <1>0 DEF Inv, TunedInv, GoesOn, Stop, Quiet, history, Switched, Absent, FilesTyped
<1>6. NothingLost'
  BY <1>0, <1>1, <1>2, <1>3, SavedKeeps DEF Inv, Order, GoesOn, Quiescent
<1> QED
  BY <1>1, <1>2, <1>3, <1>4, <1>5, <1>6 DEF Inv

LEMMA InfoRewrittenKeeps ==
  ASSUME Inv, InfoRewritten
  PROVE  Inv'
<1>0. /\ pc = "info rewritten" /\ pc' \in {"prune", "enable"} /\ GoesOn /\ UNCHANGED <<disk, unsaved>>
      /\ var' \in Variables /\ var'.started = var.started /\ var'.retired = var.retired
  BY SetFields DEF InfoRewritten, Inv, ControlTyped, GoesOn, Step, Quiet, history, bounds, host
<1>1. ControlTyped' /\ Order'
  BY <1>0 DEF Inv, ControlTyped, Order, GoesOn, Anywhere, Quiescent, InfoRewritten
<1>2. FilesTyped' /\ Fresh' /\ SavedInv'
  BY <1>0, QuietKeeps
<1>3. BinaryInv'
  BY <1>0, SameBinary DEF Inv
<1>4. ServiceTyped'
  BY <1>0, ServiceKeeps DEF Inv, ServiceTyped, InfoRewritten, Quiet
<1>5. TunedInv'
  BY <1>0 DEF Inv, TunedInv, GoesOn, InfoRewritten, Quiet, history, Switched
<1>6. NothingLost'
  BY <1>0, <1>1, <1>2, <1>3, SavedKeeps DEF Inv, Order, GoesOn, Quiescent
<1> QED
  BY <1>1, <1>2, <1>3, <1>4, <1>5, <1>6 DEF Inv

LEMMA EnableKeeps ==
  ASSUME Inv, Enable
  PROVE  Inv'
<1>0. /\ pc = "enable" /\ pc' = "start" /\ GoesOn /\ UNCHANGED <<disk, unsaved>>
      /\ var' \in Variables /\ var'.started = var.started /\ var'.retired = var.retired
  BY DEF Enable, Inv, ControlTyped, GoesOn, Step, Quiet, history, bounds, host
<1>1. ControlTyped' /\ Order'
  BY <1>0 DEF Inv, ControlTyped, Order, GoesOn, Anywhere, Quiescent, Enable
<1>2. FilesTyped' /\ Fresh' /\ SavedInv'
  BY <1>0, QuietKeeps
<1>3. BinaryInv'
  BY <1>0, SameBinary DEF Inv
<1>4. ServiceTyped'
  BY <1>0, ServiceKeeps DEF Inv, ServiceTyped, Enable, Quiet
<1>5. TunedInv'
  BY <1>0 DEF Inv, TunedInv, GoesOn, Enable, Quiet, history, Switched
<1>6. NothingLost'
  BY <1>0, <1>1, <1>2, <1>3, SavedKeeps DEF Inv, Order, GoesOn, Quiescent
<1> QED
  BY <1>1, <1>2, <1>3, <1>4, <1>5, <1>6 DEF Inv

LEMMA StartKeeps ==
  ASSUME Inv, Start
  PROVE  Inv'
<1>0. /\ pc = "start" /\ pc' \in {"prune", "tune"} /\ GoesOn /\ UNCHANGED <<disk, unsaved>>
      /\ var' \in Variables /\ var'.started = var.started /\ var'.retired = var.retired
  BY DEF Start, Inv, ControlTyped, GoesOn, Step, Quiet, history, bounds, host
<1>1. ControlTyped' /\ Order'
  BY <1>0 DEF Inv, ControlTyped, Order, GoesOn, Anywhere, Quiescent, Start
<1>2. FilesTyped' /\ Fresh' /\ SavedInv'
  BY <1>0, QuietKeeps
<1>3. BinaryInv'
  BY <1>0, SameBinary DEF Inv
<1>4. ServiceTyped'
  BY <1>0, ServiceKeeps DEF Inv, ServiceTyped, Start, Quiet, runtime_start
<1>5. TunedInv'
  BY <1>0 DEF Inv, TunedInv, GoesOn, Start, Quiet, history, Switched
<1>6. NothingLost'
  BY <1>0, <1>1, <1>2, <1>3, SavedKeeps DEF Inv, Order, GoesOn, Quiescent
<1> QED
  BY <1>1, <1>2, <1>3, <1>4, <1>5, <1>6 DEF Inv

LEMMA TuneKeeps ==
  ASSUME Inv, Tune
  PROVE  Inv'
<1>0. /\ pc = "tune" /\ pc' = "prune" /\ GoesOn /\ UNCHANGED <<disk, unsaved>>
      /\ var' \in Variables /\ var'.started = var.started /\ var'.retired = var.retired
  BY DEF Tune, Inv, ControlTyped, GoesOn, Step, Quiet, history, bounds, host
<1>1. ControlTyped' /\ Order'
  BY <1>0 DEF Inv, ControlTyped, Order, GoesOn, Anywhere, Quiescent, Tune
<1>2. FilesTyped' /\ Fresh' /\ SavedInv'
  BY <1>0, QuietKeeps
<1>3. BinaryInv'
  BY <1>0, SameBinary DEF Inv
<1>4. ServiceTyped'
  BY <1>0, ServiceKeeps DEF Inv, ServiceTyped, Tune, Quiet
<1>5. TunedInv'
  BY <1>0 DEF Inv, TunedInv, GoesOn, Tune, Quiet, history, Switched, ControlTyped, Order, Variables, Quiescent
<1>6. NothingLost'
  BY <1>0, <1>1, <1>2, <1>3, SavedKeeps DEF Inv, Order, GoesOn, Quiescent
<1> QED
  BY <1>1, <1>2, <1>3, <1>4, <1>5, <1>6 DEF Inv

LEMMA RetiredKeeps ==
  ASSUME Inv, Retired
  PROVE  Inv'
<1>0. /\ pc = "retired" /\ pc' = "retire" /\ GoesOn /\ UNCHANGED <<disk, unsaved>>
      /\ var' \in Variables /\ var'.started = var.started /\ var'.retired = TRUE
  BY SetFields DEF Retired, Inv, ControlTyped, GoesOn, Step, Quiet, history, bounds, host
<1>1. ControlTyped' /\ Order'
  BY <1>0 DEF Inv, ControlTyped, Order, GoesOn, Anywhere, Quiescent, Retired
<1>2. FilesTyped' /\ Fresh' /\ SavedInv'
  BY <1>0, QuietKeeps
<1>3. BinaryInv'
  BY <1>0, SameBinary DEF Inv
<1>4. ServiceTyped'
  BY <1>0, ServiceKeeps DEF Inv, ServiceTyped, Retired, Quiet
<1>5. TunedInv'
  BY <1>0 DEF Inv, TunedInv, GoesOn, Retired, Quiet, history, Switched
<1>6. NothingLost'
  BY <1>0, <1>1, <1>2, <1>3, SavedKeeps DEF Inv, Order, GoesOn, Quiescent
<1> QED
  BY <1>1, <1>2, <1>3, <1>4, <1>5, <1>6 DEF Inv

LEMMA UndoStopKeeps ==
  ASSUME Inv, UndoStop
  PROVE  Inv'
<1>0. /\ pc = "undo stop" /\ pc' = "undo binary" /\ GoesOn /\ UNCHANGED <<disk, unsaved>>
      /\ var' \in Variables /\ var'.started = var.started /\ var'.retired = var.retired
  BY DEF UndoStop, Inv, ControlTyped, GoesOn, Step, Quiet, history, bounds, host
<1>1. ControlTyped' /\ Order'
  BY <1>0 DEF Inv, ControlTyped, Order, GoesOn, Anywhere, Quiescent, UndoStop
<1>2. FilesTyped' /\ Fresh' /\ SavedInv'
  BY <1>0, QuietKeeps
<1>3. BinaryInv'
  BY <1>0, SameBinary DEF Inv
<1>4. ServiceTyped'
  BY <1>0, ServiceKeeps DEF Inv, ServiceTyped, UndoStop, Quiet, runtime_stop
<1>5. TunedInv'
  BY <1>0 DEF Inv, TunedInv, GoesOn, UndoStop, Quiet, history, Switched
<1>6. NothingLost'
  BY <1>0, <1>1, <1>2, <1>3, SavedKeeps DEF Inv, Order, GoesOn, Quiescent
<1> QED
  BY <1>1, <1>2, <1>3, <1>4, <1>5, <1>6 DEF Inv

-----------------------------------------------------------------------------
(* The steps of the installation and of the rollback that write parts.     *)

\* A step that writes parts, the binary not among them, and changes nothing else.
Writes ==
  /\ GoesOn /\ UNCHANGED <<var, service, enabled, tuned, unsaved, orphaned>>
  /\ pc \in {"tools", "config remove", "config", "config done", "delivery", "delivery done", "info", "info begun",
             "retire", "undo tools", "undo config", "undo files"}
  /\ pc' \in IF pc \in Switched THEN Switched \ {"retired", "retire"} ELSE {"undo config", "undo files", "undo service"}
  /\ disk' = [p \in Part |-> disk'[p]] /\ disk'["binary"] = disk["binary"]
  /\ \A p \in Part : Written(p)
  /\ disk'["runner"] = disk["runner"] \/ var.migrating

LEMMA WritesKeep ==
  ASSUME Inv, Writes
  PROVE  Inv'
<1>0. /\ GoesOn /\ UNCHANGED <<var, service, enabled, tuned, unsaved, orphaned>>
      /\ ~Quiescent /\ pc # "backup" /\ pc' # "backup"
  BY DEF Writes, Quiescent, Switched
<1>1. /\ DOMAIN disk' = Part /\ disk' = [p \in Part |-> disk'[p]]
      /\ \A p \in Part : Written(p)
      /\ disk'["binary"] = disk["binary"] /\ disk'["binary"] # Partial
      /\ \A p \in Part \ {"binary"} : disk'[p] = disk[p] \/ p # "runner" \/ var.migrating
  BY DEF Writes, Inv, FilesTyped
<1>2. ControlTyped' /\ Order'
  BY <1>0 DEF Writes, Inv, ControlTyped, Order, GoesOn, Anywhere, Quiescent, Switched
<1>3. FilesTyped' /\ Fresh' /\ SavedInv'
  BY <1>0, <1>1, WrittenTyped, WrittenFresh, CopiedSaved DEF Inv
<1>4. BinaryInv'
  <2>1. /\ pc' \in {"stage", "stop", "move", "had binary", "switch"} => pc' = pc
        /\ pc \in {"undo tools", "undo config", "undo files"} => pc' \in {"undo config", "undo files", "undo service"}
        /\ pc # "undo service"
    BY DEF Writes, Switched
  <2> QED
    BY <1>0, <1>1, <2>1, SameBinary DEF Inv
<1>5. ServiceTyped'
  BY <1>0 DEF Inv, ServiceTyped
<1>6. TunedInv'
  <2>1. /\ pc' \in Switched => pc \in Switched
        /\ pc' \notin {"un service", "un files"}
        /\ pc \notin {"had binary", "switch", "undo stop", "undo binary"}
    BY DEF Writes, Switched
  <2> QED
    BY <1>0, <1>1, <2>1 DEF Inv, TunedInv
<1>7. NothingLost'
  BY <1>0, <1>2, <1>3, <1>4, SavedKeeps DEF Inv, Order, GoesOn, Quiescent
<1> QED
  BY <1>2, <1>3, <1>4, <1>5, <1>6, <1>7 DEF Inv

LEMMA ToolsKeeps ==
  ASSUME Inv, Tools
  PROVE  Inv'
<1>0. /\ pc = "tools" /\ pc' \in {"tools", "config remove", "delivery", "info"}
      /\ GoesOn /\ UNCHANGED <<var, service, enabled, tuned, unsaved, orphaned>>
  BY DEF Tools, GoesOn, Step, Quiet, history, bounds, host
<1>a. PICK q \in Tool \cup {"unit"} : disk' = [disk EXCEPT ![q] = var.version]
  BY DEF Tools
<1>1. disk' = [p \in Part |-> IF p = q THEN var.version ELSE disk[p]] /\ q # "binary" /\ q # "runner"
  BY <1>a, Parts DEF Inv, FilesTyped
<1>2. /\ disk' = [p \in Part |-> disk'[p]] /\ disk'["binary"] = disk["binary"]
      /\ \A p \in Part : Written(p)
      /\ disk'["runner"] = disk["runner"] \/ var.migrating
  BY <1>0, <1>1, Parts DEF Written, Configuration, Inv, Order, Saved
<1> QED
  BY <1>0, <1>2, WritesKeep DEF Writes, Switched

LEMMA ConfigRemoveKeeps ==
  ASSUME Inv, ConfigRemove
  PROVE  Inv'
<1>0. /\ pc = "config remove" /\ pc' = "config"
      /\ GoesOn /\ UNCHANGED <<var, service, enabled, tuned, unsaved, orphaned>>
  BY DEF ConfigRemove, GoesOn, Step, Quiet, history, bounds, host
<1>1. disk' = [p \in Part |-> IF p \in Configuration THEN Absent ELSE disk[p]]
  BY Parts DEF ConfigRemove, Inv, FilesTyped
<1>2. /\ disk' = [p \in Part |-> disk'[p]] /\ disk'["binary"] = disk["binary"]
      /\ \A p \in Part : Written(p)
      /\ disk'["runner"] = disk["runner"] \/ var.migrating
  BY <1>0, <1>1, Parts DEF Written, Configuration, Inv, Order, Saved
<1> QED
  BY <1>0, <1>2, WritesKeep DEF Writes, Switched

LEMMA InstallKeeps ==
  ASSUME Inv, Install
  PROVE  Inv'
<1>0. /\ pc \in {"config", "delivery"} /\ pc' \in {"config done", "delivery done"}
      /\ GoesOn /\ UNCHANGED <<var, service, enabled, tuned, unsaved, orphaned>>
  BY DEF Install, GoesOn, Step, Quiet, history, bounds, host
<1>1. disk' = [p \in Part |-> IF p = "delivery" \/ (p = "config" /\ var.replaced) THEN Partial ELSE disk[p]]
  BY Parts DEF Install, Inv, FilesTyped
<1>2. /\ disk' = [p \in Part |-> disk'[p]] /\ disk'["binary"] = disk["binary"]
      /\ \A p \in Part : Written(p)
      /\ disk'["runner"] = disk["runner"] \/ var.migrating
  BY <1>0, <1>1, Parts DEF Written, Configuration, Inv, Order, Saved
<1> QED
  BY <1>0, <1>2, WritesKeep DEF Writes, Switched

LEMMA InstalledKeeps ==
  ASSUME Inv, Installed
  PROVE  Inv'
<1>0. /\ pc \in {"config done", "delivery done"} /\ pc' = "info"
      /\ GoesOn /\ UNCHANGED <<var, service, enabled, tuned, unsaved, orphaned>>
  BY DEF Installed, GoesOn, Step, Quiet, history, bounds, host
<1>1. disk' = [p \in Part |-> IF p = "delivery" \/ (p = "config" /\ var.replaced) THEN var.version ELSE disk[p]]
  BY Parts DEF Installed, Inv, FilesTyped
<1>2. /\ disk' = [p \in Part |-> disk'[p]] /\ disk'["binary"] = disk["binary"]
      /\ \A p \in Part : Written(p)
      /\ disk'["runner"] = disk["runner"] \/ var.migrating
  BY <1>0, <1>1, Parts DEF Written, Configuration, Inv, Order, Saved
<1> QED
  BY <1>0, <1>2, WritesKeep DEF Writes, Switched

LEMMA InfoKeeps ==
  ASSUME Inv, Info
  PROVE  Inv'
<1>0. /\ pc = "info" /\ pc' = "info begun"
      /\ GoesOn /\ UNCHANGED <<var, service, enabled, tuned, unsaved, orphaned>>
  BY DEF Info, GoesOn, Step, Quiet, history, bounds, host
<1>1. disk' = [p \in Part |-> IF p = "info" THEN Partial ELSE disk[p]]
  BY Parts DEF Info, Inv, FilesTyped
<1>2. /\ disk' = [p \in Part |-> disk'[p]] /\ disk'["binary"] = disk["binary"]
      /\ \A p \in Part : Written(p)
      /\ disk'["runner"] = disk["runner"] \/ var.migrating
  BY <1>0, <1>1, Parts DEF Written, Configuration, Inv, Order, Saved
<1> QED
  BY <1>0, <1>2, WritesKeep DEF Writes, Switched

LEMMA InfoWrittenKeeps ==
  ASSUME Inv, InfoWritten
  PROVE  Inv'
<1>0. /\ pc = "info begun" /\ pc' = "info rewritten"
      /\ GoesOn /\ UNCHANGED <<var, service, enabled, tuned, unsaved, orphaned>>
  BY DEF InfoWritten, GoesOn, Step, Quiet, history, bounds, host
<1>1. disk' = [p \in Part |-> IF p = "info" THEN var.version ELSE disk[p]]
  BY Parts DEF InfoWritten, Inv, FilesTyped
<1>2. /\ disk' = [p \in Part |-> disk'[p]] /\ disk'["binary"] = disk["binary"]
      /\ \A p \in Part : Written(p)
      /\ disk'["runner"] = disk["runner"] \/ var.migrating
  BY <1>0, <1>1, Parts DEF Written, Configuration, Inv, Order, Saved
<1> QED
  BY <1>0, <1>2, WritesKeep DEF Writes, Switched

LEMMA RetireKeeps ==
  ASSUME Inv, Retire
  PROVE  Inv'
<1>0. /\ pc = "retire" /\ pc' = "succeeded"
      /\ GoesOn /\ UNCHANGED <<var, service, enabled, tuned, unsaved, orphaned>>
  BY DEF Retire, GoesOn, Step, Quiet, history, bounds, host
<1>1. disk' = [p \in Part |-> IF p = "runner" THEN Absent ELSE disk[p]]
  BY Parts DEF Retire, Inv, FilesTyped
<1>2. /\ disk' = [p \in Part |-> disk'[p]] /\ disk'["binary"] = disk["binary"]
      /\ \A p \in Part : Written(p)
      /\ disk'["runner"] = disk["runner"] \/ var.migrating
  BY <1>0, <1>1, Parts DEF Written, Configuration, Inv, Order, Saved
<1> QED
  BY <1>0, <1>2, WritesKeep DEF Writes, Switched

LEMMA UndoToolsKeeps ==
  ASSUME Inv, UndoTools
  PROVE  Inv'
<1>0. /\ pc = "undo tools" /\ pc' = "undo config"
      /\ GoesOn /\ UNCHANGED <<var, service, enabled, tuned, unsaved, orphaned>>
  BY DEF UndoTools, GoesOn, Step, Quiet, history, bounds, host
<1>1. disk' = [p \in Part |-> IF p \in Tool \cup {"unit"} \/ (p = "runner" /\ var.retired) THEN Saved(p)
                             ELSE disk[p]]
  BY Parts DEF UndoTools, Inv, FilesTyped
<1>2. /\ disk' = [p \in Part |-> disk'[p]] /\ disk'["binary"] = disk["binary"]
      /\ \A p \in Part : Written(p)
      /\ disk'["runner"] = disk["runner"] \/ var.migrating
  BY <1>0, <1>1, Parts DEF Written, Configuration, Inv, Order, Saved
<1> QED
  BY <1>0, <1>2, WritesKeep DEF Writes, Switched

LEMMA UndoConfigKeeps ==
  ASSUME Inv, UndoConfig
  PROVE  Inv'
<1>0. /\ pc = "undo config" /\ pc' = "undo files"
      /\ GoesOn /\ UNCHANGED <<var, service, enabled, tuned, unsaved, orphaned>>
  BY DEF UndoConfig, GoesOn, Step, Quiet, history, bounds, host
<1>1. disk' = [p \in Part |-> IF p \in Configuration /\ var.replaced THEN Absent ELSE disk[p]]
  BY Parts DEF UndoConfig, Inv, FilesTyped
<1>2. /\ disk' = [p \in Part |-> disk'[p]] /\ disk'["binary"] = disk["binary"]
      /\ \A p \in Part : Written(p)
      /\ disk'["runner"] = disk["runner"] \/ var.migrating
  BY <1>0, <1>1, Parts DEF Written, Configuration, Inv, Order, Saved
<1> QED
  BY <1>0, <1>2, WritesKeep DEF Writes, Switched

LEMMA UndoFilesKeeps ==
  ASSUME Inv, UndoFiles
  PROVE  Inv'
<1>0. /\ pc = "undo files" /\ pc' = "undo service"
      /\ GoesOn /\ UNCHANGED <<var, service, enabled, tuned, unsaved, orphaned>>
  BY DEF UndoFiles, GoesOn, Step, Quiet, history, bounds, host
<1>1. /\ \A p \in Part : disk'[p] \in {disk[p], Saved(p)}
      /\ \A p \in Part : p \notin Configuration => disk'[p] = disk[p]
      /\ disk' = [p \in Part |-> disk'[p]]
  <2> DEFINE v(p) == IF \/ p \in Configuration /\ var.replaced
                        \/ p = "delivery" /\ var.refreshed
                        \/ p = "info" /\ var.info
                     THEN Saved(p) ELSE disk[p]
  <2>1. disk' = [p \in Part |-> v(p)]
    BY Zenon DEF UndoFiles
  <2>2. \A p \in Part : v(p) \in {disk[p], Saved(p)} /\ (p \notin Configuration => v(p) = disk[p])
    BY DEF Configuration
  <2> HIDE DEF v
  <2>3. disk' = [p \in Part |-> disk'[p]] /\ \A p \in Part : disk'[p] = v(p)
    BY <2>1
  <2> QED
    BY <2>2, <2>3
<1>2. /\ disk' = [p \in Part |-> disk'[p]] /\ disk'["binary"] = disk["binary"]
      /\ \A p \in Part : Written(p)
      /\ disk'["runner"] = disk["runner"] \/ var.migrating
  BY <1>0, <1>1, Parts DEF Written, Configuration, Inv, Order, Saved
<1> QED
  BY <1>0, <1>2, WritesKeep DEF Writes, Switched

-----------------------------------------------------------------------------
(* The steps that end or begin a deployment.                               *)

\* Only the service changes.
LEMMA ServiceOnly ==
  ASSUME Inv, UNCHANGED <<pc, var, count, disk, backups, last, tuned, orphaned, unsaved>>, ServiceTyped'
  PROVE  Inv'
<1>1. ControlTyped' /\ Order'
  BY DEF Inv, ControlTyped, Order, Quiescent
<1>2. FilesTyped' /\ Fresh'
  BY DEF Inv, FilesTyped, Fresh
<1>3. SavedInv' /\ BinaryInv'
  BY DEF Inv, SavedInv, BinaryInv, Here
<1>4. TunedInv' /\ NothingLost'
  BY DEF Inv, TunedInv, NothingLost, Kept
<1> QED
  BY <1>1, <1>2, <1>3, <1>4 DEF Inv

LEMMA SuperviseKeeps ==
  ASSUME Inv, Supervise
  PROVE  Inv'
<1>1. service' \in {service, Stopped, [binary |-> disk["binary"], config |-> disk["config"]]}
  BY DEF Supervise
<1>2. UNCHANGED <<pc, var, count, disk, backups, last, tuned, orphaned, unsaved, enabled>>
  BY DEF Supervise, bounds, history
<1>3. ServiceTyped'
  BY <1>1, <1>2, ServiceKeeps DEF Inv, ServiceTyped
<1> QED
  BY <1>2, <1>3, ServiceOnly

LEMMA StageKeeps ==
  ASSUME Inv, Stage
  PROVE  Inv'
<1>0. /\ pc = "stage" /\ UNCHANGED <<count, last, backups, unsaved, disk, service, enabled, tuned, orphaned>>
      /\ Finish \/ (Set("started", TRUE) /\ pc' = "stop")
  BY DEF Stage, Step, Quiet, history, bounds
<1>1. ServiceTyped'
  BY <1>0 DEF Inv, ServiceTyped
<1>2. CASE Finish
  <2>1. TunedInv'
    BY <1>0, <1>2 DEF Inv, TunedInv, Finish, Switched
  <2> QED
    BY <1>0, <1>1, <1>2, <2>1, FinishKeeps DEF Inv
<1>3. CASE Set("started", TRUE) /\ pc' = "stop"
  <2>0. /\ GoesOn /\ var' \in Variables /\ var'.started /\ var'.retired = var.retired
    BY <1>0, <1>3, SetFields DEF GoesOn, Inv, ControlTyped
  <2>1. ControlTyped' /\ Order'
    BY <1>0, <1>3, <2>0 DEF Inv, ControlTyped, Order, GoesOn, Anywhere, Quiescent
  <2>2. FilesTyped' /\ Fresh' /\ SavedInv'
    BY <1>0, <1>3, <2>0, QuietKeeps
  <2>3. BinaryInv'
    BY <1>0, <1>3, <2>0 DEF Inv, BinaryInv, GoesOn, Here
  <2>4. TunedInv'
    BY <1>0, <1>3 DEF Inv, TunedInv, Switched
  <2>5. NothingLost'
    BY <1>0, <2>0, <2>1, <2>2, <2>3, SavedKeeps DEF Inv, Order, GoesOn, Quiescent
  <2> QED
    BY <1>1, <2>1, <2>2, <2>3, <2>4, <2>5 DEF Inv
<1> QED
  BY <1>0, <1>2, <1>3

LEMMA HadBinaryKeeps ==
  ASSUME Inv, HadBinary
  PROVE  Inv'
<1>0. /\ pc = "had binary" /\ pc' = "switch"
      /\ UNCHANGED <<count, last, backups, unsaved, disk, service, enabled, tuned, orphaned>>
      /\ var' \in Variables /\ var'.started = var.started /\ var'.retired = var.retired
      /\ var'.name = var.name /\ var'.version = var.version /\ var'.migrating = var.migrating
      /\ var'.had = var.had \cup {"binary"}
  BY SetFields DEF HadBinary, Step, Quiet, history, bounds, Inv, ControlTyped
<1>1. ControlTyped' /\ Order'
  BY <1>0 DEF Inv, ControlTyped, Order, Anywhere, Quiescent
<1>2. FilesTyped' /\ Fresh'
  BY <1>0 DEF Inv, FilesTyped, Fresh
<1>3. var.name # 0 /\ Here("binary") /\ \A p \in Part : Here(p)' = Here(p)
  BY <1>0 DEF Inv, Order, BinaryInv, Here, Quiescent
<1>4. SavedInv'
  <2>1. \A p \in var'.had : Here(p)'
    BY <1>0, <1>3, Parts DEF Inv, SavedInv, ControlTyped, Variables
  <2> QED
    BY <1>0, <1>3, <2>1 DEF Inv, SavedInv
<1>5. BinaryInv'
  BY <1>0, <1>3, Parts DEF Inv, BinaryInv
<1>6. ServiceTyped' /\ TunedInv'
  BY <1>0 DEF Inv, ServiceTyped, TunedInv, Switched
<1>7. NothingLost'
  BY <1>0, <1>1, <1>2, <1>3, <1>4, <1>5, SavedKeeps
<1> QED
  BY <1>1, <1>2, <1>4, <1>5, <1>6, <1>7 DEF Inv

LEMMA StopFailsKeeps ==
  ASSUME Inv, StopFails
  PROVE  Inv'
<1>0. /\ pc \in {"stop", "undo stop"} /\ GoesOn
      /\ UNCHANGED <<var, disk, unsaved, service, enabled, tuned, orphaned>>
      /\ pc' = IF pc = "undo stop" THEN "undo binary" ELSE IF disk["binary"] = Absent THEN "switch" ELSE "move"
  BY DEF StopFails, GoesOn, host
<1>1. ControlTyped' /\ Order'
  BY <1>0 DEF Inv, ControlTyped, Order, GoesOn, Anywhere, Quiescent
<1>2. FilesTyped' /\ Fresh' /\ SavedInv'
  BY <1>0, QuietKeeps
<1>3. BinaryInv'
  <2>1. disk["binary"] \in Version /\ disk["binary"] # Partial
    BY Parts DEF Inv, FilesTyped
  <2>2. disk["binary"] # Absent => disk["binary"] > 0
    BY <2>1, DeployAssumption DEF Version, Absent, Partial
  <2> QED
    BY <1>0, <2>2 DEF Inv, BinaryInv, Order, Quiescent, GoesOn, Here, Absent
<1>4. ServiceTyped'
  BY <1>0 DEF Inv, ServiceTyped
<1>5. TunedInv'
  BY <1>0, DeployAssumption DEF Inv, TunedInv, Switched, Absent
<1>6. NothingLost'
  BY <1>0, <1>1, <1>2, <1>3, SavedKeeps DEF Inv, Order, GoesOn, Quiescent
<1> QED
  BY <1>1, <1>2, <1>3, <1>4, <1>5, <1>6 DEF Inv

LEMMA AbortKeeps ==
  ASSUME Inv, Abort
  PROVE  Inv'
<1>0. /\ Deploying /\ UNCHANGED <<count, last, backups, unsaved, disk, service, enabled, tuned, orphaned>>
      /\ IF var.started THEN pc' = "undo stop" /\ UNCHANGED var ELSE Finish
  BY DEF Abort, host
<1>1. ServiceTyped'
  BY <1>0 DEF Inv, ServiceTyped
<1>a. ~Quiescent
  BY <1>0 DEF Deploying, Removing, Quiescent
<1>2. CASE ~var.started
  <2>1. pc \in {"backup", "stage"} /\ Finish
    BY <1>0, <1>2, <1>a DEF Inv, Order
  <2>2. TunedInv'
    BY <1>0, <2>1 DEF Inv, TunedInv, Finish, Switched
  <2> QED
    BY <1>0, <1>1, <2>1, <2>2, FinishKeeps DEF Inv
<1>3. CASE var.started
  <2>0. GoesOn /\ pc \notin {"backup", "stage"} /\ pc' = "undo stop" /\ var' = var
    BY <1>0, <1>3, <1>a, Zenon DEF GoesOn, Inv, Order
  <2>1. ControlTyped' /\ Order'
    BY <1>0, <1>a, <2>0 DEF Inv, ControlTyped, Order, GoesOn, Anywhere, Quiescent
  <2>2. FilesTyped' /\ Fresh' /\ SavedInv'
    BY <1>0, <2>0, QuietKeeps
  <2>3. BinaryInv'
    <3>1. pc \notin {"undo tools", "undo config", "undo files", "undo service"}
      BY <1>0 DEF Deploying, Undoing
    <3> QED
      BY <1>0, <2>0, <3>1, SameBinary DEF Inv
  <2>4. TunedInv'
    BY <1>0, <2>0 DEF Inv, TunedInv, Switched
  <2>5. NothingLost'
    BY <1>0, <1>a, <2>0, <2>1, <2>2, <2>3, SavedKeeps DEF Inv, Order
  <2> QED
    BY <1>1, <2>1, <2>2, <2>3, <2>4, <2>5 DEF Inv
<1> QED
  BY <1>2, <1>3

LEMMA KillKeeps ==
  ASSUME Inv, Kill
  PROVE  Inv'
<1>0. /\ Finish /\ UNCHANGED <<count, last, backups, unsaved, disk, service, enabled, tuned>>
      /\ orphaned' = (orphaned \/ (tuned /\ disk["binary"] = Absent))
  BY DEF Kill, host
<1>1. ServiceTyped'
  BY <1>0 DEF Inv, ServiceTyped
<1>2. TunedInv'
  <2>1. disk["binary"] \in Version /\ disk["binary"] # Partial
    BY Parts DEF Inv, FilesTyped
  <2>2. disk["binary"] # Absent => disk["binary"] > 0
    BY <2>1, DeployAssumption DEF Version, Absent, Partial
  <2> QED
    BY <1>0, <2>2 DEF TunedInv, Finish, Switched
<1> QED
  BY <1>0, <1>1, <1>2, FinishKeeps DEF Inv

LEMMA SucceedKeeps ==
  ASSUME Inv, Succeed
  PROVE  Inv'
<1>0. /\ pc = "succeeded" /\ Finish
      /\ UNCHANGED <<count, last, backups, unsaved, disk, service, enabled, tuned, orphaned>>
  BY DEF Succeed, Step, Quiet, history, bounds
<1>1. ServiceTyped'
  BY <1>0 DEF Inv, ServiceTyped
<1>2. TunedInv'
  BY <1>0 DEF Inv, TunedInv, Finish, Switched
<1> QED
  BY <1>0, <1>1, <1>2, FinishKeeps DEF Inv

LEMMA UndoServiceKeeps ==
  ASSUME Inv, UndoService
  PROVE  Inv'
<1>0. /\ pc = "undo service" /\ Finish
      /\ UNCHANGED <<count, last, backups, unsaved, disk, tuned, orphaned>>
  BY DEF UndoService, Step, Quiet, history, bounds
<1>1. ServiceTyped'
  <2>1. service' \in {service, [binary |-> disk["binary"], config |-> disk["config"]]} /\ enabled' \in BOOLEAN
    BY DEF UndoService, runtime_start
  <2> QED
    BY <1>0, <2>1, ServiceKeeps DEF Inv, ServiceTyped
<1>2. TunedInv'
  BY <1>0 DEF Inv, TunedInv, Finish, Switched
<1> QED
  BY <1>0, <1>1, <1>2, FinishKeeps DEF Inv

\* A deployment begins: its version is new.
LEMMA BeginKeeps ==
  ASSUME Inv, Begin
  PROVE  Inv'
<1>0. /\ pc = "idle" /\ count < MaxRun /\ count' = count + 1 /\ pc' = "backup"
      /\ UNCHANGED <<last, backups, unsaved, disk, service, enabled, tuned, orphaned>>
  BY DEF Begin, history
<1>1. PICK m, r, f : /\ m \in BOOLEAN /\ r \in BOOLEAN /\ f \in BOOLEAN
                     /\ var' = [NoVar EXCEPT !.version = count + 2, !.migrating = m, !.replaced = r, !.refreshed = f]
  <2>1. PICK regenerate \in BOOLEAN, refresh \in BOOLEAN :
          var' = [NoVar EXCEPT !.version = count + 2,
                               !.migrating = (EXISTING_RUNTIME = "external" /\ runtime = "managed"),
                               !.replaced = regenerate \/ disk["config"] = Absent,
                               !.refreshed = refresh /\ ~regenerate /\ disk["config"] # Absent]
    BY Zenon DEF Begin
  <2> QED
    BY <2>1
<1>2. count \in Nat /\ MaxRun \in Nat /\ count + 2 \in 0..(MaxRun + 1)
  BY <1>0, DeployAssumption DEF Inv, ControlTyped
<1>3. /\ var' \in Variables /\ var'.name = 0 /\ var'.had = {} /\ var'.started = FALSE /\ var'.retired = FALSE
      /\ var'.version = count + 2
  BY <1>1, <1>2 DEF NoVar, Variables
<1>4. ControlTyped' /\ Order'
  BY <1>0, <1>2, <1>3 DEF Inv, ControlTyped, Order, Anywhere, Quiescent
<1>5. FilesTyped' /\ SavedInv' /\ BinaryInv'
  BY <1>0, <1>3 DEF Inv, FilesTyped, SavedInv, BinaryInv
<1>6. Fresh'
  <2>1. \A p \in Part : disk[p] \in Int
    BY Versions DEF Inv
  <2> QED
    BY <1>0, <1>2, <1>3, <2>1 DEF Inv, Fresh
<1>7. ServiceTyped' /\ TunedInv' /\ NothingLost'
  BY <1>0 DEF Inv, ServiceTyped, TunedInv, NothingLost, Kept, Switched
<1> QED
  BY <1>4, <1>5, <1>6, <1>7 DEF Inv

\* The backup: what the deployment will touch is in it, the binary in its place.
LEMMA BackupKeeps ==
  ASSUME Inv, Backup
  PROVE  Inv'
<1> DEFINE saved == {p \in Part \ {"binary", "runner"} : disk[p] # Absent}
                      \cup (IF var.migrating THEN {p \in {"runner"} : disk[p] # Absent} ELSE {})
           name(t) == 10 * t + var.version
<1>0. /\ pc = "backup" /\ pc' = "stage" /\ UNCHANGED <<count, disk, service, enabled, tuned, orphaned>>
      /\ last'.disk = disk /\ unsaved' = FALSE
  BY DEF Backup, Step, bounds
<1>1. PICK t \in 1..MaxTime :
        /\ backups' = [n \in DOMAIN backups \cup {name(t)} |->
                         IF n = name(t) THEN [p \in Part |-> IF p \in saved THEN disk[p] ELSE Absent] ELSE backups[n]]
        /\ var' = [var EXCEPT !.name = name(t), !.had = saved, !.enabled = enabled /\ disk["unit"] # Absent,
                              !.active = service # Stopped]
  BY Zenon DEF Backup
<1>2. /\ saved \subseteq Part /\ "binary" \notin saved
      /\ \A p \in Part \ {"binary", "runner"} : disk[p] # Absent => p \in saved
      /\ var.migrating /\ disk["runner"] # Absent => "runner" \in saved
  BY Parts
<1> HIDE DEF saved
<1>3. name(t) \in Nat /\ name(t) # 0
  BY DeployAssumption DEF Inv, ControlTyped, Variables
<1> HIDE DEF name
<1>4. /\ var' \in Variables /\ var'.name = name(t) /\ var'.had = saved /\ var'.started = var.started
      /\ var'.retired = var.retired /\ var'.migrating = var.migrating /\ var'.version = var.version
  BY <1>1, <1>2, <1>3 DEF Inv, ControlTyped, Variables
<1>5. /\ DOMAIN backups' = DOMAIN backups \cup {name(t)}
      /\ backups'[name(t)] = [p \in Part |-> IF p \in saved THEN disk[p] ELSE Absent]
      /\ \A n \in DOMAIN backups : n # name(t) => backups'[n] = backups[n]
  BY <1>1
<1>6. ControlTyped' /\ Order'
  BY <1>0, <1>3, <1>4 DEF Inv, ControlTyped, Order, Anywhere, Quiescent
<1>7. FilesTyped'
  <2>1. backups'[name(t)] \in [Part -> Version]
    BY <1>5, Versions DEF Inv
  <2>2. \A n \in DOMAIN backups' : backups'[n] \in [Part -> Version]
    BY <1>5, <2>1 DEF Inv, FilesTyped
  <2> QED
    BY <1>0, <1>4, <1>5, <2>2 DEF Inv, FilesTyped
<1>8. Fresh'
  BY <1>0, Zenon DEF Inv, Fresh
<1>9. \A p \in saved : Here(p)'
  BY <1>0, <1>2, <1>4, <1>5 DEF Here
<1>10. SavedInv'
  BY <1>0, <1>2, <1>4, <1>9 DEF SavedInv
<1>11. BinaryInv'
  BY <1>0, <1>2, <1>4 DEF BinaryInv
<1>12. ServiceTyped' /\ TunedInv'
  BY <1>0 DEF Inv, ServiceTyped, TunedInv, Switched
<1>13. NothingLost'
  BY <1>3, <1>4, <1>7, <1>10, <1>11, SavedKeeps
<1> QED
  BY <1>6, <1>7, <1>8, <1>10, <1>11, <1>12, <1>13 DEF Inv

-----------------------------------------------------------------------------
(* The binary, and the backups.                                            *)

\* The binary goes from its place to the backup.
LEMMA MoveKeeps ==
  ASSUME Inv, Move
  PROVE  Inv'
<1>0. /\ pc = "move" /\ pc' = "had binary"
      /\ UNCHANGED <<var, count, last, unsaved, service, enabled, tuned, orphaned>>
      /\ disk' = [disk EXCEPT !["binary"] = Absent]
      /\ backups' = [backups EXCEPT ![var.name]["binary"] = disk["binary"]]
  BY DEF Move, Step, Quiet, history, bounds
<1>1. /\ var.name # 0 /\ var.name \in DOMAIN backups
      /\ disk["binary"] = last.disk["binary"] /\ last.disk["binary"] > 0 /\ "binary" \notin var.had /\ ~unsaved
  BY <1>0 DEF Inv, Order, Quiescent, FilesTyped, BinaryInv
<1>2. /\ disk' \in [Part -> Version] /\ disk'["binary"] = Absent /\ Absent # Partial
      /\ \A p \in Part : p # "binary" => disk'[p] = disk[p]
  BY <1>0, Parts, Versions DEF Inv, FilesTyped
<1>3. /\ DOMAIN backups' = DOMAIN backups
      /\ \A n \in DOMAIN backups : n # var.name => backups'[n] = backups[n]
      /\ backups'[var.name] = [backups[var.name] EXCEPT !["binary"] = disk["binary"]]
  BY <1>0, <1>1
<1>4. /\ backups[var.name] \in [Part -> Version]
      /\ backups'[var.name] \in [Part -> Version]
      /\ backups'[var.name]["binary"] = disk["binary"]
      /\ \A p \in Part : p # "binary" => backups'[var.name][p] = backups[var.name][p]
  BY <1>1, <1>3, Parts, Versions DEF Inv, FilesTyped
<1>5. Here("binary")' /\ \A p \in Part : p # "binary" => Here(p)' = Here(p)
  BY <1>0, <1>1, <1>4 DEF Here
<1>6. ControlTyped' /\ Order'
  BY <1>0 DEF Inv, ControlTyped, Order, Anywhere, Quiescent
<1>7. FilesTyped'
  BY <1>0, <1>2, <1>3, <1>4 DEF Inv, FilesTyped
<1>8. Fresh'
  <2>1. count \in Nat /\ Absent <= count + 1
    BY DeployAssumption DEF Inv, ControlTyped, Absent
  <2> QED
    BY <1>0, <1>2, <2>1 DEF Inv, Fresh
<1>9. SavedInv'
  <2>1. \A p \in var'.had : Here(p)'
    BY <1>0, <1>1, <1>5 DEF Inv, SavedInv, ControlTyped, Variables
  <2>2. \A p \in Part \ {"binary"} : last'.disk[p] > 0 => disk'[p] = last'.disk[p] \/ Here(p)'
    BY <1>0, <1>1, <1>2, <1>5 DEF Inv, SavedInv
  <2> QED
    BY <1>0, <1>1, <2>1, <2>2 DEF Inv, SavedInv
<1>10. BinaryInv'
  BY <1>0, <1>1, <1>5 DEF BinaryInv
<1>11. ServiceTyped' /\ TunedInv'
  BY <1>0 DEF Inv, ServiceTyped, TunedInv, Switched
<1>12. NothingLost'
  BY <1>0, <1>1, <1>7, <1>9, <1>10, SavedKeeps
<1> QED
  BY <1>6, <1>7, <1>8, <1>9, <1>10, <1>11, <1>12 DEF Inv

\* The new binary comes to its place, when the old one is in the backup.
LEMMA SwitchKeeps ==
  ASSUME Inv, Switch
  PROVE  Inv'
<1>0. /\ pc = "switch" /\ pc' = "tools" /\ GoesOn /\ UNCHANGED <<var, service, enabled, tuned, unsaved>>
      /\ ~Quiescent /\ pc # "backup" /\ pc' # "backup"
  BY DEF Switch, GoesOn, Step, bounds, Quiescent
<1>1. /\ disk' = [p \in Part |-> IF p = "binary" THEN var.version ELSE disk[p]]
      /\ DOMAIN disk' = Part /\ disk' = [p \in Part |-> disk'[p]]
  BY Parts DEF Switch, Inv, FilesTyped
<1>2. /\ \A p \in Part : Written(p)
      /\ \A p \in Part \ {"binary"} : disk'[p] = disk[p] \/ p # "runner" \/ var.migrating
      /\ disk'["binary"] = var.version /\ disk'["binary"] # Partial
  BY <1>1, Parts, Versions DEF Written, Inv
<1>3. ControlTyped' /\ Order'
  BY <1>0 DEF Inv, ControlTyped, Order, GoesOn, Anywhere, Quiescent
<1>4. FilesTyped' /\ Fresh' /\ SavedInv'
  BY <1>0, <1>1, <1>2, WrittenTyped, WrittenFresh, CopiedSaved DEF Inv
<1>5. BinaryInv'
  <2>1. Here("binary")' = Here("binary")
    BY <1>0 DEF Here, GoesOn
  <2>2. var.name # 0 /\ (last.disk["binary"] = Absent \/ Here("binary")) /\ ~unsaved
    BY <1>0 DEF Inv, Order, Quiescent, BinaryInv
  <2>3. Absent = 0
    BY DEF Absent
  <2> QED
    BY <1>0, <2>1, <2>2, <2>3 DEF Inv, BinaryInv, GoesOn
<1>6. ServiceTyped'
  BY <1>0 DEF Inv, ServiceTyped
<1>7. TunedInv'
  <2>1. var.version = count + 1 /\ count \in 0..MaxRun
    BY <1>0 DEF Inv, Order, ControlTyped
  <2>2. var.version > 0
    BY <2>1, DeployAssumption
  <2> QED
    BY <1>0, <1>2, <2>2 DEF TunedInv
<1>8. NothingLost'
  BY <1>0, <1>3, <1>4, <1>5, SavedKeeps DEF Inv, Order, GoesOn, Quiescent
<1> QED
  BY <1>3, <1>4, <1>5, <1>6, <1>7, <1>8 DEF Inv

\* Backups go, this deployment's own does not.
LEMMA PruneBackupsKeeps ==
  ASSUME Inv, PruneBackups
  PROVE  Inv'
<1>0. /\ pc = "prune" /\ pc' = IF var.migrating THEN "retired" ELSE "succeeded"
      /\ UNCHANGED <<count, last, var, disk, service, enabled, tuned, orphaned, unsaved>>
  BY DEF PruneBackups, Step, Quiet, history, bounds
<1>1. PICK kept \in SUBSET DOMAIN backups : Prune(kept) /\ backups' = Restrict(backups, kept)
  BY DEF PruneBackups
<1>2. var.name # 0 /\ var.name \in DOMAIN backups
  BY <1>0 DEF Inv, Order, Quiescent, FilesTyped
<1>3. var.name \in kept
  BY <1>1, <1>2 DEF Prune
<1>4. DOMAIN backups' = kept /\ \A n \in kept : backups'[n] = backups[n]
  BY <1>1 DEF Restrict
<1>5. \A p : Here(p)' = Here(p)
  BY <1>0, <1>3, <1>4 DEF Here
<1>6. ControlTyped' /\ Order'
  BY <1>0 DEF Inv, ControlTyped, Order, Anywhere, Quiescent
<1>7. FilesTyped' /\ Fresh'
  BY <1>0, <1>1, <1>3, <1>4 DEF Inv, FilesTyped, Fresh
<1>8. SavedInv'
  BY <1>0, <1>5 DEF Inv, SavedInv
<1>9. BinaryInv'
  BY <1>0, <1>5 DEF Inv, BinaryInv
<1>10. ServiceTyped' /\ TunedInv'
  BY <1>0 DEF Inv, ServiceTyped, TunedInv, Switched
<1>11. NothingLost'
  BY <1>0, <1>2, <1>7, <1>8, <1>9, SavedKeeps
<1> QED
  BY <1>6, <1>7, <1>8, <1>9, <1>10, <1>11 DEF Inv

\* The rollback puts the binary of the backup back, or takes one away that it
\* has no copy of.
LEMMA UndoBinaryKeeps ==
  ASSUME Inv, UndoBinary
  PROVE  Inv'
<1>0. /\ pc = "undo binary" /\ pc' = "undo tools" /\ GoesOn /\ UNCHANGED <<var, service, enabled, tuned>>
      /\ ~Quiescent /\ pc # "backup" /\ pc' # "backup"
      /\ orphaned' = (orphaned \/ (tuned /\ "binary" \notin var.had))
      /\ unsaved' = (disk["binary"] # Absent /\ disk["binary"] # var.version /\ "binary" \notin var.had)
  BY DEF UndoBinary, GoesOn, Step, bounds, Quiescent
<1>1. /\ disk' = [p \in Part |-> IF p = "binary" THEN Saved("binary") ELSE disk[p]]
      /\ DOMAIN disk' = Part /\ disk' = [p \in Part |-> disk'[p]] /\ disk'["binary"] = Saved("binary")
  BY Parts DEF UndoBinary, Inv, FilesTyped
<1>2. var.name # 0 /\ ~unsaved /\ var.version = count + 1 /\ count \in Nat
  <2>1. count \in Nat
    BY Counts DEF Inv
  <2>2. var.name # 0 /\ var.version = count + 1
    BY <1>0 DEF Inv, Order
  <2> QED
    BY <1>0, <2>1, <2>2 DEF Inv, BinaryInv
<1>3. "binary" \in var.had => /\ disk'["binary"] = backups[var.name]["binary"] /\ Here("binary")
                              /\ disk'["binary"] = last.disk["binary"] /\ last.disk["binary"] > 0
  BY <1>1, <1>2 DEF Saved, Here, Inv, SavedInv, BinaryInv
<1>4. "binary" \notin var.had => disk'["binary"] = Absent
  BY <1>1 DEF Saved
<1>5. /\ \A p \in Part : Written(p)
      /\ \A p \in Part \ {"binary"} : disk'[p] = disk[p] \/ p # "runner" \/ var.migrating
      /\ disk'["binary"] # Partial
  <2>1. \A p \in Part : p # "binary" => disk'[p] = disk[p]
    BY <1>1
  <2>2. last.disk["binary"] # Partial /\ Absent # Partial
    BY Versions DEF Inv, FilesTyped
  <2> QED
    BY <1>3, <1>4, <2>1, <2>2 DEF Written
<1>6. ControlTyped' /\ Order'
  BY <1>0 DEF Inv, ControlTyped, Order, GoesOn, Anywhere, Quiescent
<1>7. FilesTyped' /\ Fresh' /\ SavedInv'
  BY <1>0, <1>1, <1>5, WrittenTyped, WrittenFresh, CopiedSaved DEF Inv
<1>8. BinaryInv'
  <2>1. Here("binary")' = Here("binary")
    BY <1>0 DEF Here, GoesOn
  <2>2. CASE "binary" \in var.had
    BY <1>0, <1>3, <2>1, <2>2 DEF BinaryInv, GoesOn
  <2>3. CASE "binary" \notin var.had
    <3>1. last.disk["binary"] > 0 => disk["binary"] = last.disk["binary"] \/ Here("binary")
      BY <1>2 DEF Inv, BinaryInv
    <3>2. last.disk["binary"] <= count /\ last.disk["binary"] \in Int
      BY <1>2, Parts, Versions DEF Inv, Fresh
    <3>3. last.disk["binary"] > 0 /\ disk["binary"] = last.disk["binary"]
            => disk["binary"] # Absent /\ disk["binary"] # var.version
      BY <1>2, <3>2 DEF Absent
    <3>4. last.disk["binary"] > 0 => unsaved' \/ Here("binary")
      BY <1>0, <2>3, <3>1, <3>3
    <3> QED
      BY <1>0, <2>1, <2>3, <3>4 DEF BinaryInv, GoesOn
  <2> QED
    BY <2>2, <2>3
<1>9. ServiceTyped'
  BY <1>0 DEF Inv, ServiceTyped
<1>10. TunedInv'
  <2>1. tuned => orphaned' \/ disk'["binary"] > 0
    BY <1>0, <1>3
  <2> QED
    BY <1>0, <2>1 DEF TunedInv, Switched
<1>11. NothingLost'
  BY <1>0, <1>6, <1>7, <1>8, SavedKeeps DEF Inv, Order, GoesOn, Quiescent
<1> QED
  BY <1>6, <1>7, <1>8, <1>9, <1>10, <1>11 DEF Inv

-----------------------------------------------------------------------------
(* The uninstaller.                                                        *)

\* The uninstaller begins: what a deployment found is its concern no more.
LEMMA UninstallKeeps ==
  ASSUME Inv, Uninstall
  PROVE  Inv'
<1>0. /\ pc = "idle" /\ count < MaxRun /\ count' = count + 1 /\ pc' = "un tune" /\ last'.disk = Nothing
      /\ UNCHANGED <<disk, service, enabled, tuned, backups, var, unsaved, orphaned>>
  BY DEF Uninstall
<1>1. /\ var = NoVar /\ var.name = 0 /\ var.retired = FALSE
      /\ last'.disk \in [Part -> Version] /\ \A p \in Part : last'.disk[p] = Absent
  BY <1>0, NoVarTyped, Versions DEF Inv, Order, Quiescent, Nothing
<1>2. count \in Nat /\ count' \in 0..MaxRun /\ MaxRun \in Nat
  <2>1. count \in Nat /\ MaxRun \in Nat
    BY Counts DEF Inv
  <2>2. count < MaxRun /\ count' = count + 1
    BY <1>0
  <2> QED
    BY <2>1, <2>2
<1>3. ControlTyped' /\ Order'
  BY <1>0, <1>1, <1>2 DEF Inv, ControlTyped, Order, Anywhere, Quiescent
<1>4. FilesTyped' /\ SavedInv' /\ BinaryInv'
  BY <1>0, <1>1, Versions, Parts DEF Inv, FilesTyped, SavedInv, BinaryInv
<1>5. Fresh'
  <2>1. \A p \in Part : disk[p] \in Int /\ disk[p] <= count + 1
    BY Versions DEF Inv, Fresh
  <2>2. disk' = disk /\ count' = count + 1
    BY <1>0
  <2>3. \A d \in Int : d <= count + 1 => d <= (count + 1) + 1
    BY <1>2
  <2>4. \A p \in Part : disk'[p] <= count' + 1
    BY <2>1, <2>2, <2>3, Zenon
  <2> QED
    BY <1>0, <1>1, <2>4 DEF Fresh
<1>6. ServiceTyped' /\ TunedInv'
  BY <1>0 DEF Inv, ServiceTyped, TunedInv, Switched
<1>7. NothingLost'
  BY <1>1 DEF NothingLost, Kept, Absent
<1> QED
  BY <1>3, <1>4, <1>5, <1>6, <1>7 DEF Inv

\* A step of the uninstaller, which only takes away.
Removal ==
  /\ pc \in {"un tune", "un service", "un files"} /\ pc' \in {"un service", "un files", "idle"}
  /\ UNCHANGED <<count, last, unsaved>> /\ var' \in {var, NoVar}
  /\ disk' = [p \in Part |-> disk'[p]] /\ \A p \in Part : disk'[p] \in {disk[p], Absent}
  /\ backups' = backups \/ backups' = Restrict(backups, {})

LEMMA RemovalKeeps ==
  ASSUME Inv, Removal, ServiceTyped', TunedInv'
  PROVE  Inv'
<1>0. /\ pc \in {"un tune", "un service", "un files"} /\ pc' \in {"un service", "un files", "idle"}
      /\ UNCHANGED <<count, last, unsaved>>
  BY DEF Removal
<1>1. var = NoVar /\ var' = NoVar /\ var'.name = 0 /\ var'.retired = FALSE
  BY <1>0, NoVarTyped DEF Inv, Order, Quiescent, Removal
<1>2. ControlTyped' /\ Order'
  BY <1>0, <1>1, NoVarTyped DEF Inv, ControlTyped, Order, Anywhere, Quiescent
<1>3. \A n \in DOMAIN backups' : n \in DOMAIN backups /\ backups'[n] = backups[n]
  BY DEF Removal, Restrict
<1>4. /\ \A p \in Part : disk'[p] \in Version
      /\ disk'["binary"] # Partial
  BY Parts, Versions DEF Inv, FilesTyped, Removal
<1>5. FilesTyped'
  BY <1>0, <1>1, <1>3, <1>4 DEF Inv, FilesTyped, Removal
<1>6. Fresh'
  <2>1. count \in Nat /\ Absent = 0
    BY Counts DEF Inv, Absent
  <2>2. \A p \in Part : disk[p] <= count + 1
    BY DEF Inv, Fresh
  <2>3. ASSUME NEW p \in Part
        PROVE  disk'[p] <= count + 1
    <3>1. disk'[p] = disk[p] \/ disk'[p] = 0
      BY <2>1 DEF Removal
    <3> QED
      BY <2>1, <2>2, <3>1
  <2> QED
    BY <1>0, <1>1, <2>3 DEF Fresh
<1>7. SavedInv' /\ BinaryInv'
  BY <1>1 DEF SavedInv, BinaryInv
<1>8. NothingLost'
  <2>1. \A p \in Part : last'.disk[p] = 0
    BY <1>0 DEF Inv, Order, Absent
  <2>2. ~(0 > 0)
    OBVIOUS
  <2> QED
    BY <2>1, <2>2, Zenon DEF NothingLost, Kept
<1> QED
  BY <1>2, <1>5, <1>6, <1>7, <1>8 DEF Inv

LEMMA UntuneKeeps ==
  ASSUME Inv, Untune
  PROVE  Inv'
<1>0. /\ pc = "un tune" /\ UNCHANGED <<count, last, unsaved, disk, service, enabled, backups, orphaned>>
      /\ \/ tuned' = FALSE /\ pc' = "un service" /\ UNCHANGED var
         \/ tuned /\ UNCHANGED tuned /\ Finish
  BY DEF Untune, Step, history, bounds
<1>1. pc' \in {"un service", "idle"} /\ var' \in {var, NoVar} /\ tuned' \in {tuned, FALSE}
  BY <1>0 DEF Finish
<1>2. disk' = [p \in Part |-> disk'[p]] /\ \A p \in Part : disk'[p] \in {disk[p], Absent}
  BY <1>0 DEF Inv, FilesTyped
<1>3. ServiceTyped'
  BY <1>0, <1>1 DEF Inv, ServiceTyped
<1>4. TunedInv'
  BY <1>0 DEF Inv, TunedInv, Switched, Finish
<1> QED
  BY <1>0, <1>1, <1>2, <1>3, <1>4, RemovalKeeps DEF Removal

LEMMA UnServiceKeeps ==
  ASSUME Inv, UnService
  PROVE  Inv'
<1>0. /\ pc = "un service" /\ UNCHANGED <<count, last, unsaved, tuned, backups, orphaned>>
      /\ pc' \in {"un files", "idle"} /\ var' \in {var, NoVar}
      /\ service' \in {service, Stopped} /\ enabled' = FALSE
      /\ disk' = IF runtime = "managed" THEN [disk EXCEPT !["unit"] = Absent] ELSE disk
  BY DEF UnService, Finish, Step, Quiet, history, bounds
<1>1. ~tuned
  BY <1>0 DEF Inv, TunedInv
<1>2. disk' = [p \in Part |-> disk'[p]] /\ \A p \in Part : disk'[p] \in {disk[p], Absent}
  BY <1>0, Parts DEF Inv, FilesTyped
<1>3. ServiceTyped'
  BY <1>0, ServiceKeeps DEF Inv, ServiceTyped
<1>4. TunedInv'
  BY <1>0, <1>1 DEF TunedInv, Switched
<1> QED
  BY <1>0, <1>2, <1>3, <1>4, RemovalKeeps DEF Removal

LEMMA UnFilesKeeps ==
  ASSUME Inv, UnFiles
  PROVE  Inv'
<1>0. /\ pc = "un files" /\ UNCHANGED <<count, last, unsaved, tuned, service, enabled, orphaned>>
      /\ pc' = "idle" /\ var' = NoVar
  BY DEF UnFiles, Finish, Step, Quiet, history, bounds
<1>1. PICK purge \in BOOLEAN, purgeBackups \in BOOLEAN :
        /\ disk' = [p \in Part |-> IF p \in Configuration /\ ~purge THEN disk[p] ELSE Absent]
        /\ backups' = IF purgeBackups THEN Restrict(backups, {}) ELSE backups
  BY Zenon DEF UnFiles
<1>2. ~tuned
  BY <1>0 DEF Inv, TunedInv
<1>3. disk' = [p \in Part |-> disk'[p]] /\ \A p \in Part : disk'[p] \in {disk[p], Absent}
  BY <1>1
<1>4. ServiceTyped'
  BY <1>0 DEF Inv, ServiceTyped
<1>5. TunedInv'
  BY <1>0, <1>2 DEF TunedInv, Switched
<1> QED
  BY <1>0, <1>1, <1>3, <1>4, <1>5, RemovalKeeps DEF Removal

-----------------------------------------------------------------------------
(* The theorems.                                                           *)

LEMMA InitInv ==
  ASSUME Init
  PROVE  Inv
<1>0. /\ pc = "idle" /\ var = NoVar /\ count = 0 /\ tuned = FALSE /\ backups = [n \in {} |-> Nothing]
      /\ last.disk = Nothing
  BY DEF Init
<1>1. PICK absent \in SUBSET Part :
        disk = Nothing \/ disk = [p \in Part |-> IF p \in absent THEN Absent ELSE 1]
  <2>1. CASE disk = Nothing
    BY <2>1
  <2>2. CASE disk # Nothing
    <3>1. PICK lacking \in SUBSET Tool :
            disk = [p \in Part |-> IF p \in lacking \/ p = (IF first = runtime THEN "runner" ELSE "unit")
                                     THEN Absent ELSE 1]
      BY <2>2, Zenon DEF Init
    <3>2. lacking \cup {IF first = runtime THEN "runner" ELSE "unit"} \in SUBSET Part
      BY Parts
    <3>3. disk = [p \in Part |-> IF p \in lacking \cup {IF first = runtime THEN "runner" ELSE "unit"}
                                   THEN Absent ELSE 1]
      BY <3>1
    <3> QED
      BY <3>2, <3>3
  <2> QED
    BY <2>1, <2>2
<1>2. /\ Absent \in Version /\ 1 \in Version /\ Absent # Partial /\ 1 # Partial /\ Absent = 0
  BY DeployAssumption DEF Version, Absent, Partial
<1>3. /\ disk \in [Part -> {0, 1}] /\ last.disk \in [Part -> {0}]
  BY <1>0, <1>1, <1>2 DEF Nothing
<1>4. ControlTyped /\ Order
  <2>1. \A p \in Part : last.disk[p] = Absent
    BY <1>2, <1>3
  <2>2. 0 \in 0..MaxRun
    BY DeployAssumption
  <2> QED
    BY <1>0, <2>1, <2>2, NoVarTyped DEF ControlTyped, Order, Anywhere, Quiescent
<1>5. FilesTyped
  BY <1>0, <1>2, <1>3, NoVarTyped, Parts DEF FilesTyped
<1>6. Fresh /\ SavedInv /\ BinaryInv
  BY <1>0, <1>3, NoVarTyped DEF Fresh, SavedInv, BinaryInv
<1>7. ServiceTyped
  <2>1. service \in {Stopped, [binary |-> 1, config |-> 1]} /\ enabled \in BOOLEAN
    BY DEF Init
  <2>2. \A b, c \in Version : [binary |-> b, config |-> c] \in [binary : Version, config : Version]
    OBVIOUS
  <2>3. service \in [binary : Version, config : Version]
    BY <1>2, <2>1, <2>2 DEF Stopped
  <2> QED
    BY <1>0, <2>1, <2>3 DEF ServiceTyped
<1>8. TunedInv /\ NothingLost
  BY <1>0, <1>3 DEF TunedInv, NothingLost, Kept, Switched
<1> QED
  BY <1>4, <1>5, <1>6, <1>7, <1>8 DEF Inv

LEMMA NextKeeps ==
  ASSUME Inv, Next
  PROVE  Inv'
<1>1. CASE Deployment
  BY <1>1, BeginKeeps, BackupKeeps, StageKeeps, StopKeeps, MoveKeeps, HadBinaryKeeps, SwitchKeeps, ToolsKeeps,
     ConfigRemoveKeeps, InstallKeeps, InstalledKeeps, InfoKeeps, InfoWrittenKeeps, InfoRewrittenKeeps,
     EnableKeeps, StartKeeps,
     TuneKeeps, PruneBackupsKeeps, RetiredKeeps, RetireKeeps, SucceedKeeps, Zenon DEF Deployment
<1>2. CASE Rollback
  BY <1>2, UndoStopKeeps, UndoBinaryKeeps, UndoToolsKeeps, UndoConfigKeeps, UndoFilesKeeps, UndoServiceKeeps,
     Zenon DEF Rollback
<1>3. CASE Uninstallation
  BY <1>3, UninstallKeeps, UntuneKeeps, UnServiceKeeps, UnFilesKeeps, Zenon DEF Uninstallation
<1> QED
  BY <1>1, <1>2, <1>3, AbortKeeps, KillKeeps, StopFailsKeeps, SuperviseKeeps, Zenon DEF Next

LEMMA Invariance == Spec => []Inv
<1>1. ASSUME Inv, UNCHANGED vars
      PROVE  Inv'
  <2>1. UNCHANGED <<pc, var, count, disk, backups, last, tuned, orphaned, unsaved>> /\ ServiceTyped'
    BY <1>1 DEF vars, bounds, history, Inv, ServiceTyped
  <2> QED
    BY <1>1, <2>1, ServiceOnly
<1> QED
  BY <1>1, InitInv, NextKeeps, PTL DEF Spec

\* The types of the parts, of the backups and of the script's variables; the
\* backup that a script would restore from is there.
THEOREM TypeCorrect == Spec => []TypeOK
<1>1. Inv => TypeOK
  <2>1. Version = Partial..(MaxRun + 1)
    BY DEF Version
  <2> QED
    BY <2>1 DEF Inv, TypeOK, FilesTyped, ServiceTyped, ControlTyped, Variables
<1> QED
  BY <1>1, Invariance, PTL

\* deploy.sh: "keeps this deployment's rollback point".  In every interleaving
\* of failures, signals and kills, every part that a deployment found is in its
\* place or in a backup, but a binary that the rollback removed too early.
THEOREM AlwaysNothingLost == Spec => []NothingLost
<1>1. Inv => NothingLost
  BY DEF Inv
<1> QED
  BY <1>1, Invariance, PTL

\* uninstall.sh, tune.Manager: whenever no script runs, an active tuning has
\* the program that can undo it, but in the three cases that are named: a kill
\* while the binary is away, the rollback of a first deployment after it has
\* tuned, and that of a later one before HAD_BINARY=1.
THEOREM AlwaysTunedHasTool == Spec => []TunedHasTool
<1>1. Inv => TunedHasTool
  BY DEF Inv, TunedInv, TunedHasTool
<1> QED
  BY <1>1, Invariance, PTL

-----------------------------------------------------------------------------
(* A deployment that ends is complete or undone.                           *)

\* A deployment that has come to its backup and not to its end.
AtWork == var.name # 0

\* Where everything has been installed but deployment-info.txt, and where a
\* managed service is stopped.
Completed ==
  {"info", "info begun", "info rewritten", "enable", "start", "tune", "prune", "retired", "retire", "succeeded"}
Resting ==
  {"move", "had binary", "switch", "tools", "config remove", "config", "config done", "delivery", "delivery done",
   "info", "info begun", "info rewritten", "enable", "start", "undo binary", "undo tools", "undo config",
   "undo files", "undo service"}

\* What the flags say of what the deployment found and decided.
Flags ==
  /\ runtime \in {"managed", "external"}
  /\ ~(var.replaced /\ var.refreshed)
  /\ var.migrating \/ pc \in {"enable", "start", "tune"} => runtime = "managed"
  /\ AtWork =>
       /\ pc \in {"config remove", "config", "config done"} => var.replaced
       /\ pc \in {"delivery", "delivery done"} => var.refreshed
       /\ pc = "retire" => var.retired
       /\ \A p \in var.had : last.disk[p] # Absent
       /\ var.active = (last.service # Stopped)
       /\ var.enabled = (last.enabled /\ last.disk["unit"] # Absent)

\* A part that is not as it was found is one that the rollback puts back.
Reverts(p) ==
  \/ disk[p] = last.disk[p]
  \/ p \in Configuration /\ var.replaced
  \/ p = "delivery" /\ var.refreshed
  \/ p = "info" /\ (var.info \/ pc \in {"info begun", "info rewritten"} \/ "info" \in excused)
  \/ p = "runner" /\ var.retired

Reverting ==
  AtWork =>
    /\ pc = "stage" => disk = last.disk
    /\ pc # "undo service" => \A p \in Configuration \cup {"runner"} : Reverts(p)
    /\ pc = "switch" \/ pc \in Switched \/ (Undoing /\ "binary" \notin excused)
         => "binary" \in var.had \/ last.disk["binary"] = Absent

\* config.json and the delivery files, when they are installed.
Final(p) == IF var.replaced \/ (p = "delivery" /\ var.refreshed) THEN var.version ELSE last.disk[p]

Completing ==
  AtWork =>
    /\ pc \in Switched \ {"tools"} => \A p \in Tool \cup {"unit"} : disk[p] = var.version
    /\ pc \in Completed => disk["config"] = Final("config") /\ disk["delivery"] = Final("delivery")
    /\ pc \in Completed \ {"info", "info begun"} => disk["info"] = var.version
    /\ pc = "succeeded" /\ var.migrating => disk["runner"] = Absent

Undone ==
  AtWork =>
    /\ pc \in {"undo tools", "undo config", "undo files", "undo service"} => disk["binary"] = Saved("binary")
    /\ pc \in {"undo config", "undo files", "undo service"}
         => \A p \in Tool \cup {"unit", "runner"} : disk[p] = last.disk[p]
    /\ pc = "undo service" => \A p \in Configuration \ excused : disk[p] = last.disk[p]

\* The service, and its start at boot.
Running ==
  /\ enabled => runtime = "managed"
  /\ AtWork =>
       /\ last.enabled \in BOOLEAN /\ (last.enabled => runtime = "managed")
       /\ runtime = "external" \/ pc \in {"stage", "stop"} => service = last.service
       /\ pc = "stage" => enabled = last.enabled
       /\ runtime = "managed" /\ pc \in Completed \ {"info", "info begun", "info rewritten", "enable"} => enabled
       /\ runtime = "managed" /\ "service" \notin excused =>
            /\ pc \in Resting => service = Stopped
            /\ pc \in {"tune", "prune", "retired", "retire", "succeeded"}
                 => service = [binary |-> disk["binary"], config |-> disk["config"]]

EndInv == Flags /\ Reverting /\ Completing /\ Undone /\ Running

LEMMA SetOthers ==
  ASSUME var \in Variables, NEW f \in {"started", "had", "info", "retired"}, NEW v, Set(f, v)
  PROVE  /\ var'.replaced = var.replaced /\ var'.refreshed = var.refreshed
         /\ var'.active = var.active /\ var'.enabled = var.enabled
         /\ f # "info" => var'.info = var.info
         /\ f = "info" => var'.info = v
BY DEF Set, Variables

LEMMA NoVarRests ==
  ~NoVar.replaced /\ ~NoVar.refreshed /\ ~NoVar.migrating /\ NoVar.name = 0
BY DEF NoVar

\* Between deployments nothing is promised but of the start at boot.
LEMMA EndsIdle ==
  ASSUME Flags, UNCHANGED runtime, var' = NoVar, pc' \notin {"enable", "start", "tune"}, enabled' => runtime = "managed"
  PROVE  EndInv'
BY NoVarRests DEF EndInv, Flags, Reverting, Completing, Undone, Running, AtWork

LEMMA PartsApart ==
  /\ Configuration \cup {"binary", "unit", "runner"} \cup Tool \subseteq Part
  /\ Configuration = {"config", "delivery", "info"}
  /\ Tool \cap {"binary", "unit", "runner", "config", "delivery", "info"} = {}
BY Parts DEF Configuration

\* What is saved is what was found.
LEMMA SavedIsFound ==
  ASSUME Inv, EndInv, AtWork
  PROVE  /\ \A p \in Part \ {"binary", "runner"} : Saved(p) = last.disk[p]
         /\ var.migrating => Saved("runner") = last.disk["runner"]
         /\ "binary" \in var.had \/ last.disk["binary"] = Absent => Saved("binary") = last.disk["binary"]
<1>1. ASSUME NEW p \in var.had
      PROVE  Saved(p) = last.disk[p]
  BY Zenon DEF Inv, SavedInv, AtWork, Here, Saved
<1>2. ASSUME NEW p, p \notin var.had, last.disk[p] = Absent
      PROVE  Saved(p) = last.disk[p]
  BY <1>2, Zenon DEF Saved
<1>3. \A p \in Part \ {"binary", "runner"} : p \in var.had \/ last.disk[p] = Absent
  BY Zenon DEF Inv, SavedInv, AtWork
<1>4. var.migrating => "runner" \in var.had \/ last.disk["runner"] = Absent
  BY Zenon DEF Inv, SavedInv, AtWork
<1> QED
  BY <1>1, <1>2, <1>3, <1>4, Zenon

-----------------------------------------------------------------------------
(* The steps of the installation.                                          *)

LEMMA BeginEnds ==
  ASSUME Inv, EndInv, Begin
  PROVE  EndInv'
<1>0. /\ pc = "idle" /\ pc' = "backup" /\ var = NoVar /\ UNCHANGED <<runtime, enabled>>
  BY DEF Begin, host, Inv, Order, Quiescent
<1>1. PICK regenerate \in BOOLEAN, refresh \in BOOLEAN :
        var' = [NoVar EXCEPT !.version = count + 2,
                             !.migrating = (EXISTING_RUNTIME = "external" /\ runtime = "managed"),
                             !.replaced = regenerate \/ disk["config"] = Absent,
                             !.refreshed = refresh /\ ~regenerate /\ disk["config"] # Absent]
  BY Zenon DEF Begin
<1>2. /\ var'.name = 0 /\ ~(var'.replaced /\ var'.refreshed)
      /\ var'.migrating => runtime = "managed"
  BY <1>1 DEF NoVar
<1> QED
  BY <1>0, <1>2 DEF EndInv, Flags, Reverting, Completing, Undone, Running, AtWork

LEMMA BackupEnds ==
  ASSUME Inv, EndInv, Backup
  PROVE  EndInv'
<1>0. /\ pc = "backup" /\ pc' = "stage" /\ UNCHANGED <<runtime, disk, service, enabled>>
      /\ last' = [disk |-> disk, service |-> service, enabled |-> enabled]
  BY DEF Backup, Step, host
<1>1. PICK name \in Nat :
        var' = [var EXCEPT !.name = name,
                           !.had = {p \in Part \ {"binary", "runner"} : disk[p] # Absent}
                                     \cup (IF var.migrating THEN {p \in {"runner"} : disk[p] # Absent} ELSE {}),
                           !.enabled = enabled /\ disk["unit"] # Absent, !.active = service # Stopped]
  <2>1. PICK time \in 1..MaxTime :
          var' = [var EXCEPT !.name = 10 * time + var.version,
                             !.had = {p \in Part \ {"binary", "runner"} : disk[p] # Absent}
                                     \cup (IF var.migrating THEN {p \in {"runner"} : disk[p] # Absent} ELSE {}),
                             !.enabled = enabled /\ disk["unit"] # Absent, !.active = service # Stopped]
    BY Zenon DEF Backup
  <2>2. 10 * time + var.version \in Nat
    BY DeployAssumption DEF Inv, ControlTyped, Variables
  <2> QED
    BY <2>1, <2>2
<1>2. /\ var'.replaced = var.replaced /\ var'.refreshed = var.refreshed /\ var'.migrating = var.migrating
      /\ \A p \in var'.had : disk[p] # Absent
      /\ var'.active = (service # Stopped) /\ var'.enabled = (enabled /\ disk["unit"] # Absent)
  BY <1>1 DEF Inv, ControlTyped, Variables
<1>3. Flags'
  BY <1>0, <1>2 DEF EndInv, Flags
<1>4. Reverting' /\ Completing' /\ Undone'
  BY <1>0 DEF Reverting, Reverts, Completing, Undone, Undoing, Switched, Completed
<1>5. Running'
  BY <1>0 DEF EndInv, Running, Completed, Resting, Inv, ServiceTyped
<1> QED
  BY <1>3, <1>4, <1>5 DEF EndInv

LEMMA StopEnds ==
  ASSUME Inv, EndInv, Stop
  PROVE  EndInv'
<1>0. /\ pc = "stop" /\ pc' = (IF disk["binary"] = Absent THEN "switch" ELSE "move")
      /\ UNCHANGED <<runtime, disk, enabled, var, last, excused>>
      /\ service' = IF runtime = "managed" THEN Stopped ELSE service
  BY DEF Stop, runtime_stop, Step, Quiet, host, bounds, history
<1>1. AtWork /\ disk["binary"] = last.disk["binary"]
  BY <1>0 DEF Inv, Order, Quiescent, BinaryInv, AtWork
<1>2. Flags'
  BY <1>0, <1>1 DEF EndInv, Flags, AtWork
<1>3. Reverting'
  BY <1>0, <1>1 DEF EndInv, Reverting, Reverts, AtWork, Undoing, Switched
<1>4. Completing'
  BY <1>0, <1>1 DEF EndInv, Completing, Final, AtWork, Switched, Completed
<1>5. Undone'
  BY <1>0, <1>1 DEF EndInv, Undone, AtWork
<1>6. Running'
  BY <1>0, <1>1 DEF EndInv, Running, AtWork, Completed, Resting
<1> QED
  BY <1>2, <1>3, <1>4, <1>5, <1>6 DEF EndInv

LEMMA HadBinaryEnds ==
  ASSUME Inv, EndInv, HadBinary
  PROVE  EndInv'
<1>0. /\ pc = "had binary" /\ pc' = "switch" /\ Set("had", var.had \cup {"binary"})
      /\ UNCHANGED <<runtime, disk, enabled, service, last, excused>>
  BY DEF HadBinary, Step, Quiet, host, bounds, history
<1>1. /\ var'.name = var.name /\ var'.had = var.had \cup {"binary"} /\ var'.version = var.version
      /\ var'.migrating = var.migrating /\ var'.replaced = var.replaced /\ var'.refreshed = var.refreshed
      /\ var'.active = var.active /\ var'.enabled = var.enabled /\ var'.info = var.info /\ var'.retired = var.retired
      /\ last.disk["binary"] # Absent
  <2>1. var \in Variables /\ AtWork
    BY <1>0 DEF Inv, ControlTyped, Order, Quiescent, AtWork
  <2>2. last.disk["binary"] # Absent
    <3>1. last.disk["binary"] > 0
      BY <1>0, <2>1, Zenon DEF Inv, BinaryInv, AtWork
    <3> QED
      BY <3>1 DEF Absent
  <2> QED
    BY <1>0, <2>1, <2>2, SetFields, SetOthers
<1>2. Flags'
  BY <1>0, <1>1 DEF EndInv, Flags, AtWork
<1>3. Reverting'
  BY <1>0, <1>1 DEF EndInv, Reverting, Reverts, AtWork, Undoing, Switched
<1>4. Completing'
  BY <1>0, <1>1 DEF EndInv, Completing, Final, AtWork, Switched, Completed
<1>5. Undone'
  BY <1>0, <1>1 DEF EndInv, Undone, AtWork
<1>6. Running'
  BY <1>0, <1>1 DEF EndInv, Running, AtWork, Completed, Resting
<1> QED
  BY <1>2, <1>3, <1>4, <1>5, <1>6 DEF EndInv

LEMMA InfoRewrittenEnds ==
  ASSUME Inv, EndInv, InfoRewritten
  PROVE  EndInv'
<1>0. /\ pc = "info rewritten" /\ pc' = (IF runtime = "external" THEN "prune" ELSE "enable")
      /\ Set("info", TRUE) /\ UNCHANGED <<runtime, disk, enabled, service, last, excused>>
  BY DEF InfoRewritten, Step, Quiet, host, bounds, history
<1>1. /\ var'.name = var.name /\ var'.had = var.had /\ var'.version = var.version
      /\ var'.migrating = var.migrating /\ var'.replaced = var.replaced /\ var'.refreshed = var.refreshed
      /\ var'.active = var.active /\ var'.enabled = var.enabled /\ var'.info /\ var'.retired = var.retired
      /\ runtime \in {"managed", "external"}
  BY <1>0, SetFields, SetOthers DEF Inv, ControlTyped, EndInv, Flags
<1>2. Flags'
  BY <1>0, <1>1 DEF EndInv, Flags, AtWork
<1>3. Reverting'
  BY <1>0, <1>1 DEF EndInv, Reverting, Reverts, AtWork, Undoing, Switched
<1>4. Completing'
  BY <1>0, <1>1 DEF EndInv, Completing, Final, AtWork, Switched, Completed
<1>5. Undone'
  BY <1>0, <1>1 DEF EndInv, Undone, AtWork
<1>6. Running'
  BY <1>0, <1>1 DEF EndInv, Running, AtWork, Completed, Resting
<1> QED
  BY <1>2, <1>3, <1>4, <1>5, <1>6 DEF EndInv

LEMMA EnableEnds ==
  ASSUME Inv, EndInv, Enable
  PROVE  EndInv'
<1>0. /\ pc = "enable" /\ pc' = "start" /\ enabled' = TRUE /\ UNCHANGED <<runtime, disk, service, var, last, excused>>
  BY DEF Enable, Step, Quiet, host, bounds, history
<1>1. runtime = "managed"
  BY <1>0 DEF EndInv, Flags
<1>2. Flags'
  BY <1>0, <1>1 DEF EndInv, Flags, AtWork
<1>3. Reverting'
  BY <1>0, <1>1 DEF EndInv, Reverting, Reverts, AtWork, Undoing, Switched
<1>4. Completing'
  BY <1>0, <1>1 DEF EndInv, Completing, Final, AtWork, Switched, Completed
<1>5. Undone'
  BY <1>0, <1>1 DEF EndInv, Undone, AtWork
<1>6. Running'
  BY <1>0, <1>1 DEF EndInv, Running, AtWork, Completed, Resting
<1> QED
  BY <1>2, <1>3, <1>4, <1>5, <1>6 DEF EndInv

LEMMA StartEnds ==
  ASSUME Inv, EndInv, Start
  PROVE  EndInv'
<1>0. /\ pc = "start" /\ pc' = (IF var.migrating THEN "prune" ELSE "tune")
      /\ UNCHANGED <<runtime, disk, enabled, var, last, excused>>
      /\ service' = IF runtime = "managed" /\ service = Stopped
                     THEN [binary |-> disk["binary"], config |-> disk["config"]] ELSE service
  BY DEF Start, runtime_start, Step, Quiet, host, bounds, history
<1>1. runtime = "managed" /\ AtWork /\ "service" \notin excused =>
        service' = [binary |-> disk["binary"], config |-> disk["config"]]
  BY <1>0 DEF EndInv, Running, Resting
<1>2. Flags'
  BY <1>0, <1>1 DEF EndInv, Flags, AtWork
<1>3. Reverting'
  BY <1>0, <1>1 DEF EndInv, Reverting, Reverts, AtWork, Undoing, Switched
<1>4. Completing'
  BY <1>0, <1>1 DEF EndInv, Completing, Final, AtWork, Switched, Completed
<1>5. Undone'
  BY <1>0, <1>1 DEF EndInv, Undone, AtWork
<1>6. Running'
  BY <1>0, <1>1 DEF EndInv, Running, AtWork, Completed, Resting
<1> QED
  BY <1>2, <1>3, <1>4, <1>5, <1>6 DEF EndInv

LEMMA TuneEnds ==
  ASSUME Inv, EndInv, Tune
  PROVE  EndInv'
<1>0. /\ pc = "tune" /\ pc' = "prune" /\ UNCHANGED <<runtime, disk, enabled, service, var, last, excused>>
  BY DEF Tune, Step, Quiet, host, bounds, history
<1>2. Flags'
  BY <1>0 DEF EndInv, Flags, AtWork
<1>3. Reverting'
  BY <1>0 DEF EndInv, Reverting, Reverts, AtWork, Undoing, Switched
<1>4. Completing'
  BY <1>0 DEF EndInv, Completing, Final, AtWork, Switched, Completed
<1>5. Undone'
  BY <1>0 DEF EndInv, Undone, AtWork
<1>6. Running'
  BY <1>0 DEF EndInv, Running, AtWork, Completed, Resting
<1> QED
  BY <1>2, <1>3, <1>4, <1>5, <1>6 DEF EndInv

LEMMA PruneBackupsEnds ==
  ASSUME Inv, EndInv, PruneBackups
  PROVE  EndInv'
<1>0. /\ pc = "prune" /\ pc' = (IF var.migrating THEN "retired" ELSE "succeeded")
      /\ UNCHANGED <<runtime, disk, enabled, service, var, last, excused>>
  BY DEF PruneBackups, Step, Quiet, host, bounds, history
<1>2. Flags'
  BY <1>0 DEF EndInv, Flags, AtWork
<1>3. Reverting'
  BY <1>0 DEF EndInv, Reverting, Reverts, AtWork, Undoing, Switched
<1>4. Completing'
  BY <1>0 DEF EndInv, Completing, Final, AtWork, Switched, Completed
<1>5. Undone'
  BY <1>0 DEF EndInv, Undone, AtWork
<1>6. Running'
  BY <1>0 DEF EndInv, Running, AtWork, Completed, Resting
<1> QED
  BY <1>2, <1>3, <1>4, <1>5, <1>6 DEF EndInv

LEMMA RetiredEnds ==
  ASSUME Inv, EndInv, Retired
  PROVE  EndInv'
<1>0. /\ pc = "retired" /\ pc' = "retire" /\ Set("retired", TRUE)
      /\ UNCHANGED <<runtime, disk, enabled, service, last, excused>>
  BY DEF Retired, Step, Quiet, host, bounds, history
<1>1. /\ var'.name = var.name /\ var'.had = var.had /\ var'.version = var.version
      /\ var'.migrating = var.migrating /\ var'.replaced = var.replaced /\ var'.refreshed = var.refreshed
      /\ var'.active = var.active /\ var'.enabled = var.enabled /\ var'.info = var.info /\ var'.retired
  BY <1>0, SetFields, SetOthers DEF Inv, ControlTyped
<1>2. Flags'
  BY <1>0, <1>1 DEF EndInv, Flags, AtWork
<1>3. Reverting'
  BY <1>0, <1>1 DEF EndInv, Reverting, Reverts, AtWork, Undoing, Switched
<1>4. Completing'
  BY <1>0, <1>1 DEF EndInv, Completing, Final, AtWork, Switched, Completed
<1>5. Undone'
  BY <1>0, <1>1 DEF EndInv, Undone, AtWork
<1>6. Running'
  BY <1>0, <1>1 DEF EndInv, Running, AtWork, Completed, Resting
<1> QED
  BY <1>2, <1>3, <1>4, <1>5, <1>6 DEF EndInv

LEMMA MoveEnds ==
  ASSUME Inv, EndInv, Move
  PROVE  EndInv'
<1>0. /\ pc = "move" /\ pc' = "had binary" /\ UNCHANGED <<runtime, enabled, service, var, last, excused>>
      /\ disk' = [p \in Part |-> IF p = "binary" THEN Absent ELSE disk[p]]
  BY Parts DEF Move, Inv, FilesTyped, Step, Quiet, host, bounds, history
<1>1. /\ \A p \in Part \ {"binary"} : disk'[p] = disk[p]
      /\ Configuration \cup {"runner", "unit"} \cup Tool \subseteq Part \ {"binary"}
  BY <1>0, PartsApart
<1>2. Flags'
  BY <1>0, <1>1 DEF EndInv, Flags, AtWork
<1>3. Reverting'
  BY <1>0, <1>1 DEF EndInv, Reverting, Reverts, AtWork, Undoing, Switched
<1>4. Completing'
  BY <1>0, <1>1 DEF EndInv, Completing, Final, AtWork, Switched, Completed
<1>5. Undone'
  BY <1>0, <1>1 DEF EndInv, Undone, AtWork
<1>6. Running'
  BY <1>0, <1>1 DEF EndInv, Running, AtWork, Completed, Resting
<1> QED
  BY <1>2, <1>3, <1>4, <1>5, <1>6 DEF EndInv

LEMMA SwitchEnds ==
  ASSUME Inv, EndInv, Switch
  PROVE  EndInv'
<1>0. /\ pc = "switch" /\ pc' = "tools" /\ UNCHANGED <<runtime, enabled, service, var, last, excused>>
      /\ disk' = [p \in Part |-> IF p = "binary" THEN var.version ELSE disk[p]]
  BY Parts DEF Switch, Inv, FilesTyped, Step, Quiet, host, bounds, history
<1>1. /\ \A p \in Part \ {"binary"} : disk'[p] = disk[p]
      /\ Configuration \cup {"runner", "unit"} \cup Tool \subseteq Part \ {"binary"}
  BY <1>0, PartsApart
<1>2. Flags'
  BY <1>0, <1>1 DEF EndInv, Flags, AtWork
<1>3. Reverting'
  BY <1>0, <1>1 DEF EndInv, Reverting, Reverts, AtWork, Undoing, Switched
<1>4. Completing'
  BY <1>0, <1>1 DEF EndInv, Completing, Final, AtWork, Switched, Completed
<1>5. Undone'
  BY <1>0, <1>1 DEF EndInv, Undone, AtWork
<1>6. Running'
  BY <1>0, <1>1 DEF EndInv, Running, AtWork, Completed, Resting
<1> QED
  BY <1>2, <1>3, <1>4, <1>5, <1>6 DEF EndInv

LEMMA ConfigRemoveEnds ==
  ASSUME Inv, EndInv, ConfigRemove
  PROVE  EndInv'
<1>0. /\ pc = "config remove" /\ pc' = "config" /\ UNCHANGED <<runtime, enabled, service, var, last, excused>>
      /\ disk' = [p \in Part |-> IF p \in Configuration THEN Absent ELSE disk[p]]
  BY Parts DEF ConfigRemove, Inv, FilesTyped, Step, Quiet, host, bounds, history
<1>1. /\ \A p \in Part \ Configuration : disk'[p] = disk[p]
      /\ AtWork /\ var.replaced
      /\ "runner" \in Part \ Configuration /\ Tool \cup {"unit"} \subseteq Part \ Configuration
  BY <1>0, PartsApart DEF EndInv, Flags, Inv, Order, Quiescent, AtWork
<1>2. Flags'
  BY <1>0, <1>1 DEF EndInv, Flags, AtWork
<1>3. Reverting'
  BY <1>0, <1>1 DEF EndInv, Reverting, Reverts, AtWork, Undoing, Switched
<1>4. Completing'
  BY <1>0, <1>1 DEF EndInv, Completing, Final, AtWork, Switched, Completed
<1>5. Undone'
  BY <1>0, <1>1 DEF EndInv, Undone, AtWork
<1>6. Running'
  BY <1>0, <1>1 DEF EndInv, Running, AtWork, Completed, Resting
<1> QED
  BY <1>2, <1>3, <1>4, <1>5, <1>6 DEF EndInv

LEMMA InstallEnds ==
  ASSUME Inv, EndInv, Install
  PROVE  EndInv'
<1>0. /\ \/ pc = "config" /\ pc' = "config done"
         \/ pc = "delivery" /\ pc' = "delivery done"
      /\ UNCHANGED <<runtime, enabled, service, var, last, excused>>
      /\ disk' = [p \in Part |-> IF p = "delivery" \/ (p = "config" /\ var.replaced) THEN Partial ELSE disk[p]]
  BY Parts DEF Install, Inv, FilesTyped, Step, Quiet, host, bounds, history
<1>1. /\ \A p \in Part : p # "delivery" /\ ~(p = "config" /\ var.replaced) => disk'[p] = disk[p]
      /\ AtWork /\ (var.replaced \/ var.refreshed)
      /\ Configuration \cup {"runner", "unit"} \cup Tool \subseteq Part /\ Tool \cap Configuration = {}
  BY <1>0, PartsApart DEF EndInv, Flags, Inv, Order, Quiescent, AtWork
<1>2. Flags'
  BY <1>0, <1>1 DEF EndInv, Flags, AtWork
<1>3. Reverting'
  BY <1>0, <1>1 DEF EndInv, Reverting, Reverts, AtWork, Undoing, Switched, Configuration
<1>4. Completing'
  BY <1>0, <1>1 DEF EndInv, Completing, Final, AtWork, Switched, Completed, Configuration
<1>5. Undone'
  BY <1>0, <1>1 DEF EndInv, Undone, AtWork
<1>6. Running'
  BY <1>0, <1>1 DEF EndInv, Running, AtWork, Completed, Resting
<1> QED
  BY <1>2, <1>3, <1>4, <1>5, <1>6 DEF EndInv

LEMMA InstalledEnds ==
  ASSUME Inv, EndInv, Installed
  PROVE  EndInv'
<1>0. /\ pc \in {"config done", "delivery done"} /\ pc' = "info"
      /\ UNCHANGED <<runtime, enabled, service, var, last, excused>>
      /\ disk' = [p \in Part |-> IF p = "delivery" \/ (p = "config" /\ var.replaced) THEN var.version ELSE disk[p]]
  BY Parts DEF Installed, Inv, FilesTyped, Step, Quiet, host, bounds, history
<1>1. /\ \A p \in Part : p # "delivery" /\ ~(p = "config" /\ var.replaced) => disk'[p] = disk[p]
      /\ AtWork /\ (var.replaced \/ var.refreshed)
      /\ Reverts("config")
      /\ disk'["delivery"] = var.version /\ var.replaced => disk'["config"] = var.version
      /\ Configuration \cup {"runner", "unit"} \cup Tool \subseteq Part /\ Tool \cap Configuration = {}
  BY <1>0, PartsApart DEF EndInv, Flags, Inv, Order, Quiescent, AtWork, Reverting
<1>2. Flags'
  BY <1>0, <1>1 DEF EndInv, Flags, AtWork
<1>3. Reverting'
  BY <1>0, <1>1 DEF EndInv, Reverting, Reverts, AtWork, Undoing, Switched, Configuration
<1>4. Completing'
  BY <1>0, <1>1 DEF EndInv, Completing, Final, AtWork, Switched, Completed, Reverts, Configuration
<1>5. Undone'
  BY <1>0, <1>1 DEF EndInv, Undone, AtWork
<1>6. Running'
  BY <1>0, <1>1 DEF EndInv, Running, AtWork, Completed, Resting
<1> QED
  BY <1>2, <1>3, <1>4, <1>5, <1>6 DEF EndInv

LEMMA InfoEnds ==
  ASSUME Inv, EndInv, Info
  PROVE  EndInv'
<1>0. /\ pc = "info" /\ pc' = "info begun" /\ UNCHANGED <<runtime, enabled, service, var, last, excused>>
      /\ disk' = [p \in Part |-> IF p = "info" THEN Partial ELSE disk[p]]
  BY Parts DEF Info, Inv, FilesTyped, Step, Quiet, host, bounds, history
<1>1. /\ \A p \in Part \ {"info"} : disk'[p] = disk[p]
      /\ Configuration \cup {"runner", "unit"} \cup Tool \subseteq Part /\ Tool \cap Configuration = {}
  BY <1>0, PartsApart
<1>2. Flags'
  BY <1>0, <1>1 DEF EndInv, Flags, AtWork
<1>3. Reverting'
  BY <1>0, <1>1 DEF EndInv, Reverting, Reverts, AtWork, Undoing, Switched, Configuration
<1>4. Completing'
  BY <1>0, <1>1 DEF EndInv, Completing, Final, AtWork, Switched, Completed, Configuration
<1>5. Undone'
  BY <1>0, <1>1 DEF EndInv, Undone, AtWork
<1>6. Running'
  BY <1>0, <1>1 DEF EndInv, Running, AtWork, Completed, Resting
<1> QED
  BY <1>2, <1>3, <1>4, <1>5, <1>6 DEF EndInv

LEMMA InfoWrittenEnds ==
  ASSUME Inv, EndInv, InfoWritten
  PROVE  EndInv'
<1>0. /\ pc = "info begun" /\ pc' = "info rewritten" /\ UNCHANGED <<runtime, enabled, service, var, last, excused>>
      /\ disk' = [p \in Part |-> IF p = "info" THEN var.version ELSE disk[p]]
  BY Parts DEF InfoWritten, Inv, FilesTyped, Step, Quiet, host, bounds, history
<1>1. /\ \A p \in Part \ {"info"} : disk'[p] = disk[p]
      /\ disk'["info"] = var.version
      /\ Configuration \cup {"runner", "unit"} \cup Tool \subseteq Part /\ Tool \cap Configuration = {}
  BY <1>0, PartsApart
<1>2. Flags'
  BY <1>0, <1>1 DEF EndInv, Flags, AtWork
<1>3. Reverting'
  BY <1>0, <1>1 DEF EndInv, Reverting, Reverts, AtWork, Undoing, Switched, Configuration
<1>4. Completing'
  BY <1>0, <1>1 DEF EndInv, Completing, Final, AtWork, Switched, Completed, Configuration
<1>5. Undone'
  BY <1>0, <1>1 DEF EndInv, Undone, AtWork
<1>6. Running'
  BY <1>0, <1>1 DEF EndInv, Running, AtWork, Completed, Resting
<1> QED
  BY <1>2, <1>3, <1>4, <1>5, <1>6 DEF EndInv

LEMMA RetireEnds ==
  ASSUME Inv, EndInv, Retire
  PROVE  EndInv'
<1>0. /\ pc = "retire" /\ pc' = "succeeded" /\ UNCHANGED <<runtime, enabled, service, var, last, excused>>
      /\ disk' = [p \in Part |-> IF p = "runner" THEN Absent ELSE disk[p]]
  BY Parts DEF Retire, Inv, FilesTyped, Step, Quiet, host, bounds, history
<1>1. /\ \A p \in Part \ {"runner"} : disk'[p] = disk[p]
      /\ disk'["runner"] = Absent /\ var.retired
      /\ Configuration \cup {"binary", "unit"} \cup Tool \subseteq Part \ {"runner"}
      /\ Configuration = {"config", "delivery", "info"}
  BY <1>0, PartsApart DEF Inv, Order, Quiescent, EndInv, Flags, AtWork
<1>2. Flags'
  BY <1>0, <1>1 DEF EndInv, Flags, AtWork
<1>3. Reverting'
  BY <1>0, <1>1 DEF EndInv, Reverting, Reverts, AtWork, Undoing, Switched, Configuration
<1>4. Completing'
  BY <1>0, <1>1 DEF EndInv, Completing, Final, AtWork, Switched, Completed
<1>5. Undone'
  BY <1>0, <1>1 DEF EndInv, Undone, AtWork
<1>6. Running'
  BY <1>0, <1>1 DEF EndInv, Running, AtWork, Completed, Resting
<1> QED
  BY <1>2, <1>3, <1>4, <1>5, <1>6 DEF EndInv

LEMMA StageEnds ==
  ASSUME Inv, EndInv, Stage
  PROVE  EndInv'
<1>0. pc = "stage" /\ UNCHANGED <<runtime, disk, enabled, service, last, excused>> /\ AtWork
  BY DEF Stage, Step, Quiet, host, history, Inv, Order, Quiescent, AtWork
<1>1. CASE Finish
  BY <1>0, <1>1, EndsIdle DEF Finish, EndInv, Running
<1>2. CASE Set("started", TRUE) /\ pc' = "stop"
  <2>1. /\ var'.name = var.name /\ var'.had = var.had /\ var'.version = var.version
        /\ var'.migrating = var.migrating /\ var'.replaced = var.replaced /\ var'.refreshed = var.refreshed
        /\ var'.active = var.active /\ var'.enabled = var.enabled /\ var'.info = var.info
        /\ var'.retired = var.retired
    BY <1>2, SetFields, SetOthers DEF Inv, ControlTyped
  <2>2. Flags'
    BY <1>0, <1>2, <2>1 DEF EndInv, Flags, AtWork
  <2>3. Reverting' /\ Completing' /\ Undone'
    BY <1>0, <1>2, <2>1 DEF EndInv, Reverting, Reverts, AtWork, Undoing, Switched, Completing, Completed, Undone
  <2>4. Running'
    BY <1>0, <1>2, <2>1 DEF EndInv, Running, AtWork, Completed, Resting
  <2> QED
    BY <2>2, <2>3, <2>4 DEF EndInv
<1> QED
  BY <1>0, <1>1, <1>2 DEF Stage

LEMMA ToolsEnds ==
  ASSUME Inv, EndInv, Tools
  PROVE  EndInv'
<1>0. /\ pc = "tools" /\ UNCHANGED <<runtime, enabled, service, var, last, excused>> /\ AtWork
  BY DEF Tools, Step, Quiet, host, history, Inv, Order, Quiescent, AtWork
<1>1. PICK q \in Tool \cup {"unit"} :
        /\ q = "unit" => \A t \in Tool : disk[t] = var.version
        /\ disk' = [disk EXCEPT ![q] = var.version]
        /\ pc' = IF q # "unit" THEN "tools" ELSE IF var.replaced THEN "config remove"
                 ELSE IF var.refreshed THEN "delivery" ELSE "info"
  BY Zenon DEF Tools
<1>2. /\ disk' = [p \in Part |-> IF p = q THEN var.version ELSE disk[p]]
      /\ Configuration \cup {"runner", "binary"} \subseteq Part \ {q}
      /\ Configuration = {"config", "delivery", "info"}
      /\ Tool \cup {"unit"} \subseteq Part
  BY <1>1, PartsApart DEF Inv, FilesTyped
<1>3. /\ \A p \in Configuration \cup {"runner", "binary"} : disk'[p] = disk[p]
      /\ pc' # "tools" => \A p \in Tool \cup {"unit"} : disk'[p] = var.version
  <2>1. pc' # "tools" => q = "unit"
    BY <1>1
  <2>2. /\ disk'[q] = var.version
        /\ q = "unit" => \A t \in Tool : disk'[t] = var.version
    <3>1. \A p \in Tool \cup {"unit"} : disk'[p] = IF p = q THEN var.version ELSE disk[p]
      BY <1>2
    <3> QED
      BY <1>1, <3>1
  <2>3. \A p \in Configuration \cup {"runner", "binary"} : disk'[p] = disk[p]
    BY <1>2
  <2> QED
    BY <2>1, <2>2, <2>3
<1>4. pc' \in {"tools", "config remove", "delivery", "info"}
  BY <1>1
<1>5. Flags'
  BY <1>0, <1>1 DEF EndInv, Flags, AtWork
<1>6. Reverting'
  <2>1. \A p \in Configuration \cup {"runner"} : Reverts(p)'
    BY <1>0, <1>3 DEF EndInv, Reverting, Reverts
  <2>2. "binary" \in var.had \/ last.disk["binary"] = Absent
    BY <1>0 DEF EndInv, Reverting, Switched
  <2> QED
    BY <1>0, <1>4, <2>1, <2>2 DEF Reverting, AtWork
<1>7. Completing'
  <2>1. pc' = "info" => disk["config"] = last.disk["config"] /\ disk["delivery"] = last.disk["delivery"]
                        /\ ~var.replaced /\ ~var.refreshed
    BY <1>0, <1>1, <1>2 DEF EndInv, Reverting, Reverts
  <2> QED
    BY <1>0, <1>2, <1>3, <1>4, <2>1 DEF Completing, Final, AtWork, Switched, Completed
<1>8. Undone'
  BY <1>4 DEF Undone
<1>9. Running'
  BY <1>0, <1>4 DEF EndInv, Running, AtWork, Completed, Resting
<1> QED
  BY <1>5, <1>6, <1>7, <1>8, <1>9 DEF EndInv

LEMMA SucceedEnds ==
  ASSUME Inv, EndInv, Succeed
  PROVE  EndInv'
BY EndsIdle DEF Succeed, Finish, Step, host, EndInv, Running

-----------------------------------------------------------------------------
(* The steps of the rollback.                                              *)

LEMMA UndoStopEnds ==
  ASSUME Inv, EndInv, UndoStop
  PROVE  EndInv'
<1>0. /\ pc = "undo stop" /\ pc' = "undo binary" /\ UNCHANGED <<runtime, disk, enabled, var, last, excused>>
      /\ service' = IF runtime = "managed" THEN Stopped ELSE service
  BY DEF UndoStop, runtime_stop, Step, Quiet, host, history
<1>1. Flags' /\ Reverting'
  BY <1>0 DEF EndInv, Flags, Reverting, Reverts, AtWork, Undoing, Switched
<1>2. Completing' /\ Undone' /\ Running'
  BY <1>0 DEF EndInv, Completing, Completed, Switched, Undone, Running, AtWork
<1> QED
  BY <1>1, <1>2 DEF EndInv

LEMMA UndoBinaryEnds ==
  ASSUME Inv, EndInv, UndoBinary
  PROVE  EndInv'
<1>0. /\ pc = "undo binary" /\ pc' = "undo tools"
      /\ UNCHANGED <<runtime, enabled, service, backups, var, last, excused>>
      /\ disk' = [p \in Part |-> IF p = "binary" THEN Saved("binary") ELSE disk[p]] /\ AtWork
  BY Parts DEF UndoBinary, Step, host, Inv, FilesTyped, Order, Quiescent, AtWork
<1>1. /\ \A p \in Configuration \cup {"runner"} : disk'[p] = disk[p]
      /\ disk'["binary"] = Saved("binary")'
  <2>1. Configuration \cup {"runner"} \subseteq Part \ {"binary"} /\ "binary" \in Part
    BY PartsApart
  <2> QED
    BY <1>0, <2>1 DEF Saved
<1>2. Flags' /\ Reverting'
  BY <1>0, <1>1 DEF EndInv, Flags, Reverting, Reverts, AtWork, Undoing, Switched
<1>3. Completing' /\ Undone'
  BY <1>0, <1>1 DEF Completing, Completed, Switched, Undone
<1>4. Running'
  BY <1>0 DEF EndInv, Running, AtWork, Completed, Resting
<1> QED
  BY <1>2, <1>3, <1>4 DEF EndInv

LEMMA UndoToolsEnds ==
  ASSUME Inv, EndInv, UndoTools
  PROVE  EndInv'
<1>0. /\ pc = "undo tools" /\ pc' = "undo config"
      /\ UNCHANGED <<runtime, enabled, service, backups, var, last, excused>>
      /\ disk' = [p \in Part |-> IF p \in Tool \cup {"unit"} \/ (p = "runner" /\ var.retired) THEN Saved(p)
                                 ELSE disk[p]]
      /\ AtWork
  BY DEF UndoTools, Step, Quiet, host, history, Inv, Order, Quiescent, AtWork
<1>1. /\ Configuration \cup {"binary"} \subseteq Part \ (Tool \cup {"unit", "runner"})
      /\ Tool \cup {"unit"} \subseteq Part \ {"binary", "runner"} /\ "runner" \in Part
      /\ "runner" \notin Configuration
  BY PartsApart
<1>2. \A p \in Configuration \cup {"binary"} : disk'[p] = disk[p]
  BY <1>0, <1>1
<1>3. \A p \in Tool \cup {"unit", "runner"} : disk'[p] = last.disk[p]
  <2>1. \A p \in Tool \cup {"unit"} : disk'[p] = last.disk[p]
    BY <1>0, <1>1, SavedIsFound
  <2>2. CASE var.retired
    <3>1. var.migrating
      BY <2>2 DEF Inv, Order
    <3>2. disk'["runner"] = Saved("runner")
      BY <1>0, <1>1, <2>2
    <3> QED
      BY <1>0, <2>1, <3>1, <3>2, SavedIsFound
  <2>3. CASE ~var.retired
    <3>1. disk["runner"] = last.disk["runner"]
      BY <1>0, <1>1, <2>3 DEF EndInv, Reverting, Reverts
    <3> QED
      BY <1>0, <1>1, <2>1, <2>3, <3>1
  <2> QED
    BY <2>2, <2>3
<1>4. Flags' /\ Reverting'
  BY <1>0, <1>2, <1>3 DEF EndInv, Flags, Reverting, Reverts, AtWork, Undoing, Switched
<1>5. Completing' /\ Undone'
  BY <1>0, <1>2, <1>3 DEF EndInv, Completing, Completed, Switched, Undone, Saved
<1>6. Running'
  BY <1>0 DEF EndInv, Running, AtWork, Completed, Resting
<1> QED
  BY <1>4, <1>5, <1>6 DEF EndInv

LEMMA UndoConfigEnds ==
  ASSUME Inv, EndInv, UndoConfig
  PROVE  EndInv'
<1>0. /\ pc = "undo config" /\ pc' = "undo files"
      /\ UNCHANGED <<runtime, enabled, service, backups, var, last, excused>>
      /\ disk' = [p \in Part |-> IF p \in Configuration /\ var.replaced THEN Absent ELSE disk[p]]
  BY DEF UndoConfig, Step, Quiet, host, history
<1>1. /\ \A p \in Tool \cup {"binary", "unit", "runner"} : disk'[p] = disk[p]
      /\ \A p \in Configuration : ~var.replaced => disk'[p] = disk[p]
      /\ "runner" \notin Configuration
  BY <1>0, PartsApart
<1>2. Flags' /\ Reverting'
  BY <1>0, <1>1 DEF EndInv, Flags, Reverting, Reverts, AtWork, Undoing, Switched
<1>3. Completing' /\ Undone'
  BY <1>0, <1>1 DEF EndInv, Completing, Completed, Switched, Undone, Saved, AtWork
<1>4. Running'
  BY <1>0 DEF EndInv, Running, AtWork, Completed, Resting
<1> QED
  BY <1>2, <1>3, <1>4 DEF EndInv

LEMMA UndoFilesEnds ==
  ASSUME Inv, EndInv, UndoFiles
  PROVE  EndInv'
<1> DEFINE Put(p) == \/ p \in Configuration /\ var.replaced
                     \/ p = "delivery" /\ var.refreshed
                     \/ p = "info" /\ var.info
<1>0. /\ pc = "undo files" /\ pc' = "undo service"
      /\ UNCHANGED <<runtime, enabled, service, backups, var, last, excused>>
      /\ disk' = [p \in Part |-> IF Put(p) THEN Saved(p) ELSE disk[p]] /\ AtWork
  BY DEF UndoFiles, Step, Quiet, host, history, Inv, Order, Quiescent, AtWork
<1>1. /\ Part = Configuration \cup {"binary", "unit", "runner"} \cup Tool
      /\ Configuration = {"config", "delivery", "info"}
      /\ Tool \cap {"binary", "unit", "runner", "config", "delivery", "info"} = {}
  BY PartsApart DEF Part
<1>2. \A p \in Tool \cup {"binary", "unit", "runner"} : disk'[p] = disk[p]
  BY <1>0, <1>1
<1>3. ASSUME NEW p \in Configuration \ excused
      PROVE  disk'[p] = last.disk[p]
  <2>1. p \in Part \ {"binary", "runner"}
    BY <1>1
  <2>2. Put(p) \/ disk[p] = last.disk[p]
    BY <1>0, <1>1, <1>3 DEF EndInv, Reverting, Reverts
  <2>3. Saved(p) = last.disk[p]
    BY <1>0, <2>1, SavedIsFound
  <2> HIDE DEF Put
  <2> QED
    BY <1>0, <2>1, <2>2, <2>3
<1> HIDE DEF Put
<1>4. /\ \A p \in Tool \cup {"unit", "runner"} : disk[p] = last.disk[p]
      /\ disk["binary"] = Saved("binary")
  BY <1>0 DEF EndInv, Undone
<1>5. Saved("binary")' = Saved("binary")
  BY <1>0 DEF Saved
<1>6. Flags' /\ Reverting'
  BY <1>0, <1>4 DEF EndInv, Flags, Reverting, AtWork, Undoing, Switched
<1>7. Completing' /\ Undone'
  BY <1>0, <1>2, <1>3, <1>4, <1>5 DEF Completing, Completed, Switched, Undone
<1>8. Running'
  BY <1>0 DEF EndInv, Running, AtWork, Completed, Resting
<1> QED
  BY <1>6, <1>7, <1>8 DEF EndInv

LEMMA UndoServiceEnds ==
  ASSUME Inv, EndInv, UndoService
  PROVE  EndInv'
BY EndsIdle DEF UndoService, Finish, Step, host, EndInv

-----------------------------------------------------------------------------
(* The other steps.                                                        *)

LEMMA UninstallationEnds ==
  ASSUME Inv, EndInv, Uninstall \/ Uninstallation
  PROVE  EndInv'
<1>1. var = NoVar /\ pc \in {"idle", "un tune", "un service", "un files"}
  BY DEF Uninstallation, Uninstall, Untune, UnService, UnFiles, Step, Inv, Order, Quiescent
<1>2. /\ var' = NoVar /\ pc' \in {"idle", "un tune", "un service", "un files"} /\ UNCHANGED runtime
      /\ enabled' = enabled \/ enabled' = FALSE
  BY <1>1 DEF Uninstallation, Uninstall, Untune, UnService, UnFiles, Step, Finish, host
<1>3. enabled' => runtime = "managed"
  <2>1. enabled => runtime = "managed"
    BY Zenon DEF EndInv, Running
  <2>2. CASE enabled' = enabled
    BY <2>1, <2>2
  <2>3. CASE enabled' = FALSE
    BY <2>3
  <2> QED
    BY <1>2, <2>2, <2>3
<1>4. pc' \notin {"enable", "start", "tune"}
  BY <1>2
<1> QED
  BY <1>2, <1>3, <1>4, EndsIdle DEF EndInv

LEMMA AbortEnds ==
  ASSUME Inv, EndInv, Abort
  PROVE  EndInv'
<1>0. /\ Deploying /\ UNCHANGED <<runtime, disk, service, enabled, last>>
      /\ \/ var.started /\ pc' = "undo stop" /\ UNCHANGED var
         \/ Finish
      /\ excused' = excused \cup Late
  BY DEF Abort, host
<1>1. CASE Finish
  BY <1>0, <1>1, EndsIdle DEF Finish, EndInv, Running
<1>2. CASE var.started /\ pc' = "undo stop" /\ UNCHANGED var
  <2>1. AtWork /\ pc \in Anywhere /\ pc \notin {"idle", "backup", "stage"} /\ ~Undoing /\ ~Removing
    BY <1>0, <1>2 DEF Deploying, Removing, Inv, ControlTyped, Order, Quiescent, AtWork
  <2>2. Flags'
    BY <1>0, <1>2, <2>1 DEF EndInv, Flags, AtWork
  <2>3. Reverting'
    <3>1. "binary" \notin excused' => "binary" \in var.had \/ last.disk["binary"] = Absent
      <4>1. CASE pc \in {"stop", "move", "had binary"}
        BY <1>0, <2>1, <4>1 DEF Inv, BinaryInv, AtWork, Late
      <4>2. CASE pc = "switch" \/ pc \in Switched
        BY <2>1, <4>2 DEF EndInv, Reverting
      <4> QED
        BY <2>1, <4>1, <4>2 DEF Anywhere, Switched, Undoing, Removing
    <3>2. \A p \in Configuration \cup {"runner"} : Reverts(p)'
      <4>1. \A p \in Configuration \cup {"runner"} : Reverts(p)
        BY <2>1 DEF EndInv, Reverting, Undoing
      <4> QED
        BY <1>0, <1>2, <4>1 DEF Reverts, Late, Configuration
    <3> QED
      BY <1>0, <1>2, <3>1, <3>2 DEF Reverting, AtWork, Switched
  <2>4. Completing' /\ Undone'
    BY <1>2 DEF Completing, Completed, Switched, Undone
  <2>5. Running'
    BY <1>0, <1>2, <2>1 DEF EndInv, Running, AtWork, Completed, Resting
  <2> QED
    BY <2>2, <2>3, <2>4, <2>5 DEF EndInv
<1> QED
  BY <1>0, <1>1, <1>2

LEMMA KillEnds ==
  ASSUME Inv, EndInv, Kill
  PROVE  EndInv'
BY EndsIdle DEF Kill, Finish, host, EndInv, Running

LEMMA StopFailsEnds ==
  ASSUME Inv, EndInv, StopFails
  PROVE  EndInv'
<1>0. /\ UNCHANGED <<runtime, disk, service, enabled, var, last>> /\ excused' = excused \cup {"service"}
      /\ \/ pc = "undo stop" /\ pc' = "undo binary"
         \/ pc = "stop" /\ pc' = (IF disk["binary"] = Absent THEN "switch" ELSE "move")
  BY DEF StopFails, host
<1>1. pc = "stop" => disk["binary"] = last.disk["binary"]
  BY DEF Inv, BinaryInv, Order, Quiescent
<1>2. Flags'
  BY <1>0 DEF EndInv, Flags, AtWork
<1>3. Reverting'
  BY <1>0, <1>1 DEF EndInv, Reverting, Reverts, AtWork, Undoing, Switched
<1>4. Completing' /\ Undone'
  BY <1>0 DEF Completing, Completed, Switched, Undone
<1>5. Running'
  BY <1>0 DEF EndInv, Running, AtWork, Completed
<1> QED
  BY <1>2, <1>3, <1>4, <1>5 DEF EndInv

LEMMA SuperviseEnds ==
  ASSUME Inv, EndInv, Supervise
  PROVE  EndInv'
<1>1. pc = "idle" /\ var = NoVar /\ UNCHANGED <<runtime, enabled, pc, var>>
  BY DEF Supervise, host, Inv, Order, Quiescent
<1> QED
  BY <1>1, EndsIdle DEF EndInv, Running

LEMMA InitEnds ==
  ASSUME Init
  PROVE  EndInv
<1>1. /\ runtime \in {"managed", "external"} /\ pc = "idle" /\ var = NoVar
      /\ enabled => runtime = "managed"
  BY Zenon DEF Init
<1> QED
  BY <1>1, NoVarRests DEF EndInv, Flags, Reverting, Completing, Undone, Running, AtWork

LEMMA NextEnds ==
  ASSUME Inv, EndInv, Next
  PROVE  EndInv'
<1>1. CASE Deployment
  BY <1>1, BeginEnds, BackupEnds, StageEnds, StopEnds, MoveEnds, HadBinaryEnds, SwitchEnds, ToolsEnds,
     ConfigRemoveEnds, InstallEnds, InstalledEnds, InfoEnds, InfoWrittenEnds, InfoRewrittenEnds,
     EnableEnds, StartEnds,
     TuneEnds, PruneBackupsEnds, RetiredEnds, RetireEnds, SucceedEnds, Zenon DEF Deployment
<1>2. CASE Rollback
  BY <1>2, UndoStopEnds, UndoBinaryEnds, UndoToolsEnds, UndoConfigEnds, UndoFilesEnds, UndoServiceEnds,
     Zenon DEF Rollback
<1>3. CASE Uninstallation
  BY <1>3, UninstallationEnds, Zenon
<1> QED
  BY <1>1, <1>2, <1>3, AbortEnds, KillEnds, StopFailsEnds, SuperviseEnds, Zenon DEF Next

LEMMA EndInvariance == Spec => [](Inv /\ EndInv)
<1>1. ASSUME EndInv, UNCHANGED vars
      PROVE  EndInv'
  <2>1. UNCHANGED <<runtime, disk, service, enabled, backups, pc, var, last, excused>>
    BY <1>1 DEF vars, host, history
  <2>2. Flags' /\ Completing'
    BY <1>1, <2>1 DEF EndInv, Flags, Completing, Final, AtWork
  <2>4. Undone' /\ Running'
    BY <1>1, <2>1 DEF EndInv, Undone, Running, AtWork, Saved
  <2>3. Reverting'
    BY <1>1, <2>1 DEF EndInv, Reverting, Reverts, Undoing, AtWork
  <2> QED
    BY <2>2, <2>3, <2>4 DEF EndInv
<1>2. Inv /\ EndInv /\ [Next]_vars => EndInv'
  BY <1>1, NextEnds
<1> QED
  BY <1>2, InitEnds, Invariance, PTL DEF Spec

-----------------------------------------------------------------------------
(* How a deployment ends.                                                  *)

\* The steps that can end one without an excuse.
LEMMA WaysToEnd ==
  ASSUME Inv, [Next]_vars, pc # "idle", ~Removing, AtWork, pc' = "idle", excused' # Everything
  PROVE  Succeed \/ UndoService \/ (pc = "stage" /\ UNCHANGED <<disk, service, enabled>>)
<1>1. CASE UNCHANGED vars
  BY <1>1 DEF vars
<1>2. CASE Deployment
  <2>1. CASE Stage
    BY <2>1 DEF Stage, Step
  <2>2. CASE Tools
    BY <2>2 DEF Tools
  <2>3. CASE ~Stage /\ ~Tools
    BY <1>2, <2>3 DEF Deployment, Begin, Backup, Stop, Move, HadBinary, Switch, ConfigRemove, Install,
       Installed,
       Info, InfoWritten, InfoRewritten, Enable, Start, Tune, PruneBackups, Retired, Retire
  <2> QED
    BY <2>1, <2>2, <2>3
<1>3. CASE Rollback
  BY <1>3 DEF Rollback, UndoStop, UndoBinary, UndoTools, UndoConfig, UndoFiles
<1>4. CASE Uninstallation
  BY <1>4 DEF Uninstallation, Uninstall, Untune, UnService, UnFiles, Step, Removing
<1>5. CASE Abort
  <2>1. ~var.started
    BY <1>5 DEF Abort
  <2>2. pc = "stage"
    BY <2>1, <1>5 DEF Abort, Deploying, Removing, Inv, Order, Quiescent, AtWork
  <2> QED
    BY <1>5, <2>2 DEF Abort
<1>6. CASE Kill \/ StopFails \/ Supervise
  BY <1>6 DEF Kill, StopFails, Supervise
<1> QED
  BY <1>1, <1>2, <1>3, <1>4, <1>5, <1>6, Zenon DEF Next

\* What the invariant makes of the end of a rollback.
LEMMA UndoServiceRestores ==
  ASSUME Inv, EndInv, AtWork, UndoService
  PROVE  Restored(disk', service', enabled', excused')
<1>1. /\ pc = "undo service" /\ UNCHANGED <<disk, excused, runtime>>
      /\ enabled' = (runtime = "managed" /\ var.enabled /\ "unit" \in var.had)
      /\ IF var.active /\ {"unit", "binary"} \subseteq var.had THEN runtime_start ELSE UNCHANGED service
  BY DEF UndoService, Step, Quiet, history, host
<1>2. /\ "unit" \in var.had <=> last.disk["unit"] # Absent
      /\ "binary" \notin excused => "binary" \in var.had \/ last.disk["binary"] = Absent
      /\ "binary" \in var.had => last.disk["binary"] # Absent
  <2>1. /\ "unit" \in Part \ {"binary", "runner"}
        /\ last.disk["unit"] # Absent => "unit" \in var.had
    BY Parts DEF Inv, SavedInv, AtWork
  <2>2. "binary" \notin excused => "binary" \in var.had \/ last.disk["binary"] = Absent
    BY <1>1 DEF EndInv, Reverting, Undoing
  <2>3. \A p \in var.had : last.disk[p] # Absent
    BY DEF EndInv, Flags
  <2> QED
    BY <2>1, <2>2, <2>3
<1>3. /\ disk["binary"] = Saved("binary")
      /\ \A p \in Tool \cup {"unit", "runner"} : disk[p] = last.disk[p]
      /\ \A p \in Configuration \ excused : disk[p] = last.disk[p]
  BY <1>1 DEF EndInv, Undone
<1>4. "binary" \in var.had <=> disk["binary"] # Absent
  BY <1>2, <1>3, SavedIsFound DEF Saved
<1>5. \A p \in Part \ excused : disk[p] = last.disk[p]
  BY <1>2, <1>3, SavedIsFound DEF Part
<1>6. /\ var.active = (last.service # Stopped)
      /\ var.enabled = (last.enabled /\ last.disk["unit"] # Absent)
      /\ runtime \in {"managed", "external"} /\ last.enabled \in BOOLEAN
  BY DEF EndInv, Flags, Running
<1>7. disk'["unit"] # Absent => enabled' = last.enabled
  BY <1>1, <1>2, <1>3, <1>6 DEF EndInv, Running
<1>8. runtime = "external" => service' = last.service
  BY <1>1 DEF EndInv, Running, runtime_start
<1>9. runtime = "managed" /\ "service" \notin excused => service = Stopped
  BY <1>1 DEF EndInv, Running, Resting
<1>10. runtime = "managed" /\ "service" \notin excused =>
         service' = IF last.service # Stopped /\ Absent \notin {disk["unit"], disk["binary"]}
                      THEN [binary |-> disk["binary"], config |-> disk["config"]] ELSE Stopped
  <2>1. Absent \notin {disk["unit"], disk["binary"]} <=> {"unit", "binary"} \subseteq var.had
    BY <1>2, <1>3, <1>4
  <2>2. CASE var.active /\ {"unit", "binary"} \subseteq var.had
    BY <1>1, <1>6, <1>9, <2>1, <2>2 DEF runtime_start
  <2>3. CASE ~(var.active /\ {"unit", "binary"} \subseteq var.had)
    BY <1>1, <1>6, <1>9, <2>1, <2>3
  <2> QED
    BY <2>2, <2>3
<1> QED
  BY <1>1, <1>5, <1>6, <1>7, <1>8, <1>10 DEF Restored

\* deploy.sh: "on failure the old binary, configuration, deployment record and
\* runner are restored".  A deployment that ends has installed everything and
\* runs it, or every part, the service and its start at boot are as they were,
\* but for what excused names: everything after a kill or a failing command of
\* the rollback, the service that survived its stop, the binary before
\* HAD_BINARY=1, and the record of a kept configuration before its flag is set.
THEOREM AlwaysDeployedOrRestored == Spec => DeployedOrRestored
<1> DEFINE Ends == pc # "idle" /\ ~Removing /\ var.name # 0 /\ pc' = "idle" /\ excused' # Everything
           Right == IF pc = "succeeded" THEN Deployed ELSE Restored(disk', service', enabled', excused')
<1>1. ASSUME Inv, EndInv, [Next]_vars, Ends
      PROVE  Right
  <2>0. AtWork
    BY <1>1 DEF AtWork
  <2>1. CASE pc = "stage" /\ UNCHANGED <<disk, service, enabled>>
    <3>1. disk = last.disk /\ service = last.service /\ enabled = last.enabled
      BY <2>0, <2>1, <1>1 DEF EndInv, Reverting, Running
    <3> QED
      BY <2>1, <3>1 DEF Restored
  <2>2. CASE Succeed
    <3>1. pc = "succeeded"
      BY <2>2 DEF Succeed, Step
    <3>2. \A p \in Tool \cup {"binary", "unit", "info"} : disk[p] = var.version
      BY <2>0, <3>1, <1>1 DEF EndInv, Completing, Completed, Switched, Inv, TunedInv
    <3>3. \A p \in {"config", "delivery"} : disk[p] = Final(p)
      BY <2>0, <3>1, <1>1 DEF EndInv, Completing, Completed
    <3>4. var.migrating => disk["runner"] = Absent
      BY <2>0, <3>1, <1>1 DEF EndInv, Completing
    <3>5. runtime = "managed" =>
            /\ enabled
            /\ service = [binary |-> disk["binary"], config |-> disk["config"]] \/ "service" \in excused
      BY <2>0, <3>1, <1>1 DEF EndInv, Running, Completed
    <3>6. Deployed
      BY <3>2, <3>3, <3>4, <3>5 DEF Deployed, Final
    <3> QED
      BY <3>1, <3>6
  <2>3. CASE UndoService
    <3>1. pc = "undo service"
      BY <2>3 DEF UndoService, Step
    <3> QED
      BY <2>0, <2>3, <3>1, <1>1, UndoServiceRestores
  <2> QED
    BY <1>1, <2>0, <2>1, <2>2, <2>3, WaysToEnd
<1>2. Inv /\ EndInv /\ [Next]_vars => [Ends => Right]_vars
  BY <1>1
<1> QED
  BY <1>2, EndInvariance, PTL DEF Spec, DeployedOrRestored
=============================================================================
