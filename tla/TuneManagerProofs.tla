------------------------- MODULE TuneManagerProofs -------------------------
(***************************************************************************)
(* What is proved of TuneManager for every set of keys and values, every   *)
(* bound and every behaviour of the kernel and the administrator.          *)
(***************************************************************************)
EXTENDS TuneManager, TLAPS

\* The types of what the commands keep for themselves; a command in progress
\* works for at least one key.
Locals ==
  /\ pc \in [Proc -> Where]
  /\ base \in [Proc -> Baseline]
  /\ want \in [Proc -> SUBSET Key]
  /\ todo \in [Proc -> SUBSET Key]
  /\ done \in [Proc -> SUBSET Key]
  /\ bad \in SUBSET Proc
  /\ \A p \in Proc : pc[p] # "idle" => want[p] # {}

\* The types of what they share.
Shared ==
  /\ kernel \in [Key -> Value]
  /\ baseline \in Baseline
  /\ baseline.st # "ok" => baseline.vals = NoVals
  /\ active \in Active
  /\ active.phase = "none" <=> active.keys = {}
  /\ sfile \in File
  /\ sfile.st = "ours" <=> sfile.keys # {}
  /\ tuned \in SUBSET Key
  /\ raced \in SUBSET Key
  /\ fault \in 0..MaxFault
  /\ env \in 0..MaxEnv

-----------------------------------------------------------------------------
(* The ways a command moves on keep its locals typed.                      *)

LEMMA GotoLocals ==
  ASSUME Locals, NEW p \in Proc, NEW to \in Where, pc[p] # "idle", Goto(p, to)
  PROVE  Locals'
BY DEF Locals, Goto

LEMMA StartLocals ==
  ASSUME Locals, NEW p \in Proc, NEW to \in Where, NEW b \in Baseline,
         NEW K \in SUBSET Key, K # {}, Start(p, to, b, K)
  PROVE  Locals'
BY DEF Locals, Start

LEMMA LoopLocals ==
  ASSUME Locals, NEW p \in Proc, NEW to \in Where, NEW K \in SUBSET Key,
         pc[p] # "idle", Loop(p, to, K)
  PROVE  Locals'
BY DEF Locals, Loop

LEMMA NextKeyLocals ==
  ASSUME Locals, NEW p \in Proc, NEW to \in Where, NEW k, NEW ok,
         pc[p] # "idle", NextKey(p, to, k, ok)
  PROVE  Locals'
BY DEF Locals, NextKey

LEMMA ReturnLocals ==
  ASSUME Locals, NEW p \in Proc, Return(p)
  PROVE  Locals'
BY DEF Locals, Return, Where, NoBaseline, Baseline, NoVals, Value

LEMMA RecoverLocals ==
  ASSUME Locals, NEW p \in Proc, pc[p] # "idle", Recover(p)
  PROVE  Locals'
BY LoopLocals DEF Locals, Recover, Where

LEMMA RemoveManagedLocals ==
  ASSUME Locals, NEW p \in Proc, NEW to \in Where, pc[p] # "idle", RemoveManaged(p, to)
  PROVE  Locals'
BY DEF Locals, RemoveManaged

LEMMA FaultType ==
  ASSUME fault \in 0..MaxFault, NEW failing, Fault(failing)
  PROVE  fault' \in 0..MaxFault
BY EnvironmentAssumption DEF Fault

LEMMA SysctlWriteType ==
  ASSUME Shared, NEW k \in Key, NEW v \in Value, NEW fate, SysctlWrite(k, v, fate)
  PROVE  kernel' \in [Key -> Value] /\ fault' \in 0..MaxFault
BY FaultType DEF Shared, SysctlWrite, Value

-----------------------------------------------------------------------------
(* Type correctness.                                                       *)

LEMMA InitTypes == Init => Locals /\ Shared
BY KeyAssumption, EnvironmentAssumption
   DEF Init, Locals, Shared, Value, NoVals, NoBaseline, Baseline, NoActive, Active,
       NoFile, File, Where

LEMMA StepLocals ==
  ASSUME Locals, Shared, [Next]_vars
  PROVE  Locals'
<1> USE DEF At
<1>1. ASSUME NEW p \in Proc, BeginApply(p) PROVE Locals'
  BY <1>1, StartLocals DEF BeginApply, Baseline, Where, Shared
<1>2. ASSUME NEW p \in Proc, LoadBaseline(p) PROVE Locals'
  BY <1>2, StartLocals, GotoLocals, ReturnLocals DEF LoadBaseline, Baseline, Where, Shared, Locals
<1>3. ASSUME NEW p \in Proc, LoadActive(p) PROVE Locals'
  BY <1>3, GotoLocals, ReturnLocals DEF LoadActive, Where
<1>4. ASSUME NEW p \in Proc, Inspect(p) PROVE Locals'
  BY <1>4, GotoLocals, ReturnLocals DEF Inspect, Where
<1>5. ASSUME NEW p \in Proc, Create(p) PROVE Locals'
  <2>1. CASE Return(p)
    BY <2>1, ReturnLocals
  <2>2. CASE ~Return(p)
    <3>1. /\ pc[p] # "idle" /\ want[p] \in SUBSET Key /\ base[p].vals \in [Key -> Value]
      BY <1>5 DEF Create, Locals, Baseline
    <3>2. baseline' = [st |-> "ok", vals |-> base[p].vals]
      BY <1>5, <2>2 DEF Create
    <3>3. baseline' \in Baseline
      BY <3>1, <3>2 DEF Baseline
    <3>4. want[p] # {}
      BY <3>1 DEF Locals
    <3>5. Start(p, "record", baseline', want[p])
      BY <1>5, <2>2 DEF Create
    <3> QED
      BY <3>1, <3>3, <3>4, <3>5, StartLocals DEF Where
  <2> QED
    BY <2>1, <2>2
<1>6. ASSUME NEW p \in Proc, Record(p) PROVE Locals'
  BY <1>6, LoopLocals, ReturnLocals, ZenonT(40) DEF Record, Where, Locals
<1>7. ASSUME NEW p \in Proc, Write(p) PROVE Locals'
  BY <1>7, RecoverLocals DEF Write, Where, Locals
<1>8. ASSUME NEW p \in Proc, ReadBack(p) PROVE Locals'
  BY <1>8, NextKeyLocals, RecoverLocals DEF ReadBack, Where, Locals
<1>9. ASSUME NEW p \in Proc, Persist(p) PROVE Locals'
  BY <1>9, GotoLocals, RecoverLocals DEF Persist, Where, Locals
<1>10. ASSUME NEW p \in Proc, Commit(p) PROVE Locals'
  BY <1>10, ReturnLocals, RecoverLocals DEF Commit, Where, Locals
<1>11. ASSUME NEW p \in Proc, UndoRead(p) PROVE Locals'
  BY <1>11, NextKeyLocals, GotoLocals DEF UndoRead, Where, Locals
<1>12. ASSUME NEW p \in Proc, UndoWrite(p) PROVE Locals'
  BY <1>12, NextKeyLocals DEF UndoWrite, Where, Locals
<1>13. ASSUME NEW p \in Proc, UndoFile(p) PROVE Locals'
  BY <1>13, RemoveManagedLocals DEF UndoFile, Where, Locals
<1>14. ASSUME NEW p \in Proc, Drop(p) PROVE Locals'
  BY <1>14, ReturnLocals DEF Drop
<1>15. ASSUME NEW p \in Proc, BeginRollback(p) PROVE Locals'
  BY <1>15, StartLocals DEF BeginRollback, Where, Shared, Active, Baseline, NoBaseline, NoVals, Value
<1>16. ASSUME NEW p \in Proc, RollbackBaseline(p) PROVE Locals'
  BY <1>16, ReturnLocals DEF RollbackBaseline, Where, Shared, Locals
<1>17. ASSUME NEW p \in Proc, RestoreRead(p) PROVE Locals'
  BY <1>17, NextKeyLocals, GotoLocals DEF RestoreRead, Where, Locals
<1>18. ASSUME NEW p \in Proc, RestoreWrite(p) PROVE Locals'
  BY <1>18, NextKeyLocals, GotoLocals DEF RestoreWrite, Where, Locals
<1>19. ASSUME NEW p \in Proc, RestoreCheck(p) PROVE Locals'
  BY <1>19, NextKeyLocals DEF RestoreCheck, Where, Locals
<1>20. ASSUME NEW p \in Proc, RestoreFile(p) PROVE Locals'
  BY <1>20, RemoveManagedLocals DEF RestoreFile, Where, Locals
<1>21. ASSUME NEW p \in Proc, Release(p) PROVE Locals'
  BY <1>21, GotoLocals, ReturnLocals DEF Release, Where, Locals
<1>22. ASSUME NEW p \in Proc, Archive(p) PROVE Locals'
  BY <1>22, ReturnLocals DEF Archive
<1>23. ASSUME NEW p \in Proc, Crash(p) PROVE Locals'
  BY <1>23, ReturnLocals DEF Crash
<1>24. CASE Reboot
  BY <1>24 DEF Reboot, Locals, Where, NoBaseline, Baseline, NoVals, Value
<1>25. ASSUME UNCHANGED local PROVE Locals'
  BY <1>25 DEF local, Locals
<1> QED
  BY <1>1, <1>2, <1>3, <1>4, <1>5, <1>6, <1>7, <1>8, <1>9, <1>10, <1>11, <1>12, <1>13, <1>14, <1>15, <1>16, <1>17, <1>18, <1>19, <1>20, <1>21, <1>22, <1>23, <1>24, <1>25
  DEF Next, Step, ApplyStep, RollbackStep, Environment, SetSysctl, EditFile, vars

LEMMA StepShared ==
  ASSUME Locals, Shared, [Next]_vars
  PROVE  Shared'
<1> USE EnvironmentAssumption DEF Shared, disk, At, Fault
<1>1. ASSUME NEW p \in Proc, BeginApply(p) PROVE Shared'
  BY <1>1 DEF BeginApply
<1>2. ASSUME NEW p \in Proc, LoadBaseline(p) PROVE Shared'
  BY <1>2 DEF LoadBaseline
<1>3. ASSUME NEW p \in Proc, LoadActive(p) PROVE Shared'
  BY <1>3 DEF LoadActive
<1>4. ASSUME NEW p \in Proc, Inspect(p) PROVE Shared'
  BY <1>4 DEF Inspect
<1>5. ASSUME NEW p \in Proc, Create(p) PROVE Shared'
  BY <1>5 DEF Create, Torn, Locals, Baseline, NoVals, Value
<1>6. ASSUME NEW p \in Proc, Record(p) PROVE Shared'
  BY <1>6 DEF Record, Locals, Active
<1>7. ASSUME NEW p \in Proc, Write(p) PROVE Shared'
  BY <1>7, SysctlWriteType, KeyAssumption DEF Write, Locals, Baseline, Value
<1>8. ASSUME NEW p \in Proc, ReadBack(p) PROVE Shared'
  BY <1>8 DEF ReadBack
<1>9. ASSUME NEW p \in Proc, Persist(p) PROVE Shared'
  BY <1>9 DEF Persist, Locals, File, Ours
<1>10. ASSUME NEW p \in Proc, Commit(p) PROVE Shared'
  BY <1>10 DEF Commit, Locals, Active
<1>11. ASSUME NEW p \in Proc, UndoRead(p) PROVE Shared'
  BY <1>11 DEF UndoRead
<1>12. ASSUME NEW p \in Proc, UndoWrite(p) PROVE Shared'
  BY <1>12, SysctlWriteType, KeyAssumption DEF UndoWrite, Locals, Baseline, Value
<1>13. ASSUME NEW p \in Proc, UndoFile(p) PROVE Shared'
  BY <1>13 DEF UndoFile, RemoveManaged, NoFile, File
<1>14. ASSUME NEW p \in Proc, Drop(p) PROVE Shared'
  BY <1>14 DEF Drop, NoActive, Active
<1>15. ASSUME NEW p \in Proc, BeginRollback(p) PROVE Shared'
  BY <1>15 DEF BeginRollback
<1>16. ASSUME NEW p \in Proc, RollbackBaseline(p) PROVE Shared'
  BY <1>16 DEF RollbackBaseline
<1>17. ASSUME NEW p \in Proc, RestoreRead(p) PROVE Shared'
  BY <1>17 DEF RestoreRead
<1>18. ASSUME NEW p \in Proc, RestoreWrite(p) PROVE Shared'
  <2>1. PICK k \in todo[p], fate \in {"ok", "ignored", "failed"} :
          /\ SysctlWrite(k, base[p].vals[k], fate)
          /\ tuned' = IF fate = "ok" THEN tuned \ {k} ELSE tuned
    BY <1>18 DEF RestoreWrite
  <2>2. k \in Key /\ base[p].vals[k] \in Value
    BY DEF Locals, Baseline
  <2>3. kernel' \in [Key -> Value] /\ fault' \in 0..MaxFault
    BY <2>1, <2>2, SysctlWriteType
  <2> QED
    BY <1>18, <2>1, <2>3 DEF RestoreWrite
<1>19. ASSUME NEW p \in Proc, RestoreCheck(p) PROVE Shared'
  BY <1>19 DEF RestoreCheck
<1>20. ASSUME NEW p \in Proc, RestoreFile(p) PROVE Shared'
  BY <1>20 DEF RestoreFile, RemoveManaged, NoFile, File
<1>21. ASSUME NEW p \in Proc, Release(p) PROVE Shared'
  BY <1>21 DEF Release, NoActive, Active
<1>22. ASSUME NEW p \in Proc, Archive(p) PROVE Shared'
  BY <1>22 DEF Archive, NoBaseline, NoVals, Baseline, Value
<1>23. ASSUME NEW p \in Proc, Crash(p) PROVE Shared'
  BY <1>23 DEF Crash
<1>24. CASE Reboot
  BY <1>24, KeyAssumption, EnvironmentAssumption DEF Reboot, File, Value
<1>25. ASSUME NEW k \in Key, SetSysctl(k) PROVE Shared'
  BY <1>25, EnvironmentAssumption DEF SetSysctl, Value
<1>26. CASE EditFile
  BY <1>26, EnvironmentAssumption DEF EditFile, NoFile, Foreign, File
<1>27. CASE UNCHANGED vars
  BY <1>27 DEF vars
<1> QED
  BY <1>1, <1>2, <1>3, <1>4, <1>5, <1>6, <1>7, <1>8, <1>9, <1>10, <1>11, <1>12, <1>13, <1>14, <1>15, <1>16, <1>17, <1>18, <1>19, <1>20, <1>21, <1>22, <1>23, <1>24, <1>25, <1>26, <1>27
  DEF Next, Step, ApplyStep, RollbackStep, Environment

\* The types of all variables, and what they say about files that do not exist
\* or cannot be read, hold in every reachable state, with any number of processes.
THEOREM TypeCorrect == Spec => []TypeOK
<1>1. Locals /\ Shared => TypeOK
  BY DEF Locals, Shared, TypeOK
<1> QED
  BY <1>1, InitTypes, StepLocals, StepShared, PTL DEF Spec

-----------------------------------------------------------------------------
(* The baseline of a transaction, with one process at a time: what the run *)
(* tune_race refutes for two.                                              *)

Sequential == \E q \in Proc : Proc = {q}

\* Where a command relies on the baseline it has read or created.
Relying == {"record", "write", "readback", "persist", "commit",
            "undo", "undoWrite", "undoFile", "drop",
            "restore", "restoreWrite", "restoreCheck", "restoreFile",
            "release", "archive"}

\* ActiveHasBaseline, and why: what a command took for a baseline is still on
\* disk, it has it wherever it relies on it, and only a command that has just
\* removed the record archives it.
BaselineInv ==
  /\ active.phase # "none" => baseline.st = "ok"
  /\ \A p \in Proc : base[p].st = "ok" => baseline.st = "ok"
  /\ \A p \in Proc : pc[p] \in Relying => base[p].st = "ok"
  /\ \A p \in Proc : pc[p] = "archive" => active.phase = "none"

LEMMA InitBaseline == Init => BaselineInv
BY DEF Init, BaselineInv, NoActive, NoBaseline, Relying

LEMMA StepBaseline ==
  ASSUME Sequential, Locals, Shared, BaselineInv, [Next]_vars
  PROVE  BaselineInv'
<1> PICK q \in Proc : Proc = {q}
  BY DEF Sequential
<1> USE DEF Locals, BaselineInv, Relying, At, disk
<1>1. CASE BeginApply(q)
  BY <1>1 DEF BeginApply, Start
<1>2. CASE LoadBaseline(q)
  <2>1. CASE baseline.st = "torn"
    BY <1>2, <2>1 DEF LoadBaseline, Return, NoBaseline
  <2>2. CASE baseline.st = "none"
    BY <1>2, <2>2 DEF LoadBaseline, Goto
  <2>3. CASE baseline.st = "ok"
    BY <1>2, <2>3 DEF LoadBaseline, Start
  <2>4. CASE baseline.st \notin {"torn", "none", "ok"}
    BY <2>4 DEF Shared, Baseline
  <2> QED
    BY <2>1, <2>2, <2>3, <2>4
<1>3. CASE LoadActive(q)
  BY <1>3 DEF LoadActive, Goto, Return, NoBaseline
<1>4. CASE Inspect(q)
  BY <1>4 DEF Inspect, Goto, Return, NoBaseline
<1>5. CASE Create(q)
  <2>1. CASE Return(q)
    BY <1>5, <2>1 DEF Create, Return, NoBaseline
  <2>2. CASE ~Return(q)
    <3>1. /\ baseline' = [st |-> "ok", vals |-> base[q].vals]
          /\ pc' = [pc EXCEPT ![q] = "record"]
          /\ UNCHANGED active
      BY <1>5, <2>2 DEF Create, Start
    <3>2. baseline'.st = "ok" /\ pc'[q] = "record" /\ active.phase = active'.phase
      BY <3>1
    <3>3. base'[q] = baseline'
      BY <1>5, <2>2 DEF Create, Start
    <3> QED
      BY <3>2, <3>3
  <2> QED
    BY <2>1, <2>2
<1>6. CASE Record(q)
  BY <1>6 DEF Record, Loop, Return, NoBaseline
<1>7. CASE Write(q)
  BY <1>7 DEF Write, Recover, Loop
<1>8. CASE ReadBack(q)
  BY <1>8 DEF ReadBack, NextKey, Recover, Loop
<1>9. CASE Persist(q)
  BY <1>9 DEF Persist, Goto, Recover, Loop
<1>10. CASE Commit(q)
  BY <1>10 DEF Commit, Return, Recover, Loop, NoBaseline
<1>11. CASE UndoRead(q)
  BY <1>11 DEF UndoRead, NextKey, Goto
<1>12. CASE UndoWrite(q)
  BY <1>12 DEF UndoWrite, NextKey
<1>13. CASE UndoFile(q)
  BY <1>13 DEF UndoFile, RemoveManaged
<1>14. CASE Drop(q)
  BY <1>14 DEF Drop, Return, NoActive, NoBaseline
<1>15. CASE BeginRollback(q)
  BY <1>15 DEF BeginRollback, Start, NoBaseline
<1>16. CASE RollbackBaseline(q)
  BY <1>16 DEF RollbackBaseline, Return, NoBaseline
<1>17. CASE RestoreRead(q)
  BY <1>17 DEF RestoreRead, NextKey, Goto
<1>18. CASE RestoreWrite(q)
  BY <1>18 DEF RestoreWrite, NextKey, Goto
<1>19. CASE RestoreCheck(q)
  BY <1>19 DEF RestoreCheck, NextKey
<1>20. CASE RestoreFile(q)
  BY <1>20 DEF RestoreFile, RemoveManaged
<1>21. CASE Release(q)
  <2>1. CASE Return(q)
    BY <1>21, <2>1 DEF Release, Return, NoActive, NoBaseline
  <2>2. CASE ~Return(q)
    <3>1. active' = NoActive /\ Goto(q, "archive") /\ UNCHANGED baseline
      BY <1>21, <2>2 DEF Release
    <3>2. active'.phase = "none"
      BY <3>1 DEF NoActive
    <3>3. base[q].st = "ok" /\ base' = base /\ pc' = [pc EXCEPT ![q] = "archive"]
      BY <1>21, <3>1 DEF Release, Goto
    <3> QED
      BY <3>1, <3>2, <3>3
  <2> QED
    BY <2>1, <2>2
<1>22. CASE Archive(q)
  BY <1>22 DEF Archive, Return, NoBaseline
<1>23. CASE Crash(q)
  BY <1>23 DEF Crash, Return, NoBaseline
<1>24. CASE Reboot
  BY <1>24 DEF Reboot, NoBaseline
<1>25. CASE UNCHANGED <<baseline, active, local>>
  BY <1>25 DEF local
<1> QED
  BY <1>1, <1>2, <1>3, <1>4, <1>5, <1>6, <1>7, <1>8, <1>9, <1>10, <1>11, <1>12, <1>13, <1>14, <1>15, <1>16, <1>17, <1>18, <1>19, <1>20, <1>21, <1>22, <1>23, <1>24, <1>25
  DEF Next, Step, ApplyStep, RollbackStep, Environment, SetSysctl, EditFile, vars

\* With one process at a time no ownership record is ever without a readable
\* baseline, whatever fails, crashes, reboots or interferes, and however many
\* keys there are: Create comes before Record, Release before Archive.
THEOREM SequentialActiveHasBaseline ==
  ASSUME Sequential
  PROVE  Spec => []ActiveHasBaseline
<1>1. BaselineInv => ActiveHasBaseline
  BY DEF BaselineInv, ActiveHasBaseline
<1>2. Locals /\ Shared /\ BaselineInv /\ [Next]_vars => BaselineInv'
  BY StepBaseline
<1> QED
  BY <1>1, <1>2, InitTypes, StepLocals, StepShared, InitBaseline, PTL DEF Spec

KeepsBaseline ==
  \/ baseline' = baseline
  \/ baseline' = NoBaseline /\ active.phase = "none"

LEMMA StepImmutable ==
  ASSUME Sequential, BaselineInv, [Next]_vars
  PROVE  baseline.st = "ok" => KeepsBaseline
<1> USE DEF At, disk, KeepsBaseline
<1> HAVE baseline.st = "ok"
<1>1. ASSUME NEW p \in Proc, Create(p) PROVE baseline' = baseline
  BY <1>1 DEF Create
<1>2. ASSUME NEW p \in Proc, Archive(p)
      PROVE  KeepsBaseline
  BY <1>2 DEF Archive, BaselineInv
<1>3. ASSUME NEW p \in Proc, ~Create(p), ~Archive(p),
             BeginApply(p) \/ BeginRollback(p) \/ Step(p)
      PROVE  baseline' = baseline
  BY <1>3 DEF BeginApply, BeginRollback, Step, ApplyStep, RollbackStep, LoadBaseline,
    LoadActive, Inspect, Record, Write, ReadBack, Persist, Commit, UndoRead, UndoWrite,
    UndoFile, Drop, RollbackBaseline, RestoreRead, RestoreWrite, RestoreCheck,
    RestoreFile, Release
<1>4. ASSUME Environment \/ UNCHANGED vars PROVE baseline' = baseline
  BY <1>4 DEF Environment, Crash, Reboot, SetSysctl, EditFile, vars
<1>5. ASSUME NEW p \in Proc, BeginApply(p) \/ BeginRollback(p) \/ Step(p)
      PROVE  KeepsBaseline
  BY <1>1, <1>2, <1>3, <1>5
<1> QED
  BY <1>4, <1>5 DEF Next

\* With one process at a time a readable baseline is never rewritten, and it
\* is archived only when no record is left that needs it.
THEOREM SequentialBaselineImmutable ==
  ASSUME Sequential
  PROVE  Spec => BaselineImmutable
<1>1. Locals /\ Shared /\ BaselineInv /\ [Next]_vars => BaselineInv'
  BY StepBaseline
<1>2. BaselineInv /\ [Next]_vars
      => [baseline.st = "ok" => KeepsBaseline]_vars
  BY StepImmutable
<1> QED
  BY <1>1, <1>2, InitTypes, StepLocals, StepShared, InitBaseline, PTL DEF Spec, BaselineImmutable, KeepsBaseline
=============================================================================
