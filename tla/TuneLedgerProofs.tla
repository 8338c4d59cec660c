-------------------------- MODULE TuneLedgerProofs --------------------------
(***************************************************************************)
(* What is proved of TuneManager with one process at a time: that a commit *)
(* is verified, that a recovery and a rollback restore exactly the         *)
(* original values and overwrite nothing else, and that the transaction    *)
(* implements TuneLedger.  Each theorem assumes only what it needs of the  *)
(* kernel; the runs tune_race and tune_stale_baseline show what happens    *)
(* without the first two assumptions.                                      *)
(***************************************************************************)
EXTENDS TuneManagerProofs

\* Every managed sysctl can be read after every boot, so that readSysctl never
\* gives "" for one of them.
Readable == BootStates \subseteq [Key -> Val]

\* And the kernel reports a recovery write that it does not carry out.
FaithfulKernel == Readable /\ ~SilentRecovery

-----------------------------------------------------------------------------
(* The invariants.                                                         *)

\* Where Apply has found no record, and where it has written one and may tune.
Unclaimed == {"inspect", "create", "record"}
Tuning    == {"write", "readback", "persist", "commit"}
Undoing   == {"undo", "undoWrite", "undoFile", "drop"}
Restoring == {"restore", "restoreWrite", "restoreCheck", "restoreFile", "release"}

\* What a command knows of the files: the record is the one it has written or
\* read, its baseline is the one on disk, and its loop has keys of the record;
\* the key it reads back is one it has written.
OwnRecord ==
  \A p \in Proc :
    /\ pc[p] \in Unclaimed => active.phase = "none"
    /\ pc[p] \in Tuning \cup Undoing => active.phase = "applying" /\ active.keys = want[p]
    /\ pc[p] \in Restoring \cup {"rbLoad"} => active.phase # "none" /\ active.keys = want[p]
    /\ pc[p] \in {"write", "readback"} => todo[p] \subseteq want[p]
    /\ pc[p] = "readback" => \A k \in todo[p] : IsFirst(k, todo[p]) => k \in done[p]
    /\ pc[p] \in {"persist", "commit"} => todo[p] = {}
    /\ base[p].st = "ok" => base[p] = baseline
    /\ pc[p] \in {"loadBaseline", "create"} => base[p].st # "ok"

\* A value is as a command believes it to be, or came from outside meanwhile.
Managed(k)     == kernel[k] = Target[k] \/ k \in raced
Original(p, k) == kernel[k] = base[p].vals[k] \/ k \in raced

\* Every key a loop of Apply is done with has been read back, and the key a
\* recovery or a rollback is about to write had the managed value.
Verified ==
  \A p \in Proc :
    /\ pc[p] \in Tuning => \A k \in want[p] \ todo[p] : Managed(k)
    /\ pc[p] = "undoWrite" => \A k \in todo[p] : IsLast(k, todo[p]) => Managed(k)
    /\ pc[p] = "restoreWrite" => \A k \in todo[p] : IsFirst(k, todo[p]) => Managed(k)

\* The keys a command has not changed, or has changed back, have the value its
\* baseline gives: before the first write, in the loop, in the recovery, which
\* works from done back to nothing, and in the rollback.
Untouched ==
  \A p \in Proc :
    /\ pc[p] \in {"loadBaseline", "loadActive", "inspect", "create"} /\ base[p].st # "ok"
         => \A k \in Key : Original(p, k)
    /\ pc[p] = "record" => \A k \in Key : Original(p, k)
    /\ pc[p] \in Tuning => \A k \in Key \ done[p] : Original(p, k)
    /\ pc[p] \in {"undo", "undoWrite"} /\ p \notin bad => \A k \in Key \ todo[p] : Original(p, k)
    /\ pc[p] \in {"undoFile", "drop"} /\ p \notin bad => \A k \in Key : Original(p, k)
    /\ pc[p] \in {"restore", "restoreWrite", "restoreCheck"} /\ p \notin bad
         => \A k \in want[p] \ todo[p] : Original(p, k)
    /\ pc[p] \in {"restoreFile", "release"} /\ p \notin bad
         => \A k \in want[p] : Original(p, k)

\* What is left of the tool's own: only claimed keys, each still at its managed
\* value, and among the keys that the command in progress has before it.
Residue ==
  /\ tuned \subseteq active.keys
  /\ sfile.keys \subseteq active.keys
  /\ \A k \in tuned : kernel[k] = Target[k] /\ baseline.vals[k] # Target[k]
  /\ \A p \in Proc :
       /\ pc[p] \in Tuning => tuned \subseteq done[p]
       /\ pc[p] \in {"undo", "undoWrite", "restore", "restoreWrite", "restoreCheck"}
            /\ p \notin bad => tuned \subseteq todo[p]
       /\ pc[p] \in {"undoFile", "drop", "restoreFile", "release"} /\ p \notin bad
            => tuned = {}
       /\ pc[p] \in {"drop", "release"} /\ p \notin bad => sfile.keys = {}

\* Every value read from the kernel or from a baseline is a value.
ReadableInv ==
  /\ kernel \in [Key -> Val]
  /\ baseline.st = "ok" => baseline.vals \in [Key -> Val]
  /\ \A p \in Proc : pc[p] \notin {"idle", "rbLoad"} => base[p].vals \in [Key -> Val]

-----------------------------------------------------------------------------
(* What the handlers that write a file do, one outcome at a time.          *)

LEMMA LoadBaselineCases ==
  ASSUME Shared, NEW p \in Proc, LoadBaseline(p)
  PROVE  /\ At(p, "loadBaseline")
         /\ \/ Return(p)
            \/ baseline.st = "none" /\ Goto(p, "loadActive")
            \/ baseline.st = "ok" /\ Start(p, "loadActive", baseline, want[p])
         /\ UNCHANGED <<kernel, disk, tuned, raced>>
<1>1. baseline.st \in {"none", "torn", "ok"}
  BY DEF Shared, Baseline
<1>2. CASE baseline.st = "torn"
  BY <1>2 DEF LoadBaseline
<1>3. CASE baseline.st = "none"
  BY <1>3 DEF LoadBaseline
<1>4. CASE baseline.st = "ok"
  BY <1>4 DEF LoadBaseline
<1> QED
  BY <1>1, <1>2, <1>3, <1>4

LEMMA CreateCases ==
  ASSUME NEW p \in Proc, Create(p)
  PROVE  /\ At(p, "create")
         /\ \/ UNCHANGED baseline /\ Return(p)
            \/ baseline.st = "none" /\ baseline' = Torn /\ Return(p)
            \/ /\ baseline.st = "none"
               /\ baseline'.st = "ok" /\ baseline'.vals = base[p].vals
               /\ Start(p, "record", baseline', want[p])
         /\ UNCHANGED <<kernel, active, sfile, tuned, raced>>
<1>1. CASE baseline' = [st |-> "ok", vals |-> base[p].vals]
  <2>1. baseline'.st = "ok" /\ baseline'.vals = base[p].vals
    BY <1>1
  <2> QED
    BY <2>1, Zenon DEF Create
<1>2. CASE baseline' # [st |-> "ok", vals |-> base[p].vals]
  BY <1>2, Zenon DEF Create
<1> QED
  BY <1>1, <1>2

LEMMA RecordCases ==
  ASSUME NEW p \in Proc, Record(p)
  PROVE  /\ At(p, "record")
         /\ \/ UNCHANGED active /\ Return(p)
            \/ /\ active'.phase = "applying" /\ active'.keys = want[p]
               /\ Loop(p, "write", want[p])
         /\ UNCHANGED <<kernel, baseline, sfile, tuned, raced>>
<1>1. CASE active' = [phase |-> "applying", keys |-> want[p]]
  <2>1. active'.phase = "applying" /\ active'.keys = want[p]
    BY <1>1
  <2> QED
    BY <2>1, Zenon DEF Record
<1>2. CASE active' # [phase |-> "applying", keys |-> want[p]]
  BY <1>2, Zenon DEF Record
<1> QED
  BY <1>1, <1>2

LEMMA PersistCases ==
  ASSUME NEW p \in Proc, Persist(p)
  PROVE  /\ At(p, "persist")
         /\ \/ UNCHANGED sfile /\ Recover(p)
            \/ sfile'.keys = want[p] /\ Goto(p, "commit")
         /\ UNCHANGED <<kernel, baseline, active, tuned, raced>>
<1>1. CASE sfile' = Ours(want[p])
  <2>1. sfile'.keys = want[p]
    BY <1>1 DEF Ours
  <2> QED
    BY <2>1, Zenon DEF Persist
<1>2. CASE sfile' # Ours(want[p])
  BY <1>2, Zenon DEF Persist
<1> QED
  BY <1>1, <1>2

LEMMA CommitCases ==
  ASSUME NEW p \in Proc, Commit(p)
  PROVE  /\ At(p, "commit")
         /\ \/ UNCHANGED active /\ Recover(p)
            \/ active'.phase = "active" /\ active'.keys = want[p] /\ Return(p)
         /\ UNCHANGED <<kernel, baseline, sfile, tuned, raced>>
<1>1. CASE active' = [phase |-> "active", keys |-> want[p]]
  <2>1. active'.phase = "active" /\ active'.keys = want[p]
    BY <1>1
  <2> QED
    BY <2>1, Zenon DEF Commit
<1>2. CASE active' # [phase |-> "active", keys |-> want[p]]
  BY <1>2, Zenon DEF Commit
<1> QED
  BY <1>1, <1>2

LEMMA DropCases ==
  ASSUME NEW p \in Proc, Drop(p)
  PROVE  /\ At(p, "drop") /\ Return(p)
         /\ \/ UNCHANGED active
            \/ p \notin bad /\ active'.phase = "none" /\ active'.keys = {}
         /\ UNCHANGED <<kernel, baseline, sfile, tuned, raced>>
<1>1. CASE active' = NoActive
  <2>1. active'.phase = "none" /\ active'.keys = {}
    BY <1>1 DEF NoActive
  <2> QED
    BY <2>1, Zenon DEF Drop
<1>2. CASE active' # NoActive
  BY <1>2, Zenon DEF Drop
<1> QED
  BY <1>1, <1>2

LEMMA ReleaseCases ==
  ASSUME NEW p \in Proc, Release(p)
  PROVE  /\ At(p, "release")
         /\ \/ UNCHANGED active /\ Return(p)
            \/ /\ p \notin bad
               /\ active'.phase = "none" /\ active'.keys = {}
               /\ Goto(p, "archive")
         /\ UNCHANGED <<kernel, baseline, sfile, tuned, raced>>
<1>1. CASE active' = NoActive
  <2>1. active'.phase = "none" /\ active'.keys = {}
    BY <1>1 DEF NoActive
  <2> QED
    BY <2>1, Zenon DEF Release
<1>2. CASE active' # NoActive
  BY <1>2, Zenon DEF Release
<1> QED
  BY <1>1, <1>2

-----------------------------------------------------------------------------
(* Every step keeps the invariants.                                        *)

LEMMA StepOwnRecord ==
  ASSUME Sequential, Locals, Shared, BaselineInv, OwnRecord, [Next]_vars
  PROVE  OwnRecord'
<1> PICK q \in Proc : Proc = {q}
  BY DEF Sequential
<1> USE DEF OwnRecord, Locals, At, disk, Unclaimed, Tuning, Undoing, Restoring
<1>1. CASE BeginApply(q)
  BY <1>1 DEF BeginApply, Start
<1>2. CASE LoadBaseline(q)
  BY <1>2, LoadBaselineCases DEF Start, Goto, Return, NoBaseline
<1>3. CASE LoadActive(q)
  BY <1>3 DEF LoadActive, Goto, Return, NoBaseline
<1>4. CASE Inspect(q)
  BY <1>4 DEF Inspect, Goto, Return, NoBaseline, Usable
<1>5. CASE Create(q)
  BY <1>5, CreateCases DEF Start, Return, NoBaseline, Torn
<1>6. CASE Record(q)
  BY <1>6, RecordCases DEF Loop, Return, NoBaseline
<1>7. CASE Write(q)
  BY <1>7, KeyAssumption DEF Write, Recover, Loop, IsFirst
<1>8. CASE ReadBack(q)
  BY <1>8 DEF ReadBack, NextKey, Recover, Loop
<1>9. CASE Persist(q)
  BY <1>9, PersistCases DEF Goto, Recover, Loop
<1>10. CASE Commit(q)
  BY <1>10, CommitCases DEF Return, Recover, Loop, NoBaseline
<1>11. CASE UndoRead(q)
  BY <1>11 DEF UndoRead, NextKey, Goto
<1>12. CASE UndoWrite(q)
  BY <1>12 DEF UndoWrite, NextKey
<1>13. CASE UndoFile(q)
  BY <1>13 DEF UndoFile, RemoveManaged
<1>14. CASE Drop(q)
  BY <1>14, DropCases DEF Return, NoActive, NoBaseline
<1>15. CASE BeginRollback(q)
  BY <1>15 DEF BeginRollback, Start, NoBaseline
<1>16. CASE RollbackBaseline(q)
  BY <1>16 DEF RollbackBaseline, Return, NoBaseline
<1>17. CASE RestoreRead(q)
  BY <1>17 DEF RestoreRead, NextKey, Goto
<1>18. CASE RestoreWrite(q)
  BY <1>18 DEF RestoreWrite, NextKey, Goto
<1>19. CASE RestoreCheck(q)
  BY <1>19 DEF RestoreCheck, NextKey
<1>20. CASE RestoreFile(q)
  BY <1>20 DEF RestoreFile, RemoveManaged
<1>21. CASE Release(q)
  BY <1>21, ReleaseCases DEF Goto, Return, NoActive, NoBaseline
<1>22. CASE Archive(q)
  BY <1>22 DEF Archive, Return, NoBaseline
<1>23. CASE Crash(q)
  BY <1>23 DEF Crash, Return, NoBaseline
<1>24. CASE Reboot
  BY <1>24 DEF Reboot, NoBaseline
<1>25. ASSUME NEW k \in Key, SetSysctl(k) PROVE OwnRecord'
  BY <1>25 DEF SetSysctl, local
<1>26. CASE EditFile
  BY <1>26 DEF EditFile, local
<1>27. CASE UNCHANGED vars
  BY <1>27 DEF vars, local
<1> QED
  BY <1>1, <1>2, <1>3, <1>4, <1>5, <1>6, <1>7, <1>8, <1>9, <1>10, <1>11, <1>12, <1>13, <1>14, <1>15, <1>16, <1>17, <1>18, <1>19, <1>20, <1>21, <1>22, <1>23, <1>24, <1>25, <1>26, <1>27
  DEF Next, Step, ApplyStep, RollbackStep, Environment

LEMMA StepVerified ==
  ASSUME Sequential, Locals, Shared, OwnRecord, Verified, [Next]_vars
  PROVE  Verified'
<1> PICK q \in Proc : Proc = {q}
  BY DEF Sequential
<1> USE DEF Verified, Managed, Locals, At, disk, Tuning
<1>1. CASE BeginApply(q)
  BY <1>1 DEF BeginApply, Start
<1>2. CASE LoadBaseline(q)
  BY <1>2, LoadBaselineCases DEF Start, Goto, Return
<1>3. CASE LoadActive(q)
  BY <1>3 DEF LoadActive, Goto, Return
<1>4. CASE Inspect(q)
  BY <1>4 DEF Inspect, Goto, Return
<1>5. CASE Create(q)
  BY <1>5, CreateCases DEF Start, Return
<1>6. CASE Record(q)
  BY <1>6, RecordCases DEF Loop, Return
<1>7. CASE Write(q)
  BY <1>7 DEF Write, Recover, Loop, SysctlWrite
<1>8. CASE ReadBack(q)
  BY <1>8 DEF ReadBack, NextKey, Recover, Loop
<1>9. CASE Persist(q)
  BY <1>9, PersistCases DEF Goto, Recover, Loop
<1>10. CASE Commit(q)
  BY <1>10, CommitCases DEF Return, Recover, Loop
<1>11. CASE UndoRead(q)
  BY <1>11, KeyAssumption DEF UndoRead, NextKey, Goto, IsLast
<1>12. CASE UndoWrite(q)
  BY <1>12 DEF UndoWrite, NextKey
<1>13. CASE UndoFile(q)
  BY <1>13 DEF UndoFile, RemoveManaged
<1>14. CASE Drop(q)
  BY <1>14, DropCases DEF Return
<1>15. CASE BeginRollback(q)
  BY <1>15 DEF BeginRollback, Start
<1>16. CASE RollbackBaseline(q)
  BY <1>16 DEF RollbackBaseline, Return
<1>17. CASE RestoreRead(q)
  <2>1. CASE Goto(q, "restoreFile") \/ \E k \in todo[q], ok \in BOOLEAN : NextKey(q, "restore", k, ok)
    BY <1>17, <2>1 DEF RestoreRead, NextKey, Goto
  <2>2. CASE \E k \in todo[q] : /\ IsFirst(k, todo[q]) /\ kernel[k] = Target[k]
                                /\ Goto(q, "restoreWrite")
    <3>1. PICK k \in todo[q] : /\ IsFirst(k, todo[q]) /\ kernel[k] = Target[k]
                              /\ Goto(q, "restoreWrite")
      BY <2>2
    <3>2. /\ pc' = [pc EXCEPT ![q] = "restoreWrite"]
          /\ UNCHANGED <<kernel, todo>>
      BY <1>17, <3>1 DEF RestoreRead, Goto
    <3>3. \A j \in todo[q] : IsFirst(j, todo[q]) => kernel[j] = Target[j]
      BY <3>1, KeyAssumption DEF IsFirst
    <3> QED
      BY <3>2, <3>3
  <2> QED
    BY <1>17, <2>1, <2>2 DEF RestoreRead
<1>18. CASE RestoreWrite(q)
  BY <1>18 DEF RestoreWrite, NextKey, Goto
<1>19. CASE RestoreCheck(q)
  BY <1>19 DEF RestoreCheck, NextKey
<1>20. CASE RestoreFile(q)
  BY <1>20 DEF RestoreFile, RemoveManaged
<1>21. CASE Release(q)
  BY <1>21, ReleaseCases DEF Goto, Return
<1>22. CASE Archive(q)
  BY <1>22 DEF Archive, Return
<1>23. CASE Crash(q)
  BY <1>23 DEF Crash, Return
<1>24. CASE Reboot
  BY <1>24 DEF Reboot
<1>25. ASSUME NEW k \in Key, SetSysctl(k) PROVE Verified'
  BY <1>25 DEF SetSysctl, local
<1>26. CASE EditFile
  BY <1>26 DEF EditFile, local
<1>27. CASE UNCHANGED vars
  BY <1>27 DEF vars, local
<1> QED
  BY <1>1, <1>2, <1>3, <1>4, <1>5, <1>6, <1>7, <1>8, <1>9, <1>10, <1>11, <1>12, <1>13, <1>14, <1>15, <1>16, <1>17, <1>18, <1>19, <1>20, <1>21, <1>22, <1>23, <1>24, <1>25, <1>26, <1>27
  DEF Next, Step, ApplyStep, RollbackStep, Environment

LEMMA StepUntouched ==
  ASSUME Sequential, FaithfulKernel, Locals, Shared, BaselineInv, ReadableInv, OwnRecord, Untouched, [Next]_vars
  PROVE  Untouched'
<1> PICK q \in Proc : Proc = {q}
  BY DEF Sequential
<1> USE DEF Untouched, Original, Locals, At, disk, Tuning
<1>1. CASE BeginApply(q)
  BY <1>1 DEF BeginApply, Start
<1>2. CASE LoadBaseline(q)
  BY <1>2, LoadBaselineCases DEF Start, Goto, Return
<1>3. CASE LoadActive(q)
  BY <1>3 DEF LoadActive, Goto, Return
<1>4. CASE Inspect(q)
  <2>1. CASE Return(q)
    BY <1>4, <2>1 DEF Inspect, Return, NoBaseline
  <2>2. CASE Usable(base[q]) /\ base[q].st = "ok"
    <3>1. \A k \in Key : base[q].vals[k] # None
      BY <1>4, KeyAssumption DEF Inspect, ReadableInv
    <3>2. \A k \in Key : Original(q, k)
      BY <2>2, <3>1 DEF Usable
    <3> QED
      BY <1>4, <2>2, <3>2 DEF Inspect, Goto
  <2>3. CASE Goto(q, "create") /\ base[q].st # "ok"
    BY <1>4, <2>3 DEF Inspect, Goto
  <2> QED
    BY <1>4, <2>1, <2>2, <2>3 DEF Inspect
<1>5. CASE Create(q)
  <2>1. \A k \in Key : Original(q, k)
    BY <1>5, CreateCases DEF OwnRecord
  <2>2. CASE Return(q)
    BY <1>5, <2>2 DEF Return
  <2>3. CASE base'[q].vals = base[q].vals /\ pc'[q] = "record" /\ UNCHANGED <<kernel, raced>>
    BY <2>1, <2>3
  <2> QED
    BY <1>5, <2>2, <2>3, CreateCases DEF Start
<1>6. CASE Record(q)
  BY <1>6, RecordCases DEF Loop, Return
<1>7. CASE Write(q)
  BY <1>7 DEF Write, Recover, Loop, SysctlWrite
<1>8. CASE ReadBack(q)
  BY <1>8 DEF ReadBack, NextKey, Recover, Loop, OwnRecord
<1>9. CASE Persist(q)
  BY <1>9, PersistCases DEF Goto, Recover, Loop
<1>10. CASE Commit(q)
  BY <1>10, CommitCases DEF Return, Recover, Loop
<1>11. CASE UndoRead(q)
  BY <1>11 DEF UndoRead, NextKey, Goto
<1>12. CASE UndoWrite(q)
  <2>1. PICK k \in todo[q], fate \in {"ok", "failed"} :
          /\ SysctlWrite(k, base[q].vals[k], fate)
          /\ NextKey(q, "undo", k, fate # "failed")
    BY <1>12 DEF UndoWrite, FaithfulKernel
  <2>2. base[q].vals[k] # None /\ k \in Key
    BY <1>12, KeyAssumption DEF UndoWrite, ReadableInv
  <2>3. CASE fate = "failed"
    BY <1>12, <2>1, <2>3 DEF NextKey, UndoWrite
  <2>4. CASE fate = "ok"
    <3>1. kernel' = [kernel EXCEPT ![k] = base[q].vals[k]]
      BY <2>1, <2>2, <2>4 DEF SysctlWrite
    <3>2. /\ pc' = [pc EXCEPT ![q] = "undo"]
          /\ todo' = [todo EXCEPT ![q] = @ \ {k}]
          /\ UNCHANGED <<base, bad, raced>>
      BY <1>12, <2>1, <2>4 DEF NextKey, UndoWrite
    <3>3. q \notin bad => \A j \in Key \ todo'[q] : Original(q, j)'
      BY <1>12, <3>1, <3>2, <2>2 DEF UndoWrite, Shared
    <3> QED
      BY <3>2, <3>3
  <2> QED
    BY <2>1, <2>3, <2>4
<1>13. CASE UndoFile(q)
  BY <1>13 DEF UndoFile, RemoveManaged
<1>14. CASE Drop(q)
  BY <1>14, DropCases DEF Return
<1>15. CASE BeginRollback(q)
  BY <1>15 DEF BeginRollback, Start
<1>16. CASE RollbackBaseline(q)
  BY <1>16 DEF RollbackBaseline, Return
<1>17. CASE RestoreRead(q)
  BY <1>17 DEF RestoreRead, NextKey, Goto
<1>18. CASE RestoreWrite(q)
  BY <1>18 DEF RestoreWrite, NextKey, Goto, SysctlWrite
<1>19. CASE RestoreCheck(q)
  BY <1>19 DEF RestoreCheck, NextKey
<1>20. CASE RestoreFile(q)
  BY <1>20 DEF RestoreFile, RemoveManaged
<1>21. CASE Release(q)
  BY <1>21, ReleaseCases DEF Goto, Return
<1>22. CASE Archive(q)
  BY <1>22 DEF Archive, Return
<1>23. CASE Crash(q)
  BY <1>23 DEF Crash, Return
<1>24. CASE Reboot
  BY <1>24 DEF Reboot
<1>25. ASSUME NEW k \in Key, SetSysctl(k) PROVE Untouched'
  BY <1>25 DEF SetSysctl, local
<1>26. CASE EditFile
  BY <1>26 DEF EditFile, local
<1>27. CASE UNCHANGED vars
  BY <1>27 DEF vars, local
<1> QED
  BY <1>1, <1>2, <1>3, <1>4, <1>5, <1>6, <1>7, <1>8, <1>9, <1>10, <1>11, <1>12, <1>13, <1>14, <1>15, <1>16, <1>17, <1>18, <1>19, <1>20, <1>21, <1>22, <1>23, <1>24, <1>25, <1>26, <1>27
  DEF Next, Step, ApplyStep, RollbackStep, Environment

LEMMA StepResidue ==
  ASSUME Sequential, FaithfulKernel, Locals, Shared, BaselineInv, ReadableInv, OwnRecord, Residue, [Next]_vars
  PROVE  Residue'
<1> PICK q \in Proc : Proc = {q}
  BY DEF Sequential
<1> USE DEF Residue, Locals, At, disk, Tuning
<1>1. CASE BeginApply(q)
  BY <1>1 DEF BeginApply, Start
<1>2. CASE LoadBaseline(q)
  BY <1>2, LoadBaselineCases DEF Start, Goto, Return
<1>3. CASE LoadActive(q)
  BY <1>3 DEF LoadActive, Goto, Return
<1>4. CASE Inspect(q)
  BY <1>4 DEF Inspect, Goto, Return
<1>5. CASE Create(q)
  <2>1. tuned = {}
    BY <1>5, CreateCases DEF OwnRecord, Unclaimed, Shared
  <2> QED
    BY <1>5, <2>1, CreateCases DEF Start, Return
<1>6. CASE Record(q)
  <2>1. tuned = {} /\ sfile.keys = {}
    BY <1>6, RecordCases DEF OwnRecord, Unclaimed, Shared
  <2> QED
    BY <1>6, <2>1, RecordCases DEF Loop, Return
<1>7. CASE Write(q)
  <2>1. PICK k \in todo[q], fate \in {"ok", "ignored", "failed"} :
          /\ SysctlWrite(k, Target[k], fate)
          /\ tuned' = IF fate # "ok" THEN tuned
                      ELSE IF base[q].vals[k] = Target[k] THEN tuned \ {k}
                      ELSE tuned \cup {k}
          /\ IF fate = "failed"
               THEN Recover(q)
               ELSE /\ pc' = [pc EXCEPT ![q] = "readback"]
                    /\ done' = [done EXCEPT ![q] = @ \cup {k}]
                    /\ UNCHANGED <<base, want, todo, bad>>
    BY <1>7 DEF Write
  <2>2. /\ k \in Key /\ k \in active.keys /\ Target[k] # None
        /\ base[q] = baseline
    BY <1>7, KeyAssumption DEF Write, OwnRecord, BaselineInv, Relying
  <2>3. UNCHANGED <<disk>>
    BY <1>7 DEF Write
  <2>4. CASE fate = "failed"
    BY <1>7, <2>1, <2>3, <2>4 DEF Write, Recover, Loop, SysctlWrite
  <2>5. CASE fate = "ignored"
    BY <1>7, <2>1, <2>3, <2>5 DEF Write, SysctlWrite
  <2>6. CASE fate = "ok"
    <3>1. kernel' = [kernel EXCEPT ![k] = Target[k]]
      BY <2>1, <2>2, <2>6 DEF SysctlWrite
    <3>2. \A j \in tuned' : kernel'[j] = Target[j] /\ baseline'.vals[j] # Target[j]
      BY <2>1, <2>2, <2>3, <2>6, <3>1 DEF Shared
    <3> QED
      BY <1>7, <2>1, <2>2, <2>3, <2>6, <3>2 DEF Write
  <2> QED
    BY <2>4, <2>5, <2>6
<1>8. CASE ReadBack(q)
  BY <1>8 DEF ReadBack, NextKey, Recover, Loop
<1>9. CASE Persist(q)
  BY <1>9, PersistCases DEF Goto, Recover, Loop, OwnRecord
<1>10. CASE Commit(q)
  BY <1>10, CommitCases DEF Return, Recover, Loop, OwnRecord
<1>11. CASE UndoRead(q)
  BY <1>11 DEF UndoRead, NextKey, Goto
<1>12. CASE UndoWrite(q)
  <2>1. PICK k \in todo[q], fate \in {"ok", "failed"} :
          /\ SysctlWrite(k, base[q].vals[k], fate)
          /\ tuned' = IF fate = "ok" /\ base[q].vals[k] # None THEN tuned \ {k} ELSE tuned
          /\ NextKey(q, "undo", k, fate # "failed")
    BY <1>12 DEF UndoWrite, FaithfulKernel
  <2>2. base[q].vals[k] # None /\ k \in Key
    BY <1>12, KeyAssumption DEF UndoWrite, ReadableInv
  <2>3. CASE fate = "failed"
    BY <1>12, <2>1, <2>3 DEF NextKey, UndoWrite, SysctlWrite
  <2>4. CASE fate = "ok"
    <3>1. kernel' = [kernel EXCEPT ![k] = base[q].vals[k]] /\ tuned' = tuned \ {k}
      BY <2>1, <2>2, <2>4 DEF SysctlWrite
    <3>2. \A j \in tuned' : kernel'[j] = Target[j] /\ baseline'.vals[j] # Target[j]
      BY <1>12, <3>1 DEF Shared, UndoWrite
    <3>3. /\ pc' = [pc EXCEPT ![q] = "undo"]
          /\ todo' = [todo EXCEPT ![q] = @ \ {k}]
          /\ UNCHANGED <<disk, bad>>
      BY <1>12, <2>1, <2>4 DEF NextKey, UndoWrite
    <3> QED
      BY <1>12, <3>1, <3>2, <3>3 DEF UndoWrite
  <2> QED
    BY <2>1, <2>3, <2>4
<1>13. CASE UndoFile(q)
  BY <1>13 DEF UndoFile, RemoveManaged, NoFile
<1>14. CASE Drop(q)
  BY <1>14, DropCases DEF Return
<1>15. CASE BeginRollback(q)
  BY <1>15 DEF BeginRollback, Start
<1>16. CASE RollbackBaseline(q)
  BY <1>16 DEF RollbackBaseline, Return, OwnRecord
<1>17. CASE RestoreRead(q)
  <2>1. base[q] = baseline
    BY <1>17 DEF RestoreRead, OwnRecord, BaselineInv, Relying
  <2> QED
    BY <1>17, <2>1 DEF RestoreRead, NextKey, Goto
<1>18. CASE RestoreWrite(q)
  BY <1>18 DEF RestoreWrite, NextKey, Goto, SysctlWrite
<1>19. CASE RestoreCheck(q)
  <2>1. base[q] = baseline
    BY <1>19 DEF RestoreCheck, OwnRecord, BaselineInv, Relying
  <2> QED
    BY <1>19, <2>1 DEF RestoreCheck, NextKey
<1>20. CASE RestoreFile(q)
  BY <1>20 DEF RestoreFile, RemoveManaged, NoFile
<1>21. CASE Release(q)
  BY <1>21, ReleaseCases DEF Goto, Return
<1>22. CASE Archive(q)
  <2>1. tuned = {}
    BY <1>22 DEF Archive, BaselineInv, Shared
  <2> QED
    BY <1>22, <2>1 DEF Archive, Return
<1>23. CASE Crash(q)
  BY <1>23 DEF Crash, Return
<1>24. CASE Reboot
  BY <1>24 DEF Reboot
<1>25. ASSUME NEW k \in Key, SetSysctl(k) PROVE Residue'
  BY <1>25 DEF SetSysctl, local
<1>26. CASE EditFile
  BY <1>26 DEF EditFile, local, NoFile, Foreign
<1>27. CASE UNCHANGED vars
  BY <1>27 DEF vars, local
<1> QED
  BY <1>1, <1>2, <1>3, <1>4, <1>5, <1>6, <1>7, <1>8, <1>9, <1>10, <1>11, <1>12, <1>13, <1>14, <1>15, <1>16, <1>17, <1>18, <1>19, <1>20, <1>21, <1>22, <1>23, <1>24, <1>25, <1>26, <1>27
  DEF Next, Step, ApplyStep, RollbackStep, Environment
LEMMA StepReadable ==
  ASSUME Readable, Locals, Shared, ReadableInv, [Next]_vars
  PROVE  ReadableInv'
<1> USE KeyAssumption DEF ReadableInv, Locals, At, disk
<1>1. ASSUME NEW p \in Proc, BeginApply(p) PROVE ReadableInv'
  BY <1>1 DEF BeginApply, Start
<1>2. ASSUME NEW p \in Proc, LoadBaseline(p) PROVE ReadableInv'
  BY <1>2, LoadBaselineCases DEF Start, Goto, Return
<1>3. ASSUME NEW p \in Proc, LoadActive(p) PROVE ReadableInv'
  BY <1>3 DEF LoadActive, Goto, Return
<1>4. ASSUME NEW p \in Proc, Inspect(p) PROVE ReadableInv'
  BY <1>4 DEF Inspect, Goto, Return
<1>5. ASSUME NEW p \in Proc, Create(p) PROVE ReadableInv'
  BY <1>5, CreateCases DEF Start, Return, Torn, NoBaseline
<1>6. ASSUME NEW p \in Proc, Record(p) PROVE ReadableInv'
  BY <1>6, RecordCases DEF Loop, Return
<1>7. ASSUME NEW p \in Proc, Write(p) PROVE ReadableInv'
  BY <1>7 DEF Write, Recover, Loop, SysctlWrite
<1>8. ASSUME NEW p \in Proc, ReadBack(p) PROVE ReadableInv'
  BY <1>8 DEF ReadBack, NextKey, Recover, Loop
<1>9. ASSUME NEW p \in Proc, Persist(p) PROVE ReadableInv'
  BY <1>9, PersistCases DEF Goto, Recover, Loop, Ours
<1>10. ASSUME NEW p \in Proc, Commit(p) PROVE ReadableInv'
  BY <1>10, CommitCases, SMTT(30) DEF Return, Recover, Loop
<1>11. ASSUME NEW p \in Proc, UndoRead(p) PROVE ReadableInv'
  BY <1>11 DEF UndoRead, NextKey, Goto
<1>12. ASSUME NEW p \in Proc, UndoWrite(p) PROVE ReadableInv'
  BY <1>12 DEF UndoWrite, NextKey, SysctlWrite
<1>13. ASSUME NEW p \in Proc, UndoFile(p) PROVE ReadableInv'
  BY <1>13 DEF UndoFile, RemoveManaged
<1>14. ASSUME NEW p \in Proc, Drop(p) PROVE ReadableInv'
  BY <1>14, DropCases, SMTT(30) DEF Return
<1>15. ASSUME NEW p \in Proc, BeginRollback(p) PROVE ReadableInv'
  BY <1>15 DEF BeginRollback, Start
<1>16. ASSUME NEW p \in Proc, RollbackBaseline(p) PROVE ReadableInv'
  BY <1>16 DEF RollbackBaseline, Return
<1>17. ASSUME NEW p \in Proc, RestoreRead(p) PROVE ReadableInv'
  BY <1>17 DEF RestoreRead, NextKey, Goto
<1>18. ASSUME NEW p \in Proc, RestoreWrite(p) PROVE ReadableInv'
  BY <1>18 DEF RestoreWrite, NextKey, Goto, SysctlWrite
<1>19. ASSUME NEW p \in Proc, RestoreCheck(p) PROVE ReadableInv'
  BY <1>19 DEF RestoreCheck, NextKey
<1>20. ASSUME NEW p \in Proc, RestoreFile(p) PROVE ReadableInv'
  BY <1>20 DEF RestoreFile, RemoveManaged
<1>21. ASSUME NEW p \in Proc, Release(p) PROVE ReadableInv'
  BY <1>21, ReleaseCases, SMTT(30) DEF Goto, Return
<1>22. ASSUME NEW p \in Proc, Archive(p) PROVE ReadableInv'
  <2>1. UNCHANGED baseline \/ baseline'.st = "none"
    <3>1. NoBaseline.st = "none"
      BY DEF NoBaseline
    <3> QED
      BY <1>22, <3>1 DEF Archive
  <2>2. Return(p) /\ UNCHANGED kernel
    BY <1>22 DEF Archive
  <2>3. pc' = [pc EXCEPT ![p] = "idle"] /\ base' = [base EXCEPT ![p] = NoBaseline]
    BY <2>2 DEF Return
  <2> QED
    BY <2>1, <2>2, <2>3
<1>23. ASSUME NEW p \in Proc, Crash(p) PROVE ReadableInv'
  BY <1>23 DEF Crash, Return
<1>24. CASE Reboot
  BY <1>24 DEF Reboot, Readable
<1>25. ASSUME NEW k \in Key, SetSysctl(k) PROVE ReadableInv'
  BY <1>25 DEF SetSysctl, local
<1>26. CASE EditFile
  BY <1>26 DEF EditFile, local
<1>27. CASE UNCHANGED vars
  BY <1>27 DEF vars, local
<1> QED
  BY <1>1, <1>2, <1>3, <1>4, <1>5, <1>6, <1>7, <1>8, <1>9, <1>10, <1>11, <1>12, <1>13, <1>14, <1>15, <1>16, <1>17, <1>18, <1>19, <1>20, <1>21, <1>22, <1>23, <1>24, <1>25, <1>26, <1>27
  DEF Next, Step, ApplyStep, RollbackStep, Environment

-----------------------------------------------------------------------------
(* The theorems.                                                           *)

LEMMA InitInvs ==
  /\ Init => OwnRecord /\ Verified /\ Untouched /\ Residue
  /\ Readable /\ Init => ReadableInv
<1>1. Init => OwnRecord /\ Verified /\ Untouched
  BY DEF Init, OwnRecord, Verified, Untouched, Unclaimed, Tuning, Undoing, Restoring, NoBaseline
<1>2. Init => Residue
  BY DEF Init, Residue, Tuning, NoFile
<1>3. Readable /\ Init => ReadableInv
  BY DEF Init, ReadableInv, Readable, NoBaseline
<1> QED
  BY <1>1, <1>2, <1>3

\* What a record claims can be given back: with one process at a time, and a
\* kernel that can be read, its baseline has a value for every claimed key, so
\* that Rollback never ends with "baseline value missing".
THEOREM SequentialCoversActive ==
  ASSUME Sequential, Readable
  PROVE  Spec => []BaselineCoversActive
<1>1. Locals /\ Shared /\ BaselineInv /\ [Next]_vars => BaselineInv'
  BY StepBaseline
<1>2. Locals /\ Shared /\ ReadableInv /\ [Next]_vars => ReadableInv'
  BY StepReadable
<1>3. Shared /\ BaselineInv /\ ReadableInv => BaselineCoversActive
  <2> SUFFICES ASSUME Shared, BaselineInv, ReadableInv, NEW k \in active.keys
               PROVE  baseline.vals[k] # None
    BY DEF BaselineCoversActive
  <2>1. k \in Key /\ active.phase # "none"
    BY DEF Shared, Active
  <2>2. baseline.vals \in [Key -> Val]
    BY <2>1 DEF BaselineInv, ReadableInv
  <2> QED
    BY <2>1, <2>2, KeyAssumption
<1> QED
  BY <1>1, <1>2, <1>3, InitTypes, StepLocals, StepShared, InitBaseline, InitInvs, PTL DEF Spec

\* The invariants that need only that commands do not overlap.
CommandInv == Locals /\ Shared /\ BaselineInv /\ OwnRecord /\ Verified

LEMMA SequentialCommands ==
  ASSUME Sequential
  PROVE  Spec => []CommandInv
<1>1. CommandInv /\ [Next]_vars => CommandInv'
  BY StepLocals, StepShared, StepBaseline, StepOwnRecord, StepVerified DEF CommandInv
<1>2. Init => CommandInv
  BY InitTypes, InitBaseline, InitInvs DEF CommandInv
<1> QED
  BY <1>1, <1>2, PTL DEF Spec

Committing ==
  active.phase = "applying" /\ active'.phase = "active" =>
    \A k \in active'.keys : kernel[k] = Target[k] \/ k \in raced

\* Apply commits a record as "active" only with every key at its managed value
\* or changed from outside while it ran, whatever fails, and even on a kernel
\* that ignores writes: the loop of lines 133-155 reads each of them back.
THEOREM SequentialCommitVerified ==
  ASSUME Sequential
  PROVE  Spec => CommitVerified
<1>1. ASSUME CommandInv, [Next]_vars PROVE [Committing]_vars
  <2> USE DEF Committing, disk
  <2> PICK q \in Proc : Proc = {q}
    BY DEF Sequential
  <2>1. ASSUME UNCHANGED active PROVE Committing
    BY <2>1
  <2>2. CASE Commit(q)
    BY <1>1, <2>2, CommitCases DEF CommandInv, Verified, OwnRecord, Tuning, Managed, At
  <2>3. CASE Record(q)
    BY <2>3, RecordCases
  <2>4. CASE Drop(q)
    BY <2>4, DropCases
  <2>5. CASE Release(q)
    BY <2>5, ReleaseCases
  <2>6. CASE BeginApply(q) \/ BeginRollback(q) \/ (Step(q) /\ ~(Commit(q) \/ Record(q) \/ Drop(q) \/ Release(q)))
    BY <2>1, <2>6 DEF BeginApply, BeginRollback, Step, ApplyStep, RollbackStep, LoadBaseline,
      LoadActive, Inspect, Create, Write, ReadBack, Persist, UndoRead, UndoWrite, UndoFile,
      RollbackBaseline, RestoreRead, RestoreWrite, RestoreCheck, RestoreFile, Archive
  <2>7. CASE Environment
    BY <2>1, <2>7 DEF Environment, Crash, Reboot, SetSysctl, EditFile
  <2> QED
    BY <1>1, <2>2, <2>3, <2>4, <2>5, <2>6, <2>7 DEF Next
<1> QED
  BY <1>1, SequentialCommands, PTL DEF Spec, CommitVerified, Committing

Overwriting ==
  \A p \in Proc, k \in Key :
    /\ <<pc[p], pc'[p]>> \in {<<"undoWrite", "undo">>, <<"restoreWrite", "restoreCheck">>}
    /\ kernel'[k] # kernel[k]
    /\ k \notin raced
    => kernel[k] = Target[k]

\* With one process at a time, a recovery or a rollback overwrites nothing but
\* a managed value, or a value that came from outside between its own read of
\* the key and its write: every other change an administrator made stays.
THEOREM SequentialExternalPreserved ==
  ASSUME Sequential
  PROVE  Spec => ExternalPreserved
<1>1. ASSUME CommandInv, [Next]_vars PROVE [Overwriting]_vars
  <2> PICK q \in Proc : Proc = {q}
    BY DEF Sequential
  <2>1. ASSUME NEW k \in Key,
               \/ pc[q] = "undoWrite" /\ pc'[q] = "undo"
               \/ pc[q] = "restoreWrite" /\ pc'[q] = "restoreCheck",
               kernel'[k] # kernel[k], k \notin raced
        PROVE  kernel[k] = Target[k]
    <3>1. CASE UndoWrite(q)
      BY <1>1, <2>1, <3>1 DEF UndoWrite, SysctlWrite, CommandInv, Shared, Locals, Verified, Managed, At
    <3>2. CASE RestoreWrite(q)
      BY <1>1, <2>1, <3>2 DEF RestoreWrite, SysctlWrite, CommandInv, Shared, Locals, Verified, Managed, At
    <3>3. CASE Write(q)
      BY <2>1, <3>3 DEF Write, At
    <3>4. UndoWrite(q) \/ RestoreWrite(q) \/ Write(q) \/ UNCHANGED kernel \/ Reboot \/ UNCHANGED pc
      BY <1>1 DEF Next, Step, ApplyStep, RollbackStep, Environment, BeginApply, BeginRollback,
        LoadBaseline, LoadActive, Inspect, Create, Record, ReadBack, Persist, Commit, UndoRead,
        UndoFile, Drop, RollbackBaseline, RestoreRead, RestoreCheck, RestoreFile, Release,
        Archive, Crash, SetSysctl, EditFile, local, vars
    <3>5. CASE Reboot
      BY <2>1, <3>5 DEF Reboot
    <3> QED
      BY <2>1, <3>1, <3>2, <3>3, <3>4, <3>5
  <2> QED
    BY <2>1 DEF Overwriting
<1> QED
  BY <1>1, SequentialCommands, PTL DEF Spec, ExternalPreserved, Overwriting

-----------------------------------------------------------------------------
(* Exact release, and the ledger.                                          *)

LedgerInv == CommandInv /\ ReadableInv /\ Untouched /\ Residue

LEMMA SequentialLedger ==
  ASSUME Sequential, FaithfulKernel
  PROVE  Spec => []LedgerInv
<1>1. LedgerInv /\ [Next]_vars => LedgerInv'
  BY StepLocals, StepShared, StepBaseline, StepOwnRecord, StepVerified, StepReadable,
     StepUntouched, StepResidue DEF LedgerInv, CommandInv, FaithfulKernel
<1>2. Init => LedgerInv
  BY InitTypes, InitBaseline, InitInvs DEF LedgerInv, CommandInv, FaithfulKernel
<1> QED
  BY <1>1, <1>2, PTL DEF Spec

Releasing ==
  active.phase # "none" /\ active'.phase = "none" =>
    \A k \in active.keys : kernel[k] = baseline.vals[k] \/ k \in raced

\* A recovery or a rollback that gives a record up leaves each key of it at
\* exactly the value the baseline has, or with a change made from outside.
THEOREM SequentialReleasedExactly ==
  ASSUME Sequential, FaithfulKernel
  PROVE  Spec => ReleasedExactly
<1>1. ASSUME LedgerInv, [Next]_vars PROVE [Releasing]_vars
  <2> USE DEF Releasing, disk
  <2> PICK q \in Proc : Proc = {q}
    BY DEF Sequential
  <2>1. ASSUME UNCHANGED active PROVE Releasing
    BY <2>1
  <2>2. CASE Commit(q)
    BY <2>2, CommitCases
  <2>3. CASE Record(q)
    BY <2>3, RecordCases
  <2>4. CASE Drop(q)
    BY <1>1, <2>4, DropCases DEF LedgerInv, CommandInv, BaselineInv, Relying, OwnRecord, Undoing,
      Shared, Active, Untouched, Original, At
  <2>5. CASE Release(q)
    BY <1>1, <2>5, ReleaseCases DEF LedgerInv, CommandInv, BaselineInv, Relying, OwnRecord,
      Restoring, Shared, Active, Untouched, Original, At
  <2>6. CASE BeginApply(q) \/ BeginRollback(q) \/ (Step(q) /\ ~(Commit(q) \/ Record(q) \/ Drop(q) \/ Release(q)))
    BY <2>1, <2>6 DEF BeginApply, BeginRollback, Step, ApplyStep, RollbackStep, LoadBaseline,
      LoadActive, Inspect, Create, Write, ReadBack, Persist, UndoRead, UndoWrite, UndoFile,
      RollbackBaseline, RestoreRead, RestoreWrite, RestoreCheck, RestoreFile, Archive
  <2>7. CASE Environment
    BY <2>1, <2>7 DEF Environment, Crash, Reboot, SetSysctl, EditFile
  <2> QED
    BY <1>1, <2>2, <2>3, <2>4, <2>5, <2>6, <2>7 DEF Next
<1> QED
  BY <1>1, SequentialLedger, PTL DEF Spec, ReleasedExactly, Releasing

\* Every step of the transaction is a step of the ledger or none.
LEMMA StepLedger ==
  ASSUME Sequential, LedgerInv, [Next]_vars
  PROVE  [Ledger!Next]_(Ledger!ledger)
<1> PICK q \in Proc : Proc = {q}
  BY DEF Sequential
<1> USE DEF LedgerInv, CommandInv, Ledger!Next, Ledger!ledger, disk, At
<1>1. ASSUME UNCHANGED <<active, tuned, sfile>> PROVE UNCHANGED Ledger!ledger
  BY <1>1
<1>2. CASE Record(q)
  <2>1. CASE UNCHANGED active
    BY <1>1, <1>2, <2>1, RecordCases
  <2>2. CASE active'.phase = "applying" /\ active'.keys = want[q]
    <3>1. /\ active.phase = "none" /\ want[q] # {} /\ want[q] \in SUBSET Key
          /\ UNCHANGED <<sfile, tuned>>
      BY <1>2, RecordCases DEF OwnRecord, Unclaimed, Locals
    <3>2. Ledger!Begin(want[q])
      BY <2>2, <3>1 DEF Ledger!Begin
    <3> QED
      BY <3>1, <3>2
  <2> QED
    BY <1>2, <2>1, <2>2, RecordCases
<1>3. CASE Write(q)
  <2>1. PICK k \in todo[q] : tuned' \in {tuned, tuned \ {k}, tuned \cup {k}}
    BY <1>3 DEF Write
  <2>2. k \in active.keys /\ k \in Key /\ active.phase = "applying" /\ UNCHANGED <<active, sfile>>
    BY <1>3 DEF Write, OwnRecord, Tuning, Locals
  <2>3. CASE tuned' = tuned \cup {k}
    BY <2>2, <2>3 DEF Ledger!Tune
  <2>4. CASE tuned' \in SUBSET tuned
    BY <2>2, <2>4 DEF Ledger!Yield
  <2> QED
    BY <2>1, <2>3, <2>4
<1>4. CASE Persist(q)
  <2>1. CASE UNCHANGED sfile
    BY <1>1, <1>4, <2>1, PersistCases
  <2>2. CASE sfile'.keys = want[q]
    BY <1>4, <2>2, PersistCases DEF Ledger!Persist, OwnRecord, Tuning
  <2> QED
    BY <1>4, <2>1, <2>2, PersistCases
<1>5. CASE Commit(q)
  <2>1. CASE UNCHANGED active
    BY <1>1, <1>5, <2>1, CommitCases
  <2>2. CASE active'.phase = "active" /\ active'.keys = want[q]
    BY <1>5, <2>2, CommitCases DEF Ledger!Commit, OwnRecord, Tuning
  <2> QED
    BY <1>5, <2>1, <2>2, CommitCases
<1>6. CASE Drop(q)
  <2>1. CASE UNCHANGED active
    BY <1>1, <1>6, <2>1, DropCases
  <2>2. CASE q \notin bad /\ active'.phase = "none" /\ active'.keys = {}
    <3>1. active.phase \notin {"none", "free"} /\ tuned = {} /\ sfile.keys = {}
      BY <1>6, <2>2, DropCases DEF OwnRecord, Undoing, Residue
    <3>2. UNCHANGED <<tuned, sfile>>
      BY <1>6, DropCases
    <3>3. Ledger!Release
      BY <2>2, <3>1, <3>2 DEF Ledger!Release
    <3> QED
      BY <3>3
  <2> QED
    BY <1>6, <2>1, <2>2, DropCases
<1>7. CASE Release(q)
  <2>1. CASE UNCHANGED active
    BY <1>1, <1>7, <2>1, ReleaseCases
  <2>2. CASE q \notin bad /\ active'.phase = "none" /\ active'.keys = {}
    <3>1. active.phase \notin {"none", "free"} /\ tuned = {} /\ sfile.keys = {}
      BY <1>7, <2>2, ReleaseCases DEF OwnRecord, Restoring, Residue, Shared, Active
    <3>2. UNCHANGED <<tuned, sfile>>
      BY <1>7, ReleaseCases
    <3>3. Ledger!Release
      BY <2>2, <3>1, <3>2 DEF Ledger!Release
    <3> QED
      BY <3>3
  <2> QED
    BY <1>7, <2>1, <2>2, ReleaseCases
<1>8. CASE UndoWrite(q) \/ RestoreWrite(q) \/ \E k \in Key : SetSysctl(k)
  <2>1. tuned' \in SUBSET tuned /\ UNCHANGED <<active, sfile>>
    BY <1>8 DEF UndoWrite, RestoreWrite, SetSysctl
  <2> QED
    BY <2>1 DEF Ledger!Yield
<1>9. CASE UndoFile(q) \/ RestoreFile(q) \/ EditFile
  <2>1. sfile'.keys \in {sfile.keys, {}} /\ UNCHANGED <<active, tuned>>
    BY <1>9 DEF UndoFile, RestoreFile, RemoveManaged, EditFile, NoFile, Foreign
  <2> QED
    BY <2>1 DEF Ledger!Yield
<1>10. CASE Reboot
  BY <1>10 DEF Reboot, Ledger!Boot
<1>11. CASE UNCHANGED vars
  BY <1>1, <1>11 DEF vars
<1>12. ASSUME BeginApply(q) \/ LoadBaseline(q) \/ LoadActive(q) \/ Inspect(q) \/ Create(q)
         \/ ReadBack(q) \/ UndoRead(q) \/ BeginRollback(q) \/ RollbackBaseline(q)
         \/ RestoreRead(q) \/ RestoreCheck(q) \/ Archive(q) \/ Crash(q)
       PROVE UNCHANGED Ledger!ledger
  BY <1>1, <1>12 DEF BeginApply, LoadBaseline, LoadActive, Inspect, Create, ReadBack, UndoRead,
    BeginRollback, RollbackBaseline, RestoreRead, RestoreCheck, Archive, Crash
<1> QED
  BY <1>2, <1>3, <1>4, <1>5, <1>6, <1>7, <1>8, <1>9, <1>10, <1>11, <1>12
  DEF Next, Step, ApplyStep, RollbackStep, Environment

\* The transaction implements the ledger: with one process at a time and a
\* faithful kernel, no step of it, failed, crashed or interrupted by a boot,
\* changes a value it has not claimed or gives up a claim with a value of its
\* own left in the kernel or in sysctl.d.
THEOREM SequentialImplementsLedger ==
  ASSUME Sequential, FaithfulKernel
  PROVE  Spec => ImplementsLedger
<1>1. Init => Ledger!Init
  BY DEF Init, Ledger!Init, NoActive, NoFile
<1>2. LedgerInv /\ [Next]_vars => [Ledger!Next]_(Ledger!ledger)
  BY StepLedger
<1> QED
  BY <1>1, <1>2, SequentialLedger, PTL DEF Spec, ImplementsLedger, Ledger!Spec
=============================================================================
