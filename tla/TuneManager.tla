---------------------------- MODULE TuneManager ----------------------------
(***************************************************************************)
(* The tuning transaction of internal/tune/manager.go: Apply with its      *)
(* deferred recovery, and Rollback, run by the processes of Proc against   *)
(* the kernel's sysctls and three files:                                   *)
(*                                                                         *)
(*   baseline  baseline.json: the values found before the first write      *)
(*   active    active.json: the ownership record and its phase             *)
(*   sfile     sysctl.d/90-mini-singbox-tune.conf: reapplied at boot       *)
(*                                                                         *)
(* Every system call that changes something, and every read whose answer   *)
(* a later step relies on, is a step of its own, so that other processes,  *)
(* the administrator (SetSysctl, EditFile), a killed process   *)
(* (Crash) and a reboot (Reboot) come between any two of them.  Apply      *)
(* takes no lock and neither does Rollback: none is modelled.              *)
(*                                                                         *)
(* Detect's reads are one step, and so are the reads of the reuse check:   *)
(* they are consecutive reads of different files.  A command that returns  *)
(* before its first write (a dry run, a container, no root, an empty plan, *)
(* a rollback with nothing active) changes nothing and is a stuttering     *)
(* step.  A managed file's hash is abstracted to the set of keys it sets.  *)
(***************************************************************************)
EXTENDS Integers

CONSTANTS
  Key,            \* managedKeys
  Val,            \* the values a sysctl can have
  None,           \* what readSysctl returns for an unreadable key: ""
  Rank,           \* the position of a key in managedKeys and in sortedKeys
  Target,         \* the value BuildPlan proposes for a key
  Generic,        \* the current values BuildPlan is willing to replace
  BootStates,     \* the values a boot may leave, before sysctl.d is applied
  Proc,           \* the mini-singbox processes
  SilentRecovery, \* may the kernel ignore a recovery write without an error?
  MaxFault,       \* bound: failing system calls, ignored writes, crashes
  MaxEnv          \* bound: the administrator's changes

Value == Val \cup {None}

ASSUME KeyAssumption ==
  /\ None \notin Val
  /\ Rank \in [Key -> Nat]
  /\ \A j, k \in Key : Rank[j] = Rank[k] => j = k
  /\ Target \in [Key -> Val]
  /\ Generic \in [Key -> SUBSET Val]
  /\ \A k \in Key : Target[k] \notin Generic[k]

ASSUME EnvironmentAssumption ==
  /\ BootStates \subseteq [Key -> Value]
  /\ SilentRecovery \in BOOLEAN
  /\ MaxFault \in Nat
  /\ MaxEnv \in Nat

VARIABLES
  kernel,    \* the running value of every key
  baseline,  \* baseline.json
  active,    \* active.json
  sfile,     \* the managed sysctl file
  pc,        \* where each process is in its command; "idle": in none
  base,      \* its baselineState: the profile's sysctls until there is one
  want,      \* the keys of its activeState.Values
  todo,      \* the keys its current loop has left
  done,      \* the keys of its result.Changed
  bad,       \* the processes whose failures or drift are not empty
  tuned,     \* history: keys whose running value is the tool's own
  raced,     \* history: keys changed from outside since the command that
             \* runs last read them (or since it began, if it has not)
  fault, env \* how much of MaxFault and MaxEnv is used up

disk  == <<baseline, active, sfile>>
local == <<pc, base, want, todo, done, bad>>
vars  == <<kernel, disk, local, tuned, raced, fault, env>>

-----------------------------------------------------------------------------
(* The files, and how a command moves on.                                  *)

NoVals == [k \in Key |-> None]

\* baselineState: vals[k] is None when values has no entry for k.  "torn" is
\* a file readJSONFile cannot decode.
NoBaseline == [st |-> "none", vals |-> NoVals]
Torn       == [st |-> "torn", vals |-> NoVals]
Baseline   == [st : {"none", "torn", "ok"}, vals : [Key -> Value]]

\* activeState: values maps every key of keys to its Target.
NoActive == [phase |-> "none", keys |-> {}]
Active   == [phase : {"none", "applying", "active"}, keys : SUBSET Key]

\* "ours": the content managedSysctlContent gives for keys; "foreign": another.
NoFile  == [st |-> "none", keys |-> {}]
Foreign == [st |-> "foreign", keys |-> {}]
Ours(K) == [st |-> "ours", keys |-> K]
File    == [st : {"none", "ours", "foreign"}, keys : SUBSET Key]

Where == {"idle", "loadBaseline", "loadActive", "inspect", "create", "record",
          "write", "readback", "persist", "commit",
          "undo", "undoWrite", "undoFile", "drop",
          "rbLoad", "restore", "restoreWrite", "restoreCheck", "restoreFile",
          "release", "archive"}

At(p, here) == pc[p] = here

\* The next key of a loop over S, forwards and (recovery) backwards.
IsFirst(k, S) == k \in S /\ \A j \in S : Rank[k] <= Rank[j]
IsLast(k, S)  == k \in S /\ \A j \in S : Rank[j] <= Rank[k]

Goto(p, to) ==
  /\ pc' = [pc EXCEPT ![p] = to]
  /\ UNCHANGED <<base, want, todo, done, bad>>

\* A command starts with what it has read and the keys it works for.
Start(p, to, values, keys) ==
  /\ pc' = [pc EXCEPT ![p] = to]
  /\ base' = [base EXCEPT ![p] = values]
  /\ want' = [want EXCEPT ![p] = keys]
  /\ UNCHANGED <<todo, done, bad>>

\* It enters a loop over keys.
Loop(p, to, keys) ==
  /\ pc' = [pc EXCEPT ![p] = to]
  /\ todo' = [todo EXCEPT ![p] = keys]
  /\ UNCHANGED <<base, want, done, bad>>

\* It is done with key k of its loop; ok tells whether that left a failure.
NextKey(p, to, k, ok) ==
  /\ pc' = [pc EXCEPT ![p] = to]
  /\ todo' = [todo EXCEPT ![p] = @ \ {k}]
  /\ bad' = IF ok THEN bad ELSE bad \cup {p}
  /\ UNCHANGED <<base, want, done>>

\* It returns, or is killed: its locals are gone.
Return(p) ==
  /\ pc' = [pc EXCEPT ![p] = "idle"]
  /\ base' = [base EXCEPT ![p] = NoBaseline]
  /\ want' = [want EXCEPT ![p] = {}]
  /\ todo' = [todo EXCEPT ![p] = {}]
  /\ done' = [done EXCEPT ![p] = {}]
  /\ bad' = bad \ {p}

\* A step that fails when `failing` uses up one fault.
Fault(failing) ==
  IF failing THEN fault < MaxFault /\ fault' = fault + 1 ELSE UNCHANGED fault

\* writeSysctl(k, v).  "ignored" is a write that returns no error and leaves
\* the value as it was, and so is the write of an empty string.
SysctlWrite(k, v, fate) ==
  /\ kernel' = IF fate = "ok" /\ v # None THEN [kernel EXCEPT ![k] = v] ELSE kernel
  /\ Fault(fate # "ok")

-----------------------------------------------------------------------------
(* Apply.                                                                  *)

\* Detect, BuildPlan and requested.  Which keys can be set (fq and bbr
\* available, the sysctl writable) may differ from one command to the next.
BeginApply(p) ==
  /\ At(p, "idle")
  /\ \E able \in SUBSET Key :
       LET keys == {k \in able : kernel[k] \in Generic[k]} IN
       /\ keys # {}
       /\ Start(p, "loadBaseline", [st |-> "none", vals |-> kernel], keys)
  /\ raced' = {}
  /\ UNCHANGED <<kernel, disk, tuned, fault, env>>

LoadBaseline(p) ==
  /\ At(p, "loadBaseline")
  /\ CASE baseline.st = "torn" -> Return(p)
       [] baseline.st = "none" -> Goto(p, "loadActive")
       [] baseline.st = "ok"   -> Start(p, "loadActive", baseline, want[p])
  /\ UNCHANGED <<kernel, disk, tuned, raced, fault, env>>

\* With an ownership record there is nothing to write: drift and a changed
\* plan are errors, anything else is success.
LoadActive(p) ==
  /\ At(p, "loadActive")
  /\ IF active.phase # "none"
       THEN Return(p)
       ELSE Goto(p, "inspect")
  /\ UNCHANGED <<kernel, disk, tuned, raced, fault, env>>

\* May a baseline be created, or the one an earlier attempt left be reused?
Usable(b) ==
  /\ sfile.st = "none"
  /\ b.st = "ok" => \A k \in Key : b.vals[k] # None => kernel[k] = b.vals[k]

Inspect(p) ==
  /\ At(p, "inspect")
  /\ IF Usable(base[p])
       THEN Goto(p, IF base[p].st = "ok" THEN "record" ELSE "create")
       ELSE Return(p)
  /\ UNCHANGED <<kernel, disk, tuned, raced, fault, env>>

\* Variant: the baseline holds only the keys this plan is going to set.
CreateRequestedOnly(p) ==
  /\ At(p, "create")
  /\ baseline.st = "none"
  /\ baseline' = [st |-> "ok", vals |-> [k \in Key |->
                    IF k \in want[p] THEN base[p].vals[k] ELSE None]]
  /\ Start(p, "record", baseline', want[p])
  /\ UNCHANGED <<kernel, active, sfile, tuned, raced, fault, env>>

\* Variant: the values of a file that was not written completely are kept.
CreateKeepsTornValues(p) ==
  /\ At(p, "create")
  /\ baseline.st = "none"
  /\ \/ baseline' = [st |-> "torn", vals |-> base[p].vals] /\ Return(p) /\ Fault(TRUE)
     \/ /\ baseline' = [st |-> "ok", vals |-> base[p].vals]
        /\ Start(p, "record", baseline', want[p])
        /\ UNCHANGED fault
  /\ UNCHANGED <<kernel, active, sfile, tuned, raced, env>>

\* writeJSONNew: exclusive creation, then the content.  A failure, or a
\* process killed before Write and Sync are done, leaves a torn file behind.
Create(p) ==
  /\ At(p, "create")
  /\ \/ /\ baseline.st # "none"
        /\ Return(p)
        /\ UNCHANGED <<baseline, fault>>
     \/ /\ baseline.st = "none"
        /\ baseline' = [st |-> "ok", vals |-> base[p].vals]
        /\ Start(p, "record", baseline', want[p])
        /\ UNCHANGED fault
     \/ /\ baseline.st = "none"
        /\ baseline' = Torn
        /\ Return(p)
        /\ Fault(TRUE)
  /\ UNCHANGED <<kernel, active, sfile, tuned, raced, env>>

\* Variant: Apply goes on when the transaction could not be recorded.
RecordBestEffort(p) ==
  /\ At(p, "record")
  /\ \/ active' = [phase |-> "applying", keys |-> want[p]] /\ UNCHANGED fault
     \/ UNCHANGED active /\ Fault(TRUE)
  /\ Loop(p, "write", want[p])
  /\ UNCHANGED <<kernel, baseline, sfile, tuned, raced, env>>

\* The write-ahead record.  The recovery is deferred only after it.
Record(p) ==
  /\ At(p, "record")
  /\ \/ /\ active' = [phase |-> "applying", keys |-> want[p]]
        /\ Loop(p, "write", want[p])
        /\ UNCHANGED fault
     \/ /\ Return(p)
        /\ Fault(TRUE)
        /\ UNCHANGED active
  /\ UNCHANGED <<kernel, baseline, sfile, tuned, raced, env>>

\* What the deferred function starts from: the keys changed so far.
Recover(p) == Loop(p, "undo", done[p])

Write(p) ==
  /\ At(p, "write")
  /\ \E k \in todo[p], fate \in {"ok", "ignored", "failed"} :
       /\ IsFirst(k, todo[p])
       /\ SysctlWrite(k, Target[k], fate)
       /\ tuned' = IF fate # "ok" THEN tuned
                   ELSE IF base[p].vals[k] = Target[k] THEN tuned \ {k}
                   ELSE tuned \cup {k}
       /\ IF fate = "failed"
            THEN Recover(p)
            ELSE /\ pc' = [pc EXCEPT ![p] = "readback"]
                 /\ done' = [done EXCEPT ![p] = @ \cup {k}]
                 /\ UNCHANGED <<base, want, todo, bad>>
  /\ UNCHANGED <<disk, raced, env>>

\* Variant: the value is not compared with what was written.
ReadBackNothing(p) ==
  /\ At(p, "readback")
  /\ \E k \in todo[p] :
       /\ IsFirst(k, todo[p])
       /\ NextKey(p, IF todo[p] = {k} THEN "persist" ELSE "write", k, TRUE)
  /\ UNCHANGED <<kernel, disk, tuned, raced, fault, env>>

ReadBack(p) ==
  /\ At(p, "readback")
  /\ \E k \in todo[p] :
       /\ IsFirst(k, todo[p])
       /\ IF kernel[k] = Target[k]
            THEN NextKey(p, IF todo[p] = {k} THEN "persist" ELSE "write", k, TRUE)
            ELSE Recover(p)
       /\ raced' = raced \ {k}
  /\ UNCHANGED <<kernel, disk, tuned, fault, env>>

\* writeManagedFile: an atomic replacement of whatever regular file is there.
Persist(p) ==
  /\ At(p, "persist")
  /\ \/ /\ sfile' = Ours(want[p])
        /\ Goto(p, "commit")
        /\ UNCHANGED fault
     \/ /\ Recover(p)
        /\ Fault(TRUE)
        /\ UNCHANGED sfile
  /\ UNCHANGED <<kernel, baseline, active, tuned, raced, env>>

Commit(p) ==
  /\ At(p, "commit")
  /\ \/ /\ active' = [phase |-> "active", keys |-> want[p]]
        /\ Return(p)
        /\ UNCHANGED fault
     \/ /\ Recover(p)
        /\ Fault(TRUE)
        /\ UNCHANGED active
  /\ UNCHANGED <<kernel, baseline, sfile, tuned, raced, env>>

-----------------------------------------------------------------------------
(* recoverApply: from the last changed key back to the first.              *)

\* Variant: a value that is not the managed one is restored as well.
UndoReadAnyway(p) ==
  /\ At(p, "undo")
  /\ \/ \E k \in todo[p] :
          /\ IsLast(k, todo[p])
          /\ Goto(p, "undoWrite")
          /\ raced' = raced \ {k}
     \/ /\ todo[p] = {}
        /\ Goto(p, "undoFile")
        /\ UNCHANGED raced
  /\ UNCHANGED <<kernel, disk, tuned, fault, env>>

UndoRead(p) ==
  /\ At(p, "undo")
  /\ \/ \E k \in todo[p] :
          /\ IsLast(k, todo[p])
          /\ IF kernel[k] # Target[k]
               THEN NextKey(p, "undo", k, FALSE)
               ELSE Goto(p, "undoWrite")
          /\ raced' = raced \ {k}
     \/ /\ todo[p] = {}
        /\ Goto(p, "undoFile")
        /\ UNCHANGED raced
  /\ UNCHANGED <<kernel, disk, tuned, fault, env>>

\* No read-back here: a write without an error counts as restored.
UndoWrite(p) ==
  /\ At(p, "undoWrite")
  /\ \E k \in todo[p], fate \in {"ok", "ignored", "failed"} :
       LET original == base[p].vals[k] IN
       /\ IsLast(k, todo[p])
       /\ fate = "ignored" => SilentRecovery
       /\ SysctlWrite(k, original, fate)
       /\ tuned' = IF fate = "ok" /\ original # None THEN tuned \ {k} ELSE tuned
       /\ NextKey(p, "undo", k, fate # "failed")
  /\ UNCHANGED <<disk, raced, env>>

\* Variant: a file that is already gone counts as a failure.
RemoveManagedStrict(p, to) ==
  /\ pc' = [pc EXCEPT ![p] = to]
  /\ \/ sfile = Ours(want[p]) /\ sfile' = NoFile /\ UNCHANGED bad
     \/ sfile # Ours(want[p]) /\ UNCHANGED sfile /\ bad' = bad \cup {p}
  /\ UNCHANGED <<base, want, todo, done, fault>>

\* The managed file goes only if its content is the transaction's; a file that
\* stays, because it is another's or cannot be removed, is a failure.
RemoveManaged(p, to) ==
  /\ pc' = [pc EXCEPT ![p] = to]
  /\ \/ /\ sfile = Ours(want[p])
        /\ sfile' = NoFile
        /\ UNCHANGED <<bad, fault>>
     \/ /\ bad' = IF sfile = NoFile THEN bad ELSE bad \cup {p}
        /\ Fault(sfile = Ours(want[p]))
        /\ UNCHANGED sfile
  /\ UNCHANGED <<base, want, todo, done>>

UndoFile(p) ==
  /\ At(p, "undoFile")
  /\ RemoveManaged(p, "drop")
  /\ UNCHANGED <<kernel, baseline, active, tuned, raced, env>>

\* Variant: the recovery clears the baseline away too.
DropBaseline(p) ==
  /\ At(p, "drop")
  /\ Return(p)
  /\ baseline' = NoBaseline
  /\ \/ active' = NoActive /\ UNCHANGED fault
     \/ UNCHANGED active /\ Fault(TRUE)
  /\ UNCHANGED <<kernel, sfile, tuned, raced, env>>

\* os.Remove(active.json), its error ignored.  The baseline stays.
Drop(p) ==
  /\ At(p, "drop")
  /\ Return(p)
  /\ \/ p \in bad /\ UNCHANGED <<active, fault>>
     \/ p \notin bad /\ active' = NoActive /\ UNCHANGED fault
     \/ p \notin bad /\ UNCHANGED active /\ Fault(TRUE)
  /\ UNCHANGED <<kernel, baseline, sfile, tuned, raced, env>>

-----------------------------------------------------------------------------
(* Rollback.                                                               *)

BeginRollback(p) ==
  /\ At(p, "idle")
  /\ active.phase # "none"
  /\ Start(p, "rbLoad", NoBaseline, active.keys)
  /\ raced' = {}
  /\ UNCHANGED <<kernel, disk, tuned, fault, env>>

RollbackBaseline(p) ==
  /\ At(p, "rbLoad")
  /\ IF baseline.st = "ok"
       THEN /\ pc' = [pc EXCEPT ![p] = "restore"]
            /\ base' = [base EXCEPT ![p] = baseline]
            /\ todo' = [todo EXCEPT ![p] = want[p]]
            /\ UNCHANGED <<want, done, bad>>
       ELSE Return(p)
  /\ UNCHANGED <<kernel, disk, tuned, raced, fault, env>>

\* A key that already has its original value is done; one that has neither
\* that nor the managed value is drift and stays as it is.
RestoreRead(p) ==
  /\ At(p, "restore")
  /\ \/ \E k \in todo[p] :
          LET original == base[p].vals[k] IN
          /\ IsFirst(k, todo[p])
          /\ IF original # None /\ kernel[k] = Target[k] /\ kernel[k] # original
               THEN Goto(p, "restoreWrite")
               ELSE NextKey(p, "restore", k, original # None /\ kernel[k] = original)
          /\ raced' = raced \ {k}
     \/ /\ todo[p] = {}
        /\ Goto(p, "restoreFile")
        /\ UNCHANGED raced
  /\ UNCHANGED <<kernel, disk, tuned, fault, env>>

RestoreWrite(p) ==
  /\ At(p, "restoreWrite")
  /\ \E k \in todo[p], fate \in {"ok", "ignored", "failed"} :
       /\ IsFirst(k, todo[p])
       /\ SysctlWrite(k, base[p].vals[k], fate)
       /\ tuned' = IF fate = "ok" THEN tuned \ {k} ELSE tuned
       /\ IF fate = "failed"
            THEN NextKey(p, "restore", k, FALSE)
            ELSE Goto(p, "restoreCheck")
  /\ UNCHANGED <<disk, raced, env>>

RestoreCheck(p) ==
  /\ At(p, "restoreCheck")
  /\ \E k \in todo[p] :
       /\ IsFirst(k, todo[p])
       /\ NextKey(p, "restore", k, kernel[k] = base[p].vals[k])
       /\ raced' = raced \ {k}
  /\ UNCHANGED <<kernel, disk, tuned, fault, env>>

RestoreFile(p) ==
  /\ At(p, "restoreFile")
  /\ RemoveManaged(p, "release")
  /\ UNCHANGED <<kernel, baseline, active, tuned, raced, env>>

\* Variant: the baseline is archived before the record is removed.
ReleaseArchivesFirst(p) ==
  /\ At(p, "release")
  /\ \/ p \in bad /\ Return(p) /\ UNCHANGED baseline
     \/ p \notin bad /\ baseline' = NoBaseline /\ Goto(p, "archive")
  /\ UNCHANGED <<kernel, active, sfile, tuned, raced, fault, env>>

\* Variant: the record is given up in spite of drift.
ReleaseInSpiteOfDrift(p) ==
  /\ At(p, "release")
  /\ active' = NoActive
  /\ Goto(p, "archive")
  /\ UNCHANGED <<kernel, baseline, sfile, tuned, raced, fault, env>>

\* Only a rollback without drift gives the record up.
Release(p) ==
  /\ At(p, "release")
  /\ \/ p \in bad /\ Return(p) /\ UNCHANGED <<active, fault>>
     \/ /\ p \notin bad
        /\ active' = NoActive
        /\ Goto(p, "archive")
        /\ UNCHANGED fault
     \/ p \notin bad /\ Return(p) /\ UNCHANGED active /\ Fault(TRUE)
  /\ UNCHANGED <<kernel, baseline, sfile, tuned, raced, env>>

\* Rename to baseline-<nanoseconds>.json, which nothing reads again.
Archive(p) ==
  /\ At(p, "archive")
  /\ Return(p)
  /\ \/ baseline' = NoBaseline /\ UNCHANGED fault
     \/ UNCHANGED baseline /\ Fault(TRUE)
  /\ UNCHANGED <<kernel, active, sfile, tuned, raced, env>>

-----------------------------------------------------------------------------
(* The environment.                                                        *)

\* A command is killed, by a signal or for want of memory.
Crash(p) ==
  /\ ~At(p, "idle")
  /\ Return(p)
  /\ Fault(TRUE)
  /\ UNCHANGED <<kernel, disk, tuned, raced, env>>

\* The machine restarts: commands are gone, the kernel has its boot values
\* and systemd or OpenRC applies the managed file to the keys that exist.
Reboot ==
  /\ \E boot \in BootStates :
       kernel' = [k \in Key |-> IF k \in sfile.keys /\ boot[k] # None
                                THEN Target[k] ELSE boot[k]]
  /\ pc' = [p \in Proc |-> "idle"]
  /\ base' = [p \in Proc |-> NoBaseline]
  /\ want' = [p \in Proc |-> {}]
  /\ todo' = [p \in Proc |-> {}]
  /\ done' = [p \in Proc |-> {}]
  /\ bad' = {}
  /\ tuned' = {k \in sfile.keys : kernel'[k] = Target[k] /\ baseline.vals[k] # Target[k]}
  /\ raced' = {}
  /\ Fault(TRUE)
  /\ UNCHANGED <<disk, env>>

SetSysctl(k) ==
  /\ env < MaxEnv /\ env' = env + 1
  /\ kernel[k] # None
  /\ \E v \in Val \ {kernel[k]} : kernel' = [kernel EXCEPT ![k] = v]
  /\ tuned' = tuned \ {k}
  /\ raced' = raced \cup {k}
  /\ UNCHANGED <<disk, local, fault>>

\* The administrator edits, creates or deletes the file in sysctl.d.
EditFile ==
  /\ env < MaxEnv /\ env' = env + 1
  /\ sfile' \in {NoFile, Foreign} \ {sfile}
  /\ UNCHANGED <<kernel, baseline, active, local, tuned, raced, fault>>

-----------------------------------------------------------------------------
Init ==
  /\ kernel \in BootStates
  /\ baseline = NoBaseline
  /\ active = NoActive
  /\ sfile = NoFile
  /\ pc = [p \in Proc |-> "idle"]
  /\ base = [p \in Proc |-> NoBaseline]
  /\ want = [p \in Proc |-> {}]
  /\ todo = [p \in Proc |-> {}]
  /\ done = [p \in Proc |-> {}]
  /\ bad = {}
  /\ tuned = {}
  /\ raced = {}
  /\ fault = 0
  /\ env = 0

ApplyStep(p) ==
  \/ LoadBaseline(p) \/ LoadActive(p) \/ Inspect(p) \/ Create(p) \/ Record(p)
  \/ Write(p) \/ ReadBack(p) \/ Persist(p) \/ Commit(p)
  \/ UndoRead(p) \/ UndoWrite(p) \/ UndoFile(p) \/ Drop(p)

RollbackStep(p) ==
  \/ RollbackBaseline(p) \/ RestoreRead(p) \/ RestoreWrite(p) \/ RestoreCheck(p)
  \/ RestoreFile(p) \/ Release(p) \/ Archive(p)

Step(p) == ApplyStep(p) \/ RollbackStep(p)

Environment ==
  \/ \E p \in Proc : Crash(p)
  \/ Reboot
  \/ \E k \in Key : SetSysctl(k)
  \/ EditFile

Next ==
  \/ \E p \in Proc : BeginApply(p) \/ BeginRollback(p) \/ Step(p)
  \/ Environment

Spec == Init /\ [][Next]_vars

\* A command that runs takes its next step; an operator who wants the tuning
\* gone runs the rollback again and again.
Fairness ==
  /\ \A p \in Proc : WF_vars(Step(p))
  /\ \A p \in Proc : SF_vars(BeginRollback(p))

FairSpec == Spec /\ Fairness

-----------------------------------------------------------------------------
(* Properties.                                                             *)

\* Every variable stays in its type, and a file or a record that does not
\* exist or cannot be read carries no values (manager.go's state files).
TypeOK ==
  /\ kernel \in [Key -> Value]
  /\ baseline \in Baseline
  /\ baseline.st # "ok" => baseline.vals = NoVals
  /\ active \in Active
  /\ active.phase = "none" <=> active.keys = {}
  /\ sfile \in File
  /\ sfile.st = "ours" <=> sfile.keys # {}
  /\ pc \in [Proc -> Where]
  /\ base \in [Proc -> Baseline]
  /\ want \in [Proc -> SUBSET Key]
  /\ todo \in [Proc -> SUBSET Key]
  /\ done \in [Proc -> SUBSET Key]
  /\ bad \in SUBSET Proc
  /\ tuned \in SUBSET Key
  /\ raced \in SUBSET Key
  /\ fault \in 0..MaxFault
  /\ env \in 0..MaxEnv

\* Whatever fails, crashes or reboots, an ownership record is never left
\* without a readable baseline: Rollback could then only report "immutable
\* baseline is missing".  Create comes before Record, and Release before Archive.
ActiveHasBaseline == active.phase # "none" => baseline.st = "ok"

\* The baseline has the original value of every key the record claims, so that
\* no rollback ends with "baseline value missing".
BaselineCoversActive == \A k \in active.keys : baseline.vals[k] # None

\* A baseline, once readable, is never rewritten: it goes only as a whole, to
\* the archive, and only when nothing is claimed any more.
BaselineImmutable ==
  [][baseline.st = "ok" =>
       \/ baseline' = baseline
       \/ baseline' = NoBaseline /\ active.phase = "none"]_vars

\* The record is committed as "active" only when each of its keys really has
\* its managed value, or was changed from outside after it had been read back
\* with that value (manager.go:148; nothing reads it again before line 157).
CommitVerified ==
  [][active.phase = "applying" /\ active'.phase = "active" =>
       \A k \in active'.keys : kernel[k] = Target[k] \/ k \in raced]_vars

\* When a recovery or a rollback gives the record up, each claimed key has
\* exactly its original value, unless it was changed from outside after the
\* command last read it (lines 232, 243, 270), or before an Apply had written it.
ReleasedExactly ==
  [][active.phase # "none" /\ active'.phase = "none" =>
       \A k \in active.keys : kernel[k] = baseline.vals[k] \/ k \in raced]_vars

\* A recovery or a rollback overwrites no value but the managed one, unless
\* the value came from outside between its read of the key (lines 232, 270) and
\* its write (lines 239, 274): no value it could have seen is lost.
ExternalPreserved ==
  [][\A p \in Proc, k \in Key :
       /\ <<pc[p], pc'[p]>> \in {<<"undoWrite", "undo">>, <<"restoreWrite", "restoreCheck">>}
       /\ kernel'[k] # kernel[k]
       /\ k \notin raced
       => kernel[k] = Target[k]]_vars

\* The abstract ledger: values are claimed before they are written, and a
\* claim is given up only when neither the kernel nor sysctl.d holds any of them.
Ledger == INSTANCE TuneLedger WITH
  mode <- IF active.phase = "none" THEN "free" ELSE active.phase,
  owned <- active.keys,
  residue <- tuned,
  persisted <- sfile.keys

ImplementsLedger == Ledger!Spec

\* What a rollback may not touch: keys with a third value, keys without an
\* original, and a file that is not the record's.
Drifted ==
  \/ \E k \in active.keys : \/ baseline.vals[k] = None
                            \/ kernel[k] \notin {Target[k], baseline.vals[k]}
  \/ sfile \notin {NoFile, Ours(active.keys)}

\* An operator who keeps trying gets rid of the tuning once faults and
\* interference end, unless something changed from outside stands in the way.
EventuallyReleased == []<>(active.phase = "none" \/ Drifted)
=============================================================================
