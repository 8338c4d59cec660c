---------------------------- MODULE AtomicFiles ----------------------------
(***************************************************************************)
(* secret.WriteFiles of internal/secret/atomic.go: a set of files written  *)
(* to one directory as a transaction, by generate, deliver and             *)
(* renew-certificate.  Each process of Proc makes one call, with its own   *)
(* content for every file of File; a call takes no lock.                   *)
(*                                                                         *)
(* A file's content is abstracted to who wrote it: "old" was there before  *)
(* every call.  Each system call that changes the directory is a step, and *)
(* so is each read a later step relies on; the reads of the opening check  *)
(* and of the verification are one step each.  Temporary names are random, *)
(* so that no two calls share one.  What the check refuses for other       *)
(* reasons (names, duplicates, links, the directory's mode) changes        *)
(* nothing and is left out.                                                *)
(***************************************************************************)
EXTENDS Integers

CONSTANTS
  File,     \* the names of the set
  Rank,     \* their position in the argument of WriteFiles
  Proc,     \* the calls
  Forced,    \* those made with force
  None,     \* no such file
  Overlap,  \* may two calls run at the same time?
  MaxFault  \* bound: failing system calls and killed processes

Content == Proc \cup {"old", None}

ASSUME FileAssumption ==
  /\ File # {}
  /\ Rank \in [File -> Nat]
  /\ \A f, g \in File : Rank[f] = Rank[g] => f = g

ASSUME CallAssumption ==
  /\ Forced \subseteq Proc
  /\ None \notin Proc /\ "old" \notin Proc /\ None # "old"
  /\ Overlap \in BOOLEAN
  /\ MaxFault \in Nat

VARIABLES
  target,  \* the content of every file
  backup,  \* the content of every file's ".backup"
  temp,    \* the temporary files of each call
  pc,      \* where each call is; "ready" before it, "done" after it
  todo,    \* the files its current loop has left
  fresh,   \* those with stagedFile.temp set
  moved,   \* those with stagedFile.hadTarget set
  put,     \* those with stagedFile.installed set
  bad,     \* the calls with rollbackErrors
  result,  \* what a call returned, "none" before that
  was,     \* history: the targets and backups when the call began
  fault    \* how much of MaxFault is used up

directory == <<target, backup, temp>>
local     == <<todo, fresh, moved, put, bad, was>>
vars      == <<directory, pc, local, result, fault>>

NoFiles == [f \in File |-> None]

Where == {"ready", "stage", "replace", "move", "install", "sync", "verify", "commit",
          "finish", "undo", "restore", "clean", "report", "abandon", "done"}
Results == {"none", "ok", "error", "incomplete", "refused", "killed"}

At(p, here) == pc[p] = here

IsFirst(f, S) == f \in S /\ \A g \in S : Rank[f] <= Rank[g]
IsLast(f, S)  == f \in S /\ \A g \in S : Rank[g] <= Rank[f]

Goto(p, to) == pc' = [pc EXCEPT ![p] = to]

\* On to a loop over files S.
Loop(p, to, S) == Goto(p, to) /\ todo' = [todo EXCEPT ![p] = S]

\* Done with file f of the loop: again with the next one, or out of the loop.
NextFile(p, f, again, out) ==
  /\ todo' = [todo EXCEPT ![p] = @ \ {f}]
  /\ Goto(p, IF todo[p] = {f} THEN out ELSE again)

Return(p, answer) ==
  /\ Goto(p, "done")
  /\ result' = [result EXCEPT ![p] = answer]

Fail == fault < MaxFault /\ fault' = fault + 1

-----------------------------------------------------------------------------
(* Check and stage.                                                        *)

\* Without force no target may be there; with it no backup may.
Occupied(p, f) == IF p \in Forced THEN backup[f] # None ELSE target[f] # None

Begin(p) ==
  /\ At(p, "ready")
  /\ Overlap \/ \A q \in Proc : pc[q] \in {"ready", "done"}
  /\ was' = [was EXCEPT ![p] = <<target, backup>>]
  /\ IF \E f \in File : Occupied(p, f)
       THEN Return(p, "refused") /\ UNCHANGED todo
       ELSE Loop(p, "stage", File) /\ UNCHANGED result
  /\ UNCHANGED <<directory, fresh, moved, put, bad, fault>>

\* writeTemp: created, written and synced, or removed again.
Stage(p) ==
  /\ At(p, "stage")
  /\ \/ \E f \in todo[p] :
          /\ IsFirst(f, todo[p])
          /\ temp' = [temp EXCEPT ![p] = @ \cup {f}]
          /\ fresh' = [fresh EXCEPT ![p] = @ \cup {f}]
          /\ IF todo[p] = {f} THEN Loop(p, "replace", File)
                              ELSE NextFile(p, f, "stage", "replace")
          /\ UNCHANGED fault
     \/ Goto(p, "abandon") /\ Fail /\ UNCHANGED <<temp, todo, fresh>>
  /\ UNCHANGED <<target, backup, moved, put, bad, result, was>>

-----------------------------------------------------------------------------
(* replaceTarget, for one file after the other.                            *)

\* rollbackWrite goes through all files from the last one.
Rollback(p) == Loop(p, "undo", File)

\* The reads: what appeared since the check is refused.
Replace(p) ==
  /\ At(p, "replace")
  /\ \E f \in todo[p] :
       /\ IsFirst(f, todo[p])
       /\ IF Occupied(p, f)
            THEN Rollback(p)
            ELSE /\ Goto(p, IF p \in Forced /\ target[f] # None THEN "move" ELSE "install")
                 /\ UNCHANGED todo
  /\ UNCHANGED <<directory, fresh, moved, put, bad, result, was, fault>>

\* Rename target to backup, over whatever is there now.
Move(p) ==
  /\ At(p, "move")
  /\ \E f \in todo[p] :
       /\ IsFirst(f, todo[p])
       /\ \/ /\ target[f] # None
             /\ backup' = [backup EXCEPT ![f] = target[f]]
             /\ target' = [target EXCEPT ![f] = None]
             /\ moved' = [moved EXCEPT ![p] = @ \cup {f}]
             /\ Goto(p, "install")
             /\ UNCHANGED <<todo, fault>>
          \/ /\ IF target[f] = None THEN UNCHANGED fault ELSE Fail
             /\ Rollback(p)
             /\ UNCHANGED <<target, backup, moved>>
  /\ UNCHANGED <<temp, fresh, put, bad, result, was>>

\* Variant: the backup goes as soon as its file is replaced.
InstallDropsBackup(p) ==
  /\ At(p, "install")
  /\ \E f \in todo[p] :
       /\ IsFirst(f, todo[p])
       /\ target' = [target EXCEPT ![f] = p]
       /\ backup' = [backup EXCEPT ![f] = None]
       /\ temp' = [temp EXCEPT ![p] = @ \ {f}]
       /\ fresh' = [fresh EXCEPT ![p] = @ \ {f}]
       /\ put' = [put EXCEPT ![p] = @ \cup {f}]
       /\ NextFile(p, f, "replace", "sync")
  /\ UNCHANGED <<moved, bad, result, was, fault>>

\* Variant: nothing remembers which files were installed.
InstallForgotten(p) ==
  /\ At(p, "install")
  /\ \E f \in todo[p] :
       /\ IsFirst(f, todo[p])
       /\ target' = [target EXCEPT ![f] = p]
       /\ temp' = [temp EXCEPT ![p] = @ \ {f}]
       /\ NextFile(p, f, "replace", "sync")
  /\ UNCHANGED <<backup, fresh, moved, put, bad, result, was, fault>>

\* Rename the temporary file to target, over whatever is there now.
Install(p) ==
  /\ At(p, "install")
  /\ \E f \in todo[p] :
       /\ IsFirst(f, todo[p])
       /\ \/ /\ target' = [target EXCEPT ![f] = p]
             /\ temp' = [temp EXCEPT ![p] = @ \ {f}]
             /\ fresh' = [fresh EXCEPT ![p] = @ \ {f}]
             /\ put' = [put EXCEPT ![p] = @ \cup {f}]
             /\ NextFile(p, f, "replace", "sync")
             /\ UNCHANGED fault
          \/ Rollback(p) /\ Fail /\ UNCHANGED <<target, temp, fresh, put>>
  /\ UNCHANGED <<backup, moved, bad, result, was>>

-----------------------------------------------------------------------------
(* Sync, verify, and remove the backups.                                   *)

Sync(p) ==
  /\ At(p, "sync")
  /\ \/ Goto(p, "verify") /\ UNCHANGED <<todo, fault>>
     \/ Rollback(p) /\ Fail
  /\ UNCHANGED <<directory, fresh, moved, put, bad, result, was>>

\* Every target is read back and compared.
Verify(p) ==
  /\ At(p, "verify")
  /\ \/ /\ \A f \in File : target[f] = p
        /\ IF moved[p] = {} THEN Goto(p, "finish") /\ UNCHANGED todo
                            ELSE Loop(p, "commit", moved[p])
        /\ UNCHANGED fault
     \/ /\ IF \A f \in File : target[f] = p THEN Fail ELSE UNCHANGED fault
        /\ Rollback(p)
  /\ UNCHANGED <<directory, fresh, moved, put, bad, result, was>>

\* A backup that cannot be removed ends the call: there is no way back now.
Commit(p) ==
  /\ At(p, "commit")
  /\ \E f \in todo[p] :
       /\ IsFirst(f, todo[p])
       /\ \/ /\ backup[f] # None
             /\ backup' = [backup EXCEPT ![f] = None]
             /\ NextFile(p, f, "commit", "finish")
             /\ UNCHANGED <<result, fault>>
          \/ /\ IF backup[f] = None THEN UNCHANGED fault ELSE Fail
             /\ Return(p, "error")
             /\ UNCHANGED <<backup, todo>>
  /\ UNCHANGED <<target, temp, fresh, moved, put, bad, was>>

\* The last sync of the directory.
Finish(p) ==
  /\ At(p, "finish")
  /\ \/ Return(p, "ok") /\ UNCHANGED fault
     \/ Return(p, "error") /\ Fail
  /\ UNCHANGED <<directory, local>>

-----------------------------------------------------------------------------
(* rollbackWrite and cleanupTemps.                                         *)

\* Variant: only files whose new content was installed are restored.
UndoInstalledOnly(p) ==
  /\ At(p, "undo")
  /\ \E f \in todo[p] :
       /\ IsLast(f, todo[p])
       /\ IF f \in put[p]
            THEN /\ target' = [target EXCEPT ![f] = None]
                 /\ put' = [put EXCEPT ![p] = @ \ {f}]
                 /\ IF f \in moved[p] THEN Goto(p, "restore") /\ UNCHANGED todo
                                      ELSE NextFile(p, f, "undo", "clean")
            ELSE UNCHANGED <<target, put>> /\ NextFile(p, f, "undo", "clean")
  /\ UNCHANGED <<backup, temp, fresh, moved, bad, result, was, fault>>

\* Remove the new content, whoever's it is by now; a file that cannot be
\* removed is not restored either.
Undo(p) ==
  /\ At(p, "undo")
  /\ \E f \in todo[p] :
       /\ IsLast(f, todo[p])
       /\ \/ /\ target' = IF f \in put[p] THEN [target EXCEPT ![f] = None] ELSE target
             /\ put' = [put EXCEPT ![p] = @ \ {f}]
             /\ IF f \in moved[p] THEN Goto(p, "restore") /\ UNCHANGED todo
                                  ELSE NextFile(p, f, "undo", "clean")
             /\ UNCHANGED <<bad, fault>>
          \/ /\ f \in put[p] /\ target[f] # None
             /\ bad' = bad \cup {p}
             /\ NextFile(p, f, "undo", "clean")
             /\ Fail
             /\ UNCHANGED <<target, put>>
  /\ UNCHANGED <<backup, temp, fresh, moved, result, was>>

\* Rename backup to target.
Restore(p) ==
  /\ At(p, "restore")
  /\ \E f \in todo[p] :
       /\ IsLast(f, todo[p])
       /\ NextFile(p, f, "undo", "clean")
       /\ \/ /\ backup[f] # None
             /\ target' = [target EXCEPT ![f] = backup[f]]
             /\ backup' = [backup EXCEPT ![f] = None]
             /\ moved' = [moved EXCEPT ![p] = @ \ {f}]
             /\ UNCHANGED <<bad, fault>>
          \/ /\ IF backup[f] = None THEN UNCHANGED fault ELSE Fail
             /\ bad' = bad \cup {p}
             /\ UNCHANGED <<target, backup, moved>>
  /\ UNCHANGED <<temp, fresh, put, result, was>>

\* The temporary files are removed, errors ignored.
Clean(p) ==
  /\ pc[p] \in {"clean", "abandon"}
  /\ \/ temp' = [temp EXCEPT ![p] = @ \ fresh[p]] /\ UNCHANGED fault
     \/ fresh[p] # {} /\ UNCHANGED temp /\ Fail
  /\ IF At(p, "clean") THEN Goto(p, "report") /\ UNCHANGED result ELSE Return(p, "error")
  /\ UNCHANGED <<target, backup, local>>

\* The rollback's sync, and its answer: the cause, and what else failed.
Report(p) ==
  /\ At(p, "report")
  /\ \/ Return(p, IF p \in bad THEN "incomplete" ELSE "error") /\ UNCHANGED fault
     \/ Return(p, "incomplete") /\ Fail
  /\ UNCHANGED <<directory, local>>

\* The process is killed.
Crash(p) ==
  /\ pc[p] \notin {"ready", "done"}
  /\ Return(p, "killed")
  /\ Fail
  /\ UNCHANGED <<directory, local>>

-----------------------------------------------------------------------------
Init ==
  /\ target \in [File -> {"old", None}]
  /\ backup = NoFiles
  /\ temp = [p \in Proc |-> {}]
  /\ pc = [p \in Proc |-> "ready"]
  /\ todo = [p \in Proc |-> {}]
  /\ fresh = [p \in Proc |-> {}]
  /\ moved = [p \in Proc |-> {}]
  /\ put = [p \in Proc |-> {}]
  /\ bad = {}
  /\ result = [p \in Proc |-> "none"]
  /\ was = [p \in Proc |-> <<NoFiles, NoFiles>>]
  /\ fault = 0

Step(p) ==
  \/ Begin(p) \/ Stage(p) \/ Replace(p) \/ Move(p) \/ Install(p) \/ Sync(p)
  \/ Verify(p) \/ Commit(p) \/ Finish(p) \/ Undo(p) \/ Restore(p) \/ Clean(p)
  \/ Report(p)

Next == \E p \in Proc : Step(p) \/ Crash(p)

Spec == Init /\ [][Next]_vars

-----------------------------------------------------------------------------
(* Properties.                                                             *)

Complete(p) == \A f \in File : target[f] = p

\* Every variable stays in its type, and what a call remembers of its files
\* (stagedFile's temp, hadTarget and installed) agrees with the stages it has passed.
TypeOK ==
  /\ target \in [File -> Content]
  /\ backup \in [File -> Content]
  /\ temp \in [Proc -> SUBSET File]
  /\ pc \in [Proc -> Where]
  /\ todo \in [Proc -> SUBSET File]
  /\ fresh \in [Proc -> SUBSET File]
  /\ moved \in [Proc -> SUBSET File]
  /\ put \in [Proc -> SUBSET File]
  /\ bad \in SUBSET Proc
  /\ result \in [Proc -> Results]
  /\ was \in [Proc -> [File -> Content] \X [File -> Content]]
  /\ fault \in 0..MaxFault
  /\ \A p \in Proc : /\ fresh[p] \subseteq temp[p] \/ pc[p] \in {"report", "done"}
                     /\ fresh[p] \cap put[p] = {}
                     /\ pc[p] \in {"sync", "verify", "commit", "finish"} => put[p] = File

\* What a file holds, or held before a call that is still running.
Versions(f) == {target[f], backup[f]} \ {None}

\* No content of any file disappears, whatever fails and whenever a call is
\* killed, but what a rollback takes back, or the content a complete and
\* verified new set replaces (README.md:58: old copies are removed only then).
NothingLost ==
  [][\A f \in File : \A v \in Versions(f) \ Versions(f)' :
       \/ v \in Proc /\ pc[v] = "undo"
       \/ \E p \in Proc : pc[p] = "commit" /\ Complete(p)]_vars

Ended(p) == result[p] = "none" /\ result'[p] # "none"

\* When a call answers, the directory has the complete new set, without
\* backups of its own, for success, and the complete old set or the complete new one for
\* an error that does not say "rollback incomplete".
AllOrNothing ==
  [][\A p \in Proc : Ended(p) =>
       /\ result'[p] = "ok" => Complete(p) /\ backup = was[p][2] /\ temp[p] = {}
       /\ result'[p] \in {"error", "refused"} =>
            \/ Complete(p)
            \/ IF result'[p] = "refused" THEN UNCHANGED directory
                ELSE <<target, backup>> = was[p]]_vars
=============================================================================
