------------------------- MODULE AtomicFilesProofs -------------------------
(***************************************************************************)
(* Proofs about AtomicFiles: its types, for calls that overlap as well as  *)
(* for calls that do not, and, for calls that do not, its two action       *)
(* properties: no content is lost, and every answer of a call is the truth *)
(* about the directory.                                                    *)
(*                                                                         *)
(* StageInv is what each call remembers of its files at each stage;        *)
(* SoloInv says that one call runs, and, in Tracks, how the directory      *)
(* follows from what that call found in it and from what it remembers, the *)
(* correspondence rollbackWrite relies on.  Two calls at once break it:    *)
(* nothing locks the directory between the check and the renames.          *)
(***************************************************************************)
EXTENDS AtomicFiles, TLAPS

-----------------------------------------------------------------------------
(* The types, and what a call remembers.                                   *)

Typed ==
  /\ target \in [File -> Content] /\ backup \in [File -> Content]
  /\ temp \in [Proc -> SUBSET File]
  /\ pc \in [Proc -> Where]
  /\ todo \in [Proc -> SUBSET File] /\ fresh \in [Proc -> SUBSET File]
  /\ moved \in [Proc -> SUBSET File] /\ put \in [Proc -> SUBSET File]
  /\ bad \in SUBSET Proc
  /\ result \in [Proc -> Results]
  /\ was \in [Proc -> [File -> Content] \X [File -> Content]]
  /\ fault \in 0..MaxFault

Staged(p) ==
  /\ result[p] = "none" <=> pc[p] # "done"
  /\ pc[p] \notin {"report", "done"} => temp[p] = fresh[p]
  /\ fresh[p] \cap put[p] = {}
  /\ pc[p] \in {"ready", "stage", "abandon"} => put[p] = {} /\ moved[p] = {}
  /\ pc[p] \in {"replace", "move", "install"} => File \ todo[p] \subseteq put[p]
  /\ pc[p] \in {"sync", "verify", "commit", "finish"} => put[p] = File

\* A call has variables of its own.
Others(p) ==
  \A q \in Proc \ {p} :
    /\ pc'[q] = pc[q] /\ todo'[q] = todo[q] /\ fresh'[q] = fresh[q] /\ moved'[q] = moved[q] /\ put'[q] = put[q]
    /\ temp'[q] = temp[q] /\ result'[q] = result[q] /\ was'[q] = was[q]

LEMMA Constants ==
  /\ None \in Content /\ \A p \in Proc : p \in Content /\ p # None
  /\ NoFiles \in [File -> Content]
  /\ MaxFault \in Nat
BY CallAssumption DEF Content, NoFiles

LEMMA FailTyped ==
  ASSUME Typed, Fail \/ UNCHANGED fault
  PROVE  fault' \in 0..MaxFault
BY CallAssumption DEF Typed, Fail

LEMMA FaultKept ==
  ASSUME NEW p \in Proc, Step(p) \/ Crash(p)
  PROVE  Fail \/ UNCHANGED fault
BY Zenon DEF Step, Begin, Stage, Replace, Move, Install, Sync, Verify, Commit, Finish, Undo, Restore, Clean,
   Report, Crash

\* The shape of every action: the call's own variables get new values.
Updates(p) ==
  /\ target' \in [File -> Content] /\ backup' \in [File -> Content]
  /\ temp' = temp \/ \E x \in SUBSET File : temp' = [temp EXCEPT ![p] = x]
  /\ pc' = pc \/ \E x \in Where : pc' = [pc EXCEPT ![p] = x]
  /\ todo' = todo \/ \E x \in SUBSET File : todo' = [todo EXCEPT ![p] = x]
  /\ fresh' = fresh \/ \E x \in SUBSET File : fresh' = [fresh EXCEPT ![p] = x]
  /\ moved' = moved \/ \E x \in SUBSET File : moved' = [moved EXCEPT ![p] = x]
  /\ put' = put \/ \E x \in SUBSET File : put' = [put EXCEPT ![p] = x]
  /\ result' = result \/ \E x \in Results : result' = [result EXCEPT ![p] = x]
  /\ bad' = bad \/ bad' = bad \cup {p}
  /\ was' = was \/ was' = [was EXCEPT ![p] = <<target, backup>>]

LEMMA Rewritten ==
  ASSUME NEW d \in [File -> Content], NEW f \in File, NEW c \in Content
  PROVE  [d EXCEPT ![f] = c] \in [File -> Content]
OBVIOUS

LEMMA Updated ==
  ASSUME NEW P, NEW S, NEW v \in [P -> S], NEW p \in P, NEW w, w = v \/ \E x \in S : w = [v EXCEPT ![p] = x]
  PROVE  w \in [P -> S] /\ \A q \in P \ {p} : w[q] = v[q]
OBVIOUS

LEMMA UpdatesTyped ==
  ASSUME Typed, NEW p \in Proc, Updates(p), fault' \in 0..MaxFault
  PROVE  Typed' /\ Others(p)
<1>1. temp' \in [Proc -> SUBSET File] /\ \A q \in Proc \ {p} : temp'[q] = temp[q]
  <2>1. temp \in [Proc -> SUBSET File] /\ (temp' = temp \/ \E x \in SUBSET File : temp' = [temp EXCEPT ![p] = x])
    BY Zenon DEF Typed, Updates
  <2> QED
    BY <2>1, Updated
<1>2. pc' \in [Proc -> Where] /\ \A q \in Proc \ {p} : pc'[q] = pc[q]
  <2>1. pc \in [Proc -> Where] /\ (pc' = pc \/ \E x \in Where : pc' = [pc EXCEPT ![p] = x])
    BY Zenon DEF Typed, Updates
  <2> QED
    BY <2>1, Updated
<1>3. todo' \in [Proc -> SUBSET File] /\ \A q \in Proc \ {p} : todo'[q] = todo[q]
  <2>1. todo \in [Proc -> SUBSET File] /\ (todo' = todo \/ \E x \in SUBSET File : todo' = [todo EXCEPT ![p] = x])
    BY Zenon DEF Typed, Updates
  <2> QED
    BY <2>1, Updated
<1>4. fresh' \in [Proc -> SUBSET File] /\ \A q \in Proc \ {p} : fresh'[q] = fresh[q]
  <2>1. fresh \in [Proc -> SUBSET File] /\ (fresh' = fresh \/ \E x \in SUBSET File : fresh' = [fresh EXCEPT ![p] = x])
    BY Zenon DEF Typed, Updates
  <2> QED
    BY <2>1, Updated
<1>5. moved' \in [Proc -> SUBSET File] /\ \A q \in Proc \ {p} : moved'[q] = moved[q]
  <2>1. moved \in [Proc -> SUBSET File] /\ (moved' = moved \/ \E x \in SUBSET File : moved' = [moved EXCEPT ![p] = x])
    BY Zenon DEF Typed, Updates
  <2> QED
    BY <2>1, Updated
<1>6. put' \in [Proc -> SUBSET File] /\ \A q \in Proc \ {p} : put'[q] = put[q]
  <2>1. put \in [Proc -> SUBSET File] /\ (put' = put \/ \E x \in SUBSET File : put' = [put EXCEPT ![p] = x])
    BY Zenon DEF Typed, Updates
  <2> QED
    BY <2>1, Updated
<1>7. result' \in [Proc -> Results] /\ \A q \in Proc \ {p} : result'[q] = result[q]
  <2>1. result \in [Proc -> Results] /\ (result' = result \/ \E x \in Results : result' = [result EXCEPT ![p] = x])
    BY Zenon DEF Typed, Updates
  <2> QED
    BY <2>1, Updated
<1>8. bad' \in SUBSET Proc
  BY DEF Typed, Updates
<1>9. was' \in [Proc -> [File -> Content] \X [File -> Content]] /\ \A q \in Proc \ {p} : was'[q] = was[q]
  <2> DEFINE T == [File -> Content] \X [File -> Content]
  <2>1. was \in [Proc -> T] /\ (was' = was \/ \E x \in T : was' = [was EXCEPT ![p] = x])
    BY DEF Typed, Updates
  <2> HIDE DEF T
  <2>2. was' \in [Proc -> T] /\ \A q \in Proc \ {p} : was'[q] = was[q]
    BY <2>1, Updated
  <2> QED
    BY <2>2 DEF T
<1> QED
  BY <1>1, <1>2, <1>3, <1>4, <1>5, <1>6, <1>7, <1>8, <1>9 DEF Typed, Others, Updates

LEMMA Shape ==
  ASSUME Typed, NEW p \in Proc, Step(p) \/ Crash(p)
  PROVE  Updates(p)
<1>1. None \in Content /\ p \in Content /\ NoFiles \in [File -> Content]
  BY Constants
<1>a. /\ target \in [File -> Content] /\ backup \in [File -> Content]
      /\ \A f \in File : target[f] \in Content /\ backup[f] \in Content
      /\ \A f \in todo[p] : /\ f \in File /\ todo[p] \ {f} \in SUBSET File /\ put[p] \ {f} \in SUBSET File
                            /\ moved[p] \ {f} \in SUBSET File /\ moved[p] \cup {f} \in SUBSET File
  BY DEF Typed
<1>5. CASE Move(p)
  <2>1. PICK f \in todo[p] :
          \/ /\ backup' = [backup EXCEPT ![f] = target[f]]
             /\ target' = [target EXCEPT ![f] = None]
             /\ moved' = [moved EXCEPT ![p] = @ \cup {f}]
             /\ Goto(p, "install") /\ UNCHANGED todo
          \/ Rollback(p) /\ UNCHANGED <<target, backup, moved>>
    BY <1>5, Zenon DEF Move
  <2>2. f \in File /\ moved[p] \cup {f} \in SUBSET File
    BY <1>a
  <2>3. target' \in [File -> Content] /\ backup' \in [File -> Content]
    BY <1>1, <1>a, <2>1, <2>2, Rewritten
  <2> QED
    BY <1>5, <2>1, <2>2, <2>3 DEF Move, Typed, Updates, Where, Results, Goto, Loop, NextFile, Return, Rollback
<1>9. CASE Commit(p)
  <2>1. PICK f \in todo[p] :
          \/ backup' = [backup EXCEPT ![f] = None] /\ NextFile(p, f, "commit", "finish") /\ UNCHANGED result
          \/ Return(p, "error") /\ UNCHANGED <<backup, todo>>
    BY <1>9, Zenon DEF Commit
  <2>2. backup' \in [File -> Content] /\ todo[p] \ {f} \in SUBSET File
    BY <1>1, <1>a, <2>1, Rewritten
  <2> QED
    BY <1>9, <2>1, <2>2 DEF Commit, Typed, Updates, Where, Results, Goto, Loop, NextFile, Return, Rollback
<1>11. CASE Undo(p)
  <2>1. PICK f \in todo[p] :
          \/ /\ target' = IF f \in put[p] THEN [target EXCEPT ![f] = None] ELSE target
             /\ put' = [put EXCEPT ![p] = @ \ {f}]
             /\ IF f \in moved[p] THEN Goto(p, "restore") /\ UNCHANGED todo ELSE NextFile(p, f, "undo", "clean")
             /\ UNCHANGED bad
          \/ bad' = bad \cup {p} /\ NextFile(p, f, "undo", "clean") /\ UNCHANGED <<target, put>>
    BY <1>11, Zenon DEF Undo
  <2>2. target' \in [File -> Content] /\ todo[p] \ {f} \in SUBSET File /\ put[p] \ {f} \in SUBSET File
    BY <1>1, <1>a, <2>1, Rewritten
  <2>3. /\ pc' = pc \/ \E x \in Where : pc' = [pc EXCEPT ![p] = x]
        /\ todo' = todo \/ \E x \in SUBSET File : todo' = [todo EXCEPT ![p] = x]
    BY <2>1, <2>2 DEF Where, Goto, NextFile
  <2> QED
    BY <1>11, <2>1, <2>2, <2>3 DEF Undo, Typed, Updates, Where, Results, Goto, Loop, NextFile, Return, Rollback
<1>12. CASE Restore(p)
  <2>1. PICK f \in todo[p] :
          /\ NextFile(p, f, "undo", "clean")
          /\ \/ /\ target' = [target EXCEPT ![f] = backup[f]]
                /\ backup' = [backup EXCEPT ![f] = None]
                /\ moved' = [moved EXCEPT ![p] = @ \ {f}]
                /\ UNCHANGED bad
             \/ bad' = bad \cup {p} /\ UNCHANGED <<target, backup, moved>>
    BY <1>12, Zenon DEF Restore
  <2>2. /\ target' \in [File -> Content] /\ backup' \in [File -> Content]
        /\ todo[p] \ {f} \in SUBSET File /\ moved[p] \ {f} \in SUBSET File
    BY <1>1, <1>a, <2>1, Rewritten
  <2> QED
    BY <1>12, <2>1, <2>2 DEF Restore, Typed, Updates, Where, Results, Goto, Loop, NextFile, Return, Rollback
<1> USE DEF Typed, Updates, Where, Results, Goto, Loop, NextFile, Return, Rollback, directory, local
<1>2. CASE Begin(p)
  BY <1>1, <1>2 DEF Begin
<1>3. CASE Stage(p)
  BY <1>1, <1>3 DEF Stage
<1>4. CASE Replace(p)
  BY <1>1, <1>4 DEF Replace
<1>6. CASE Install(p)
  BY <1>1, <1>6 DEF Install
<1>7. CASE Sync(p)
  BY <1>1, <1>7 DEF Sync
<1>8. CASE Verify(p)
  BY <1>1, <1>8 DEF Verify
<1>10. CASE Finish(p)
  BY <1>1, <1>10 DEF Finish
<1>13. CASE Clean(p)
  BY <1>1, <1>13 DEF Clean
<1>14. CASE Report(p)
  BY <1>1, <1>14 DEF Report
<1>15. CASE Crash(p)
  BY <1>1, <1>15 DEF Crash
<1> QED
  BY <1>2, <1>3, <1>4, <1>5, <1>6, <1>7, <1>8, <1>9, <1>10, <1>11, <1>12, <1>13, <1>14, <1>15, Zenon DEF Step

LEMMA TypedStep ==
  ASSUME Typed, NEW p \in Proc, Step(p) \/ Crash(p)
  PROVE  Typed' /\ Others(p)
BY Shape, UpdatesTyped, FailTyped, FaultKept

LEMMA StagedStep ==
  ASSUME Typed, NEW p \in Proc, Staged(p), Step(p) \/ Crash(p)
  PROVE  Staged(p)'
<1>1. CASE Begin(p)
  BY <1>1 DEF Typed, Staged, Begin, At, Loop, Goto, Return, directory
<1>2. CASE Stage(p)
  <2>1. \/ /\ pc[p] = "stage" /\ pc' = [pc EXCEPT ![p] = "abandon"]
           /\ UNCHANGED <<temp, fresh, put, moved, result>>
        \/ /\ pc[p] = "stage" /\ UNCHANGED <<put, moved, result>>
           /\ \E f \in todo[p] : temp' = [temp EXCEPT ![p] = @ \cup {f}] /\ fresh' = [fresh EXCEPT ![p] = @ \cup {f}]
           /\ pc'[p] \in {"replace", "stage"} /\ (pc'[p] = "replace" => todo'[p] = File)
    BY <1>2 DEF Typed, Stage, At, Loop, Goto, NextFile
  <2>2. CASE pc'[p] = "abandon"
    BY <2>1, <2>2 DEF Typed, Staged
  <2>3. CASE pc'[p] # "abandon"
    <3>1. /\ pc[p] = "stage" /\ UNCHANGED <<put, moved, result>>
          /\ pc'[p] \in {"replace", "stage"} /\ (pc'[p] = "replace" => todo'[p] = File)
      BY <2>1, <2>3 DEF Typed
    <3>2. PICK f \in todo[p] : temp'[p] = temp[p] \cup {f} /\ fresh'[p] = fresh[p] \cup {f}
      BY <2>1, <2>3 DEF Typed
    <3>3. temp[p] = fresh[p] /\ put[p] = {} /\ moved[p] = {} /\ result[p] = "none"
      BY <3>1 DEF Staged
    <3> QED
      BY <3>1, <3>2, <3>3 DEF Staged
  <2> QED
    BY <2>2, <2>3
<1>3. CASE Replace(p)
  BY <1>3 DEF Typed, Staged, Replace, At, Loop, Goto, Rollback, directory
<1>4. CASE Move(p)
  BY <1>4 DEF Typed, Staged, Move, At, Loop, Goto, Rollback
<1>5. CASE Install(p)
  <2>1. \/ /\ pc[p] = "install" /\ pc' = [pc EXCEPT ![p] = "undo"]
           /\ UNCHANGED <<temp, fresh, put, moved, result>>
        \/ /\ pc[p] = "install" /\ UNCHANGED <<moved, result>>
           /\ \E f \in todo[p] : /\ temp'[p] = temp[p] \ {f} /\ fresh'[p] = fresh[p] \ {f}
                                 /\ put'[p] = put[p] \cup {f} /\ todo'[p] = todo[p] \ {f}
                                 /\ pc'[p] = IF todo[p] = {f} THEN "sync" ELSE "replace"
    BY <1>5 DEF Typed, Install, At, Loop, Goto, NextFile, Rollback
  <2>2. CASE pc'[p] = "undo"
    BY <2>1, <2>2 DEF Typed, Staged
  <2>3. CASE pc'[p] # "undo"
    <3>1. PICK f \in todo[p] : /\ temp'[p] = temp[p] \ {f} /\ fresh'[p] = fresh[p] \ {f}
                               /\ put'[p] = put[p] \cup {f} /\ todo'[p] = todo[p] \ {f}
                               /\ pc'[p] = IF todo[p] = {f} THEN "sync" ELSE "replace"
      BY <2>1, <2>3 DEF Typed
    <3>2. File \ todo[p] \subseteq put[p] /\ put[p] \subseteq File /\ temp[p] = fresh[p] /\ result'[p] = result[p]
          /\ f \in File /\ fresh[p] \cap put[p] = {} /\ result[p] = "none"
      BY <2>1, <2>3 DEF Typed, Staged
    <3>3. todo[p] = {f} => put'[p] = File
      BY <3>1, <3>2
    <3>4. File \ todo'[p] \subseteq put'[p] /\ temp'[p] = fresh'[p] /\ fresh'[p] \cap put'[p] = {}
      BY <3>1, <3>2
    <3> QED
      BY <3>1, <3>2, <3>3, <3>4 DEF Staged
  <2> QED
    BY <2>2, <2>3
<1>6. CASE Sync(p) \/ Verify(p)
  BY <1>6 DEF Typed, Staged, Sync, Verify, At, Loop, Goto, Rollback, directory
<1>7. CASE Commit(p)
  BY <1>7 DEF Typed, Staged, Commit, At, Goto, NextFile, Return
<1>8. CASE Finish(p) \/ Report(p) \/ Crash(p)
  BY <1>8 DEF Typed, Staged, Finish, Report, Crash, At, Goto, Return, directory, local
<1>9. CASE Undo(p)
  BY <1>9 DEF Typed, Staged, Undo, At, Goto, NextFile
<1>10. CASE Restore(p)
  BY <1>10 DEF Typed, Staged, Restore, At, Goto, NextFile
<1>11. CASE Clean(p)
  BY <1>11 DEF Typed, Staged, Clean, At, Goto, Return, local
<1> QED
  BY <1>1, <1>2, <1>3, <1>4, <1>5, <1>6, <1>7, <1>8, <1>9, <1>10, <1>11, Zenon DEF Step

StageInv == Typed /\ \A p \in Proc : Staged(p)

LEMMA StageInit == Init => StageInv
<1> SUFFICES ASSUME Init
             PROVE  StageInv
  OBVIOUS
<1>1. Typed
  <2>1. /\ target \in [File -> Content] /\ NoFiles \in [File -> Content] /\ 0 \in 0..MaxFault
    BY Constants DEF Init, Content
  <2> QED
    BY <2>1 DEF Init, Typed, Where, Results
<1>2. \A p \in Proc : Staged(p)
  BY DEF Init, Staged
<1> QED
  BY <1>1, <1>2 DEF StageInv

LEMMA StageStep ==
  ASSUME StageInv, [Next]_vars
  PROVE  StageInv'
<1>1. CASE UNCHANGED vars
  BY <1>1 DEF StageInv, Typed, Staged, vars, directory, local
<1>2. ASSUME NEW p \in Proc, Step(p) \/ Crash(p)
      PROVE  StageInv'
  <2>1. Typed' /\ Others(p) /\ Staged(p)'
    BY <1>2, TypedStep, StagedStep DEF StageInv
  <2>2. \A q \in Proc \ {p} : Staged(q)'
    BY <2>1 DEF StageInv, Staged, Others
  <2> QED
    BY <2>1, <2>2 DEF StageInv
<1> QED
  BY <1>1, <1>2 DEF Next

\* Every variable stays in its type, and what a call remembers of its files
\* agrees with the stages it has passed, however calls overlap.
THEOREM TypeCorrect == Spec => []TypeOK
<1>1. StageInv => TypeOK
  BY DEF StageInv, Typed, Staged, TypeOK
<1> QED
  BY <1>1, StageInit, StageStep, PTL DEF Spec

-----------------------------------------------------------------------------
(* Calls that do not overlap.                                              *)

Running(p) == pc[p] \notin {"ready", "done"}
Alone == \A p, q \in Proc : Running(p) /\ Running(q) => p = q

\* What a file and its backup are, by what the call remembers of it; was[p]
\* is what they were when it began.
Known(p, f) ==
  /\ f \in moved[p] => was[p][1][f] # None
  /\ f \in put[p] \ moved[p] => was[p][1][f] = None
  /\ target[f] = IF f \in put[p] THEN p ELSE IF f \in moved[p] THEN None ELSE was[p][1][f]
  /\ backup[f] = IF f \in moved[p] /\ pc[p] # "finish" /\ (pc[p] = "commit" => f \in todo[p])
                   THEN was[p][1][f] ELSE was[p][2][f]

\* The file a loop is at.
AtFile(p) ==
  /\ pc[p] \in {"replace", "move"} => todo[p] \cap (put[p] \cup moved[p]) = {}
  /\ pc[p] = "install" => todo[p] \cap put[p] = {}
  /\ \A f \in File :
       /\ pc[p] = "move" /\ IsFirst(f, todo[p]) => p \in Forced /\ target[f] # None /\ backup[f] = None
       /\ pc[p] = "install" /\ IsFirst(f, todo[p]) => target[f] = None /\ todo[p] \cap moved[p] \subseteq {f}
       /\ pc[p] = "restore" /\ IsLast(f, todo[p]) => f \in moved[p] \ put[p]

\* A rollback without errors is done with every file it has left behind.
Undone(p) ==
  /\ pc[p] \in {"undo", "restore"} => p \in bad \/ put[p] \cup moved[p] \subseteq todo[p]
  /\ pc[p] \in {"clean", "report"} => p \in bad \/ put[p] \cup moved[p] = {}

Tracks(p) ==
  /\ IF p \in Forced THEN was[p][2] = NoFiles ELSE was[p][1] = NoFiles /\ moved[p] = {}
  /\ \A f \in File : Known(p, f)
  /\ AtFile(p)
  /\ Undone(p)
  /\ pc[p] = "commit" => todo[p] \subseteq moved[p]

SoloInv == Alone /\ \A p \in Proc : Running(p) => Tracks(p)

\* A loop is at one file.
LEMMA OneFile ==
  ASSUME NEW S \in SUBSET File, NEW f \in S, NEW g \in File
  PROVE  /\ IsFirst(f, S) /\ IsFirst(g, S) => f = g
         /\ IsLast(f, S) /\ IsLast(g, S) => f = g
<1>1. \A h \in File : Rank[h] \in Nat
  BY FileAssumption
<1>2. ASSUME Rank[f] <= Rank[g], Rank[g] <= Rank[f]
      PROVE  f = g
  BY <1>1, <1>2, FileAssumption
<1> QED
  BY <1>2 DEF IsFirst, IsLast

LEMMA Local ==
  ASSUME StageInv, NEW p \in Proc
  PROVE  /\ todo[p] \subseteq File /\ put[p] \subseteq File /\ moved[p] \subseteq File
         /\ \A f \in File : target[f] \in Content /\ backup[f] \in Content
         /\ DOMAIN target = File /\ DOMAIN backup = File
         /\ p # None /\ p \in Content
BY Constants DEF StageInv, Typed

\* A step that touches no file, outside the removal of the backups.
LEMMA KnownKept ==
  ASSUME NEW p \in Proc, Tracks(p), UNCHANGED <<target, backup>>, put'[p] = put[p], moved'[p] = moved[p],
         was'[p] = was[p], pc[p] \notin {"commit", "finish"}, pc'[p] \notin {"commit", "finish"}
  PROVE  (IF p \in Forced THEN was[p][2] = NoFiles ELSE was[p][1] = NoFiles /\ moved[p] = {})'
         /\ \A f \in File : Known(p, f)'
BY DEF Tracks, Known

\* The rollback begins with every file.
LEMMA RollbackTracks ==
  ASSUME StageInv, NEW p \in Proc, Tracks(p), UNCHANGED <<target, backup>>, put'[p] = put[p], moved'[p] = moved[p],
         was'[p] = was[p], pc[p] \notin {"commit", "finish"}, Rollback(p)
  PROVE  Tracks(p)'
<1>1. pc'[p] = "undo" /\ todo'[p] = File
  BY DEF StageInv, Typed, Rollback, Loop, Goto
<1>2. \A f \in File : Known(p, f)'
  BY <1>1, KnownKept
<1>3. AtFile(p)' /\ Undone(p)'
  BY <1>1, Local DEF AtFile, Undone
<1> QED
  BY <1>1, <1>2, <1>3, KnownKept DEF Tracks

LEMMA BeginTracks ==
  ASSUME StageInv, NEW p \in Proc, Begin(p)
  PROVE  Running(p)' => Tracks(p)'
<1> SUFFICES ASSUME Running(p)'
             PROVE  Tracks(p)'
  OBVIOUS
<1>a. pc \in [Proc -> Where] /\ was \in [Proc -> [File -> Content] \X [File -> Content]]
  BY DEF StageInv, Typed
<1>b. ~Return(p, "refused")
  BY <1>a DEF Return, Goto, Running
<1>c. /\ pc[p] = "ready" /\ was' = [was EXCEPT ![p] = <<target, backup>>]
      /\ UNCHANGED <<target, backup, put, moved>>
      /\ \A f \in File : ~Occupied(p, f)
      /\ pc' = [pc EXCEPT ![p] = "stage"]
  BY <1>b DEF Begin, At, Loop, Goto, directory
<1>1. was'[p] = <<target, backup>> /\ pc'[p] = "stage"
  BY <1>a, <1>c
<1>d. IF p \in Forced THEN backup = NoFiles ELSE target = NoFiles
  <2>1. ASSUME NEW d \in [File -> Content], \A f \in File : d[f] = None
        PROVE  d = NoFiles
    BY <2>1 DEF NoFiles
  <2>2. target \in [File -> Content] /\ backup \in [File -> Content]
    BY DEF StageInv, Typed
  <2>3. CASE p \in Forced
    BY <1>c, <2>1, <2>2, <2>3 DEF Occupied
  <2>4. CASE p \notin Forced
    BY <1>c, <2>1, <2>2, <2>4 DEF Occupied
  <2> QED
    BY <2>3, <2>4
<1>2. put[p] = {} /\ moved[p] = {}
  BY <1>c DEF StageInv, Staged
<1>3. was'[p][1] = target /\ was'[p][2] = backup
  BY <1>1
<1>4. \A f \in File : Known(p, f)'
  BY <1>1, <1>2, <1>3, <1>c DEF Known
<1> QED
  BY <1>1, <1>2, <1>3, <1>4, <1>c, <1>d DEF Tracks, AtFile, Undone

LEMMA StageTracks ==
  ASSUME StageInv, NEW p \in Proc, Tracks(p), Stage(p)
  PROVE  Tracks(p)'
<1>1. /\ pc[p] = "stage" /\ UNCHANGED <<target, backup, moved, put, was>>
      /\ pc'[p] \in {"stage", "replace", "abandon"}
  BY DEF Stage, At, Loop, NextFile, Goto, StageInv, Typed
<1>2. put[p] = {} /\ moved[p] = {}
  BY <1>1 DEF StageInv, Staged
<1> QED
  BY <1>1, <1>2, KnownKept DEF Tracks, AtFile, Undone

LEMMA ReplaceTracks ==
  ASSUME StageInv, NEW p \in Proc, Tracks(p), Replace(p)
  PROVE  Tracks(p)'
<1>1. pc[p] = "replace" /\ UNCHANGED <<target, backup, moved, put, was>>
  BY DEF Replace, At, directory
<1>2. PICK f \in todo[p] :
        /\ IsFirst(f, todo[p])
        /\ \/ Rollback(p)
           \/ /\ p \in Forced => backup[f] = None
              /\ p \notin Forced => target[f] = None
              /\ pc' = [pc EXCEPT ![p] = IF p \in Forced /\ target[f] # None THEN "move" ELSE "install"]
              /\ todo' = todo
  <2>1. PICK f \in todo[p] :
          /\ IsFirst(f, todo[p])
          /\ \/ Rollback(p)
             \/ /\ ~Occupied(p, f)
                /\ Goto(p, IF p \in Forced /\ target[f] # None THEN "move" ELSE "install")
                /\ UNCHANGED todo
    BY Zenon DEF Replace
  <2>2. ~Occupied(p, f) => (p \in Forced => backup[f] = None) /\ (p \notin Forced => target[f] = None)
    BY DEF Occupied
  <2> QED
    BY <2>1, <2>2 DEF Goto
<1>3. CASE Rollback(p)
  BY <1>1, <1>3, RollbackTracks
<1>4. CASE ~Rollback(p)
  <2>1. /\ pc'[p] = IF p \in Forced /\ target[f] # None THEN "move" ELSE "install"
        /\ todo' = todo
    BY <1>2, <1>4 DEF StageInv, Typed
  <2>2. \A g \in File : IsFirst(g, todo[p]) => g = f
    BY <1>2, OneFile, Local
  <2>3. todo[p] \cap (put[p] \cup moved[p]) = {}
    BY <1>1 DEF Tracks, AtFile
  <2>4. AtFile(p)'
    BY <1>1, <1>2, <1>4, <2>1, <2>2, <2>3 DEF AtFile, IsFirst
  <2> QED
    BY <1>1, <2>1, <2>4, KnownKept DEF Tracks, Undone
<1> QED
  BY <1>3, <1>4

LEMMA MoveTracks ==
  ASSUME StageInv, NEW p \in Proc, Tracks(p), Move(p)
  PROVE  Tracks(p)'
<1>1. pc[p] = "move" /\ UNCHANGED <<put, was>>
  BY DEF Move, At
<1>2. PICK f \in todo[p] :
        /\ IsFirst(f, todo[p])
        /\ \/ /\ target[f] # None
              /\ backup' = [backup EXCEPT ![f] = target[f]]
              /\ target' = [target EXCEPT ![f] = None]
              /\ moved' = [moved EXCEPT ![p] = @ \cup {f}]
              /\ Goto(p, "install")
              /\ UNCHANGED todo
           \/ Rollback(p) /\ UNCHANGED <<target, backup, moved>>
  BY DEF Move
<1>3. CASE Rollback(p) /\ UNCHANGED <<target, backup, moved>>
  BY <1>1, <1>3, RollbackTracks
<1>4. CASE /\ target[f] # None
           /\ backup' = [backup EXCEPT ![f] = target[f]]
           /\ target' = [target EXCEPT ![f] = None]
           /\ moved' = [moved EXCEPT ![p] = @ \cup {f}]
           /\ Goto(p, "install")
           /\ UNCHANGED todo
  <2>1. /\ pc'[p] = "install" /\ todo'[p] = todo[p] /\ put'[p] = put[p] /\ was'[p] = was[p]
        /\ moved'[p] = moved[p] \cup {f} /\ f \in File
        /\ target'[f] = None /\ backup'[f] = target[f]
        /\ \A g \in File \ {f} : target'[g] = target[g] /\ backup'[g] = backup[g]
    BY <1>1, <1>4 DEF Goto, StageInv, Typed
  <2>2. /\ \A g \in File : IsFirst(g, todo[p]) => g = f
        /\ p \in Forced /\ f \notin put[p] /\ f \notin moved[p] /\ todo[p] \cap (put[p] \cup moved[p]) = {}
    BY <1>1, <1>2, <2>1, OneFile, Local DEF Tracks, AtFile
  <2>3. \A g \in File : Known(p, g)'
    BY <1>1, <1>4, <2>1, <2>2 DEF Tracks, Known
  <2>4. AtFile(p)'
    BY <2>1, <2>2 DEF AtFile, IsFirst
  <2> QED
    BY <2>1, <2>2, <2>3, <2>4 DEF Tracks, Undone
<1> QED
  BY <1>2, <1>3, <1>4

LEMMA InstallTracks ==
  ASSUME StageInv, NEW p \in Proc, Tracks(p), Install(p)
  PROVE  Tracks(p)'
<1>1. pc[p] = "install" /\ UNCHANGED <<backup, moved, was>>
  BY DEF Install, At
<1>2. PICK f \in todo[p] :
        /\ IsFirst(f, todo[p])
        /\ \/ /\ target' = [target EXCEPT ![f] = p]
              /\ put' = [put EXCEPT ![p] = @ \cup {f}]
              /\ NextFile(p, f, "replace", "sync")
           \/ Rollback(p) /\ UNCHANGED <<target, put>>
  BY DEF Install
<1>3. CASE Rollback(p) /\ UNCHANGED <<target, put>>
  BY <1>1, <1>3, RollbackTracks
<1>4. CASE /\ target' = [target EXCEPT ![f] = p]
           /\ put' = [put EXCEPT ![p] = @ \cup {f}]
           /\ NextFile(p, f, "replace", "sync")
  <2>1. /\ pc'[p] \in {"replace", "sync"} /\ todo'[p] = todo[p] \ {f} /\ moved'[p] = moved[p] /\ was'[p] = was[p]
        /\ put'[p] = put[p] \cup {f} /\ f \in File
        /\ target'[f] = p /\ backup' = backup
        /\ \A g \in File \ {f} : target'[g] = target[g]
    BY <1>1, <1>4 DEF NextFile, Goto, StageInv, Typed
  <2>2. /\ todo[p] \cap put[p] = {} /\ todo[p] \cap moved[p] \subseteq {f} /\ target[f] = None
    BY <1>1, <1>2, <2>1 DEF Tracks, AtFile
  <2>3. \A g \in File : Known(p, g)'
    BY <1>1, <2>1, <2>2 DEF Tracks, Known
  <2>4. AtFile(p)'
    BY <2>1, <2>2 DEF AtFile
  <2> QED
    BY <2>1, <2>3, <2>4 DEF Tracks, Undone
<1> QED
  BY <1>2, <1>3, <1>4

LEMMA SyncTracks ==
  ASSUME StageInv, NEW p \in Proc, Tracks(p), Sync(p)
  PROVE  Tracks(p)'
<1>1. pc[p] = "sync" /\ UNCHANGED <<target, backup, moved, put, was>>
  BY DEF Sync, At, directory
<1>2. CASE Rollback(p)
  BY <1>1, <1>2, RollbackTracks
<1>3. CASE pc'[p] = "verify"
  BY <1>1, <1>3, KnownKept DEF Tracks, AtFile, Undone
<1> QED
  BY <1>2, <1>3 DEF Sync, Goto, StageInv, Typed

LEMMA VerifyTracks ==
  ASSUME StageInv, NEW p \in Proc, Tracks(p), Verify(p)
  PROVE  Tracks(p)'
<1>1. pc[p] = "verify" /\ UNCHANGED <<target, backup, moved, put, was>>
  BY DEF Verify, At, directory
<1>2. CASE Rollback(p)
  BY <1>1, <1>2, RollbackTracks
<1>3. CASE ~Rollback(p)
  <2>1. \/ moved[p] = {} /\ pc'[p] = "finish"
        \/ todo'[p] = moved[p] /\ pc'[p] = "commit"
    BY <1>3 DEF Verify, Loop, Goto, StageInv, Typed
  <2>2. \A f \in File : Known(p, f)'
    BY <1>1, <2>1 DEF Tracks, Known
  <2> QED
    BY <1>1, <2>1, <2>2 DEF Tracks, AtFile, Undone
<1> QED
  BY <1>2, <1>3

LEMMA CommitTracks ==
  ASSUME StageInv, NEW p \in Proc, Tracks(p), Commit(p)
  PROVE  Running(p)' => Tracks(p)'
<1> SUFFICES ASSUME Running(p)'
             PROVE  Tracks(p)'
  OBVIOUS
<1>1. pc[p] = "commit" /\ UNCHANGED <<target, moved, put, was>>
  BY DEF Commit, At
<1>2. PICK f \in todo[p] : backup' = [backup EXCEPT ![f] = None] /\ NextFile(p, f, "commit", "finish")
  BY DEF Commit, Return, Goto, Running, StageInv, Typed
<1>3. /\ pc'[p] = IF todo[p] = {f} THEN "finish" ELSE "commit"
      /\ todo'[p] = todo[p] \ {f} /\ f \in File /\ backup'[f] = None
      /\ \A g \in File \ {f} : backup'[g] = backup[g]
  BY <1>2 DEF NextFile, Goto, StageInv, Typed
<1>4. f \in moved[p] /\ todo[p] \subseteq moved[p] /\ p \in Forced /\ was[p][2] = NoFiles
  BY <1>1 DEF Tracks
<1>5. was[p][2][f] = None
  BY <1>3, <1>4 DEF NoFiles
<1>6. \A g \in File : Known(p, g)'
  BY <1>1, <1>3, <1>4, <1>5 DEF Tracks, Known
<1> QED
  BY <1>1, <1>3, <1>4, <1>6 DEF Tracks, AtFile, Undone

LEMMA UndoTracks ==
  ASSUME StageInv, NEW p \in Proc, Tracks(p), Undo(p)
  PROVE  Tracks(p)'
<1>1. pc[p] = "undo" /\ UNCHANGED <<backup, moved, was>>
  BY DEF Undo, At
<1>2. PICK f \in todo[p] :
        /\ IsLast(f, todo[p])
        /\ \/ /\ target' = IF f \in put[p] THEN [target EXCEPT ![f] = None] ELSE target
              /\ put' = [put EXCEPT ![p] = @ \ {f}]
              /\ IF f \in moved[p] THEN Goto(p, "restore") /\ UNCHANGED todo ELSE NextFile(p, f, "undo", "clean")
              /\ UNCHANGED bad
           \/ bad' = bad \cup {p} /\ NextFile(p, f, "undo", "clean") /\ UNCHANGED <<target, put>>
  BY DEF Undo
<1>3. CASE bad' = bad \cup {p} /\ NextFile(p, f, "undo", "clean") /\ UNCHANGED <<target, put>>
  <2>1. pc'[p] \in {"undo", "clean"} /\ p \in bad'
    BY <1>3 DEF NextFile, Goto, StageInv, Typed
  <2> QED
    BY <1>1, <1>3, <2>1, KnownKept DEF Tracks, AtFile, Undone
<1>4. CASE /\ target' = IF f \in put[p] THEN [target EXCEPT ![f] = None] ELSE target
           /\ put' = [put EXCEPT ![p] = @ \ {f}]
           /\ IF f \in moved[p] THEN Goto(p, "restore") /\ UNCHANGED todo ELSE NextFile(p, f, "undo", "clean")
           /\ UNCHANGED bad
  <2>1. /\ put'[p] = put[p] \ {f} /\ moved'[p] = moved[p] /\ was'[p] = was[p] /\ f \in File
        /\ target'[f] = IF f \in put[p] THEN None ELSE target[f]
        /\ \A g \in File \ {f} : target'[g] = target[g]
    BY <1>1, <1>4 DEF StageInv, Typed
  <2>2. \/ f \in moved[p] /\ pc'[p] = "restore" /\ todo'[p] = todo[p]
        \/ /\ f \notin moved[p] /\ todo'[p] = todo[p] \ {f}
           /\ pc'[p] = IF todo[p] = {f} THEN "clean" ELSE "undo"
    BY <1>4 DEF NextFile, Goto, StageInv, Typed
  <2>3. \A g \in File : Known(p, g)'
    BY <1>1, <2>1, <2>2 DEF Tracks, Known
  <2>4. \A g \in File : IsLast(g, todo[p]) => g = f
    BY <1>2, OneFile, Local
  <2>5. AtFile(p)'
    BY <2>1, <2>2, <2>4 DEF AtFile
  <2>6. Undone(p)'
    <3>1. p \in bad \/ put[p] \cup moved[p] \subseteq todo[p]
      BY <1>1 DEF Tracks, Undone
    <3> QED
      BY <1>4, <2>1, <2>2, <3>1 DEF Undone
  <2> QED
    BY <1>1, <2>1, <2>2, <2>3, <2>5, <2>6 DEF Tracks
<1> QED
  BY <1>2, <1>3, <1>4

LEMMA RestoreTracks ==
  ASSUME StageInv, NEW p \in Proc, Tracks(p), Restore(p)
  PROVE  Tracks(p)'
<1>1. pc[p] = "restore" /\ UNCHANGED <<put, was>>
  BY DEF Restore, At
<1>2. PICK f \in todo[p] :
        /\ IsLast(f, todo[p])
        /\ NextFile(p, f, "undo", "clean")
        /\ \/ /\ target' = [target EXCEPT ![f] = backup[f]]
              /\ backup' = [backup EXCEPT ![f] = None]
              /\ moved' = [moved EXCEPT ![p] = @ \ {f}]
              /\ UNCHANGED bad
           \/ bad' = bad \cup {p} /\ UNCHANGED <<target, backup, moved>>
  BY DEF Restore
<1>a. pc'[p] = (IF todo[p] = {f} THEN "clean" ELSE "undo") /\ todo'[p] = todo[p] \ {f} /\ f \in File
  BY <1>2 DEF NextFile, Goto, StageInv, Typed
<1>3. CASE bad' = bad \cup {p} /\ UNCHANGED <<target, backup, moved>>
  BY <1>1, <1>3, <1>a, KnownKept DEF Tracks, AtFile, Undone
<1>4. CASE /\ target' = [target EXCEPT ![f] = backup[f]]
           /\ backup' = [backup EXCEPT ![f] = None]
           /\ moved' = [moved EXCEPT ![p] = @ \ {f}]
           /\ UNCHANGED bad
  <2>1. /\ moved'[p] = moved[p] \ {f} /\ put'[p] = put[p] /\ was'[p] = was[p]
        /\ target'[f] = backup[f] /\ backup'[f] = None
        /\ \A g \in File \ {f} : target'[g] = target[g] /\ backup'[g] = backup[g]
    BY <1>1, <1>4, <1>a DEF StageInv, Typed
  <2>2. f \in moved[p] /\ f \notin put[p] /\ p \in Forced /\ was[p][2] = NoFiles
    BY <1>1, <1>2, <1>a DEF Tracks, AtFile
  <2>3. was[p][2][f] = None
    BY <1>a, <2>2 DEF NoFiles
  <2>4. \A g \in File : Known(p, g)'
    BY <1>1, <1>a, <2>1, <2>2, <2>3 DEF Tracks, Known
  <2>5. Undone(p)'
    <3>1. p \in bad \/ put[p] \cup moved[p] \subseteq todo[p]
      BY <1>1 DEF Tracks, Undone
    <3> QED
      BY <1>4, <1>a, <2>1, <2>2, <3>1 DEF Undone
  <2> QED
    BY <1>a, <2>1, <2>2, <2>4, <2>5 DEF Tracks, AtFile
<1> QED
  BY <1>2, <1>3, <1>4

LEMMA CleanTracks ==
  ASSUME StageInv, NEW p \in Proc, Tracks(p), Clean(p)
  PROVE  Running(p)' => Tracks(p)'
<1> SUFFICES ASSUME Running(p)'
             PROVE  Tracks(p)'
  OBVIOUS
<1>1. pc[p] = "clean" /\ pc'[p] = "report" /\ UNCHANGED <<target, backup, moved, put, was, bad>>
  BY DEF Clean, At, Goto, Return, Running, local, StageInv, Typed
<1> QED
  BY <1>1, KnownKept DEF Tracks, AtFile, Undone

-----------------------------------------------------------------------------
(* No two calls at once.                                                   *)

\* A step of p is of the only call that runs.
LEMMA OnlyOne ==
  ASSUME ~Overlap, Alone, NEW p \in Proc, Step(p) \/ Crash(p)
  PROVE  \A q \in Proc \ {p} : ~Running(q)
<1>1. CASE Begin(p)
  BY <1>1, Zenon DEF Begin, Running
<1>2. CASE ~Begin(p)
  <2>1. Running(p)
    <3>1. CASE Crash(p)
      BY <3>1, Zenon DEF Crash, Running
    <3>2. CASE Step(p)
      <4>1. pc[p] \in Where \ {"ready", "done"}
        BY <1>2, <3>2 DEF Step, Stage, Replace, Move, Install, Sync, Verify, Commit, Finish, Undo, Restore,
           Clean, Report, At, Where
      <4> QED
        BY <4>1 DEF Running
    <3> QED
      BY <3>1, <3>2
  <2> QED
    BY <2>1, Zenon DEF Alone
<1> QED
  BY <1>1, <1>2

LEMMA TracksStep ==
  ASSUME StageInv, SoloInv, NEW p \in Proc, Step(p) \/ Crash(p), Running(p)'
  PROVE  Tracks(p)'
<1>1. CASE Begin(p)
  BY <1>1, BeginTracks
<1>2. CASE Crash(p) \/ Finish(p) \/ Report(p)
  BY <1>2 DEF Crash, Finish, Report, Return, Goto, Running, StageInv, Typed
<1>3. CASE ~Begin(p) /\ ~(Crash(p) \/ Finish(p) \/ Report(p))
  <2>1. pc[p] \in Where \ {"ready", "done"}
    BY <1>3 DEF Step, Stage, Replace, Move, Install, Sync, Verify, Commit, Undo, Restore, Clean, At, Where
  <2>2. Tracks(p)
    BY <2>1 DEF SoloInv, Running
  <2> QED
    BY <1>3, <2>2, StageTracks, ReplaceTracks, MoveTracks, InstallTracks, SyncTracks, VerifyTracks,
       CommitTracks, UndoTracks, RestoreTracks, CleanTracks, Zenon DEF Step
<1> QED
  BY <1>1, <1>2, <1>3

LEMMA SoloInit == Init => SoloInv
BY DEF Init, SoloInv, Alone, Running

LEMMA SoloStep ==
  ASSUME ~Overlap, StageInv, SoloInv, [Next]_vars
  PROVE  SoloInv'
<1>1. CASE UNCHANGED vars
  BY <1>1 DEF SoloInv, Alone, Running, Tracks, Known, AtFile, Undone, vars, directory, local
<1>2. ASSUME NEW p \in Proc, Step(p) \/ Crash(p)
      PROVE  SoloInv'
  <2>1. \A q \in Proc \ {p} : ~Running(q)
    BY <1>2, OnlyOne DEF SoloInv
  <2>2. \A q \in Proc \ {p} : ~Running(q)'
    BY <1>2, <2>1, TypedStep DEF StageInv, Others, Running
  <2>3. Running(p)' => Tracks(p)'
    BY <1>2, TracksStep
  <2> QED
    BY <2>2, <2>3 DEF SoloInv, Alone
<1> QED
  BY <1>1, <1>2 DEF Next

-----------------------------------------------------------------------------
(* What a step loses, and how a call ends.                                 *)

LEMMA SamePlace ==
  ASSUME UNCHANGED <<target, backup>>, NEW f
  PROVE  Versions(f)' = Versions(f)
BY DEF Versions

\* A verified set is complete until its backups are gone.
LEMMA VerifiedComplete ==
  ASSUME StageInv, NEW p \in Proc, Tracks(p), pc[p] \in {"commit", "finish"}
  PROVE  Complete(p)
<1>1. put[p] = File
  BY DEF StageInv, Staged
<1> QED
  BY <1>1 DEF Tracks, Known, Complete

\* Nothing put and nothing moved: the directory is as the call found it.
LEMMA UntouchedSame ==
  ASSUME StageInv, NEW p \in Proc, Tracks(p), put[p] = {}, moved[p] = {}
  PROVE  <<target, backup>> = was[p]
<1>1. was[p] \in [File -> Content] \X [File -> Content] /\ target \in [File -> Content]
      /\ backup \in [File -> Content]
  BY DEF StageInv, Typed
<1>2. \A f \in File : target[f] = was[p][1][f] /\ backup[f] = was[p][2][f]
  BY DEF Tracks, Known
<1>3. ASSUME NEW d \in [File -> Content], NEW e \in [File -> Content], \A f \in File : d[f] = e[f]
      PROVE  d = e
  BY <1>3
<1>4. was[p][1] \in [File -> Content] /\ was[p][2] \in [File -> Content] /\ was[p] = <<was[p][1], was[p][2]>>
  BY <1>1
<1>5. target = was[p][1] /\ backup = was[p][2]
  BY <1>1, <1>2, <1>3, <1>4
<1> QED
  BY <1>4, <1>5

LEMMA StepLosesNothing ==
  ASSUME StageInv, SoloInv, NEW p \in Proc, Step(p) \/ Crash(p), NEW f \in File,
         NEW v \in Versions(f) \ Versions(f)'
  PROVE  \/ v \in Proc /\ pc[v] = "undo"
         \/ \E q \in Proc : pc[q] = "commit" /\ Complete(q)
<1>1. CASE Begin(p) \/ Stage(p) \/ Replace(p) \/ Sync(p) \/ Verify(p) \/ Finish(p) \/ Clean(p) \/ Report(p) \/ Crash(p)
  <2>1. UNCHANGED <<target, backup>>
    BY <1>1 DEF Begin, Stage, Replace, Sync, Verify, Finish, Clean, Report, Crash, directory
  <2> QED
    BY <2>1, SamePlace
<1>2. CASE Move(p)
  <2>1. pc[p] = "move" /\ Tracks(p)
    BY <1>2 DEF Move, At, SoloInv, Running
  <2>2. PICK g \in todo[p] :
          /\ IsFirst(g, todo[p])
          /\ \/ backup' = [backup EXCEPT ![g] = target[g]] /\ target' = [target EXCEPT ![g] = None]
             \/ UNCHANGED <<target, backup>>
    BY <1>2 DEF Move
  <2>3. g \in File /\ backup[g] = None
    BY <2>1, <2>2, Local DEF Tracks, AtFile
  <2> QED
    BY <2>2, <2>3, Local DEF Versions
<1>3. CASE Install(p)
  <2>1. pc[p] = "install" /\ Tracks(p) /\ UNCHANGED backup
    BY <1>3 DEF Install, At, SoloInv, Running
  <2>2. PICK g \in todo[p] : IsFirst(g, todo[p]) /\ (target' = [target EXCEPT ![g] = p] \/ UNCHANGED target)
    BY <1>3 DEF Install
  <2>3. g \in File /\ target[g] = None
    BY <2>1, <2>2, Local DEF Tracks, AtFile
  <2> QED
    BY <2>1, <2>2, <2>3, Local DEF Versions
<1>4. CASE Commit(p)
  <2>1. pc[p] = "commit" /\ Tracks(p)
    BY <1>4 DEF Commit, At, SoloInv, Running
  <2> QED
    BY <2>1, VerifiedComplete
<1>5. CASE Undo(p)
  <2>1. pc[p] = "undo" /\ Tracks(p) /\ UNCHANGED backup
    BY <1>5 DEF Undo, At, SoloInv, Running
  <2>2. PICK g \in todo[p] :
          UNCHANGED target \/ (g \in put[p] /\ target' = [target EXCEPT ![g] = None])
    BY <1>5 DEF Undo
  <2>3. g \in File /\ (g \in put[p] => target[g] = p)
    BY <2>1, Local DEF Tracks, Known
  <2> QED
    BY <2>1, <2>2, <2>3, Local DEF Versions
<1>6. CASE Restore(p)
  <2>1. pc[p] = "restore" /\ Tracks(p)
    BY <1>6 DEF Restore, At, SoloInv, Running
  <2>2. PICK g \in todo[p] :
          /\ IsLast(g, todo[p])
          /\ \/ target' = [target EXCEPT ![g] = backup[g]] /\ backup' = [backup EXCEPT ![g] = None]
             \/ UNCHANGED <<target, backup>>
    BY <1>6 DEF Restore
  <2>3. g \in File /\ target[g] = None
    BY <2>1, <2>2, Local DEF Tracks, Known, AtFile
  <2> QED
    BY <2>2, <2>3, Local DEF Versions
<1> QED
  BY <1>1, <1>2, <1>3, <1>4, <1>5, <1>6, Zenon DEF Step

\* What the answer of a call says of the directory.
Answer(p) ==
  /\ result'[p] = "ok" => Complete(p) /\ backup = was[p][2] /\ temp[p] = {}
  /\ result'[p] \in {"error", "refused"} =>
       \/ Complete(p)
       \/ IF result'[p] = "refused" THEN UNCHANGED directory ELSE <<target, backup>> = was[p]

LEMMA Answered ==
  ASSUME StageInv, SoloInv, NEW p \in Proc, Step(p) \/ Crash(p), Ended(p)
  PROVE  Answer(p)
<1>a. result \in [Proc -> Results]
  BY DEF StageInv, Typed
<1>1. CASE Begin(p)
  <2>1. result'[p] = "refused" /\ UNCHANGED directory
    BY <1>1, <1>a DEF Begin, Return, Ended
  <2> QED
    BY <2>1 DEF Answer
<1>2. CASE Commit(p)
  <2>1. pc[p] = "commit" /\ result'[p] = "error" /\ Tracks(p)
    BY <1>2, <1>a DEF Commit, Return, Ended, At, SoloInv, Running
  <2> QED
    BY <2>1, VerifiedComplete DEF Answer
<1>3. CASE Finish(p)
  <2>1. pc[p] = "finish" /\ result'[p] \in {"ok", "error"} /\ Tracks(p)
    BY <1>3, <1>a DEF Finish, Return, At, SoloInv, Running
  <2>2. Complete(p)
    BY <2>1, VerifiedComplete
  <2>3. temp[p] = {}
    <3>1. temp[p] = fresh[p] /\ fresh[p] \cap put[p] = {} /\ put[p] = File /\ fresh[p] \subseteq File
      BY <2>1 DEF StageInv, Typed, Staged
    <3> QED
      BY <3>1
  <2>4. backup = was[p][2]
    <3>1. backup \in [File -> Content] /\ was[p][2] \in [File -> Content]
      BY DEF StageInv, Typed
    <3>2. \A f \in File : backup[f] = was[p][2][f]
      BY <2>1 DEF Tracks, Known
    <3> QED
      BY <3>1, <3>2
  <2> QED
    BY <2>1, <2>2, <2>3, <2>4 DEF Answer
<1>4. CASE Clean(p)
  <2>1. pc[p] = "abandon" /\ result'[p] = "error" /\ Tracks(p)
    BY <1>4, <1>a DEF Clean, Return, Ended, At, SoloInv, Running
  <2>2. put[p] = {} /\ moved[p] = {}
    BY <2>1 DEF StageInv, Staged
  <2> QED
    BY <2>1, <2>2, UntouchedSame DEF Answer
<1>5. CASE Report(p)
  <2>1. pc[p] = "report" /\ Tracks(p) /\ (result'[p] = "incomplete" \/ (result'[p] = "error" /\ p \notin bad))
    BY <1>5, <1>a DEF Report, Return, At, SoloInv, Running
  <2>2. CASE result'[p] = "incomplete"
    BY <2>2 DEF Answer
  <2>3. CASE result'[p] = "error" /\ p \notin bad
    <3>1. put[p] = {} /\ moved[p] = {}
      BY <2>1, <2>3 DEF Tracks, Undone
    <3> QED
      BY <2>1, <2>3, <3>1, UntouchedSame DEF Answer
  <2> QED
    BY <2>1, <2>2, <2>3
<1>6. CASE Crash(p)
  BY <1>6, <1>a DEF Crash, Return, Answer
<1>7. CASE Stage(p) \/ Replace(p) \/ Move(p) \/ Install(p) \/ Sync(p) \/ Verify(p) \/ Undo(p) \/ Restore(p)
  BY <1>7 DEF Stage, Replace, Move, Install, Sync, Verify, Undo, Restore, Ended
<1> QED
  BY <1>1, <1>2, <1>3, <1>4, <1>5, <1>6, <1>7, Zenon DEF Step

\* Whatever fails and whenever a call is killed, no content of a file
\* disappears but what a rollback takes back and what a complete, verified set
\* replaces: while calls of WriteFiles do not overlap.
THEOREM SequentialNothingLost ==
  ASSUME ~Overlap
  PROVE  Spec => NothingLost
<1>1. StageInv /\ SoloInv /\ [Next]_vars =>
        [\A f \in File : \A v \in Versions(f) \ Versions(f)' :
           \/ v \in Proc /\ pc[v] = "undo"
           \/ \E p \in Proc : pc[p] = "commit" /\ Complete(p)]_vars
  BY StepLosesNothing, Zenon DEF Next
<1> QED
  BY <1>1, StageInit, StageStep, SoloInit, SoloStep, PTL DEF Spec, NothingLost

\* An answer of WriteFiles is the truth: success is the complete new set, and
\* an error that does not say "rollback incomplete" is the complete old set or
\* the complete new one: while calls do not overlap.
THEOREM SequentialAllOrNothing ==
  ASSUME ~Overlap
  PROVE  Spec => AllOrNothing
<1>1. ASSUME StageInv, SoloInv, NEW p \in Proc, Step(p) \/ Crash(p), NEW q \in Proc, Ended(q)
      PROVE  Answer(q)
  <2>1. q = p
    BY <1>1, TypedStep DEF StageInv, Others, Ended
  <2> QED
    BY <1>1, <2>1, Answered
<1>2. StageInv /\ SoloInv /\ [Next]_vars => [\A p \in Proc : Ended(p) => Answer(p)]_vars
  BY <1>1, Zenon DEF Next
<1>3. (\A p \in Proc : Ended(p) => Answer(p)) =>
        \A p \in Proc : Ended(p) =>
          /\ result'[p] = "ok" => Complete(p) /\ backup = was[p][2] /\ temp[p] = {}
          /\ result'[p] \in {"error", "refused"} =>
               \/ Complete(p)
               \/ IF result'[p] = "refused" THEN UNCHANGED directory ELSE <<target, backup>> = was[p]
  BY Zenon DEF Answer
<1> QED
  BY <1>2, <1>3, StageInit, StageStep, SoloInit, SoloStep, PTL DEF Spec, AllOrNothing
=============================================================================
