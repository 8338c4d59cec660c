----------------------- MODULE ContainerControlProofs -----------------------
(***************************************************************************)
(* The lock of mini-singbox-containerctl, the types, the configuration     *)
(* that a renewal can always return to, the image that a switch can, and   *)
(* that a command which ends is done entirely or has changed nothing, for  *)
(* any number of commands, tags and images, and any number of failures,    *)
(* signals and kills.                                                      *)
(***************************************************************************)
EXTENDS ContainerControl, TLAPS

Place ==
  {"init", "write image", "up", "stop", "forget", "start check", "start run", "start observe",
   "switch", "switch pull", "switch check", "switch stop", "switch remove", "switch record", "switch image",
   "renew", "renew copy", "renew active", "renew work", "renew backup", "renew was", "renew stop",
   "renew generate", "renew install", "renew installed", "renew done", "renew printed", "clean stop", "clean empty",
   "clean restore", "clean work", "clean lock"}

Anywhere == Place \cup {"idle", "lock"}

\* What a step of a command does to the lock, whatever else it does: it goes
\* on, it is gone and leaves the lock, or it releases the lock as its last act.
Moves(p) == \E l \in Place : pc' = [pc EXCEPT ![p] = l]

GoesOn(p) ==
  /\ Inside(p)
  /\ Moves(p)
  /\ stale' = stale
  /\ purged => purged'
  /\ lock' = lock \/ (purged' /\ lock' = FALSE)

IsGone(p) ==
  /\ Inside(p)
  /\ pc' = [pc EXCEPT ![p] = "idle"]
  /\ stale' = TRUE /\ purged' = purged /\ lock' = lock

Releases(p) ==
  /\ Inside(p)
  /\ pc' = [pc EXCEPT ![p] = "idle"]
  /\ lock' = FALSE /\ UNCHANGED <<stale, purged>>

-----------------------------------------------------------------------------
(* Every step inside a command is one of these.                            *)

LEMMA OutsidePlace == "idle" \notin Place /\ "lock" \notin Place
BY DEF Place

\* The helpers name places inside the script.
LEMMA HelpersMove ==
  ASSUME NEW p \in Proc
  PROVE  /\ \A l \in Place : Goto(p, l) => Moves(p)
         /\ \A l \in Place : pc[p] = l => Inside(p)
         /\ \A s : Exit(p, s) => Moves(p)
         /\ \A ref, caller : Call(p, ref, caller) => Moves(p)
<1>1. ASSUME NEW l \in Place, Goto(p, l)
      PROVE  Moves(p)
  BY <1>1 DEF Goto, Moves
<1>2. "clean stop" \in Place /\ "clean work" \in Place /\ "start check" \in Place
  BY DEF Place
<1>3. ASSUME NEW s, Exit(p, s)
      PROVE  Moves(p)
  <2>1. CASE s = 1 /\ mem[p].active
    BY <1>1, <1>2, <1>3, <2>1, Zenon DEF Exit
  <2>2. CASE ~(s = 1 /\ mem[p].active)
    BY <1>1, <1>2, <1>3, <2>2, Zenon DEF Exit
  <2> QED
    BY <2>1, <2>2
<1>4. ASSUME NEW ref, NEW caller, Call(p, ref, caller)
      PROVE  Moves(p)
  BY <1>1, <1>2, <1>4, Zenon DEF Call
<1>5. ASSUME NEW l \in Place, pc[p] = l
      PROVE  Inside(p)
  BY <1>5, OutsidePlace, Zenon DEF Inside
<1> QED
  BY <1>1, <1>3, <1>4, <1>5, Zenon

LEMMA PlainGoesOn ==
  ASSUME NEW p \in Proc, Plain(p)
  PROVE  GoesOn(p)
<1>1. CASE generate_config(p)
  BY <1>1, HelpersMove, Zenon DEF Place, generate_config, At, GoesOn, history
<1>2. CASE WriteImage(p)
  BY <1>2, HelpersMove, Zenon DEF Place, WriteImage, At, GoesOn, history
<1>3. CASE Up(p)
  BY <1>3, HelpersMove, Zenon DEF Place, Up, At, GoesOn, history
<1>4. CASE Down(p)
  BY <1>4, HelpersMove, Zenon DEF Place, Down, stop_and_remove, At, GoesOn, history
<1>5. CASE Forget(p)
  BY <1>5, HelpersMove, Zenon DEF Place, Forget, At, GoesOn
<1> QED
  BY <1>1, <1>2, <1>3, <1>4, <1>5 DEF Plain

LEMMA SwitchGoesOn ==
  ASSUME NEW p \in Proc, SwitchStep(p)
  PROVE  GoesOn(p)
<1>1. CASE Switch(p)
  BY <1>1, HelpersMove, Zenon DEF Place, Switch, At, GoesOn, history
<1>2. CASE SwitchPull(p)
  BY <1>2, HelpersMove, Zenon DEF Place, SwitchPull, At, GoesOn
<1>3. CASE SwitchCheck(p)
  BY <1>3, HelpersMove, Zenon DEF Place, SwitchCheck, At, GoesOn, history
<1>4. CASE SwitchStop(p)
  BY <1>4, HelpersMove, Zenon DEF Place, SwitchStop, stop_and_remove, At, GoesOn, history
<1>5. CASE SwitchRemove(p)
  BY <1>5, HelpersMove, Zenon DEF Place, SwitchRemove, stop_and_remove, At, GoesOn, history
<1>6. CASE SwitchRecord(p)
  BY <1>6, HelpersMove, Zenon DEF Place, SwitchRecord, At, GoesOn
<1>7. CASE SwitchImage(p)
  BY <1>7, HelpersMove, Zenon DEF Place, SwitchImage, At, GoesOn, history
<1> QED
  BY <1>1, <1>2, <1>3, <1>4, <1>5, <1>6, <1>7 DEF SwitchStep

\* The three assignments after RENEW_ACTIVE=1.
RenewSets(p) == RenewWork(p) \/ RenewBackup(p) \/ RenewWas(p)

LEMMA RenewGoesOn ==
  ASSUME NEW p \in Proc, RenewStep(p)
  PROVE  GoesOn(p)
<1>1. CASE Renew(p)
  BY <1>1, HelpersMove, Zenon DEF Place, Renew, At, GoesOn, history
<1>2. CASE RenewCopy(p)
  BY <1>2, HelpersMove, Zenon DEF Place, RenewCopy, At, GoesOn, history
<1>3. CASE RenewActive(p)
  BY <1>3, HelpersMove, Zenon DEF Place, RenewActive, At, GoesOn, history
<1>4. CASE RenewStop(p)
  BY <1>4, HelpersMove, Zenon DEF Place, RenewStop, stop_and_remove, At, GoesOn, history
<1>5. CASE RenewGenerate(p)
  BY <1>5, HelpersMove, Zenon DEF Place, RenewGenerate, At, GoesOn, history
<1>6. CASE RenewInstall(p)
  BY <1>6, HelpersMove, Zenon DEF Place, RenewInstall, At, GoesOn, history
<1>7. CASE RenewInstalled(p)
  BY <1>7, HelpersMove, Zenon DEF Place, RenewInstalled, At, GoesOn, history
<1>8. CASE RenewDone(p)
  BY <1>8, HelpersMove, Zenon DEF Place, RenewDone, At, GoesOn, history
<1>9. CASE RenewSets(p)
  <2>1. CASE RenewWork(p)
    BY <2>1, HelpersMove, Zenon DEF Place, RenewWork, At, GoesOn, history
  <2>2. CASE RenewBackup(p)
    BY <2>2, HelpersMove, Zenon DEF Place, RenewBackup, At, GoesOn, history
  <2>3. CASE RenewWas(p)
    BY <2>3, HelpersMove, Zenon DEF Place, RenewWas, At, GoesOn, history
  <2> QED
    BY <1>9, <2>1, <2>2, <2>3 DEF RenewSets
<1>10. CASE RenewPrinted(p)
  BY <1>10, HelpersMove, Zenon DEF Place, RenewPrinted, At, GoesOn, history
<1> QED
  BY <1>1, <1>2, <1>3, <1>4, <1>5, <1>6, <1>7, <1>8, <1>9, <1>10 DEF RenewStep, RenewSets

\* start_container goes on, or, called by the trap, is the end of the command.
LEMMA StartGoesOn ==
  ASSUME NEW p \in Proc, Start(p)
  PROVE  GoesOn(p) \/ IsGone(p)
<1>1. ASSUME NEW s, Return(p, s)
      PROVE  Moves(p)
  BY <1>1, HelpersMove, Zenon DEF Place, Return
<1>2. CASE StartCheck(p)
  BY <1>2, HelpersMove, Zenon DEF Place, StartCheck, Abandon, Leave, Goto, GoesOn, IsGone, history
<1>3. CASE StartRun(p)
  BY <1>1, <1>3, HelpersMove, Zenon DEF Place, StartRun, At, GoesOn, history
<1>4. CASE StartObserve(p)
  BY <1>1, <1>4, HelpersMove, Zenon DEF Place, StartObserve, At, GoesOn, history
<1> QED
  BY <1>2, <1>3, <1>4 DEF Start

LEMMA CleanupGoesOn ==
  ASSUME NEW p \in Proc, Cleanup(p)
  PROVE  GoesOn(p) \/ Releases(p)
<1>1. CASE CleanStop(p)
  BY <1>1, HelpersMove, Zenon DEF Place, CleanStop, stop_and_remove, At, GoesOn, history
<1>2. CASE CleanEmpty(p)
  BY <1>2, HelpersMove, Zenon DEF Place, CleanEmpty, At, GoesOn, history
<1>3. CASE CleanRestore(p)
  BY <1>3, HelpersMove, Zenon DEF Place, CleanRestore, At, GoesOn
<1>4. CASE CleanWork(p)
  BY <1>4, HelpersMove, Zenon DEF Place, CleanWork, At, GoesOn, history
<1>5. CASE CleanLock(p)
  BY <1>5, HelpersMove, Zenon DEF Place, CleanLock, Leave, Goto, Releases, history
<1> QED
  BY <1>1, <1>2, <1>3, <1>4, <1>5 DEF Cleanup

LEMMA FaultGoesOn ==
  ASSUME NEW p \in Proc, Abort(p) \/ Kill(p)
  PROVE  GoesOn(p) \/ IsGone(p)
<1>1. CASE Abort(p)
  BY <1>1, HelpersMove, Zenon DEF Abort, GoesOn, history
<1>2. CASE Kill(p)
  BY <1>2, Zenon DEF Kill, Abandon, Leave, Goto, IsGone
<1> QED
  BY <1>1, <1>2

\* Outside the script: a command begins, takes the lock or is refused; and the
\* surroundings, of which only Unlock touches the lock.
Begins(p) ==
  /\ pc[p] = "idle" /\ pc' = [pc EXCEPT ![p] = "lock"]
  /\ UNCHANGED <<lock, stale, purged>>

Enters(p) ==
  /\ pc[p] = "lock" /\ ~lock /\ lock'
  /\ Moves(p)
  /\ UNCHANGED <<stale, purged>>

Refused(p) ==
  /\ pc[p] = "lock" /\ pc' = [pc EXCEPT ![p] = "idle"]
  /\ UNCHANGED <<lock, stale, purged>>

Unlocked ==
  /\ \A p \in Proc : ~Inside(p)
  /\ lock' = FALSE /\ UNCHANGED <<pc, purged>>

LEMMA LockSteps ==
  ASSUME NEW p \in Proc, Lock(p)
  PROVE  Enters(p) \/ Refused(p)
<1>1. ASSUME NEW name
      PROVE  First(name) \in Place
  <2>1. CASE name \in {"down", "uninstall", "purge"}
    BY <2>1, Zenon DEF First, Place
  <2>2. CASE name \notin {"down", "uninstall", "purge"} /\ name \in {"upgrade", "rollback"}
    BY <2>2, Zenon DEF First, Place
  <2>3. CASE name \notin {"down", "uninstall", "purge"} /\ name \notin {"upgrade", "rollback"}
    BY <2>3, Zenon DEF First, Place
  <2> QED
    BY <2>1, <2>2, <2>3
<1> QED
  BY <1>1, HelpersMove, Zenon DEF Lock, Leave, Goto, Enters, Refused, Moves, history

LEMMA StepsOfNext ==
  ASSUME [Next]_vars
  PROVE  \/ \E p \in Proc : GoesOn(p) \/ IsGone(p) \/ Releases(p) \/ Begins(p) \/ Enters(p) \/ Refused(p)
         \/ Unlocked
         \/ UNCHANGED <<pc, lock, stale, purged>>
<1>1. ASSUME NEW p \in Proc, Begin(p)
      PROVE  Begins(p)
  BY <1>1, Zenon DEF Begin, Begins, Goto, history
<1>2. ASSUME Unlock
      PROVE  Unlocked
  BY <1>2, Zenon DEF Unlock, Unlocked
<1>3. ASSUME Publish \/ Prune
      PROVE  UNCHANGED <<pc, lock, stale, purged>>
  BY <1>3, Zenon DEF Publish, Prune, history
<1>4. ASSUME UNCHANGED vars
      PROVE  UNCHANGED <<pc, lock, stale, purged>>
  BY <1>4, Zenon DEF vars, history
<1> QED
  BY <1>1, <1>2, <1>3, <1>4, LockSteps, PlainGoesOn, StartGoesOn, SwitchGoesOn, RenewGoesOn,
     CleanupGoesOn, FaultGoesOn, Zenon DEF Next

-----------------------------------------------------------------------------
(* Exclusion.                                                              *)

\* Inside the script a command holds the lock, and it is the only one.
LockHeld == purged \/ \A p \in Proc : Inside(p) => lock /\ \A q \in Proc : Inside(q) => p = q

ExclusionInv == pc \in [Proc -> Anywhere] /\ LockHeld

LEMMA MovesInside ==
  ASSUME NEW p \in Proc, pc \in [Proc -> Anywhere], Moves(p)
  PROVE  /\ pc' \in [Proc -> Anywhere]
         /\ Inside(p)'
         /\ \A q \in Proc \ {p} : Inside(q)' <=> Inside(q)
<1>1. PICK l \in Place : pc' = [pc EXCEPT ![p] = l]
  BY DEF Moves
<1>2. l \in Anywhere /\ l # "idle" /\ l # "lock"
  BY OutsidePlace, Zenon DEF Anywhere
<1>3. pc' \in [Proc -> Anywhere] /\ pc'[p] = l /\ \A q \in Proc \ {p} : pc'[q] = pc[q]
  BY <1>1, <1>2, SMT
<1> QED
  BY <1>2, <1>3, Zenon DEF Inside

LEMMA LeavesInside ==
  ASSUME NEW p \in Proc, pc \in [Proc -> Anywhere],
         NEW l \in {"idle", "lock"}, pc' = [pc EXCEPT ![p] = l]
  PROVE  /\ pc' \in [Proc -> Anywhere]
         /\ ~Inside(p)'
         /\ \A q \in Proc \ {p} : Inside(q)' <=> Inside(q)
<1>1. l \in Anywhere
  BY Zenon DEF Anywhere
<1>2. pc' \in [Proc -> Anywhere] /\ pc'[p] = l /\ \A q \in Proc \ {p} : pc'[q] = pc[q]
  BY <1>1, SMT
<1> QED
  BY <1>2, Zenon DEF Inside

LEMMA ExclusionStep ==
  ASSUME ExclusionInv, [Next]_vars
  PROVE  ExclusionInv'
<1> USE DEF ExclusionInv, LockHeld
<1>1. ASSUME NEW p \in Proc, GoesOn(p)
      PROVE  ExclusionInv'
  <2>1. /\ pc' \in [Proc -> Anywhere]
        /\ \A q \in Proc : Inside(q)' => Inside(q)
    BY <1>1, MovesInside, Zenon DEF GoesOn
  <2>2. CASE purged
    BY <1>1, <2>1, <2>2, Zenon DEF GoesOn
  <2>3. CASE ~purged /\ lock' = lock
    BY <2>1, <2>3, Zenon
  <2>4. CASE purged'
    BY <2>1, <2>4, Zenon
  <2> QED
    BY <1>1, <2>2, <2>3, <2>4, Zenon DEF GoesOn
<1>2. ASSUME NEW p \in Proc, IsGone(p)
      PROVE  ExclusionInv'
  BY <1>2, LeavesInside, Zenon DEF IsGone
<1>3. ASSUME NEW p \in Proc, Releases(p)
      PROVE  ExclusionInv'
  BY <1>3, LeavesInside, Zenon DEF Releases
<1>4. ASSUME NEW p \in Proc, Begins(p)
      PROVE  ExclusionInv'
  BY <1>4, LeavesInside, Zenon DEF Begins
<1>5. ASSUME NEW p \in Proc, Enters(p)
      PROVE  ExclusionInv'
  BY <1>5, MovesInside, Zenon DEF Enters
<1>6. ASSUME NEW p \in Proc, Refused(p)
      PROVE  ExclusionInv'
  BY <1>6, LeavesInside, Zenon DEF Refused
<1>7. CASE Unlocked
  BY <1>7, Zenon DEF Unlocked, Inside
<1>8. CASE UNCHANGED <<pc, lock, stale, purged>>
  BY <1>8, Zenon DEF Inside
<1> QED
  BY <1>1, <1>2, <1>3, <1>4, <1>5, <1>6, <1>7, <1>8, StepsOfNext, Zenon

LEMMA InitExclusion ==
  ASSUME Init
  PROVE  ExclusionInv /\ LockReleased
<1>1. pc = [p \in Proc |-> "idle"] /\ lock = FALSE
  BY Zenon DEF Init
<1>2. \A p \in Proc : pc[p] = "idle"
  BY <1>1, Zenon
<1>3. pc \in [Proc -> Anywhere]
  BY <1>1, Zenon DEF Anywhere
<1> QED
  BY <1>1, <1>2, <1>3, Zenon DEF ExclusionInv, LockHeld, LockReleased, Inside

\* Two commands on one state directory are never inside the script together
\* (scripts/mini-singbox-containerctl:435), but after a PURGE took the lock away.
THEOREM AlwaysExclusive == Spec => []Exclusive
<1>1. Init => ExclusionInv
  BY InitExclusion
<1>2. ExclusionInv /\ [Next]_vars => ExclusionInv'
  BY ExclusionStep
<1>3. ExclusionInv => Exclusive
  BY Zenon DEF ExclusionInv, LockHeld, Exclusive
<1> QED
  BY <1>1, <1>2, <1>3, PTL DEF Spec

-----------------------------------------------------------------------------
(* Release.                                                                *)

LEMMA ReleaseStep ==
  ASSUME ExclusionInv, LockReleased, [Next]_vars
  PROVE  LockReleased'
<1> USE DEF ExclusionInv, LockReleased
<1>1. ASSUME NEW p \in Proc, GoesOn(p)
      PROVE  LockReleased'
  BY <1>1, MovesInside, Zenon DEF GoesOn
<1>2. ASSUME NEW p \in Proc, IsGone(p)
      PROVE  LockReleased'
  BY <1>2, Zenon DEF IsGone
<1>3. ASSUME NEW p \in Proc, Releases(p)
      PROVE  LockReleased'
  BY <1>3, Zenon DEF Releases
<1>4. ASSUME NEW p \in Proc, Begins(p)
      PROVE  LockReleased'
  <2>1. ~Inside(p)
    BY <1>4, Zenon DEF Begins, Inside
  <2> QED
    BY <1>4, <2>1, LeavesInside, Zenon DEF Begins
<1>5. ASSUME NEW p \in Proc, Enters(p)
      PROVE  LockReleased'
  BY <1>5, MovesInside, Zenon DEF Enters
<1>6. ASSUME NEW p \in Proc, Refused(p)
      PROVE  LockReleased'
  <2>1. ~Inside(p)
    BY <1>6, Zenon DEF Refused, Inside
  <2> QED
    BY <1>6, <2>1, LeavesInside, Zenon DEF Refused
<1>7. CASE Unlocked
  BY <1>7, Zenon DEF Unlocked
<1>8. CASE UNCHANGED <<pc, lock, stale, purged>>
  BY <1>8, Zenon DEF Inside
<1> QED
  BY <1>1, <1>2, <1>3, <1>4, <1>5, <1>6, <1>7, <1>8, StepsOfNext, Zenon

\* A lock that nobody holds was left by a kill, or by a trap that gave up
\* (scripts/mini-singbox-containerctl:447 runs on every other way out).
THEOREM AlwaysReleased == Spec => []LockReleased
<1>1. Init => ExclusionInv /\ LockReleased
  BY InitExclusion
<1>2. ExclusionInv /\ LockReleased /\ [Next]_vars => (ExclusionInv /\ LockReleased)'
  BY ExclusionStep, ReleaseStep
<1> QED
  BY <1>1, <1>2, PTL DEF Spec

-----------------------------------------------------------------------------
(* Types.                                                                  *)

CommandName == {"none", "init", "up", "down", "uninstall", "purge", "rollback", "renew", "upgrade"}
Caller == {"none", "up", "switch", "restore", "renew", "cleanup"}
Memory == [name : CommandName, arg : Reference, image : Reference, old : Reference, was : BOOLEAN,
           active : BOOLEAN, set : SUBSET {"work", "backup", "was"}, backup : Config, caller : Caller, status : {0, 1}]

MemoryTyped == pc \in [Proc -> Anywhere] /\ mem \in [Proc -> Memory]

FilesTyped ==
  /\ imageFile \in Reference /\ previousFile \in Reference
  /\ registry \in {Published, Republished}
  /\ tags \in [TagName -> Image \cup {None}] /\ local \subseteq Image
  /\ origin \in Image \cup {None} /\ astray \in BOOLEAN

StateTyped ==
  /\ lock \in BOOLEAN /\ gen \in Nat /\ config \in Config
  /\ container \in [image : Image \cup {None}, config : Config, up : BOOLEAN]
  /\ left \subseteq Config /\ excused \subseteq Proc

\* What a command found.
History == [container : [image : Image \cup {None}, config : Config, up : BOOLEAN], config : Config,
            image : Reference, previous : Reference, resolved : Image \cup {None}]

HistoryTyped == before \in [Proc -> History]

\* A switch pulls what was asked for, or recorded; and nobody marks a renewal
\* active on the way in, or for an "init".
NewPlace == {"lock", "init", "write image"}
Aimed == \A p \in Proc : pc[p] = "switch pull" => mem[p].image # None
Fresh == \A p \in Proc : pc[p] \in NewPlace => ~mem[p].active

Typed == MemoryTyped /\ FilesTyped /\ StateTyped /\ HistoryTyped /\ Aimed /\ Fresh

Others(p) == \A q \in Proc \ {p} : pc'[q] = pc[q] /\ mem'[q] = mem[q]

LEMMA References ==
  ASSUME FilesTyped
  PROVE  /\ configured_image \in Reference /\ configured_image # None
         /\ \A r \in Reference : Resolve(r) \in Image \cup {None}
         /\ \A r \in Image \cup {None} : r \in Reference
BY ImageAssumption DEF FilesTyped, configured_image, Resolve, Reference

LEMMA GotoSets ==
  ASSUME MemoryTyped, NEW p \in Proc, NEW l \in Place, Goto(p, l)
  PROVE  /\ pc' \in [Proc -> Anywhere]
         /\ \A q \in Proc \ {p} : pc'[q] = pc[q]
         /\ pc'[p] = l
BY DEF MemoryTyped, Goto, Anywhere

\* What the trap needs is left alone.
Held(p) == /\ mem'[p].active = mem[p].active /\ mem'[p].backup = mem[p].backup
           /\ mem'[p].set = mem[p].set

\* What the helpers do to a command's place and variables.
LEMMA ExitSets ==
  ASSUME MemoryTyped, NEW p \in Proc, NEW s \in {0, 1}, Exit(p, s)
  PROVE  /\ MemoryTyped' /\ Others(p)
         /\ pc'[p] = (IF s = 1 /\ mem[p].active THEN "clean stop" ELSE "clean work")
         /\ Held(p)
<1>1. mem \in [Proc -> Memory] /\ mem' = [mem EXCEPT ![p].status = s]
  BY DEF MemoryTyped, Exit
<1>2. /\ mem' \in [Proc -> Memory] /\ \A q \in Proc \ {p} : mem'[q] = mem[q]
      /\ Held(p)
  BY <1>1 DEF Memory, Held
<1>3. Goto(p, IF s = 1 /\ mem[p].active THEN "clean stop" ELSE "clean work")
  BY DEF Exit
<1> QED
  BY <1>2, <1>3, GotoSets DEF Place, Others, MemoryTyped

LEMMA CallSets ==
  ASSUME MemoryTyped, NEW p \in Proc, NEW ref \in Reference, NEW caller \in Caller, Call(p, ref, caller)
  PROVE  /\ MemoryTyped' /\ Others(p)
         /\ pc'[p] = "start check"
         /\ Held(p)
<1>1. mem \in [Proc -> Memory] /\ mem' = [mem EXCEPT ![p].image = ref, ![p].caller = caller]
  BY DEF MemoryTyped, Call
<1>2. /\ mem' \in [Proc -> Memory] /\ \A q \in Proc \ {p} : mem'[q] = mem[q]
      /\ Held(p)
  BY <1>1, ZenonT(40) DEF Memory, Held
<1>3. Goto(p, "start check")
  BY DEF Call
<1> QED
  BY <1>2, <1>3, GotoSets DEF Place, Others, MemoryTyped

LEMMA LeaveSets ==
  ASSUME MemoryTyped, NEW p \in Proc, Leave(p)
  PROVE  /\ MemoryTyped' /\ Others(p)
         /\ pc'[p] = "idle" /\ ~mem'[p].active /\ mem'[p].backup = None /\ mem'[p].set = {}
BY ImageAssumption DEF MemoryTyped, Leave, Goto, Anywhere, NoCommand, Memory, Others, CommandName, Caller,
   Config, Reference

LEMMA GoesSets ==
  ASSUME MemoryTyped, NEW p \in Proc, NEW l \in Place, Goto(p, l), UNCHANGED mem
  PROVE  MemoryTyped' /\ Others(p) /\ pc'[p] = l
BY GotoSets, Zenon DEF MemoryTyped, Others

LEMMA BeginSets ==
  ASSUME MemoryTyped, NEW p \in Proc, Begin(p)
  PROVE  MemoryTyped' /\ Others(p) /\ pc'[p] = "lock" /\ ~mem'[p].active /\ mem'[p].set = {}
<1>1. PICK c \in Command : mem' = [mem EXCEPT ![p] = c]
  BY DEF Begin
<1>2. c \in Memory /\ ~c.active /\ c.set = {}
  BY DEF Command, NoCommand, Memory, CommandName, Caller, Config, Reference
<1>3. /\ mem' \in [Proc -> Memory] /\ \A q \in Proc \ {p} : mem'[q] = mem[q]
      /\ mem'[p] = c
  BY <1>1, <1>2 DEF MemoryTyped
<1>4. pc' \in [Proc -> Anywhere] /\ pc'[p] = "lock" /\ \A q \in Proc \ {p} : pc'[q] = pc[q]
  BY DEF MemoryTyped, Begin, Goto, Anywhere
<1> QED
  BY <1>2, <1>3, <1>4, Zenon DEF MemoryTyped, Others

\* A step that sets variables of its own.
Own(p) == mem' \in [Proc -> Memory] /\ \A q \in Proc \ {p} : mem'[q] = mem[q]

LEMMA TargetSets ==
  ASSUME MemoryTyped, NEW p \in Proc, NEW t \in Reference, NEW o \in Reference,
         mem' = [mem EXCEPT ![p].image = t, ![p].old = o]
  PROVE  /\ Own(p)
         /\ Held(p) /\ mem'[p].old = o /\ mem'[p].image = t
         /\ mem'[p].caller = mem[p].caller
<1>1. mem \in [Proc -> Memory]
  BY DEF MemoryTyped
<1> QED
  BY <1>1 DEF Memory, Held, Own

LEMMA WasSets ==
  ASSUME MemoryTyped, NEW p \in Proc, NEW w \in BOOLEAN,
         mem' = [mem EXCEPT ![p].was = w]
  PROVE  /\ Own(p)
         /\ Held(p) /\ mem'[p].old = mem[p].old /\ mem'[p].image = mem[p].image
<1>1. mem \in [Proc -> Memory]
  BY DEF MemoryTyped
<1> QED
  BY <1>1 DEF Memory, Held, Own

LEMMA NoteSets ==
  ASSUME MemoryTyped, NEW p \in Proc, NEW w \in BOOLEAN, NEW t \in Reference,
         mem' = [mem EXCEPT ![p].was = w, ![p].image = t]
  PROVE  /\ Own(p)
         /\ Held(p)
<1>1. mem \in [Proc -> Memory]
  BY DEF MemoryTyped
<1> QED
  BY <1>1 DEF Memory, Held, Own

LEMMA BackupSets ==
  ASSUME MemoryTyped, NEW p \in Proc, NEW c \in Config,
         mem' = [mem EXCEPT ![p].backup = c]
  PROVE  /\ Own(p)
         /\ mem'[p].active = mem[p].active /\ mem'[p].backup = c /\ mem'[p].set = mem[p].set
<1>1. mem \in [Proc -> Memory]
  BY DEF MemoryTyped
<1> QED
  BY <1>1 DEF Memory, Held, Own

LEMMA ActiveSets ==
  ASSUME MemoryTyped, NEW p \in Proc, NEW b \in BOOLEAN,
         mem' = [mem EXCEPT ![p].active = b]
  PROVE  /\ Own(p)
         /\ mem'[p].active = b /\ mem'[p].backup = mem[p].backup /\ mem'[p].set = mem[p].set
<1>1. mem \in [Proc -> Memory]
  BY DEF MemoryTyped
<1> QED
  BY <1>1 DEF Memory, Held, Own

LEMMA SetSets ==
  ASSUME MemoryTyped, NEW p \in Proc, NEW v \in {"work", "backup", "was"},
         mem' = [mem EXCEPT ![p].set = @ \cup {v}]
  PROVE  /\ Own(p)
         /\ mem'[p].active = mem[p].active /\ mem'[p].backup = mem[p].backup
         /\ mem'[p].set = mem[p].set \cup {v}
<1>1. mem \in [Proc -> Memory]
  BY DEF MemoryTyped
<1> QED
  BY <1>1 DEF Memory, Held, Own

\* The old image of a switch is what the configured reference means, or that reference.
LEMMA SwitchRemembers ==
  ASSUME Typed, NEW p \in Proc, Switch(p)
  PROVE  LET target == IF mem[p].name = "rollback" THEN previousFile ELSE mem[p].arg IN
         \/ Exit(p, 1)
         \/ /\ target # None
            /\ \E old \in Reference : /\ mem' = [mem EXCEPT ![p].image = target, ![p].old = old]
                                     /\ Goto(p, "switch pull")
                                     /\ \/ old = Resolve(configured_image)
                                        \/ old = configured_image
<1>1. configured_image \in Reference /\ Resolve(configured_image) \in Reference
  BY References DEF Typed
<1> QED
  BY <1>1, Zenon DEF Switch

\* What a step of p does to the memory of the commands.
Sets(p) == MemoryTyped' /\ Others(p)

LEMMA StepMemory ==
  ASSUME Typed, NEW p \in Proc,
         Begin(p) \/ Lock(p) \/ Plain(p) \/ Start(p) \/ SwitchStep(p) \/ RenewStep(p) \/ Cleanup(p)
           \/ Abort(p) \/ Kill(p)
  PROVE  Sets(p)
<1>a. /\ \A l \in Place : Goto(p, l) /\ UNCHANGED mem => Sets(p)
      /\ \A s \in {0, 1} : Exit(p, s) => Sets(p)
      /\ \A ref \in Reference, caller \in Caller : Call(p, ref, caller) => Sets(p)
      /\ Leave(p) => Sets(p)
  BY GoesSets, ExitSets, CallSets, LeaveSets, Zenon DEF Typed, Sets
<1>b. \A l \in Place : Goto(p, l) /\ mem' \in [Proc -> Memory] /\ (\A q \in Proc \ {p} : mem'[q] = mem[q]) => Sets(p)
  BY GotoSets, Zenon DEF Typed, MemoryTyped, Sets, Others
<1>c. /\ mem[p].image \in Reference /\ mem[p].arg \in Reference /\ mem[p].old \in Reference
      /\ previousFile \in Reference /\ configured_image \in Reference /\ Resolve(configured_image) \in Image \cup {None}
      /\ container.up \in BOOLEAN /\ config \in Config /\ None \in Config
  BY References DEF Typed, MemoryTyped, Memory, FilesTyped, StateTyped, Reference, Config
<1>d. \A c \in {"up", "switch", "restore", "renew", "cleanup"} : c \in Caller
  BY Zenon DEF Caller
<1>e. 0 \in {0, 1} /\ 1 \in {0, 1}
  OBVIOUS
<1>f. ASSUME NEW s \in {0, 1}, Return(p, s) PROVE Sets(p)
  BY <1>a, <1>e, <1>f, Zenon DEF Return, Place
<1>g. MemoryTyped /\ TRUE \in BOOLEAN /\ FALSE \in BOOLEAN
  BY DEF Typed
<1>h. /\ \A t, o \in Reference : mem' = [mem EXCEPT ![p].image = t, ![p].old = o] => Own(p)
      /\ \A w \in BOOLEAN : mem' = [mem EXCEPT ![p].was = w] => Own(p)
      /\ \A w \in BOOLEAN, t \in Reference : mem' = [mem EXCEPT ![p].was = w, ![p].image = t] => Own(p)
  BY <1>g, TargetSets, WasSets, NoteSets, Zenon
<1>i. /\ \A c \in Config : mem' = [mem EXCEPT ![p].backup = c] => Own(p)
      /\ \A b \in BOOLEAN : mem' = [mem EXCEPT ![p].active = b] => Own(p)
      /\ \A v \in {"work", "backup", "was"} : mem' = [mem EXCEPT ![p].set = @ \cup {v}] => Own(p)
  BY <1>g, BackupSets, ActiveSets, SetSets, Zenon
<1>n. \A l \in Place : Goto(p, l) /\ Own(p) => Sets(p)
  BY <1>b, Zenon DEF Own
<1>1. CASE generate_config(p)
  BY <1>a, <1>b, <1>c, <1>d, <1>e, <1>f, <1>1, Zenon DEF generate_config, Place, At
<1>2. CASE WriteImage(p)
  BY <1>a, <1>b, <1>c, <1>d, <1>e, <1>f, <1>2, Zenon DEF WriteImage, Place, At
<1>3. CASE Up(p)
  BY <1>a, <1>b, <1>c, <1>d, <1>e, <1>f, <1>3, Zenon DEF Up, Place, At
<1>4. CASE Down(p)
  BY <1>a, <1>b, <1>c, <1>d, <1>e, <1>f, <1>4, Zenon DEF Down, Place, At, stop_and_remove
<1>5. CASE Forget(p)
  BY <1>a, <1>b, <1>c, <1>d, <1>e, <1>f, <1>5, Zenon DEF Forget, Place, At
<1>6. CASE StartCheck(p)
  BY <1>a, <1>b, <1>c, <1>d, <1>e, <1>f, <1>6, Zenon DEF StartCheck, Place, At, Abandon
<1>7. CASE StartRun(p)
  BY <1>a, <1>b, <1>c, <1>d, <1>e, <1>f, <1>7, Zenon DEF StartRun, Place, At
<1>8. CASE StartObserve(p)
  BY <1>a, <1>b, <1>c, <1>d, <1>e, <1>f, <1>8, Zenon DEF StartObserve, Place, At
<1>9. CASE Switch(p)
  <2> DEFINE target == IF mem[p].name = "rollback" THEN previousFile ELSE mem[p].arg
  <2>1. target \in Reference
    BY <1>c, Zenon
  <2>2. \/ Exit(p, 1)
        \/ \E old \in Reference : /\ mem' = [mem EXCEPT ![p].image = target, ![p].old = old]
                                 /\ Goto(p, "switch pull")
    BY <1>9, <1>c, SwitchRemembers, Zenon
  <2> QED
    BY <1>a, <1>e, <1>h, <1>n, <2>1, <2>2, Zenon DEF Place
<1>10. CASE SwitchPull(p)
  BY <1>a, <1>b, <1>c, <1>d, <1>e, <1>f, <1>10, Zenon DEF SwitchPull, Place, At
<1>11. CASE SwitchCheck(p)
  BY <1>a, <1>c, <1>e, <1>h, <1>n, <1>11, Zenon DEF SwitchCheck, Place
<1>12. CASE SwitchStop(p)
  BY <1>a, <1>b, <1>c, <1>d, <1>e, <1>f, <1>12, Zenon DEF SwitchStop, Place, At, stop_and_remove
<1>13. CASE SwitchRemove(p)
  BY <1>a, <1>b, <1>c, <1>d, <1>e, <1>f, <1>13, Zenon DEF SwitchRemove, Place, At, stop_and_remove
<1>14. CASE SwitchRecord(p)
  BY <1>a, <1>b, <1>c, <1>d, <1>e, <1>f, <1>14, Zenon DEF SwitchRecord, Place, At
<1>15. CASE SwitchImage(p)
  BY <1>a, <1>b, <1>c, <1>d, <1>e, <1>f, <1>15, Zenon DEF SwitchImage, Place, At
<1>16. CASE Renew(p)
  BY <1>a, <1>c, <1>e, <1>h, <1>n, <1>16, Zenon DEF Renew, Place
<1>17. CASE RenewCopy(p)
  BY <1>c, <1>i, <1>n, <1>17, Zenon DEF RenewCopy, Place
<1>18. CASE RenewActive(p)
  BY <1>g, <1>i, <1>n, <1>18, Zenon DEF RenewActive, Place
<1>19. CASE RenewStop(p)
  BY <1>a, <1>b, <1>c, <1>d, <1>e, <1>f, <1>19, Zenon DEF RenewStop, Place, At, stop_and_remove
<1>20. CASE RenewGenerate(p)
  BY <1>a, <1>b, <1>c, <1>d, <1>e, <1>f, <1>20, Zenon DEF RenewGenerate, Place, At
<1>21. CASE RenewInstall(p)
  BY <1>a, <1>b, <1>c, <1>d, <1>e, <1>f, <1>21, Zenon DEF RenewInstall, Place, At
<1>22. CASE RenewInstalled(p)
  BY <1>a, <1>b, <1>c, <1>d, <1>e, <1>f, <1>22, Zenon DEF RenewInstalled, Place, At
<1>23. CASE RenewDone(p)
  BY <1>g, <1>i, <1>n, <1>23, Zenon DEF RenewDone, Place
<1>33. CASE RenewSets(p)
  BY <1>i, <1>n, <1>33, Zenon DEF RenewSets, RenewWork, RenewBackup, RenewWas, SetFor, Place
<1>34. CASE RenewPrinted(p)
  BY <1>c, <1>i, <1>n, <1>34, Zenon DEF RenewPrinted, Place
<1>24. CASE CleanStop(p)
  BY <1>a, <1>b, <1>c, <1>d, <1>e, <1>f, <1>24, Zenon DEF CleanStop, Place, At, stop_and_remove
<1>25. CASE CleanEmpty(p)
  BY <1>a, <1>b, <1>c, <1>d, <1>e, <1>f, <1>25, Zenon DEF CleanEmpty, Place, At
<1>26. CASE CleanRestore(p)
  BY <1>a, <1>b, <1>c, <1>d, <1>e, <1>f, <1>26, Zenon DEF CleanRestore, Place, At
<1>27. CASE CleanWork(p)
  BY <1>c, <1>i, <1>n, <1>27, Zenon DEF CleanWork, Place
<1>28. CASE CleanLock(p)
  BY <1>a, <1>b, <1>c, <1>d, <1>e, <1>f, <1>28, Zenon DEF CleanLock, Place, At
<1>29. CASE Abort(p)
  BY <1>a, <1>e, <1>29, Zenon DEF Abort
<1>30. CASE Kill(p)
  BY <1>a, <1>b, <1>c, <1>d, <1>e, <1>f, <1>30, Zenon DEF Kill, Place, At, Abandon
<1>31. CASE Lock(p)
  BY <1>a, <1>b, <1>c, <1>d, <1>e, <1>f, <1>31, Zenon DEF Lock, Place, At, First
<1>32. CASE Begin(p)
  BY <1>32, BeginSets, Zenon DEF Typed, Sets
<1> QED
  BY <1>1, <1>2, <1>3, <1>4, <1>5, <1>6, <1>7, <1>8, <1>9, <1>10, <1>11, <1>12, <1>13, <1>14, <1>15, <1>16,
     <1>17, <1>18, <1>19, <1>20, <1>21, <1>22, <1>23, <1>24, <1>25, <1>26, <1>27, <1>28, <1>29, <1>30, <1>31,
     <1>32, <1>33, <1>34, Zenon DEF Plain, Start, SwitchStep, RenewStep, RenewSets, Cleanup

\* The images a step may touch, and the configuration.
ImagesSame == UNCHANGED <<imageFile, previousFile, registry, tags, local, origin, astray, purged>>
ConfigSame == UNCHANGED <<config, left, lost, gen>>

CommandStep(p) == \/ Begin(p) \/ Lock(p) \/ Plain(p) \/ Start(p) \/ SwitchStep(p) \/ RenewStep(p)
                  \/ Cleanup(p) \/ Abort(p) \/ Kill(p)

\* Six steps touch the images or the record of them.
LEMMA WhatTouchesImages ==
  ASSUME NEW p \in Proc, CommandStep(p)
  PROVE  \/ ImagesSame
         \/ generate_config(p) \/ WriteImage(p) \/ Forget(p)
         \/ SwitchPull(p) \/ SwitchRecord(p) \/ SwitchImage(p)
<1>1. CASE Up(p)
  BY <1>1, Zenon DEF Up, ImagesSame, files, images, history
<1>2. CASE Down(p)
  BY <1>2, Zenon DEF Down, ImagesSame, files, images, history
<1>3. CASE StartCheck(p)
  BY <1>3, Zenon DEF StartCheck, Abandon, ImagesSame, files, images, history
<1>4. CASE StartRun(p)
  BY <1>4, Zenon DEF StartRun, ImagesSame, files, images, history
<1>5. CASE StartObserve(p)
  BY <1>5, Zenon DEF StartObserve, ImagesSame, files, images, history
<1>6. CASE Switch(p)
  BY <1>6, Zenon DEF Switch, ImagesSame, files, images, history
<1>7. CASE SwitchStop(p)
  BY <1>7, Zenon DEF SwitchStop, ImagesSame, files, images, history
<1>8. CASE SwitchRemove(p)
  BY <1>8, Zenon DEF SwitchRemove, ImagesSame, files, images, history
<1>9. CASE Renew(p)
  BY <1>9, Zenon DEF Renew, ImagesSame, files, images, history
<1>10. CASE RenewCopy(p)
  BY <1>10, Zenon DEF RenewCopy, ImagesSame, files, images, history
<1>11. CASE RenewActive(p)
  BY <1>11, Zenon DEF RenewActive, ImagesSame, files, images, history
<1>12. CASE RenewStop(p)
  BY <1>12, Zenon DEF RenewStop, ImagesSame, files, images, history
<1>13. CASE RenewGenerate(p)
  BY <1>13, Zenon DEF RenewGenerate, ImagesSame, files, images, history
<1>14. CASE RenewInstall(p)
  BY <1>14, Zenon DEF RenewInstall, ImagesSame, files, images, history
<1>15. CASE RenewInstalled(p)
  BY <1>15, Zenon DEF RenewInstalled, ImagesSame, files, images, history
<1>16. CASE RenewDone(p)
  BY <1>16, Zenon DEF RenewDone, ImagesSame, files, images, history
<1>17. CASE CleanStop(p)
  BY <1>17, Zenon DEF CleanStop, ImagesSame, files, images, history
<1>18. CASE CleanEmpty(p)
  BY <1>18, Zenon DEF CleanEmpty, ImagesSame, files, images, history
<1>19. CASE CleanRestore(p)
  BY <1>19, Zenon DEF CleanRestore, ImagesSame, files, images, history
<1>20. CASE CleanWork(p)
  BY <1>20, Zenon DEF CleanWork, ImagesSame, files, images, history
<1>21. CASE CleanLock(p)
  BY <1>21, Zenon DEF CleanLock, ImagesSame, files, images, history
<1>22. CASE Abort(p)
  BY <1>22, Zenon DEF Abort, ImagesSame, files, images, history
<1>23. CASE Kill(p)
  BY <1>23, Zenon DEF Kill, Abandon, ImagesSame, files, images, history
<1>24. CASE Lock(p)
  BY <1>24, Zenon DEF Lock, ImagesSame, files, images, history
<1>25. CASE Begin(p)
  BY <1>25, Zenon DEF Begin, ImagesSame, files, images, history
<1>26. CASE RenewSets(p)
  BY <1>26, Zenon DEF RenewSets, RenewWork, RenewBackup, RenewWas, ImagesSame, files, images, history
<1>27. CASE RenewPrinted(p)
  BY <1>27, Zenon DEF RenewPrinted, ImagesSame, files, images, history
<1>28. CASE SwitchCheck(p)
  BY <1>28, Zenon DEF SwitchCheck, ImagesSame, files, images, history
<1> QED
  BY <1>1, <1>2, <1>3, <1>4, <1>5, <1>6, <1>7, <1>8, <1>9, <1>10, <1>11, <1>12, <1>13, <1>14, <1>15, <1>16,
     <1>17, <1>18, <1>19, <1>20, <1>21, <1>22, <1>23, <1>24, <1>25, <1>26, <1>27, <1>28, Zenon
     DEF CommandStep, Plain, Start, SwitchStep, RenewStep, RenewSets, Cleanup

\* Eight steps touch the configuration or its copies.
LEMMA WhatTouchesConfig ==
  ASSUME NEW p \in Proc, CommandStep(p)
  PROVE  \/ ConfigSame
         \/ generate_config(p) \/ Forget(p) \/ RenewInstall(p) \/ RenewInstalled(p)
         \/ CleanEmpty(p) \/ CleanRestore(p) \/ CleanWork(p)
         \/ Abandon(p)
<1>1. CASE WriteImage(p)
  BY <1>1, Zenon DEF WriteImage, ConfigSame, files, history
<1>2. CASE Up(p)
  BY <1>2, Zenon DEF Up, ConfigSame, files, history
<1>3. CASE Down(p)
  BY <1>3, Zenon DEF Down, ConfigSame, files, history
<1>4. CASE StartCheck(p)
  BY <1>4, Zenon DEF StartCheck, ConfigSame, files, history
<1>5. CASE StartRun(p)
  BY <1>5, Zenon DEF StartRun, ConfigSame, files, history
<1>6. CASE StartObserve(p)
  BY <1>6, Zenon DEF StartObserve, ConfigSame, files, history
<1>7. CASE Switch(p)
  BY <1>7, Zenon DEF Switch, ConfigSame, files, history
<1>8. CASE SwitchPull(p)
  BY <1>8, Zenon DEF SwitchPull, ConfigSame, files, history
<1>9. CASE SwitchCheck(p)
  BY <1>9, Zenon DEF SwitchCheck, ConfigSame, files, history
<1>10. CASE SwitchStop(p)
  BY <1>10, Zenon DEF SwitchStop, ConfigSame, files, history
<1>11. CASE SwitchRemove(p)
  BY <1>11, Zenon DEF SwitchRemove, ConfigSame, files, history
<1>12. CASE SwitchRecord(p)
  BY <1>12, Zenon DEF SwitchRecord, ConfigSame, files, history
<1>13. CASE SwitchImage(p)
  BY <1>13, Zenon DEF SwitchImage, ConfigSame, files, history
<1>14. CASE Renew(p)
  BY <1>14, Zenon DEF Renew, ConfigSame, files, history
<1>15. CASE RenewCopy(p)
  BY <1>15, Zenon DEF RenewCopy, ConfigSame, files, history
<1>16. CASE RenewActive(p)
  BY <1>16, Zenon DEF RenewActive, ConfigSame, files, history
<1>17. CASE RenewStop(p)
  BY <1>17, Zenon DEF RenewStop, ConfigSame, files, history
<1>18. CASE RenewGenerate(p)
  BY <1>18, Zenon DEF RenewGenerate, ConfigSame, files, history
<1>19. CASE RenewDone(p)
  BY <1>19, Zenon DEF RenewDone, ConfigSame, files, history
<1>20. CASE CleanStop(p)
  BY <1>20, Zenon DEF CleanStop, ConfigSame, files, history
<1>22. CASE CleanLock(p)
  BY <1>22, Zenon DEF CleanLock, ConfigSame, files, history
<1>23. CASE Kill(p)
  BY <1>23, Zenon DEF Kill, ConfigSame, files, history
<1>24. CASE Lock(p)
  BY <1>24, Zenon DEF Lock, ConfigSame, files, history
<1>25. CASE Begin(p)
  BY <1>25, Zenon DEF Begin, ConfigSame, files, history
<1>26. CASE RenewSets(p)
  BY <1>26, Zenon DEF RenewSets, RenewWork, RenewBackup, RenewWas, ConfigSame, files, history
<1>27. CASE RenewPrinted(p)
  BY <1>27, Zenon DEF RenewPrinted, ConfigSame, files, history
<1>28. CASE Abort(p)
  BY <1>28, Zenon DEF Abort, ConfigSame, files, history
<1> QED
  BY <1>1, <1>2, <1>3, <1>4, <1>5, <1>6, <1>7, <1>8, <1>9, <1>10, <1>11, <1>12, <1>13, <1>14, <1>15, <1>16,
     <1>17, <1>18, <1>19, <1>20, <1>22, <1>23, <1>24, <1>25, <1>26, <1>27, <1>28, Zenon
     DEF CommandStep, Plain, Start, SwitchStep, RenewStep, RenewSets, Cleanup

LEMMA StepFiles ==
  ASSUME Typed, NEW p \in Proc, CommandStep(p)
  PROVE  FilesTyped'
<1>a. /\ FilesTyped /\ mem[p].image \in Reference /\ mem[p].old \in Reference
      /\ before[p].resolved \in Image \cup {None}
  BY DEF Typed, MemoryTyped, Memory, HistoryTyped, History
<1>1. CASE ImagesSame
  BY <1>a, <1>1 DEF ImagesSame, FilesTyped
<1>2. CASE generate_config(p)
  <2> DEFINE image == IF Resolve(configured_image) = None THEN registry[configured_image]
                                                          ELSE Resolve(configured_image)
  <2>1. image \in Image
    <3>1. CASE Resolve(configured_image) = None
      <4>1. configured_image \in TagName
        BY <1>a, <3>1, References, Zenon DEF Resolve, Reference
      <4> QED
        BY <1>a, <3>1, <4>1, ImageAssumption DEF FilesTyped
    <3>2. CASE Resolve(configured_image) # None
      BY <1>a, <3>2, References, Zenon
    <3> QED
      BY <3>1, <3>2
  <2>2. /\ UNCHANGED <<imageFile, previousFile, registry, origin, astray>>
        /\ \/ UNCHANGED <<tags, local>>
           \/ /\ tags' = tags \/ tags' = [tags EXCEPT ![configured_image] = image]
              /\ local' = local \cup {image}
    BY <1>2, Zenon DEF generate_config, history
  <2> QED
    BY <1>a, <2>1, <2>2 DEF FilesTyped
<1>3. CASE WriteImage(p)
  BY <1>a, <1>3, References DEF WriteImage, FilesTyped, history, images
<1>4. CASE Forget(p)
  BY <1>a, <1>4 DEF Forget, FilesTyped, images, Reference
<1>5. CASE SwitchPull(p)
  <2> DEFINE target == mem[p].image
  <2>1. /\ UNCHANGED <<imageFile, previousFile, registry>>
        /\ origin' \in {before[p].resolved, origin} /\ astray' \in BOOLEAN
        /\ \/ UNCHANGED <<tags, local>>
           \/ /\ target \in TagName
              /\ tags' = [tags EXCEPT ![target] = registry[target]]
              /\ local' = local \cup {registry[target]}
    <3>1. astray \in BOOLEAN
      BY <1>a DEF FilesTyped
    <3>2. (target = configured_image /\ tags[target] \notin {None, registry[target]}) \in BOOLEAN
      OBVIOUS
    <3> QED
      BY <1>5, <3>1, <3>2, Zenon DEF SwitchPull, files
  <2>2. target \in TagName => registry[target] \in Image
    BY <1>a, ImageAssumption DEF FilesTyped
  <2> QED
    BY <1>a, <2>1, <2>2 DEF FilesTyped
<1>7. CASE SwitchRecord(p)
  BY <1>a, <1>7 DEF SwitchRecord, FilesTyped, images
<1>8. CASE SwitchImage(p)
  BY <1>a, <1>8 DEF SwitchImage, FilesTyped, history, images
<1> QED
  BY <1>1, <1>2, <1>3, <1>4, <1>5, <1>7, <1>8, WhatTouchesImages, Zenon

ConfigTyped == config \in Config /\ left \subseteq Config /\ gen \in Nat

LEMMA StepConfig ==
  ASSUME Typed, NEW p \in Proc, CommandStep(p)
  PROVE  ConfigTyped'
<1>a. ConfigTyped /\ mem[p].backup \in Config
  BY DEF Typed, MemoryTyped, Memory, StateTyped, ConfigTyped
<1>b. gen + 1 \in Nat /\ gen + 1 \in Config /\ None \in Config /\ Partial \in Config
  BY <1>a DEF ConfigTyped, Config, Partial
<1> USE DEF ConfigTyped
<1>1. CASE ConfigSame
  BY <1>a, <1>1 DEF ConfigSame
<1>2. CASE generate_config(p)
  BY <1>a, <1>b, <1>2, Zenon DEF generate_config, history
<1>3. CASE Forget(p)
  BY <1>a, <1>3 DEF Forget, Config
<1>4. CASE RenewInstall(p) \/ RenewInstalled(p)
  BY <1>a, <1>b, <1>4, Zenon DEF RenewInstall, RenewInstalled
<1>5. CASE CleanEmpty(p) \/ CleanRestore(p)
  BY <1>a, <1>b, <1>5, Zenon DEF CleanEmpty, CleanRestore
<1>6. CASE Abandon(p) \/ CleanWork(p)
  BY <1>a, <1>6 DEF Abandon, CleanWork, files
<1> QED
  BY <1>1, <1>2, <1>3, <1>4, <1>5, <1>6, WhatTouchesConfig, Zenon

\* The lock, the container and the failures.
RestTyped ==
  /\ lock \in BOOLEAN /\ excused \subseteq Proc
  /\ container \in [image : Image \cup {None}, config : Config, up : BOOLEAN]

LEMMA StepRest ==
  ASSUME Typed, NEW p \in Proc, CommandStep(p)
  PROVE  RestTyped'
<1>a. RestTyped /\ Resolve(mem[p].image) \in Image \cup {None} /\ config \in Config
  BY References DEF Typed, MemoryTyped, Memory, StateTyped, RestTyped
<1>b. NoContainer \in [image : Image \cup {None}, config : Config, up : BOOLEAN]
  BY DEF NoContainer, Config
<1>c. [container EXCEPT !.up = FALSE] \in [image : Image \cup {None}, config : Config, up : BOOLEAN]
  BY <1>a DEF RestTyped
<1>d. /\ Faultless => excused' \subseteq Proc
      /\ Faulty(p) => excused' \subseteq Proc
      /\ Excused(p) => excused' \subseteq Proc
  BY <1>a DEF RestTyped, Faultless, Faulty, Excused
<1>e. UNCHANGED excused => excused' \subseteq Proc
  BY <1>a DEF RestTyped
<1>f. /\ UNCHANGED lock => lock' \in BOOLEAN
      /\ UNCHANGED container => container' \in [image : Image \cup {None}, config : Config, up : BOOLEAN]
      /\ FALSE \in BOOLEAN /\ TRUE \in BOOLEAN
  BY <1>a DEF RestTyped
<1>g. LET made == [image |-> Resolve(mem[p].image), config |-> config, up |-> TRUE]
      IN  /\ made \in [image : Image \cup {None}, config : Config, up : BOOLEAN]
          /\ [made EXCEPT !.up = FALSE] \in [image : Image \cup {None}, config : Config, up : BOOLEAN]
  <2> DEFINE made == [image |-> Resolve(mem[p].image), config |-> config, up |-> TRUE]
  <2>1. made \in [image : Image \cup {None}, config : Config, up : BOOLEAN]
    BY <1>a
  <2> HIDE DEF made
  <2>2. [made EXCEPT !.up = FALSE] \in [image : Image \cup {None}, config : Config, up : BOOLEAN]
    BY <2>1
  <2> QED
    BY <2>1, <2>2 DEF made
<1>h. excused' = excused \cup {p} \/ excused' = excused \ {p} => excused' \subseteq Proc
  BY <1>a DEF RestTyped
<1>1. CASE generate_config(p)
  BY <1>b, <1>c, <1>d, <1>e, <1>f, <1>1, Zenon DEF generate_config, RestTyped
<1>2. CASE WriteImage(p)
  BY <1>b, <1>c, <1>d, <1>e, <1>f, <1>2, Zenon DEF WriteImage, RestTyped
<1>3. CASE Up(p)
  BY <1>b, <1>c, <1>d, <1>e, <1>f, <1>3, Zenon DEF Up, RestTyped
<1>4. CASE Down(p)
  BY <1>b, <1>c, <1>d, <1>e, <1>f, <1>4, Zenon DEF Down, RestTyped, stop_and_remove
<1>5. CASE Forget(p)
  BY <1>b, <1>c, <1>d, <1>e, <1>f, <1>5, Zenon DEF Forget, RestTyped
<1>6. CASE StartCheck(p)
  BY <1>b, <1>c, <1>d, <1>e, <1>f, <1>6, Zenon DEF StartCheck, RestTyped, Abandon
<1>7. CASE StartRun(p)
  BY <1>b, <1>c, <1>d, <1>e, <1>f, <1>g, <1>7, Zenon DEF StartRun, RestTyped
<1>8. CASE StartObserve(p)
  BY <1>b, <1>c, <1>d, <1>e, <1>f, <1>8, Zenon DEF StartObserve, RestTyped
<1>9. CASE Switch(p)
  BY <1>d, <1>f, <1>9, Zenon DEF Switch, RestTyped
<1>10. CASE SwitchPull(p)
  BY <1>b, <1>c, <1>d, <1>e, <1>f, <1>10, Zenon DEF SwitchPull, RestTyped
<1>11. CASE SwitchCheck(p)
  BY <1>b, <1>c, <1>d, <1>e, <1>f, <1>11, Zenon DEF SwitchCheck, RestTyped
<1>12. CASE SwitchStop(p)
  BY <1>b, <1>c, <1>d, <1>e, <1>f, <1>12, Zenon DEF SwitchStop, RestTyped, stop_and_remove
<1>13. CASE SwitchRemove(p)
  BY <1>b, <1>c, <1>d, <1>e, <1>f, <1>13, Zenon DEF SwitchRemove, RestTyped, stop_and_remove
<1>14. CASE SwitchRecord(p)
  BY <1>b, <1>c, <1>d, <1>e, <1>f, <1>14, Zenon DEF SwitchRecord, RestTyped
<1>15. CASE SwitchImage(p)
  BY <1>b, <1>c, <1>d, <1>e, <1>f, <1>15, Zenon DEF SwitchImage, RestTyped
<1>16. CASE Renew(p)
  BY <1>b, <1>c, <1>d, <1>e, <1>f, <1>16, Zenon DEF Renew, RestTyped
<1>17. CASE RenewCopy(p)
  BY <1>b, <1>c, <1>d, <1>e, <1>f, <1>17, Zenon DEF RenewCopy, RestTyped
<1>18. CASE RenewActive(p)
  BY <1>b, <1>c, <1>d, <1>e, <1>f, <1>18, Zenon DEF RenewActive, RestTyped
<1>19. CASE RenewStop(p)
  BY <1>b, <1>c, <1>d, <1>e, <1>f, <1>19, Zenon DEF RenewStop, RestTyped, stop_and_remove
<1>20. CASE RenewGenerate(p)
  BY <1>b, <1>c, <1>d, <1>e, <1>f, <1>20, Zenon DEF RenewGenerate, RestTyped
<1>21. CASE RenewInstall(p)
  BY <1>b, <1>c, <1>d, <1>e, <1>f, <1>21, Zenon DEF RenewInstall, RestTyped
<1>22. CASE RenewInstalled(p)
  BY <1>b, <1>c, <1>d, <1>e, <1>f, <1>22, Zenon DEF RenewInstalled, RestTyped
<1>23. CASE RenewDone(p)
  BY <1>b, <1>c, <1>d, <1>e, <1>f, <1>23, Zenon DEF RenewDone, RestTyped
<1>24. CASE CleanStop(p)
  BY <1>b, <1>c, <1>d, <1>e, <1>f, <1>24, Zenon DEF CleanStop, RestTyped, stop_and_remove
<1>25. CASE CleanEmpty(p)
  BY <1>b, <1>c, <1>d, <1>e, <1>f, <1>25, Zenon DEF CleanEmpty, RestTyped
<1>26. CASE CleanRestore(p)
  BY <1>b, <1>c, <1>d, <1>e, <1>f, <1>26, Zenon DEF CleanRestore, RestTyped
<1>27. CASE CleanWork(p)
  BY <1>b, <1>c, <1>d, <1>e, <1>f, <1>27, Zenon DEF CleanWork, RestTyped
<1>28. CASE CleanLock(p)
  BY <1>b, <1>c, <1>d, <1>e, <1>f, <1>28, Zenon DEF CleanLock, RestTyped
<1>29. CASE Abort(p)
  BY <1>b, <1>c, <1>d, <1>e, <1>f, <1>h, <1>29, Zenon DEF Abort, RestTyped
<1>30. CASE Kill(p)
  BY <1>b, <1>c, <1>d, <1>e, <1>f, <1>h, <1>30, Zenon DEF Kill, RestTyped, Abandon
<1>31. CASE Lock(p)
  BY <1>b, <1>c, <1>d, <1>e, <1>f, <1>31, Zenon DEF Lock, RestTyped
<1>32. CASE Begin(p)
  BY <1>b, <1>c, <1>d, <1>e, <1>f, <1>h, <1>32, Zenon DEF Begin, RestTyped
<1>33. CASE RenewSets(p)
  BY <1>d, <1>f, <1>33, Zenon DEF RenewSets, RenewWork, RenewBackup, RenewWas, RestTyped
<1>34. CASE RenewPrinted(p)
  BY <1>d, <1>f, <1>34, Zenon DEF RenewPrinted, RestTyped
<1> QED
  BY <1>1, <1>2, <1>3, <1>4, <1>5, <1>6, <1>7, <1>8, <1>9, <1>10, <1>11, <1>12, <1>13, <1>14, <1>15, <1>16,
     <1>17, <1>18, <1>19, <1>20, <1>21, <1>22, <1>23, <1>24, <1>25, <1>26, <1>27, <1>28, <1>29, <1>30, <1>31,
     <1>32, <1>33, <1>34, Zenon DEF CommandStep, Plain, Start, SwitchStep, RenewStep, RenewSets, Cleanup

-----------------------------------------------------------------------------
(* What a step does to the memory of its command.                          *)

\* What no step inside the script changes.
Same(p) == mem'[p].name = mem[p].name /\ mem'[p].arg = mem[p].arg /\ before'[p] = before[p]

LEMMA ExitKeeps ==
  ASSUME MemoryTyped, NEW p \in Proc, NEW s \in {0, 1}, Exit(p, s)
  PROVE  /\ pc'[p] = (IF s = 1 /\ mem[p].active THEN "clean stop" ELSE "clean work")
         /\ mem'[p].status = s
         /\ mem'[p].name = mem[p].name /\ mem'[p].arg = mem[p].arg
         /\ mem'[p].image = mem[p].image /\ mem'[p].old = mem[p].old /\ mem'[p].was = mem[p].was
         /\ Held(p)
<1>1. mem \in [Proc -> Memory] /\ mem' = [mem EXCEPT ![p].status = s]
  BY DEF MemoryTyped, Exit
<1>2. mem'[p] = [mem[p] EXCEPT !.status = s] /\ mem[p] \in Memory
  BY <1>1
<1>3. /\ mem'[p].status = s
      /\ mem'[p].name = mem[p].name /\ mem'[p].arg = mem[p].arg
      /\ mem'[p].image = mem[p].image /\ mem'[p].old = mem[p].old /\ mem'[p].was = mem[p].was
  BY <1>2 DEF Memory
<1> QED
  BY <1>3, ExitSets, Zenon

LEMMA CallKeeps ==
  ASSUME MemoryTyped, NEW p \in Proc, NEW ref \in Reference, NEW caller \in Caller, Call(p, ref, caller)
  PROVE  /\ pc'[p] = "start check" /\ mem'[p].image = ref /\ mem'[p].caller = caller
         /\ mem'[p].name = mem[p].name /\ mem'[p].arg = mem[p].arg
         /\ mem'[p].old = mem[p].old /\ mem'[p].was = mem[p].was /\ mem'[p].status = mem[p].status
         /\ Held(p)
<1>1. mem \in [Proc -> Memory] /\ mem' = [mem EXCEPT ![p].image = ref, ![p].caller = caller]
  BY DEF MemoryTyped, Call
<1>2. mem'[p] = [mem[p] EXCEPT !.image = ref, !.caller = caller] /\ mem[p] \in Memory
  BY <1>1, ZenonT(40)
<1> QED
  BY <1>2, CallSets DEF Memory, Held

\* The other variables a step sets.
LEMMA FieldsKeep ==
  ASSUME MemoryTyped, NEW p \in Proc
  PROVE  /\ \A t, o : mem' = [mem EXCEPT ![p].image = t, ![p].old = o] =>
              /\ mem'[p].name = mem[p].name /\ mem'[p].arg = mem[p].arg
              /\ mem'[p].image = t /\ mem'[p].old = o
              /\ Held(p)
         /\ \A w : mem' = [mem EXCEPT ![p].was = w] =>
              /\ mem'[p].name = mem[p].name /\ mem'[p].arg = mem[p].arg
              /\ mem'[p].image = mem[p].image /\ mem'[p].old = mem[p].old /\ mem'[p].was = w
              /\ Held(p)
         /\ \A w, t : mem' = [mem EXCEPT ![p].was = w, ![p].image = t] =>
              /\ mem'[p].name = mem[p].name /\ mem'[p].arg = mem[p].arg
              /\ mem'[p].image = t /\ mem'[p].was = w
              /\ Held(p)
         /\ \A c : mem' = [mem EXCEPT ![p].backup = c] =>
              /\ mem'[p].name = mem[p].name /\ mem'[p].arg = mem[p].arg /\ mem'[p].status = mem[p].status
              /\ mem'[p].image = mem[p].image /\ mem'[p].was = mem[p].was
              /\ mem'[p].active = mem[p].active /\ mem'[p].backup = c /\ mem'[p].set = mem[p].set
         /\ \A b : mem' = [mem EXCEPT ![p].active = b] =>
              /\ mem'[p].name = mem[p].name /\ mem'[p].arg = mem[p].arg
              /\ mem'[p].image = mem[p].image /\ mem'[p].was = mem[p].was /\ mem'[p].status = mem[p].status
              /\ mem'[p].active = b /\ mem'[p].backup = mem[p].backup /\ mem'[p].set = mem[p].set
         /\ \A v : mem' = [mem EXCEPT ![p].set = @ \cup {v}] =>
              /\ mem'[p].name = mem[p].name /\ mem'[p].arg = mem[p].arg
              /\ mem'[p].image = mem[p].image /\ mem'[p].was = mem[p].was /\ mem'[p].status = mem[p].status
              /\ mem'[p].active = mem[p].active /\ mem'[p].backup = mem[p].backup /\ mem'[p].set = mem[p].set \cup {v}
<1>0. mem \in [Proc -> Memory] /\ mem[p] \in Memory
  BY DEF MemoryTyped
<1>1. ASSUME NEW t, NEW o, mem' = [mem EXCEPT ![p].image = t, ![p].old = o]
      PROVE  /\ mem'[p].name = mem[p].name /\ mem'[p].arg = mem[p].arg
             /\ mem'[p].image = t /\ mem'[p].old = o
             /\ Held(p)
  <2>1. mem'[p] = [mem[p] EXCEPT !.image = t, !.old = o]
    BY <1>0, <1>1, ZenonT(40)
  <2> QED
    BY <1>0, <2>1 DEF Memory, Held
<1>2. ASSUME NEW w, mem' = [mem EXCEPT ![p].was = w]
      PROVE  /\ mem'[p].name = mem[p].name /\ mem'[p].arg = mem[p].arg
             /\ mem'[p].image = mem[p].image /\ mem'[p].old = mem[p].old /\ mem'[p].was = w
             /\ Held(p)
  <2>1. mem'[p] = [mem[p] EXCEPT !.was = w]
    BY <1>0, <1>2, ZenonT(40)
  <2> QED
    BY <1>0, <2>1 DEF Memory, Held
<1>3. ASSUME NEW w, NEW t, mem' = [mem EXCEPT ![p].was = w, ![p].image = t]
      PROVE  /\ mem'[p].name = mem[p].name /\ mem'[p].arg = mem[p].arg
             /\ mem'[p].image = t /\ mem'[p].was = w
             /\ Held(p)
  <2>1. mem'[p] = [mem[p] EXCEPT !.was = w, !.image = t]
    BY <1>0, <1>3, ZenonT(40)
  <2> QED
    BY <1>0, <2>1 DEF Memory, Held
<1>4. ASSUME NEW c, mem' = [mem EXCEPT ![p].backup = c]
      PROVE  /\ mem'[p].name = mem[p].name /\ mem'[p].arg = mem[p].arg /\ mem'[p].status = mem[p].status
             /\ mem'[p].image = mem[p].image /\ mem'[p].was = mem[p].was
             /\ mem'[p].active = mem[p].active /\ mem'[p].backup = c /\ mem'[p].set = mem[p].set
  <2>1. mem'[p] = [mem[p] EXCEPT !.backup = c]
    BY <1>0, <1>4, ZenonT(40)
  <2> QED
    BY <1>0, <2>1 DEF Memory, Held
<1>5. ASSUME NEW b, mem' = [mem EXCEPT ![p].active = b]
      PROVE  /\ mem'[p].name = mem[p].name /\ mem'[p].arg = mem[p].arg
             /\ mem'[p].image = mem[p].image /\ mem'[p].was = mem[p].was /\ mem'[p].status = mem[p].status
             /\ mem'[p].active = b /\ mem'[p].backup = mem[p].backup /\ mem'[p].set = mem[p].set
  <2>1. mem'[p] = [mem[p] EXCEPT !.active = b]
    BY <1>0, <1>5
  <2> QED
    BY <1>0, <2>1 DEF Memory, Held
<1>6. ASSUME NEW v, mem' = [mem EXCEPT ![p].set = @ \cup {v}]
      PROVE  /\ mem'[p].name = mem[p].name /\ mem'[p].arg = mem[p].arg
             /\ mem'[p].image = mem[p].image /\ mem'[p].was = mem[p].was /\ mem'[p].status = mem[p].status
             /\ mem'[p].active = mem[p].active /\ mem'[p].backup = mem[p].backup /\ mem'[p].set = mem[p].set \cup {v}
  <2>1. mem'[p] = [mem[p] EXCEPT !.set = @ \cup {v}]
    BY <1>0, <1>6
  <2> QED
    BY <1>0, <2>1 DEF Memory, Held
<1> QED
  BY <1>1, <1>2, <1>3, <1>4, <1>5, <1>6, Zenon

\* A step inside the script that stays there.
Goes(p) ==
  /\ Inside(p)' /\ mem'[p].name = mem[p].name /\ mem'[p].arg = mem[p].arg
  /\ mem'[p].backup \in {mem[p].backup, config, None}

Steady(p) == Goes(p) /\ UNCHANGED before /\ excused \subseteq excused'

Left(p) == pc'[p] = "idle" /\ mem'[p].backup = None /\ before' = [before EXCEPT ![p] = Nothing]

LEMMA InsideAt ==
  ASSUME NEW p \in Proc, NEW l \in Place
  PROVE  /\ pc[p] = l => Inside(p)
         /\ pc'[p] = l => Inside(p)'
BY OutsidePlace, Zenon DEF Inside

LEMMA HelpersGo ==
  ASSUME MemoryTyped, NEW p \in Proc
  PROVE  /\ \A l \in Place : Goto(p, l) /\ UNCHANGED mem => Goes(p)
         /\ \A s \in {0, 1} : Exit(p, s) => Goes(p)
         /\ \A ref \in Reference, caller \in Caller : Call(p, ref, caller) => Goes(p)
         /\ Leave(p) => Left(p)
         /\ \A l \in Place : Goto(p, l) => Inside(p)'
         /\ Faultless => excused \subseteq excused'
         /\ Faulty(p) => excused \subseteq excused'
         /\ Excused(p) => excused \subseteq excused'
<1>1. ASSUME NEW l \in Place, Goto(p, l), UNCHANGED mem
      PROVE  Goes(p)
  BY <1>1, GotoSets, InsideAt, Zenon DEF Goes
<1>2. ASSUME NEW s \in {0, 1}, Exit(p, s)
      PROVE  Goes(p)
  <2>1. pc'[p] = "clean stop" \/ pc'[p] = "clean work"
    BY <1>2, ExitSets, Zenon
  <2>2. Inside(p)'
    BY <2>1, InsideAt, Zenon DEF Place
  <2> QED
    BY <1>2, <2>2, ExitKeeps, Zenon DEF Goes, Held
<1>3. ASSUME NEW ref \in Reference, NEW caller \in Caller, Call(p, ref, caller)
      PROVE  Goes(p)
  <2>1. Inside(p)'
    BY <1>3, CallKeeps, InsideAt, Zenon DEF Place
  <2> QED
    BY <1>3, <2>1, CallKeeps, Zenon DEF Goes, Held
<1>4. ASSUME Leave(p)
      PROVE  Left(p)
  BY <1>4, LeaveSets, Zenon DEF Leave, Left
<1>5. ASSUME NEW l \in Place, Goto(p, l)
      PROVE  Inside(p)'
  BY <1>5, GotoSets, InsideAt, Zenon
<1>6. /\ Faultless => excused \subseteq excused'
      /\ Faulty(p) => excused \subseteq excused'
      /\ Excused(p) => excused \subseteq excused'
  BY DEF Faultless, Faulty, Excused
<1> QED
  BY <1>1, <1>2, <1>3, <1>4, <1>5, <1>6, Zenon

LEMMA StepSteady ==
  ASSUME Typed, NEW p \in Proc,
         Plain(p) \/ Start(p) \/ SwitchStep(p) \/ RenewStep(p) \/ Cleanup(p) \/ Abort(p) \/ Kill(p)
  PROVE  Steady(p) \/ (Left(p) /\ excused \subseteq excused')
<1>a. /\ \A l \in Place : Goto(p, l) /\ UNCHANGED mem => Goes(p)
      /\ \A s \in {0, 1} : Exit(p, s) => Goes(p)
      /\ \A ref \in Reference, caller \in Caller : Call(p, ref, caller) => Goes(p)
      /\ Leave(p) => Left(p)
      /\ \A l \in Place : Goto(p, l) => Inside(p)'
      /\ Faultless => excused \subseteq excused'
      /\ Faulty(p) => excused \subseteq excused'
      /\ Excused(p) => excused \subseteq excused'
  BY HelpersGo, Zenon DEF Typed
<1>c. /\ mem[p].image \in Reference /\ mem[p].old \in Reference /\ configured_image \in Reference
  BY References DEF Typed, MemoryTyped, Memory, FilesTyped, Reference
<1>d. \A c \in {"up", "switch", "restore", "renew", "cleanup"} : c \in Caller
  BY Zenon DEF Caller
<1>e. 0 \in {0, 1} /\ 1 \in {0, 1}
  OBVIOUS
<1>f. ASSUME NEW s \in {0, 1}, Return(p, s) PROVE Goes(p)
  BY <1>a, <1>e, <1>f, Zenon DEF Return, Place
<1>g. /\ UNCHANGED excused => excused \subseteq excused'
      /\ excused' = excused \cup {p} => excused \subseteq excused'
  OBVIOUS
<1>h. MemoryTyped
  BY DEF Typed
<1> DEFINE Keeps == /\ mem'[p].name = mem[p].name /\ mem'[p].arg = mem[p].arg
                    /\ mem'[p].backup \in {mem[p].backup, config, None}
<1>i. /\ \A t, o : mem' = [mem EXCEPT ![p].image = t, ![p].old = o] => Keeps
      /\ \A w : mem' = [mem EXCEPT ![p].was = w] => Keeps
      /\ \A w, t : mem' = [mem EXCEPT ![p].was = w, ![p].image = t] => Keeps
      /\ \A c \in {config, None} : mem' = [mem EXCEPT ![p].backup = c] => Keeps
      /\ \A b : mem' = [mem EXCEPT ![p].active = b] => Keeps
      /\ \A v : mem' = [mem EXCEPT ![p].set = @ \cup {v}] => Keeps
  <2>1. ASSUME NEW t, NEW o, mem' = [mem EXCEPT ![p].image = t, ![p].old = o]
        PROVE  Keeps
    BY <1>h, <2>1, FieldsKeep, Zenon DEF Held
  <2>2. ASSUME NEW w, mem' = [mem EXCEPT ![p].was = w]
        PROVE  Keeps
    BY <1>h, <2>2, FieldsKeep, Zenon DEF Held
  <2>3. ASSUME NEW w, NEW t, mem' = [mem EXCEPT ![p].was = w, ![p].image = t]
        PROVE  Keeps
    BY <1>h, <2>3, FieldsKeep, Zenon DEF Held
  <2>4. ASSUME NEW c \in {config, None}, mem' = [mem EXCEPT ![p].backup = c]
        PROVE  Keeps
    <3>1. mem'[p] = [mem[p] EXCEPT !.backup = c]
      BY <1>h, <2>4, ZenonT(40) DEF MemoryTyped
    <3>2. mem[p] \in Memory
      BY <1>h, ZenonT(40) DEF MemoryTyped
    <3>3. mem'[p].name = mem[p].name /\ mem'[p].arg = mem[p].arg /\ mem'[p].backup = c
      BY <3>1, <3>2, SMT DEF Memory
    <3> QED
      BY <3>3, SMT
  <2>5. ASSUME NEW b, mem' = [mem EXCEPT ![p].active = b]
        PROVE  Keeps
    BY <1>h, <2>5, FieldsKeep, Zenon
  <2>6. ASSUME NEW v, mem' = [mem EXCEPT ![p].set = @ \cup {v}]
        PROVE  Keeps
    BY <1>h, <2>6, FieldsKeep, Zenon
  <2> QED
    BY <2>1, <2>2, <2>3, <2>4, <2>5, <2>6, Zenon
<1>j. ASSUME NEW l \in Place, Goto(p, l), Keeps
      PROVE  Goes(p)
  BY <1>a, <1>j, Zenon DEF Goes
<1> HIDE DEF Keeps
<1>k. config \in {config, None} /\ None \in {config, None}
  OBVIOUS
<1> USE DEF Steady
<1>1. CASE generate_config(p)
  BY <1>a, <1>e, <1>1, Zenon DEF generate_config, Place, At
<1>2. CASE WriteImage(p)
  BY <1>a, <1>e, <1>2, Zenon DEF WriteImage, Place, At
<1>3. CASE Up(p)
  BY <1>a, <1>c, <1>d, <1>3, Zenon DEF Up, Place, At
<1>4. CASE Down(p)
  BY <1>a, <1>e, <1>4, Zenon DEF Down, Place, At, stop_and_remove
<1>5. CASE Forget(p)
  BY <1>a, <1>e, <1>5, Zenon DEF Forget, Place, At
<1>6. CASE StartCheck(p)
  BY <1>a, <1>e, <1>f, <1>6, Zenon DEF StartCheck, Place, Abandon
<1>7. CASE StartRun(p)
  BY <1>a, <1>e, <1>f, <1>7, Zenon DEF StartRun, Place, At
<1>8. CASE StartObserve(p)
  BY <1>a, <1>e, <1>f, <1>8, Zenon DEF StartObserve, Place, At
<1>9. CASE Switch(p)
  <2>1. UNCHANGED before /\ excused \subseteq excused'
    BY <1>a, <1>9, Zenon DEF Switch, At
  <2>2. \/ Exit(p, 1)
        \/ \E t, o : mem' = [mem EXCEPT ![p].image = t, ![p].old = o] /\ Goto(p, "switch pull")
    BY <1>9, SwitchRemembers, Zenon
  <2> QED
    BY <1>a, <1>e, <1>i, <1>j, <2>1, <2>2, Zenon DEF Place
<1>10. CASE SwitchPull(p)
  BY <1>a, <1>e, <1>10, Zenon DEF SwitchPull, Place, At
<1>11. CASE SwitchCheck(p)
  <2>1. /\ UNCHANGED before /\ Faultless
        /\ \/ Exit(p, 1)
           \/ /\ mem' = [mem EXCEPT ![p].was = container.up]
              /\ Goto(p, "switch stop") \/ Goto(p, "switch record")
    BY <1>11, Zenon DEF SwitchCheck, At
  <2> QED
    BY <1>a, <1>e, <1>i, <1>j, <2>1, Zenon DEF Place
<1>12. CASE SwitchStop(p)
  BY <1>a, <1>c, <1>d, <1>e, <1>12, Zenon DEF SwitchStop, Place, At, stop_and_remove
<1>13. CASE SwitchRemove(p)
  BY <1>a, <1>c, <1>d, <1>e, <1>13, Zenon DEF SwitchRemove, Place, At, stop_and_remove
<1>14. CASE SwitchRecord(p)
  BY <1>a, <1>14, Zenon DEF SwitchRecord, Place, At
<1>15. CASE SwitchImage(p)
  BY <1>a, <1>e, <1>15, Zenon DEF SwitchImage, Place, At
<1>16. CASE Renew(p)
  BY <1>a, <1>e, <1>i, <1>j, <1>16, Zenon DEF Renew, Place, At
<1>17. CASE RenewCopy(p)
  BY <1>a, <1>i, <1>j, <1>k, <1>17, Zenon DEF RenewCopy, Place, At
<1>31. CASE RenewSets(p)
  BY <1>a, <1>i, <1>j, <1>31, Zenon DEF RenewSets, RenewWork, RenewBackup, RenewWas, SetFor, Place, At
<1>32. CASE RenewPrinted(p)
  BY <1>a, <1>i, <1>j, <1>k, <1>32, Zenon DEF RenewPrinted, Place, At
<1>18. CASE RenewActive(p)
  BY <1>a, <1>i, <1>j, <1>k, <1>18, Zenon DEF RenewActive, Place, At
<1>19. CASE RenewStop(p)
  BY <1>a, <1>e, <1>19, Zenon DEF RenewStop, Place, At, stop_and_remove
<1>20. CASE RenewGenerate(p)
  BY <1>a, <1>e, <1>20, Zenon DEF RenewGenerate, Place, At
<1>21. CASE RenewInstall(p)
  BY <1>a, <1>21, Zenon DEF RenewInstall, Place, At
<1>22. CASE RenewInstalled(p)
  BY <1>a, <1>c, <1>d, <1>22, Zenon DEF RenewInstalled, Place, At
<1>23. CASE RenewDone(p)
  BY <1>a, <1>i, <1>j, <1>k, <1>23, Zenon DEF RenewDone, Place, At
<1>24. CASE CleanStop(p)
  BY <1>a, <1>24, Zenon DEF CleanStop, Place, At, stop_and_remove
<1>25. CASE CleanEmpty(p)
  BY <1>a, <1>25, Zenon DEF CleanEmpty, Place, At
<1>26. CASE CleanRestore(p)
  BY <1>a, <1>c, <1>d, <1>26, Zenon DEF CleanRestore, Place, At
<1>27. CASE CleanWork(p)
  BY <1>a, <1>i, <1>j, <1>k, <1>27, Zenon DEF CleanWork, Place, At
<1>28. CASE CleanLock(p)
  BY <1>a, <1>28, Zenon DEF CleanLock
<1>29. CASE Abort(p)
  <2>1. excused \subseteq excused' /\ UNCHANGED before
    BY <1>29 DEF Abort
  <2> QED
    BY <1>a, <1>e, <1>29, <2>1, Zenon DEF Abort
<1>30. CASE Kill(p)
  BY <1>a, <1>g, <1>30, Zenon DEF Kill, Abandon
<1> QED
  BY <1>1, <1>2, <1>3, <1>4, <1>5, <1>6, <1>7, <1>8, <1>9, <1>10, <1>11, <1>12, <1>13, <1>14, <1>15, <1>16,
     <1>17, <1>18, <1>19, <1>20, <1>21, <1>22, <1>23, <1>24, <1>25, <1>26, <1>27, <1>28, <1>29, <1>30,
     <1>31, <1>32, Zenon DEF Plain, Start, SwitchStep, RenewStep, RenewSets, Cleanup

LEMMA HistoryFound ==
  ASSUME Typed
  PROVE  /\ Nothing \in History /\ Nothing.config = None /\ Nothing.container = NoContainer
         /\ Found \in History /\ Found.config = config /\ Found.container = container
         /\ Found.image = imageFile /\ Found.previous = previousFile /\ Found.resolved = Resolve(configured_image)
<1>1. Resolve(configured_image) \in Image \cup {None}
  BY References DEF Typed
<1>2. Nothing \in History /\ Nothing.config = None /\ Nothing.container = NoContainer
  BY DEF History, Nothing, NoContainer, Config, Reference
<1>3. Found \in History
  BY <1>1 DEF History, Found, Typed, FilesTyped, StateTyped
<1>4. /\ Found.config = config /\ Found.container = container
      /\ Found.image = imageFile /\ Found.previous = previousFile /\ Found.resolved = Resolve(configured_image)
  BY DEF Found
<1> QED
  BY <1>2, <1>3, <1>4

\* The four ways of a step with its command.
LEMMA StepWays ==
  ASSUME Typed, NEW p \in Proc, CommandStep(p)
  PROVE  \/ Inside(p) /\ Steady(p)
         \/ Left(p) /\ excused \subseteq excused'
         \/ Lock(p) /\ pc[p] = "lock" /\ Enters(p) /\ pc'[p] = First(mem[p].name) /\ UNCHANGED <<mem, excused>>
              /\ before' = [before EXCEPT ![p] = Found]
         \/ Begin(p) /\ pc'[p] = "lock" /\ ~mem'[p].active /\ mem'[p].backup = None /\ UNCHANGED before
<1>a. MemoryTyped
  BY DEF Typed
<1>1. CASE Plain(p) \/ Start(p) \/ SwitchStep(p) \/ RenewStep(p) \/ Cleanup(p) \/ Abort(p) \/ Kill(p)
  <2>1. Inside(p)
    BY <1>1, PlainGoesOn, StartGoesOn, SwitchGoesOn, RenewGoesOn, CleanupGoesOn, FaultGoesOn, Zenon
       DEF GoesOn, IsGone, Releases
  <2> QED
    BY <1>1, <2>1, StepSteady, Zenon
<1>2. CASE Lock(p)
  <2>1. CASE Leave(p)
    <3>1. excused \subseteq excused'
      BY <1>2 DEF Lock
    <3> QED
      BY <1>a, <2>1, <3>1, HelpersGo, Zenon
  <2>2. CASE ~Leave(p)
    <3>1. /\ pc[p] = "lock" /\ ~lock /\ Goto(p, First(mem[p].name)) /\ UNCHANGED <<mem, excused>>
          /\ before' = [before EXCEPT ![p] = Found]
      BY <1>2, <2>2, Zenon DEF Lock
    <3>2. pc'[p] = First(mem[p].name)
      BY <1>a, <3>1 DEF Goto, MemoryTyped
    <3>3. Enters(p)
      <4>1. ~Refused(p)
        <5>1. First(mem[p].name) # "idle"
          BY DEF First
        <5>2. pc'[p] = "idle" \/ ~Refused(p)
          BY <1>a DEF Refused, MemoryTyped
        <5> QED
          BY <3>2, <5>1, <5>2
      <4> QED
        BY <1>2, <4>1, LockSteps
    <3> QED
      BY <1>2, <3>1, <3>2, <3>3
  <2> QED
    BY <2>1, <2>2
<1>3. CASE Begin(p)
  <2>1. PICK c \in Command : mem' = [mem EXCEPT ![p] = c]
    BY <1>3 DEF Begin
  <2>2. c.backup = None
    BY DEF Command, NoCommand
  <2>3. mem'[p] = c
    BY <1>a, <2>1 DEF MemoryTyped
  <2>4. UNCHANGED before
    BY <1>3, Zenon DEF Begin
  <2> QED
    BY <1>a, <1>3, <2>2, <2>3, <2>4, BeginSets, Zenon
<1> QED
  BY <1>1, <1>2, <1>3, Zenon DEF CommandStep

LEMMA StepHistory ==
  ASSUME Typed, NEW p \in Proc, CommandStep(p)
  PROVE  /\ HistoryTyped'
         /\ \A q \in Proc \ {p} : before'[q] = before[q]
         /\ before'[p] \in {before[p], Nothing, Found}
<1>1. \/ UNCHANGED before
      \/ before' = [before EXCEPT ![p] = Nothing]
      \/ before' = [before EXCEPT ![p] = Found]
  BY StepWays, Zenon DEF Steady, Left
<1>2. Nothing \in History /\ Found \in History
  BY HistoryFound
<1> QED
  BY <1>1, <1>2, SMT DEF Typed, HistoryTyped

\* The places whose way in matters.
SwitchPlace == {"switch", "switch pull", "switch check", "switch stop", "switch record", "switch image"}
WatchedPlace == NewPlace \cup SwitchPlace
Starting(p) == InStart(p) /\ mem[p].caller = "switch"
Away(p) == pc'[p] \notin WatchedPlace /\ ~Starting(p)'
Elsewhere == Place \ (WatchedPlace \cup {"start check", "start run", "start observe"})

\* Only these steps go there, and only one calls start_container for a switch.
LEMMA WatchedPlaces ==
  ASSUME Typed, NEW p \in Proc, CommandStep(p)
  PROVE  \/ Switch(p) \/ SwitchPull(p) \/ SwitchCheck(p) \/ SwitchRecord(p) \/ Start(p)
         \/ generate_config(p) \/ Lock(p) \/ Begin(p)
         \/ pc'[p] \notin WatchedPlace /\ (SwitchStop(p) \/ ~Starting(p)')
<1>a. /\ MemoryTyped /\ mem[p].image \in Reference /\ mem[p].old \in Reference
      /\ configured_image \in Reference /\ 0 \in {0, 1} /\ 1 \in {0, 1}
  BY References DEF Typed, MemoryTyped, Memory
<1>b. /\ \A s \in {0, 1} : Exit(p, s) => Away(p)
      /\ \A ref \in Reference, caller \in Caller : Call(p, ref, caller) => pc'[p] \notin WatchedPlace
      /\ \A ref \in Reference, caller \in Caller \ {"switch"} : Call(p, ref, caller) => Away(p)
      /\ Leave(p) => Away(p)
      /\ \A l \in Elsewhere : Goto(p, l) => Away(p)
  <2>1. ASSUME NEW s \in {0, 1}, Exit(p, s)
        PROVE  Away(p)
    <3>1. pc'[p] = "clean stop" \/ pc'[p] = "clean work"
      BY <1>a, <2>1, ExitSets, Zenon
    <3> QED
      BY <3>1 DEF Away, WatchedPlace, SwitchPlace, NewPlace, Starting, InStart
  <2>2. ASSUME NEW ref \in Reference, NEW caller \in Caller, Call(p, ref, caller)
        PROVE  pc'[p] \notin WatchedPlace /\ mem'[p].caller = caller
    BY <1>a, <2>2, CallKeeps DEF WatchedPlace, SwitchPlace, NewPlace
  <2>3. ASSUME NEW ref \in Reference, NEW caller \in Caller \ {"switch"}, Call(p, ref, caller)
        PROVE  Away(p)
    BY <2>2, <2>3, Zenon DEF Starting, Away
  <2>4. ASSUME Leave(p)
        PROVE  Away(p)
    BY <1>a, <2>4, LeaveSets DEF Away, WatchedPlace, SwitchPlace, NewPlace, Starting, InStart
  <2>5. ASSUME NEW l \in Elsewhere, Goto(p, l)
        PROVE  Away(p)
    BY <1>a, <2>5, GotoSets DEF Away, Elsewhere, Starting, InStart
  <2> QED
    BY <2>1, <2>2, <2>3, <2>4, <2>5, Zenon
<1>c. \A l \in Place : l \in {"forget", "switch remove", "renew copy", "renew active", "renew work",
                              "renew backup", "renew was", "renew stop", "renew generate", "renew install",
                              "renew installed", "renew done", "renew printed", "clean work", "clean empty",
                              "clean restore", "clean lock"} => l \in Elsewhere
  BY DEF Elsewhere, WatchedPlace, SwitchPlace, NewPlace
<1>d. /\ \A c \in {"up", "restore", "renew", "cleanup"} : c \in Caller \ {"switch"}
      /\ "switch" \in Caller
  BY DEF Caller
<1>1. WriteImage(p) => Away(p)
  BY <1>a, <1>b, <1>c, <1>d, Zenon DEF WriteImage, At, Place
<1>2. Up(p) => Away(p)
  BY <1>a, <1>b, <1>c, <1>d, Zenon DEF Up, At, Place
<1>3. Down(p) => Away(p)
  BY <1>a, <1>b, <1>c, <1>d, Zenon DEF Down, At, Place, stop_and_remove
<1>4. Forget(p) => Away(p)
  BY <1>a, <1>b, <1>c, <1>d, Zenon DEF Forget, At, Place
<1>5. SwitchStop(p) => pc'[p] \notin WatchedPlace
  <2>1. SwitchStop(p) => Call(p, mem[p].image, "switch") \/ Exit(p, 1)
    BY Zenon DEF SwitchStop, stop_and_remove
  <2>2. Away(p) => pc'[p] \notin WatchedPlace
    BY DEF Away
  <2> QED
    BY <1>a, <1>b, <1>d, <2>1, <2>2, Zenon
<1>6. SwitchRemove(p) => Away(p)
  BY <1>a, <1>b, <1>c, <1>d, Zenon DEF SwitchRemove, At, Place, stop_and_remove
<1>7. SwitchImage(p) => Away(p)
  BY <1>a, <1>b, <1>c, <1>d, Zenon DEF SwitchImage, At, Place
<1>8. Renew(p) => Away(p)
  BY <1>a, <1>b, <1>c, <1>d, Zenon DEF Renew, At, Place
<1>9. RenewCopy(p) => Away(p)
  BY <1>a, <1>b, <1>c, <1>d, Zenon DEF RenewCopy, At, Place
<1>10. RenewActive(p) => Away(p)
  BY <1>a, <1>b, <1>c, <1>d, Zenon DEF RenewActive, At, Place
<1>11. RenewSets(p) => Away(p)
  BY <1>a, <1>b, <1>c, <1>d, Zenon DEF RenewSets, At, Place, RenewWork, RenewBackup, RenewWas
<1>12. RenewStop(p) => Away(p)
  BY <1>a, <1>b, <1>c, <1>d, Zenon DEF RenewStop, At, Place, stop_and_remove
<1>13. RenewGenerate(p) => Away(p)
  BY <1>a, <1>b, <1>c, <1>d, Zenon DEF RenewGenerate, At, Place
<1>14. RenewInstall(p) => Away(p)
  BY <1>a, <1>b, <1>c, <1>d, Zenon DEF RenewInstall, At, Place
<1>15. RenewInstalled(p) => Away(p)
  BY <1>a, <1>b, <1>c, <1>d, Zenon DEF RenewInstalled, At, Place
<1>16. RenewDone(p) => Away(p)
  BY <1>a, <1>b, <1>c, <1>d, Zenon DEF RenewDone, At, Place
<1>17. RenewPrinted(p) => Away(p)
  BY <1>a, <1>b, <1>c, <1>d, Zenon DEF RenewPrinted, At, Place
<1>18. CleanStop(p) => Away(p)
  BY <1>a, <1>b, <1>c, <1>d, Zenon DEF CleanStop, At, Place, stop_and_remove
<1>19. CleanEmpty(p) => Away(p)
  BY <1>a, <1>b, <1>c, <1>d, Zenon DEF CleanEmpty, At, Place
<1>20. CleanRestore(p) => Away(p)
  BY <1>a, <1>b, <1>c, <1>d, Zenon DEF CleanRestore, At, Place
<1>21. CleanWork(p) => Away(p)
  BY <1>a, <1>b, <1>c, <1>d, Zenon DEF CleanWork, At, Place
<1>22. CleanLock(p) => Away(p)
  BY <1>a, <1>b, <1>c, <1>d, Zenon DEF CleanLock, At, Place
<1>23. Abort(p) => Away(p)
  BY <1>a, <1>b, <1>c, <1>d, Zenon DEF Abort, At, Place
<1>24. Kill(p) => Away(p)
  BY <1>a, <1>b, <1>c, <1>d, Zenon DEF Kill, At, Place, Abandon
<1> QED
  BY <1>1, <1>2, <1>3, <1>4, <1>5, <1>6, <1>7, <1>8, <1>9, <1>10, <1>11, <1>12, <1>13, <1>14, <1>15, <1>16,
     <1>17, <1>18, <1>19, <1>20, <1>21, <1>22, <1>23, <1>24, Zenon
     DEF CommandStep, Plain, SwitchStep, RenewStep, RenewSets, Cleanup, Away

LEMMA StepPlaces ==
  ASSUME Typed, NEW p \in Proc, CommandStep(p)
  PROVE  Aimed' /\ Fresh'
<1>a. /\ MemoryTyped /\ mem[p].image \in Reference /\ 0 \in {0, 1} /\ 1 \in {0, 1}
  BY DEF Typed, MemoryTyped, Memory
<1>b. \A q \in Proc \ {p} : pc'[q] = pc[q] /\ mem'[q] = mem[q]
  BY StepMemory, Zenon DEF CommandStep, Sets, Others
<1>c. /\ \A s \in {0, 1} : Exit(p, s) => pc'[p] \notin NewPlace \cup {"switch pull"}
      /\ \A l \in Place : Goto(p, l) => pc'[p] = l
  <2>1. ASSUME NEW s \in {0, 1}, Exit(p, s)
        PROVE  pc'[p] = "clean stop" \/ pc'[p] = "clean work"
    BY <1>a, <2>1, ExitSets, Zenon
  <2> QED
    BY <1>a, <2>1, GotoSets DEF NewPlace
<1>d. /\ Leave(p) => pc'[p] = "idle"
      /\ \A name : Goto(p, First(name)) => pc'[p] = First(name)
  <2>1. \A name : First(name) \in Place
    BY Zenon DEF First, Place
  <2> QED
    BY <1>a, <1>c, <2>1, LeaveSets
<1>1. pc'[p] = "switch pull" => mem'[p].image # None
  <2>1. CASE Switch(p)
    <3>1. CASE Exit(p, 1)
      BY <1>a, <1>c, <3>1
    <3>2. CASE ~Exit(p, 1)
      <4>1. PICK t, o : t # None /\ mem' = [mem EXCEPT ![p].image = t, ![p].old = o]
        BY <2>1, <3>2, SwitchRemembers, Zenon
      <4>2. mem'[p].image = t
        <5>1. mem'[p] = [mem[p] EXCEPT !.image = t, !.old = o]
          BY <1>a, <4>1, ZenonT(40) DEF MemoryTyped
        <5> QED
          BY <1>a, <5>1 DEF MemoryTyped, Memory
      <4> QED
        BY <4>1, <4>2
    <3> QED
      BY <3>1, <3>2
  <2>2. CASE SwitchPull(p)
    <3>1. Exit(p, 1) \/ Goto(p, "switch check")
      BY <2>2, Zenon DEF SwitchPull
    <3> QED
      BY <1>a, <1>c, <3>1 DEF Place
  <2>3. CASE SwitchCheck(p)
    <3>1. Exit(p, 1) \/ Goto(p, "switch stop") \/ Goto(p, "switch record")
      BY <2>3, Zenon DEF SwitchCheck
    <3> QED
      BY <1>a, <1>c, <3>1 DEF Place
  <2>4. CASE SwitchRecord(p)
    BY <1>c, <2>4 DEF SwitchRecord, Place
  <2>5. CASE Start(p)
    <3>1. \/ Exit(p, 0) \/ Exit(p, 1) \/ Leave(p)
          \/ \E l \in {"start run", "start observe", "switch record", "switch remove", "renew done", "clean work"} :
               Goto(p, l)
      BY <2>5, Zenon DEF Start, StartCheck, StartRun, StartObserve, Return, Abandon
    <3>2. Leave(p) => pc'[p] = "idle"
      BY <1>a, LeaveSets
    <3> QED
      BY <1>a, <1>c, <3>1, <3>2 DEF Place
  <2>6. CASE generate_config(p)
    <3>1. Exit(p, 1) \/ Goto(p, "write image")
      BY <2>6, Zenon DEF generate_config
    <3> QED
      BY <1>a, <1>c, <3>1 DEF Place
  <2>7. CASE Lock(p)
    <3>1. pc'[p] = First(mem[p].name) \/ pc'[p] = "idle"
      BY <1>a, <1>d, <2>7, Zenon DEF Lock
    <3>2. First(mem[p].name) # "switch pull"
      BY DEF First
    <3> QED
      BY <3>1, <3>2
  <2>8. CASE Begin(p)
    BY <1>a, <2>8, BeginSets
  <2> QED
    BY <2>1, <2>2, <2>3, <2>4, <2>5, <2>6, <2>7, <2>8, WatchedPlaces DEF WatchedPlace, SwitchPlace
<1>2. pc'[p] \in NewPlace => ~mem'[p].active
  <2>1. CASE Switch(p)
    <3>1. Exit(p, 1) \/ Goto(p, "switch pull")
      BY <2>1, SwitchRemembers, Zenon
    <3> QED
      BY <1>a, <1>c, <3>1 DEF Place, NewPlace
  <2>2. CASE SwitchPull(p)
    <3>1. Exit(p, 1) \/ Goto(p, "switch check")
      BY <2>2, Zenon DEF SwitchPull
    <3> QED
      BY <1>a, <1>c, <3>1 DEF Place, NewPlace
  <2>3. CASE SwitchCheck(p)
    <3>1. Exit(p, 1) \/ Goto(p, "switch stop") \/ Goto(p, "switch record")
      BY <2>3, Zenon DEF SwitchCheck
    <3> QED
      BY <1>a, <1>c, <3>1 DEF Place, NewPlace
  <2>4. CASE SwitchRecord(p)
    BY <1>c, <2>4 DEF SwitchRecord, Place, NewPlace
  <2>5. CASE Start(p)
    <3>1. \/ Exit(p, 0) \/ Exit(p, 1) \/ Leave(p)
          \/ \E l \in {"start run", "start observe", "switch record", "switch remove", "renew done", "clean work"} :
               Goto(p, l)
      BY <2>5, Zenon DEF Start, StartCheck, StartRun, StartObserve, Return, Abandon
    <3>2. Leave(p) => pc'[p] = "idle"
      BY <1>a, LeaveSets
    <3> QED
      BY <1>a, <1>c, <3>1, <3>2 DEF Place, NewPlace
  <2>6. CASE generate_config(p)
    <3>1. pc[p] = "init" /\ (Exit(p, 1) \/ UNCHANGED mem)
      BY <2>6, Zenon DEF generate_config, At
    <3>2. ~mem[p].active
      BY <3>1 DEF Typed, Fresh, NewPlace
    <3> QED
      BY <1>a, <1>c, <3>1, <3>2
  <2>7. CASE Lock(p)
    <3>1. \/ pc'[p] = "idle"
          \/ pc[p] = "lock" /\ UNCHANGED mem
      BY <1>a, <1>d, <2>7, Zenon DEF Lock
    <3> QED
      BY <3>1 DEF Typed, Fresh, NewPlace
  <2>8. CASE Begin(p)
    BY <1>a, <2>8, BeginSets
  <2> QED
    BY <2>1, <2>2, <2>3, <2>4, <2>5, <2>6, <2>7, <2>8, WatchedPlaces DEF WatchedPlace, SwitchPlace
<1> QED
  BY <1>b, <1>1, <1>2, Zenon DEF Typed, Aimed, Fresh

-----------------------------------------------------------------------------
(* The types hold.                                                         *)

LEMMA StepTyped ==
  ASSUME Typed, [Next]_vars
  PROVE  Typed'
<1>1. ASSUME NEW p \in Proc, CommandStep(p)
      PROVE  Typed'
  <2>1. MemoryTyped' /\ FilesTyped' /\ HistoryTyped' /\ Aimed' /\ Fresh' /\ ConfigTyped' /\ RestTyped'
    BY <1>1, StepMemory, StepFiles, StepConfig, StepRest, StepHistory, StepPlaces, Zenon DEF CommandStep, Sets
  <2> QED
    BY <2>1 DEF Typed, StateTyped, ConfigTyped, RestTyped
<1>2. CASE Unlock
  BY <1>2 DEF Unlock, Typed, MemoryTyped, FilesTyped, StateTyped, HistoryTyped, Aimed, Fresh, files, images
<1>3. CASE Publish
  BY <1>3 DEF Publish, Typed, MemoryTyped, FilesTyped, StateTyped, HistoryTyped, Aimed, Fresh, files, history
<1>4. CASE Prune
  BY <1>4 DEF Prune, Typed, MemoryTyped, FilesTyped, StateTyped, HistoryTyped, Aimed, Fresh, files, history
<1>5. CASE UNCHANGED vars
  BY <1>5 DEF vars, files, images, history, Typed, MemoryTyped, FilesTyped, StateTyped, HistoryTyped, Aimed,
     Fresh
<1> QED
  BY <1>1, <1>2, <1>3, <1>4, <1>5, Zenon DEF Next, CommandStep

LEMMA InitTyped ==
  ASSUME Init
  PROVE  Typed
<1> USE ImageAssumption
<1>1. MemoryTyped
  BY DEF Init, MemoryTyped, Memory, NoCommand, CommandName, Caller, Config, Reference, Anywhere
<1>2. FilesTyped
  BY DEF Init, FilesTyped, Reference
<1>3. StateTyped
  <2>1. lock \in BOOLEAN /\ left \subseteq Config /\ excused \subseteq Proc
    BY DEF Init
  <2>2. gen \in Nat /\ config \in Config
    BY DEF Init, Config
  <2>3. container \in {NoContainer, [image |-> Published[Default], config |-> 1, up |-> TRUE]}
    BY Zenon DEF Init
  <2>4. container \in [image : Image \cup {None}, config : Config, up : BOOLEAN]
    <3>1. CASE container = NoContainer
      BY <3>1 DEF NoContainer, Config
    <3>2. CASE container = [image |-> Published[Default], config |-> 1, up |-> TRUE]
      <4>1. Published[Default] \in Image /\ 1 \in Config
        BY DEF Config
      <4> QED
        BY <3>2, <4>1
    <3> QED
      BY <2>3, <3>1, <3>2
  <2> QED
    BY <2>1, <2>2, <2>4 DEF StateTyped
<1>4. HistoryTyped /\ Aimed /\ Fresh
  BY DEF Init, HistoryTyped, History, Nothing, NoContainer, Config, Reference, Aimed, Fresh, NoCommand
<1> QED
  BY <1>1, <1>2, <1>3, <1>4 DEF Typed

\* Every variable has its type: the files name images or tags, the container the
\* image it was made from; and a rollback pulls only what is recorded
\* (scripts/mini-singbox-containerctl:333-365, :367-374).
THEOREM TypeCorrect == Spec => []TypeOK
<1>1. Init => Typed
  BY InitTyped
<1>2. Typed /\ [Next]_vars => Typed'
  BY StepTyped
<1>3. Typed => TypeOK
  BY DEF Typed, MemoryTyped, Memory, FilesTyped, StateTyped, Aimed, TypeOK
<1> QED
  BY <1>1, <1>2, <1>3, PTL DEF Spec

-----------------------------------------------------------------------------
(* A whole configuration exists.                                           *)

\* A backup in a work directory that nobody removes.
Kept == \E c \in left : Whole(c)

\* Where the configuration may be in pieces, and where a renewal is marked active.
BrokenPlace == {"renew installed", "clean stop", "clean empty", "clean restore"}
ActivePlace ==
  BrokenPlace \cup {"renew work", "renew backup", "renew was", "renew stop", "renew generate", "renew install"}

Done(p)   == pc[p] \in {"clean work", "clean lock"}

\* A trap that has emptied the directory before it knew the work directory leaves that one.
Spare(p)  == pc[p] = "clean work" /\ "work" \notin mem[p].set /\ Whole(mem[p].backup)
Broken(p) == (mem[p].active /\ pc[p] \in BrokenPlace) \/ Spare(p)

\* A renewal copies a configuration that is there, is marked active before it
\* touches a file and only after the copy was made, and keeps the copy until
\* its trap has put it back.
Prepared(p) == pc[p] = "renew copy" => config # None
Marked(p)   == pc[p] \in ActivePlace => mem[p].active
Backed(p)   == pc[p] = "renew active" \/ (mem[p].active /\ ~Done(p)) => Kept \/ Whole(mem[p].backup)

\* RENEW_WAS_RUNNING= comes last, and a new command starts with nothing.
Ordered(p) == /\ "was" \in mem[p].set \/ pc[p] = "renew was" => "backup" \in mem[p].set
              /\ pc[p] = "idle" => ~mem[p].active

\* Whatever is not kept in a work directory is in the configuration's own, or
\* a renewal that has its backup is at work there.
Existing == Kept \/ Whole(config) \/ (gen = 0 /\ config = None) \/ \E p \in Proc : Broken(p)

RecoveryInv ==
  /\ purged => lost
  /\ \A p \in Proc : Ordered(p)
  /\ lost \/ ((\A p \in Proc : Prepared(p) /\ Marked(p) /\ Backed(p)) /\ Existing)

LEMMA RecoveryRecovers ==
  ASSUME RecoveryInv
  PROVE  Recoverable
<1>1. CASE lost
  BY <1>1 DEF Recoverable
<1>2. ASSUME ~lost, NEW p \in Proc, Broken(p)
      PROVE  Recoverable
  <2>1. Spare(p) \/ (~Done(p) /\ mem[p].active)
    BY <1>2 DEF Broken, BrokenPlace, Done
  <2>2. Kept \/ Whole(mem[p].backup)
    BY <1>2, <2>1, Zenon DEF RecoveryInv, Backed, Spare
  <2> QED
    BY <2>2, Zenon DEF Kept, Recoverable
<1> QED
  BY <1>1, <1>2, Zenon DEF RecoveryInv, Existing, Kept, Recoverable

\* What the places are not.
LEMMA Places ==
  /\ \A l \in ActivePlace : l \notin {"renew copy", "renew active", "clean work", "clean lock", "idle", "lock"}
  /\ \A l \in BrokenPlace : l \in ActivePlace
BY DEF ActivePlace, BrokenPlace

\* A step that leaves the configuration and its copies alone keeps the
\* invariant when its command keeps its own part of it.
LEMMA QuietKeeps ==
  ASSUME RecoveryInv, NEW p \in Proc, Others(p), ConfigSame, UNCHANGED purged, Ordered(p)',
         lost \/ /\ Prepared(p)' /\ Marked(p)' /\ Backed(p)'
                 /\ Broken(p) => Broken(p)'
  PROVE  RecoveryInv'
<1>0. \A q \in Proc : Ordered(q)'
  BY Zenon DEF RecoveryInv, Ordered, Others
<1>1. CASE lost
  BY <1>0, <1>1, Zenon DEF RecoveryInv, ConfigSame
<1>2. CASE ~lost
  <2>1. /\ Kept' = Kept /\ \A c : Whole(c)' = Whole(c)
    BY DEF Kept, ConfigSame, Whole
  <2>2. ASSUME NEW q \in Proc \ {p}
        PROVE  /\ Prepared(q)' = Prepared(q) /\ Marked(q)' = Marked(q) /\ Backed(q)' = Backed(q)
               /\ Broken(q)' = Broken(q)
    BY <2>1, Zenon DEF Others, Prepared, Marked, Backed, Broken, Spare, Done, ConfigSame
  <2>3. \A q \in Proc : Prepared(q)' /\ Marked(q)' /\ Backed(q)'
    BY <1>2, <2>2, Zenon DEF RecoveryInv
  <2>4. Existing'
    BY <1>2, <2>1, <2>2, Zenon DEF RecoveryInv, Existing, ConfigSame
  <2> QED
    BY <1>0, <2>3, <2>4, Zenon DEF RecoveryInv, ConfigSame
<1> QED
  BY <1>1, <1>2

\* The helpers: leaving the script, calling start_container, going on, being gone.
LEMMA QuietExit ==
  ASSUME MemoryTyped, RecoveryInv, NEW p \in Proc, ConfigSame, UNCHANGED purged,
         NEW s \in {0, 1}, Exit(p, s), s = 1 \/ pc[p] \notin BrokenPlace, ~Done(p)
  PROVE  RecoveryInv'
<1>0. /\ Others(p) /\ pc'[p] = (IF s = 1 /\ mem[p].active THEN "clean stop" ELSE "clean work")
      /\ Held(p)
  BY ExitSets
<1>1. /\ Others(p) /\ pc'[p] = (IF s = 1 /\ mem[p].active THEN "clean stop" ELSE "clean work")
      /\ mem'[p].active = mem[p].active /\ mem'[p].backup = mem[p].backup
  BY <1>0 DEF Held
<1>5. Ordered(p)'
  BY <1>0, Zenon DEF RecoveryInv, Ordered, Held
<1>2. Kept' = Kept /\ \A c : Whole(c)' = Whole(c)
  BY DEF Kept, ConfigSame, Whole
<1>3. CASE s = 1 /\ mem[p].active
  <2>1. pc'[p] = "clean stop"
    BY <1>1, <1>3
  <2>2. Prepared(p)' /\ Marked(p)' /\ Broken(p)'
    BY <1>1, <1>3, <2>1 DEF Prepared, Marked, Broken, BrokenPlace, Spare
  <2>3. lost \/ Backed(p)'
    BY <1>1, <1>2, <1>3, Zenon DEF RecoveryInv, Backed, Done
  <2> QED
    BY <1>1, <1>5, <2>2, <2>3, QuietKeeps
<1>4. CASE ~(s = 1 /\ mem[p].active)
  <2>1. pc'[p] = "clean work"
    BY <1>1, <1>4
  <2>2. Prepared(p)' /\ Marked(p)' /\ Backed(p)'
    BY <2>1 DEF Prepared, Marked, Backed, Done, ActivePlace, BrokenPlace
  <2>3. ~Broken(p)
    BY <1>4 DEF Broken, Spare, Done
  <2> QED
    BY <1>1, <1>5, <2>2, <2>3, QuietKeeps
<1> QED
  BY <1>3, <1>4

LEMMA QuietGo ==
  ASSUME RecoveryInv, NEW p \in Proc, Others(p), ConfigSame, UNCHANGED purged,
         NEW l \in Place, pc'[p] = l, Held(p),
         l \notin {"renew copy", "renew active", "renew was"},
         l \in ActivePlace => pc[p] \in ActivePlace,
         pc[p] \in BrokenPlace => l \in BrokenPlace,
         ~Done(p)
  PROVE  RecoveryInv'
<1>1. Kept' = Kept /\ \A c : Whole(c)' = Whole(c)
  BY DEF Kept, ConfigSame, Whole
<1>2. Prepared(p)'
  BY Zenon DEF Prepared
<1>3. lost \/ Marked(p)'
  BY Zenon DEF RecoveryInv, Marked, Held
<1>4. lost \/ Backed(p)'
  BY <1>1, Zenon DEF RecoveryInv, Backed, Done, Held
<1>5. Broken(p) => Broken(p)'
  BY Zenon DEF Broken, Spare, Done, Held
<1>6. Ordered(p)'
  BY OutsidePlace, Zenon DEF RecoveryInv, Ordered, Held
<1> QED
  BY <1>2, <1>3, <1>4, <1>5, <1>6, QuietKeeps

\* A command that is gone, having nothing left to restore.
LEMMA QuietLeave ==
  ASSUME MemoryTyped, RecoveryInv, NEW p \in Proc, ConfigSame, UNCHANGED purged,
         Leave(p), ~Broken(p)
  PROVE  RecoveryInv'
<1>1. Others(p) /\ pc'[p] = "idle" /\ ~mem'[p].active /\ mem'[p].set = {}
  BY LeaveSets
<1>2. Prepared(p)' /\ Marked(p)' /\ Backed(p)' /\ Ordered(p)'
  BY <1>1, Places, Zenon DEF Prepared, Marked, Backed, Ordered
<1> QED
  BY <1>1, <1>2, QuietKeeps

\* A step that goes on without touching the configuration, from a place where
\* nothing is in pieces.
LEMMA QuietGoto ==
  ASSUME MemoryTyped, RecoveryInv, NEW p \in Proc, ConfigSame, UNCHANGED <<purged, mem>>,
         NEW l \in Place, Goto(p, l),
         l \notin {"renew copy", "renew active", "renew was"},
         l \in ActivePlace => pc[p] \in ActivePlace,
         pc[p] \in BrokenPlace => l \in BrokenPlace,
         ~Done(p)
  PROVE  RecoveryInv'
<1>1. Others(p) /\ pc'[p] = l /\ Held(p)
  BY GoesSets DEF Held
<1> QED
  BY <1>1, QuietGo, Zenon

LEMMA QuietCall ==
  ASSUME MemoryTyped, RecoveryInv, NEW p \in Proc, ConfigSame, UNCHANGED purged,
         NEW ref \in Reference, NEW caller \in Caller, Call(p, ref, caller),
         pc[p] \notin BrokenPlace, ~Done(p)
  PROVE  RecoveryInv'
<1>1. Others(p) /\ pc'[p] = "start check" /\ Held(p)
  BY CallSets
<1>2. /\ "start check" \notin ActivePlace /\ "start check" \notin {"renew copy", "renew active", "renew was"}
      /\ "start check" \in Place
  BY DEF ActivePlace, BrokenPlace, Place
<1> QED
  BY <1>1, <1>2, QuietGo, Zenon

\* A step that does touch the configuration or the backups.
LEMMA TouchKeeps ==
  ASSUME RecoveryInv, NEW p \in Proc, Others(p), UNCHANGED purged, lost => lost', Kept => Kept', Ordered(p)',
         lost' \/ /\ Prepared(p)' /\ Marked(p)' /\ Backed(p)'
                  /\ config' # None \/ \A q \in Proc \ {p} : pc[q] # "renew copy"
                  /\ Existing'
  PROVE  RecoveryInv'
<1>0. \A q \in Proc : Ordered(q)'
  BY Zenon DEF RecoveryInv, Ordered, Others
<1>1. CASE lost'
  BY <1>0, <1>1, Zenon DEF RecoveryInv
<1>2. CASE ~lost'
  <2>1. ASSUME NEW q \in Proc \ {p}
        PROVE  Prepared(q)' /\ Marked(q)' /\ Backed(q)'
    <3>1. Prepared(q)' /\ Marked(q)'
      BY <1>2, Zenon DEF Others, RecoveryInv, Prepared, Marked
    <3>2. Backed(q)'
      BY <1>2, Zenon DEF Others, RecoveryInv, Backed, Done, Whole
    <3> QED
      BY <3>1, <3>2
  <2> QED
    BY <1>0, <1>2, <2>1, Zenon DEF RecoveryInv
<1> QED
  BY <1>1, <1>2

\* What exclusion adds: nobody else is in the script.
LEMMA Alone ==
  ASSUME ExclusionInv, RecoveryInv, NEW p \in Proc, Inside(p), ~lost
  PROVE  \A q \in Proc \ {p} : pc[q] \in {"idle", "lock"}
BY Zenon DEF ExclusionInv, LockHeld, RecoveryInv, Inside

LEMMA BrokenInside ==
  ASSUME NEW p \in Proc
  PROVE  /\ Broken(p) => pc[p] \notin {"idle", "lock"}
         /\ \A l \in Place : pc[p] = l => Inside(p)
BY HelpersMove, Places, Zenon DEF Broken, Spare

LEMMA PlainRecovery ==
  ASSUME Typed, ExclusionInv, RecoveryInv, NEW p \in Proc, Plain(p)
  PROVE  RecoveryInv'
<1>a. MemoryTyped /\ configured_image \in Reference /\ 0 \in {0, 1} /\ 1 \in {0, 1}
  BY References DEF Typed
<1>1. CASE generate_config(p)
  <2>1. /\ pc[p] = "init" /\ UNCHANGED <<purged, left>>
        /\ \/ Exit(p, 1) /\ UNCHANGED <<config, gen, lost>>
           \/ config' = gen + 1 /\ lost' = purged /\ Goto(p, "write image") /\ UNCHANGED mem
    BY <1>1, Zenon DEF generate_config, At
  <2>2. pc[p] \notin BrokenPlace /\ ~Done(p)
    BY <2>1 DEF BrokenPlace, Done
  <2>3. CASE Exit(p, 1) /\ UNCHANGED <<config, gen, lost>>
    BY <1>a, <2>1, <2>2, <2>3, QuietExit, Zenon DEF ConfigSame
  <2>4. CASE config' = gen + 1 /\ lost' = purged /\ Goto(p, "write image") /\ UNCHANGED mem
    <3>1. Others(p) /\ pc'[p] = "write image"
      BY <1>a, <2>4, GoesSets DEF Place
    <3>2. gen \in Nat /\ gen # None
      BY ImageAssumption DEF Typed, StateTyped
    <3>3. gen + 1 # None /\ gen + 1 # Partial
      BY <3>2, ImageAssumption DEF Partial
    <3>4. Whole(config)'
      BY <2>4, <3>3 DEF Whole, Partial
    <3>5. ~mem[p].active /\ Inside(p)
      BY <2>1 DEF Typed, Fresh, NewPlace, Inside
    <3>6. \A q \in Proc : Ordered(q)'
      BY <2>4, <3>1, Zenon DEF RecoveryInv, Ordered, Others
    <3>7. CASE purged
      BY <2>1, <2>4, <3>6, <3>7, Zenon DEF RecoveryInv
    <3>8. CASE ~purged
      <4>1. ASSUME NEW q \in Proc \ {p}
            PROVE  pc'[q] \in {"idle", "lock"} /\ ~mem'[q].active
        <5>1. pc[q] \in {"idle", "lock"}
          BY <3>5, <3>8, Zenon DEF ExclusionInv, LockHeld, Inside
        <5>2. ~mem[q].active
          <6>1. pc[q] = "idle" => ~mem[q].active
            BY Zenon DEF RecoveryInv, Ordered
          <6>2. pc[q] = "lock" => ~mem[q].active
            BY Zenon DEF Typed, Fresh, NewPlace
          <6> QED
            BY <5>1, <6>1, <6>2
        <5> QED
          BY <3>1, <5>1, <5>2, Zenon DEF Others
      <4>2. \A q \in Proc : Prepared(q)' /\ Marked(q)' /\ Backed(q)'
        BY <2>4, <3>1, <3>5, <4>1, Zenon DEF Prepared, Marked, Backed, ActivePlace, BrokenPlace
      <4> QED
        BY <2>1, <2>4, <3>4, <3>6, <3>8, <4>2, Zenon DEF RecoveryInv, Existing
    <3> QED
      BY <3>7, <3>8
  <2> QED
    BY <2>1, <2>3, <2>4
<1>2. CASE WriteImage(p)
  BY <1>a, <1>2, QuietExit, Zenon DEF WriteImage, At, ConfigSame, history, BrokenPlace, Done
<1>3. CASE Up(p)
  BY <1>a, <1>3, QuietCall, Zenon DEF Up, At, ConfigSame, files, history, BrokenPlace, Done, Caller
<1>4. CASE Down(p)
  <2>1. /\ pc[p] = "stop" /\ ConfigSame /\ UNCHANGED purged
        /\ \/ \E s \in {0, 1} : Exit(p, s)
           \/ Goto(p, "forget") /\ UNCHANGED mem
    BY <1>a, <1>4, Zenon DEF Down, At, stop_and_remove, ConfigSame, files, history
  <2>2. pc[p] \notin BrokenPlace /\ ~Done(p) /\ "forget" \notin ActivePlace
        /\ "forget" \in Place /\ "forget" \notin {"renew copy", "renew active", "renew was"}
    BY <2>1 DEF BrokenPlace, Done, ActivePlace, Place
  <2> QED
    BY <1>a, <2>1, <2>2, QuietExit, QuietGoto, Zenon
<1>5. CASE Forget(p)
  <2>1. /\ pc[p] = "forget" /\ Exit(p, 0)
        /\ \/ purged' /\ lost'
           \/ ConfigSame /\ UNCHANGED purged
    BY <1>5, Zenon DEF Forget, At, ConfigSame
  <2>2. pc[p] \notin BrokenPlace /\ ~Done(p)
    BY <2>1 DEF BrokenPlace, Done
  <2>3. CASE purged' /\ lost'
    <3>1. Others(p) /\ pc'[p] \in {"clean stop", "clean work"} /\ Held(p)
      BY <1>a, <2>1, ExitSets, Zenon
    <3>2. \A q \in Proc : Ordered(q)'
      BY <3>1, Zenon DEF RecoveryInv, Ordered, Others, Held
    <3> QED
      BY <2>3, <3>2, Zenon DEF RecoveryInv
  <2> QED
    BY <1>a, <2>1, <2>2, <2>3, QuietExit, Zenon
<1> QED
  BY <1>1, <1>2, <1>3, <1>4, <1>5 DEF Plain

\* A command that is gone leaves its work directory.
LEMMA AbandonRecovery ==
  ASSUME Typed, RecoveryInv, NEW p \in Proc, Abandon(p)
  PROVE  RecoveryInv'
<1>1. Others(p) /\ pc'[p] = "idle" /\ ~mem'[p].active /\ mem'[p].set = {}
  BY LeaveSets DEF Typed, Abandon
<1>2. /\ left' = left \cup ({mem[p].backup} \ {None})
      /\ UNCHANGED <<config, gen, purged, lost>>
  BY Zenon DEF Abandon, files
<1>3. /\ Kept => Kept'
      /\ Whole(mem[p].backup) => Kept'
      /\ Whole(config)' = Whole(config)
  BY <1>2, Zenon DEF Kept, Whole
<1>4. Prepared(p)' /\ Marked(p)' /\ Backed(p)' /\ Ordered(p)'
  BY <1>1, Places, Zenon DEF Prepared, Marked, Backed, Ordered
<1>5. lost \/ (Broken(p) => Kept')
  BY <1>3, Places, Zenon DEF RecoveryInv, Backed, Broken, Done, Spare
<1>6. \A q \in Proc \ {p} : Broken(q)' = Broken(q)
  BY <1>1, Zenon DEF Broken, Others, Spare, Whole
<1>7. lost \/ Existing'
  BY <1>2, <1>3, <1>5, <1>6, Zenon DEF RecoveryInv, Existing
<1>8. lost \/ config' # None \/ \A q \in Proc \ {p} : pc[q] # "renew copy"
  BY <1>2, Zenon DEF RecoveryInv, Prepared
<1> QED
  BY <1>1, <1>2, <1>3, <1>4, <1>7, <1>8, TouchKeeps, Zenon

LEMMA StartRecovery ==
  ASSUME Typed, RecoveryInv, NEW p \in Proc, Start(p)
  PROVE  RecoveryInv'
<1>a. MemoryTyped /\ 0 \in {0, 1} /\ 1 \in {0, 1}
  BY DEF Typed
<1>b. pc[p] \in {"start check", "start run", "start observe"} => pc[p] \notin BrokenPlace /\ ~Done(p)
  BY DEF BrokenPlace, Done
<1>c. ASSUME NEW l \in {"start run", "start observe", "switch record", "switch remove", "renew done", "clean work"}
      PROVE  l \in Place /\ l \notin ActivePlace /\ l \notin {"renew copy", "renew active", "renew was"}
  BY DEF ActivePlace, BrokenPlace, Place
<1>1. ASSUME ConfigSame, UNCHANGED purged, pc[p] \in {"start run", "start observe"}, NEW s \in {0, 1}, Return(p, s)
      PROVE  RecoveryInv'
  <2>1. \/ \E t \in {0, 1} : Exit(p, t)
        \/ \E l \in {"switch record", "switch remove", "renew done", "clean work"} : Goto(p, l) /\ UNCHANGED mem
    BY <1>a, <1>1, Zenon DEF Return
  <2>2. pc[p] \notin BrokenPlace /\ ~Done(p)
    BY <1>b, <1>1
  <2>3. CASE \E t \in {0, 1} : Exit(p, t)
    BY <1>a, <1>1, <2>2, <2>3, QuietExit, Zenon
  <2>4. ASSUME NEW l \in {"switch record", "switch remove", "renew done", "clean work"}, Goto(p, l), UNCHANGED mem
        PROVE  RecoveryInv'
    BY <1>a, <1>c, <1>1, <2>2, <2>4, QuietGoto, Zenon
  <2> QED
    BY <2>1, <2>3, <2>4
<1>2. CASE StartCheck(p)
  <2>1. CASE Abandon(p)
    BY <2>1, AbandonRecovery
  <2>2. CASE ~Abandon(p)
    <3>1. /\ pc[p] = "start check" /\ ConfigSame /\ UNCHANGED purged
          /\ Exit(p, 1) \/ (Goto(p, "start run") /\ UNCHANGED mem)
      BY <1>2, <2>2, Zenon DEF StartCheck, ConfigSame, files, history
    <3> QED
      BY <1>a, <1>b, <1>c, <3>1, QuietExit, QuietGoto, Zenon
  <2> QED
    BY <2>1, <2>2
<1>3. CASE StartRun(p)
  <2>1. /\ pc[p] = "start run" /\ ConfigSame /\ UNCHANGED purged
        /\ Return(p, 1) \/ (Goto(p, "start observe") /\ UNCHANGED mem)
    BY <1>3, Zenon DEF StartRun, At, ConfigSame, files, history
  <2> QED
    BY <1>a, <1>b, <1>c, <1>1, <2>1, QuietGoto, Zenon
<1>4. CASE StartObserve(p)
  <2>1. /\ pc[p] = "start observe" /\ ConfigSame /\ UNCHANGED purged
        /\ Return(p, 0) \/ Return(p, 1)
    BY <1>4, Zenon DEF StartObserve, At, ConfigSame, files, history
  <2> QED
    BY <1>a, <1>1, <2>1, Zenon
<1> QED
  BY <1>2, <1>3, <1>4 DEF Start

\* A step that sets variables and goes on.
LEMMA FieldsGo ==
  ASSUME MemoryTyped, NEW p \in Proc, NEW l \in Place, Goto(p, l), Own(p)
  PROVE  Others(p) /\ pc'[p] = l
BY GotoSets, Zenon DEF Others, Own

LEMMA SwitchRecovery ==
  ASSUME Typed, RecoveryInv, NEW p \in Proc, SwitchStep(p)
  PROVE  RecoveryInv'
<1>a. /\ MemoryTyped /\ 0 \in {0, 1} /\ 1 \in {0, 1}
      /\ mem[p].image \in Reference /\ mem[p].old \in Reference /\ container.up \in BOOLEAN
      /\ "switch" \in Caller /\ "restore" \in Caller
  BY References DEF Typed, MemoryTyped, Memory, StateTyped, Caller
<1>b. pc[p] \in {"switch", "switch pull", "switch check", "switch stop", "switch remove", "switch record", "switch image"}
        => pc[p] \notin BrokenPlace /\ ~Done(p)
  BY DEF BrokenPlace, Done
<1>c. ASSUME NEW l \in {"switch pull", "switch check", "switch stop", "switch record", "switch image"}
      PROVE  l \in Place /\ l \notin ActivePlace /\ l \notin {"renew copy", "renew active", "renew was"}
  BY DEF ActivePlace, BrokenPlace, Place
<1>1. CASE Switch(p)
  <2> DEFINE target == IF mem[p].name = "rollback" THEN previousFile ELSE mem[p].arg
  <2>1. /\ pc[p] = "switch" /\ ConfigSame /\ UNCHANGED purged
        /\ \/ Exit(p, 1)
           \/ \E old \in Reference : /\ mem' = [mem EXCEPT ![p].image = target, ![p].old = old]
                                    /\ Goto(p, "switch pull")
    <3>1. pc[p] = "switch" /\ ConfigSame /\ UNCHANGED purged
      BY <1>1, Zenon DEF Switch, At, ConfigSame, files, history
    <3> QED
      BY <1>1, <3>1, SwitchRemembers, Zenon
  <2>2. target \in Reference
    BY DEF Typed, MemoryTyped, Memory, FilesTyped
  <2>3. CASE Exit(p, 1)
    BY <1>a, <1>b, <2>1, <2>3, QuietExit, Zenon
  <2>4. ASSUME NEW old \in Reference, mem' = [mem EXCEPT ![p].image = target, ![p].old = old],
               Goto(p, "switch pull")
        PROVE  RecoveryInv'
    <3>1. /\ Others(p) /\ pc'[p] = "switch pull" /\ Held(p)
      <4>1. Own(p) /\ Held(p)
        BY <1>a, <2>2, <2>4, TargetSets
      <4> QED
        BY <1>a, <1>c, <2>4, <4>1, FieldsGo, Zenon
    <3> QED
      BY <1>b, <1>c, <2>1, <3>1, QuietGo, Zenon
  <2> QED
    BY <2>1, <2>3, <2>4
<1>2. CASE SwitchPull(p)
  <2>1. /\ pc[p] = "switch pull" /\ ConfigSame /\ UNCHANGED purged
        /\ Exit(p, 1) \/ (Goto(p, "switch check") /\ UNCHANGED mem)
    BY <1>2, Zenon DEF SwitchPull, At, ConfigSame, files
  <2> QED
    BY <1>a, <1>b, <1>c, <2>1, QuietExit, QuietGoto, Zenon
<1>3. CASE SwitchCheck(p)
  <2>1. /\ pc[p] = "switch check" /\ ConfigSame /\ UNCHANGED purged
        /\ \/ Exit(p, 1)
           \/ /\ mem' = [mem EXCEPT ![p].was = container.up]
              /\ Goto(p, "switch stop") \/ Goto(p, "switch record")
    BY <1>3, Zenon DEF SwitchCheck, At, ConfigSame, files, history
  <2>2. ASSUME mem' = [mem EXCEPT ![p].was = container.up],
               NEW l \in {"switch stop", "switch record"}, Goto(p, l)
        PROVE  RecoveryInv'
    <3>1. /\ Others(p) /\ pc'[p] = l /\ Held(p)
      <4>1. Own(p) /\ Held(p)
        BY <1>a, <2>2, WasSets
      <4> QED
        BY <1>a, <1>c, <2>2, <4>1, FieldsGo, Zenon
    <3> QED
      BY <1>b, <1>c, <2>1, <3>1, QuietGo, Zenon
  <2> QED
    BY <1>a, <1>b, <2>1, <2>2, QuietExit, Zenon
<1>4. CASE SwitchStop(p)
  <2>1. /\ pc[p] = "switch stop" /\ ConfigSame /\ UNCHANGED purged
        /\ Exit(p, 1) \/ Call(p, mem[p].image, "switch")
    BY <1>4, Zenon DEF SwitchStop, At, stop_and_remove, ConfigSame, files, history
  <2> QED
    BY <1>a, <1>b, <2>1, QuietExit, QuietCall, Zenon
<1>5. CASE SwitchRemove(p)
  <2>1. /\ pc[p] = "switch remove" /\ ConfigSame /\ UNCHANGED purged
        /\ Exit(p, 1) \/ Call(p, mem[p].old, "restore")
    BY <1>5, Zenon DEF SwitchRemove, At, stop_and_remove, ConfigSame, files, history
  <2> QED
    BY <1>a, <1>b, <2>1, QuietExit, QuietCall, Zenon
<1>6. CASE SwitchRecord(p)
  <2>1. /\ pc[p] = "switch record" /\ ConfigSame /\ UNCHANGED <<purged, mem>>
        /\ Goto(p, "switch image")
    BY <1>6, Zenon DEF SwitchRecord, At, ConfigSame
  <2> QED
    BY <1>a, <1>b, <1>c, <2>1, QuietGoto, Zenon
<1>7. CASE SwitchImage(p)
  <2>1. /\ pc[p] = "switch image" /\ ConfigSame /\ UNCHANGED purged
        /\ Exit(p, 0)
    BY <1>7, Zenon DEF SwitchImage, At, ConfigSame, history
  <2> QED
    BY <1>a, <1>b, <2>1, QuietExit, Zenon
<1> QED
  BY <1>1, <1>2, <1>3, <1>4, <1>5, <1>6, <1>7 DEF SwitchStep

\* The renewal: the copy is of a whole configuration, since nobody else is at
\* work, and exists before anything else happens.
LEMMA RenewRecovery ==
  ASSUME Typed, ExclusionInv, RecoveryInv, NEW p \in Proc, RenewStep(p)
  PROVE  RecoveryInv'
<1>a. /\ MemoryTyped /\ 0 \in {0, 1} /\ 1 \in {0, 1}
      /\ mem[p].image \in Reference /\ configured_image \in Reference /\ container.up \in BOOLEAN
      /\ config \in Config /\ "renew" \in Caller
  BY References DEF Typed, MemoryTyped, Memory, StateTyped, Caller
<1>b. pc[p] \in {"renew", "renew copy", "renew active", "renew work", "renew backup", "renew was", "renew stop",
                  "renew generate", "renew install", "renew done", "renew printed"}
        => pc[p] \notin BrokenPlace /\ ~Done(p)
  BY DEF BrokenPlace, Done
<1>c. pc[p] \in {"renew copy", "renew install", "renew installed"} => Inside(p)
  BY DEF Inside
<1>1. CASE Renew(p)
  <2>1. /\ pc[p] = "renew" /\ ConfigSame /\ UNCHANGED purged
        /\ \/ Exit(p, 1)
           \/ /\ config # None
              /\ mem' = [mem EXCEPT ![p].was = container.up, ![p].image = configured_image]
              /\ Goto(p, "renew copy")
    BY <1>1, Zenon DEF Renew, At, ConfigSame, files, history
  <2>2. CASE Exit(p, 1)
    BY <1>a, <1>b, <2>1, <2>2, QuietExit, Zenon
  <2>3. CASE /\ config # None
             /\ mem' = [mem EXCEPT ![p].was = container.up, ![p].image = configured_image]
             /\ Goto(p, "renew copy")
    <3>1. "renew copy" \in Place /\ "renew copy" \notin ActivePlace
      BY DEF Place, ActivePlace, BrokenPlace
    <3>2. /\ Others(p) /\ pc'[p] = "renew copy" /\ Held(p)
      <4>1. Own(p) /\ Held(p)
        BY <1>a, <2>3, NoteSets
      <4> QED
        BY <1>a, <2>3, <3>1, <4>1, FieldsGo, Zenon
    <3>3. Prepared(p)' /\ Marked(p)' /\ Ordered(p)'
      BY <2>1, <2>3, <3>1, <3>2, Zenon DEF RecoveryInv, Prepared, Marked, ConfigSame, Ordered, Held
    <3>4. lost \/ Backed(p)'
      <4>1. pc'[p] # "renew active"
        BY <3>2
      <4> QED
        BY <1>b, <2>1, <3>2, <4>1, Zenon DEF RecoveryInv, Backed, Kept, Whole, ConfigSame, Held
    <3> QED
      BY <1>b, <2>1, <3>2, <3>3, <3>4, QuietKeeps, Zenon DEF Broken, Spare, Done
  <2> QED
    BY <2>1, <2>2, <2>3
<1>2. CASE RenewCopy(p)
  <2>1. /\ pc[p] = "renew copy" /\ ConfigSame /\ UNCHANGED purged
        /\ mem' = [mem EXCEPT ![p].backup = config]
        /\ Goto(p, "renew active")
    BY <1>2, Zenon DEF RenewCopy, At, ConfigSame, files, history
  <2>2. "renew active" \in Place /\ "renew active" \notin ActivePlace
    BY DEF Place, ActivePlace, BrokenPlace
  <2>3. /\ Others(p) /\ pc'[p] = "renew active"
        /\ mem'[p].active = mem[p].active /\ mem'[p].backup = config /\ mem'[p].set = mem[p].set
    <3>1. /\ Own(p) /\ mem'[p].active = mem[p].active /\ mem'[p].backup = config
          /\ mem'[p].set = mem[p].set
      BY <1>a, <2>1, BackupSets
    <3> QED
      BY <1>a, <2>1, <2>2, <3>1, FieldsGo, Zenon
  <2>4. Prepared(p)' /\ Marked(p)' /\ Ordered(p)'
    BY <2>2, <2>3 DEF Prepared, Marked, RecoveryInv, Ordered
  <2>5. lost \/ Backed(p)'
    <3>1. lost \/ \A q \in Proc : ~Broken(q)
      BY <1>b, <1>c, <2>1, Alone, BrokenInside, Zenon DEF Broken, Spare, Done
    <3>2. lost \/ Kept \/ Whole(config)
      BY <2>1, <3>1, Zenon DEF RecoveryInv, Existing, Prepared
    <3> QED
      BY <2>1, <2>3, <3>2, Zenon DEF Backed, Kept, Whole, ConfigSame
  <2> QED
    BY <1>b, <2>1, <2>3, <2>4, <2>5, QuietKeeps, Zenon DEF Broken, Spare, Done
<1>3. CASE RenewActive(p)
  <2>1. /\ pc[p] = "renew active" /\ ConfigSame /\ UNCHANGED purged
        /\ mem' = [mem EXCEPT ![p].active = TRUE]
        /\ Goto(p, "renew work")
    BY <1>3, Zenon DEF RenewActive, At, ConfigSame, files, history
  <2>2. "renew work" \in Place
    BY DEF Place
  <2>4. /\ Others(p) /\ pc'[p] = "renew work"
        /\ mem'[p].active = TRUE /\ mem'[p].backup = mem[p].backup /\ mem'[p].set = mem[p].set
    <3>1. Own(p) /\ mem'[p].active = TRUE /\ mem'[p].backup = mem[p].backup /\ mem'[p].set = mem[p].set
      BY <1>a, <2>1, ActiveSets
    <3> QED
      BY <1>a, <2>1, <2>2, <3>1, FieldsGo, Zenon
  <2>5. Prepared(p)' /\ Marked(p)' /\ Ordered(p)'
    BY <2>4, Zenon DEF Prepared, Marked, RecoveryInv, Ordered
  <2>6. lost \/ Backed(p)'
    BY <2>1, <2>4, Zenon DEF RecoveryInv, Backed, Kept, Whole, ConfigSame
  <2> QED
    BY <1>b, <2>1, <2>4, <2>5, <2>6, QuietKeeps, Zenon DEF Broken, Spare, Done
<1>9. CASE RenewSets(p)
  <2>1. /\ pc[p] \in {"renew work", "renew backup", "renew was"} /\ ConfigSame /\ UNCHANGED purged
    BY <1>9, Zenon DEF RenewSets, RenewWork, RenewBackup, RenewWas, At, ConfigSame, files, history
  <2>2. PICK v \in {"work", "backup", "was"}, l \in {"renew backup", "renew was", "renew stop", "renew generate"} :
           /\ mem' = [mem EXCEPT ![p].set = @ \cup {v}] /\ Goto(p, l)
           /\ v = "was" => pc[p] = "renew was"
           /\ l = "renew was" => v = "backup"
    BY <1>9, Zenon DEF RenewSets, RenewWork, RenewBackup, RenewWas, At, SetFor
  <2>3. l \in Place /\ l \notin {"renew copy", "renew active", "idle", "clean work", "clean lock"}
    BY <2>2 DEF Place
  <2>4. /\ Others(p) /\ pc'[p] = l /\ mem'[p].active = mem[p].active /\ mem'[p].backup = mem[p].backup
        /\ mem'[p].set = mem[p].set \cup {v}
    <3>1. Own(p) /\ mem'[p].active = mem[p].active /\ mem'[p].backup = mem[p].backup
          /\ mem'[p].set = mem[p].set \cup {v}
      BY <1>a, <2>2, SetSets
    <3> QED
      BY <1>a, <2>2, <2>3, <3>1, FieldsGo, Zenon
  <2>5. Ordered(p)'
    BY <2>2, <2>3, <2>4 DEF RecoveryInv, Ordered
  <2>6. pc[p] \in ActivePlace
    BY <2>1 DEF ActivePlace
  <2>7. lost \/ (Prepared(p)' /\ Marked(p)')
    BY <2>3, <2>4, <2>6, Zenon DEF RecoveryInv, Prepared, Marked
  <2>8. lost \/ Backed(p)'
    BY <1>b, <2>1, <2>3, <2>4, Zenon DEF RecoveryInv, Backed, Kept, Whole, ConfigSame
  <2> QED
    BY <1>b, <2>1, <2>4, <2>5, <2>7, <2>8, QuietKeeps, Zenon DEF Broken, Spare, Done
<1>4. CASE RenewStop(p)
  <2>1. /\ pc[p] = "renew stop" /\ ConfigSame /\ UNCHANGED purged
        /\ Exit(p, 1) \/ (Goto(p, "renew generate") /\ UNCHANGED mem)
    BY <1>4, Zenon DEF RenewStop, At, stop_and_remove, ConfigSame, files, history
  <2>2. /\ "renew generate" \in Place /\ "renew generate" \notin {"renew copy", "renew active", "renew was"}
        /\ pc[p] \in ActivePlace
    BY <2>1 DEF Place, ActivePlace
  <2> QED
    BY <1>a, <1>b, <2>1, <2>2, QuietExit, QuietGoto, Zenon
<1>5. CASE RenewGenerate(p)
  <2>1. /\ pc[p] = "renew generate" /\ ConfigSame /\ UNCHANGED purged
        /\ Exit(p, 1) \/ (Goto(p, "renew install") /\ UNCHANGED mem)
    BY <1>5, Zenon DEF RenewGenerate, At, ConfigSame, files, history
  <2>2. /\ "renew install" \in Place /\ "renew install" \notin {"renew copy", "renew active", "renew was"}
        /\ pc[p] \in ActivePlace
    BY <2>1 DEF Place, ActivePlace
  <2> QED
    BY <1>a, <1>b, <2>1, <2>2, QuietExit, QuietGoto, Zenon
<1>6. CASE RenewInstall(p)
  <2>1. /\ pc[p] = "renew install" /\ UNCHANGED <<left, lost, gen, purged, mem>>
        /\ config' = Partial /\ Goto(p, "renew installed")
    BY <1>6, Zenon DEF RenewInstall, At, history
  <2>2. Others(p) /\ pc'[p] = "renew installed" /\ mem' = mem
    BY <1>a, <2>1, GoesSets DEF Place
  <2>3. /\ pc[p] \in ActivePlace /\ pc'[p] \in BrokenPlace /\ pc'[p] \notin {"renew copy", "renew active"}
        /\ Ordered(p)'
    BY <2>1, <2>2 DEF ActivePlace, BrokenPlace, RecoveryInv, Ordered
  <2>4. lost \/ (mem[p].active /\ Marked(p)' /\ Prepared(p)' /\ Broken(p)')
    BY <2>2, <2>3, Zenon DEF RecoveryInv, Marked, Prepared, Broken
  <2>5. (Kept <=> Kept') /\ (lost \/ Backed(p)')
    BY <1>b, <2>1, <2>2, <2>3, <2>4, Zenon DEF RecoveryInv, Backed, Kept, Whole
  <2>6. lost \/ Existing'
    BY <2>4, Zenon DEF Existing
  <2>7. lost \/ \A q \in Proc \ {p} : pc[q] # "renew copy"
    BY <1>c, <2>1, Alone
  <2> QED
    BY <2>1, <2>2, <2>3, <2>4, <2>5, <2>6, <2>7, TouchKeeps, Zenon
<1>7. CASE RenewInstalled(p)
  <2>1. /\ pc[p] = "renew installed" /\ UNCHANGED <<left, lost, purged>>
        /\ config' = gen + 1
        /\ Call(p, mem[p].image, "renew") \/ (Goto(p, "renew done") /\ UNCHANGED mem)
    BY <1>7, Zenon DEF RenewInstalled, At, history
  <2>2. /\ Others(p) /\ pc'[p] \in {"start check", "renew done"} /\ Held(p)
    <3>1. "renew done" \in Place /\ (UNCHANGED mem => Held(p))
      BY DEF Place, Held
    <3> QED
      BY <1>a, <2>1, <3>1, CallSets, GoesSets, Zenon
  <2>3. gen \in Nat /\ gen # None
    BY ImageAssumption DEF Typed, StateTyped
  <2>4. gen + 1 # None /\ gen + 1 # Partial
    BY <2>3, ImageAssumption DEF Partial
  <2>5. Whole(config)' /\ config' # None
    BY <2>1, <2>4 DEF Whole, Partial
  <2>6. Prepared(p)' /\ Marked(p)' /\ ~Done(p) /\ pc'[p] # "renew active" /\ Ordered(p)'
    BY <2>1, <2>2 DEF Prepared, Marked, ActivePlace, BrokenPlace, Done, RecoveryInv, Ordered, Held
  <2>7. (Kept <=> Kept') /\ (lost \/ Backed(p)')
    BY <2>1, <2>2, <2>6, Zenon DEF RecoveryInv, Backed, Kept, Whole, Held
  <2>8. Existing'
    BY <2>5, Zenon DEF Existing
  <2> QED
    BY <2>1, <2>2, <2>5, <2>6, <2>7, <2>8, TouchKeeps, Zenon
<1>8. CASE RenewDone(p)
  <2>1. /\ pc[p] = "renew done" /\ ConfigSame /\ UNCHANGED purged
        /\ mem' = [mem EXCEPT ![p].active = FALSE]
        /\ Goto(p, "renew printed")
    BY <1>8, Zenon DEF RenewDone, At, ConfigSame, files, history
  <2>2. Others(p) /\ pc'[p] = "renew printed" /\ ~mem'[p].active /\ mem'[p].set = mem[p].set
    <3>1. Own(p) /\ mem'[p].active = FALSE /\ mem'[p].set = mem[p].set
      BY <1>a, <2>1, ActiveSets
    <3> QED
      BY <1>a, <2>1, <3>1, FieldsGo, Zenon DEF Place
  <2>3. Prepared(p)' /\ Marked(p)' /\ Backed(p)' /\ Ordered(p)'
    BY <2>2 DEF Prepared, Marked, Backed, ActivePlace, BrokenPlace, RecoveryInv, Ordered
  <2> QED
    BY <1>b, <2>1, <2>2, <2>3, QuietKeeps, Zenon DEF Broken, Spare, Done
<1>10. CASE RenewPrinted(p)
  <2>1. /\ pc[p] = "renew printed" /\ ConfigSame /\ UNCHANGED purged
        /\ mem' = [mem EXCEPT ![p].backup = None]
        /\ Goto(p, "clean work")
    BY <1>10, Zenon DEF RenewPrinted, At, ConfigSame, files, history
  <2>2. Others(p) /\ pc'[p] = "clean work" /\ mem'[p].set = mem[p].set
    <3>1. None \in Config
      BY DEF Config
    <3>2. Own(p) /\ mem'[p].set = mem[p].set
      BY <1>a, <2>1, <3>1, BackupSets
    <3> QED
      BY <1>a, <2>1, <3>2, FieldsGo, Zenon DEF Place
  <2>3. Prepared(p)' /\ Marked(p)' /\ Backed(p)' /\ Ordered(p)'
    BY <2>2 DEF Prepared, Marked, Backed, Done, ActivePlace, BrokenPlace, RecoveryInv, Ordered
  <2> QED
    BY <1>b, <2>1, <2>2, <2>3, QuietKeeps, Zenon DEF Broken, Spare, Done
<1> QED
  BY <1>1, <1>2, <1>3, <1>4, <1>5, <1>6, <1>7, <1>8, <1>9, <1>10 DEF RenewStep, RenewSets

\* The trap: the directory is emptied only by a renewal that has its backup.
LEMMA CleanupRecovery ==
  ASSUME Typed, ExclusionInv, RecoveryInv, NEW p \in Proc, Cleanup(p)
  PROVE  RecoveryInv'
<1>a. /\ MemoryTyped /\ mem[p].image \in Reference /\ "cleanup" \in Caller
      /\ None \in Config
  BY DEF Typed, MemoryTyped, Memory, Caller, Config
<1>1. CASE CleanStop(p)
  <2>1. /\ pc[p] = "clean stop" /\ ConfigSame /\ UNCHANGED <<purged, mem>>
        /\ Goto(p, "clean empty")
    BY <1>1, Zenon DEF CleanStop, At, stop_and_remove, ConfigSame, files, history
  <2>2. /\ "clean empty" \in Place /\ "clean empty" \notin {"renew copy", "renew active", "renew was"}
        /\ pc[p] \in ActivePlace /\ "clean empty" \in BrokenPlace /\ ~Done(p)
    BY <2>1 DEF Place, ActivePlace, BrokenPlace, Done
  <2> QED
    BY <1>a, <2>1, <2>2, QuietGoto, Zenon
<1>2. CASE CleanEmpty(p)
  <2>1. /\ pc[p] = "clean empty" /\ UNCHANGED <<left, lost, gen, purged, mem>>
        /\ config' = None /\ Goto(p, "clean restore")
    BY <1>2, Zenon DEF CleanEmpty, At, history
  <2>2. Others(p) /\ pc'[p] = "clean restore" /\ mem' = mem
    BY <1>a, <2>1, GoesSets DEF Place
  <2>3. /\ pc[p] \in ActivePlace /\ pc'[p] \in BrokenPlace /\ pc'[p] \notin {"renew copy", "renew active"}
        /\ ~Done(p) /\ Inside(p) /\ Ordered(p)'
    BY <2>1, <2>2 DEF ActivePlace, BrokenPlace, Done, Inside, RecoveryInv, Ordered
  <2>4. lost \/ (mem[p].active /\ Marked(p)' /\ Prepared(p)' /\ Broken(p)')
    BY <2>2, <2>3, Zenon DEF RecoveryInv, Marked, Prepared, Broken
  <2>5. (Kept <=> Kept') /\ (lost \/ Backed(p)')
    BY <2>1, <2>2, <2>3, <2>4, Zenon DEF RecoveryInv, Backed, Kept, Whole
  <2>6. lost \/ Existing'
    BY <2>4, Zenon DEF Existing
  <2>7. lost \/ \A q \in Proc \ {p} : pc[q] # "renew copy"
    BY <2>3, Alone
  <2> QED
    BY <2>1, <2>2, <2>3, <2>4, <2>5, <2>6, <2>7, TouchKeeps, Zenon
<1>3. CASE CleanRestore(p)
  <2>1. /\ pc[p] = "clean restore" /\ UNCHANGED <<left, gen, purged>>
        /\ \/ lost'
           \/ "backup" \in mem[p].set /\ config' = mem[p].backup
           \/ "backup" \notin mem[p].set /\ "work" \notin mem[p].set /\ UNCHANGED config
        /\ lost => lost'
        /\ \/ Call(p, mem[p].image, "cleanup") /\ "was" \in mem[p].set
           \/ Goto(p, "clean work") /\ UNCHANGED mem
    <3>1. At(p, "clean restore") /\ UNCHANGED <<left, gen, purged>>
      BY <1>3, Zenon DEF CleanRestore
    <3>2. /\ \/ lost'
             \/ "backup" \in mem[p].set /\ config' = mem[p].backup
             \/ "backup" \notin mem[p].set /\ "work" \notin mem[p].set /\ UNCHANGED config
          /\ lost => lost'
      <4>1. \/ lost' = TRUE
            \/ "backup" \in mem[p].set /\ config' = mem[p].backup /\ UNCHANGED lost
            \/ "backup" \notin mem[p].set /\ lost' = (lost \/ "work" \in mem[p].set) /\ UNCHANGED config
        BY <1>3, Zenon DEF CleanRestore
      <4>2. CASE lost' = TRUE
        BY <4>2
      <4>3. CASE "backup" \in mem[p].set /\ config' = mem[p].backup /\ UNCHANGED lost
        BY <4>3, Zenon
      <4>4. CASE "backup" \notin mem[p].set /\ lost' = (lost \/ "work" \in mem[p].set) /\ UNCHANGED config
        <5>1. CASE lost \/ "work" \in mem[p].set
          BY <4>4, <5>1
        <5>2. CASE ~lost /\ "work" \notin mem[p].set
          BY <4>4, <5>2
        <5> QED
          BY <5>1, <5>2
      <4> QED
        BY <4>1, <4>2, <4>3, <4>4
    <3>3. \/ Call(p, mem[p].image, "cleanup") /\ "was" \in mem[p].set
          \/ Goto(p, "clean work") /\ UNCHANGED mem
      BY <1>3, Zenon DEF CleanRestore
    <3> QED
      BY <3>1, <3>2, <3>3, Zenon DEF At
  <2>2. /\ Others(p) /\ pc'[p] \in {"start check", "clean work"} /\ Held(p)
        /\ pc'[p] = "start check" => "was" \in mem[p].set
    <3>1. "clean work" \in Place /\ (UNCHANGED mem => Held(p))
      BY DEF Place, Held
    <3> QED
      BY <1>a, <2>1, <3>1, CallSets, GoesSets, Zenon
  <2>3. /\ Prepared(p)' /\ Marked(p)' /\ ~Done(p) /\ pc'[p] # "renew active" /\ pc[p] \in ActivePlace
        /\ Inside(p) /\ Ordered(p)'
    BY <2>1, <2>2 DEF Prepared, Marked, ActivePlace, BrokenPlace, Done, Inside, RecoveryInv, Ordered, Held
  <2>4. Kept <=> Kept'
    BY <2>1, Zenon DEF Kept, Whole
  <2>5. lost \/ Kept \/ Whole(mem[p].backup)
    BY <2>3, Zenon DEF RecoveryInv, Marked, Backed
  <2>6. lost \/ Backed(p)'
    BY <2>2, <2>4, <2>5, Zenon DEF Backed, Whole, Held
  <2>7. lost \/ lost' \/ Existing'
    <3>1. CASE "backup" \in mem[p].set /\ config' = mem[p].backup
      BY <2>4, <2>5, <3>1, Zenon DEF Existing, Whole
    <3>2. CASE "backup" \notin mem[p].set /\ "work" \notin mem[p].set
      <4>1. pc'[p] = "clean work"
        BY <2>2, <3>2, Zenon DEF RecoveryInv, Ordered
      <4>2. Whole(mem[p].backup) => Broken(p)'
        BY <2>2, <3>2, <4>1, Zenon DEF Broken, Spare, Whole, Held
      <4> QED
        BY <2>4, <2>5, <4>2, Zenon DEF Existing
    <3> QED
      BY <2>1, <3>1, <3>2
  <2>8. lost \/ \A q \in Proc \ {p} : pc[q] # "renew copy"
    BY <2>3, Alone
  <2>9. lost => lost'
    BY <2>1
  <2> QED
    BY <2>1, <2>2, <2>3, <2>4, <2>6, <2>7, <2>8, <2>9, TouchKeeps, Zenon
<1>4. CASE CleanWork(p)
  <2>1. /\ pc[p] = "clean work" /\ UNCHANGED <<config, lost, gen, purged>>
        /\ mem' = [mem EXCEPT ![p].backup = None]
        /\ left' = IF "work" \in mem[p].set THEN left ELSE left \cup ({mem[p].backup} \ {None})
        /\ Goto(p, "clean lock")
    BY <1>4, Zenon DEF CleanWork, At, files, history
  <2>2. Others(p) /\ pc'[p] = "clean lock" /\ mem'[p].set = mem[p].set
    <3>1. Own(p) /\ mem'[p].set = mem[p].set
      BY <1>a, <2>1, BackupSets
    <3> QED
      BY <1>a, <2>1, <3>1, FieldsGo DEF Place
  <2>3. Prepared(p)' /\ Marked(p)' /\ Backed(p)' /\ Ordered(p)'
    BY <2>1, <2>2 DEF Prepared, Marked, Backed, Done, ActivePlace, BrokenPlace, RecoveryInv, Ordered
  <2>4. Kept => Kept'
    BY <2>1, Zenon DEF Kept, Whole
  <2>5. Broken(p) => Kept'
    <3>1. Broken(p) => Spare(p)
      BY <2>1 DEF Broken, BrokenPlace
    <3>2. Spare(p) => mem[p].backup \in left'
      BY <2>1 DEF Spare, Whole
    <3> QED
      BY <3>1, <3>2, Zenon DEF Kept, Spare, Whole
  <2>6. \A q \in Proc \ {p} : Broken(q)' = Broken(q)
    BY <2>2, Zenon DEF Broken, Others, Spare, Whole
  <2>7. lost \/ Existing'
    BY <2>1, <2>4, <2>5, <2>6, Zenon DEF RecoveryInv, Existing, Whole
  <2>8. lost \/ config' # None \/ \A q \in Proc \ {p} : pc[q] # "renew copy"
    BY <2>1, Zenon DEF RecoveryInv, Prepared
  <2> QED
    BY <2>1, <2>2, <2>3, <2>4, <2>7, <2>8, TouchKeeps, Zenon
<1>5. CASE CleanLock(p)
  <2>1. /\ pc[p] = "clean lock" /\ ConfigSame /\ UNCHANGED purged /\ Leave(p)
    BY <1>5, Zenon DEF CleanLock, ConfigSame, files, history
  <2>2. ~Broken(p)
    BY <2>1 DEF Broken, BrokenPlace, Spare
  <2> QED
    BY <1>a, <2>1, <2>2, QuietLeave
<1> QED
  BY <1>1, <1>2, <1>3, <1>4, <1>5 DEF Cleanup

\* A signal, or a command that fails without effect.
LEMMA FaultRecovery ==
  ASSUME Typed, RecoveryInv, NEW p \in Proc, Abort(p) \/ Kill(p)
  PROVE  RecoveryInv'
<1>a. MemoryTyped /\ 1 \in {0, 1}
  BY DEF Typed
<1>1. CASE Kill(p)
  BY <1>1, AbandonRecovery, Zenon DEF Kill
<1>2. CASE Abort(p)
  <2>1. Exit(p, 1) /\ ConfigSame /\ UNCHANGED purged /\ ~InCleanup(p)
    BY <1>2, Zenon DEF Abort, ConfigSame, files, history
  <2>2. ~Done(p)
    BY <2>1 DEF Done, InCleanup
  <2> QED
    BY <1>a, <2>1, <2>2, QuietExit, Zenon
<1> QED
  BY <1>1, <1>2

\* A command begins, takes the lock or is refused.
LEMMA EntryRecovery ==
  ASSUME Typed, RecoveryInv, NEW p \in Proc, Begin(p) \/ Lock(p)
  PROVE  RecoveryInv'
<1>a. MemoryTyped
  BY DEF Typed
<1>1. CASE Begin(p)
  <2>1. pc[p] = "idle" /\ ConfigSame /\ UNCHANGED purged
    BY <1>1, Zenon DEF Begin, ConfigSame, files, history
  <2>2. Others(p) /\ pc'[p] = "lock" /\ ~mem'[p].active /\ mem'[p].set = {}
    BY <1>1, <1>a, BeginSets
  <2>3. Prepared(p)' /\ Marked(p)' /\ Backed(p)' /\ Ordered(p)' /\ ~Broken(p)
    BY <2>1, <2>2 DEF Prepared, Marked, Backed, Ordered, ActivePlace, BrokenPlace, Broken, Spare
  <2> QED
    BY <2>1, <2>2, <2>3, QuietKeeps, Zenon
<1>2. CASE Lock(p)
  <2>1. /\ pc[p] = "lock" /\ ConfigSame /\ UNCHANGED purged
        /\ Leave(p) \/ (Goto(p, First(mem[p].name)) /\ UNCHANGED mem)
    BY <1>2, Zenon DEF Lock, ConfigSame, files, history
  <2>2. pc[p] \notin BrokenPlace /\ ~Done(p) /\ ~Broken(p)
    BY <2>1 DEF Broken, BrokenPlace, Done, Spare
  <2>3. /\ First(mem[p].name) \in {"stop", "switch", "init", "up", "renew"}
    BY DEF First
  <2>4. /\ First(mem[p].name) \in Place /\ First(mem[p].name) \notin ActivePlace
        /\ First(mem[p].name) \notin {"renew copy", "renew active", "renew was"}
    BY <2>3 DEF Place, ActivePlace, BrokenPlace
  <2> QED
    BY <1>a, <2>1, <2>2, <2>4, QuietLeave, QuietGoto, Zenon
<1> QED
  BY <1>1, <1>2

LEMMA StepRecovery ==
  ASSUME Typed, ExclusionInv, RecoveryInv, [Next]_vars
  PROVE  RecoveryInv'
<1>1. ASSUME UNCHANGED <<pc, mem, config, left, lost, gen, purged>>
      PROVE  RecoveryInv'
  BY <1>1, Zenon DEF RecoveryInv, Existing, Kept, Broken, Spare, Prepared, Marked, Backed, Ordered, Done, Whole
<1>2. CASE Unlock \/ Publish \/ Prune \/ UNCHANGED vars
  BY <1>1, <1>2, Zenon DEF Unlock, Publish, Prune, vars, files, history
<1> QED
  BY <1>2, PlainRecovery, StartRecovery, SwitchRecovery, RenewRecovery, CleanupRecovery, FaultRecovery,
     EntryRecovery, Zenon DEF Next

LEMMA InitRecovery ==
  ASSUME Init
  PROVE  RecoveryInv
<1>1. /\ purged = FALSE
      /\ (config = None /\ gen = 0) \/ config = 1
  BY Zenon DEF Init
<1>2. \A p \in Proc : pc[p] = "idle" /\ ~mem[p].active /\ mem[p].set = {}
  BY DEF Init, NoCommand
<1>3. (config = None /\ gen = 0) \/ Whole(config)
  BY <1>1, ImageAssumption DEF Whole, Partial
<1>4. ASSUME NEW p \in Proc
      PROVE  Prepared(p) /\ Marked(p) /\ Backed(p) /\ Ordered(p)
  BY <1>2, Places, Zenon DEF Prepared, Marked, Backed, Ordered
<1> QED
  BY <1>1, <1>3, <1>4, Zenon DEF RecoveryInv, Existing

\* However a renewal is interrupted, and whatever else is tried meanwhile, a
\* whole configuration exists (scripts/mini-singbox-containerctl:376-421, 436-456): in its
\* directory, or as the backup in a work directory.  Excepted, until the next
\* "init" makes a new one, are the copy back that fails in the trap, a trap that
\* a signal enters between RENEW_WORK= and RENEW_BACKUP=, and a PURGE.
THEOREM RenewalRecoverable == Spec => []Recoverable
<1>1. Init => Typed /\ ExclusionInv /\ RecoveryInv
  BY InitTyped, InitExclusion, InitRecovery
<1>2. Typed /\ ExclusionInv /\ RecoveryInv /\ [Next]_vars => (Typed /\ ExclusionInv /\ RecoveryInv)'
  BY StepTyped, ExclusionStep, StepRecovery
<1>3. RecoveryInv => Recoverable
  BY RecoveryRecovers
<1> QED
  BY <1>1, <1>2, <1>3, PTL DEF Spec

-----------------------------------------------------------------------------
(* The way back from a switch.                                             *)

\* What a switch is to replace is what the configured reference means when it
\* begins.  It remembers that image, or the reference when it is a tag; until
\* the pull of that very tag the reference means the image; and
\* PREVIOUS_IMAGE_FILE is written first.
Recorded == ~astray /\ origin # None => origin \in {Resolve(previousFile), Resolve(configured_image)}

Holding(p) == pc[p] \in {"switch check", "switch stop", "switch record"} \/ Starting(p)

Remembers(p) ==
  /\ pc[p] \in {"switch", "switch pull"} => before[p].resolved = Resolve(configured_image)
  /\ pc[p] = "switch pull" => \/ mem[p].old = Resolve(configured_image)
                              \/ mem[p].old = configured_image /\ configured_image \in TagName
  /\ Holding(p) => /\ astray \/ origin \in {None, Resolve(configured_image)}
                   /\ \/ mem[p].old = origin
                      \/ mem[p].old = configured_image /\ configured_image \in TagName
  /\ pc[p] = "switch image" => astray \/ origin \in {None, Resolve(previousFile)}

OriginInv == purged \/ (Recorded /\ \A p \in Proc : Remembers(p))

\* Away from a switch nothing is to be remembered.
LEMMA Forgets ==
  ASSUME NEW p \in Proc
  PROVE  /\ pc[p] \notin SwitchPlace /\ ~Starting(p) => Remembers(p)
         /\ pc'[p] \notin SwitchPlace /\ ~Starting(p)' => Remembers(p)'
         /\ ~Inside(p) => pc[p] \notin SwitchPlace /\ ~Starting(p)
         /\ ~Inside(p)' => pc'[p] \notin SwitchPlace /\ ~Starting(p)'
<1>1. ASSUME pc[p] \notin SwitchPlace, ~Starting(p)
      PROVE  Remembers(p)
  BY <1>1 DEF Remembers, SwitchPlace, Holding
<1>2. ASSUME pc'[p] \notin SwitchPlace, ~Starting(p)'
      PROVE  Remembers(p)'
  BY <1>2 DEF Remembers, SwitchPlace, Holding
<1>3. ASSUME ~Inside(p)
      PROVE  pc[p] \notin SwitchPlace /\ ~Starting(p)
  BY <1>3 DEF Inside, SwitchPlace, Starting, InStart
<1>4. ASSUME ~Inside(p)'
      PROVE  pc'[p] \notin SwitchPlace /\ ~Starting(p)'
  BY <1>4 DEF Inside, SwitchPlace, Starting, InStart
<1> QED
  BY <1>1, <1>2, <1>3, <1>4, Zenon

\* A step of the only command in the script keeps the invariant when it keeps
\* its own part.
LEMMA OriginKeeps ==
  ASSUME MemoryTyped, ExclusionInv, NEW p \in Proc, Others(p), Inside(p), UNCHANGED purged,
         purged \/ (Recorded' /\ Remembers(p)')
  PROVE  OriginInv'
<1>1. CASE purged
  BY <1>1, Zenon DEF OriginInv
<1>2. CASE ~purged
  <2>1. ASSUME NEW q \in Proc \ {p}
        PROVE  Remembers(q)'
    <3>1. ~Inside(q)
      BY <1>2, Zenon DEF ExclusionInv, LockHeld
    <3>2. ~Inside(q)'
      BY <3>1, Zenon DEF Others, Inside
    <3> QED
      BY <3>2, Forgets, Zenon
  <2> QED
    BY <1>2, <2>1, Zenon DEF OriginInv
<1> QED
  BY <1>1, <1>2

\* A step that leaves the images alone, and holds what it held.
LEMMA OriginSame ==
  ASSUME OriginInv, NEW p \in Proc, Others(p), ImagesSame, \A q \in Proc \ {p} : before'[q] = before[q],
         purged \/ Remembers(p)'
  PROVE  OriginInv'
<1>1. /\ configured_image' = configured_image
      /\ \A r : Resolve(r)' = Resolve(r)
  BY Zenon DEF ImagesSame, configured_image, Resolve
<1>2. ASSUME NEW q \in Proc \ {p}, Remembers(q)
      PROVE  Remembers(q)'
  <2>1. pc'[q] = pc[q] /\ mem'[q] = mem[q] /\ before'[q] = before[q]
    BY Zenon DEF Others
  <2>2. Holding(q)' <=> Holding(q)
    BY <2>1, Zenon DEF Holding, Starting, InStart
  <2> QED
    BY <1>1, <1>2, <2>1, <2>2, Zenon DEF Remembers, ImagesSame
<1>3. Recorded => Recorded'
  BY <1>1, Zenon DEF Recorded, ImagesSame
<1> QED
  BY <1>2, <1>3, Zenon DEF OriginInv, ImagesSame

LEMMA OriginHeld ==
  ASSUME OriginInv, NEW p \in Proc, ImagesSame, Holding(p), mem'[p].old = mem[p].old,
         pc'[p] \notin {"switch", "switch pull", "switch image"}
  PROVE  purged \/ Remembers(p)'
<1>1. /\ configured_image' = configured_image
      /\ Resolve(configured_image)' = Resolve(configured_image)
  BY Zenon DEF ImagesSame, configured_image, Resolve
<1> QED
  BY <1>1, Zenon DEF OriginInv, Remembers, ImagesSame

\* start_container, called for a switch, goes on with it.
LEMMA StartOrigin ==
  ASSUME Typed, OriginInv, NEW p \in Proc, Start(p), ImagesSame
  PROVE  purged \/ Remembers(p)'
<1>a. MemoryTyped /\ 0 \in {0, 1} /\ 1 \in {0, 1} /\ InStart(p)
  BY DEF Typed, Start, StartCheck, StartRun, StartObserve, At, InStart
<1>1. ASSUME NEW s \in {0, 1}, Exit(p, s)
      PROVE  Remembers(p)'
  <2>1. pc'[p] = "clean stop" \/ pc'[p] = "clean work"
    BY <1>a, <1>1, ExitSets, Zenon
  <2>2. pc'[p] \notin SwitchPlace /\ ~Starting(p)'
    BY <2>1 DEF SwitchPlace, Starting, InStart
  <2> QED
    BY <2>2, Forgets, Zenon
<1>2. ASSUME Leave(p)
      PROVE  Remembers(p)'
  <2>1. ~Inside(p)'
    BY <1>a, <1>2, LeaveSets DEF Inside
  <2> QED
    BY <2>1, Forgets, Zenon
<1>3. ASSUME NEW l \in {"start run", "start observe"}, Goto(p, l), UNCHANGED mem
      PROVE  purged \/ Remembers(p)'
  <2>1. pc'[p] = l
    BY <1>a, <1>3, GotoSets DEF Place
  <2>2. CASE mem[p].caller = "switch"
    BY <1>a, <1>3, <2>1, <2>2, OriginHeld DEF Holding, Starting
  <2>3. CASE mem[p].caller # "switch"
    <3>1. pc'[p] \notin SwitchPlace /\ ~Starting(p)'
      BY <1>3, <2>1, <2>3 DEF SwitchPlace, Starting
    <3> QED
      BY <3>1, Forgets, Zenon
  <2> QED
    BY <2>2, <2>3
<1>4. ASSUME NEW s \in {0, 1}, Return(p, s)
      PROVE  purged \/ Remembers(p)'
  <2>1. \/ \E t \in {0, 1} : Exit(p, t)
        \/ /\ mem[p].caller = "switch" /\ UNCHANGED mem
           /\ Goto(p, "switch record") \/ Goto(p, "switch remove")
        \/ Goto(p, "renew done") \/ Goto(p, "clean work")
    BY <1>a, <1>4, Zenon DEF Return
  <2>2. CASE /\ mem[p].caller = "switch" /\ UNCHANGED mem
             /\ Goto(p, "switch record") \/ Goto(p, "switch remove")
    <3>1. pc'[p] = "switch record" \/ pc'[p] = "switch remove"
      BY <1>a, <2>2, GotoSets DEF Place
    <3>2. Holding(p)
      BY <1>a, <2>2, Zenon DEF Holding, Starting
    <3> QED
      BY <2>2, <3>1, <3>2, OriginHeld
  <2>3. CASE Goto(p, "renew done") \/ Goto(p, "clean work")
    <3>1. pc'[p] = "renew done" \/ pc'[p] = "clean work"
      BY <1>a, <2>3, GotoSets DEF Place
    <3>2. pc'[p] \notin SwitchPlace /\ ~Starting(p)'
      BY <3>1 DEF SwitchPlace, Starting, InStart
    <3> QED
      BY <3>2, Forgets, Zenon
  <2> QED
    BY <1>1, <2>1, <2>2, <2>3
<1>5. CASE StartCheck(p)
  BY <1>a, <1>1, <1>2, <1>3, <1>5, Zenon DEF StartCheck, Abandon
<1>6. CASE StartRun(p)
  BY <1>a, <1>3, <1>4, <1>6, Zenon DEF StartRun
<1>7. CASE StartObserve(p)
  BY <1>a, <1>4, <1>7, Zenon DEF StartObserve
<1> QED
  BY <1>5, <1>6, <1>7 DEF Start

LEMMA CommandOrigin ==
  ASSUME Typed, ExclusionInv, OriginInv, NEW p \in Proc, CommandStep(p)
  PROVE  OriginInv'
<1>a. /\ MemoryTyped /\ FilesTyped /\ Others(p) /\ mem[p] \in Memory /\ HistoryTyped
      /\ configured_image \in Reference /\ configured_image # None /\ Resolve(configured_image) \in Image \cup {None}
      /\ mem[p].image \in Reference /\ mem[p].old \in Reference
      /\ "switch" \in Caller /\ 0 \in {0, 1} /\ 1 \in {0, 1}
      /\ \A q \in Proc \ {p} : before'[q] = before[q]
  BY StepMemory, StepHistory, References DEF Typed, CommandStep, Sets, MemoryTyped, Memory, Caller
<1>b. \A l \in Place : pc[p] = l => Inside(p)
  BY BrokenInside
<1>c. ASSUME NEW s \in {0, 1}, Exit(p, s)
      PROVE  pc'[p] \notin SwitchPlace /\ ~Starting(p)'
  <2>1. pc'[p] = "clean stop" \/ pc'[p] = "clean work"
    BY <1>a, <1>c, ExitSets, Zenon
  <2> QED
    BY <2>1 DEF SwitchPlace, Starting, InStart
<1>d. \A r : UNCHANGED <<imageFile, tags>> =>
           /\ configured_image' = configured_image
           /\ Resolve(configured_image)' = Resolve(configured_image)
           /\ Resolve(r)' = Resolve(r)
  BY Zenon DEF configured_image, Resolve
<1>0. CASE /\ ImagesSame /\ pc'[p] \notin SwitchPlace /\ ~Starting(p)'
  <2>1. Remembers(p)'
    BY <1>0, Forgets, Zenon
  <2> QED
    BY <1>a, <1>0, <2>1, OriginSame
<1>1. CASE generate_config(p)
  <2>1. /\ pc[p] = "init" /\ UNCHANGED <<imageFile, previousFile, origin, astray, purged>>
        /\ \/ UNCHANGED tags
           \/ tags' = [tags EXCEPT ![configured_image] =
                         IF Resolve(configured_image) = None THEN registry[configured_image]
                                                             ELSE Resolve(configured_image)]
        /\ Exit(p, 1) \/ Goto(p, "write image")
    BY <1>1, Zenon DEF generate_config, At
  <2>2. configured_image' = configured_image
    BY <2>1, Zenon DEF configured_image
  <2>3. \A r \in Reference : Resolve(r) # None => Resolve(r)' = Resolve(r)
    BY <1>a, <2>1, <2>2 DEF Resolve, FilesTyped
  <2>4. Recorded => Recorded'
    <3>1. previousFile \in Reference /\ previousFile' = previousFile
      BY <1>a, <2>1 DEF FilesTyped
    <3>2. ~astray /\ origin # None /\ Resolve(previousFile) = origin => origin = Resolve(previousFile)'
      BY <2>3, <3>1
    <3>3. ~astray /\ origin # None /\ Resolve(configured_image) = origin => origin = Resolve(configured_image)'
      BY <1>a, <2>2, <2>3
    <3> QED
      BY <2>1, <3>2, <3>3 DEF Recorded
  <2>5. pc'[p] \notin SwitchPlace /\ ~Starting(p)' /\ Inside(p)
    <3>1. Inside(p)
      BY <1>b, <2>1, Zenon DEF Place
    <3>2. CASE Goto(p, "write image")
      <4>1. pc'[p] = "write image"
        BY <1>a, <3>2, GotoSets DEF Place
      <4> QED
        BY <3>1, <4>1 DEF SwitchPlace, Starting, InStart
    <3> QED
      BY <1>a, <1>c, <2>1, <3>1, <3>2, Zenon
  <2>6. Remembers(p)'
    BY <2>5, Forgets, Zenon
  <2> QED
    BY <1>a, <2>1, <2>4, <2>5, <2>6, OriginKeeps, Zenon DEF OriginInv
<1>2. CASE WriteImage(p)
  <2>1. /\ pc[p] = "write image" /\ imageFile' = configured_image /\ Exit(p, 0)
        /\ UNCHANGED <<previousFile, origin, astray, purged, tags>>
    BY <1>2, Zenon DEF WriteImage, At, images, history
  <2>2. configured_image' = configured_image
    BY <1>a, <2>1, Zenon DEF configured_image
  <2>3. Resolve(configured_image)' = Resolve(configured_image) /\ Resolve(previousFile)' = Resolve(previousFile)
    BY <2>1, <2>2, Zenon DEF Resolve
  <2>4. Recorded => Recorded'
    BY <2>1, <2>3, Zenon DEF Recorded
  <2>5. Inside(p)
    BY <1>b, <2>1, Zenon DEF Place
  <2>6. Remembers(p)'
    BY <1>a, <1>c, <2>1, Forgets, Zenon
  <2> QED
    BY <1>a, <2>1, <2>4, <2>5, <2>6, OriginKeeps, Zenon DEF OriginInv
<1>3. CASE Forget(p)
  <2>1. /\ pc[p] = "forget" /\ origin' = None /\ Exit(p, 0)
        /\ purged' = TRUE \/ purged' = purged
    BY <1>3, Zenon DEF Forget, At
  <2>2. Recorded'
    BY <2>1, Zenon DEF Recorded
  <2>3. Inside(p)
    BY <1>b, <2>1, Zenon DEF Place
  <2>4. Remembers(p)'
    BY <1>a, <1>c, <2>1, Forgets, Zenon
  <2>5. CASE purged' = TRUE
    BY <2>5 DEF OriginInv
  <2>6. CASE purged' = purged
    BY <1>a, <2>2, <2>3, <2>4, <2>6, OriginKeeps, Zenon
  <2> QED
    BY <2>1, <2>5, <2>6
<1>4. CASE Switch(p)
  <2>1. pc[p] = "switch" /\ UNCHANGED <<imageFile, previousFile, origin, astray, purged, tags, before>>
    BY <1>4, Zenon DEF Switch, At, files, images, history
  <2>2. Recorded => Recorded'
    BY <1>d, <2>1, Zenon DEF Recorded
  <2>3. purged \/ Remembers(p)'
    <3>1. CASE Exit(p, 1)
      BY <1>a, <1>c, <3>1, Forgets, Zenon
    <3>2. CASE ~Exit(p, 1)
      <4>p. PICK t, old : /\ mem' = [mem EXCEPT ![p].image = t, ![p].old = old] /\ Goto(p, "switch pull")
                          /\ old = Resolve(configured_image) \/ old = configured_image
        BY <1>4, <3>2, SwitchRemembers, Zenon
      <4>1. mem'[p].old = old
        <5>1. mem'[p] = [mem[p] EXCEPT !.image = t, !.old = old]
          BY <1>a, <4>p, ZenonT(40) DEF MemoryTyped
        <5> QED
          BY <1>a, <5>1 DEF MemoryTyped, Memory
      <4>2. pc'[p] = "switch pull" /\ ~Holding(p)'
        <5>1. pc'[p] = "switch pull"
          BY <1>a, <4>p, GotoSets DEF Place
        <5> QED
          BY <5>1 DEF Holding, Starting, InStart
      <4>3. configured_image \notin TagName => Resolve(configured_image) = configured_image
        BY DEF Resolve
      <4>4. purged \/ before[p].resolved = Resolve(configured_image)
        BY <2>1 DEF OriginInv, Remembers
      <4>5. /\ configured_image' = configured_image
            /\ Resolve(configured_image)' = Resolve(configured_image) /\ before' = before
        BY <1>d, <2>1, Zenon
      <4> QED
        BY <4>p, <4>1, <4>2, <4>3, <4>4, <4>5 DEF Remembers
    <3> QED
      BY <3>1, <3>2
  <2>4. Inside(p)
    BY <1>b, <2>1, Zenon DEF Place
  <2> QED
    BY <1>a, <2>1, <2>2, <2>3, <2>4, OriginKeeps, Zenon DEF OriginInv
<1>5. CASE SwitchPull(p)
  <2> DEFINE target == mem[p].image
  <2>1. /\ pc[p] = "switch pull" /\ UNCHANGED <<imageFile, previousFile, purged>>
        /\ \/ Exit(p, 1) /\ UNCHANGED <<tags, origin, astray>>
           \/ /\ Goto(p, "switch check") /\ UNCHANGED mem /\ origin' = before[p].resolved
              /\ \/ UNCHANGED tags
                 \/ /\ target \in TagName /\ tags' = [tags EXCEPT ![target] = registry[target]]
                    /\ astray' = (target = configured_image /\ tags[target] \notin {None, registry[target]})
    BY <1>5, Zenon DEF SwitchPull, At, files
  <2>2. Inside(p)
    BY <1>b, <2>1, Zenon DEF Place
  <2>3. CASE Exit(p, 1) /\ UNCHANGED <<tags, origin, astray>>
    <3>1. Recorded => Recorded'
      BY <1>d, <2>1, <2>3, Zenon DEF Recorded
    <3>2. Remembers(p)'
      BY <1>a, <1>c, <2>3, Forgets, Zenon
    <3> QED
      BY <1>a, <2>1, <2>2, <3>1, <3>2, OriginKeeps, Zenon DEF OriginInv
  <2>4. CASE /\ Goto(p, "switch check") /\ UNCHANGED mem /\ origin' = before[p].resolved
             /\ \/ UNCHANGED tags
                \/ /\ target \in TagName /\ tags' = [tags EXCEPT ![target] = registry[target]]
                   /\ astray' = (target = configured_image /\ tags[target] \notin {None, registry[target]})
    <3>1. configured_image' = configured_image
      BY <2>1, Zenon DEF configured_image
    <3>2. pc'[p] = "switch check" /\ mem' = mem
      BY <1>a, <2>4, GotoSets DEF Place
    <3>3. CASE ~purged
      <4>1. /\ origin' = Resolve(configured_image)
            /\ \/ mem[p].old = origin'
               \/ mem[p].old = configured_image /\ configured_image \in TagName
        BY <2>1, <2>4, <3>3, Zenon DEF OriginInv, Remembers
      <4>2. astray' \/ origin' \in {None, Resolve(configured_image)'}
        <5>1. CASE UNCHANGED tags
          BY <1>d, <2>1, <4>1, <5>1, Zenon
        <5>2. CASE target \in TagName /\ tags' = [tags EXCEPT ![target] = registry[target]] /\ target # configured_image
          BY <1>a, <3>1, <4>1, <5>2 DEF Resolve, FilesTyped
        <5>3. CASE /\ target \in TagName /\ tags' = [tags EXCEPT ![target] = registry[target]]
                   /\ target = configured_image /\ tags[target] \in {None, registry[target]}
          BY <1>a, <3>1, <4>1, <5>3 DEF Resolve, FilesTyped
        <5>4. CASE astray' = TRUE
          BY <5>4
        <5> QED
          BY <2>4, <5>1, <5>2, <5>3, <5>4
      <4>3. Recorded'
        BY <4>2, Zenon DEF Recorded
      <4>4. Remembers(p)'
        BY <3>1, <3>2, <4>1, <4>2 DEF Remembers
      <4> QED
        BY <1>a, <2>1, <2>2, <4>3, <4>4, OriginKeeps, Zenon
    <3>4. CASE purged
      BY <2>1, <3>4, Zenon DEF OriginInv
    <3> QED
      BY <3>3, <3>4
  <2> QED
    BY <2>1, <2>3, <2>4
<1>6. CASE SwitchCheck(p)
  <2>1. /\ pc[p] = "switch check" /\ ImagesSame
        /\ \/ Exit(p, 1)
           \/ /\ mem' = [mem EXCEPT ![p].was = container.up]
              /\ Goto(p, "switch stop") \/ Goto(p, "switch record")
    BY <1>6, Zenon DEF SwitchCheck, At, ImagesSame, files, images, history
  <2>2. CASE Exit(p, 1)
    BY <1>a, <1>c, <1>0, <2>1, <2>2
  <2>3. CASE /\ mem' = [mem EXCEPT ![p].was = container.up]
             /\ Goto(p, "switch stop") \/ Goto(p, "switch record")
    <3>1. mem'[p].old = mem[p].old
      <4>1. container.up \in BOOLEAN
        BY DEF Typed, StateTyped
      <4> QED
        BY <1>a, <2>3, <4>1, WasSets
    <3>2. pc'[p] \in {"switch stop", "switch record"}
      BY <1>a, <2>3, GotoSets DEF Place
    <3>3. Holding(p)
      BY <2>1 DEF Holding
    <3>4. purged \/ Remembers(p)'
      BY <2>1, <3>1, <3>2, <3>3, OriginHeld
    <3> QED
      BY <1>a, <2>1, <3>4, OriginSame
  <2> QED
    BY <2>1, <2>2, <2>3
<1>7. CASE SwitchStop(p)
  <2>1. /\ pc[p] = "switch stop" /\ ImagesSame
        /\ Exit(p, 1) \/ Call(p, mem[p].image, "switch")
    BY <1>7, Zenon DEF SwitchStop, stop_and_remove, At, ImagesSame, files, images, history
  <2>2. CASE Exit(p, 1)
    BY <1>a, <1>c, <1>0, <2>1, <2>2
  <2>3. CASE Call(p, mem[p].image, "switch")
    <3>1. mem'[p].old = mem[p].old /\ pc'[p] = "start check"
      BY <1>a, <2>3, CallKeeps
    <3>2. Holding(p)
      BY <2>1 DEF Holding
    <3>3. purged \/ Remembers(p)'
      BY <2>1, <3>1, <3>2, OriginHeld
    <3> QED
      BY <1>a, <2>1, <3>3, OriginSame
  <2> QED
    BY <2>1, <2>2, <2>3
<1>8. CASE SwitchRecord(p)
  <2>1. /\ pc[p] = "switch record" /\ previousFile' = mem[p].old
        /\ astray' = (astray /\ mem[p].old \in TagName)
        /\ UNCHANGED <<purged, mem, origin, imageFile, tags>> /\ Goto(p, "switch image")
    BY <1>8, Zenon DEF SwitchRecord, At, images
  <2>2. pc'[p] = "switch image" /\ ~Holding(p)'
    <3>1. pc'[p] = "switch image"
      BY <1>a, <2>1, GotoSets DEF Place
    <3> QED
      BY <3>1 DEF Holding, Starting, InStart
  <2>3. purged \/ astray' \/ origin' \in {None, Resolve(previousFile)'}
    <3>1. CASE ~purged
      <4>1. /\ astray \/ origin \in {None, Resolve(configured_image)}
            /\ \/ mem[p].old = origin
               \/ mem[p].old = configured_image /\ configured_image \in TagName
        BY <2>1, <3>1 DEF OriginInv, Remembers, Holding
      <4>2. CASE mem[p].old = origin
        <5>1. origin \notin TagName
          BY <1>a, ImageAssumption DEF FilesTyped
        <5> QED
          BY <2>1, <4>2, <5>1 DEF Resolve
      <4>3. CASE mem[p].old = configured_image /\ configured_image \in TagName
        <5>1. Resolve(previousFile)' = Resolve(configured_image)
          BY <2>1, <4>3 DEF Resolve
        <5> QED
          BY <2>1, <4>1, <4>3, <5>1
      <4> QED
        BY <4>1, <4>2, <4>3
    <3> QED
      BY <3>1
  <2>4. purged \/ (Recorded' /\ Remembers(p)')
    BY <2>2, <2>3 DEF Recorded, Remembers
  <2>5. Inside(p)
    BY <1>b, <2>1, Zenon DEF Place
  <2> QED
    BY <1>a, <2>1, <2>4, <2>5, OriginKeeps, Zenon
<1>9. CASE SwitchImage(p)
  <2>1. pc[p] = "switch image" /\ UNCHANGED <<previousFile, origin, astray, purged, tags>> /\ Exit(p, 0)
    BY <1>9, Zenon DEF SwitchImage, At, images, history
  <2>2. Resolve(previousFile)' = Resolve(previousFile)
    BY <2>1, Zenon DEF Resolve
  <2>3. Remembers(p) => Recorded'
    BY <2>1, <2>2, Zenon DEF Recorded, Remembers
  <2>4. Inside(p)
    BY <1>b, <2>1, Zenon DEF Place
  <2>5. Remembers(p)'
    BY <1>a, <1>c, <2>1, Forgets, Zenon
  <2> QED
    BY <1>a, <2>1, <2>3, <2>4, <2>5, OriginKeeps, Zenon DEF OriginInv
<1>10. CASE Start(p)
  <2>1. ImagesSame
    BY <1>10, Zenon DEF Start, StartCheck, StartRun, StartObserve, Abandon, ImagesSame, files, images, history
  <2> QED
    BY <1>a, <1>10, <2>1, StartOrigin, OriginSame
<1>11. CASE Begin(p)
  <2>1. ImagesSame
    BY <1>11, Zenon DEF Begin, ImagesSame, files, images, history
  <2>2. pc'[p] \notin SwitchPlace /\ ~Starting(p)'
    BY <1>a, <1>11, BeginSets DEF SwitchPlace, Starting, InStart
  <2> QED
    BY <1>0, <2>1, <2>2
<1>12. CASE Lock(p)
  <2>1. ImagesSame
    BY <1>12, Zenon DEF Lock, ImagesSame, files, images, history
  <2>2. CASE Leave(p)
    <3>1. ~Inside(p)'
      BY <1>a, <2>2, LeaveSets DEF Inside
    <3> QED
      BY <1>0, <2>1, <3>1, Forgets, Zenon
  <2>3. CASE ~Leave(p)
    <3>1. Goto(p, First(mem[p].name)) /\ before' = [before EXCEPT ![p] = Found]
      BY <1>12, <2>3, Zenon DEF Lock
    <3>2. First(mem[p].name) \in {"stop", "switch", "init", "up", "renew"}
      BY DEF First
    <3>3. pc'[p] \in {"stop", "switch", "init", "up", "renew"}
      <4>1. First(mem[p].name) \in Place
        BY <3>2 DEF Place
      <4> QED
        BY <1>a, <3>1, <3>2, <4>1, GotoSets
    <3>4. before'[p].resolved = Resolve(configured_image)
      BY <1>a, <3>1, HistoryFound DEF HistoryTyped
    <3>5. Resolve(configured_image)' = Resolve(configured_image)
      BY <1>d, <2>1, Zenon DEF ImagesSame
    <3>6. ~Holding(p)'
      BY <3>3 DEF Holding, Starting, InStart
    <3>7. Remembers(p)'
      BY <3>3, <3>4, <3>5, <3>6 DEF Remembers
    <3> QED
      BY <1>a, <2>1, <3>7, OriginSame
  <2> QED
    BY <2>2, <2>3
<1>13. CASE ImagesSame /\ pc'[p] \notin WatchedPlace /\ ~Starting(p)'
  BY <1>0, <1>13 DEF WatchedPlace
<1> QED
  BY <1>1, <1>2, <1>3, <1>4, <1>5, <1>6, <1>7, <1>8, <1>9, <1>10, <1>11, <1>12, <1>13, WatchedPlaces,
     WhatTouchesImages, Zenon

LEMMA StepOrigin ==
  ASSUME Typed, ExclusionInv, OriginInv, [Next]_vars
  PROVE  OriginInv'
<1>1. ASSUME UNCHANGED <<pc, mem, imageFile, previousFile, tags, origin, astray, purged, before>>
      PROVE  OriginInv'
  BY <1>1, Zenon DEF OriginInv, Recorded, Remembers, Holding, Starting, InStart, Resolve, configured_image
<1>2. CASE Unlock \/ Publish \/ Prune \/ UNCHANGED vars
  BY <1>1, <1>2, Zenon DEF Unlock, Publish, Prune, vars, files, images, history
<1> QED
  BY <1>2, CommandOrigin, Zenon DEF Next, CommandStep

\* The image that the last switch replaced, or is about to, is what one of
\* PREVIOUS_IMAGE_FILE and IMAGE_FILE names, wherever the switch was interrupted
\* (scripts/mini-singbox-containerctl:333-365 writes them in this order).  Two
\* things break it: a PURGE, after which two commands can run at once; and a pull
\* that moves the tag which IMAGE_FILE itself names, until the identity of the
\* old image is recorded.
THEOREM AlwaysWayBack == Spec => []WayBack
<1>1. Init => Typed /\ ExclusionInv /\ OriginInv
  <2>1. Init => origin = None /\ \A p \in Proc : pc[p] = "idle"
    BY DEF Init
  <2>2. Init => OriginInv
    BY <2>1, Forgets DEF OriginInv, Recorded, Inside
  <2> QED
    BY <2>2, InitTyped, InitExclusion
<1>2. Typed /\ ExclusionInv /\ OriginInv /\ [Next]_vars => (Typed /\ ExclusionInv /\ OriginInv)'
  BY StepTyped, ExclusionStep, StepOrigin
<1>3. OriginInv => WayBack
  BY Zenon DEF OriginInv, Recorded, WayBack
<1> QED
  BY <1>1, <1>2, <1>3, PTL DEF Spec

-----------------------------------------------------------------------------
(* All or nothing.                                                         *)

\* What a command must not fail for its promise to hold.
Obliged(p) ==
  /\ p \notin excused
  /\ mem[p].name \in {"upgrade", "rollback", "renew"}
  /\ WellFounded(p)

FilesAsFound(p) == imageFile = before[p].image /\ previousFile = before[p].previous
ConfigAsFound(p) == FilesAsFound(p) /\ config = before[p].config
AsFound(p) == ConfigAsFound(p) /\ container = before[p].container

\* The container runs, from this image and with the configuration in place.
Runs(image) == container.up /\ container.image = image /\ container.config = config

Target(p) == IF mem[p].name = "rollback" THEN before[p].previous ELSE mem[p].arg

\* What a switch has decided: where to, and what to return to.
Chosen(p) == /\ mem[p].image = Target(p) /\ mem[p].image # None
             /\ before[p].resolved \in {None, mem[p].old}

\* The places of a switch, and what is so at each.
Choosing(p) == pc[p] = "switch" /\ AsFound(p) /\ Resolve(configured_image) = before[p].resolved
Fetching(p) == pc[p] \in {"switch pull", "switch check"} /\ AsFound(p) /\ Chosen(p)
Stopping(p) == pc[p] = "switch stop" /\ AsFound(p) /\ Chosen(p) /\ before[p].container.up
Replacing(p) ==
  /\ pc[p] \in {"start check", "start run"} /\ mem[p].caller = "switch"
  /\ ConfigAsFound(p) /\ Chosen(p) /\ before[p].container.up /\ container = NoContainer
Trying(p) ==
  /\ pc[p] = "start observe" /\ mem[p].caller = "switch"
  /\ ConfigAsFound(p) /\ Chosen(p) /\ before[p].container.up /\ Runs(Resolve(mem[p].image))
Removing(p) ==
  pc[p] = "switch remove" /\ ConfigAsFound(p) /\ before[p].container.up /\ mem[p].old = before[p].resolved
Returning(p) ==
  /\ pc[p] \in {"start check", "start run"} /\ mem[p].caller = "restore" /\ mem[p].image = before[p].resolved
  /\ ConfigAsFound(p) /\ before[p].container.up /\ container = NoContainer
Returned(p) ==
  /\ pc[p] = "start observe" /\ mem[p].caller = "restore"
  /\ ConfigAsFound(p) /\ before[p].container.up /\ Runs(before[p].resolved)
Switched(p) ==
  /\ Chosen(p) /\ imageFile = before[p].image
  /\ container.up = before[p].container.up
  /\ container.up => container.image = Resolve(mem[p].image)
Recording(p) == pc[p] = "switch record" /\ Switched(p)
Configuring(p) == pc[p] = "switch image" /\ Switched(p) /\ before[p].resolved \in {None, previousFile}

Switching(p) ==
  /\ mem[p].name \in {"upgrade", "rollback"} /\ ~mem[p].active
  /\ \/ Choosing(p) \/ Fetching(p) \/ Stopping(p) \/ Replacing(p) \/ Trying(p) \/ Removing(p)
     \/ Returning(p) \/ Returned(p) \/ Recording(p) \/ Configuring(p)

\* What a renewal has noted, and what its trap relies on.
Noted(p) ==
  /\ mem[p].was = before[p].container.up
  /\ mem[p].image # None /\ Resolve(mem[p].image) = before[p].resolved
Saved(p) ==
  /\ mem[p].active /\ mem[p].backup = before[p].config /\ Noted(p) /\ FilesAsFound(p)
  /\ "backup" \in mem[p].set /\ (mem[p].was => "was" \in mem[p].set)
Renewed(p) == Whole(config) /\ config # before[p].config

\* The places of a renewal, and those of its trap.
Looking(p) ==
  pc[p] = "renew" /\ ~mem[p].active /\ AsFound(p) /\ Resolve(configured_image) = before[p].resolved
Copying(p) == pc[p] = "renew copy" /\ ~mem[p].active /\ AsFound(p) /\ Noted(p)
Copied(p) ==
  pc[p] = "renew active" /\ ~mem[p].active /\ AsFound(p) /\ Noted(p) /\ mem[p].backup = before[p].config
Arming(p) ==
  /\ pc[p] \in {"renew work", "renew backup", "renew was"} /\ mem[p].active
  /\ AsFound(p) /\ Noted(p) /\ mem[p].backup = before[p].config
  /\ pc[p] = "renew was" => "backup" \in mem[p].set
Pausing(p) == pc[p] = "renew stop" /\ Saved(p) /\ before[p].container.up
Installing(p) ==
  /\ pc[p] \in {"renew generate", "renew install", "renew installed"} /\ Saved(p)
  /\ ~container.up /\ (before[p].container.up => container = NoContainer)
Relaunching(p) ==
  /\ pc[p] \in {"start check", "start run"} /\ mem[p].caller = "renew" /\ Saved(p)
  /\ before[p].container.up /\ container = NoContainer /\ Renewed(p)
Relaunched(p) ==
  /\ pc[p] = "start observe" /\ mem[p].caller = "renew" /\ Saved(p)
  /\ before[p].container.up /\ Runs(before[p].resolved) /\ Renewed(p)
Finished(p) == pc[p] = "renew done" /\ Saved(p) /\ Succeeded(p)
Printed(p) == pc[p] = "renew printed" /\ ~mem[p].active /\ Succeeded(p)
Undoing(p) == pc[p] = "clean stop" /\ Saved(p) /\ mem[p].status = 1
Emptying(p) ==
  pc[p] \in {"clean empty", "clean restore"} /\ Saved(p) /\ mem[p].status = 1 /\ container = NoContainer
Restarting(p) ==
  /\ pc[p] \in {"start check", "start run"} /\ mem[p].caller = "cleanup" /\ Saved(p) /\ mem[p].status = 1
  /\ before[p].container.up /\ ConfigAsFound(p) /\ container = NoContainer
Restarted(p) ==
  /\ pc[p] = "start observe" /\ mem[p].caller = "cleanup" /\ mem[p].status = 1
  /\ before[p].container.up /\ ConfigAsFound(p) /\ Runs(before[p].resolved)

Renewing(p) ==
  /\ mem[p].name = "renew"
  /\ \/ Looking(p) \/ Copying(p) \/ Copied(p) \/ Arming(p) \/ Pausing(p) \/ Installing(p) \/ Relaunching(p) \/ Relaunched(p)
     \/ Finished(p) \/ Printed(p) \/ Undoing(p) \/ Emptying(p) \/ Restarting(p) \/ Restarted(p)

\* The end of the trap.
Right(p) == IF mem[p].status = 0 THEN Succeeded(p) ELSE Restored(p) \/ (mem[p].name = "renew" /\ Succeeded(p))
Ending(p) == pc[p] \in {"clean work", "clean lock"} /\ Right(p)

Underway(p) == Switching(p) \/ Renewing(p) \/ Ending(p)

\* No generation is beyond the last; an image in use, or with a tag, is here.
Numbered(c) == c \in Nat => c <= gen
Counted ==
  /\ Numbered(config)
  /\ \A p \in Proc : Numbered(mem[p].backup) /\ Numbered(before[p].config)
Here(c) == c.image \in local \cup {None}
Tagged == \A t \in TagName : tags[t] \in local \cup {None}
InUse == Here(container) /\ Tagged /\ \A p \in Proc : Inside(p) => Here(before[p].container)

Promised == purged \/ \A p \in Proc : Inside(p) /\ Obliged(p) => Underway(p)

WorkInv == Counted /\ InUse /\ Promised

LEMMA NumberedFacts ==
  ASSUME Typed
  PROVE  /\ gen' = gen + 1 \/ gen' = gen => \A c : Numbered(c) => Numbered(c)'
         /\ \A c : Numbered(c) => c # gen + 1
         /\ Numbered(None) /\ Numbered(None)' /\ (gen' \in Nat => Numbered(Partial)' /\ Numbered(gen)')
BY ImageAssumption DEF Typed, StateTyped, Numbered, Partial

LEMMA StepCounted ==
  ASSUME Typed, Counted, NEW p \in Proc, CommandStep(p)
  PROVE  Counted'
<1>a. Typed' /\ gen \in Nat /\ gen' \in Nat
  BY StepTyped, Zenon DEF Typed, StateTyped, Next, CommandStep
<1>b. \A q \in Proc \ {p} : mem'[q] = mem[q]
  BY StepMemory, Zenon DEF CommandStep, Sets, Others
<1>1. /\ gen' = gen \/ gen' = gen + 1
      /\ config' \in {config, None, Partial, gen', mem[p].backup}
  <2>1. CASE ConfigSame
    BY <2>1 DEF ConfigSame
  <2>2. CASE generate_config(p)
    BY <2>2 DEF generate_config
  <2>3. CASE Forget(p)
    BY <2>3, Zenon DEF Forget
  <2>4. CASE RenewInstall(p)
    BY <2>4, Zenon DEF RenewInstall
  <2>5. CASE RenewInstalled(p)
    BY <2>5 DEF RenewInstalled
  <2>6. CASE CleanEmpty(p)
    BY <2>6, Zenon DEF CleanEmpty
  <2>7. CASE CleanRestore(p)
    BY <2>7, Zenon DEF CleanRestore
  <2>8. CASE Abandon(p)
    BY <2>8, Zenon DEF Abandon, files
  <2>9. CASE CleanWork(p)
    BY <2>9, Zenon DEF CleanWork, files
  <2> QED
    BY <2>1, <2>2, <2>3, <2>4, <2>5, <2>6, <2>7, <2>8, <2>9, WhatTouchesConfig, Zenon
<1>2. mem'[p].backup \in {mem[p].backup, config, None}
  <2>1. CASE UNCHANGED mem
    BY <2>1
  <2>2. CASE ~UNCHANGED mem
    BY <2>2, StepWays, Zenon DEF Steady, Goes, Left
  <2> QED
    BY <2>1, <2>2
<1>3. \A q \in Proc : before'[q] \in {before[q], Nothing, Found}
  BY StepHistory
<1>4. Numbered(Nothing.config) /\ Numbered(Found.config)
  BY HistoryFound, NumberedFacts, Zenon DEF Counted
<1>5. \A c : Numbered(c) => Numbered(c)'
  BY <1>1, NumberedFacts, Zenon
<1>6. Numbered(config)'
  BY <1>a, <1>1, ImageAssumption DEF Counted, Numbered, Partial
<1>7. \A q \in Proc : Numbered(mem[q].backup)'
  BY <1>b, <1>2, <1>5, NumberedFacts, Zenon DEF Counted, Numbered
<1>8. \A q \in Proc : Numbered(before[q].config)'
  BY <1>3, <1>4, <1>5, Zenon DEF Counted, Numbered
<1> QED
  BY <1>6, <1>7, <1>8, Zenon DEF Counted

\* No command forgets an image.
LEMMA StepLocal ==
  ASSUME Typed, NEW p \in Proc, CommandStep(p)
  PROVE  local \subseteq local'
<1>1. CASE generate_config(p)
  BY <1>1 DEF generate_config
<1>2. CASE SwitchPull(p)
  BY <1>2 DEF SwitchPull
<1>3. CASE UNCHANGED local
  BY <1>3
<1>4. CASE WriteImage(p) \/ Forget(p) \/ SwitchCheck(p) \/ SwitchRecord(p) \/ SwitchImage(p)
  BY <1>3, <1>4, Zenon DEF WriteImage, Forget, SwitchCheck, SwitchRecord, SwitchImage, images
<1> QED
  BY <1>1, <1>2, <1>3, <1>4, WhatTouchesImages, Zenon DEF ImagesSame

\* A new container is of an image that is here.
LEMMA StepContainer ==
  ASSUME Typed, NEW p \in Proc, CommandStep(p)
  PROVE  container'.image \in local \cup {container.image, None}
<1>a. container \in [image : Image \cup {None}, config : Config, up : BOOLEAN]
  BY DEF Typed, StateTyped
<1>b. ASSUME container' = NoContainer
      PROVE  container'.image \in local \cup {container.image, None}
  BY <1>b DEF NoContainer
<1>c. ASSUME container' = [container EXCEPT !.up = FALSE]
      PROVE  container'.image \in local \cup {container.image, None}
  <2>1. container'.image = container.image
    BY <1>a, <1>c
  <2> QED
    BY <2>1
<1>d. ASSUME container' = container
      PROVE  container'.image \in local \cup {container.image, None}
  BY <1>d
<1>2. CASE StartRun(p)
  <2> DEFINE image == Resolve(mem[p].image)
             made == [image |-> image, config |-> config, up |-> TRUE]
  <2>1. \/ container' = NoContainer
        \/ image \in local /\ (container' = made \/ container' = [made EXCEPT !.up = FALSE])
    BY <1>2, Zenon DEF StartRun
  <2>2. made.image = image /\ [made EXCEPT !.up = FALSE].image = image
    OBVIOUS
  <2>3. image \in local /\ container'.image = image => container'.image \in local \cup {container.image, None}
    OBVIOUS
  <2> HIDE DEF made, image
  <2> QED
    BY <1>b, <2>1, <2>2, <2>3, Zenon
<1>3. CASE Down(p) \/ SwitchStop(p) \/ SwitchRemove(p) \/ RenewStop(p) \/ CleanStop(p)
  BY <1>b, <1>c, <1>3, Zenon DEF Down, SwitchStop, SwitchRemove, RenewStop, CleanStop, stop_and_remove
<1>4. CASE StartObserve(p)
  BY <1>b, <1>d, <1>4, Zenon DEF StartObserve
<1>5. CASE UNCHANGED container
  BY <1>d, <1>5
<1>6. CASE generate_config(p) \/ WriteImage(p) \/ Up(p) \/ Forget(p) \/ StartCheck(p) \/ Begin(p) \/ Lock(p)
             \/ Abort(p) \/ Kill(p)
  BY <1>5, <1>6, Zenon DEF generate_config, WriteImage, Up, Forget, StartCheck, Abandon, Begin, Lock, Abort,
     Kill
<1>7. CASE Switch(p) \/ SwitchPull(p) \/ SwitchCheck(p) \/ SwitchRecord(p) \/ SwitchImage(p)
  BY <1>5, <1>7, Zenon DEF Switch, SwitchPull, SwitchCheck, SwitchRecord, SwitchImage
<1>8. CASE Renew(p) \/ RenewCopy(p) \/ RenewActive(p) \/ RenewGenerate(p) \/ RenewInstall(p) \/ RenewInstalled(p)
             \/ RenewDone(p) \/ RenewPrinted(p) \/ RenewSets(p)
  BY <1>5, <1>8, Zenon DEF Renew, RenewCopy, RenewActive, RenewSets, RenewWork, RenewBackup, RenewWas,
     RenewGenerate, RenewInstall, RenewInstalled, RenewDone, RenewPrinted
<1>9. CASE CleanEmpty(p) \/ CleanRestore(p) \/ CleanWork(p) \/ CleanLock(p)
  BY <1>5, <1>9, Zenon DEF CleanEmpty, CleanRestore, CleanWork, CleanLock
<1> QED
  BY <1>2, <1>3, <1>4, <1>6, <1>7, <1>8, <1>9, Zenon DEF CommandStep, Plain, Start, SwitchStep, RenewStep,
     RenewSets, Cleanup

\* A tag is given together with its image.
LEMMA StepTagged ==
  ASSUME Typed, Tagged, NEW p \in Proc, CommandStep(p)
  PROVE  Tagged'
<1>a. tags \in [TagName -> Image \cup {None}]
  BY DEF Typed, FilesTyped
<1>b. local \subseteq local'
  BY StepLocal
<1>c. ASSUME NEW ref, NEW image, tags' = [tags EXCEPT ![ref] = image], image \in local'
      PROVE  Tagged'
  BY <1>a, <1>b, <1>c DEF Tagged
<1>d. ASSUME tags' = tags
      PROVE  Tagged'
  BY <1>b, <1>d DEF Tagged
<1>1. CASE generate_config(p)
  <2>1. \/ tags' = tags
        \/ \E image : tags' = [tags EXCEPT ![configured_image] = image] /\ local' = local \cup {image}
    BY <1>1, Zenon DEF generate_config
  <2>2. \A image : image \in local \cup {image}
    OBVIOUS
  <2> QED
    BY <1>c, <1>d, <2>1, <2>2, Zenon
<1>2. CASE SwitchPull(p)
  <2>1. \/ tags' = tags
        \/ \E image : tags' = [tags EXCEPT ![mem[p].image] = image] /\ local' = local \cup {image}
    BY <1>2, Zenon DEF SwitchPull
  <2>2. \A image : image \in local \cup {image}
    OBVIOUS
  <2> QED
    BY <1>c, <1>d, <2>1, <2>2, Zenon
<1>3. CASE WriteImage(p) \/ Forget(p) \/ SwitchRecord(p) \/ SwitchImage(p)
  BY <1>d, <1>3, Zenon DEF WriteImage, Forget, SwitchRecord, SwitchImage, images
<1> QED
  BY <1>d, <1>1, <1>2, <1>3, WhatTouchesImages, Zenon DEF ImagesSame

LEMMA StepInUse ==
  ASSUME Typed, InUse, NEW p \in Proc, CommandStep(p)
  PROVE  InUse'
<1>a. /\ MemoryTyped' /\ MemoryTyped
      /\ \A q \in Proc \ {p} : mem'[q] = mem[q] /\ pc'[q] = pc[q]
  BY StepMemory, Zenon DEF CommandStep, Sets, Others, Typed
<1>1. Here(container)'
  BY StepLocal, StepContainer DEF InUse, Here
<1>2. \A c : Here(c) => Here(c)'
  BY StepLocal DEF Here
<1>4. ASSUME NEW q \in Proc \ {p}, Inside(q)'
      PROVE  Here(before[q].container)'
  <2>1. Inside(q) /\ before'[q] = before[q]
    BY <1>a, <1>4, StepHistory, Zenon DEF Inside
  <2> QED
    BY <1>2, <2>1, Zenon DEF InUse, Here
<1>5. ASSUME Inside(p)'
      PROVE  Here(before[p].container)'
  <2>1. CASE Inside(p) /\ Steady(p)
    BY <1>2, <2>1, Zenon DEF InUse, Here, Steady
  <2>2. CASE pc'[p] = "idle" \/ pc'[p] = "lock"
    BY <1>5, <2>2, Zenon DEF Inside
  <2>3. CASE before' = [before EXCEPT ![p] = Found]
    <3>1. before'[p] = Found
      BY <2>3 DEF Typed, HistoryTyped
    <3>2. before'[p].container = container
      BY <3>1, HistoryFound, Zenon
    <3> QED
      BY <1>2, <3>2, Zenon DEF InUse, Here
  <2> QED
    BY <2>1, <2>2, <2>3, StepWays, Zenon DEF Left
<1>6. Tagged'
  BY StepTagged, Zenon DEF InUse
<1> QED
  BY <1>1, <1>4, <1>5, <1>6, Zenon DEF InUse

-----------------------------------------------------------------------------
(* The stages and the places.                                              *)

SwitchOnly(p) == mem[p].name \in {"upgrade", "rollback"} /\ ~mem[p].active

\* A place tells the stage, for start_container with the caller.
LEMMA Stages ==
  ASSUME NEW p \in Proc, Underway(p)
  PROVE  /\ pc[p] = "switch" => SwitchOnly(p) /\ Choosing(p)
         /\ pc[p] \in {"switch pull", "switch check"} => SwitchOnly(p) /\ Fetching(p)
         /\ pc[p] = "switch stop" => SwitchOnly(p) /\ Stopping(p)
         /\ pc[p] = "switch remove" => SwitchOnly(p) /\ Removing(p)
         /\ pc[p] = "switch record" => SwitchOnly(p) /\ Recording(p)
         /\ pc[p] = "switch image" => SwitchOnly(p) /\ Configuring(p)
         /\ pc[p] = "renew" => mem[p].name = "renew" /\ Looking(p)
         /\ pc[p] = "renew copy" => mem[p].name = "renew" /\ Copying(p)
         /\ pc[p] = "renew active" => mem[p].name = "renew" /\ Copied(p)
         /\ pc[p] \in {"renew work", "renew backup", "renew was"} => mem[p].name = "renew" /\ Arming(p)
         /\ pc[p] = "renew stop" => mem[p].name = "renew" /\ Pausing(p)
         /\ pc[p] \in {"renew generate", "renew install", "renew installed"} => mem[p].name = "renew" /\ Installing(p)
         /\ pc[p] = "renew done" => mem[p].name = "renew" /\ Finished(p)
         /\ pc[p] = "renew printed" => mem[p].name = "renew" /\ Printed(p)
         /\ pc[p] \in {"start check", "start run"} =>
              (SwitchOnly(p) /\ (Replacing(p) \/ Returning(p))) \/ (mem[p].name = "renew" /\ (Relaunching(p) \/ Restarting(p)))
         /\ pc[p] = "start observe" =>
              (SwitchOnly(p) /\ (Trying(p) \/ Returned(p))) \/ (mem[p].name = "renew" /\ (Relaunched(p) \/ Restarted(p)))
         /\ pc[p] = "clean stop" => mem[p].name = "renew" /\ Undoing(p)
         /\ pc[p] \in {"clean empty", "clean restore"} => mem[p].name = "renew" /\ Emptying(p)
         /\ pc[p] \in {"clean work", "clean lock"} => Right(p)
         /\ pc[p] \notin {"init", "write image", "up", "stop", "forget"}
<1>1. /\ Choosing(p) => pc[p] = "switch"
      /\ Fetching(p) => pc[p] \in {"switch pull", "switch check"}
      /\ Stopping(p) => pc[p] = "switch stop"
      /\ Replacing(p) \/ Returning(p) => pc[p] \in {"start check", "start run"}
      /\ Trying(p) \/ Returned(p) => pc[p] = "start observe"
      /\ Removing(p) => pc[p] = "switch remove"
      /\ Recording(p) => pc[p] = "switch record"
      /\ Configuring(p) => pc[p] = "switch image"
  BY Zenon DEF Choosing, Fetching, Stopping, Replacing, Returning, Trying, Returned, Removing, Recording,
     Configuring
<1>2. /\ Looking(p) => pc[p] = "renew"
      /\ Copying(p) => pc[p] = "renew copy"
      /\ Copied(p) => pc[p] = "renew active"
      /\ Arming(p) => pc[p] \in {"renew work", "renew backup", "renew was"}
      /\ Pausing(p) => pc[p] = "renew stop"
      /\ Installing(p) => pc[p] \in {"renew generate", "renew install", "renew installed"}
      /\ Relaunching(p) \/ Restarting(p) => pc[p] \in {"start check", "start run"}
      /\ Relaunched(p) \/ Restarted(p) => pc[p] = "start observe"
      /\ Finished(p) => pc[p] = "renew done"
      /\ Printed(p) => pc[p] = "renew printed"
      /\ Undoing(p) => pc[p] = "clean stop"
      /\ Emptying(p) => pc[p] \in {"clean empty", "clean restore"}
  BY Zenon DEF Looking, Copying, Copied, Pausing, Installing, Relaunching, Restarting, Relaunched, Restarted,
     Finished, Printed, Arming, Undoing, Emptying
<1>3. Ending(p) => pc[p] \in {"clean work", "clean lock"} /\ Right(p)
  BY Zenon DEF Ending
<1>4. CASE Switching(p)
  <2>1. SwitchOnly(p)
    BY <1>4, Zenon DEF Switching, SwitchOnly
  <2>2. \/ Choosing(p) \/ Fetching(p) \/ Stopping(p) \/ Replacing(p) \/ Trying(p) \/ Removing(p)
        \/ Returning(p) \/ Returned(p) \/ Recording(p) \/ Configuring(p)
    BY <1>4, Zenon DEF Switching
  <2> QED
    BY <1>1, <2>1, <2>2, ZenonT(60)
<1>5. CASE Renewing(p)
  <2>1. mem[p].name = "renew"
    BY <1>5, Zenon DEF Renewing
  <2>2. \/ Looking(p) \/ Copying(p) \/ Copied(p) \/ Arming(p) \/ Pausing(p) \/ Installing(p) \/ Relaunching(p) \/ Relaunched(p)
        \/ Finished(p) \/ Printed(p) \/ Undoing(p) \/ Emptying(p) \/ Restarting(p) \/ Restarted(p)
    BY <1>5, Zenon DEF Renewing
  <2> QED
    BY <1>2, <2>1, <2>2, ZenonT(60)
<1>6. CASE Ending(p)
  BY <1>3, <1>6, Zenon
<1> QED
  BY <1>4, <1>5, <1>6, Zenon DEF Underway

\* What stays as it is while files, container and tags do.
LEMMA Frame ==
  ASSUME NEW p \in Proc, before'[p] = before[p], UNCHANGED <<imageFile, previousFile>>
  PROVE  /\ FilesAsFound(p) => FilesAsFound(p)'
         /\ UNCHANGED config /\ ConfigAsFound(p) => ConfigAsFound(p)'
         /\ UNCHANGED <<config, container>> /\ AsFound(p) => AsFound(p)'
BY Zenon DEF FilesAsFound, ConfigAsFound, AsFound

LEMMA MemFrame ==
  ASSUME NEW p \in Proc, Same(p)
  PROVE  /\ Target(p)' = Target(p)
         /\ mem'[p].image = mem[p].image /\ mem'[p].old = mem[p].old /\ Chosen(p) => Chosen(p)'
         /\ mem'[p].image = mem[p].image /\ mem'[p].was = mem[p].was /\ UNCHANGED tags /\ Noted(p) => Noted(p)'
         /\ mem'[p].image = mem[p].image /\ mem'[p].was = mem[p].was /\ UNCHANGED <<tags, imageFile, previousFile>>
            /\ mem'[p].active = mem[p].active /\ mem'[p].backup = mem[p].backup /\ mem'[p].set = mem[p].set /\ Saved(p) => Saved(p)'
<1>1. Target(p)' = Target(p)
  BY DEF Target, Same
<1>2. ASSUME mem'[p].image = mem[p].image, mem'[p].old = mem[p].old, Chosen(p)
      PROVE  Chosen(p)'
  BY <1>1, <1>2, Zenon DEF Chosen, Same
<1>3. ASSUME mem'[p].image = mem[p].image, mem'[p].was = mem[p].was, UNCHANGED tags, Noted(p)
      PROVE  Noted(p)'
  <2>1. Resolve(mem[p].image)' = Resolve(mem[p].image)
    BY <1>3, Zenon DEF Resolve
  <2> QED
    BY <1>3, <2>1, Zenon DEF Noted, Same
<1>4. ASSUME mem'[p].image = mem[p].image, mem'[p].was = mem[p].was, UNCHANGED <<tags, imageFile, previousFile>>,
             mem'[p].active = mem[p].active, mem'[p].backup = mem[p].backup /\ mem'[p].set = mem[p].set, Saved(p)
      PROVE  Saved(p)'
  BY <1>3, <1>4, Frame, Zenon DEF Saved, Same
<1> QED
  BY <1>1, <1>2, <1>3, <1>4, Zenon

\* What is as it was found is restored.
LEMMA EndsRestored ==
  ASSUME NEW p \in Proc, pc'[p] = "clean work" \/ pc'[p] = "clean lock", mem'[p].status # 0, Restored(p)'
  PROVE  Underway(p)'
<1>1. Right(p)'
  BY Zenon DEF Right
<1> QED
  BY <1>1, Zenon DEF Underway, Ending

LEMMA GivesUp ==
  ASSUME MemoryTyped, NEW p \in Proc, Exit(p, 1), ~mem[p].active, AsFound(p), before'[p] = before[p],
         UNCHANGED <<imageFile, previousFile, config, container>>
  PROVE  Underway(p)'
<1>1. pc'[p] = "clean work" /\ mem'[p].status = 1
  BY ExitKeeps DEF Held
<1>0. 1 # 0
  OBVIOUS
<1>2. mem'[p].status # 0
  BY <1>0, <1>1, Zenon
<1>3. AsFound(p)'
  BY Frame
<1>4. Restored(p)'
  BY <1>3, Zenon DEF AsFound, ConfigAsFound, FilesAsFound, Restored
<1> QED
  BY <1>1, <1>2, <1>4, EndsRestored, Zenon

LEMMA FallsBack ==
  ASSUME MemoryTyped, NEW p \in Proc, Exit(p, 1), mem[p].name = "renew", Saved(p), before'[p] = before[p],
         UNCHANGED <<imageFile, previousFile, tags>>
  PROVE  Underway(p)'
<1>0. mem[p].active
  BY DEF Saved
<1>1. /\ pc'[p] = "clean stop" /\ mem'[p].status = 1
      /\ mem'[p].name = mem[p].name /\ mem'[p].arg = mem[p].arg
      /\ mem'[p].image = mem[p].image /\ mem'[p].was = mem[p].was
      /\ mem'[p].active = mem[p].active /\ mem'[p].backup = mem[p].backup /\ mem'[p].set = mem[p].set
  BY <1>0, ExitKeeps DEF Held
<1>2. Saved(p)'
  BY <1>1, MemFrame, Zenon DEF Same
<1> QED
  BY <1>1, <1>2, Zenon DEF Underway, Renewing, Undoing

\* A failure that the script does not undo ends its obligation.
LEMMA Excuses ==
  ASSUME NEW p \in Proc, Obliged(p)', Faulty(p)
  PROVE  Undone(p)
BY Zenon DEF Obliged, WellFounded, Faulty

-----------------------------------------------------------------------------
(* The steps of a switch.                                                  *)

\* The old image of a switch, unless its identity could not be read.
LEMMA SwitchChooses ==
  ASSUME NEW p \in Proc, Switch(p)
  PROVE  \/ Exit(p, 1)
         \/ \E t, old : /\ t = (IF mem[p].name = "rollback" THEN previousFile ELSE mem[p].arg) /\ t # None
                        /\ mem' = [mem EXCEPT ![p].image = t, ![p].old = old] /\ Goto(p, "switch pull")
                        /\ \/ old = Resolve(configured_image)
                           \/ old = configured_image /\ Resolve(configured_image) \notin local
                           \/ Excused(p)
BY Zenon DEF Switch

\* A reference that is not here means nothing, or is an identity.
LEMMA NotHere ==
  ASSUME Typed, InUse, Resolve(configured_image) \notin local
  PROVE  Resolve(configured_image) \in {None, configured_image}
<1>1. CASE configured_image \in TagName
  BY <1>1 DEF InUse, Tagged, Resolve
<1>2. CASE configured_image \notin TagName
  BY <1>2 DEF Resolve
<1> QED
  BY <1>1, <1>2

LEMMA SwitchWorks ==
  ASSUME Typed, InUse, NEW p \in Proc, Underway(p), Obliged(p)', Same(p), SwitchStep(p)
  PROVE  Underway(p)'
<1>a. MemoryTyped /\ mem[p].image \in Reference /\ mem[p].old \in Reference /\ before'[p] = before[p]
  BY References DEF Typed, MemoryTyped, Memory, Same, Reference
<1>b. "switch" \in Caller /\ "restore" \in Caller
  BY DEF Caller
<1>c. UNCHANGED mem => mem'[p].image = mem[p].image /\ mem'[p].old = mem[p].old /\ mem'[p].active = mem[p].active
  OBVIOUS
<1>d. ASSUME SwitchOnly(p), mem'[p].active = mem[p].active
      PROVE  SwitchOnly(p)'
  BY <1>d, Zenon DEF SwitchOnly, Same
<1>e. ASSUME SwitchOnly(p)',
             Choosing(p)' \/ Fetching(p)' \/ Stopping(p)' \/ Replacing(p)' \/ Trying(p)' \/ Removing(p)'
               \/ Returning(p)' \/ Returned(p)' \/ Recording(p)' \/ Configuring(p)'
      PROVE  Underway(p)'
  BY <1>e, Zenon DEF Underway, Switching, SwitchOnly
<1>f. ASSUME NEW l \in Place, Goto(p, l)
      PROVE  pc'[p] = l
  BY <1>a, <1>f, GotoSets
<1>1. CASE Switch(p)
  <2>1. SwitchOnly(p) /\ Choosing(p)
    BY <1>1, Stages, Zenon DEF Switch, At
  <2>2. UNCHANGED <<config, imageFile, previousFile, container, tags>>
    BY <1>1, Zenon DEF Switch, files, images
  <2>3. AsFound(p) /\ AsFound(p)'
    BY <1>a, <2>1, <2>2, Frame, Zenon DEF Choosing
  <2>4. CASE Exit(p, 1)
    BY <1>a, <2>1, <2>2, <2>3, <2>4, GivesUp, Zenon DEF SwitchOnly
  <2>5. CASE ~Exit(p, 1)
    <3>1. PICK t, old : /\ t = (IF mem[p].name = "rollback" THEN previousFile ELSE mem[p].arg) /\ t # None
                        /\ mem' = [mem EXCEPT ![p].image = t, ![p].old = old] /\ Goto(p, "switch pull")
                        /\ \/ old = Resolve(configured_image)
                           \/ old = configured_image /\ Resolve(configured_image) \notin local
                           \/ Excused(p)
      BY <1>1, <2>5, SwitchChooses, Zenon
    <3>2. Target(p) = t
      <4>1. previousFile = before[p].previous
        BY <2>3, Zenon DEF AsFound, ConfigAsFound, FilesAsFound
      <4> QED
        BY <3>1, <4>1 DEF Target
    <3>3. mem'[p].image = t /\ mem'[p].old = old /\ mem'[p].active = mem[p].active
      <4>1. mem'[p] = [mem[p] EXCEPT !.image = t, !.old = old] /\ mem[p] \in Memory
        BY <1>a, <3>1, ZenonT(40) DEF MemoryTyped
      <4> QED
        BY <4>1 DEF Memory
    <3>6. ~Excused(p)
      BY Zenon DEF Obliged, WellFounded, Excused
    <3>7. before[p].resolved \in {None, old}
      BY <2>1, <3>1, <3>6, NotHere DEF Choosing
    <3>4. pc'[p] = "switch pull"
      BY <1>f, <3>1, Zenon DEF Place
    <3>5. Chosen(p)'
      BY <1>a, <3>1, <3>2, <3>3, <3>7, MemFrame, Zenon DEF Chosen
    <3> QED
      BY <1>d, <1>e, <2>1, <2>3, <3>3, <3>4, <3>5, Zenon DEF Fetching
  <2> QED
    BY <2>4, <2>5
<1>2. CASE SwitchPull(p)
  <2>1. SwitchOnly(p) /\ Fetching(p)
    BY <1>2, Stages, Zenon DEF SwitchPull, At
  <2>2. /\ UNCHANGED <<config, imageFile, previousFile, container>>
        /\ Exit(p, 1) \/ (Goto(p, "switch check") /\ UNCHANGED mem)
    BY <1>2, Zenon DEF SwitchPull, files
  <2>3. AsFound(p) /\ AsFound(p)'
    BY <1>a, <2>1, <2>2, Frame, Zenon DEF Fetching
  <2>4. CASE Exit(p, 1)
    BY <1>a, <2>1, <2>2, <2>3, <2>4, GivesUp, Zenon DEF SwitchOnly
  <2>5. CASE Goto(p, "switch check") /\ UNCHANGED mem
    <3>1. Chosen(p)'
      BY <1>c, <2>1, <2>5, MemFrame, Zenon DEF Fetching
    <3>2. pc'[p] = "switch check"
      BY <1>f, <2>5, Zenon DEF Place
    <3> QED
      BY <1>c, <1>d, <1>e, <2>1, <2>3, <2>5, <3>1, <3>2, Zenon DEF Fetching
  <2> QED
    BY <2>2, <2>4, <2>5
<1>3. CASE SwitchCheck(p)
  <2>1. SwitchOnly(p) /\ Fetching(p)
    BY <1>3, Stages, Zenon DEF SwitchCheck, At
  <2>2. /\ UNCHANGED <<config, imageFile, previousFile, container, tags>>
        /\ \/ Exit(p, 1)
           \/ /\ mem' = [mem EXCEPT ![p].was = container.up]
              /\ \/ container.up /\ Goto(p, "switch stop")
                 \/ ~container.up /\ Goto(p, "switch record")
    BY <1>3, Zenon DEF SwitchCheck, files, images
  <2>3. AsFound(p) /\ AsFound(p)'
    BY <1>a, <2>1, <2>2, Frame, Zenon DEF Fetching
  <2>4. CASE Exit(p, 1)
    BY <1>a, <2>1, <2>2, <2>3, <2>4, GivesUp, Zenon DEF SwitchOnly
  <2>5. CASE mem' = [mem EXCEPT ![p].was = container.up]
    <3>1. mem'[p].image = mem[p].image /\ mem'[p].old = mem[p].old /\ mem'[p].active = mem[p].active
      BY <1>a, <2>5, FieldsKeep, Zenon DEF Held
    <3>2. Chosen(p)'
      BY <2>1, <3>1, MemFrame, Zenon DEF Fetching
    <3>3. container = before[p].container /\ imageFile' = before'[p].image
      BY <2>3, Zenon DEF AsFound, ConfigAsFound, FilesAsFound
    <3>4. CASE container.up /\ pc'[p] = "switch stop"
      <4>1. Stopping(p)'
        BY <1>a, <2>3, <3>2, <3>3, <3>4, Zenon DEF Stopping
      <4> QED
        BY <1>d, <1>e, <2>1, <3>1, <4>1, Zenon
    <3>5. CASE ~container.up /\ pc'[p] = "switch record"
      <4>1. ~container'.up /\ container'.up = before'[p].container.up
        BY <1>a, <2>2, <3>3, <3>5
      <4>2. Recording(p)'
        BY <3>2, <3>3, <3>5, <4>1, Zenon DEF Recording, Switched
      <4> QED
        BY <1>d, <1>e, <2>1, <3>1, <4>2, Zenon
    <3>6. CASE Exit(p, 1)
      BY <2>4, <3>6
    <3> QED
      BY <1>f, <2>2, <3>4, <3>5, <3>6, Zenon DEF Place
  <2> QED
    BY <2>2, <2>4, <2>5
<1>4. CASE SwitchStop(p)
  <2>1. SwitchOnly(p) /\ Stopping(p)
    BY <1>4, Stages, Zenon DEF SwitchStop, At
  <2>2. /\ UNCHANGED <<config, imageFile, previousFile>>
        /\ (container' = NoContainer /\ Call(p, mem[p].image, "switch")) \/ Faulty(p)
    BY <1>4, Zenon DEF SwitchStop, stop_and_remove, files
  <2>3. ~Undone(p)
    BY <2>1 DEF Undone, InStart, Stopping
  <2>4. container' = NoContainer /\ Call(p, mem[p].image, "switch")
    BY <2>2, <2>3, Excuses, Zenon
  <2>5. /\ pc'[p] = "start check" /\ mem'[p].caller = "switch"
        /\ mem'[p].image = mem[p].image /\ mem'[p].old = mem[p].old /\ mem'[p].active = mem[p].active
    BY <1>a, <1>b, <2>4, CallKeeps, Zenon DEF Held
  <2>6. Chosen(p)' /\ ConfigAsFound(p)'
    BY <1>a, <2>1, <2>2, <2>5, MemFrame, Frame, Zenon DEF Stopping, AsFound
  <2>7. Replacing(p)'
    BY <1>a, <2>1, <2>4, <2>5, <2>6, Zenon DEF Replacing, Stopping, NoContainer
  <2> QED
    BY <1>d, <1>e, <2>1, <2>5, <2>7, Zenon
<1>5. CASE SwitchRemove(p)
  <2>1. SwitchOnly(p) /\ Removing(p)
    BY <1>5, Stages, Zenon DEF SwitchRemove, At
  <2>2. /\ UNCHANGED <<config, imageFile, previousFile>>
        /\ (container' = NoContainer /\ Call(p, mem[p].old, "restore")) \/ Faulty(p)
    BY <1>5, Zenon DEF SwitchRemove, stop_and_remove, files
  <2>3. ~Undone(p)
    BY <2>1 DEF Undone, InStart, Removing
  <2>4. container' = NoContainer /\ Call(p, mem[p].old, "restore")
    BY <2>2, <2>3, Excuses, Zenon
  <2>5. /\ pc'[p] = "start check" /\ mem'[p].caller = "restore"
        /\ mem'[p].image = mem[p].old /\ mem'[p].active = mem[p].active
    BY <1>a, <1>b, <2>4, CallKeeps, Zenon DEF Held
  <2>6. ConfigAsFound(p)'
    BY <1>a, <2>1, <2>2, Frame, Zenon DEF Removing
  <2>7. Returning(p)'
    BY <1>a, <2>1, <2>4, <2>5, <2>6, Zenon DEF Returning, Removing, NoContainer
  <2> QED
    BY <1>d, <1>e, <2>1, <2>5, <2>7, Zenon
<1>6. CASE SwitchRecord(p)
  <2>1. SwitchOnly(p) /\ Recording(p)
    BY <1>6, Stages, Zenon DEF SwitchRecord, At
  <2>2. /\ UNCHANGED <<config, imageFile, container, tags, mem>>
        /\ previousFile' = mem[p].old /\ Goto(p, "switch image")
    BY <1>6, Zenon DEF SwitchRecord, images
  <2>3. Chosen(p)' /\ Resolve(mem[p].image)' = Resolve(mem[p].image)
    BY <1>c, <2>1, <2>2, MemFrame, Zenon DEF Recording, Switched, Resolve
  <2>4. Switched(p)'
    BY <1>a, <2>1, <2>2, <2>3, Zenon DEF Recording, Switched
  <2>5. pc'[p] = "switch image"
    BY <1>f, <2>2, Zenon DEF Place
  <2>6. before'[p].resolved \in {None, previousFile'}
    BY <1>a, <2>1, <2>2, Zenon DEF Recording, Switched, Chosen
  <2> QED
    BY <1>c, <1>d, <1>e, <2>1, <2>2, <2>4, <2>5, <2>6, Zenon DEF Configuring
<1>7. CASE SwitchImage(p)
  <2>1. SwitchOnly(p) /\ Configuring(p)
    BY <1>7, Stages, Zenon DEF SwitchImage, At
  <2>2. /\ UNCHANGED <<config, previousFile, container, tags>>
        /\ imageFile' = mem[p].image /\ Exit(p, 0)
    BY <1>7, Zenon DEF SwitchImage, images
  <2>3. 0 \in {0, 1} /\ 0 # 1
    OBVIOUS
  <2>4. pc'[p] = "clean work" /\ mem'[p].status = 0 /\ mem'[p].name = mem[p].name /\ mem'[p].arg = mem[p].arg
    BY <1>a, <2>2, <2>3, ExitKeeps, Zenon DEF Held
  <2>5. /\ Chosen(p) /\ before[p].resolved \in {None, previousFile} /\ container.up = before[p].container.up
        /\ container.up => container.image = Resolve(mem[p].image)
    BY <2>1, Zenon DEF Configuring, Switched
  <2>6. imageFile' # None /\ imageFile' = Target(p)'
    BY <2>2, <2>5, MemFrame, Zenon DEF Chosen
  <2>7. Resolve(imageFile)' = Resolve(mem[p].image)
    BY <2>2, Zenon DEF Resolve
  <2>8. mem'[p].name # "renew"
    BY <2>1, <2>4 DEF SwitchOnly
  <2>9. Succeeded(p)'
    <3>1. /\ container'.up = before'[p].container.up /\ before'[p].resolved \in {None, previousFile'}
          /\ container'.up => container'.image = Resolve(imageFile)'
      BY <1>a, <2>2, <2>5, <2>7, Zenon
    <3> QED
      BY <2>6, <2>8, <3>1, Zenon DEF Succeeded, Target
  <2>10. Right(p)'
    BY <2>4, <2>9, Zenon DEF Right
  <2> QED
    BY <2>4, <2>10, Zenon DEF Underway, Ending
<1> QED
  BY <1>1, <1>2, <1>3, <1>4, <1>5, <1>6, <1>7, Zenon DEF SwitchStep

-----------------------------------------------------------------------------
(* The steps of start_container.                                           *)

\* The image that was running is still here.
LEMMA Resolved ==
  ASSUME Typed, InUse, NEW p \in Proc, Inside(p), Obliged(p), before[p].container.up
  PROVE  /\ before[p].container.image = before[p].resolved
         /\ before[p].resolved \in Good /\ before[p].resolved \in local
         /\ Resolve(before[p].resolved) = before[p].resolved /\ before[p].resolved # None
<1>1. before[p].container.image = before[p].resolved /\ before[p].resolved \in Good
  BY DEF Obliged, WellFounded
<1>2. before[p].resolved \in Image /\ before[p].resolved # None
  BY <1>1, ImageAssumption
<1>3. before[p].resolved \in local
  BY <1>1, <1>2 DEF InUse, Here
<1>4. Resolve(before[p].resolved) = before[p].resolved
  BY <1>2, ImageAssumption DEF Resolve
<1> QED
  BY <1>1, <1>2, <1>3, <1>4

\* Whatever the place, start_container runs with a whole configuration and
\* with no container in its way.
LEMMA Ready ==
  ASSUME NEW p \in Proc, Obliged(p), Replacing(p) \/ Returning(p) \/ Relaunching(p) \/ Restarting(p)
  PROVE  /\ Whole(config) /\ container = NoContainer /\ before[p].container.up
         /\ pc[p] \in {"start check", "start run"}
         /\ mem[p].caller = "switch" <=> Replacing(p)
         /\ mem[p].caller = "restore" <=> Returning(p)
         /\ mem[p].caller = "renew" <=> Relaunching(p)
         /\ mem[p].caller = "cleanup" <=> Restarting(p)
         /\ mem[p].caller # "up"
<1>1. /\ Replacing(p) => mem[p].caller = "switch"
      /\ Returning(p) => mem[p].caller = "restore"
      /\ Relaunching(p) => mem[p].caller = "renew"
      /\ Restarting(p) => mem[p].caller = "cleanup"
  BY Zenon DEF Replacing, Returning, Relaunching, Restarting
<1>2. /\ container = NoContainer /\ before[p].container.up
      /\ pc[p] \in {"start check", "start run"}
  BY Zenon DEF Replacing, Returning, Relaunching, Restarting
<1>3. Whole(config)
  BY Zenon DEF Obliged, WellFounded, Replacing, Returning, Relaunching, Restarting, ConfigAsFound, Renewed,
     Whole
<1> QED
  BY <1>1, <1>2, <1>3, Zenon

LEMMA Looked ==
  ASSUME NEW p \in Proc, Trying(p) \/ Returned(p) \/ Relaunched(p) \/ Restarted(p)
  PROVE  /\ container.up /\ before[p].container.up
         /\ pc[p] = "start observe"
         /\ mem[p].caller = "switch" <=> Trying(p)
         /\ mem[p].caller = "restore" <=> Returned(p)
         /\ mem[p].caller = "renew" <=> Relaunched(p)
         /\ mem[p].caller = "cleanup" <=> Restarted(p)
         /\ mem[p].caller # "up"
<1>1. /\ Trying(p) => mem[p].caller = "switch"
      /\ Returned(p) => mem[p].caller = "restore"
      /\ Relaunched(p) => mem[p].caller = "renew"
      /\ Restarted(p) => mem[p].caller = "cleanup"
  BY Zenon DEF Trying, Returned, Relaunched, Restarted
<1>2. container.up /\ before[p].container.up /\ pc[p] = "start observe"
  BY Zenon DEF Trying, Returned, Relaunched, Restarted, Runs
<1> QED
  BY <1>1, <1>2, Zenon

\* The return of start_container to each of its callers.
LEMMA ReturnsTo ==
  ASSUME MemoryTyped, NEW p \in Proc, NEW s \in {0, 1}, Return(p, s)
  PROVE  /\ mem[p].caller = "switch" /\ s = 0 => pc'[p] = "switch record" /\ UNCHANGED mem
         /\ mem[p].caller = "switch" /\ s = 1 => pc'[p] = "switch remove" /\ UNCHANGED mem
         /\ mem[p].caller = "restore" => Exit(p, 1)
         /\ mem[p].caller = "renew" /\ s = 0 => pc'[p] = "renew done" /\ UNCHANGED mem
         /\ mem[p].caller = "renew" /\ s = 1 => Exit(p, 1)
         /\ mem[p].caller = "cleanup" => pc'[p] = "clean work" /\ UNCHANGED mem
<1>1. \A l \in Place : Goto(p, l) => pc'[p] = l
  BY GotoSets
<1>2. 1 # 0
  OBVIOUS
<1>3. CASE mem[p].caller = "switch"
  <2>1. Goto(p, IF s = 0 THEN "switch record" ELSE "switch remove") /\ UNCHANGED mem
    BY <1>3, Zenon DEF Return
  <2> QED
    BY <1>1, <1>2, <1>3, <2>1, Zenon DEF Place
<1>4. CASE mem[p].caller = "renew"
  <2>1. IF s = 0 THEN Goto(p, "renew done") /\ UNCHANGED mem ELSE Exit(p, 1)
    BY <1>4, Zenon DEF Return
  <2> QED
    BY <1>1, <1>2, <1>4, <2>1, Zenon DEF Place
<1>5. CASE mem[p].caller = "cleanup"
  <2>1. Goto(p, "clean work") /\ UNCHANGED mem
    BY <1>5, Zenon DEF Return
  <2> QED
    BY <1>1, <1>5, <2>1, Zenon DEF Place
<1>6. CASE mem[p].caller = "restore"
  BY <1>6, Zenon DEF Return
<1>7. CASE mem[p].caller \notin {"switch", "restore", "renew", "cleanup"}
  BY <1>7, Zenon
<1> QED
  BY <1>3, <1>4, <1>5, <1>6, <1>7, Zenon

LEMMA SwitchStage ==
  ASSUME NEW p \in Proc, Same(p), SwitchOnly(p), mem'[p].active = mem[p].active,
         Choosing(p)' \/ Fetching(p)' \/ Stopping(p)' \/ Replacing(p)' \/ Trying(p)' \/ Removing(p)'
           \/ Returning(p)' \/ Returned(p)' \/ Recording(p)' \/ Configuring(p)'
  PROVE  Underway(p)'
<1>1. mem'[p].name \in {"upgrade", "rollback"} /\ ~mem'[p].active
  BY Zenon DEF SwitchOnly, Same
<1> QED
  BY <1>1, Zenon DEF Underway, Switching

LEMMA RenewStage ==
  ASSUME NEW p \in Proc, Same(p), mem[p].name = "renew",
         Looking(p)' \/ Copying(p)' \/ Copied(p)' \/ Arming(p)' \/ Pausing(p)' \/ Installing(p)' \/ Relaunching(p)' \/ Relaunched(p)'
           \/ Finished(p)' \/ Printed(p)' \/ Undoing(p)' \/ Emptying(p)' \/ Restarting(p)' \/ Restarted(p)'
  PROVE  Underway(p)'
<1>1. mem'[p].name = "renew"
  BY Zenon DEF Same
<1> QED
  BY <1>1, Zenon DEF Underway, Renewing

LEMMA CheckWorks ==
  ASSUME Typed, NEW p \in Proc, Underway(p), Obliged(p), Same(p), StartCheck(p)
  PROVE  Underway(p)'
<1>1. pc[p] = "start check" /\ UNCHANGED <<imageFile, previousFile, config, container, tags>>
  <2>1. pc[p] = "start check"
    BY Zenon DEF StartCheck
  <2>2. UNCHANGED <<imageFile, previousFile, config, container, tags>>
    BY Zenon DEF StartCheck, Abandon, files, images
  <2> QED
    BY <2>1, <2>2
<1>2. \/ SwitchOnly(p) /\ (Replacing(p) \/ Returning(p))
      \/ mem[p].name = "renew" /\ (Relaunching(p) \/ Restarting(p))
  BY <1>1, Stages, Zenon
<1>3. Whole(config) /\ container = NoContainer
  BY <1>2, Ready, Zenon
<1>4. pc'[p] = "start run" /\ UNCHANGED mem
  <2>1. Goto(p, "start run") /\ UNCHANGED mem
    BY <1>3, Zenon DEF StartCheck
  <2> QED
    BY <2>1, GotoSets, Zenon DEF Place, Typed
<1>5. /\ mem'[p].image = mem[p].image /\ mem'[p].old = mem[p].old /\ mem'[p].was = mem[p].was
      /\ mem'[p].active = mem[p].active /\ mem'[p].backup = mem[p].backup /\ mem'[p].set = mem[p].set /\ mem'[p].caller = mem[p].caller
      /\ mem'[p].status = mem[p].status /\ before'[p] = before[p]
  BY <1>4, Zenon DEF Same
<1>6. /\ ConfigAsFound(p) => ConfigAsFound(p)'
      /\ Chosen(p) => Chosen(p)'
      /\ Saved(p) => Saved(p)'
      /\ Renewed(p) => Renewed(p)'
  <2>1. Renewed(p) => Renewed(p)'
    BY <1>1, <1>5, Zenon DEF Renewed, Whole
  <2> QED
    BY <1>1, <1>5, <2>1, Frame, MemFrame, Zenon
<1>7. container' = NoContainer /\ before'[p].container.up = before[p].container.up
  BY <1>1, <1>3, <1>5
<1>8. /\ Replacing(p) => Replacing(p)'
      /\ Returning(p) => Returning(p)'
      /\ Relaunching(p) => Relaunching(p)'
      /\ Restarting(p) => Restarting(p)'
  <2>1. Replacing(p) => Replacing(p)'
    BY <1>4, <1>5, <1>6, <1>7, Zenon DEF Replacing, NoContainer
  <2>2. Returning(p) => Returning(p)'
    BY <1>4, <1>5, <1>6, <1>7, Zenon DEF Returning, NoContainer
  <2>3. Relaunching(p) => Relaunching(p)'
    BY <1>4, <1>5, <1>6, <1>7, Zenon DEF Relaunching, NoContainer
  <2>4. Restarting(p) => Restarting(p)'
    BY <1>4, <1>5, <1>6, <1>7, Zenon DEF Restarting, NoContainer
  <2> QED
    BY <2>1, <2>2, <2>3, <2>4
<1> QED
  BY <1>2, <1>5, <1>8, SwitchStage, RenewStage, Zenon

LEMMA RunWorks ==
  ASSUME Typed, InUse, NEW p \in Proc,
         Inside(p), Underway(p), Obliged(p), Obliged(p)', Same(p), StartRun(p)
  PROVE  Underway(p)'
<1> DEFINE image == Resolve(mem[p].image)
           made == [image |-> image, config |-> config, up |-> TRUE]
<1>a. MemoryTyped /\ before'[p] = before[p] /\ 1 \in {0, 1} /\ 1 # 0
  BY DEF Typed, Same
<1>1. pc[p] = "start run" /\ UNCHANGED <<imageFile, previousFile, config, tags>>
  BY Zenon DEF StartRun, At, files, images
<1>2. \/ SwitchOnly(p) /\ (Replacing(p) \/ Returning(p))
      \/ mem[p].name = "renew" /\ (Relaunching(p) \/ Restarting(p))
  BY <1>1, Stages, Zenon
<1>3. before[p].container.up /\ mem[p].caller # "up"
  BY <1>2, Ready, Zenon
<1>4. /\ before[p].resolved \in local /\ before[p].resolved # None
      /\ Resolve(before[p].resolved) = before[p].resolved
  BY <1>3, Resolved, Zenon
<1>5. ~Replacing(p) => image = before[p].resolved
  BY <1>2, <1>4, Zenon DEF Returning, Relaunching, Restarting, Saved, Noted
<1>6. \/ image \in local /\ container' = made /\ pc'[p] = "start observe" /\ UNCHANGED mem
      \/ Return(p, 1) /\ (Faulty(p) \/ image \notin local)
  <2>1. \/ image \in local /\ container' = made /\ Goto(p, "start observe") /\ UNCHANGED mem
        \/ Return(p, 1) /\ (Faulty(p) \/ image \notin local)
    BY Zenon DEF StartRun
  <2> QED
    BY <1>a, <2>1, GotoSets, Zenon DEF Place
<1>7. CASE image \in local /\ container' = made /\ pc'[p] = "start observe" /\ UNCHANGED mem
  <2>1. /\ mem'[p].image = mem[p].image /\ mem'[p].old = mem[p].old /\ mem'[p].was = mem[p].was
        /\ mem'[p].active = mem[p].active /\ mem'[p].backup = mem[p].backup /\ mem'[p].set = mem[p].set /\ mem'[p].caller = mem[p].caller
        /\ mem'[p].status = mem[p].status
    BY <1>7, Zenon
  <2>2. /\ ConfigAsFound(p) => ConfigAsFound(p)'
        /\ Chosen(p) => Chosen(p)'
        /\ Saved(p) => Saved(p)'
        /\ Renewed(p) => Renewed(p)'
    <3>1. Renewed(p) => Renewed(p)'
      BY <1>a, <1>1, Zenon DEF Renewed, Whole
    <3> QED
      BY <1>a, <1>1, <2>1, <3>1, Frame, MemFrame, Zenon
  <2>3. container'.up /\ container'.image = image /\ container'.config = config'
    BY <1>1, <1>7
  <2>4. image' = image
    BY <1>1, <2>1, Zenon DEF Resolve
  <2> HIDE DEF image, made
  <2>5. CASE SwitchOnly(p) /\ Replacing(p)
    <3>1. Trying(p)'
      BY <1>a, <1>3, <1>7, <2>1, <2>2, <2>3, <2>4, <2>5, Zenon DEF Trying, Replacing, Runs, image
    <3> QED
      BY <2>1, <2>5, <3>1, SwitchStage, Zenon
  <2>6. CASE SwitchOnly(p) /\ Returning(p) /\ ~Replacing(p)
    <3>1. Returned(p)'
      BY <1>a, <1>3, <1>5, <1>7, <2>1, <2>2, <2>3, <2>6, Zenon DEF Returned, Returning, Runs
    <3> QED
      BY <2>1, <2>6, <3>1, SwitchStage, Zenon
  <2>7. CASE mem[p].name = "renew" /\ Relaunching(p) /\ ~Replacing(p)
    <3>1. Relaunched(p)'
      BY <1>a, <1>3, <1>5, <1>7, <2>1, <2>2, <2>3, <2>7, Zenon DEF Relaunched, Relaunching, Runs
    <3> QED
      BY <2>7, <3>1, RenewStage, Zenon
  <2>8. CASE mem[p].name = "renew" /\ Restarting(p) /\ ~Replacing(p)
    <3>1. Restarted(p)'
      BY <1>a, <1>3, <1>5, <1>7, <2>1, <2>2, <2>3, <2>8, Zenon DEF Restarted, Restarting, Runs
    <3> QED
      BY <2>8, <3>1, RenewStage, Zenon
  <2>9. Relaunching(p) \/ Restarting(p) => ~Replacing(p)
    <3>1. Relaunching(p) \/ Restarting(p) => mem[p].caller # "switch"
      BY DEF Relaunching, Restarting
    <3> QED
      BY <3>1, Zenon DEF Replacing
  <2> QED
    BY <1>2, <2>5, <2>6, <2>7, <2>8, <2>9, Zenon
<1>8. CASE Return(p, 1) /\ (Faulty(p) \/ image \notin local)
  <2>1. Replacing(p) \/ Undone(p)
    BY <1>4, <1>5, <1>8, Excuses, Zenon
  <2> HIDE DEF image, made
  <2>2. CASE SwitchOnly(p) /\ Replacing(p)
    <3>1. mem[p].caller = "switch"
      BY <2>2, Zenon DEF Replacing
    <3>2. pc'[p] = "switch remove" /\ UNCHANGED mem
      BY <1>a, <1>8, <3>1, ReturnsTo, Zenon
    <3>3. mem'[p].old = mem[p].old /\ mem'[p].active = mem[p].active
      BY <3>2, Zenon
    <3>4. ConfigAsFound(p)'
      BY <1>a, <1>1, <2>2, Frame, Zenon DEF Replacing
    <3>5. Removing(p)'
      BY <1>a, <1>3, <1>4, <2>2, <3>2, <3>3, <3>4, Zenon DEF Removing, Replacing, Chosen
    <3> QED
      BY <2>2, <3>3, <3>5, SwitchStage, Zenon
  <2>3. CASE ~Replacing(p)
    <3>1. mem[p].caller = "renew"
      BY <1>1, <2>1, <2>3, <1>2, Ready DEF Undone, InStart
    <3>2. Relaunching(p) /\ mem[p].name = "renew"
      <4>1. Relaunching(p)
        BY <1>2, <3>1, Ready, Zenon
      <4>2. mem[p].caller # "restore"
        BY <3>1
      <4> QED
        BY <1>2, <2>3, <4>1, <4>2, Zenon DEF Returning
    <3>3. Exit(p, 1)
      BY <1>a, <1>8, <3>1, ReturnsTo, Zenon
    <3> QED
      BY <1>a, <1>1, <3>2, <3>3, FallsBack, Zenon DEF Relaunching
  <2>4. Replacing(p) => SwitchOnly(p)
    <3>1. Relaunching(p) \/ Restarting(p) => mem[p].caller # "switch"
      BY DEF Relaunching, Restarting
    <3> QED
      BY <1>2, <3>1, Zenon DEF Replacing
  <2> QED
    BY <2>2, <2>3, <2>4
<1> QED
  BY <1>6, <1>7, <1>8

LEMMA ObserveWorks ==
  ASSUME Typed, InUse, NEW p \in Proc, Inside(p), Underway(p), Obliged(p), Same(p), StartObserve(p)
  PROVE  Underway(p)'
<1>a. MemoryTyped /\ before'[p] = before[p] /\ 0 \in {0, 1} /\ 1 \in {0, 1} /\ 1 # 0
  BY DEF Typed, Same
<1>1. pc[p] = "start observe" /\ UNCHANGED <<imageFile, previousFile, config, tags>>
  BY Zenon DEF StartObserve, At, files, images
<1>2. \/ SwitchOnly(p) /\ (Trying(p) \/ Returned(p))
      \/ mem[p].name = "renew" /\ (Relaunched(p) \/ Restarted(p))
  BY <1>1, Stages, Zenon
<1>3. before[p].container.up /\ container.up
  BY <1>2, Looked, Zenon
<1>4. /\ before[p].resolved \in Good /\ before[p].container.image = before[p].resolved
      /\ before[p].resolved # None
  BY <1>3, Resolved, Zenon
<1>5. \/ Return(p, 0) /\ UNCHANGED container
      \/ /\ container.image \notin Good \/ container.config = Partial
         /\ Return(p, 1)
  BY <1>3, Zenon DEF StartObserve
<1>6. CASE SwitchOnly(p) /\ Trying(p)
  <2>0. mem[p].caller = "switch" /\ ConfigAsFound(p) /\ Chosen(p) /\ container.image = Resolve(mem[p].image)
    BY <1>6, Zenon DEF Trying, Runs
  <2>1. ConfigAsFound(p)'
    BY <1>a, <1>1, <2>0, Frame, Zenon
  <2>2. CASE Return(p, 0) /\ UNCHANGED container
    <3>1. pc'[p] = "switch record" /\ UNCHANGED mem
      BY <1>a, <2>0, <2>2, ReturnsTo, Zenon
    <3>2. mem'[p].image = mem[p].image /\ mem'[p].old = mem[p].old /\ mem'[p].active = mem[p].active
      BY <3>1, Zenon
    <3>3. Chosen(p)' /\ Resolve(mem[p].image)' = Resolve(mem[p].image)
      BY <1>1, <2>0, <3>2, MemFrame, Zenon DEF Resolve
    <3>4. imageFile' = before'[p].image
      BY <2>1, Zenon DEF ConfigAsFound, FilesAsFound
    <3>5. container'.up = before'[p].container.up
      BY <1>a, <1>3, <2>2, Zenon
    <3>6. container'.image = Resolve(mem[p].image)'
      BY <2>0, <2>2, <3>3, Zenon
    <3>7. Recording(p)'
      BY <3>1, <3>3, <3>4, <3>5, <3>6, Zenon DEF Recording, Switched
    <3> QED
      BY <1>6, <3>2, <3>7, SwitchStage, Zenon
  <2>3. CASE Return(p, 1)
    <3>1. pc'[p] = "switch remove" /\ UNCHANGED mem
      BY <1>a, <2>0, <2>3, ReturnsTo, Zenon
    <3>2. mem'[p].old = mem[p].old /\ mem'[p].active = mem[p].active
      BY <3>1, Zenon
    <3>3. Removing(p)'
      BY <1>a, <1>3, <1>4, <2>0, <2>1, <3>1, <3>2, Zenon DEF Removing, Chosen
    <3> QED
      BY <1>6, <3>2, <3>3, SwitchStage, Zenon
  <2> QED
    BY <1>5, <2>2, <2>3
<1>b. ASSUME Returned(p) \/ Relaunched(p) \/ Restarted(p)
      PROVE  Return(p, 0) /\ UNCHANGED container
  <2>1. container.image = before[p].resolved /\ container.config = config /\ Whole(config)
    BY <1>b, Zenon DEF Returned, Relaunched, Restarted, Runs, Renewed, ConfigAsFound, Obliged, WellFounded,
       Whole
  <2> QED
    BY <1>4, <1>5, <2>1, Zenon DEF Whole
<1>7. CASE SwitchOnly(p) /\ Returned(p)
  <2>1. mem[p].caller = "restore" /\ ConfigAsFound(p)
    BY <1>7, Zenon DEF Returned
  <2>2. Return(p, 0) /\ UNCHANGED container
    BY <1>b, <1>7
  <2>3. Exit(p, 1)
    BY <1>a, <2>1, <2>2, ReturnsTo, Zenon
  <2>4. pc'[p] = "clean work" /\ mem'[p].status = 1
    BY <1>a, <1>7, <2>3, ExitKeeps, Zenon DEF SwitchOnly, Held
  <2>5. ConfigAsFound(p)'
    BY <1>a, <1>1, <2>1, Frame, Zenon
  <2>6. container'.image = before'[p].container.image /\ container'.up = before'[p].container.up
    BY <1>a, <1>3, <1>4, <1>7, <2>2, Zenon DEF Returned, Runs
  <2>7. Restored(p)'
    BY <2>5, <2>6, Zenon DEF Restored, ConfigAsFound, FilesAsFound
  <2>8. mem'[p].status # 0
    BY <1>a, <2>4, Zenon
  <2> QED
    BY <2>4, <2>7, <2>8, EndsRestored, Zenon
<1>8. CASE mem[p].name = "renew" /\ Relaunched(p)
  <2>1. mem[p].caller = "renew" /\ Renewed(p) /\ Runs(before[p].resolved)
    BY <1>8, Zenon DEF Relaunched
  <2>2. Return(p, 0) /\ UNCHANGED container
    BY <1>b, <1>8
  <2>3. pc'[p] = "renew done" /\ UNCHANGED mem
    BY <1>a, <2>1, <2>2, ReturnsTo, Zenon
  <2>4. Whole(config)' /\ config' # before'[p].config
    BY <1>a, <1>1, <2>1, Zenon DEF Renewed, Whole
  <2>5. /\ container'.up = before'[p].container.up
        /\ container'.config = config' /\ container'.image = before'[p].container.image
    BY <1>a, <1>1, <1>3, <1>4, <2>1, <2>2, Zenon DEF Runs
  <2>6. mem'[p].name = "renew"
    BY <1>8, Zenon DEF Same
  <2>7. Succeeded(p)'
    BY <2>4, <2>5, <2>6, Zenon DEF Succeeded
  <2>8. Saved(p)'
    <3>1. /\ mem'[p].image = mem[p].image /\ mem'[p].was = mem[p].was /\ mem'[p].active = mem[p].active
          /\ mem'[p].backup = mem[p].backup /\ mem'[p].set = mem[p].set
      BY <2>3, Zenon
    <3> QED
      BY <1>1, <1>8, <3>1, MemFrame, Zenon DEF Relaunched
  <2> QED
    BY <1>8, <2>3, <2>7, <2>8, RenewStage, Zenon DEF Finished
<1>9. CASE mem[p].name = "renew" /\ Restarted(p)
  <2>1. mem[p].caller = "cleanup" /\ ConfigAsFound(p) /\ Runs(before[p].resolved) /\ mem[p].status = 1
    BY <1>9, Zenon DEF Restarted
  <2>2. Return(p, 0) /\ UNCHANGED container
    BY <1>b, <1>9
  <2>3. pc'[p] = "clean work" /\ UNCHANGED mem
    BY <1>a, <2>1, <2>2, ReturnsTo, Zenon
  <2>4. ConfigAsFound(p)'
    BY <1>a, <1>1, <2>1, Frame, Zenon
  <2>5. container'.image = before'[p].container.image /\ container'.up = before'[p].container.up
    BY <1>a, <1>3, <1>4, <2>1, <2>2, Zenon DEF Runs
  <2>6. Restored(p)'
    BY <2>4, <2>5, Zenon DEF Restored, ConfigAsFound, FilesAsFound
  <2>7. mem'[p].status # 0
    BY <1>a, <2>1, <2>3, Zenon
  <2> QED
    BY <2>3, <2>6, <2>7, EndsRestored, Zenon
<1> QED
  BY <1>2, <1>6, <1>7, <1>8, <1>9

-----------------------------------------------------------------------------
(* The steps of a renewal and of its trap.                                 *)

LEMMA RenewWorks ==
  ASSUME Typed, Counted, NEW p \in Proc, Underway(p), Obliged(p), Obliged(p)', Same(p), RenewStep(p)
  PROVE  Underway(p)'
<1>a. /\ MemoryTyped /\ mem[p].image \in Reference /\ "renew" \in Caller /\ before'[p] = before[p]
      /\ 0 \in {0, 1} /\ 1 \in {0, 1} /\ 1 # 0
  BY DEF Typed, MemoryTyped, Memory, Caller, Same
<1>b. \A l \in Place : Goto(p, l) => pc'[p] = l
  BY <1>a, GotoSets
<1>c. UNCHANGED mem => /\ mem'[p].image = mem[p].image /\ mem'[p].was = mem[p].was /\ mem'[p].active = mem[p].active
                       /\ mem'[p].backup = mem[p].backup /\ mem'[p].set = mem[p].set
  OBVIOUS
<1>1. CASE Renew(p)
  <2>1. mem[p].name = "renew" /\ Looking(p)
    BY <1>1, Stages, Zenon DEF Renew, At
  <2>2. /\ UNCHANGED <<config, imageFile, previousFile, container, tags>>
        /\ \/ Exit(p, 1)
           \/ /\ mem' = [mem EXCEPT ![p].was = container.up, ![p].image = configured_image]
              /\ Goto(p, "renew copy")
    BY <1>1, Zenon DEF Renew, files, images
  <2>3. AsFound(p) /\ AsFound(p)'
    BY <1>a, <2>1, <2>2, Frame, Zenon DEF Looking
  <2>4. CASE Exit(p, 1)
    BY <1>a, <2>1, <2>2, <2>3, <2>4, GivesUp, Zenon DEF Looking
  <2>5. CASE mem' = [mem EXCEPT ![p].was = container.up, ![p].image = configured_image] /\ Goto(p, "renew copy")
    <3>1. mem'[p].was = container.up /\ mem'[p].image = configured_image /\ mem'[p].active = mem[p].active
      <4>1. mem'[p] = [mem[p] EXCEPT !.was = container.up, !.image = configured_image] /\ mem[p] \in Memory
        BY <1>a, <2>5, ZenonT(40) DEF MemoryTyped
      <4> QED
        BY <4>1 DEF Memory
    <3>2. pc'[p] = "renew copy"
      BY <1>b, <2>5, Zenon DEF Place
    <3>3. configured_image # None
      BY References DEF Typed
    <3>4. Resolve(mem[p].image)' = Resolve(configured_image)
      BY <2>2, <3>1, Zenon DEF Resolve
    <3>5. container.up = before'[p].container.up
      BY <1>a, <2>3, Zenon DEF AsFound
    <3>6. Noted(p)'
      BY <1>a, <2>1, <3>1, <3>3, <3>4, <3>5, Zenon DEF Noted, Looking
    <3>7. Copying(p)'
      BY <2>1, <2>3, <3>1, <3>2, <3>6, Zenon DEF Copying, Looking
    <3> QED
      BY <2>1, <3>7, RenewStage, Zenon
  <2> QED
    BY <2>2, <2>4, <2>5
<1>2. CASE RenewCopy(p)
  <2>1. mem[p].name = "renew" /\ Copying(p)
    BY <1>2, Stages, Zenon DEF RenewCopy, At
  <2>2. /\ UNCHANGED <<config, imageFile, previousFile, container, tags>>
        /\ mem' = [mem EXCEPT ![p].backup = config] /\ Goto(p, "renew active")
    BY <1>2, Zenon DEF RenewCopy, files, images
  <2>3. AsFound(p) /\ AsFound(p)'
    BY <1>a, <2>1, <2>2, Frame, Zenon DEF Copying
  <2>4. mem'[p].image = mem[p].image /\ mem'[p].was = mem[p].was /\ mem'[p].active = mem[p].active
        /\ mem'[p].backup = config
    <3>1. mem'[p] = [mem[p] EXCEPT !.backup = config] /\ mem[p] \in Memory
      BY <1>a, <2>2, ZenonT(40) DEF MemoryTyped
    <3> QED
      BY <3>1 DEF Memory
  <2>5. pc'[p] = "renew active" /\ Noted(p)'
    BY <1>b, <2>1, <2>2, <2>4, MemFrame, Zenon DEF Copying, Place
  <2>6. config = before'[p].config
    BY <1>a, <2>3, Zenon DEF AsFound, ConfigAsFound
  <2>7. Copied(p)'
    BY <2>1, <2>3, <2>4, <2>5, <2>6, Zenon DEF Copied, Copying
  <2> QED
    BY <2>1, <2>7, RenewStage, Zenon
<1>3. CASE RenewActive(p)
  <2>1. mem[p].name = "renew" /\ Copied(p)
    BY <1>3, Stages, Zenon DEF RenewActive, At
  <2>2. /\ UNCHANGED <<config, imageFile, previousFile, container, tags>>
        /\ mem' = [mem EXCEPT ![p].active = TRUE] /\ Goto(p, "renew work")
    BY <1>3, Zenon DEF RenewActive, files, images
  <2>3. AsFound(p) /\ AsFound(p)' /\ Noted(p)
    BY <1>a, <2>1, <2>2, Frame, Zenon DEF Copied
  <2>4. mem'[p].image = mem[p].image /\ mem'[p].was = mem[p].was /\ mem'[p].active = TRUE
        /\ mem'[p].backup = mem[p].backup
    BY <1>a, <2>2, FieldsKeep, Zenon DEF Held
  <2>5. Noted(p)'
    BY <2>2, <2>3, <2>4, MemFrame, Zenon
  <2>6. pc'[p] = "renew work"
    BY <1>b, <2>2, Zenon DEF Place
  <2>7. pc'[p] # "renew was" /\ mem'[p].backup = before'[p].config
    BY <1>a, <2>1, <2>4, <2>6 DEF Copied
  <2>8. Arming(p)'
    BY <2>3, <2>4, <2>5, <2>6, <2>7, Zenon DEF Arming
  <2> QED
    BY <2>1, <2>8, RenewStage, Zenon
<1>9. CASE RenewSets(p)
  <2>1. mem[p].name = "renew" /\ Arming(p)
    BY <1>9, Stages, Zenon DEF RenewSets, RenewWork, RenewBackup, RenewWas, At
  <2>2. /\ UNCHANGED <<config, imageFile, previousFile, container, tags>>
        /\ \/ SetFor(p, "work") /\ Goto(p, "renew backup")
           \/ SetFor(p, "backup") /\ Goto(p, "renew was")
           \/ SetFor(p, "was") /\ pc[p] = "renew was" /\ mem[p].was /\ Goto(p, "renew stop")
           \/ SetFor(p, "was") /\ pc[p] = "renew was" /\ ~mem[p].was /\ Goto(p, "renew generate")
    BY <1>9, Zenon DEF RenewSets, RenewWork, RenewBackup, RenewWas, At, files, images
  <2>3. AsFound(p) /\ AsFound(p)' /\ Noted(p)
    BY <1>a, <2>1, <2>2, Frame, Zenon DEF Arming
  <2>4. ASSUME NEW v, SetFor(p, v)
        PROVE  /\ mem'[p].image = mem[p].image /\ mem'[p].was = mem[p].was /\ mem'[p].active = mem[p].active
               /\ mem'[p].backup = mem[p].backup /\ mem'[p].set = mem[p].set \cup {v}
               /\ v \in mem'[p].set /\ ("backup" \in mem[p].set => "backup" \in mem'[p].set)
    <3>1. /\ mem'[p].image = mem[p].image /\ mem'[p].was = mem[p].was /\ mem'[p].active = mem[p].active
          /\ mem'[p].backup = mem[p].backup /\ mem'[p].set = mem[p].set \cup {v}
      BY <1>a, <2>4, FieldsKeep, Zenon DEF SetFor, Held
    <3> QED
      BY <3>1
  <2>5. /\ mem'[p].image = mem[p].image /\ mem'[p].was = mem[p].was /\ mem'[p].active = mem[p].active
        /\ mem'[p].backup = mem[p].backup
    BY <2>2, <2>4, Zenon
  <2>6. Noted(p)'
    BY <2>2, <2>3, <2>5, MemFrame, Zenon
  <2>7. mem'[p].active /\ mem'[p].backup = before'[p].config
    BY <1>a, <2>1, <2>5, Zenon DEF Arming
  <2>8. container'.up = before'[p].container.up /\ mem[p].was = before'[p].container.up /\ FilesAsFound(p)'
    BY <1>a, <2>3, Zenon DEF AsFound, ConfigAsFound, Noted
  <2>10. CASE SetFor(p, "work") /\ Goto(p, "renew backup")
    <3>1. pc'[p] = "renew backup"
      BY <1>b, <2>10, Zenon DEF Place
    <3>2. pc'[p] # "renew was"
      BY <3>1
    <3>3. Arming(p)'
      BY <2>3, <2>6, <2>7, <3>1, <3>2, Zenon DEF Arming
    <3> QED
      BY <2>1, <3>3, RenewStage, Zenon
  <2>11. CASE SetFor(p, "backup") /\ Goto(p, "renew was")
    <3>1. pc'[p] = "renew was" /\ "backup" \in mem'[p].set
      BY <1>b, <2>4, <2>11, Zenon DEF Place
    <3>2. Arming(p)'
      BY <2>3, <2>6, <2>7, <3>1, Zenon DEF Arming
    <3> QED
      BY <2>1, <3>2, RenewStage, Zenon
  <2>12. CASE SetFor(p, "was") /\ pc[p] = "renew was"
    <3>1. "was" \in mem'[p].set /\ "backup" \in mem'[p].set
      BY <2>1, <2>4, <2>12, Zenon DEF Arming
    <3>2. Saved(p)'
      BY <2>6, <2>7, <2>8, <3>1, Zenon DEF Saved
    <3>3. CASE mem[p].was /\ Goto(p, "renew stop")
      <4>1. Pausing(p)'
        BY <1>b, <2>8, <3>2, <3>3, Zenon DEF Pausing, Place
      <4> QED
        BY <2>1, <4>1, RenewStage, Zenon
    <3>4. CASE ~mem[p].was /\ Goto(p, "renew generate")
      <4>1. pc'[p] = "renew generate"
        BY <1>b, <3>4, Zenon DEF Place
      <4>2. Installing(p)'
        BY <2>8, <3>2, <3>4, <4>1, Zenon DEF Installing
      <4> QED
        BY <2>1, <4>2, RenewStage, Zenon
    <3>5. \/ mem[p].was /\ Goto(p, "renew stop")
          \/ ~mem[p].was /\ Goto(p, "renew generate")
          \/ SetFor(p, "work") /\ Goto(p, "renew backup")
          \/ SetFor(p, "backup") /\ Goto(p, "renew was")
      BY <2>2
    <3> QED
      BY <2>10, <2>11, <3>3, <3>4, <3>5
  <2> QED
    BY <2>2, <2>10, <2>11, <2>12
<1>4. CASE RenewStop(p)
  <2>1. mem[p].name = "renew" /\ Pausing(p)
    BY <1>4, Stages, Zenon DEF RenewStop, At
  <2>2. /\ UNCHANGED <<config, imageFile, previousFile, tags>>
        /\ (container' = NoContainer /\ Goto(p, "renew generate") /\ UNCHANGED mem) \/ Exit(p, 1)
    BY <1>4, Zenon DEF RenewStop, stop_and_remove, files, images
  <2>3. CASE Exit(p, 1)
    BY <1>a, <2>1, <2>2, <2>3, FallsBack, Zenon DEF Pausing
  <2>4. CASE container' = NoContainer /\ Goto(p, "renew generate") /\ UNCHANGED mem
    <3>1. pc'[p] = "renew generate" /\ Saved(p)'
      BY <1>b, <1>c, <2>1, <2>2, <2>4, MemFrame, Zenon DEF Place, Pausing
    <3>2. ~container'.up
      BY <2>4 DEF NoContainer
    <3>3. Installing(p)'
      BY <2>4, <3>1, <3>2, Zenon DEF Installing, NoContainer
    <3> QED
      BY <2>1, <3>3, RenewStage, Zenon
  <2> QED
    BY <2>2, <2>3, <2>4
<1>5. CASE RenewGenerate(p) \/ RenewInstall(p)
  <2>1. mem[p].name = "renew" /\ Installing(p)
    BY <1>5, Stages, Zenon DEF RenewGenerate, RenewInstall, At
  <2>2. /\ UNCHANGED <<imageFile, previousFile, container, tags>>
        /\ \/ Exit(p, 1)
           \/ Goto(p, "renew install") /\ UNCHANGED mem
           \/ Goto(p, "renew installed") /\ UNCHANGED mem
    BY <1>5, Zenon DEF RenewGenerate, RenewInstall, files, images
  <2>3. CASE Exit(p, 1)
    BY <1>a, <2>1, <2>2, <2>3, FallsBack, Zenon DEF Installing
  <2>4. CASE ~Exit(p, 1)
    <3>1. pc'[p] \in {"renew generate", "renew install", "renew installed"} /\ Saved(p)'
      BY <1>b, <1>c, <2>1, <2>2, <2>4, MemFrame, Zenon DEF Place, Installing
    <3>2. /\ ~container'.up
          /\ before'[p].container.up => container' = NoContainer
      BY <1>a, <2>1, <2>2, Zenon DEF Installing
    <3>3. Installing(p)'
      BY <3>1, <3>2, Zenon DEF Installing, NoContainer
    <3> QED
      BY <2>1, <3>3, RenewStage, Zenon
  <2> QED
    BY <2>3, <2>4
<1>6. CASE RenewInstalled(p)
  <2>1. mem[p].name = "renew" /\ Installing(p)
    BY <1>6, Stages, Zenon DEF RenewInstalled, At
  <2>2. /\ UNCHANGED <<imageFile, previousFile, container, tags>>
        /\ config' = gen + 1
        /\ \/ mem[p].was /\ Call(p, mem[p].image, "renew")
           \/ ~mem[p].was /\ Goto(p, "renew done") /\ UNCHANGED mem
    BY <1>6, Zenon DEF RenewInstalled, images
  <2>3. config' # None /\ config' # Partial /\ config' # before'[p].config
    <3>1. gen \in Nat /\ gen + 1 # None
      BY ImageAssumption DEF Typed, StateTyped
    <3>2. Numbered(before[p].config)
      BY DEF Counted
    <3>3. gen + 1 # before[p].config
      BY <3>1, <3>2 DEF Numbered
    <3>4. gen + 1 # Partial
      BY <3>1 DEF Partial
    <3> QED
      BY <1>a, <2>2, <3>1, <3>3, <3>4, Zenon
  <2>4. Renewed(p)'
    BY <2>3, Zenon DEF Renewed, Whole
  <2>5. CASE mem[p].was /\ Call(p, mem[p].image, "renew")
    <3>1. /\ pc'[p] = "start check" /\ mem'[p].caller = "renew"
          /\ mem'[p].image = mem[p].image /\ mem'[p].was = mem[p].was /\ mem'[p].active = mem[p].active
          /\ mem'[p].backup = mem[p].backup /\ mem'[p].set = mem[p].set
      BY <1>a, <2>5, CallKeeps, Zenon DEF Held
    <3>2. Saved(p)'
      BY <2>1, <2>2, <3>1, MemFrame, Zenon DEF Installing
    <3>3. before[p].container.up
      BY <2>1, <2>5, Zenon DEF Installing, Saved, Noted
    <3>4. container' = NoContainer /\ before'[p].container.up
      BY <1>a, <2>1, <2>2, <3>3, Zenon DEF Installing
    <3>5. Relaunching(p)'
      BY <2>4, <3>1, <3>2, <3>4, Zenon DEF Relaunching, NoContainer
    <3> QED
      BY <2>1, <3>5, RenewStage, Zenon
  <2>6. CASE ~mem[p].was /\ Goto(p, "renew done") /\ UNCHANGED mem
    <3>1. pc'[p] = "renew done" /\ mem'[p].name = "renew"
      BY <1>b, <2>1, <2>6, Zenon DEF Place
    <3>2. ~before[p].container.up
      BY <2>1, <2>6, Zenon DEF Installing, Saved, Noted
    <3>3. /\ container'.up = container.up
          /\ container.up = FALSE /\ before[p].container.up = FALSE
      <4>1. container.up \in BOOLEAN /\ before[p].container.up = mem[p].was /\ mem[p].was \in BOOLEAN
        BY <1>a, <2>1 DEF Typed, StateTyped, MemoryTyped, Memory, Installing, Saved, Noted
      <4>2. ~container.up
        BY <2>1, Zenon DEF Installing
      <4> QED
        BY <2>2, <2>6, <4>1, <4>2, Zenon
    <3>4. container'.up = before'[p].container.up /\ ~container'.up
      BY <1>a, <3>3, Zenon
    <3>5. Succeeded(p)'
      BY <2>3, <3>1, <3>4, Zenon DEF Succeeded, Whole
    <3>6. Saved(p)'
      BY <1>c, <2>1, <2>2, <2>6, MemFrame, Zenon DEF Installing
    <3> QED
      BY <2>1, <3>1, <3>5, <3>6, RenewStage, Zenon DEF Finished
  <2> QED
    BY <2>2, <2>5, <2>6
<1>7. CASE RenewDone(p)
  <2>1. mem[p].name = "renew" /\ Finished(p)
    BY <1>7, Stages, Zenon DEF RenewDone, At
  <2>2. /\ UNCHANGED <<config, imageFile, previousFile, container, tags>>
        /\ mem' = [mem EXCEPT ![p].active = FALSE] /\ Goto(p, "renew printed")
    BY <1>7, Zenon DEF RenewDone, files, images
  <2>3. pc'[p] = "renew printed" /\ ~mem'[p].active /\ mem'[p].name = "renew"
    BY <1>a, <1>b, <2>1, <2>2, FieldsKeep, Zenon DEF Place, Held
  <2>4. Succeeded(p)'
    BY <1>a, <2>1, <2>2, <2>3, Zenon DEF Finished, Succeeded, Whole
  <2> QED
    BY <2>1, <2>3, <2>4, RenewStage, Zenon DEF Printed
<1>8. CASE RenewPrinted(p)
  <2>1. mem[p].name = "renew" /\ Printed(p)
    BY <1>8, Stages, Zenon DEF RenewPrinted, At
  <2>2. /\ UNCHANGED <<config, imageFile, previousFile, container, tags>>
        /\ mem' = [mem EXCEPT ![p].backup = None] /\ Goto(p, "clean work")
    BY <1>8, Zenon DEF RenewPrinted, files, images
  <2>3. pc'[p] = "clean work" /\ mem'[p].name = "renew"
    BY <1>a, <1>b, <2>1, <2>2, FieldsKeep, Zenon DEF Place, Held
  <2>4. Succeeded(p)'
    BY <1>a, <2>1, <2>2, <2>3, Zenon DEF Printed, Succeeded, Whole
  <2>5. Right(p)'
    BY <2>3, <2>4, Zenon DEF Right
  <2> QED
    BY <2>3, <2>5, Zenon DEF Underway, Ending
<1> QED
  BY <1>1, <1>2, <1>3, <1>4, <1>5, <1>6, <1>7, <1>8, <1>9, Zenon DEF RenewStep, RenewSets

LEMMA CleanupWorks ==
  ASSUME Typed, NEW p \in Proc, Underway(p), Obliged(p), Obliged(p)', Same(p), Cleanup(p), Inside(p)'
  PROVE  Underway(p)'
<1>a. /\ MemoryTyped /\ mem[p].image \in Reference /\ "cleanup" \in Caller /\ before'[p] = before[p] /\ 1 # 0
  BY DEF Typed, MemoryTyped, Memory, Caller, Same
<1>b. \A l \in Place : Goto(p, l) => pc'[p] = l
  BY <1>a, GotoSets
<1>c. UNCHANGED mem => /\ mem'[p].image = mem[p].image /\ mem'[p].was = mem[p].was /\ mem'[p].active = mem[p].active
                       /\ mem'[p].backup = mem[p].backup /\ mem'[p].set = mem[p].set /\ mem'[p].status = mem[p].status
  OBVIOUS
<1>1. CASE CleanStop(p)
  <2>1. mem[p].name = "renew" /\ Undoing(p)
    BY <1>1, Stages, Zenon DEF CleanStop, At
  <2>2. /\ UNCHANGED <<config, imageFile, previousFile, tags, mem>> /\ Goto(p, "clean empty")
        /\ container' = NoContainer \/ Faulty(p)
    BY <1>1, Zenon DEF CleanStop, stop_and_remove, files, images
  <2>3. ~Undone(p)
    BY <2>1 DEF Undone, InStart, Undoing
  <2>4. container' = NoContainer
    BY <2>2, <2>3, Excuses, Zenon
  <2>5. pc'[p] = "clean empty" /\ Saved(p)' /\ mem'[p].status = 1
    BY <1>b, <1>c, <2>1, <2>2, MemFrame, Zenon DEF Place, Undoing
  <2>6. Emptying(p)'
    BY <2>4, <2>5, Zenon DEF Emptying, NoContainer
  <2> QED
    BY <2>1, <2>6, RenewStage, Zenon
<1>2. CASE CleanEmpty(p)
  <2>1. mem[p].name = "renew" /\ Emptying(p)
    BY <1>2, Stages, Zenon DEF CleanEmpty, At
  <2>2. UNCHANGED <<imageFile, previousFile, container, tags, mem>> /\ Goto(p, "clean restore")
    BY <1>2, Zenon DEF CleanEmpty, images
  <2>3. pc'[p] = "clean restore" /\ Saved(p)' /\ mem'[p].status = 1 /\ container' = NoContainer
    BY <1>b, <1>c, <2>1, <2>2, MemFrame, Zenon DEF Place, Emptying
  <2>4. Emptying(p)'
    BY <2>3, Zenon DEF Emptying, NoContainer
  <2> QED
    BY <2>1, <2>4, RenewStage, Zenon
<1>3. CASE CleanRestore(p)
  <2>1. mem[p].name = "renew" /\ Emptying(p)
    BY <1>3, Stages, Zenon DEF CleanRestore, At
  <2>2. /\ UNCHANGED <<imageFile, previousFile, container, tags>>
        /\ \/ "backup" \in mem[p].set /\ config' = mem[p].backup
           \/ Faulty(p)
           \/ "backup" \notin mem[p].set
        /\ \/ mem[p].was /\ "was" \in mem[p].set /\ Call(p, mem[p].image, "cleanup")
           \/ ~(mem[p].was /\ "was" \in mem[p].set) /\ Goto(p, "clean work") /\ UNCHANGED mem
    BY <1>3, Zenon DEF CleanRestore, images
  <2>3. ~Undone(p)
    BY <2>1, <1>3 DEF Undone, InStart, CleanRestore, At
  <2>4. config' = mem[p].backup
    BY <2>1, <2>2, <2>3, Excuses, Zenon DEF Emptying, Saved
  <2>5. ConfigAsFound(p)'
    <3>1. FilesAsFound(p)' /\ mem[p].backup = before'[p].config
      BY <1>a, <2>1, <2>2, Frame, Zenon DEF Emptying, Saved
    <3> QED
      BY <2>4, <3>1, Zenon DEF ConfigAsFound
  <2>6. container' = NoContainer /\ before'[p].container.up = mem[p].was /\ mem[p].status = 1
    BY <1>a, <2>1, <2>2, Zenon DEF Emptying, Saved, Noted
  <2>7. CASE mem[p].was /\ Call(p, mem[p].image, "cleanup")
    <3>1. /\ pc'[p] = "start check" /\ mem'[p].caller = "cleanup" /\ mem'[p].status = mem[p].status
          /\ mem'[p].image = mem[p].image /\ mem'[p].was = mem[p].was /\ mem'[p].active = mem[p].active
          /\ mem'[p].backup = mem[p].backup /\ mem'[p].set = mem[p].set
      BY <1>a, <2>7, CallKeeps, Zenon DEF Held
    <3>2. Saved(p)'
      BY <2>1, <2>2, <3>1, MemFrame, Zenon DEF Emptying
    <3>3. Restarting(p)'
      BY <2>5, <2>6, <2>7, <3>1, <3>2, Zenon DEF Restarting, NoContainer
    <3> QED
      BY <2>1, <3>3, RenewStage, Zenon
  <2>8. CASE ~mem[p].was /\ Goto(p, "clean work") /\ UNCHANGED mem
    <3>1. pc'[p] = "clean work" /\ mem'[p].status = 1
      BY <1>b, <2>6, <2>8, Zenon DEF Place
    <3>2. mem[p].was \in BOOLEAN /\ ~mem[p].was
      BY <1>a, <2>8 DEF MemoryTyped, Memory
    <3>3. container'.up = FALSE
      BY <2>6 DEF NoContainer
    <3>4. container'.up = before'[p].container.up /\ ~container'.up
      BY <2>6, <3>2, <3>3, Zenon
    <3>5. Restored(p)'
      BY <2>5, <3>4, Zenon DEF Restored, ConfigAsFound, FilesAsFound
    <3>6. mem'[p].status # 0
      BY <1>a, <3>1, Zenon
    <3> QED
      BY <3>1, <3>5, <3>6, EndsRestored, Zenon
  <2> QED
    BY <2>1, <2>2, <2>7, <2>8, Zenon DEF Emptying, Saved
<1>4. CASE CleanWork(p)
  <2>1. Right(p)
    BY <1>4, Stages, Zenon DEF CleanWork, At
  <2>2. /\ UNCHANGED <<config, imageFile, previousFile, container, tags>>
        /\ mem' = [mem EXCEPT ![p].backup = None] /\ Goto(p, "clean lock")
    BY <1>4, Zenon DEF CleanWork, files, images
  <2>3. /\ pc'[p] = "clean lock" /\ mem'[p].name = mem[p].name /\ mem'[p].arg = mem[p].arg
        /\ mem'[p].status = mem[p].status
    <3>1. mem'[p] = [mem[p] EXCEPT !.backup = None] /\ mem[p] \in Memory
      BY <1>a, <2>2, ZenonT(40) DEF MemoryTyped
    <3>2. mem'[p].status = mem[p].status
      BY <3>1 DEF Memory
    <3> QED
      BY <1>b, <2>2, <3>2, Zenon DEF Place, Same
  <2>4. Resolve(imageFile)' = Resolve(imageFile)
    BY <2>2, Zenon DEF Resolve
  <2>5. Succeeded(p) => Succeeded(p)'
    BY <1>a, <2>2, <2>3, <2>4, Zenon DEF Succeeded, Whole
  <2>6. Restored(p) => Restored(p)'
    BY <1>a, <2>2, Zenon DEF Restored
  <2>7. Right(p)'
    BY <2>1, <2>3, <2>5, <2>6, Zenon DEF Right
  <2> QED
    BY <2>3, <2>7, Zenon DEF Underway, Ending
<1>5. CASE CleanLock(p)
  <2>1. pc'[p] = "idle"
    BY <1>a, <1>5, HelpersGo, Zenon DEF CleanLock, Left
  <2> QED
    BY <2>1, Zenon DEF Inside
<1> QED
  BY <1>1, <1>2, <1>3, <1>4, <1>5, Zenon DEF Cleanup

\* A command that fails without effect, or a signal.
LEMMA AbortWorks ==
  ASSUME Typed, NEW p \in Proc, Underway(p), Obliged(p)', Same(p), Abort(p)
  PROVE  Underway(p)'
<1>a. MemoryTyped /\ before'[p] = before[p] /\ 1 # 0
  BY DEF Typed, Same
<1>1. UNCHANGED <<config, imageFile, previousFile, container, tags>>
  BY Zenon DEF Abort, files, images
<1>2. Undone(p) /\ mem[p].caller # "switch"
  <2>1. p \notin excused'
    BY Zenon DEF Obliged, WellFounded
  <2> QED
    BY <2>1 DEF Abort
<1>3. \/ pc[p] \in {"switch", "switch pull", "switch check"}
      \/ pc[p] \in {"renew", "renew copy", "renew active"}
      \/ pc[p] = "renew was" /\ ~mem[p].was
      \/ pc[p] = "renew stop" \/ pc[p] \in {"renew generate", "renew install", "renew installed"}
      \/ pc[p] = "renew done"
      \/ pc[p] = "renew printed"
      \/ pc[p] \in {"start check", "start run"} /\ mem[p].caller = "renew"
      \/ pc[p] = "start observe" /\ mem[p].caller = "renew"
  BY <1>2, Zenon DEF Undone, InStart
<1>b. Exit(p, 1)
  BY Zenon DEF Abort
<1>4. CASE pc[p] = "renew printed"
  <2>1. mem[p].name = "renew" /\ ~mem[p].active /\ Succeeded(p)
    BY <1>4, Stages, Zenon DEF Printed
  <2>2. pc'[p] = "clean work" /\ mem'[p].name = "renew"
    BY <1>a, <1>b, <2>1, ExitKeeps, Zenon DEF Held
  <2>3. Succeeded(p)'
    BY <1>a, <1>1, <2>1, <2>2, Zenon DEF Succeeded, Whole
  <2>4. Right(p)'
    BY <2>2, <2>3, Zenon DEF Right
  <2> QED
    BY <2>2, <2>4, Zenon DEF Underway, Ending
<1>5. CASE pc[p] \in {"switch", "switch pull", "switch check"}
  <2>1. ~mem[p].active /\ AsFound(p)
    BY <1>5, Stages, Zenon DEF SwitchOnly, Choosing, Fetching
  <2> QED
    BY <1>a, <1>b, <1>1, <2>1, GivesUp, Zenon
<1>6. CASE pc[p] \in {"renew", "renew copy", "renew active"}
  <2>1. ~mem[p].active /\ AsFound(p)
    BY <1>6, Stages, Zenon DEF Looking, Copying, Copied
  <2> QED
    BY <1>a, <1>b, <1>1, <2>1, GivesUp, Zenon
<1>7. CASE mem[p].name = "renew" /\ Saved(p)
  BY <1>a, <1>b, <1>1, <1>7, FallsBack, Zenon
<1>8. CASE pc[p] = "renew stop" \/ pc[p] \in {"renew generate", "renew install", "renew installed"}
  <2>1. mem[p].name = "renew" /\ Saved(p)
    BY <1>8, Stages, Zenon DEF Pausing, Installing
  <2> QED
    BY <1>7, <2>1
<1>10. CASE pc[p] = "renew done"
  <2>1. mem[p].name = "renew" /\ Saved(p)
    BY <1>10, Stages, Zenon DEF Finished
  <2> QED
    BY <1>7, <2>1
<1>11. CASE pc[p] = "renew was" /\ ~mem[p].was
  <2>1. mem[p].name = "renew" /\ Arming(p)
    BY <1>11, Stages, Zenon
  <2>2. Saved(p)
    BY <1>11, <2>1, Zenon DEF Arming, Saved, AsFound, ConfigAsFound
  <2> QED
    BY <1>7, <2>1, <2>2
<1>9. CASE (pc[p] \in {"start check", "start run"} \/ pc[p] = "start observe") /\ mem[p].caller = "renew"
  <2>1. \/ SwitchOnly(p) /\ (Replacing(p) \/ Returning(p) \/ Trying(p) \/ Returned(p))
        \/ mem[p].name = "renew" /\ (Relaunching(p) \/ Restarting(p) \/ Relaunched(p) \/ Restarted(p))
    BY <1>9, Stages, Zenon
  <2>2. ~(Replacing(p) \/ Returning(p) \/ Trying(p) \/ Returned(p) \/ Restarting(p) \/ Restarted(p))
    BY <1>9 DEF Replacing, Returning, Trying, Returned, Restarting, Restarted
  <2>3. mem[p].name = "renew" /\ Saved(p)
    BY <2>1, <2>2, Zenon DEF Relaunching, Relaunched
  <2> QED
    BY <1>7, <2>3
<1> QED
  BY <1>3, <1>4, <1>5, <1>6, <1>8, <1>9, <1>10, <1>11, Zenon

-----------------------------------------------------------------------------
(* The steps of the others.                                                *)

LEMMA OthersWork ==
  ASSUME NEW p \in Proc, Underway(p), pc'[p] = pc[p], mem'[p] = mem[p], before'[p] = before[p],
         UNCHANGED <<imageFile, previousFile, config, tags, container>>
  PROVE  Underway(p)'
<1>1. \A r : Resolve(r)' = Resolve(r)
  BY Zenon DEF Resolve
<1>2. /\ mem'[p].image = mem[p].image /\ mem'[p].old = mem[p].old /\ mem'[p].was = mem[p].was
      /\ mem'[p].active = mem[p].active /\ mem'[p].backup = mem[p].backup /\ mem'[p].set = mem[p].set /\ mem'[p].caller = mem[p].caller
      /\ mem'[p].status = mem[p].status /\ mem'[p].name = mem[p].name
  BY Zenon
<1>a. Same(p)
  BY Zenon DEF Same
<1>3. /\ ConfigAsFound(p) => ConfigAsFound(p)'
      /\ AsFound(p) => AsFound(p)'
      /\ Chosen(p) => Chosen(p)'
      /\ Noted(p) => Noted(p)'
      /\ Saved(p) => Saved(p)'
  BY <1>2, <1>a, Frame, MemFrame, Zenon
<1>4. /\ Renewed(p) => Renewed(p)'
      /\ Resolve(configured_image)' = Resolve(configured_image)
      /\ Resolve(mem[p].image)' = Resolve(mem[p].image)
      /\ Resolve(imageFile)' = Resolve(imageFile)
      /\ Runs(Resolve(mem[p].image)) => Runs(Resolve(mem[p].image))'
      /\ Runs(before[p].resolved) => Runs(before[p].resolved)'
      /\ container = NoContainer => container' = NoContainer
  BY <1>2, Zenon DEF Renewed, Whole, Resolve, configured_image, Runs
<1>5. Succeeded(p) => Succeeded(p)'
  BY <1>4, Zenon DEF Succeeded, Whole
<1>6. Restored(p) => Restored(p)'
  BY Zenon DEF Restored
<1>7. Switched(p) => Switched(p)'
  BY <1>3, <1>4, Zenon DEF Switched
<1>8. CASE Switching(p)
  <2>0. SwitchOnly(p)
    BY <1>8, Zenon DEF Switching, SwitchOnly
  <2>1. Choosing(p) => Choosing(p)'
    BY <1>3, <1>4, Zenon DEF Choosing
  <2>2. Fetching(p) => Fetching(p)'
    BY <1>3, Zenon DEF Fetching
  <2>3. Stopping(p) => Stopping(p)'
    BY <1>3, Zenon DEF Stopping
  <2>4. Replacing(p) => Replacing(p)'
    BY <1>2, <1>3, <1>4, Zenon DEF Replacing, NoContainer
  <2>5. Trying(p) => Trying(p)'
    BY <1>2, <1>3, <1>4, Zenon DEF Trying
  <2>6. Removing(p) => Removing(p)'
    BY <1>2, <1>3, Zenon DEF Removing
  <2>7. Returning(p) => Returning(p)'
    BY <1>2, <1>3, <1>4, Zenon DEF Returning, NoContainer
  <2>8. Returned(p) => Returned(p)'
    BY <1>2, <1>3, <1>4, Zenon DEF Returned
  <2>9. Recording(p) => Recording(p)'
    BY <1>7, Zenon DEF Recording
  <2>10. Configuring(p) => Configuring(p)'
    BY <1>7, Zenon DEF Configuring
  <2>11. \/ Choosing(p) \/ Fetching(p) \/ Stopping(p) \/ Replacing(p) \/ Trying(p) \/ Removing(p)
         \/ Returning(p) \/ Returned(p) \/ Recording(p) \/ Configuring(p)
    BY <1>8, Zenon DEF Switching
  <2> QED
    BY <1>2, <1>a, <2>0, <2>1, <2>2, <2>3, <2>4, <2>5, <2>6, <2>7, <2>8, <2>9, <2>10, <2>11, SwitchStage,
       Zenon
<1>9. CASE Renewing(p)
  <2>1. Looking(p) => Looking(p)'
    BY <1>2, <1>3, <1>4, Zenon DEF Looking
  <2>2. Copying(p) => Copying(p)'
    BY <1>2, <1>3, Zenon DEF Copying
  <2>3. Copied(p) => Copied(p)'
    BY <1>2, <1>3, Zenon DEF Copied
  <2>4. Pausing(p) => Pausing(p)'
    BY <1>3, Zenon DEF Pausing
  <2>5. Installing(p) => Installing(p)'
    BY <1>3, <1>4, Zenon DEF Installing, NoContainer
  <2>6. Relaunching(p) => Relaunching(p)'
    BY <1>2, <1>3, <1>4, Zenon DEF Relaunching, NoContainer
  <2>7. Relaunched(p) => Relaunched(p)'
    BY <1>2, <1>3, <1>4, Zenon DEF Relaunched
  <2>8. /\ Finished(p) => Finished(p)'
        /\ Printed(p) => Printed(p)'
        /\ Arming(p) => Arming(p)'
    BY <1>2, <1>3, <1>5, Zenon DEF Finished, Printed, Arming
  <2>9. Undoing(p) => Undoing(p)'
    BY <1>2, <1>3, Zenon DEF Undoing
  <2>10. Emptying(p) => Emptying(p)'
    BY <1>2, <1>3, <1>4, Zenon DEF Emptying, NoContainer
  <2>11. Restarting(p) => Restarting(p)'
    BY <1>2, <1>3, <1>4, Zenon DEF Restarting, NoContainer
  <2>12. Restarted(p) => Restarted(p)'
    BY <1>2, <1>3, <1>4, Zenon DEF Restarted
  <2>13. /\ mem[p].name = "renew"
         /\ \/ Looking(p) \/ Copying(p) \/ Copied(p) \/ Arming(p) \/ Pausing(p) \/ Installing(p) \/ Relaunching(p) \/ Relaunched(p)
            \/ Finished(p) \/ Printed(p) \/ Undoing(p) \/ Emptying(p) \/ Restarting(p) \/ Restarted(p)
    BY <1>9, Zenon DEF Renewing
  <2> QED
    BY <1>a, <2>1, <2>2, <2>3, <2>4, <2>5, <2>6, <2>7, <2>8, <2>9, <2>10, <2>11, <2>12, <2>13, RenewStage,
       Zenon
<1>10. CASE Ending(p)
  <2>1. Right(p)'
    BY <1>2, <1>5, <1>6, <1>10, Zenon DEF Ending, Right
  <2> QED
    BY <1>10, <2>1, Zenon DEF Ending, Underway
<1> QED
  BY <1>8, <1>9, <1>10, Zenon DEF Underway

LEMMA OutsideSteps ==
  ASSUME NEW q \in Proc, ~Inside(q), CommandStep(q)
  PROVE  /\ Lock(q) \/ Begin(q)
         /\ UNCHANGED <<imageFile, previousFile, config, tags, container>>
         /\ \A p \in Proc \ {q} : p \notin excused' => p \notin excused
<1>1. Lock(q) \/ Begin(q)
  BY PlainGoesOn, StartGoesOn, SwitchGoesOn, RenewGoesOn, CleanupGoesOn, FaultGoesOn, Zenon DEF CommandStep,
     GoesOn, IsGone, Releases
<1>2. UNCHANGED <<imageFile, previousFile, config, tags, container>>
  BY <1>1, Zenon DEF Lock, Begin, files, images
<1>3. excused' = excused \/ excused' = excused \ {q}
  BY <1>1, Zenon DEF Lock, Begin
<1> QED
  BY <1>1, <1>2, <1>3

-----------------------------------------------------------------------------
(* The promise.                                                            *)

LEMMA OwnWorks ==
  ASSUME Typed, Counted, InUse, NEW p \in Proc, Inside(p), Obliged(p) => Underway(p), CommandStep(p),
         Inside(p)', Obliged(p)'
  PROVE  Underway(p)'
<1>1. Steady(p)
  BY StepWays, Zenon DEF Inside, Left
<1>2. Same(p)
  BY <1>1, Zenon DEF Steady, Goes, Same
<1>3. p \notin excused
  BY <1>1 DEF Obliged, WellFounded, Steady
<1>4. Obliged(p)
  BY <1>2, <1>3, Zenon DEF Obliged, WellFounded, Same, Whole
<1>5. Underway(p)
  BY <1>4
<1>6. CASE Plain(p)
  <2>1. pc[p] \in {"init", "write image", "up", "stop", "forget"}
    BY <1>6, Zenon DEF Plain, generate_config, WriteImage, Up, Down, Forget, At
  <2> QED
    BY <1>5, <2>1, Stages, Zenon
<1>7. CASE Start(p)
  BY <1>2, <1>4, <1>5, <1>7, CheckWorks, RunWorks, ObserveWorks, Zenon DEF Start
<1>8. CASE SwitchStep(p)
  BY <1>2, <1>5, <1>8, SwitchWorks, Zenon
<1>9. CASE RenewStep(p)
  BY <1>2, <1>4, <1>5, <1>9, RenewWorks, Zenon
<1>10. CASE Cleanup(p)
  BY <1>2, <1>4, <1>5, <1>10, CleanupWorks, Zenon
<1>11. CASE Abort(p)
  BY <1>2, <1>5, <1>11, AbortWorks, Zenon
<1>12. CASE Kill(p)
  <2>1. p \in excused'
    BY <1>12 DEF Kill, Excused
  <2> QED
    BY <2>1 DEF Obliged, WellFounded
<1>13. CASE Lock(p) \/ Begin(p)
  BY <1>13, Zenon DEF Lock, Begin, Inside
<1> QED
  BY <1>6, <1>7, <1>8, <1>9, <1>10, <1>11, <1>12, <1>13, Zenon DEF CommandStep

LEMMA EntryWorks ==
  ASSUME Typed, NEW p \in Proc, ~Inside(p), CommandStep(p), Inside(p)', Obliged(p)'
  PROVE  Underway(p)'
<1>1. Lock(p) \/ Begin(p)
  BY OutsideSteps, Zenon
<1>2. /\ pc[p] = "lock" /\ pc'[p] = First(mem[p].name) /\ UNCHANGED mem
      /\ before' = [before EXCEPT ![p] = Found]
  BY StepWays, Zenon DEF Inside, Left
<1>3. UNCHANGED <<imageFile, previousFile, config, tags, container>>
  BY OutsideSteps, Zenon
<1>4. before'[p] = Found
  BY <1>2 DEF Typed, HistoryTyped
<1>5. AsFound(p)'
  BY <1>3, <1>4, HistoryFound, Zenon DEF AsFound, ConfigAsFound, FilesAsFound
<1>6. Resolve(configured_image)' = before'[p].resolved
  BY <1>3, <1>4, HistoryFound, Zenon DEF Resolve, configured_image
<1>7. ~mem'[p].active
  BY <1>2, Zenon DEF Typed, Fresh, NewPlace
<1>8. mem[p].name \in {"upgrade", "rollback", "renew"}
  BY <1>2, Zenon DEF Obliged, WellFounded
<1>9. CASE mem[p].name \in {"upgrade", "rollback"}
  <2>1. pc'[p] = "switch"
    BY <1>2, <1>9 DEF First
  <2> QED
    BY <1>2, <1>5, <1>6, <1>7, <1>9, <2>1, Zenon DEF Underway, Switching, Choosing
<1>10. CASE mem[p].name = "renew"
  <2>1. pc'[p] = "renew"
    BY <1>2, <1>10 DEF First
  <2> QED
    BY <1>2, <1>5, <1>6, <1>7, <1>10, <2>1, Zenon DEF Underway, Renewing, Looking
<1> QED
  BY <1>8, <1>9, <1>10

LEMMA CommandWorks ==
  ASSUME Typed, ExclusionInv, WorkInv, NEW q \in Proc, CommandStep(q)
  PROVE  WorkInv'
<1>1. Counted' /\ InUse'
  BY StepCounted, StepInUse, Zenon DEF WorkInv
<1>2. CASE purged'
  BY <1>1, <1>2, Zenon DEF WorkInv, Promised
<1>3. CASE ~purged'
  <2>1. ~purged
    BY <1>3, StepsOfNext, Zenon DEF Next, CommandStep, GoesOn, IsGone, Releases, Begins, Enters, Refused,
       Unlocked
  <2> SUFFICES ASSUME NEW p \in Proc, Inside(p)', Obliged(p)'
               PROVE  Underway(p)'
    BY <1>1, Zenon DEF WorkInv, Promised
  <2>2. Inside(p) /\ Obliged(p) => Underway(p)
    BY <2>1, Zenon DEF WorkInv, Promised
  <2>3. CASE p = q
    BY <2>2, <2>3, OwnWorks, EntryWorks, Zenon DEF WorkInv
  <2>4. CASE p # q
    <3>1. pc'[p] = pc[p] /\ mem'[p] = mem[p] /\ before'[p] = before[p]
      BY <2>4, StepMemory, StepHistory, Zenon DEF CommandStep, Sets, Others, WorkInv
    <3>2. Inside(p)
      BY <3>1, Zenon DEF Inside
    <3>3. ~Inside(q)
      BY <2>1, <2>4, <3>2, Zenon DEF ExclusionInv, LockHeld
    <3>4. /\ UNCHANGED <<imageFile, previousFile, config, tags, container>>
          /\ p \notin excused' => p \notin excused
      BY <2>4, <3>3, OutsideSteps, Zenon
    <3>5. Obliged(p)
      BY <3>1, <3>4, Zenon DEF Obliged, WellFounded, Whole
    <3> QED
      BY <2>2, <3>1, <3>2, <3>4, <3>5, OthersWork, Zenon
  <2> QED
    BY <2>3, <2>4
<1> QED
  BY <1>2, <1>3

LEMMA QuietWorks ==
  ASSUME WorkInv, UNCHANGED <<pc, mem, before, excused, purged, imageFile, previousFile, config, tags, container, gen>>,
         local \subseteq local' \/ local' = local \/ \A p \in Proc : ~Inside(p),
         Here(container)', Tagged'
  PROVE  WorkInv'
<1>2. Counted'
  BY Zenon DEF WorkInv, Counted, Numbered
<1>3. InUse'
  <2>1. ASSUME NEW p \in Proc, Inside(p)'
        PROVE  Here(before[p].container)'
    <3>1. Inside(p)
      BY <2>1, Zenon DEF Inside
    <3> QED
      BY <3>1 DEF WorkInv, InUse, Here
  <2> QED
    BY <2>1, Zenon DEF InUse
<1>4. ASSUME ~purged', NEW p \in Proc, Inside(p)', Obliged(p)'
      PROVE  Underway(p)'
  <2>1. Inside(p) /\ Obliged(p)
    BY <1>4, Zenon DEF Inside, Obliged, WellFounded, Whole
  <2>2. Underway(p)
    BY <1>4, <2>1, Zenon DEF WorkInv, Promised
  <2> QED
    BY <2>2, OthersWork, Zenon
<1> QED
  BY <1>2, <1>3, <1>4, Zenon DEF WorkInv, Promised

LEMMA StepWorks ==
  ASSUME Typed, ExclusionInv, WorkInv, [Next]_vars
  PROVE  WorkInv'
<1>0. Here(container) /\ Tagged
  BY Zenon DEF WorkInv, InUse
<1>1. CASE Unlock \/ Publish \/ UNCHANGED vars
  <2>1. /\ UNCHANGED <<pc, mem, before, excused, purged, imageFile, previousFile, config, tags, container, gen>>
        /\ local' = local
    BY <1>1, Zenon DEF Unlock, Publish, vars, files, images, history, bounds
  <2>2. Here(container)' /\ Tagged'
    BY <1>0, <2>1, Zenon DEF Here, Tagged
  <2> QED
    BY <2>1, <2>2, QuietWorks, Zenon
<1>2. CASE Prune
  <2>1. /\ UNCHANGED <<pc, mem, before, excused, purged, imageFile, previousFile, config, tags, container, gen>>
        /\ \A p \in Proc : ~Inside(p)
    BY <1>2, Zenon DEF Prune, files, history
  <2>2. Here(container)' /\ Tagged'
    BY <1>0, <1>2 DEF Prune, Here, Tagged
  <2> QED
    BY <2>1, <2>2, QuietWorks, Zenon
<1> QED
  BY <1>1, <1>2, CommandWorks, Zenon DEF Next, CommandStep

LEMMA InitWorks ==
  ASSUME Init
  PROVE  WorkInv
<1>1. \A p \in Proc : pc[p] = "idle" /\ mem[p] = NoCommand /\ before[p] = Nothing
  BY DEF Init
<1>3. Counted
  <2>1. Numbered(None)
    BY InitTyped, NumberedFacts
  <2>2. Numbered(config)
    BY ImageAssumption DEF Init, Numbered
  <2>3. NoCommand.backup = None /\ Nothing.config = None
    BY DEF NoCommand, Nothing
  <2> QED
    BY <1>1, <2>1, <2>2, <2>3, Zenon DEF Counted
<1>4. Here(container) /\ Tagged
  BY ImageAssumption DEF Init, Here, NoContainer, Tagged
<1>5. \A p \in Proc : ~Inside(p) /\ pc[p] # "lock"
  BY <1>1 DEF Inside
<1> QED
  BY <1>3, <1>4, <1>5, Zenon DEF WorkInv, InUse, Promised

\* Who leaves through the end of the trap leaves things right.
LEMMA EndsRight ==
  ASSUME Typed, ExclusionInv, WorkInv, [Next]_vars, NEW p \in Proc, Ends(p), WellFounded(p), p \notin excused',
         mem[p].name \in {"upgrade", "rollback", "renew"}
  PROVE  Right(p)
<1>1. pc[p] = "clean lock" /\ pc'[p] = "idle" /\ ~purged /\ Inside(p) /\ pc[p] # pc'[p]
  BY InsideAt DEF Place, Ends
<1>2. ~UNCHANGED pc
  BY <1>1, Zenon
<1>3. PICK q \in Proc : CommandStep(q)
  BY <1>2, Zenon DEF Next, CommandStep, Unlock, Publish, Prune, vars
<1>4. p = q
  BY <1>1, <1>3, StepMemory, Zenon DEF CommandStep, Sets, Others
<1>5. excused \subseteq excused'
  BY <1>1, <1>3, <1>4, StepWays, Zenon DEF Steady, WorkInv, Inside
<1>6. Obliged(p)
  BY <1>5 DEF Obliged, WellFounded
<1> QED
  BY <1>1, <1>6, Stages, Zenon DEF WorkInv, Promised

\* An upgrade, a rollback or a renewal that ends is done entirely or has changed
\* nothing (scripts/mini-singbox-containerctl:333-365, :376-422 and :436-449),
\* also when the new image does not run, or a step of a renewal fails or a signal
\* stops it.  Excepted are commands that are killed; a renewal in whose trap a
\* command fails, or that a signal stops between RENEW_ACTIVE=1 and
\* RENEW_WAS_RUNNING=; and a switch that a signal or a failing write stops after
\* its check, that cannot stop a container or start the old one again, or that
\* cannot read the identity of the image it replaces.
THEOREM AlwaysAllOrNothing == Spec => AllOrNothing
<1> DEFINE Owed == \A p \in Proc :
                     Ends(p) /\ WellFounded(p) /\ p \notin excused' /\ mem[p].name \in {"upgrade", "rollback", "renew"}
                     => IF mem[p].status = 0 THEN Succeeded(p)
                                             ELSE Restored(p) \/ (mem[p].name = "renew" /\ Succeeded(p))
<1>1. Init => Typed /\ ExclusionInv /\ WorkInv
  BY InitTyped, InitExclusion, InitWorks
<1>2. Typed /\ ExclusionInv /\ WorkInv /\ [Next]_vars => (Typed /\ ExclusionInv /\ WorkInv)'
  BY StepTyped, ExclusionStep, StepWorks
<1>3. Typed /\ ExclusionInv /\ WorkInv /\ [Next]_vars => [Owed]_vars
  BY EndsRight, Zenon DEF Right
<1> QED
  BY <1>1, <1>2, <1>3, PTL DEF Spec, AllOrNothing

=============================================================================
