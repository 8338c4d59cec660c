-------------------------- MODULE ContainerControl --------------------------
(***************************************************************************)
(* scripts/mini-singbox-containerctl: the commands that change something,  *)
(* each a shell script that takes the lock of the state directory, drives  *)
(* a rootless container engine, and is left through the EXIT trap.         *)
(*                                                                         *)
(* An image has an identity; a reference names it by identity or by a tag, *)
(* which a pull moves to what the registry has.  All images pass "check",  *)
(* those not in Good do not survive their start.  A configuration is the   *)
(* number of its generation, Partial while files of two are mixed or some  *)
(* are missing; what is in the files is Delivery's subject.                *)
(*                                                                         *)
(* "set -e" holds but inside a function whose status is tested: there a    *)
(* failing command goes unnoticed, while "fail" still leaves the script.   *)
(* A signal, or a failing command without effect where "set -e" holds, is  *)
(* one step, Abort.                                                        *)
(***************************************************************************)
EXTENDS Integers, FiniteSets

CONSTANTS
  Proc,       \* commands that may run at once
  Image,      \* images
  Good,       \* those that keep running
  TagName,    \* tags
  Default,    \* $IMAGE, a tag
  Published,  \* the registry: an image for every tag at first ...
  Republished,\* ... and later
  None,       \* no file, no image, no container
  MaxCommand, \* bound: commands
  MaxFault,   \* bound: failures, signals and kills
  MaxEnv      \* bound: new images in the registry, and prunings

ASSUME ImageAssumption ==
  /\ Good \subseteq Image /\ Default \in TagName /\ TagName \cap Image = {}
  /\ None \notin Image \cup TagName \cup Nat
  /\ Published \in [TagName -> Image] /\ Republished \in [TagName -> Image]

VARIABLES
  lock,          \* LOCK_DIR is there
  config,        \* CONFIG_DIR: None, Partial or a generation
  imageFile,     \* IMAGE_FILE
  previousFile,  \* PREVIOUS_IMAGE_FILE
  registry,      \* what a pull gets
  tags,          \* what the tags mean here
  local,         \* the images here
  container,     \* the container: its image and configuration, and whether it runs
  left,          \* backups in work directories that nobody removes
  pc,            \* the next step of each command
  mem,           \* its name, argument and shell variables
  gen, count, fault, env, \* the last generation; how much of the bounds is used up
  before,        \* history: what each command found
  excused,       \* history: the commands in which something failed that the script does not undo
  stale,         \* history: a command ended without removing the lock
  purged,        \* history: a PURGE removed the state directory, the lock with it
  lost,          \* history: that, or the trap without its copy, removed the last configuration
  origin,        \* history: the image that the last switch is to replace
  astray         \* history: it was named by the tag that this switch has moved

files   == <<config, imageFile, previousFile>>
images  == <<registry, tags, local>>
bounds  == <<count, env>>
history == <<stale, purged, lost, origin, astray>>
vars    == <<lock, files, images, container, left, pc, mem, gen, bounds, fault, before, excused, history>>

Partial == 0
NoContainer == [image |-> None, config |-> None, up |-> FALSE]
NoCommand == [name |-> "none", arg |-> None, image |-> None, old |-> None, was |-> FALSE, active |-> FALSE,
              set |-> {}, backup |-> None, caller |-> "none", status |-> 0]
Nothing == [container |-> NoContainer, config |-> None, image |-> None, previous |-> None, resolved |-> None]

Command == {[NoCommand EXCEPT !.name = n] : n \in {"init", "up", "down", "uninstall", "purge", "rollback", "renew"}}
             \cup {[NoCommand EXCEPT !.name = "upgrade", !.arg = t] : t \in TagName}

\* What a reference means to the engine.
Resolve(ref) == IF ref \in TagName THEN tags[ref] ELSE ref

configured_image == IF imageFile = None THEN Default ELSE imageFile

Whole(c) == c # None /\ c # Partial

Found == [container |-> container, config |-> config, image |-> imageFile, previous |-> previousFile,
          resolved |-> Resolve(configured_image)]

Inside(p) == pc[p] \notin {"idle", "lock"}

-----------------------------------------------------------------------------
(* Control.                                                                *)

At(p, l) == pc[p] = l /\ UNCHANGED <<bounds, before>>

Goto(p, l) == pc' = [pc EXCEPT ![p] = l]

InStart(p) == pc[p] \in {"start check", "start run", "start observe"}

InCleanup(p) == \/ pc[p] \in {"clean stop", "clean empty", "clean restore", "clean work", "clean lock"}
                \/ InStart(p) /\ mem[p].caller = "cleanup"

\* Steps whose failure the script means to undo, or which have changed nothing yet.
Undone(p) == \/ pc[p] \in {"switch", "switch pull", "switch check", "renew", "renew copy", "renew active",
                           "renew stop", "renew generate", "renew install", "renew installed", "renew done",
                           "renew printed"}
             \/ pc[p] = "renew was" /\ ~mem[p].was
             \/ pc[p] = "start run" /\ mem[p].caller = "switch"
             \/ InStart(p) /\ mem[p].caller = "renew"

Excused(p) == fault < MaxFault /\ fault' = fault + 1 /\ excused' = excused \cup {p}

Faulty(p) == /\ fault < MaxFault /\ fault' = fault + 1
             /\ excused' = IF Undone(p) THEN excused ELSE excused \cup {p}

Faultless == UNCHANGED <<fault, excused>>

\* exit s: the EXIT trap is next.
Exit(p, s) ==
  /\ mem' = [mem EXCEPT ![p].status = s]
  /\ Goto(p, IF s = 1 /\ mem[p].active THEN "clean stop" ELSE "clean work")

\* start_container ref, called from a place that decides what its status means.
Call(p, ref, caller) ==
  /\ mem' = [mem EXCEPT ![p].image = ref, ![p].caller = caller]
  /\ Goto(p, "start check")

\* The process is gone.
Leave(p) ==
  /\ Goto(p, "idle")
  /\ mem' = [mem EXCEPT ![p] = NoCommand]
  /\ before' = [before EXCEPT ![p] = Nothing]

\* Gone without the rest of its trap.
Abandon(p) ==
  /\ Leave(p)
  /\ left' = left \cup ({mem[p].backup} \ {None})
  /\ stale' = TRUE
  /\ UNCHANGED <<lock, files, images, container, gen, bounds, purged, lost, origin, astray>>

Begin(p) ==
  /\ pc[p] = "idle" /\ count < MaxCommand
  /\ count' = count + 1
  /\ mem' \in {[mem EXCEPT ![p] = c] : c \in Command}
  /\ Goto(p, "lock")
  /\ excused' = excused \ {p}
  /\ UNCHANGED <<lock, files, images, container, left, gen, fault, env, before, history>>

First(name) == IF name \in {"down", "uninstall", "purge"} THEN "stop"
               ELSE IF name \in {"upgrade", "rollback"} THEN "switch"
               ELSE IF name \in {"init", "up"} THEN name ELSE "renew"

\* Variant: mkdir -p, which finds nothing wrong with a directory that is there.
LockAnyway(p) ==
  /\ pc[p] = "lock"
  /\ lock' = TRUE
  /\ Goto(p, First(mem[p].name)) /\ before' = [before EXCEPT ![p] = Found] /\ UNCHANGED mem
  /\ UNCHANGED <<files, images, container, left, gen, bounds, fault, excused, history>>

\* mkdir LOCK_DIR; without it the command ends before its traps are set.
Lock(p) ==
  /\ pc[p] = "lock"
  /\ \/ /\ ~lock /\ lock' = TRUE
        /\ Goto(p, First(mem[p].name)) /\ before' = [before EXCEPT ![p] = Found] /\ UNCHANGED mem
     \/ lock /\ Leave(p) /\ UNCHANGED lock
  /\ UNCHANGED <<files, images, container, left, gen, bounds, fault, excused, history>>

-----------------------------------------------------------------------------
(* start_container and stop_and_remove.                                    *)

\* require_config, check_image and container_exists.  A Partial configuration
\* may pass the first, and then only "up" minds the second.
StartCheck(p) ==
  /\ pc[p] = "start check"
  /\ Faultless
  /\ \/ /\ config # None /\ container = NoContainer
        /\ Goto(p, "start run")
        /\ UNCHANGED <<lock, files, images, container, left, mem, gen, bounds, before, history>>
     \/ /\ ~Whole(config) \/ container # NoContainer
        /\ \/ InCleanup(p) /\ Abandon(p)
           \/ /\ ~InCleanup(p) /\ Exit(p, 1)
              /\ UNCHANGED <<lock, files, images, container, left, gen, bounds, before, history>>

\* The status of start_container to where it was called from.
Return(p, s) ==
  LET caller == mem[p].caller IN
  \/ caller = "up"      /\ Exit(p, s)
  \/ caller = "switch"  /\ Goto(p, IF s = 0 THEN "switch record" ELSE "switch remove") /\ UNCHANGED mem
  \/ caller = "restore" /\ Exit(p, 1)
  \/ caller = "renew"   /\ IF s = 0 THEN Goto(p, "renew done") /\ UNCHANGED mem ELSE Exit(p, 1)
  \/ caller = "cleanup" /\ Goto(p, "clean work") /\ UNCHANGED mem

\* run -d; it may fail before or after it has created the container.
StartRun(p) ==
  /\ At(p, "start run")
  /\ LET image == Resolve(mem[p].image)
         made  == [image |-> image, config |-> config, up |-> TRUE]
     IN \/ /\ image \in local
           /\ container' = made
           /\ Goto(p, "start observe")
           /\ Faultless /\ UNCHANGED mem
        \/ /\ container' \in {NoContainer, [made EXCEPT !.up = FALSE]}
           /\ Return(p, 1)
           /\ IF image \in local THEN Faulty(p) ELSE Faultless /\ container' = NoContainer
  /\ UNCHANGED <<lock, files, images, left, gen, history>>

\* The look after three seconds.
StartObserve(p) ==
  /\ At(p, "start observe")
  /\ \/ /\ container.up /\ container.image \in Good
        /\ Return(p, 0)
        /\ UNCHANGED container
     \/ /\ ~container.up \/ container.image \notin Good \/ container.config = Partial
        /\ container' = NoContainer
        /\ Return(p, 1)
  /\ Faultless
  /\ UNCHANGED <<lock, files, images, left, gen, history>>

\* The container is gone, or it was stopped and could not be removed.
stop_and_remove(p, Then, Else) ==
  \/ container' = NoContainer /\ Then /\ Faultless
  \/ /\ container # NoContainer
     /\ container' = [container EXCEPT !.up = FALSE]
     /\ Else /\ Faulty(p)

-----------------------------------------------------------------------------
(* init, up, down and uninstall.                                           *)

\* generate_config up to write_image.
generate_config(p) ==
  /\ At(p, "init") /\ Faultless
  /\ \/ config # None /\ Exit(p, 1) /\ UNCHANGED <<config, tags, local, gen>>
     \/ /\ config = None
        /\ LET ref   == configured_image
               image == IF Resolve(ref) = None THEN registry[ref] ELSE Resolve(ref)
           IN /\ tags' = IF ref \in TagName THEN [tags EXCEPT ![ref] = image] ELSE tags
              /\ local' = local \cup {image}
        /\ gen' = gen + 1 /\ config' = gen + 1
        /\ Goto(p, "write image") /\ UNCHANGED mem
  /\ lost' = IF config = None THEN purged ELSE lost
  /\ UNCHANGED <<lock, imageFile, previousFile, registry, container, left, stale, purged, origin, astray>>

WriteImage(p) ==
  /\ At(p, "write image") /\ Faultless
  /\ imageFile' = configured_image
  /\ Exit(p, 0)
  /\ UNCHANGED <<lock, config, previousFile, images, container, left, gen, history>>

Up(p) ==
  /\ At(p, "up") /\ Faultless
  /\ Call(p, configured_image, "up")
  /\ UNCHANGED <<lock, files, images, container, left, gen, history>>

Down(p) ==
  /\ At(p, "stop")
  /\ stop_and_remove(p, IF mem[p].name = "down" THEN Exit(p, 0) ELSE Goto(p, "forget") /\ UNCHANGED mem,
                        Exit(p, 1))
  /\ UNCHANGED <<lock, files, images, left, gen, history>>

\* The rest of uninstall.  PURGE=1 removes the state directory, the lock with it.
Forget(p) ==
  /\ At(p, "forget") /\ Faultless
  /\ Exit(p, 0)
  /\ imageFile' = None /\ previousFile' = None /\ origin' = None /\ astray' = FALSE
  /\ IF mem[p].name = "purge" THEN /\ config' = None /\ left' = {} /\ lock' = FALSE
                                   /\ purged' = TRUE /\ lost' = TRUE
                              ELSE UNCHANGED <<config, left, lock, purged, lost>>
  /\ UNCHANGED <<images, container, gen, stale>>

-----------------------------------------------------------------------------
(* switch_image, and rollback_image, which calls it.                       *)

\* Variant: rollback does not look whether an image is recorded.
SwitchAnyway(p) ==
  LET target == IF mem[p].name = "rollback" THEN previousFile ELSE mem[p].arg IN
  /\ At(p, "switch") /\ Faultless
  /\ \/ ~Whole(config) /\ Exit(p, 1)
     \/ /\ config # None
        /\ mem' = [mem EXCEPT ![p].image = target, ![p].old = Resolve(configured_image)]
        /\ Goto(p, "switch pull")
  /\ UNCHANGED <<lock, files, images, container, left, gen, history>>

\* The old image is remembered by its identity, or by its reference when the
\* engine does not have the image or cannot say which it is.
Switch(p) ==
  LET target == IF mem[p].name = "rollback" THEN previousFile ELSE mem[p].arg
      Remember(old) == mem' = [mem EXCEPT ![p].image = target, ![p].old = old] /\ Goto(p, "switch pull")
      here == Resolve(configured_image) \in local
  IN /\ At(p, "switch")
     /\ \/ (target = None \/ ~Whole(config)) /\ Exit(p, 1) /\ Faultless
        \/ /\ target # None /\ config # None
           /\ \/ here /\ Remember(Resolve(configured_image)) /\ Faultless
              \/ ~here /\ Remember(configured_image) /\ Faultless
              \/ here /\ Remember(configured_image) /\ Excused(p)
     /\ UNCHANGED <<lock, files, images, container, left, gen, history>>

\* A pull gives the tag another meaning; when it is the configured reference,
\* no file names the image any more that is to be replaced.
SwitchPull(p) ==
  LET target == mem[p].image IN
  /\ At(p, "switch pull") /\ Faultless
  /\ \/ /\ target \in Image \ local
        /\ Exit(p, 1) /\ UNCHANGED <<tags, local, origin, astray>>
     \/ /\ target \in local
        /\ origin' = before[p].resolved /\ astray' = FALSE
        /\ Goto(p, "switch check") /\ UNCHANGED <<mem, tags, local>>
     \/ /\ target \in TagName
        /\ tags' = [tags EXCEPT ![target] = registry[target]]
        /\ local' = local \cup {registry[target]}
        /\ origin' = before[p].resolved
        /\ astray' = (target = configured_image /\ tags[target] \notin {None, registry[target]})
        /\ Goto(p, "switch check") /\ UNCHANGED mem
  /\ UNCHANGED <<lock, files, registry, container, left, gen, stale, purged, lost>>

SwitchCheck(p) ==
  /\ At(p, "switch check") /\ Faultless
  /\ \/ config = Partial /\ Exit(p, 1)
     \/ /\ mem' = [mem EXCEPT ![p].was = container.up]
        /\ Goto(p, IF container.up THEN "switch stop" ELSE "switch record")
  /\ UNCHANGED <<lock, files, images, container, left, gen, history>>

SwitchStop(p) ==
  /\ At(p, "switch stop")
  /\ stop_and_remove(p, Call(p, mem[p].image, "switch"), Exit(p, 1))
  /\ UNCHANGED <<lock, files, images, left, gen, history>>

\* Variant: the previous image is not started again.
SwitchRemoveOnly(p) ==
  /\ At(p, "switch remove")
  /\ stop_and_remove(p, Exit(p, 1), Exit(p, 1))
  /\ UNCHANGED <<lock, files, images, left, gen, history>>

SwitchRemove(p) ==
  /\ At(p, "switch remove")
  /\ stop_and_remove(p, Call(p, mem[p].old, "restore"), Exit(p, 1))
  /\ UNCHANGED <<lock, files, images, left, gen, history>>

\* Variant: the new image is recorded first.
SwitchRecordNew(p) ==
  /\ At(p, "switch record") /\ Faultless
  /\ imageFile' = mem[p].image
  /\ Goto(p, "switch image") /\ UNCHANGED mem
  /\ UNCHANGED <<lock, config, previousFile, images, container, left, gen, history>>

SwitchRecord(p) ==
  /\ At(p, "switch record") /\ Faultless
  /\ previousFile' = mem[p].old
  /\ astray' = (astray /\ mem[p].old \in TagName)
  /\ Goto(p, "switch image") /\ UNCHANGED mem
  /\ UNCHANGED <<lock, config, imageFile, images, container, left, gen, stale, purged, lost, origin>>

SwitchImage(p) ==
  /\ At(p, "switch image") /\ Faultless
  /\ imageFile' = mem[p].image
  /\ Exit(p, 0)
  /\ UNCHANGED <<lock, config, previousFile, images, container, left, gen, history>>

-----------------------------------------------------------------------------
(* renew_certificate.                                                      *)

Renew(p) ==
  /\ At(p, "renew") /\ Faultless
  /\ \/ ~Whole(config) /\ Exit(p, 1)
     \/ /\ config # None
        /\ mem' = [mem EXCEPT ![p].was = container.up, ![p].image = configured_image]
        /\ Goto(p, "renew copy")
  /\ UNCHANGED <<lock, files, images, container, left, gen, history>>

\* Variant: the directories are made and nothing is copied.
RenewNoCopy(p) ==
  /\ At(p, "renew copy") /\ Faultless
  /\ Goto(p, "renew active") /\ UNCHANGED mem
  /\ UNCHANGED <<lock, files, images, container, left, gen, history>>

RenewCopy(p) ==
  /\ At(p, "renew copy") /\ Faultless
  /\ mem' = [mem EXCEPT ![p].backup = config]
  /\ Goto(p, "renew active")
  /\ UNCHANGED <<lock, files, images, container, left, gen, history>>

\* RENEW_ACTIVE=1 comes before the trap knows the work directory, the backup in
\* it, and what to start again.
RenewActive(p) ==
  /\ At(p, "renew active") /\ Faultless
  /\ mem' = [mem EXCEPT ![p].active = TRUE]
  /\ Goto(p, "renew work")
  /\ UNCHANGED <<lock, files, images, container, left, gen, history>>

SetFor(p, what) == mem' = [mem EXCEPT ![p].set = @ \cup {what}]

RenewWork(p) ==
  /\ At(p, "renew work") /\ Faultless
  /\ SetFor(p, "work") /\ Goto(p, "renew backup")
  /\ UNCHANGED <<lock, files, images, container, left, gen, history>>

RenewBackup(p) ==
  /\ At(p, "renew backup") /\ Faultless
  /\ SetFor(p, "backup") /\ Goto(p, "renew was")
  /\ UNCHANGED <<lock, files, images, container, left, gen, history>>

RenewWas(p) ==
  /\ At(p, "renew was") /\ Faultless
  /\ SetFor(p, "was") /\ Goto(p, IF mem[p].was THEN "renew stop" ELSE "renew generate")
  /\ UNCHANGED <<lock, files, images, container, left, gen, history>>

RenewStop(p) ==
  /\ At(p, "renew stop")
  /\ stop_and_remove(p, Goto(p, "renew generate") /\ UNCHANGED mem, Exit(p, 1))
  /\ UNCHANGED <<lock, files, images, left, gen, history>>

\* The new set goes into the work directory.
RenewGenerate(p) ==
  /\ At(p, "renew generate") /\ Faultless
  /\ IF Resolve(mem[p].image) \in local THEN Goto(p, "renew install") /\ UNCHANGED mem ELSE Exit(p, 1)
  /\ UNCHANGED <<lock, files, images, container, left, gen, history>>

\* The loop over RENEWAL_FILES: begun, and ended.
RenewInstall(p) ==
  /\ At(p, "renew install") /\ Faultless
  /\ config' = Partial
  /\ Goto(p, "renew installed") /\ UNCHANGED mem
  /\ UNCHANGED <<lock, imageFile, previousFile, images, container, left, gen, history>>

RenewInstalled(p) ==
  /\ At(p, "renew installed") /\ Faultless
  /\ gen' = gen + 1 /\ config' = gen + 1
  /\ IF mem[p].was THEN Call(p, mem[p].image, "renew") ELSE Goto(p, "renew done") /\ UNCHANGED mem
  /\ UNCHANGED <<lock, imageFile, previousFile, images, container, left, history>>

RenewDone(p) ==
  /\ At(p, "renew done") /\ Faultless
  /\ mem' = [mem EXCEPT ![p].active = FALSE]
  /\ Goto(p, "renew printed")
  /\ UNCHANGED <<lock, files, images, container, left, gen, history>>

RenewPrinted(p) ==
  /\ At(p, "renew printed") /\ Faultless
  /\ mem' = [mem EXCEPT ![p].backup = None]
  /\ Goto(p, "clean work")
  /\ UNCHANGED <<lock, files, images, container, left, gen, history>>

-----------------------------------------------------------------------------
(* cleanup, the EXIT trap.                                                 *)

CleanStop(p) ==
  /\ At(p, "clean stop")
  /\ stop_and_remove(p, Goto(p, "clean empty"), Goto(p, "clean empty"))
  /\ UNCHANGED <<lock, files, images, left, mem, gen, history>>

CleanEmpty(p) ==
  /\ At(p, "clean empty") /\ Faultless
  /\ config' = None
  /\ Goto(p, "clean restore")
  /\ UNCHANGED <<lock, imageFile, previousFile, images, container, left, mem, gen, history>>

\* cp -a || true: what follows does not depend on it.  While RENEW_BACKUP is
\* empty it copies "/." instead, where no configuration is.
CleanRestore(p) ==
  /\ At(p, "clean restore")
  /\ \/ "backup" \in mem[p].set /\ config' = mem[p].backup /\ Faultless /\ UNCHANGED lost
     \/ "backup" \in mem[p].set /\ config' = Partial /\ Faulty(p) /\ lost' = TRUE
     \/ /\ "backup" \notin mem[p].set /\ UNCHANGED config /\ Faultless
        /\ lost' = (lost \/ "work" \in mem[p].set)
  /\ IF mem[p].was /\ "was" \in mem[p].set THEN Call(p, mem[p].image, "cleanup")
                                          ELSE Goto(p, "clean work") /\ UNCHANGED mem
  /\ UNCHANGED <<lock, imageFile, previousFile, images, container, left, gen, stale, purged, origin, astray>>

\* Nothing is removed while RENEW_WORK is empty.
CleanWork(p) ==
  /\ At(p, "clean work") /\ Faultless
  /\ mem' = [mem EXCEPT ![p].backup = None]
  /\ left' = IF "work" \in mem[p].set THEN left ELSE left \cup ({mem[p].backup} \ {None})
  /\ Goto(p, "clean lock")
  /\ UNCHANGED <<lock, files, images, container, gen, history>>

\* Variant: the lock is left to the next command.
CleanLockNot(p) ==
  /\ pc[p] = "clean lock" /\ Faultless
  /\ Leave(p)
  /\ UNCHANGED <<lock, files, images, container, left, gen, bounds, history>>

CleanLock(p) ==
  /\ pc[p] = "clean lock" /\ Faultless
  /\ lock' = FALSE
  /\ Leave(p)
  /\ UNCHANGED <<files, images, container, left, gen, bounds, history>>

-----------------------------------------------------------------------------
(* Signals, kills, the operator and the registry.                          *)

\* A command fails without effect, or HUP, INT or TERM comes, before the trap runs.
Abort(p) ==
  /\ Inside(p) /\ ~InCleanup(p)
  /\ Exit(p, 1)
  /\ fault < MaxFault /\ fault' = fault + 1
  /\ excused' = IF Undone(p) /\ mem[p].caller # "switch" THEN excused ELSE excused \cup {p}
  /\ UNCHANGED <<lock, files, images, container, left, gen, bounds, before, history>>

\* KILL, or a signal once cleanup has reset the traps.
Kill(p) ==
  /\ Inside(p)
  /\ Excused(p)
  /\ Abandon(p)

\* The operator removes a lock that nobody holds.
Unlock ==
  /\ lock /\ \A p \in Proc : ~Inside(p)
  /\ lock' = FALSE /\ stale' = FALSE
  /\ UNCHANGED <<files, images, container, left, pc, mem, gen, bounds, fault, before, excused, purged, lost, origin, astray>>

Publish ==
  /\ env < MaxEnv /\ env' = env + 1
  /\ registry # Republished /\ registry' = Republished
  /\ UNCHANGED <<lock, files, tags, local, container, left, pc, mem, gen, count, fault, before, excused, history>>

\* "image prune" between two commands: an image without a tag or a container goes.
Prune ==
  /\ env < MaxEnv /\ env' = env + 1
  /\ \A p \in Proc : ~Inside(p)
  /\ \E i \in local \ {container.image} :
       /\ \A t \in TagName : tags[t] # i
       /\ local' = local \ {i}
  /\ UNCHANGED <<lock, files, registry, tags, container, left, pc, mem, gen, count, fault, before, excused, history>>

\* A fresh account, one after "init" and "up", and one after an upgrade, its
\* rollback and an upgrade to a new image that did not start.
Init ==
  /\ lock = FALSE /\ left = {}
  /\ LET running == [image |-> Published[Default], config |-> 1, up |-> TRUE] IN
     \/ /\ registry = Published /\ tags = [t \in TagName |-> None] /\ local = {}
        /\ config = None /\ imageFile = None /\ previousFile = None /\ container = NoContainer /\ gen = 0
     \/ /\ registry = Published /\ local = {Published[Default]}
        /\ tags = [t \in TagName |-> IF t = Default THEN Published[t] ELSE None]
        /\ config = 1 /\ imageFile = Default /\ previousFile = None /\ container = running /\ gen = 1
     \/ /\ registry = Republished /\ tags = Republished /\ local = Image
        /\ config = 1 /\ imageFile = Published[Default] /\ container = running /\ gen = 1
        /\ previousFile \in Good \ {Published[Default]}
  /\ pc = [p \in Proc |-> "idle"] /\ mem = [p \in Proc |-> NoCommand] /\ before = [p \in Proc |-> Nothing]
  /\ count = 0 /\ fault = 0 /\ env = 0 /\ excused = {} /\ stale = FALSE /\ purged = FALSE /\ lost = FALSE
  /\ origin = None /\ astray = FALSE

Plain(p) == generate_config(p) \/ WriteImage(p) \/ Up(p) \/ Down(p) \/ Forget(p)
Start(p) == StartCheck(p) \/ StartRun(p) \/ StartObserve(p)
SwitchStep(p) == \/ Switch(p) \/ SwitchPull(p) \/ SwitchCheck(p) \/ SwitchStop(p) \/ SwitchRemove(p)
                 \/ SwitchRecord(p) \/ SwitchImage(p)
RenewStep(p) == \/ Renew(p) \/ RenewCopy(p) \/ RenewActive(p) \/ RenewWork(p) \/ RenewBackup(p) \/ RenewWas(p)
                \/ RenewStop(p) \/ RenewGenerate(p) \/ RenewInstall(p) \/ RenewInstalled(p) \/ RenewDone(p)
                \/ RenewPrinted(p)
Cleanup(p) == CleanStop(p) \/ CleanEmpty(p) \/ CleanRestore(p) \/ CleanWork(p) \/ CleanLock(p)

Next ==
  \/ \E p \in Proc : \/ Begin(p) \/ Lock(p) \/ Plain(p) \/ Start(p) \/ SwitchStep(p) \/ RenewStep(p)
                     \/ Cleanup(p) \/ Abort(p) \/ Kill(p)
  \/ Unlock \/ Publish \/ Prune

Spec == Init /\ [][Next]_vars

-----------------------------------------------------------------------------
(* Properties.                                                             *)

Reference == Image \cup TagName \cup {None}
Config == {None} \cup Nat

\* Types: the files name images or tags, the container the image it was made
\* from, never a tag; and a rollback pulls only what is recorded.
TypeOK ==
  /\ lock \in BOOLEAN /\ config \in Config /\ imageFile \in Reference /\ previousFile \in Reference
  /\ registry \in {Published, Republished} /\ tags \in [TagName -> Image \cup {None}] /\ local \subseteq Image
  /\ container.image \in Image \cup {None} /\ container.config \in Config /\ container.up \in BOOLEAN
  /\ left \subseteq Config /\ excused \subseteq Proc /\ origin \in Image \cup {None} /\ astray \in BOOLEAN
  /\ \A p \in Proc : /\ mem[p].backup \in Config /\ mem[p].image \in Reference /\ mem[p].old \in Reference
                    /\ mem[p].set \subseteq {"work", "backup", "was"} /\ mem[p].status \in {0, 1}
                    /\ pc[p] = "switch pull" => mem[p].image # None

\* Commands on one state directory exclude each other (LOCK_DIR); only a
\* PURGE, which removes the lock before its own trap does, breaks this.
Exclusive == purged \/ \A p, q \in Proc : Inside(p) /\ Inside(q) => p = q

\* However a renewal is interrupted, a whole configuration exists: in its
\* directory or as the backup in a work directory.  It does not, until a new
\* one is made, when the trap empties the directory and then its copy back fails,
\* or it was entered by a signal between RENEW_WORK= and RENEW_BACKUP=, and
\* removes the work directory all the same; nor once PURGE has removed everything.
Recoverable ==
  \/ lost \/ gen = 0
  \/ \E c \in {config} \cup left \cup {mem[p].backup : p \in Proc} : Whole(c)

\* A lock that nobody holds is there only after a kill, or after cleanup's own
\* start_container gave up.
LockReleased == lock /\ (\A p \in Proc : ~Inside(p)) => stale

\* The image that the last switch replaced, or is about to, is what one of the
\* two files names: PREVIOUS_IMAGE_FILE is written before IMAGE_FILE.  Two things
\* break this: two switches at once, which only a PURGE makes possible; and a
\* pull that moves the very tag which IMAGE_FILE names, until the identity of the
\* old image is recorded.
WayBack ==
  ~purged /\ ~astray /\ origin # None => origin \in {Resolve(previousFile), Resolve(configured_image)}

\* What upgrade, rollback and renewal owe when they end.
Succeeded(p) ==
  /\ container.up = before[p].container.up
  /\ IF mem[p].name = "renew"
       THEN /\ Whole(config) /\ config # before[p].config
            /\ container.up => container.config = config /\ container.image = before[p].container.image
       ELSE /\ imageFile # None /\ before[p].resolved \in {None, previousFile}
            /\ imageFile = IF mem[p].name = "rollback" THEN before[p].previous ELSE mem[p].arg
            /\ container.up => container.image = Resolve(imageFile)

Restored(p) ==
  /\ config = before[p].config /\ imageFile = before[p].image /\ previousFile = before[p].previous
  /\ container.up = before[p].container.up
  /\ container.up => container.image = before[p].container.image

\* A command that ends in its own trap, though not after a PURGE, ...
Ends(p) == pc[p] = "clean lock" /\ pc'[p] = "idle" /\ ~purged

\* ... which found a whole configuration and, when the container runs, one that
\* keeps running and that the configured reference still means.
WellFounded(p) ==
  /\ Whole(before[p].config)
  /\ before[p].container.up => before[p].container.image \in Good \cap {before[p].resolved}

\* An upgrade, a rollback or a renewal that ends is done entirely or has
\* changed nothing ("Failed startup restores the previous image ID"), even when
\* the new image does not run, or a step of a renewal fails or a signal stops it.
\* It answers 1 when it has changed nothing, or when a renewal was stopped once
\* RENEW_ACTIVE=0 had made it final.
\*
\* Excused are the commands that are killed; a renewal in whose trap a command
\* fails, or that a signal stops between RENEW_ACTIVE=1 and RENEW_WAS_RUNNING=;
\* and an upgrade or a rollback that a signal or a failing write stops after its
\* check, that cannot stop a container or start the old one again, or that cannot
\* read the identity of the image it replaces.
AllOrNothing ==
  [][\A p \in Proc :
       Ends(p) /\ WellFounded(p) /\ p \notin excused' /\ mem[p].name \in {"upgrade", "rollback", "renew"}
       => IF mem[p].status = 0 THEN Succeeded(p) ELSE Restored(p) \/ (mem[p].name = "renew" /\ Succeeded(p))]_vars

-----------------------------------------------------------------------------
(* What the script says of a renewal, and a signal or a failure refutes.    *)

\* "certificate renew: renew TLS material transactionally": whatever stops it,
\* a renewal that ends in its own trap is done or undone.
RenewalTransactional ==
  [][\A p \in Proc :
       Ends(p) /\ WellFounded(p) /\ mem[p].name = "renew" => Succeeded(p) \/ Restored(p)]_vars
=============================================================================
