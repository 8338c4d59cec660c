# mini-singbox: specifications

TLA+ specifications of mini-singbox, with TLC runs and TLAPS proofs. Paths are
relative to the repository (`src/` in PROJECT.json). The source is the
reference: every definition is a translation of the lines PROJECT.json maps it to.

## 1. The system and its parts

mini-singbox wraps the sing-box core. Most of its own logic keeps *state on a
host* consistent: sysctls, secret files, a service's configuration, binaries.

| Part | State it keeps | Operations | What makes it hard | What makes it correct |
|---|---|---|---|---|
| `internal/tune/manager.go` | kernel sysctls, `baseline.json`, `active.json`, `sysctl.d/90-mini-singbox-tune.conf` | Apply (with deferred recovery), Verify, Rollback | crash or reboot between any two writes, failing and ignored writes, administrators, a second process (no lock) | nothing is written unclaimed; a claim ends only when the original values are back; foreign values survive |
| `internal/tune/plan.go`, `detect.go` | none | Detect, BuildPlan | boundaries: unreadable keys, overflow of the BDP; nested and hidden cgroups | only generic values are replaced, once; the limits shown are the enforced ones |
| `internal/secret/atomic.go` | a directory of files, `.backup` and temporary files | WriteFiles | partial failure in the middle of a set, kills, a second call | the whole set or nothing; no content lost |
| `internal/config` | none | decode, validate, convert | cross-protocol rules | what Validate accepts can be run |
| `internal/app` | the server's directory, through WriteFiles | generate, deliver, renew-certificate, run, check | three commands with checks of their own that must agree with Validate's, and an administrator's edits between them | what is delivered authenticates the server; certificate, key and pins belong together |
| `scripts/mini-singboxctl` | `/etc/mini-singbox`, the service | certificate renewal | traps, failing restores, no lock | old or new configuration, service running |
| `scripts/mini-singbox-containerctl` | state directory, image files, a container, a lock | init, up, upgrade, rollback, renew | traps, kills between files | one image recorded, a way back |
| `scripts/deploy.sh` | binaries, unit, configuration, backups | deploy with rollback | some twenty steps and flags | rollback undoes exactly what was done |
| `scripts/uninstall.sh`, `bootstrap.sh`, `packaging/` | files | remove, fetch, supervise | order | no tuning left behind without its binary |

How they meet: deploy.sh and mini-singboxctl call the binary (`generate`,
`deliver`, `renew-certificate`, `tune apply`, `check`); uninstall.sh calls `tune
rollback` first. Inside the binary, Apply calls Detect and BuildPlan, and
generate, deliver and renew-certificate end in WriteFiles. All communication is
through files, sysctls and exit codes; there is no shared memory except in
`SignalContext`. The hazards of every part, by line, are in PROJECT.json.

## 2. The modules

| Module | Models | Used by |
|---|---|---|
| `TuneLedger` | the abstract promise of `tune`: claims, tuned keys, the boot file | `TuneManager` (refinement) |
| `TuneManager` | `manager.go`, every step of Apply, recoverApply and Rollback | `MCTune`, `TuneManagerProofs` |
| `TuneManagerProofs` | theorems about the files of `TuneManager` | `TuneLedgerProofs` |
| `TuneLedgerProofs` | theorems about its values, and that it implements `TuneLedger` | |
| `TuneDetect` | `detect.go`: memory cgroups, CPU lists, fq, sysctls | `TunePlan` |
| `TunePlan` | `plan.go`, and Plan and Apply without their faults | `MCPlan`, `TunePlanProofs` |
| `TunePlanProofs` | theorems about the arithmetic, the plan, and the memory and CPUs it shows | |
| `AtomicFiles` | `secret/atomic.go`, every step of WriteFiles and its rollback | `MCFiles`, `AtomicFilesProofs` |
| `AtomicFilesProofs` | theorems about `AtomicFiles` | |
| `ServerConfig` | `internal/config`: decoding, Validate, Convert, and whether the box can start | `Delivery` |
| `Delivery` | `internal/app`: generate, deliver, renew-certificate as mini-singboxctl installs it, and an administrator | `MCDelivery`, `DeliveryProofs` |
| `DeliveryProofs` | theorems about `Delivery` and `ServerConfig` | |
| `Replacement` | the abstract promise of a certificate renewal: a delivery, the next one, what is served | `RenewCertificate` (refinement) |
| `RenewCertificate` | `mini-singboxctl certificate renew` with its EXIT trap and the service | `MCRenew`, `RenewCertificateProofs` |
| `RenewCertificateProofs` | theorems about `RenewCertificate`, and that it implements `Replacement` | |
| `ContainerControl` | `mini-singbox-containerctl`: every command that changes something, with lock and EXIT trap | `MCContainer`, `ContainerControlProofs` |
| `ContainerControlProofs` | theorems about its lock, its configuration, its way back and its end | |
| `Deploy` | `deploy.sh` with its rollback, composed with `uninstall.sh` | `MCDeploy`, `DeployProofs` |
| `DeployProofs` | theorems about `Deploy` | |
| `MCTune`, `MCPlan`, `MCFiles`, `MCRenew`, `MCDelivery`, `MCContainer`, `MCDeploy` | instances for TLC | the `.cfg` files |

### TuneManager

State: `kernel` is the running value of each key; `baseline`, `active` and
`sfile` are the three files, each with "none", and "torn" for a baseline that
cannot be decoded. A process has the locals of its Go function: `base`
(baselineState), `want` (the keys of activeState.Values), `todo` (what is left of
the current loop), `done` (result.Changed), `bad` (failures or drift not empty),
and `pc`, the place between two system calls. The values a key can be set to are
fixed by `Target` because BuildPlan fixes them; so active.Values is a set of
keys, and the hash of the managed file is that set too.

| Code | Actions |
|---|---|
| Apply up to the baseline (27-117) | BeginApply, LoadBaseline, LoadActive, Inspect, Create |
| write-ahead record, writes, read-backs, file, commit (119-162) | Record, Write, ReadBack, Persist, Commit |
| recoverApply (264-296) | UndoRead, UndoWrite, UndoFile, Drop |
| Rollback (209-262) | BeginRollback, RollbackBaseline, RestoreRead, RestoreWrite, RestoreCheck, RestoreFile, Release, Archive |
| outside the process | Crash, Reboot, SetSysctl, EditFile |

A command that returns before its first write (dry run, container, no root,
nothing to set, nothing to roll back) changes nothing and is a stuttering step.
A failing call consumes a fault, and so does a kill; an error before a file is
touched is the same state as a kill there. `tuned` and `raced` are history
variables, read by properties only: keys whose value is the tool's and differs
from the original, and keys changed from outside since the command that runs last
read them. No file of the kernel compares and sets, so a change between that read and
the write that follows cannot be seen by any code; `ExternalPreserved`,
`CommitVerified` and `ReleasedExactly` leave this window out, and nothing more.

`SilentRecovery` says whether the kernel may ignore a recovery write without an
error. The code guards against it in Apply and Rollback but not in recoverApply,
so the safety run assumes it FALSE; with TRUE, TLC refutes `ReleasedExactly`.

### TuneLedger

A claim (`owned`) is made before a key is tuned or the file written, and given
up only when `residue` and `persisted` are empty. `TuneManager` implements it
with `residue <- tuned`, `persisted <- sfile.keys`, `owned <- active.keys`: the
run tune_safety checks `Ledger!Spec`. This is where crash consistency is: the
recovery that forgets a key, the record written too late and the record dropped
too early are all steps the ledger does not have.

### TunePlan

The three planners with their branches in the code's order; KEEP, SET, SKIP,
MANUAL and UNSUPPORTED with the proposed value. It plans on the profile that
`TuneDetect` makes of a machine, so that the two are checked as one. `SetsExactlyGeneric` is the
assumption `TuneManager.BeginApply` makes about its plan. What is generic is `Generic`
(for tcp_mtu_probing whatever is not a valid setting). A uint64 is an integer up
to `MaxUint64`, products are taken modulo `MaxUint64 + 1`.

### TuneDetect

A machine (`IsMachine`) has its groups, with a limit each, and what of them a
container sees. The files under /proc and /sys that the kernel makes of it are external; the
code is what it reads, and in which order it tries the paths. `ShowsEnforcedMemory`
and `ShowsAllowedCPUs` compare the result with the limits of the machine. Left out by name (`Displaced`)
is a container on cgroup v1 that is shown the path from outside: the walk never
tries the group's own limit there.

### AtomicFiles

A file's content is who wrote it, so that mixing two sets is visible. `fresh`,
`moved` and `put` are stagedFile's `temp`, `hadTarget` and `installed`. The
loops go through the files in order, the rollback in reverse. Lstat (`Occupied`)
and rename are separate steps, so two calls can come between them. `Forced` are
the calls with force.

### RenewCertificate

`disk` is CONFIG_DIR and `backup` RENEW_BACKUP, file by file: "old", "new", "torn"
or none; `switched` and `committed` are the script's flags, `pc` its next command.
`up`, `loaded` and `wanted` are the service: whether it runs, with which
configuration, and whether systemd or OpenRC restarts it after a crash (Respawn).

| Code | Actions |
|---|---|
| renew_certificate (229-297) | Begin, Generate, Copy |
| the switch (298-314) | Switch, Stop, Install |
| looking at it (315-323) | Check, Start, Settle, Show, Commit, Uncover |
| `set -e`, traps | Abort |
| renew_cleanup (38-58) | Decide, CleanStop, Remove, Restore, Restart, CleanWork |
| outside the script | Kill, Die, Respawn |

Under `set -e` a command that fails without an effect and a signal between two
commands do the same: the EXIT trap runs. Both are Abort. `install` may leave a
half written file, which is a disjunct of its own; so is every failure inside
the trap, where nothing catches it. `RecoveryFails` says whether those happen.
The flags are set by commands of their own, so that a signal can come between
one of them and its neighbours.

### Replacement

A delivery is replaced by the next one in one step, or given up; a service is started
with the one or the other until then, and with the one it was left with afterwards.
`RenewCertificate` implements it: `delivery` is `Recovered` (the backup while the
renewal can be undone, else what is on disk), `next` is `New`, `served` is what a running
service has loaded, and it is over when it was committed or has ended unkilled. So the
file-by-file changes are stutters, and the refinement says more than the run's
invariants: that the way back is never lost or changed before the commit, also for an
operator after a kill, and that no service runs a mixture or, in the end, the wrong
delivery. An external runtime that ran on beyond the guard would break only this.

### ServerConfig and Delivery

A file of the server's directory has a kind, a mode and data; a generation number
stands for whatever a command makes at random, so that a pin, a key and a
certificate of different generations do not match. `Validate` is the conjunction
of the rules in the order of the code, per protocol, with the earlier protocols a
credential or a port must differ from; `Accepted` is what check and run load. Each
command is one step of `Delivery`, because the modules for its parts show that:
`AtomicFiles` for what WriteFiles replaces, `RenewCertificate` for what a failed
renewal puts back. The properties relate the three sets of rules: those of the
arguments of generate, those of Validate, and those of sing-box, which needs a free
port for each listener and a certificate with its key (`HasIdentity`). `AcceptedStarts`
also compares every inbound with the configuration it was converted from
(`AsConfigured`), because Convert narrows ports to 16 bits.

An administrator edits fields (`Edit`), replaces files (`Spoil`) or has certificates
of his own (`Own`); `IsFile` says what can be found under a name. It has one
condition on the administrator that the code does not check: no key and no
certificate is kept under one of the names that deliver writes. The path of a key
is free, and a forced deliver to the server's directory would replace such a file.

### ContainerControl

Every command is a shell script with a program counter of its own: `Begin`,
`Lock`, then its steps, then `cleanup`. `Call` and `Return` are `start_container`,
called from five places that treat its status differently; inside it `set -e` is
off wherever its status is tested. An image is an identity, and a tag is what a pull makes
of it, so `Publish` and `SwitchPull` can move a tag under a running container.
`imageFile` and `previousFile` are written by two commands.

| Code | Actions |
|---|---|
| start_container, stop_and_remove (154-208) | StartCheck, StartRun, StartObserve |
| init, up, down, uninstall (210-252, 457-482) | generate_config, WriteImage, Up, Down, Forget |
| switch_image, rollback_image (333-374) | Switch ... SwitchImage |
| renew_certificate (376-422) | Renew, RenewCopy, RenewActive ... RenewWas, RenewStop ... RenewDone, RenewPrinted |
| cleanup (436-449) | CleanStop ... CleanLock |
| outside | Abort (signals, set -e), Kill, Unlock, Publish, Prune |

The assignments that arm the trap of a renewal (392-396) are steps of their own
(`mem[p].set` has those that are done), and so is the one that disarms it (418): a
signal can come between any two. With RENEW_BACKUP still empty the trap copies
nothing back. `Switch` remembers the identity of the old image or, when the inspect
fails, the reference, as line 339 does.

Histories: `before` (what a command found), `excused` (commands in which
something failed that the script does not undo), `stale`, `lost`, `purged`, `origin`
and `astray` for the cases that `LockReleased`, `Recoverable` and `WayBack` name.
`lost`: a trap has emptied the configuration and removed the work directory without
having copied the backup back. `astray`: a pull has moved the very tag that
IMAGE_FILE names, and the identity of the old image is not recorded yet. `excused`
is spelled out at `AllOrNothing`; what it hides of a renewal, against the script's own
words, is what `container_renewal` shows.

`uninstall` with PURGE=1 removes the whole state directory, its own lock included,
before its trap has run: a command may enter while the purge ends, and the purge's
trap then removes that command's lock. Two switches that overlap in this way can
leave an image that neither file names (it takes five commands), so `Exclusive`,
`WayBack` and `AllOrNothing` say what holds until the first PURGE (`purged`).

### Deploy

The parts of an installation are the binary, the tools, the unit, the external
runner, `config.json` with its keys, the delivery files and
`deployment-info.txt`; each is of the deployment that wrote it. `var` holds the
shell variables: which parts were saved (the HAD_ flags), and the flags that tell
the rollback what was changed. A flag that the script sets after the change it
stands for is a step of its own, so that a signal can come between; and
`deployment-info.txt` is torn for a step, because its install can fail half way.
`Uninstall` runs on the same state. `excused` is the set of parts (or the service) that
the end of the deployment does not answer for: `Late` adds those whose flag was
not set yet when it stopped, a failed stop the service, a kill everything.

| Code | Actions |
|---|---|
| what to do, backup, staging (416-437, 1253-1311) | Begin, Backup, Stage |
| switching the files (1311-1408) | Stop, Move, HadBinary, Switch, Tools, ConfigRemove, Install, Installed, Info, InfoWritten, InfoRewritten |
| running it (1410-1570) | Enable, Start, Tune, PruneBackups, Retired, Retire, Succeed |
| rollback (960-1039) | UndoStop, UndoBinary, UndoTools, UndoConfig, UndoFiles, UndoService |
| uninstall.sh | Uninstall, Untune, UnService, UnFiles |
| outside | Abort, Kill, StopFails, Supervise |

## 3. Runs

| Run | Bounds | Shows |
|---|---|---|
| `tune_safety` | 2 keys, 3 values, 1 process, 3 faults, 2 outside changes, 2 boot settings | the type invariant, baseline before record, immutability, verified commit, exact release, protection of foreign values, the ledger, and under `FairSpec` `EventuallyReleased` |
| `tune_plan` | every value the comparisons tell apart, all capabilities; cgroups to a depth of two under v1, v2 and both, visible or hidden; 10-bit integers | plan, BDP, convergence, and the memory and CPUs shown |
| `secret_files` | 3 files, 3 calls in turn (2 forced), every set of old files, 2 faults | whole set or nothing, nothing lost |
| `renewal` | 3 renewed files and 1 kept, both kinds of runtime, every old delivery, 3 faults | `Recoverable`, whole or put back, nothing replaced under a running service, and `Replacement` |
| `delivery` | 2 generations, 1 edit or replaced file, 36 command lines of generate, 7 of deliver, 27 edits and 8 replaced files | delivery, validation and renewal agree |
| `container` | 2 commands at once, 3 in all, 2 tags, 3 images (1 does not run), 2 faults, 2 changes outside; 3 initial states | exclusion, recovery, the way back, all or nothing |
| `deploy` | 2 runs of the scripts, 2 of 4 tools, 1 backup kept, 2 times, 3 faults; fresh, older and migrating hosts | undone or complete, nothing lost, tuning outlived |
| `tune_race` (violation) | 1 key, 2 processes, no fault | finding 1 |
| `tune_stale_baseline` (violation) | a kernel with one key unreadable, then one without | finding 2 |
| `renewal_lost_backup` (violation) | 2 faults, the second in the cleanup | finding 3 |
| `container_renewal` (violation) | 1 command, 1 signal | finding 4 |
| `deploy_interrupted` (violation) | 1 deployment, 1 signal | finding 5 |

Why the bounds are enough. Two keys give a first and a last of every loop, a
transaction half done, and reversed recovery; they differ in their generic
values, so a plan can cover one or both. Three values are a generic one, another
and the target. Three faults allow a failed write, a failed recovery and a crash
or reboot after it, and then one more full command without faults; two outside
changes allow one to a key and one to the file. Three files of a set have one
between the first and the last, and a third call meets what a killed forced call
left behind. The ten bits of the BDP are chosen so that 2 * 4 * 125 fits and
3 * 3 * 125 does not; the theorem has any width.

A renewal needs a required file, an optional one that may come or go, and one it
leaves alone; the second and third fault meet the cleanup of the first, and a crash of
the service meets the look at it.

For `delivery`, one usual command line is varied in one argument at a time, at
every value a check compares it with; two generations are needed for anything of
an old set to meet a new one, and the edit comes before, between or after. For
`container`, three commands let an upgrade, a rollback and a third meet, two of
them at once; the three initial states put runs of more commands within reach:
the third is an account whose last upgrade failed. For `deploy`, the second run
meets what the first one, killed or undone or complete, has left, and the second
and third fault come in its rollback or in the next run; two backups, of which one
is kept, are the least that pruning can choose from. A third run
(MaxRun = 3, MaxFault = 2; nine million states) also passes, in three minutes.

`CHECK_DEADLOCK FALSE` is set for the renewal, which ends, for the commands of
`Delivery`, `ContainerControl` and `Deploy`, which are bounded in number, and for the tuning and the file runs: a host on which
no key can be set and no command runs, and a directory all of whose calls have
returned, do stop. `TunePlan` can always plan again and is checked for deadlock.

Every property has a variant of an action (a comment marks it "Variant") that a
plausible mistake would make of the code and that violates it; PROJECT.json
"mutants" pairs them.

### Fairness

`FairSpec` has weak fairness for the steps of a running command: it is one
goroutine that never blocks on another, and the scheduler runs it. It has strong
fairness for the *start* of a rollback: this is the operator who tries again,
and the property is about that operator. Faults, crashes, reboots and outside
changes have no fairness and are bounded, so that they end. `EventuallyReleased`
allows what the code documents: drift, and a file that is not the tool's, stand in
the way until somebody removes them.

## 4. Proofs

A theorem holds for every value of the constants that the ASSUMEs allow: any
number of keys, files, tools, images, commands, faults. A hypothesis beyond them
is in its statement; TLC refutes the property without it, for `Sequential` and
`Readable` in a run of section 3. Every invariant below was first checked by TLC.

### `TuneManagerProofs`, `TuneLedgerProofs`

- `TypeCorrect`: `TypeOK`, for any set of processes. Its inductive invariant is
  `Locals /\ Shared`: `TypeOK` and the fact that a running command works for at
  least one key, without which a record could be written with no keys.
- `SequentialActiveHasBaseline`, `SequentialBaselineImmutable`, for one process at a time
  (`Sequential`; `tune_race` refutes the first for two, and TLC each of the others in this
  list). `BaselineInv` adds that a baseline a command has in memory is still on disk, that
  it has one wherever it relies on it, and that the archive is reached only with the
  record gone.
- `SequentialCoversActive`, when every key can be read at every boot (`Readable`;
  without it `tune_stale_baseline`). By `ReadableInv`, the baseline of a command has a
  value for every key.
- `SequentialCommitVerified`: `OwnRecord` says that the record on disk is the one
  this command wrote or read, and `Verified` that each key its loop has passed was read
  back, or changed from outside since that read. The property alone says nothing of the
  steps before the commit, where it is decided.
- `SequentialExternalPreserved`, by the same invariant: the key a recovery or a
  rollback is about to write had the managed value at its read, which is the drift
  check of lines 228-236 and 270-273, or was changed from outside after it.
- `SequentialReleasedExactly` and `SequentialImplementsLedger`, when keys can be read
  and no recovery write fails silently (`FaithfulKernel`; see section 5).
  `Untouched` says which keys have their original value at each place, from none
  changed over `done` and back. `Residue` says that what is tuned is claimed, and that
  the boot file holds no unclaimed key; it is what the ledger sees. The refinement has a
  step for `Init` and one for each action.

### `TunePlanProofs`

- `BDPAlwaysExact`, for integers of any width: `DivisionTwice` is the fact behind it,
  `b > (M \div r) \div 125` exactly if `b * r * 125 > M`.
- `AlwaysSetsExactlyGeneric` and `AlwaysConverges`, for every machine: a lemma for each
  of the three planners says when it proposes and what.
- `AlwaysShowsEnforcedMemory`, for cgroups of any depth: one lemma for each layout
  says which limits its files show, and the minimum of these is compared with the
  limits of the groups that enclose the process.
- `AlwaysShowsAllowedCPUs`, for any set of CPUs: the code adds up the lengths of the ranges
  the kernel lists. The sum is a fold, whose function is chosen by an equation;
  `MembersSum` says that the number of members of the first i ranges solves this equation, because
  they are disjoint, and `SumUnique` that nothing else does: two solutions would differ
  first at some i, and there the equation makes them equal.

### `AtomicFilesProofs`

- `TypeCorrect`, for calls that overlap too. `Staged` says what a call remembers of
  its files at each place.
- `SequentialNothingLost` and `SequentialAllOrNothing`, for calls in turn (`~Overlap`).
  `Tracks` ties each file of the running call to what the call remembers: before its
  turn it is as it was found, and `fresh`, `moved` and `put` tell where its old
  content is, so that the rollback in reverse finds it. Neither property says this of
  the middle of a loop.

### `DeliveryProofs`

- `TypeCorrect`, with `Directory`: whatever is under a name is what can be there.
- `AlwaysAcceptedStarts`: of any configuration at all, from Validate's rules to those of
  sing-box: the ports survive the 16 bits of Convert, no two listeners meet, and each
  inbound has a certificate and a key that belong together.
- `AlwaysGeneratedAccepted`: from the checks of generate's arguments to Validate's.
- `AlwaysDeliveredWorks`, `RenewalAlwaysKeepsClients`, `RenewalAlwaysRepeatsDelivery`.
  The inductive invariant is `Typed /\ Delivers`: the property, and that a renewal can
  repeat the delivery that client-info.json tells of (`Repeats`), without which the
  property does not survive a renewal.

### `RenewCertificateProofs`

- `TypeCorrect`, without a hypothesis.
- `AlwaysRecoverable`, `EndsRenewedOrRestored`, when the cleanup's own commands succeed
  (`~RecoveryFails`; TLC refutes these and the next three without it, and `renewal_lost_backup`
  shows why). `RenewInv` says what each
  place in the script relies on: the backup is old from the copy to the end of the
  restore, the files a loop has passed are as it leaves them, and in the trap the two
  flags tell which of these is so.
- `AlwaysServesWhatIsInstalled` and `AlwaysSwitchedWhileStopped`, under the same
  hypothesis: `ServiceInv` says at which places a managed service serves what is
  installed, and at which it is stopped and kept stopped.
- `AlwaysImplementsReplacement`, under the same hypothesis, from these two and two more
  invariants. By `UndoInv` the files or the backup are the old ones until the commit, and
  `Recovered` is the new delivery from there on (`Undoable`), which the restore
  half done would refute of `disk`. By `RunsInv` the files are whole whenever a service runs
  or may be restarted, and no external one runs beyond `Begin`. The step lemma maps Commit to
  Replace, a refusal and the end of an undone renewal to GiveUp, a start and a respawn to
  Serve, stops and crashes to Lose, and all other steps to stutters.

### `ContainerControlProofs`

- `AlwaysExclusive`, `AlwaysReleased`. Five lemmas reduce every step of a command
  to what it does to the lock: it goes on, it is gone and leaves the lock, it releases
  it. `LockHeld`, which says that a command inside the script holds the lock *and* is
  alone, is inductive; `Exclusive` is not, because nothing in it ties the lock's
  directory to the command that made it.
- `TypeCorrect`, from which the shape of what each command remembers follows.
- `RenewalRecoverable`, for commands that overlap too: `RecoveryInv` says that a
  renewal is marked active before it touches a file and has its backup until the trap has
  put it back (`Ordered` gives the order of the assignments), and that a configuration is
  in pieces only under such a renewal.
- `AlwaysWayBack`: `OriginInv` adds what a command in the middle of a switch remembers: the image
  that the configured reference meant when it was read, unless the pull has moved it
  (`astray`), and that PREVIOUS_IMAGE_FILE is written first.
- `AlwaysAllOrNothing`: `WorkInv` says, for each place of a switch (`Switching`), of a
  renewal and its trap (`Renewing`), and of the end of the trap (`Ending`), how the files, the
  configuration and the container differ from what the command found. It holds of the command
  at work only, and needs `LockHeld`: a command's place says nothing of the files if another
  can be at work on them. Three more conjuncts serve single steps: `Counted` (no generation is
  beyond the last, so that a renewed configuration is not the old one), `InUse` (an
  image in use, or that a tag names, is local, so that the way back can start it and its identity can be read) and `Waiting` (a command
  that waits for the lock has begun no renewal).

### `DeployProofs`

- `TypeCorrect`, `AlwaysNothingLost`, `AlwaysTunedHasTool`, for any number of runs of
  the two scripts. `Inv` has a part for each thing they rely on: `Order` (what the
  script's place says of its variables), `Fresh` (a deployment has a version of its own),
  `SavedInv` (everything it will touch but the binary is in its backup), `BinaryInv` (where
  the old binary is at each place: finding 5 is the one place without one) and
  `TunedInv` (tuning begins only with a binary in place). `NothingLost` is one of the
  conjuncts: `SavedInv` and `BinaryInv` speak of the deployment at work only, and it says
  what remains of the last one.
- `AlwaysDeployedOrRestored`: `EndInv` adds, of the deployment at work, which parts are the
  new ones at each place (`Completing`), that what has been changed is what the rollback
  will put back (`Reverting`), what a rollback has put back already (`Undone`), and the
  same for the service and its start at boot (`Running`); `Flags` says what the
  script's variables tell of what was found. Each of them speaks of the parts that
  `excused` does not name, so the theorem says of a deployment whose record or binary is
  excused that everything else is as it was.

### Assumptions

The ASSUMEs of the modules are types of parameters, but for these: `KeyAssumption` (the order of
keys is injective, and no target is generic, as in plan.go); `MachineAssumption` (a
machine is what `IsMachine` says: every group on a path has a limit, hidden groups
are a part of the path, and it has a CPU at least and finitely many that are allowed); `ImageAssumption` (an image, a tag and no image at all are
different things, and the registry has an image for every tag); `DeployAssumption` (no
tool has the name of another part); `DeliveryAssumption` (`IsFile` of what an
administrator puts in the directory). TLC evaluates all of them.

### Only model-checked

`EventuallyReleased`: liveness under fairness is out of the prover's reach. Every other
property of the passing runs has its theorem.

## 5. Findings

1. Apply and Rollback at once leave a record without a baseline (`tune_race`).
2. A reused baseline may lack a key the new transaction sets (`tune_stale_baseline`).
3. A renewal whose restore fails names its backup and removes it (`renewal_lost_backup`).
4. A signal between the assignments that arm the trap of `certificate renew` in
   mini-singbox-containerctl loses the configuration (`container_renewal`).
5. A signal while a deployment stops the old service makes the rollback remove the
   only copy of the old binary (`deploy_interrupted`): the flag that turns the
   rollback on is set before the binary is saved.

PROJECT.json quotes the documentation each of them disagrees with.

Other gaps that the models contain, and that the properties leave out by name:

- The recovery does not read back what it restored (manager.go:274), so a write that
  the kernel ignores goes unnoticed (`SilentRecovery`; `ReleasedExactly`).
- A copy back that fails half way is ignored in mini-singbox-containerctl too
  (443), and the backup removed (446) (`lost`; `Recoverable`).
- An upgrade that a signal or a failing command stops after the old container leaves
  none running, for the trap knows only of renewals (439) (`excused`; `AllOrNothing`).
- A deployment that fails while it installs deployment-info.txt (deploy.sh:1406) does
  not restore it in a configuration that is kept: the flag is set after the change
  (1408) (`excused`; `DeployedOrRestored`).
- A deployment that is interrupted after it has tuned (1546) is rolled back without its
  tuning; on a fresh host the program that could undo it is removed (`orphaned`;
  `TunedHasTool`).
- A service that survives its stop goes on with the old binary (1313)
  (`excused`; `DeployedOrRestored`).

## 6. Not modelled, and limits

- Formatting, logging, flag parsing, links and QR codes: no state. Of certificates
  and random numbers only that they are new, and what belongs together.
- The deployer up to its backup: detection, probes, downloads and their checks
  change nothing that stays. Its preparation of new files in a work directory is
  part of the choice in `Begin`, its success part of `Backup` being reached.
- Two of `deploy.sh`, `mini-singboxctl` and `uninstall.sh` at the same time: there is
  no lock, and nothing promises one. Two overlapping calls of WriteFiles:
  `NothingLost` fails at once when `Overlap` is TRUE, and is not claimed.
- `signals.go`, `bootstrap.sh`, the service wrappers: see PROJECT.json.
- Durability of renames: `atomicWrite` syncs the file and not its directory. A
  crash is a killed process or an orderly reboot, not a power failure.
- Ownership, modes, links and sizes of state files: their refusals change nothing.
- Detect's reads are one step; so are the reads of the reuse check, of
  WriteFiles' opening check and of its verification.
- sing-box itself, service managers, container engines: external.

## 7. Plan

Every part of the system that keeps state has its module, and every safety property, action
property and refinement a passing run checks has its theorem. What is left are lemmas that
only the longest proofs use (`ContainerControlProofs`, `DeployProofs`) and that their
invariants could share, and `EventuallyReleased`, which stays with TLC.

At most eight modules hold theorems, and none of them, nor the modules they are
about, declares a RECURSIVE operator.
