----------------------------- MODULE TuneDetect -----------------------------
(***************************************************************************)
(* internal/tune/detect.go: the profile Detect makes of the machine it     *)
(* runs on, as far as a plan or the operator depends on it.                *)
(*                                                                         *)
(* A machine has its sysctls, the traces fq leaves in it, the CPUs this    *)
(* process may use and its memory cgroup: the path of groups from the root *)
(* to the process's own, each with a limit.  Of these groups a container   *)
(* sees those from .hidden on, and /proc/self/cgroup may show it the whole *)
(* path all the same.  The files a kernel makes of this are external.      *)
(* NotANumber stands for every text that is no number: "max", "" and what  *)
(* a file that is missing reads as.  A uint64 is a number of 0..MaxUint64. *)
(***************************************************************************)
EXTENDS Integers, Sequences, FiniteSets, FiniteSetsExt

CONSTANTS
  MaxUint64, \* 2^64 - 1
  KiB,       \* 1024
  MiB,       \* 1024 * 1024
  NoLimit    \* 2^60, from which on a limit is none

ASSUME DetectAssumption ==
  /\ MaxUint64 \in Nat
  /\ KiB \in Nat \ {0} /\ MiB \in Nat \ {0} /\ NoLimit \in Nat

managedKeys == {"qdisc", "cc", "mtu_probing", "slow_start"}

NotANumber == -1

\* What a machine has; its process is in a group on the path it has been given,
\* and every group of the path, the root included, has a limit.
IsMachine(m) ==
  /\ DOMAIN m = {"sysctl", "protocols", "availableCC", "fqTraces", "root", "writable",
                 "memTotal", "logical", "cpus", "cgroup"}
  /\ DOMAIN m.sysctl = managedKeys /\ m.writable \subseteq managedKeys
  /\ m.memTotal \in Nat \cup {NotANumber}
  /\ m.logical \in Nat \ {0} /\ m.cpus \in SUBSET Nat /\ IsFiniteSet(m.cpus)
  /\ m.cgroup.mode \in {"v1", "v2", "hybrid"} /\ m.cgroup.shown \in BOOLEAN
  /\ m.cgroup.path \in Seq(STRING)
  /\ m.cgroup.hidden \in 0..Len(m.cgroup.path)
  /\ m.cgroup.limit \in [0..Len(m.cgroup.path) -> Int]

-----------------------------------------------------------------------------
(* The files of a kernel.                                                  *)

\* The groups of the process below group i, as seen from there.
Below(cgroup, i) == SubSeq(cgroup.path, i + 1, Len(cgroup.path))

\* /proc/self/cgroup: v1 has a line for each controller, v2 one without any,
\* and a hybrid system both, with the memory in v1.
SelfCgroup(cgroup) ==
  LET path == IF cgroup.shown THEN cgroup.path ELSE Below(cgroup, cgroup.hidden)
      v1 == {[controllers |-> C, path |-> path] : C \in {{"memory"}, {"cpu", "cpuacct"}}}
      v2 == {[controllers |-> {}, path |-> path]}
  IN CASE cgroup.mode = "v1" -> v1 [] cgroup.mode = "v2" -> v2 [] cgroup.mode = "hybrid" -> v1 \cup v2

\* The number in a file of /sys/fs/cgroup, of those on the process's path.
LimitFile(cgroup, file) ==
  LET depth == cgroup.hidden + Len(file.path) IN
  IF /\ file.base = IF cgroup.mode = "v2" THEN "fs/cgroup" ELSE "fs/cgroup/memory"
     /\ file.name = IF cgroup.mode = "v2" THEN "memory.max" ELSE "memory.limit_in_bytes"
     /\ depth <= Len(cgroup.path)
     /\ file.path = SubSeq(cgroup.path, cgroup.hidden + 1, depth)
    THEN cgroup.limit[depth] ELSE NotANumber

\* The ranges of Cpus_allowed_list.
CpuList(S) == {r \in S \X S : /\ r[1]..r[2] \subseteq S /\ r[1] <= r[2]
                              /\ r[1] - 1 \notin S /\ r[2] + 1 \notin S}

-----------------------------------------------------------------------------
(* Detect.                                                                 *)

\* MemTotal in KiB.
visibleMemory(m) ==
  IF m.memTotal # NotANumber /\ m.memTotal <= MaxUint64 \div KiB THEN m.memTotal * KiB ELSE 0

\* Variant: the limit of the group itself.
cgroupLeafPath(base, relative, filename) == {[base |-> base, path |-> relative, name |-> filename]}

\* From the group up to base.
cgroupLimitPaths(base, relative, filename) ==
  {[base |-> base, path |-> SubSeq(relative, 1, n), name |-> filename] : n \in 0..Len(relative)}

Candidates(lines) ==
  (UNION {IF l.controllers = {} THEN cgroupLimitPaths("fs/cgroup", l.path, "memory.max") ELSE {} : l \in lines})
  \cup (UNION {IF "memory" \in l.controllers
                 THEN cgroupLimitPaths("fs/cgroup/memory", l.path, "memory.limit_in_bytes")
                      \cup cgroupLimitPaths("fs/cgroup", l.path, "memory.limit_in_bytes")
                 ELSE {} : l \in lines})
  \cup {[base |-> "fs/cgroup", path |-> <<>>, name |-> "memory.max"],
        [base |-> "fs/cgroup/memory", path |-> <<>>, name |-> "memory.limit_in_bytes"]}

\* The smallest of the candidates that limit anything, 0 if there is none.
cgroupMemoryLimit(m, visible) ==
  LET limits == {n \in {LimitFile(m.cgroup, f) : f \in Candidates(SelfCgroup(m.cgroup))} :
                   n > 0 /\ n < NoLimit /\ (visible > 0 => n < visible)}
  IN IF limits = {} THEN 0 ELSE Min(limits)

EffectiveMemory(m) ==
  LET visible == visibleMemory(m)
      limit == cgroupMemoryLimit(m, visible)
  IN IF limit > 0 /\ (visible = 0 \/ limit < visible) THEN limit ELSE visible

memoryPolicy(bytes) ==
  CASE bytes = 0 -> "unknown"
    [] bytes \in 1..(128 * MiB) -> "ultra-low-memory"
    [] bytes \in (128 * MiB + 1)..(256 * MiB) -> "low-memory"
    [] bytes \in (256 * MiB + 1)..(512 * MiB) -> "conservative"
    [] bytes > 512 * MiB -> "proxy-small"

\* Variant: a range is counted without its last CPU.
cpuListCountOpen(ranges) == MapThenSumSet(LAMBDA r : r[2] - r[1], ranges)

cpuListCount(ranges) == MapThenSumSet(LAMBDA r : r[2] - r[1] + 1, ranges)

effectiveCPUs(m) ==
  LET count == cpuListCount(CpuList(m.cpus))
      effective == IF count > 0 /\ count < m.logical THEN count ELSE m.logical
  IN IF effective < 1 THEN 1 ELSE effective

\* fq in use, loaded, listed or built in.
fqAvailable(m) == m.sysctl["qdisc"] = "fq" \/ m.fqTraces # {}

Detect(m) ==
  [sysctl |-> m.sysctl, tcp |-> m.protocols \cap {"reality", "anytls"} # {},
   bbr |-> "bbr" \in m.availableCC, fq |-> fqAvailable(m),
   writable |-> IF m.root THEN m.writable ELSE {},
   memory |-> EffectiveMemory(m), policy |-> memoryPolicy(EffectiveMemory(m)),
   cpus |-> effectiveCPUs(m)]

-----------------------------------------------------------------------------
(* What the kernel enforces.                                               *)

\* The smallest of the machine's memory, if the integers hold it, and of the
\* limits of the groups this process can see; 0 if nothing is known.
EnforcedMemory(m) ==
  LET limits == {m.cgroup.limit[i] : i \in m.cgroup.hidden..Len(m.cgroup.path)}
      real == {n \in limits : n > 0 /\ n < NoLimit}
              \cup {n \in {m.memTotal * KiB} : n > 0 /\ n <= MaxUint64}
  IN IF real = {} THEN 0 ELSE Min(real)

\* The CPUs this process may use, when its list can be read.
AllowedCPUs(m) == IF m.cpus = {} \/ Cardinality(m.cpus) > m.logical THEN m.logical
                                                                  ELSE Cardinality(m.cpus)
=============================================================================
