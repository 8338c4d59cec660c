------------------------------ MODULE TunePlan ------------------------------
(***************************************************************************)
(* The policy of internal/tune/plan.go: what BuildPlan proposes for the    *)
(* profile Detect found, and which of it Apply requests.  TuneManager      *)
(* takes from here that a command sets exactly the settable keys whose     *)
(* current value is generic (its constants Generic and Target).            *)
(*                                                                         *)
(* A machine has the value of every key ("" when it cannot be read), the   *)
(* registered congestion controls, what fq left in it, the keys writable   *)
(* for root and whether this process is, the protocols of the              *)
(* configuration, and memory and CPUs as TuneDetect says.  Reasons, risks  *)
(* and the texts of a plan are left out.                                   *)
(***************************************************************************)
EXTENDS TuneDetect

CONSTANTS
  Machines,   \* the machines
  Bandwidths, \* the --bandwidth arguments, in Mbit/s
  RTTs        \* the --rtt arguments, in ms

ASSUME PlanAssumption ==
  /\ Bandwidths \subseteq 0..MaxUint64
  /\ RTTs \subseteq 0..MaxUint64

ASSUME MachineAssumption == \A m \in Machines : IsMachine(m)

VARIABLES
  machine, \* the machine
  inputs,  \* the operator's bandwidth and RTT
  plan     \* the plan last built: its profile, actions and BDP, or an error

vars == <<machine, inputs, plan>>

Inputs == [bandwidth : Bandwidths, rtt : RTTs]

NoPlan   == [error |-> FALSE, bdp |-> 0, actions |-> <<>>, profile |-> <<>>]
Overflow == [error |-> TRUE, bdp |-> 0, actions |-> <<>>, profile |-> <<>>]

-----------------------------------------------------------------------------
(* BuildPlan.                                                              *)

Keep(v)     == [action |-> "KEEP", proposed |-> v]
Set(v)      == [action |-> "SET", proposed |-> v]
Skip(v)     == [action |-> "SKIP", proposed |-> v]
Manual(v)   == [action |-> "MANUAL", proposed |-> v]
unsupported(v) == [action |-> "UNSUPPORTED", proposed |-> v]

planQdisc(m) ==
  LET current == m.sysctl["qdisc"] IN
  CASE current = "fq" -> Keep("fq")
    [] current = "" -> unsupported("fq")
    [] current \notin {"fq", "", "pfifo_fast", "fq_codel"} -> Keep(current)
    [] current \in {"pfifo_fast", "fq_codel"} ->
         IF ~m.fq THEN Manual("fq")
         ELSE IF "qdisc" \notin m.writable THEN unsupported("fq")
         ELSE Set("fq")

\* Variant: every algorithm but bbr counts as replaceable.
planAnyCongestionControl(m) ==
  LET current == m.sysctl["cc"] IN
  CASE current = "bbr" -> Keep("bbr")
    [] current # "bbr" /\ ~m.bbr -> Skip("bbr")
    [] current # "bbr" /\ m.bbr ->
         IF current = "" \/ "cc" \notin m.writable THEN unsupported("bbr") ELSE Set("bbr")

planCongestionControl(m) ==
  LET current == m.sysctl["cc"] IN
  CASE current = "bbr" -> Keep("bbr")
    [] current # "bbr" /\ ~m.bbr -> Skip("bbr")
    [] current # "bbr" /\ m.bbr ->
         IF current = "" THEN unsupported("bbr")
         ELSE IF current \notin {"cubic", "reno"} THEN Keep(current)
         ELSE IF "cc" \notin m.writable THEN unsupported("bbr")
         ELSE Set("bbr")

\* Variant: only mode 2 counts as enabled.
planMTUProbingAgain(m) ==
  LET current == m.sysctl["mtu_probing"] IN
  CASE current = "2" -> Keep(current)
    [] current # "2" -> IF current = "" \/ "mtu_probing" \notin m.writable
                          THEN unsupported("1") ELSE Set("1")

planMTUProbing(m) ==
  LET current == m.sysctl["mtu_probing"] IN
  CASE current \in {"1", "2"} -> Keep(current)
    [] current \notin {"1", "2"} ->
         IF current = "" \/ "mtu_probing" \notin m.writable THEN unsupported("1") ELSE Set("1")

\* Variant: the product of the inputs is checked, the factor 125 forgotten.
bdpOverflowsUnscaled(in) ==
  /\ in.bandwidth > 0 /\ in.rtt > 0
  /\ in.bandwidth > MaxUint64 \div in.rtt

\* The check of BuildPlan, in the integer divisions of uint64.
bdpOverflows(in) ==
  /\ in.bandwidth > 0 /\ in.rtt > 0
  /\ in.bandwidth > (MaxUint64 \div in.rtt) \div 125

\* The product as uint64 computes it.
bdpBytes(in) == (in.bandwidth * in.rtt * 125) % (MaxUint64 + 1)

\* The plan for a profile m.
BuildPlan(m, in) ==
  IF bdpOverflows(in) THEN Overflow
  ELSE [error |-> FALSE, bdp |-> bdpBytes(in), profile |-> m, actions |->
         IF ~m.tcp THEN [k \in managedKeys |-> Skip("")]
         ELSE [k \in managedKeys |->
                CASE k = "qdisc" -> planQdisc(m)
                  [] k = "cc" -> planCongestionControl(m)
                  [] k = "mtu_probing" -> planMTUProbing(m)
                  [] k = "slow_start" -> Keep("")]]

\* What Apply requests: the SET actions of high confidence, which all are.
Requested(pl) ==
  {k \in DOMAIN pl.actions : pl.actions[k].action = "SET"}

-----------------------------------------------------------------------------
Init ==
  /\ machine \in Machines
  /\ inputs \in Inputs
  /\ plan = NoPlan

Plan ==
  /\ plan' = BuildPlan(Detect(machine), inputs)
  /\ UNCHANGED <<machine, inputs>>

\* An Apply that succeeds; TuneManager has the others.
Apply ==
  /\ Requested(plan) # {}
  /\ machine' = [machine EXCEPT !.sysctl =
                   [k \in managedKeys |-> IF k \in Requested(plan)
                                          THEN plan.actions[k].proposed ELSE @[k]]]
  /\ plan' = NoPlan
  /\ UNCHANGED inputs

Next == Plan \/ Apply

Spec == Init /\ [][Next]_vars

-----------------------------------------------------------------------------
(* Properties.                                                             *)

\* The values that are nobody's choice, of the keys TuneManager's constant has.
Generic(k, v) == CASE k = "qdisc" -> v \in {"pfifo_fast", "fq_codel"}
                   [] k = "cc" -> v \in {"cubic", "reno"}
                   [] k = "mtu_probing" -> v \notin {"", "1", "2"}
                   [] k = "slow_start" -> FALSE

Target == [k \in managedKeys |->
             CASE k = "qdisc" -> "fq" [] k = "cc" -> "bbr"
               [] k = "mtu_probing" -> "1" [] k = "slow_start" -> ""]

\* The keys this process may change to a value this kernel knows.
Able(m) == {k \in m.writable : /\ m.root
                               /\ k = "qdisc" => m.fqTraces # {}
                               /\ k = "cc" => "bbr" \in m.availableCC}

\* A TCP protocol is served.
ServesTCP(m) == "reality" \in m.protocols \/ "anytls" \in m.protocols

\* A plan sets exactly the generic values it can improve, to their targets, for
\* TCP workloads only: what an administrator chose stays (planQdisc,
\* planCongestionControl, planMTUProbing), and TuneManager's BeginApply is right.
SetsExactlyGeneric ==
  plan \notin {NoPlan, Overflow} =>
    /\ Requested(plan) = {k \in Able(machine) : ServesTCP(machine) /\ Generic(k, machine.sysctl[k])}
    /\ \A k \in Requested(plan) : plan.actions[k].proposed = Target[k]

\* A plan that was applied leaves nothing to set: a second Apply, of the same
\* workload on the same machine, requests no key.
Converges == [][Apply => Requested(BuildPlan(Detect(machine'), inputs)) = {}]_vars

\* BuildPlan's BDP is the exact product of bandwidth, RTT and 125, and the
\* inputs are refused exactly when that product does not fit in a uint64.
BDPExact ==
  plan # NoPlan =>
    LET product == inputs.bandwidth * inputs.rtt * 125 IN
    IF plan.error THEN product > MaxUint64 ELSE plan.bdp = product

\* A container with its own groups, whose /proc shows their path from outside:
\* the code cannot find these (a cgroup v1 without a namespace).
Displaced(cgroup) == cgroup.shown /\ cgroup.hidden \in 1..(Len(cgroup.path) - 1)

\* But for that, the operator is shown the memory that the kernel will really
\* give the service, in every layout of cgroups and inside every container
\* (cgroupMemoryLimit, visibleMemory).
ShowsEnforcedMemory ==
  plan \notin {NoPlan, Overflow} /\ ~Displaced(machine.cgroup)
    => plan.profile.memory = EnforcedMemory(machine)

\* And the number of CPUs it may run on, as far as that is known (effectiveCPUs).
ShowsAllowedCPUs ==
  plan \notin {NoPlan, Overflow} => plan.profile.cpus = AllowedCPUs(machine)
=============================================================================
