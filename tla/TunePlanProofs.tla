--------------------------- MODULE TunePlanProofs ---------------------------
(***************************************************************************)
(* BuildPlan's arithmetic, for every width of its integers and all inputs; *)
(* what a plan sets, on every machine; the memory that it shows, in every  *)
(* layout of memory cgroups, and the CPUs, for every list of them.         *)
(*                                                                         *)
(* Each of the last three is a lemma about Detect and BuildPlan            *)
(* (BuildPlanSets, MemoryEnforced, CPUsAllowed), made a theorem by         *)
(* PlanInv: a plan is the one BuildPlan makes for the machine as it is,    *)
(* and Apply leaves a machine.                                             *)
(***************************************************************************)
EXTENDS TunePlan, FiniteSetTheorems, SequenceTheorems, WellFoundedInduction, TLAPS

LEMMA Monotone ==
  ASSUME NEW x \in Nat, NEW y \in Nat, NEW z \in Nat, x <= y
  PROVE  x * z <= y * z
BY SMTT(30)

\* Two divisions one after the other decide whether a product is too large.
LEMMA DivisionTwice ==
  ASSUME NEW M \in Nat, NEW b \in Nat, NEW r \in Nat \ {0}
  PROVE  b > (M \div r) \div 125 <=> b * r * 125 > M
<1> DEFINE q == M \div r
           s == q \div 125
<1>1. q \in Nat /\ q * r <= M /\ M < (q + 1) * r
  BY SMTT(30)
<1>2. s \in Nat /\ s * 125 <= q /\ q < (s + 1) * 125
  BY <1>1, SMTT(30)
<1> HIDE DEF q, s
<1>3. ASSUME b <= s PROVE b * r * 125 <= M
  <2>1. (b * 125) * r <= q * r
    BY <1>1, <1>2, <1>3, Monotone
  <2>2. b * r * 125 = (b * 125) * r
    OBVIOUS
  <2> QED
    BY <1>1, <2>1, <2>2
<1>4. ASSUME b > s PROVE b * r * 125 > M
  <2>1. (q + 1) * r <= (b * 125) * r
    BY <1>1, <1>2, <1>4, Monotone
  <2>2. b * r * 125 = (b * 125) * r
    OBVIOUS
  <2> QED
    BY <1>1, <2>1, <2>2
<1> QED
  BY <1>2, <1>3, <1>4 DEF q, s

\* What BuildPlan answers about the inputs, whatever the machine.
LEMMA BuildPlanBDP ==
  ASSUME NEW m, NEW in \in Inputs
  PROVE  LET product == in.bandwidth * in.rtt * 125
             pl == BuildPlan(m, in)
         IN  IF pl.error THEN product > MaxUint64 ELSE pl.bdp = product
<1> DEFINE product == in.bandwidth * in.rtt * 125
<1>1. in.bandwidth \in Nat /\ in.rtt \in Nat /\ MaxUint64 \in Nat /\ product \in Nat
  <2>1. MaxUint64 \in Nat /\ Bandwidths \subseteq Nat /\ RTTs \subseteq Nat
    BY DetectAssumption, PlanAssumption
  <2>2. in.bandwidth \in Bandwidths /\ in.rtt \in RTTs
    BY DEF Inputs
  <2>3. in.bandwidth \in Nat /\ in.rtt \in Nat
    BY <2>1, <2>2
  <2> QED
    BY <2>1, <2>3
<1>2. bdpOverflows(in) <=> product > MaxUint64
  <2>1. CASE in.rtt = 0
    BY <1>1, <2>1 DEF bdpOverflows
  <2>2. CASE in.bandwidth = 0
    BY <1>1, <2>2 DEF bdpOverflows
  <2>3. CASE in.rtt > 0 /\ in.bandwidth > 0
    BY <1>1, <2>3, DivisionTwice DEF bdpOverflows
  <2> QED
    BY <1>1, <2>1, <2>2, <2>3
<1>3. CASE bdpOverflows(in)
  BY <1>2, <1>3 DEF BuildPlan, Overflow
<1>4. CASE ~bdpOverflows(in)
  <2>1. bdpBytes(in) = product
    BY <1>1, <1>2, <1>4 DEF bdpBytes
  <2>2. BuildPlan(m, in).error = FALSE /\ BuildPlan(m, in).bdp = bdpBytes(in)
    BY <1>4 DEF BuildPlan
  <2> QED
    BY <2>1, <2>2
<1> QED
  BY <1>3, <1>4

\* The BDP of every plan is exact, and inputs are refused exactly when the
\* product does not fit, for integers of any width (plan.go:11-15).
THEOREM BDPAlwaysExact == Spec => []BDPExact
<1> DEFINE Inv == inputs \in Inputs /\ BDPExact
<1>1. Init => Inv
  BY DEF Init, BDPExact
<1>2. Inv /\ [Next]_vars => Inv'
  <2> SUFFICES ASSUME Inv, [Next]_vars PROVE Inv'
    OBVIOUS
  <2>1. CASE Plan
    BY <2>1, BuildPlanBDP DEF Plan, BDPExact
  <2>2. CASE Apply
    BY <2>2 DEF Apply, BDPExact
  <2>3. CASE UNCHANGED vars
    BY <2>3 DEF vars, BDPExact
  <2> QED
    BY <2>1, <2>2, <2>3 DEF Next
<1> QED
  BY <1>1, <1>2, PTL DEF Spec

-----------------------------------------------------------------------------
(* What a plan sets.                                                       *)

\* What it may set on a machine: the generic values of the keys it can improve.
Improvable(m) == {k \in Able(m) : ServesTCP(m) /\ Generic(k, m.sysctl[k])}

ProposesTargets(pl) == \A k \in Requested(pl) : pl.actions[k].proposed = Target[k]

\* BuildPlan sets these, to their targets.
LEMMA BuildPlanSets ==
  ASSUME NEW m, IsMachine(m), NEW in, ~bdpOverflows(in)
  PROVE  Requested(BuildPlan(Detect(m), in)) = Improvable(m) /\ ProposesTargets(BuildPlan(Detect(m), in))
<1> DEFINE d == Detect(m)
           pl == BuildPlan(d, in)
<1>1. /\ d.sysctl = m.sysctl /\ d.bbr = ("bbr" \in m.availableCC) /\ d.fq = fqAvailable(m)
      /\ d.tcp = (m.protocols \cap {"reality", "anytls"} # {})
      /\ d.writable = IF m.root THEN m.writable ELSE {}
  BY DEF Detect
<1>2. d.tcp <=> ServesTCP(m)
  BY <1>1 DEF ServesTCP
<1>3. DOMAIN m.sysctl = managedKeys /\ m.writable \subseteq managedKeys
  BY DEF IsMachine
<1> HIDE DEF d
<1>4. CASE ~d.tcp
  <2>1. pl.actions = [k \in managedKeys |-> Skip("")]
    BY <1>4 DEF BuildPlan
  <2> HIDE DEF pl
  <2>2. DOMAIN pl.actions = managedKeys /\ \A k \in managedKeys : pl.actions[k].action = "SKIP"
    <3>1. Skip("").action = "SKIP"
      BY DEF Skip
    <3> QED
      BY <2>1, <3>1
  <2>3. Requested(pl) = {}
    BY <2>2 DEF Requested
  <2> QED
    BY <1>2, <1>4, <2>3 DEF Improvable, ProposesTargets, d, pl
<1>5. CASE d.tcp
  <2>1. /\ DOMAIN pl.actions = managedKeys
        /\ pl.actions["qdisc"] = planQdisc(d) /\ pl.actions["cc"] = planCongestionControl(d)
        /\ pl.actions["mtu_probing"] = planMTUProbing(d) /\ pl.actions["slow_start"] = Keep("")
    BY <1>5 DEF BuildPlan, managedKeys
  <2> HIDE DEF pl
  <2>2. /\ planQdisc(d).action = "SET" <=> "qdisc" \in Improvable(m)
        /\ planQdisc(d).action = "SET" => planQdisc(d).proposed = Target["qdisc"]
    <3>1. planQdisc(d).action = "SET" <=>
            d.sysctl["qdisc"] \in {"pfifo_fast", "fq_codel"} /\ d.fq /\ "qdisc" \in d.writable
      BY DEF planQdisc, Keep, Set, Manual, unsupported
    <3>2. planQdisc(d).action = "SET" => planQdisc(d).proposed = "fq"
      BY DEF planQdisc, Keep, Set, Manual, unsupported
    <3> QED
      BY <1>1, <1>2, <1>5, <3>1, <3>2 DEF Improvable, Able, Generic, Target, managedKeys, fqAvailable
  <2>3. /\ planCongestionControl(d).action = "SET" <=> "cc" \in Improvable(m)
        /\ planCongestionControl(d).action = "SET" => planCongestionControl(d).proposed = Target["cc"]
    <3>1. planCongestionControl(d).action = "SET" <=>
            d.bbr /\ d.sysctl["cc"] \in {"cubic", "reno"} /\ "cc" \in d.writable
      BY <1>1 DEF planCongestionControl, Keep, Set, Skip, unsupported
    <3>2. planCongestionControl(d).action = "SET" => planCongestionControl(d).proposed = "bbr"
      BY DEF planCongestionControl, Keep, Set, Skip, unsupported
    <3> QED
      BY <1>1, <1>2, <1>5, <3>1, <3>2 DEF Improvable, Able, Generic, Target, managedKeys
  <2>4. /\ planMTUProbing(d).action = "SET" <=> "mtu_probing" \in Improvable(m)
        /\ planMTUProbing(d).action = "SET" => planMTUProbing(d).proposed = Target["mtu_probing"]
    <3>1. planMTUProbing(d).action = "SET" <=>
            d.sysctl["mtu_probing"] \notin {"", "1", "2"} /\ "mtu_probing" \in d.writable
      BY DEF planMTUProbing, Keep, Set, unsupported
    <3>2. planMTUProbing(d).action = "SET" => planMTUProbing(d).proposed = "1"
      BY DEF planMTUProbing, Keep, Set, unsupported
    <3> QED
      BY <1>1, <1>2, <1>5, <3>1, <3>2 DEF Improvable, Able, Generic, Target, managedKeys
  <2>5. "slow_start" \notin Improvable(m) /\ Improvable(m) \subseteq managedKeys
    BY <1>3 DEF Improvable, Able, Generic, managedKeys
  <2>6. Keep("").action = "KEEP"
    BY DEF Keep
  <2>7. \A k \in managedKeys : /\ pl.actions[k].action = "SET" <=> k \in Improvable(m)
                               /\ k \in Improvable(m) => pl.actions[k].proposed = Target[k]
    BY <2>1, <2>2, <2>3, <2>4, <2>5, <2>6 DEF managedKeys
  <2>8. Requested(pl) = Improvable(m)
    BY <2>1, <2>5, <2>7 DEF Requested
  <2>9. ProposesTargets(pl)
    BY <2>5, <2>7, <2>8 DEF ProposesTargets
  <2> QED
    BY <2>8, <2>9 DEF pl, d
<1> QED
  BY <1>4, <1>5

\* A plan is the one that BuildPlan makes for the machine as it is.
PlanInv ==
  /\ IsMachine(machine)
  /\ plan = NoPlan \/ plan = BuildPlan(Detect(machine), inputs)

LEMMA NothingRequested == Requested(NoPlan) = {} /\ Requested(Overflow) = {}
<1>1. DOMAIN NoPlan.actions = {} /\ DOMAIN Overflow.actions = {}
  BY DEF NoPlan, Overflow
<1> QED
  BY <1>1 DEF Requested

LEMMA PlanRefusesOrSets ==
  ASSUME PlanInv
  PROVE  \/ plan \in {NoPlan, Overflow} /\ Requested(plan) = {}
         \/ ~bdpOverflows(inputs) /\ Requested(plan) = Improvable(machine) /\ ProposesTargets(plan)
<1>1. CASE plan = NoPlan
  BY <1>1, NothingRequested
<1>2. CASE plan # NoPlan /\ bdpOverflows(inputs)
  BY <1>2, NothingRequested DEF PlanInv, BuildPlan
<1>3. CASE plan # NoPlan /\ ~bdpOverflows(inputs)
  BY <1>3, BuildPlanSets DEF PlanInv
<1> QED
  BY <1>1, <1>2, <1>3

\* Apply changes the requested keys to their targets, and nothing else.
LEMMA AppliedMachine ==
  ASSUME PlanInv, Apply
  PROVE  /\ IsMachine(machine')
         /\ ServesTCP(machine') = ServesTCP(machine) /\ Able(machine') = Able(machine)
         /\ \A k \in managedKeys : machine'.sysctl[k] = IF k \in Improvable(machine) THEN Target[k]
                                                                                     ELSE machine.sysctl[k]
<1>1. Requested(plan) = Improvable(machine) /\ ProposesTargets(plan)
  BY PlanRefusesOrSets DEF Apply
<1> DEFINE s == [k \in managedKeys |-> IF k \in Improvable(machine) THEN Target[k] ELSE machine.sysctl[k]]
<1>3. DOMAIN s = managedKeys /\ \A k \in managedKeys : s[k] = IF k \in Improvable(machine) THEN Target[k]
                                                                                          ELSE machine.sysctl[k]
  OBVIOUS
<1>4. machine' = [machine EXCEPT !.sysctl = s]
  <2>1. \A k \in managedKeys : (IF k \in Requested(plan) THEN plan.actions[k].proposed ELSE machine.sysctl[k])
                                 = IF k \in Improvable(machine) THEN Target[k] ELSE machine.sysctl[k]
    BY <1>1 DEF ProposesTargets
  <2>2. machine' = [machine EXCEPT !.sysctl = [k \in managedKeys |->
                      IF k \in Requested(plan) THEN plan.actions[k].proposed ELSE machine.sysctl[k]]]
    BY DEF Apply
  <2> QED
    BY <2>1, <2>2
<1> HIDE DEF s
<1>5. /\ DOMAIN machine' = DOMAIN machine /\ machine'.sysctl = s
      /\ machine'.writable = machine.writable /\ machine'.root = machine.root
      /\ machine'.fqTraces = machine.fqTraces /\ machine'.availableCC = machine.availableCC
      /\ machine'.protocols = machine.protocols /\ machine'.memTotal = machine.memTotal
      /\ machine'.cgroup = machine.cgroup /\ machine'.logical = machine.logical /\ machine'.cpus = machine.cpus
  BY <1>4 DEF PlanInv, IsMachine
<1> QED
  BY <1>3, <1>5 DEF PlanInv, IsMachine, ServesTCP, Able

LEMMA PlanInit == Init => PlanInv
BY MachineAssumption DEF Init, PlanInv

LEMMA PlanStep ==
  ASSUME PlanInv, [Next]_vars
  PROVE  PlanInv'
<1>1. CASE Plan
  BY <1>1 DEF PlanInv, Plan
<1>2. CASE Apply
  BY <1>2, AppliedMachine DEF PlanInv, Apply
<1>3. CASE UNCHANGED vars
  BY <1>3 DEF PlanInv, vars
<1> QED
  BY <1>1, <1>2, <1>3 DEF Next

\* Every plan sets exactly the generic values that it can improve, to their
\* targets, and nothing for a workload without TCP (plan.go:41-103), whatever
\* the machine has.
THEOREM AlwaysSetsExactlyGeneric == Spec => []SetsExactlyGeneric
<1>1. PlanInv => SetsExactlyGeneric
  BY PlanRefusesOrSets DEF SetsExactlyGeneric, Improvable, ProposesTargets
<1> QED
  BY <1>1, PlanInit, PlanStep, PTL DEF Spec

\* After an Apply nothing is left to set, on any machine.
THEOREM AlwaysConverges == Spec => Converges
<1>1. ASSUME PlanInv, Apply
      PROVE  Requested(BuildPlan(Detect(machine'), inputs)) = {}
  <2>1. CASE bdpOverflows(inputs)
    BY <2>1, NothingRequested DEF BuildPlan
  <2>2. CASE ~bdpOverflows(inputs)
    <3>1. Requested(BuildPlan(Detect(machine'), inputs)) = Improvable(machine')
      BY <1>1, <2>2, AppliedMachine, BuildPlanSets
    <3>2. ASSUME NEW k \in Improvable(machine')
          PROVE  FALSE
      <4>1. k \in managedKeys /\ k \in Able(machine) /\ ServesTCP(machine) /\ Generic(k, machine'.sysctl[k])
        BY <1>1, <3>2, AppliedMachine DEF Improvable, PlanInv, IsMachine, Able
      <4>2. ~Generic(k, Target[k])
        BY <4>1 DEF Target, Generic, managedKeys
      <4> QED
        BY <1>1, <4>1, <4>2, AppliedMachine DEF Improvable
    <3> QED
      BY <3>1, <3>2
  <2> QED
    BY <2>1, <2>2
<1>2. PlanInv /\ [Next]_vars => [Apply => Requested(BuildPlan(Detect(machine'), inputs)) = {}]_vars
  BY <1>1
<1> QED
  BY <1>2, PlanInit, PlanStep, PTL DEF Spec, Converges

-----------------------------------------------------------------------------
(* The memory that is shown.                                               *)

LEMMA MinIs ==
  ASSUME NEW S \in SUBSET Int, NEW x \in S, \A y \in S : x <= y
  PROVE  Min(S) = x
<1>1. PICK z : z = Min(S)
  OBVIOUS
<1>2. z \in S /\ \A y \in S : z <= y
  BY <1>1 DEF Min
<1> QED
  BY <1>1, <1>2

LEMMA LeastExists ==
  ASSUME NEW S \in SUBSET Nat, S # {}
  PROVE  \E x \in S : \A y \in S : x <= y
<1>1. PICK x \in S : \A y \in S : ~(<<y, x>> \in OpToRel(<, Nat))
  BY NatLessThanWellFounded, WFMin
<1>2. \A y \in S : ~(y < x)
  BY <1>1 DEF OpToRel
<1> QED
  BY <1>2

\* The check of visibleMemory is exact.
LEMMA DivisionOnce ==
  ASSUME NEW M \in Nat, NEW t \in Nat, NEW k \in Nat \ {0}
  PROVE  t <= M \div k <=> t * k <= M
<1> DEFINE q == M \div k
<1>1. q \in Nat /\ q * k <= M /\ M < (q + 1) * k
  BY SMTT(30)
<1> HIDE DEF q
<1>2. ASSUME t <= q PROVE t * k <= M
  BY <1>1, <1>2, Monotone
<1>3. ASSUME t > q PROVE t * k > M
  <2>1. (q + 1) * k <= t * k
    BY <1>1, <1>3, Monotone
  <2> QED
    BY <1>1, <2>1
<1> QED
  BY <1>1, <1>2, <1>3 DEF q

LEMMA VisibleExact ==
  ASSUME NEW m, IsMachine(m)
  PROVE  /\ visibleMemory(m) \in Nat
         /\ {n \in {m.memTotal * KiB} : n > 0 /\ n <= MaxUint64} =
              IF visibleMemory(m) > 0 THEN {visibleMemory(m)} ELSE {}
<1>1. KiB \in Nat \ {0} /\ MaxUint64 \in Nat /\ (m.memTotal \in Nat \/ m.memTotal = NotANumber)
  BY DetectAssumption DEF IsMachine
<1>2. CASE m.memTotal = NotANumber
  <2>1. PICK x : x = m.memTotal * KiB
    OBVIOUS
  <2>2. x \in Int /\ x < 0 /\ visibleMemory(m) = 0
    BY <1>1, <1>2, <2>1 DEF NotANumber, visibleMemory
  <2>3. {n \in {x} : n > 0 /\ n <= MaxUint64} = {}
    BY <1>1, <2>2
  <2> QED
    BY <2>1, <2>2, <2>3
<1>3. CASE m.memTotal \in Nat
  <2>1. m.memTotal <= MaxUint64 \div KiB <=> m.memTotal * KiB <= MaxUint64
    BY <1>1, <1>3, DivisionOnce
  <2>2. m.memTotal * KiB \in Nat /\ m.memTotal # NotANumber
    BY <1>1, <1>3 DEF NotANumber
  <2>3. visibleMemory(m) = IF m.memTotal * KiB <= MaxUint64 THEN m.memTotal * KiB ELSE 0
    BY <2>1, <2>2 DEF visibleMemory
  <2> QED
    BY <2>2, <2>3
<1> QED
  BY <1>1, <1>2, <1>3

\* The limits of the groups that the process can see.
Visible(cgroup) == {cgroup.limit[i] : i \in cgroup.hidden..Len(cgroup.path)}

\* What is read is a limit of one of these groups, or no number.
LEMMA ReadIsVisible ==
  ASSUME NEW m, IsMachine(m), NEW f, f.path \in Seq(STRING)
  PROVE  LimitFile(m.cgroup, f) \in Visible(m.cgroup) \cup {NotANumber}
<1> DEFINE c == m.cgroup
<1>1. c.path \in Seq(STRING) /\ c.hidden \in 0..Len(c.path) /\ Len(f.path) \in Nat /\ Len(c.path) \in Nat
  BY DEF IsMachine
<1> HIDE DEF c
<1>2. c.hidden + Len(f.path) >= c.hidden /\ c.hidden + Len(f.path) \in Int
  BY <1>1
<1>3. LimitFile(c, f) # NotANumber => \E i \in c.hidden..Len(c.path) : LimitFile(c, f) = c.limit[i]
  BY <1>1, <1>2 DEF LimitFile
<1> QED
  BY <1>3 DEF Visible, c

LEMMA SubSeqTwice ==
  ASSUME NEW S, NEW s \in Seq(S), NEW h \in 0..Len(s), NEW i \in (h + 1)..Len(s)
  PROVE  /\ Len(SubSeq(s, h + 1, Len(s))) = Len(s) - h
         /\ SubSeq(SubSeq(s, h + 1, Len(s)), 1, i - h) = SubSeq(s, h + 1, i)
<1>1. Len(s) \in Nat /\ h \in Nat /\ i \in Nat /\ h + 1 <= i /\ i <= Len(s)
  OBVIOUS
<1> DEFINE m == h + 1
           n == i - h
<1>2. /\ m \in 1..Len(s) /\ Len(s) \in 1..Len(s)
      /\ 1 \in 1..(Len(s) - m + 1) /\ n \in 1..(Len(s) - m + 1)
      /\ m + 1 - 1 = m /\ m + n - 1 = i
  BY <1>1
<1>3. \A j \in m..Len(s) : s[j] \in S
  BY <1>1
<1> HIDE DEF m, n
<1>4. m \in Int /\ Len(s) \in Int /\ m <= Len(s)
  BY <1>1, <1>2
<1>5. Len(SubSeq(s, m, Len(s))) = Len(s) - m + 1
  BY <1>3, <1>4, SubSeqProperties
<1>6. SubSeq(SubSeq(s, m, Len(s)), 1, n) = SubSeq(s, m + 1 - 1, m + n - 1)
  BY <1>2, SubSeqOfSubSeq
<1>7. SubSeq(SubSeq(s, m, Len(s)), 1, n) = SubSeq(s, m, i)
  BY <1>2, <1>6
<1> QED
  BY <1>1, <1>5, <1>7 DEF m, n

\* The path in /proc/self/cgroup begins with the groups below the root that
\* is seen, or, in a container of the host's group, none of them is below it.
LEMMA PathShown ==
  ASSUME NEW c, c.path \in Seq(STRING), c.hidden \in 0..Len(c.path), c.shown \in BOOLEAN, ~Displaced(c),
         NEW i \in (c.hidden + 1)..Len(c.path)
  PROVE  LET path == IF c.shown THEN c.path ELSE Below(c, c.hidden) IN
         i - c.hidden \in 0..Len(path) /\ SubSeq(path, 1, i - c.hidden) = SubSeq(c.path, c.hidden + 1, i)
<1>1. Len(c.path) \in Nat /\ i \in Nat /\ c.hidden \in Nat
  OBVIOUS
<1>2. CASE c.shown
  <2>1. c.hidden = 0
    BY <1>1, <1>2 DEF Displaced
  <2> QED
    BY <1>1, <1>2, <2>1
<1>3. CASE ~c.shown
  <2>1. Below(c, c.hidden) = SubSeq(c.path, c.hidden + 1, Len(c.path))
    BY DEF Below
  <2>2. /\ Len(Below(c, c.hidden)) = Len(c.path) - c.hidden
        /\ SubSeq(Below(c, c.hidden), 1, i - c.hidden) = SubSeq(c.path, c.hidden + 1, i)
    BY <2>1, SubSeqTwice
  <2>3. i - c.hidden \in 0..Len(Below(c, c.hidden))
    BY <1>1, <2>2
  <2>4. (IF c.shown THEN c.path ELSE Below(c, c.hidden)) = Below(c, c.hidden)
    BY <1>3
  <2> QED
    BY <2>2, <2>3, <2>4
<1> QED
  BY <1>2, <1>3

\* The file that tells the limit of group i.
FileOf(c, i) ==
  [base |-> IF c.mode = "v2" THEN "fs/cgroup" ELSE "fs/cgroup/memory",
   path |-> SubSeq(c.path, c.hidden + 1, i),
   name |-> IF c.mode = "v2" THEN "memory.max" ELSE "memory.limit_in_bytes"]

LEMMA FileTells ==
  ASSUME NEW m, IsMachine(m), NEW i \in m.cgroup.hidden..Len(m.cgroup.path)
  PROVE  LimitFile(m.cgroup, FileOf(m.cgroup, i)) = m.cgroup.limit[i]
<1> DEFINE c == m.cgroup
<1>1. c.path \in Seq(STRING) /\ c.hidden \in 0..Len(c.path) /\ Len(c.path) \in Nat
  BY DEF IsMachine
<1>2. i \in Nat /\ c.hidden \in Nat /\ c.hidden <= i /\ i <= Len(c.path)
  BY <1>1
<1>3. Len(SubSeq(c.path, c.hidden + 1, i)) = i - c.hidden
  <2>1. \A j \in (c.hidden + 1)..i : c.path[j] \in STRING
    BY <1>1, <1>2
  <2>2. Len(SubSeq(c.path, c.hidden + 1, i)) = IF c.hidden + 1 <= i THEN i - (c.hidden + 1) + 1 ELSE 0
    BY <1>1, <1>2, <2>1, SubSeqProperties
  <2> QED
    BY <1>1, <1>2, <2>2
<1>4. /\ FileOf(c, i).path = SubSeq(c.path, c.hidden + 1, i)
      /\ FileOf(c, i).base = IF c.mode = "v2" THEN "fs/cgroup" ELSE "fs/cgroup/memory"
      /\ FileOf(c, i).name = IF c.mode = "v2" THEN "memory.max" ELSE "memory.limit_in_bytes"
  BY DEF FileOf
<1>5. c.hidden + Len(FileOf(c, i).path) = i
  BY <1>1, <1>2, <1>3, <1>4
<1> HIDE DEF c
<1> QED
  <2>1. LimitFile(c, FileOf(c, i)) = c.limit[i]
    BY <1>2, <1>4, <1>5 DEF LimitFile
  <2> QED
    BY <2>1 DEF c

LEMMA IsCandidate ==
  ASSUME NEW lines, NEW f
  PROVE  f \in Candidates(lines) <=>
           \/ \E l \in lines : /\ l.controllers = {}
                              /\ f \in cgroupLimitPaths("fs/cgroup", l.path, "memory.max")
           \/ \E l \in lines : /\ "memory" \in l.controllers
                              /\ \/ f \in cgroupLimitPaths("fs/cgroup/memory", l.path, "memory.limit_in_bytes")
                                 \/ f \in cgroupLimitPaths("fs/cgroup", l.path, "memory.limit_in_bytes")
           \/ f = [base |-> "fs/cgroup", path |-> <<>>, name |-> "memory.max"]
           \/ f = [base |-> "fs/cgroup/memory", path |-> <<>>, name |-> "memory.limit_in_bytes"]
<1> DEFINE V2(l) == IF l.controllers = {} THEN cgroupLimitPaths("fs/cgroup", l.path, "memory.max") ELSE {}
           V1(l) == IF "memory" \in l.controllers
                      THEN cgroupLimitPaths("fs/cgroup/memory", l.path, "memory.limit_in_bytes")
                           \cup cgroupLimitPaths("fs/cgroup", l.path, "memory.limit_in_bytes")
                      ELSE {}
<1>1. \A l : f \in V2(l) <=> /\ l.controllers = {}
                            /\ f \in cgroupLimitPaths("fs/cgroup", l.path, "memory.max")
  OBVIOUS
<1>2. \A l : f \in V1(l) <=> /\ "memory" \in l.controllers
                            /\ \/ f \in cgroupLimitPaths("fs/cgroup/memory", l.path, "memory.limit_in_bytes")
                               \/ f \in cgroupLimitPaths("fs/cgroup", l.path, "memory.limit_in_bytes")
  OBVIOUS
<1>3. Candidates(lines) = (UNION {V2(l) : l \in lines}) \cup (UNION {V1(l) : l \in lines})
        \cup {[base |-> "fs/cgroup", path |-> <<>>, name |-> "memory.max"],
              [base |-> "fs/cgroup/memory", path |-> <<>>, name |-> "memory.limit_in_bytes"]}
  BY DEF Candidates
<1> HIDE DEF V1, V2
<1>4. f \in Candidates(lines) <=>
        \/ \E l \in lines : f \in V2(l)
        \/ \E l \in lines : f \in V1(l)
        \/ f = [base |-> "fs/cgroup", path |-> <<>>, name |-> "memory.max"]
        \/ f = [base |-> "fs/cgroup/memory", path |-> <<>>, name |-> "memory.limit_in_bytes"]
  <2> DEFINE A == UNION {V2(l) : l \in lines}
             B == UNION {V1(l) : l \in lines}
             r == [base |-> "fs/cgroup", path |-> <<>>, name |-> "memory.max"]
             t == [base |-> "fs/cgroup/memory", path |-> <<>>, name |-> "memory.limit_in_bytes"]
  <2>1. f \in A <=> \E l \in lines : f \in V2(l)
    BY Zenon
  <2>2. f \in B <=> \E l \in lines : f \in V1(l)
    BY Zenon
  <2>3. Candidates(lines) = A \cup B \cup {r, t}
    BY <1>3, Zenon
  <2> HIDE DEF A, B, r, t
  <2>4. f \in Candidates(lines) <=> f \in A \/ f \in B \/ f = r \/ f = t
    BY <2>3
  <2> QED
    BY <2>1, <2>2, <2>4, Zenon DEF r, t
<1> QED
  BY <1>1, <1>2, <1>4, Zenon

\* Every such file is read.
LEMMA FileRead ==
  ASSUME NEW m, IsMachine(m), ~Displaced(m.cgroup), NEW i \in m.cgroup.hidden..Len(m.cgroup.path)
  PROVE  FileOf(m.cgroup, i) \in Candidates(SelfCgroup(m.cgroup))
<1> DEFINE c == m.cgroup
           path == IF c.shown THEN c.path ELSE Below(c, c.hidden)
<1>1. /\ c.path \in Seq(STRING) /\ c.hidden \in 0..Len(c.path) /\ Len(c.path) \in Nat
      /\ c.shown \in BOOLEAN /\ c.mode \in {"v1", "v2", "hybrid"}
  BY DEF IsMachine
<1>2. i \in Nat /\ c.hidden \in Nat /\ c.hidden <= i /\ i <= Len(c.path)
  BY <1>1
<1>3. CASE i = c.hidden
  <2>1. SubSeq(c.path, c.hidden + 1, i) = <<>>
    BY <1>2, <1>3, SubSeqEmpty
  <2>2. \/ FileOf(c, i) = [base |-> "fs/cgroup", path |-> <<>>, name |-> "memory.max"]
        \/ FileOf(c, i) = [base |-> "fs/cgroup/memory", path |-> <<>>, name |-> "memory.limit_in_bytes"]
    BY <1>1, <2>1 DEF FileOf
  <2> QED
    BY <2>2, IsCandidate, Zenon
<1>4. CASE i # c.hidden
  <2>1. i \in (c.hidden + 1)..Len(c.path)
    BY <1>2, <1>4
  <2>2. i - c.hidden \in 0..Len(path) /\ SubSeq(path, 1, i - c.hidden) = SubSeq(c.path, c.hidden + 1, i)
    BY <1>1, <2>1, PathShown
  <2> HIDE DEF path
  <2>3. CASE c.mode = "v2"
    <3>1. FileOf(c, i) = [base |-> "fs/cgroup", path |-> SubSeq(path, 1, i - c.hidden), name |-> "memory.max"]
      BY <2>2, <2>3 DEF FileOf
    <3>2. FileOf(c, i) \in cgroupLimitPaths("fs/cgroup", path, "memory.max")
      BY <2>2, <3>1 DEF cgroupLimitPaths
    <3>3. [controllers |-> {}, path |-> path] \in SelfCgroup(c)
      BY <2>3 DEF SelfCgroup, path
    <3> DEFINE l == [controllers |-> {}, path |-> path]
    <3>4. l.controllers = {} /\ l.path = path
      OBVIOUS
    <3> HIDE DEF l
    <3>5. l \in SelfCgroup(c)
      BY <3>3 DEF l
    <3> QED
      BY <3>2, <3>4, <3>5, IsCandidate
  <2>4. CASE c.mode # "v2"
    <3>1. FileOf(c, i) = [base |-> "fs/cgroup/memory", path |-> SubSeq(path, 1, i - c.hidden),
                          name |-> "memory.limit_in_bytes"]
      BY <2>2, <2>4 DEF FileOf
    <3>2. FileOf(c, i) \in cgroupLimitPaths("fs/cgroup/memory", path, "memory.limit_in_bytes")
      BY <2>2, <3>1 DEF cgroupLimitPaths
    <3>3. [controllers |-> {"memory"}, path |-> path] \in SelfCgroup(c)
      BY <1>1, <2>4 DEF SelfCgroup, path
    <3> DEFINE l == [controllers |-> {"memory"}, path |-> path]
    <3>4. "memory" \in l.controllers /\ l.path = path
      OBVIOUS
    <3> HIDE DEF l
    <3>5. l \in SelfCgroup(c)
      BY <3>3 DEF l
    <3> QED
      BY <3>2, <3>4, <3>5, IsCandidate
  <2> QED
    BY <2>3, <2>4
<1> QED
  BY <1>3, <1>4

\* Every path that is tried is one.
LEMMA CandidatePath ==
  ASSUME NEW m, IsMachine(m), NEW f \in Candidates(SelfCgroup(m.cgroup))
  PROVE  f.path \in Seq(STRING)
<1> DEFINE c == m.cgroup
<1>1. c.path \in Seq(STRING) /\ c.hidden \in Nat /\ Len(c.path) \in Nat
  BY DEF IsMachine
<1>2. Below(c, c.hidden) \in Seq(STRING)
  <2>1. \A j \in (c.hidden + 1)..Len(c.path) : c.path[j] \in STRING
    BY <1>1
  <2> QED
    BY <1>1, <2>1, SubSeqProperties DEF Below
<1>3. \A l \in SelfCgroup(c) : l.path \in Seq(STRING)
  BY <1>1, <1>2 DEF SelfCgroup, IsMachine
<1>4. ASSUME NEW b, NEW r \in Seq(STRING), NEW n, NEW g \in cgroupLimitPaths(b, r, n)
      PROVE  g.path \in Seq(STRING)
  <2>1. PICK k \in 0..Len(r) : g.path = SubSeq(r, 1, k)
    BY <1>4 DEF cgroupLimitPaths
  <2>2. \A j \in 1..k : r[j] \in STRING
    BY <1>4
  <2> QED
    BY <2>1, <2>2, SubSeqProperties
<1>5. ASSUME NEW l \in SelfCgroup(c), NEW b, NEW n, f \in cgroupLimitPaths(b, l.path, n)
      PROVE  f.path \in Seq(STRING)
  BY <1>3, <1>4, <1>5
<1>6. <<>> \in Seq(STRING)
  OBVIOUS
<1>7. f.path = <<>> \/ \E l \in SelfCgroup(c) : \E b, n : f \in cgroupLimitPaths(b, l.path, n)
  <2>1. CASE \/ f = [base |-> "fs/cgroup", path |-> <<>>, name |-> "memory.max"]
             \/ f = [base |-> "fs/cgroup/memory", path |-> <<>>, name |-> "memory.limit_in_bytes"]
    BY <2>1
  <2>2. CASE f \notin {[base |-> "fs/cgroup", path |-> <<>>, name |-> "memory.max"],
                      [base |-> "fs/cgroup/memory", path |-> <<>>, name |-> "memory.limit_in_bytes"]}
    BY <2>2, IsCandidate, Zenon
  <2> QED
    BY <2>1, <2>2
<1> QED
  BY <1>5, <1>6, <1>7

\* What can be read, and limits anything, is what limits one of the groups.
LEMMA ReadsVisible ==
  ASSUME NEW m, IsMachine(m), ~Displaced(m.cgroup), NEW n, n # NotANumber
  PROVE  n \in {LimitFile(m.cgroup, f) : f \in Candidates(SelfCgroup(m.cgroup))} <=> n \in Visible(m.cgroup)
<1>1. ASSUME NEW f \in Candidates(SelfCgroup(m.cgroup)), n = LimitFile(m.cgroup, f)
      PROVE  n \in Visible(m.cgroup)
  BY <1>1, CandidatePath, ReadIsVisible
<1>2. ASSUME NEW i \in m.cgroup.hidden..Len(m.cgroup.path), n = m.cgroup.limit[i]
      PROVE  \E f \in Candidates(SelfCgroup(m.cgroup)) : n = LimitFile(m.cgroup, f)
  BY <1>2, FileTells, FileRead
<1> QED
  BY <1>1, <1>2 DEF Visible

LEMMA MemoryEnforced ==
  ASSUME NEW m, IsMachine(m), ~Displaced(m.cgroup)
  PROVE  EffectiveMemory(m) = EnforcedMemory(m)
<1> DEFINE v == visibleMemory(m)
           reads == {LimitFile(m.cgroup, f) : f \in Candidates(SelfCgroup(m.cgroup))}
           seen == {n \in Visible(m.cgroup) : n > 0 /\ n < NoLimit}
           limits == {n \in reads : n > 0 /\ n < NoLimit /\ (v > 0 => n < v)}
           real == seen \cup IF v > 0 THEN {v} ELSE {}
<1>1. v \in Nat /\ NoLimit \in Nat
  BY VisibleExact, DetectAssumption
<1>2. Visible(m.cgroup) \subseteq Int
  BY DEF Visible, IsMachine
<1>3. EnforcedMemory(m) = IF real = {} THEN 0 ELSE Min(real)
  BY VisibleExact DEF EnforcedMemory, Visible
<1>4. \A n : n \in reads /\ n # NotANumber <=> n \in Visible(m.cgroup) /\ n # NotANumber
  BY ReadsVisible
<1>5. /\ EffectiveMemory(m) = LET limit == cgroupMemoryLimit(m, v) IN
                              IF limit > 0 /\ (v = 0 \/ limit < v) THEN limit ELSE v
      /\ cgroupMemoryLimit(m, v) = IF limits = {} THEN 0 ELSE Min(limits)
  BY DEF EffectiveMemory, cgroupMemoryLimit
<1> HIDE DEF v, reads
<1>6. limits = {n \in seen : v > 0 => n < v}
  <2>1. reads \subseteq Int \cup {NotANumber}
    BY <1>2, <1>4
  <2> QED
    BY <1>2, <1>4, <2>1 DEF NotANumber
<1>7. limits \in SUBSET Nat /\ seen \subseteq Nat /\ real \in SUBSET Int
  BY <1>1, <1>2, <1>6
<1>8. CASE limits = {}
  <2>1. EffectiveMemory(m) = v
    BY <1>1, <1>5, <1>8
  <2>2. CASE v = 0
    <3>1. real = {}
      BY <1>6, <1>8, <2>2
    <3> QED
      BY <1>3, <2>1, <2>2, <3>1
  <2>3. CASE v > 0
    <3>1. v \in real /\ \A y \in real : v <= y
      BY <1>1, <1>6, <1>7, <1>8, <2>3
    <3>2. Min(real) = v
      BY <1>7, <3>1, MinIs
    <3> QED
      BY <1>3, <2>1, <3>1, <3>2
  <2> QED
    BY <1>1, <2>2, <2>3
<1>9. CASE limits # {}
  <2>1. PICK b \in limits : \A y \in limits : b <= y
    BY <1>7, <1>9, LeastExists
  <2>2. limits \in SUBSET Int
    BY <1>7
  <2>3. Min(limits) = b
    BY <2>1, <2>2, MinIs
  <2>4. b \in Nat /\ b > 0 /\ (v > 0 => b < v)
    BY <1>6, <1>7, <2>1
  <2>5. EffectiveMemory(m) = b
    BY <1>1, <1>5, <1>9, <2>3, <2>4
  <2>6. b \in real /\ \A y \in real : b <= y
    BY <1>1, <1>6, <1>7, <2>1, <2>4
  <2>7. Min(real) = b
    BY <1>7, <2>6, MinIs
  <2> QED
    BY <1>3, <2>5, <2>6, <2>7
<1> QED
  BY <1>8, <1>9

LEMMA PlanShowsDetected ==
  ASSUME PlanInv, plan \notin {NoPlan, Overflow}
  PROVE  plan.profile = Detect(machine)
<1>1. ASSUME NEW d, NEW in, ~bdpOverflows(in)
      PROVE  BuildPlan(d, in).profile = d
  BY <1>1 DEF BuildPlan
<1>2. bdpOverflows(inputs) => BuildPlan(Detect(machine), inputs) = Overflow
  BY DEF BuildPlan
<1> QED
  BY <1>1, <1>2 DEF PlanInv

\* The memory the operator is shown is what the kernel enforces, in every layout
\* of cgroups, of any depth and with any limits, and inside every container but
\* the one Displaced describes.
THEOREM AlwaysShowsEnforcedMemory == Spec => []ShowsEnforcedMemory
<1>1. PlanInv => ShowsEnforcedMemory
  BY PlanShowsDetected, MemoryEnforced DEF ShowsEnforcedMemory, Detect, PlanInv
<1> QED
  BY <1>1, PlanInit, PlanStep, PTL DEF Spec

-----------------------------------------------------------------------------
(* The number of CPUs: a fold over the ranges of a list, which the provers *)
(* cannot unfold by itself.                                                *)

Length(r) == r[2] - r[1] + 1
SumsLengths(f, R) ==
  f = [T \in SUBSET R |-> IF T = {} THEN 0 ELSE LET r == CHOOSE r \in T : TRUE IN Length(r) + f[T \ {r}]]

LEMMA CountIsSum ==
  ASSUME NEW R
  PROVE  cpuListCount(R) = (CHOOSE f : SumsLengths(f, R))[R]
<1>1. cpuListCount(R) = (CHOOSE f : f = [T \in SUBSET R |-> IF T = {} THEN 0
                                         ELSE LET r == CHOOSE r \in T : TRUE IN (r[2] - r[1] + 1) + f[T \ {r}]])[R]
  BY DEF cpuListCount, MapThenSumSet, MapThenFoldSet
<1> QED
  BY <1>1 DEF SumsLengths, Length

Members(R) == UNION {r[1]..r[2] : r \in R}

\* Ranges that are not empty and have no member in common.
AreRanges(R) ==
  /\ IsFiniteSet(R) /\ IsFiniteSet(Members(R)) /\ R \in SUBSET (Nat \X Nat)
  /\ \A r \in R : r[1] <= r[2]
  /\ \A r, q \in R : r # q => (r[1]..r[2]) \cap (q[1]..q[2]) = {}


LEMMA Fewer ==
  ASSUME NEW R, AreRanges(R), NEW T \in SUBSET R
  PROVE  AreRanges(T)
<1>1. Members(T) \subseteq Members(R)
  BY Zenon DEF Members
<1> QED
  BY <1>1, FS_Subset DEF AreRanges

LEMMA WithoutOne ==
  ASSUME NEW R, AreRanges(R), NEW r \in R
  PROVE  Cardinality(Members(R)) = Length(r) + Cardinality(Members(R \ {r}))
<1>1. AreRanges(R \ {r})
  BY Fewer
<1>2. Members(R) = (r[1]..r[2]) \cup Members(R \ {r})
  BY Zenon DEF Members
<1>3. ASSUME NEW i \in r[1]..r[2], i \in Members(R \ {r})
      PROVE  FALSE
  <2>1. PICK q \in R \ {r} : i \in q[1]..q[2]
    BY <1>3, Zenon DEF Members
  <2>2. (r[1]..r[2]) \cap (q[1]..q[2]) = {}
    BY <2>1 DEF AreRanges
  <2> QED
    BY <1>3, <2>1, <2>2
<1>4. (r[1]..r[2]) \cap Members(R \ {r}) = {}
  BY <1>3
<1>5. /\ r[1] \in Int /\ r[2] \in Int /\ r[1] <= r[2]
  BY DEF AreRanges
<1>6. IsFiniteSet(r[1]..r[2]) /\ Cardinality(r[1]..r[2]) = Length(r)
  BY <1>5, FS_Interval DEF Length
<1>7. IsFiniteSet(Members(R \ {r})) /\ Cardinality(Members(R \ {r})) \in Nat
  BY <1>1, FS_CardinalityType DEF AreRanges
<1>8. Cardinality((r[1]..r[2]) \cap Members(R \ {r})) = 0
  BY <1>4, FS_EmptySet
<1>9. Length(r) \in Int
  BY <1>5 DEF Length
<1>10. Cardinality((r[1]..r[2]) \cup Members(R \ {r})) =
         Cardinality(r[1]..r[2]) + Cardinality(Members(R \ {r})) - Cardinality((r[1]..r[2]) \cap Members(R \ {r}))
  BY <1>6, <1>7, FS_Union, Zenon
<1> QED
  BY <1>2, <1>6, <1>7, <1>8, <1>9, <1>10

\* The number of members satisfies the equation of the sum ...
LEMMA MembersSum ==
  ASSUME NEW R, AreRanges(R)
  PROVE  SumsLengths([T \in SUBSET R |-> Cardinality(Members(T))], R)
<1> DEFINE c == [T \in SUBSET R |-> Cardinality(Members(T))]
<1>1. ASSUME NEW T \in SUBSET R
      PROVE  c[T] = IF T = {} THEN 0 ELSE LET r == CHOOSE r \in T : TRUE IN Length(r) + c[T \ {r}]
  <2>1. CASE T = {}
    <3>1. Members(T) = {}
      BY <2>1, Zenon DEF Members
    <3> QED
      BY <2>1, <3>1, FS_EmptySet
  <2>2. CASE T # {}
    <3> DEFINE r == CHOOSE r \in T : TRUE
    <3>1. r \in T
      BY <2>2
    <3> HIDE DEF r
    <3>2. Cardinality(Members(T)) = Length(r) + Cardinality(Members(T \ {r}))
      BY <3>1, Fewer, WithoutOne
    <3>3. T \ {r} \in SUBSET R
      OBVIOUS
    <3>4. c[T] = Length(r) + c[T \ {r}]
      BY <3>2, <3>3
    <3> QED
      BY <2>2, <3>4 DEF r
  <2> QED
    BY <2>1, <2>2
<1>2. c = [T \in SUBSET R |-> c[T]]
  OBVIOUS
<1> HIDE DEF c
<1>3. c = [T \in SUBSET R |-> IF T = {} THEN 0 ELSE LET r == CHOOSE r \in T : TRUE IN Length(r) + c[T \ {r}]]
  BY <1>1, <1>2, Zenon
<1> QED
  BY <1>3, Zenon DEF SumsLengths, c

\* ... and nothing else does: two solutions would differ on a smallest set.
LEMMA SumUnique ==
  ASSUME NEW R, IsFiniteSet(R), NEW f, NEW g, SumsLengths(f, R), SumsLengths(g, R)
  PROVE  f[R] = g[R]
<1> DEFINE Wrong == {n \in Nat : \E T \in SUBSET R : Cardinality(T) = n /\ f[T] # g[T]}
<1>1. ASSUME NEW T \in SUBSET R
      PROVE  IsFiniteSet(T) /\ Cardinality(T) \in Nat
  BY FS_Subset, FS_CardinalityType
<1>2. ASSUME NEW n \in Wrong, \A k \in Wrong : n <= k
      PROVE  FALSE
  <2>1. PICK T \in SUBSET R : Cardinality(T) = n /\ f[T] # g[T]
    OBVIOUS
  <2>2. T # {}
    <3>1. ASSUME T = {} PROVE f[T] = 0 /\ g[T] = 0
      BY <3>1, Zenon DEF SumsLengths
    <3> QED
      BY <2>1, <3>1
  <2> DEFINE r == CHOOSE r \in T : TRUE
  <2>3. r \in T
    BY <2>2
  <2>4. f[T] = Length(r) + f[T \ {r}] /\ g[T] = Length(r) + g[T \ {r}]
    BY <2>2, Zenon DEF SumsLengths
  <2> HIDE DEF r
  <2>5. T \ {r} \in SUBSET R /\ Cardinality(T \ {r}) = n - 1
    BY <1>1, <2>1, <2>3, FS_RemoveElement
  <2>6. f[T \ {r}] # g[T \ {r}]
    BY <2>1, <2>4
  <2>7. n - 1 \in Nat
    BY <1>1, <2>5
  <2>8. n - 1 \in Wrong
    BY <2>5, <2>6, <2>7
  <2> QED
    BY <1>2, <2>8
<1>3. Wrong = {}
  BY <1>2, LeastExists
<1> QED
  BY <1>1, <1>3

\* Adding up the lengths of such ranges, in whatever order, counts their members.
LEMMA CountsMembers ==
  ASSUME NEW R, AreRanges(R)
  PROVE  cpuListCount(R) = Cardinality(Members(R))
<1> DEFINE c == [T \in SUBSET R |-> Cardinality(Members(T))]
           f == CHOOSE f : SumsLengths(f, R)
<1>1. SumsLengths(c, R)
  BY MembersSum
<1>2. c[R] = Cardinality(Members(R))
  OBVIOUS
<1> HIDE DEF c
<1>3. SumsLengths(f, R)
  BY <1>1, Zenon
<1> HIDE DEF f
<1>4. f[R] = c[R]
  BY <1>1, <1>3, SumUnique DEF AreRanges
<1> QED
  BY <1>2, <1>4, CountIsSum DEF f

\* The list of a set has each of its members in one range.
LEMMA ListCovers ==
  ASSUME NEW S \in SUBSET Nat, IsFiniteSet(S)
  PROVE  AreRanges(CpuList(S)) /\ Members(CpuList(S)) = S
<1>1. Members(CpuList(S)) \subseteq S
  BY DEF Members, CpuList
<1>2. ASSUME NEW s \in S
      PROVE  s \in Members(CpuList(S))
  <2> DEFINE low == {a \in Nat : a <= s /\ a..s \subseteq S}
             high == {n \in Nat : n > s /\ n \notin S}
  <2>1. s \in low
    OBVIOUS
  <2>2. PICK a \in low : \A x \in low : a <= x
    BY <2>1, LeastExists
  <2>3. high # {}
    <3>1. SUFFICES ASSUME high = {} PROVE FALSE
      OBVIOUS
    <3> DEFINE many == (s + 1)..(s + 1 + Cardinality(S))
    <3>2. Cardinality(S) \in Nat
      BY FS_CardinalityType
    <3>3. many \in SUBSET S
      BY <3>1, <3>2
    <3>4. Cardinality(many) = Cardinality(S) + 1
      BY <3>2, FS_Interval
    <3>5. Cardinality(many) <= Cardinality(S)
      BY <3>3, FS_Subset
    <3> QED
      BY <3>2, <3>4, <3>5
  <2>4. PICK n \in high : \A x \in high : n <= x
    BY <2>3, LeastExists
  <2> DEFINE b == n - 1
  <2>5. b \in Nat /\ s <= b /\ b + 1 \notin S
    BY <2>4
  <2>6. \A x \in s..b : x \in S
    BY <2>4
  <2>7. \A x \in a..b : x \in S
    BY <2>2, <2>6
  <2>8. a - 1 \notin S
    <3>1. ASSUME a - 1 \in S PROVE FALSE
      <4>1. \A x \in (a - 1)..s : x \in S
        BY <2>2, <3>1
      <4>2. a - 1 \in low
        BY <2>2, <3>1, <4>1
      <4> QED
        BY <2>2, <4>2
    <3> QED
      BY <3>1
  <2>9. a \in S /\ b \in S /\ a <= b
    BY <2>2, <2>5, <2>7
  <2>10. <<a, b>> \in CpuList(S)
    BY <2>5, <2>7, <2>8, <2>9 DEF CpuList
  <2>11. s \in a..b
    BY <2>2, <2>5
  <2> QED
    BY <2>10, <2>11 DEF Members
<1>3. Members(CpuList(S)) = S
  BY <1>1, <1>2
<1>4. IsFiniteSet(CpuList(S))
  <2>1. CpuList(S) \in SUBSET (S \X S)
    BY DEF CpuList
  <2> QED
    BY <2>1, FS_Product, FS_Subset
<1>5. ASSUME NEW r \in CpuList(S), NEW q \in CpuList(S), NEW i, i \in r[1]..r[2], i \in q[1]..q[2]
      PROVE  r = q
  <2>1. /\ r \in Nat \X Nat /\ q \in Nat \X Nat
        /\ \A x \in r[1]..r[2] : x \in S
        /\ \A x \in q[1]..q[2] : x \in S
        /\ r[1] - 1 \notin S /\ r[2] + 1 \notin S /\ q[1] - 1 \notin S /\ q[2] + 1 \notin S
    BY DEF CpuList
  <2>2. r[1] = q[1] /\ r[2] = q[2]
    BY <1>5, <2>1
  <2> QED
    BY <2>1, <2>2
<1>6. CpuList(S) \in SUBSET (Nat \X Nat) /\ \A r \in CpuList(S) : r[1] <= r[2]
  BY DEF CpuList
<1> QED
  BY <1>3, <1>4, <1>5, <1>6 DEF AreRanges

LEMMA CPUsAllowed ==
  ASSUME NEW m, IsMachine(m)
  PROVE  effectiveCPUs(m) = AllowedCPUs(m)
<1>1. m.logical \in Nat /\ m.logical >= 1 /\ m.cpus \in SUBSET Nat /\ IsFiniteSet(m.cpus)
  BY DEF IsMachine
<1>2. cpuListCount(CpuList(m.cpus)) = Cardinality(m.cpus)
  BY <1>1, ListCovers, CountsMembers
<1>3. Cardinality(m.cpus) \in Nat /\ (Cardinality(m.cpus) = 0 <=> m.cpus = {})
  BY <1>1, FS_CardinalityType, FS_EmptySet
<1> QED
  BY <1>1, <1>2, <1>3 DEF effectiveCPUs, AllowedCPUs

\* The operator is shown the number of CPUs that the process may run on, whatever
\* their numbers are: the ranges of any list add up to it
\* (internal/tune/detect.go:240-281).
THEOREM AlwaysShowsAllowedCPUs == Spec => []ShowsAllowedCPUs
<1>1. PlanInv => ShowsAllowedCPUs
  <2> SUFFICES ASSUME PlanInv, plan \notin {NoPlan, Overflow}
               PROVE  plan.profile.cpus = AllowedCPUs(machine)
    BY DEF ShowsAllowedCPUs
  <2>1. plan.profile = Detect(machine)
    BY PlanShowsDetected
  <2> QED
    BY <2>1, CPUsAllowed DEF PlanInv, Detect
<1> QED
  BY <1>1, PlanInit, PlanStep, PTL DEF Spec
=============================================================================
