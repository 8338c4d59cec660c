------------------------------- MODULE MCPlan -------------------------------
(***************************************************************************)
(* TunePlan with every value its comparisons tell apart on one kind of     *)
(* memory, and every kind of memory with one value, and a uint64 of ten    *)
(* bits: 2 * 4 * 125 and 255 * 4 fit, 3 * 4 * 125 and 256 * 4 do not.      *)
(***************************************************************************)
EXTENDS TunePlan

Values == [k \in managedKeys |->
             CASE k = "qdisc" -> {"", "fq", "pfifo_fast", "fq_codel", "cake"}
               [] k = "cc" -> {"", "bbr", "cubic", "reno", "vegas"}
               [] k = "mtu_probing" -> {"", "0", "1", "2", "3"}
               [] k = "slow_start" -> {"1"}]

Default == [sysctl |-> [k \in managedKeys |-> CASE k = "qdisc" -> "fq_codel" [] k = "cc" -> "cubic"
                                                [] k = "mtu_probing" -> "0" [] k = "slow_start" -> "1"],
            protocols |-> {"reality"}, availableCC |-> {"reno", "bbr"}, fqTraces |-> {"module"},
            root |-> TRUE, writable |-> managedKeys, memTotal |-> 40, logical |-> 4, cpus |-> 0..3,
            cgroup |-> [mode |-> "v2", path |-> <<>>, hidden |-> 0, shown |-> TRUE, limit |-> [i \in {0} |-> -1]]]

Settings ==
  {[Default EXCEPT !.sysctl = v, !.protocols = P, !.availableCC = A, !.fqTraces = F, !.root = r, !.writable = W] :
     v \in {v \in [managedKeys -> UNION {Values[k] : k \in managedKeys}] : \A k \in managedKeys : v[k] \in Values[k]},
     P \in {{"hy2"}, {"anytls", "hy2"}}, A \in {{"cubic"}, {"cubic", "bbr"}}, F \in {{}, {"modules"}},
     r \in BOOLEAN, W \in {{}, {"qdisc"}, {"cc", "mtu_probing"}, managedKeys}}

Limits == {-1, 0, 8, 1020}

Cgroups ==
  UNION {[mode : {"v1", "v2", "hybrid"}, path : {SubSeq(<<"docker", "c">>, 1, n)}, hidden : 0..n,
          shown : BOOLEAN, limit : [0..n -> Limits]] : n \in 0..2}

Memories == {[Default EXCEPT !.memTotal = t, !.cgroup = c] : t \in {-1, 130, 255, 256}, c \in Cgroups}

CPUs == {[Default EXCEPT !.logical = l, !.cpus = S] : l \in {1, 3}, S \in SUBSET (0..4)}

MCMachines == Settings \cup Memories \cup CPUs
=============================================================================
