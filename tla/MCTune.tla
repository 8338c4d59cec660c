------------------------------- MODULE MCTune -------------------------------
(***************************************************************************)
(* Instances of TuneManager for TLC.  k1 is like default_qdisc, with two   *)
(* values BuildPlan replaces, k2 like tcp_congestion_control, where "h" is *)
(* an administrator's choice that it keeps.                                *)
(***************************************************************************)
EXTENDS TuneManager

MCKey     == {"k1", "k2"}
MCOneKey  == {"k2"}
MCVal     == {"g", "h", "t"}
MCRank    == [k \in Key |-> IF k = "k1" THEN 1 ELSE 2]
MCTarget  == [k \in Key |-> "t"]
MCGeneric == [k \in Key |-> IF k = "k1" THEN {"g", "h"} ELSE {"g"}]

\* A boot gives one of two generic settings; every key is always readable.
MCBoot == {[k \in Key |-> "g"], [k \in Key |-> IF k = "k1" THEN "h" ELSE "g"]}

\* A kernel in which k2 cannot be read, and the one booted after it.
MCBootNewKey == {[k \in Key |-> "g"], [k \in Key |-> IF k = "k2" THEN None ELSE "g"]}
=============================================================================
