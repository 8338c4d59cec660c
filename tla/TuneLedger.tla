---------------------------- MODULE TuneLedger ----------------------------
(***************************************************************************)
(* What `mini-singbox tune` promises, with none of its protocol: the       *)
(* ledger of the values the tool has put into the kernel and of the ones   *)
(* its sysctl.d file will put there at the next boot.                      *)
(*                                                                         *)
(*   mode       "free", or the phase of the ownership record               *)
(*   owned      the keys the record claims                                 *)
(*   residue    the keys whose running value is the tool's and differs     *)
(*              from the value that was there before                       *)
(*   persisted  the keys the tool's sysctl.d file sets                     *)
(*                                                                         *)
(* The tool may change nothing it has not claimed first (Begin before      *)
(* Tune and Persist), and may give a claim up only once nothing of its     *)
(* own is left (Release).  TuneManager implements this specification.      *)
(***************************************************************************)
CONSTANT Key

VARIABLES mode, owned, residue, persisted

ledger == <<mode, owned, residue, persisted>>

Init ==
  /\ mode = "free"
  /\ owned = {}
  /\ residue = {}
  /\ persisted = {}

\* Claim a set of keys: from here on, and only from here on, they may be tuned.
Begin(K) ==
  /\ mode = "free"
  /\ K # {}
  /\ mode' = "applying"
  /\ owned' = K
  /\ UNCHANGED <<residue, persisted>>

\* Put the tool's value into one claimed key.
Tune(k) ==
  /\ mode = "applying"
  /\ k \in owned
  /\ residue' = residue \cup {k}
  /\ UNCHANGED <<mode, owned, persisted>>

\* Write the sysctl.d file for the claimed keys.
Persist ==
  /\ mode = "applying"
  /\ persisted' = owned
  /\ UNCHANGED <<mode, owned, residue>>

Commit ==
  /\ mode = "applying"
  /\ mode' = "active"
  /\ UNCHANGED <<owned, residue, persisted>>

\* The tool's values leave the kernel or its file leaves sysctl.d, whoever
\* does it: a recovery, a rollback or the administrator.
Yield ==
  /\ residue' \in SUBSET residue
  /\ persisted' \in {persisted, {}}
  /\ UNCHANGED <<mode, owned>>

\* A boot starts from other values and reapplies the file.
Boot ==
  /\ residue' \in SUBSET persisted
  /\ UNCHANGED <<mode, owned, persisted>>

\* Give the claim up: nothing of the tool's may be left.
Release ==
  /\ mode # "free"
  /\ residue = {}
  /\ persisted = {}
  /\ mode' = "free"
  /\ owned' = {}
  /\ UNCHANGED <<residue, persisted>>

Next ==
  \/ \E K \in SUBSET Key : Begin(K)
  \/ \E k \in Key : Tune(k)
  \/ Persist
  \/ Commit
  \/ Yield
  \/ Boot
  \/ Release

Spec == Init /\ [][Next]_ledger
=============================================================================
