------------------------------ MODULE MCFiles ------------------------------
(***************************************************************************)
(* Instances of AtomicFiles for TLC: the sets of generate have three files *)
(* or more; three are enough for a first, a middle and a last one.         *)
(***************************************************************************)
EXTENDS AtomicFiles

MCFile == {"config.json", "tls.crt", "tls.key"}
MCRank == [f \in File |-> CASE f = "config.json" -> 1 [] f = "tls.crt" -> 2 [] OTHER -> 3]
=============================================================================
