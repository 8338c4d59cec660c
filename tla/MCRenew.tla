------------------------------ MODULE MCRenew ------------------------------
(***************************************************************************)
(* Instances of RenewCertificate for TLC: the certificate, its key, one    *)
(* optional client file and config.json, which a renewal leaves alone.     *)
(***************************************************************************)
EXTENDS RenewCertificate

MCRequired == {"tls.crt", "tls.key"}
MCRenewal == MCRequired \cup {"share-hysteria2.txt"}
MCRank == [f \in Renewal |-> CASE f = "tls.crt" -> 1 [] f = "tls.key" -> 2 [] OTHER -> 3]
MCKept == {"config.json"}
=============================================================================
