---------------------------- MODULE Replacement ----------------------------
(***************************************************************************)
(* What `mini-singboxctl certificate renew` promises, with none of its     *)
(* commands: the delivery that is installed is replaced by the next one in *)
(* one step or not at all, and the service never runs anything else.       *)
(*                                                                         *)
(*   delivery  what is installed, or what can be put back at any time      *)
(*   next      what a renewal has generated                                *)
(*   served    what the service has loaded, Nothing when it does not run   *)
(*   over      the renewal was committed, or has given up                  *)
(*                                                                         *)
(* The next delivery may be tried before it is committed, but the service  *)
(* runs the one it has been left with when the renewal is over.            *)
(* RenewCertificate implements this specification.                         *)
(***************************************************************************)
CONSTANTS
  Deliveries,
  Nothing

VARIABLES delivery, next, served, over

renewal == <<delivery, next, served, over>>

Init ==
  /\ delivery \in Deliveries
  /\ next \in Deliveries
  /\ served \in {Nothing, delivery}
  /\ over = FALSE

\* The service is stopped, or fails.
Lose ==
  /\ served' = Nothing
  /\ UNCHANGED <<delivery, next, over>>

\* It is started, with what is installed or, while it can be undone, with the
\* next delivery.
Serve ==
  /\ served = Nothing
  /\ served' \in IF over THEN {delivery} ELSE {delivery, next}
  /\ UNCHANGED <<delivery, next, over>>

\* The one step that cannot be undone: the old delivery must not be running.
Replace ==
  /\ ~over
  /\ served \in {Nothing, next}
  /\ delivery' = next
  /\ over' = TRUE
  /\ UNCHANGED <<next, served>>

\* The next delivery must not be running.
GiveUp ==
  /\ ~over
  /\ served \in {Nothing, delivery}
  /\ over' = TRUE
  /\ UNCHANGED <<delivery, next, served>>

Next == Lose \/ Serve \/ Replace \/ GiveUp

Spec == Init /\ [][Next]_renewal
=============================================================================
