----------------------------- MODULE MCServices -----------------------------
(***************************************************************************)
(* Three services of one process that share no state, in one run: each     *)
(* behaviour is a behaviour of one of them, chosen in the initial state,   *)
(* while the others rest, and the reachable states are the sum of theirs.  *)
(***************************************************************************)
EXTENDS LockService, MCDiscoverSeats, MCWebhooks

VARIABLE service

(* A service with a choice of initial states has one of them while it      *)
(* rests.                                                                  *)
SeatsRest == SeatsInit /\ bookings = {} /\ ask = Ask(s3, 4, 30, Gap(0, 60))
WebhooksRest == WebhookInit /\ Kept = {} /\ ~queueing

ServicesInit ==
  /\ service \in {"lock", "seats", "webhooks"}
  /\ Init
  /\ IF service = "seats" THEN SeatsInit ELSE SeatsRest
  /\ IF service = "webhooks" THEN WebhookInit ELSE WebhooksRest

ServicesNext ==
  /\ UNCHANGED service
  /\ \/ service = "lock" /\ Next
     \/ service # "lock" /\ UNCHANGED vars
  /\ \/ service = "seats" /\ SeatsNext
     \/ service # "seats" /\ UNCHANGED seatsVars
  /\ \/ service = "webhooks" /\ WebhookNext
     \/ service # "webhooks" /\ UNCHANGED webhookVars

ServicesSpec ==
  /\ ServicesInit /\ [][ServicesNext]_<<service, vars, seatsVars, webhookVars>>
  /\ Fairness /\ WebhookFairness
=============================================================================
