----------------------------- MODULE MCWebhooks -----------------------------
(* Two webhooks, two URLs, one booking event.                              *)
EXTENDS WebhookDelivery, TLC

CONSTANTS a1
MCEventOf == a1 :> "booking.created"
=============================================================================
