--------------------------- MODULE MC_WebhookQueue --------------------------
(* WebhookQueue with a handful of deliveries and short counts.              *)
EXTENDS WebhookQueue
=============================================================================
