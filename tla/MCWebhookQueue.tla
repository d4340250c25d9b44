--------------------------- MODULE MCWebhookQueue ---------------------------
(* Model values for the TLC run of WebhookQueue. *)
EXTENDS WebhookQueue, TLC

CONSTANTS l1, w1, w2, u1

=============================================================================
