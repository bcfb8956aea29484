-------------------------- MODULE MCWebhooksClaims --------------------------
(* Small instances of Webhooks for what the repository says of it and the code *)
(* does not keep.                                                              *)
EXTENDS Webhooks

CONSTANTS e1, e2, w1, w2
=============================================================================
