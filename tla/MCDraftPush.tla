---------------------------- MODULE MCDraftPush ----------------------------
(* Small instances of DraftPush: one draft in one account, or in two of   *)
(* which the second holds a draft of another client.                      *)
EXTENDS DraftPush

CONSTANTS a1, a2, d1
=============================================================================
