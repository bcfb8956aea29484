---------------------------- MODULE MCWebhooks ----------------------------
(* Small instances of Webhooks: endpoints as model values, the engine's own drain *)
(* and one drain started by the API.                                             *)
(*                                                                               *)
(* MCSpec checks two settings in one run.  In "race" one endpoint is served by    *)
(* both drains, with a replay and no fault; in "queue" two endpoints share the    *)
(* engine's drain, with a restart or a failed statement.                         *)
EXTENDS Webhooks

CONSTANTS e1, e2, w1, w2

VARIABLE setting

MCInit == Init /\ setting \in {"race", "queue"}

MCNext ==
  /\ Next
  /\ UNCHANGED setting
  /\ setting = "race" => there'[e2] = "no" /\ faults' = 0
  /\ setting = "queue" => wpc'[w2] = "idle" /\ replays' = 0

MCSpec == MCInit /\ [][MCNext]_<<vars, setting>> /\ \A w \in Drainers : WF_vars(Step(w))
=============================================================================
