--------------------------- MODULE MCAlertOutbox ---------------------------
(* Alerts are model values; two targets, as when ops_topic_id is set.      *)
EXTENDS AlertOutbox

CONSTANTS owner_dm, ops_topic, a1, a2

MCOrder == <<owner_dm, ops_topic>>
MCAudience == <<<<owner_dm, ops_topic>>, <<ops_topic>>>>
=============================================================================
