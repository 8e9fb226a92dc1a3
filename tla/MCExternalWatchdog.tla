------------------------ MODULE MCExternalWatchdog -------------------------
(* The bridge runs well, has stopped, or needs a login while the internal  *)
(* controller manages the route.                                           *)
EXTENDS ExternalWatchdog

MCWatched == {"container_down", "subsystem_issue"}
MCFailAfter == [r \in MCWatched |-> IF r = "container_down" THEN 1 ELSE 2]

MCWell ==
  [running |-> TRUE, healthy |-> TRUE, beats |-> TRUE, space |-> TRUE,
   answers |-> TRUE, link |-> "ok", other |-> FALSE, outbox |-> FALSE,
   backlog |-> FALSE, route |-> "expected", controller |-> "manages"]
MCConditions == {MCWell, [MCWell EXCEPT !.running = FALSE],
                 [MCWell EXCEPT !.link = "reauth"]}
=============================================================================
