---------------------------- MODULE MCMaxWatchdog ----------------------------
(* The waits in the order the configuration has them: an alert after 60 s, *)
(* a self-heal after 180 s, a startup grace of 900 s, a cooldown of 1800 s.*)
EXTENDS MaxWatchdog
=============================================================================
