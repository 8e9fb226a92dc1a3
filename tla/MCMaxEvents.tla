------------------------------ MODULE MCMaxEvents ------------------------------
(* Values for TLC: the bounds are in the configuration.                    *)
EXTENDS MaxEvents
===============================================================================
