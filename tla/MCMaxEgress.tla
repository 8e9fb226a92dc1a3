----------------------------- MODULE MCMaxEgress -----------------------------
(* Values for the runs of MaxEgress.                                       *)
EXTENDS MaxEgress
===============================================================================
