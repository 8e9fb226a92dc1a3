----------------------------- MODULE MCMaxConnection ----------------------------
(* Values for TLC: one call on a client and one download.                  *)
EXTENDS MaxConnection

CONSTANTS read, fetch

MCCalls == {read, fetch}
===============================================================================
