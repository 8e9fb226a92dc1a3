-------------------------- MODULE MCOutboundDelivery --------------------------
(* Values for the runs of OutboundDelivery.  The backoff doubles from one  *)
(* second and is capped at two, so a row is retried before and after the   *)
(* cap.                                                                    *)
EXTENDS OutboundDelivery

MCDelay == <<1, 2>>
===============================================================================
