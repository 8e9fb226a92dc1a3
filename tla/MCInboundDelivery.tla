--------------------------- MODULE MCInboundDelivery ---------------------------
(* Values for the runs of InboundDelivery; the backoff is that of          *)
(* MCOutboundDelivery.                                                     *)
EXTENDS InboundDelivery, TLC

MCDelay == <<1, 2>>
===============================================================================
