------------------------------ MODULE MCMediaRetry ------------------------------
(* Values for TLC, for the module MediaRetry.                              *)
EXTENDS MediaRetry, TLC

A(video, ref, big) == [video |-> video, ref |-> ref, big |-> big]
Video == A(TRUE, "stable", FALSE)
Photo == A(FALSE, "stable", FALSE)
Document == A(FALSE, "cached", FALSE)
Lost == A(FALSE, "late", FALSE)
Large == A(FALSE, "stable", TRUE)

MCOne == {1}
MCNothing == {}
MCAlone == {1 :> a : a \in {Video, Photo, Document, Lost, Large}}
===============================================================================
