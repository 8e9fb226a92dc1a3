------------------------------ MODULE MCChatTopics ------------------------------
(* Values for TLC: who works at the same time in the module ChatTopics.    *)
EXTENDS ChatTopics

CONSTANTS c1, c2, h1, h2, p1, p2

MCScenarios ==
  {{h1, h2, Recorder}, {h1, h2, Operator}, {h1, Operator, Recorder},
   {h1, Operator, Scan}, {h1, p1, p2}, {p1, p2, Recorder}}
===============================================================================
