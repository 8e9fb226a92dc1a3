----------------------------- MODULE TextContract -----------------------------
(***************************************************************************)
(* What either direction of the bridge promises about a text: it is        *)
(* delivered, or dropped with a reason, at once or after some time in the  *)
(* durable queue, and what is delivered or dropped stays so.  A text may   *)
(* stay offered: a crash can come before it is in the queue.               *)
(***************************************************************************)
CONSTANT Texts

VARIABLE fate

Init == fate = [t \in Texts |-> "offered"]

Becomes(t, from, to) == fate[t] \in from /\ fate' = [fate EXCEPT ![t] = to]

Queue(t) == Becomes(t, {"offered"}, "queued")
Deliver(t) == Becomes(t, {"offered", "queued"}, "delivered")
Drop(t) == Becomes(t, {"offered", "queued"}, "dropped")

Next == \E t \in Texts : Queue(t) \/ Deliver(t) \/ Drop(t)

Safety == Init /\ [][Next]_fate

(* The queue is worked off.                                                *)
Spec ==
  /\ Safety
  /\ \A t \in Texts : WF_fate(fate[t] = "queued" /\ (Deliver(t) \/ Drop(t)))
===============================================================================
