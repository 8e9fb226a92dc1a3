------------------------------ MODULE RetryQueue ------------------------------
(***************************************************************************)
(* The durable text queue that both retry workers keep in SQLite:          *)
(* pending_outbound_messages and pending_inbound_messages have the same    *)
(* columns, and the statements of the two repositories are the same text   *)
(* up to table and key.  A row is a record, a statement is an operator     *)
(* from row to row, and the WHERE clause of a statement is a predicate.    *)
(*                                                                         *)
(* The three timestamps of a row are kept as distances from the present,   *)
(* which is all the statements compare:                                    *)
(*   age    now - created_at, saturated at Ttl                             *)
(*   wait   next_attempt_at - now, 0 when the row is due                   *)
(*   lease  how long lease_until still blocks the row, 0 when it is NULL   *)
(*          or passed; the code compares lease_until < now, so a lease of  *)
(*          Lease seconds blocks the row during Lease + 1 ticks            *)
(* attempts is saturated at AttemptCap, where the backoff is constant.     *)
(* A closed row is due at once if it is ever reopened, so its wait is 0.   *)
(***************************************************************************)
EXTENDS Naturals

CONSTANTS Lease,       \* seconds a leased row is kept from the next poll
          Ttl,         \* seconds after which a row is given up
          AttemptCap,  \* attempt count from which the backoff stays the same
          MaxDelay,    \* the longest backoff
          Delay        \* backoff after the n-th failed attempt

ASSUME QueueAssumption ==
  /\ Lease \in Nat
  /\ Ttl \in Nat \ {0}
  /\ AttemptCap \in Nat \ {0}
  /\ MaxDelay \in Nat
  /\ Delay \in [1..AttemptCap -> 0..MaxDelay]

OpenStatus == {"pending", "retry", "leased"}
Status == OpenStatus \cup {"absent", "delivered", "failed"}

Row == [status: Status, text: BOOLEAN, attempts: 0..AttemptCap,
        wait: 0..MaxDelay, lease: 0..(Lease + 1), age: 0..Ttl]

NoRow == [status |-> "absent", text |-> FALSE, attempts |-> 0,
          wait |-> 0, lease |-> 0, age |-> 0]

IsOpen(r) == r.status \in OpenStatus

CapAttempts(n) == IF n <= AttemptCap THEN n ELSE AttemptCap
OneLess(n) == IF n > 0 THEN n - 1 ELSE 0
GreaterOf(a, b) == IF a >= b THEN a ELSE b

(* INSERT .. ON CONFLICT DO UPDATE .. WHERE status != 'delivered'.  The     *)
(* conflicting row keeps its created_at; everything else is as if new.     *)
Enqueued(r, attempts) ==
  IF r.status = "delivered" THEN r
  ELSE [status |-> "pending", text |-> TRUE,
        attempts |-> GreaterOf(r.attempts, CapAttempts(attempts)),
        wait |-> 0, lease |-> 0, age |-> r.age]

IsDue(r) == IsOpen(r) /\ r.text /\ r.wait = 0 /\ r.lease = 0

CanLease(r) == IsOpen(r) /\ r.text /\ r.lease = 0

Leased(r) == [r EXCEPT !.status = "leased", !.lease = Lease + 1]

Retried(r, delay) ==
  [r EXCEPT !.status = "retry", !.attempts = CapAttempts(@ + 1),
            !.wait = delay, !.lease = 0]

Delivered(r) ==
  [r EXCEPT !.status = "delivered", !.attempts = CapAttempts(@ + 1),
            !.text = FALSE, !.wait = 0, !.lease = 0]

Failed(r) ==
  [r EXCEPT !.status = "failed", !.attempts = CapAttempts(@ + 1),
            !.text = FALSE, !.wait = 0, !.lease = 0]

(* Variant: the age of a row is never looked at.                           *)
NeverExpired(r) == FALSE

IsExpired(r) == r.age >= Ttl

(* One second of wall clock, as the row sees it.                           *)
Aged(r) ==
  IF r.status \notin {"absent", "delivered"}
  THEN [r EXCEPT !.age = IF @ < Ttl THEN @ + 1 ELSE @,
                 !.wait = OneLess(@), !.lease = OneLess(@)]
  ELSE r

(* What the job's snapshot of attempts makes the next backoff.             *)
NextDelay(attempts) == Delay[CapAttempts(attempts + 1)]
===============================================================================
