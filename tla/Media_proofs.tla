----------------------------- MODULE Media_proofs ------------------------------
(* The media: how often one is posted, and which file it is.               *)
EXTENDS MediaRetry, MediaFiles, FiniteSetTheorems, NaturalsInduction,
        WellFoundedInduction, TLAPS

-----------------------------------------------------------------------------
(* No medium is posted more often than BoundedCopies allows, for any       *)
(* number of attachments, of events and of attempts.  The invariant counts *)
(* those that may still post a medium: nobody may without a post left for  *)
(* him, and one is left for the next while nothing is recorded.            *)

(* The least of some attachments is one of them.                           *)
LEMMA FirstIsIn ==
  ASSUME NEW S \in SUBSET Parts, S # {} PROVE First(S) \in S
<1>1. S \subseteq Nat
  BY MediaAssumption
<1>2. PICK m \in S : \A k \in S : <<k, m>> \notin OpToRel(<, Nat)
  BY <1>1, WFMin, NatLessThanWellFounded, Zenon
<1>3. \A k \in S : ~(k < m)
  BY <1>1, <1>2, Zenon DEF OpToRel
<1>4. \A k \in S : m <= k
  BY <1>1, <1>3
<1>5. QED BY <1>4, Zenon DEF First

-----------------------------------------------------------------------------
(* The types, and what the fields of a call have to do with each other.    *)
CallRecord ==
  [pc : CallPC, v : Versions, got : SUBSET Parts, todo : SUBSET Parts,
   want : SUBSET Parts, sent : SUBSET Parts, posted : BOOLEAN,
   legacy : BOOLEAN]

CallFits(k) ==
  /\ k \in CallRecord
  /\ k.got \subseteq Has(k.v) /\ k.todo \subseteq Has(k.v)
  /\ k.want \subseteq Has(k.v)
  /\ k.sent \subseteq k.got
  /\ k.pc = "idle" => k = NoCall
  /\ k.pc \in {"insert", "saving"} => k.todo # {}
  /\ k.pc = "late" => k.todo \subseteq k.got

JobRecord ==
  [pc : WorkerPC, key : Versions \X (Parts \cup {0}), ref : Refs,
   tries : 0..MaxAttempts]

TablesFit ==
  /\ kind \in Mixes
  /\ row \in [Keys -> Row]
  /\ cache \subseteq Keys
  /\ part \subseteq Parts
  /\ keyed \subseteq Versions
  /\ log \in [Versions -> LogStatus]

CallsFit ==
  /\ DOMAIN call = Calls /\ call = [c \in Calls |-> call[c]]
  /\ \A c \in Calls : CallFits(call[c])

WorkerFits ==
  /\ worker \in JobRecord
  /\ worker.pc # "idle" => worker.key \in Keys
  /\ \A j \in batch : j \in JobRecord /\ j.pc = "look" /\ j.key \in Keys

SeenFits ==
  /\ posted \subseteq Parts
  /\ spare \in [Parts -> Int]
  /\ told \subseteq Parts
  /\ faults \in 0..MaxFaults

Typed == TablesFit /\ CallsFit /\ WorkerFits /\ SeenFits

(* Who may still post a medium: the calls, and the worker, counted as -1.  *)
MayPost(c, p) ==
  \/ At(c, "sending") /\ p \in call[c].todo
  \/ At(c, "saving") /\ p \in call[c].todo \ {Next1(c)}
  \/ At(c, "late") /\ p \in call[c].todo
WorkerMayPost(p) == WorkerAt("send") /\ P = p
Posters(p) ==
  {c \in Calls : MayPost(c, p)} \cup (IF WorkerMayPost(p) THEN {-1} ELSE {})

(* Who has posted it and has to record that it did.                        *)
Owes(c, p) ==
  \/ At(c, "saving") /\ Next1(c) = p
  \/ At(c, "late") /\ p \in call[c].sent
WorkerOwes(p) == WorkerAt("save") /\ P = p

CoveredAt(p) ==
  /\ Cardinality(Posters(p)) <= spare[p]
  /\ p \notin part /\ ~Unrecorded(p) => 1 <= spare[p]
Covered == \A p \in Parts : CoveredAt(p)

IInv == Typed /\ Covered

LEMMA UnrecordedIsOwed ==
  \A p : Unrecorded(p) <=> WorkerOwes(p) \/ \E c \in Calls : Owes(c, p)
  BY Zenon DEF Unrecorded, WorkerOwes, Owes

LEMMA UnrecordedIsOwedAfter ==
  \A p : Unrecorded(p)' <=> WorkerOwes(p)' \/ \E c \in Calls : Owes(c, p)'
  BY Zenon DEF Unrecorded, WorkerOwes, Owes

-----------------------------------------------------------------------------
(* The types hold.                                                         *)
LEMMA NoCallFits == CallFits(NoCall) /\ CallFits([NoCall EXCEPT !.pc = "over"])
<1>1. NoCall \in CallRecord
  BY DEF NoCall, CallRecord, CallPC, Versions
<1>2. [NoCall EXCEPT !.pc = "over"] \in CallRecord
  BY DEF NoCall, CallRecord, CallPC, Versions
<1>3. CallFits(NoCall)
  <2>1. /\ NoCall.pc = "idle" /\ NoCall.got = {} /\ NoCall.todo = {}
        /\ NoCall.want = {} /\ NoCall.sent = {}
    BY DEF NoCall
  <2>2. QED BY <1>1, <2>1 DEF CallFits
<1>4. CallFits([NoCall EXCEPT !.pc = "over"])
  <2> DEFINE k == [NoCall EXCEPT !.pc = "over"]
  <2>1. /\ k.pc = "over" /\ k.got = {} /\ k.todo = {}
        /\ k.want = {} /\ k.sent = {}
    BY DEF NoCall
  <2> HIDE DEF k
  <2>2. CallFits(k)
    BY <1>2, <2>1 DEF CallFits, k
  <2>3. QED BY <2>2 DEF k
<1>5. QED BY <1>3, <1>4

LEMMA NoJobFits == NoJob \in JobRecord /\ NoJob.pc = "idle"
  BY MediaAssumption DEF NoJob, JobRecord, WorkerPC, Versions, Refs

LEMMA NoRowFits == NoRow \in Row /\ Delivered \in Row
<1>1. 0 \in 0..MaxAttempts
  BY MediaAssumption
<1>2. NoRow \in Row
  BY <1>1 DEF NoRow, Row, OpenStatus, Refs
<1>3. QED BY <1>2 DEF Delivered, Row

LEMMA RowsFit ==
  ASSUME NEW r \in Row
  PROVE  /\ \A ref \in Refs : Enqueued(r, ref) \in Row
         /\ Leased(r) \in Row
         /\ [r EXCEPT !.held = FALSE] \in Row
<1>1. \A ref \in Refs : Enqueued(r, ref) \in Row
  BY DEF Enqueued, Row, OpenStatus
<1>2. QED BY <1>1 DEF Leased, Row, OpenStatus

LEMMA TriedRowsFit ==
  ASSUME NEW r \in Row, NEW k
  PROVE  Retried(k, r) \in Row /\ Failed(k, r) \in Row
<1>1. PICK n \in 0..MaxAttempts :
        n = IF kind[k[2]].video /\ r.tries < MaxAttempts
            THEN r.tries + 1 ELSE r.tries
  BY MediaAssumption DEF Row
<1>2. Tried(k, r) = [r EXCEPT !.tries = n, !.held = FALSE]
  BY <1>1 DEF Tried
<1>3. Tried(k, r) \in Row
  BY <1>2 DEF Row
<1>4. QED BY <1>3 DEF Retried, Failed, Row, OpenStatus

LEMMA RefType ==
  ASSUME TablesFit, NEW p \in Parts PROVE RefOf(p) \in Refs
  BY MediaAssumption DEF TablesFit, RefOf, Kind

LEMMA KeyFacts ==
  /\ \A v \in Versions : \A p \in Has(v) : <<v, p>> \in Keys /\ p \in Parts
  /\ \A k \in Keys : k \in Versions \X Parts /\ k[2] \in Parts
  /\ Has("base") \subseteq Parts /\ Has("edit") = Parts
<1>1. \A v \in Versions : Has(v) \subseteq Parts
  BY DEF Has
<1>2. QED BY <1>1 DEF Keys, Has, Versions

LEMMA InitIInv == Init => IInv
<1> SUFFICES ASSUME Init PROVE IInv
  OBVIOUS
<1>1. TablesFit
  BY NoRowFits DEF Init, TablesFit, LogStatus
<1>2. CallsFit
  BY NoCallFits DEF Init, CallsFit
<1>3. WorkerFits
  BY NoJobFits DEF Init, WorkerFits
<1>4. SeenFits
  BY MediaAssumption DEF Init, SeenFits
<1>5. ASSUME NEW p \in Parts PROVE CoveredAt(p)
  <2>1. Posters(p) = {}
    BY <1>5 DEF Init, Posters, MayPost, WorkerMayPost, At, WorkerAt, NoCall, NoJob
  <2>2. spare[p] = 1
    BY <1>5 DEF Init
  <2>3. QED BY <2>1, <2>2, FS_EmptySet DEF CoveredAt
<1>6. QED BY <1>1, <1>2, <1>3, <1>4, <1>5 DEF IInv, Typed, Covered

-----------------------------------------------------------------------------
(* Counting those that may post.                                           *)
LEMMA CallsFinite ==
  /\ IsFiniteSet(Calls \cup {-1})
  /\ Cardinality(Calls) \in Nat
  /\ Cardinality(Calls \cup {-1}) = Cardinality(Calls) + 1
<1>1. -1 \notin Calls /\ IsFiniteSet(Calls)
  BY MediaAssumption
<1>2. QED BY <1>1, FS_AddElement, FS_CardinalityType

LEMMA Counts ==
  ASSUME NEW S, S \subseteq Calls \cup {-1}
  PROVE  /\ IsFiniteSet(S)
         /\ Cardinality(S) \in Nat
         /\ Cardinality(S) <= MaxSpare
         /\ \A T : T \subseteq S => Cardinality(T) <= Cardinality(S)
         /\ \A x \in S : Cardinality(S \ {x}) = Cardinality(S) - 1
         /\ \A x : Cardinality(S \cup {x}) <= Cardinality(S) + 1
<1>1. IsFiniteSet(S) /\ Cardinality(S) <= Cardinality(Calls \cup {-1})
  BY CallsFinite, FS_Subset
<1>2. Cardinality(S) \in Nat
  BY <1>1, FS_CardinalityType
<1>3. Cardinality(S) <= MaxSpare
  BY <1>1, <1>2, CallsFinite, MediaAssumption
<1>4. \A T : T \subseteq S => Cardinality(T) <= Cardinality(S)
  BY <1>1, FS_Subset
<1>5. \A x \in S : Cardinality(S \ {x}) = Cardinality(S) - 1
  BY <1>1, FS_RemoveElement
<1>6. \A x : Cardinality(S \cup {x}) <= Cardinality(S) + 1
  <2>1. TAKE x
  <2>2. Cardinality(S \cup {x})
          = IF x \in S THEN Cardinality(S) ELSE Cardinality(S) + 1
    BY <1>1, FS_AddElement
  <2>3. QED BY <2>2, <1>2
<1>7. QED BY <1>1, <1>2, <1>3, <1>4, <1>5, <1>6

LEMMA PostersAre ==
  \A p : Posters(p) \subseteq Calls \cup {-1}
  BY DEF Posters

LEMMA PostersAreAfter ==
  \A p : Posters(p)' \subseteq Calls \cup {-1}
  BY DEF Posters

(* The four things that can happen to one medium: nothing,                 *)
LEMMA Quiet ==
  ASSUME Covered, SeenFits, NEW p \in Parts,
         Posters(p)' \subseteq Posters(p), spare'[p] = spare[p],
         p \notin part' /\ ~Unrecorded(p)' => p \notin part /\ ~Unrecorded(p)
  PROVE  CoveredAt(p)'
<1> DEFINE A == Posters(p)
           B == Posters(p)'
<1>1. A \subseteq Calls \cup {-1} /\ B \subseteq A
  BY PostersAre
<1>2. PICK s \in Int : s = spare[p]
  BY DEF SeenFits
<1>3. Cardinality(A) <= s
  BY <1>2 DEF Covered, CoveredAt
<1> HIDE DEF A, B
<1>4. Cardinality(B) <= Cardinality(A) /\ Cardinality(B) \in Nat
      /\ Cardinality(A) \in Nat
  BY <1>1, Counts
<1>5. Cardinality(B) <= s
  BY <1>3, <1>4
<1>6. p \notin part' /\ ~Unrecorded(p)' => 1 <= s
  BY <1>2 DEF Covered, CoveredAt
<1>7. QED BY <1>2, <1>5, <1>6 DEF CoveredAt, B

(* somebody posts it,                                                      *)
LEMMA Posted ==
  ASSUME Covered, SeenFits, NEW p \in Parts, NEW w \in Posters(p),
         Posters(p)' \subseteq Posters(p) \ {w}, spare'[p] = spare[p] - 1,
         Unrecorded(p)'
  PROVE  CoveredAt(p)'
<1> DEFINE A == Posters(p)
           B == Posters(p)'
<1>1. A \subseteq Calls \cup {-1} /\ B \subseteq A \ {w} /\ w \in A
  BY PostersAre
<1>2. PICK s \in Int : s = spare[p]
  BY DEF SeenFits
<1>3. Cardinality(A) <= s
  BY <1>2 DEF Covered, CoveredAt
<1> HIDE DEF A, B
<1>4. Cardinality(A) \in Nat /\ Cardinality(A \ {w}) = Cardinality(A) - 1
  BY <1>1, Counts
<1>5. A \ {w} \subseteq Calls \cup {-1}
  BY <1>1
<1>6. Cardinality(B) <= Cardinality(A \ {w}) /\ Cardinality(B) \in Nat
  BY <1>1, <1>5, Counts
<1>7. Cardinality(B) <= s - 1
  BY <1>3, <1>4, <1>6
<1>8. QED BY <1>2, <1>7 DEF CoveredAt, B

(* an excuse is written down while at most one more wants to post it,      *)
LEMMA Excused ==
  ASSUME Covered, SeenFits, NEW p \in Parts, NEW w,
         Posters(p)' \subseteq Posters(p) \cup {w},
         spare'[p] = IF spare[p] < MaxSpare THEN spare[p] + 1 ELSE spare[p]
  PROVE  CoveredAt(p)'
<1> DEFINE A == Posters(p)
           B == Posters(p)'
<1>1. /\ A \subseteq Calls \cup {-1} /\ B \subseteq A \cup {w}
      /\ B \subseteq Calls \cup {-1}
  BY PostersAre, PostersAreAfter
<1>2. PICK s \in Int : s = spare[p]
  BY DEF SeenFits
<1>3. Cardinality(A) <= s
  BY <1>2 DEF Covered, CoveredAt
<1>4. PICK m \in Nat : m = MaxSpare /\ 1 <= m
  BY MediaAssumption
<1> HIDE DEF A, B
<1>5. /\ Cardinality(A) \in Nat /\ Cardinality(B) \in Nat
      /\ Cardinality(B) <= m
  BY <1>1, <1>4, Counts
<1>6. B \subseteq A \cup {w} /\ IsFiniteSet(A)
  BY <1>1, Counts
<1>7. /\ Cardinality(B) <= Cardinality(A \cup {w})
      /\ Cardinality(A \cup {w}) \in Nat
  BY <1>6, FS_AddElement, FS_Subset, FS_CardinalityType
<1>8. Cardinality(A \cup {w}) <= Cardinality(A) + 1
  BY <1>1, Counts
<1>9. Cardinality(B) <= Cardinality(A) + 1
  BY <1>5, <1>7, <1>8
<1>10. PICK t \in Int : t = spare'[p] /\ t = IF s < m THEN s + 1 ELSE s
  BY <1>2, <1>4
<1>11. Cardinality(B) <= t /\ 1 <= t
  BY <1>3, <1>4, <1>5, <1>9, <1>10
<1>12. QED BY <1>10, <1>11 DEF CoveredAt, B

(* or the first looks, while nobody may post it and nothing is recorded.   *)
LEMMA FirstLooks ==
  ASSUME Covered, SeenFits, NEW p \in Parts, NEW w,
         Posters(p) = {}, Posters(p)' \subseteq {w}, spare'[p] = spare[p],
         p \notin part, ~Unrecorded(p)
  PROVE  CoveredAt(p)'
<1> DEFINE B == Posters(p)'
<1>1. B \subseteq {w}
  OBVIOUS
<1>2. PICK s \in Int : s = spare[p] /\ 1 <= s
  BY DEF SeenFits, Covered, CoveredAt
<1> HIDE DEF B
<1>3. Cardinality(B) <= 1 /\ Cardinality(B) \in Nat
  <2>1. B = {} \/ B = {w}
    BY <1>1
  <2>2. Cardinality({}) = 0 /\ Cardinality({w}) = 1
    BY FS_EmptySet, FS_Singleton
  <2>3. QED BY <2>1, <2>2
<1>4. Cardinality(B) <= s
  BY <1>2, <1>3
<1>5. QED BY <1>2, <1>4 DEF CoveredAt, B

-----------------------------------------------------------------------------
(* What one call changes.                                                  *)
OnlyCall(c) == call' = [call EXCEPT ![c] = call'[c]] /\ UNCHANGED worker

LEMMA OthersStay ==
  ASSUME CallsFit, NEW c \in Calls, OnlyCall(c), NEW d \in Calls, d # c
  PROVE  /\ call'[d] = call[d]
         /\ \A p : MayPost(d, p)' <=> MayPost(d, p)
         /\ \A p : Owes(d, p)' <=> Owes(d, p)
<1>1. call'[d] = call[d]
  BY DEF OnlyCall, CallsFit
<1>2. QED BY <1>1 DEF MayPost, Owes, At, Next1

LEMMA WorkerStays ==
  ASSUME NEW c \in Calls, OnlyCall(c)
  PROVE  \A p : /\ WorkerMayPost(p)' <=> WorkerMayPost(p)
                /\ WorkerOwes(p)' <=> WorkerOwes(p)
  BY DEF OnlyCall, WorkerMayPost, WorkerOwes, WorkerAt, P

LEMMA CallFitsAfter ==
  ASSUME CallsFit, NEW c \in Calls, NEW k, CallFits(k),
         call' = [call EXCEPT ![c] = k]
  PROVE  CallsFit' /\ call'[c] = k /\ call' = [call EXCEPT ![c] = call'[c]]
<1>1. \A d \in Calls : call'[d] = IF d = c THEN k ELSE call[d]
  BY DEF CallsFit
<1>2. \A d \in Calls : CallFits(call'[d])
  BY <1>1 DEF CallsFit
<1>3. DOMAIN call' = Calls /\ call' = [d \in Calls |-> call'[d]]
  BY DEF CallsFit
<1>4. QED BY <1>1, <1>2, <1>3 DEF CallsFit, CallFits

(* A medium the call neither turns to nor forgets is not disturbed.        *)
LEMMA QuietCall ==
  ASSUME Covered, SeenFits, CallsFit, NEW c \in Calls, OnlyCall(c),
         NEW p \in Parts, spare'[p] = spare[p], part \subseteq part',
         MayPost(c, p)' => MayPost(c, p),
         Owes(c, p) => Owes(c, p)' \/ p \in part'
  PROVE  CoveredAt(p)'
<1>1. \A d \in Calls : MayPost(d, p)' => MayPost(d, p)
  BY OthersStay
<1>2. Posters(p)' \subseteq Posters(p)
  BY <1>1, WorkerStays DEF Posters
<1>3. Unrecorded(p) => Unrecorded(p)' \/ p \in part'
  <2>1. SUFFICES ASSUME Unrecorded(p) PROVE Unrecorded(p)' \/ p \in part'
    OBVIOUS
  <2>2. CASE WorkerOwes(p)
    BY <2>2, WorkerStays, UnrecordedIsOwedAfter
  <2>3. ASSUME NEW d \in Calls, Owes(d, p) PROVE Unrecorded(p)' \/ p \in part'
    BY <2>3, OthersStay, UnrecordedIsOwedAfter
  <2>4. QED BY <2>1, <2>2, <2>3, UnrecordedIsOwed
<1>4. p \notin part' /\ ~Unrecorded(p)' => p \notin part /\ ~Unrecorded(p)
  BY <1>3
<1>5. QED BY <1>2, <1>4, Quiet
LEMMA CallKeeps ==
  ASSUME IInv, NEW c \in Calls, NEW k, CallFits(k),
         call' = [call EXCEPT ![c] = k], UNCHANGED <<worker, batch>>,
         TablesFit', SeenFits', \A p \in Parts : CoveredAt(p)'
  PROVE  IInv'
<1>1. CallsFit'
  BY CallFitsAfter DEF IInv, Typed
<1>2. WorkerFits'
  BY DEF IInv, Typed, WorkerFits
<1>3. QED BY <1>1, <1>2 DEF IInv, Typed, Covered

(* The call neither begins to post nor ceases to owe.                      *)
LEMMA QuietCallKeeps ==
  ASSUME IInv, NEW c \in Calls, NEW k, CallFits(k),
         call' = [call EXCEPT ![c] = k],
         UNCHANGED <<worker, batch, posted, spare, told, faults>>,
         TablesFit', part \subseteq part',
         \A p \in Parts : /\ MayPost(c, p)' => MayPost(c, p)
                          /\ Owes(c, p) => Owes(c, p)' \/ p \in part'
  PROVE  IInv'
<1>1. CallsFit /\ SeenFits /\ Covered
  BY DEF IInv, Typed
<1>2. OnlyCall(c)
  BY <1>1, CallFitsAfter DEF OnlyCall
<1>3. SeenFits'
  BY <1>1 DEF SeenFits
<1>4. ASSUME NEW p \in Parts PROVE CoveredAt(p)'
  <2>1. spare'[p] = spare[p]
    OBVIOUS
  <2>2. QED BY <1>1, <1>2, <2>1, QuietCall
<1>5. QED BY <1>3, <1>4, CallKeeps

(* Before and after it the call has nothing to do with posting.            *)
LEMMA IdleCallKeeps ==
  ASSUME IInv, NEW c \in Calls, NEW k, CallFits(k),
         call' = [call EXCEPT ![c] = k],
         UNCHANGED <<worker, batch, posted, spare, told, faults>>,
         TablesFit', part \subseteq part',
         call[c].pc \notin {"saving", "late"},
         k.pc \notin {"sending", "saving", "late"}
  PROVE  IInv'
<1>1. call'[c] = k
  BY CallFitsAfter DEF IInv, Typed
<1>2. \A p \in Parts : ~MayPost(c, p)' /\ ~Owes(c, p)
  BY <1>1 DEF MayPost, Owes, At
<1>3. QED BY <1>2, QuietCallKeeps

LEMMA SameTables ==
  ASSUME TablesFit, UNCHANGED <<kind, db>> PROVE TablesFit' /\ part' = part
  BY DEF TablesFit, db

LEMMA ArriveKeeps ==
  ASSUME IInv, NEW c \in Calls, NEW v \in Versions, NEW got \in SUBSET Parts,
         Arrive(c, v, got)
  PROVE  IInv'
<1>1. TablesFit /\ CallsFit /\ SeenFits
  BY DEF IInv, Typed
<1>2. /\ TablesFit' /\ part' = part
      /\ UNCHANGED <<worker, batch, posted, spare, told, faults>>
  BY <1>1, SameTables DEF Arrive, seen
<1>3. call[c] = NoCall /\ CallFits(call[c])
  BY <1>1 DEF Arrive, At, CallsFit, CallFits
<1> DEFINE k == [NoCall EXCEPT !.pc = "checking", !.v = v, !.got = got]
<1>4. call' = [call EXCEPT ![c] = k]
  BY <1>1, <1>3 DEF Arrive, CallsFit
<1>5. /\ k.pc = "checking" /\ k.v = v /\ k.got = got
      /\ k.todo = {} /\ k.want = {} /\ k.sent = {}
  BY DEF NoCall
<1>6. CallFits(k)
  <2>1. k \in CallRecord
    BY NoCallFits DEF CallFits, CallRecord, CallPC
  <2>2. QED BY <1>5, <2>1 DEF CallFits, Arrive
<1>7. k.pc = "checking" /\ call[c].pc = "idle"
  BY <1>3, <1>5 DEF NoCall
<1> HIDE DEF k
<1>8. QED BY <1>2, <1>4, <1>6, <1>7, IdleCallKeeps

LEMMA CheckDuplicateKeeps ==
  ASSUME IInv, NEW c \in Calls, CheckDuplicate(c) PROVE IInv'
<1>1. TablesFit /\ CallsFit /\ CallFits(call[c])
  BY DEF IInv, Typed, CallsFit
<1>2. /\ TablesFit' /\ part' = part
      /\ UNCHANGED <<worker, batch, posted, spare, told, faults>>
  BY <1>1, SameTables DEF CheckDuplicate, seen
<1> DEFINE k == [call[c] EXCEPT !.pc = "accepted"]
<1>3. call' = [call EXCEPT ![c] = k]
  BY <1>1 DEF CheckDuplicate, Goto, CallsFit
<1>4. CallFits(k) /\ k.pc = "accepted"
  BY <1>1 DEF CallFits, CallRecord, CallPC
<1>5. call[c].pc = "checking"
  BY DEF CheckDuplicate, At
<1> HIDE DEF k
<1>6. QED BY <1>2, <1>3, <1>4, <1>5, IdleCallKeeps

LEMMA SaveKeyKeeps ==
  ASSUME IInv, NEW c \in Calls, SaveKey(c) PROVE IInv'
<1>1. TablesFit /\ CallsFit /\ CallFits(call[c])
  BY DEF IInv, Typed, CallsFit
<1>2. call[c].v \in Versions
  BY <1>1 DEF CallFits, CallRecord
<1>3. /\ TablesFit' /\ part' = part
      /\ UNCHANGED <<worker, batch, posted, spare, told, faults>>
  BY <1>1, <1>2 DEF SaveKey, seen, TablesFit
<1> DEFINE k == [call[c] EXCEPT !.pc = "failures", !.todo = Missing(c),
                                !.legacy = EditResolved(call[c].v)]
<1>4. call' = [call EXCEPT ![c] = k]
  BY <1>1 DEF SaveKey, CallsFit
<1>5. Missing(c) \subseteq Has(call[c].v) /\ Missing(c) \subseteq Parts
  BY <1>2, KeyFacts DEF Missing
<1>6. EditResolved(call[c].v) \in BOOLEAN
  BY DEF EditResolved
<1>7. CallFits(k) /\ k.pc = "failures"
  BY <1>1, <1>5, <1>6 DEF CallFits, CallRecord, CallPC
<1>8. call[c].pc = "accepted"
  BY DEF SaveKey, At
<1> HIDE DEF k
<1>9. QED BY <1>3, <1>4, <1>7, <1>8, IdleCallKeeps

LEMMA ExamineFailureKeeps ==
  ASSUME IInv, NEW c \in Calls, ExamineFailure(c) PROVE IInv'
<1>1. TablesFit /\ CallsFit /\ CallFits(call[c])
  BY DEF IInv, Typed, CallsFit
<1>2. /\ call[c].v \in Versions /\ call[c].todo # {}
      /\ call[c].todo \subseteq Parts
  BY <1>1 DEF ExamineFailure, CallFits, CallRecord
<1>3. Next1(c) \in call[c].todo
  BY <1>2, FirstIsIn DEF Next1
<1>4. <<call[c].v, Next1(c)>> \in Keys
  BY <1>1, <1>2, <1>3, KeyFacts DEF CallFits
<1>5. CachePut(<<call[c].v, Next1(c)>>) \subseteq Keys
  BY <1>1, <1>4 DEF CachePut, TablesFit
<1>6. cache' \subseteq Keys
  BY <1>1, <1>5 DEF ExamineFailure, TablesFit
<1>7. /\ TablesFit' /\ part' = part
      /\ UNCHANGED <<worker, batch, posted, spare, told, faults>>
  BY <1>1, <1>6 DEF ExamineFailure, seen, TablesFit
<1> DEFINE a == [call[c] EXCEPT !.todo = @ \ {Next1(c)}]
           b == [call[c] EXCEPT !.pc = "insert"]
<1>8. call' = [call EXCEPT ![c] = a] \/ call' = [call EXCEPT ![c] = b]
  BY <1>1 DEF ExamineFailure, CallsFit
<1>9. call[c].pc = "failures"
  BY DEF ExamineFailure, At
<1>10. CallFits(a) /\ a.pc = "failures"
  BY <1>1, <1>9 DEF CallFits, CallRecord, CallPC
<1>11. CallFits(b) /\ b.pc = "insert"
  BY <1>1, <1>2 DEF CallFits, CallRecord, CallPC
<1> HIDE DEF a, b
<1>12. QED BY <1>7, <1>8, <1>9, <1>10, <1>11, IdleCallKeeps

LEMMA InsertFailureKeeps ==
  ASSUME IInv, NEW c \in Calls, InsertFailure(c) PROVE IInv'
<1>1. TablesFit /\ CallsFit /\ CallFits(call[c])
  BY DEF IInv, Typed, CallsFit
<1>2. call[c].pc = "insert"
  BY DEF InsertFailure, At
<1>3. /\ call[c].v \in Versions /\ call[c].todo # {}
      /\ call[c].todo \subseteq Parts
  BY <1>1, <1>2 DEF CallFits, CallRecord
<1>4. Next1(c) \in call[c].todo
  BY <1>3, FirstIsIn DEF Next1
<1>5. <<call[c].v, Next1(c)>> \in Keys /\ Next1(c) \in Parts
  BY <1>1, <1>3, <1>4, KeyFacts DEF CallFits
<1>6. row[<<call[c].v, Next1(c)>>] \in Row
  BY <1>1, <1>5 DEF TablesFit
<1>7. Enqueued(row[<<call[c].v, Next1(c)>>], RefOf(Next1(c))) \in Row
  BY <1>1, <1>5, <1>6, RefType, RowsFit
<1>8. row' \in [Keys -> Row]
  BY <1>1, <1>7 DEF InsertFailure, TablesFit
<1>9. /\ TablesFit' /\ part' = part
      /\ UNCHANGED <<worker, batch, posted, spare, told, faults>>
  BY <1>1, <1>8 DEF InsertFailure, seen, TablesFit
<1> DEFINE k == [call[c] EXCEPT !.pc = "failures", !.todo = @ \ {Next1(c)},
                                !.want = @ \cup {Next1(c)}]
<1>10. call' = [call EXCEPT ![c] = k]
  BY <1>1 DEF InsertFailure, CallsFit
<1>11. CallFits(k) /\ k.pc = "failures"
  BY <1>1, <1>4, <1>5 DEF CallFits, CallRecord, CallPC
<1> HIDE DEF k
<1>12. QED BY <1>2, <1>9, <1>10, <1>11, IdleCallKeeps

LEMMA LogOnlyKeeps ==
  ASSUME IInv, NEW c \in Calls, LogOnly(c) PROVE IInv'
<1>1. TablesFit /\ CallsFit
  BY DEF IInv, Typed
<1>2. log' \in [Versions -> LogStatus]
  BY <1>1 DEF LogOnly, TablesFit, LogStatus
<1>3. /\ TablesFit' /\ part' = part
      /\ UNCHANGED <<worker, batch, posted, spare, told, faults>>
  BY <1>1, <1>2 DEF LogOnly, seen, TablesFit
<1> DEFINE k == [NoCall EXCEPT !.pc = "over"]
<1>4. call' = [call EXCEPT ![c] = k]
  BY DEF LogOnly, Finish
<1>5. CallFits(k) /\ k.pc = "over"
  BY NoCallFits DEF NoCall
<1>6. call[c].pc = "failures"
  BY DEF LogOnly, At
<1> HIDE DEF k
<1>7. QED BY <1>3, <1>4, <1>5, <1>6, IdleCallKeeps

-----------------------------------------------------------------------------
(* The calls look, and then post and record.                               *)
LEMMA ExcuseType ==
  ASSUME SeenFits, NEW S, Excuse(S)
  PROVE  /\ spare' \in [Parts -> Int]
         /\ \A p \in Parts :
              spare'[p] = IF p \in S /\ spare[p] < MaxSpare
                          THEN spare[p] + 1 ELSE spare[p]
<1>1. \A p \in Parts : spare[p] \in Int
  BY DEF SeenFits
<1>2. QED BY <1>1 DEF Excuse

LEMMA HoldersAre ==
  ASSUME CallsFit, NEW d \in Calls, NEW p \in Parts
  PROVE  MayPost(d, p) \/ Owes(d, p) => CallHolds(d, p)
<1>1. CallFits(call[d])
  BY DEF CallsFit
<1>2. CASE At(d, "saving") /\ Next1(d) = p
  <2>1. call[d].todo # {} /\ call[d].todo \in SUBSET Parts
    BY <1>1, <1>2 DEF CallFits, CallRecord, At
  <2>2. p \in call[d].todo
    BY <1>2, <2>1, FirstIsIn DEF Next1
  <2>3. QED BY <1>2, <2>2 DEF CallHolds, At
<1>3. CASE ~(At(d, "saving") /\ Next1(d) = p)
  BY <1>3 DEF MayPost, Owes, CallHolds, At
<1>4. QED BY <1>2, <1>3

(* The call that looks is excused for what somebody holds, and the media   *)
(* that nobody holds have a post left.                                     *)
LEMMA LookKeeps ==
  ASSUME IInv, NEW c \in Calls, NEW k, CallFits(k),
         call' = [call EXCEPT ![c] = k],
         UNCHANGED <<worker, batch, posted, told, faults>>,
         TablesFit', part' = part,
         Overlap(c, Waiting(c)),
         call[c].pc \notin {"sending", "saving", "late"},
         k.pc \in {"sending", "late"}, k.todo = Waiting(c)
  PROVE  IInv'
<1>1. CallsFit /\ SeenFits /\ Covered
  BY DEF IInv, Typed
<1>2. OnlyCall(c) /\ call'[c] = k
  BY <1>1, CallFitsAfter DEF OnlyCall
<1> DEFINE S == {p \in Waiting(c) :
                   WorkerHolds(p) \/ \E d \in Calls \ {c} : CallHolds(d, p)}
<1>3. Excuse(S)
  BY DEF Overlap
<1>4. \A p : ~MayPost(c, p) /\ ~Owes(c, p)
  BY DEF MayPost, Owes, At
<1>5. \A p : MayPost(c, p)' => p \in Waiting(c)
  BY <1>2 DEF MayPost, At
<1> HIDE DEF S
<1>6. /\ spare' \in [Parts -> Int]
      /\ \A p \in Parts :
           spare'[p] = IF p \in S /\ spare[p] < MaxSpare
                       THEN spare[p] + 1 ELSE spare[p]
  BY <1>1, <1>3, ExcuseType
<1>7. SeenFits'
  BY <1>1, <1>6 DEF SeenFits
<1>8. ASSUME NEW p \in Parts PROVE Posters(p)' \subseteq Posters(p) \cup {c}
  <2>1. \A d \in Calls \ {c} : MayPost(d, p)' => MayPost(d, p)
    BY <1>1, <1>2, OthersStay
  <2>2. QED BY <1>1, <1>2, <2>1, WorkerStays DEF Posters
<1>9. ASSUME NEW p \in Parts PROVE CoveredAt(p)'
  <2>1. CASE p \notin Waiting(c)
    <3>1. p \notin S
      BY <2>1 DEF S
    <3>2. spare'[p] = spare[p]
      BY <1>6, <3>1
    <3>3. ~MayPost(c, p)'
      BY <1>5, <2>1
    <3>4. QED BY <1>1, <1>2, <1>4, <3>2, <3>3, QuietCall
  <2>2. CASE p \in S
    <3>1. spare'[p] = IF spare[p] < MaxSpare THEN spare[p] + 1 ELSE spare[p]
      BY <1>6, <2>2
    <3>2. QED BY <1>1, <1>8, <3>1, Excused
  <2>3. CASE p \in Waiting(c) /\ p \notin S
    <3>1. ~WorkerHolds(p) /\ \A d \in Calls \ {c} : ~CallHolds(d, p)
      BY <2>3 DEF S
    <3>2. \A d \in Calls : ~MayPost(d, p) /\ ~Owes(d, p)
      BY <1>1, <1>4, <3>1, HoldersAre
    <3>3. ~WorkerMayPost(p) /\ ~WorkerOwes(p)
      BY <3>1 DEF WorkerHolds, WorkerMayPost, WorkerOwes, WorkerAt, P
    <3>4. Posters(p) = {}
      BY <3>2, <3>3 DEF Posters
    <3>5. ~Unrecorded(p)
      BY <3>2, <3>3, UnrecordedIsOwed
    <3>6. spare'[p] = spare[p] /\ Posters(p)' \subseteq {c}
      BY <1>6, <1>8, <2>3, <3>4
    <3>7. p \notin part
      BY <2>3 DEF Waiting, IsDelivered
    <3>8. QED BY <1>1, <3>4, <3>5, <3>6, <3>7, FirstLooks
  <2>4. QED BY <2>1, <2>2, <2>3
<1>10. QED BY <1>7, <1>9, CallKeeps

LEMMA WaitingType ==
  ASSUME IInv, NEW c \in Calls
  PROVE  /\ Waiting(c) \subseteq call[c].got /\ Waiting(c) \subseteq Parts
         /\ Waiting(c) \subseteq Has(call[c].v)
  BY DEF IInv, Typed, CallsFit, CallFits, CallRecord, Waiting

LEMMA LateLookKeeps ==
  ASSUME IInv, NEW c \in Calls, LateLook(c) PROVE IInv'
<1>1. TablesFit /\ CallsFit /\ CallFits(call[c]) /\ SeenFits
  BY DEF IInv, Typed, CallsFit
<1>2. /\ TablesFit' /\ part' = part
      /\ UNCHANGED <<worker, batch, posted, told, faults>>
  BY <1>1, SameTables DEF LateLook
<1>3. call[c].pc = "checking"
  BY DEF LateLook, At
<1>4. CASE /\ Overlap(c, Waiting(c))
           /\ call' = [call EXCEPT ![c].pc = "late", ![c].todo = Waiting(c),
                                   ![c].want = Waiting(c)]
  <2> DEFINE k == [call[c] EXCEPT !.pc = "late", !.todo = Waiting(c),
                                  !.want = Waiting(c)]
  <2>1. call' = [call EXCEPT ![c] = k]
    BY <1>1, <1>4 DEF CallsFit
  <2>2. CallFits(k) /\ k.pc = "late" /\ k.todo = Waiting(c)
    BY <1>1, WaitingType DEF CallFits, CallRecord, CallPC
  <2> HIDE DEF k
  <2>3. QED BY <1>2, <1>3, <1>4, <2>1, <2>2, LookKeeps
<1>5. CASE Finish(c) /\ UNCHANGED spare
  <2> DEFINE k == [NoCall EXCEPT !.pc = "over"]
  <2>1. call' = [call EXCEPT ![c] = k]
    BY <1>5 DEF Finish
  <2>2. CallFits(k) /\ k.pc = "over"
    BY NoCallFits DEF NoCall
  <2> HIDE DEF k
  <2>3. QED BY <1>2, <1>3, <1>5, <2>1, <2>2, IdleCallKeeps
<1>6. QED BY <1>4, <1>5 DEF LateLook

LEMMA ForwardStartKeeps ==
  ASSUME IInv, NEW c \in Calls, ForwardStart(c) PROVE IInv'
<1>1. TablesFit /\ CallsFit /\ CallFits(call[c]) /\ SeenFits
  BY DEF IInv, Typed, CallsFit
<1>2. /\ TablesFit' /\ part' = part
      /\ UNCHANGED <<worker, batch, posted, told, faults>>
  BY <1>1, SameTables DEF ForwardStart
<1>3. call[c].pc = "failures"
  BY DEF ForwardStart, At
<1> DEFINE k == [call[c] EXCEPT !.pc = "sending", !.todo = Waiting(c),
                                !.legacy = FailuresResolved(c)]
<1>4. call' = [call EXCEPT ![c] = k]
  BY <1>1 DEF ForwardStart, CallsFit
<1>5. FailuresResolved(c) \in BOOLEAN
  BY DEF FailuresResolved
<1>6. CallFits(k) /\ k.pc = "sending" /\ k.todo = Waiting(c)
  BY <1>1, <1>5, WaitingType DEF CallFits, CallRecord, CallPC
<1>7. Overlap(c, Waiting(c))
  BY DEF ForwardStart
<1> HIDE DEF k
<1>8. QED BY <1>2, <1>3, <1>4, <1>6, <1>7, LookKeeps

(* The call posts one of its media and has to record it.                   *)
LEMMA PostKeeps ==
  ASSUME IInv, NEW c \in Calls, NEW k, CallFits(k),
         call' = [call EXCEPT ![c] = k],
         UNCHANGED <<worker, batch, told, faults>>,
         TablesFit', part' = part,
         NEW q \in Parts, Post(q), MayPost(c, q), ~MayPost(c, q)', Owes(c, q)',
         \A p \in Parts : /\ MayPost(c, p)' => MayPost(c, p)
                          /\ Owes(c, p) => Owes(c, p)'
  PROVE  IInv'
<1>1. CallsFit /\ SeenFits /\ Covered
  BY DEF IInv, Typed
<1>2. OnlyCall(c)
  BY <1>1, CallFitsAfter DEF OnlyCall
<1>3. /\ spare' \in [Parts -> Int] /\ posted' \subseteq Parts
      /\ spare'[q] = spare[q] - 1
      /\ \A p \in Parts \ {q} : spare'[p] = spare[p]
  BY <1>1 DEF Post, SeenFits
<1>4. SeenFits'
  BY <1>1, <1>3 DEF SeenFits
<1>5. ASSUME NEW p \in Parts PROVE CoveredAt(p)'
  <2>1. CASE p # q
    <3>1. spare'[p] = spare[p]
      BY <1>3, <2>1
    <3>2. QED BY <1>1, <1>2, <3>1, QuietCall
  <2>2. CASE p = q
    <3>1. \A d \in Calls \ {c} : MayPost(d, p)' => MayPost(d, p)
      BY <1>1, <1>2, OthersStay
    <3>2. c # -1
      BY MediaAssumption
    <3>3. c \in Posters(p) /\ Posters(p)' \subseteq Posters(p) \ {c}
      BY <1>2, <2>2, <3>1, <3>2, WorkerStays DEF Posters
    <3>4. Unrecorded(p)'
      BY <2>2, UnrecordedIsOwedAfter
    <3>5. spare'[p] = spare[p] - 1
      BY <1>3, <2>2
    <3>6. QED BY <1>1, <3>3, <3>4, <3>5, Posted
  <2>3. QED BY <2>1, <2>2
<1>6. QED BY <1>4, <1>5, CallKeeps

LEMMA TakenFits ==
  ASSUME NEW k, CallFits(k), NEW S \in SUBSET Parts,
         k.pc \in {"sending", "late"}
  PROVE  /\ CallFits([k EXCEPT !.todo = @ \ S])
         /\ CallFits([k EXCEPT !.todo = @ \ S, !.posted = TRUE])
<1>1. k \in CallRecord
  BY DEF CallFits
<1>2. CallFits([k EXCEPT !.todo = @ \ S])
  BY <1>1 DEF CallFits, CallRecord
<1>3. CallFits([k EXCEPT !.todo = @ \ S, !.posted = TRUE])
  BY <1>1 DEF CallFits, CallRecord
<1>4. QED BY <1>2, <1>3

LEMMA TodoFacts ==
  ASSUME IInv, NEW c \in Calls, call[c].todo # {}
  PROVE  /\ Next1(c) \in call[c].todo /\ Next1(c) \in Parts
         /\ call[c].todo \subseteq Parts
<1>1. call[c].todo \in SUBSET Parts
  BY DEF IInv, Typed, CallsFit, CallFits, CallRecord
<1>2. QED BY <1>1, FirstIsIn DEF Next1

LEMMA SendPartKeeps ==
  ASSUME IInv, NEW c \in Calls, SendPart(c) PROVE IInv'
<1>1. TablesFit /\ CallsFit /\ CallFits(call[c]) /\ SeenFits
  BY DEF IInv, Typed, CallsFit
<1>2. /\ TablesFit' /\ part' = part
      /\ UNCHANGED <<worker, batch, told, faults>>
  BY <1>1, SameTables DEF SendPart
<1>3. call[c].pc = "sending" /\ call[c].todo # {}
  BY DEF SendPart, At
<1>4. PICK q \in Parts : q = Next1(c) /\ q \in call[c].todo
  BY <1>3, TodoFacts
<1>5. CASE /\ Post(q)
           /\ call' = [call EXCEPT ![c].pc = "saving", ![c].posted = TRUE]
  <2> DEFINE k == [call[c] EXCEPT !.pc = "saving", !.posted = TRUE]
  <2>1. call' = [call EXCEPT ![c] = k]
    BY <1>1, <1>5 DEF CallsFit
  <2>2. CallFits(k)
    BY <1>1, <1>3 DEF CallFits, CallRecord, CallPC
  <2>3. k.pc = "saving" /\ k.todo = call[c].todo
    BY <1>1 DEF CallFits, CallRecord
  <2> HIDE DEF k
  <2>4. call'[c] = k
    BY <1>1, <2>1, <2>2, CallFitsAfter
  <2>5. \A p : /\ MayPost(c, p)' => MayPost(c, p) /\ p # q
               /\ ~Owes(c, p)
    BY <1>3, <1>4, <2>3, <2>4 DEF MayPost, Owes, At, Next1
  <2>6. Owes(c, q)' /\ MayPost(c, q)
    BY <1>3, <1>4, <2>3, <2>4 DEF MayPost, Owes, At, Next1
  <2>7. QED BY <1>2, <1>4, <1>5, <2>1, <2>2, <2>5, <2>6, PostKeeps
<1>6. CASE /\ \/ call' = [call EXCEPT ![c].todo = @ \ {q}, ![c].posted = TRUE]
              \/ call' = [call EXCEPT ![c].todo = @ \ {q}]
           /\ UNCHANGED <<posted, spare>>
  <2>1. PICK k : /\ CallFits(k) /\ call' = [call EXCEPT ![c] = k]
                 /\ k.pc = "sending" /\ k.todo = call[c].todo \ {q}
    <3>1. CASE call' = [call EXCEPT ![c].todo = @ \ {q}, ![c].posted = TRUE]
      <4> DEFINE k == [call[c] EXCEPT !.todo = @ \ {q}, !.posted = TRUE]
      <4>1. call' = [call EXCEPT ![c] = k]
        BY <1>1, <3>1 DEF CallsFit
      <4>2. CallFits(k)
        BY <1>1, <1>3, <1>4, TakenFits
      <4>3. k.pc = "sending" /\ k.todo = call[c].todo \ {q}
        BY <1>1, <1>3 DEF CallFits, CallRecord
      <4> HIDE DEF k
      <4>4. QED BY <4>1, <4>2, <4>3
    <3>2. CASE call' = [call EXCEPT ![c].todo = @ \ {q}]
      <4> DEFINE k == [call[c] EXCEPT !.todo = @ \ {q}]
      <4>1. call' = [call EXCEPT ![c] = k]
        BY <1>1, <3>2 DEF CallsFit
      <4>2. CallFits(k)
        BY <1>1, <1>3, <1>4, TakenFits
      <4>3. k.pc = "sending" /\ k.todo = call[c].todo \ {q}
        BY <1>1, <1>3 DEF CallFits, CallRecord
      <4> HIDE DEF k
      <4>4. QED BY <4>1, <4>2, <4>3
    <3>3. QED BY <1>6, <3>1, <3>2
  <2>2. call'[c] = k
    BY <1>1, <2>1, CallFitsAfter
  <2>3. \A p : /\ MayPost(c, p)' => MayPost(c, p)
               /\ ~Owes(c, p)
    BY <1>3, <2>1, <2>2 DEF MayPost, Owes, At
  <2>4. QED BY <1>2, <1>6, <2>1, <2>3, QuietCallKeeps
<1>7. QED BY <1>4, <1>5, <1>6 DEF SendPart

LEMMA SendPartLostKeeps ==
  ASSUME IInv, NEW c \in Calls, SendPartLost(c) PROVE IInv'
<1>1. TablesFit /\ CallsFit /\ CallFits(call[c]) /\ SeenFits /\ Covered
  BY DEF IInv, Typed, CallsFit
<1>2. /\ TablesFit' /\ part' = part
      /\ UNCHANGED <<worker, batch, told, spare>>
  BY <1>1, SameTables DEF SendPartLost, PostUnanswered
<1>3. call[c].pc = "sending" /\ call[c].todo # {}
  BY DEF SendPartLost, At
<1> DEFINE q == Next1(c)
<1>4. q \in call[c].todo /\ q \in Parts
  BY <1>3, TodoFacts
<1>5. SeenFits'
  BY <1>1, <1>2, <1>4, MediaAssumption DEF SeenFits, SendPartLost, PostUnanswered
<1> DEFINE k == [call[c] EXCEPT !.todo = @ \ {q}]
<1>6. call' = [call EXCEPT ![c] = k]
  BY <1>1 DEF SendPartLost, CallsFit
<1>7. CallFits(k)
  BY <1>1, <1>3, <1>4, TakenFits
<1>8. k.pc = "sending" /\ k.todo = call[c].todo \ {q}
  BY <1>1, <1>3 DEF CallFits, CallRecord
<1> HIDE DEF k, q
<1>9. OnlyCall(c) /\ call'[c] = k
  BY <1>1, <1>2, <1>6, <1>7, CallFitsAfter DEF OnlyCall
<1>10. \A p : /\ MayPost(c, p)' => MayPost(c, p)
              /\ ~Owes(c, p)
  BY <1>3, <1>8, <1>9 DEF MayPost, Owes, At
<1>11. ASSUME NEW p \in Parts PROVE CoveredAt(p)'
  <2>1. spare'[p] = spare[p] /\ part \subseteq part'
    BY <1>2
  <2>2. QED BY <1>1, <1>9, <1>10, <2>1, QuietCall
<1>12. QED BY <1>2, <1>5, <1>6, <1>7, <1>11, CallKeeps

LEMMA SavePartKeeps ==
  ASSUME IInv, NEW c \in Calls, SavePart(c) PROVE IInv'
<1>1. TablesFit /\ CallsFit /\ CallFits(call[c]) /\ SeenFits
  BY DEF IInv, Typed, CallsFit
<1>2. call[c].pc = "saving" /\ call[c].todo # {}
  BY <1>1 DEF SavePart, At, CallFits
<1> DEFINE q == Next1(c)
<1>3. q \in call[c].todo /\ q \in Parts
  BY <1>2, TodoFacts
<1>4. /\ TablesFit' /\ part' = part \cup {q}
      /\ UNCHANGED <<worker, batch, posted, spare, told, faults>>
  BY <1>1, <1>3 DEF SavePart, seen, TablesFit
<1> DEFINE k == [call[c] EXCEPT !.pc = "sending", !.todo = @ \ {q}]
<1>5. call' = [call EXCEPT ![c] = k]
  BY <1>1 DEF SavePart, CallsFit
<1>6. CallFits(k) /\ k.pc = "sending" /\ k.todo = call[c].todo \ {q}
  BY <1>1, <1>2 DEF CallFits, CallRecord, CallPC
<1> HIDE DEF k
<1>7. call'[c] = k
  BY <1>1, <1>5, <1>6, CallFitsAfter
<1>8. \A p : /\ MayPost(c, p)' => MayPost(c, p)
             /\ Owes(c, p) => p = q
  BY <1>2, <1>6, <1>7 DEF MayPost, Owes, At
<1> HIDE DEF q
<1>9. QED BY <1>4, <1>5, <1>6, <1>8, QuietCallKeeps

LEMMA SendRestKeeps ==
  ASSUME IInv, NEW c \in Calls, SendRest(c) PROVE IInv'
<1>1. TablesFit /\ CallsFit /\ CallFits(call[c]) /\ SeenFits
  BY DEF IInv, Typed, CallsFit
<1>2. /\ TablesFit' /\ part' = part
      /\ UNCHANGED <<worker, batch, posted, spare, told, faults>>
  BY <1>1, SameTables DEF SendRest, seen
<1>3. call[c].pc = "sending"
  BY DEF SendRest, At
<1>4. PICK answered \in BOOLEAN :
        call' = [call EXCEPT ![c].pc = "record", ![c].posted = @ \/ answered]
  BY DEF SendRest
<1> DEFINE k == [call[c] EXCEPT !.pc = "record", !.posted = @ \/ answered]
<1>5. call' = [call EXCEPT ![c] = k]
  BY <1>1, <1>4 DEF CallsFit
<1>6. CallFits(k) /\ k.pc = "record"
  BY <1>1 DEF CallFits, CallRecord, CallPC
<1> HIDE DEF k
<1>7. QED BY <1>2, <1>3, <1>5, <1>6, IdleCallKeeps

LEMMA RecordKeeps ==
  ASSUME IInv, NEW c \in Calls, Record(c) \/ RecordRefused(c)
  PROVE  IInv'
<1>1. TablesFit /\ CallsFit /\ CallFits(call[c])
  BY DEF IInv, Typed, CallsFit
<1>2. call[c].v \in Versions
  BY <1>1 DEF CallFits, CallRecord
<1>3. log' \in [Versions -> LogStatus]
  BY <1>1 DEF Record, RecordRefused, db, TablesFit, LogStatus
<1>4. /\ TablesFit' /\ part' = part
      /\ UNCHANGED <<worker, batch, posted, spare, told, faults>>
  BY <1>1, <1>2, <1>3 DEF Record, RecordRefused, db, seen, TablesFit
<1> DEFINE k == [NoCall EXCEPT !.pc = "over"]
<1>5. call' = [call EXCEPT ![c] = k]
  BY DEF Record, RecordRefused, Finish
<1>6. CallFits(k) /\ k.pc = "over"
  BY NoCallFits DEF NoCall
<1>7. call[c].pc = "record"
  BY DEF Record, RecordRefused, At
<1> HIDE DEF k
<1>8. QED BY <1>4, <1>5, <1>6, <1>7, IdleCallKeeps

-----------------------------------------------------------------------------
(* The late recovery.                                                      *)
LEMMA LateSendKeeps ==
  ASSUME IInv, NEW c \in Calls, LateSend(c) PROVE IInv'
<1>1. TablesFit /\ CallsFit /\ CallFits(call[c]) /\ SeenFits
  BY DEF IInv, Typed, CallsFit
<1>2. /\ TablesFit' /\ part' = part
      /\ UNCHANGED <<worker, batch, told, faults>>
  BY <1>1, SameTables DEF LateSend
<1>3. /\ call[c].pc = "late" /\ call[c].todo # {}
      /\ call[c].todo \subseteq call[c].got
  BY <1>1 DEF LateSend, At, CallFits
<1>4. PICK q \in Parts : q = Next1(c) /\ q \in call[c].todo
  BY <1>3, TodoFacts
<1>5. CASE call' = [call EXCEPT ![c].todo = @ \ {q}, ![c].sent = @ \cup {q}]
  <2> DEFINE k == [call[c] EXCEPT !.todo = @ \ {q}, !.sent = @ \cup {q}]
  <2>1. call' = [call EXCEPT ![c] = k]
    BY <1>1, <1>5 DEF CallsFit
  <2>2. /\ k.pc = "late" /\ k.todo = call[c].todo \ {q}
        /\ k.sent = call[c].sent \cup {q}
    BY <1>1, <1>3 DEF CallFits, CallRecord
  <2>3. CallFits(k)
    BY <1>1, <1>3, <1>4 DEF CallFits, CallRecord
  <2> HIDE DEF k
  <2>4. call'[c] = k
    BY <1>1, <2>1, <2>3, CallFitsAfter
  <2>5. \A p : /\ MayPost(c, p)' => MayPost(c, p) /\ p # q
               /\ Owes(c, p) => Owes(c, p)'
    BY <1>3, <2>2, <2>4 DEF MayPost, Owes, At
  <2>6. Owes(c, q)' /\ MayPost(c, q)
    BY <1>3, <1>4, <2>2, <2>4 DEF MayPost, Owes, At
  <2>7. CASE Post(q)
    BY <1>2, <2>1, <2>3, <2>5, <2>6, <2>7, PostKeeps
  <2>8. CASE UNCHANGED <<posted, spare>>
    BY <1>2, <2>1, <2>3, <2>5, <2>8, QuietCallKeeps
  <2>9. QED BY <1>4, <2>7, <2>8 DEF LateSend
<1>6. CASE /\ call' = [call EXCEPT ![c].todo = @ \ {q}]
           /\ UNCHANGED <<posted, spare>>
  <2> DEFINE k == [call[c] EXCEPT !.todo = @ \ {q}]
  <2>1. call' = [call EXCEPT ![c] = k]
    BY <1>1, <1>6 DEF CallsFit
  <2>2. CallFits(k)
    BY <1>1, <1>3, <1>4, TakenFits
  <2>3. /\ k.pc = "late" /\ k.todo = call[c].todo \ {q}
        /\ k.sent = call[c].sent
    BY <1>1, <1>3 DEF CallFits, CallRecord
  <2> HIDE DEF k
  <2>4. call'[c] = k
    BY <1>1, <2>1, <2>2, CallFitsAfter
  <2>5. \A p : /\ MayPost(c, p)' => MayPost(c, p)
               /\ Owes(c, p) => Owes(c, p)'
    BY <1>3, <2>3, <2>4 DEF MayPost, Owes, At
  <2>6. QED BY <1>2, <1>6, <2>1, <2>2, <2>5, QuietCallKeeps
<1>7. QED BY <1>4, <1>5, <1>6 DEF LateSend

LEMMA LateUnsavedKeeps ==
  ASSUME IInv, NEW c \in Calls, LateIncomplete(c) \/ LateRefused(c)
  PROVE  IInv'
<1>1. TablesFit /\ CallsFit /\ CallFits(call[c]) /\ SeenFits /\ Covered
  BY DEF IInv, Typed, CallsFit
<1>2. /\ TablesFit' /\ part' = part
      /\ UNCHANGED <<worker, batch, posted, told, faults>>
  BY <1>1, SameTables DEF LateIncomplete, LateRefused
<1>3. call[c].pc = "late"
  BY DEF LateIncomplete, LateRefused, At
<1> DEFINE k == [NoCall EXCEPT !.pc = "over"]
<1>4. call' = [call EXCEPT ![c] = k]
  BY DEF LateIncomplete, LateRefused, Finish
<1>5. CallFits(k) /\ k.pc = "over"
  BY NoCallFits DEF NoCall
<1> HIDE DEF k
<1>6. OnlyCall(c) /\ call'[c] = k
  BY <1>1, <1>2, <1>4, <1>5, CallFitsAfter DEF OnlyCall
<1>7. \A p : ~MayPost(c, p)' /\ (Owes(c, p) => p \in call[c].sent)
  BY <1>3, <1>5, <1>6 DEF MayPost, Owes, At
<1>8. /\ spare' \in [Parts -> Int]
      /\ \A p \in Parts :
           spare'[p] = IF p \in call[c].sent /\ spare[p] < MaxSpare
                       THEN spare[p] + 1 ELSE spare[p]
  BY <1>1, ExcuseType DEF LateIncomplete, LateRefused
<1>9. SeenFits'
  BY <1>1, <1>2, <1>8 DEF SeenFits
<1>10. ASSUME NEW p \in Parts PROVE CoveredAt(p)'
  <2>1. CASE p \notin call[c].sent
    <3>1. spare'[p] = spare[p] /\ ~Owes(c, p) /\ part \subseteq part'
      BY <1>2, <1>7, <1>8, <2>1
    <3>2. QED BY <1>1, <1>6, <1>7, <3>1, QuietCall
  <2>2. CASE p \in call[c].sent
    <3>1. spare'[p] = IF spare[p] < MaxSpare THEN spare[p] + 1 ELSE spare[p]
      BY <1>8, <2>2
    <3>2. \A d \in Calls \ {c} : MayPost(d, p)' => MayPost(d, p)
      BY <1>1, <1>6, OthersStay
    <3>3. Posters(p)' \subseteq Posters(p) \cup {c}
      BY <1>6, <3>2, WorkerStays DEF Posters
    <3>4. QED BY <1>1, <3>1, <3>3, Excused
  <2>3. QED BY <2>1, <2>2
<1>11. QED BY <1>2, <1>4, <1>5, <1>9, <1>10, CallKeeps

LEMMA LateSavedKeeps ==
  ASSUME IInv, NEW c \in Calls, LateSaved(c) PROVE IInv'
<1>1. TablesFit /\ CallsFit /\ CallFits(call[c])
  BY DEF IInv, Typed, CallsFit
<1>2. call[c].pc = "late" /\ call[c].sent \subseteq Parts
  BY <1>1 DEF LateSaved, At, CallFits, CallRecord
<1>3. row' \in [Keys -> Row] /\ log' \in [Versions -> LogStatus]
  BY <1>1, NoRowFits DEF LateSaved, TablesFit, LogStatus
<1>4. /\ TablesFit' /\ part' = part \cup call[c].sent
      /\ UNCHANGED <<worker, batch, posted, spare, told, faults>>
  BY <1>1, <1>2, <1>3 DEF LateSaved, seen, TablesFit
<1> DEFINE k == [NoCall EXCEPT !.pc = "over"]
<1>5. call' = [call EXCEPT ![c] = k]
  BY DEF LateSaved, Finish
<1>6. CallFits(k) /\ k.pc = "over"
  BY NoCallFits DEF NoCall
<1> HIDE DEF k
<1>7. call'[c] = k
  BY <1>1, <1>5, <1>6, CallFitsAfter
<1>8. \A p : ~MayPost(c, p)' /\ (Owes(c, p) => p \in part')
  BY <1>2, <1>4, <1>6, <1>7 DEF MayPost, Owes, At
<1>9. QED BY <1>4, <1>5, <1>6, <1>8, QuietCallKeeps

LEMMA CallStepKeeps ==
  ASSUME IInv, NEW c \in Calls, CallStep(c) PROVE IInv'
  BY CheckDuplicateKeeps, LateLookKeeps, SaveKeyKeeps, ExamineFailureKeeps,
     InsertFailureKeeps, LogOnlyKeeps, ForwardStartKeeps, SendPartKeeps,
     SavePartKeeps, SendRestKeeps, RecordKeeps, LateSendKeeps,
     LateUnsavedKeeps, LateSavedKeeps, Zenon DEF CallStep

-----------------------------------------------------------------------------
(* The worker.                                                             *)
OnlyWorker(w) ==
  /\ worker' = w /\ w \in JobRecord /\ (w.pc # "idle" => w.key \in Keys)
  /\ batch' \subseteq batch
  /\ UNCHANGED call

LEMMA CallsStay ==
  ASSUME UNCHANGED call
  PROVE  \A c \in Calls : \A p : /\ MayPost(c, p)' <=> MayPost(c, p)
                                 /\ Owes(c, p)' <=> Owes(c, p)
  BY DEF MayPost, Owes, At, Next1

LEMMA QuietWorker ==
  ASSUME Covered, SeenFits, UNCHANGED call, NEW p \in Parts,
         spare'[p] = spare[p], part \subseteq part',
         WorkerMayPost(p)' => WorkerMayPost(p),
         WorkerOwes(p) => WorkerOwes(p)' \/ p \in part'
  PROVE  CoveredAt(p)'
<1>1. Posters(p)' \subseteq Posters(p)
  BY CallsStay DEF Posters
<1>2. Unrecorded(p) => Unrecorded(p)' \/ p \in part'
  BY CallsStay, UnrecordedIsOwed, UnrecordedIsOwedAfter
<1>3. p \notin part' /\ ~Unrecorded(p)' => p \notin part /\ ~Unrecorded(p)
  BY <1>2
<1>4. QED BY <1>1, <1>3, Quiet

LEMMA WorkerKeeps ==
  ASSUME IInv, NEW w, OnlyWorker(w), TablesFit', SeenFits',
         \A p \in Parts : CoveredAt(p)'
  PROVE  IInv'
<1>1. CallsFit'
  BY DEF IInv, Typed, CallsFit, OnlyWorker, CallFits
<1>2. WorkerFits'
  BY DEF IInv, Typed, WorkerFits, OnlyWorker
<1>3. QED BY <1>1, <1>2 DEF IInv, Typed, Covered

LEMMA QuietWorkerKeeps ==
  ASSUME IInv, NEW w, OnlyWorker(w), TablesFit', SeenFits', UNCHANGED spare,
         part \subseteq part', w.pc # "send",
         \A p \in Parts : WorkerOwes(p) => p \in part'
  PROVE  IInv'
<1>1. \A p : ~WorkerMayPost(p)'
  BY DEF OnlyWorker, WorkerMayPost, WorkerAt
<1>2. ASSUME NEW p \in Parts PROVE CoveredAt(p)'
  BY <1>1, QuietWorker DEF IInv, Typed, OnlyWorker
<1>3. QED BY <1>2, WorkerKeeps

(* A step of the worker that posts nothing and records nothing.            *)
LEMMA StepOfWorker ==
  ASSUME IInv, NEW pc \in WorkerPC \ {"idle"}, WorkerTo(pc),
         worker.pc # "idle", UNCHANGED <<call, batch>>
  PROVE  OnlyWorker([worker EXCEPT !.pc = pc])
         /\ [worker EXCEPT !.pc = pc].pc = pc
<1>1. worker \in JobRecord /\ worker.key \in Keys
  BY DEF IInv, Typed, WorkerFits
<1>2. [worker EXCEPT !.pc = pc] \in JobRecord
  BY <1>1 DEF JobRecord
<1>3. /\ [worker EXCEPT !.pc = pc].key = worker.key
      /\ [worker EXCEPT !.pc = pc].pc = pc
  BY <1>1 DEF JobRecord
<1>4. QED BY <1>1, <1>2, <1>3 DEF OnlyWorker, WorkerTo

LEMMA MoveKeeps ==
  ASSUME IInv, NEW pc \in WorkerPC \ {"idle", "send"}, WorkerTo(pc),
         worker.pc \notin {"idle", "save"}, UNCHANGED <<kind, db, call, batch>>,
         SeenFits', UNCHANGED spare
  PROVE  IInv'
<1>1. TablesFit' /\ part' = part
  BY SameTables DEF IInv, Typed
<1> DEFINE w == [worker EXCEPT !.pc = pc]
<1>2. OnlyWorker(w) /\ w.pc = pc
  BY StepOfWorker
<1>3. \A p : ~WorkerOwes(p)
  BY DEF WorkerOwes, WorkerAt
<1> HIDE DEF w
<1>4. QED BY <1>1, <1>2, <1>3, QuietWorkerKeeps

(* The worker ends its job with a row of the queue.                        *)
LEMMA EndKeeps ==
  ASSUME IInv, NEW r \in Row, row' = [row EXCEPT ![worker.key] = r],
         worker' = NoJob, worker.pc # "save",
         UNCHANGED <<kind, cache, part, keyed, log, call, batch, seen, faults>>
  PROVE  IInv'
<1>1. TablesFit' /\ part' = part
  BY DEF IInv, Typed, TablesFit
<1>2. SeenFits'
  BY DEF IInv, Typed, SeenFits, seen
<1>3. OnlyWorker(NoJob) /\ NoJob.pc = "idle"
  BY NoJobFits DEF OnlyWorker
<1>4. \A p : ~WorkerOwes(p)
  BY DEF WorkerOwes, WorkerAt
<1>5. UNCHANGED spare
  BY DEF seen
<1>6. QED BY <1>1, <1>2, <1>3, <1>4, <1>5, QuietWorkerKeeps

LEMMA SameSeen ==
  ASSUME SeenFits, UNCHANGED <<seen, faults>> PROVE SeenFits' /\ spare' = spare
  BY DEF SeenFits, seen

LEMMA LookStepKeeps == ASSUME IInv, Look PROVE IInv'
<1>1. SeenFits' /\ spare' = spare
  BY SameSeen DEF IInv, Typed, Look
<1>2. worker.pc = "look"
  BY DEF Look, WorkerAt
<1>3. PICK pc \in {"tell", "download"} : WorkerTo(pc)
  BY DEF Look
<1>4. pc \in WorkerPC \ {"idle", "send"}
  BY DEF WorkerPC
<1>5. QED BY <1>1, <1>2, <1>3, <1>4, MoveKeeps DEF Look

LEMMA CloseRecoveredKeeps == ASSUME IInv, CloseRecovered PROVE IInv'
  BY NoRowFits, EndKeeps DEF CloseRecovered

LEMMA DownloadKeeps == ASSUME IInv, Download \/ DownloadRaised PROVE IInv'
<1>1. SeenFits' /\ spare' = spare
  BY SameSeen DEF IInv, Typed, Download, DownloadRaised
<1>2. worker.pc = "download" /\ UNCHANGED <<kind, db, call, batch>>
  BY DEF Download, DownloadRaised, WorkerAt
<1>3. PICK pc \in {"relook", "tell", "giveback"} : WorkerTo(pc)
  <2>1. CASE DownloadRaised
    BY <2>1 DEF DownloadRaised
  <2>2. CASE Download
    <3>1. PICK found \in BOOLEAN :
            WorkerTo(CASE found -> "relook"
                       [] ~found /\ worker.ref = "cached" /\ ~Cached(worker.key)
                            -> "tell"
                       [] OTHER -> "giveback")
      BY <2>2 DEF Download
    <3>2. CASE found
      <4>1. WorkerTo("relook")
        BY <3>1, <3>2
      <4>2. QED BY <4>1
    <3>3. CASE ~found /\ worker.ref = "cached" /\ ~Cached(worker.key)
      <4>1. WorkerTo("tell")
        BY <3>1, <3>3
      <4>2. QED BY <4>1
    <3>4. CASE ~found /\ ~(worker.ref = "cached" /\ ~Cached(worker.key))
      <4>1. WorkerTo("giveback")
        BY <3>1, <3>4
      <4>2. QED BY <4>1
    <3>5. QED BY <3>2, <3>3, <3>4
  <2>3. QED BY <2>1, <2>2
<1>4. pc \in WorkerPC \ {"idle", "send"}
  BY DEF WorkerPC
<1>5. QED BY <1>1, <1>2, <1>3, <1>4, MoveKeeps

LEMMA RelookKeeps == ASSUME IInv, Relook PROVE IInv'
<1>1. TablesFit /\ CallsFit /\ SeenFits /\ Covered
  BY DEF IInv, Typed
<1>2. TablesFit' /\ part' = part
  BY <1>1, SameTables DEF Relook
<1>3. worker.pc = "relook" /\ UNCHANGED <<call, batch, posted, told, faults>>
  BY DEF Relook, WorkerAt
<1>4. CASE kind[P].big
  <2>1. UNCHANGED spare /\ WorkerTo("tell")
    BY <1>4 DEF Relook
  <2>2. SeenFits' /\ "tell" \in WorkerPC \ {"idle", "send"}
    BY <1>1, <1>3, <2>1 DEF SeenFits, WorkerPC
  <2>3. QED BY <1>3, <2>1, <2>2, MoveKeeps DEF Relook
<1>5. CASE ~kind[P].big
  <2>1. PICK q \in Parts : q = P
    BY <1>3, KeyFacts DEF IInv, Typed, WorkerFits, P
  <2> DEFINE w == [worker EXCEPT !.pc = "send"]
             S == {p \in {P} : \E c \in Calls : CallHolds(c, p)}
  <2>2. OnlyWorker(w) /\ w.pc = "send"
    BY <1>3, <1>5, StepOfWorker DEF Relook, WorkerPC
  <2>3. w.key[2] = q
    BY <1>3, <2>1 DEF P, IInv, Typed, WorkerFits, JobRecord
  <2>4. Excuse(S)
    BY <1>5 DEF Relook
  <2> HIDE DEF w, S
  <2>5. /\ spare' \in [Parts -> Int]
        /\ \A p \in Parts :
             spare'[p] = IF p \in S /\ spare[p] < MaxSpare
                         THEN spare[p] + 1 ELSE spare[p]
    BY <1>1, <2>4, ExcuseType
  <2>6. SeenFits'
    BY <1>1, <1>3, <2>5 DEF SeenFits
  <2>7. \A p : /\ WorkerMayPost(p)' => p = q
               /\ ~WorkerMayPost(p) /\ ~WorkerOwes(p)
    BY <1>3, <2>2, <2>3 DEF OnlyWorker, WorkerMayPost, WorkerOwes, WorkerAt, P
  <2>8. ASSUME NEW p \in Parts PROVE CoveredAt(p)'
    <3>1. Posters(p)' \subseteq Posters(p) \cup {-1}
      BY <1>3, CallsStay DEF Posters
    <3>2. CASE p # q
      <4>1. spare'[p] = spare[p]
        BY <2>1, <2>5, <3>2 DEF S
      <4>2. QED BY <1>1, <1>2, <1>3, <2>7, <3>2, <4>1, QuietWorker
    <3>3. CASE p \in S
      <4>1. spare'[p] = IF spare[p] < MaxSpare THEN spare[p] + 1 ELSE spare[p]
        BY <2>5, <3>3
      <4>2. QED BY <1>1, <3>1, <4>1, Excused
    <3>4. CASE p = q /\ p \notin S
      <4>1. \A c \in Calls : ~CallHolds(c, p)
        BY <2>1, <3>4 DEF S
      <4>2. \A c \in Calls : ~MayPost(c, p) /\ ~Owes(c, p)
        BY <1>1, <4>1, HoldersAre
      <4>3. Posters(p) = {} /\ ~Unrecorded(p)
        BY <2>7, <4>2, UnrecordedIsOwed DEF Posters
      <4>4. spare'[p] = spare[p] /\ Posters(p)' \subseteq {-1}
        BY <2>5, <3>1, <3>4, <4>3
      <4>5. p \notin part
        BY <2>1, <3>4 DEF Relook, IsRecovered, IsDelivered, P
      <4>6. QED BY <1>1, <4>3, <4>4, <4>5, FirstLooks
    <3>5. QED BY <3>2, <3>3, <3>4
  <2>9. QED BY <1>2, <2>2, <2>6, <2>8, WorkerKeeps
<1>6. QED BY <1>4, <1>5

LEMMA SendJobKeeps == ASSUME IInv, SendJob \/ SendJobLost PROVE IInv'
<1>1. TablesFit /\ CallsFit /\ SeenFits /\ Covered
  BY DEF IInv, Typed
<1>2. TablesFit' /\ part' = part
  BY <1>1, SameTables DEF SendJob, SendJobLost
<1>3. worker.pc = "send" /\ UNCHANGED <<call, batch, told>>
  BY DEF SendJob, SendJobLost, WorkerAt
<1>4. PICK q \in Parts : q = P
  BY <1>3, KeyFacts DEF IInv, Typed, WorkerFits, P
<1>5. \A p : ~WorkerOwes(p)
  BY <1>3 DEF WorkerOwes, WorkerAt
<1>6. CASE WorkerTo("save") /\ Post(P) /\ UNCHANGED faults
  <2> DEFINE w == [worker EXCEPT !.pc = "save"]
  <2>1. OnlyWorker(w) /\ w.pc = "save"
    BY <1>3, <1>6, StepOfWorker DEF WorkerPC
  <2>2. w.key[2] = q
    BY <1>3, <1>4 DEF P, IInv, Typed, WorkerFits, JobRecord
  <2> HIDE DEF w
  <2>3. /\ spare' \in [Parts -> Int] /\ posted' \subseteq Parts
        /\ spare'[q] = spare[q] - 1
        /\ \A p \in Parts \ {q} : spare'[p] = spare[p]
    BY <1>1, <1>4, <1>6 DEF Post, SeenFits
  <2>4. SeenFits'
    BY <1>1, <1>3, <1>6, <2>3 DEF SeenFits
  <2>5. /\ \A p : ~WorkerMayPost(p)'
        /\ WorkerMayPost(q) /\ WorkerOwes(q)'
    BY <1>3, <1>4, <2>1, <2>2
       DEF OnlyWorker, WorkerMayPost, WorkerOwes, WorkerAt, P
  <2>6. ASSUME NEW p \in Parts PROVE CoveredAt(p)'
    <3>1. CASE p # q
      <4>1. spare'[p] = spare[p]
        BY <2>3, <3>1
      <4>2. QED BY <1>1, <1>2, <1>3, <1>5, <2>5, <4>1, QuietWorker
    <3>2. CASE p = q
      <4>1. -1 \notin Calls
        BY MediaAssumption
      <4>2. -1 \in Posters(p) /\ Posters(p)' \subseteq Posters(p) \ {-1}
        BY <1>3, <2>5, <3>2, <4>1, CallsStay DEF Posters
      <4>3. Unrecorded(p)'
        BY <2>5, <3>2, UnrecordedIsOwedAfter
      <4>4. spare'[p] = spare[p] - 1
        BY <2>3, <3>2
      <4>5. QED BY <1>1, <4>2, <4>3, <4>4, Posted
    <3>3. QED BY <3>1, <3>2
  <2>7. QED BY <1>2, <2>1, <2>4, <2>6, WorkerKeeps
<1>7. CASE /\ WorkerTo("giveback") /\ UNCHANGED spare
           /\ posted' \subseteq posted \cup {q} /\ faults' \in 0..MaxFaults
  <2>1. SeenFits' /\ "giveback" \in WorkerPC \ {"idle", "send"}
    BY <1>1, <1>3, <1>7 DEF SeenFits, WorkerPC
  <2>2. UNCHANGED <<kind, db, call, batch>>
    BY DEF SendJob, SendJobLost
  <2>3. QED BY <1>3, <1>7, <2>1, <2>2, MoveKeeps
<1>8. CASE SendJob
  BY <1>1, <1>6, <1>7, <1>8 DEF SendJob, SeenFits
<1>9. CASE SendJobLost
  BY <1>1, <1>4, <1>7, <1>9, MediaAssumption
     DEF SendJobLost, PostUnanswered, SeenFits
<1>10. QED BY <1>8, <1>9

LEMMA SaveJobPartKeeps == ASSUME IInv, SaveJobPart PROVE IInv'
<1>1. TablesFit /\ SeenFits
  BY DEF IInv, Typed
<1>2. worker.pc = "save" /\ UNCHANGED <<call, batch>>
  BY DEF SaveJobPart, WorkerAt
<1>3. P \in Parts
  BY <1>2, KeyFacts DEF IInv, Typed, WorkerFits, P
<1>4. TablesFit' /\ part' = part \cup {P}
  BY <1>1, <1>3 DEF SaveJobPart, TablesFit
<1>5. SeenFits' /\ spare' = spare
  BY <1>1, SameSeen DEF SaveJobPart
<1> DEFINE w == [worker EXCEPT !.pc = "close"]
<1>6. OnlyWorker(w) /\ w.pc = "close"
  BY <1>2, StepOfWorker DEF SaveJobPart, WorkerPC
<1>7. \A p : WorkerOwes(p) => p \in part'
  BY <1>4 DEF WorkerOwes
<1> HIDE DEF w
<1>8. QED BY <1>4, <1>5, <1>6, <1>7, QuietWorkerKeeps

LEMMA CloseJobKeeps == ASSUME IInv, CloseJob PROVE IInv'
  BY NoRowFits, EndKeeps DEF CloseJob, WorkerAt

LEMMA WorkerRow ==
  ASSUME IInv, worker.pc # "idle"
  PROVE  worker.key \in Keys /\ row[worker.key] \in Row
  BY DEF IInv, Typed, WorkerFits, TablesFit

LEMMA GiveUpKeeps == ASSUME IInv, GiveUp PROVE IInv'
<1>1. SeenFits' /\ spare' = spare
  BY SameSeen DEF IInv, Typed, GiveUp
<1>2. worker.pc = "giveback" /\ "tell" \in WorkerPC \ {"idle", "send"}
  BY DEF GiveUp, WorkerAt, WorkerPC
<1>3. QED BY <1>1, <1>2, MoveKeeps DEF GiveUp

LEMMA GiveBackKeeps == ASSUME IInv, GiveBack PROVE IInv'
<1>1. worker.pc = "giveback"
  BY DEF GiveBack, WorkerAt
<1>2. Retried(worker.key, row[worker.key]) \in Row
  BY <1>1, WorkerRow, TriedRowsFit
<1>3. row' = [row EXCEPT ![worker.key] = Retried(worker.key, row[worker.key])]
  BY DEF GiveBack
<1>4. QED BY <1>1, <1>2, <1>3, EndKeeps DEF GiveBack

LEMMA FailJobKeeps == ASSUME IInv, FailJob PROVE IInv'
<1>1. worker.pc = "fail"
  BY DEF FailJob, WorkerAt
<1>2. Failed(worker.key, row[worker.key]) \in Row
  BY <1>1, WorkerRow, TriedRowsFit
<1>3. row' = [row EXCEPT ![worker.key] = Failed(worker.key, row[worker.key])]
  BY DEF FailJob
<1>4. QED BY <1>1, <1>2, <1>3, EndKeeps DEF FailJob

LEMMA TellKeeps == ASSUME IInv, Tell PROVE IInv'
<1>1. worker.pc = "tell" /\ "fail" \in WorkerPC \ {"idle", "send"}
  BY DEF Tell, WorkerAt, WorkerPC
<1>2. P \in Parts
  BY <1>1, KeyFacts DEF IInv, Typed, WorkerFits, P
<1>3. SeenFits' /\ spare' = spare
  BY <1>2 DEF IInv, Typed, SeenFits, Tell
<1>4. QED BY <1>1, <1>3, MoveKeeps DEF Tell

LEMMA JobStepKeeps == ASSUME IInv, JobStep PROVE IInv'
  BY LookStepKeeps, CloseRecoveredKeeps, DownloadKeeps, RelookKeeps,
     SendJobKeeps, SaveJobPartKeeps, CloseJobKeeps, GiveUpKeeps, GiveBackKeeps,
     TellKeeps, FailJobKeeps, Zenon DEF JobStep

-----------------------------------------------------------------------------
(* The poll and the time: the calls and what may be posted stay.           *)
LEMMA EnvironmentKeeps ==
  ASSUME IInv, TablesFit', WorkerFits', part' = part,
         UNCHANGED <<call, worker, seen, faults>>
  PROVE  IInv'
<1>1. CallsFit' /\ SeenFits' /\ spare' = spare
  BY SameSeen DEF IInv, Typed, CallsFit, CallFits
<1>2. \A p : /\ WorkerMayPost(p)' <=> WorkerMayPost(p)
             /\ WorkerOwes(p)' <=> WorkerOwes(p)
  BY DEF WorkerMayPost, WorkerOwes, WorkerAt, P
<1>3. ASSUME NEW p \in Parts PROVE CoveredAt(p)'
  BY <1>1, <1>2, QuietWorker DEF IInv, Typed
<1>4. QED BY <1>1, <1>3 DEF IInv, Typed, Covered

LEMMA JobFits ==
  ASSUME TablesFit, NEW k \in Keys
  PROVE  Job(k) \in JobRecord /\ Job(k).pc = "look" /\ Job(k).key \in Keys
<1>1. row[k] \in Row /\ k \in Versions \X Parts
  BY KeyFacts DEF TablesFit
<1>2. QED BY <1>1 DEF Job, JobRecord, Row, WorkerPC

LEMMA PollKeeps == ASSUME IInv, NEW k \in Keys, Poll(k) PROVE IInv'
<1>1. TablesFit' /\ part' = part /\ TablesFit
  BY SameTables DEF IInv, Typed, Poll
<1>2. PICK polled \in SUBSET Keys : batch' = {Job(l) : l \in polled}
  BY DEF Poll
<1>3. \A j \in batch' : j \in JobRecord /\ j.pc = "look" /\ j.key \in Keys
  BY <1>1, <1>2, JobFits
<1>4. WorkerFits'
  BY <1>3 DEF IInv, Typed, WorkerFits, Poll
<1>5. QED BY <1>1, <1>4, EnvironmentKeeps DEF Poll

LEMMA LeaseJobKeeps == ASSUME IInv, NEW j \in batch, LeaseJob(j) PROVE IInv'
<1>1. TablesFit /\ SeenFits
  BY DEF IInv, Typed
<1>2. j \in JobRecord /\ j.pc = "look" /\ j.key \in Keys
  BY DEF IInv, Typed, WorkerFits
<1>3. row[j.key] \in Row
  BY <1>1, <1>2 DEF TablesFit
<1>4. row' \in [Keys -> Row]
  BY <1>1, <1>2, <1>3, RowsFit DEF LeaseJob, TablesFit
<1>5. TablesFit' /\ part' = part
  BY <1>1, <1>4 DEF LeaseJob, TablesFit
<1>6. SeenFits' /\ spare' = spare
  BY <1>1, SameSeen DEF LeaseJob
<1>7. \A p : ~WorkerOwes(p)
  BY DEF LeaseJob, WorkerOwes, WorkerAt
<1>8. CASE worker' = j
  <2>1. OnlyWorker(j)
    BY <1>2, <1>8 DEF OnlyWorker, LeaseJob
  <2>2. QED BY <1>2, <1>5, <1>6, <1>7, <2>1, QuietWorkerKeeps
<1>9. CASE worker' = worker
  <2>1. OnlyWorker(worker) /\ worker.pc = "idle"
    BY <1>9 DEF OnlyWorker, LeaseJob, IInv, Typed, WorkerFits
  <2>2. PICK w : w = worker
    OBVIOUS
  <2>3. OnlyWorker(w) /\ w.pc # "send"
    BY <1>9, <2>1, <2>2 DEF OnlyWorker
  <2>4. QED BY <1>5, <1>6, <1>7, <2>3, QuietWorkerKeeps
<1>10. QED BY <1>8, <1>9 DEF LeaseJob

LEMMA TimeKeeps ==
  ASSUME IInv, NEW k \in Keys, LeaseLapses(k) \/ PayloadExpires(k)
  PROVE  IInv'
<1>1. TablesFit
  BY DEF IInv, Typed
<1>2. [row[k] EXCEPT !.held = FALSE] \in Row
  BY <1>1, RowsFit DEF TablesFit
<1>3. row' \in [Keys -> Row]
  BY <1>1, <1>2 DEF LeaseLapses, PayloadExpires, TablesFit
<1>4. TablesFit' /\ part' = part
  BY <1>1, <1>3 DEF LeaseLapses, PayloadExpires, TablesFit
<1>5. WorkerFits'
  BY DEF IInv, Typed, WorkerFits, LeaseLapses, PayloadExpires
<1>6. QED BY <1>4, <1>5, EnvironmentKeeps DEF LeaseLapses, PayloadExpires

(* A crash forgets who was posting, and excuses what was not recorded.     *)
LEMMA CrashKeeps == ASSUME IInv, Crash PROVE IInv'
<1>1. TablesFit /\ CallsFit /\ SeenFits /\ Covered
  BY DEF IInv, Typed
<1>2. TablesFit' /\ part' = part
  BY <1>1, SameTables DEF Crash
<1>3. \A c \in Calls : CallFits(call'[c]) /\ call'[c].pc \in {"idle", "over"}
  <2>1. TAKE c \in Calls
  <2>2. CASE At(c, "idle")
    <3>1. call'[c] = call[c]
      BY <2>2 DEF Crash
    <3>2. QED BY <1>1, <2>2, <3>1 DEF CallsFit, At
  <2>3. CASE ~At(c, "idle")
    <3>1. call'[c] = [NoCall EXCEPT !.pc = "over"]
      BY <2>3 DEF Crash
    <3>2. call'[c].pc = "over"
      BY <3>1 DEF NoCall
    <3>3. QED BY <3>1, <3>2, NoCallFits
  <2>4. QED BY <2>2, <2>3
<1>4. CallsFit'
  <2>1. DOMAIN call' = Calls /\ call' = [c \in Calls |-> call'[c]]
    BY DEF Crash
  <2>2. QED BY <1>3, <2>1 DEF CallsFit, CallFits
<1>5. WorkerFits' /\ worker'.pc = "idle"
  BY NoJobFits DEF Crash, WorkerFits
<1> DEFINE S == {p \in Parts : Unrecorded(p)}
<1>6. Excuse(S)
  BY DEF Crash
<1>7. /\ spare' \in [Parts -> Int]
      /\ \A p \in Parts : spare'[p] = IF p \in S /\ spare[p] < MaxSpare
                                      THEN spare[p] + 1 ELSE spare[p]
  <2> HIDE DEF S
  <2>1. QED BY <1>1, <1>6, ExcuseType
<1>8. faults' \in 0..MaxFaults
  BY <1>1, MediaAssumption DEF Crash, SeenFits
<1>9. SeenFits'
  BY <1>1, <1>7, <1>8 DEF Crash, SeenFits
<1>10. \A p : Posters(p)' = {}
  BY <1>3, <1>5 DEF Posters, MayPost, WorkerMayPost, At, WorkerAt
<1>11. ASSUME NEW p \in Parts PROVE CoveredAt(p)'
  <2>1. CASE p \in S
    <3>1. spare'[p] = IF spare[p] < MaxSpare THEN spare[p] + 1 ELSE spare[p]
      BY <1>7, <2>1
    <3>2. Posters(p)' \subseteq Posters(p) \cup {-1}
      BY <1>10
    <3>3. QED BY <1>1, <3>1, <3>2, Excused
  <2>2. CASE p \notin S
    <3>1. spare'[p] = spare[p] /\ ~Unrecorded(p)
      BY <1>7, <2>2
    <3>2. Posters(p)' \subseteq Posters(p)
      BY <1>10
    <3>3. QED BY <1>1, <1>2, <3>1, <3>2, Quiet
  <2>3. QED BY <2>1, <2>2
<1>12. QED BY <1>2, <1>4, <1>5, <1>9, <1>11 DEF IInv, Typed, Covered

LEMMA StepIInv == IInv /\ [Next]_vars => IInv'
<1> SUFFICES ASSUME IInv, [Next]_vars PROVE IInv'
  OBVIOUS
<1>1. CASE UNCHANGED vars
  <2>1. TablesFit' /\ part' = part
    BY <1>1, SameTables DEF vars, IInv, Typed
  <2>2. WorkerFits'
    BY <1>1 DEF vars, IInv, Typed, WorkerFits
  <2>3. QED BY <1>1, <2>1, <2>2, EnvironmentKeeps DEF vars
<1>2. ASSUME NEW c \in Calls, NEW v \in Versions, NEW got \in SUBSET Parts,
             Arrive(c, v, got)
      PROVE  IInv'
  BY <1>2, ArriveKeeps
<1>3. ASSUME NEW c \in Calls, CallStep(c) \/ SendPartLost(c) PROVE IInv'
  BY <1>3, CallStepKeeps, SendPartLostKeeps
<1>4. ASSUME \/ \E k \in Keys : Poll(k)
             \/ \E j \in batch : LeaseJob(j)
      PROVE  IInv'
  BY <1>4, PollKeeps, LeaseJobKeeps
<1>5. CASE JobStep \/ SendJobLost
  BY <1>5, JobStepKeeps, SendJobKeeps
<1>6. ASSUME NEW k \in Keys, LeaseLapses(k) \/ PayloadExpires(k) PROVE IInv'
  BY <1>6, TimeKeeps
<1>7. CASE Crash
  BY <1>7, CrashKeeps
<1>8. QED
  BY <1>1, <1>2, <1>3, <1>4, <1>5, <1>6, <1>7, Zenon DEF Next

(* Nobody may post a medium without a post left for him.                   *)
THEOREM EveryPostIsCovered == Spec => []IInv
<1>1. QED BY InitIInv, StepIInv, PTL DEF Spec

(* A medium is posted twice only when a second task had looked while the   *)
(* first was posting, when a late recovery was left incomplete or its      *)
(* transaction was refused (forwarding.py:333), when an answer was lost,   *)
(* or when a crash fell between a post and its record.                     *)
THEOREM NoCopyWithoutExcuse == Spec => []BoundedCopies
<1>1. IInv => BoundedCopies
  <2>1. SUFFICES ASSUME IInv, NEW p \in Parts PROVE spare[p] >= 0
    BY DEF BoundedCopies
  <2>2. PICK s \in Int : s = spare[p]
    BY <2>1 DEF IInv, Typed, SeenFits
  <2>3. Cardinality(Posters(p)) <= s
    BY <2>1, <2>2 DEF IInv, Covered, CoveredAt
  <2>4. Cardinality(Posters(p)) \in Nat
    BY PostersAre, Counts
  <2>5. QED BY <2>2, <2>3, <2>4
<1>2. QED BY <1>1, EveryPostIsCovered, PTL

-----------------------------------------------------------------------------
(* The files of data/tmp for any tasks, names and sizes: what is sent is   *)
(* the attachment itself, and nothing stays.  The invariant says of every  *)
(* attachment whose name is its own what its .part and its file hold at    *)
(* each place of its download, and of every file who still answers for it. *)

Chunks == (Items \X (1..Size)) \cup {Hole}
Paths == {"no", "part", "local", "lost"}
FileType == [part : Seq(Chunks), local : Seq(Chunks)]

JobType(j) ==
  j \in [pc : PCs, k : Nat \ {0}, plan : {j.plan}, attempt : 1..MaxDownloadAttempts,
         resume : Nat, open : Paths, mode : {"wb", "ab"}, done : 0..Size,
         got : SUBSET Items, mine : SUBSET Items]

Resting == {"idle", "over"}
Active == {"open", "read", "close", "pause"}
Current == Active \cup {"ask", "fetch"}

ItemOf(t, j) == scene.work[t][j.k]
NameOf(t, j) == scene.name[ItemOf(t, j)]
UpTo(t, k) == {scene.work[t][l] : l \in 1..k}

(* The attachments whose name the task has compared with the others'.      *)
Chosen(t, j) ==
  IF j.pc \in Resting THEN {}
  ELSE UpTo(t, IF j.pc = "choose" THEN j.k - 1 ELSE j.k)

(* Those before the one it is at.                                          *)
Past(t, j) ==
  IF j.pc \in Resting THEN {}
  ELSE UpTo(t, IF j.pc = "send" THEN j.k ELSE j.k - 1)

(* Where a job may be in its work, and what it may have open there.        *)
Shape(t, j) ==
  /\ JobType(j)
  /\ j.pc \notin Resting => j.k \in DOMAIN scene.work[t]
  /\ j.pc = "idle" => j.k = 1
  /\ j.pc = "send" => j.k = Len(scene.work[t])
  /\ j.pc \in Active \cup {"ask"} => ~FromTg(t)
  /\ j.pc = "fetch" =>
       FromTg(t) /\ j.open # "part" /\ (j.open # "no" => j.mode = "wb")
  /\ j.pc = "read" => j.open # "no"
  /\ j.pc \notin {"read", "fetch"} => j.open = "no"
  /\ j.got \cup j.mine \subseteq Past(t, j)

(* The first chunks of an attachment.                                      *)
Prefix(i, m) == [k \in 1..m |-> <<i, k>>]
PrefixOrGone(i, n) ==
  Part(n) = Gone \/ \E m \in 0..Size : Part(n) = Prefix(i, m)

(* What the files of its name hold while attachment i is in work.          *)
OffsetOf(j) == IF j.mode = "ab" THEN j.resume ELSE 0
Begun(i, n, j) ==
  /\ j.pc \in {"ask", "pause", "open"} => PrefixOrGone(i, n)
  /\ j.pc = "open" => j.resume = PartSize(n)
  /\ j.pc = "read" => /\ j.open = "part" /\ OffsetOf(j) + j.done <= Size
                      /\ Part(n) = Prefix(i, OffsetOf(j) + j.done)
  /\ j.pc = "close" => Part(n) = Whole(i)
  /\ j.pc = "fetch" => \/ j.open = "no"
                       \/ j.open = "local" /\ Local(n) = Prefix(i, j.done)
Right(t, j) ==
  /\ j.pc \in Current /\ ItemOf(t, j) \notin shared
       => Begun(ItemOf(t, j), NameOf(t, j), j)
  /\ \A i \in j.got \ shared : Local(scene.name[i]) = Whole(i)

FilesTyped ==
  /\ scene \in Scenes
  /\ files \in [Names -> FileType]
  /\ DOMAIN job = Tasks
  /\ sent = [i \in Items |-> sent[i]]
  /\ shared \subseteq Items /\ left \cup kept \subseteq Names /\ cuts \in 0..MaxCuts
  /\ cuts = 0 => left = {}

Jobs == \A t \in Tasks : Shape(t, job[t]) /\ Right(t, job[t])

(* Two in work under one name are both known to share it.                  *)
Apart ==
  \A t, u \in Tasks : \A i \in Chosen(t, job[t]), j \in Chosen(u, job[u]) :
    i # j /\ scene.name[i] = scene.name[j] => i \in shared

(* Who answers for a .part, and for a file.                                *)
HasPart(t, n) == job[t].pc \in Active /\ Name(t) = n
HasFile(t, n) ==
  \/ n \in Held(t)
  \/ job[t].pc = "fetch" /\ job[t].open # "no" /\ Name(t) = n
PartsKept ==
  \A n \in Names : Part(n) # Gone => n \in left \/ \E t \in Tasks : HasPart(t, n)
LocalsKept ==
  \A n \in Names : Local(n) # Gone => n \in kept \/ \E t \in Tasks : HasFile(t, n)

(* A file that is open at its path is there.                               *)
OpenThere == \A t \in Tasks : job[t].open = "local" => Local(Name(t)) # Gone

FilesIInv ==
  FilesTyped /\ Jobs /\ Apart /\ PartsKept /\ LocalsKept /\ OpenThere /\ OwnContent

-----------------------------------------------------------------------------
(* The scene.                                                              *)
LEMMA SceneFacts ==
  ASSUME FilesTyped
  PROVE  /\ \A t \in Tasks : scene.work[t] \in Seq(Items)
         /\ scene.fromTg \subseteq Tasks
         /\ \A t, u \in Tasks :
              \A k \in DOMAIN scene.work[t], l \in DOMAIN scene.work[u] :
                scene.work[t][k] = scene.work[u][l] => t = u /\ k = l
<1>1. scene \in Scenes
  BY DEF FilesTyped
<1>2. scene.work \in [Tasks -> Seq(Items)]
  BY <1>1, FilesAssumption DEF Items
<1>3. QED BY <1>1, <1>2, FilesAssumption

LEMMA UpToFacts ==
  ASSUME FilesTyped, NEW t \in Tasks, NEW k \in Int, k <= Len(scene.work[t])
  PROVE  /\ \A i \in UpTo(t, k) : i \in Items /\ scene.name[i] \in Names
         /\ \A i \in UpTo(t, k) : \E l \in DOMAIN scene.work[t] :
              l \in 1..k /\ i = scene.work[t][l]
<1>1. scene.work[t] \in Seq(Items)
  BY SceneFacts
<1>2. 1..k \subseteq DOMAIN scene.work[t]
  BY <1>1
<1>3. \A i \in UpTo(t, k) : \E l \in DOMAIN scene.work[t] :
        l \in 1..k /\ i = scene.work[t][l]
  BY <1>2 DEF UpTo
<1>4. \A l \in DOMAIN scene.work[t] : scene.work[t][l] \in Items
  BY <1>1
<1>5. \A i \in UpTo(t, k) : i \in Items
  BY <1>3, <1>4
<1>6. QED BY <1>3, <1>5 DEF Names

LEMMA JobFacts ==
  ASSUME FilesTyped, NEW t \in Tasks, NEW j, Shape(t, j)
  PROVE  /\ j.k \in Nat \ {0} /\ j.pc \in PCs
         /\ j.pc \notin Resting => /\ j.k \in DOMAIN scene.work[t]
                                   /\ j.k <= Len(scene.work[t])
                                   /\ ItemOf(t, j) \in Items
                                   /\ NameOf(t, j) \in Names
         /\ Chosen(t, j) \subseteq Items /\ Past(t, j) \subseteq Chosen(t, j)
         /\ j.pc \in Current => /\ ItemOf(t, j) \in Chosen(t, j)
                                /\ ItemOf(t, j) \notin Past(t, j)
<1>1. j.k \in Nat \ {0} /\ j.pc \in PCs
  BY DEF Shape, JobType
<1>2. scene.work[t] \in Seq(Items)
  BY SceneFacts
<1>3. j.pc \notin Resting => /\ j.k \in DOMAIN scene.work[t]
                             /\ j.k <= Len(scene.work[t])
                             /\ ItemOf(t, j) \in Items
                             /\ NameOf(t, j) \in Names
  BY <1>2 DEF Shape, ItemOf, NameOf, Names
<1>4. CASE j.pc \in Resting
  BY <1>1, <1>4 DEF Chosen, Past, Resting, Current, Active
<1>5. CASE j.pc \notin Resting
  <2>1. j.k \in 1..Len(scene.work[t])
    BY <1>1, <1>2, <1>3, <1>5
  <2>2. UpTo(t, j.k) \subseteq Items /\ UpTo(t, j.k - 1) \subseteq Items
    BY <2>1, UpToFacts
  <2>3. UpTo(t, j.k - 1) \subseteq UpTo(t, j.k)
    BY <2>1 DEF UpTo
  <2>4. ItemOf(t, j) \in UpTo(t, j.k)
    BY <2>1 DEF UpTo, ItemOf
  <2>5. ItemOf(t, j) \notin UpTo(t, j.k - 1)
    <3>1. SUFFICES ASSUME ItemOf(t, j) \in UpTo(t, j.k - 1) PROVE FALSE
      OBVIOUS
    <3>2. PICK l \in DOMAIN scene.work[t] :
            l \in 1..(j.k - 1) /\ ItemOf(t, j) = scene.work[t][l]
      BY <2>1, <3>1, UpToFacts
    <3>3. l = j.k
      BY <1>3, <1>5, <3>2, SceneFacts DEF ItemOf
    <3>4. QED BY <2>1, <3>2, <3>3
  <2>6. QED
    BY <1>1, <1>3, <1>5, <2>2, <2>3, <2>4, <2>5
       DEF Chosen, Past, Current, Active
<1>6. QED BY <1>4, <1>5

LEMMA ChosenIsWork ==
  ASSUME FilesTyped, NEW t \in Tasks, NEW j, Shape(t, j), NEW i \in Chosen(t, j)
  PROVE  /\ \E k \in DOMAIN scene.work[t] : i = scene.work[t][k]
         /\ i \in Items /\ scene.name[i] \in Names
<1>1. j.pc \notin Resting
  BY DEF Chosen
<1>2. PICK k \in Int : k <= j.k /\ i \in UpTo(t, k)
  <2>1. CASE j.pc = "choose"
    BY <1>1, <2>1, JobFacts DEF Chosen
  <2>2. CASE j.pc # "choose"
    BY <1>1, <2>2, JobFacts DEF Chosen
  <2>3. QED BY <2>1, <2>2
<1>3. scene.work[t] \in Seq(Items)
  BY SceneFacts
<1>4. k <= Len(scene.work[t])
  BY <1>1, <1>2, <1>3, JobFacts
<1>5. QED BY <1>2, <1>4, UpToFacts

(* Attachments of different tasks differ.                                  *)
LEMMA TasksDiffer ==
  ASSUME FilesTyped, NEW t \in Tasks, NEW u \in Tasks, t # u,
         NEW a, NEW b, Shape(t, a), Shape(u, b),
         NEW i \in Chosen(t, a), NEW j \in Chosen(u, b)
  PROVE  i # j
<1>1. \E k \in DOMAIN scene.work[t] : i = scene.work[t][k]
  BY ChosenIsWork
<1>2. \E l \in DOMAIN scene.work[u] : j = scene.work[u][l]
  BY ChosenIsWork
<1>3. QED BY <1>1, <1>2, SceneFacts

-----------------------------------------------------------------------------
(* What a step of task t does to another task: nothing, or a file of one   *)
(* of the names N that it has open is moved or unlinked.                   *)
Beside(u, N) ==
  \/ job'[u] = job[u]
  \/ /\ Name(u) \in N /\ job[u].open # "no"
     /\ \E o \in {"local", "lost"} : job'[u] = [job[u] EXCEPT !.open = o]

LEMMA BesideFields ==
  ASSUME NEW u, NEW N, Beside(u, N), JobType(job[u])
  PROVE  /\ job'[u].pc = job[u].pc /\ job'[u].k = job[u].k
         /\ job'[u].got = job[u].got /\ job'[u].mine = job[u].mine
         /\ job[u].open # "no" => job'[u].open # "no"
         /\ Name(u) \notin N => job'[u] = job[u]
  BY DEF Beside, JobType

LEMMA BesideShape ==
  ASSUME NEW u \in Tasks, NEW N, Beside(u, N), Shape(u, job[u]),
         scene' = scene
  PROVE  Shape(u, job'[u]) /\ Shape(u, job[u])'
<1>1. CASE job'[u] = job[u]
  BY <1>1 DEF Shape, JobType, FromTg, Past, UpTo, Items
<1>2. CASE job'[u] # job[u]
  <2>1. PICK o \in {"local", "lost"} : job'[u] = [job[u] EXCEPT !.open = o]
    BY <1>2 DEF Beside
  <2>2. job[u].open # "no"
    BY <1>2 DEF Beside
  <2>3. PICK j : j = job[u] /\ JobType(j) /\ j.pc \in {"read", "fetch"}
    BY <2>2 DEF Shape
  <2>4. PICK h : h = [j EXCEPT !.open = o]
    OBVIOUS
  <2>5. JobType(h)
    BY <2>3, <2>4 DEF JobType, Paths
  <2>6. /\ h.pc = j.pc /\ h.k = j.k /\ h.got = j.got /\ h.open = o
        /\ h.mine = j.mine
        /\ h.mode = j.mode
    BY <2>3, <2>4 DEF JobType
  <2>7. Past(u, h) = Past(u, j)
    BY <2>6 DEF Past
  <2>8. Shape(u, h)
    BY <2>2, <2>3, <2>5, <2>6, <2>7 DEF Shape
  <2>9. h = job'[u]
    BY <2>1, <2>3, <2>4
  <2>10. Shape(u, h)'
    BY <2>8 DEF Shape, JobType, FromTg, Past, UpTo, Items
  <2>11. QED BY <2>8, <2>9, <2>10
<1>3. QED BY <1>1, <1>2

(* The names N belong to attachments of t: nobody else whose attachment    *)
(* has its name for itself notices.                                        *)
LEMMA OthersKeep ==
  ASSUME FilesIInv, NEW t \in Tasks, NEW N,
         \A n \in N : \E i \in Chosen(t, job[t]) : scene.name[i] = n,
         scene' = scene, shared \subseteq shared',
         \A n \in Names \ N : files'[n] = files[n],
         NEW u \in Tasks, u # t, Beside(u, N)
  PROVE  /\ Shape(u, job[u])' /\ Right(u, job[u])'
         /\ Chosen(u, job[u])' = Chosen(u, job[u])
         /\ Name(u)' = Name(u)
<1> PICK g : g = job[u]
  OBVIOUS
<1> PICK h : h = job'[u]
  OBVIOUS
<1>1. /\ FilesTyped /\ Apart /\ Shape(u, g) /\ Right(u, g) /\ JobType(g)
      /\ Shape(t, job[t])
  BY DEF FilesIInv, Jobs, Shape
<1>2. /\ h.pc = g.pc /\ h.k = g.k /\ h.got = g.got
      /\ NameOf(u, g) \notin N => h = g
  BY <1>1, BesideFields DEF NameOf, ItemOf, Name, Item
<1>3. Shape(u, job[u])'
  BY <1>1, BesideShape
<1>4. Chosen(u, job[u])' = Chosen(u, job[u])
  BY <1>2 DEF Chosen, UpTo
<1>5. Name(u)' = Name(u)
  BY <1>2 DEF Name, Item
<1>6. ASSUME NEW i \in Chosen(u, g), i \notin shared
      PROVE  scene.name[i] \in Names \ N
  <2>1. scene.name[i] \in Names
    BY <1>1, <1>6, ChosenIsWork
  <2>2. SUFFICES ASSUME scene.name[i] \in N PROVE FALSE
    BY <2>1
  <2>3. PICK k \in Chosen(t, job[t]) : scene.name[k] = scene.name[i]
    BY <2>2
  <2>4. PICK m : m = job[t] /\ Shape(t, m) /\ k \in Chosen(t, m)
    BY <1>1, <2>3
  <2>5. k # i
    BY <1>1, <1>6, <2>4, TasksDiffer
  <2>6. QED BY <1>1, <1>6, <2>3, <2>5 DEF Apart
<1>7. \A i \in g.got \ shared : Local(scene.name[i])' = Local(scene.name[i])
  <2>1. g.got \subseteq Chosen(u, g)
    BY <1>1, JobFacts DEF Shape
  <2>2. QED BY <1>6, <2>1 DEF Local
<1>8. \A i \in h.got \ shared' : Local(scene.name[i])' = Whole(i)
  BY <1>1, <1>2, <1>7 DEF Right
<1>9. CASE h.pc \in Current /\ ItemOf(u, h) \notin shared'
  <2>1. PICK i \in Items : i = ItemOf(u, g) /\ i \in Chosen(u, g)
    BY <1>1, <1>2, <1>9, JobFacts DEF Current, Active, Resting
  <2>2. i \notin shared
    BY <1>2, <1>9, <2>1 DEF ItemOf
  <2>3. scene.name[i] \in Names \ N
    BY <1>6, <2>1, <2>2
  <2>4. PICK n : n = scene.name[i] /\ n \in Names \ N /\ n = NameOf(u, g)
    BY <2>1, <2>3 DEF NameOf
  <2>5. h = g
    BY <1>2, <2>4
  <2>6. Begun(i, n, g)
    BY <1>1, <1>2, <1>9, <2>1, <2>2, <2>4 DEF Right
  <2>7. files'[n] = files[n]
    BY <2>4
  <2>8. Begun(i, n, h)'
    BY <2>5, <2>6, <2>7 DEF Begun, PrefixOrGone, Part, Local, PartSize, Whole
  <2>9. ItemOf(u, h)' = i /\ NameOf(u, h)' = n
    BY <2>1, <2>4, <2>5 DEF ItemOf, NameOf
  <2>10. Right(u, h)'
    BY <1>8, <2>8, <2>9 DEF Right, Local, Whole
  <2>11. QED BY <1>3, <1>4, <1>5, <2>10
<1>10. CASE ~(h.pc \in Current /\ ItemOf(u, h) \notin shared')
  <2>1. ItemOf(u, h)' = ItemOf(u, h)
    BY DEF ItemOf
  <2>2. Right(u, h)'
    BY <1>8, <1>10, <2>1 DEF Right, Local, Whole
  <2>3. QED BY <1>3, <1>4, <1>5, <2>2
<1>11. QED BY <1>9, <1>10

(* The task goes on answering for the files it answered for.               *)
Keeping(t, j) ==
  /\ job[t].mine \subseteq j.mine
  /\ job[t].pc = "fetch" /\ job[t].open # "no" =>
       \/ Item(t) \in j.mine
       \/ j.pc = "fetch" /\ j.open # "no" /\ j.k = job[t].k

LEMMA KeepsFiles ==
  ASSUME NEW t \in Tasks, NEW j, Keeping(t, j), job'[t] = j, scene' = scene, NEW n
  PROVE  HasFile(t, n) => HasFile(t, n)'
<1>1. CASE n \in Held(t)
  BY <1>1 DEF Keeping, HasFile, Held
<1>2. CASE job[t].pc = "fetch" /\ job[t].open # "no" /\ Name(t) = n
  BY <1>2 DEF Keeping, HasFile, Held, Name, Item
<1>3. QED BY <1>1, <1>2 DEF HasFile

LEMMA OpenStays ==
  ASSUME OpenThere, NEW t \in Tasks, NEW j, job'[t] = j, j.open # "local",
         \A u \in Tasks \ {t} : job'[u] = job[u], UNCHANGED <<scene, files>>
  PROVE  OpenThere'
<1>1. ASSUME NEW u \in Tasks, job'[u].open = "local" PROVE Local(Name(u))' # Gone
  <2>1. job'[u] = job[u] /\ job[u].open = "local"
    BY <1>1
  <2>2. Name(u)' = Name(u)
    BY <2>1 DEF Name, Item
  <2>3. QED BY <2>1, <2>2 DEF OpenThere, Local
<1>2. QED BY <1>1 DEF OpenThere

(* A step of one task, as seen from the invariant.                         *)
LEMMA TaskStep ==
  ASSUME FilesIInv, NEW t \in Tasks, NEW j, NEW N,
         \A n \in N : \E i \in Chosen(t, job[t]) : scene.name[i] = n,
         UNCHANGED <<scene, shared, kept>>, OpenThere', Keeping(t, j),
         sent' = [i \in Items |-> sent'[i]], OwnContent',
         left \subseteq left', left' \subseteq Names, cuts' \in 0..MaxCuts,
         cuts' = 0 => left' = {} /\ cuts = 0,
         files' \in [Names -> FileType],
         \A n \in Names \ N : files'[n] = files[n],
         DOMAIN job' = Tasks, job'[t] = j,
         \A u \in Tasks \ {t} : Beside(u, N),
         Shape(t, j), Right(t, j)', j.pc \notin Resting,
         Chosen(t, j) \subseteq Chosen(t, job[t]),
         \A n \in Names : Part(n)' # Gone =>
           \/ Part(n) # Gone /\ (HasPart(t, n) =>
                                   n \in left' \/ HasPart(t, n)')
           \/ HasPart(t, n)',
         \A n \in Names : Local(n)' # Gone => Local(n) # Gone \/ HasFile(t, n)'
  PROVE  FilesIInv'
<1>1. FilesTyped /\ Jobs /\ Apart /\ PartsKept /\ LocalsKept /\ OwnContent
  BY DEF FilesIInv
<1>2. Items' = Items /\ Names' = Names /\ FileType' = FileType
  BY DEF Items, Names, FileType, Chunks
<1>3. FilesTyped'
  BY <1>1, <1>2 DEF FilesTyped
<1>4. ASSUME NEW u \in Tasks, u # t
      PROVE  /\ Shape(u, job[u])' /\ Right(u, job[u])'
             /\ Chosen(u, job[u])' = Chosen(u, job[u])
             /\ Name(u)' = Name(u)
  BY <1>4, OthersKeep
<1>5. Shape(t, job[t])' /\ Right(t, job[t])'
  <2>1. Shape(t, j)'
    BY <1>2 DEF Shape, JobType, FromTg, Past, UpTo
  <2>2. QED BY <2>1
<1>6. Jobs'
  BY <1>4, <1>5 DEF Jobs
<1>7. \A u \in Tasks : Chosen(u, job[u])' \subseteq Chosen(u, job[u])
  <2>1. Chosen(t, job[t])' = Chosen(t, j)
    BY DEF Chosen, UpTo
  <2>2. QED BY <2>1, <1>4
<1>8. Apart'
  BY <1>1, <1>7 DEF Apart
<1>9. \A u \in Tasks \ {t} : job'[u].pc = job[u].pc
  BY <1>1, BesideFields DEF Jobs, Shape
<1>10. PartsKept'
  <2>1. SUFFICES ASSUME NEW n \in Names, Part(n)' # Gone
                 PROVE  n \in left' \/ \E u \in Tasks : HasPart(u, n)'
    BY <1>2 DEF PartsKept
  <2>2. CASE HasPart(t, n)'
    BY <2>2
  <2>3. CASE /\ Part(n) # Gone
             /\ HasPart(t, n) => n \in left' \/ HasPart(t, n)'
    <3>1. CASE n \in left
      BY <3>1
    <3>2. ASSUME NEW u \in Tasks, HasPart(u, n)
          PROVE  n \in left' \/ \E w \in Tasks : HasPart(w, n)'
      <4>1. CASE u = t
        BY <2>3, <3>2, <4>1
      <4>2. CASE u # t
        <5>1. HasPart(u, n)'
          BY <1>4, <1>9, <3>2, <4>2 DEF HasPart
        <5>2. QED BY <5>1
      <4>3. QED BY <4>1, <4>2
    <3>3. QED BY <1>1, <2>3, <3>1, <3>2 DEF PartsKept
  <2>4. QED BY <2>1, <2>2, <2>3
<1>11. LocalsKept'
  <2>1. SUFFICES ASSUME NEW n \in Names, Local(n)' # Gone
                 PROVE  n \in kept \/ \E u \in Tasks : HasFile(u, n)'
    BY <1>2 DEF LocalsKept
  <2>2. ASSUME NEW u \in Tasks, HasFile(u, n) PROVE HasFile(u, n)'
    <3>1. CASE u = t
      BY <2>2, <3>1, KeepsFiles
    <3>2. CASE u # t
      <4>1. /\ job'[u].mine = job[u].mine /\ job'[u].pc = job[u].pc
            /\ job[u].open # "no" => job'[u].open # "no"
        BY <1>1, <3>2, BesideFields DEF Jobs, Shape
      <4>2. Held(u)' = Held(u) /\ Name(u)' = Name(u)
        BY <1>4, <3>2, <4>1 DEF Held
      <4>3. QED BY <2>2, <4>1, <4>2 DEF HasFile
    <3>3. QED BY <3>1, <3>2
  <2>3. QED BY <1>1, <2>1, <2>2 DEF LocalsKept
<1>12. QED BY <1>3, <1>6, <1>8, <1>10, <1>11 DEF FilesIInv

LEMMA SentStays ==
  ASSUME FilesIInv, UNCHANGED <<scene, sent, shared>>
  PROVE  sent' = [i \in Items |-> sent'[i]] /\ OwnContent'
<1>1. Items' = Items
  BY DEF Items
<1>2. QED BY <1>1 DEF FilesIInv, FilesTyped, OwnContent, Whole

(* It leaves the files alone.                                              *)
LEMMA QuietStep ==
  ASSUME FilesIInv, NEW t \in Tasks, NEW j,
         job' = [job EXCEPT ![t] = j],
         UNCHANGED <<scene, files, sent, shared, left, kept, cuts>>,
         Shape(t, j), Right(t, j), j.pc \notin Resting,
         Keeping(t, j), j.open # "local",
         Chosen(t, j) \subseteq Chosen(t, job[t]),
         job[t].pc \in Active =>
           \/ Part(Name(t)) = Gone
           \/ j.pc \in Active /\ j.k = job[t].k
  PROVE  FilesIInv'
<1>1. FilesTyped /\ Jobs
  BY DEF FilesIInv
<1>2. DOMAIN job' = Tasks /\ job'[t] = j /\ \A u \in Tasks \ {t} : job'[u] = job[u]
  BY <1>1 DEF FilesTyped
<1>3. \A u \in Tasks \ {t} : Beside(u, {})
  BY <1>2 DEF Beside
<1>4. Right(t, j)'
  BY DEF Right, ItemOf, NameOf, Begun, PrefixOrGone, PartSize, Part, Local, Whole
<1>5. \A n \in Names : Part(n)' # Gone =>
        Part(n) # Gone /\ (HasPart(t, n) => HasPart(t, n)')
  BY <1>2 DEF HasPart, Part, Name, Item
<1>6. \A n \in Names : Local(n)' # Gone => Local(n) # Gone
  BY DEF Local
<1>7. /\ left' \subseteq Names /\ cuts' \in 0..MaxCuts
      /\ cuts' = 0 => left' = {} /\ cuts = 0
      /\ files' \in [Names -> FileType]
  BY <1>1 DEF FilesTyped
<1>8. \A n \in {} : \E i \in Chosen(t, job[t]) : scene.name[i] = n
  OBVIOUS
<1>9. \A n \in Names \ {} : files'[n] = files[n]
  OBVIOUS
<1>10. PICK N : N = {}
  OBVIOUS
<1>11. OpenThere'
  BY <1>2, OpenStays DEF FilesIInv
<1>12. QED
  BY <1>2, <1>3, <1>4, <1>5, <1>6, <1>7, <1>8, <1>9, <1>10, <1>11, SentStays, TaskStep

(* It touches the files of the name it is at, and others that have them    *)
(* open follow.                                                            *)
LEMMA OwnStep ==
  ASSUME FilesIInv, NEW t \in Tasks, NEW j, NEW n, n = Name(t),
         job[t].pc \in Current, NEW f \in FileType,
         files' = [files EXCEPT ![n] = f],
         UNCHANGED <<scene, shared, sent, left, kept, cuts>>,
         DOMAIN job' = Tasks, job'[t] = j,
         \A u \in Tasks \ {t} : Beside(u, {n}),
         Shape(t, j), Right(t, j)', j.pc \notin Resting, Keeping(t, j),
         \/ f.local # Gone
         \/ f.local = Local(n) /\ \A u \in Tasks \ {t} :
              job'[u].open = "local" => job[u].open = "local",
         j.open = "local" => f.local # Gone /\ j.k = job[t].k,
         \/ Local(n) # Gone \/ f.local = Local(n) \/ Item(t) \in j.mine
         \/ j.pc = "fetch" /\ j.open # "no" /\ j.k = job[t].k,
         Chosen(t, j) \subseteq Chosen(t, job[t]),
         \/ f.part = Gone
         \/ j.pc \in Active /\ j.k = job[t].k
         \/ f.part = Part(n) /\ job[t].pc \notin Active
  PROVE  FilesIInv'
<1>1. FilesTyped /\ Jobs
  BY DEF FilesIInv
<1>2. PICK g : g = job[t] /\ Shape(t, g) /\ n = NameOf(t, g)
               /\ ItemOf(t, g) \in Chosen(t, g) /\ n \in Names
  BY <1>1, JobFacts DEF Jobs, NameOf, ItemOf, Name, Item, Current, Active, Resting
<1>3. \A m \in {n} : \E i \in Chosen(t, job[t]) : scene.name[i] = m
  BY <1>2 DEF NameOf
<1>4. /\ files' \in [Names -> FileType] /\ files'[n] = f
      /\ \A m \in Names \ {n} : files'[m] = files[m]
  BY <1>1, <1>2 DEF FilesTyped
<1>5. ASSUME NEW m \in Names, Part(m)' # Gone
      PROVE  \/ Part(m) # Gone /\ (HasPart(t, m) => HasPart(t, m)')
             \/ HasPart(t, m)'
  <2>1. CASE m = n
    BY <1>4, <1>5, <2>1 DEF HasPart, Part, Name, Item
  <2>2. CASE m # n
    BY <1>4, <1>5, <2>2 DEF HasPart, Part
  <2>3. QED BY <2>1, <2>2
<1>6. ASSUME NEW m \in Names, Local(m)' # Gone
      PROVE  Local(m) # Gone \/ HasFile(t, m)'
  <2>1. CASE m = n
    <3>1. Local(n)' = f.local
      BY <1>4 DEF Local
    <3>2. CASE Item(t) \in j.mine
      BY <2>1, <3>2 DEF HasFile, Held, Name
    <3>3. CASE j.pc = "fetch" /\ j.open # "no" /\ j.k = job[t].k
      BY <2>1, <3>3 DEF HasFile, Name, Item
    <3>4. QED BY <1>6, <2>1, <3>1, <3>2, <3>3
  <2>2. CASE m # n
    BY <1>4, <1>6, <2>2 DEF Local
  <2>3. QED BY <2>1, <2>2
<1>7. /\ left' \subseteq Names /\ cuts' \in 0..MaxCuts
      /\ cuts' = 0 => left' = {} /\ cuts = 0
  BY <1>1 DEF FilesTyped
<1>8. PICK N : N = {n}
  OBVIOUS
<1>9. OpenThere'
  <2>1. ASSUME NEW u \in Tasks, job'[u].open = "local" PROVE Local(Name(u))' # Gone
    <3>1. CASE u = t
      <4>1. Name(t)' = n
        BY <2>1, <3>1 DEF Name, Item
      <4>2. QED BY <1>4, <2>1, <3>1, <4>1 DEF Local
    <3>2. CASE u # t
      <4>1. PICK e : e = job[u] /\ JobType(e)
        BY <1>1 DEF Jobs, Shape
      <4>2. Name(u)' = Name(u)
        BY <3>2, <4>1, BesideFields DEF Name, Item
      <4>3. CASE Name(u) = n
        <5>1. CASE f.local # Gone
          BY <1>4, <4>2, <4>3, <5>1 DEF Local
        <5>2. CASE f.local = Local(n) /\ job[u].open = "local"
          <6>1. Local(Name(u)) # Gone
            BY <5>2 DEF FilesIInv, OpenThere
          <6>2. QED BY <1>4, <4>2, <4>3, <5>2, <6>1 DEF Local
        <5>3. QED BY <2>1, <3>2, <5>1, <5>2
      <4>4. CASE Name(u) # n
        <5>1. job'[u] = job[u]
          BY <3>2, <4>1, <4>4, BesideFields
        <5>2. Local(Name(u)) # Gone
          BY <2>1, <5>1 DEF FilesIInv, OpenThere
        <5>3. Name(u) \in Names
          <6>1. e.pc \notin Resting /\ Shape(u, e)
            BY <1>1, <2>1, <4>1, <5>1 DEF Jobs, Shape, Resting
          <6>2. QED BY <1>1, <4>1, <6>1, JobFacts DEF Name, NameOf, Item, ItemOf
        <5>4. QED BY <1>4, <4>2, <4>4, <5>2, <5>3 DEF Local
      <4>5. QED BY <4>3, <4>4
    <3>3. QED BY <3>1, <3>2
  <2>2. QED BY <2>1 DEF OpenThere
<1>10. QED
  BY <1>3, <1>4, <1>5, <1>6, <1>7, <1>8, <1>9, SentStays, TaskStep

-----------------------------------------------------------------------------
(* What remains true of the task's own attachment.                         *)
LEMMA PrefixType ==
  ASSUME FilesTyped, NEW i \in Items, NEW m \in 0..Size
  PROVE  /\ Prefix(i, m) \in Seq(Chunks) /\ Len(Prefix(i, m)) = m
         /\ Prefix(i, m) # Gone
         /\ Whole(i) = Prefix(i, Size)
         /\ \A k \in 1..m : Prefix(i, m)[k] = <<i, k>>
<1>1. \A k \in 1..m : <<i, k>> \in Chunks
  BY FilesAssumption DEF Chunks
<1>2. Prefix(i, m) \in Seq(Chunks) /\ Len(Prefix(i, m)) = m
  BY <1>1, FilesAssumption DEF Prefix
<1>3. Prefix(i, m) # Gone
  <2>1. SUFFICES ASSUME Prefix(i, m) = <<Hole>> PROVE FALSE
    BY DEF Gone
  <2>2. m = 1 /\ Prefix(i, m)[1] = Hole
    BY <1>2, <2>1
  <2>3. <<i, 1>> = <<0, 0>>
    BY <2>2 DEF Prefix, Hole
  <2>4. QED BY <2>3
<1>4. Whole(i) = Prefix(i, Size)
  BY DEF Whole, Prefix
<1>5. \A k \in 1..m : Prefix(i, m)[k] = <<i, k>>
  BY DEF Prefix
<1>6. QED BY <1>2, <1>3, <1>4, <1>5

LEMMA EmptyPrefix == \A i : <<>> = Prefix(i, 0)
  BY DEF Prefix

LEMMA GoneType == FilesTyped => Gone \in Seq(Chunks) /\ <<>> \in Seq(Chunks)
  BY DEF Gone, Chunks

LEMMA OwnFacts ==
  ASSUME FilesIInv, NEW t \in Tasks, job[t].pc \notin Resting
  PROVE  /\ FilesTyped /\ Apart /\ Shape(t, job[t]) /\ Right(t, job[t])
         /\ Item(t) = ItemOf(t, job[t]) /\ Name(t) = NameOf(t, job[t])
         /\ Item(t) \in Items /\ Name(t) \in Names
         /\ Name(t) = scene.name[Item(t)]
         /\ files[Name(t)] \in FileType
<1>1. FilesTyped /\ Apart /\ Shape(t, job[t]) /\ Right(t, job[t])
  BY DEF FilesIInv, Jobs
<1>2. Item(t) = ItemOf(t, job[t]) /\ Name(t) = NameOf(t, job[t])
  BY DEF Item, Name, ItemOf, NameOf
<1>3. PICK g : g = job[t]
  OBVIOUS
<1>4. ItemOf(t, g) \in Items /\ NameOf(t, g) \in Names
  BY <1>1, <1>3, JobFacts
<1>5. QED BY <1>1, <1>2, <1>3, <1>4 DEF FilesTyped, Name

(* No other file of the task has the name of the one it is at.             *)
LEMMA GotApart ==
  ASSUME FilesIInv, NEW t \in Tasks, job[t].pc \in Current
  PROVE  \A i \in job[t].got \ shared :
           scene.name[i] \in Names \ {Name(t)} /\ Local(scene.name[i]) = Whole(i)
<1>1. PICK g : g = job[t]
  OBVIOUS
<1>2. job[t].pc \notin Resting
  BY DEF Current, Active, Resting
<1>3. FilesTyped /\ Apart /\ Shape(t, g) /\ Right(t, g)
  BY <1>1, <1>2, OwnFacts
<1>4. TAKE i \in job[t].got \ shared
<1>5. i \in Past(t, g) /\ i \in Chosen(t, g)
  BY <1>1, <1>3, <1>4, JobFacts DEF Shape
<1>6. ItemOf(t, g) \in Chosen(t, g) /\ i # ItemOf(t, g)
  BY <1>1, <1>3, <1>5, JobFacts
<1>7. scene.name[i] \in Names
  BY <1>3, <1>5, ChosenIsWork
<1>8. scene.name[i] # scene.name[ItemOf(t, g)]
  BY <1>1, <1>3, <1>4, <1>5, <1>6 DEF Apart
<1>9. QED BY <1>1, <1>3, <1>4, <1>7, <1>8 DEF Right, Name, Item, ItemOf

LEMMA GotStays ==
  ASSUME FilesIInv, NEW t \in Tasks, job[t].pc \in Current,
         NEW n, n = Name(t), NEW f, files' = [files EXCEPT ![n] = f],
         UNCHANGED <<scene, shared>>
  PROVE  \A i \in job[t].got \ shared' : Local(scene.name[i])' = Whole(i)
<1>1. DOMAIN files = Names
  BY DEF FilesIInv, FilesTyped
<1>2. \A m \in Names \ {n} : files'[m] = files[m]
  BY <1>1
<1>3. QED BY <1>2, GotApart DEF Local

LEMMA StillPrefix ==
  ASSUME FilesIInv, NEW t \in Tasks, job[t].pc \in Active \cup {"ask"},
         Item(t) \notin shared
  PROVE  PrefixOrGone(Item(t), Name(t))
<1>1. PICK g : g = job[t]
  OBVIOUS
<1>2. job[t].pc \notin Resting /\ g.pc \in Current
  BY <1>1 DEF Current, Active, Resting
<1>3. PICK i \in Items : i = Item(t)
  BY <1>2, OwnFacts
<1>4. PICK n \in Names : n = Name(t)
  BY <1>2, OwnFacts
<1>5. Begun(i, n, g) /\ JobType(g) /\ FilesTyped
  BY <1>1, <1>2, <1>3, <1>4, OwnFacts DEF Right, Shape
<1>6. CASE g.pc = "read"
  <2>1. OffsetOf(g) + g.done \in 0..Size
    BY <1>5, <1>6, FilesAssumption DEF Begun, OffsetOf, JobType
  <2>2. QED BY <1>3, <1>4, <1>5, <1>6, <2>1 DEF Begun, PrefixOrGone
<1>7. CASE g.pc = "close"
  <2>1. Size \in 0..Size
    BY FilesAssumption
  <2>2. Part(n) = Prefix(i, Size)
    BY <1>5, <1>7, <2>1, PrefixType DEF Begun
  <2>3. QED BY <1>3, <1>4, <2>1, <2>2 DEF PrefixOrGone
<1>8. CASE g.pc \notin {"read", "close"}
  BY <1>1, <1>3, <1>4, <1>5, <1>8 DEF Begun, Active
<1>9. QED BY <1>6, <1>7, <1>8

-----------------------------------------------------------------------------
(* The jobs the steps make.                                                *)
LEMMA IdleShape ==
  ASSUME FilesTyped, NEW t \in Tasks
  PROVE  /\ Shape(t, Idle) /\ Idle.pc = "idle" /\ Idle.got = {}
         /\ Idle.mine = {} /\ Idle.open = "no"
         /\ Shape(t, Ended) /\ Ended.pc = "over" /\ Ended.got = {}
         /\ Ended.mine = {} /\ Ended.open = "no"
<1>1. 1 \in 1..MaxDownloadAttempts /\ 0 \in 0..Size
  BY FilesAssumption
<1>2. PICK a : a = Idle
  OBVIOUS
<1>3. PICK b : b = Ended
  OBVIOUS
<1>4. /\ a.pc = "idle" /\ a.got = {} /\ a.k = 1 /\ a.open = "no" /\ a.mine = {}
      /\ b.pc = "over" /\ b.got = {} /\ b.k = 1 /\ b.open = "no" /\ b.mine = {}
  BY <1>2, <1>3 DEF Idle, Ended
<1>5. JobType(a)
  BY <1>1, <1>2 DEF Idle, JobType, PCs, Paths
<1>6. JobType(b)
  BY <1>1, <1>3 DEF Idle, Ended, JobType, PCs, Paths
<1>7. Shape(t, a)
  BY <1>4, <1>5 DEF Shape, Resting, Active, Past
<1>8. Shape(t, b)
  BY <1>4, <1>6 DEF Shape, Resting, Active, Past
<1>9. QED BY <1>2, <1>3, <1>4, <1>7, <1>8

LEMMA ClosedFields ==
  ASSUME FilesTyped, NEW j, JobType(j), NEW pc \in PCs
  PROVE  /\ JobType(Closed(j, pc))
         /\ Closed(j, pc).pc = pc /\ Closed(j, pc).open = "no"
         /\ Closed(j, pc).k = j.k /\ Closed(j, pc).got = j.got
         /\ Closed(j, pc).mine = j.mine
<1>1. 0 \in 0..Size
  BY FilesAssumption
<1>2. QED BY <1>1 DEF Closed, JobType, Paths

(* The task turns to its next attachment, or to sending.                   *)
Advances(t, got, h) ==
  /\ Shape(t, h) /\ h.pc \in {"choose", "send"} /\ h.open = "no"
  /\ Chosen(t, h) \subseteq Chosen(t, job[t])
  /\ h.got = job[t].got \cup got /\ h.mine = job[t].mine \cup got

LEMMA AdvancedFits ==
  ASSUME FilesIInv, NEW t \in Tasks, job[t].pc \in Current,
         NEW got, got \subseteq {Item(t)}, NEW h, h = Advanced(t, got)
  PROVE  Advances(t, got, h)
<1>1. PICK g : g = job[t]
  OBVIOUS
<1>2. job[t].pc \notin Resting /\ g.pc \in Current
  BY <1>1 DEF Current, Active, Resting
<1>3. FilesTyped /\ Shape(t, g) /\ JobType(g) /\ Item(t) \in Items
  BY <1>1, <1>2, OwnFacts DEF Shape
<1>4. PICK z : z = Closed(g, "send")
  OBVIOUS
<1>5. JobType(z) /\ z.open = "no" /\ z.k = g.k /\ z.got = g.got /\ z.mine = g.mine
  BY <1>3, <1>4, ClosedFields DEF PCs
<1>6. PICK L : L = Len(scene.work[t])
  OBVIOUS
<1>7. scene.work[t] \in Seq(Items) /\ L \in Nat /\ g.k \in 1..L
      /\ DOMAIN scene.work[t] = 1..L
  <2>1. scene.work[t] \in Seq(Items) /\ g.k \in DOMAIN scene.work[t]
    BY <1>1, <1>2, <1>3, SceneFacts, JobFacts
  <2>2. QED BY <1>6, <2>1
<1>8. h = [z EXCEPT !.got = @ \cup got, !.mine = @ \cup got,
                    !.plan = <<>>, !.attempt = 1,
                    !.k = IF @ < L THEN @ + 1 ELSE @,
                    !.pc = IF g.k < L THEN "choose" ELSE "send"]
  BY <1>1, <1>4, <1>6 DEF Advanced
<1>9. /\ h.got = g.got \cup got /\ h.open = "no" /\ h.mine = g.mine \cup got
      /\ h.k = IF g.k < L THEN g.k + 1 ELSE g.k
      /\ h.pc = IF g.k < L THEN "choose" ELSE "send"
  BY <1>5, <1>8 DEF JobType
<1>10. JobType(h)
  <2>1. 1 \in 1..MaxDownloadAttempts /\ h.k \in Nat \ {0} /\ h.pc \in PCs
    BY <1>7, <1>9, FilesAssumption DEF PCs
  <2>2. h.got \subseteq Items /\ h.mine \subseteq Items
    BY <1>3, <1>9 DEF JobType
  <2>3. h.plan = <<>> /\ h.attempt = 1
    BY <1>5, <1>8 DEF JobType
  <2>4. h \in [pc : {h.pc}, k : {h.k}, plan : {<<>>}, attempt : {1},
               resume : Nat, open : {"no"}, mode : {"wb", "ab"},
               done : 0..Size, got : {h.got}, mine : {h.mine}]
    BY <1>5, <1>8, <1>9, <2>3 DEF JobType
  <2>5. QED BY <2>1, <2>2, <2>3, <2>4 DEF JobType, Paths
<1>11. /\ Past(t, h) = UpTo(t, g.k) /\ Chosen(t, h) = UpTo(t, g.k)
       /\ Chosen(t, g) = UpTo(t, g.k) /\ Past(t, g) = UpTo(t, g.k - 1)
  BY <1>2, <1>7, <1>9 DEF Past, Chosen, Resting, Current, Active
<1>12. h.got \cup h.mine \subseteq Past(t, h)
  <2>1. g.got \cup g.mine \subseteq UpTo(t, g.k)
    BY <1>3, <1>7, <1>11 DEF Shape, UpTo
  <2>2. Item(t) \in UpTo(t, g.k)
    BY <1>1, <1>7 DEF Item, UpTo
  <2>3. QED BY <1>9, <1>11, <2>1, <2>2
<1>13. Shape(t, h)
  BY <1>6, <1>7, <1>9, <1>10, <1>12 DEF Shape, Active, Resting
<1>14. QED BY <1>1, <1>9, <1>11, <1>13 DEF Advances

(* Or to the next way to have this one.                                    *)
LEMMA WithPlanFits ==
  ASSUME FilesIInv, NEW t \in Tasks, job[t].pc \in Active \cup {"ask"},
         NEW plan, NEW h, h = WithPlan(t, plan)
  PROVE  /\ Shape(t, h) /\ h.pc \in {"choose", "send", "ask"}
         /\ Chosen(t, h) \subseteq Chosen(t, job[t])
         /\ h.got = job[t].got /\ h.open = "no" /\ Keeping(t, h)
         /\ h.pc = "ask" => h.k = job[t].k
<1>1. PICK g : g = job[t]
  OBVIOUS
<1>2. job[t].pc \notin Resting /\ g.pc \in Current
  BY <1>1 DEF Current, Active, Resting
<1>3. FilesTyped /\ Shape(t, g) /\ JobType(g)
  BY <1>1, <1>2, OwnFacts DEF Shape
<1>4. CASE h = Advanced(t, {})
  <2>1. PICK got : got = {} /\ got \subseteq {Item(t)} /\ h = Advanced(t, got)
    BY <1>4
  <2>2. job[t].pc \in Current
    BY <1>1, <1>2
  <2>3. Advances(t, got, h)
    BY ONLY FilesIInv, t \in Tasks, <2>1, <2>2, AdvancedFits, Zenon
  <2>4. /\ h.pc # "ask" /\ job[t].got \cup got = job[t].got
        /\ job[t].mine \subseteq h.mine
    BY <2>1, <2>3 DEF Advances
  <2>5. Keeping(t, h)
    BY <2>4 DEF Keeping, Active
  <2>6. QED BY <2>3, <2>4, <2>5 DEF Advances
<1>5. CASE h = [Closed(job[t], "ask") EXCEPT !.plan = plan, !.attempt = 1]
  <2>1. PICK z : z = Closed(g, "ask")
    OBVIOUS
  <2>2. /\ JobType(z) /\ z.open = "no" /\ z.k = g.k /\ z.got = g.got /\ z.pc = "ask"
        /\ z.mine = g.mine
    BY <1>3, <2>1, ClosedFields DEF PCs
  <2>3. h = [z EXCEPT !.plan = plan, !.attempt = 1]
    BY <1>1, <1>5, <2>1
  <2>4. /\ h.open = "no" /\ h.k = g.k /\ h.got = g.got /\ h.pc = "ask"
        /\ h.mine = g.mine /\ JobType(h)
    <3>1. 1 \in 1..MaxDownloadAttempts
      BY FilesAssumption
    <3>2. h.plan = plan
      BY <2>2, <2>3 DEF JobType
    <3>3. QED BY <2>2, <2>3, <3>1, <3>2 DEF JobType
  <2>5. Past(t, h) = Past(t, g) /\ Chosen(t, h) = Chosen(t, g)
    BY <1>1, <1>2, <2>4 DEF Past, Chosen, Resting, Current, Active
  <2>6. ~FromTg(t) /\ h.k \in DOMAIN scene.work[t]
    BY <1>1, <1>2, <1>3, <2>4 DEF Shape
  <2>7. Shape(t, h)
    BY <1>3, <2>4, <2>5, <2>6 DEF Shape, Active, Resting
  <2>8. Keeping(t, h)
    BY <1>1, <2>4 DEF Keeping, Active
  <2>9. QED BY <1>1, <2>4, <2>5, <2>7, <2>8
<1>6. QED BY <1>4, <1>5 DEF WithPlan

LEMMA PlanRight ==
  ASSUME FilesIInv, NEW t \in Tasks, job[t].pc \in Active \cup {"ask"},
         NEW plan, NEW h, h = WithPlan(t, plan)
  PROVE  Right(t, h)
<1>1. /\ h.pc \in {"choose", "send", "ask"} /\ h.got = job[t].got
      /\ h.pc = "ask" => h.k = job[t].k
  BY WithPlanFits
<1>2. job[t].pc \in Current
  BY DEF Current
<1>3. \A i \in h.got \ shared : Local(scene.name[i]) = Whole(i)
  BY <1>1, <1>2, GotApart
<1>4. CASE h.pc # "ask"
  BY <1>1, <1>3, <1>4 DEF Right, Current, Active
<1>5. CASE h.pc = "ask"
  <2>1. ItemOf(t, h) = Item(t) /\ NameOf(t, h) = Name(t)
    BY <1>1, <1>5 DEF ItemOf, NameOf, Item, Name
  <2>2. Item(t) \notin shared => PrefixOrGone(Item(t), Name(t))
    BY StillPrefix
  <2>3. Item(t) \notin shared => Begun(Item(t), Name(t), h)
    BY <1>5, <2>2 DEF Begun
  <2>4. QED BY <1>3, <2>1, <2>3 DEF Right
<1>6. QED BY <1>4, <1>5

-----------------------------------------------------------------------------
(* The steps that leave the files alone.                                   *)
LEMMA StartKeeps == ASSUME FilesIInv, NEW t \in Tasks, Start(t) PROVE FilesIInv'
<1>1. PICK g : g = job[t] /\ g.pc = "idle"
  BY DEF Start, Doing
<1>2. FilesTyped /\ Shape(t, g) /\ JobType(g)
  BY <1>1 DEF FilesIInv, Jobs, Shape
<1>3. PICK h : h = [g EXCEPT !.pc = "choose"]
  OBVIOUS
<1>4. job' = [job EXCEPT ![t] = h]
  BY <1>1, <1>2, <1>3 DEF Start, FilesTyped
<1>5. /\ h.pc = "choose" /\ h.k = 1 /\ h.got = {} /\ h.open = "no"
      /\ h.mine = {} /\ g.mine = {} /\ JobType(h)
  BY <1>1, <1>2, <1>3 DEF Shape, JobType, PCs, Past, Resting
<1>6. Past(t, h) = {} /\ Chosen(t, h) = {}
  BY <1>5 DEF Past, Chosen, UpTo, Resting
<1>7. 1 \in DOMAIN scene.work[t]
  BY <1>2, SceneFacts DEF Start
<1>8. Shape(t, h)
  BY <1>5, <1>6, <1>7 DEF Shape, Active, Resting
<1>9. Right(t, h)
  BY <1>5 DEF Right, Current, Active
<1>10. h.pc \notin Resting /\ job[t].pc \notin Active /\ Keeping(t, h)
  BY <1>1, <1>5 DEF Resting, Active, Keeping
<1>11. QED BY <1>4, <1>5, <1>6, <1>8, <1>9, <1>10, QuietStep DEF Start

LEMMA NoWayKeeps ==
  ASSUME FilesIInv, NEW t \in Tasks, WayMisses(t) \/ HardStop(t) PROVE FilesIInv'
<1>1. job[t].pc = "ask" /\ UNCHANGED <<scene, files, sent, shared, left, kept, cuts>>
  BY DEF WayMisses, HardStop, Doing
<1>2. PICK plan : job' = [job EXCEPT ![t] = WithPlan(t, plan)]
  BY DEF WayMisses, HardStop, NextWay
<1>3. PICK h : h = WithPlan(t, plan)
  OBVIOUS
<1>4. /\ Shape(t, h) /\ h.pc \in {"choose", "send", "ask"}
      /\ Chosen(t, h) \subseteq Chosen(t, job[t]) /\ h.open = "no" /\ Keeping(t, h)
  BY <1>1, <1>3, WithPlanFits
<1>5. Right(t, h)
  BY <1>1, <1>3, PlanRight
<1>6. h.pc \notin Resting /\ job[t].pc \notin Active
  BY <1>1, <1>4 DEF Resting, Active
<1>7. QED BY <1>1, <1>2, <1>3, <1>4, <1>5, <1>6, QuietStep

(* The job stays with its attachment.                                      *)
LEMMA SamePlace ==
  ASSUME NEW t \in Tasks, NEW g, Shape(t, g), g.pc \in Current,
         NEW h, JobType(h), h.pc \in Current, h.k = g.k, h.got = g.got,
         h.mine = g.mine,
         h.pc = "fetch" <=> g.pc = "fetch",
         h.pc \in {"read", "fetch"} \/ h.open = "no",
         h.pc = "read" => h.open # "no",
         h.pc = "fetch" => h.open # "part" /\ (h.open # "no" => h.mode = "wb")
  PROVE  /\ Shape(t, h) /\ Chosen(t, h) = Chosen(t, g)
         /\ ItemOf(t, h) = ItemOf(t, g) /\ NameOf(t, h) = NameOf(t, g)
<1>1. Past(t, h) = Past(t, g) /\ Chosen(t, h) = Chosen(t, g)
  BY DEF Past, Chosen, Current, Active, Resting
<1>2. Shape(t, h)
  BY <1>1 DEF Shape, Current, Active, Resting
<1>3. QED BY <1>1, <1>2 DEF ItemOf, NameOf

LEMMA AttemptKeeps ==
  ASSUME FilesIInv, NEW t \in Tasks, Ask(t) \/ AfterPause(t) PROVE FilesIInv'
<1>1. PICK g : g = job[t] /\ g.pc \in {"ask", "pause"}
  BY DEF Ask, AfterPause, Doing
<1>2. UNCHANGED <<scene, files, sent, shared, left, kept, cuts>>
  BY DEF Ask, AfterPause
<1>3. job[t].pc \notin Resting /\ g.pc \in Current
  BY <1>1 DEF Current, Active, Resting
<1>4. FilesTyped /\ Shape(t, g) /\ JobType(g) /\ files[Name(t)] \in FileType
  BY <1>1, <1>3, OwnFacts DEF Shape
<1>5. PICK n \in Names : n = Name(t) /\ n = NameOf(t, g)
  BY <1>1, <1>3, OwnFacts
<1>6. PICK i \in Items : i = Item(t) /\ i = ItemOf(t, g)
  BY <1>1, <1>3, OwnFacts
<1>7. PartSize(n) \in Nat
  BY <1>4, <1>5 DEF PartSize, Part, FileType
<1>8. PICK h : h = [g EXCEPT !.pc = "open", !.resume = PartSize(n)]
  OBVIOUS
<1>9. job' = [job EXCEPT ![t] = h]
  BY <1>1, <1>5, <1>8 DEF Ask, AfterPause, Attempt
<1>10. /\ h.pc = "open" /\ h.k = g.k /\ h.got = g.got /\ h.open = g.open
       /\ h.mine = g.mine
       /\ h.resume = PartSize(n) /\ JobType(h)
  BY <1>4, <1>7, <1>8 DEF JobType, PCs
<1>11. h.open = "no" /\ h.pc \in Current
  BY <1>1, <1>4, <1>10 DEF Shape, Current, Active
<1>12. /\ Shape(t, h) /\ Chosen(t, h) = Chosen(t, g)
       /\ ItemOf(t, h) = i /\ NameOf(t, h) = n
  BY <1>1, <1>3, <1>4, <1>5, <1>6, <1>10, <1>11, SamePlace
<1>13. Right(t, h)
  <2>1. i \notin shared => PrefixOrGone(i, n)
    BY <1>1, <1>5, <1>6, StillPrefix DEF Active
  <2>2. i \notin shared => Begun(i, n, h)
    BY <1>10, <2>1 DEF Begun
  <2>3. \A m \in h.got \ shared : Local(scene.name[m]) = Whole(m)
    BY <1>1, <1>3, <1>10, GotApart
  <2>4. QED BY <1>12, <2>2, <2>3 DEF Right
<1>14. h.pc \notin Resting /\ h.pc \in Active /\ Keeping(t, h)
  BY <1>1, <1>10 DEF Resting, Active, Keeping
<1>15. QED
  BY <1>1, <1>2, <1>9, <1>10, <1>11, <1>12, <1>13, <1>14, QuietStep

(* The file is closed and the .part stays as it is.                        *)
LEMMA CloseKeeps ==
  ASSUME FilesIInv, NEW t \in Tasks, StreamEnds(t) \/ FailAttempt(t) PROVE FilesIInv'
<1>1. PICK g : g = job[t] /\ g.pc \in {"open", "read", "close"}
  BY DEF StreamEnds, FailAttempt, Doing
<1>2. UNCHANGED <<scene, files, sent, shared, left, kept, cuts>>
  BY DEF StreamEnds, FailAttempt
<1>3. job[t].pc \notin Resting /\ g.pc \in Current
  BY <1>1 DEF Current, Active, Resting
<1>4. FilesTyped /\ Shape(t, g) /\ JobType(g) /\ Right(t, g)
  BY <1>1, <1>3, OwnFacts DEF Shape
<1>5. PICK n \in Names : n = Name(t) /\ n = NameOf(t, g)
  BY <1>1, <1>3, OwnFacts
<1>6. PICK i \in Items : i = Item(t) /\ i = ItemOf(t, g)
  BY <1>1, <1>3, OwnFacts
<1>7. PICK h : /\ job' = [job EXCEPT ![t] = h]
               /\ \/ h = Closed(g, "close") /\ StreamEnds(t)
                  \/ h = [Closed(g, "pause") EXCEPT !.attempt = @ + 1]
                     /\ FailAttempt(t)
  <2>1. CASE StreamEnds(t)
    <3>1. job' = [job EXCEPT ![t] = Closed(g, "close")]
      BY <1>1, <2>1 DEF StreamEnds
    <3>2. QED BY <2>1, <3>1
  <2>2. CASE FailAttempt(t)
    <3>1. job' = [job EXCEPT ![t] =
                    [Closed(g, "pause") EXCEPT !.attempt = @ + 1]]
      BY <1>1, <2>2 DEF FailAttempt
    <3>2. QED BY <2>2, <3>1
  <2>3. QED BY <2>1, <2>2
<1>8. /\ h.pc \in {"close", "pause"} /\ h.k = g.k /\ h.got = g.got
      /\ h.mine = g.mine /\ h.open = "no" /\ JobType(h)
      /\ h.pc = "close" => StreamEnds(t)
  <2>1. CASE h = Closed(g, "close") /\ StreamEnds(t)
    BY <1>4, <2>1, ClosedFields DEF PCs
  <2>2. CASE h = [Closed(g, "pause") EXCEPT !.attempt = @ + 1] /\ FailAttempt(t)
    <3>1. PICK z : z = Closed(g, "pause")
      OBVIOUS
    <3>2. /\ JobType(z) /\ z.open = "no" /\ z.k = g.k /\ z.got = g.got
          /\ z.mine = g.mine /\ z.pc = "pause" /\ z.attempt = g.attempt
      <4>1. z.attempt = g.attempt
        BY <1>4, <3>1 DEF Closed, JobType
      <4>2. QED BY <1>4, <3>1, <4>1, ClosedFields DEF PCs
    <3>3. g.attempt < MaxDownloadAttempts /\ g.attempt \in 1..MaxDownloadAttempts
      BY <1>1, <1>4, <2>2 DEF FailAttempt, JobType
    <3>4. g.attempt + 1 \in 1..MaxDownloadAttempts
      BY <3>3, FilesAssumption
    <3>5. h = [z EXCEPT !.attempt = g.attempt + 1]
      BY <2>2, <3>1, <3>2
    <3>6. JobType(h)
      BY <3>2, <3>4, <3>5 DEF JobType
    <3>7. QED BY <3>2, <3>5, <3>6 DEF JobType
  <2>3. QED BY <1>7, <2>1, <2>2
<1>9. /\ Shape(t, h) /\ Chosen(t, h) = Chosen(t, g)
      /\ ItemOf(t, h) = i /\ NameOf(t, h) = n
  <2>1. h.pc \in Current /\ h.pc \notin {"fetch", "read"} /\ g.pc # "fetch"
    BY <1>1, <1>8 DEF Current, Active
  <2>2. QED BY <1>3, <1>4, <1>5, <1>6, <1>8, <2>1, SamePlace
<1>10. i \notin shared => PrefixOrGone(i, n)
  BY <1>1, <1>5, <1>6, StillPrefix DEF Active
<1>11. i \notin shared /\ h.pc = "close" => Part(n) = Whole(i)
  <2>1. SUFFICES ASSUME i \notin shared, h.pc = "close" PROVE Part(n) = Whole(i)
    OBVIOUS
  <2>2. g.pc = "read" /\ OffsetOf(g) + g.done = Size
    BY <1>1, <1>8, <2>1 DEF StreamEnds, Doing, Offset, OffsetOf
  <2>3. Begun(i, n, g)
    BY <1>3, <1>4, <1>5, <1>6, <2>1 DEF Right
  <2>4. Part(n) = Prefix(i, Size)
    BY <2>2, <2>3 DEF Begun
  <2>5. QED BY <2>4 DEF Prefix, Whole
<1>12. i \notin shared => Begun(i, n, h)
  BY <1>8, <1>10, <1>11 DEF Begun
<1>13. Right(t, h)
  <2>1. \A m \in h.got \ shared : Local(scene.name[m]) = Whole(m)
    BY <1>1, <1>3, <1>8, GotApart
  <2>2. QED BY <1>9, <1>12, <2>1 DEF Right
<1>14. h.pc \notin Resting /\ h.pc \in Active /\ Keeping(t, h)
  BY <1>1, <1>8 DEF Resting, Active, Keeping
<1>15. QED
  BY <1>1, <1>2, <1>7, <1>8, <1>9, <1>13, <1>14, QuietStep
-----------------------------------------------------------------------------
(* The steps that open, move or unlink the .part.                          *)
LEMMA MovedFacts ==
  ASSUME NEW n, NEW to \in {"local", "lost"}, NEW t \in Tasks, NEW new,
         Moved(n, "part", to, t, new)
  PROVE  /\ DOMAIN job' = Tasks /\ job'[t] = new
         /\ \A u \in Tasks \ {t} : Beside(u, {n})
         /\ to = "lost" => \A u \in Tasks \ {t} :
              (job'[u].open = "local" => job[u].open = "local")
<1>1. DOMAIN job' = Tasks /\ job'[t] = new
  BY DEF Moved
<1>2. ASSUME NEW u \in Tasks \ {t} PROVE Beside(u, {n})
  <2>1. CASE job[u].open = "part" /\ Name(u) = n
    <3>1. job'[u] = [job[u] EXCEPT !.open = to]
      BY <2>1 DEF Moved
    <3>2. QED BY <2>1, <3>1 DEF Beside
  <2>2. CASE job[u].open # "part" /\ job[u].open = to /\ Name(u) = n
    <3>1. job'[u] = [job[u] EXCEPT !.open = "lost"]
      BY <2>2 DEF Moved
    <3>2. job[u].open # "no"
      BY <2>2
    <3>3. QED BY <2>2, <3>1, <3>2 DEF Beside
  <2>3. CASE ~(job[u].open \in {"part", to} /\ Name(u) = n)
    <3>1. job'[u] = job[u]
      BY <2>3 DEF Moved
    <3>2. QED BY <3>1 DEF Beside
  <2>4. QED BY <2>1, <2>2, <2>3
<1>3. ASSUME to = "lost", NEW u \in Tasks \ {t}, job'[u].open = "local"
      PROVE  job[u].open = "local"
  <2>1. CASE job[u].open \in {"part", "lost"} /\ Name(u) = n
    <3>1. job'[u] = [job[u] EXCEPT !.open = "lost"]
      BY <1>3, <2>1 DEF Moved
    <3>2. job'[u].open \in {"lost", job[u].open}
      BY <3>1
    <3>3. QED BY <1>3, <2>1, <3>2
  <2>2. CASE ~(job[u].open \in {"part", "lost"} /\ Name(u) = n)
    <3>1. job'[u] = job[u]
      BY <1>3, <2>2 DEF Moved
    <3>2. QED BY <1>3, <3>1
  <2>3. QED BY <2>1, <2>2
<1>4. QED BY <1>1, <1>2, <1>3

LEMMA RightAfter ==
  ASSUME NEW t \in Tasks, NEW h, NEW i, NEW n,
         ItemOf(t, h) = i, NameOf(t, h) = n, UNCHANGED <<scene, shared>>,
         i \notin shared => Begun(i, n, h)',
         \A m \in h.got \ shared' : Local(scene.name[m])' = Whole(m)
  PROVE  Right(t, h)'
<1>1. ItemOf(t, h)' = i /\ NameOf(t, h)' = n
  BY DEF ItemOf, NameOf
<1>2. QED BY <1>1 DEF Right, Local, Whole

LEMMA UnlinkKeeps ==
  ASSUME FilesIInv, NEW t \in Tasks, Reject(t) \/ Abandon(t) PROVE FilesIInv'
<1>1. job[t].pc \in Active /\ UNCHANGED <<scene, sent, shared, left, kept, cuts>>
  BY DEF Reject, Abandon, Active, Doing
<1>2. job[t].pc \in Current /\ job[t].pc \notin Resting
  BY <1>1 DEF Current, Active, Resting
<1>3. PICK n \in Names : n = Name(t)
  BY <1>2, OwnFacts
<1>4. PICK plan : plan = Tail(job[t].plan)
  OBVIOUS
<1>5. PICK h : h = WithPlan(t, plan)
  OBVIOUS
<1>6. Unlinked(n, "part", t, h)
  BY <1>3, <1>4, <1>5 DEF Reject, Abandon, NextWay
<1>7. /\ Shape(t, h) /\ h.pc \in {"choose", "send", "ask"}
      /\ Chosen(t, h) \subseteq Chosen(t, job[t]) /\ h.got = job[t].got
      /\ h.open = "no" /\ Keeping(t, h)
  BY <1>1, <1>5, WithPlanFits
<1>8. PICK f : f = [files[n] EXCEPT !.part = Gone]
  OBVIOUS
<1>9. f \in FileType /\ f.part = Gone /\ f.local = Local(n)
  <2>1. files[n] \in FileType /\ FilesTyped
    BY <1>2, <1>3, OwnFacts
  <2>2. QED BY <1>8, <2>1, GoneType DEF FileType, Local
<1>10. files' = [files EXCEPT ![n] = f] /\ files'[n] = f
  BY <1>3, <1>6, <1>8 DEF Unlinked, FilesIInv, FilesTyped
<1>11. /\ DOMAIN job' = Tasks /\ job'[t] = h
       /\ \A u \in Tasks \ {t} : Beside(u, {n})
       /\ \A u \in Tasks \ {t} : (job'[u].open = "local" => job[u].open = "local")
  BY <1>6, MovedFacts DEF Unlinked
<1>12. \A m \in h.got \ shared' : Local(scene.name[m])' = Whole(m)
  BY <1>1, <1>2, <1>3, <1>7, <1>10, GotStays
<1>13. Right(t, h)'
  <2>1. CASE h.pc = "ask"
    <3>1. ItemOf(t, h) = Item(t) /\ NameOf(t, h) = n
      BY <1>1, <1>3, <1>5, <2>1, WithPlanFits DEF ItemOf, NameOf, Item, Name
    <3>2. PICK i : i = Item(t)
      OBVIOUS
    <3>3. Begun(i, n, h)'
      BY <1>9, <1>10, <2>1 DEF Begun, PrefixOrGone, Part
    <3>4. QED BY <1>1, <1>12, <3>1, <3>2, <3>3, RightAfter
  <2>2. CASE h.pc # "ask"
    BY <1>1, <1>7, <1>12, <2>2 DEF Right, Current, Active, Local, Whole
  <2>3. QED BY <2>1, <2>2
<1>14. h.pc \notin Resting
  BY <1>7 DEF Resting
<1>15. QED
  BY <1>1, <1>2, <1>3, <1>7, <1>9, <1>10, <1>11, <1>13, <1>14, OwnStep

LEMMA OpenKeeps ==
  ASSUME FilesIInv, NEW t \in Tasks, Open200(t) \/ Open206(t) PROVE FilesIInv'
<1>1. PICK g : g = job[t] /\ g.pc = "open"
  BY DEF Open200, Open206, Doing
<1>2. UNCHANGED <<scene, sent, shared, left, kept, cuts>>
  BY DEF Open200, Open206
<1>3. job[t].pc \in Current /\ job[t].pc \notin Resting
  BY <1>1 DEF Current, Active, Resting
<1>4. FilesTyped /\ Shape(t, g) /\ JobType(g) /\ Right(t, g)
  BY <1>1, <1>3, OwnFacts DEF Shape
<1>5. PICK n \in Names : n = Name(t) /\ n = NameOf(t, g) /\ files[n] \in FileType
  BY <1>1, <1>3, OwnFacts
<1>6. PICK i \in Items : i = Item(t) /\ i = ItemOf(t, g)
  BY <1>1, <1>3, OwnFacts
<1>7. PICK mode \in {"wb", "ab"} :
        IF mode = "wb" THEN Open200(t) ELSE Open206(t)
  OBVIOUS
<1>8. PICK h : h = [g EXCEPT !.pc = "read", !.open = "part", !.mode = mode,
                             !.done = 0]
  OBVIOUS
<1>9. h = Opened(t, mode)
  BY <1>1, <1>8 DEF Opened
<1>10. /\ h.pc = "read" /\ h.open = "part" /\ h.mode = mode /\ h.done = 0
       /\ h.k = g.k /\ h.got = g.got /\ h.mine = g.mine /\ h.resume = g.resume /\ JobType(h)
  <2>1. 0 \in 0..Size
    BY FilesAssumption
  <2>2. QED BY <1>4, <1>8, <2>1 DEF JobType, PCs, Paths
<1>11. /\ Shape(t, h) /\ Chosen(t, h) = Chosen(t, g)
       /\ ItemOf(t, h) = i /\ NameOf(t, h) = n
  <2>1. h.pc \in Current /\ h.pc # "fetch" /\ g.pc # "fetch" /\ h.open # "no"
        /\ h.pc \in {"read", "fetch"}
    BY <1>1, <1>10 DEF Current, Active
  <2>2. QED BY <1>1, <1>3, <1>4, <1>5, <1>6, <1>10, <2>1, SamePlace
<1>12. PICK p : p = IF mode = "wb" \/ Part(n) = Gone THEN <<>> ELSE Part(n)
  OBVIOUS
<1>13. PICK f : f = [files[n] EXCEPT !.part = p]
  OBVIOUS
<1>14. p \in Seq(Chunks)
  BY <1>4, <1>5, <1>12, GoneType DEF FileType, Part
<1>15. f \in FileType /\ f.part = p /\ f.local = Local(n)
  BY <1>5, <1>13, <1>14 DEF FileType, Local
<1>16. files' = [files EXCEPT ![n] = f]
  <2>1. CASE mode = "wb"
    <3>1. files' = [files EXCEPT ![n].part = <<>>]
      BY <1>5, <1>7, <2>1 DEF Open200
    <3>2. QED BY <1>4, <1>5, <1>12, <1>13, <2>1, <3>1 DEF FilesTyped
  <2>2. CASE mode = "ab"
    <3>1. files' = [files EXCEPT ![n].part = IF @ = Gone THEN <<>> ELSE @]
      BY <1>5, <1>7, <2>2 DEF Open206, Append206
    <3>2. files' = [files EXCEPT ![n].part =
                      IF files[n].part = Gone THEN <<>> ELSE files[n].part]
      BY <1>4, <1>5, <3>1 DEF FilesTyped
    <3>3. p = IF files[n].part = Gone THEN <<>> ELSE files[n].part
      BY <1>12, <2>2 DEF Part
    <3>4. files' = [files EXCEPT ![n].part = p]
      BY <3>2, <3>3
    <3>5. QED BY <1>4, <1>5, <1>13, <3>4 DEF FilesTyped
  <2>3. QED BY <2>1, <2>2
<1>17. files'[n] = f
  BY <1>4, <1>5, <1>16 DEF FilesTyped
<1>18. /\ DOMAIN job' = Tasks /\ job'[t] = h
       /\ \A u \in Tasks \ {t} : Beside(u, {n})
       /\ \A u \in Tasks \ {t} : (job'[u].open = "local" => job[u].open = "local")
  <2>1. CASE Moved(n, "part", "lost", t, h)
    BY <2>1, MovedFacts
  <2>2. CASE job' = [job EXCEPT ![t] = h]
    <3>1. DOMAIN job' = Tasks /\ job'[t] = h /\ \A u \in Tasks \ {t} : job'[u] = job[u]
      BY <1>4, <2>2 DEF FilesTyped
    <3>2. QED BY <3>1 DEF Beside
  <2>3. Moved(n, "part", "lost", t, h) \/ job' = [job EXCEPT ![t] = h]
    <3>1. CASE mode = "wb"
      BY <1>5, <1>7, <1>9, <3>1 DEF Open200
    <3>2. CASE mode = "ab"
      BY <1>7, <1>9, <3>2 DEF Open206, Append206
    <3>3. QED BY <3>1, <3>2
  <2>4. QED BY <2>1, <2>2, <2>3
<1>19. i \notin shared => p = Prefix(i, OffsetOf(h)) /\ OffsetOf(h) \in 0..Size
  <2>1. SUFFICES ASSUME i \notin shared
                 PROVE  p = Prefix(i, OffsetOf(h)) /\ OffsetOf(h) \in 0..Size
    OBVIOUS
  <2>2. CASE mode = "wb"
    <3>1. p = <<>> /\ OffsetOf(h) = 0
      BY <1>10, <1>12, <2>2 DEF OffsetOf
    <3>2. QED BY <3>1, EmptyPrefix, FilesAssumption
  <2>3. CASE mode = "ab"
    <3>1. Begun(i, n, g)
      BY <1>3, <1>1, <1>4, <1>5, <1>6, <2>1 DEF Right
    <3>2. PrefixOrGone(i, n) /\ g.resume = PartSize(n)
      BY <1>1, <3>1 DEF Begun
    <3>3. g.resume \in 1..(Size - 1)
      BY <1>1, <1>7, <2>3 DEF Open206
    <3>4. Part(n) # Gone /\ Len(Part(n)) = g.resume
      BY <3>2, <3>3 DEF PartSize
    <3>5. PICK m \in 0..Size : Part(n) = Prefix(i, m)
      BY <3>2, <3>4 DEF PrefixOrGone
    <3>6. m = g.resume
      BY <1>4, <3>4, <3>5, PrefixType
    <3>7. p = Part(n) /\ OffsetOf(h) = g.resume
      BY <1>10, <1>12, <2>3, <3>4 DEF OffsetOf
    <3>8. QED BY <3>5, <3>6, <3>7
  <2>4. QED BY <2>2, <2>3
<1>20. i \notin shared => Begun(i, n, h)'
  <2>1. SUFFICES ASSUME i \notin shared PROVE Begun(i, n, h)'
    OBVIOUS
  <2>2. PICK o : o = OffsetOf(h) /\ o \in 0..Size
    BY <1>19, <2>1
  <2>3. o + h.done = o /\ o <= Size
    BY <1>10, <2>2, FilesAssumption
  <2>4. Part(n)' = p
    BY <1>15, <1>17 DEF Part
  <2>5. Part(n)' = Prefix(i, o + h.done)
    BY <1>19, <2>1, <2>2, <2>3, <2>4
  <2>6. OffsetOf(h)' = o
    BY <2>2 DEF OffsetOf
  <2>7. QED BY <1>10, <2>2, <2>3, <2>5, <2>6 DEF Begun, OffsetOf
<1>21. \A m \in h.got \ shared' : Local(scene.name[m])' = Whole(m)
  BY <1>1, <1>2, <1>3, <1>5, <1>10, <1>16, GotStays
<1>22. Right(t, h)'
  BY <1>2, <1>11, <1>20, <1>21, RightAfter
<1>23. /\ h.pc \notin Resting /\ h.pc \in Active /\ h.k = job[t].k /\ Keeping(t, h)
       /\ h.open # "local"
  BY <1>1, <1>10 DEF Resting, Active, Keeping
<1>24. QED
  BY <1>1, <1>2, <1>3, <1>5, <1>11, <1>15, <1>16, <1>18, <1>22, <1>23, OwnStep
-----------------------------------------------------------------------------
(* The chunks.                                                             *)
LEMMA WrittenType ==
  ASSUME NEW s \in Seq(Chunks), NEW at \in Nat, NEW c \in Chunks
  PROVE  Written(s, at, c) \in Seq(Chunks)
<1>1. PICK L \in Nat : L = IF Len(s) > at THEN Len(s) ELSE at + 1
  OBVIOUS
<1>2. Hole \in Chunks
  BY DEF Chunks
<1>3. \A k \in 1..L :
        (CASE k = at + 1 -> c
           [] k # at + 1 /\ k <= Len(s) -> s[k]
           [] OTHER -> Hole) \in Chunks
  <2>1. TAKE k \in 1..L
  <2>2. CASE k = at + 1
    BY <2>2
  <2>3. CASE k # at + 1 /\ k <= Len(s)
    BY <2>3
  <2>4. CASE k # at + 1 /\ ~(k <= Len(s))
    BY <1>2, <2>4
  <2>5. QED BY <2>2, <2>3, <2>4
<1>4. Written(s, at, c) =
        [k \in 1..L |-> CASE k = at + 1 -> c
                          [] k # at + 1 /\ k <= Len(s) -> s[k]
                          [] OTHER -> Hole]
  BY <1>1 DEF Written
<1>5. QED BY <1>3, <1>4

LEMMA WrittenIsThere ==
  ASSUME NEW s \in Seq(Chunks), NEW at \in Nat, NEW c, c # Hole
  PROVE  Written(s, at, c) # Gone
<1>1. PICK L \in Nat : /\ L = IF Len(s) > at THEN Len(s) ELSE at + 1
                      /\ L >= at + 1
  OBVIOUS
<1>2. PICK w : w = Written(s, at, c)
  OBVIOUS
<1>3. DOMAIN w = 1..L /\ w[at + 1] = c
  BY <1>1, <1>2 DEF Written
<1>4. SUFFICES ASSUME w = <<Hole>> PROVE FALSE
  BY <1>2 DEF Gone
<1>5. at + 1 \in {1}
  <2>1. at + 1 \in 1..L
    BY <1>1
  <2>2. DOMAIN w = {1}
    BY <1>4
  <2>3. QED BY <1>3, <2>1, <2>2
<1>6. w[1] = Hole
  BY <1>4
<1>7. QED BY <1>3, <1>5, <1>6

LEMMA WrittenNext ==
  ASSUME FilesTyped, NEW i \in Items, NEW m \in Nat, m < Size, NEW s, s = Prefix(i, m)
  PROVE  /\ Written(s, m, <<i, m + 1>>) = Prefix(i, m + 1)
         /\ Len(s) = m /\ s \in Seq(Chunks) /\ <<i, m + 1>> \in Chunks
<1>1. Size \in Nat /\ m \in 0..Size /\ m + 1 \in 1..Size
  BY FilesAssumption
<1>2. Len(s) = m /\ s \in Seq(Chunks) /\ \A k \in 1..m : s[k] = <<i, k>>
  BY <1>1, PrefixType
<1>3. <<i, m + 1>> \in Chunks
  BY <1>1 DEF Chunks
<1>4. Written(s, m, <<i, m + 1>>) =
        [k \in 1..(m + 1) |-> CASE k = m + 1 -> <<i, m + 1>>
                                [] k # m + 1 /\ k <= m -> s[k]
                                [] OTHER -> Hole]
  BY <1>2 DEF Written
<1>5. ASSUME NEW k \in 1..(m + 1)
      PROVE  (CASE k = m + 1 -> <<i, m + 1>>
                [] k # m + 1 /\ k <= m -> s[k]
                [] OTHER -> Hole) = <<i, k>>
  <2>1. CASE k = m + 1
    BY <2>1
  <2>2. CASE k # m + 1
    <3>1. k \in 1..m /\ k <= m
      BY <2>2
    <3>2. QED BY <1>2, <2>2, <3>1
  <2>3. QED BY <2>1, <2>2
<1>6. QED BY <1>2, <1>3, <1>4, <1>5 DEF Prefix

(* One chunk further on, in the attachment's place.                        *)
LEMMA ChunkKeeps == ASSUME FilesIInv, NEW t \in Tasks, Chunk(t) PROVE FilesIInv'
<1>1. PICK g : g = job[t] /\ g.pc = "read"
  BY DEF Chunk, Doing
<1>2. UNCHANGED <<scene, sent, shared, left, kept, cuts>>
  BY DEF Chunk
<1>3. job[t].pc \in Current /\ job[t].pc \notin Resting
  BY <1>1 DEF Current, Active, Resting
<1>4. FilesTyped /\ Shape(t, g) /\ JobType(g) /\ Right(t, g)
  BY <1>1, <1>3, OwnFacts DEF Shape
<1>5. PICK n \in Names : n = Name(t) /\ n = NameOf(t, g) /\ files[n] \in FileType
  BY <1>1, <1>3, OwnFacts
<1>6. PICK i \in Items : i = Item(t) /\ i = ItemOf(t, g)
  BY <1>1, <1>3, OwnFacts
<1>7. PICK o \in Nat : o = OffsetOf(g) /\ o = Offset(t)
  BY <1>1, <1>4 DEF OffsetOf, Offset, JobType
<1>8. g.done \in Nat /\ o + g.done < Size /\ Size \in Nat
  BY <1>1, <1>4, <1>7, FilesAssumption DEF Chunk, JobType
<1>9. PICK h : h = [g EXCEPT !.done = g.done + 1]
  OBVIOUS
<1>10. job' = [job EXCEPT ![t] = h]
  <2>1. job' = [job EXCEPT ![t] = [job[t] EXCEPT !.done = job[t].done + 1]]
    BY <1>4 DEF Chunk, FilesTyped
  <2>2. QED BY <1>1, <1>9, <2>1
<1>11. /\ h.pc = "read" /\ h.open = g.open /\ h.mode = g.mode
       /\ h.done = g.done + 1 /\ h.k = g.k /\ h.got = g.got /\ h.mine = g.mine
       /\ h.resume = g.resume /\ JobType(h)
  <2>1. g.done + 1 \in 0..Size
    BY <1>7, <1>8
  <2>2. QED BY <1>1, <1>4, <1>9, <2>1 DEF JobType
<1>12. /\ Shape(t, h) /\ Chosen(t, h) = Chosen(t, g)
       /\ ItemOf(t, h) = i /\ NameOf(t, h) = n
  <2>1. h.pc \in Current /\ h.pc # "fetch" /\ g.pc # "fetch" /\ h.open # "no"
        /\ h.pc \in {"read", "fetch"}
    BY <1>1, <1>4, <1>11 DEF Current, Active, Shape
  <2>2. QED BY <1>1, <1>3, <1>4, <1>5, <1>6, <1>11, <2>1, SamePlace
<1>13. h.pc \notin Resting /\ h.pc \in Active /\ h.k = job[t].k /\ Keeping(t, h)
  BY <1>1, <1>11 DEF Resting, Active, Keeping
<1>14. i \notin shared =>
         g.open = "part" /\ Part(n) = Prefix(i, o + g.done)
  BY <1>1, <1>3, <1>4, <1>5, <1>6, <1>7 DEF Right, Begun
<1>15. CASE g.open = "lost"
  <2>1. files' = files
    BY <1>1, <1>15 DEF Chunk
  <2>2. Right(t, h)
    <3>1. i \in shared
      BY <1>14, <1>15
    <3>2. \A m \in h.got \ shared : Local(scene.name[m]) = Whole(m)
      BY <1>1, <1>3, <1>11, GotApart
    <3>3. QED BY <1>12, <3>1, <3>2 DEF Right
  <2>3. QED
    BY <1>1, <1>2, <1>10, <1>11, <1>12, <1>13, <1>15, <2>1, <2>2, QuietStep
<1>16. CASE g.open \in {"part", "local"}
  <2>1. PICK s : s = files[n][g.open]
    OBVIOUS
  <2>2. s \in Seq(Chunks)
    BY <1>5, <1>16, <2>1 DEF FileType
  <2>3. PICK at \in Nat : at = IF g.mode = "ab" THEN Len(s) ELSE g.done
    BY <1>8, <2>2
  <2>4. PICK c : c = <<i, o + g.done + 1>>
    OBVIOUS
  <2>5. c \in Chunks /\ c # Hole
    <3>1. o + g.done + 1 \in 1..Size /\ o + g.done + 1 # 0
      BY <1>7, <1>8
    <3>2. QED BY <2>4, <3>1 DEF Chunks, Hole
  <2>6. PICK w : w = Written(s, at, c)
    OBVIOUS
  <2>7. w \in Seq(Chunks) /\ w # Gone
    BY <2>2, <2>3, <2>5, <2>6, WrittenType, WrittenIsThere
  <2>8. files' = [files EXCEPT ![n][g.open] = w]
    <3>1. Put(t, c)
      BY <1>1, <1>6, <1>7, <1>16, <2>4 DEF Chunk
    <3>2. QED BY <1>1, <1>5, <2>1, <2>3, <2>6, <3>1 DEF Put
  <2>9. PICK f : f = [files[n] EXCEPT ![g.open] = w]
    OBVIOUS
  <2>10. files' = [files EXCEPT ![n] = f] /\ files'[n] = f
    BY <1>4, <1>5, <2>8, <2>9 DEF FilesTyped
  <2>11. f \in FileType /\ f[g.open] = w
    <3>1. CASE g.open = "part"
      BY <1>5, <2>7, <2>9, <3>1 DEF FileType
    <3>2. CASE g.open = "local"
      BY <1>5, <2>7, <2>9, <3>2 DEF FileType
    <3>3. QED BY <1>16, <3>1, <3>2
  <2>12. /\ DOMAIN job' = Tasks /\ job'[t] = h
         /\ \A u \in Tasks \ {t} : Beside(u, {n})
    <3>1. DOMAIN job' = Tasks /\ job'[t] = h /\ \A u \in Tasks \ {t} : job'[u] = job[u]
      BY <1>4, <1>10 DEF FilesTyped
    <3>2. QED BY <3>1 DEF Beside
  <2>13. i \notin shared => Begun(i, n, h)'
    <3>1. SUFFICES ASSUME i \notin shared PROVE Begun(i, n, h)'
      OBVIOUS
    <3>2. g.open = "part" /\ s = Prefix(i, o + g.done)
      BY <1>14, <2>1, <3>1 DEF Part
    <3>3. PICK m \in Nat : m = o + g.done /\ m < Size
      BY <1>7, <1>8
    <3>4. Len(s) = m
      BY <1>4, <3>2, <3>3, WrittenNext
    <3>5. at = m
      BY <1>7, <1>8, <2>3, <3>3, <3>4 DEF OffsetOf
    <3>6. w = Prefix(i, m + 1)
      BY <1>4, <2>4, <2>6, <3>2, <3>3, <3>5, WrittenNext
    <3>7. Part(n)' = w
      BY <2>10, <2>11, <3>2 DEF Part
    <3>8. OffsetOf(h)' = o
      BY <1>7, <1>11 DEF OffsetOf
    <3>9. o + h.done = m + 1 /\ m + 1 <= Size
      BY <1>8, <1>11, <3>3
    <3>10. Begun(i, n, h)' <=>
             /\ h.open = "part" /\ OffsetOf(h)' + h.done <= Size
             /\ Part(n)' = Prefix(i, OffsetOf(h)' + h.done)
      BY <1>11 DEF Begun
    <3>11. QED BY <1>11, <3>2, <3>6, <3>7, <3>8, <3>9, <3>10
  <2>14. \A m \in h.got \ shared' : Local(scene.name[m])' = Whole(m)
    BY <1>1, <1>2, <1>3, <1>5, <1>11, <2>10, GotStays
  <2>15. Right(t, h)'
    BY <1>2, <1>12, <2>13, <2>14, RightAfter
  <2>16. \A u \in Tasks \ {t} : job'[u] = job[u]
    BY <1>4, <1>10 DEF FilesTyped
  <2>17. \/ f.local # Gone /\ Local(n) # Gone
         \/ f.local = Local(n) /\ h.open # "local"
    <3>1. CASE g.open = "part"
      BY <1>5, <1>11, <2>9, <3>1 DEF FileType, Local
    <3>2. CASE g.open = "local"
      <4>1. Local(n) # Gone
        BY <1>1, <1>5, <3>2 DEF FilesIInv, OpenThere
      <4>2. QED BY <2>7, <2>11, <3>2, <4>1
    <3>3. QED BY <1>16, <3>1, <3>2
  <2>18. QED
    BY <1>1, <1>2, <1>3, <1>5, <1>12, <1>13, <2>10, <2>11, <2>12, <2>15, <2>16, <2>17,
       OwnStep
<1>17. QED
  BY <1>1, <1>4, <1>15, <1>16 DEF Shape, JobType, Paths

-----------------------------------------------------------------------------
(* Telegram's side.                                                        *)
LEMMA FetchKeeps ==
  ASSUME FilesIInv, NEW t \in Tasks, FetchOpen(t) \/ FetchChunk(t) PROVE FilesIInv'
<1>1. PICK g : g = job[t] /\ g.pc = "fetch"
  BY DEF FetchOpen, FetchChunk, Doing
<1>2. UNCHANGED <<scene, sent, shared, left, kept, cuts>>
  BY DEF FetchOpen, FetchChunk
<1>3. job[t].pc \in Current /\ job[t].pc \notin Resting /\ job[t].pc \notin Active
  BY <1>1 DEF Current, Active, Resting
<1>4. FilesTyped /\ Shape(t, g) /\ JobType(g) /\ Right(t, g)
  BY <1>1, <1>3, OwnFacts DEF Shape
<1>5. PICK n \in Names : n = Name(t) /\ n = NameOf(t, g) /\ files[n] \in FileType
  BY <1>1, <1>3, OwnFacts
<1>6. PICK i \in Items : i = Item(t) /\ i = ItemOf(t, g)
  BY <1>1, <1>3, OwnFacts
<1>7. g.done \in Nat /\ Size \in Nat /\ 0 \in 0..Size
  BY <1>4, FilesAssumption DEF JobType
<1>8. PICK done \in 0..Size : IF FetchOpen(t) THEN done = 0 ELSE done = g.done + 1
  <2>1. CASE FetchOpen(t)
    BY <1>7, <2>1
  <2>2. CASE ~FetchOpen(t)
    <3>1. g.done < Size
      BY <1>1, <2>2 DEF FetchChunk
    <3>2. g.done + 1 \in 0..Size
      BY <1>7, <3>1
    <3>3. QED BY <2>2, <3>2
  <2>3. QED BY <2>1, <2>2
<1>9. PICK open \in {"local", "lost"} :
        IF FetchOpen(t) THEN open = "local" ELSE open = g.open
  <2>1. CASE FetchOpen(t)
    BY <2>1
  <2>2. CASE ~FetchOpen(t)
    BY <1>1, <1>4, <2>2 DEF FetchChunk, Shape, JobType, Paths
  <2>3. QED BY <2>1, <2>2
<1>10. PICK h : h = [g EXCEPT !.open = open, !.mode = "wb", !.done = done]
  OBVIOUS
<1>11. /\ h.pc = "fetch" /\ h.open = open /\ h.mode = "wb"
       /\ h.done = done /\ h.k = g.k /\ h.got = g.got /\ h.mine = g.mine
       /\ JobType(h)
  BY <1>1, <1>4, <1>10 DEF JobType, Paths
<1>12. job' = [job EXCEPT ![t] = h]
  <2>1. CASE FetchOpen(t)
    <3>1. job' = [job EXCEPT ![t] = [job[t] EXCEPT !.open = "local", !.mode = "wb",
                                                   !.done = 0]]
      BY <1>4, <2>1 DEF FetchOpen, FilesTyped
    <3>2. QED BY <1>1, <1>8, <1>9, <1>10, <2>1, <3>1
  <2>2. CASE ~FetchOpen(t)
    <3>1. job' = [job EXCEPT ![t] = [job[t] EXCEPT !.done = job[t].done + 1]]
      BY <1>4, <2>2 DEF FetchChunk, FilesTyped
    <3>2. g.mode = "wb" /\ g.open = open
      BY <1>1, <1>4, <1>9, <2>2 DEF Shape
    <3>3. h = [g EXCEPT !.done = g.done + 1]
      BY <1>4, <1>8, <1>10, <2>2, <3>2 DEF JobType
    <3>4. QED BY <1>1, <3>1, <3>3
  <2>3. QED BY <2>1, <2>2
<1>13. /\ Shape(t, h) /\ Chosen(t, h) = Chosen(t, g)
       /\ ItemOf(t, h) = i /\ NameOf(t, h) = n
  <2>1. h.pc \in Current /\ h.pc # "read" /\ h.open # "part" /\ h.open # "no"
        /\ h.pc \in {"read", "fetch"} /\ (h.pc = "fetch" <=> g.pc = "fetch")
    BY <1>1, <1>11 DEF Current, Active
  <2>2. QED BY <1>1, <1>3, <1>4, <1>5, <1>6, <1>11, <2>1, SamePlace
<1>14. h.pc \notin Resting /\ h.k = job[t].k /\ h.open # "no" /\ Keeping(t, h)
  BY <1>1, <1>9, <1>11 DEF Resting, Keeping
<1>15. i \notin shared /\ ~FetchOpen(t) =>
         g.open = "local" /\ Local(n) = Prefix(i, g.done)
  BY <1>1, <1>3, <1>4, <1>5, <1>6 DEF Right, Begun, FetchChunk
<1>16. CASE open = "lost"
  <2>1. ~FetchOpen(t) /\ g.open = "lost"
    BY <1>9, <1>16
  <2>2. files' = files
    BY <1>1, <2>1 DEF FetchChunk
  <2>3. Right(t, h)
    <3>1. i \in shared
      BY <1>15, <2>1
    <3>2. \A m \in h.got \ shared : Local(scene.name[m]) = Whole(m)
      BY <1>1, <1>3, <1>11, GotApart
    <3>3. QED BY <1>13, <3>1, <3>2 DEF Right
  <2>4. QED
    BY <1>1, <1>2, <1>3, <1>11, <1>12, <1>13, <1>14, <1>16, <2>2, <2>3, QuietStep
<1>17. CASE open = "local"
  <2>1. PICK w \in Seq(Chunks) :
          /\ w # Gone
          /\ files' = [files EXCEPT ![n].local = w]
          /\ i \notin shared => w = Prefix(i, done)
    <3>1. CASE FetchOpen(t)
      <4>1. files' = [files EXCEPT ![n].local = <<>>]
        BY <1>5, <3>1 DEF FetchOpen
      <4>2. <<>> \in Seq(Chunks) /\ <<>> = Prefix(i, done) /\ <<>> # Gone
        BY <1>4, <1>8, <3>1, GoneType, EmptyPrefix DEF Gone
      <4>3. QED BY <4>1, <4>2
    <3>2. CASE ~FetchOpen(t)
      <4>1. g.open = "local" /\ g.mode = "wb" /\ g.done < Size /\ done = g.done + 1
        BY <1>1, <1>4, <1>8, <1>9, <1>17, <3>2 DEF Shape, FetchChunk
      <4>2. PICK s : s = Local(n)
        OBVIOUS
      <4>3. PICK c : c = <<i, done>>
        OBVIOUS
      <4>4. files' = [files EXCEPT ![n]["local"] = Written(s, g.done, c)]
        <5>1. Put(t, c)
          BY <1>1, <1>6, <3>2, <4>1, <4>3 DEF FetchChunk
        <5>2. QED BY <1>1, <1>5, <4>1, <4>2, <5>1 DEF Put, Local
      <4>5. s \in Seq(Chunks)
        BY <1>5, <4>2 DEF Local, FileType
      <4>6. c \in Chunks /\ c # Hole
        <5>1. done \in 1..Size /\ done # 0
          BY <1>7, <4>1
        <5>2. QED BY <4>3, <5>1 DEF Chunks, Hole
      <4>7. Written(s, g.done, c) \in Seq(Chunks) /\ Written(s, g.done, c) # Gone
        BY <1>7, <4>5, <4>6, WrittenType, WrittenIsThere
      <4>8. i \notin shared => Written(s, g.done, c) = Prefix(i, done)
        <5>1. SUFFICES ASSUME i \notin shared
                       PROVE  Written(s, g.done, c) = Prefix(i, done)
          OBVIOUS
        <5>2. s = Prefix(i, g.done)
          BY <1>15, <3>2, <4>2, <5>1
        <5>3. PICK m \in Nat : m = g.done /\ m < Size
          BY <1>7, <4>1
        <5>4. QED BY <1>4, <4>1, <4>3, <5>2, <5>3, WrittenNext
      <4>9. QED BY <4>4, <4>7, <4>8
    <3>3. QED BY <3>1, <3>2
  <2>2. PICK f : f = [files[n] EXCEPT !.local = w]
    OBVIOUS
  <2>3. f \in FileType /\ f.local = w /\ f.part = Part(n)
    BY <1>5, <2>1, <2>2 DEF FileType, Part
  <2>4. files' = [files EXCEPT ![n] = f] /\ files'[n] = f
    BY <1>4, <1>5, <2>1, <2>2 DEF FilesTyped
  <2>5. /\ DOMAIN job' = Tasks /\ job'[t] = h
        /\ \A u \in Tasks \ {t} : Beside(u, {n})
    <3>1. DOMAIN job' = Tasks /\ job'[t] = h /\ \A u \in Tasks \ {t} : job'[u] = job[u]
      BY <1>4, <1>12 DEF FilesTyped
    <3>2. QED BY <3>1 DEF Beside
  <2>6. i \notin shared => Begun(i, n, h)'
    <3>1. Local(n)' = w
      BY <2>3, <2>4 DEF Local
    <3>2. QED BY <1>11, <1>17, <2>1, <3>1 DEF Begun
  <2>7. \A m \in h.got \ shared' : Local(scene.name[m])' = Whole(m)
    BY <1>1, <1>2, <1>3, <1>5, <1>11, <2>4, GotStays
  <2>8. Right(t, h)'
    BY <1>2, <1>13, <2>6, <2>7, RightAfter
  <2>9. QED
    BY <1>1, <1>2, <1>3, <1>5, <1>11, <1>13, <1>14, <2>1, <2>3, <2>4, <2>5, <2>8,
       OwnStep
<1>18. QED
  BY <1>9, <1>16, <1>17
-----------------------------------------------------------------------------
(* The steps that leave an attachment behind.                              *)
LEMMA RenameKeeps == ASSUME FilesIInv, NEW t \in Tasks, Rename(t) PROVE FilesIInv'
<1>1. PICK g : g = job[t] /\ g.pc = "close"
  BY DEF Rename, Doing
<1>2. UNCHANGED <<scene, sent, shared, left, kept, cuts>>
  BY DEF Rename
<1>3. job[t].pc \in Current /\ job[t].pc \notin Resting
  BY <1>1 DEF Current, Active, Resting
<1>4. FilesTyped /\ Shape(t, g) /\ Right(t, g)
  BY <1>1, <1>3, OwnFacts
<1>5. PICK n \in Names : n = Name(t) /\ n = NameOf(t, g) /\ files[n] \in FileType
  BY <1>1, <1>3, OwnFacts
<1>6. PICK i \in Items : i = Item(t) /\ i = ItemOf(t, g) /\ n = scene.name[i]
  BY <1>1, <1>3, <1>5, OwnFacts
<1>7. PICK got : got = {i}
  OBVIOUS
<1>8. PICK h : h = Advanced(t, got)
  OBVIOUS
<1>9. /\ Shape(t, h) /\ h.pc \in {"choose", "send"} /\ h.open = "no"
      /\ Chosen(t, h) \subseteq Chosen(t, job[t])
      /\ h.got = job[t].got \cup {i} /\ h.mine = job[t].mine \cup {i}
  <2>1. got \subseteq {Item(t)}
    BY <1>6, <1>7
  <2>2. job[t].pc \in Current
    BY <1>3
  <2>3. Advances(t, got, h)
    BY ONLY FilesIInv, t \in Tasks, <1>8, <2>1, <2>2, AdvancedFits, Zenon
  <2>4. QED BY <1>7, <2>3 DEF Advances
<1>10. PICK f : f = [part |-> Gone, local |-> Part(n)]
  OBVIOUS
<1>11. f \in FileType /\ f.part = Gone /\ f.local = Part(n) /\ f.local # Gone
  BY <1>4, <1>5, <1>10, GoneType DEF FileType, Part, Rename
<1>12. files' = [files EXCEPT ![n] = f] /\ files'[n] = f
  BY <1>4, <1>5, <1>10 DEF Rename, FilesTyped, Part
<1>13. Moved(n, "part", "local", t, h)
  BY <1>5, <1>6, <1>7, <1>8 DEF Rename
<1>14. /\ DOMAIN job' = Tasks /\ job'[t] = h
       /\ \A u \in Tasks \ {t} : Beside(u, {n})
  BY <1>13, MovedFacts
<1>15. i \notin shared => Part(n) = Whole(i)
  BY <1>1, <1>3, <1>4, <1>5, <1>6 DEF Right, Begun
<1>16. Right(t, h)'
  <2>1. \A m \in job[t].got \ shared' : Local(scene.name[m])' = Whole(m)
    BY <1>2, <1>3, <1>5, <1>12, GotStays
  <2>2. i \notin shared => Local(scene.name[i])' = Whole(i)
    BY <1>2, <1>6, <1>11, <1>12, <1>15 DEF Local
  <2>3. \A m \in h.got \ shared' : Local(scene.name[m])' = Whole(m)
    BY <1>2, <1>9, <2>1, <2>2
  <2>4. h.pc \notin Current
    BY <1>9 DEF Current, Active
  <2>5. QED BY <1>2, <2>3, <2>4 DEF Right, Local, Whole
<1>17. h.pc \notin Resting /\ Keeping(t, h) /\ Item(t) \in h.mine
  BY <1>1, <1>6, <1>9 DEF Resting, Keeping
<1>18. QED
  BY <1>2, <1>3, <1>5, <1>9, <1>11, <1>12, <1>14, <1>16, <1>17, OwnStep

LEMMA FetchEndsKeeps == ASSUME FilesIInv, NEW t \in Tasks, FetchEnds(t) PROVE FilesIInv'
<1>1. PICK g : g = job[t] /\ g.pc = "fetch"
  BY DEF FetchEnds, Doing
<1>2. UNCHANGED <<scene, files, sent, shared, left, kept, cuts>>
  BY DEF FetchEnds
<1>3. job[t].pc \in Current /\ job[t].pc \notin Resting /\ job[t].pc \notin Active
  BY <1>1 DEF Current, Active, Resting
<1>4. FilesTyped /\ Shape(t, g) /\ Right(t, g)
  BY <1>1, <1>3, OwnFacts
<1>5. PICK i \in Items : i = Item(t) /\ i = ItemOf(t, g)
  BY <1>1, <1>3, OwnFacts
<1>6. PICK got : /\ job' = [job EXCEPT ![t] = Advanced(t, got)]
                 /\ got = {i} /\ g.done = Size /\ g.open # "no"
  BY <1>1, <1>5 DEF FetchEnds
<1>7. PICK h : h = Advanced(t, got)
  OBVIOUS
<1>8. /\ Shape(t, h) /\ h.pc \in {"choose", "send"} /\ h.open = "no"
      /\ Chosen(t, h) \subseteq Chosen(t, job[t])
      /\ h.got = job[t].got \cup got /\ h.mine = job[t].mine \cup got
  <2>1. got \subseteq {Item(t)}
    BY <1>5, <1>6
  <2>2. job[t].pc \in Current
    BY <1>3
  <2>3. Advances(t, got, h)
    BY ONLY FilesIInv, t \in Tasks, <1>7, <2>1, <2>2, AdvancedFits, Zenon
  <2>4. QED BY <2>3 DEF Advances
<1>9. ASSUME NEW m \in h.got \ shared
      PROVE  Local(scene.name[m]) = Whole(m)
  <2>1. CASE m \in job[t].got
    BY <1>3, <1>9, <2>1, GotApart
  <2>2. CASE m \notin job[t].got
    <3>1. m = i /\ g.done = Size /\ g.open # "no"
      BY <1>6, <1>8, <1>9, <2>2
    <3>2. Local(NameOf(t, g)) = Prefix(i, Size)
      BY <1>1, <1>3, <1>4, <1>5, <1>9, <3>1 DEF Right, Begun
    <3>3. NameOf(t, g) = scene.name[m]
      BY <1>5, <3>1 DEF NameOf
    <3>4. QED BY <3>1, <3>2, <3>3 DEF Prefix, Whole
  <2>3. QED BY <2>1, <2>2
<1>10. Right(t, h)
  BY <1>8, <1>9 DEF Right, Current, Active
<1>11. h.pc \notin Resting /\ Keeping(t, h)
  BY <1>5, <1>6, <1>8 DEF Resting, Keeping
<1>12. QED
  BY <1>2, <1>3, <1>6, <1>7, <1>8, <1>10, <1>11, QuietStep

(* The .part an interruption leaves is remembered.                         *)
LEMMA InterruptKeeps == ASSUME FilesIInv, NEW t \in Tasks, Interrupt(t) PROVE FilesIInv'
<1>1. job[t].pc \in Active /\ UNCHANGED <<scene, files, sent, shared, kept>>
  BY DEF Interrupt, Active
<1>2. job[t].pc \in Current /\ job[t].pc \notin Resting
  BY <1>1 DEF Current, Active, Resting
<1>3. FilesTyped
  BY <1>2, OwnFacts
<1>4. PICK n \in Names : n = Name(t)
  BY <1>2, OwnFacts
<1>5. PICK plan : plan = Tail(job[t].plan)
  OBVIOUS
<1>6. PICK h : h = WithPlan(t, plan)
  OBVIOUS
<1>7. job' = [job EXCEPT ![t] = h]
  BY <1>5, <1>6 DEF Interrupt, NextWay
<1>8. /\ Shape(t, h) /\ h.pc \in {"choose", "send", "ask"}
      /\ Chosen(t, h) \subseteq Chosen(t, job[t]) /\ h.open = "no" /\ Keeping(t, h)
  BY <1>1, <1>6, WithPlanFits
<1>9. Right(t, h)
  BY <1>1, <1>6, PlanRight
<1>10. Right(t, h)'
  BY <1>1, <1>9
     DEF Right, ItemOf, NameOf, Begun, PrefixOrGone, PartSize, Part, Local, Whole
<1>11. DOMAIN job' = Tasks /\ job'[t] = h /\ \A u \in Tasks \ {t} : job'[u] = job[u]
  BY <1>3, <1>7 DEF FilesTyped
<1>12. \A u \in Tasks \ {t} : Beside(u, {})
  BY <1>11 DEF Beside
<1>13. /\ left \subseteq left' /\ left' \subseteq Names /\ n \in left'
       /\ cuts' \in 0..MaxCuts /\ cuts' # 0
  <2>1. PICK a \in Nat : a = cuts /\ a < MaxCuts /\ cuts' = a + 1
    BY <1>3 DEF Interrupt, FilesTyped
  <2>2. cuts' \in 0..MaxCuts /\ cuts' # 0
    BY <2>1, FilesAssumption
  <2>3. QED BY <1>3, <1>4, <2>2 DEF Interrupt, FilesTyped
<1>14. \A m \in Names : Part(m)' # Gone =>
         Part(m) # Gone /\ (HasPart(t, m) => m \in left')
  BY <1>1, <1>4, <1>13 DEF Part, HasPart
<1>15. \A m \in Names : Local(m)' # Gone => Local(m) # Gone
  BY <1>1 DEF Local
<1>16. files' \in [Names -> FileType] /\ \A m \in Names \ {} : files'[m] = files[m]
  BY <1>1, <1>3 DEF FilesTyped
<1>17. PICK N : N = {}
  OBVIOUS
<1>18. h.pc \notin Resting
  BY <1>8 DEF Resting
<1>19. /\ \A m \in N : \E i \in Chosen(t, job[t]) : scene.name[i] = m
       /\ \A m \in Names \ N : files'[m] = files[m]
       /\ \A u \in Tasks \ {t} : Beside(u, N)
  BY <1>12, <1>16, <1>17
<1>20. OpenThere'
  BY <1>1, <1>8, <1>11, OpenStays DEF FilesIInv
<1>21. QED
  BY <1>1, <1>8, <1>10, <1>11, <1>13, <1>14, <1>15, <1>16, <1>18, <1>19, <1>20,
     SentStays, TaskStep
-----------------------------------------------------------------------------
(* The attachments in work are a superset of those that were compared.     *)
LEMMA BusyFacts ==
  ASSUME FilesIInv, NEW t \in Tasks
  PROVE  Chosen(t, job[t]) \subseteq Busy(t) /\ Busy(t) \subseteq Items
<1>1. PICK g : g = job[t]
  OBVIOUS
<1>2. FilesTyped /\ Shape(t, g)
  BY <1>1 DEF FilesIInv, Jobs
<1>3. CASE g.pc \in Resting
  <2>1. Busy(t) = {} /\ Chosen(t, g) = {}
    BY <1>1, <1>3 DEF Busy, Chosen, Resting
  <2>2. QED BY <1>1, <2>1
<1>4. CASE g.pc \notin Resting
  <2>1. Busy(t) = UpTo(t, g.k)
    BY <1>1, <1>4 DEF Busy, UpTo, Resting
  <2>2. g.k \in Nat \ {0} /\ g.k <= Len(scene.work[t])
    BY <1>2, <1>4, JobFacts
  <2>3. UpTo(t, g.k) \subseteq Items
    BY <1>2, <2>2, UpToFacts
  <2>4. UpTo(t, g.k - 1) \subseteq UpTo(t, g.k)
    BY <2>2 DEF UpTo
  <2>5. Chosen(t, g) \subseteq UpTo(t, g.k)
    BY <1>4, <2>4 DEF Chosen
  <2>6. QED BY <1>1, <2>1, <2>3, <2>5
<1>5. QED BY <1>3, <1>4

(* An attachment that is compared with those in work, finds none of its    *)
(* name and none left, finds no .part.                                     *)
LEMMA ChooseKeeps == ASSUME FilesIInv, NEW t \in Tasks, Choose(t) PROVE FilesIInv'
<1>1. PICK g : g = job[t] /\ g.pc = "choose"
  BY DEF Choose, Doing
<1>2. UNCHANGED <<scene, files, sent, left, kept, cuts>>
  BY DEF Choose
<1>3. job[t].pc \notin Resting
  BY <1>1 DEF Resting
<1>4. /\ FilesTyped /\ Jobs /\ Apart /\ PartsKept /\ LocalsKept /\ OwnContent
      /\ OpenThere
      /\ Shape(t, g) /\ Right(t, g) /\ JobType(g)
  BY <1>1 DEF FilesIInv, Jobs, Shape
<1>5. PICK n \in Names : n = Name(t) /\ n = NameOf(t, g)
  BY <1>1, <1>3, OwnFacts
<1>6. PICK i \in Items : i = Item(t) /\ i = ItemOf(t, g) /\ n = scene.name[i]
  BY <1>1, <1>3, <1>5, OwnFacts
<1>7. PICK plan, h :
        /\ job' = [job EXCEPT ![t] = h]
        /\ h = [g EXCEPT !.plan = plan, !.attempt = 1,
                         !.pc = IF FromTg(t) THEN "fetch" ELSE "ask"]
  <2>1. PICK plan :
          job' = [job EXCEPT ![t] = [@ EXCEPT !.plan = plan, !.attempt = 1,
                    !.pc = IF FromTg(t) THEN "fetch" ELSE "ask"]]
    BY DEF Choose
  <2>2. job' = [job EXCEPT ![t] = [g EXCEPT !.plan = plan, !.attempt = 1,
                    !.pc = IF FromTg(t) THEN "fetch" ELSE "ask"]]
    BY <1>1, <1>4, <2>1 DEF FilesTyped
  <2>3. QED BY <2>2
<1>8. /\ h.pc = (IF FromTg(t) THEN "fetch" ELSE "ask") /\ h.k = g.k
      /\ h.got = g.got /\ h.open = g.open /\ h.mine = g.mine /\ JobType(h)
  <2>1. 1 \in 1..MaxDownloadAttempts
    BY FilesAssumption
  <2>2. h.plan = plan
    BY <1>4, <1>7 DEF JobType
  <2>3. QED BY <1>4, <1>7, <2>1, <2>2 DEF JobType, PCs
<1>9. g.open = "no" /\ h.pc \notin Resting /\ g.k \in DOMAIN scene.work[t]
      /\ g.k \in Nat \ {0} /\ h.pc \in {"fetch", "ask"}
  BY <1>1, <1>3, <1>4, <1>8 DEF Shape, Resting, JobType
<1>10. Past(t, h) = Past(t, g)
  BY <1>1, <1>8, <1>9 DEF Past, Resting
<1>11. Shape(t, h)
  BY <1>4, <1>8, <1>9, <1>10 DEF Shape, Active, Resting
<1>12. /\ Chosen(t, h) = Chosen(t, g) \cup {i}
       /\ ItemOf(t, h) = i /\ NameOf(t, h) = n
  <2>1. Chosen(t, h) = UpTo(t, g.k) /\ Chosen(t, g) = UpTo(t, g.k - 1)
    BY <1>1, <1>8, <1>9 DEF Chosen, Resting
  <2>2. UpTo(t, g.k) = UpTo(t, g.k - 1) \cup {scene.work[t][g.k]}
    BY <1>9 DEF UpTo
  <2>3. QED BY <1>5, <1>6, <1>8, <2>1, <2>2 DEF ItemOf, NameOf
<1>13. /\ DOMAIN job' = Tasks /\ job'[t] = h
       /\ \A u \in Tasks \ {t} : job'[u] = job[u]
  BY <1>4, <1>7 DEF FilesTyped
<1>14. /\ shared \subseteq shared'
       /\ Namesakes(i) # {} => Namesakes(i) \cup {i} \subseteq shared'
       /\ n \in left => i \in shared'
       /\ shared' \subseteq shared \cup Namesakes(i) \cup {i}
  BY <1>5, <1>6 DEF Choose
<1>15. /\ i \in Busy(t)
       /\ \A u \in Tasks : \A j \in Busy(u) :
            j # i /\ scene.name[j] = n => j \in Namesakes(i)
  <2>1. i \in Busy(t)
    <3>1. Busy(t) = {scene.work[t][k] : k \in 1..g.k}
      BY <1>1 DEF Busy
    <3>2. g.k \in 1..g.k
      BY <1>9
    <3>3. QED BY <1>6, <3>1, <3>2 DEF ItemOf
  <2>2. QED BY <1>6, <2>1 DEF Namesakes
<1>16. Items' = Items /\ Names' = Names /\ FileType' = FileType
  BY <1>2 DEF Items, Names, FileType, Chunks
<1>17. FilesTyped'
  <2>1. Namesakes(i) \subseteq Items
    BY BusyFacts DEF Namesakes
  <2>2. shared' \subseteq Items
    BY <1>4, <1>14, <2>1 DEF FilesTyped
  <2>3. QED BY <1>2, <1>4, <1>13, <1>16, <2>2 DEF FilesTyped
<1>18. ASSUME NEW u \in Tasks, u # t
       PROVE  /\ Shape(u, job[u])' /\ Right(u, job[u])'
              /\ Chosen(u, job[u])' = Chosen(u, job[u])
              /\ Name(u)' = Name(u)
  <2>1. PICK N : N = {}
    OBVIOUS
  <2>2. /\ \A m \in N : \E a \in Chosen(t, job[t]) : scene.name[a] = m
        /\ \A m \in Names \ N : files'[m] = files[m]
        /\ Beside(u, N)
    BY <1>2, <1>13, <1>18, <2>1 DEF Beside
  <2>3. QED BY <1>2, <1>14, <1>18, <2>2, OthersKeep
<1>19. ASSUME i \notin shared', ~FromTg(t) PROVE Part(n) = Gone
  <2>1. SUFFICES ASSUME Part(n) # Gone PROVE FALSE
    OBVIOUS
  <2>2. n \notin left /\ Namesakes(i) = {}
    BY <1>14, <1>19
  <2>3. PICK u \in Tasks : HasPart(u, n)
    BY <1>4, <2>1, <2>2 DEF PartsKept
  <2>4. u # t
    BY <1>1, <2>3 DEF HasPart, Active
  <2>5. job[u].pc \notin Resting /\ job[u].pc \in Current /\ Name(u) = n
    BY <2>3 DEF HasPart, Active, Current, Resting
  <2>6. Item(u) \in Chosen(u, job[u])
    <3>1. PICK m : m = job[u] /\ Shape(u, m)
      BY <1>4 DEF Jobs
    <3>2. ItemOf(u, m) \in Chosen(u, m)
      BY <1>4, <2>5, <3>1, JobFacts
    <3>3. QED BY <3>1, <3>2 DEF Item, ItemOf
  <2>7. Item(u) \in Busy(u) /\ scene.name[Item(u)] = n
    BY <2>5, <2>6, BusyFacts DEF Name
  <2>8. Item(u) # i
    <3>1. job[u].k \in DOMAIN scene.work[u]
      BY <1>4, <2>5 DEF Jobs, Shape
    <3>2. g.k \in DOMAIN scene.work[t] /\ i = scene.work[t][g.k]
      BY <1>6, <1>9 DEF ItemOf
    <3>3. QED BY <1>4, <2>4, <3>1, <3>2, SceneFacts DEF Item
  <2>9. QED BY <1>15, <2>2, <2>7, <2>8
<1>20. Right(t, h)'
  <2>1. \A m \in h.got \ shared' : Local(scene.name[m])' = Whole(m)
    BY <1>2, <1>4, <1>8, <1>14 DEF Right, Local
  <2>2. i \notin shared' => Begun(i, n, h)'
    <3>1. SUFFICES ASSUME i \notin shared' PROVE Begun(i, n, h)'
      OBVIOUS
    <3>2. CASE FromTg(t)
      BY <1>8, <1>9, <3>2 DEF Begun
    <3>3. CASE ~FromTg(t)
      <4>1. Part(n)' = Gone
        BY <1>2, <1>19, <3>1, <3>3 DEF Part
      <4>2. QED BY <1>8, <3>3, <4>1 DEF Begun, PrefixOrGone
    <3>4. QED BY <3>2, <3>3
  <2>3. ItemOf(t, h)' = i /\ NameOf(t, h)' = n
    BY <1>2, <1>12 DEF ItemOf, NameOf
  <2>4. QED BY <1>2, <2>1, <2>2, <2>3 DEF Right, Local, Whole
<1>21. Shape(t, h)'
  BY <1>2, <1>11 DEF Shape, JobType, FromTg, Past, UpTo, Items
<1>22. Jobs'
  <2>1. Shape(t, job[t])' /\ Right(t, job[t])'
    BY <1>13, <1>20, <1>21
  <2>2. QED BY <1>18, <2>1 DEF Jobs
<1>23. \A u \in Tasks : \A a \in Chosen(u, job[u])' :
         a \in Chosen(u, job[u]) \/ (u = t /\ a = i)
  <2>1. Chosen(t, job[t])' = Chosen(t, h)
    BY <1>2, <1>13 DEF Chosen, UpTo
  <2>2. QED BY <1>1, <1>12, <1>18, <2>1
<1>24. Apart'
  <2>1. SUFFICES ASSUME NEW u \in Tasks, NEW v \in Tasks,
                        NEW a \in Chosen(u, job[u])', NEW b \in Chosen(v, job[v])',
                        a # b, scene.name[a] = scene.name[b]
                 PROVE  a \in shared'
    BY <1>2 DEF Apart
  <2>2. CASE a \in Chosen(u, job[u]) /\ b \in Chosen(v, job[v])
    BY <1>4, <1>14, <2>1, <2>2 DEF Apart
  <2>3. CASE a = i /\ b \in Chosen(v, job[v])
    <3>1. b \in Namesakes(i)
      BY <1>6, <1>15, <2>1, <2>3, BusyFacts
    <3>2. QED BY <1>14, <2>3, <3>1
  <2>4. CASE b = i /\ a \in Chosen(u, job[u])
    <3>1. a \in Namesakes(i)
      BY <1>6, <1>15, <2>1, <2>4, BusyFacts
    <3>2. QED BY <1>14, <3>1
  <2>5. QED BY <1>23, <2>1, <2>2, <2>3, <2>4
<1>25. PartsKept'
  <2>1. \A u \in Tasks : \A m \in Names : HasPart(u, m) => HasPart(u, m)'
    <3>1. ~(job[t].pc \in Active)
      BY <1>1 DEF Active
    <3>2. QED BY <1>13, <1>18, <3>1 DEF HasPart
  <2>2. \A m \in Names : Part(m)' = Part(m)
    BY <1>2 DEF Part
  <2>3. QED BY <1>2, <1>4, <1>16, <2>1, <2>2 DEF PartsKept
<1>26. LocalsKept' /\ OpenThere'
  <2>1. ASSUME NEW u \in Tasks, NEW m \in Names, HasFile(u, m) PROVE HasFile(u, m)'
    <3>1. CASE u = t
      <4>1. Keeping(t, h)
        BY <1>1, <1>8 DEF Keeping
      <4>2. QED BY <1>2, <1>13, <2>1, <3>1, <4>1, KeepsFiles
    <3>2. CASE u # t
      <4>1. job'[u] = job[u] /\ Name(u)' = Name(u)
        BY <1>13, <1>18, <3>2
      <4>2. QED BY <1>2, <2>1, <4>1 DEF HasFile, Held
    <3>3. QED BY <3>1, <3>2
  <2>2. \A m \in Names : Local(m)' = Local(m)
    BY <1>2 DEF Local
  <2>3. LocalsKept'
    BY <1>2, <1>4, <1>16, <2>1, <2>2 DEF LocalsKept
  <2>4. h.open # "local"
    BY <1>8, <1>9
  <2>5. QED BY <1>2, <1>4, <1>13, <2>3, <2>4, OpenStays
<1>27. OwnContent'
  BY <1>2, <1>4, <1>14, <1>16 DEF OwnContent, Whole
<1>28. QED BY <1>17, <1>22, <1>24, <1>25, <1>26, <1>27 DEF FilesIInv

-----------------------------------------------------------------------------
(* What is sent, and the end.                                              *)
LEMMA LeastPlace ==
  ASSUME NEW S, S \subseteq Nat, S # {}
  PROVE  \E k \in S : \A l \in S : k <= l
<1>1. PICK k \in S : \A l \in S : <<l, k>> \notin OpToRel(<, Nat)
  BY WFMin, NatLessThanWellFounded, Zenon
<1>2. \A l \in S : ~(l < k)
  BY <1>1, Zenon DEF OpToRel
<1>3. QED BY <1>2

LEMMA FirstIsGot ==
  ASSUME FilesIInv, NEW t \in Tasks, job[t].pc = "send", job[t].got # {}
  PROVE  /\ scene.work[t][FirstGot(t)] \in job[t].got
         /\ scene.work[t][FirstGot(t)] \in Items
<1>1. PICK g : g = job[t] /\ g.pc = "send" /\ g.got # {}
  OBVIOUS
<1>2. FilesTyped /\ Shape(t, g)
  BY <1>1 DEF FilesIInv, Jobs
<1>3. PICK S : S = {k \in DOMAIN scene.work[t] : scene.work[t][k] \in g.got}
  OBVIOUS
<1>4. scene.work[t] \in Seq(Items)
  BY <1>2, SceneFacts
<1>5. S \subseteq Nat
  BY <1>3, <1>4
<1>6. S # {}
  <2>1. PICK i \in g.got : TRUE
    BY <1>1
  <2>2. i \in Chosen(t, g)
    BY <1>2, <2>1, JobFacts DEF Shape
  <2>3. PICK k \in DOMAIN scene.work[t] : i = scene.work[t][k]
    BY <1>2, <2>2, ChosenIsWork
  <2>4. k \in S
    BY <1>3, <2>1, <2>3
  <2>5. QED BY <2>4
<1>7. \E k \in S : \A l \in S : k <= l
  BY <1>5, <1>6, LeastPlace
<1>8. FirstGot(t) = CHOOSE k \in S : \A l \in S : k <= l
  BY <1>1, <1>3 DEF FirstGot
<1>9. FirstGot(t) \in S
  BY <1>7, <1>8
<1>10. QED BY <1>1, <1>3, <1>4, <1>9

LEMMA SendKeeps == ASSUME FilesIInv, NEW t \in Tasks, Send(t) PROVE FilesIInv'
<1>1. PICK g : g = job[t] /\ g.pc = "send" /\ g.got # {}
  BY DEF Send, Doing
<1>2. UNCHANGED <<scene, files, shared, left, kept, cuts>>
  BY DEF Send
<1>3. job[t].pc \notin Resting /\ job[t].pc \notin Active
  BY <1>1 DEF Resting, Active
<1>4. FilesTyped /\ Shape(t, g) /\ Right(t, g) /\ JobType(g) /\ OwnContent
  BY <1>1, <1>3, OwnFacts DEF Shape, FilesIInv
<1>5. PICK i \in Items : i = scene.work[t][FirstGot(t)] /\ i \in g.got
  BY <1>1, FirstIsGot
<1>6. PICK h : h = [g EXCEPT !.got = @ \ {i}]
  OBVIOUS
<1>7. job' = [job EXCEPT ![t] = h]
  <2>1. job' = [job EXCEPT ![t].got = @ \ {i}]
    BY <1>5 DEF Send
  <2>2. job' = [job EXCEPT ![t] = [job[t] EXCEPT !.got = job[t].got \ {i}]]
    BY <1>4, <2>1 DEF FilesTyped
  <2>3. QED BY <1>1, <1>6, <2>2
<1>8. /\ h.pc = "send" /\ h.k = g.k /\ h.open = g.open
      /\ h.got = g.got \ {i} /\ h.mine = g.mine /\ JobType(h)
  BY <1>1, <1>4, <1>6 DEF JobType
<1>9. Past(t, h) = Past(t, g) /\ Chosen(t, h) = Chosen(t, g)
  BY <1>1, <1>8 DEF Past, Chosen
<1>10. Shape(t, h)
  BY <1>1, <1>4, <1>8, <1>9 DEF Shape, Active, Resting
<1>11. Right(t, h)
  BY <1>4, <1>8 DEF Right, Current, Active
<1>12. Right(t, h)'
  BY <1>2, <1>11
     DEF Right, ItemOf, NameOf, Begun, PrefixOrGone, PartSize, Part, Local, Whole
<1>13. /\ sent' = [sent EXCEPT ![i] = Local(scene.name[i])] \/ sent' = sent
       /\ Items' = Items
  BY <1>2, <1>5 DEF Send, Items
<1>14. sent' = [m \in Items |-> sent'[m]]
  <2>1. sent = [m \in Items |-> sent[m]]
    BY <1>4 DEF FilesTyped
  <2>2. CASE sent' = sent
    BY <2>1, <2>2
  <2>3. CASE sent' = [sent EXCEPT ![i] = Local(scene.name[i])]
    BY <2>1, <2>3
  <2>4. QED BY <1>13, <2>2, <2>3
<1>15. \A m \in Items :
         sent'[m] = sent[m] \/ (m = i /\ sent'[m] = Local(scene.name[i]))
  <2>1. DOMAIN sent = Items
    <3>1. sent = [m \in Items |-> sent[m]]
      BY <1>4 DEF FilesTyped
    <3>2. QED BY <3>1
  <2>2. QED BY <1>13, <2>1
<1>16. OwnContent'
  <2>1. i \notin shared => Local(scene.name[i]) = Whole(i)
    BY <1>4, <1>5 DEF Right
  <2>2. QED BY <1>2, <1>4, <1>13, <1>15, <2>1 DEF OwnContent, Whole
<1>17. DOMAIN job' = Tasks /\ job'[t] = h /\ \A u \in Tasks \ {t} : job'[u] = job[u]
  BY <1>4, <1>7 DEF FilesTyped
<1>18. PICK N : N = {}
  OBVIOUS
<1>19. /\ \A m \in N : \E a \in Chosen(t, job[t]) : scene.name[a] = m
       /\ \A m \in Names \ N : files'[m] = files[m]
       /\ \A u \in Tasks \ {t} : Beside(u, N)
  BY <1>2, <1>17, <1>18 DEF Beside
<1>20. \A m \in Names : Part(m)' # Gone =>
         Part(m) # Gone /\ (HasPart(t, m) => HasPart(t, m)')
  BY <1>2, <1>3 DEF Part, HasPart
<1>21. \A m \in Names : Local(m)' # Gone => Local(m) # Gone
  BY <1>2 DEF Local
<1>22. /\ left' \subseteq Names /\ cuts' \in 0..MaxCuts
       /\ cuts' = 0 => left' = {} /\ cuts = 0
       /\ files' \in [Names -> FileType]
  BY <1>2, <1>4 DEF FilesTyped
<1>23. h.pc \notin Resting /\ Chosen(t, h) \subseteq Chosen(t, job[t])
  BY <1>1, <1>8, <1>9 DEF Resting
<1>24. Keeping(t, h) /\ OpenThere'
  <2>1. h.open = "no"
    BY <1>1, <1>4, <1>8 DEF Shape
  <2>2. QED BY <1>1, <1>2, <1>8, <1>17, <2>1, OpenStays DEF Keeping, FilesIInv
<1>25. QED
  BY <1>2, <1>10, <1>12, <1>14, <1>16, <1>17, <1>19, <1>20, <1>21, <1>22, <1>23,
     <1>24, TaskStep
(* The task's files go together, and with it those who answered for them.  *)
LEMMA CleanUpKeeps == ASSUME FilesIInv, NEW t \in Tasks, CleanUp(t) PROVE FilesIInv'
<1>1. PICK g : g = job[t] /\ g.pc = "send"
  BY DEF CleanUp, Doing
<1>2. UNCHANGED <<scene, sent, shared, left, cuts>>
  BY DEF CleanUp
<1>3. /\ FilesTyped /\ Jobs /\ Apart /\ PartsKept /\ LocalsKept /\ OwnContent
      /\ OpenThere /\ Shape(t, g)
  BY <1>1 DEF FilesIInv, Jobs
<1>4. PICK N : N = Held(t)
  OBVIOUS
<1>5. PICK over : over = Ended
  OBVIOUS
<1>6. /\ files' = [n \in Names |-> IF n \in N THEN [files[n] EXCEPT !.local = Gone]
                                   ELSE files[n]]
      /\ job' = [u \in Tasks |->
                   CASE u = t -> over
                     [] u # t /\ job[u].open = "local" /\ Name(u) \in N
                          -> [job[u] EXCEPT !.open = "lost"]
                     [] OTHER -> job[u]]
      /\ kept' = kept \ N
  BY <1>4, <1>5 DEF CleanUp
<1>7. /\ DOMAIN job' = Tasks /\ job'[t] = over
      /\ Shape(t, over) /\ over.pc = "over" /\ over.got = {} /\ over.open = "no"
  BY <1>3, <1>5, <1>6, IdleShape
<1>8. ASSUME NEW u \in Tasks, u # t PROVE Beside(u, N)
  <2>1. CASE job[u].open = "local" /\ Name(u) \in N
    <3>1. job'[u] = [job[u] EXCEPT !.open = "lost"]
      BY <1>6, <1>8, <2>1
    <3>2. job[u].open # "no"
      BY <2>1
    <3>3. QED BY <2>1, <3>1, <3>2 DEF Beside
  <2>2. CASE ~(job[u].open = "local" /\ Name(u) \in N)
    <3>1. job'[u] = job[u]
      BY <1>6, <1>8, <2>2
    <3>2. QED BY <3>1 DEF Beside
  <2>3. QED BY <2>1, <2>2
<1>9. \A n \in N : \E i \in Chosen(t, job[t]) : scene.name[i] = n
  <2>1. g.mine \subseteq Chosen(t, g)
    BY <1>3, JobFacts DEF Shape
  <2>2. QED BY <1>1, <1>4, <2>1 DEF Held
<1>10. \A n \in Names \ N : files'[n] = files[n]
  BY <1>6
<1>11. ASSUME NEW u \in Tasks, u # t
       PROVE  /\ Shape(u, job[u])' /\ Right(u, job[u])'
              /\ Chosen(u, job[u])' = Chosen(u, job[u])
              /\ Name(u)' = Name(u)
  BY <1>2, <1>8, <1>9, <1>10, <1>11, OthersKeep
<1>12. Items' = Items /\ Names' = Names /\ FileType' = FileType
  BY <1>2 DEF Items, Names, FileType, Chunks
<1>13. files' \in [Names -> FileType]
  <2>1. ASSUME NEW n \in Names
        PROVE  (IF n \in N THEN [files[n] EXCEPT !.local = Gone] ELSE files[n])
                 \in FileType
    <3>1. files[n] \in FileType
      BY <1>3 DEF FilesTyped
    <3>2. [files[n] EXCEPT !.local = Gone] \in FileType
      BY <1>3, <3>1, GoneType DEF FileType
    <3>3. QED BY <3>1, <3>2
  <2>2. QED BY <1>6, <2>1
<1>14. FilesTyped'
  BY <1>2, <1>3, <1>6, <1>7, <1>12, <1>13 DEF FilesTyped
<1>15. Jobs'
  <2>1. Shape(t, over)'
    BY <1>2, <1>7 DEF Shape, JobType, FromTg, Past, UpTo, Items
  <2>2. Right(t, over)'
    BY <1>7 DEF Right, Current, Active
  <2>3. Shape(t, job[t])' /\ Right(t, job[t])'
    BY <1>7, <2>1, <2>2
  <2>4. QED BY <1>11, <2>3 DEF Jobs
<1>16. Apart'
  <2>1. Chosen(t, job[t])' = {}
    BY <1>7 DEF Chosen, Resting
  <2>2. \A u \in Tasks : Chosen(u, job[u])' \subseteq Chosen(u, job[u])
    BY <1>11, <2>1
  <2>3. QED BY <1>2, <1>3, <2>2 DEF Apart
<1>17. \A u \in Tasks \ {t} : job'[u].pc = job[u].pc
  BY <1>3, <1>8, BesideFields DEF Jobs, Shape
<1>18. PartsKept'
  <2>1. \A n \in Names : Part(n)' = Part(n)
    <3>1. TAKE n \in Names
    <3>2. files[n] \in FileType
      BY <1>3 DEF FilesTyped
    <3>3. QED BY <1>6, <3>2 DEF Part, FileType
  <2>2. \A u \in Tasks : \A n \in Names : HasPart(u, n) => HasPart(u, n)'
    <3>1. ~(job[t].pc \in Active)
      BY <1>1 DEF Active
    <3>2. QED BY <1>11, <1>17, <3>1 DEF HasPart
  <2>3. QED BY <1>2, <1>3, <1>12, <2>1, <2>2 DEF PartsKept
<1>19. LocalsKept'
  <2>1. SUFFICES ASSUME NEW n \in Names, Local(n)' # Gone
                 PROVE  n \in kept' \/ \E u \in Tasks : HasFile(u, n)'
    BY <1>12 DEF LocalsKept
  <2>2. n \notin N /\ Local(n) # Gone
    <3>1. files[n] \in FileType
      BY <1>3 DEF FilesTyped
    <3>2. n \notin N
      BY <1>6, <2>1, <3>1 DEF Local, FileType
    <3>3. QED BY <1>10, <2>1, <3>2 DEF Local
  <2>3. CASE n \in kept
    BY <1>6, <2>2, <2>3
  <2>4. ASSUME NEW u \in Tasks, HasFile(u, n) PROVE HasFile(u, n)'
    <3>1. u # t
      BY <1>1, <1>4, <2>2, <2>4 DEF HasFile
    <3>2. /\ job'[u].mine = job[u].mine /\ job'[u].pc = job[u].pc
          /\ job[u].open # "no" => job'[u].open # "no"
      BY <1>3, <1>8, <3>1, BesideFields DEF Jobs, Shape
    <3>3. Held(u)' = Held(u) /\ Name(u)' = Name(u)
      BY <1>2, <1>11, <3>1, <3>2 DEF Held
    <3>4. QED BY <2>4, <3>2, <3>3 DEF HasFile
  <2>5. QED BY <1>3, <2>2, <2>3, <2>4 DEF LocalsKept
<1>20. OpenThere'
  <2>1. ASSUME NEW u \in Tasks, job'[u].open = "local" PROVE Local(Name(u))' # Gone
    <3>1. u # t
      BY <1>7, <2>1
    <3>2. PICK e : e = job[u] /\ JobType(e) /\ Shape(u, e)
      BY <1>3 DEF Jobs, Shape
    <3>3. Name(u)' = Name(u)
      BY <1>11, <3>1
    <3>4. job'[u] = job[u] /\ Name(u) \notin N
      <4>1. CASE e.open = "local" /\ Name(u) \in N
        <5>1. job'[u] = [e EXCEPT !.open = "lost"]
          BY <1>6, <3>1, <3>2, <4>1
        <5>2. job'[u].open = "lost"
          BY <3>2, <5>1 DEF JobType
        <5>3. QED BY <2>1, <5>2
      <4>2. CASE ~(e.open = "local" /\ Name(u) \in N)
        <5>1. job'[u] = job[u]
          BY <1>6, <3>1, <3>2, <4>2
        <5>2. QED BY <2>1, <3>2, <4>2, <5>1
      <4>3. QED BY <4>1, <4>2
    <3>5. Local(Name(u)) # Gone
      BY <1>3, <2>1, <3>4 DEF OpenThere
    <3>6. Name(u) \in Names
      <4>1. e.pc \notin Resting
        BY <2>1, <3>2, <3>4 DEF Shape, Resting
      <4>2. QED BY <1>3, <3>2, <4>1, JobFacts DEF Name, NameOf, Item, ItemOf
    <3>7. QED BY <1>10, <3>3, <3>4, <3>5, <3>6 DEF Local
  <2>2. QED BY <2>1 DEF OpenThere
<1>21. OwnContent'
  BY <1>2, <1>3, <1>12 DEF OwnContent, Whole
<1>22. QED BY <1>14, <1>15, <1>16, <1>18, <1>19, <1>20, <1>21 DEF FilesIInv

(* A task that ends and leaves its files.                                  *)
EndsHere(t) ==
  /\ job[t].pc \notin Active
  /\ job' = [job EXCEPT ![t] = Ended]
  /\ UNCHANGED <<scene, files, sent, shared, left, cuts>>
  /\ kept \subseteq kept' /\ kept' \subseteq Names
  /\ \A n \in Names : Local(n) # Gone /\ HasFile(t, n) => n \in kept'

LEMMA LeavingKeeps == ASSUME FilesIInv, NEW t \in Tasks, EndsHere(t) PROVE FilesIInv'
<1>1. /\ FilesTyped /\ Jobs /\ Apart /\ PartsKept /\ LocalsKept /\ OwnContent
      /\ OpenThere
  BY DEF FilesIInv
<1>2. /\ job[t].pc \notin Active /\ job' = [job EXCEPT ![t] = Ended]
      /\ UNCHANGED <<scene, files, sent, shared, left, cuts>>
      /\ kept \subseteq kept' /\ kept' \subseteq Names
      /\ \A n \in Names : Local(n) # Gone /\ HasFile(t, n) => n \in kept'
  BY DEF EndsHere
<1>3. PICK over : over = Ended
  OBVIOUS
<1>4. /\ DOMAIN job' = Tasks /\ job'[t] = over
      /\ \A u \in Tasks \ {t} : job'[u] = job[u]
  BY <1>1, <1>3, <1>2 DEF FilesTyped
<1>5. /\ Shape(t, over) /\ over.pc = "over" /\ over.got = {} /\ over.open = "no"
  BY <1>1, <1>3, IdleShape
<1>6. Items' = Items /\ Names' = Names /\ FileType' = FileType
  BY <1>2 DEF Items, Names, FileType, Chunks
<1>7. FilesTyped'
  BY <1>1, <1>4, <1>6, <1>2 DEF FilesTyped
<1>8. Jobs'
  <2>1. ASSUME NEW u \in Tasks PROVE Shape(u, job[u])' /\ Right(u, job[u])'
    <3>1. PICK h : h = job'[u] /\ Shape(u, h) /\ Right(u, h)
      <4>1. CASE u = t
        BY <1>4, <1>5, <4>1 DEF Right, Current, Active
      <4>2. CASE u # t
        BY <1>1, <1>4, <4>2 DEF Jobs
      <4>3. QED BY <4>1, <4>2
    <3>2. Shape(u, h)'
      BY <1>2, <3>1 DEF Shape, JobType, FromTg, Past, UpTo, Items
    <3>3. UNCHANGED <<scene, files, shared>>
      BY <1>2
    <3>4. Right(u, h)'
      BY <3>1, <3>3
         DEF Right, ItemOf, NameOf, Begun, PrefixOrGone, PartSize, Part, Local, Whole
    <3>5. QED BY <3>1, <3>2, <3>4
  <2>2. QED BY <2>1 DEF Jobs
<1>9. Apart'
  <2>1. Chosen(t, job[t])' = {}
    BY <1>4, <1>5 DEF Chosen, Resting
  <2>2. \A u \in Tasks \ {t} : Chosen(u, job[u])' = Chosen(u, job[u])
    BY <1>4, <1>2 DEF Chosen, UpTo
  <2>3. QED BY <1>1, <1>2, <2>1, <2>2 DEF Apart
<1>10. PartsKept'
  <2>1. \A u \in Tasks : \A n \in Names : HasPart(u, n) => HasPart(u, n)'
    BY <1>4, <1>2 DEF HasPart, Name, Item
  <2>2. QED BY <1>1, <1>6, <1>2, <2>1 DEF PartsKept, Part
<1>11. LocalsKept'
  <2>1. \A u \in Tasks \ {t} : \A n \in Names : HasFile(u, n) => HasFile(u, n)'
    BY <1>4, <1>2 DEF HasFile, Held, Name, Item
  <2>2. SUFFICES ASSUME NEW n \in Names, Local(n) # Gone
                 PROVE  n \in kept' \/ \E u \in Tasks : HasFile(u, n)'
    BY <1>6, <1>2 DEF LocalsKept, Local
  <2>3. QED BY <1>1, <1>2, <2>1, <2>2 DEF LocalsKept
<1>12. OpenThere'
  BY <1>1, <1>4, <1>5, <1>2, OpenStays
<1>13. OwnContent'
  BY <1>1, <1>6, <1>2 DEF OwnContent, Whole
<1>14. QED BY <1>7, <1>8, <1>9, <1>10, <1>11, <1>12, <1>13 DEF FilesIInv

LEMMA EndEarlyKeeps == ASSUME FilesIInv, NEW t \in Tasks, EndEarly(t) PROVE FilesIInv'
<1>1. PICK g : g = job[t] /\ g.pc \in {"choose", "send"}
  BY DEF EndEarly
<1>2. FilesTyped /\ Shape(t, g)
  BY <1>1 DEF FilesIInv, Jobs
<1>3. Held(t) \subseteq Names
  <2>1. g.mine \subseteq Chosen(t, g)
    BY <1>2, JobFacts DEF Shape
  <2>2. \A i \in g.mine : scene.name[i] \in Names
    BY <1>2, <2>1, ChosenIsWork
  <2>3. QED BY <1>1, <2>2 DEF Held
<1>4. job[t].pc \notin Active /\ job[t].pc # "fetch"
  BY <1>1 DEF Active
<1>5. kept \subseteq Names
  BY <1>2 DEF FilesTyped
<1>6. \A n \in Names : Local(n) # Gone /\ HasFile(t, n) => n \in kept'
  BY <1>4 DEF EndEarly, HasFile
<1>7. kept \subseteq kept' /\ kept' \subseteq Names
  BY <1>3, <1>5 DEF EndEarly
<1>8. job' = [job EXCEPT ![t] = Ended] /\ UNCHANGED <<scene, files, sent, shared, left, cuts>>
  BY DEF EndEarly
<1>9. EndsHere(t)
  BY <1>4, <1>6, <1>7, <1>8 DEF EndsHere
<1>10. QED BY <1>9, LeavingKeeps

LEMMA FetchFailsKeeps ==
  ASSUME FilesIInv, NEW t \in Tasks, FetchFails(t) PROVE FilesIInv'
<1>1. PICK g : g = job[t] /\ g.pc = "fetch"
  BY DEF FetchFails, Doing
<1>2. job[t].pc \notin Active /\ job[t].pc \notin Resting
  BY <1>1 DEF Active, Resting
<1>3. FilesTyped /\ Shape(t, g) /\ Name(t) \in Names
  BY <1>1, <1>2, OwnFacts
<1>4. Held(t) = {}
  <2>1. g.mine = {}
    <3>1. FromTg(t) /\ g.k \in DOMAIN scene.work[t]
      BY <1>1, <1>3 DEF Shape, Resting
    <3>2. Len(scene.work[t]) <= 1
      BY <1>3, <3>1, FilesAssumption DEF FromTg, FilesTyped
    <3>3. g.k \in Nat \ {0} /\ g.k <= Len(scene.work[t]) /\ Len(scene.work[t]) \in Nat
      BY <1>1, <1>3, <1>2, JobFacts, SceneFacts
    <3>4. 1..(g.k - 1) = {}
      BY <3>2, <3>3
    <3>5. Past(t, g) = {}
      BY <1>1, <1>2, <3>4 DEF Past, UpTo
    <3>6. QED BY <1>3, <3>5 DEF Shape
  <2>2. QED BY <1>1, <2>1 DEF Held
<1>5. \A n \in Names : HasFile(t, n) => n \in kept'
  BY <1>4 DEF FetchFails, HasFile
<1>6. kept \subseteq kept' /\ kept' \subseteq Names
  BY <1>3 DEF FetchFails, FilesTyped
<1>7. job' = [job EXCEPT ![t] = Ended] /\ UNCHANGED <<scene, files, sent, shared, left, cuts>>
  BY DEF FetchFails
<1>8. EndsHere(t)
  BY <1>2, <1>5, <1>6, <1>7 DEF EndsHere
<1>9. QED BY <1>8, LeavingKeeps

-----------------------------------------------------------------------------
(* The whole.                                                              *)
LEMMA CutOffKeeps == ASSUME FilesIInv, CutOff PROVE FilesIInv'
<1>1. UNCHANGED <<scene, files, sent, shared>>
  BY DEF CutOff
<1>2. FilesTyped /\ PartsKept /\ OwnContent
  BY DEF FilesIInv
<1>3. PICK over : over = Ended
  OBVIOUS
<1>4. PICK idle : idle = Idle
  OBVIOUS
<1>5. /\ DOMAIN job' = Tasks
      /\ \A t \in Tasks : job'[t] \in {idle, over}
  BY <1>3, <1>4 DEF CutOff
<1>6. /\ \A t \in Tasks : Shape(t, idle) /\ Shape(t, over)
      /\ idle.pc \in Resting /\ over.pc \in Resting
      /\ idle.got = {} /\ over.got = {} /\ idle.open = "no" /\ over.open = "no"
  <2>1. /\ idle.pc = "idle" /\ idle.got = {} /\ idle.open = "no"
        /\ over.pc = "over" /\ over.got = {} /\ over.open = "no"
    BY <1>3, <1>4, Zenon DEF Idle, Ended
  <2>2. \A t \in Tasks : Shape(t, idle) /\ Shape(t, over)
    BY <1>2, <1>3, <1>4, IdleShape
  <2>3. QED BY <2>1, <2>2 DEF Resting
<1>7. \A t \in Tasks : /\ Shape(t, job'[t])
                       /\ job'[t].pc \in Resting /\ job'[t].got = {}
                       /\ job'[t].open = "no"
  BY <1>5, <1>6
<1>8. Items' = Items /\ Names' = Names /\ FileType' = FileType
  BY <1>1 DEF Items, Names, FileType, Chunks
<1>9. cuts' \in 0..MaxCuts /\ cuts' # 0
  <2>1. PICK a \in Nat : a = cuts /\ a < MaxCuts /\ cuts' = a + 1
    BY <1>2 DEF CutOff, FilesTyped
  <2>2. QED BY <2>1, FilesAssumption
<1>10. /\ left' \subseteq Names
       /\ \A n \in Names : Part(n) # Gone => n \in left'
       /\ kept' \subseteq Names
       /\ \A n \in Names : Local(n) # Gone => n \in kept'
  BY <1>2 DEF CutOff, FilesTyped
<1>11. FilesTyped'
  BY <1>1, <1>2, <1>5, <1>8, <1>9, <1>10 DEF FilesTyped
<1>12. ASSUME NEW t \in Tasks PROVE Shape(t, job[t])' /\ Right(t, job[t])'
  <2>1. PICK h : h = job'[t] /\ Shape(t, h) /\ h.pc \in Resting /\ h.got = {}
    BY <1>7
  <2>2. Shape(t, h)'
    BY <1>1, <2>1 DEF Shape, JobType, FromTg, Past, UpTo, Items
  <2>3. Right(t, h)'
    BY <2>1 DEF Right, Current, Active, Resting
  <2>4. QED BY <2>1, <2>2, <2>3
<1>13. Jobs'
  BY <1>12 DEF Jobs
<1>14. Apart'
  <2>1. \A t \in Tasks : Chosen(t, job[t])' = {}
    BY <1>7 DEF Chosen, Resting
  <2>2. QED BY <2>1 DEF Apart
<1>15. PartsKept'
  BY <1>1, <1>8, <1>10 DEF PartsKept, Part
<1>16. LocalsKept' /\ OpenThere'
  BY <1>1, <1>7, <1>8, <1>10 DEF LocalsKept, OpenThere, Local
<1>17. OwnContent'
  BY <1>1, <1>2, <1>8 DEF OwnContent, Whole
<1>18. QED BY <1>11, <1>13, <1>14, <1>15, <1>16, <1>17 DEF FilesIInv

LEMMA FilesInitIInv == ASSUME FilesInit PROVE FilesIInv
<1>1. scene \in Scenes /\ shared = {} /\ left = {} /\ kept = {} /\ cuts = 0
  BY DEF FilesInit
<1>2. 0 \in 0..MaxCuts
  BY FilesAssumption
<1>3. files \in [Names -> FileType] /\ \A n \in Names : Part(n) = Gone /\ Local(n) = Gone
  <2>1. Gone \in Seq(Chunks)
    BY DEF Gone, Chunks
  <2>2. [part |-> Gone, local |-> Gone] \in FileType
    BY <2>1 DEF FileType
  <2>3. QED BY <2>2 DEF FilesInit, Part, Local
<1>4. FilesTyped
  BY <1>1, <1>2, <1>3 DEF FilesInit, FilesTyped
<1>5. \A t \in Tasks : job[t] = Idle
  BY DEF FilesInit
<1>6. Jobs
  <2>1. SUFFICES ASSUME NEW t \in Tasks PROVE Shape(t, job[t]) /\ Right(t, job[t])
    BY DEF Jobs
  <2>2. PICK h : h = Idle
    OBVIOUS
  <2>3. Shape(t, h) /\ h.pc = "idle" /\ h.got = {}
    BY <1>4, <2>2, IdleShape
  <2>4. Right(t, h)
    BY <2>3 DEF Right, Current, Active
  <2>5. QED BY <1>5, <2>2, <2>3, <2>4
<1>7. Apart
  <2>1. \A t \in Tasks : Chosen(t, job[t]) = {}
    BY <1>5 DEF Chosen, Resting, Idle
  <2>2. QED BY <2>1 DEF Apart
<1>8. PartsKept /\ LocalsKept /\ OpenThere
  BY <1>3, <1>5 DEF PartsKept, LocalsKept, OpenThere, Idle
<1>9. OwnContent
  BY DEF FilesInit, OwnContent
<1>10. QED BY <1>4, <1>6, <1>7, <1>8, <1>9 DEF FilesIInv

LEMMA FilesStepIInv == ASSUME FilesIInv, [FilesNext]_filesVars PROVE FilesIInv'
<1>1. CASE UNCHANGED filesVars
  <2>1. FilesTyped' /\ OwnContent'
    <3>1. FilesTyped /\ OwnContent
      BY DEF FilesIInv
    <3>2. Items' = Items /\ Names' = Names /\ FileType' = FileType
      BY <1>1 DEF filesVars, Items, Names, FileType, Chunks
    <3>3. FilesTyped'
      BY <1>1, <3>1, <3>2 DEF filesVars, FilesTyped
    <3>4. OwnContent'
      BY <1>1, <3>1, <3>2 DEF filesVars, OwnContent, Whole
    <3>5. QED BY <3>3, <3>4
  <2>2. ASSUME NEW t \in Tasks PROVE Shape(t, job[t])' /\ Right(t, job[t])'
    <3>1. Shape(t, job[t]) /\ Right(t, job[t])
      BY DEF FilesIInv, Jobs
    <3>2. Shape(t, job[t])'
      BY <1>1, <3>1 DEF filesVars, Shape, JobType, FromTg, Past, UpTo, Items
    <3>3. Right(t, job[t])'
      BY <1>1, <3>1 DEF filesVars, Right, ItemOf, NameOf, Begun, PrefixOrGone, PartSize,
         Part, Local, Whole
    <3>4. QED BY <3>2, <3>3
  <2>3. Jobs'
    BY <1>1, <2>2 DEF filesVars, Jobs
  <2>4. Apart'
    BY <1>1 DEF filesVars, FilesIInv, Apart, Chosen, UpTo
  <2>5. PartsKept'
    BY <1>1 DEF filesVars, FilesIInv, PartsKept, HasPart, Part, Names, Items, Name, Item
  <2>6. LocalsKept' /\ OpenThere'
    <3>1. \A t \in Tasks : Held(t)' = Held(t) /\ Name(t)' = Name(t)
      BY <1>1 DEF filesVars, Held, Name, Item
    <3>2. \A t \in Tasks, n \in Names : HasFile(t, n) => HasFile(t, n)'
      BY <1>1, <3>1 DEF filesVars, HasFile
    <3>3. Names' = Names /\ \A n : Local(n)' = Local(n)
      BY <1>1 DEF filesVars, Names, Items, Local
    <3>4. LocalsKept'
      BY <1>1, <3>2, <3>3 DEF filesVars, FilesIInv, LocalsKept
    <3>5. OpenThere'
      BY <1>1, <3>1, <3>3 DEF filesVars, FilesIInv, OpenThere
    <3>6. QED BY <3>4, <3>5
  <2>7. QED BY <2>1, <2>3, <2>4, <2>5, <2>6 DEF FilesIInv
<1>2. ASSUME NEW t \in Tasks, Start(t) PROVE FilesIInv'
  BY <1>2, StartKeeps
<1>3. ASSUME NEW t \in Tasks, DownloadFile(t) PROVE FilesIInv'
  BY <1>3, ChooseKeeps, AttemptKeeps, NoWayKeeps, OpenKeeps, ChunkKeeps, CloseKeeps,
     RenameKeeps, UnlinkKeeps DEF DownloadFile
<1>4. ASSUME NEW t \in Tasks, Fetch(t) PROVE FilesIInv'
  BY <1>4, FetchKeeps, FetchEndsKeeps, FetchFailsKeeps DEF Fetch
<1>5. ASSUME NEW t \in Tasks, Deliver(t) PROVE FilesIInv'
  BY <1>5, SendKeeps, CleanUpKeeps, EndEarlyKeeps DEF Deliver
<1>6. ASSUME NEW t \in Tasks, Interrupt(t) PROVE FilesIInv'
  BY <1>6, InterruptKeeps
<1>7. QED BY <1>1, <1>2, <1>3, <1>4, <1>5, <1>6, CutOffKeeps DEF FilesNext

LEMMA AlwaysFiles == FilesSpec => []FilesIInv
<1>1. FilesInit => FilesIInv
  BY FilesInitIInv
<1>2. FilesIInv /\ [FilesNext]_filesVars => FilesIInv'
  BY FilesStepIInv
<1>3. QED BY <1>1, <1>2, PTL DEF FilesSpec

(* For any tasks and the attachments in their messages, any names, sizes   *)
(* and ways of failing: what is sent as an attachment that had its name to *)
(* itself is that attachment, whole; never a part of it, never another's   *)
(* chunks (MaxBridge's downloads into data/tmp and the sends to Telegram). *)
THEOREM WhatIsSentIsItself == FilesSpec => []OwnContent
<1>1. FilesIInv => OwnContent
  BY DEF FilesIInv
<1>2. QED BY <1>1, AlwaysFiles, PTL

(* Whatever failed, and for any tasks: once they are over a .part stays in *)
(* data/tmp only where a crash or an interruption left it, and a file only *)
(* where a crash did, a message that ended early or a failed download from *)
(* Telegram (the unlinks of downloader.py, forwarding.py, media_retry.py   *)
(* and replies.py).                                                        *)
THEOREM NothingIsLeft == FilesSpec => []NothingStays
<1>1. FilesIInv => NothingStays
  <2>1. SUFFICES ASSUME FilesIInv, \A t \in Tasks : Busy(t) = {}, NEW n \in Names
                 PROVE  /\ Part(n) # Gone => n \in left
                        /\ Local(n) # Gone => n \in kept
    BY DEF NothingStays
  <2>2. ASSUME NEW t \in Tasks PROVE job[t].pc \in Resting
    <3>1. SUFFICES ASSUME job[t].pc \notin Resting PROVE FALSE
      OBVIOUS
    <3>2. PICK k \in Nat \ {0} : k = job[t].k
      BY <2>1 DEF FilesIInv, Jobs, Shape, JobType
    <3>3. scene.work[t][k] \in {scene.work[t][l] : l \in 1..k}
      BY <3>2
    <3>4. scene.work[t][k] \in Busy(t)
      BY <3>1, <3>2, <3>3 DEF Busy, Resting
    <3>5. QED BY <2>1, <3>4
  <2>3. ASSUME NEW t \in Tasks PROVE ~HasPart(t, n) /\ ~HasFile(t, n)
    <3>1. PICK g : g = job[t] /\ Shape(t, g) /\ g.pc \in Resting
      BY <2>1, <2>2 DEF FilesIInv, Jobs
    <3>2. g.mine = {}
      BY <3>1 DEF Shape, Past
    <3>3. Held(t) = {}
      BY <3>1, <3>2 DEF Held
    <3>4. QED BY <3>1, <3>3 DEF HasPart, HasFile, Active, Resting
  <2>4. QED BY <2>1, <2>3 DEF FilesIInv, PartsKept, LocalsKept
<1>2. QED BY <1>1, AlwaysFiles, PTL

================================================================================
