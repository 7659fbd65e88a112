---------------------- MODULE CanonicalAuditQueueProofs ----------------------
(***************************************************************************)
(* What the audit lane tells its callers, for any number of records.       *)
(*                                                                         *)
(* Three invariants, each on top of the one before.  LaneInv: the lane and *)
(* its shutdown.  PostInv: what can be under way between the queue and the *)
(* threads.  RowInv: where each record is, and what the ledger has of it.  *)
(***************************************************************************)
EXTENDS CanonicalAuditQueue, TLAPS

(* The lane and its shutdown.                                              *)

\* Every worker started was paid for by a record taken off the queue, and one
\* by the source fallback.
StartsPaidFor == started + Len(queue) <= nextId - 1 + (IF sourceFallbackUsed THEN 1 ELSE 0)

ShutdownPhases ==
  /\ closed = (closing # "no")
  /\ closing \in {"asking", "stopping", "done"} => Idle
  /\ closing \in {"stopping", "done"} => worker = None
  /\ closing = "no" => closedBy = "nobody"
  /\ closing = "draining" => closedBy = "caller"

WokenIsIdle == retirement = "woken" => Idle

\* A thread that lives is the worker, or is being stopped, or could not be.
LivingIsKnown == \A w \in Workers : Living(w) => w = worker \/ w \in terminations \/ stopFailed
DoneHasStopped == closing = "done" => terminations = {} /\ (verdict = "ok" => ~stopFailed)

BornWorkers == /\ worker # None => worker <= started
               /\ \A w \in terminations : w <= started
               /\ \A w \in Workers : w > started => life[w] = "unborn"

LaneInv == /\ TypeOK /\ StartsPaidFor /\ ShutdownPhases /\ WokenIsIdle
           /\ RetirementNeverCutsOff /\ LivingIsKnown /\ DoneHasStopped /\ BornWorkers
-----------------------------------------------------------------------------
(* Messages under way.                                                     *)

\* A worker is asked one thing at a time, and answers to nobody once replaced.
OneAsked == \A w \in Workers :
  /\ inbox[w] = <<>> \/ \E i \in Ids \union {CloseId} : inbox[w] = <<i>>
  /\ w > started => inbox[w] = <<>> /\ ~appended[w]
  /\ w # worker => outbox[w] = <<>>
  /\ appended[w] => life[w] = "running" /\ \E i \in Ids : inbox[w] = <<i>>

\* What the present worker has before it: the record in flight, or the close.
AskedNow == worker # None =>
  /\ inbox[worker] = <<>> \/ (inFlight # None /\ inbox[worker] = <<inFlight>>)
     \/ (closing = "asking" /\ inbox[worker] = <<CloseId>>)
  /\ life[worker] = "starting" => ~workerReady /\ outbox[worker] = <<>>

IsResult(m) == m.kind = "result"

\* A result waiting is the last message, and the one to what was asked.
AnswerWaiting == worker # None => \A k \in DOMAIN outbox[worker] : IsResult(outbox[worker][k]) =>
  /\ k = Len(outbox[worker]) /\ inbox[worker] = <<>>
  /\ \/ /\ outbox[worker][k].id = inFlight
        /\ outbox[worker][k].result \in {"recorded", "refused"}
     \/ outbox[worker][k].id = CloseId /\ closing = "asking"

SlotHasWorker == inFlight # None => worker # None

PostInv == OneAsked /\ AskedNow /\ AnswerWaiting /\ SlotHasWorker
-----------------------------------------------------------------------------
(* Records and rows.                                                       *)
InLedger(i) == i \in ToSet(ledger)
Has(w, i) == Living(w) /\ inbox[w] = <<i>>

\* Records are outstanding in the order they were asked, and unanswered.
InOrder ==
  /\ \A m, n \in DOMAIN queue : m < n => queue[m] < queue[n]
  /\ inFlight # None => \A i \in ToSet(queue) : inFlight < i
  /\ \A i \in Outstanding : i < nextId /\ answer[i] = "none"
  /\ \A i \in Ids : answer[i] = "recorded" => \A j \in Outstanding : i < j
  /\ \A i \in Ids : i >= nextId => answer[i] = "none"

\* A record is before one thread at most, and before no other than the worker
\* while it is in flight.
OneHolder ==
  /\ \A i \in Ids, w, v \in Workers : Has(w, i) /\ Has(v, i) => w = v
  /\ \A i \in Ids, w \in Workers : Has(w, i) => i < nextId /\ i \notin ToSet(queue)
  /\ \A w \in Workers : inFlight # None /\ Has(w, inFlight) => w = worker

\* What has not been appended by the thread that holds it is not in the ledger.
NotYetIn ==
  /\ \A i \in ToSet(queue) : ~InLedger(i)
  /\ \A i \in Ids : InLedger(i) => i < nextId
  /\ \A i \in Ids, w \in Workers : Has(w, i) => (appended[w] <=> InLedger(i))

\* A worker that was never loaded has not appended what it was sent.
UnloadedIsOut == worker # None /\ ~workerReady =>
  IF outbox[worker] # <<>>
  THEN Head(outbox[worker]).kind = "ready"
  ELSE life[worker] # "running" /\ (inFlight # None => ~InLedger(inFlight))

ToldIsIn == worker # None => \A k \in DOMAIN outbox[worker] :
  IsResult(outbox[worker][k]) /\ outbox[worker][k].result = "recorded" => InLedger(outbox[worker][k].id)

\* The row of the record in flight is behind every recorded one.
InFlightIsLast == \A n \in DOMAIN ledger :
  ledger[n] = inFlight => \A m \in DOMAIN ledger : answer[ledger[m]] = "recorded" => m < n

RowInv == /\ InOrder /\ OneHolder /\ NotYetIn /\ UnloadedIsOut /\ ToldIsIn /\ InFlightIsLast
          /\ RecordedIsInLedger /\ NoDoubleAppend /\ RecordedInOrder

AuditInv == LaneInv /\ PostInv /\ RowInv
-----------------------------------------------------------------------------
(* The lane: types.                                                        *)

LEMMA SettledType ==
  ASSUME TypeOK, NEW ids, NEW r \in Results PROVE Settled(ids, r) \in [Ids -> Results]
BY DEF TypeOK, ThreadsType, Settled

LEMMA HeadTail ==
  ASSUME NEW S, NEW q \in Seq(S), q # <<>>
  PROVE  /\ Head(q) \in S /\ Tail(q) \in Seq(S) /\ Len(Tail(q)) = Len(q) - 1 /\ Len(q) \in Nat /\ Len(q) >= 1
         /\ ToSet(q) = {Head(q)} \union ToSet(Tail(q)) /\ Head(q) = q[1]
         /\ \A i \in DOMAIN Tail(q) : i + 1 \in DOMAIN q /\ Tail(q)[i] = q[i + 1]
<1>1. /\ Tail(q) \in Seq(S) /\ Len(Tail(q)) = Len(q) - 1 /\ Len(q) \in Nat /\ Len(q) >= 1 /\ Head(q) = q[1]
      /\ Head(q) \in S /\ DOMAIN q = 1 .. Len(q) /\ DOMAIN Tail(q) = 1 .. Len(q) - 1
  OBVIOUS
<1>2. \A i \in DOMAIN Tail(q) : i + 1 \in DOMAIN q /\ Tail(q)[i] = q[i + 1]
  BY <1>1
<1>3. ToSet(q) = {Head(q)} \union ToSet(Tail(q))
  <2>1. ASSUME NEW x \in ToSet(q) PROVE x \in {Head(q)} \union ToSet(Tail(q))
    <3>1. PICK i \in DOMAIN q : x = q[i]
      BY DEF ToSet
    <3>2. CASE i = 1
      BY <1>1, <3>1, <3>2
    <3>3. CASE i # 1
      <4>1. i - 1 \in DOMAIN Tail(q) /\ Tail(q)[i - 1] = q[i]
        BY <1>1, <1>2, <3>1, <3>3
      <4> QED BY <3>1, <4>1 DEF ToSet
    <3> QED BY <3>2, <3>3
  <2>2. ASSUME NEW x \in {Head(q)} \union ToSet(Tail(q)) PROVE x \in ToSet(q)
    BY <1>1, <1>2, <2>2 DEF ToSet
  <2> QED BY <2>1, <2>2
<1> QED BY <1>1, <1>2, <1>3

LEMMA Joined ==
  ASSUME NEW S, NEW q \in Seq(S), NEW x \in S
  PROVE  /\ Append(q, x) \in Seq(S) /\ Len(Append(q, x)) = Len(q) + 1 /\ Len(q) \in Nat
         /\ ToSet(Append(q, x)) = ToSet(q) \union {x}
         /\ \A i \in DOMAIN q : i \in DOMAIN Append(q, x) /\ Append(q, x)[i] = q[i]
         /\ Append(q, x)[Len(q) + 1] = x
<1>1. /\ Append(q, x) \in Seq(S) /\ Len(Append(q, x)) = Len(q) + 1 /\ Len(q) \in Nat
      /\ \A i \in DOMAIN q : i \in DOMAIN Append(q, x) /\ Append(q, x)[i] = q[i]
      /\ Append(q, x)[Len(q) + 1] = x /\ DOMAIN q = 1 .. Len(q)
      /\ DOMAIN Append(q, x) = 1 .. Len(q) + 1
  OBVIOUS
<1> DEFINE t == Append(q, x)
<1> HIDE DEF t
<1>2. t \in Seq(S) /\ \A i \in DOMAIN t : i \in DOMAIN q \/ i = Len(q) + 1
  BY <1>1 DEF t
<1>3. ToSet(t) = ToSet(q) \union {x}
  BY <1>1, <1>2 DEF ToSet, t
<1> QED BY <1>1, <1>3 DEF t

LEMMA PutFirst ==
  ASSUME NEW S, NEW q \in Seq(S), NEW x \in S
  PROVE  /\ <<x>> \o q \in Seq(S) /\ Len(<<x>> \o q) = Len(q) + 1 /\ Len(q) \in Nat
         /\ ToSet(<<x>> \o q) = ToSet(q) \union {x} /\ (<<x>> \o q)[1] = x
         /\ \A i \in DOMAIN (<<x>> \o q) : i # 1 => i - 1 \in DOMAIN q /\ (<<x>> \o q)[i] = q[i - 1]
<1> DEFINE t == <<x>> \o q
<1>1. /\ t \in Seq(S) /\ Len(t) = Len(q) + 1 /\ Len(q) \in Nat /\ t[1] = x
      /\ DOMAIN q = 1 .. Len(q) /\ DOMAIN t = 1 .. Len(q) + 1
      /\ \A i \in 1 .. Len(q) : t[i + 1] = q[i]
  OBVIOUS
<1> HIDE DEF t
<1>2. \A i \in DOMAIN t : i # 1 => i - 1 \in DOMAIN q /\ t[i] = q[i - 1]
  <2> TAKE i \in DOMAIN t
  <2> HAVE i # 1
  <2>1. i - 1 \in 1 .. Len(q) /\ t[(i - 1) + 1] = q[i - 1] /\ (i - 1) + 1 = i
    BY <1>1
  <2> QED BY <1>1, <2>1
<1>3. ToSet(t) = ToSet(q) \union {x}
  <2>1. ASSUME NEW y \in ToSet(t) PROVE y \in ToSet(q) \union {x}
    BY <1>1, <1>2, <2>1 DEF ToSet
  <2>2. ASSUME NEW y \in ToSet(q) \union {x} PROVE y \in ToSet(t)
    <3>1. CASE y = x
      BY <1>1, <3>1 DEF ToSet
    <3>2. CASE y \in ToSet(q)
      <4>1. PICK i \in 1 .. Len(q) : y = q[i]
        BY <1>1, <3>2 DEF ToSet
      <4>2. i + 1 \in DOMAIN t /\ t[i + 1] = y
        BY <1>1, <4>1
      <4> QED BY <4>2 DEF ToSet
    <3> QED BY <2>2, <3>1, <3>2
  <2> QED BY <2>1, <2>2
<1> QED BY <1>1, <1>2, <1>3 DEF t

Asked == Seq(Ids \union {CloseId})

LEMMA InboxGets ==
  ASSUME TypeOK, NEW w \in Workers
  PROVE  /\ \A x \in Ids \union {CloseId} : [inbox EXCEPT ![w] = Append(@, x)] \in [Workers -> Asked]
         /\ inbox[w] # <<>> => [inbox EXCEPT ![w] = Tail(@)] \in [Workers -> Asked]
         /\ [inbox EXCEPT ![w] = <<>>] \in [Workers -> Asked]
<1> DEFINE S == Ids \union {CloseId}
<1>1. inbox \in [Workers -> Seq(S)]
  BY DEF TypeOK, ThreadsType
<1> HIDE DEF S
<1>2. /\ \A x \in S : Append(inbox[w], x) \in Seq(S)
      /\ inbox[w] # <<>> => Tail(inbox[w]) \in Seq(S)
      /\ <<>> \in Seq(S)
  BY <1>1
<1>3. /\ \A x \in S : [inbox EXCEPT ![w] = Append(@, x)] \in [Workers -> Seq(S)]
      /\ inbox[w] # <<>> => [inbox EXCEPT ![w] = Tail(@)] \in [Workers -> Seq(S)]
      /\ [inbox EXCEPT ![w] = <<>>] \in [Workers -> Seq(S)]
  BY <1>1, <1>2
<1> QED BY <1>3 DEF S, Asked

LEMMA OutboxGets ==
  ASSUME TypeOK, NEW w \in Workers
  PROVE  /\ \A m \in Messages : [outbox EXCEPT ![w] = Append(@, m)] \in [Workers -> Seq(Messages)]
         /\ outbox[w] # <<>> => [outbox EXCEPT ![w] = Tail(@)] \in [Workers -> Seq(Messages)]
         /\ [outbox EXCEPT ![w] = <<>>] \in [Workers -> Seq(Messages)]
<1>1. outbox \in [Workers -> Seq(Messages)]
  BY DEF TypeOK, ThreadsType
<1>2. /\ \A m \in Messages : Append(outbox[w], m) \in Seq(Messages)
      /\ outbox[w] # <<>> => Tail(outbox[w]) \in Seq(Messages)
      /\ <<>> \in Seq(Messages)
  BY <1>1
<1> QED BY <1>1, <1>2

\* A worker for which a record pays is one of those counted.
LEMMA InstanceType ==
  ASSUME TypeOK, StartsPaidFor, queue # <<>>
  PROVE  Instance \in Workers /\ (worker = None => started + 1 \in Workers)
<1>1. Len(queue) \in Nat /\ Len(queue) >= 1
  BY HeadTail DEF TypeOK, LaneType
<1> QED BY <1>1, RequestsAssumption, NoneAssumption DEF TypeOK, LaneType, StartsPaidFor, Instance, Workers

TypeInv == TypeOK /\ StartsPaidFor

LEMMA StartCloseType ==
  ASSUME TypeInv, NEW who \in {"caller", "retirement"}, StartClose(who),
         retirement' \in {"no", "waiting", "woken", "closing"}
  PROVE  TypeInv'
<1> USE RequestsAssumption, NoneAssumption DEF TypeInv
<1>1. inbox' \in [Workers -> Asked]
  <2>1. CASE UNCHANGED inbox
    BY <2>1 DEF TypeOK, ThreadsType, Asked
  <2>2. CASE worker # None /\ inbox' = [inbox EXCEPT ![worker] = Append(@, CloseId)]
    <3>1. worker \in Workers
      BY <2>2 DEF TypeOK, LaneType
    <3> QED BY <2>2, <3>1, InboxGets
  <2> QED BY <2>1, <2>2 DEF StartClose, AfterDrain
<1>2. LaneType'
  BY DEF StartClose, TypeOK, LaneType, lane, thread
<1>3. ShutdownType'
  BY DEF StartClose, AfterDrain, TypeOK, ShutdownType, ending
<1>4. ThreadsType'
  BY <1>1 DEF StartClose, TypeOK, ThreadsType, Asked
<1> QED BY <1>2, <1>3, <1>4 DEF TypeOK, StartClose, StartsPaidFor, lane, thread

LEMMA CallsType ==
  ASSUME TypeInv, Calls PROVE TypeInv'
<1> USE RequestsAssumption, NoneAssumption DEF TypeInv
<1>1. CASE Record
  <2>1. nextId \in Ids /\ nextId' = nextId + 1 /\ nextId' \in 1 .. MaxRequests + 1 /\ Len(queue) \in Nat
    BY <1>1 DEF Record, TypeOK, LaneType, Ids
  <2>2. Settled({nextId}, "refused") \in [Ids -> Results]
    BY SettledType DEF Results
  <2>3. Append(queue, nextId) \in Seq(Ids) /\ Len(Append(queue, nextId)) = Len(queue) + 1
    BY <2>1, Joined DEF TypeOK, LaneType
  <2>4. LaneType'
    BY <1>1, <2>1, <2>3 DEF Record, TypeOK, LaneType, thread
  <2>5. ShutdownType' /\ ThreadsType'
    BY <1>1, <2>2 DEF Record, TypeOK, ShutdownType, ThreadsType, ending, shutdown, threads
  <2>6. StartsPaidFor'
    BY <1>1, <2>1, <2>3 DEF Record, TypeOK, LaneType, StartsPaidFor, thread
  <2> QED BY <2>4, <2>5, <2>6 DEF TypeOK
<1>3. CASE Close
  BY <1>3, StartCloseType DEF Close, TypeOK, ShutdownType
<1>4. CASE RetireWhenIdle
  <2>1. CASE StartClose("retirement") /\ retirement' = "closing"
    BY <2>1, StartCloseType
  <2>2. CASE UNCHANGED <<lane, nextId, thread, ending, shutdown, pumpDue, threads, ledger, answer>>
             /\ retirement' \in {"waiting", "closing"}
    BY <2>2 DEF TypeOK, LaneType, ShutdownType, ThreadsType, StartsPaidFor, lane, thread, ending, shutdown, threads
  <2> QED BY <1>4, <2>1, <2>2 DEF RetireWhenIdle, CloseOrShare
<1> QED BY <1>1, <1>3, <1>4 DEF Calls

LEMMA UnheardType ==
  ASSUME TypeOK, NEW w \in Workers \union {None}, Unheard(w)
  PROVE  outbox' \in [Workers -> Seq(Messages)]
<1>1. CASE w = None
  BY <1>1 DEF Unheard, TypeOK, ThreadsType
<1>2. CASE w \in Workers /\ w # None
  BY <1>2, OutboxGets DEF Unheard
<1> QED BY <1>1, <1>2

LEMMA DisposeType ==
  ASSUME TypeOK, DisposeWorker
  PROVE  /\ worker' = None /\ workerReady' = FALSE /\ stopFailed' = stopFailed
         /\ terminations' \subseteq Workers /\ outbox' \in [Workers -> Seq(Messages)]
<1>1. worker \in Workers \union {None} /\ terminations \subseteq Workers
  BY DEF TypeOK, LaneType, ShutdownType
<1> QED BY <1>1, UnheardType DEF DisposeWorker

LEMMA FailEverythingType ==
  ASSUME TypeOK, NEW r \in Results, FailEverything(r)
  PROVE  /\ answer' \in [Ids -> Results] /\ queue' = <<>> /\ queue' \in Seq(Ids) /\ inFlight' = None
         /\ retirement' \in {"no", "waiting", "woken", "closing"}
<1>1. retirement' \in {"no", "waiting", "woken", "closing"}
  BY DEF FailEverything, NotifyIdle, TypeOK, ShutdownType
<1>2. <<>> \in Seq(Ids)
  OBVIOUS
<1> QED BY <1>1, <1>2, SettledType DEF FailEverything

\* The queue only gets shorter, or the source fallback pays for one more.
LEMMA EmptiedIsPaid ==
  ASSUME TypeInv, queue' = <<>>, UNCHANGED <<started, nextId>>, sourceFallbackUsed' \in BOOLEAN,
         sourceFallbackUsed => sourceFallbackUsed'
  PROVE  StartsPaidFor'
<1>1. Len(queue) \in Nat /\ started \in Nat /\ nextId \in Nat /\ Len(queue') = 0
  BY DEF TypeInv, TypeOK, LaneType
<1> QED BY <1>1 DEF TypeInv, StartsPaidFor

LEMMA ContinueType ==
  ASSUME TypeInv, Continue PROVE TypeInv'
<1> USE RequestsAssumption, NoneAssumption DEF TypeInv
<1>1. CASE PumpNothing
  <2>1. LaneType'
    BY <1>1 DEF PumpNothing, TypeOK, LaneType, lane, thread
  <2>2. ShutdownType'
    BY <1>1 DEF PumpNothing, NotifyIdle, TypeOK, ShutdownType, ending, shutdown
  <2>3. ThreadsType'
    BY <1>1 DEF PumpNothing, TypeOK, ThreadsType, threads
  <2> QED BY <1>1, <2>1, <2>2, <2>3 DEF PumpNothing, StartsPaidFor, lane, thread, TypeOK
<1>2. CASE PumpCannotStart
  <2>1. /\ answer' \in [Ids -> Results] /\ queue' = <<>> /\ queue' \in Seq(Ids) /\ inFlight' = None
        /\ retirement' \in {"no", "waiting", "woken", "closing"}
    BY <1>2, FailEverythingType DEF PumpCannotStart, Results
  <2>2. LaneType'
    BY <1>2, <2>1 DEF PumpCannotStart, TypeOK, LaneType
  <2>3. ShutdownType'
    BY <1>2, <2>1 DEF PumpCannotStart, TypeOK, ShutdownType, ending, shutdown
  <2>4. ThreadsType'
    BY <1>2, <2>1 DEF PumpCannotStart, TypeOK, ThreadsType, threads
  <2>5. StartsPaidFor'
    BY <1>2, <2>1, EmptiedIsPaid DEF PumpCannotStart
  <2> QED BY <2>2, <2>3, <2>4, <2>5 DEF TypeOK
<1>3. ASSUME queue # <<>>, queue' = Tail(queue), nextId' = nextId,
             NEW ready \in BOOLEAN, NEW fallback \in BOOLEAN, EnsureWorker(ready, fallback),
             sourceFallbackUsed' = fallback
      PROVE  /\ Instance \in Workers /\ queue' \in Seq(Ids) /\ Head(queue) \in Ids /\ StartsPaidFor'
             /\ started' \in 0 .. MaxRequests + 1
             /\ life' \in [Workers -> {"unborn", "starting", "running", "dead"}]
  <2>1. /\ Tail(queue) \in Seq(Ids) /\ Head(queue) \in Ids /\ Len(queue) \in Nat /\ Len(queue') = Len(queue) - 1
        /\ Len(queue) >= 1
    BY <1>3, HeadTail DEF TypeOK, LaneType
  <2>2. Instance \in Workers /\ (worker = None => started + 1 \in Workers)
    BY <1>3, InstanceType
  <2>3. started' \in 0 .. MaxRequests + 1
    BY <1>3, <2>2 DEF EnsureWorker, TypeOK, LaneType, Workers
  <2>4. life' \in [Workers -> {"unborn", "starting", "running", "dead"}]
    BY <1>3, <2>2 DEF EnsureWorker, TypeOK, ThreadsType
  <2>5. started' <= started + 1 /\ (sourceFallbackUsed => fallback) /\ started \in Nat /\ nextId \in Nat
        /\ started' \in Nat
    BY <1>3, <2>3 DEF EnsureWorker, TypeOK, LaneType
  <2>6. StartsPaidFor'
    BY <1>3, <2>1, <2>5 DEF StartsPaidFor
  <2> QED BY <1>3, <2>1, <2>2, <2>3, <2>4, <2>6
<1>4. CASE PumpSend
  <2>1. PICK ready \in BOOLEAN, fallback \in BOOLEAN :
           EnsureWorker(ready, fallback) /\ workerReady' = ready /\ sourceFallbackUsed' = fallback
    BY <1>4 DEF PumpSend
  <2>2. /\ Instance \in Workers /\ queue' \in Seq(Ids) /\ Head(queue) \in Ids /\ StartsPaidFor'
        /\ started' \in 0 .. MaxRequests + 1
        /\ life' \in [Workers -> {"unborn", "starting", "running", "dead"}]
    BY <1>3, <1>4, <2>1 DEF PumpSend
  <2>3. inbox' \in [Workers -> Asked]
    BY <1>4, <2>2, InboxGets DEF PumpSend
  <2>4. LaneType'
    BY <1>4, <2>1, <2>2 DEF PumpSend, TypeOK, LaneType
  <2>5. ShutdownType'
    BY <1>4 DEF PumpSend, TypeOK, ShutdownType, ending, shutdown
  <2>6. ThreadsType'
    BY <1>4, <2>2, <2>3 DEF PumpSend, TypeOK, ThreadsType, Asked
  <2> QED BY <2>2, <2>4, <2>5, <2>6 DEF TypeOK
<1>5. CASE PumpCannotPost
  <2>1. PICK ready \in BOOLEAN, fallback \in BOOLEAN :
           EnsureWorker(ready, fallback) /\ sourceFallbackUsed' = fallback
    BY <1>5 DEF PumpCannotPost
  <2>2. /\ Instance \in Workers /\ queue' \in Seq(Ids) /\ Head(queue) \in Ids /\ StartsPaidFor'
        /\ started' \in 0 .. MaxRequests + 1
        /\ life' \in [Workers -> {"unborn", "starting", "running", "dead"}]
    BY <1>3, <1>5, <2>1 DEF PumpCannotPost
  <2>3. answer' \in [Ids -> Results] /\ outbox' \in [Workers -> Seq(Messages)]
    BY <1>5, <2>2, SettledType, UnheardType DEF PumpCannotPost, Results
  <2>4. LaneType'
    BY <1>5, <2>1, <2>2 DEF PumpCannotPost, TypeOK, LaneType
  <2>5. ShutdownType'
    BY <1>5, <2>2 DEF PumpCannotPost, TypeOK, ShutdownType, shutdown
  <2>6. ThreadsType'
    BY <1>5, <2>2, <2>3 DEF PumpCannotPost, TypeOK, ThreadsType
  <2> QED BY <2>2, <2>4, <2>5, <2>6 DEF TypeOK
<1>6. CASE RetirementCloses
  <2>1. CASE StartClose("retirement") /\ retirement' = "closing"
    BY <2>1, StartCloseType
  <2>2. CASE UNCHANGED <<lane, nextId, thread, ending, shutdown, pumpDue, threads, ledger, answer>>
             /\ retirement' = "closing"
    BY <2>2 DEF TypeOK, LaneType, ShutdownType, ThreadsType, StartsPaidFor, lane, thread, ending, shutdown, threads
  <2> QED BY <1>6, <2>1, <2>2 DEF RetirementCloses, CloseOrShare
<1>7. CASE CloseAnswers
  BY <1>7 DEF CloseAnswers, TypeOK, LaneType, ShutdownType, ThreadsType, StartsPaidFor,
              lane, thread, ending, threads
<1> QED BY <1>1, <1>2, <1>4, <1>5, <1>6, <1>7 DEF Continue

\* A message of the present worker is taken off its outbox.
LEMMA HeardType ==
  ASSUME TypeOK, NEW w \in Workers, NEW kind, Heard(w, kind)
  PROVE  Head(outbox[w]) \in Messages /\ (Consume(w) => outbox' \in [Workers -> Seq(Messages)])
<1>1. outbox[w] \in Seq(Messages) /\ outbox[w] # <<>>
  BY DEF Heard, TypeOK, ThreadsType
<1> QED BY <1>1, OutboxGets, HeadTail DEF Consume

LEMMA EventsType ==
  ASSUME TypeInv, NEW w \in Workers, ReadyMessage(w) \/ ResultMessage(w) \/ ClosedMessage(w) \/ WorkerGone(w)
  PROVE  TypeInv'
<1> USE RequestsAssumption, NoneAssumption DEF TypeInv
<1>1. CASE ReadyMessage(w)
  <2>1. outbox' \in [Workers -> Seq(Messages)]
    BY <1>1, HeardType DEF ReadyMessage
  <2>2. LaneType' /\ StartsPaidFor'
    BY <1>1 DEF ReadyMessage, TypeOK, LaneType, StartsPaidFor, lane
  <2>3. ShutdownType'
    BY <1>1 DEF ReadyMessage, TypeOK, ShutdownType, ending, shutdown
  <2>4. ThreadsType'
    BY <1>1, <2>1 DEF ReadyMessage, TypeOK, ThreadsType
  <2> QED BY <2>2, <2>3, <2>4 DEF TypeOK
<1>2. CASE ResultMessage(w)
  <2>1. Head(outbox[w]) \in Messages /\ outbox' \in [Workers -> Seq(Messages)]
    BY <1>2, HeardType DEF ResultMessage
  <2>2. LaneType' /\ StartsPaidFor'
    BY <1>2 DEF ResultMessage, TypeOK, LaneType, StartsPaidFor, thread
  <2>3. ShutdownType'
    BY <1>2 DEF ResultMessage, TypeOK, ShutdownType, ending, shutdown
  <2>4. answer' \in [Ids -> Results]
    <3>1. CASE UNCHANGED answer
      BY <3>1 DEF TypeOK, ThreadsType
    <3>2. CASE answer' = Settled({inFlight}, Head(outbox[w]).result)
      <4>1. Head(outbox[w]).kind = "result" /\ Head(outbox[w]).id # CloseId
        BY <1>2 DEF ResultMessage, Heard
      <4>2. Head(outbox[w]).result \in Results
        BY <2>1, <4>1 DEF Messages, Results
      <4> QED BY <3>2, <4>2, SettledType
    <3> QED BY <1>2, <3>1, <3>2 DEF ResultMessage
  <2>5. ThreadsType'
    BY <1>2, <2>1, <2>4 DEF ResultMessage, TypeOK, ThreadsType
  <2> QED BY <2>2, <2>3, <2>5 DEF TypeOK
<1>3. CASE ClosedMessage(w)
  <2>1. /\ worker' = None /\ workerReady' = FALSE /\ stopFailed' = stopFailed
        /\ terminations' \subseteq Workers /\ outbox' \in [Workers -> Seq(Messages)]
    BY <1>3, DisposeType DEF ClosedMessage
  <2>2. LaneType' /\ StartsPaidFor'
    BY <1>3, <2>1 DEF ClosedMessage, TypeOK, LaneType, StartsPaidFor, lane
  <2>3. ShutdownType'
    BY <1>3, <2>1 DEF ClosedMessage, TypeOK, ShutdownType
  <2>4. ThreadsType'
    BY <1>3, <2>1 DEF ClosedMessage, TypeOK, ThreadsType
  <2> QED BY <2>2, <2>3, <2>4 DEF TypeOK
<1>4. CASE WorkerGone(w)
  <2>1. /\ worker' = None /\ workerReady' = FALSE /\ stopFailed' = stopFailed
        /\ terminations' \subseteq Workers /\ outbox' \in [Workers -> Seq(Messages)]
    BY <1>4, DisposeType DEF WorkerGone
  <2>2. CASE NeverLoaded /\ sourceFallbackUsed' = TRUE /\ queue' = Requeued /\ inFlight' = None
             /\ pumpDue' = TRUE /\ UNCHANGED <<answer, retirement>>
    <3>1. queue' \in Seq(Ids) /\ Len(queue') <= Len(queue) + 1 /\ Len(queue) \in Nat /\ Len(queue') \in Nat
      <4>1. CASE inFlight = None
        BY <2>2, <4>1 DEF Requeued, TypeOK, LaneType
      <4>2. CASE inFlight # None
        <5>1. inFlight \in Ids /\ queue \in Seq(Ids)
          BY <4>2 DEF TypeOK, LaneType
        <5> QED BY <2>2, <4>2, <5>1, PutFirst DEF Requeued
      <4> QED BY <4>1, <4>2
    <3>2. LaneType'
      BY <1>4, <2>1, <2>2, <3>1 DEF WorkerGone, TypeOK, LaneType
    <3>3. StartsPaidFor'
      BY <1>4, <2>2, <3>1 DEF WorkerGone, TypeOK, LaneType, StartsPaidFor, NeverLoaded
    <3>4. ShutdownType'
      BY <1>4, <2>1, <2>2 DEF WorkerGone, TypeOK, ShutdownType, shutdown
    <3>5. ThreadsType'
      BY <1>4, <2>1, <2>2 DEF WorkerGone, TypeOK, ThreadsType
    <3> QED BY <3>2, <3>3, <3>4, <3>5 DEF TypeOK
  <2>3. CASE FailEverything("refused") /\ UNCHANGED <<sourceFallbackUsed, pumpDue>>
    <3>1. /\ answer' \in [Ids -> Results] /\ queue' = <<>> /\ queue' \in Seq(Ids) /\ inFlight' = None
          /\ retirement' \in {"no", "waiting", "woken", "closing"}
      BY <2>3, FailEverythingType DEF Results
    <3>2. LaneType'
      BY <1>4, <2>1, <2>3, <3>1 DEF WorkerGone, TypeOK, LaneType
    <3>3. StartsPaidFor'
      BY <1>4, <2>3, <3>1, EmptiedIsPaid DEF WorkerGone, TypeOK, LaneType
    <3>4. ShutdownType'
      BY <1>4, <2>1, <3>1 DEF WorkerGone, TypeOK, ShutdownType, shutdown
    <3>5. ThreadsType'
      BY <1>4, <2>1, <3>1 DEF WorkerGone, TypeOK, ThreadsType
    <3> QED BY <3>2, <3>3, <3>4, <3>5 DEF TypeOK
  <2> QED BY <1>4, <2>2, <2>3 DEF WorkerGone
<1> QED BY <1>1, <1>2, <1>3, <1>4

LEMMA TimersType ==
  ASSUME TypeInv, Timers PROVE TypeInv'
<1> USE RequestsAssumption, NoneAssumption DEF TypeInv
<1>1. CASE RequestTimeout \/ DrainDeadline
  <2>1. /\ worker' = None /\ workerReady' = FALSE /\ stopFailed' = stopFailed
        /\ terminations' \subseteq Workers /\ outbox' \in [Workers -> Seq(Messages)]
    BY <1>1, DisposeType DEF RequestTimeout, DrainDeadline
  <2>2. /\ answer' \in [Ids -> Results] /\ queue' = <<>> /\ queue' \in Seq(Ids) /\ inFlight' = None
        /\ retirement' \in {"no", "waiting", "woken", "closing"}
    BY <1>1, FailEverythingType DEF RequestTimeout, DrainDeadline, Results
  <2>3. LaneType'
    BY <1>1, <2>1, <2>2 DEF RequestTimeout, DrainDeadline, TypeOK, LaneType
  <2>4. StartsPaidFor'
    BY <1>1, <2>2, EmptiedIsPaid DEF RequestTimeout, DrainDeadline, TypeOK, LaneType
  <2>5. ShutdownType'
    BY <1>1, <2>1, <2>2 DEF RequestTimeout, DrainDeadline, TypeOK, ShutdownType, shutdown
  <2>6. ThreadsType'
    BY <1>1, <2>1, <2>2 DEF RequestTimeout, DrainDeadline, TypeOK, ThreadsType
  <2> QED BY <2>3, <2>4, <2>5, <2>6 DEF TypeOK
<1>2. CASE DrainCheck
  <2>1. inbox' \in [Workers -> Asked]
    <3>1. CASE UNCHANGED inbox
      BY <3>1 DEF TypeOK, ThreadsType, Asked
    <3>2. CASE worker # None /\ inbox' = [inbox EXCEPT ![worker] = Append(@, CloseId)]
      <4>1. worker \in Workers
        BY <3>2 DEF TypeOK, LaneType
      <4> QED BY <3>2, <4>1, InboxGets
    <3> QED BY <1>2, <3>1, <3>2 DEF DrainCheck, AfterDrain
  <2>2. LaneType' /\ StartsPaidFor'
    BY <1>2 DEF DrainCheck, TypeOK, LaneType, StartsPaidFor, lane, thread
  <2>3. ShutdownType'
    BY <1>2 DEF DrainCheck, AfterDrain, TypeOK, ShutdownType, ending
  <2>4. ThreadsType'
    BY <1>2, <2>1 DEF DrainCheck, TypeOK, ThreadsType, Asked
  <2> QED BY <2>2, <2>3, <2>4 DEF TypeOK
<1>3. CASE AskDeadline
  <2>1. /\ worker' = None /\ workerReady' = FALSE /\ stopFailed' = stopFailed
        /\ terminations' \subseteq Workers /\ outbox' \in [Workers -> Seq(Messages)]
    BY <1>3, DisposeType DEF AskDeadline
  <2>2. LaneType' /\ StartsPaidFor'
    BY <1>3, <2>1 DEF AskDeadline, TypeOK, LaneType, StartsPaidFor, lane
  <2>3. ShutdownType'
    BY <1>3, <2>1 DEF AskDeadline, TypeOK, ShutdownType
  <2>4. ThreadsType'
    BY <1>3, <2>1 DEF AskDeadline, TypeOK, ThreadsType
  <2> QED BY <2>2, <2>3, <2>4 DEF TypeOK
<1> QED BY <1>1, <1>2, <1>3 DEF Timers

LEMMA ThreadType ==
  ASSUME TypeInv, NEW w \in Workers,
         Boot(w) \/ AppendRow(w) \/ Reply(w) \/ CloseDatabase(w) \/ Die(w) \/ Terminated(w)
  PROVE  TypeInv'
<1> USE RequestsAssumption, NoneAssumption DEF TypeInv
<1>1. LaneType' /\ StartsPaidFor'
  <2>1. UNCHANGED <<lane, nextId, thread, pumpDue>>
    BY DEF Boot, AppendRow, Reply, CloseDatabase, Die, Terminated, ThreadOnly
  <2> QED BY <2>1 DEF TypeOK, LaneType, StartsPaidFor, lane, thread
<1>2. ShutdownType'
  <2>1. UNCHANGED <<shutdown, retirement>>
    BY DEF Boot, AppendRow, Reply, CloseDatabase, Die, Terminated, ThreadOnly
  <2>2. terminations' \subseteq terminations /\ stopFailed' \in {stopFailed, TRUE}
    BY DEF Boot, AppendRow, Reply, CloseDatabase, Die, Terminated, ThreadOnly, ending
  <2> QED BY <2>1, <2>2 DEF TypeOK, ShutdownType, shutdown
<1>3. inbox[w] # <<>> => Head(inbox[w]) \in Ids \union {CloseId}
  <2>1. inbox[w] \in Seq(Ids \union {CloseId})
    BY DEF TypeOK, ThreadsType
  <2> QED BY <2>1, HeadTail
<1>4. inbox' \in [Workers -> Asked]
  <2>1. CASE UNCHANGED inbox
    BY <2>1 DEF TypeOK, ThreadsType, Asked
  <2>2. CASE inbox[w] # <<>> /\ Take(w)
    BY <2>2, InboxGets DEF Take
  <2>3. CASE Stops(w)
    BY <2>3, InboxGets DEF Stops
  <2> QED BY <2>1, <2>2, <2>3 DEF Boot, AppendRow, Reply, CloseDatabase, Die, Terminated, Working
<1>5. outbox' \in [Workers -> Seq(Messages)]
  <2>1. ASSUME NEW m \in Messages, Post(w, m) PROVE outbox' \in [Workers -> Seq(Messages)]
    BY <2>1, OutboxGets DEF Post, TypeOK, ThreadsType
  <2>2. CASE Boot(w)
    BY <2>1, <2>2 DEF Boot, Messages
  <2>3. CASE Reply(w)
    <3>1. PICK r \in Answers(w) : Post(w, [kind |-> "result", id |-> Head(inbox[w]), result |-> r])
      BY <2>3 DEF Reply
    <3>2. [kind |-> "result", id |-> Head(inbox[w]), result |-> r] \in Messages
      BY <1>3, <2>3 DEF Reply, Working, Answers, Messages
    <3> QED BY <2>1, <3>1, <3>2
  <2>4. CASE CloseDatabase(w)
    BY <2>1, <2>4 DEF CloseDatabase, Messages
  <2>5. CASE UNCHANGED outbox
    BY <2>5 DEF TypeOK, ThreadsType
  <2> QED BY <2>2, <2>3, <2>4, <2>5 DEF AppendRow, Die, Terminated
<1>6. ledger' \in Seq(Ids)
  <2>1. CASE AppendRow(w)
    <3>1. Head(inbox[w]) \in Ids /\ ledger' = Append(ledger, Head(inbox[w])) /\ ledger \in Seq(Ids)
      BY <1>3, <2>1 DEF AppendRow, Working, TypeOK, ThreadsType
    <3> QED BY <3>1, Joined
  <2>2. CASE UNCHANGED ledger
    BY <2>2 DEF TypeOK, ThreadsType
  <2> QED BY <2>1, <2>2 DEF Boot, Reply, CloseDatabase, Die, Terminated
<1>7. /\ life' \in [Workers -> {"unborn", "starting", "running", "dead"}]
      /\ appended' \in [Workers -> BOOLEAN] /\ answer' \in [Ids -> Results]
  BY DEF Boot, AppendRow, Reply, CloseDatabase, Die, Terminated, ThreadOnly, Stops, TypeOK, ThreadsType
<1>8. ThreadsType'
  BY <1>4, <1>5, <1>6, <1>7 DEF ThreadsType, Asked
<1> QED BY <1>1, <1>2, <1>8 DEF TypeOK

LEMMA InitType == Init => TypeInv
<1> SUFFICES ASSUME Init PROVE TypeInv
  OBVIOUS
<1>1. LaneType /\ StartsPaidFor
  <2>1. queue \in Seq(Ids) /\ Len(queue) = 0
    BY DEF Init
  <2>2. 1 \in 1 .. MaxRequests + 1 /\ 0 \in 0 .. MaxRequests + 1
    BY RequestsAssumption
  <2>3. LaneType
    BY <2>1, <2>2 DEF Init, LaneType
  <2> QED BY <2>1, <2>3 DEF Init, StartsPaidFor
<1>2. ShutdownType
  BY DEF Init, ShutdownType
<1>3. ThreadsType
  BY DEF Init, ThreadsType, Results
<1> QED BY <1>1, <1>2, <1>3 DEF TypeInv, TypeOK

LEMMA NextType == TypeInv /\ [Next]_vars => TypeInv'
<1> SUFFICES ASSUME TypeInv, [Next]_vars PROVE TypeInv'
  OBVIOUS
<1>1. CASE UNCHANGED vars
  BY <1>1 DEF vars, TypeInv, TypeOK, LaneType, ShutdownType, ThreadsType, StartsPaidFor,
              lane, thread, ending, shutdown, threads
<1>2. CASE Events
  BY <1>2, EventsType DEF Events
<1>3. CASE Thread \/ \E w \in Workers : Terminated(w)
  BY <1>3, ThreadType DEF Thread
<1> QED BY <1>1, <1>2, <1>3, CallsType, TimersType, ContinueType DEF Next
-----------------------------------------------------------------------------
(* The lane: its shutdown.                                                 *)

ShutdownInv == ShutdownPhases /\ WokenIsIdle /\ RetirementNeverCutsOff /\ DoneHasStopped
CutOff == \E i \in Ids : answer[i] = "cut off"

\* Nobody is cut off by being told anything else.
LEMMA NotCutOff ==
  ASSUME NEW ids, NEW r, r # "cut off", answer' = Settled(ids, r)
  PROVE  CutOff' => CutOff
BY DEF CutOff, Settled

LEMMA EmptyLaneRefused ==
  ASSUME FailEverything("refused") PROVE Idle' /\ (CutOff' => CutOff)
BY NotCutOff DEF FailEverything, Idle

LEMMA EmptyLane ==
  ASSUME NEW r, FailEverything(r)
  PROVE  Idle'
BY DEF FailEverything, Idle

LEMMA StartCloseShuts ==
  ASSUME TypeInv, ShutdownInv, NEW who \in {"caller", "retirement"}, StartClose(who),
         who = "retirement" => Idle, UNCHANGED retirement \/ retirement' = "closing"
  PROVE  ShutdownInv'
<1>1. closing = "no" /\ closed' = TRUE /\ closedBy' = who /\ (Idle' <=> Idle) /\ (CutOff' <=> CutOff)
      /\ UNCHANGED <<worker, terminations, verdict, stopFailed>>
  BY DEF StartClose, lane, thread, ending, Idle, CutOff
<1>2. \/ Idle /\ worker = None /\ closing' = "stopping"
      \/ Idle /\ closing' = "asking"
      \/ ~Idle /\ closing' = "draining"
  BY DEF StartClose, AfterDrain
<1>3. ~CutOff
  BY <1>1 DEF ShutdownInv, RetirementNeverCutsOff, ShutdownPhases, CutOff
<1>4. ShutdownPhases'
  BY <1>1, <1>2 DEF ShutdownPhases
<1>5. WokenIsIdle'
  BY <1>1 DEF ShutdownInv, WokenIsIdle
<1>6. RetirementNeverCutsOff'
  BY <1>1, <1>3 DEF RetirementNeverCutsOff, CutOff
<1> QED BY <1>1, <1>2, <1>4, <1>5, <1>6 DEF ShutdownInv, DoneHasStopped

\* A step that opens nothing and refuses nobody for the deadline.
LEMMA ShutStays ==
  ASSUME ShutdownInv, UNCHANGED shutdown, CutOff' => CutOff, 
         closing \in {"asking", "stopping", "done"} => Idle',
         closing \in {"stopping", "done"} => worker' = None,
         retirement' = "woken" => Idle',
         closing = "done" => UNCHANGED <<terminations, stopFailed>>
  PROVE  ShutdownInv'
<1>1. UNCHANGED <<closed, closing, verdict, closedBy>>
  BY DEF shutdown
<1>2. ShutdownPhases' /\ WokenIsIdle'
  BY <1>1 DEF ShutdownInv, ShutdownPhases, WokenIsIdle
<1>3. RetirementNeverCutsOff'
  BY <1>1 DEF ShutdownInv, RetirementNeverCutsOff, CutOff
<1> QED BY <1>1, <1>2, <1>3 DEF ShutdownInv, DoneHasStopped

LEMMA CallsShut ==
  ASSUME TypeInv, ShutdownInv, Calls PROVE ShutdownInv'
<1>1. CASE Record
  <2>1. CutOff' => CutOff
    BY <1>1, NotCutOff DEF Record, CutOff
  <2>2. UNCHANGED shutdown /\ UNCHANGED <<worker, terminations, stopFailed, retirement, inFlight>>
    BY <1>1 DEF Record, thread, ending
  <2>3. closing # "no" \/ retirement # "no" => UNCHANGED queue
    BY <1>1 DEF Record, Accepting, ShutdownInv, ShutdownPhases
  <2> QED BY <2>1, <2>2, <2>3, ShutStays DEF ShutdownInv, ShutdownPhases, WokenIsIdle, Idle
<1>2. CASE Close
  BY <1>2, StartCloseShuts DEF Close
<1>3. CASE RetireWhenIdle
  <2>1. CASE StartClose("retirement") /\ Idle /\ retirement' = "closing"
    BY <2>1, StartCloseShuts
  <2>2. CASE UNCHANGED <<lane, thread, ending, shutdown, answer>> /\ retirement' \in {"waiting", "closing"}
    BY <2>2, ShutStays DEF lane, thread, ending, ShutdownInv, ShutdownPhases, CutOff, Idle
  <2> QED BY <1>3, <2>1, <2>2 DEF RetireWhenIdle, CloseOrShare, MustWait
<1> QED BY <1>1, <1>2, <1>3 DEF Calls

LEMMA ContinueShuts ==
  ASSUME TypeInv, ShutdownInv, Continue PROVE ShutdownInv'
<1>1. CASE PumpNothing
  <2>1. UNCHANGED <<shutdown, answer, inFlight, queue, worker, terminations, stopFailed>>
    BY <1>1 DEF PumpNothing, lane, thread, ending
  <2>2. retirement' = "woken" => Idle' \/ retirement = "woken"
    BY <1>1 DEF PumpNothing, NotifyIdle, Idle
  <2> QED BY <2>1, <2>2, ShutStays DEF ShutdownInv, ShutdownPhases, WokenIsIdle, CutOff, Idle
<1>2. CASE PumpCannotStart
  <2>1. UNCHANGED <<shutdown, worker, terminations, stopFailed>> /\ FailEverything("refused")
    BY <1>2 DEF PumpCannotStart, ending
  <2> QED BY <2>1, EmptyLaneRefused, ShutStays DEF ShutdownInv, ShutdownPhases
<1>3. CASE PumpSend \/ PumpCannotPost
  <2>1. ~Idle /\ UNCHANGED <<shutdown, retirement>>
    BY <1>3 DEF PumpSend, PumpCannotPost, Idle
  <2>2. CutOff' => CutOff
    BY <1>3, NotCutOff DEF PumpSend, PumpCannotPost, CutOff
  <2> QED BY <2>1, <2>2, ShutStays DEF ShutdownInv, ShutdownPhases, WokenIsIdle
<1>4. CASE RetirementCloses
  <2>1. Idle
    BY <1>4 DEF RetirementCloses, ShutdownInv, WokenIsIdle
  <2>2. CASE StartClose("retirement")
    BY <1>4, <2>1, <2>2, StartCloseShuts DEF RetirementCloses
  <2>3. CASE UNCHANGED <<lane, thread, ending, shutdown, answer>>
    BY <1>4, <2>3, ShutStays DEF RetirementCloses, lane, thread, ending, ShutdownInv, ShutdownPhases, CutOff, Idle
  <2> QED BY <1>4, <2>2, <2>3 DEF RetirementCloses, CloseOrShare
<1>5. CASE CloseAnswers
  BY <1>5 DEF CloseAnswers, lane, thread, ending, ShutdownInv, ShutdownPhases, WokenIsIdle,
              RetirementNeverCutsOff, DoneHasStopped, Idle
<1> QED BY <1>1, <1>2, <1>3, <1>4, <1>5 DEF Continue

LEMMA EventsShut ==
  ASSUME TypeInv, ShutdownInv, NEW w \in Workers,
         ReadyMessage(w) \/ ResultMessage(w) \/ ClosedMessage(w) \/ WorkerGone(w)
  PROVE  ShutdownInv'
<1>1. worker = w /\ worker # None
  BY NoneAssumption DEF ReadyMessage, ResultMessage, ClosedMessage, WorkerGone, Heard, Workers
<1>2. closing \notin {"stopping", "done"}
  BY <1>1 DEF ShutdownInv, ShutdownPhases
<1>3. CASE ReadyMessage(w)
  BY <1>2, <1>3, ShutStays DEF ReadyMessage, lane, ShutdownInv, ShutdownPhases, WokenIsIdle, CutOff, Idle
<1>4. CASE ResultMessage(w)
  <2>1. UNCHANGED shutdown /\ UNCHANGED <<queue, retirement>> /\ (inFlight = None => inFlight' = None)
    BY <1>4 DEF ResultMessage
  <2>2. CutOff' => CutOff
    <3>1. CASE UNCHANGED answer
      BY <3>1 DEF CutOff
    <3>2. CASE answer' = Settled({inFlight}, Head(outbox[w]).result)
      <4>1. Head(outbox[w]) \in Messages
        BY <1>4, HeardType DEF ResultMessage, TypeInv
      <4>2. Head(outbox[w]).result # "cut off"
        BY <4>1 DEF Messages
      <4> QED BY <3>2, <4>2, NotCutOff
    <3> QED BY <1>4, <3>1, <3>2 DEF ResultMessage
  <2> QED BY <1>2, <2>1, <2>2, ShutStays DEF ShutdownInv, ShutdownPhases, WokenIsIdle, Idle
<1>5. CASE ClosedMessage(w)
  <2>1. /\ closing = "asking" /\ closing' = "stopping" /\ worker' = None
        /\ UNCHANGED <<queue, inFlight, closed, closedBy, retirement, answer>>
    BY <1>5 DEF ClosedMessage, DisposeWorker, lane
  <2> QED BY <2>1 DEF ShutdownInv, ShutdownPhases, WokenIsIdle, RetirementNeverCutsOff, DoneHasStopped, Idle
<1>6. CASE WorkerGone(w)
  <2>1. UNCHANGED shutdown /\ worker' = None
    BY <1>6 DEF WorkerGone, DisposeWorker
  <2>2. CASE queue' = Requeued /\ inFlight' = None /\ UNCHANGED <<answer, retirement>>
    <3>1. Idle => Idle'
      BY <2>2 DEF Idle, Requeued
    <3> QED BY <1>2, <2>1, <2>2, <3>1, ShutStays DEF ShutdownInv, ShutdownPhases, WokenIsIdle, CutOff
  <2>3. CASE FailEverything("refused")
    BY <1>2, <2>1, <2>3, EmptyLaneRefused, ShutStays
  <2> QED BY <1>6, <2>2, <2>3 DEF WorkerGone
<1> QED BY <1>3, <1>4, <1>5, <1>6

LEMMA TimersShut ==
  ASSUME TypeInv, ShutdownInv, Timers PROVE ShutdownInv'
<1>1. CASE RequestTimeout
  <2>1. ~Idle /\ UNCHANGED shutdown /\ FailEverything("refused")
    BY <1>1 DEF RequestTimeout, Idle
  <2> QED BY <2>1, EmptyLaneRefused, ShutStays DEF ShutdownInv, ShutdownPhases
<1>2. CASE DrainCheck
  <2>1. closing = "draining" /\ Idle /\ Idle' /\ UNCHANGED <<closed, closedBy, worker, retirement, answer>>
        /\ closing' \in {"stopping", "asking"} /\ (closing' = "stopping" => worker = None)
    BY <1>2 DEF DrainCheck, AfterDrain, lane, thread, Idle
  <2> QED BY <2>1 DEF ShutdownInv, ShutdownPhases, WokenIsIdle, RetirementNeverCutsOff, DoneHasStopped
<1>3. CASE DrainDeadline
  <2>1. closing = "draining" /\ closing' = "stopping" /\ worker' = None /\ Idle' /\ UNCHANGED <<closed, closedBy>>
    BY <1>3, EmptyLane DEF DrainDeadline, DisposeWorker
  <2> QED BY <2>1 DEF ShutdownInv, ShutdownPhases, WokenIsIdle, RetirementNeverCutsOff, DoneHasStopped
<1>4. CASE AskDeadline
  <2>1. closing = "asking" /\ closing' = "stopping" /\ worker' = None
        /\ UNCHANGED <<queue, inFlight, closed, closedBy, retirement, answer>>
    BY <1>4 DEF AskDeadline, DisposeWorker, lane
  <2> QED BY <2>1 DEF ShutdownInv, ShutdownPhases, WokenIsIdle, RetirementNeverCutsOff, DoneHasStopped, Idle
<1> QED BY <1>1, <1>2, <1>3, <1>4 DEF Timers

LEMMA ThreadShuts ==
  ASSUME TypeInv, ShutdownInv, NEW w \in Workers,
         Boot(w) \/ AppendRow(w) \/ Reply(w) \/ CloseDatabase(w) \/ Die(w) \/ Terminated(w)
  PROVE  ShutdownInv'
<1>1. UNCHANGED <<shutdown, queue, inFlight, retirement, answer, worker>>
  BY DEF Boot, AppendRow, Reply, CloseDatabase, Die, Terminated, ThreadOnly, lane, thread
<1>2. closing = "done" => UNCHANGED <<terminations, stopFailed>>
  BY DEF Boot, AppendRow, Reply, CloseDatabase, Die, Terminated, ThreadOnly, ending, ShutdownInv, DoneHasStopped
<1> QED BY <1>1, <1>2, ShutStays DEF ShutdownInv, ShutdownPhases, WokenIsIdle, CutOff, Idle

LEMMA NextShuts == TypeInv /\ ShutdownInv /\ [Next]_vars => ShutdownInv'
<1> SUFFICES ASSUME TypeInv, ShutdownInv, [Next]_vars PROVE ShutdownInv'
  OBVIOUS
<1>1. CASE UNCHANGED vars
  BY <1>1, ShutStays DEF vars, lane, thread, ending, ShutdownInv, ShutdownPhases, WokenIsIdle, CutOff, Idle
<1>2. CASE Events
  BY <1>2, EventsShut DEF Events
<1>3. CASE Thread \/ \E w \in Workers : Terminated(w)
  BY <1>3, ThreadShuts DEF Thread
<1> QED BY <1>1, <1>2, <1>3, CallsShut, TimersShut, ContinueShuts DEF Next
-----------------------------------------------------------------------------
(* The lane: its threads.                                                  *)

LivesInv == LivingIsKnown /\ BornWorkers

LEMMA LivesStay ==
  ASSUME LivesInv, UNCHANGED <<worker, started, terminations, stopFailed, life>>
  PROVE  LivesInv'
BY DEF LivesInv, LivingIsKnown, BornWorkers, Living

LEMMA DisposeLives ==
  ASSUME LivesInv, DisposeWorker, UNCHANGED <<started, life>>
  PROVE  LivesInv'
BY DEF DisposeWorker, LivesInv, LivingIsKnown, BornWorkers, Living

\* The worker that is posted to is born by then, and the only one born.
\* Only the worker to post to is touched, and it is among those started.
LEMMA EnsureTouches ==
  ASSUME TypeInv, LivesInv, queue # <<>>, NEW ready, NEW fallback, EnsureWorker(ready, fallback)
  PROVE  /\ Instance \in Workers /\ Instance <= started' /\ started <= started'
         /\ \A v \in Workers \ {Instance} : life'[v] = life[v]
         /\ \A v \in Workers : v > started' => v > started
<1>1. Instance \in Workers /\ (worker = None => started + 1 \in Workers)
  BY InstanceType DEF TypeInv
<1>2. started \in Nat /\ life \in [Workers -> {"unborn", "starting", "running", "dead"}]
      /\ \A v \in Workers : v \in Nat
  BY RequestsAssumption DEF TypeInv, TypeOK, LaneType, ThreadsType, Workers
<1>3. CASE worker # None
  BY <1>1, <1>2, <1>3 DEF EnsureWorker, Instance, LivesInv, BornWorkers
<1>4. CASE worker = None
  <2>1. started' = started + 1 /\ life' = [life EXCEPT ![started + 1] = "starting"] /\ Instance = started + 1
    BY <1>4 DEF EnsureWorker, Instance
  <2> QED BY <1>1, <1>2, <2>1
<1> QED BY <1>3, <1>4

LEMMA EnsureLives ==
  ASSUME TypeInv, LivesInv, queue # <<>>, NEW ready, NEW fallback, EnsureWorker(ready, fallback),
         UNCHANGED stopFailed,
         \/ worker' = Instance /\ UNCHANGED terminations
         \/ worker' = None /\ terminations' = terminations \union {Instance}
  PROVE  LivesInv'
<1>1. Instance \in Workers /\ (worker = None => started + 1 \in Workers)
  BY InstanceType DEF TypeInv
<1>2. started \in Nat /\ life \in [Workers -> {"unborn", "starting", "running", "dead"}]
      /\ terminations \subseteq Workers /\ \A v \in Workers : v \in Nat
  BY RequestsAssumption DEF TypeInv, TypeOK, LaneType, ShutdownType, ThreadsType, Workers
<1>3. CASE worker # None
  BY <1>1, <1>2, <1>3, NoneAssumption DEF EnsureWorker, Instance, LivesInv, LivingIsKnown, BornWorkers, Living
<1>4. CASE worker = None
  <2>1. started' = started + 1 /\ life' = [life EXCEPT ![started + 1] = "starting"] /\ Instance = started + 1
    BY <1>4 DEF EnsureWorker, Instance
  <2>2. LivingIsKnown'
    BY <1>1, <1>2, <1>4, <2>1, NoneAssumption DEF LivesInv, LivingIsKnown, Living
  <2>3. BornWorkers'
    <3>0. terminations' \subseteq terminations \union {started + 1}
      BY <2>1
    <3>1. \A v \in terminations' : v <= started + 1
      <4> TAKE v \in terminations'
      <4>1. CASE v = started + 1
        BY <1>2, <4>1
      <4>2. CASE v \in terminations
        BY <1>2, <4>2 DEF LivesInv, BornWorkers
      <4> QED BY <3>0, <4>1, <4>2
    <3>2. \A v \in Workers : v > started + 1 => life'[v] = "unborn"
      BY <1>1, <1>2, <2>1 DEF LivesInv, BornWorkers
    <3>3. worker' # None => worker' <= started + 1
      BY <1>2, <2>1
    <3> QED BY <2>1, <3>1, <3>2, <3>3 DEF BornWorkers
  <2> QED BY <1>1, <1>2, <2>1, <2>2, <2>3 DEF LivesInv
<1> QED BY <1>3, <1>4

LEMMA NextLives == TypeInv /\ LivesInv /\ [Next]_vars => LivesInv'
<1> SUFFICES ASSUME TypeInv, LivesInv, [Next]_vars PROVE LivesInv'
  OBVIOUS
<1>1. CASE UNCHANGED vars
  BY <1>1, LivesStay DEF vars, thread, ending, threads
<1>2. CASE Calls \/ RetirementCloses
  BY <1>2, LivesStay
     DEF Calls, Record, Close, RetireWhenIdle, RetirementCloses, CloseOrShare, StartClose, thread, ending, threads
<1>3. CASE PumpNothing \/ PumpCannotStart \/ CloseAnswers
  BY <1>3, LivesStay DEF PumpNothing, PumpCannotStart, CloseAnswers, thread, ending, threads
<1>4. CASE PumpSend \/ PumpCannotPost
  <2>1. PICK ready \in BOOLEAN, fallback \in BOOLEAN : EnsureWorker(ready, fallback)
    BY <1>4 DEF PumpSend, PumpCannotPost
  <2>2. queue # <<>> /\ UNCHANGED stopFailed
        /\ \/ worker' = Instance /\ UNCHANGED terminations
           \/ worker' = None /\ terminations' = terminations \union {Instance}
    BY <1>4 DEF PumpSend, PumpCannotPost, ending
  <2> QED BY <2>1, <2>2, EnsureLives
<1>5. CASE Timers
  BY <1>5, LivesStay, DisposeLives
     DEF Timers, RequestTimeout, DrainCheck, DrainDeadline, AskDeadline, thread, ending
<1>6. ASSUME NEW w \in Workers, ReadyMessage(w) \/ ResultMessage(w) \/ ClosedMessage(w) \/ WorkerGone(w)
      PROVE  LivesInv'
  BY <1>6, LivesStay, DisposeLives DEF ReadyMessage, ResultMessage, ClosedMessage, WorkerGone, thread, ending
<1>7. ASSUME NEW w \in Workers, AppendRow(w) \/ Reply(w) \/ CloseDatabase(w)
      PROVE  LivesInv'
  BY <1>7, LivesStay DEF AppendRow, Reply, CloseDatabase, ThreadOnly, thread, ending
<1>8. ASSUME NEW w \in Workers, Boot(w) \/ Die(w) \/ Terminated(w)
      PROVE  LivesInv'
  <2>1. life \in [Workers -> {"unborn", "starting", "running", "dead"}]
    BY DEF TypeInv, TypeOK, ThreadsType
  <2>2. CASE Boot(w) \/ Die(w)
    <3>1. \E l : life' = [life EXCEPT ![w] = l]
      BY <2>2 DEF Boot, Die, Stops
    <3>2. life[w] # "unborn" /\ Living(w) /\ UNCHANGED <<worker, started, terminations, stopFailed>>
      BY <2>2 DEF Boot, Die, ThreadOnly, thread, ending, Living
    <3> QED BY <2>1, <3>1, <3>2 DEF LivesInv, LivingIsKnown, BornWorkers, Living
  <2>3. CASE Terminated(w)
    <3>1. w \in terminations /\ terminations' = terminations \ {w} /\ UNCHANGED <<worker, started>>
      BY <2>3 DEF Terminated, thread
    <3>2. CASE life' = [life EXCEPT ![w] = "dead"] /\ UNCHANGED stopFailed
      <4>1. LivingIsKnown'
        <5> SUFFICES ASSUME NEW v \in Workers, Living(v)' PROVE (v = worker \/ v \in terminations \/ stopFailed)'
          BY DEF LivingIsKnown
        <5>1. v # w /\ Living(v)
          BY <2>1, <3>2 DEF Living
        <5> QED BY <3>1, <3>2, <5>1 DEF LivesInv, LivingIsKnown
      <4>2. BornWorkers'
        <5>1. started \in Nat /\ \A v \in Workers : v \in Nat
          BY RequestsAssumption DEF TypeInv, TypeOK, LaneType, Workers
        <5>2. \A v \in Workers : v > started => v # w
          BY <3>1, <5>1 DEF LivesInv, BornWorkers
        <5> QED BY <2>1, <3>1, <3>2, <5>2 DEF LivesInv, BornWorkers
      <4> QED BY <4>1, <4>2 DEF LivesInv
    <3>3. CASE stopFailed' = TRUE /\ UNCHANGED life
      BY <3>1, <3>3 DEF LivesInv, LivingIsKnown, BornWorkers, Living
    <3> QED BY <2>3, <3>2, <3>3 DEF Terminated, Stops
  <2> QED BY <1>8, <2>2, <2>3
<1> QED BY <1>1, <1>2, <1>3, <1>4, <1>5, <1>6, <1>7, <1>8 DEF Next, Continue, Events, Thread

LEMMA InitLane == Init => LaneInv
<1> SUFFICES ASSUME Init PROVE LaneInv
  OBVIOUS
<1>1. ShutdownInv /\ LivesInv
  BY NoneAssumption DEF Init, ShutdownInv, ShutdownPhases, WokenIsIdle, RetirementNeverCutsOff, DoneHasStopped,
                        LivesInv, LivingIsKnown, BornWorkers, Living, Idle
<1> QED BY <1>1, InitType DEF LaneInv, TypeInv, ShutdownInv, LivesInv

LEMMA NextLane == LaneInv /\ [Next]_vars => LaneInv'
BY NextType, NextShuts, NextLives DEF LaneInv, TypeInv, ShutdownInv, LivesInv
-----------------------------------------------------------------------------
(* What close() and retirement promise.                                    *)

\* What the lane keeps of itself and of its threads, in every reachable state:
\* see LaneInv.
THEOREM LaneCorrect == Spec => []LaneInv
BY InitLane, NextLane, PTL DEF Spec

\* The lane, its shutdown, the threads and the ledger are what the code makes
\* of them, for any number of records.
THEOREM TypeCorrect == Spec => []TypeOK
<1>1. LaneInv => TypeOK
  BY DEF LaneInv
<1> QED BY <1>1, LaneCorrect, PTL

\* A close that answers ok left no thread that could still write, whatever
\* workers were replaced, timed out or could not be stopped before.
THEOREM CloseCorrect == Spec => []CloseTruth
<1>1. LaneInv => CloseTruth
  BY NoneAssumption DEF LaneInv, CloseTruth, ShutdownPhases, DoneHasStopped, LivingIsKnown, Workers
<1> QED BY <1>1, LaneCorrect, PTL

\* Whoever closes the lane, only a caller's close cuts a request off.
THEOREM RetirementCorrect == Spec => []RetirementNeverCutsOff
<1>1. LaneInv => RetirementNeverCutsOff
  BY DEF LaneInv
<1> QED BY <1>1, LaneCorrect, PTL
-----------------------------------------------------------------------------
(* Messages under way.                                                     *)

Facts == LaneInv /\ PostInv

\* Nothing moves between the lane and its threads.
LEMMA PostStays ==
  ASSUME PostInv, UNCHANGED <<worker, workerReady, started, life, inbox, appended, outbox, inFlight>>,
         closing' = closing \/ (closing # "asking" /\ closing' # "asking")
  PROVE  PostInv'
<1>1. OneAsked' /\ SlotHasWorker'
  BY DEF PostInv, OneAsked, SlotHasWorker
<1>2. AskedNow' /\ AnswerWaiting'
  BY DEF PostInv, AskedNow, AnswerWaiting
<1> QED BY <1>1, <1>2 DEF PostInv

\* Without a worker nothing is asked and nobody answers.
LEMMA WorkerLeaves ==
  ASSUME PostInv, worker' = None, inFlight' = None, UNCHANGED <<inbox, appended>>,
         \A w \in Workers : outbox'[w] = <<>> /\ (appended[w] => life'[w] = life[w]),
         \A w \in Workers : w > started' => w > started
  PROVE  PostInv'
<1>1. OneAsked'
  BY DEF PostInv, OneAsked
<1> QED BY <1>1 DEF PostInv, AskedNow, AnswerWaiting, SlotHasWorker

LEMMA DisposeEmpties ==
  ASSUME TypeOK, OneAsked, DisposeWorker
  PROVE  worker' = None /\ \A w \in Workers : outbox'[w] = <<>>
<1>1. outbox \in [Workers -> Seq(Messages)] /\ \A w \in Workers : w # worker => outbox[w] = <<>>
  BY DEF TypeOK, ThreadsType, OneAsked
<1>2. worker' = None /\ outbox' = IF worker = None THEN outbox ELSE [outbox EXCEPT ![worker] = <<>>]
  BY DEF DisposeWorker, Unheard
<1>3. \A w \in Workers : w # None
  BY NoneAssumption DEF Workers
<1>4. ASSUME NEW w \in Workers PROVE outbox'[w] = <<>>
  <2>1. CASE w = worker
    BY <1>1, <1>2, <1>3, <2>1
  <2>2. CASE w # worker
    BY <1>1, <1>2, <2>2
  <2> QED BY <2>1, <2>2
<1> QED BY <1>2, <1>4

\* An idle worker has nothing before it and nothing to say but that it is ready.
LEMMA IdleWorker ==
  ASSUME Facts, worker # None, inFlight = None, closing # "asking"
  PROVE  /\ worker \in Workers /\ inbox[worker] = <<>>
         /\ \A k \in DOMAIN outbox[worker] : ~IsResult(outbox[worker][k])
<1>1. worker \in Workers /\ outbox[worker] \in Seq(Messages)
  BY DEF Facts, LaneInv, TypeOK, LaneType, ThreadsType
<1>2. inbox[worker] = <<>>
  BY DEF Facts, PostInv, AskedNow
<1>3. ASSUME NEW k \in DOMAIN outbox[worker], IsResult(outbox[worker][k]) PROVE FALSE
  <2>1. outbox[worker][k].id = None
    BY <1>3 DEF Facts, PostInv, AnswerWaiting
  <2>2. outbox[worker][k] \in Messages
    BY <1>1, <1>3
  <2>3. outbox[worker][k].id \in Nat
    BY <2>2, RequestsAssumption DEF Messages, Ids, CloseId
  <2> QED BY <2>1, <2>3, NoneAssumption
<1> QED BY <1>1, <1>2, <1>3

\* The present worker is asked for the close, and for nothing else.
LEMMA AsksClose ==
  ASSUME Facts, worker # None, inFlight = None, closing # "asking", closing' = "asking",
         inbox' = [inbox EXCEPT ![worker] = Append(@, CloseId)],
         UNCHANGED <<worker, workerReady, started, life, appended, outbox, inFlight>>
  PROVE  PostInv'
<1>1. /\ worker \in Workers /\ inbox[worker] = <<>>
      /\ \A k \in DOMAIN outbox[worker] : ~IsResult(outbox[worker][k])
  BY IdleWorker
<1>2. /\ inbox \in [Workers -> Asked] /\ worker <= started /\ started \in Nat /\ worker \in Nat
  BY <1>1, RequestsAssumption DEF Facts, LaneInv, TypeOK, LaneType, ThreadsType, Asked, BornWorkers, Workers
<1>3. inbox'[worker] = <<CloseId>> /\ \A w \in Workers : w # worker => inbox'[w] = inbox[w]
  BY <1>1, <1>2
<1>4. OneAsked'
  <2> SUFFICES ASSUME NEW w \in Workers
               PROVE  /\ inbox'[w] = <<>> \/ \E i \in Ids \union {CloseId} : inbox'[w] = <<i>>
                      /\ w > started => inbox'[w] = <<>> /\ ~appended[w]
                      /\ w # worker => outbox[w] = <<>>
                      /\ appended[w] => life[w] = "running" /\ \E i \in Ids : inbox'[w] = <<i>>
    BY DEF OneAsked
  <2>1. CASE w = worker
    BY <1>1, <1>2, <1>3, <2>1 DEF Facts, PostInv, OneAsked
  <2>2. CASE w # worker
    BY <1>3, <2>2 DEF Facts, PostInv, OneAsked
  <2> QED BY <2>1, <2>2
<1>5. AskedNow'
  BY <1>3 DEF Facts, PostInv, AskedNow
<1>6. AnswerWaiting'
  BY <1>1 DEF AnswerWaiting, IsResult
<1> QED BY <1>4, <1>5, <1>6 DEF PostInv, SlotHasWorker

LEMMA AfterDrainPosts ==
  ASSUME Facts, Idle, AfterDrain, closing # "asking",
         UNCHANGED <<worker, workerReady, started, life, appended, outbox, inFlight>>
  PROVE  PostInv'
<1>1. CASE worker = None
  BY <1>1, PostStays DEF AfterDrain, Facts
<1>2. CASE worker # None
  BY <1>2, AsksClose DEF AfterDrain, Idle
<1> QED BY <1>1, <1>2

LEMMA StartClosePosts ==
  ASSUME Facts, NEW who, StartClose(who)
  PROVE  PostInv'
<1>1. UNCHANGED <<worker, workerReady, started, life, appended, outbox, inFlight>> /\ closing = "no"
  BY DEF StartClose, lane, thread
<1>2. CASE Idle
  BY <1>1, <1>2, AfterDrainPosts DEF StartClose
<1>3. CASE ~Idle
  BY <1>1, <1>3, PostStays DEF StartClose, Facts
<1> QED BY <1>2, <1>3

LEMMA CallsPost ==
  ASSUME Facts, Calls \/ RetirementCloses
  PROVE  PostInv'
<1>1. CASE Record
  BY <1>1, PostStays DEF Record, thread, threads, shutdown, Facts
<1>2. CASE \E who : StartClose(who)
  BY <1>2, StartClosePosts
<1>3. CASE UNCHANGED <<lane, nextId, thread, ending, shutdown, pumpDue, threads, ledger, answer>>
  BY <1>3, PostStays DEF lane, thread, threads, shutdown, Facts
<1> QED BY <1>1, <1>2, <1>3 DEF Calls, Close, RetireWhenIdle, RetirementCloses, CloseOrShare

\* The head of the queue is all that is before the worker it is posted to,
\* which has no answer waiting.
LEMMA SendGives ==
  ASSUME Facts, PumpSend
  PROVE  /\ Instance \in Workers /\ Instance <= started' /\ worker' = Instance
         /\ \A w \in Workers \ {Instance} : life'[w] = life[w] /\ inbox'[w] = inbox[w]
         /\ \A w \in Workers : w > started' => w > started
         /\ inFlight = None /\ Head(queue) \in Ids /\ inFlight' = Head(queue)
         /\ inbox[Instance] = <<>> /\ inbox'[Instance] = <<Head(queue)>> /\ appended[Instance] = FALSE
         /\ \A k \in DOMAIN outbox[Instance] : ~IsResult(outbox[Instance][k])
         /\ life'[Instance] = "starting" => ~workerReady' /\ outbox[Instance] = <<>>
         /\ worker # None => Instance = worker /\ UNCHANGED <<life, workerReady>>
         /\ worker = None => life'[Instance] = "starting" /\ outbox[Instance] = <<>>
         /\ UNCHANGED <<appended, outbox, closing>>
<1>1. PICK ready \in BOOLEAN, fallback \in BOOLEAN : EnsureWorker(ready, fallback) /\ workerReady' = ready
  BY DEF PumpSend
<1> DEFINE v == Instance
           i == Head(queue)
<1>2. /\ inFlight = None /\ inFlight' = i /\ worker' = v /\ inbox' = [inbox EXCEPT ![v] = Append(@, i)]
      /\ UNCHANGED <<appended, outbox, closing, terminations, stopFailed>> /\ queue # <<>>
  BY DEF PumpSend, shutdown, ending
<1>3. /\ v \in Workers /\ v <= started' /\ started <= started'
      /\ \A w \in Workers \ {v} : life'[w] = life[w]
      /\ \A w \in Workers : w > started' => w > started
  <2>1. TypeInv /\ LivesInv
    BY DEF Facts, LaneInv, TypeInv, LivesInv
  <2>2. EnsureWorker(ready, fallback) /\ queue # <<>>
    BY <1>1, <1>2
  <2>3. /\ Instance \in Workers /\ Instance <= started' /\ started <= started'
        /\ \A w \in Workers \ {Instance} : life'[w] = life[w]
        /\ \A w \in Workers : w > started' => w > started
    BY <2>1, <2>2, EnsureTouches
  <2> QED BY <2>3
<1>4. i \in Ids /\ closing # "asking" /\ started \in Nat /\ started' \in Nat /\ v \in Nat
  <2>1. i \in Ids
    BY <1>2, HeadTail DEF Facts, LaneInv, TypeOK, LaneType
  <2>2. closing # "asking"
    BY <1>2 DEF Facts, LaneInv, ShutdownPhases, Idle
  <2>3. started \in Nat /\ v \in Nat
    BY <1>3, RequestsAssumption DEF Facts, LaneInv, TypeOK, LaneType, Workers
  <2>4. started' \in Nat
    BY <1>1, <2>3 DEF EnsureWorker
  <2> QED BY <2>1, <2>2, <2>3, <2>4
<1>5. /\ inbox[v] = <<>> /\ \A k \in DOMAIN outbox[v] : ~IsResult(outbox[v][k])
      /\ life'[v] = "starting" => ~workerReady' /\ outbox[v] = <<>>
      /\ appended[v] = FALSE
      /\ worker # None => v = worker /\ UNCHANGED <<life, workerReady>>
      /\ worker = None => life'[v] = "starting" /\ outbox[v] = <<>>
  <2>1. CASE worker # None
    <3>1. v = worker /\ workerReady' = workerReady /\ life' = life
      BY <1>1, <2>1 DEF EnsureWorker, Instance
    <3>2. inbox[v] = <<>> /\ \A k \in DOMAIN outbox[v] : ~IsResult(outbox[v][k])
      BY <1>2, <1>4, <2>1, <3>1, IdleWorker
    <3>3. appended[v] = FALSE
      <4>1. appended[v] \in BOOLEAN
        BY <1>3 DEF Facts, LaneInv, TypeOK, ThreadsType
      <4>2. ~appended[v]
        BY <1>3, <3>2 DEF Facts, PostInv, OneAsked
      <4> QED BY <4>1, <4>2
    <3>4. life'[v] = "starting" => ~workerReady' /\ outbox[v] = <<>>
      BY <2>1, <3>1 DEF Facts, PostInv, AskedNow
    <3> QED BY <2>1, <3>1, <3>2, <3>3, <3>4
  <2>2. CASE worker = None
    <3>1. v = started + 1 /\ workerReady' = FALSE /\ v > started
      BY <1>1, <1>4, <2>2 DEF EnsureWorker, Instance
    <3>2. v # None
      BY <1>4, NoneAssumption
    <3>3. inbox[v] = <<>> /\ ~appended[v] /\ outbox[v] = <<>>
      BY <1>3, <2>2, <3>1, <3>2 DEF Facts, PostInv, OneAsked
    <3>4. appended[v] \in BOOLEAN /\ life \in [Workers -> {"unborn", "starting", "running", "dead"}]
      BY <1>3 DEF Facts, LaneInv, TypeOK, ThreadsType
    <3>5. life'[v] = "starting"
      BY <1>1, <1>3, <2>2, <3>1, <3>4 DEF EnsureWorker
    <3> QED BY <2>2, <3>1, <3>3, <3>4, <3>5
  <2> QED BY <2>1, <2>2
<1>6. inbox'[v] = <<i>> /\ \A w \in Workers \ {v} : inbox'[w] = inbox[w]
  BY <1>2, <1>3, <1>5 DEF Facts, LaneInv, TypeOK, ThreadsType
<1> QED BY <1>2, <1>3, <1>4, <1>5, <1>6

LEMMA SendPosts ==
  ASSUME Facts, PumpSend
  PROVE  PostInv'
<1> DEFINE v == Instance
           i == Head(queue)
<1>1. /\ v \in Workers /\ v <= started' /\ worker' = v
      /\ \A w \in Workers \ {v} : life'[w] = life[w] /\ inbox'[w] = inbox[w]
      /\ \A w \in Workers : w > started' => w > started
      /\ i \in Ids /\ inFlight' = i
      /\ inbox'[v] = <<i>> /\ appended[v] = FALSE
      /\ \A k \in DOMAIN outbox[v] : ~IsResult(outbox[v][k])
      /\ life'[v] = "starting" => ~workerReady' /\ outbox[v] = <<>>
      /\ UNCHANGED <<appended, outbox, closing>>
  BY SendGives
<1>2. started' \in Nat /\ v \in Nat /\ ~(v > started')
  <2>1. v \in Nat
    BY <1>1, RequestsAssumption DEF Workers
  <2>2. started \in Nat
    BY DEF Facts, LaneInv, TypeOK, LaneType
  <2>3. started' \in Nat
    BY <2>2 DEF PumpSend, EnsureWorker
  <2> QED BY <1>1, <2>1, <2>3
<1> HIDE DEF v, i
<1>3. OneAsked'
  <2> SUFFICES ASSUME NEW w \in Workers
               PROVE  /\ inbox'[w] = <<>> \/ \E j \in Ids \union {CloseId} : inbox'[w] = <<j>>
                      /\ w > started' => inbox'[w] = <<>> /\ ~appended[w]
                      /\ w # v => outbox[w] = <<>>
                      /\ appended[w] => life'[w] = "running" /\ \E j \in Ids : inbox'[w] = <<j>>
    BY <1>1 DEF OneAsked
  <2>1. CASE w = v
    BY <1>1, <1>2, <2>1
  <2>2. CASE w # v
    <3>1. w # worker
      <4>1. w # None
        BY NoneAssumption DEF Workers
      <4> QED BY <2>2, <4>1 DEF v, Instance
    <3> QED BY <1>1, <2>2, <3>1 DEF Facts, PostInv, OneAsked
  <2> QED BY <2>1, <2>2
<1>4. AskedNow' /\ SlotHasWorker'
  BY <1>1, NoneAssumption, RequestsAssumption DEF AskedNow, SlotHasWorker, Ids, Workers
<1>5. AnswerWaiting'
  BY <1>1 DEF AnswerWaiting, IsResult
<1> QED BY <1>3, <1>4, <1>5 DEF PostInv

LEMMA ContinuePosts ==
  ASSUME Facts, Continue
  PROVE  PostInv'
<1>1. CASE PumpNothing
  BY <1>1, PostStays DEF PumpNothing, lane, thread, threads, shutdown, Facts
<1>2. CASE PumpSend
  BY <1>2, SendPosts
<1>3. CASE RetirementCloses
  BY <1>3, CallsPost
<1>4. CASE CloseAnswers
  BY <1>4, PostStays DEF CloseAnswers, lane, thread, threads, Facts
<1>5. CASE PumpCannotStart
  <2>1. worker = None /\ UNCHANGED <<worker, started, life, inbox, appended, outbox>> /\ inFlight' = None
    BY <1>5 DEF PumpCannotStart, FailEverything, threads
  <2>2. \A w \in Workers : outbox[w] = <<>>
    <3>1. \A w \in Workers : w # None
      BY NoneAssumption DEF Workers
    <3> QED BY <2>1, <3>1 DEF Facts, PostInv, OneAsked
  <2> QED BY <2>1, <2>2, WorkerLeaves DEF Facts
<1>6. CASE PumpCannotPost
  <2>1. PICK ready \in BOOLEAN, fallback \in BOOLEAN : EnsureWorker(ready, fallback)
    BY <1>6 DEF PumpCannotPost
  <2>2. queue # <<>> /\ inFlight = None /\ worker' = None /\ Unheard(Instance) /\ UNCHANGED <<inFlight, inbox, appended>>
    BY <1>6 DEF PumpCannotPost
  <2>3. TypeInv /\ LivesInv
    BY DEF Facts, LaneInv, TypeInv, LivesInv
  <2>4. /\ Instance \in Workers /\ \A v \in Workers \ {Instance} : life'[v] = life[v]
        /\ \A v \in Workers : v > started' => v > started
    BY <2>1, <2>2, <2>3, EnsureTouches
  <2>5. Instance # None /\ outbox' = [outbox EXCEPT ![Instance] = <<>>]
    BY <2>2, <2>4, NoneAssumption DEF Workers, Unheard
  <2>6. \A v \in Workers : outbox'[v] = <<>>
    <3>1. outbox \in [Workers -> Seq(Messages)]
      BY DEF Facts, LaneInv, TypeOK, ThreadsType
    <3>2. ASSUME NEW v \in Workers, v # Instance PROVE outbox[v] = <<>>
      <4>1. v # worker
        BY <3>2, NoneAssumption DEF Workers, Instance
      <4> QED BY <4>1 DEF Facts, PostInv, OneAsked
    <3> QED BY <2>4, <2>5, <3>1, <3>2
  <2>7. appended[Instance] => life' = life
    <3>1. CASE worker # None
      BY <2>1, <3>1 DEF EnsureWorker
    <3>2. CASE worker = None
      <4>1. Instance > started
        BY <3>2 DEF Instance, Facts, LaneInv, TypeOK, LaneType
      <4> QED BY <2>4, <4>1 DEF Facts, PostInv, OneAsked
    <3> QED BY <3>1, <3>2
  <2> QED BY <2>2, <2>4, <2>6, <2>7, WorkerLeaves DEF Facts
<1> QED BY <1>1, <1>2, <1>3, <1>4, <1>5, <1>6 DEF Continue

\* Whatever ends the worker while the slot is emptied.
LEMMA DisposePosts ==
  ASSUME Facts, DisposeWorker, inFlight' = None, UNCHANGED <<started, life, inbox, appended>>
  PROVE  PostInv'
<1>1. worker' = None /\ \A w \in Workers : outbox'[w] = <<>>
  BY DisposeEmpties DEF Facts, LaneInv, PostInv
<1> QED BY <1>1, WorkerLeaves DEF Facts

LEMMA TimersPost ==
  ASSUME Facts, Timers
  PROVE  PostInv'
<1>1. CASE RequestTimeout
  BY <1>1, DisposePosts DEF RequestTimeout, FailEverything
<1>2. CASE DrainDeadline
  BY <1>2, DisposePosts DEF DrainDeadline, FailEverything
<1>3. CASE AskDeadline
  <2>1. inFlight = None
    BY <1>3 DEF AskDeadline, Facts, LaneInv, ShutdownPhases, Idle
  <2> QED BY <1>3, <2>1, DisposePosts DEF AskDeadline, lane
<1>4. CASE DrainCheck
  BY <1>4, AfterDrainPosts DEF DrainCheck, lane, thread
<1> QED BY <1>1, <1>2, <1>3, <1>4 DEF Timers

\* A result that is heard is the answer to what was asked, and the only message.
LEMMA HeardResult ==
  ASSUME Facts, NEW w \in Workers, Heard(w, "result")
  PROVE  /\ worker = w /\ inbox[w] = <<>> /\ Tail(outbox[w]) = <<>> /\ life[w] # "starting"
         /\ outbox[w] \in Seq(Messages) /\ outbox[w] # <<>> /\ Head(outbox[w]) = outbox[w][1] /\ 1 \in DOMAIN outbox[w]
         /\ \/ /\ Head(outbox[w]).id = inFlight
               /\ Head(outbox[w]).result \in {"recorded", "refused"}
            \/ Head(outbox[w]).id = CloseId /\ closing = "asking"
<1>1. worker = w /\ outbox[w] # <<>> /\ outbox[w] \in Seq(Messages) /\ w # None
  BY NoneAssumption DEF Heard, Facts, LaneInv, TypeOK, ThreadsType, Workers
<1>2. Head(outbox[w]) = outbox[w][1] /\ 1 \in DOMAIN outbox[w]
  BY <1>1
<1>3. IsResult(outbox[w][1])
  BY <1>2 DEF Heard, IsResult
<1>4. /\ 1 = Len(outbox[w]) /\ inbox[w] = <<>>
      /\ \/ /\ Head(outbox[w]).id = inFlight
            /\ Head(outbox[w]).result \in {"recorded", "refused"}
         \/ Head(outbox[w]).id = CloseId /\ closing = "asking"
  BY <1>1, <1>2, <1>3 DEF Facts, PostInv, AnswerWaiting
<1>5. Tail(outbox[w]) = <<>>
  <2> DEFINE t == Tail(outbox[w])
  <2>1. t \in Seq(Messages) /\ Len(t) = 0
    BY <1>1, <1>4
  <2> HIDE DEF t
  <2>2. t = <<>>
    BY <2>1
  <2> QED BY <2>2 DEF t
<1>6. life[w] # "starting"
  BY <1>1 DEF Facts, PostInv, AskedNow
<1> QED BY <1>1, <1>2, <1>4, <1>5, <1>6

LEMMA EventsPost ==
  ASSUME Facts, NEW w \in Workers, ReadyMessage(w) \/ ResultMessage(w) \/ ClosedMessage(w) \/ WorkerGone(w)
  PROVE  PostInv'
<1>0. outbox \in [Workers -> Seq(Messages)] /\ w # None
  BY NoneAssumption DEF Facts, LaneInv, TypeOK, ThreadsType, Workers
<1>1. CASE ReadyMessage(w)
  <2>1. /\ worker = w /\ outbox[w] # <<>> /\ outbox' = [outbox EXCEPT ![w] = Tail(@)]
        /\ UNCHANGED <<worker, started, inFlight, life, inbox, appended, closing>>
    BY <1>1 DEF ReadyMessage, Heard, Consume, lane, thread, shutdown
  <2>2. OneAsked' /\ SlotHasWorker'
    BY <1>0, <2>1 DEF Facts, PostInv, OneAsked, SlotHasWorker
  <2>3. AskedNow'
    BY <1>0, <2>1 DEF Facts, PostInv, AskedNow
  <2>4. AnswerWaiting'
    <3> DEFINE q == outbox[w]
    <3>1. /\ q \in Seq(Messages) /\ q # <<>> /\ outbox'[w] = Tail(q)
      BY <1>0, <2>1
    <3>2. /\ Len(Tail(q)) = Len(q) - 1 /\ Len(q) \in Nat
          /\ \A k \in DOMAIN Tail(q) : k \in Nat /\ k + 1 \in DOMAIN q /\ Tail(q)[k] = q[k + 1]
      BY <3>1
    <3>3. \A k \in DOMAIN q : IsResult(q[k]) =>
            /\ k = Len(q) /\ inbox[w] = <<>>
            /\ \/ /\ q[k].id = inFlight /\ q[k].result \in {"recorded", "refused"}
               \/ q[k].id = CloseId /\ closing = "asking"
      BY <1>0, <2>1 DEF Facts, PostInv, AnswerWaiting
    <3> HIDE DEF q
    <3>4. \A k \in DOMAIN Tail(q) : IsResult(Tail(q)[k]) =>
            /\ k = Len(Tail(q)) /\ inbox[w] = <<>>
            /\ \/ /\ Tail(q)[k].id = inFlight /\ Tail(q)[k].result \in {"recorded", "refused"}
               \/ Tail(q)[k].id = CloseId /\ closing = "asking"
      BY <3>2, <3>3
    <3> QED BY <2>1, <3>1, <3>4 DEF AnswerWaiting, IsResult
  <2> QED BY <2>2, <2>3, <2>4 DEF PostInv
<1>2. CASE ResultMessage(w)
  <2>1. /\ worker = w /\ inbox[w] = <<>> /\ Tail(outbox[w]) = <<>> /\ life[w] # "starting"
        /\ \/ Head(outbox[w]).id = inFlight
           \/ Head(outbox[w]).id = CloseId /\ closing = "asking"
    BY <1>2, HeardResult DEF ResultMessage
  <2>2. /\ outbox' = [outbox EXCEPT ![w] = Tail(@)] /\ inFlight' = None
        /\ UNCHANGED <<worker, workerReady, started, life, inbox, appended, closing>>
    BY <1>2, <2>1 DEF ResultMessage, Consume, thread, shutdown
  <2>3. outbox'[w] = <<>> /\ \A v \in Workers \ {w} : outbox'[v] = outbox[v]
    BY <1>0, <2>1, <2>2
  <2>4. OneAsked'
    BY <2>1, <2>2, <2>3 DEF Facts, PostInv, OneAsked
  <2>5. AskedNow' /\ SlotHasWorker' /\ AnswerWaiting'
    BY <2>1, <2>2, <2>3 DEF AskedNow, SlotHasWorker, AnswerWaiting
  <2> QED BY <2>4, <2>5 DEF PostInv
<1>3. CASE ClosedMessage(w)
  <2>1. inFlight = None
    BY <1>3 DEF ClosedMessage, Facts, LaneInv, ShutdownPhases, Idle
  <2> QED BY <1>3, <2>1, DisposePosts DEF ClosedMessage, lane
<1>4. CASE WorkerGone(w)
  BY <1>4, DisposePosts DEF WorkerGone, FailEverything
<1> QED BY <1>1, <1>2, <1>3, <1>4

\* What the threads do to one of them.
LEMMA ThreadPosts ==
  ASSUME Facts, NEW w \in Workers, UNCHANGED <<worker, workerReady, started, inFlight, closing>>,
         \A v \in Workers \ {w} : /\ life'[v] = life[v] /\ inbox'[v] = inbox[v]
                                  /\ appended'[v] = appended[v] /\ outbox'[v] = outbox[v],
         inbox'[w] = <<>> \/ \E i \in Ids \union {CloseId} : inbox'[w] = <<i>>,
         w > started => inbox'[w] = <<>> /\ ~appended'[w],
         w # worker => outbox'[w] = <<>>,
         appended'[w] => life'[w] = "running" /\ \E i \in Ids : inbox'[w] = <<i>>,
         w = worker => AskedNow' /\ AnswerWaiting'
  PROVE  PostInv'
<1>1. OneAsked'
  <2> SUFFICES ASSUME NEW v \in Workers
               PROVE  /\ inbox'[v] = <<>> \/ \E i \in Ids \union {CloseId} : inbox'[v] = <<i>>
                      /\ v > started => inbox'[v] = <<>> /\ ~appended'[v]
                      /\ v # worker => outbox'[v] = <<>>
                      /\ appended'[v] => life'[v] = "running" /\ \E i \in Ids : inbox'[v] = <<i>>
    BY DEF OneAsked
  <2>1. CASE v = w
    BY <2>1
  <2>2. CASE v # w
    BY <2>2 DEF Facts, PostInv, OneAsked
  <2> QED BY <2>1, <2>2
<1>2. CASE w = worker
  BY <1>1, <1>2 DEF Facts, PostInv, SlotHasWorker
<1>3. CASE w # worker /\ worker # None
  <2>1. worker \in Workers \ {w}
    BY <1>3 DEF Facts, LaneInv, TypeOK, LaneType
  <2>2. life'[worker] = life[worker] /\ inbox'[worker] = inbox[worker] /\ outbox'[worker] = outbox[worker]
    BY <2>1
  <2>3. AskedNow' /\ AnswerWaiting'
    BY <2>2 DEF Facts, PostInv, AskedNow, AnswerWaiting
  <2> QED BY <1>1, <2>3 DEF Facts, PostInv, SlotHasWorker
<1>4. CASE worker = None
  BY <1>1, <1>4 DEF Facts, PostInv, SlotHasWorker, AskedNow, AnswerWaiting
<1> QED BY <1>2, <1>3, <1>4

\* The one thing asked, and the answer to it.
LEMMA OneInbox ==
  ASSUME Facts, NEW w \in Workers, inbox[w] # <<>>
  PROVE  /\ \E i \in Ids \union {CloseId} : inbox[w] = <<i>> /\ Head(inbox[w]) = i
         /\ Tail(inbox[w]) = <<>> /\ ~(w > started)
         /\ \A k \in DOMAIN outbox[w] : ~IsResult(outbox[w][k])
<1>1. PICK i \in Ids \union {CloseId} : inbox[w] = <<i>>
  BY DEF Facts, PostInv, OneAsked
<1>2. Head(inbox[w]) = i /\ Tail(inbox[w]) = <<>>
  BY <1>1
<1>3. ~(w > started) /\ (w # worker => outbox[w] = <<>>)
  BY DEF Facts, PostInv, OneAsked
<1>4. \A k \in DOMAIN outbox[w] : ~IsResult(outbox[w][k])
  <2>1. CASE w = worker
    <3>1. w # None
      BY NoneAssumption DEF Workers
    <3> QED BY <2>1, <3>1 DEF Facts, PostInv, AnswerWaiting
  <2>2. CASE w # worker
    BY <1>3, <2>2
  <2> QED BY <2>1, <2>2
<1> QED BY <1>1, <1>2, <1>3, <1>4

\* A thread answers: what was asked is taken off, and the worker's answer is
\* the last message and the only result.
LEMMA AnswerPosts ==
  ASSUME Facts, NEW w \in Workers, inbox[w] # <<>>, life[w] = "running", Take(w),
         NEW m \in Messages, Post(w, m), IsResult(m), m.id = Head(inbox[w]),
         m.id # CloseId => m.result \in {"recorded", "refused"},
         appended'[w] = FALSE, \A v \in Workers \ {w} : appended'[v] = appended[v],
         UNCHANGED <<worker, workerReady, started, inFlight, closing, life>>
  PROVE  /\ PostInv' /\ inbox' = [inbox EXCEPT ![w] = <<>>]
         /\ \A v \in Workers \ {w} : inbox'[v] = inbox[v] /\ outbox'[v] = outbox[v]
         /\ w # worker => outbox' = outbox
         /\ w = worker => /\ outbox'[w] = Append(outbox[w], m)
                          /\ \A k \in DOMAIN outbox'[w] : outbox'[w][k] = m \/ ~IsResult(outbox'[w][k])
<1>1. PICK i \in Ids \union {CloseId} : inbox[w] = <<i>> /\ Head(inbox[w]) = i
  BY OneInbox
<1>2. /\ Tail(inbox[w]) = <<>> /\ ~(w > started)
      /\ \A k \in DOMAIN outbox[w] : ~IsResult(outbox[w][k])
  BY OneInbox
<1>3. inbox \in [Workers -> Asked] /\ outbox \in [Workers -> Seq(Messages)] /\ w # None
  BY NoneAssumption DEF Facts, LaneInv, TypeOK, ThreadsType, Workers, Asked
<1>4. /\ inbox' = [inbox EXCEPT ![w] = <<>>] /\ inbox'[w] = <<>>
      /\ \A v \in Workers \ {w} : inbox'[v] = inbox[v] /\ outbox'[v] = outbox[v]
      /\ w # worker => outbox' = outbox /\ outbox'[w] = <<>>
      /\ w = worker => outbox'[w] = Append(outbox[w], m)
  <2>1. inbox' = [inbox EXCEPT ![w] = <<>>]
    BY <1>2 DEF Take
  <2>2. w # worker => outbox[w] = <<>>
    BY DEF Facts, PostInv, OneAsked
  <2> QED BY <1>3, <2>1, <2>2 DEF Post
<1>5. ASSUME w = worker
      PROVE  \A k \in DOMAIN outbox'[w] : (outbox'[w][k] = m /\ k = Len(outbox'[w])) \/ ~IsResult(outbox'[w][k])
  <2> DEFINE q == outbox[w]
  <2>1. q \in Seq(Messages) /\ \A k \in DOMAIN q : ~IsResult(q[k])
    BY <1>2, <1>3
  <2> HIDE DEF q
  <2>2. /\ Len(Append(q, m)) = Len(q) + 1 /\ Append(q, m)[Len(q) + 1] = m
        /\ \A k \in DOMAIN Append(q, m) : k = Len(q) + 1 \/ (k \in DOMAIN q /\ Append(q, m)[k] = q[k])
    BY <2>1
  <2>3. \A k \in DOMAIN Append(q, m) : (Append(q, m)[k] = m /\ k = Len(Append(q, m))) \/ ~IsResult(Append(q, m)[k])
    BY <2>1, <2>2
  <2> QED BY <1>4, <1>5, <2>3 DEF q
<1>6. ASSUME w = worker PROVE AskedNow' /\ AnswerWaiting'
  <2>1. AskedNow'
    <3>1. worker' = w /\ life'[w] = "running" /\ inbox'[w] = <<>>
      BY <1>4, <1>6
    <3> QED BY <3>1 DEF AskedNow
  <2>2. i = inFlight \/ (i = CloseId /\ closing = "asking")
    <3>1. inbox[w] = <<inFlight>> \/ (closing = "asking" /\ inbox[w] = <<CloseId>>)
      BY <1>3, <1>6 DEF Facts, PostInv, AskedNow
    <3>2. \A x, y : <<x>> = <<y>> => x = y
      OBVIOUS
    <3> QED BY <1>1, <3>1, <3>2
  <2>3. m.id = i /\ (i = inFlight => m.result \in {"recorded", "refused"})
    <3>1. inFlight # CloseId
      BY NoneAssumption, RequestsAssumption DEF Facts, LaneInv, TypeOK, LaneType, Ids, CloseId
    <3> QED BY <1>1, <3>1
  <2>4. AnswerWaiting'
    BY <1>4, <1>5, <1>6, <2>2, <2>3 DEF AnswerWaiting, IsResult
  <2> QED BY <2>1, <2>4
<1>7. PostInv'
  BY <1>2, <1>4, <1>6, ThreadPosts
<1> QED BY <1>4, <1>5, <1>7

LEMMA StopsPosts ==
  ASSUME Facts, NEW w \in Workers, Stops(w),
         UNCHANGED <<worker, workerReady, started, inFlight, closing, outbox>>
  PROVE  /\ PostInv' /\ life'[w] = "dead" /\ inbox'[w] = <<>> /\ appended'[w] = FALSE
         /\ \A v \in Workers \ {w} : life'[v] = life[v] /\ inbox'[v] = inbox[v] /\ appended'[v] = appended[v]
<1>1. life'[w] = "dead" /\ inbox'[w] = <<>> /\ appended'[w] = FALSE
      /\ \A v \in Workers \ {w} : life'[v] = life[v] /\ inbox'[v] = inbox[v] /\ appended'[v] = appended[v]
  BY DEF Stops, Facts, LaneInv, TypeOK, ThreadsType
<1>2. w = worker => AskedNow' /\ AnswerWaiting'
  <2>1. w # None
    BY NoneAssumption DEF Workers
  <2>2. w = worker => AskedNow'
    BY <1>1, <2>1 DEF AskedNow
  <2>3. w = worker => AnswerWaiting'
    BY <1>1, <2>1 DEF Facts, PostInv, AnswerWaiting
  <2> QED BY <2>2, <2>3
<1>3. w # worker => outbox[w] = <<>>
  BY DEF Facts, PostInv, OneAsked
<1> QED BY <1>1, <1>2, <1>3, ThreadPosts

LEMMA ThreadsPost ==
  ASSUME Facts, NEW w \in Workers,
         Boot(w) \/ AppendRow(w) \/ Reply(w) \/ CloseDatabase(w) \/ Die(w) \/ Terminated(w)
  PROVE  PostInv'
<1>0. /\ UNCHANGED <<worker, workerReady, started, inFlight, closing>> /\ w # None
      /\ life \in [Workers -> {"unborn", "starting", "running", "dead"}]
      /\ outbox \in [Workers -> Seq(Messages)] /\ appended \in [Workers -> BOOLEAN]
  <2>1. UNCHANGED <<worker, workerReady, started, inFlight, closing>>
    BY DEF Boot, AppendRow, Reply, CloseDatabase, Die, Terminated, ThreadOnly, lane, thread, shutdown
  <2> QED BY <2>1, NoneAssumption DEF Workers, Facts, LaneInv, TypeOK, ThreadsType
<1>1. CASE Boot(w)
  <2> DEFINE m == [kind |-> "ready", id |-> CloseId, result |-> "none"]
  <2>1. /\ life[w] = "starting" /\ life'[w] = "running" /\ ~appended[w] /\ UNCHANGED <<inbox, appended>>
        /\ \A v \in Workers \ {w} : life'[v] = life[v]
    BY <1>0, <1>1 DEF Boot, Facts, PostInv, OneAsked
  <2>2. /\ \A v \in Workers \ {w} : outbox'[v] = outbox[v]
        /\ w # worker => outbox'[w] = <<>>
        /\ w = worker => outbox'[w] = <<m>> /\ outbox[w] = <<>>
    <3>1. w # worker => outbox[w] = <<>>
      BY DEF Facts, PostInv, OneAsked
    <3>2. w = worker => outbox[w] = <<>>
      BY <1>0, <2>1 DEF Facts, PostInv, AskedNow
    <3>3. w = worker => outbox'[w] = Append(<<>>, m)
      BY <1>0, <1>1, <3>2 DEF Boot, Post
    <3> QED BY <1>0, <1>1, <3>1, <3>2, <3>3 DEF Boot, Post
  <2>3. w = worker => AskedNow'
    BY <1>0, <2>1 DEF Facts, PostInv, AskedNow
  <2>4. w = worker => AnswerWaiting'
    BY <1>0, <2>2 DEF AnswerWaiting, IsResult
  <2>5. (inbox[w] = <<>> \/ \E i \in Ids \union {CloseId} : inbox[w] = <<i>>) /\ (w > started => inbox[w] = <<>>)
    BY DEF Facts, PostInv, OneAsked
  <2> QED BY <1>0, <2>1, <2>2, <2>3, <2>4, <2>5, ThreadPosts
<1>2. CASE AppendRow(w)
  <2>1. /\ life[w] = "running" /\ inbox[w] # <<>> /\ Head(inbox[w]) # CloseId
        /\ appended' = [appended EXCEPT ![w] = TRUE] /\ UNCHANGED <<life, inbox, outbox>>
    BY <1>2 DEF AppendRow, Working
  <2>2. (\E i \in Ids : inbox[w] = <<i>>) /\ ~(w > started)
    BY <2>1, OneInbox
  <2>3. w # worker => outbox[w] = <<>>
    BY DEF Facts, PostInv, OneAsked
  <2>4. w = worker => AskedNow' /\ AnswerWaiting'
    BY <1>0, <2>1 DEF Facts, PostInv, AskedNow, AnswerWaiting
  <2> QED BY <1>0, <2>1, <2>2, <2>3, <2>4, ThreadPosts
<1>3. CASE Reply(w)
  <2>1. PICK result \in {"refused", "recorded"} : Post(w, [kind |-> "result", id |-> Head(inbox[w]), result |-> result])
    BY <1>3 DEF Reply, Answers
  <2>2. /\ life[w] = "running" /\ inbox[w] # <<>> /\ Head(inbox[w]) # CloseId /\ Take(w)
        /\ appended' = [appended EXCEPT ![w] = FALSE] /\ life' = life
    BY <1>3 DEF Reply, Working
  <2> DEFINE m == [kind |-> "result", id |-> Head(inbox[w]), result |-> result]
  <2>3. Head(inbox[w]) \in Ids
    BY <2>2, OneInbox
  <2>4. m \in Messages /\ IsResult(m) /\ m.id = Head(inbox[w]) /\ m.result \in {"recorded", "refused"}
    BY <2>3 DEF Messages, IsResult
  <2>5. appended'[w] = FALSE /\ \A v \in Workers \ {w} : appended'[v] = appended[v]
    BY <1>0, <2>2
  <2> HIDE DEF m
  <2> QED BY <1>0, <2>1, <2>2, <2>4, <2>5, AnswerPosts DEF m
<1>4. CASE CloseDatabase(w)
  <2>1. PICK result \in {"closed", "failed"} : Post(w, [kind |-> "result", id |-> CloseId, result |-> result])
    BY <1>4 DEF CloseDatabase
  <2>2. /\ life[w] = "running" /\ inbox[w] # <<>> /\ Head(inbox[w]) = CloseId /\ Take(w)
        /\ UNCHANGED <<appended, life>>
    BY <1>4 DEF CloseDatabase
  <2> DEFINE m == [kind |-> "result", id |-> CloseId, result |-> result]
  <2>3. m \in Messages /\ IsResult(m) /\ m.id = CloseId
    BY DEF Messages, IsResult
  <2>4. appended'[w] = FALSE /\ \A v \in Workers \ {w} : appended'[v] = appended[v]
    <3>1. ~appended[w]
      <4>1. \A i \in Ids : inbox[w] = <<i>> => Head(inbox[w]) # CloseId
        BY RequestsAssumption DEF Ids, CloseId
      <4> QED BY <2>2, <4>1 DEF Facts, PostInv, OneAsked
    <3> QED BY <1>0, <2>2, <3>1
  <2> HIDE DEF m
  <2> QED BY <1>0, <2>1, <2>2, <2>3, <2>4, AnswerPosts DEF m
<1>5. CASE Die(w)
  BY <1>0, <1>5, StopsPosts DEF Die
<1>6. CASE Terminated(w)
  <2>1. CASE Stops(w)
    BY <1>0, <1>6, <2>1, StopsPosts DEF Terminated
  <2>2. CASE UNCHANGED <<life, inbox, appended>>
    BY <1>0, <1>6, <2>2, PostStays DEF Terminated, Facts
  <2> QED BY <1>6, <2>1, <2>2 DEF Terminated
<1> QED BY <1>1, <1>2, <1>3, <1>4, <1>5, <1>6

LEMMA InitPost == Init => PostInv
BY NoneAssumption DEF Init, PostInv, OneAsked, AskedNow, AnswerWaiting, SlotHasWorker

LEMMA NextPost == Facts /\ [Next]_vars => PostInv'
<1> SUFFICES ASSUME Facts, [Next]_vars PROVE PostInv'
  OBVIOUS
<1>1. CASE UNCHANGED vars
  BY <1>1, PostStays DEF vars, lane, thread, threads, shutdown, Facts
<1>2. CASE Next
  BY <1>2, CallsPost, ContinuePosts, TimersPost, EventsPost, ThreadsPost DEF Next, Events, Thread
<1> QED BY <1>1, <1>2
-----------------------------------------------------------------------------
(* Records and rows.                                                       *)

\* No more is recorded, and what is in flight now has no row or is what was.
LEMMA RowsKept ==
  ASSUME AuditInv, ledger' = ledger, \A i \in Ids : answer'[i] = "recorded" => answer[i] = "recorded",
         inFlight' = None \/ inFlight' = inFlight \/ ~InLedger(inFlight')
  PROVE  InFlightIsLast' /\ RecordedIsInLedger' /\ NoDoubleAppend' /\ RecordedInOrder'
<1>1. /\ ledger \in Seq(Ids) /\ \A n \in DOMAIN ledger : ledger[n] \in Ids /\ InLedger(ledger[n])
      /\ None \notin Ids
  <2>1. ledger \in Seq(Ids)
    BY DEF AuditInv, LaneInv, TypeOK, ThreadsType
  <2> QED BY <2>1, NoneAssumption, RequestsAssumption DEF InLedger, ToSet, Ids
<1>2. InFlightIsLast'
  BY <1>1 DEF AuditInv, RowInv, InFlightIsLast
<1>3. RecordedIsInLedger' /\ NoDoubleAppend' /\ RecordedInOrder'
  BY <1>1 DEF AuditInv, RowInv, RecordedIsInLedger, NoDoubleAppend, RecordedInOrder
<1> QED BY <1>2, <1>3

\* Threads only let go of records.
LEMMA HoldersKept ==
  ASSUME AuditInv, ledger' = ledger, nextId' = nextId \/ nextId' = nextId + 1,
         \A i \in Ids, w \in Workers : Has(w, i)' => Has(w, i) /\ appended'[w] = appended[w],
         \A i \in ToSet(queue') : i \in ToSet(queue) \/ (~InLedger(i) /\ \A w \in Workers : ~Has(w, i)'),
         inFlight' # None => inFlight' = inFlight /\ worker' = worker
  PROVE  OneHolder' /\ NotYetIn'
<1>1. nextId \in Nat /\ nextId' \in Nat /\ (\A i \in Ids : i \in Nat /\ (i < nextId => i < nextId'))
      /\ (inFlight = None \/ inFlight \in Ids)
  BY RequestsAssumption DEF AuditInv, LaneInv, TypeOK, LaneType, Ids
<1>2. OneHolder'
  BY <1>1 DEF AuditInv, RowInv, OneHolder
<1>3. NotYetIn'
  BY <1>1 DEF AuditInv, RowInv, NotYetIn, InLedger
<1> QED BY <1>2, <1>3

\* Nothing is heard from the worker, or there is none.
LEMMA WorkerKept ==
  ASSUME AuditInv, ledger' = ledger,
         worker' = None \/ UNCHANGED <<worker, workerReady, life, outbox>>,
         inFlight' = inFlight \/ inFlight' = None
  PROVE  UnloadedIsOut' /\ ToldIsIn'
<1>1. CASE worker' = None
  BY <1>1 DEF UnloadedIsOut, ToldIsIn
<1>2. CASE UNCHANGED <<worker, workerReady, life, outbox>>
  BY <1>2 DEF AuditInv, RowInv, UnloadedIsOut, ToldIsIn, InLedger, IsResult
<1> QED BY <1>1, <1>2

\* Nothing changes but what the shutdown asks.
LEMMA RowStays ==
  ASSUME AuditInv,
         UNCHANGED <<queue, inFlight, nextId, answer, ledger, appended, life, outbox, worker, workerReady>>,
         \A i \in Ids, w \in Workers : inbox'[w] = <<i>> => inbox[w] = <<i>>
  PROVE  RowInv'
<1>1. InOrder'
  BY DEF AuditInv, RowInv, InOrder, Outstanding
<1>2. \A i \in Ids, w \in Workers : Has(w, i)' => Has(w, i) /\ appended'[w] = appended[w]
  BY DEF Has, Living
<1>3. OneHolder' /\ NotYetIn'
  BY <1>2, HoldersKept
<1> QED BY <1>1, <1>3, RowsKept, WorkerKept DEF RowInv

\* Everybody outstanding was refused, and the worker is gone.
LEMMA RowsEmptied ==
  ASSUME AuditInv, queue' = <<>>, inFlight' = None, worker' = None,
         UNCHANGED <<nextId, ledger, life, inbox, appended>>,
         \A i \in Ids : answer'[i] = answer[i] \/ (answer'[i] # "recorded" /\ i < nextId)
  PROVE  RowInv'
<1>1. ToSet(queue') = {} /\ Outstanding' = {}
  BY DEF ToSet, Outstanding
<1>2. InOrder'
  <2>1. \A i \in Ids : i >= nextId => answer'[i] = "none"
    <3>1. \A i \in Ids : i \in Nat /\ nextId \in Nat
      BY RequestsAssumption DEF AuditInv, LaneInv, TypeOK, LaneType, Ids
    <3> QED BY <3>1 DEF AuditInv, RowInv, InOrder
  <2>2. DOMAIN queue' = {}
    OBVIOUS
  <2> QED BY <1>1, <2>1, <2>2 DEF InOrder
<1>3. \A i \in Ids, w \in Workers : Has(w, i)' => Has(w, i) /\ appended'[w] = appended[w]
  BY DEF Has, Living
<1>4. OneHolder' /\ NotYetIn'
  BY <1>1, <1>3, HoldersKept
<1> QED BY <1>2, <1>4, RowsKept, WorkerKept DEF RowInv

LEMMA RefusedEmptied ==
  ASSUME AuditInv, NEW r, r # "recorded", FailEverything(r), worker' = None,
         UNCHANGED <<nextId, ledger, life, inbox, appended>>
  PROVE  RowInv'
<1>1. \A i \in Ids : answer'[i] = answer[i] \/ (answer'[i] # "recorded" /\ i < nextId)
  <2>1. \A i \in Outstanding : i < nextId
    BY DEF AuditInv, RowInv, InOrder
  <2> QED BY <2>1 DEF FailEverything, Settled
<1> QED BY <1>1, RowsEmptied DEF FailEverything

\* Asking for the close takes no record from a thread and gives none.
LEMMA CloseGivesNothing ==
  ASSUME AuditInv, AfterDrain \/ UNCHANGED inbox, Idle \/ UNCHANGED inbox, closing # "asking"
  PROVE  \A i \in Ids, w \in Workers : inbox'[w] = <<i>> => inbox[w] = <<i>>
<1>1. CASE UNCHANGED inbox
  BY <1>1
<1>2. CASE AfterDrain /\ Idle /\ worker # None
  <2>1. worker \in Workers /\ inbox[worker] = <<>>
    BY <1>2, IdleWorker DEF AuditInv, Facts, Idle
  <2>2. inbox \in [Workers -> Asked] /\ inbox' = [inbox EXCEPT ![worker] = Append(@, CloseId)]
    BY <1>2 DEF AfterDrain, AuditInv, LaneInv, TypeOK, ThreadsType, Asked
  <2>3. inbox'[worker] = <<CloseId>> /\ \A w \in Workers \ {worker} : inbox'[w] = inbox[w]
    BY <2>1, <2>2
  <2>4. \A i \in Ids : <<CloseId>> # <<i>>
    <3>1. \A i \in Ids : i # CloseId
      BY RequestsAssumption DEF Ids, CloseId
    <3>2. \A x, y : <<x>> = <<y>> => x = y
      OBVIOUS
    <3> QED BY <3>1, <3>2
  <2> QED BY <2>3, <2>4
<1> QED BY <1>1, <1>2 DEF AfterDrain

LEMMA StartCloseRows ==
  ASSUME AuditInv, NEW who, StartClose(who)
  PROVE  RowInv'
<1>1. \A i \in Ids, w \in Workers : inbox'[w] = <<i>> => inbox[w] = <<i>>
  BY CloseGivesNothing DEF StartClose
<1> QED BY <1>1, RowStays DEF StartClose, lane, thread

LEMMA RecordRows ==
  ASSUME AuditInv, Record
  PROVE  RowInv'
<1>0. /\ queue \in Seq(Ids) /\ nextId \in Nat /\ nextId \in Ids /\ nextId' = nextId + 1 /\ answer \in [Ids -> Results]
      /\ \A i \in Ids : i \in Nat
      /\ UNCHANGED <<inFlight, worker, workerReady, life, inbox, appended, outbox, ledger>>
  <2>1. /\ queue \in Seq(Ids) /\ nextId \in 1 .. MaxRequests + 1 /\ answer \in [Ids -> Results]
    BY DEF AuditInv, LaneInv, TypeOK, LaneType, ThreadsType
  <2>2. /\ nextId <= MaxRequests /\ nextId' = nextId + 1
        /\ UNCHANGED <<inFlight, worker, workerReady, life, inbox, appended, outbox, ledger>>
    BY DEF Record, thread, threads
  <2> QED BY <2>1, <2>2, RequestsAssumption DEF Ids
<1>1. \A i \in Ids : answer'[i] = answer[i] \/ (i = nextId /\ answer'[i] = "refused")
  BY <1>0 DEF Record, Settled
<1>2. /\ \A i \in Ids, w \in Workers : Has(w, i)' => Has(w, i) /\ appended'[w] = appended[w]
      /\ \A i \in Ids : i = nextId => ~InLedger(i) /\ \A w \in Workers : ~Has(w, i)'
  <2>1. \A i \in Ids, w \in Workers : Has(w, i)' => Has(w, i) /\ appended'[w] = appended[w]
    BY <1>0 DEF Has, Living
  <2>2. nextId \in Ids /\ ~(nextId < nextId)
    BY <1>0
  <2>3. ~InLedger(nextId)
    BY <2>2 DEF AuditInv, RowInv, NotYetIn
  <2>4. \A w \in Workers : ~Has(w, nextId)
    BY <2>2 DEF AuditInv, RowInv, OneHolder
  <2> QED BY <2>1, <2>2, <2>3, <2>4
<1>3. queue' = queue \/ (queue' = Append(queue, nextId) /\ answer' = answer)
  BY DEF Record
<1>4. InOrder'
  <2>1. CASE queue' = queue
    <3>1. Outstanding' = Outstanding
      BY <1>0, <2>1 DEF Outstanding
    <3>2. \A i \in Outstanding : i \in Ids /\ i # nextId /\ i < nextId + 1
      <4>1. \A i \in Outstanding : i \in Ids
        BY <1>0 DEF Outstanding, ToSet, AuditInv, LaneInv, TypeOK, LaneType
      <4>2. \A i \in Outstanding : i < nextId
        BY DEF AuditInv, RowInv, InOrder
      <4>3. \A i \in Ids : i < nextId => i # nextId /\ i < nextId + 1
        BY <1>0
      <4> QED BY <4>1, <4>2, <4>3
    <3> QED BY <1>0, <1>1, <2>1, <3>1, <3>2 DEF AuditInv, RowInv, InOrder
  <2>2. CASE queue' = Append(queue, nextId) /\ answer' = answer
    <3>1. /\ ToSet(queue') = ToSet(queue) \union {nextId} /\ Outstanding' = Outstanding \union {nextId}
          /\ \A n \in DOMAIN queue' : \/ n \in DOMAIN queue /\ queue'[n] = queue[n]
                                      \/ n = Len(queue) + 1 /\ queue'[n] = nextId
          /\ Len(queue) \in Nat /\ \A n \in DOMAIN queue : n \in Nat /\ n <= Len(queue) /\ queue[n] \in ToSet(queue)
          /\ DOMAIN queue' \subseteq Nat
      <4>1. ToSet(queue') = ToSet(queue) \union {nextId}
        BY <1>0, <2>2, Joined
      <4>2. Outstanding' = Outstanding \union {nextId}
        BY <1>0, <4>1 DEF Outstanding
      <4>3. /\ \A n \in DOMAIN queue' : \/ n \in DOMAIN queue /\ queue'[n] = queue[n]
                                        \/ n = Len(queue) + 1 /\ queue'[n] = nextId
            /\ Len(queue) \in Nat /\ \A n \in DOMAIN queue : n \in Nat /\ n <= Len(queue)
            /\ DOMAIN queue' \subseteq Nat
        BY <1>0, <2>2
      <4> QED BY <4>1, <4>2, <4>3 DEF ToSet
    <3>2. \A i \in Outstanding : i \in Ids /\ i < nextId /\ i < nextId + 1
      <4>1. \A i \in Outstanding : i \in Ids
        BY <1>0 DEF Outstanding, ToSet, AuditInv, LaneInv, TypeOK, LaneType
      <4>2. \A i \in Outstanding : i < nextId
        BY DEF AuditInv, RowInv, InOrder
      <4>3. \A i \in Ids : i < nextId => i # nextId /\ i < nextId + 1
        BY <1>0
      <4> QED BY <4>1, <4>2, <4>3
    <3>3. \A m, n \in DOMAIN queue' : m < n => queue'[m] < queue'[n]
      <4> TAKE m, n \in DOMAIN queue'
      <4> HAVE m < n
      <4>1. m \in DOMAIN queue /\ queue'[m] = queue[m]
        BY <3>1
      <4>2. CASE n \in DOMAIN queue
        BY <3>1, <4>1, <4>2 DEF AuditInv, RowInv, InOrder
      <4>3. CASE n = Len(queue) + 1
        BY <3>1, <3>2, <4>1, <4>3 DEF Outstanding
      <4> QED BY <3>1, <4>2, <4>3
    <3>4. inFlight' # None => \A i \in ToSet(queue') : inFlight' < i
      BY <1>0, <3>1, <3>2 DEF AuditInv, RowInv, InOrder, Outstanding
    <3>5. \A i \in Outstanding' : i < nextId' /\ answer'[i] = "none"
      BY <1>0, <2>2, <3>1, <3>2 DEF AuditInv, RowInv, InOrder
    <3>6. \A i \in Ids : answer'[i] = "recorded" => \A j \in Outstanding' : i < j
      BY <1>0, <2>2, <3>1 DEF AuditInv, RowInv, InOrder
    <3>7. \A i \in Ids : i >= nextId' => answer'[i] = "none"
      BY <1>0, <2>2 DEF AuditInv, RowInv, InOrder
    <3> QED BY <3>3, <3>4, <3>5, <3>6, <3>7 DEF InOrder
  <2> QED BY <1>3, <2>1, <2>2
<1>5. OneHolder' /\ NotYetIn'
  <2>1. \A i \in ToSet(queue') : i \in ToSet(queue) \/ i = nextId
    <3>1. nextId \in Ids /\ queue \in Seq(Ids)
      BY <1>0
    <3>2. ToSet(Append(queue, nextId)) = ToSet(queue) \union {nextId}
      BY <3>1, Joined
    <3> QED BY <1>3, <3>2
  <2>2. ledger' = ledger /\ nextId' = nextId + 1 /\ inFlight' = inFlight /\ worker' = worker
    BY <1>0
  <2>3. \A i \in ToSet(queue') : i \in ToSet(queue) \/ (~InLedger(i) /\ \A w \in Workers : ~Has(w, i)')
    BY <1>0, <1>2, <2>1
  <2>4. \A i \in Ids, w \in Workers : Has(w, i)' => Has(w, i) /\ appended'[w] = appended[w]
    BY <1>2
  <2> QED BY <2>2, <2>3, <2>4, HoldersKept
<1>6. \A i \in Ids : answer'[i] = "recorded" => answer[i] = "recorded"
  BY <1>1
<1> QED BY <1>0, <1>4, <1>5, <1>6, RowsKept, WorkerKept DEF RowInv

LEMMA CallsRows ==
  ASSUME AuditInv, Calls \/ RetirementCloses
  PROVE  RowInv'
<1>1. CASE Record
  BY <1>1, RecordRows
<1>2. CASE \E who : StartClose(who)
  BY <1>2, StartCloseRows
<1>3. CASE UNCHANGED <<lane, nextId, thread, ending, shutdown, pumpDue, threads, ledger, answer>>
  BY <1>3, RowStays DEF lane, thread, threads
<1> QED BY <1>1, <1>2, <1>3 DEF Calls, Close, RetireWhenIdle, RetirementCloses, CloseOrShare

\* The head of the queue comes before everything behind it.
LEMMA HeadTaken ==
  ASSUME AuditInv, queue # <<>>, queue' = Tail(queue)
  PROVE  /\ Head(queue) \in Ids /\ Head(queue) \in ToSet(queue) /\ Head(queue) \in Outstanding
         /\ ToSet(queue) = {Head(queue)} \union ToSet(queue')
         /\ \A i \in ToSet(queue') : Head(queue) < i /\ i # Head(queue)
         /\ \A m, n \in DOMAIN queue' : m < n => queue'[m] < queue'[n]
<1> DEFINE h == Head(queue)
<1>1. queue \in Seq(Ids) /\ \A i \in Ids : i \in Nat
  BY RequestsAssumption DEF AuditInv, LaneInv, TypeOK, LaneType, Ids
<1>2. /\ h \in Ids /\ h = queue[1] /\ ToSet(queue) = {h} \union ToSet(queue')
      /\ \A n \in DOMAIN queue' : n + 1 \in DOMAIN queue /\ queue'[n] = queue[n + 1]
  BY <1>1, HeadTail
<1>3. DOMAIN queue \subseteq Nat /\ DOMAIN queue' \subseteq Nat \ {0} /\ 1 \in DOMAIN queue
      /\ \A n \in DOMAIN queue : queue[n] \in Ids
  BY <1>1
<1>4. \A m, n \in DOMAIN queue : m < n => queue[m] < queue[n]
  BY DEF AuditInv, RowInv, InOrder
<1> HIDE DEF h
<1>5. \A m, n \in DOMAIN queue' : m < n => queue'[m] < queue'[n]
  BY <1>2, <1>3, <1>4
<1>6. \A n \in DOMAIN queue' : h < queue'[n] /\ queue'[n] # h
  BY <1>1, <1>2, <1>3, <1>4
<1>7. \A i \in ToSet(queue') : h < i /\ i # h
  BY <1>6 DEF ToSet
<1> QED BY <1>2, <1>5, <1>7 DEF h, Outstanding

LEMMA SendRows ==
  ASSUME AuditInv, PumpSend
  PROVE  RowInv'
<1>0. Instance \in Workers /\ Head(queue) \in Ids
  BY SendGives DEF AuditInv, Facts
<1> PICK v \in Workers, h \in Ids : v = Instance /\ h = Head(queue)
  BY <1>0
<1>1. /\ worker' = v /\ inFlight = None /\ inFlight' = h
      /\ \A w \in Workers \ {v} : life'[w] = life[w] /\ inbox'[w] = inbox[w]
      /\ inbox'[v] = <<h>> /\ appended[v] = FALSE
      /\ \A k \in DOMAIN outbox[v] : ~IsResult(outbox[v][k])
      /\ worker # None => v = worker /\ UNCHANGED <<life, workerReady>>
      /\ worker = None => life'[v] = "starting" /\ outbox[v] = <<>>
      /\ UNCHANGED <<appended, outbox>>
  BY SendGives DEF AuditInv, Facts
<1>2. queue # <<>> /\ queue' = Tail(queue) /\ UNCHANGED <<nextId, ledger, answer>>
  BY DEF PumpSend
<1>3. /\ h \in ToSet(queue) /\ h \in Outstanding
      /\ ToSet(queue) = {h} \union ToSet(queue')
      /\ \A i \in ToSet(queue') : h < i /\ i # h
      /\ \A m, n \in DOMAIN queue' : m < n => queue'[m] < queue'[n]
  BY <1>2, HeadTaken
<1>4. ~InLedger(h) /\ h # None
  BY <1>3, NoneAssumption, RequestsAssumption DEF AuditInv, RowInv, NotYetIn, Ids
<1>5. \A i \in Ids : Has(v, i)' => i = h
  <2>1. \A x, y : <<x>> = <<y>> => x = y
    OBVIOUS
  <2> QED BY <1>1, <2>1 DEF Has
<1>6. \A i \in Ids, w \in Workers \ {v} : Has(w, i)' => Has(w, i) /\ i # h
  <2>1. \A w \in Workers : ~Has(w, h)
    BY <1>3 DEF AuditInv, RowInv, OneHolder
  <2> QED BY <1>1, <2>1 DEF Has, Living
<1>7. Outstanding' = Outstanding
  BY <1>1, <1>3, <1>4 DEF Outstanding
<1>8. InOrder'
  BY <1>1, <1>2, <1>3, <1>7 DEF AuditInv, RowInv, InOrder
<1>9. OneHolder'
  <2>1. \A i \in Ids, w, u \in Workers : Has(w, i)' /\ Has(u, i)' => w = u
    <3>1. \A i \in Ids, w, u \in Workers : Has(w, i) /\ Has(u, i) => w = u
      BY DEF AuditInv, RowInv, OneHolder
    <3> QED BY <1>5, <1>6, <3>1
  <2>2. \A i \in Ids, w \in Workers : Has(w, i)' => i < nextId' /\ i \notin ToSet(queue')
    <3>1. h < nextId /\ h \notin ToSet(queue')
      <4>1. \A i \in Outstanding : i < nextId
        BY DEF AuditInv, RowInv, InOrder
      <4> QED BY <1>3, <4>1
    <3>2. \A i \in Ids, w \in Workers : Has(w, i) => i < nextId /\ i \notin ToSet(queue)
      BY DEF AuditInv, RowInv, OneHolder
    <3> QED BY <1>2, <1>3, <1>5, <1>6, <3>1, <3>2
  <2>3. \A w \in Workers : inFlight' # None /\ Has(w, inFlight)' => w = worker'
    <3>1. \A w \in Workers : Has(w, inFlight)' => Has(w, h)'
      BY <1>1 DEF Has
    <3> QED BY <1>1, <1>6, <3>1
  <2> QED BY <2>1, <2>2, <2>3 DEF OneHolder
<1>10. NotYetIn'
  <2>1. /\ \A i \in ToSet(queue') : ~InLedger(i)'
        /\ \A i \in Ids : InLedger(i)' => i < nextId'
    BY <1>2, <1>3 DEF AuditInv, RowInv, NotYetIn, InLedger
  <2>2. \A i \in Ids, w \in Workers : Has(w, i)' => (appended'[w] <=> InLedger(i)')
    <3> TAKE i \in Ids, w \in Workers
    <3> HAVE Has(w, i)'
    <3>1. CASE w = v
      <4>1. i = h /\ ~InLedger(h)'
        BY <1>2, <1>4, <1>5, <3>1 DEF InLedger
      <4>2. appended'[w] = FALSE
        BY <1>1, <3>1
      <4> QED BY <4>1, <4>2 DEF InLedger
    <3>2. CASE w # v
      BY <1>1, <1>2, <1>6, <3>2 DEF AuditInv, RowInv, NotYetIn, InLedger
    <3> QED BY <3>1, <3>2
  <2> QED BY <2>1, <2>2 DEF NotYetIn
<1>11. UnloadedIsOut'
  <2>1. CASE worker # None
    <3>1. v = worker /\ workerReady' = workerReady /\ life' = life
      BY <1>1, <2>1
    <3> QED BY <1>1, <1>2, <1>4, <2>1, <3>1 DEF AuditInv, RowInv, UnloadedIsOut, InLedger
  <2>2. CASE worker = None
    BY <1>1, <1>2, <1>4, <2>2 DEF UnloadedIsOut, InLedger
  <2> QED BY <2>1, <2>2
<1>12. ToldIsIn'
  BY <1>1 DEF ToldIsIn, IsResult
<1>13. InFlightIsLast' /\ RecordedIsInLedger' /\ NoDoubleAppend' /\ RecordedInOrder'
  BY <1>1, <1>2, <1>4, RowsKept
<1> QED BY <1>8, <1>9, <1>10, <1>11, <1>12, <1>13 DEF RowInv

LEMMA CannotPostRows ==
  ASSUME AuditInv, PumpCannotPost
  PROVE  RowInv'
<1>1. PICK ready \in BOOLEAN, fallback \in BOOLEAN : EnsureWorker(ready, fallback)
  BY DEF PumpCannotPost
<1>2. /\ queue # <<>> /\ queue' = Tail(queue) /\ inFlight = None /\ inFlight' = None /\ worker' = None
      /\ answer' = Settled({Head(queue)}, "refused") /\ UNCHANGED <<nextId, inbox, appended, ledger>>
  BY DEF PumpCannotPost
<1>3. /\ Head(queue) \in Ids /\ Head(queue) \in Outstanding
      /\ ToSet(queue) = {Head(queue)} \union ToSet(queue')
      /\ \A i \in ToSet(queue') : i # Head(queue)
      /\ \A m, n \in DOMAIN queue' : m < n => queue'[m] < queue'[n]
  BY <1>2, HeadTaken
<1>4. Instance \in Workers /\ \A w \in Workers \ {Instance} : life'[w] = life[w]
  <2>1. TypeInv /\ LivesInv
    BY DEF AuditInv, LaneInv, TypeInv, LivesInv
  <2> QED BY <1>1, <1>2, <2>1, EnsureTouches
<1>5. \A i \in Ids, w \in Workers : Has(w, i)' => Has(w, i) /\ appended'[w] = appended[w]
  <2>1. CASE worker # None
    BY <1>1, <1>2, <2>1 DEF EnsureWorker, Has, Living
  <2>2. CASE worker = None
    <3>1. Instance > started
      BY <2>2 DEF Instance, AuditInv, LaneInv, TypeOK, LaneType
    <3>2. inbox[Instance] = <<>>
      BY <1>4, <3>1 DEF AuditInv, PostInv, OneAsked
    <3>3. \A i : <<i>> # <<>>
      OBVIOUS
    <3> QED BY <1>2, <1>4, <3>2, <3>3 DEF Has, Living
  <2> QED BY <2>1, <2>2
<1>6. \A i \in Ids : answer'[i] = answer[i] \/ (i = Head(queue) /\ answer'[i] = "refused")
  BY <1>2 DEF Settled
<1>7. Outstanding' = ToSet(queue') /\ Outstanding = ToSet(queue)
  BY <1>2 DEF Outstanding
<1>8. InOrder'
  <2>1. \A i \in Outstanding' : i < nextId' /\ answer'[i] = "none"
    <3>1. \A i \in Outstanding' : i \in Ids /\ i \in Outstanding /\ i # Head(queue)
      <4>1. \A i \in ToSet(queue) : i \in Ids
        BY DEF ToSet, AuditInv, LaneInv, TypeOK, LaneType
      <4> QED BY <1>3, <1>7, <4>1
    <3> QED BY <1>2, <1>6, <3>1 DEF AuditInv, RowInv, InOrder
  <2>2. \A i \in Ids : answer'[i] = "recorded" => \A j \in Outstanding' : i < j
    BY <1>3, <1>6, <1>7 DEF AuditInv, RowInv, InOrder
  <2>3. \A i \in Ids : i >= nextId' => answer'[i] = "none"
    <3>1. \A i \in Ids : i >= nextId => i # Head(queue)
      <4>1. Head(queue) < nextId /\ nextId \in Nat /\ \A i \in Ids : i \in Nat
        BY <1>3, RequestsAssumption DEF AuditInv, RowInv, InOrder, LaneInv, TypeOK, LaneType, Ids
      <4> QED BY <1>3, <4>1
    <3> QED BY <1>2, <1>6, <3>1 DEF AuditInv, RowInv, InOrder
  <2> QED BY <1>2, <1>3, <2>1, <2>2, <2>3 DEF InOrder
<1>9. OneHolder' /\ NotYetIn'
  BY <1>2, <1>3, <1>5, HoldersKept
<1>10. \A i \in Ids : answer'[i] = "recorded" => answer[i] = "recorded"
  BY <1>6
<1> QED BY <1>2, <1>8, <1>9, <1>10, RowsKept, WorkerKept DEF RowInv

LEMMA ContinueRows ==
  ASSUME AuditInv, Continue
  PROVE  RowInv'
<1>1. CASE PumpNothing \/ CloseAnswers
  BY <1>1, RowStays DEF PumpNothing, CloseAnswers, lane, thread, threads
<1>2. CASE PumpCannotStart
  BY <1>2, RefusedEmptied DEF PumpCannotStart, threads
<1> QED BY <1>1, <1>2, SendRows, CannotPostRows, CallsRows DEF Continue

\* Nothing outstanding is lost or gained, and the worker is gone.
LEMMA DisposedRows ==
  ASSUME AuditInv, Idle, DisposeWorker, UNCHANGED <<lane, nextId, life, inbox, appended, ledger, answer>>
  PROVE  RowInv'
BY RowsEmptied DEF DisposeWorker, Idle, lane

LEMMA TimersRows ==
  ASSUME AuditInv, Timers
  PROVE  RowInv'
<1>1. CASE RequestTimeout \/ DrainDeadline
  BY <1>1, RefusedEmptied DEF RequestTimeout, DrainDeadline, DisposeWorker
<1>2. CASE DrainCheck
  <2>1. \A i \in Ids, w \in Workers : inbox'[w] = <<i>> => inbox[w] = <<i>>
    BY <1>2, CloseGivesNothing DEF DrainCheck
  <2> QED BY <1>2, <2>1, RowStays DEF DrainCheck, lane, thread
<1>3. CASE AskDeadline
  <2>1. Idle
    BY <1>3 DEF AskDeadline, AuditInv, LaneInv, ShutdownPhases
  <2> QED BY <1>3, <2>1, DisposedRows DEF AskDeadline
<1> QED BY <1>1, <1>2, <1>3 DEF Timers

\* A worker that was never ready is replaced and its record sent again: it is
\* first in the queue once more, and has no row.
LEMMA RequeueRows ==
  ASSUME AuditInv, NEW w \in Workers, WorkerGone(w), NeverLoaded
  PROVE  RowInv'
<1>1. /\ worker = w /\ life[w] = "dead" /\ outbox[w] = <<>> /\ ~workerReady /\ worker' = None
      /\ queue' = Requeued /\ inFlight' = None
      /\ UNCHANGED <<nextId, life, inbox, appended, ledger, answer>>
  BY DEF WorkerGone, DisposeWorker, NeverLoaded
<1>2. CASE inFlight = None
  <2>1. queue' = queue
    BY <1>1, <1>2 DEF Requeued
  <2>2. Outstanding' = Outstanding
    BY <1>1, <1>2, <2>1 DEF Outstanding
  <2>3. InOrder'
    BY <1>1, <1>2, <2>1, <2>2 DEF AuditInv, RowInv, InOrder
  <2>4. \A i \in Ids, v \in Workers : Has(v, i)' => Has(v, i) /\ appended'[v] = appended[v]
    BY <1>1 DEF Has, Living
  <2>5. OneHolder' /\ NotYetIn'
    BY <1>1, <2>1, <2>4, HoldersKept
  <2> QED BY <1>1, <2>3, <2>5, RowsKept, WorkerKept DEF RowInv
<1>3. CASE inFlight # None
  <2>1. /\ queue \in Seq(Ids) /\ inFlight \in Ids /\ \A i \in Ids : i \in Nat
    BY <1>3, RequestsAssumption DEF AuditInv, LaneInv, TypeOK, LaneType, Ids
  <2>2. PICK f \in Ids : f = inFlight
    BY <2>1
  <2>3. queue' = <<f>> \o queue
    BY <1>1, <1>3, <2>2 DEF Requeued
  <2>4. /\ ToSet(queue') = ToSet(queue) \union {f} /\ queue'[1] = f
        /\ \A n \in DOMAIN queue' : n # 1 => n - 1 \in DOMAIN queue /\ queue'[n] = queue[n - 1]
    BY <2>1, <2>3, PutFirst
  <2>5. DOMAIN queue' \subseteq Nat \ {0} /\ DOMAIN queue \subseteq Nat \ {0}
    <3>1. queue' \in Seq(Ids)
      BY <2>1, <2>3, PutFirst
    <3> QED BY <2>1, <3>1
  <2>6. /\ \A m, n \in DOMAIN queue : m < n => queue[m] < queue[n]
        /\ \A n \in DOMAIN queue : f < queue[n]
    BY <1>3, <2>2 DEF AuditInv, RowInv, InOrder, ToSet
  <2>7. \A m, n \in DOMAIN queue' : m < n => queue'[m] < queue'[n]
    <3> TAKE m, n \in DOMAIN queue'
    <3> HAVE m < n
    <3>1. n # 1
      BY <2>5
    <3>2. CASE m = 1
      BY <2>4, <2>6, <3>1, <3>2
    <3>3. CASE m # 1
      <4>1. m - 1 < n - 1
        BY <2>5
      <4> QED BY <2>4, <2>6, <3>1, <3>3, <4>1
    <3> QED BY <3>2, <3>3
  <2>8. Outstanding' = Outstanding
    BY <1>1, <1>3, <2>2, <2>4 DEF Outstanding
  <2>9. InOrder'
    BY <1>1, <2>7, <2>8 DEF AuditInv, RowInv, InOrder
  <2>10. \A i \in Ids, v \in Workers : Has(v, i)' => Has(v, i) /\ appended'[v] = appended[v]
    BY <1>1 DEF Has, Living
  <2>11. ~InLedger(f) /\ \A v \in Workers : ~Has(v, f)'
    <3>1. ~InLedger(f)
      <4>1. w # None
        BY NoneAssumption DEF Workers
      <4> QED BY <1>1, <1>3, <2>2, <4>1 DEF AuditInv, RowInv, UnloadedIsOut
    <3>2. \A v \in Workers : Has(v, f) => v = w
      BY <1>1, <1>3, <2>2 DEF AuditInv, RowInv, OneHolder
    <3>3. ~Has(w, f)
      BY <1>1 DEF Has, Living
    <3> QED BY <2>10, <3>1, <3>2, <3>3
  <2>12. OneHolder' /\ NotYetIn'
    BY <1>1, <2>4, <2>10, <2>11, HoldersKept
  <2> QED BY <1>1, <2>9, <2>12, RowsKept, WorkerKept DEF RowInv
<1> QED BY <1>2, <1>3

\* The answer to the record in flight is heard.
LEMMA ResultRows ==
  ASSUME AuditInv, NEW w \in Workers, ResultMessage(w)
  PROVE  RowInv'
<1>1. /\ worker = w /\ outbox[w] # <<>> /\ Head(outbox[w]) = outbox[w][1] /\ 1 \in DOMAIN outbox[w]
      /\ Tail(outbox[w]) = <<>> /\ life[w] # "starting"
      /\ Head(outbox[w]).id = inFlight /\ Head(outbox[w]).result \in {"recorded", "refused"}
      /\ Head(outbox[w]).kind = "result"
  <2>1. Heard(w, "result") /\ Head(outbox[w]).id # CloseId
    BY DEF ResultMessage
  <2>2. Head(outbox[w]).kind = "result"
    BY <2>1 DEF Heard
  <2> QED BY <2>1, <2>2, HeardResult DEF AuditInv, Facts
<1>2. /\ inFlight' = None /\ answer' = Settled({inFlight}, Head(outbox[w]).result)
      /\ UNCHANGED <<queue, nextId, worker, workerReady, life, inbox, appended, ledger>>
      /\ outbox' = [outbox EXCEPT ![w] = Tail(@)]
  BY <1>1 DEF ResultMessage, Consume, thread
<1>3. inFlight \in Ids /\ inFlight # None /\ w # None
  <2>1. outbox[w] \in Seq(Messages)
    BY DEF AuditInv, LaneInv, TypeOK, ThreadsType
  <2>2. Head(outbox[w]) \in Messages
    BY <1>1, <2>1
  <2>3. inFlight \in Ids \union {CloseId}
    BY <1>1, <2>2 DEF Messages
  <2> QED BY <2>3, NoneAssumption, RequestsAssumption
          DEF AuditInv, LaneInv, TypeOK, LaneType, Ids, CloseId, Workers
<1>4. PICK f \in Ids : f = inFlight
  BY <1>3
<1>5. PICK r \in {"recorded", "refused"} : r = Head(outbox[w]).result
  BY <1>1
<1>6. /\ \A i \in Ids : i # f => answer'[i] = answer[i]
      /\ answer[f] = "none" /\ answer'[f] = r
      /\ r = "recorded" => InLedger(f)
  <2>1. answer[f] = "none"
    BY <1>3, <1>4 DEF AuditInv, RowInv, InOrder, Outstanding
  <2>2. \A i \in Ids : answer'[i] = IF i = f /\ answer[i] = "none" THEN r ELSE answer[i]
    BY <1>2, <1>4, <1>5 DEF Settled
  <2>3. r = "recorded" => InLedger(f)
    BY <1>1, <1>3, <1>4, <1>5 DEF AuditInv, RowInv, ToldIsIn, IsResult
  <2> QED BY <2>1, <2>2, <2>3
<1>7. outbox'[w] = <<>> /\ outbox \in [Workers -> Seq(Messages)]
  <2>1. outbox \in [Workers -> Seq(Messages)]
    BY DEF AuditInv, LaneInv, TypeOK, ThreadsType
  <2> QED BY <1>1, <1>2, <2>1
<1>8. /\ Outstanding' = ToSet(queue) /\ Outstanding = ToSet(queue) \union {f}
      /\ \A i \in ToSet(queue) : f < i /\ i # f /\ i \in Ids /\ i \in Nat
  <2>1. \A i \in ToSet(queue) : f < i
    BY <1>3, <1>4 DEF AuditInv, RowInv, InOrder
  <2>2. /\ \A i \in ToSet(queue) : i \in Ids
    BY DEF ToSet, AuditInv, LaneInv, TypeOK, LaneType
  <2>3. \A i \in Ids : i \in Nat
    BY RequestsAssumption DEF Ids
  <2>4. \A i \in ToSet(queue) : i # f
    BY <2>1, <2>2, <2>3
  <2> QED BY <1>2, <1>3, <1>4, <2>1, <2>2, <2>3, <2>4 DEF Outstanding
<1>9. InOrder'
  <2>1. \A i \in Outstanding' : i < nextId' /\ answer'[i] = "none"
    BY <1>2, <1>6, <1>8 DEF AuditInv, RowInv, InOrder
  <2>2. \A i \in Ids : answer'[i] = "recorded" => \A j \in Outstanding' : i < j
    BY <1>6, <1>8 DEF AuditInv, RowInv, InOrder
  <2>3. \A i \in Ids : i >= nextId' => answer'[i] = "none"
    <3>1. f < nextId /\ nextId \in Nat /\ f \in Nat
      BY <1>8, RequestsAssumption DEF AuditInv, RowInv, InOrder, LaneInv, TypeOK, LaneType, Ids
    <3>2. \A i \in Ids : i >= nextId => i # f
      BY <3>1, RequestsAssumption DEF Ids
    <3> QED BY <1>2, <1>6, <3>2 DEF AuditInv, RowInv, InOrder
  <2> QED BY <1>2, <2>1, <2>2, <2>3 DEF AuditInv, RowInv, InOrder
<1>10. \A i \in Ids, v \in Workers : Has(v, i)' => Has(v, i) /\ appended'[v] = appended[v]
  BY <1>2 DEF Has, Living
<1>11. OneHolder' /\ NotYetIn'
  BY <1>2, <1>10, HoldersKept
<1>12. UnloadedIsOut'
  <2>1. workerReady \/ Head(outbox[w]).kind = "ready"
    BY <1>1, <1>3 DEF AuditInv, RowInv, UnloadedIsOut
  <2>2. workerReady
    BY <1>1, <2>1
  <2> QED BY <1>2, <2>2 DEF UnloadedIsOut
<1>13. ToldIsIn'
  BY <1>1, <1>2, <1>7 DEF ToldIsIn
<1>14. /\ ledger \in Seq(Ids) /\ \A n \in DOMAIN ledger : ledger[n] \in Ids /\ InLedger(ledger[n])
       /\ None \notin Ids /\ DOMAIN ledger \subseteq Nat
  <2>1. ledger \in Seq(Ids)
    BY DEF AuditInv, LaneInv, TypeOK, ThreadsType
  <2> QED BY <2>1, NoneAssumption, RequestsAssumption DEF InLedger, ToSet, Ids
<1>15. InFlightIsLast' /\ NoDoubleAppend'
  BY <1>2, <1>14 DEF AuditInv, RowInv, InFlightIsLast, NoDoubleAppend
<1>16. RecordedIsInLedger'
  BY <1>2, <1>6 DEF AuditInv, RowInv, RecordedIsInLedger, InLedger
<1>17. RecordedInOrder'
  <2> SUFFICES ASSUME NEW m \in DOMAIN ledger, NEW n \in DOMAIN ledger,
                      answer'[ledger[m]] = "recorded", answer'[ledger[n]] = "recorded", ledger[m] < ledger[n]
               PROVE  m < n
    BY <1>2 DEF RecordedInOrder
  <2>1. CASE ledger[m] # f /\ ledger[n] # f
    BY <1>6, <1>14, <2>1 DEF AuditInv, RowInv, RecordedInOrder
  <2>2. CASE ledger[n] = f
    <3>1. ledger[m] # f
      <4>1. ~(f < f)
        BY RequestsAssumption DEF Ids
      <4> QED BY <2>2, <4>1
    <3> QED BY <1>4, <1>6, <1>14, <2>2, <3>1 DEF AuditInv, RowInv, InFlightIsLast
  <2>3. CASE ledger[m] = f /\ ledger[n] # f
    <3>1. answer[ledger[n]] = "recorded" /\ ledger[n] \in Ids
      BY <1>6, <1>14, <2>3
    <3>2. ledger[n] < f
      BY <1>8, <3>1 DEF AuditInv, RowInv, InOrder
    <3>3. \A i, j \in Ids : ~(i < j /\ j < i)
      BY RequestsAssumption DEF Ids
    <3> QED BY <2>3, <3>1, <3>2, <3>3
  <2> QED BY <2>1, <2>2, <2>3
<1> QED BY <1>9, <1>11, <1>12, <1>13, <1>15, <1>16, <1>17 DEF RowInv

LEMMA EventsRows ==
  ASSUME AuditInv, NEW w \in Workers, ReadyMessage(w) \/ ResultMessage(w) \/ ClosedMessage(w) \/ WorkerGone(w)
  PROVE  RowInv'
<1>1. CASE ReadyMessage(w)
  <2>1. /\ worker = w /\ outbox[w] # <<>> /\ outbox' = [outbox EXCEPT ![w] = Tail(@)] /\ workerReady' = TRUE
        /\ UNCHANGED <<queue, inFlight, nextId, answer, ledger, appended, life, inbox, worker>>
    BY <1>1 DEF ReadyMessage, Heard, Consume, lane
  <2>2. outbox \in [Workers -> Seq(Messages)] /\ w # None
    BY NoneAssumption DEF AuditInv, LaneInv, TypeOK, ThreadsType, Workers
  <2>3. InOrder'
    BY <2>1 DEF AuditInv, RowInv, InOrder, Outstanding
  <2>4. \A i \in Ids, v \in Workers : Has(v, i)' => Has(v, i) /\ appended'[v] = appended[v]
    BY <2>1 DEF Has, Living
  <2>5. OneHolder' /\ NotYetIn'
    BY <2>1, <2>4, HoldersKept
  <2>6. UnloadedIsOut'
    BY <2>1 DEF UnloadedIsOut
  <2>7. ToldIsIn'
    <3>1. \A k \in DOMAIN outbox[w] : IsResult(outbox[w][k]) /\ outbox[w][k].result = "recorded" => InLedger(outbox[w][k].id)
      BY <2>1, <2>2 DEF AuditInv, RowInv, ToldIsIn
    <3>2. \A k \in DOMAIN Tail(outbox[w]) : k + 1 \in DOMAIN outbox[w] /\ Tail(outbox[w])[k] = outbox[w][k + 1]
      BY <2>1, <2>2, HeadTail
    <3>3. outbox'[w] = Tail(outbox[w])
      BY <2>1, <2>2
    <3> QED BY <2>1, <3>1, <3>2, <3>3 DEF ToldIsIn, InLedger, IsResult
  <2> QED BY <2>1, <2>3, <2>5, <2>6, <2>7, RowsKept DEF RowInv
<1>2. CASE ClosedMessage(w)
  <2>1. Idle
    BY <1>2 DEF ClosedMessage, AuditInv, LaneInv, ShutdownPhases
  <2> QED BY <1>2, <2>1, DisposedRows DEF ClosedMessage
<1>3. CASE WorkerGone(w) /\ ~NeverLoaded
  BY <1>3, RefusedEmptied DEF WorkerGone, DisposeWorker
<1> QED BY <1>1, <1>2, <1>3, ResultRows, RequeueRows

\* Threads do not touch the lane.
LEMMA ThreadInOrder ==
  ASSUME AuditInv, UNCHANGED <<queue, inFlight, nextId, answer>>
  PROVE  InOrder'
BY DEF AuditInv, RowInv, InOrder, Outstanding

LEMMA StopsRows ==
  ASSUME AuditInv, NEW w \in Workers, Stops(w),
         UNCHANGED <<queue, inFlight, nextId, answer, ledger, worker, workerReady, outbox>>
  PROVE  RowInv'
<1>1. life'[w] = "dead" /\ \A v \in Workers \ {w} : life'[v] = life[v] /\ inbox'[v] = inbox[v] /\ appended'[v] = appended[v]
  BY DEF Stops, AuditInv, LaneInv, TypeOK, ThreadsType
<1>2. \A i \in Ids, v \in Workers : Has(v, i)' => Has(v, i) /\ appended'[v] = appended[v]
  BY <1>1 DEF Has, Living
<1>3. OneHolder' /\ NotYetIn'
  BY <1>2, HoldersKept
<1>4. UnloadedIsOut'
  <2>1. CASE worker # None
    <3>1. worker \in Workers
      BY <2>1 DEF AuditInv, LaneInv, TypeOK, LaneType
    <3>2. life'[worker] = life[worker] \/ life'[worker] = "dead"
      BY <1>1, <3>1
    <3> QED BY <2>1, <3>2 DEF AuditInv, RowInv, UnloadedIsOut, InLedger
  <2>2. CASE worker = None
    BY <2>2 DEF UnloadedIsOut
  <2> QED BY <2>1, <2>2
<1>5. ToldIsIn'
  BY DEF AuditInv, RowInv, ToldIsIn, InLedger, IsResult
<1> QED BY <1>3, <1>4, <1>5, ThreadInOrder, RowsKept DEF RowInv

\* A running worker that was not heard to be ready has said it first.
LEMMA SaidReady ==
  ASSUME AuditInv, NEW w \in Workers, worker = w, life[w] = "running", ~workerReady
  PROVE  outbox[w] # <<>> /\ Head(outbox[w]).kind = "ready"
<1>1. w # None
  BY NoneAssumption DEF Workers
<1> QED BY <1>1 DEF AuditInv, RowInv, UnloadedIsOut

LEMMA BootRows ==
  ASSUME AuditInv, NEW w \in Workers, Boot(w)
  PROVE  RowInv'
<1> DEFINE m == [kind |-> "ready", id |-> CloseId, result |-> "none"]
<1>1. /\ life[w] = "starting" /\ life' = [life EXCEPT ![w] = "running"] /\ Post(w, m)
      /\ UNCHANGED <<queue, inFlight, nextId, answer, ledger, worker, workerReady, inbox, appended>>
  BY DEF Boot, ThreadOnly, lane, thread
<1>2. /\ life'[w] = "running" /\ \A v \in Workers \ {w} : life'[v] = life[v]
      /\ outbox \in [Workers -> Seq(Messages)] /\ w # None
  BY <1>1, NoneAssumption DEF AuditInv, LaneInv, TypeOK, ThreadsType, Workers
<1>3. worker = w => outbox[w] = <<>>
  BY <1>1, <1>2 DEF AuditInv, PostInv, AskedNow
<1>4. worker = w => outbox'[w] = <<m>>
  <2>1. worker = w => outbox'[w] = Append(<<>>, m)
    BY <1>1, <1>2, <1>3 DEF Post
  <2> QED BY <2>1
<1>5. worker # w => outbox' = outbox
  BY <1>1 DEF Post
<1>6. \A i \in Ids, v \in Workers : Has(v, i)' => Has(v, i) /\ appended'[v] = appended[v]
  BY <1>1, <1>2 DEF Has, Living
<1>7. OneHolder' /\ NotYetIn'
  BY <1>1, <1>6, HoldersKept
<1>8. UnloadedIsOut' /\ ToldIsIn'
  <2>1. CASE worker = w
    <3>1. Head(<<m>>).kind = "ready" /\ <<m>> # <<>> /\ \A k \in DOMAIN <<m>> : ~IsResult(<<m>>[k])
      BY DEF IsResult
    <3> QED BY <1>1, <1>4, <2>1, <3>1 DEF UnloadedIsOut, ToldIsIn, IsResult
  <2>2. CASE worker # w /\ worker # None
    <3>1. life'[worker] = life[worker]
      BY <1>2, <2>2 DEF AuditInv, LaneInv, TypeOK, LaneType
    <3> QED BY <1>1, <1>5, <2>2, <3>1 DEF AuditInv, RowInv, UnloadedIsOut, ToldIsIn, InLedger, IsResult
  <2>3. CASE worker = None
    BY <1>1, <2>3 DEF UnloadedIsOut, ToldIsIn
  <2> QED BY <2>1, <2>2, <2>3
<1> QED BY <1>1, <1>7, <1>8, ThreadInOrder, RowsKept DEF RowInv

\* A thread answers, and claims a row only when it has appended it.
LEMMA AnswerRows ==
  ASSUME AuditInv, NEW w \in Workers, inbox[w] # <<>>, life[w] = "running", Take(w),
         NEW m \in Messages, Post(w, m), IsResult(m), m.id = Head(inbox[w]),
         m.id # CloseId => m.result \in {"recorded", "refused"},
         m.result = "recorded" => m.id # CloseId /\ appended[w],
         appended'[w] = FALSE, \A v \in Workers \ {w} : appended'[v] = appended[v],
         UNCHANGED <<queue, inFlight, nextId, answer, ledger, worker, workerReady, started, closing, life>>
  PROVE  RowInv'
<1>1. /\ inbox' = [inbox EXCEPT ![w] = <<>>]
      /\ \A v \in Workers \ {w} : inbox'[v] = inbox[v] /\ outbox'[v] = outbox[v]
      /\ w # worker => outbox' = outbox
      /\ w = worker => /\ outbox'[w] = Append(outbox[w], m)
                       /\ \A k \in DOMAIN outbox'[w] : outbox'[w][k] = m \/ ~IsResult(outbox'[w][k])
  BY AnswerPosts DEF AuditInv, Facts
<1>2. inbox'[w] = <<>> /\ outbox[w] \in Seq(Messages)
  BY <1>1 DEF AuditInv, LaneInv, TypeOK, ThreadsType
<1>3. \A i \in Ids, v \in Workers : Has(v, i)' => Has(v, i) /\ appended'[v] = appended[v]
  <2>1. \A i : <<i>> # <<>>
    OBVIOUS
  <2> QED BY <1>1, <1>2, <2>1 DEF Has, Living
<1>4. OneHolder' /\ NotYetIn'
  BY <1>3, HoldersKept
<1>5. m.result = "recorded" => InLedger(m.id)
  <2> SUFFICES ASSUME m.result = "recorded" PROVE InLedger(m.id)
    OBVIOUS
  <2>1. PICK i \in Ids \union {CloseId} : inbox[w] = <<i>> /\ Head(inbox[w]) = i
    BY OneInbox DEF AuditInv, Facts
  <2>2. i \in Ids /\ appended[w] /\ Has(w, i) /\ m.id = i
    BY <2>1 DEF Has, Living
  <2> QED BY <2>2 DEF AuditInv, RowInv, NotYetIn
<1>6. ToldIsIn'
  <2>1. CASE worker = w
    BY <1>1, <1>5, <2>1 DEF ToldIsIn, InLedger, IsResult
  <2>2. CASE worker # w
    BY <1>1, <2>2 DEF AuditInv, RowInv, ToldIsIn, InLedger, IsResult
  <2> QED BY <2>1, <2>2
<1>7. UnloadedIsOut'
  <2>1. CASE worker = w /\ ~workerReady
    <3>1. outbox[w] # <<>> /\ Head(outbox[w]).kind = "ready"
      BY <2>1, SaidReady
    <3>2. Append(outbox[w], m) # <<>> /\ Head(Append(outbox[w], m)) = Head(outbox[w])
      BY <1>2, <3>1
    <3> QED BY <1>1, <2>1, <3>1, <3>2 DEF UnloadedIsOut
  <2>2. CASE worker # w
    BY <1>1, <2>2 DEF AuditInv, RowInv, UnloadedIsOut, InLedger
  <2> QED BY <2>1, <2>2 DEF UnloadedIsOut
<1> QED BY <1>4, <1>6, <1>7, ThreadInOrder, RowsKept DEF RowInv

\* The row a thread appends is new, and belongs to a record still unanswered.
LEMMA AppendRows ==
  ASSUME AuditInv, NEW w \in Workers, AppendRow(w)
  PROVE  RowInv'
<1>1. /\ life[w] = "running" /\ inbox[w] # <<>> /\ Head(inbox[w]) # CloseId /\ ~appended[w]
      /\ ledger' = Append(ledger, Head(inbox[w])) /\ appended' = [appended EXCEPT ![w] = TRUE]
      /\ UNCHANGED <<queue, inFlight, nextId, answer, worker, workerReady, life, inbox, outbox>>
  BY DEF AppendRow, Working, ThreadOnly, lane, thread
<1>2. PICK a \in Ids : inbox[w] = <<a>> /\ Head(inbox[w]) = a
  BY <1>1, OneInbox DEF AuditInv, Facts
<1>3. Has(w, a) /\ ~InLedger(a) /\ a \notin ToSet(queue) /\ a < nextId /\ (inFlight = a => worker = w)
  <2>1. Has(w, a)
    BY <1>1, <1>2 DEF Has, Living
  <2>2. inFlight = a => worker = w
    <3>1. a # None
      BY NoneAssumption, RequestsAssumption DEF Ids
    <3> QED BY <2>1, <3>1 DEF AuditInv, RowInv, OneHolder
  <2> QED BY <1>1, <2>1, <2>2 DEF AuditInv, RowInv, OneHolder, NotYetIn
<1>4. /\ ledger \in Seq(Ids) /\ ledger' = Append(ledger, a)
      /\ appended'[w] = TRUE /\ \A v \in Workers \ {w} : appended'[v] = appended[v]
  BY <1>1, <1>2 DEF AuditInv, LaneInv, TypeOK, ThreadsType
<1>5. \A i : InLedger(i)' <=> InLedger(i) \/ i = a
  <2>1. ToSet(ledger') = ToSet(ledger) \union {a}
    BY <1>4, Joined
  <2> QED BY <2>1 DEF InLedger
<1>6. /\ \A n \in DOMAIN ledger' : \/ n \in DOMAIN ledger /\ ledger'[n] = ledger[n]
                                   \/ n = Len(ledger) + 1 /\ ledger'[n] = a
      /\ Len(ledger) \in Nat /\ \A n \in DOMAIN ledger : n \in Nat /\ n <= Len(ledger) /\ n < Len(ledger) + 1
      /\ \A n \in DOMAIN ledger : ledger[n] \in Ids
  BY <1>4
<1>7. \A n \in DOMAIN ledger : ledger[n] # a
  BY <1>3 DEF InLedger, ToSet
<1>8. answer[a] # "recorded"
  BY <1>3 DEF AuditInv, RowInv, RecordedIsInLedger, InLedger
<1>9. \A i \in Ids, v \in Workers : Has(v, i)' <=> Has(v, i)
  BY <1>1 DEF Has, Living
<1>10. OneHolder'
  <2>1. \A i \in Ids, v, u \in Workers : Has(v, i)' /\ Has(u, i)' => v = u
    BY <1>9 DEF AuditInv, RowInv, OneHolder
  <2>2. \A i \in Ids, v \in Workers : Has(v, i)' => i < nextId' /\ i \notin ToSet(queue')
    BY <1>1, <1>9 DEF AuditInv, RowInv, OneHolder
  <2>3. \A v \in Workers : inFlight' # None /\ Has(v, inFlight)' => v = worker'
    <3>1. \A v \in Workers : Has(v, inFlight)' => Has(v, inFlight)
      BY <1>1 DEF Has, Living
    <3> QED BY <1>1, <3>1 DEF AuditInv, RowInv, OneHolder
  <2> QED BY <2>1, <2>2, <2>3 DEF OneHolder
<1>11. NotYetIn'
  <2>1. /\ \A i \in ToSet(queue') : ~InLedger(i)'
        /\ \A i \in Ids : InLedger(i)' => i < nextId'
    BY <1>1, <1>3, <1>5 DEF AuditInv, RowInv, NotYetIn
  <2>2. \A i \in Ids, v \in Workers : Has(v, i)' => (appended'[v] <=> InLedger(i)')
    <3> TAKE i \in Ids, v \in Workers
    <3> HAVE Has(v, i)'
    <3>1. Has(v, i)
      BY <1>9
    <3>2. CASE v = w
      <4>1. i = a
        <5>1. \A x, y : <<x>> = <<y>> => x = y
          OBVIOUS
        <5> QED BY <1>2, <3>1, <3>2, <5>1 DEF Has
      <4> QED BY <1>4, <1>5, <3>2, <4>1
    <3>3. CASE v # w
      <4>1. i # a
        BY <1>3, <3>1, <3>3 DEF AuditInv, RowInv, OneHolder
      <4> QED BY <1>4, <1>5, <3>1, <3>3, <4>1 DEF AuditInv, RowInv, NotYetIn
    <3> QED BY <3>2, <3>3
  <2> QED BY <2>1, <2>2 DEF NotYetIn
<1>12. UnloadedIsOut'
  <2>1. CASE worker = w /\ ~workerReady
    <3>1. outbox[w] # <<>> /\ Head(outbox[w]).kind = "ready"
      BY <1>1, <2>1, SaidReady
    <3> QED BY <1>1, <2>1, <3>1 DEF UnloadedIsOut
  <2>2. CASE worker # w
    <3>1. inFlight # a
      BY <1>3, <2>2
    <3>2. InLedger(inFlight)' => InLedger(inFlight)
      <4>1. InLedger(inFlight)' => inFlight \in ToSet(ledger')
        BY <1>1 DEF InLedger
      <4>2. ToSet(ledger') = ToSet(ledger) \union {a}
        BY <1>4, Joined
      <4> QED BY <3>1, <4>1, <4>2 DEF InLedger
    <3> QED BY <1>1, <2>2, <3>2 DEF AuditInv, RowInv, UnloadedIsOut
  <2> QED BY <1>1, <2>1, <2>2 DEF UnloadedIsOut
<1>13. ToldIsIn'
  <2>1. \A i : InLedger(i) => InLedger(i)'
    BY <1>5
  <2> QED BY <1>1, <2>1 DEF AuditInv, RowInv, ToldIsIn, IsResult, InLedger
<1>14. InFlightIsLast'
  <2> SUFFICES ASSUME NEW n \in DOMAIN ledger', ledger'[n] = inFlight,
                      NEW m \in DOMAIN ledger', answer[ledger'[m]] = "recorded"
               PROVE  m < n
    BY <1>1 DEF InFlightIsLast
  <2>1. m \in DOMAIN ledger /\ ledger'[m] = ledger[m]
    BY <1>6, <1>8
  <2>2. CASE n = Len(ledger) + 1
    BY <1>6, <2>1, <2>2
  <2>3. CASE n \in DOMAIN ledger /\ ledger'[n] = ledger[n]
    BY <2>1, <2>3 DEF AuditInv, RowInv, InFlightIsLast
  <2> QED BY <1>6, <2>2, <2>3
<1>15. RecordedIsInLedger'
  <2>1. \A i \in Ids : InLedger(i) => i \in ToSet(ledger')
    BY <1>5 DEF InLedger
  <2> QED BY <1>1, <2>1 DEF AuditInv, RowInv, RecordedIsInLedger, InLedger
<1>16. NoDoubleAppend'
  <2>1. \A m, n \in DOMAIN ledger : ledger[m] = ledger[n] => m = n
    BY DEF AuditInv, RowInv, NoDoubleAppend, IsInjective
  <2>2. \A m, n \in DOMAIN ledger' : ledger'[m] = ledger'[n] => m = n
    BY <1>6, <1>7, <2>1
  <2> QED BY <2>2 DEF NoDoubleAppend, IsInjective
<1>17. RecordedInOrder'
  <2> SUFFICES ASSUME NEW m \in DOMAIN ledger', NEW n \in DOMAIN ledger',
                      answer[ledger'[m]] = "recorded", answer[ledger'[n]] = "recorded", ledger'[m] < ledger'[n]
               PROVE  m < n
    BY <1>1 DEF RecordedInOrder
  <2>1. m \in DOMAIN ledger /\ n \in DOMAIN ledger /\ ledger'[m] = ledger[m] /\ ledger'[n] = ledger[n]
    BY <1>6, <1>8
  <2> QED BY <2>1 DEF AuditInv, RowInv, RecordedInOrder
<1>18. InOrder'
  BY <1>1, ThreadInOrder
<1> QED BY <1>10, <1>11, <1>12, <1>13, <1>14, <1>15, <1>16, <1>17, <1>18 DEF RowInv

LEMMA ThreadsRows ==
  ASSUME AuditInv, NEW w \in Workers,
         Boot(w) \/ AppendRow(w) \/ Reply(w) \/ CloseDatabase(w) \/ Die(w) \/ Terminated(w)
  PROVE  RowInv'
<1>0. UNCHANGED <<queue, inFlight, nextId, answer, worker, workerReady, started, closing>>
  BY DEF Boot, AppendRow, Reply, CloseDatabase, Die, Terminated, ThreadOnly, lane, thread, shutdown
<1>1. appended \in [Workers -> BOOLEAN]
  BY DEF AuditInv, LaneInv, TypeOK, ThreadsType
<1>2. CASE Reply(w)
  <2>1. PICK result \in Answers(w) : Post(w, [kind |-> "result", id |-> Head(inbox[w]), result |-> result])
    BY <1>2 DEF Reply
  <2>2. /\ life[w] = "running" /\ inbox[w] # <<>> /\ Head(inbox[w]) # CloseId /\ Take(w)
        /\ appended' = [appended EXCEPT ![w] = FALSE] /\ UNCHANGED <<life, ledger>>
    BY <1>2 DEF Reply, Working
  <2>3. result \in {"refused", "recorded"} /\ (result = "recorded" => appended[w])
    BY DEF Answers
  <2> DEFINE m == [kind |-> "result", id |-> Head(inbox[w]), result |-> result]
  <2>4. Head(inbox[w]) \in Ids
    BY <2>2, OneInbox DEF AuditInv, Facts
  <2>5. m \in Messages /\ IsResult(m) /\ m.id = Head(inbox[w]) /\ m.result = result
    BY <2>3, <2>4 DEF Messages, IsResult
  <2>6. appended'[w] = FALSE /\ \A v \in Workers \ {w} : appended'[v] = appended[v]
    BY <1>1, <2>2
  <2> HIDE DEF m
  <2> QED BY <1>0, <2>1, <2>2, <2>3, <2>5, <2>6, AnswerRows DEF m
<1>3. CASE CloseDatabase(w)
  <2>1. PICK result \in {"closed", "failed"} : Post(w, [kind |-> "result", id |-> CloseId, result |-> result])
    BY <1>3 DEF CloseDatabase
  <2>2. /\ life[w] = "running" /\ inbox[w] # <<>> /\ Head(inbox[w]) = CloseId /\ Take(w)
        /\ UNCHANGED <<appended, life, ledger>>
    BY <1>3 DEF CloseDatabase
  <2> DEFINE m == [kind |-> "result", id |-> CloseId, result |-> result]
  <2>3. m \in Messages /\ IsResult(m) /\ m.id = CloseId /\ m.result # "recorded"
    BY DEF Messages, IsResult
  <2>4. appended'[w] = FALSE /\ \A v \in Workers \ {w} : appended'[v] = appended[v]
    <3>1. ~appended[w]
      <4>1. \A i \in Ids : inbox[w] = <<i>> => Head(inbox[w]) # CloseId
        BY RequestsAssumption DEF Ids, CloseId
      <4> QED BY <2>2, <4>1 DEF AuditInv, PostInv, OneAsked
    <3> QED BY <1>1, <2>2, <3>1
  <2> HIDE DEF m
  <2> QED BY <1>0, <2>1, <2>2, <2>3, <2>4, AnswerRows DEF m
<1>4. CASE Die(w)
  BY <1>0, <1>4, StopsRows DEF Die
<1>5. CASE Terminated(w)
  <2>1. UNCHANGED <<ledger, outbox>>
    BY <1>5 DEF Terminated
  <2>2. CASE Stops(w)
    BY <1>0, <2>1, <2>2, StopsRows
  <2>3. CASE UNCHANGED <<life, inbox, appended>>
    BY <1>0, <2>1, <2>3, RowStays
  <2> QED BY <1>5, <2>2, <2>3 DEF Terminated
<1> QED BY <1>2, <1>3, <1>4, <1>5, BootRows, AppendRows

LEMMA InitRows == Init => RowInv
<1> SUFFICES ASSUME Init PROVE RowInv
  OBVIOUS
<1>1. /\ queue = <<>> /\ inFlight = None /\ worker = None /\ ledger = <<>>
      /\ \A i \in Ids : answer[i] = "none"
      /\ \A w \in Workers : \A i : ~Has(w, i)
  <2>1. \A i : <<i>> # <<>>
    OBVIOUS
  <2> QED BY <2>1 DEF Init, Has
<1>2. ToSet(queue) = {} /\ Outstanding = {} /\ ToSet(ledger) = {} /\ DOMAIN ledger = {} /\ DOMAIN queue = {}
  BY <1>1 DEF ToSet, Outstanding
<1>3. InOrder /\ OneHolder /\ NotYetIn
  BY <1>1, <1>2 DEF InOrder, OneHolder, NotYetIn, InLedger
<1> QED BY <1>1, <1>2, <1>3 DEF RowInv, UnloadedIsOut, ToldIsIn, InFlightIsLast, RecordedIsInLedger,
                                NoDoubleAppend, IsInjective, RecordedInOrder

LEMMA NextRows == AuditInv /\ [Next]_vars => RowInv'
<1> SUFFICES ASSUME AuditInv, [Next]_vars PROVE RowInv'
  OBVIOUS
<1>1. CASE UNCHANGED vars
  BY <1>1, RowStays DEF vars, lane, thread, threads
<1>2. CASE Next
  BY <1>2, CallsRows, ContinueRows, TimersRows, EventsRows, ThreadsRows DEF Next, Events, Thread
<1> QED BY <1>1, <1>2

\* The lane, what is posted and answered between it and its threads, and what
\* stands in the ledger agree, in every reachable state.
THEOREM AuditCorrect == Spec => []AuditInv
<1>1. Init => AuditInv
  BY InitLane, InitPost, InitRows DEF AuditInv
<1>2. AuditInv /\ [Next]_vars => AuditInv'
  BY NextLane, NextPost, NextRows DEF AuditInv, Facts
<1> QED BY <1>1, <1>2, PTL DEF Spec
-----------------------------------------------------------------------------
(* What a caller may believe of the ledger.                                *)

\* A caller told "recorded" has its row, whatever timed out, died, was sent
\* again or was answered late in between.
THEOREM RecordedCorrect == Spec => []RecordedIsInLedger
<1>1. AuditInv => RecordedIsInLedger
  BY DEF AuditInv, RowInv
<1> QED BY <1>1, AuditCorrect, PTL

\* No record is appended twice: the second delivery is only for a thread that
\* was never loaded.
THEOREM AppendedOnce == Spec => []NoDoubleAppend
<1>1. AuditInv => NoDoubleAppend
  BY DEF AuditInv, RowInv
<1> QED BY <1>1, AuditCorrect, PTL

\* Recorded actions stand in the ledger in the order they were asked.
THEOREM OrderCorrect == Spec => []RecordedInOrder
<1>1. AuditInv => RecordedInOrder
  BY DEF AuditInv, RowInv
<1> QED BY <1>1, AuditCorrect, PTL
=============================================================================
