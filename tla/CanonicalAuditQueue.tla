------------------------- MODULE CanonicalAuditQueue -------------------------
(***************************************************************************)
(* shell/canonical-audit-queue.cjs (the main process) and                  *)
(* shell/canonical-audit-worker.cjs (the thread that appends to the signed *)
(* ledger).  The main process hands the thread one record at a time, turns *)
(* a timeout or a dead thread into a refusal, and drains on close().       *)
(*                                                                         *)
(* The main process is single threaded: a handler runs to its end before   *)
(* the next one starts.  Handlers that end in pump() leave pumpDue, and    *)
(* waking the retirement leaves a continuation that runs next: until both  *)
(* are done no other handler of the main process runs (Free).  The worker  *)
(* threads run beside it.  Two facts about node are assumed: what a thread *)
(* posted is delivered before its death is reported, and terminate() is a  *)
(* request, so a thread inside a native call goes on until it returns.     *)
(***************************************************************************)
EXTENDS Integers, Sequences, FiniteSets, SequencesExt

CONSTANTS MaxRequests,  \* bound: how many records are asked for
          None          \* no worker, no record in flight

ASSUME RequestsAssumption == MaxRequests \in Nat
ASSUME NoneAssumption == None \notin Nat

Ids == 1 .. MaxRequests
\* A worker is started for a request taken off the queue, and once more for
\* the source fallback.
Workers == 1 .. MaxRequests + 1
CloseId == 0

VARIABLES
  \* createCanonicalAuditQueue
  queue, inFlight, nextId, worker, workerReady, sourceFallbackUsed, started,
  closed,
  retirement,   \* no, waiting, woken or closing
  closing,      \* no, draining, asking, stopping or done
  verdict,      \* what close() will answer if every thread stops: ok or failed
  terminations, \* workers whose terminate() has not settled
  stopFailed,   \* whether any terminate() was rejected
  pumpDue,      \* the running handler has yet to call pump()
  \* the worker threads
  life, inbox, appended, outbox,
  \* the ledger file, and what the callers were told
  ledger, answer,
  closedBy      \* who closed the queue first: nobody, caller or retirement

lane == <<queue, inFlight>>
thread == <<worker, workerReady, sourceFallbackUsed, started>>
ending == <<terminations, stopFailed>>
shutdown == <<closed, closing, verdict, closedBy>>
threads == <<life, inbox, appended, outbox>>
vars == <<lane, nextId, thread, ending, shutdown, retirement, pumpDue, threads,
          ledger, answer>>

Idle == inFlight = None /\ queue = <<>>
Free == ~pumpDue /\ retirement # "woken"
Living(w) == life[w] \in {"starting", "running"}
-----------------------------------------------------------------------------
Init == /\ queue = <<>> /\ inFlight = None /\ nextId = 1
        /\ worker = None /\ workerReady = FALSE /\ sourceFallbackUsed = FALSE
        /\ started = 0
        /\ closed = FALSE /\ retirement = "no" /\ closing = "no" /\ verdict = "ok"
        /\ terminations = {} /\ stopFailed = FALSE /\ pumpDue = FALSE
        /\ life = [w \in Workers |-> "unborn"]
        /\ inbox = [w \in Workers |-> <<>>]
        /\ appended = [w \in Workers |-> FALSE]
        /\ outbox = [w \in Workers |-> <<>>]
        /\ ledger = <<>>
        /\ answer = [i \in Ids |-> "none"]
        /\ closedBy = "nobody"

\* settle the entries of a set with one answer; a promise settles once.
Settled(ids, result) == [i \in Ids |-> IF i \in ids /\ answer[i] = "none"
                                         THEN result ELSE answer[i]]

\* notifyIdle: an idle lane wakes retireWhenIdle.
NotifyIdle == retirement' = IF queue' = <<>> /\ inFlight' = None /\ retirement = "waiting"
                              THEN "woken" ELSE retirement

\* Mutants: the queue is dropped unanswered; nobody is told the lane is idle.
OutstandingInFlight == {inFlight} \ {None}
FailEverythingSilently(result) == /\ answer' = Settled(ToSet(queue) \union ({inFlight} \ {None}), result)
                                  /\ queue' = <<>> /\ inFlight' = None
                                  /\ UNCHANGED retirement

\* failEverything: in flight or queued, everybody is told the same.
Outstanding == ToSet(queue) \union ({inFlight} \ {None})
FailEverything(result) == /\ answer' = Settled(Outstanding, result)
                          /\ queue' = <<>> /\ inFlight' = None
                          /\ NotifyIdle

\* What a thread without listeners has posted, or will post, goes nowhere.
Unheard(w) == outbox' = IF w = None THEN outbox ELSE [outbox EXCEPT ![w] = <<>>]

\* Mutant: only the latest termination is kept.
DisposeWorkerForgetting == /\ worker' = None /\ workerReady' = FALSE /\ Unheard(worker)
                           /\ terminations' = {worker} \ {None}
                           /\ UNCHANGED stopFailed

\* disposeWorker: the slot is freed at once, its listeners removed, and the
\* thread is asked to stop.
DisposeWorker == /\ worker' = None /\ workerReady' = FALSE /\ Unheard(worker)
                 /\ terminations' = terminations \union ({worker} \ {None})
                 /\ UNCHANGED stopFailed
-----------------------------------------------------------------------------
(* The caller.                                                             *)
Accepting == ~closed /\ retirement = "no"

\* record, recordBatch and findEvents: enqueue pushes the entry and pumps.
Record ==
  /\ Free /\ nextId <= MaxRequests
  /\ nextId' = nextId + 1
  /\ IF Accepting
       THEN queue' = Append(queue, nextId) /\ pumpDue' = TRUE /\ UNCHANGED answer
       ELSE answer' = Settled({nextId}, "refused") /\ UNCHANGED <<queue, pumpDue>>
  /\ UNCHANGED <<inFlight, thread, ending, shutdown, retirement, threads, ledger>>

\* Once drained, close() asks a living worker to let go of the database, and
\* otherwise only waits for the threads that are being stopped.
AfterDrain == IF worker = None
                THEN closing' = "stopping" /\ UNCHANGED inbox
                ELSE /\ closing' = "asking"
                     /\ inbox' = [inbox EXCEPT ![worker] = Append(@, CloseId)]

StartClose(who) ==
  /\ closing = "no"
  /\ closed' = TRUE /\ closedBy' = who
  /\ IF Idle THEN AfterDrain ELSE closing' = "draining" /\ UNCHANGED inbox
  /\ UNCHANGED <<lane, nextId, thread, ending, verdict, pumpDue, life, appended,
                 outbox, ledger, answer>>

Close == Free /\ StartClose("caller") /\ UNCHANGED retirement

\* retirement closes the lane, or shares the close that is already under way.
CloseOrShare ==
  \/ StartClose("retirement")
  \/ /\ closing # "no"
     /\ UNCHANGED <<lane, nextId, thread, ending, shutdown, pumpDue, threads,
                    ledger, answer>>

\* Mutant: retirement does not wait for the record in flight.
MustWaitForQueue == queue # <<>>

MustWait == ~Idle

\* retireWhenIdle closes an idle lane at once, and otherwise waits for it.
RetireWhenIdle ==
  /\ Free /\ retirement = "no"
  /\ IF MustWait THEN /\ retirement' = "waiting"
                      /\ UNCHANGED <<lane, nextId, thread, ending, shutdown, pumpDue,
                                     threads, ledger, answer>>
                 ELSE retirement' = "closing" /\ CloseOrShare

RetirementCloses == /\ ~pumpDue /\ retirement = "woken"
                    /\ retirement' = "closing" /\ CloseOrShare
-----------------------------------------------------------------------------
(* pump and ensureWorker.                                                  *)

\* The worker to post to: the present one, or a new one.
Instance == IF worker = None THEN started + 1 ELSE worker

\* A constructor that throws uses up the source fallback, and the new worker is
\* then started from source.
EnsureWorker(ready, fallback) ==
  IF worker # None
    THEN /\ ready = workerReady /\ fallback = sourceFallbackUsed
         /\ UNCHANGED <<started, life>>
    ELSE /\ ready = FALSE /\ (sourceFallbackUsed => fallback)
         /\ started' = started + 1
         /\ life' = [life EXCEPT ![started + 1] = "starting"]

\* Nothing to send, or the slot is taken.
PumpNothing ==
  /\ pumpDue /\ (inFlight # None \/ queue = <<>>)
  /\ pumpDue' = FALSE
  /\ UNCHANGED lane /\ NotifyIdle
  /\ UNCHANGED <<nextId, thread, ending, shutdown, threads, ledger, answer>>

\* Every way to construct the worker throws.
PumpCannotStart ==
  /\ pumpDue /\ inFlight = None /\ queue # <<>> /\ worker = None
  /\ pumpDue' = FALSE /\ sourceFallbackUsed' = TRUE
  /\ FailEverything("refused")
  /\ UNCHANGED <<nextId, worker, workerReady, started, ending, shutdown, threads,
                 ledger>>

\* The head of the queue is posted and its timer armed.
PumpSend ==
  /\ pumpDue /\ inFlight = None /\ queue # <<>>
  /\ \E ready, fallback \in BOOLEAN :
       /\ EnsureWorker(ready, fallback)
       /\ workerReady' = ready /\ sourceFallbackUsed' = fallback
  /\ worker' = Instance
  /\ inFlight' = Head(queue) /\ queue' = Tail(queue)
  /\ inbox' = [inbox EXCEPT ![Instance] = Append(@, Head(queue))]
  /\ pumpDue' = FALSE
  /\ UNCHANGED <<nextId, ending, shutdown, retirement, appended, outbox, ledger, answer>>

\* postMessage throws: this entry is refused, its worker goes, and pump goes on.
PumpCannotPost ==
  /\ pumpDue /\ inFlight = None /\ queue # <<>>
  /\ \E ready, fallback \in BOOLEAN :
       /\ EnsureWorker(ready, fallback)
       /\ sourceFallbackUsed' = fallback
  /\ worker' = None /\ workerReady' = FALSE
  /\ terminations' = terminations \union {Instance} /\ Unheard(Instance)
  /\ answer' = Settled({Head(queue)}, "refused")
  /\ queue' = Tail(queue)
  /\ UNCHANGED <<inFlight, nextId, stopFailed, shutdown, retirement, pumpDue, inbox,
                 appended, ledger>>
-----------------------------------------------------------------------------
(* Events of the worker.  Only the present worker has listeners.           *)
Heard(w, kind) == /\ Free /\ worker = w /\ outbox[w] # <<>>
                  /\ Head(outbox[w]).kind = kind
Consume(w) == outbox' = [outbox EXCEPT ![w] = Tail(@)]

ReadyMessage(w) ==
  /\ Heard(w, "ready") /\ Consume(w)
  /\ workerReady' = TRUE
  /\ UNCHANGED <<lane, nextId, worker, sourceFallbackUsed, started, ending, shutdown,
                 retirement, pumpDue, life, inbox, appended, ledger, answer>>

\* An answer to anything but the record in flight is ignored.
ResultMessage(w) ==
  /\ Heard(w, "result") /\ Head(outbox[w]).id # CloseId
  /\ Consume(w)
  /\ IF inFlight = Head(outbox[w]).id
       THEN /\ inFlight' = None /\ pumpDue' = TRUE
            /\ answer' = Settled({inFlight}, Head(outbox[w]).result)
       ELSE UNCHANGED <<inFlight, pumpDue, answer>>
  /\ UNCHANGED <<queue, nextId, thread, ending, shutdown, retirement, life, inbox,
                 appended, ledger>>

\* The thread's answer to close(): the worker goes, its threads are awaited.
ClosedMessage(w) ==
  /\ Heard(w, "result") /\ Head(outbox[w]).id = CloseId
  /\ closing = "asking"
  /\ DisposeWorker
  /\ closing' = "stopping"
  /\ verdict' = IF Head(outbox[w]).result = "closed" THEN "ok" ELSE "failed"
  /\ UNCHANGED <<lane, nextId, sourceFallbackUsed, started, closed, closedBy, retirement,
                 pumpDue, life, inbox, appended, ledger, answer>>

\* Mutants: a record may be sent again although the thread was ready; it goes
\* to the end of the queue.
NeverLoadedUnasked == ~sourceFallbackUsed
RequeuedLast == IF inFlight = None THEN queue ELSE Append(queue, inFlight)

NeverLoaded == ~workerReady /\ ~sourceFallbackUsed
Requeued == IF inFlight = None THEN queue ELSE <<inFlight>> \o queue

\* retryOrFail, on error or exit: a thread that died before it was ready is
\* replaced once and its record sent again; any other death refuses everything.
WorkerGone(w) ==
  /\ Free /\ worker = w /\ life[w] = "dead" /\ outbox[w] = <<>>
  /\ DisposeWorker
  /\ IF NeverLoaded
       THEN /\ sourceFallbackUsed' = TRUE
            /\ queue' = Requeued
            /\ inFlight' = None
            /\ pumpDue' = TRUE
            /\ UNCHANGED <<answer, retirement>>
       ELSE /\ FailEverything("refused")
            /\ UNCHANGED <<sourceFallbackUsed, pumpDue>>
  /\ UNCHANGED <<nextId, started, shutdown, life, inbox, appended, ledger>>
-----------------------------------------------------------------------------
(* Timers.                                                                 *)
\* The record in flight exceeded timeoutMs: it and all behind it are refused.
RequestTimeout ==
  /\ Free /\ inFlight # None
  /\ DisposeWorker /\ FailEverything("refused")
  /\ UNCHANGED <<nextId, sourceFallbackUsed, started, shutdown, pumpDue, life, inbox,
                 appended, ledger>>

\* The 5 ms poll of close() finds the lane drained.
DrainCheck ==
  /\ Free /\ closing = "draining" /\ Idle
  /\ AfterDrain
  /\ UNCHANGED <<lane, nextId, thread, ending, closed, verdict, closedBy, retirement,
                 pumpDue, life, appended, outbox, ledger, answer>>

\* flushMs passed first.
DrainDeadline ==
  /\ Free /\ closing = "draining"
  /\ closing' = "stopping" /\ verdict' = "failed"
  /\ FailEverything("cut off") /\ DisposeWorker
  /\ UNCHANGED <<nextId, sourceFallbackUsed, started, closed, closedBy, pumpDue, life,
                 inbox, appended, ledger>>

\* No answer to the close request within flushMs, or it could not be posted.
AskDeadline ==
  /\ Free /\ closing = "asking"
  /\ closing' = "stopping" /\ verdict' = "failed"
  /\ DisposeWorker
  /\ UNCHANGED <<lane, nextId, sourceFallbackUsed, started, closed, closedBy, retirement,
                 pumpDue, life, inbox, appended, ledger, answer>>

\* finishTerminations: close() answers when every terminate() has settled.
CloseAnswers ==
  /\ Free /\ closing = "stopping" /\ terminations = {}
  /\ closing' = "done"
  /\ verdict' = IF stopFailed THEN "failed" ELSE verdict
  /\ UNCHANGED <<lane, nextId, thread, ending, closed, closedBy, retirement, pumpDue,
                 threads, ledger, answer>>
-----------------------------------------------------------------------------
(* The worker threads.                                                     *)
ThreadOnly == UNCHANGED <<lane, nextId, thread, ending, shutdown, retirement, pumpDue,
                          answer>>

Post(w, message) == outbox' = IF worker = w THEN [outbox EXCEPT ![w] = Append(@, message)]
                                            ELSE outbox
Take(w) == inbox' = [inbox EXCEPT ![w] = Tail(@)]
Working(w) == life[w] = "running" /\ inbox[w] # <<>> /\ Head(inbox[w]) # CloseId

Stops(w) == /\ life' = [life EXCEPT ![w] = "dead"]
            /\ inbox' = [inbox EXCEPT ![w] = <<>>]
            /\ appended' = [appended EXCEPT ![w] = FALSE]

\* The entry file is loaded and the thread says so.
Boot(w) == /\ life[w] = "starting"
           /\ life' = [life EXCEPT ![w] = "running"]
           /\ Post(w, [kind |-> "ready", id |-> CloseId, result |-> "none"])
           /\ ThreadOnly /\ UNCHANGED <<inbox, appended, ledger>>

\* requireRecord reaches the point where the row is in the ledger file.
AppendRow(w) == /\ Working(w) /\ ~appended[w]
                /\ ledger' = Append(ledger, Head(inbox[w]))
                /\ appended' = [appended EXCEPT ![w] = TRUE]
                /\ ThreadOnly /\ UNCHANGED <<life, inbox, outbox>>

\* Mutant: an answer that claims the row before it is in.
AnswersEager(w) == {"refused", "recorded"}

\* A receipt is answered only for a row that is in.  "refused" is every answer
\* that claims no row.
Answers(w) == {"refused"} \union (IF appended[w] THEN {"recorded"} ELSE {})

\* It returns a receipt, or throws (after the row is in, or before).
Reply(w) == /\ Working(w)
            /\ \E result \in Answers(w) :
                 Post(w, [kind |-> "result", id |-> Head(inbox[w]), result |-> result])
            /\ Take(w)
            /\ appended' = [appended EXCEPT ![w] = FALSE]
            /\ ThreadOnly /\ UNCHANGED <<life, ledger>>

\* The worker's close(): the database closes, or it says why not.
CloseDatabase(w) ==
  /\ life[w] = "running" /\ inbox[w] # <<>> /\ Head(inbox[w]) = CloseId
  /\ \E result \in {"closed", "failed"} :
       Post(w, [kind |-> "result", id |-> CloseId, result |-> result])
  /\ Take(w)
  /\ ThreadOnly /\ UNCHANGED <<life, appended, ledger>>

\* The thread dies by itself, in any state.
Die(w) == /\ Living(w) /\ Stops(w)
          /\ ThreadOnly /\ UNCHANGED <<outbox, ledger>>

\* terminate() settles: the thread has stopped, or it could not be stopped.
Terminated(w) ==
  /\ w \in terminations
  /\ terminations' = terminations \ {w}
  /\ \/ Stops(w) /\ UNCHANGED stopFailed
     \/ stopFailed' = TRUE /\ UNCHANGED <<life, inbox, appended>>
  /\ UNCHANGED <<lane, nextId, thread, shutdown, retirement, pumpDue, outbox, ledger, answer>>
-----------------------------------------------------------------------------
Calls == Record \/ RetireWhenIdle \/ Close
Events == \E w \in Workers : ReadyMessage(w) \/ ResultMessage(w) \/ ClosedMessage(w) \/ WorkerGone(w)
Timers == RequestTimeout \/ DrainCheck \/ DrainDeadline \/ AskDeadline
Continue == PumpNothing \/ PumpCannotStart \/ PumpSend \/ PumpCannotPost
            \/ RetirementCloses \/ CloseAnswers
Thread == \E w \in Workers : Boot(w) \/ AppendRow(w) \/ Reply(w) \/ CloseDatabase(w) \/ Die(w)

Next == Calls \/ Events \/ Timers \/ Continue \/ Thread
        \/ \E w \in Workers : Terminated(w)

Spec == Init /\ [][Next]_vars

\* The event loop serves what is due.  Nothing is asked of the threads.
FairSpec == Spec /\ WF_vars(Continue) /\ WF_vars(Events) /\ WF_vars(RequestTimeout)
                 /\ WF_vars(DrainCheck) /\ WF_vars(DrainDeadline) /\ WF_vars(AskDeadline)

\* Every terminate() settles some day.
Stopping == \A w \in Workers : WF_vars(Terminated(w))
-----------------------------------------------------------------------------
Results == {"none", "recorded", "refused", "cut off"}
Messages == [kind : {"ready"}, id : {CloseId}, result : {"none"}]
            \union [kind : {"result"}, id : Ids, result : {"recorded", "refused"}]
            \union [kind : {"result"}, id : {CloseId}, result : {"closed", "failed"}]

LaneType ==
  /\ queue \in Seq(Ids) /\ inFlight \in Ids \union {None}
  /\ nextId \in 1 .. MaxRequests + 1
  /\ worker \in Workers \union {None} /\ workerReady \in BOOLEAN
  /\ sourceFallbackUsed \in BOOLEAN /\ started \in 0 .. MaxRequests + 1
  /\ pumpDue \in BOOLEAN

ShutdownType ==
  /\ closed \in BOOLEAN /\ closedBy \in {"nobody", "caller", "retirement"}
  /\ retirement \in {"no", "waiting", "woken", "closing"}
  /\ closing \in {"no", "draining", "asking", "stopping", "done"}
  /\ verdict \in {"ok", "failed"}
  /\ terminations \subseteq Workers /\ stopFailed \in BOOLEAN

ThreadsType ==
  /\ life \in [Workers -> {"unborn", "starting", "running", "dead"}]
  /\ inbox \in [Workers -> Seq(Ids \union {CloseId})]
  /\ appended \in [Workers -> BOOLEAN]
  /\ outbox \in [Workers -> Seq(Messages)]
  /\ ledger \in Seq(Ids)
  /\ answer \in [Ids -> Results]

\* Type correctness of the lane, the shutdown, the threads and the ledger.
TypeOK == LaneType /\ ShutdownType /\ ThreadsType

\* Rule 2 of the queue: a caller is told "recorded" only for a row the ledger
\* holds, whatever timed out, died or was sent again in between.
RecordedIsInLedger == \A i \in Ids : answer[i] = "recorded" => i \in ToSet(ledger)

\* retryOrFail's second delivery never appends a row a second time.
NoDoubleAppend == IsInjective(ledger)

\* Rule 1: recorded actions stand in the ledger in the order they were asked.
RecordedInOrder ==
  \A m, n \in DOMAIN ledger :
    (/\ answer[ledger[m]] = "recorded" /\ answer[ledger[n]] = "recorded"
     /\ ledger[m] < ledger[n]) => m < n

\* A close that answers ok left no thread behind that could still hold the
\* database file or write to it, workers replaced long before included.
CloseTruth == (closing = "done" /\ verdict = "ok") => \A w \in Workers : ~Living(w)

\* Retirement lets admitted requests settle by themselves: only a caller's
\* close() can cut a request off at the drain deadline.
RetirementNeverCutsOff ==
  (\E i \in Ids : answer[i] = "cut off") => closedBy = "caller"

\* Rule 3: every request is answered, whatever the thread does, even nothing.
EveryRequestAnswered == \A i \in Ids : nextId > i ~> answer[i] # "none"

\* close() and retireWhenIdle() answer when every terminate() settles.
ShutdownCompletes == Stopping => (closed \/ retirement # "no" ~> closing = "done")
=============================================================================
