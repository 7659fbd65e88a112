---------------------------- MODULE TreeNodeCommand ----------------------------
(***************************************************************************)
(* shell/tree-node-command-broker.cjs over the file spool of               *)
(* shell/tree-node-command.cjs, as shell/main.cjs composes them.  A        *)
(* coordinator writes a request file and launches the application with its *)
(* id; the running instance claims the request by creating a claim file,   *)
(* hands it to the window, and writes the one immutable result file.  A    *)
(* launch that cannot run writes a refusal through the same claim.         *)
(*                                                                         *)
(* The main process is single threaded.  While pump() runs its loop        *)
(* (Looping) no other handler of the process runs; the loop stops running  *)
(* at its awaits, which are publications.  A claim, a dispatch and one     *)
(* attempt to write a result are each synchronous.                         *)
(***************************************************************************)
EXTENDS Integers, Sequences, FiniteSets, SequencesExt

CONSTANTS Requests,     \* request ids, each with its file in the spool
          Circles,      \* circles of the tree a start may be bound to
          MaxKnown,     \* maxKnownRequestIds
          MaxAttempts,  \* 1 + retryDelaysMs.length
          MaxRestarts,  \* bound: how often the application starts again
          MaxWakes,     \* bound: how many launches arrive
          None

ASSUME KnownAssumption == MaxKnown \in Nat \ {0}
ASSUME AttemptsAssumption == MaxAttempts \in Nat \ {0}
ASSUME RestartsAssumption == MaxRestarts \in Nat
ASSUME WakesAssumption == MaxWakes \in Nat
ASSUME NoneAssumption == None \notin Requests /\ None \notin Circles

VARIABLES
  \* the spool
  claimed,      \* requests with a claim file
  result,       \* the result file of each request, or "none"
  \* the broker
  up, queue, known, rendererReady, disposed, pumping,
  active,       \* the request in the slot
  circle,       \* slot.nodeId
  expired,      \* now() has reached slot.expiresAt
  publishing, outcome, attempt,  \* publishWithRetry: for whom, what, which try
  \* the window and the starts under way in the main process
  held,         \* requests the present document was handed and has not answered
  contexts,     \* starts that passed their admission: <<request, circle>>
  \* what happened: dispatches to a window, sessions started, and the bounds
  sent, sessions, restarts, wakes

spool == <<claimed, result>>
slot == <<active, circle, expired>>
publication == <<publishing, outcome, attempt>>
lane == <<queue, known>>
flags == <<up, rendererReady, disposed>>
starts == <<contexts, sessions>>
bounds == <<restarts, wakes>>
vars == <<spool, slot, publication, lane, flags, pumping, held, starts, sent, bounds>>

Codes == {"completed", "refused", "timeout", "reloaded", "unavailable", "not launched"}

Looping == pumping /\ publishing = None
Free == up /\ ~Looping
-----------------------------------------------------------------------------
BrokerInit == /\ queue = <<>> /\ known = <<>> /\ rendererReady = FALSE
              /\ disposed = FALSE /\ pumping = FALSE
              /\ active = None /\ circle = None /\ expired = FALSE
              /\ publishing = None /\ outcome = "none" /\ attempt = 0
              /\ held = {} /\ contexts = {}

Init == /\ claimed = {} /\ result = [r \in Requests |-> "none"] /\ up = TRUE
        /\ BrokerInit
        /\ sent = [r \in Requests |-> 0] /\ sessions = {}
        /\ restarts = 0 /\ wakes = 0

\* pump() does nothing while another pump or a publication is under way.
Pump == pumping' = (pumping \/ (publishing = None /\ ~disposed))
-----------------------------------------------------------------------------
(* claimTreeNodeCommand and publishTreeNodeCommandResult.                  *)
\* Mutant: an existing claim file is overwritten.
ClaimableAgain(r) == result[r] = "none"

\* Only the creator of the claim file has the request, and a completed one has
\* nothing to claim.
Claimable(r) == r \notin claimed /\ result[r] = "none"

\* A result is written once.  Another one is a conflict.
Writable(r, code) == result[r] \in {"none", code}
Written(r, code) == [result EXCEPT ![r] = code]

\* Mutant: a refusal is written whether or not the request is claimed.
RefuseUnclaimed(r) ==
  IF result[r] = "none" THEN result' = Written(r, "not launched") /\ UNCHANGED claimed
                        ELSE UNCHANGED spool

\* A refusal for a launch that cannot run.  Nothing is written when the request
\* cannot be located or is not claimable; a claim whose check fails stays; a
\* result that cannot be published, or not be checked, gives the claim back.
RefuseLaunch(r) ==
  \/ UNCHANGED spool
  \/ Claimable(r) /\ claimed' = claimed \union {r} /\ UNCHANGED result
  \/ Claimable(r) /\ claimed' = claimed \union {r} /\ result' = Written(r, "not launched")
  \/ Claimable(r) /\ UNCHANGED claimed /\ result' = Written(r, "not launched")
-----------------------------------------------------------------------------
(* Launches.                                                               *)
Wake(r) == /\ wakes < MaxWakes
           /\ wakes' = wakes + 1
           /\ UNCHANGED <<restarts, sent, starts, held, up, rendererReady, disposed>>

\* The memory of ids drops its oldest above the ceiling.
Remembered(ids) == IF Len(ids) > MaxKnown THEN Tail(ids) ELSE ids

\* queueRequest accepts an id it does not know, once.
QueueRequest(r) ==
  /\ Free /\ Wake(r) /\ ~disposed /\ r \notin ToSet(known)
  /\ known' = Remembered(Append(known, r))
  /\ queue' = Append(queue, r)
  /\ Pump
  /\ UNCHANGED <<spool, slot, publication>>

\* queueRequestOrRefuse: only a disposed broker refuses; a known id is ignored.
QueueRefused(r) ==
  /\ Free /\ Wake(r) /\ (disposed \/ r \in ToSet(known))
  /\ IF disposed THEN RefuseLaunch(r) ELSE UNCHANGED spool
  /\ UNCHANGED <<slot, publication, lane, pumping>>

\* A launch whose arguments are refused but which names a request.
BadLaunch(r) == /\ Free /\ Wake(r) /\ RefuseLaunch(r)
                /\ UNCHANGED <<slot, publication, lane, pumping>>

\* No instance is running: the helper itself refuses, and may die doing so.
LaunchWithoutPrimary(r) == /\ ~up /\ Wake(r) /\ RefuseLaunch(r)
                           /\ UNCHANGED <<slot, publication, lane, pumping>>
-----------------------------------------------------------------------------
(* settleActive and pump.                                                  *)
Settle(r, code) ==
  /\ active' = None /\ circle' = None /\ expired' = FALSE
  /\ publishing' = r /\ outcome' = code /\ attempt' = 1

\* The head of the queue cannot be located or claimed, or its claim cannot be
\* checked: it is dropped.
PumpDrops ==
  /\ up /\ Looping /\ rendererReady /\ active = None /\ queue # <<>> /\ ~disposed
  /\ queue' = Tail(queue)
  /\ \/ UNCHANGED claimed
     \/ Claimable(Head(queue)) /\ claimed' = claimed \union {Head(queue)}
  /\ UNCHANGED <<result, slot, publication, known, flags, pumping, held, starts, sent, bounds>>

\* It is claimed, and handed to the window; or it has expired; or the window
\* is not there.
PumpClaims ==
  /\ up /\ Looping /\ rendererReady /\ active = None /\ queue # <<>> /\ ~disposed
  /\ Claimable(Head(queue))
  /\ queue' = Tail(queue)
  /\ claimed' = claimed \union {Head(queue)}
  /\ \/ /\ active' = Head(queue)
        /\ sent' = [sent EXCEPT ![Head(queue)] = @ + 1]
        /\ held' = held \union {Head(queue)}
        /\ UNCHANGED <<circle, expired, publication>>
     \/ /\ \E code \in {"timeout", "unavailable"} : Settle(Head(queue), code)
        /\ UNCHANGED <<sent, held>>
  /\ UNCHANGED <<result, known, flags, pumping, starts, bounds>>

PumpStops ==
  /\ up /\ Looping /\ ~(rendererReady /\ active = None /\ queue # <<>> /\ ~disposed)
  /\ pumping' = FALSE
  /\ UNCHANGED <<spool, slot, publication, lane, flags, held, starts, sent, bounds>>

\* Mutant: the pump is not called again after a publication.
PumpForgotten == UNCHANGED pumping

PumpNext == pumping' = (pumping \/ ~disposed)
TriesLeft == attempt < MaxAttempts

PublicationOver == /\ publishing' = None /\ outcome' = "none" /\ attempt' = 0
                   /\ PumpNext

\* The result is in the spool and checked.
Publish ==
  /\ up /\ publishing # None
  /\ Writable(publishing, outcome)
  /\ result' = Written(publishing, outcome)
  /\ PublicationOver
  /\ UNCHANGED <<claimed, slot, lane, flags, held, starts, sent, bounds>>

\* It could not be written, or not be checked: tried again until given up.
PublishFails ==
  /\ up /\ publishing # None
  /\ \/ UNCHANGED result
     \/ Writable(publishing, outcome) /\ result' = Written(publishing, outcome)
  /\ IF TriesLeft
       THEN attempt' = attempt + 1 /\ UNCHANGED <<publishing, outcome, pumping>>
       ELSE PublicationOver
  /\ UNCHANGED <<claimed, slot, lane, flags, held, starts, sent, bounds>>
-----------------------------------------------------------------------------
(* What settles the slot.                                                  *)
\* complete: the window answers a request it holds; any but the active one is
\* a mismatch.
Complete(r) ==
  /\ Free /\ r \in held
  /\ held' = held \ {r}
  /\ IF active = r THEN \E code \in {"completed", "refused"} : Settle(r, code)
                   ELSE UNCHANGED <<slot, publication>>
  /\ UNCHANGED <<spool, lane, flags, pumping, starts, sent, bounds>>

ClockPasses ==
  /\ up /\ active # None /\ ~expired /\ expired' = TRUE
  /\ UNCHANGED <<spool, active, circle, publication, lane, flags, pumping, held, starts,
                 sent, bounds>>

Timeout ==
  /\ Free /\ active # None /\ expired
  /\ Settle(active, "timeout")
  /\ UNCHANGED <<spool, lane, flags, pumping, held, starts, sent, bounds>>

\* Mutant: a lost answer is reported as a window that was not there.
LostAnswerUnavailable == "unavailable"

LostAnswer == "reloaded"

\* The document is replaced, or the window closed: its queue is lost.
RendererReloaded ==
  /\ Free /\ rendererReady' = FALSE /\ held' = {}
  /\ IF active = None THEN UNCHANGED <<slot, publication>>
                      ELSE Settle(active, LostAnswer)
  /\ UNCHANGED <<spool, lane, up, disposed, pumping, starts, sent, bounds>>

RendererReady ==
  /\ Free /\ rendererReady' = TRUE /\ Pump
  /\ UNCHANGED <<spool, slot, publication, lane, up, disposed, held, starts, sent, bounds>>

\* Adding to a Set that keeps its insertion order.
AddOnce(ids, r) == IF r \in ToSet(ids) THEN ids ELSE Append(ids, r)

\* The heap guard: everything but the queue and the slot is forgotten.
ForgetKnownRequests ==
  /\ Free
  /\ known' = FoldLeft(AddOnce, <<>>, queue \o (IF active = None THEN <<>> ELSE <<active>>))
  /\ UNCHANGED <<spool, slot, publication, queue, flags, pumping, held, starts, sent, bounds>>

Dispose ==
  /\ Free /\ ~disposed
  /\ disposed' = TRUE /\ rendererReady' = FALSE
  /\ queue' = <<>> /\ known' = <<>>
  /\ active' = None /\ circle' = None /\ expired' = FALSE
  /\ UNCHANGED <<spool, publication, up, pumping, held, starts, sent, bounds>>
-----------------------------------------------------------------------------
(* startContext, as treeCommandStartAdmission of shell/main.cjs uses it.   *)
\* Mutants: the slot is not compared; a second circle is bound.
CurrentAnySlot(r, c) == ~disposed /\ circle \in {None, c}
CurrentAnyCircle(r, c) == ~disposed /\ active = r /\ ~expired

\* assertCurrent and bindNode.
Current(r, c) == /\ ~disposed /\ active = r /\ ~expired
                 /\ circle \in {None, c}

BeginStart(r, c) ==
  /\ Free /\ active = r /\ Current(r, c)
  /\ circle' = c /\ contexts' = contexts \union {<<r, c>>}
  /\ UNCHANGED <<spool, active, expired, publication, lane, flags, pumping, held, sessions,
                 sent, bounds>>

DispatchStart(r, c) ==
  /\ Free /\ <<r, c>> \in contexts /\ Current(r, c)
  /\ contexts' = contexts \ {<<r, c>>} /\ sessions' = sessions \union {<<r, c>>}
  /\ UNCHANGED <<spool, slot, publication, lane, flags, pumping, held, sent, bounds>>

\* The check fails, or something else does.
AbandonStart(r, c) ==
  /\ Free /\ <<r, c>> \in contexts
  /\ contexts' = contexts \ {<<r, c>>}
  /\ UNCHANGED <<spool, slot, publication, lane, flags, pumping, held, sessions, sent, bounds>>
-----------------------------------------------------------------------------
\* The process ends, and may be started again: only the spool is left.
ProcessEnds ==
  /\ up /\ up' = FALSE
  /\ queue' = <<>> /\ known' = <<>> /\ rendererReady' = FALSE
  /\ disposed' = FALSE /\ pumping' = FALSE
  /\ active' = None /\ circle' = None /\ expired' = FALSE
  /\ publishing' = None /\ outcome' = "none" /\ attempt' = 0
  /\ held' = {} /\ contexts' = {}
  /\ UNCHANGED <<spool, sessions, sent, bounds>>

ProcessStarts ==
  /\ ~up /\ restarts < MaxRestarts
  /\ up' = TRUE /\ restarts' = restarts + 1
  /\ UNCHANGED <<spool, slot, publication, lane, rendererReady, disposed, pumping, held,
                 starts, sent, wakes>>
-----------------------------------------------------------------------------
Launch == \E r \in Requests : QueueRequest(r) \/ QueueRefused(r) \/ BadLaunch(r)
                              \/ LaunchWithoutPrimary(r)
PumpLoop == PumpDrops \/ PumpClaims \/ PumpStops
Publication == Publish \/ PublishFails
Window == RendererReloaded \/ RendererReady \/ \E r \in Requests : Complete(r)
Start == \E r \in Requests, c \in Circles :
           BeginStart(r, c) \/ DispatchStart(r, c) \/ AbandonStart(r, c)

Next == Launch \/ PumpLoop \/ Publication \/ Window \/ Start \/ ClockPasses \/ Timeout
        \/ ForgetKnownRequests \/ Dispose \/ ProcessEnds \/ ProcessStarts

Spec == Init /\ [][Next]_vars

\* Time passes, timers fire and the event loop runs what is due.  Neither the
\* window nor a launch owes anything.
FairSpec == Spec /\ WF_vars(PumpLoop) /\ WF_vars(Publication) /\ WF_vars(ClockPasses)
                 /\ SF_vars(Timeout)
-----------------------------------------------------------------------------
\* Type correctness of the spool, the broker, the window and the starts.
TypeOK ==
  /\ claimed \subseteq Requests /\ result \in [Requests -> Codes \union {"none"}]
  /\ up \in BOOLEAN /\ rendererReady \in BOOLEAN /\ disposed \in BOOLEAN /\ pumping \in BOOLEAN
  /\ queue \in Seq(Requests) /\ known \in Seq(Requests)
  /\ active \in Requests \union {None} /\ circle \in Circles \union {None}
  /\ expired \in BOOLEAN
  /\ publishing \in Requests \union {None} /\ outcome \in Codes \union {"none"}
  /\ attempt \in 0 .. MaxAttempts
  /\ held \subseteq Requests
  /\ contexts \subseteq Requests \X Circles /\ sessions \subseteq Requests \X Circles
  /\ sent \in [Requests -> Nat]
  /\ restarts \in 0 .. MaxRestarts /\ wakes \in 0 .. MaxWakes

\* An accepted command is never replayed: over duplicate launches, forgotten
\* ids, reloads and restarts a request reaches a window at most once.
DispatchedOnce == \A r \in Requests : sent[r] <= 1

\* The refusals that say nothing was started are only given for requests no
\* window was ever handed, and success only for one that was.
RefusalsAreTrue ==
  \A r \in Requests : /\ result[r] \in {"unavailable", "not launched"} => sent[r] = 0
                      /\ result[r] \in {"completed", "refused", "reloaded"} => sent[r] = 1

\* Whoever publishes finds no foreign result, so no answer is lost to a
\* conflict.
PublicationNeverConflicts ==
  publishing # None => /\ publishing \in claimed /\ Writable(publishing, outcome)

\* One request starts one circle, however often the window asks.
OneCirclePerRequest ==
  \A s, t \in sessions : s[1] = t[1] => s = t

\* No session is started for a request that is answered or being answered.
NoStartAfterAnswer ==
  [][\A s \in sessions' \ sessions : result[s[1]] = "none" /\ publishing # s[1]]_vars

\* With a window that comes back again and again no request stays queued: no
\* timeout, unwritable result or dead window holds the slot for ever.
QueueNeverWedges ==
  []<>rendererReady => \A r \in Requests : (r \in ToSet(queue)) ~> (r \notin ToSet(queue))

\* The comment of queueRequestOrRefuse: a known id is being taken care of, so
\* ignoring another launch of it is right.
KnownIsAnswered ==
  \A r \in ToSet(known) : \/ r \in ToSet(queue) \/ active = r \/ publishing = r
                          \/ result[r] # "none"

\* The comment of publishTreeNodeCommandLaunchRefusal: the claim it wrote does
\* not outlive the publication it was for.
RefusalLeavesNoClaim ==
  [][\A r \in Requests : (Free /\ BadLaunch(r) /\ r \notin claimed /\ r \in claimed')
                           => result'[r] # "none"]_vars
=============================================================================
