------------------------------- MODULE RelayLeg -------------------------------
(***************************************************************************)
(* The process that makes this computer reachable: its supervisor          *)
(* (shell/relay-supervisor.cjs), the loopback server whose bearer it is    *)
(* handed at its start (shell/agent-facade.cjs), the arming of the two     *)
(* (armRelayFacade in shell/main.cjs), and the three that take them down:  *)
(* disconnect, an administrative reservation and the data reset.           *)
(*                                                                         *)
(* A bearer is there or not; a connection ticket is the fact that it is    *)
(* still current; a child's process and its last event are its leg.        *)
(* Delays are steps of the ladder that starts at the floor (0).            *)
(* The supervisor's "running" is child # None in every state.              *)
(***************************************************************************)
EXTENDS Naturals

CONSTANTS Legs,     \* identities of leg processes
          Calls,    \* bound: identities of armRelayFacade calls in flight together
          Ceiling,  \* bound: the last step of the delay ladder
          None

ASSUME ConstantsOK == None \notin Legs /\ Ceiling \in Nat \ {0}

VARIABLES
  gate,    \* the fence and the cached enrollment, as relayMachineIsEnrolled reads them
  booted,  \* the start of this process has asked for the leg
  facade,  \* the loopback server, and whether it accepts a bearer
  creds,   \* relayFacadeCredentials: there is a bearer to hand over
  arms,    \* the calls of armRelayFacade, and what each waits for
  sup,     \* the supervisor's closure
  legs,    \* the leg processes
  dis,     \* the disconnect flight: what it still waits for
  reset,   \* the data reset
  offline  \* observer: a disconnect or a reset answered that nothing is left

vars == <<gate, booted, facade, creds, arms, sup, legs, dis, reset, offline>>

Enrolled == gate.open /\ gate.enrolled
Flagged == reset # "no"
\* A settled promise is continued before the next event of the loop.
Calm == reset # "stopped" /\ \A c \in Calls : arms[c].at # "got"
-----------------------------------------------------------------------------
(* The loopback server.                                                    *)

\* facade.close: the bearer goes at once; only a listening server has
\* something to wait for.
Closed == [server |-> IF facade.server = "up" THEN "draining" ELSE facade.server, live |-> FALSE]
CloseWaits == facade.server = "up"
-----------------------------------------------------------------------------
(* The supervisor.                                                         *)

ScheduleRestart(s) ==
  LET delay == IF s.age = "old" THEN 0 ELSE s.next
  IN  [s EXCEPT !.timer = TRUE, !.next = IF delay < Ceiling THEN delay + 1 ELSE Ceiling]

\* spawn: the child lives, or its failure is told later, or it throws.
Launch(s, enrolled) ==
  IF ~enrolled THEN sup' = s /\ legs' = legs
  ELSE \/ \E l \in {l \in Legs : legs[l] = "none"}, proc \in {"alive", "failed"} :
            /\ sup' = [s EXCEPT !.child = l, !.age = "young"]
            /\ legs' = [legs EXCEPT ![l] = proc]
       \/ sup' = ScheduleRestart(s) /\ legs' = legs

Stopping == sup.stop # "no" \/ (sup.stopped /\ sup.child # None)
Already == ~sup.stopped /\ (sup.child # None \/ sup.timer)

\* start(), by an armed caller.
Start ==
  IF Stopping \/ Already THEN UNCHANGED <<sup, legs>>
  ELSE Launch([sup EXCEPT !.stopped = FALSE, !.next = 0], TRUE)

RestartFires ==
  /\ Calm /\ sup.timer
  /\ Launch([sup EXCEPT !.timer = FALSE], Enrolled)
  /\ UNCHANGED <<gate, booted, facade, creds, arms, dis, reset, offline>>

\* stop(), up to its first wait.  A stop in flight is joined.
Stopped == [sup EXCEPT !.stopped = TRUE, !.timer = FALSE,
                       !.stop = IF @ # "no" \/ sup.child = None THEN @ ELSE "term"]
StopWaits == sup.stop # "no" \/ sup.child # None

\* Mutant: only an observed exit is answered.
ReceiptOfExit(observed) ==
  /\ dis' = IF dis.relay = "?" /\ observed THEN [dis EXCEPT !.relay = "ok"] ELSE dis
  /\ reset' = IF reset = "stopping" /\ observed THEN "stopped" ELSE reset

\* The receipt of the stop in flight, to the disconnect and the reset.
Receipt(observed) ==
  /\ dis' = IF dis.relay = "?" THEN [dis EXCEPT !.relay = IF observed THEN "ok" ELSE "failed"] ELSE dis
  /\ reset' = IF reset = "stopping" THEN (IF observed THEN "stopped" ELSE "failed") ELSE reset

Escalate ==
  /\ Calm /\ sup.stop = "term"
  /\ sup' = [sup EXCEPT !.stop = "killed"]
  /\ UNCHANGED <<gate, booted, facade, creds, arms, legs, dis, reset, offline>>

\* The child and its identity stay; the caller learns that it may live on.
StopUnconfirmed ==
  /\ Calm /\ sup.stop = "killed"
  /\ sup' = [sup EXCEPT !.stop = "no"] /\ Receipt(FALSE)
  /\ UNCHANGED <<gate, booted, facade, creds, arms, legs, offline>>

\* Mutant: a leg that ends is left where it fell.
AfterEndLeft(s) == s
AfterEnd(s) == IF s.stopped THEN s ELSE ScheduleRestart(s)

Gone(l) == [legs EXCEPT ![l] = "none"]

ExitDelivered(l) ==
  /\ Calm /\ legs[l] = "dead"
  /\ legs' = Gone(l)
  /\ IF sup.child = l
     THEN /\ sup' = AfterEnd([sup EXCEPT !.child = None, !.stop = "no"])
          /\ IF sup.stop # "no" THEN Receipt(TRUE) ELSE UNCHANGED <<dis, reset>>
     ELSE UNCHANGED <<sup, dis, reset>>
  /\ UNCHANGED <<gate, booted, facade, creds, arms, offline>>

\* Mutant: every error is taken for a spawn that failed.
NeverLivedAnyway(l) == TRUE
\* Only an error of a child that has no pid tells that it never lived.
NeverLived(l) == legs[l] = "failed"

\* A child that never lived, or one that lives and could not be signalled.
ErrorDelivered(l) ==
  /\ Calm /\ legs[l] \in {"failed", "alive"}
  /\ IF sup.child = l /\ NeverLived(l) THEN sup' = AfterEnd([sup EXCEPT !.child = None]) ELSE sup' = sup
  /\ legs' = IF legs[l] = "failed" THEN Gone(l) ELSE legs
  /\ UNCHANGED <<gate, booted, facade, creds, arms, dis, reset, offline>>

LegDies(l) ==
  /\ legs[l] = "alive"
  /\ legs' = [legs EXCEPT ![l] = "dead"]
  /\ UNCHANGED <<gate, booted, facade, creds, arms, sup, dis, reset, offline>>

\* A minute has passed since the last child was started.
MinutePasses ==
  /\ sup.age = "young" /\ sup' = [sup EXCEPT !.age = "old"]
  /\ UNCHANGED <<gate, booted, facade, creds, arms, legs, dis, reset, offline>>
-----------------------------------------------------------------------------
(* armRelayFacade.                                                         *)

Idle == [current |-> FALSE, at |-> "no"]
\* Everyone who waits for this goes on, and returns.
Without(at) == [c \in Calls |-> IF arms[c].at = at THEN Idle ELSE arms[c]]
\* The fence has moved on: every ticket captured before is stale.
Overtaken == [c \in Calls |-> [arms[c] EXCEPT !.current = FALSE]]

\* listen(): a server that is up mints a new bearer and answers at once; one
\* that is not up yet is (re)opened, whoever else waits for it.
ArmRelayFacade ==
  \E c \in Calls :
    /\ arms[c].at = "no"
    /\ IF Flagged
       THEN creds' = FALSE /\ UNCHANGED <<facade, arms>>
       ELSE /\ creds' = creds
            /\ IF facade.server = "up"
               THEN facade' = [facade EXCEPT !.live = TRUE]
               ELSE facade' = [facade EXCEPT !.server = "binding"]
            /\ arms' = [arms EXCEPT ![c] = [current |-> TRUE,
                                            at |-> IF facade.server = "up" THEN "got" ELSE "listening"]]

\* Every waiting listen() mints a bearer.
Bound ==
  /\ Calm /\ facade.server = "binding"
  /\ facade' = [server |-> "up", live |-> TRUE]
  /\ arms' = [c \in Calls |-> IF arms[c].at = "listening" THEN [arms[c] EXCEPT !.at = "got"] ELSE arms[c]]
  /\ UNCHANGED <<gate, booted, creds, sup, legs, dis, reset, offline>>

\* A server that cannot bind: the callers answer false, and start nothing.
BindFails ==
  /\ Calm /\ facade.server = "binding"
  /\ facade' = [server |-> "down", live |-> FALSE]
  /\ arms' = Without("listening")
  /\ creds' = FALSE
  /\ UNCHANGED <<gate, booted, sup, legs, dis, reset, offline>>

\* Mutant: what was captured before the await is not looked at again.
StillCurrentUnasked(a) == ~Flagged
StillCurrent(a) == ~Flagged /\ a.current /\ Enrolled

\* Settled calls are continued in the order they were made.  The fence moves on
\* for all calls in flight at once, so the overtaken ones are the older ones.
IsNext(c) ==
  /\ arms[c].at = "got"
  /\ arms[c].current => \A d \in Calls : arms[d].at = "got" => arms[d].current

\* The continuation after listen(), and the caller's start().
ArmResumes ==
  \E c \in Calls :
    /\ IsNext(c)
    /\ IF StillCurrent(arms[c])
       THEN /\ creds' = TRUE /\ arms' = [arms EXCEPT ![c] = Idle]
            /\ Start
            /\ UNCHANGED facade
       ELSE /\ creds' = FALSE /\ facade' = Closed
            /\ arms' = [arms EXCEPT ![c] = IF CloseWaits THEN [@ EXCEPT !.at = "closing"] ELSE Idle]
            /\ UNCHANGED <<sup, legs>>
    /\ UNCHANGED <<gate, booted, dis, reset, offline>>

\* The server's last connection is cut: everyone who waits for a close goes on.
Drained ==
  /\ Calm /\ facade.server = "draining"
  /\ facade' = [facade EXCEPT !.server = "down"]
  /\ arms' = Without("closing")
  /\ dis' = IF dis.revoke = "?" THEN [dis EXCEPT !.revoke = "ok"] ELSE dis
  /\ reset' = IF reset = "closing" THEN "swept" ELSE reset
  /\ offline' = (offline \/ reset = "closing")
  /\ UNCHANGED <<gate, booted, creds, sup, legs>>
-----------------------------------------------------------------------------
(* Those who ask for the leg, and those who take it away.                  *)
NoFlight == [stage |-> "no", relay |-> "no", revoke |-> "no"]

\* The start of this process asks the vault once, then arms.
Startup ==
  /\ Calm /\ ~booted /\ booted' = TRUE
  /\ \E enrolled \in {gate.enrolled, ~gate.fenced} :
       /\ gate' = [gate EXCEPT !.enrolled = enrolled]
       /\ IF gate.open /\ enrolled /\ ~Flagged THEN ArmRelayFacade
          ELSE UNCHANGED <<facade, creds, arms>>
  /\ UNCHANGED <<sup, legs, dis, reset, offline>>

\* A claim, or an administrative enrollment, completes: onConnected.
Connected ==
  /\ Calm /\ dis.stage = "no" /\ ~gate.barrier
  /\ gate' = [gate EXCEPT !.open = TRUE, !.enrolled = TRUE, !.fenced = FALSE]
  /\ offline' = (offline /\ Flagged)
  /\ ArmRelayFacade
  /\ UNCHANGED <<booted, sup, legs, dis, reset>>

\* A status answer moves the cache: the vault holds a credential, or does not.
StatusLearns ==
  /\ Calm /\ dis.stage = "no"
  /\ \E enrolled \in {FALSE, ~gate.fenced} : gate' = [gate EXCEPT !.enrolled = enrolled]
  /\ UNCHANGED <<booted, facade, creds, arms, sup, legs, dis, reset, offline>>

\* An owner that cannot be recorded, or a choice that cannot be cleared: the
\* fence closes (and may move on), and nothing is stopped.
FenceCloses ==
  /\ Calm /\ dis.stage = "no" /\ gate.open
  /\ gate' = [gate EXCEPT !.open = FALSE, !.barrier = TRUE]
  /\ arms' \in {arms, Overtaken}
  /\ UNCHANGED <<booted, facade, creds, sup, legs, dis, reset, offline>>

\* revoke, up to its wait for the server.  Its callers have moved the fence on.
Revoke ==
  /\ creds' = FALSE /\ facade' = Closed /\ arms' = Overtaken

Disconnect ==
  /\ Calm /\ dis.stage = "no"
  /\ gate' = [open |-> FALSE, enrolled |-> FALSE, fenced |-> TRUE, barrier |-> TRUE, revoked |-> FALSE]
  /\ Revoke /\ sup' = Stopped
  /\ dis' = [stage |-> "stopping", relay |-> IF StopWaits THEN "?" ELSE "ok",
             revoke |-> IF CloseWaits THEN "?" ELSE "ok"]
  /\ UNCHANGED <<booted, legs, reset, offline>>

Clean == dis.relay = "ok" /\ dis.revoke = "ok"

\* All receipts are in.  The workspaces may have refused to close, and the
\* vault, the helper or the record may fail: then the barrier stays.
Gathered ==
  /\ Calm /\ dis.stage = "stopping" /\ "?" \notin {dis.relay, dis.revoke}
  /\ dis' = NoFlight
  /\ \E revoked, complete \in BOOLEAN :
       /\ complete => revoked /\ Clean
       /\ gate' = [gate EXCEPT !.revoked = revoked, !.barrier = ~complete]
       /\ offline' = (offline \/ complete)
  /\ UNCHANGED <<booted, facade, creds, arms, sup, legs, reset>>

\* A later status that sees no credential and no running leg ends the cleanup.
StatusCleans ==
  /\ Calm /\ dis.stage = "no" /\ gate.barrier /\ gate.revoked /\ sup.child = None
  /\ gate' = [gate EXCEPT !.barrier = FALSE, !.enrolled = FALSE]
  /\ UNCHANGED <<booted, facade, creds, arms, sup, legs, dis, reset, offline>>

\* administer: the fence is reserved while no leg runs, then grants are revoked.
AdminReserves ==
  /\ Calm /\ dis.stage = "no" /\ ~gate.barrier /\ sup.child = None
  /\ gate' = [gate EXCEPT !.open = FALSE, !.enrolled = FALSE, !.fenced = TRUE]
  /\ Revoke
  /\ UNCHANGED <<booted, sup, legs, dis, reset, offline>>

\* The data reset: terminal for this process, and asked again after a failure.
ResetBegins ==
  /\ Calm /\ reset \in {"no", "failed"}
  /\ reset' = "flagged"
  /\ UNCHANGED <<gate, booted, facade, creds, arms, sup, legs, dis, offline>>

ResetStops ==
  /\ Calm /\ reset = "flagged"
  /\ sup' = Stopped
  /\ reset' = IF StopWaits THEN "stopping" ELSE "stopped"
  /\ UNCHANGED <<gate, booted, facade, creds, arms, legs, dis, offline>>

ResetCloses ==
  /\ reset = "stopped"
  /\ creds' = FALSE /\ facade' = Closed
  /\ reset' = IF CloseWaits THEN "closing" ELSE "swept"
  /\ offline' = (offline \/ ~CloseWaits)
  /\ UNCHANGED <<gate, booted, arms, sup, legs, dis>>
-----------------------------------------------------------------------------
Init ==
  /\ gate \in [open : BOOLEAN, enrolled : {FALSE}, fenced : {FALSE}, barrier : {FALSE}, revoked : {TRUE}]
  /\ booted = FALSE
  /\ facade = [server |-> "down", live |-> FALSE] /\ creds = FALSE /\ arms = [c \in Calls |-> Idle]
  /\ sup = [stopped |-> TRUE, child |-> None, timer |-> FALSE, next |-> 0, age |-> "never", stop |-> "no"]
  /\ legs = [l \in Legs |-> "none"]
  /\ dis = NoFlight /\ reset = "no" /\ offline = FALSE

Supervisor == RestartFires \/ Escalate \/ StopUnconfirmed
              \/ \E l \in Legs : ExitDelivered(l) \/ ErrorDelivered(l)
Facade == Bound \/ BindFails \/ ArmResumes \/ Drained
Owner == Startup \/ Connected \/ Disconnect \/ AdminReserves \/ ResetBegins
Lifecycle == StatusLearns \/ FenceCloses \/ Gathered \/ StatusCleans \/ ResetStops \/ ResetCloses
World == MinutePasses \/ \E l \in Legs : LegDies(l)

Next == Supervisor \/ Facade \/ Owner \/ Lifecycle \/ World
Spec == Init /\ [][Next]_vars

\* Timers fire, settled promises are continued, a listening server can be
\* closed.  What may be put off by newly armed callers again and again, the
\* end of a child, its restart, is served in the end; spawn does not fail for ever.
StopTimers == Escalate \/ StopUnconfirmed
Continues == ArmResumes \/ ResetCloses
Settles == Drained \/ Gathered
Told == \E l \in Legs : ExitDelivered(l) \/ (ErrorDelivered(l) /\ legs' # legs)
Relaunched == RestartFires /\ \E l \in Legs : legs'[l] = "alive" /\ legs[l] = "none"
FairSpec == /\ Spec /\ WF_vars(StopTimers) /\ WF_vars(Continues) /\ WF_vars(Settles)
            /\ SF_vars(Told) /\ SF_vars(Relaunched)
-----------------------------------------------------------------------------
Gates == [open : BOOLEAN, enrolled : BOOLEAN, fenced : BOOLEAN, barrier : BOOLEAN, revoked : BOOLEAN]
Servers == [server : {"down", "binding", "up", "draining"}, live : BOOLEAN]
Armings == [current : BOOLEAN, at : {"no", "listening", "got", "closing"}]
Disconnects == [stage : {"no", "stopping"}, relay : {"no", "?", "ok", "failed"}, revoke : {"no", "?", "ok"}]
SupRecords == [stopped : BOOLEAN, child : Legs \union {None}, timer : BOOLEAN,
               next : 0 .. Ceiling, age : {"never", "young", "old"}, stop : {"no", "term", "killed"}]

SupType == sup \in SupRecords
LegsType == legs \in [Legs -> {"none", "failed", "alive", "dead"}]
ServerType == facade \in Servers /\ arms \in [Calls -> Armings] /\ creds \in BOOLEAN
FlightType ==
  /\ gate \in Gates /\ dis \in Disconnects /\ booted \in BOOLEAN /\ offline \in BOOLEAN
  /\ reset \in {"no", "flagged", "stopping", "stopped", "closing", "swept", "failed"}

\* Type correctness of the supervisor, its legs, the server and the flights.
TypeOK == SupType /\ LegsType /\ ServerType /\ FlightType

Running == {l \in Legs : legs[l] = "alive"}

\* The supervisor never loses sight of a leg that lives, so there is never a
\* second one: not when a stop is unconfirmed, not when a signal fails, not
\* when a restart, a stop and a new start cross (launch, stop, start).
LegIsKnown == Running \subseteq {sup.child}

\* Once a disconnect or a reset answered that nothing is left, no leg lives,
\* none is about to be started, and a bearer is out only while the call that
\* minted it is still to look at the fence (armRelayFacade, after listen).
NothingSurvives ==
  offline => /\ Running = {} /\ ~sup.timer /\ ~creds
             /\ facade.live => \E c \in Calls : arms[c].at = "got"

\* A leg that was started comes back after its end, unless it is stopped or
\* this computer is no longer admitted.
LegReturns == ~sup.stopped /\ (sup.timer \/ sup.child # None)
                ~> Running # {} \/ sup.stopped \/ ~Enrolled

\* A disconnect is answered whatever the leg and the server do.
DisconnectAnswers == dis.stage = "stopping" ~> dis.stage = "no"
=============================================================================
