--------------------------- MODULE RelayLegProofs ---------------------------
(***************************************************************************)
(* That the supervisor never loses sight of a leg that lives, and that a   *)
(* disconnect or a reset which says so leaves nothing, for every number of *)
(* leg identities, of armings in flight and of delay steps.                *)
(*                                                                         *)
(* LegIsKnown alone is not inductive: a restart timer that is still armed, *)
(* or a start, would put a second leg beside the first.  What makes it so  *)
(* is that a timer is armed only while there is no child and no stop.      *)
(*                                                                         *)
(* NothingSurvives speaks of the answer; DarkInv says what each step       *)
(* before it has already made certain, and that nobody can undo it.        *)
(***************************************************************************)
EXTENDS RelayLeg, TLAPS

\* Every process that is not yet gone, dead ones included, is the child.
OneChild == \A l \in Legs : legs[l] # "none" => sup.child = l
TimerAlone == sup.timer => sup.child = None /\ ~sup.stopped

\* The inductive invariant.
LegInv == SupType /\ LegsType /\ OneChild /\ TimerAlone

\* A restart is scheduled on a supervisor without a child (scheduleRestart).
LEMMA ScheduleLemma ==
  ASSUME NEW s \in SupRecords
  PROVE  /\ ScheduleRestart(s) \in SupRecords
         /\ ScheduleRestart(s).timer
         /\ ScheduleRestart(s).child = s.child
         /\ ScheduleRestart(s).stopped = s.stopped
<1> DEFINE delay == IF s.age = "old" THEN 0 ELSE s.next
           next == IF delay < Ceiling THEN delay + 1 ELSE Ceiling
<1>1. next \in 0 .. Ceiling
  BY ConstantsOK DEF SupRecords
<1>2. ScheduleRestart(s) = [s EXCEPT !.timer = TRUE, !.next = next]
  BY DEF ScheduleRestart
<1> HIDE DEF next
<1> QED BY <1>1, <1>2 DEF SupRecords

\* The end of a child: a restart unless the supervisor was stopped (launch).
LEMMA AfterEndLemma ==
  ASSUME NEW s \in SupRecords, s.child = None, s.timer => ~s.stopped
  PROVE  /\ AfterEnd(s) \in SupRecords
         /\ AfterEnd(s).child = None
         /\ AfterEnd(s).timer => ~AfterEnd(s).stopped
BY ScheduleLemma DEF AfterEnd

\* launch() on a supervisor that has no child, no timer and is not stopped.
LEMMA LaunchLemma ==
  ASSUME LegsType, NEW s \in SupRecords, s.child = None, ~s.timer, ~s.stopped,
         \A l \in Legs : legs[l] = "none",
         NEW e \in BOOLEAN, Launch(s, e)
  PROVE  LegInv'
<1>1. CASE ~e
  <2>1. sup' = s /\ legs' = legs
    BY <1>1 DEF Launch
  <2> QED BY <2>1 DEF LegInv, SupType, LegsType, OneChild, TimerAlone, SupRecords
<1>2. CASE e
  <2>1. CASE \E l \in {l \in Legs : legs[l] = "none"}, proc \in {"alive", "failed"} :
               /\ sup' = [s EXCEPT !.child = l, !.age = "young"]
               /\ legs' = [legs EXCEPT ![l] = proc]
    <3>1. PICK l \in Legs, proc \in {"alive", "failed"} :
               /\ sup' = [s EXCEPT !.child = l, !.age = "young"]
               /\ legs' = [legs EXCEPT ![l] = proc]
      BY <2>1
    <3>2. SupType' /\ TimerAlone'
      BY <3>1 DEF SupType, TimerAlone, SupRecords
    <3>3. LegsType' /\ OneChild'
      BY <3>1 DEF LegsType, OneChild, SupRecords
    <3> QED BY <3>2, <3>3 DEF LegInv
  <2>2. CASE sup' = ScheduleRestart(s) /\ legs' = legs
    BY <2>2, ScheduleLemma DEF LegInv, SupType, LegsType, OneChild, TimerAlone, SupRecords
  <2> QED BY <1>2, <2>1, <2>2 DEF Launch
<1> QED BY <1>1, <1>2

\* A child that is gone, or that is told to be gone (exit and error handlers).
LEMMA GoneLemma ==
  ASSUME LegInv, NEW l \in Legs, sup.child = l, legs' = Gone(l),
         NEW s \in SupRecords, s.child = None, s.timer => ~s.stopped,
         sup' = AfterEnd(s)
  PROVE  LegInv'
<1>1. SupType' /\ TimerAlone'
  BY AfterEndLemma DEF SupType, TimerAlone, SupRecords
<1>2. LegsType' /\ OneChild'
  BY ConstantsOK DEF LegInv, LegsType, OneChild, Gone
<1> QED BY <1>1, <1>2 DEF LegInv

LEMMA StartLemma ==
  ASSUME LegInv, Start
  PROVE  LegInv'
<1>1. CASE Stopping \/ Already
  BY <1>1 DEF Start, LegInv, SupType, SupRecords, LegsType, OneChild, TimerAlone
<1>2. CASE ~(Stopping \/ Already)
  <2> DEFINE s == [sup EXCEPT !.stopped = FALSE, !.next = 0]
  <2>1. sup.child = None /\ ~sup.timer
    BY <1>2 DEF Stopping, Already, LegInv, SupType, SupRecords, TimerAlone
  <2>0. 0 \in 0 .. Ceiling
    BY ConstantsOK
  <2>2. s \in SupRecords /\ s.child = None /\ ~s.timer /\ ~s.stopped
    BY <2>0, <2>1 DEF LegInv, SupType, SupRecords
  <2>3. \A l \in Legs : legs[l] = "none"
    BY <2>1, ConstantsOK DEF LegInv, OneChild
  <2>4. Launch(s, TRUE)
    BY <1>2 DEF Start
  <2> HIDE DEF s
  <2> QED BY <2>2, <2>3, <2>4, LaunchLemma DEF LegInv
<1> QED BY <1>1, <1>2

LEMMA RestartLemma ==
  ASSUME LegInv, RestartFires
  PROVE  LegInv'
<1> DEFINE s == [sup EXCEPT !.timer = FALSE]
           e == Enrolled = TRUE
<1>1. s \in SupRecords /\ s.child = None /\ ~s.timer /\ ~s.stopped
  BY DEF RestartFires, LegInv, SupType, TimerAlone, SupRecords
<1>2. \A l \in Legs : legs[l] = "none"
  BY ConstantsOK DEF RestartFires, LegInv, OneChild, TimerAlone
<1>3. Launch(s, e)
  BY DEF RestartFires, Launch
<1> HIDE DEF s, e
<1>4. e \in BOOLEAN
  BY DEF e
<1> QED BY <1>1, <1>2, <1>3, <1>4, LaunchLemma DEF LegInv

\* stop(), up to its first wait, keeps the child (disconnect and reset).
LEMMA StopLemma ==
  ASSUME LegInv, sup' = Stopped, legs' = legs
  PROVE  LegInv'
BY DEF LegInv, SupType, SupRecords, LegsType, OneChild, TimerAlone, Stopped

LEMMA SameLemma ==
  ASSUME LegInv, sup' = sup, legs' = legs
  PROVE  LegInv'
BY DEF LegInv, SupType, SupRecords, LegsType, OneChild, TimerAlone

LEMMA ExitLemma ==
  ASSUME LegInv, NEW l \in Legs, ExitDelivered(l)
  PROVE  LegInv'
<1>1. sup.child = l
  BY DEF ExitDelivered, LegInv, OneChild
<1> DEFINE s == [sup EXCEPT !.child = None, !.stop = "no"]
<1>2. s \in SupRecords /\ s.child = None /\ (s.timer => ~s.stopped)
  BY DEF LegInv, SupType, TimerAlone, SupRecords
<1>3. sup' = AfterEnd(s) /\ legs' = Gone(l)
  BY <1>1 DEF ExitDelivered
<1> HIDE DEF s
<1> QED BY <1>1, <1>2, <1>3, GoneLemma

LEMMA ErrorLemma ==
  ASSUME LegInv, NEW l \in Legs, ErrorDelivered(l)
  PROVE  LegInv'
<1>1. sup.child = l
  BY DEF ErrorDelivered, LegInv, OneChild
<1>2. CASE NeverLived(l)
  <2> DEFINE s == [sup EXCEPT !.child = None]
  <2>1. s \in SupRecords /\ s.child = None /\ (s.timer => ~s.stopped)
    BY DEF LegInv, SupType, TimerAlone, SupRecords
  <2>2. sup' = AfterEnd(s) /\ legs' = Gone(l)
    BY <1>1, <1>2 DEF ErrorDelivered, NeverLived
  <2> HIDE DEF s
  <2> QED BY <1>1, <2>1, <2>2, GoneLemma
<1>3. CASE ~NeverLived(l)
  BY <1>3, SameLemma DEF ErrorDelivered, NeverLived
<1> QED BY <1>2, <1>3

LEMMA InitLemma == Init => LegInv
BY ConstantsOK DEF Init, LegInv, SupType, SupRecords, LegsType, OneChild, TimerAlone

LEMMA NextLemma ==
  ASSUME LegInv, [Next]_vars
  PROVE  LegInv'
<1>1. CASE Supervisor
  <2>1. CASE RestartFires BY <2>1, RestartLemma
  <2>2. CASE Escalate BY <2>2 DEF Escalate, LegInv, SupType, SupRecords, LegsType, OneChild, TimerAlone
  <2>3. CASE StopUnconfirmed BY <2>3 DEF StopUnconfirmed, LegInv, SupType, SupRecords, LegsType, OneChild, TimerAlone
  <2>4. CASE \E l \in Legs : ExitDelivered(l) \/ ErrorDelivered(l) BY <2>4, ExitLemma, ErrorLemma
  <2> QED BY <1>1, <2>1, <2>2, <2>3, <2>4 DEF Supervisor
<1>2. CASE Facade
  <2>1. CASE Bound BY <2>1, SameLemma DEF Bound
  <2>2. CASE BindFails BY <2>2, SameLemma DEF BindFails
  <2>3. CASE ArmResumes
    <3>1. Start \/ (sup' = sup /\ legs' = legs)
      BY <2>3 DEF ArmResumes
    <3> QED BY <3>1, StartLemma, SameLemma
  <2>4. CASE Drained BY <2>4, SameLemma DEF Drained
  <2> QED BY <1>2, <2>1, <2>2, <2>3, <2>4 DEF Facade
<1>3. CASE Owner
  <2>1. CASE Startup BY <2>1, SameLemma DEF Startup
  <2>2. CASE Connected BY <2>2, SameLemma DEF Connected
  <2>3. CASE Disconnect BY <2>3, StopLemma DEF Disconnect
  <2>4. CASE AdminReserves BY <2>4, SameLemma DEF AdminReserves
  <2>5. CASE ResetBegins BY <2>5, SameLemma DEF ResetBegins
  <2> QED BY <1>3, <2>1, <2>2, <2>3, <2>4, <2>5 DEF Owner
<1>4. CASE Lifecycle
  <2>1. CASE StatusLearns BY <2>1, SameLemma DEF StatusLearns
  <2>2. CASE FenceCloses BY <2>2, SameLemma DEF FenceCloses
  <2>3. CASE Gathered BY <2>3, SameLemma DEF Gathered
  <2>4. CASE StatusCleans BY <2>4, SameLemma DEF StatusCleans
  <2>5. CASE ResetStops BY <2>5, StopLemma DEF ResetStops
  <2>6. CASE ResetCloses BY <2>6, SameLemma DEF ResetCloses
  <2> QED BY <1>4, <2>1, <2>2, <2>3, <2>4, <2>5, <2>6 DEF Lifecycle
<1>5. CASE World
  <2>1. CASE MinutePasses BY <2>1 DEF MinutePasses, LegInv, SupType, SupRecords, LegsType, OneChild, TimerAlone
  <2>2. CASE \E l \in Legs : LegDies(l)
    BY <2>2 DEF LegDies, LegInv, SupType, SupRecords, LegsType, OneChild, TimerAlone
  <2> QED BY <1>5, <2>1, <2>2 DEF World
<1>6. CASE UNCHANGED vars
  BY <1>6, SameLemma DEF vars
<1> QED BY <1>1, <1>2, <1>3, <1>4, <1>5, <1>6 DEF Next

LEMMA LegInvariant == Spec => []LegInv
BY InitLemma, NextLemma, PTL DEF Spec

-----------------------------------------------------------------------------
\* What follows is about what a disconnect or a reset leaves behind.

\* A bearer is out only for the call that minted it, and nothing is handed on.
Bearerless == ~creds /\ (facade.live => \E c \in Calls : arms[c].at = "got")
\* No call in flight, and none to come, finds the gate open.
Barred == Flagged \/ ~gate.open
LegGone == sup.stopped /\ sup.child = None

\* A server that binds has somebody who waits for it, and will mint for them.
BindingIsAwaited == facade.server = "binding" => \E c \in Calls : arms[c].at = "listening"

\* From the first step of a disconnect to its answer, and at its receipt.
DisconnectInv ==
  dis.stage = "stopping" =>
    /\ ~gate.open /\ sup.stopped /\ Bearerless
    /\ dis.relay = "ok" => LegGone

\* The stages of the data reset, each with what the one before has done.
ResetInv ==
  /\ reset \in {"stopping", "stopped", "closing", "swept", "failed"} => sup.stopped
  /\ reset \in {"stopped", "closing", "swept"} => LegGone
  /\ reset \in {"closing", "swept"} => Bearerless

OfflineInv == offline => Barred /\ LegGone /\ Bearerless

\* Not one of the three can do without the others: the leg stays gone because
\* nobody is let in, and nobody is let in while something is still to be taken.
DarkInv == BindingIsAwaited /\ DisconnectInv /\ ResetInv /\ OfflineInv

\* A relay process that lives is the one the supervisor holds, however stops,
\* restarts, failed signals, deaths and new starts cross.
THEOREM LegCorrect == Spec => []LegIsKnown
<1>1. LegInv => LegIsKnown
  BY DEF LegInv, OneChild, LegIsKnown, Running
<1> QED BY <1>1, LegInvariant, PTL
-----------------------------------------------------------------------------
(* Nothing survives.                                                       *)

RestType == ServerType /\ FlightType
AllInv == LegInv /\ RestType /\ DarkInv

\* Arms are only ever set to an arming (listen, close).
LEMMA ArmsTyped ==
  ASSUME RestType, NEW at
  PROVE  Without(at) \in [Calls -> Armings] /\ Overtaken \in [Calls -> Armings] /\ Closed \in Servers
BY DEF RestType, ServerType, Without, Overtaken, Idle, Armings, Closed, Servers

LEMMA ArmTyped ==
  ASSUME RestType, ArmRelayFacade
  PROVE  ServerType'
<1>1. PICK c \in Calls :
        /\ arms[c].at = "no"
        /\ IF Flagged
           THEN creds' = FALSE /\ UNCHANGED <<facade, arms>>
           ELSE /\ creds' = creds
                /\ IF facade.server = "up"
                   THEN facade' = [facade EXCEPT !.live = TRUE]
                   ELSE facade' = [facade EXCEPT !.server = "binding"]
                /\ arms' = [arms EXCEPT ![c] = [current |-> TRUE,
                                                at |-> IF facade.server = "up" THEN "got" ELSE "listening"]]
  BY DEF ArmRelayFacade
<1> DEFINE a == [current |-> TRUE, at |-> IF facade.server = "up" THEN "got" ELSE "listening"]
<1>2. a \in Armings
  BY DEF Armings
<1>3. facade' \in Servers /\ creds' \in BOOLEAN
  BY <1>1 DEF RestType, ServerType, Servers
<1>4. arms' = arms \/ arms' = [arms EXCEPT ![c] = a]
  BY <1>1
<1> HIDE DEF a
<1> QED BY <1>2, <1>3, <1>4 DEF RestType, ServerType

\* Receipts of a stop (disconnect, reset) are well typed.
LEMMA ReceiptTyped ==
  ASSUME RestType, NEW o \in BOOLEAN, Receipt(o), UNCHANGED <<gate, booted, offline>>
  PROVE  FlightType'
BY DEF RestType, FlightType, Receipt, Disconnects

LEMMA SupervisorTyped ==
  ASSUME RestType, Supervisor
  PROVE  RestType'
<1>1. ServerType'
  BY DEF Supervisor, RestartFires, Escalate, StopUnconfirmed, ExitDelivered, ErrorDelivered, RestType, ServerType
<1>2. FlightType'
  <2>1. CASE RestartFires \/ Escalate
    BY <2>1 DEF RestartFires, Escalate, RestType, FlightType
  <2>2. CASE StopUnconfirmed
    BY <2>2, ReceiptTyped DEF StopUnconfirmed
  <2>3. ASSUME NEW l \in Legs, ExitDelivered(l) PROVE FlightType'
    <3>1. CASE Receipt(TRUE)
      BY <2>3, <3>1, ReceiptTyped DEF ExitDelivered
    <3>2. CASE UNCHANGED <<dis, reset>>
      BY <2>3, <3>2 DEF ExitDelivered, RestType, FlightType
    <3> QED BY <2>3, <3>1, <3>2 DEF ExitDelivered
  <2>4. ASSUME NEW l \in Legs, ErrorDelivered(l) PROVE FlightType'
    BY <2>4 DEF ErrorDelivered, RestType, FlightType
  <2> QED BY <2>1, <2>2, <2>3, <2>4 DEF Supervisor
<1> QED BY <1>1, <1>2 DEF RestType

LEMMA FacadeTyped ==
  ASSUME RestType, Facade
  PROVE  RestType'
<1>1. CASE Bound
  BY <1>1 DEF Bound, RestType, ServerType, FlightType, Armings, Servers
<1>2. CASE BindFails
  BY <1>2, ArmsTyped DEF BindFails, RestType, ServerType, FlightType, Servers
<1>3. CASE ArmResumes
  <2>1. PICK c \in Calls :
          /\ IF StillCurrent(arms[c])
             THEN creds' = TRUE /\ arms' = [arms EXCEPT ![c] = Idle] /\ UNCHANGED facade
             ELSE /\ creds' = FALSE /\ facade' = Closed
                  /\ arms' = [arms EXCEPT ![c] = IF CloseWaits THEN [@ EXCEPT !.at = "closing"] ELSE Idle]
          /\ UNCHANGED <<gate, booted, dis, reset, offline>>
    BY <1>3 DEF ArmResumes
  <2> DEFINE a == IF CloseWaits THEN [arms[c] EXCEPT !.at = "closing"] ELSE Idle
  <2>2. a \in Armings /\ Idle \in Armings
    BY DEF RestType, ServerType, Armings, Idle
  <2>3. arms' = [arms EXCEPT ![c] = Idle] \/ arms' = [arms EXCEPT ![c] = a]
    BY <2>1
  <2> HIDE DEF a
  <2>4. arms' \in [Calls -> Armings]
    BY <2>2, <2>3 DEF RestType, ServerType
  <2> QED BY <2>1, <2>4, ArmsTyped DEF RestType, ServerType, FlightType
<1>4. CASE Drained
  <2>1. ServerType'
    BY <1>4, ArmsTyped DEF Drained, RestType, ServerType, Servers
  <2>2. dis' \in Disconnects
    BY <1>4 DEF Drained, RestType, FlightType, Disconnects
  <2> QED BY <1>4, <2>1, <2>2 DEF Drained, RestType, FlightType
<1> QED BY <1>1, <1>2, <1>3, <1>4 DEF Facade

LEMMA OwnerTyped ==
  ASSUME RestType, Owner
  PROVE  RestType'
<1>1. CASE Startup
  <2>1. FlightType'
    BY <1>1 DEF Startup, RestType, FlightType, Gates
  <2>2. CASE ArmRelayFacade
    BY <1>1, <2>1, <2>2, ArmTyped DEF Startup, RestType
  <2>3. CASE UNCHANGED <<facade, creds, arms>>
    BY <1>1, <2>1, <2>3 DEF Startup, RestType, ServerType
  <2>4. ArmRelayFacade \/ UNCHANGED <<facade, creds, arms>>
    BY <1>1 DEF Startup
  <2> QED BY <2>2, <2>3, <2>4
<1>2. CASE Connected
  <2>1. FlightType'
    BY <1>2 DEF Connected, RestType, FlightType, Gates
  <2>2. ServerType'
    BY <1>2, ArmTyped DEF Connected
  <2> QED BY <2>1, <2>2 DEF RestType
<1>3. CASE Disconnect
  <2>1. ServerType'
    BY <1>3, ArmsTyped DEF Disconnect, Revoke, RestType, ServerType
  <2>2. FlightType'
    BY <1>3 DEF Disconnect, RestType, FlightType, Gates, Disconnects
  <2> QED BY <2>1, <2>2 DEF RestType
<1>4. CASE AdminReserves
  <2>1. ServerType'
    BY <1>4, ArmsTyped DEF AdminReserves, Revoke, RestType, ServerType
  <2>2. FlightType'
    BY <1>4 DEF AdminReserves, RestType, FlightType, Gates
  <2> QED BY <2>1, <2>2 DEF RestType
<1>5. CASE ResetBegins
  BY <1>5 DEF ResetBegins, RestType, ServerType, FlightType
<1> QED BY <1>1, <1>2, <1>3, <1>4, <1>5 DEF Owner

LEMMA LifecycleTyped ==
  ASSUME RestType, Lifecycle
  PROVE  RestType'
<1>1. CASE StatusLearns
  BY <1>1 DEF StatusLearns, RestType, ServerType, FlightType, Gates
<1>2. CASE FenceCloses
  <2>1. arms' \in [Calls -> Armings]
    BY <1>2, ArmsTyped DEF FenceCloses, RestType, ServerType
  <2> QED BY <1>2, <2>1 DEF FenceCloses, RestType, ServerType, FlightType, Gates
<1>3. CASE Gathered
  BY <1>3 DEF Gathered, RestType, ServerType, FlightType, Gates, Disconnects, NoFlight
<1>4. CASE StatusCleans
  BY <1>4 DEF StatusCleans, RestType, ServerType, FlightType, Gates
<1>5. CASE ResetStops
  BY <1>5 DEF ResetStops, RestType, ServerType, FlightType
<1>6. CASE ResetCloses
  BY <1>6, ArmsTyped DEF ResetCloses, RestType, ServerType, FlightType
<1> QED BY <1>1, <1>2, <1>3, <1>4, <1>5, <1>6 DEF Lifecycle

LEMMA TypedNext ==
  ASSUME RestType, [Next]_vars
  PROVE  RestType'
<1>1. CASE World \/ UNCHANGED vars
  BY <1>1 DEF World, MinutePasses, LegDies, vars, RestType, ServerType, FlightType
<1> QED BY <1>1, SupervisorTyped, FacadeTyped, OwnerTyped, LifecycleTyped DEF Next

-----------------------------------------------------------------------------
\* A step that lets nobody in, hands nothing on and brings no leg back.
LEMMA DarkKept ==
  ASSUME DarkInv, UNCHANGED <<facade, creds, arms, dis, reset, offline>>,
         ~gate.open => ~gate'.open,
         sup.stopped => sup'.stopped,
         LegGone => LegGone'
  PROVE  DarkInv'
<1>1. BindingIsAwaited'
  BY DEF DarkInv, BindingIsAwaited
<1>2. DisconnectInv'
  BY DEF DarkInv, DisconnectInv, Bearerless
<1>3. ResetInv'
  BY DEF DarkInv, ResetInv, Bearerless
<1>4. OfflineInv'
  BY DEF DarkInv, OfflineInv, Bearerless, Barred, Flagged
<1> QED BY <1>1, <1>2, <1>3, <1>4 DEF DarkInv

\* The receipt of a stop that found the leg gone, or did not (disconnect, reset).
LEMMA DarkReceipt ==
  ASSUME AllInv, NEW o \in BOOLEAN, Receipt(o), UNCHANGED <<gate, facade, creds, arms, offline>>,
         sup.stopped => sup'.stopped,
         LegGone => LegGone',
         o /\ sup.stopped => LegGone'
  PROVE  DarkInv'
<1>1. BindingIsAwaited'
  BY DEF AllInv, DarkInv, BindingIsAwaited
<1>2. DisconnectInv'
  <2>1. dis'.stage = dis.stage /\ (dis'.relay = "ok" => dis.relay = "ok" \/ o)
    BY DEF Receipt, AllInv, RestType, FlightType, Disconnects
  <2> QED BY <2>1 DEF AllInv, DarkInv, DisconnectInv, Bearerless
<1>3. ResetInv'
  BY DEF Receipt, AllInv, DarkInv, ResetInv, Bearerless
<1>4. OfflineInv'
  <2>1. Flagged => Flagged'
    BY DEF Receipt, Flagged
  <2> QED BY <2>1 DEF AllInv, DarkInv, OfflineInv, Bearerless, Barred
<1> QED BY <1>1, <1>2, <1>3, <1>4 DEF DarkInv

LEMMA DarkSupervisor ==
  ASSUME AllInv, Supervisor
  PROVE  DarkInv'
<1>1. CASE RestartFires
  <2>1. ~sup.stopped
    BY <1>1 DEF RestartFires, AllInv, LegInv, TimerAlone
  <2> QED BY <1>1, <2>1, DarkKept DEF RestartFires, AllInv, LegGone
<1>2. CASE Escalate
  BY <1>2, DarkKept DEF Escalate, AllInv, LegInv, SupType, SupRecords, LegGone
<1>3. CASE StopUnconfirmed
  <2>1. sup'.stopped = sup.stopped /\ sup'.child = sup.child
    BY <1>3 DEF StopUnconfirmed, AllInv, LegInv, SupType, SupRecords
  <2> QED BY <1>3, <2>1, DarkReceipt DEF StopUnconfirmed, LegGone
<1>4. ASSUME NEW l \in Legs, ExitDelivered(l) PROVE DarkInv'
  <2> DEFINE s == [sup EXCEPT !.child = None, !.stop = "no"]
  <2>1. sup.child = l /\ sup.child # None
    BY <1>4, ConstantsOK DEF ExitDelivered, AllInv, LegInv, OneChild
  <2>2. s \in SupRecords /\ s.child = None /\ s.stopped = sup.stopped
    BY DEF AllInv, LegInv, SupType, SupRecords
  <2>3. sup' = AfterEnd(s) /\ (Receipt(TRUE) \/ UNCHANGED <<dis, reset>>)
    BY <1>4, <2>1 DEF ExitDelivered
  <2> HIDE DEF s
  <2>4. sup.stopped => LegGone'
    BY <2>2, <2>3 DEF AfterEnd, LegGone
  <2>5. sup.stopped => sup'.stopped
    BY <2>4 DEF LegGone
  <2>6. LegGone => LegGone'
    BY <2>1 DEF LegGone
  <2>7. CASE Receipt(TRUE)
    BY <1>4, <2>4, <2>5, <2>6, <2>7, DarkReceipt DEF ExitDelivered
  <2>8. CASE UNCHANGED <<dis, reset>>
    BY <1>4, <2>5, <2>6, <2>8, DarkKept DEF ExitDelivered, AllInv
  <2> QED BY <2>3, <2>7, <2>8
<1>5. ASSUME NEW l \in Legs, ErrorDelivered(l) PROVE DarkInv'
  <2> DEFINE s == [sup EXCEPT !.child = None]
  <2>1. sup.child = l /\ sup.child # None
    BY <1>5, ConstantsOK DEF ErrorDelivered, AllInv, LegInv, OneChild
  <2>2. s.stopped = sup.stopped
    BY DEF AllInv, LegInv, SupType, SupRecords
  <2>3. sup' = AfterEnd(s) \/ sup' = sup
    BY <1>5 DEF ErrorDelivered
  <2> HIDE DEF s
  <2>4. sup.stopped => sup'.stopped
    BY <2>2, <2>3 DEF AfterEnd
  <2> QED BY <1>5, <2>1, <2>4, DarkKept DEF ErrorDelivered, AllInv, LegGone
<1> QED BY <1>1, <1>2, <1>3, <1>4, <1>5 DEF Supervisor

LEMMA DarkWorld ==
  ASSUME AllInv, World
  PROVE  DarkInv'
BY DarkKept DEF World, MinutePasses, LegDies, AllInv, LegInv, SupType, SupRecords, LegGone

\* Under an invariant that bars every call, none of them is still current.
LEMMA NobodyIsCurrent ==
  ASSUME NEW a, StillCurrent(a)
  PROVE  ~Barred
BY DEF StillCurrent, Barred, Enrolled

LEMMA DarkFacade ==
  ASSUME AllInv, Facade
  PROVE  DarkInv'
<1>1. CASE Bound
  <2>1. PICK c \in Calls : arms[c].at = "listening"
    BY <1>1 DEF Bound, AllInv, DarkInv, BindingIsAwaited
  <2>2. arms'[c].at = "got"
    BY <1>1, <2>1 DEF Bound, AllInv, RestType, ServerType, Armings
  <2>3. Bearerless => Bearerless'
    BY <1>1, <2>2 DEF Bound, Bearerless
  <2>4. BindingIsAwaited'
    BY <1>1 DEF Bound, BindingIsAwaited
  <2>5. DisconnectInv' /\ ResetInv'
    BY <1>1, <2>3 DEF Bound, AllInv, DarkInv, DisconnectInv, ResetInv, LegGone
  <2>6. OfflineInv'
    BY <1>1, <2>3 DEF Bound, AllInv, DarkInv, OfflineInv, Barred, Flagged, LegGone
  <2> QED BY <2>4, <2>5, <2>6 DEF DarkInv
<1>2. CASE BindFails
  <2>1. Bearerless'
    BY <1>2 DEF BindFails, Bearerless
  <2>2. BindingIsAwaited'
    BY <1>2 DEF BindFails, BindingIsAwaited
  <2>3. DisconnectInv' /\ ResetInv'
    BY <1>2, <2>1 DEF BindFails, AllInv, DarkInv, DisconnectInv, ResetInv, LegGone
  <2>4. OfflineInv'
    BY <1>2, <2>1 DEF BindFails, AllInv, DarkInv, OfflineInv, Barred, Flagged, LegGone
  <2> QED BY <2>2, <2>3, <2>4 DEF DarkInv
<1>3. CASE ArmResumes
  <2>1. PICK c \in Calls :
          /\ IsNext(c)
          /\ IF StillCurrent(arms[c])
             THEN creds' = TRUE /\ arms' = [arms EXCEPT ![c] = Idle] /\ Start /\ UNCHANGED facade
             ELSE /\ creds' = FALSE /\ facade' = Closed
                  /\ arms' = [arms EXCEPT ![c] = IF CloseWaits THEN [@ EXCEPT !.at = "closing"] ELSE Idle]
                  /\ UNCHANGED <<sup, legs>>
          /\ UNCHANGED <<gate, booted, dis, reset, offline>>
    BY <1>3 DEF ArmResumes
  <2>2. BindingIsAwaited'
    <3>1. facade'.server = "binding" => facade.server = "binding"
      BY <2>1 DEF Closed, AllInv, RestType, ServerType, Servers
    <3>2. \A d \in Calls : arms[d].at = "listening" => arms'[d].at = "listening"
      BY <2>1 DEF IsNext, AllInv, RestType, ServerType
    <3> QED BY <3>1, <3>2 DEF BindingIsAwaited, AllInv, DarkInv
  <2>3. CASE StillCurrent(arms[c])
    <3>1. ~Flagged /\ gate.open
      BY <2>3 DEF StillCurrent, Enrolled
    <3>2. DisconnectInv' /\ ResetInv' /\ OfflineInv'
      BY <2>1, <3>1 DEF AllInv, DarkInv, DisconnectInv, ResetInv, OfflineInv, Barred, Flagged
    <3> QED BY <2>2, <3>2 DEF DarkInv
  <2>4. CASE ~StillCurrent(arms[c])
    <3>1. Bearerless'
      BY <2>1, <2>4 DEF Bearerless, Closed
    <3>2. DisconnectInv' /\ ResetInv'
      BY <2>1, <2>4, <3>1 DEF AllInv, DarkInv, DisconnectInv, ResetInv, LegGone
    <3>3. OfflineInv'
      BY <2>1, <2>4, <3>1 DEF AllInv, DarkInv, OfflineInv, Barred, Flagged, LegGone
    <3> QED BY <2>2, <3>2, <3>3 DEF DarkInv
  <2> QED BY <2>3, <2>4
<1>4. CASE Drained
  <2>1. facade'.server = "down" /\ facade'.live = facade.live
    BY <1>4 DEF Drained, AllInv, RestType, ServerType, Servers
  <2>2. Bearerless => Bearerless'
    BY <1>4, <2>1 DEF Drained, Bearerless, Calm
  <2>3. BindingIsAwaited'
    BY <2>1 DEF BindingIsAwaited
  <2>4. dis'.stage = dis.stage /\ dis'.relay = dis.relay
    BY <1>4 DEF Drained, AllInv, RestType, FlightType, Disconnects
  <2>5. DisconnectInv'
    BY <1>4, <2>2, <2>4 DEF Drained, AllInv, DarkInv, DisconnectInv, LegGone
  <2>6. ResetInv'
    BY <1>4, <2>2 DEF Drained, AllInv, DarkInv, ResetInv, LegGone
  <2>7. OfflineInv'
    BY <1>4, <2>2 DEF Drained, AllInv, DarkInv, OfflineInv, ResetInv, Barred, Flagged, LegGone
  <2> QED BY <2>3, <2>5, <2>6, <2>7 DEF DarkInv
<1> QED BY <1>1, <1>2, <1>3, <1>4 DEF Facade

\* A ticket that goes stale changes nothing of what a call waits for (revoke).
LEMMA OvertakenWaits ==
  ASSUME RestType
  PROVE  /\ \A c \in Calls : Overtaken[c].at = arms[c].at
         /\ Closed.server = "binding" => facade.server = "binding"
         /\ ~Closed.live
BY DEF RestType, ServerType, Armings, Servers, Overtaken, Closed

LEMMA DarkRevoke ==
  ASSUME AllInv, Revoke
  PROVE  Bearerless' /\ BindingIsAwaited'
BY OvertakenWaits DEF AllInv, DarkInv, BindingIsAwaited, Revoke, Bearerless

LEMMA ArmAwaited ==
  ASSUME AllInv, ArmRelayFacade
  PROVE  BindingIsAwaited' /\ (Flagged => creds' = FALSE /\ UNCHANGED <<facade, arms>>)
<1>1. PICK c \in Calls :
        /\ IF Flagged
           THEN creds' = FALSE /\ UNCHANGED <<facade, arms>>
           ELSE /\ IF facade.server = "up"
                   THEN facade' = [facade EXCEPT !.live = TRUE]
                   ELSE facade' = [facade EXCEPT !.server = "binding"]
                /\ arms' = [arms EXCEPT ![c] = [current |-> TRUE,
                                                at |-> IF facade.server = "up" THEN "got" ELSE "listening"]]
  BY DEF ArmRelayFacade
<1>2. CASE Flagged
  BY <1>1, <1>2 DEF AllInv, DarkInv, BindingIsAwaited
<1>3. CASE ~Flagged /\ facade.server = "up"
  BY <1>1, <1>3 DEF AllInv, RestType, ServerType, Servers, BindingIsAwaited
<1>4. CASE ~Flagged /\ facade.server # "up"
  <2>1. arms'[c].at = "listening"
    BY <1>1, <1>4 DEF AllInv, RestType, ServerType
  <2> QED BY <1>4, <2>1 DEF BindingIsAwaited
<1> QED BY <1>2, <1>3, <1>4

\* stop() keeps a leg gone, and stops (disconnect and reset).
LEMMA StoppedSup ==
  ASSUME LegInv
  PROVE  Stopped.stopped /\ Stopped.child = sup.child /\ (~StopWaits => sup.child = None)
BY DEF LegInv, SupType, SupRecords, Stopped, StopWaits

LEMMA DarkOwner ==
  ASSUME AllInv, Owner
  PROVE  DarkInv'
<1>1. CASE Startup
  <2>1. gate'.open = gate.open
    BY <1>1 DEF Startup, AllInv, RestType, FlightType, Gates
  <2>2. CASE UNCHANGED <<facade, creds, arms>>
    BY <1>1, <2>1, <2>2, DarkKept DEF Startup, AllInv, LegGone
  <2>3. CASE gate.open /\ ~Flagged /\ ArmRelayFacade
    <3>1. DisconnectInv' /\ ResetInv' /\ OfflineInv'
      BY <1>1, <2>3 DEF Startup, AllInv, DarkInv, DisconnectInv, ResetInv, OfflineInv, Barred, Flagged
    <3> QED BY <2>3, <3>1, ArmAwaited DEF DarkInv
  <2> QED BY <1>1, <2>2, <2>3 DEF Startup
<1>2. CASE Connected
  <2>1. BindingIsAwaited' /\ (Flagged => creds' = FALSE /\ UNCHANGED <<facade, arms>>)
    BY <1>2, ArmAwaited DEF Connected
  <2>2. Flagged /\ Bearerless => Bearerless'
    BY <2>1 DEF Bearerless
  <2>3. DisconnectInv' /\ ResetInv'
    BY <1>2, <2>2 DEF Connected, AllInv, DarkInv, DisconnectInv, ResetInv, LegGone, Flagged
  <2>4. OfflineInv'
    BY <1>2, <2>2 DEF Connected, AllInv, DarkInv, OfflineInv, LegGone, Flagged, Barred
  <2> QED BY <2>1, <2>3, <2>4 DEF DarkInv
<1>3. CASE Disconnect
  <2>1. Bearerless' /\ BindingIsAwaited'
    BY <1>3, DarkRevoke DEF Disconnect
  <2>2. sup'.stopped /\ sup'.child = sup.child /\ (~StopWaits => sup.child = None)
    BY <1>3, StoppedSup DEF Disconnect, AllInv
  <2>3. DisconnectInv'
    BY <1>3, <2>1, <2>2 DEF Disconnect, DisconnectInv, LegGone
  <2>4. ResetInv' /\ OfflineInv'
    BY <1>3, <2>1, <2>2 DEF Disconnect, AllInv, DarkInv, ResetInv, OfflineInv, Barred, LegGone
  <2> QED BY <2>1, <2>3, <2>4 DEF DarkInv
<1>4. CASE AdminReserves
  <2>1. Bearerless' /\ BindingIsAwaited'
    BY <1>4, DarkRevoke DEF AdminReserves
  <2>2. DisconnectInv' /\ ResetInv'
    BY <1>4, <2>1 DEF AdminReserves, AllInv, DarkInv, DisconnectInv, ResetInv, LegGone
  <2>3. gate'.open = FALSE
    BY <1>4 DEF AdminReserves, AllInv, RestType, FlightType, Gates
  <2>4. OfflineInv'
    BY <1>4, <2>1, <2>3 DEF AdminReserves, AllInv, DarkInv, OfflineInv, Barred, LegGone
  <2> QED BY <2>1, <2>2, <2>4 DEF DarkInv
<1>5. CASE ResetBegins
  BY <1>5 DEF ResetBegins, AllInv, DarkInv, BindingIsAwaited, DisconnectInv, ResetInv, OfflineInv,
              Bearerless, Barred, Flagged, LegGone
<1> QED BY <1>1, <1>2, <1>3, <1>4, <1>5 DEF Owner

LEMMA DarkLifecycle ==
  ASSUME AllInv, Lifecycle
  PROVE  DarkInv'
<1>1. CASE StatusLearns \/ StatusCleans
  <2>1. gate'.open = gate.open
    BY <1>1 DEF StatusLearns, StatusCleans, AllInv, RestType, FlightType, Gates
  <2> QED BY <1>1, <2>1, DarkKept DEF StatusLearns, StatusCleans, AllInv, LegGone
<1>2. CASE FenceCloses
  <2>1. ~gate'.open
    BY <1>2 DEF FenceCloses, AllInv, RestType, FlightType, Gates
  <2>2. \A c \in Calls : arms'[c].at = arms[c].at
    BY <1>2, OvertakenWaits DEF FenceCloses, AllInv
  <2>3. BindingIsAwaited' /\ (Bearerless => Bearerless')
    BY <1>2, <2>2 DEF FenceCloses, AllInv, DarkInv, BindingIsAwaited, Bearerless
  <2>4. DisconnectInv' /\ ResetInv'
    BY <1>2, <2>3 DEF FenceCloses, AllInv, DarkInv, DisconnectInv, ResetInv, LegGone
  <2>5. OfflineInv'
    BY <1>2, <2>1, <2>3 DEF FenceCloses, AllInv, DarkInv, OfflineInv, Barred, LegGone
  <2> QED BY <2>3, <2>4, <2>5 DEF DarkInv
<1>3. CASE Gathered
  <2>1. gate'.open = gate.open /\ dis'.stage = "no" /\ (offline' => offline \/ Clean)
    BY <1>3 DEF Gathered, NoFlight, AllInv, RestType, FlightType, Gates
  <2>2. BindingIsAwaited' /\ DisconnectInv'
    BY <1>3, <2>1 DEF Gathered, AllInv, DarkInv, BindingIsAwaited, DisconnectInv
  <2>3. ResetInv'
    BY <1>3 DEF Gathered, AllInv, DarkInv, ResetInv, LegGone, Bearerless
  <2>4. OfflineInv'
    BY <1>3, <2>1 DEF Gathered, Clean, AllInv, DarkInv, DisconnectInv, OfflineInv, Barred, Flagged, LegGone, Bearerless
  <2> QED BY <2>2, <2>3, <2>4 DEF DarkInv
<1>4. CASE ResetStops
  <2>1. sup'.stopped /\ sup'.child = sup.child /\ (~StopWaits => sup.child = None)
    BY <1>4, StoppedSup DEF ResetStops, AllInv
  <2>2. BindingIsAwaited' /\ DisconnectInv'
    BY <1>4, <2>1 DEF ResetStops, AllInv, DarkInv, BindingIsAwaited, DisconnectInv, LegGone, Bearerless
  <2>3. ResetInv'
    BY <1>4, <2>1 DEF ResetStops, ResetInv, LegGone
  <2>4. OfflineInv'
    BY <1>4, <2>1 DEF ResetStops, AllInv, DarkInv, OfflineInv, Barred, Flagged, LegGone, Bearerless
  <2> QED BY <2>2, <2>3, <2>4 DEF DarkInv
<1>5. CASE ResetCloses
  <2>1. Bearerless'
    BY <1>5, OvertakenWaits DEF ResetCloses, AllInv, Bearerless
  <2>2. BindingIsAwaited'
    BY <1>5, OvertakenWaits DEF ResetCloses, AllInv, DarkInv, BindingIsAwaited
  <2>3. DisconnectInv' /\ ResetInv'
    BY <1>5, <2>1 DEF ResetCloses, AllInv, DarkInv, DisconnectInv, ResetInv, LegGone
  <2>4. OfflineInv'
    BY <1>5, <2>1 DEF ResetCloses, AllInv, DarkInv, ResetInv, OfflineInv, Barred, Flagged, LegGone
  <2> QED BY <2>1, <2>2, <2>3, <2>4 DEF DarkInv
<1> QED BY <1>1, <1>2, <1>3, <1>4, <1>5 DEF Lifecycle

LEMMA AllInit == Init => AllInv
<1> SUFFICES ASSUME Init PROVE AllInv
  OBVIOUS
<1>1. LegInv
  BY InitLemma
<1>2. RestType
  BY DEF Init, RestType, ServerType, FlightType, Gates, Servers, Armings, Disconnects, Idle, NoFlight
<1>3. DarkInv
  BY DEF Init, DarkInv, BindingIsAwaited, DisconnectInv, ResetInv, OfflineInv, NoFlight
<1> QED BY <1>1, <1>2, <1>3 DEF AllInv

LEMMA AllNext ==
  ASSUME AllInv, [Next]_vars
  PROVE  AllInv'
<1>1. LegInv' /\ RestType'
  BY NextLemma, TypedNext DEF AllInv
<1>2. ASSUME UNCHANGED vars PROVE DarkInv'
  BY <1>2, DarkKept DEF vars, AllInv, LegGone
<1>3. DarkInv'
  BY <1>2, DarkSupervisor, DarkFacade, DarkOwner, DarkLifecycle, DarkWorld DEF Next
<1> QED BY <1>1, <1>3 DEF AllInv

LEMMA AllInvariant == Spec => []AllInv
BY AllInit, AllNext, PTL DEF Spec

\* Every variable of the relay leg keeps its type, for any number of leg
\* identities, calls of armRelayFacade and steps of the ladder.
THEOREM TypeCorrect == Spec => []TypeOK
<1>1. AllInv => TypeOK
  BY DEF AllInv, LegInv, RestType, TypeOK
<1> QED BY <1>1, AllInvariant, PTL

\* A disconnect or a reset that answered that nothing is left (disconnect,
\* clearLocalAgentData) is right about it, and stays so: no relay process, no
\* restart to come, no bearer but one that its own call is about to withdraw.
THEOREM DarkCorrect == Spec => []NothingSurvives
<1>1. AllInv => NothingSurvives
  <2> SUFFICES ASSUME AllInv, offline PROVE NothingSurvives
    BY DEF NothingSurvives
  <2>1. sup.child = None /\ sup.stopped /\ Bearerless
    BY DEF AllInv, DarkInv, OfflineInv, LegGone
  <2>2. Running = {} /\ ~sup.timer
    BY <2>1, ConstantsOK DEF AllInv, LegInv, OneChild, TimerAlone, Running
  <2> QED BY <2>1, <2>2 DEF NothingSurvives, Bearerless
<1> QED BY <1>1, AllInvariant, PTL
=============================================================================
