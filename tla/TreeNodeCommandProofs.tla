------------------------- MODULE TreeNodeCommandProofs -------------------------
(***************************************************************************)
(* Theorems about TreeNodeCommand, for every set of requests and circles   *)
(* and every bound.                                                        *)
(***************************************************************************)
EXTENDS TreeNodeCommand, TLAPS

\* What the argument needs of the types.
TypeInv == /\ claimed \subseteq Requests /\ result \in [Requests -> Codes \union {"none"}]
           /\ queue \in Seq(Requests)
           /\ active \in Requests \union {None} /\ publishing \in Requests \union {None}
           /\ sent \in [Requests -> 0 .. 1]

\* A dispatch leaves its claim behind for ever.
SentIsClaimed == \A r \in Requests : sent[r] = 1 => r \in claimed

\* The slot holds a dispatched, claimed and unanswered request, and is empty
\* while a result is published.
SlotInv == active # None => /\ active \in claimed /\ result[active] = "none"
                            /\ sent[active] = 1 /\ publishing = None

\* What is published tells the truth, and meets no foreign result.
PublishingInv ==
  publishing # None =>
    /\ publishing \in claimed
    /\ outcome \in Codes \ {"not launched"}
    /\ result[publishing] \in {"none", outcome}
    /\ outcome = "unavailable" => sent[publishing] = 0
    /\ outcome \in {"completed", "refused", "reloaded"} => sent[publishing] = 1

\* The inductive invariant.
CommandInv == TypeInv /\ SentIsClaimed /\ SlotInv /\ PublishingInv /\ RefusalsAreTrue

LEMMA NoneIsNoRequest == None \notin Requests
BY NoneAssumption

LEMMA InitCommand == Init => CommandInv
BY NoneAssumption
   DEF Init, BrokerInit, CommandInv, TypeInv, SentIsClaimed, SlotInv, PublishingInv,
       RefusalsAreTrue, Codes

\* A launch refusal writes only for a request nobody has claimed.
LEMMA RefusalKeeps ==
  ASSUME CommandInv, NEW r \in Requests, RefuseLaunch(r),
         UNCHANGED <<slot, publication, sent>>,
         queue' \in Seq(Requests)
  PROVE  CommandInv'
<1>1. TypeInv'
  BY DEF CommandInv, TypeInv, RefuseLaunch, Claimable, Written, Codes, spool, slot, publication
<1>2. SentIsClaimed'
  BY DEF CommandInv, TypeInv, SentIsClaimed, RefuseLaunch, Claimable, spool
<1>3. SlotInv'
  BY DEF CommandInv, TypeInv, SlotInv, RefuseLaunch, Claimable, Written, spool, slot, publication
<1>4. PublishingInv'
  BY NoneAssumption
     DEF CommandInv, TypeInv, PublishingInv, RefuseLaunch, Claimable, Written, spool, slot,
         publication
<1>5. RefusalsAreTrue'
  <2>1. sent' = sent /\ sent \in [Requests -> 0 .. 1]
    BY DEF CommandInv, TypeInv
  <2>2. CASE UNCHANGED result
    BY <2>1, <2>2 DEF CommandInv, RefusalsAreTrue
  <2>3. CASE Claimable(r) /\ result' = Written(r, "not launched")
    <3>1. sent[r] = 0
      <4>1. sent[r] \in 0 .. 1
        BY <2>1
      <4>2. sent[r] # 1
        BY <2>3 DEF CommandInv, SentIsClaimed, Claimable
      <4> QED BY <4>1, <4>2
    <3>2. result' = [result EXCEPT ![r] = "not launched"] /\ result \in [Requests -> Codes \union {"none"}]
      BY <2>3 DEF Written, CommandInv, TypeInv
    <3> QED BY <2>1, <3>1, <3>2 DEF CommandInv, RefusalsAreTrue
  <2> QED BY <2>2, <2>3 DEF RefuseLaunch, spool
<1> QED BY <1>1, <1>2, <1>3, <1>4, <1>5 DEF CommandInv

\* A step that leaves the spool, the slot, the publication and the dispatches
\* alone.
LEMMA AsideKeeps ==
  ASSUME CommandInv, UNCHANGED <<claimed, result, active, publishing, outcome, sent>>,
         queue' \in Seq(Requests)
  PROVE  CommandInv'
BY DEF CommandInv, TypeInv, SentIsClaimed, SlotInv, PublishingInv, RefusalsAreTrue

\* Settling the request in the slot with an answer that is true of it.
LEMMA SettleKeeps ==
  ASSUME CommandInv, NEW r \in Requests, active = r,
         NEW code \in {"completed", "refused", "reloaded", "timeout"}, Settle(r, code),
         UNCHANGED <<claimed, result, sent>>, queue' \in Seq(Requests)
  PROVE  CommandInv'
BY NoneAssumption
   DEF CommandInv, TypeInv, SentIsClaimed, SlotInv, PublishingInv, RefusalsAreTrue, Settle, Codes

LEMMA QueueKept == ASSUME CommandInv, UNCHANGED queue PROVE queue' \in Seq(Requests)
BY DEF CommandInv, TypeInv

LEMMA NextCommand == CommandInv /\ [Next]_vars => CommandInv'
<1> SUFFICES ASSUME CommandInv, [Next]_vars PROVE CommandInv'
  OBVIOUS
<1> USE NoneAssumption
<1>1. CASE UNCHANGED vars
  BY <1>1, AsideKeeps, QueueKept DEF vars, spool, slot, publication, lane
<1>2. ASSUME NEW r \in Requests, QueueRequest(r) PROVE CommandInv'
  <2>1. queue' \in Seq(Requests)
    BY <1>2 DEF QueueRequest, CommandInv, TypeInv
  <2> QED BY <1>2, <2>1, AsideKeeps DEF QueueRequest, Wake, spool, slot, publication
<1>3. ASSUME NEW r \in Requests, QueueRefused(r) PROVE CommandInv'
  <2>1. CASE disposed
    BY <1>3, <2>1, RefusalKeeps, QueueKept DEF QueueRefused, Wake, lane
  <2>2. CASE ~disposed
    BY <1>3, <2>2, AsideKeeps, QueueKept
       DEF QueueRefused, Wake, lane, spool, slot, publication
  <2> QED BY <2>1, <2>2
<1>4. ASSUME NEW r \in Requests, BadLaunch(r) \/ LaunchWithoutPrimary(r) PROVE CommandInv'
  BY <1>4, RefusalKeeps, QueueKept DEF BadLaunch, LaunchWithoutPrimary, Wake, lane
<1>5. CASE PumpDrops
  <2>1. queue' \in Seq(Requests) /\ Head(queue) \in Requests
    BY <1>5 DEF PumpDrops, CommandInv, TypeInv
  <2> QED BY <1>5, <2>1
          DEF PumpDrops, CommandInv, TypeInv, SentIsClaimed, SlotInv, PublishingInv,
              RefusalsAreTrue, slot, publication
<1>6. CASE PumpClaims
  <2>1. queue' \in Seq(Requests) /\ Head(queue) \in Requests
    BY <1>6 DEF PumpClaims, CommandInv, TypeInv
  <2> DEFINE r == Head(queue)
  <2>2. r \notin claimed /\ result[r] = "none" /\ sent[r] = 0
        /\ active = None /\ publishing = None
    BY <1>6, <2>1 DEF PumpClaims, Claimable, Looping, CommandInv, TypeInv, SentIsClaimed
  <2>3. CASE active' = r /\ sent' = [sent EXCEPT ![r] = @ + 1] /\ UNCHANGED publication
    <3>1. /\ claimed' = claimed \union {r} /\ UNCHANGED result
          /\ UNCHANGED <<publishing, outcome>>
      BY <1>6, <2>3 DEF PumpClaims, publication
    <3>2. sent \in [Requests -> 0 .. 1] /\ sent' \in [Requests -> 0 .. 1] /\ sent'[r] = 1
          /\ \A q \in Requests : q # r => sent'[q] = sent[q]
      BY <2>1, <2>2, <2>3 DEF CommandInv, TypeInv
    <3>3. TypeInv'
      BY <2>1, <2>3, <3>1, <3>2 DEF CommandInv, TypeInv
    <3>4. SentIsClaimed' /\ RefusalsAreTrue'
      BY <2>1, <2>2, <3>1, <3>2 DEF CommandInv, SentIsClaimed, RefusalsAreTrue
    <3>5. SlotInv' /\ PublishingInv'
      BY <2>1, <2>2, <2>3, <3>1, <3>2 DEF SlotInv, PublishingInv
    <3> QED BY <3>3, <3>4, <3>5 DEF CommandInv
  <2>4. ASSUME NEW code \in {"timeout", "unavailable"}, Settle(r, code), UNCHANGED sent
        PROVE CommandInv'
    BY <1>6, <2>1, <2>2, <2>4
       DEF PumpClaims, CommandInv, TypeInv, SentIsClaimed, SlotInv, PublishingInv,
           RefusalsAreTrue, Settle, Codes
  <2> QED BY <1>6, <2>3, <2>4 DEF PumpClaims
<1>7. CASE PumpStops
  BY <1>7, AsideKeeps, QueueKept DEF PumpStops, spool, slot, publication, lane
<1>8. CASE Publish
  BY <1>8 DEF Publish, PublicationOver, Writable, Written, CommandInv, TypeInv, SentIsClaimed,
              SlotInv, PublishingInv, RefusalsAreTrue, slot, lane, Codes
<1>9. CASE PublishFails
  <2>1. UNCHANGED <<claimed, active, queue, sent>>
        /\ (UNCHANGED <<publishing, outcome>> \/ publishing' = None)
    BY <1>9 DEF PublishFails, PublicationOver, slot, lane
  <2>2. CASE UNCHANGED result
    BY <2>1, <2>2 DEF CommandInv, TypeInv, SentIsClaimed, SlotInv, PublishingInv,
                      RefusalsAreTrue
  <2>3. CASE result' = Written(publishing, outcome)
    BY <1>9, <2>1, <2>3 DEF PublishFails, Written, CommandInv, TypeInv, SentIsClaimed, SlotInv,
                            PublishingInv, RefusalsAreTrue, Codes
  <2> QED BY <1>9, <2>2, <2>3 DEF PublishFails
<1>10. ASSUME NEW r \in Requests, Complete(r) PROVE CommandInv'
  <2>1. UNCHANGED <<claimed, result, sent>> /\ queue' \in Seq(Requests)
    BY <1>10, QueueKept DEF Complete, spool, lane
  <2>2. CASE active = r
    BY <1>10, <2>1, <2>2, SettleKeeps DEF Complete
  <2>3. CASE active # r
    BY <1>10, <2>1, <2>3, AsideKeeps DEF Complete, slot, publication
  <2> QED BY <2>2, <2>3
<1>11. CASE ClockPasses
  BY <1>11, AsideKeeps, QueueKept DEF ClockPasses, spool, publication, lane
<1>12. CASE Timeout
  <2>1. active \in Requests
    BY <1>12 DEF Timeout, CommandInv, TypeInv
  <2> QED BY <1>12, <2>1, SettleKeeps, QueueKept DEF Timeout, spool, lane
<1>13. CASE RendererReloaded
  <2>1. UNCHANGED <<claimed, result, sent>> /\ queue' \in Seq(Requests)
    BY <1>13, QueueKept DEF RendererReloaded, spool, lane
  <2>2. CASE active = None
    BY <1>13, <2>1, <2>2, AsideKeeps DEF RendererReloaded, slot, publication
  <2>3. CASE active # None
    <3>1. active \in Requests
      BY <2>3 DEF CommandInv, TypeInv
    <3> QED BY <1>13, <2>1, <2>3, <3>1, SettleKeeps DEF RendererReloaded, LostAnswer
  <2> QED BY <2>2, <2>3
<1>14. CASE RendererReady
  BY <1>14, AsideKeeps, QueueKept DEF RendererReady, spool, slot, publication, lane
<1>15. CASE ForgetKnownRequests
  BY <1>15, AsideKeeps, QueueKept DEF ForgetKnownRequests, spool, slot, publication
<1>16. CASE Dispose
  <2>1. queue' \in Seq(Requests)
    BY <1>16 DEF Dispose
  <2> QED BY <1>16, <2>1 DEF Dispose, CommandInv, TypeInv, SentIsClaimed,
                         SlotInv, PublishingInv, RefusalsAreTrue, spool, publication
<1>17. ASSUME NEW r \in Requests, NEW c \in Circles,
              BeginStart(r, c) \/ DispatchStart(r, c) \/ AbandonStart(r, c)
       PROVE CommandInv'
  BY <1>17, AsideKeeps, QueueKept
     DEF BeginStart, DispatchStart, AbandonStart, spool, slot, publication, lane
<1>18. CASE ProcessEnds
  <2>1. queue' \in Seq(Requests)
    BY <1>18 DEF ProcessEnds
  <2> QED BY <1>18, <2>1 DEF ProcessEnds, CommandInv, TypeInv, SentIsClaimed,
                         SlotInv, PublishingInv, RefusalsAreTrue, spool
<1>19. CASE ProcessStarts
  BY <1>19, AsideKeeps, QueueKept DEF ProcessStarts, spool, slot, publication, lane
<1> QED BY <1>1, <1>2, <1>3, <1>4, <1>5, <1>6, <1>7, <1>8, <1>9, <1>10, <1>11, <1>12,
           <1>13, <1>14, <1>15, <1>16, <1>17, <1>18, <1>19
        DEF Next, Launch, PumpLoop, Publication, Window, Start

LEMMA CommandAlways == Spec => []CommandInv
BY InitCommand, NextCommand, PTL DEF Spec

\* A request reaches a window at most once, over duplicate launches, forgotten
\* ids, reloads, refusals and restarts: for any ceiling of the id memory.
THEOREM DispatchCorrect == Spec => []DispatchedOnce
<1>1. CommandInv => DispatchedOnce
  BY DEF CommandInv, TypeInv, DispatchedOnce
<1> QED BY <1>1, CommandAlways, PTL

\* A refusal that says nothing was started was given for a request no window
\* was handed.
THEOREM RefusalCorrect == Spec => []RefusalsAreTrue
<1>1. CommandInv => RefusalsAreTrue
  BY DEF CommandInv
<1> QED BY <1>1, CommandAlways, PTL

\* A publication never meets somebody else's result.
THEOREM PublicationCorrect == Spec => []PublicationNeverConflicts
<1>1. CommandInv => PublicationNeverConflicts
  BY DEF CommandInv, PublishingInv, PublicationNeverConflicts, Writable
<1> QED BY <1>1, CommandAlways, PTL

\* A start that was admitted earlier is not dispatched once its request is
\* being answered.
THEOREM StartCorrect == Spec => NoStartAfterAnswer
<1> DEFINE Good == \A s \in sessions' \ sessions : result[s[1]] = "none" /\ publishing # s[1]
<1>1. ASSUME CommandInv, [Next]_vars PROVE Good \/ UNCHANGED vars
  <2>1. CASE UNCHANGED sessions
    BY <2>1
  <2>2. ASSUME NEW r \in Requests, NEW c \in Circles, DispatchStart(r, c) PROVE Good
    <3>1. active = r /\ active # None
      BY <2>2, NoneAssumption DEF DispatchStart, Current
    <3>2. result[r] = "none" /\ publishing = None
      BY <1>1, <3>1 DEF CommandInv, SlotInv
    <3>3. sessions' = sessions \union {<<r, c>>}
      BY <2>2 DEF DispatchStart
    <3>4. ASSUME NEW s \in sessions' \ sessions PROVE s[1] = r
      BY <3>3, <3>4
    <3> QED BY <3>2, <3>4, NoneAssumption
  <2> QED
    BY <1>1, <2>1, <2>2
       DEF Next, Launch, PumpLoop, Publication, Window, Start, QueueRequest, QueueRefused,
           BadLaunch, LaunchWithoutPrimary, Wake, PumpDrops, PumpClaims, PumpStops, Publish,
           PublishFails, Complete, ClockPasses, Timeout, RendererReloaded, RendererReady,
           ForgetKnownRequests, Dispose, BeginStart, AbandonStart, ProcessEnds, ProcessStarts,
           starts, vars
<1> QED BY <1>1, CommandAlways, PTL DEF Spec, NoStartAfterAnswer

\* What a start was admitted for, or was started for: a request claimed for
\* good, which, as long as it has the slot, is bound to that circle.
StartsType == circle \in Circles \union {None} /\ contexts \subseteq Requests \X Circles
              /\ sessions \subseteq Requests \X Circles
StartsBound == \A s \in contexts \union sessions :
                 s[1] \in claimed /\ (active = s[1] => circle = s[2])
CircleInv == StartsType /\ StartsBound /\ OneCirclePerRequest

\* A step that binds and starts nothing, and leaves the slot alone or empty.
LEMMA NothingBound ==
  ASSUME CircleInv, contexts' \subseteq contexts, sessions' = sessions, claimed \subseteq claimed',
         UNCHANGED <<active, circle>> \/ (active' = None /\ circle' = None)
  PROVE  CircleInv'
<1>1. StartsType' /\ OneCirclePerRequest'
  BY DEF CircleInv, StartsType, OneCirclePerRequest
<1>2. ASSUME NEW s \in contexts' \union sessions'
      PROVE  s[1] \in claimed' /\ (active' = s[1] => circle' = s[2])
  <2>1. s \in contexts \union sessions /\ s[1] \in Requests
    BY <1>2 DEF CircleInv, StartsType
  <2> QED BY <2>1, NoneAssumption DEF CircleInv, StartsBound
<1> QED BY <1>1, <1>2 DEF CircleInv, StartsBound

LEMMA DispatchBinds ==
  ASSUME CircleInv, NEW r \in Requests, r \notin claimed, active' = r,
         claimed' = claimed \union {r}, UNCHANGED <<circle, contexts, sessions>>
  PROVE  CircleInv'
BY DEF CircleInv, StartsType, StartsBound, OneCirclePerRequest

LEMMA BeginBinds ==
  ASSUME CommandInv, CircleInv, NEW r \in Requests, NEW c \in Circles, BeginStart(r, c)
  PROVE  CircleInv'
<1>1. /\ active = r /\ active' = r /\ r \in claimed /\ claimed' = claimed
      /\ circle \in {None, c} /\ circle' = c
      /\ contexts' = contexts \union {<<r, c>>} /\ sessions' = sessions
  BY NoneAssumption DEF BeginStart, Current, CommandInv, SlotInv, spool
<1>2. StartsType' /\ OneCirclePerRequest'
  BY <1>1 DEF CircleInv, StartsType, OneCirclePerRequest
<1>3. ASSUME NEW s \in contexts' \union sessions' PROVE s[1] \in claimed' /\ (active' = s[1] => circle' = s[2])
  <2>1. CASE s = <<r, c>>
    BY <1>1, <2>1
  <2>2. CASE s \in contexts \union sessions
    <3>1. s[1] \in claimed /\ (active = s[1] => circle = s[2]) /\ s[2] \in Circles
      BY <2>2 DEF CircleInv, StartsType, StartsBound
    <3> QED BY <1>1, <3>1, NoneAssumption
  <2> QED BY <1>1, <1>3, <2>1, <2>2
<1> QED BY <1>2, <1>3 DEF CircleInv, StartsBound

\* The start that is dispatched is bound to the circle of every other.
LEMMA DispatchIsBound ==
  ASSUME CircleInv, NEW r \in Requests, NEW c \in Circles, DispatchStart(r, c)
  PROVE  CircleInv'
<1>1. /\ active = r /\ UNCHANGED <<active, circle, claimed>>
      /\ <<r, c>> \in contexts
      /\ contexts' = contexts \ {<<r, c>>} /\ sessions' = sessions \union {<<r, c>>}
  BY DEF DispatchStart, Current, spool, slot
<1>2. StartsType' /\ StartsBound'
  BY <1>1 DEF CircleInv, StartsType, StartsBound
<1>3. circle = c
  BY <1>1 DEF CircleInv, StartsBound
<1>4. ASSUME NEW t \in sessions, t[1] = r PROVE t = <<r, c>>
  <2>1. t[2] = c
    BY <1>1, <1>3, <1>4 DEF CircleInv, StartsBound
  <2> QED BY <1>4, <2>1 DEF CircleInv, StartsType
<1>5. OneCirclePerRequest'
  BY <1>1, <1>4 DEF CircleInv, OneCirclePerRequest
<1> QED BY <1>2, <1>5 DEF CircleInv

LEMMA NextCircle == CommandInv /\ CircleInv /\ [Next]_vars => CircleInv'
<1> SUFFICES ASSUME CommandInv, CircleInv, [Next]_vars PROVE CircleInv'
  OBVIOUS
<1>1. CASE UNCHANGED vars
  BY <1>1, NothingBound DEF vars, spool, slot, starts
<1>2. CASE Launch
  BY <1>2, NothingBound
     DEF Launch, QueueRequest, QueueRefused, BadLaunch, LaunchWithoutPrimary, Wake, RefuseLaunch,
         spool, slot, starts
<1>3. CASE PumpDrops \/ PumpStops
  BY <1>3, NothingBound DEF PumpDrops, PumpStops, spool, slot, starts
<1>4. CASE PumpClaims
  <2>1. Head(queue) \in Requests /\ Head(queue) \notin claimed
    BY <1>4 DEF PumpClaims, Claimable, CommandInv, TypeInv
  <2>2. CASE active' = Head(queue) /\ UNCHANGED circle
    BY <1>4, <2>1, <2>2, DispatchBinds DEF PumpClaims, starts
  <2>3. CASE active' = None /\ circle' = None
    BY <1>4, <2>3, NothingBound DEF PumpClaims, starts
  <2> QED BY <1>4, <2>2, <2>3 DEF PumpClaims, Settle
<1>5. CASE Publication
  BY <1>5, NothingBound DEF Publication, Publish, PublishFails, slot, starts
<1>6. CASE Window
  BY <1>6, NothingBound
     DEF Window, Complete, RendererReloaded, RendererReady, Settle, spool, slot, starts
<1>7. CASE ClockPasses \/ Timeout \/ ForgetKnownRequests
  BY <1>7, NothingBound DEF ClockPasses, Timeout, ForgetKnownRequests, Settle, spool, slot, starts
<1>8. CASE Dispose \/ ProcessEnds \/ ProcessStarts
  BY <1>8, NothingBound DEF Dispose, ProcessEnds, ProcessStarts, spool, slot, starts
<1>9. ASSUME NEW r \in Requests, NEW c \in Circles,
             BeginStart(r, c) \/ DispatchStart(r, c) \/ AbandonStart(r, c)
      PROVE  CircleInv'
  <2>1. CASE AbandonStart(r, c)
    BY <2>1, NothingBound DEF AbandonStart, spool, slot
  <2> QED BY <1>9, <2>1, BeginBinds, DispatchIsBound
<1> QED BY <1>1, <1>2, <1>3, <1>4, <1>5, <1>6, <1>7, <1>8, <1>9 DEF Next, PumpLoop, Start

\* A request starts at most one circle, however many starts were admitted for
\* it and however late each is dispatched.
THEOREM CircleCorrect == Spec => []OneCirclePerRequest
<1>1. Init => CircleInv
  BY DEF Init, BrokerInit, CircleInv, StartsType, StartsBound, OneCirclePerRequest
<1>2. CircleInv => OneCirclePerRequest
  BY DEF CircleInv
<1> QED BY <1>1, <1>2, NextCircle, CommandAlways, PTL DEF Spec
=============================================================================
