---------------------------- MODULE TreeSpawnProofs ----------------------------
(***************************************************************************)
(* For any number of errands, circles, scopes, limits and changes: what a  *)
(* refusal says stays true, and a root is spawned only under the parent as *)
(* it asked.                                                               *)
(*                                                                         *)
(* RefusedLeavesNothing is not inductive: a start may still be waiting for *)
(* its audit record or for the host when its errand is refused.  What stops*)
(* it there is the admission, which only an errand that waits passes, and  *)
(* what makes the refusal wait for every later stage is that the receipt   *)
(* has a permit from the moment its start exists.                          *)
(*                                                                         *)
(* ToldChildHasItsCircle needs the page's side too: from the page's "ok"   *)
(* to the errand's nobody may take the circle away (Tied).  The width of a *)
(* circle needs that a reserved circle is drawn only where it was reserved *)
(* (SlotInPlace), its depth that the saved forest stays a tree (Rooted).   *)
(***************************************************************************)
EXTENDS TreeSpawn, FiniteSetTheorems, TLAPS

ErrandRecords ==
  [at : {"idle", "waiting", "late", "closing", "ok", "refused", "unclean"},
   scope : Scopes \cup {None}, permit : {"none", "valid", "cancelled"}]
StartRecords ==
  [stage : {"none", "auditing", "entered", "hosting", "dispatched", "alive", "ready", "ended",
            "stuck", "over"}, closing : BOOLEAN, left : BOOLEAN]

\* What is known of one errand and its start.
Sound(r, s) ==
  /\ r \in ErrandRecords /\ s \in StartRecords
  /\ (r.permit = "none") = (s.stage = "none")
  /\ r.permit = "valid" => r.at \in Unsettled
  /\ r.at = "refused" => s.stage \in {"none", "auditing", "entered", "over"}

ErrandsSound ==
  /\ DOMAIN errand = Errands /\ errand = [e \in Errands |-> errand[e]]
  /\ DOMAIN start = Errands /\ start = [e \in Errands |-> start[e]]
  /\ \A e \in Errands : Sound(errand[e], start[e])

Frame ==
  /\ up \in [Circles -> Circles \cup {"top", "absent"}]
  /\ bounds \in Bounds \cup {None}
  /\ parent \in [live : BOOLEAN, scope : Scopes]
  /\ active \in Errands \cup {None}
  /\ page \in [Errands -> {"no", "told", "drawn", "asked", "held", "ok", "bad", "refused", "over"}]
  /\ acts \in 0 .. MaxActs

\* The inductive invariant.
SpawnInv == Frame /\ ErrandsSound

LEMMA InvImpliesTypeOK == SpawnInv => TypeOK
<1> SUFFICES ASSUME SpawnInv PROVE TypeOK
  OBVIOUS
<1>1. errand \in [Errands -> ErrandRecords]
  BY DEF SpawnInv, ErrandsSound, Sound
<1>2. start \in [Errands -> StartRecords]
  BY DEF SpawnInv, ErrandsSound, Sound
<1>3. \A e \in Errands : (errand[e].permit = "none") = (start[e].stage = "none")
  BY DEF SpawnInv, ErrandsSound, Sound
<1> QED
  BY <1>1, <1>2, <1>3 DEF SpawnInv, Frame, TypeOK, ErrandRecords, StartRecords

LEMMA InvImpliesRefused == SpawnInv => RefusedLeavesNothing
BY DEF SpawnInv, ErrandsSound, Sound, RefusedLeavesNothing

\* A step that touches one errand and its start, or neither.
LEMMA OneErrandLemma ==
  ASSUME ErrandsSound, NEW e \in Errands, NEW r, NEW s, Sound(r, s),
         errand' = [errand EXCEPT ![e] = r], start' = [start EXCEPT ![e] = s]
  PROVE  ErrandsSound'
<1>1. \A d \in Errands : errand'[d] = (IF d = e THEN r ELSE errand[d]) /\ start'[d] = (IF d = e THEN s ELSE start[d])
  BY DEF ErrandsSound
<1>2. \A d \in Errands : Sound(errand'[d], start'[d])
  BY <1>1 DEF ErrandsSound
<1> QED
  BY <1>2 DEF ErrandsSound, Sound

\* A cancelled receipt has no valid permit, and keeps the rest (cancel).
LEMMA CancelledLemma ==
  ASSUME NEW r \in ErrandRecords
  PROVE  /\ Cancelled(r) \in ErrandRecords
         /\ Cancelled(r).at = r.at
         /\ Cancelled(r).permit # "valid"
         /\ (Cancelled(r).permit = "none") = (r.permit = "none")
BY DEF Cancelled, ErrandRecords

\* A refusal, at whatever stage the start is: the clause of Sound that says so
\* is what MustClose and the end of a close are for (settle).
LEMMA RejectLemma ==
  ASSUME ErrandsSound, NEW e \in Errands, Reject(e)
  PROVE  ErrandsSound'
<1> DEFINE r == IF errand[e].at \notin Unsettled THEN errand[e]
                ELSE [Cancelled(errand[e]) EXCEPT
                       !.at = IF MustClose(e) THEN "closing"
                              ELSE IF start[e].stage = "entered" THEN "unclean" ELSE "refused"]
           s == [start[e] EXCEPT !.closing = @ \/ (errand[e].at \in Unsettled /\ MustClose(e))]
<1>1. errand' = [errand EXCEPT ![e] = r] /\ start' = [start EXCEPT ![e] = s]
  BY DEF Reject
<1>2. Sound(errand[e], start[e])
  BY DEF ErrandsSound
<1>3. s \in StartRecords /\ s.stage = start[e].stage
  BY <1>2 DEF Sound, StartRecords
<1>4. Sound(r, s)
  <2>1. CASE errand[e].at \notin Unsettled
    BY <2>1, <1>2, <1>3 DEF Sound
  <2>2. CASE errand[e].at \in Unsettled
    <3> DEFINE c == Cancelled(errand[e])
               a == IF MustClose(e) THEN "closing"
                    ELSE IF start[e].stage = "entered" THEN "unclean" ELSE "refused"
    <3>1. /\ c \in ErrandRecords /\ c.permit # "valid"
          /\ (c.permit = "none") = (errand[e].permit = "none")
      BY <1>2, CancelledLemma DEF Sound
    <3>2. r = [c EXCEPT !.at = a]
      BY <2>2
    <3>3. a = "refused" => start[e].stage \in {"none", "auditing", "over"}
      BY <1>2 DEF MustClose, Sound, StartRecords
    <3>4. a \in {"closing", "unclean", "refused"}
      OBVIOUS
    <3> HIDE DEF a, c
    <3>5. r \in ErrandRecords /\ r.permit = c.permit /\ r.at = a
      BY <3>1, <3>2, <3>4 DEF ErrandRecords
    <3> QED
      BY <1>2, <1>3, <3>1, <3>3, <3>5 DEF Sound
  <2> QED
    BY <2>1, <2>2
<1> HIDE DEF r, s
<1> QED
  BY <1>1, <1>4, OneErrandLemma

\* The page's answer (resolveLocalTreeCommand).
LEMMA ResolveLemma ==
  ASSUME ErrandsSound, NEW e \in Errands, NEW good, Resolve(e, good)
  PROVE  ErrandsSound'
<1>1. CASE good /\ errand[e].at \in Unsettled /\ Verified(e)
  <2> DEFINE c == Cancelled(errand[e])
             r == [c EXCEPT !.at = "ok"]
  <2>1. errand' = [errand EXCEPT ![e] = r] /\ start' = [start EXCEPT ![e] = start[e]]
    BY <1>1 DEF Resolve, ErrandsSound
  <2>2. Sound(errand[e], start[e])
    BY DEF ErrandsSound
  <2>3. /\ c \in ErrandRecords /\ c.permit # "valid"
        /\ (c.permit = "none") = (errand[e].permit = "none")
    BY <2>2, CancelledLemma DEF Sound
  <2> HIDE DEF c
  <2>4. r \in ErrandRecords /\ r.permit = c.permit /\ r.at = "ok"
    BY <2>3 DEF ErrandRecords
  <2> HIDE DEF r
  <2> QED
    BY <2>1, <2>2, <2>3, <2>4, OneErrandLemma DEF Sound
<1>2. CASE ~(good /\ errand[e].at \in Unsettled /\ Verified(e))
  BY <1>2, RejectLemma DEF Resolve
<1> QED
  BY <1>1, <1>2

\* A start moves on, for an errand that is not refused or to a stage at which
\* a refusal may leave it.
LEMMA ToLemma ==
  ASSUME ErrandsSound, NEW e \in Errands, NEW stage, To(e, stage), UNCHANGED errand,
         start[e].stage # "none",
         [start[e] EXCEPT !.stage = stage] \in StartRecords, stage # "none",
         errand[e].at = "refused" => stage \in {"auditing", "entered", "over"}
  PROVE  ErrandsSound'
<1> DEFINE s == [start[e] EXCEPT !.stage = stage]
<1>1. Sound(errand[e], start[e])
  BY DEF ErrandsSound
<1>2. errand' = [errand EXCEPT ![e] = errand[e]] /\ start' = [start EXCEPT ![e] = s]
  BY DEF To, ErrandsSound
<1>3. s.stage = stage
  BY <1>1 DEF Sound, StartRecords
<1> HIDE DEF s
<1>4. Sound(errand[e], s)
  BY <1>1, <1>3 DEF Sound, s
<1> QED
  BY <1>2, <1>4, OneErrandLemma

\* A start fails, and the receipt's permit with it (the catch of agent:start).
LEMMA FailsLemma ==
  ASSUME ErrandsSound, NEW e \in Errands, NEW stage \in {"over", "stuck"}, Fails(e, stage),
         start[e].stage # "none",
         errand[e].at = "refused" => stage = "over"
  PROVE  ErrandsSound'
<1> DEFINE s == [start[e] EXCEPT !.stage = stage]
           c == Cancelled(errand[e])
<1>1. Sound(errand[e], start[e])
  BY DEF ErrandsSound
<1>2. errand' = [errand EXCEPT ![e] = c] /\ start' = [start EXCEPT ![e] = s]
  BY DEF Fails, To
<1>3. s \in StartRecords /\ s.stage = stage
  BY <1>1 DEF Sound, StartRecords
<1>4. /\ c \in ErrandRecords /\ c.permit # "valid" /\ c.at = errand[e].at
      /\ (c.permit = "none") = (errand[e].permit = "none")
  BY <1>1, CancelledLemma DEF Sound
<1> HIDE DEF c, s
<1>5. Sound(c, s)
  BY <1>1, <1>3, <1>4 DEF Sound
<1> QED
  BY <1>2, <1>5, OneErrandLemma

\* Every step of one errand, its page or its start.
LEMMA ErrandStep ==
  ASSUME Frame, ErrandsSound, NEW e \in Errands,
         \/ Dispatch(e) \/ Deliver(e) \/ Expires(e) \/ TimerFires(e) \/ BrokerTimesOut(e)
         \/ Publish(e) \/ CleanupEnds(e)
         \/ Draw(e) \/ PageGivesUp(e) \/ PageHolds(e) \/ StartAsked(e) \/ StartReturns(e)
         \/ Recorded(e) \/ IntentRefused(e) \/ Hosted(e) \/ HostRefuses(e) \/ HostHolds(e)
         \/ ChildExits(e) \/ CloseRetried(e) \/ StartMoves(e)
  PROVE  ErrandsSound'
<1>1. Sound(errand[e], start[e])
  BY DEF ErrandsSound
<1>2. CASE UNCHANGED <<errand, start>>
  BY <1>2 DEF ErrandsSound, Sound
<1>3. CASE Dispatch(e)
  <2> DEFINE r == [errand[e] EXCEPT !.at = "waiting", !.scope = parent.scope]
  <2>1. /\ errand' = [errand EXCEPT ![e] = r] /\ start' = [start EXCEPT ![e] = start[e]]
        /\ errand[e].at = "idle"
    BY <1>3 DEF Dispatch, ErrandsSound
  <2>2. r \in ErrandRecords /\ r.permit = errand[e].permit /\ r.at = "waiting"
    BY <1>1 DEF Sound, ErrandRecords, Frame
  <2> HIDE DEF r
  <2> QED
    BY <1>1, <2>1, <2>2, OneErrandLemma DEF Sound, Unsettled
<1>4. CASE Expires(e)
  <2> DEFINE r == [errand[e] EXCEPT !.at = "late"]
  <2>1. errand' = [errand EXCEPT ![e] = r] /\ start' = [start EXCEPT ![e] = start[e]]
    BY <1>4 DEF Expires, ErrandsSound
  <2>2. r \in ErrandRecords /\ r.permit = errand[e].permit /\ r.at = "late"
    BY <1>1 DEF Sound, ErrandRecords
  <2> HIDE DEF r
  <2> QED
    BY <1>1, <2>1, <2>2, OneErrandLemma DEF Sound, Unsettled
<1>5. CASE TimerFires(e)
  BY <1>5, RejectLemma DEF TimerFires
<1>6. CASE BrokerTimesOut(e)
  BY <1>6, RejectLemma DEF BrokerTimesOut
<1>7. CASE Publish(e)
  <2>1. CASE active = e
    <3> DEFINE good == page[e] = "ok"
    <3>1. Resolve(e, good)
      BY <1>7, <2>1 DEF Publish
    <3> HIDE DEF good
    <3> QED
      BY <3>1, ResolveLemma
  <2>2. CASE active # e
    BY <1>2, <1>7, <2>2 DEF Publish
  <2> QED
    BY <2>1, <2>2
<1>8. CASE CleanupEnds(e)
  <2> DEFINE a == IF start[e].stage = "over" THEN "refused" ELSE "unclean"
             r == [errand[e] EXCEPT !.at = a]
  <2>1. /\ errand' = [errand EXCEPT ![e] = r] /\ start' = [start EXCEPT ![e] = start[e]]
        /\ errand[e].at = "closing"
    BY <1>8 DEF CleanupEnds, ErrandsSound
  <2>2. r \in ErrandRecords /\ r.permit = errand[e].permit /\ r.at = a
    BY <1>1 DEF Sound, ErrandRecords
  <2>3. a = "refused" => start[e].stage = "over"
    OBVIOUS
  <2> HIDE DEF r, a
  <2> QED
    BY <1>1, <2>1, <2>2, <2>3, OneErrandLemma DEF Sound, Unsettled
<1>9. CASE StartAsked(e)
  <2>1. CASE Redeem(e) /\ Redeemable(e)
    <3> DEFINE r == [errand[e] EXCEPT !.permit = "valid"]
               s == [start[e] EXCEPT !.stage = "auditing"]
    <3>1. /\ errand' = [errand EXCEPT ![e] = r] /\ start' = [start EXCEPT ![e] = s]
          /\ errand[e].at = "waiting"
      BY <2>1 DEF Redeem, Redeemable
    <3>2. r \in ErrandRecords /\ r.permit = "valid" /\ r.at = "waiting"
      BY <1>1, <3>1 DEF Sound, ErrandRecords
    <3>3. s \in StartRecords /\ s.stage = "auditing"
      BY <1>1 DEF Sound, StartRecords
    <3> HIDE DEF r, s
    <3> QED
      BY <3>1, <3>2, <3>3, OneErrandLemma DEF Sound, Unsettled
  <2>2. CASE UNCHANGED <<errand, start>>
    BY <1>2, <2>2
  <2> QED
    BY <1>9, <2>1, <2>2 DEF StartAsked
<1>10. CASE Recorded(e)
  BY <1>1, <1>10, ToLemma DEF Recorded, Sound, StartRecords
<1>11. CASE IntentRefused(e)
  BY <1>11, FailsLemma DEF IntentRefused
<1>12. CASE Hosted(e)
  BY <1>1, <1>12, ToLemma DEF Hosted, Current, Sound, StartRecords
<1>13. CASE HostRefuses(e)
  BY <1>13, FailsLemma DEF HostRefuses
<1>14. CASE HostHolds(e)
  BY <1>14, FailsLemma DEF HostHolds
<1>15. CASE ChildExits(e)
  BY <1>1, <1>15, ToLemma DEF ChildExits, Sound, StartRecords
<1>16. CASE CloseRetried(e)
  BY <1>1, <1>16, ToLemma DEF CloseRetried, Sound, StartRecords
<1>17. CASE DispatchEngine(e)
  BY <1>1, <1>17, ToLemma DEF DispatchEngine, Sound, StartRecords
<1>18. CASE RootSpawned(e)
  BY <1>1, <1>18, ToLemma DEF RootSpawned, Sound, StartRecords
<1>19. CASE StartFails(e)
  BY <1>1, <1>19, FailsLemma DEF StartFails, Sound
<1>20. CASE Ready(e)
  BY <1>1, <1>20, ToLemma DEF Ready, Sound, StartRecords
<1>21. CASE Closes(e)
  BY <1>1, <1>21, ToLemma DEF Closes, Sound, StartRecords
<1>22. CASE Deliver(e) \/ Draw(e) \/ PageGivesUp(e) \/ PageHolds(e) \/ StartReturns(e)
  BY <1>2, <1>22 DEF Deliver, Draw, PageGivesUp, PageHolds, StartReturns
<1> QED
  BY <1>3, <1>4, <1>5, <1>6, <1>7, <1>8, <1>9, <1>10, <1>11, <1>12, <1>13, <1>14, <1>15, <1>16, <1>17,
     <1>18, <1>19, <1>20, <1>21, <1>22 DEF StartMoves

\* The view, the window, the person and the asking agent.
LEMMA ErrandsKept ==
  ASSUME Frame, ErrandsSound, [Next]_vars
  PROVE  ErrandsSound'
<1>1. CASE UNCHANGED <<errand, start>>
  BY <1>1 DEF ErrandsSound, Sound
<1>2. CASE ViewRebuilt
  <2> DEFINE s(e) == [start[e] EXCEPT !.left = @ \/ page[e] = "asked"]
  <2>1. errand' = errand /\ start' = [e \in Errands |-> s(e)]
    BY <1>2 DEF ViewRebuilt
  <2>2. ASSUME NEW e \in Errands PROVE s(e) \in StartRecords /\ s(e).stage = start[e].stage
    BY DEF ErrandsSound, Sound, StartRecords
  <2> HIDE DEF s
  <2>3. ASSUME NEW e \in Errands PROVE Sound(errand[e], s(e))
    BY <2>2 DEF ErrandsSound, Sound
  <2> QED
    BY <2>1, <2>3 DEF ErrandsSound, Sound
<1>3. CASE WindowReloads
  BY <1>3, RejectLemma DEF WindowReloads, Frame
<1>4. CASE ParentStops \/ ParentChanges \/ BoundsChange
  BY <1>1, <1>4 DEF ParentStops, ParentChanges, BoundsChange
<1>5. ASSUME NEW c \in Circles, PersonRemoves(c) \/ \E p \in Circles : PersonPlaces(c, p)
      PROVE  ErrandsSound'
  BY <1>1, <1>5 DEF PersonRemoves, PersonPlaces
<1> QED
  BY <1>1, <1>2, <1>3, <1>4, <1>5, ErrandStep DEF Next, vars

\* The rest of the state keeps its types.
LEMMA FrameKept ==
  ASSUME Frame, [Next]_vars
  PROVE  Frame'
<1> USE DEF Frame
<1>1. ASSUME Acted PROVE acts' \in 0 .. MaxActs
  BY <1>1, ConstantsOK DEF Acted
<1>2. ASSUME NEW e \in Errands,
        \/ Expires(e) \/ TimerFires(e) \/ CleanupEnds(e)
        \/ Recorded(e) \/ IntentRefused(e) \/ Hosted(e) \/ HostRefuses(e)
        \/ ChildExits(e) \/ CloseRetried(e) \/ StartMoves(e)
      PROVE Frame'
  BY <1>2 DEF Expires, TimerFires, CleanupEnds, Recorded, IntentRefused, Hosted, HostRefuses, ChildExits,
     CloseRetried, StartMoves, DispatchEngine, RootSpawned, StartFails, Ready, Closes
<1>3. ASSUME NEW e \in Errands,
        Deliver(e) \/ PageGivesUp(e) \/ PageHolds(e) \/ StartReturns(e) \/ BrokerTimesOut(e)
      PROVE Frame'
  BY <1>3 DEF Deliver, PageGivesUp, PageHolds, StartReturns, BrokerTimesOut
<1>4. ASSUME NEW e \in Errands, Dispatch(e) PROVE Frame'
  BY <1>1, <1>4 DEF Dispatch
<1>5. ASSUME NEW e \in Errands, Draw(e) PROVE Frame'
  BY <1>5 DEF Draw, Circles
<1>6. ASSUME NEW e \in Errands, Publish(e) PROVE Frame'
  BY <1>6 DEF Publish
<1>7. ASSUME NEW e \in Errands, StartAsked(e) PROVE Frame'
  BY <1>7 DEF StartAsked
<1>8. ASSUME NEW e \in Errands, HostHolds(e) PROVE Frame'
  BY <1>8 DEF HostHolds
<1>9. CASE ViewRebuilt
  BY <1>1, <1>9 DEF ViewRebuilt
<1>10. CASE WindowReloads
  BY <1>10 DEF WindowReloads
<1>11. CASE ParentStops \/ ParentChanges
  BY <1>1, <1>11 DEF ParentStops, ParentChanges
<1>12. CASE BoundsChange
  BY <1>1, <1>12 DEF BoundsChange
<1>13. ASSUME NEW c \in Circles, PersonRemoves(c) PROVE Frame'
  BY <1>1, <1>13 DEF PersonRemoves
<1>14. ASSUME NEW c \in Circles, NEW p \in Circles, PersonPlaces(c, p) PROVE Frame'
  BY <1>1, <1>14 DEF PersonPlaces
<1>15. CASE UNCHANGED vars
  BY <1>15 DEF vars
<1> QED
  BY <1>2, <1>3, <1>4, <1>5, <1>6, <1>7, <1>8, <1>9, <1>10, <1>11, <1>12, <1>13, <1>14, <1>15 DEF Next

LEMMA InitLemma == Init => SpawnInv
<1> SUFFICES ASSUME Init PROVE SpawnInv
  OBVIOUS
<1>1. Frame
  BY ConstantsOK DEF Init, Frame, Circles
<1>2. ErrandsSound
  BY DEF Init, ErrandsSound, Sound, ErrandRecords, StartRecords, Unsettled
<1> QED
  BY <1>1, <1>2 DEF SpawnInv

THEOREM SpawnInvariant == Spec => []SpawnInv
<1>1. SpawnInv /\ [Next]_vars => SpawnInv'
  BY ErrandsKept, FrameKept DEF SpawnInv
<1> QED
  BY InitLemma, <1>1, PTL DEF Spec

\* The state keeps its shape, and a receipt has a permit exactly when its
\* start exists.
THEOREM TypeCorrect == Spec => []TypeOK
BY SpawnInvariant, InvImpliesTypeOK, PTL

\* An agent told that its errand was refused has nothing left running, being
\* started or waiting to be closed for it, at any later time (settle and the
\* admission of a start).
THEOREM RefusalsAreTrue == Spec => []RefusedLeavesNothing
BY SpawnInvariant, InvImpliesRefused, PTL

\* A refusal or an answer moves no start, and To moves one.
LEMMA RejectMovesNoStart ==
  ASSUME ErrandsSound, NEW e \in Errands, NEW d \in Errands,
         Reject(d) \/ (\E good \in BOOLEAN : Resolve(d, good)) \/ UNCHANGED start
  PROVE  start'[e].stage = start[e].stage
<1>1. Sound(start[e], start[e]) \/ start[e] \in StartRecords
  BY DEF ErrandsSound, Sound
<1>2. CASE Reject(d)
  BY <1>2 DEF Reject, ErrandsSound, Sound, StartRecords
<1>3. CASE UNCHANGED start
  BY <1>3
<1>4. ASSUME NEW good \in BOOLEAN, Resolve(d, good) PROVE start'[e].stage = start[e].stage
  BY <1>2, <1>3, <1>4 DEF Resolve, Reject, ErrandsSound, Sound, StartRecords
<1> QED
  BY <1>2, <1>3, <1>4

LEMMA ToMovesOne ==
  ASSUME ErrandsSound, NEW e \in Errands, NEW d \in Errands, NEW stage, To(d, stage)
  PROVE  start'[e].stage = IF e = d THEN stage ELSE start[e].stage
BY DEF To, ErrandsSound, Sound, StartRecords

\* Only the lease's root spawn makes a child alive.
LEMMA OnlyRootSpawned ==
  ASSUME SpawnInv, [Next]_vars, NEW e \in Errands,
         start[e].stage # "alive", start'[e].stage = "alive"
  PROVE  RootSpawned(e)
<1> USE DEF SpawnInv
<1>1. ~ UNCHANGED start
  BY RejectMovesNoStart
<1>2. ASSUME NEW d \in Errands,
        \/ Dispatch(d) \/ Deliver(d) \/ Expires(d) \/ CleanupEnds(d)
        \/ Draw(d) \/ PageGivesUp(d) \/ PageHolds(d) \/ StartReturns(d)
      PROVE FALSE
  BY <1>1, <1>2 DEF Dispatch, Deliver, Expires, CleanupEnds, Draw, PageGivesUp, PageHolds, StartReturns
<1>3. ASSUME NEW d \in Errands, TimerFires(d) \/ BrokerTimesOut(d) PROVE FALSE
  BY <1>3, RejectMovesNoStart DEF TimerFires, BrokerTimesOut
<1>4. ASSUME NEW d \in Errands, Publish(d) PROVE FALSE
  BY <1>1, <1>4, RejectMovesNoStart DEF Publish
<1>5. ASSUME NEW d \in Errands, StartAsked(d) PROVE FALSE
  <2>1. Redeem(d)
    BY <1>1, <1>5 DEF StartAsked
  <2>2. To(d, "auditing")
    BY <2>1 DEF Redeem, To
  <2> QED
    BY <2>2, ToMovesOne
<1>6. ASSUME NEW d \in Errands, NEW stage, To(d, stage), stage # "alive" PROVE FALSE
  BY <1>6, ToMovesOne
<1>7. ASSUME NEW d \in Errands, Recorded(d) \/ IntentRefused(d) \/ Hosted(d) \/ HostRefuses(d) \/ HostHolds(d)
      PROVE FALSE
  BY <1>6, <1>7 DEF Recorded, IntentRefused, Hosted, HostRefuses, HostHolds, Fails
<1>8. ASSUME NEW d \in Errands, ChildExits(d) \/ CloseRetried(d) \/ DispatchEngine(d) \/ Ready(d) PROVE FALSE
  BY <1>6, <1>8 DEF ChildExits, CloseRetried, DispatchEngine, Ready
<1>9. ASSUME NEW d \in Errands, StartFails(d) \/ Closes(d) PROVE FALSE
  BY <1>6, <1>9 DEF StartFails, Closes, Fails
<1>10. ASSUME NEW d \in Errands, RootSpawned(d) PROVE d = e
  BY <1>10, ToMovesOne DEF RootSpawned
<1>11. CASE ViewRebuilt
  BY <1>11 DEF ViewRebuilt, ErrandsSound, Sound, StartRecords
<1>12. CASE WindowReloads
  BY <1>12, RejectMovesNoStart DEF WindowReloads, Frame
<1>13. CASE \/ ParentStops \/ ParentChanges \/ BoundsChange \/ UNCHANGED vars
            \/ \E c \in Circles : PersonRemoves(c) \/ \E p \in Circles : PersonPlaces(c, p)
  BY <1>1, <1>13 DEF ParentStops, ParentChanges, BoundsChange, PersonRemoves, PersonPlaces, vars
<1> QED
  BY <1>2, <1>3, <1>4, <1>5, <1>7, <1>8, <1>9, <1>10, <1>11, <1>12, <1>13 DEF Next, StartMoves

\* No child is spawned for an errand that was refused, expired or answered,
\* nor under a parent that stopped or whose scope changed after it asked: the
\* lease asks for the permit, and only an errand that waits has a valid one
\* (beforeRootSpawn, assertStart).
THEOREM SpawnsAsIssued == Spec => SpawnsUnderParentAsIssued
<1>1. ASSUME SpawnInv, [Next]_vars PROVE \A e \in Errands : SpawnedAsIssued(e)
  <2> SUFFICES ASSUME NEW e \in Errands, start[e].stage # "alive", start'[e].stage = "alive", e \notin Local
               PROVE  errand[e].at = "waiting" /\ parent.live /\ parent.scope = errand[e].scope
    BY DEF SpawnedAsIssued
  <2>1. RootSpawned(e)
    BY <1>1, OnlyRootSpawned
  <2>2. PermitHolds(e)
    BY <2>1 DEF RootSpawned, MaySpawn
  <2> QED
    BY <1>1, <2>2 DEF PermitHolds, SpawnInv, ErrandsSound, Sound, Unsettled
<1> QED
  BY SpawnInvariant, <1>1, PTL DEF Spec, SpawnsUnderParentAsIssued
-----------------------------------------------------------------------------
(* The child of an errand that was told "ok" has its circle.               *)

\* What ties an errand, its start, its page and its circle together: only a
\* refused errand has its start closed, an answer "ok" has a child that came
\* up, and while that child runs in the view that asked for it nobody takes
\* its circle away, from the page's "ok" on (attachSession, performNodeRemoval).
Tied(r, s, p, u) ==
  /\ s.closing => r.at \in {"closing", "refused", "unclean"}
  /\ r.at = "ok" => s.stage \in {"ready", "ended"}
  /\ p = "ok" => s.stage \in {"ready", "ended", "stuck", "over"}
  /\ s.stage = "ready" /\ ~s.left /\ (p = "ok" \/ r.at = "ok") => u # "absent"

TiedInv == \A e \in Errands : Tied(errand[e], start[e], page[e], up[e])

\* A step that touches one errand and its start, and takes no circle away.
LEMMA OneTied ==
  ASSUME ErrandsSound, TiedInv, NEW d \in Errands, NEW r, NEW s,
         errand' = [errand EXCEPT ![d] = r], start' = [start EXCEPT ![d] = s],
         \A e \in Errands : up'[e] = "absent" => up[e] = "absent",
         \A e \in Errands \ {d} : page'[e] = "ok" => page[e] = "ok",
         Tied(r, s, page'[d], up'[d])
  PROVE  TiedInv'
<1> SUFFICES ASSUME NEW e \in Errands PROVE Tied(errand[e], start[e], page[e], up[e])'
  BY DEF TiedInv
<1>1. CASE e = d
  BY <1>1 DEF ErrandsSound
<1>2. CASE e # d
  <2>1. errand'[e] = errand[e] /\ start'[e] = start[e]
    BY <1>2 DEF ErrandsSound
  <2>2. Tied(errand[e], start[e], page[e], up[e])
    BY DEF TiedInv
  <2> QED BY <1>2, <2>1, <2>2 DEF Tied
<1> QED BY <1>1, <1>2

\* Nothing that is tied moves: a page may forget, a circle may appear.
LEMMA SameTied ==
  ASSUME TiedInv, UNCHANGED <<errand, start>>,
         \A e \in Errands : up'[e] = "absent" => up[e] = "absent",
         \A e \in Errands : page'[e] = "ok" => page[e] = "ok"
  PROVE  TiedInv'
BY DEF TiedInv, Tied

\* A refusal (settle).
LEMMA RejectTied ==
  ASSUME ErrandsSound, TiedInv, NEW d \in Errands, Reject(d), up' = up,
         \A e \in Errands : page'[e] = "ok" => page[e] = "ok"
  PROVE  TiedInv'
<1> DEFINE a == IF MustClose(d) THEN "closing" ELSE IF start[d].stage = "entered" THEN "unclean" ELSE "refused"
           c == Cancelled(errand[d])
           r == IF errand[d].at \notin Unsettled THEN errand[d] ELSE [c EXCEPT !.at = a]
           s == [start[d] EXCEPT !.closing = @ \/ (errand[d].at \in Unsettled /\ MustClose(d))]
<1>1. errand' = [errand EXCEPT ![d] = r] /\ start' = [start EXCEPT ![d] = s]
  BY DEF Reject
<1>2. /\ Sound(errand[d], start[d])
      /\ Tied(errand[d], start[d], page[d], up[d])
  BY DEF ErrandsSound, TiedInv
<1>3. /\ s.stage = start[d].stage /\ s.left = start[d].left
      /\ errand[d].at \notin Unsettled => s.closing = start[d].closing
  BY <1>2 DEF Sound, StartRecords
<1>4. a \in {"closing", "unclean", "refused"}
  OBVIOUS
<1>5. c \in ErrandRecords
  BY <1>2, CancelledLemma DEF Sound
<1> HIDE DEF a, c, s
<1>6. r.at = IF errand[d].at \notin Unsettled THEN errand[d].at ELSE a
  BY <1>5 DEF ErrandRecords
<1> HIDE DEF r
<1>7. Tied(r, s, page'[d], up'[d])
  BY <1>2, <1>3, <1>4, <1>6 DEF Tied
<1> QED BY <1>1, <1>7, OneTied

\* A start that moves to another stage, its errand as it was or cancelled.
LEMMA ToTied ==
  ASSUME ErrandsSound, TiedInv, NEW d \in Errands, NEW stage,
         To(d, stage), UNCHANGED errand \/ errand' = [errand EXCEPT ![d] = Cancelled(@)],
         up' = up, \A e \in Errands : page'[e] = "ok" => page[e] = "ok",
         errand[d].at = "ok" => stage \in {"ready", "ended"},
         page[d] = "ok" => stage \in {"ended", "stuck", "over"},
         stage = "ready" => errand[d].at # "ok"
  PROVE  TiedInv'
<1> DEFINE r == IF UNCHANGED errand THEN errand[d] ELSE Cancelled(errand[d])
           s == [start[d] EXCEPT !.stage = stage]
<1>1. errand' = [errand EXCEPT ![d] = r] /\ start' = [start EXCEPT ![d] = s]
  BY DEF To, ErrandsSound
<1>2. Sound(errand[d], start[d]) /\ Tied(errand[d], start[d], page[d], up[d])
  BY DEF ErrandsSound, TiedInv
<1>3. s.stage = stage /\ s.closing = start[d].closing /\ s.left = start[d].left
  BY <1>2 DEF Sound, StartRecords
<1>4. r.at = errand[d].at
  BY <1>2, CancelledLemma DEF Sound
<1> HIDE DEF r, s
<1>5. Tied(r, s, page'[d], up'[d])
  BY <1>2, <1>3, <1>4 DEF Tied
<1> QED BY <1>1, <1>5, OneTied

\* The page's answer: the errand is told "ok" on the page's "ok" only.
LEMMA PublishTied ==
  ASSUME Frame, ErrandsSound, TiedInv, NEW d \in Errands, Publish(d)
  PROVE  TiedInv'
<1>1. \A e \in Errands : page'[e] = "ok" => page[e] = "ok"
  BY DEF Publish, Frame
<1>2. up' = up
  BY DEF Publish
<1>3. CASE UNCHANGED <<errand, start>>
  BY <1>1, <1>2, <1>3, SameTied
<1>4. CASE Reject(d)
  BY <1>1, <1>2, <1>4, RejectTied
<1>5. CASE page[d] = "ok" /\ errand[d].at \in Unsettled /\ Verified(d)
           /\ errand' = [errand EXCEPT ![d] = [Cancelled(@) EXCEPT !.at = "ok"]] /\ UNCHANGED start
  <2> DEFINE c == Cancelled(errand[d])
             r == [c EXCEPT !.at = "ok"]
  <2>1. errand' = [errand EXCEPT ![d] = r] /\ start' = [start EXCEPT ![d] = start[d]]
    BY <1>5 DEF ErrandsSound
  <2>2. Sound(errand[d], start[d]) /\ Tied(errand[d], start[d], page[d], up[d])
    BY DEF ErrandsSound, TiedInv
  <2>3. c \in ErrandRecords
    BY <2>2, CancelledLemma DEF Sound
  <2> HIDE DEF c
  <2>4. r.at = "ok"
    BY <2>3 DEF ErrandRecords
  <2> HIDE DEF r
  <2>5. ~start[d].closing /\ start[d].stage = "ready"
    BY <1>5, <2>2 DEF Tied, Verified, Unsettled
  <2>6. Tied(r, start[d], page'[d], up'[d])
    BY <1>1, <1>2, <1>5, <2>2, <2>4, <2>5 DEF Tied
  <2> QED BY <1>1, <1>2, <2>1, <2>6, OneTied
<1> QED BY <1>3, <1>4, <1>5 DEF Publish, Resolve

\* The page learns what came of its start, and attaches the session.
LEMMA ReturnsTied ==
  ASSUME Frame, ErrandsSound, TiedInv, NEW d \in Errands, StartReturns(d)
  PROVE  TiedInv'
<1>1. errand' = [errand EXCEPT ![d] = errand[d]] /\ start' = [start EXCEPT ![d] = start[d]]
  BY DEF StartReturns, ErrandsSound
<1>2. Tied(errand[d], start[d], page[d], up[d])
  BY DEF TiedInv
<1>3. page'[d] = "ok" => start[d].stage = "ready" /\ (up[d] # "absent" \/ start[d].left)
  BY DEF StartReturns, Frame, Attaches
<1>4. \A e \in Errands \ {d} : page'[e] = page[e]
  BY DEF StartReturns, Frame
<1>5. up' = up
  BY DEF StartReturns
<1>6. Tied(errand[d], start[d], page'[d], up'[d])
  BY <1>2, <1>3, <1>5 DEF Tied
<1> QED BY <1>1, <1>4, <1>5, <1>6, OneTied

LEMMA ErrandTied ==
  ASSUME Frame, ErrandsSound, TiedInv, NEW d \in Errands,
         \/ Dispatch(d) \/ Deliver(d) \/ Expires(d) \/ TimerFires(d) \/ BrokerTimesOut(d)
         \/ Publish(d) \/ CleanupEnds(d)
         \/ Draw(d) \/ PageGivesUp(d) \/ PageHolds(d) \/ StartAsked(d) \/ StartReturns(d)
         \/ Recorded(d) \/ IntentRefused(d) \/ Hosted(d) \/ HostRefuses(d) \/ HostHolds(d)
         \/ ChildExits(d) \/ CloseRetried(d) \/ StartMoves(d)
  PROVE  TiedInv'
<1>1. Sound(errand[d], start[d]) /\ Tied(errand[d], start[d], page[d], up[d])
  BY DEF ErrandsSound, TiedInv
<1>2. ASSUME NEW a \in {"waiting", "late", "refused", "unclean"}, NEW r \in ErrandRecords, r.at = a,
             errand' = [errand EXCEPT ![d] = r], UNCHANGED <<up, page, start>>,
             a \in {"waiting", "late"} => ~start[d].closing
      PROVE  TiedInv'
  <2>1. start' = [start EXCEPT ![d] = start[d]]
    BY <1>2 DEF ErrandsSound
  <2>2. Tied(r, start[d], page'[d], up'[d])
    BY <1>1, <1>2 DEF Tied
  <2> QED BY <1>2, <2>1, <2>2, OneTied
<1>3. CASE Dispatch(d)
  <2> DEFINE r == [errand[d] EXCEPT !.at = "waiting", !.scope = parent.scope]
  <2>1. r \in ErrandRecords /\ r.at = "waiting" /\ errand[d].at = "idle"
    BY <1>1, <1>3 DEF Dispatch, Sound, ErrandRecords, Frame
  <2>2. errand' = [errand EXCEPT ![d] = r] /\ UNCHANGED <<up, page, start>>
    BY <1>3 DEF Dispatch
  <2> HIDE DEF r
  <2> QED BY <1>1, <1>2, <2>1, <2>2 DEF Tied
<1>4. CASE Expires(d)
  <2> DEFINE r == [errand[d] EXCEPT !.at = "late"]
  <2>1. r \in ErrandRecords /\ r.at = "late" /\ errand[d].at = "waiting"
    BY <1>1, <1>4 DEF Expires, Sound, ErrandRecords
  <2>2. errand' = [errand EXCEPT ![d] = r] /\ UNCHANGED <<up, page, start>>
    BY <1>4 DEF Expires
  <2> HIDE DEF r
  <2> QED BY <1>1, <1>2, <2>1, <2>2 DEF Tied
<1>5. CASE CleanupEnds(d)
  <2> DEFINE a == IF start[d].stage = "over" THEN "refused" ELSE "unclean"
             r == [errand[d] EXCEPT !.at = a]
  <2>1. r \in ErrandRecords /\ r.at = a /\ a \in {"refused", "unclean"}
    BY <1>1 DEF Sound, ErrandRecords
  <2>2. errand' = [errand EXCEPT ![d] = r] /\ UNCHANGED <<up, page, start>>
    BY <1>5 DEF CleanupEnds
  <2> HIDE DEF r, a
  <2> QED BY <1>2, <2>1, <2>2
<1>6. CASE TimerFires(d) \/ BrokerTimesOut(d)
  BY <1>6, RejectTied DEF TimerFires, BrokerTimesOut
<1>7. CASE Publish(d) \/ StartReturns(d)
  BY <1>7, PublishTied, ReturnsTied
<1>8. CASE Deliver(d) \/ PageGivesUp(d) \/ PageHolds(d)
  BY <1>8, SameTied DEF Deliver, PageGivesUp, PageHolds, Frame
<1>9. CASE Draw(d)
  <2>1. \A e \in Errands : up'[e] = "absent" => up[e] = "absent"
    BY <1>9, ConstantsOK DEF Draw, Frame, Circles
  <2>2. \A e \in Errands : page'[e] = "ok" => page[e] = "ok"
    BY <1>9 DEF Draw, Frame
  <2> QED BY <1>9, <2>1, <2>2, SameTied DEF Draw
<1>10. CASE StartAsked(d)
  <2>1. \A e \in Errands : page'[e] = "ok" => page[e] = "ok"
    BY <1>10 DEF StartAsked, Frame
  <2>2. CASE Redeem(d) /\ Redeemable(d)
    <3> DEFINE r == [errand[d] EXCEPT !.permit = "valid"]
               s == [start[d] EXCEPT !.stage = "auditing"]
    <3>1. errand' = [errand EXCEPT ![d] = r] /\ start' = [start EXCEPT ![d] = s]
      BY <2>2 DEF Redeem
    <3>2. r.at = "waiting" /\ page'[d] # "ok"
      BY <1>1, <1>10, <2>2 DEF StartAsked, Redeemable, Sound, ErrandRecords, Frame
    <3>3. s.stage = "auditing" /\ ~s.closing
      BY <1>1, <2>2 DEF Redeemable, Sound, StartRecords, Tied
    <3> HIDE DEF r, s
    <3>4. Tied(r, s, page'[d], up'[d])
      BY <3>2, <3>3 DEF Tied
    <3> QED BY <1>10, <2>1, <3>1, <3>4, OneTied DEF StartAsked
  <2>3. CASE UNCHANGED <<errand, start>>
    BY <1>10, <2>1, <2>3, SameTied DEF StartAsked
  <2> QED BY <1>10, <2>2, <2>3 DEF StartAsked
<1>11. CASE Recorded(d) \/ Hosted(d)
  BY <1>1, <1>11, ToTied DEF Recorded, Hosted, Tied
<1>12. CASE IntentRefused(d) \/ HostRefuses(d)
  BY <1>1, <1>12, ToTied DEF IntentRefused, HostRefuses, Fails, Tied
<1>13. CASE HostHolds(d)
  <2>1. \A e \in Errands : page'[e] = "ok" => page[e] = "ok"
    BY <1>13 DEF HostHolds, Frame
  <2> QED BY <1>1, <1>13, <2>1, ToTied DEF HostHolds, Fails, Tied
<1>14. CASE ChildExits(d) \/ CloseRetried(d)
  BY <1>1, <1>14, ToTied DEF ChildExits, CloseRetried, Tied
<1>15. CASE DispatchEngine(d) \/ RootSpawned(d) \/ Ready(d)
  BY <1>1, <1>15, ToTied DEF DispatchEngine, RootSpawned, Ready, Tied
<1>16. CASE StartFails(d)
  BY <1>1, <1>16, ToTied DEF StartFails, Fails, Tied
<1>17. CASE Closes(d)
  BY <1>1, <1>17, ToTied DEF Closes, Tied
<1> QED
  BY <1>3, <1>4, <1>5, <1>6, <1>7, <1>8, <1>9, <1>10, <1>11, <1>12, <1>13, <1>14, <1>15, <1>16, <1>17 DEF StartMoves

LEMMA TiedKept ==
  ASSUME Frame, ErrandsSound, TiedInv, [Next]_vars
  PROVE  TiedInv'
<1>1. CASE ViewRebuilt
  <2> DEFINE s(e) == [start[e] EXCEPT !.left = @ \/ page[e] = "asked"]
  <2>1. errand' = errand /\ up' = up /\ start' = [e \in Errands |-> s(e)]
    BY <1>1 DEF ViewRebuilt
  <2>2. ASSUME NEW e \in Errands
        PROVE  s(e).closing = start[e].closing /\ s(e).stage = start[e].stage /\ (start[e].left => s(e).left)
    BY DEF ErrandsSound, Sound, StartRecords
  <2> HIDE DEF s
  <2>3. \A e \in Errands : page'[e] = "ok" => page[e] = "ok"
    BY <1>1 DEF ViewRebuilt
  <2>4. ASSUME NEW e \in Errands PROVE Tied(errand[e], s(e), page'[e], up[e])
    BY <2>2, <2>3 DEF TiedInv, Tied
  <2> QED BY <2>1, <2>4 DEF TiedInv
<1>2. CASE WindowReloads
  <2>1. \A e \in Errands : page'[e] = "ok" => page[e] = "ok"
    BY <1>2 DEF WindowReloads
  <2> QED BY <1>2, <2>1, RejectTied DEF WindowReloads, Frame
<1>3. CASE ParentStops \/ ParentChanges \/ BoundsChange
  BY <1>3, SameTied DEF ParentStops, ParentChanges, BoundsChange
<1>4. ASSUME NEW c \in Circles, PersonRemoves(c) PROVE TiedInv'
  <2> SUFFICES ASSUME NEW e \in Errands PROVE Tied(errand[e], start[e], page[e], up'[e])
    BY <1>4 DEF PersonRemoves, TiedInv
  <2>1. CASE e = c
    BY <1>4, <2>1 DEF PersonRemoves, Busy, TiedInv, Tied
  <2>2. CASE e # c
    BY <1>4, <2>2 DEF PersonRemoves, TiedInv, Frame, Circles
  <2> QED BY <2>1, <2>2
<1>5. ASSUME NEW c \in Circles, NEW p \in Circles, PersonPlaces(c, p) PROVE TiedInv'
  <2>1. \A e \in Errands : up'[e] = "absent" => up[e] = "absent"
    BY <1>5, ConstantsOK DEF PersonPlaces, Frame, Circles
  <2> QED BY <1>5, <2>1, SameTied DEF PersonPlaces
<1>6. CASE UNCHANGED vars
  BY <1>6, SameTied DEF vars
<1> QED
  BY <1>1, <1>2, <1>3, <1>4, <1>5, <1>6, ErrandTied DEF Next

\* An agent told "ok" has a child that came up; it runs in a circle that can
\* be seen and stopped as long as the view that asked for it is there, however
\* persons, refusals, reloads and closes cross (resolveLocalTreeCommand,
\* attachSession, performNodeRemoval).
THEOREM CircleCorrect == Spec => []ToldChildHasItsCircle
<1>0. Init => TiedInv
  BY DEF Init, TiedInv, Tied
<1>1. Init => SpawnInv /\ TiedInv
  BY InitLemma, <1>0
<1>2. SpawnInv /\ TiedInv /\ [Next]_vars => SpawnInv' /\ TiedInv'
  BY ErrandsKept, FrameKept, TiedKept DEF SpawnInv
<1>3. TiedInv => ToldChildHasItsCircle
  BY DEF TiedInv, Tied, ToldChildHasItsCircle
<1> QED BY <1>1, <1>2, <1>3, PTL DEF Spec

-----------------------------------------------------------------------------
(* The width of a circle.  A promised slot counts below the asking agent's *)
(* circle until it is drawn, and its circle is drawn nowhere else: what    *)
(* validateWrite refuses to move keeps the two counts one.                 *)

\* A circle that is reserved is not drawn yet, or drawn where it was reserved.
SlotInPlace == \A e \in Reserved : up[e] \in {Parent, "absent"}

LEMMA TakenFinite ==
  ASSUME NEW p
  PROVE  IsFiniteSet(Taken(p)) /\ Cardinality(Taken(p)) \in Nat
BY ConstantsOK, FS_Subset, FS_CardinalityType DEF Taken

\* What planTreeSlot and validateWrite count is what is taken.
LEMMA CountedIsTaken ==
  ASSUME NEW p \in Circles
  PROVE  Children(up, p) = Taken(p)
BY ConstantsOK DEF Children, Taken, Placed, Reserved, Circles

\* One errand's receipt changes, and begins to hold no slot.
LEMMA OneFreed ==
  ASSUME ErrandsSound, NEW e \in Errands, NEW r, errand' = [errand EXCEPT ![e] = r],
         r.at \in Unsettled => errand[e].at \in Unsettled
  PROVE  Reserved' \subseteq Reserved
<1>1. \A d \in Errands : errand'[d] = IF d = e THEN r ELSE errand[d]
  BY DEF ErrandsSound
<1> QED
  BY <1>1 DEF Reserved

LEMMA SameFreed ==
  ASSUME UNCHANGED errand
  PROVE  Reserved' \subseteq Reserved
BY DEF Reserved

\* A refusal holds no slot that was not held (settle).
LEMMA RejectFreed ==
  ASSUME ErrandsSound, NEW e \in Errands, Reject(e)
  PROVE  Reserved' \subseteq Reserved
<1> DEFINE a == IF MustClose(e) THEN "closing" ELSE IF start[e].stage = "entered" THEN "unclean" ELSE "refused"
           r == IF errand[e].at \notin Unsettled THEN errand[e] ELSE [Cancelled(errand[e]) EXCEPT !.at = a]
<1>1. errand' = [errand EXCEPT ![e] = r]
  BY DEF Reject
<1>2. r.at \in Unsettled => errand[e].at \in Unsettled
  OBVIOUS
<1> HIDE DEF r
<1> QED
  BY <1>1, <1>2, OneFreed

\* Neither do a receipt whose permit is cancelled, and one that is answered.
LEMMA CancelledFreed ==
  ASSUME ErrandsSound, NEW e \in Errands, errand' = [errand EXCEPT ![e] = Cancelled(@)]
  PROVE  Reserved' \subseteq Reserved
<1>1. Cancelled(errand[e]).at = errand[e].at
  BY CancelledLemma DEF ErrandsSound, Sound
<1> QED
  BY <1>1, OneFreed

LEMMA ResolveFreed ==
  ASSUME ErrandsSound, NEW e \in Errands, NEW good, Resolve(e, good)
  PROVE  Reserved' \subseteq Reserved
<1>1. CASE good /\ errand[e].at \in Unsettled /\ Verified(e)
  <2> DEFINE r == [Cancelled(errand[e]) EXCEPT !.at = "ok"]
  <2>1. errand' = [errand EXCEPT ![e] = r]
    BY <1>1 DEF Resolve
  <2> HIDE DEF r
  <2> QED BY <1>1, <2>1, OneFreed
<1>2. CASE ~(good /\ errand[e].at \in Unsettled /\ Verified(e))
  BY <1>2, RejectFreed DEF Resolve
<1> QED
  BY <1>1, <1>2

\* Of all that an errand, its page and its start do, only dispatchTreeSpawn
\* reserves and only startDraftFlight draws.
LEMMA ErrandFreed ==
  ASSUME Frame, ErrandsSound, NEW e \in Errands,
         \/ Deliver(e) \/ Expires(e) \/ TimerFires(e) \/ BrokerTimesOut(e)
         \/ Publish(e) \/ CleanupEnds(e)
         \/ PageGivesUp(e) \/ PageHolds(e) \/ StartAsked(e) \/ StartReturns(e)
         \/ Recorded(e) \/ IntentRefused(e) \/ Hosted(e) \/ HostRefuses(e) \/ HostHolds(e)
         \/ ChildExits(e) \/ CloseRetried(e) \/ StartMoves(e)
  PROVE  Reserved' \subseteq Reserved /\ UNCHANGED up
<1>1. CASE Expires(e)
  BY <1>1, OneFreed DEF Expires, Unsettled
<1>2. CASE TimerFires(e) \/ BrokerTimesOut(e)
  BY <1>2, RejectFreed DEF TimerFires, BrokerTimesOut
<1>3. CASE Publish(e)
  BY <1>3, ResolveFreed, SameFreed DEF Publish
<1>4. CASE CleanupEnds(e)
  <2> DEFINE a == IF start[e].stage = "over" THEN "refused" ELSE "unclean"
             r == [errand[e] EXCEPT !.at = a]
  <2>1. errand' = [errand EXCEPT ![e] = r] /\ UNCHANGED up
    BY <1>4 DEF CleanupEnds
  <2>2. r.at \notin Unsettled
    BY DEF ErrandsSound, Sound, ErrandRecords, Unsettled
  <2> HIDE DEF r
  <2> QED BY <2>1, <2>2, OneFreed
<1>5. CASE StartAsked(e)
  <2>1. CASE Redeem(e) /\ Redeemable(e)
    <3> DEFINE r == [errand[e] EXCEPT !.permit = "valid"]
    <3>1. errand' = [errand EXCEPT ![e] = r]
      BY <2>1 DEF Redeem
    <3>2. r.at = errand[e].at
      BY DEF ErrandsSound, Sound, ErrandRecords
    <3> HIDE DEF r
    <3> QED BY <1>5, <3>1, <3>2, OneFreed DEF StartAsked
  <2> QED BY <1>5, <2>1, SameFreed DEF StartAsked
<1>6. CASE IntentRefused(e) \/ HostRefuses(e) \/ HostHolds(e) \/ StartFails(e)
  BY <1>6, CancelledFreed DEF IntentRefused, HostRefuses, HostHolds, StartFails, Fails
<1>7. CASE \/ Deliver(e) \/ PageGivesUp(e) \/ PageHolds(e) \/ StartReturns(e) \/ Recorded(e) \/ Hosted(e)
           \/ ChildExits(e) \/ CloseRetried(e) \/ DispatchEngine(e) \/ RootSpawned(e) \/ Ready(e) \/ Closes(e)
  BY <1>7, SameFreed DEF Deliver, PageGivesUp, PageHolds, StartReturns, Recorded, Hosted,
     ChildExits, CloseRetried, DispatchEngine, RootSpawned, Ready, Closes
<1> QED
  BY <1>1, <1>2, <1>3, <1>4, <1>5, <1>6, <1>7 DEF StartMoves

\* An errand reserves its slot when there is room for it (reserve).
LEMMA DispatchTakes ==
  ASSUME Frame, ErrandsSound, SlotInPlace, NEW e \in Errands, Dispatch(e)
  PROVE  SlotInPlace' /\ WidthKept
<1>1. \A d \in Reserved' : d = e \/ d \in Reserved
  BY DEF Dispatch, Reserved, ErrandsSound
<1>2. up' = up /\ up[e] = "absent"
  BY DEF Dispatch
<1>3. SlotInPlace'
  BY <1>1, <1>2 DEF SlotInPlace
<1>4. \A p \in Circles : p # Parent => Taken(p)' \subseteq Taken(p)
  BY <1>2 DEF Taken
<1>5. Taken(Parent)' \subseteq Taken(Parent) \cup {e}
  BY <1>1, <1>2 DEF Taken
<1>6. bounds # None /\ Cardinality(Taken(Parent)) < bounds.maxChildren
  BY CountedIsTaken DEF Dispatch, PlanAllowed, Circles
<1>7. bounds.maxChildren \in Nat
  BY <1>6, ConstantsOK DEF Frame
<1>8. Cardinality(Taken(Parent)') <= bounds.maxChildren
  <2>1. /\ IsFiniteSet(Taken(Parent) \cup {e})
        /\ Cardinality(Taken(Parent) \cup {e}) <= Cardinality(Taken(Parent)) + 1
    BY TakenFinite, FS_AddElement
  <2>2. /\ Cardinality(Taken(Parent)') \in Nat
        /\ Cardinality(Taken(Parent)') <= Cardinality(Taken(Parent) \cup {e})
    BY <1>5, <2>1, FS_Subset, FS_CardinalityType
  <2>3. Cardinality(Taken(Parent) \cup {e}) \in Nat
    BY <2>1, FS_CardinalityType
  <2> QED BY <1>6, <1>7, <2>1, <2>2, <2>3, TakenFinite
<1>9. ASSUME NEW p \in Circles, Cardinality(Taken(p)') > Cardinality(Taken(p)) PROVE p = Parent
  <2> SUFFICES ASSUME p # Parent PROVE FALSE
    OBVIOUS
  <2>1. Taken(p)' \subseteq Taken(p)
    BY <1>4
  <2>2. Cardinality(Taken(p)') \in Nat /\ Cardinality(Taken(p)') <= Cardinality(Taken(p))
    BY <2>1, TakenFinite, FS_Subset, FS_CardinalityType
  <2> QED BY <1>9, <2>2, TakenFinite
<1> QED
  BY <1>3, <1>6, <1>8, <1>9 DEF WidthKept

\* A circle is drawn or moved below p where validateWrite finds room; every
\* other circle keeps its slots or loses one.
LEMMA PlacedTakes ==
  ASSUME Frame, SlotInPlace, NEW c \in Circles, NEW p \in Circles, up[c] # p,
         up' = [up EXCEPT ![c] = p], ValidateWrite(up'), UNCHANGED <<errand, bounds>>
  PROVE  SlotInPlace' /\ WidthKept
<1>1. \A d \in Circles : up'[d] = IF d = c THEN p ELSE up[d]
  BY DEF Frame
<1>2. Reserved' = Reserved /\ Reserved \subseteq Circles
  BY DEF Reserved, Circles
<1>3. SlotInPlace'
  BY <1>1, <1>2 DEF ValidateWrite, Placed, SlotInPlace
<1>4. \A q \in Circles : q # p => Taken(q)' \subseteq Taken(q)
  BY <1>1, <1>2, ConstantsOK DEF Taken
<1>5. c \in Placed(up') /\ up'[c] # up[c] /\ up'[c] = p
  BY <1>1, ConstantsOK DEF Placed
<1>6. bounds # None /\ Cardinality(Children(up', p)) <= bounds.maxChildren
  BY <1>5 DEF ValidateWrite
<1>7. Children(up', p) = Taken(p)'
  BY <1>1, <1>2, ConstantsOK DEF Children, Taken, Placed, Circles
<1>8. ASSUME NEW q \in Circles, Cardinality(Taken(q)') > Cardinality(Taken(q)) PROVE q = p
  <2> SUFFICES ASSUME q # p PROVE FALSE
    OBVIOUS
  <2>1. Cardinality(Taken(q)') \in Nat /\ Cardinality(Taken(q)') <= Cardinality(Taken(q))
    BY <1>4, TakenFinite, FS_Subset, FS_CardinalityType
  <2> QED BY <1>8, <2>1, TakenFinite
<1> QED
  BY <1>3, <1>6, <1>7, <1>8 DEF WidthKept

\* A circle that goes away leaves at most the slot that was promised for it.
LEMMA RemovedTakes ==
  ASSUME Frame, SlotInPlace, NEW c \in Circles, PersonRemoves(c)
  PROVE  SlotInPlace' /\ \A p \in Circles : Taken(p)' \subseteq Taken(p)
<1>1. \A d \in Circles : up'[d] = IF d = c THEN "absent" ELSE up[d]
  BY DEF Frame, PersonRemoves
<1>2. Reserved' = Reserved /\ Reserved \subseteq Circles
  BY DEF Reserved, Circles, PersonRemoves
<1>3. c \in Reserved => up[c] = Parent
  BY DEF PersonRemoves, SlotInPlace, Placed
<1> QED
  BY <1>1, <1>2, <1>3, ConstantsOK DEF SlotInPlace, Taken, Circles

\* Steps that reserve, draw and move nothing.
LEMMA FreedStep ==
  ASSUME SlotInPlace, Reserved' \subseteq Reserved, UNCHANGED up
  PROVE  SlotInPlace' /\ \A p \in Circles : Taken(p)' \subseteq Taken(p)
BY DEF SlotInPlace, Taken

LEMMA SlotsStep ==
  ASSUME Frame, ErrandsSound, SlotInPlace, [Next]_vars
  PROVE  SlotInPlace' /\ WidthKept
<1>1. ASSUME SlotInPlace' /\ \A p \in Circles : Taken(p)' \subseteq Taken(p)
      PROVE  SlotInPlace' /\ WidthKept
  <2> SUFFICES ASSUME NEW p \in Circles, Cardinality(Taken(p)') > Cardinality(Taken(p)) PROVE FALSE
    BY <1>1 DEF WidthKept
  <2>1. Cardinality(Taken(p)') \in Nat /\ Cardinality(Taken(p)') <= Cardinality(Taken(p))
    BY <1>1, TakenFinite, FS_Subset, FS_CardinalityType
  <2> QED BY <2>1, TakenFinite
<1>2. ASSUME NEW e \in Errands, Dispatch(e) PROVE SlotInPlace' /\ WidthKept
  BY <1>2, DispatchTakes
<1>3. ASSUME NEW e \in Errands, Draw(e) PROVE SlotInPlace' /\ WidthKept
  <2>1. CASE UNCHANGED up
    BY <1>1, <1>3, <2>1, SameFreed, FreedStep DEF Draw
  <2>2. CASE up[e] = "absent" /\ up' = [up EXCEPT ![e] = Parent] /\ ValidateWrite(up')
    <3>1. e \in Circles /\ Parent \in Circles /\ up[e] # Parent
      BY <2>2, ConstantsOK DEF Circles
    <3> QED BY <1>3, <2>2, <3>1, PlacedTakes DEF Draw
  <2> QED BY <1>3, <2>1, <2>2 DEF Draw
<1>4. ASSUME NEW c \in Circles, PersonRemoves(c) PROVE SlotInPlace' /\ WidthKept
  BY <1>1, <1>4, RemovedTakes
<1>5. ASSUME NEW c \in Circles, NEW p \in Circles, PersonPlaces(c, p) PROVE SlotInPlace' /\ WidthKept
  BY <1>5, PlacedTakes DEF PersonPlaces
<1>6. CASE WindowReloads
  BY <1>1, <1>6, RejectFreed, FreedStep DEF WindowReloads, Frame
<1>7. CASE ViewRebuilt \/ ParentStops \/ ParentChanges \/ BoundsChange \/ UNCHANGED vars
  BY <1>1, <1>7, SameFreed, FreedStep DEF ViewRebuilt, ParentStops, ParentChanges, BoundsChange, vars
<1>8. ASSUME NEW e \in Errands,
         \/ Deliver(e) \/ Expires(e) \/ TimerFires(e) \/ BrokerTimesOut(e)
         \/ Publish(e) \/ CleanupEnds(e)
         \/ PageGivesUp(e) \/ PageHolds(e) \/ StartAsked(e) \/ StartReturns(e)
         \/ Recorded(e) \/ IntentRefused(e) \/ Hosted(e) \/ HostRefuses(e) \/ HostHolds(e)
         \/ ChildExits(e) \/ CloseRetried(e) \/ StartMoves(e)
      PROVE SlotInPlace' /\ WidthKept
  BY <1>1, <1>8, ErrandFreed, FreedStep
<1> QED
  BY <1>2, <1>3, <1>4, <1>5, <1>6, <1>7, <1>8 DEF Next

-----------------------------------------------------------------------------
(* The depth of a circle.  Depths and Branch are recursive functions: they *)
(* are what they say because the saved forest is a tree, in every state,   *)
(* which is what a move below oneself would break.                         *)

\* Every circle that is drawn hangs below one that is drawn, and going up from
\* circle to circle ends at the top.
Rooted(u) ==
  /\ \A c \in Placed(u) : u[c] \in Placed(u) \cup {"top"}
  /\ \A T \in SUBSET Placed(u) : T # {} => \E x \in T : u[x] \notin T

\* f says a of the top and makes each circle's value from its parent's with b.
FromParent(u, a, b, f) ==
  \A c \in Placed(u) : f[c] = IF u[c] = "top" THEN a[c] ELSE b[<<c, f[u[c]]>>]

\* Along a rooted tree such a function exists.
LEMMA TreeRecursion ==
  ASSUME NEW u, Rooted(u), NEW V, NEW a \in [Placed(u) -> V], NEW b \in [Placed(u) \X V -> V]
  PROVE  \E f \in [Placed(u) -> V] : FromParent(u, a, b, f)
<1> DEFINE P == Placed(u)
           Part(S, g) ==
             /\ S \in SUBSET P /\ g \in [S -> V]
             /\ \A d \in S : u[d] = "top" \/ u[d] \in S
             /\ \A d \in S : g[d] = IF u[d] = "top" THEN a[d] ELSE b[<<d, g[u[d]]>>]
<1>0. "top" \notin P
  BY ConstantsOK DEF Placed
<1>1. ASSUME NEW S1, NEW g1, NEW S2, NEW g2, Part(S1, g1), Part(S2, g2), NEW d \in S1 \cap S2
      PROVE  g1[d] = g2[d]
  <2> DEFINE T == {e \in S1 \cap S2 : g1[e] # g2[e]}
  <2> SUFFICES ASSUME d \in T PROVE FALSE
    OBVIOUS
  <2>1. PICK x \in T : u[x] \notin T
    <3>1. T \in SUBSET Placed(u) /\ T # {}
      BY <1>1
    <3> HIDE DEF T
    <3> QED BY <3>1 DEF Rooted
  <2>2. u[x] = "top" \/ g1[u[x]] = g2[u[x]]
    BY <1>1, <2>1
  <2>3. /\ x \in S1 /\ x \in S2 /\ g1[x] # g2[x]
        /\ g1[x] = IF u[x] = "top" THEN a[x] ELSE b[<<x, g1[u[x]]>>]
        /\ g2[x] = IF u[x] = "top" THEN a[x] ELSE b[<<x, g2[u[x]]>>]
    BY <1>1
  <2> HIDE DEF T, Part
  <2> QED
    BY <2>2, <2>3
<1> DEFINE Covered(c) == \E S \in SUBSET P : \E g \in [S -> V] : Part(S, g) /\ c \in S
<1>2. ASSUME NEW c \in P PROVE Covered(c)
  <2> DEFINE T == {d \in P : ~Covered(d)}
  <2> SUFFICES ASSUME T # {} PROVE FALSE
    BY <1>2
  <2>1. PICK x \in T : u[x] \notin T
    <3>1. T \in SUBSET Placed(u)
      OBVIOUS
    <3> HIDE DEF T
    <3> QED BY <3>1 DEF Rooted
  <2>2. x \in P /\ ~Covered(x)
    OBVIOUS
  <2>3. CASE u[x] = "top"
    <3> DEFINE g == [d \in {x} |-> a[x]]
    <3>1. Part({x}, g)
      BY <2>2, <2>3
    <3> HIDE DEF g
    <3> QED BY <2>2, <3>1
  <2>4. CASE u[x] # "top"
    <3>1. u[x] \in P /\ Covered(u[x])
      BY <2>1, <2>2, <2>4 DEF Rooted
    <3> HIDE DEF T
    <3>2. PICK S \in SUBSET P : \E g \in [S -> V] : Part(S, g) /\ u[x] \in S
      <4> HIDE DEF Part, P
      <4> QED BY <3>1
    <3>10. PICK g \in [S -> V] : Part(S, g) /\ u[x] \in S
      <4> HIDE DEF Part, P
      <4> QED BY <3>2
    <3>3. x \notin S
      BY <2>2, <3>10
    <3> DEFINE h == [d \in S \cup {x} |-> IF d = x THEN b[<<x, g[u[x]]>>] ELSE g[d]]
    <3>4. b[<<x, g[u[x]]>>] \in V
      BY <2>2, <3>10
    <3>5. h \in [S \cup {x} -> V]
      BY <3>10, <3>4
    <3>6. \A d \in S : h[d] = g[d]
      BY <3>3
    <3>7. h[x] = b[<<x, h[u[x]]>>]
      BY <3>10, <3>6
    <3> HIDE DEF h
    <3>8. Part(S \cup {x}, h)
      <4>1. ASSUME NEW d \in S \cup {x}
            PROVE  /\ u[d] = "top" \/ u[d] \in S \cup {x}
                   /\ h[d] = IF u[d] = "top" THEN a[d] ELSE b[<<d, h[u[d]]>>]
        <5>1. CASE d = x
          BY <5>1, <2>4, <3>10, <3>7
        <5>2. CASE d \in S
          BY <5>2, <3>10, <3>6
        <5> QED BY <5>1, <5>2
      <4> QED BY <2>2, <3>5, <4>1
    <3> HIDE DEF Part
    <3>9. S \cup {x} \in SUBSET P
      BY <2>2
    <3> QED BY <2>2, <3>5, <3>8, <3>9
  <2> QED BY <2>3, <2>4
<1> DEFINE f == [c \in P |-> CHOOSE v \in V : \E S \in SUBSET P : \E g \in [S -> V] : Part(S, g) /\ c \in S /\ g[c] = v]
<1>3. ASSUME NEW S, NEW g, Part(S, g), NEW c \in S PROVE f[c] = g[c]
  <2>1. c \in P /\ g[c] \in V /\ S \in SUBSET P /\ g \in [S -> V]
    BY <1>3
  <2>2. \A v : (\E S2 \in SUBSET P : \E g2 \in [S2 -> V] : Part(S2, g2) /\ c \in S2 /\ g2[c] = v) <=> v = g[c]
    <3> HIDE DEF Part, P
    <3> QED BY <1>1, <1>3, <2>1
  <2> HIDE DEF Part, P
  <2> QED BY <2>1, <2>2
<1> HIDE DEF f
<1>4. ASSUME NEW c \in P
      PROVE  f[c] \in V /\ f[c] = IF u[c] = "top" THEN a[c] ELSE b[<<c, f[u[c]]>>]
  <2>4. PICK S \in SUBSET P : \E g \in [S -> V] : Part(S, g) /\ c \in S
    <3> HIDE DEF Part, P
    <3> QED BY <1>2
  <2>1. PICK g \in [S -> V] : Part(S, g) /\ c \in S
    <3> HIDE DEF Part, P
    <3> QED BY <2>4
  <2>2. f[c] = g[c]
    BY <1>3, <2>1
  <2>3. u[c] # "top" => f[u[c]] = g[u[c]]
    BY <1>3, <2>1
  <2> QED BY <2>1, <2>2, <2>3
<1>5. f \in [P -> V]
  BY <1>4 DEF f
<1>6. FromParent(u, a, b, f)
  BY <1>4 DEF FromParent
<1> QED BY <1>5, <1>6

\* Depths is what it says.
LEMMA DepthsLemma ==
  ASSUME NEW u, Rooted(u)
  PROVE  \A c \in Placed(u) :
           /\ Depths(u)[c] \in Nat
           /\ Depths(u)[c] = IF u[c] = "top" THEN 0 ELSE 1 + Depths(u)[u[c]]
<1> DEFINE P == Placed(u)
           Is(f) == f = [c \in P |-> IF u[c] = "top" THEN 0 ELSE 1 + f[u[c]]]
           a == [c \in P |-> 0]
           b == [x \in P \X Nat |-> 1 + x[2]]
<1>1. Depths(u) = CHOOSE f : Is(f)
  BY DEF Depths
<1>2. a \in [P -> Nat] /\ b \in [P \X Nat -> Nat]
  OBVIOUS
<1>3. \A c \in P, n \in Nat : a[c] = 0 /\ b[<<c, n>>] = 1 + n
  OBVIOUS
<1> HIDE DEF a, b
<1>4. PICK f \in [P -> Nat] : FromParent(u, a, b, f)
  BY <1>2, TreeRecursion
<1>5. Is(f)
  <2>1. ASSUME NEW c \in P PROVE f[c] = IF u[c] = "top" THEN 0 ELSE 1 + f[u[c]]
    <3>1. CASE u[c] = "top"
      BY <1>3, <1>4, <3>1 DEF FromParent
    <3>2. CASE u[c] # "top"
      <4>1. u[c] \in P /\ f[u[c]] \in Nat
        BY <1>4, <3>2 DEF Rooted
      <4>2. f[c] = b[<<c, f[u[c]]>>]
        BY <1>4, <3>2 DEF FromParent
      <4> QED BY <1>3, <3>2, <4>1, <4>2
    <3> QED BY <3>1, <3>2
  <2> QED BY <1>4, <2>1
<1>6. Is(Depths(u))
  <2> HIDE DEF Is
  <2> QED BY <1>1, <1>5
<1> DEFINE D == Depths(u)
<1>7. \A c \in P : D[c] = IF u[c] = "top" THEN 0 ELSE 1 + D[u[c]]
  BY <1>6
<1> HIDE DEF D
<1>8. ASSUME NEW c \in P PROVE D[c] \in Nat
  <2> DEFINE T == {d \in P : D[d] \notin Nat}
  <2> SUFFICES ASSUME T # {} PROVE FALSE
    BY <1>8
  <2>1. PICK x \in T : u[x] \notin T
    <3>1. T \in SUBSET Placed(u)
      OBVIOUS
    <3> HIDE DEF T
    <3> QED BY <3>1 DEF Rooted
  <2>2. u[x] = "top" \/ D[u[x]] \in Nat
    BY <2>1 DEF Rooted
  <2> QED BY <1>7, <2>1, <2>2
<1> QED BY <1>7, <1>8 DEF D

\* And Branch: a circle is below c if it is c or its parent is.
LEMMA BranchLemma ==
  ASSUME NEW u, Rooted(u), NEW c \in Placed(u)
  PROVE  /\ Branch(u, c) \subseteq Placed(u) /\ c \in Branch(u, c)
         /\ \A d \in Placed(u) : d \in Branch(u, c) <=> d = c \/ u[d] \in Branch(u, c)
<1> DEFINE P == Placed(u)
           Is(f) == f = [d \in P |-> d = c \/ (u[d] # "top" /\ f[u[d]])]
           a == [d \in P |-> d = c]
           b == [x \in P \X BOOLEAN |-> x[1] = c \/ x[2]]
<1>0. "top" \notin P
  BY ConstantsOK DEF Placed
<1>1. Branch(u, c) = {d \in P : (CHOOSE f : Is(f))[d]}
  BY DEF Branch
<1>2. a \in [P -> BOOLEAN] /\ b \in [P \X BOOLEAN -> BOOLEAN]
  OBVIOUS
<1>3. \A d \in P, t \in BOOLEAN : a[d] = (d = c) /\ b[<<d, t>>] = (d = c \/ t)
  OBVIOUS
<1> HIDE DEF a, b
<1>4. PICK f \in [P -> BOOLEAN] : FromParent(u, a, b, f)
  BY <1>2, TreeRecursion
<1>5. Is(f)
  <2>1. ASSUME NEW d \in P PROVE f[d] = (d = c \/ (u[d] # "top" /\ f[u[d]]))
    <3>1. CASE u[d] = "top"
      BY <1>3, <1>4, <3>1 DEF FromParent
    <3>2. CASE u[d] # "top"
      <4>1. u[d] \in P /\ f[u[d]] \in BOOLEAN
        BY <1>4, <3>2 DEF Rooted
      <4>2. f[d] = b[<<d, f[u[d]]>>]
        BY <1>4, <3>2 DEF FromParent
      <4>3. b[<<d, f[u[d]]>>] = (d = c \/ f[u[d]])
        BY <1>3, <4>1
      <4> QED BY <3>2, <4>2, <4>3
    <3> QED BY <3>1, <3>2
  <2> QED BY <1>4, <2>1, Zenon
<1> DEFINE B == CHOOSE g : Is(g)
<1>6. Is(B)
  <2> HIDE DEF Is
  <2> QED BY <1>5
<1> HIDE DEF B
<1>7. \A d \in P : B[d] = (d = c \/ (u[d] # "top" /\ B[u[d]]))
  BY <1>6, Zenon
<1>8. \A d \in P : d \in Branch(u, c) <=> B[d]
  BY <1>1 DEF B
<1>9. ASSUME NEW d \in P PROVE d \in Branch(u, c) <=> d = c \/ u[d] \in Branch(u, c)
  <2>1. u[d] \in P \/ u[d] = "top"
    BY DEF Rooted
  <2>2. Branch(u, c) \subseteq P
    BY <1>1
  <2>3. B[d] = (d = c \/ (u[d] # "top" /\ B[u[d]]))
    BY <1>7
  <2>4. d \in Branch(u, c) <=> B[d]
    BY <1>8
  <2>5. CASE u[d] = "top"
    <3>1. u[d] \notin Branch(u, c)
      BY <1>0, <2>2, <2>5
    <3> QED BY <2>3, <2>4, <2>5, <3>1, Zenon
  <2>6. CASE u[d] \in P
    <3>1. u[d] # "top" /\ (u[d] \in Branch(u, c) <=> B[u[d]])
      BY <1>0, <1>8, <2>6
    <3> QED BY <2>3, <2>4, <3>1, Zenon
  <2> QED BY <2>1, <2>5, <2>6
<1> QED BY <1>1, <1>9

\* Circles that hang the same way in two trees, up to the top,
HangAlike(u, w, S) ==
  /\ S \in SUBSET (Placed(u) \cap Placed(w))
  /\ \A d \in S : w[d] = u[d] /\ (u[d] = "top" \/ u[d] \in S)

\* have the same depths.
LEMMA SameDepths ==
  ASSUME NEW u, NEW w, Rooted(u), Rooted(w), NEW S, HangAlike(u, w, S)
  PROVE  \A d \in S : Depths(w)[d] = Depths(u)[d]
<1> DEFINE T == {d \in S : Depths(w)[d] # Depths(u)[d]}
<1> SUFFICES ASSUME T # {} PROVE FALSE
  OBVIOUS
<1>1. PICK x \in T : u[x] \notin T
  <2>1. T \in SUBSET Placed(u)
    BY DEF HangAlike
  <2> HIDE DEF T
  <2> QED BY <2>1 DEF Rooted
<1>2. x \in S /\ x \in Placed(u) /\ x \in Placed(w) /\ Depths(w)[x] # Depths(u)[x]
  BY DEF HangAlike
<1>3. u[x] = "top" \/ Depths(w)[u[x]] = Depths(u)[u[x]]
  BY <1>1, <1>2 DEF HangAlike
<1>4. Depths(u)[x] = IF u[x] = "top" THEN 0 ELSE 1 + Depths(u)[u[x]]
  BY <1>2, DepthsLemma
<1>5. Depths(w)[x] = IF w[x] = "top" THEN 0 ELSE 1 + Depths(w)[w[x]]
  BY <1>2, DepthsLemma
<1> HIDE DEF T
<1> QED BY <1>2, <1>3, <1>4, <1>5 DEF HangAlike

\* The root and the asking agent's circle are two, and apart from the others.
LEMMA TwoMore ==
  ASSUME NEW r, Circles = Errands \cup Others \cup {r}
  PROVE  FALSE
<1> DEFINE EO == Errands \cup Others
<1>1. Errands \subseteq Circles /\ Others \subseteq Circles
  BY DEF Circles
<1>2. /\ IsFiniteSet(Errands) /\ IsFiniteSet(Others)
      /\ Cardinality(Errands) \in Nat /\ Cardinality(Others) \in Nat
  BY <1>1, ConstantsOK, FS_Subset, FS_CardinalityType
<1>3. Cardinality(Errands \cap Others) \in Nat
  BY <1>2, FS_Intersection, FS_CardinalityType
<1>4. /\ IsFiniteSet(EO)
      /\ Cardinality(EO) = Cardinality(Errands) + Cardinality(Others) - Cardinality(Errands \cap Others)
  BY <1>2, FS_Union
<1>5. Circles = EO \cup {r}
  OBVIOUS
<1> HIDE DEF EO
<1>6. Cardinality(EO) \in Nat
  BY <1>4, FS_CardinalityType
<1>7. Cardinality(EO \cup {r}) = IF r \in EO THEN Cardinality(EO) ELSE Cardinality(EO) + 1
  BY <1>4, FS_AddElement
<1>8. Cardinality(EO \cup {r}) = 2 + Cardinality(Errands) + Cardinality(Others)
  BY <1>5, ConstantsOK
<1> QED
  BY <1>2, <1>3, <1>4, <1>6, <1>7, <1>8

LEMMA ParentIsApart == Root # Parent /\ Parent \notin Errands \cup Others
<1>1. Root = Parent \/ Parent \in Errands \cup Others => Circles = Errands \cup Others \cup {Root}
  BY DEF Circles
<1> QED BY <1>1, TwoMore

\* The saved tree is one, and the asking agent's circle is in it.
ForestInv == Rooted(up) /\ Parent \in Placed(up)

\* A new circle below one that is drawn, or a branch hung below a circle that
\* is not in it, leaves a tree (validateWrite asks for a parent that is there,
\* the person's move for one that is not below).
LEMMA PlacedRooted ==
  ASSUME NEW u \in [Circles -> Circles \cup {"top", "absent"}], Rooted(u),
         NEW c \in Circles, NEW p \in Placed(u),
         u[c] = "absent" \/ (c \in Placed(u) /\ p \notin Branch(u, c))
  PROVE  /\ Placed([u EXCEPT ![c] = p]) = Placed(u) \cup {c}
         /\ Rooted([u EXCEPT ![c] = p])
<1> DEFINE w == [u EXCEPT ![c] = p]
<1>1. \A d \in Circles : w[d] = IF d = c THEN p ELSE u[d]
  OBVIOUS
<1>2. p \in Circles /\ p # "absent" /\ p # "top"
  BY ConstantsOK DEF Placed
<1> HIDE DEF w
<1>3. Placed(w) = Placed(u) \cup {c}
  BY <1>1, <1>2 DEF Placed
<1>4. p # c
  BY BranchLemma DEF Placed
<1>5. \A d \in Placed(w) : w[d] \in Placed(w) \cup {"top"}
  BY <1>1, <1>3 DEF Rooted, Placed
<1>6. ASSUME NEW T \in SUBSET Placed(w), T # {} PROVE \E x \in T : w[x] \notin T
  <2>1. CASE u[c] = "absent"
    <3>1. \A d \in Placed(u) : u[d] # c /\ d # c
      BY <2>1, ConstantsOK DEF Rooted, Placed
    <3>2. CASE T \subseteq {c}
      BY <1>1, <1>4, <1>6, <3>2
    <3>3. CASE ~(T \subseteq {c})
      <4>1. T \ {c} \in SUBSET Placed(u) /\ T \ {c} # {}
        BY <1>3, <3>3
      <4>2. PICK x \in T \ {c} : u[x] \notin T \ {c}
        BY <4>1 DEF Rooted
      <4> QED BY <1>1, <3>1, <4>1, <4>2 DEF Placed
    <3> QED BY <3>2, <3>3
  <2>2. CASE c \in Placed(u) /\ p \notin Branch(u, c)
    <3> DEFINE B == Branch(u, c)
    <3>1. T \subseteq Placed(u)
      BY <1>3, <2>2
    <3>2. \A d \in Placed(u) : d \in B <=> d = c \/ u[d] \in B
      BY <2>2, BranchLemma
    <3>0. c \in B
      BY <2>2, BranchLemma
    <3> HIDE DEF B
    <3>3. CASE T \subseteq B
      <4>1. PICK x \in T : u[x] \notin T
        BY <1>6, <3>1 DEF Rooted
      <4>2. CASE x = c
        BY <1>1, <2>2, <3>3, <4>2 DEF B
      <4>3. CASE x # c
        BY <1>1, <3>1, <4>1, <4>3 DEF Placed
      <4> QED BY <4>2, <4>3
    <3>4. CASE ~(T \subseteq B)
      <4>1. T \ B \in SUBSET Placed(u) /\ T \ B # {}
        BY <3>1, <3>4
      <4>2. PICK x \in T \ B : u[x] \notin T \ B
        BY <4>1 DEF Rooted
      <4>3. x \in Placed(u) /\ x # c /\ u[x] \notin B
        BY <3>0, <3>2, <4>1
      <4> QED BY <1>1, <4>2, <4>3 DEF Placed
    <3> QED BY <3>3, <3>4
  <2> QED BY <2>1, <2>2
<1> QED
  BY <1>3, <1>5, <1>6 DEF Rooted, w

\* A circle goes away with nothing below it.
LEMMA RemovedRooted ==
  ASSUME NEW u \in [Circles -> Circles \cup {"top", "absent"}], Rooted(u),
         NEW c \in Circles, \A d \in Placed(u) : u[d] # c
  PROVE  /\ Placed([u EXCEPT ![c] = "absent"]) = Placed(u) \ {c}
         /\ Rooted([u EXCEPT ![c] = "absent"])
<1> DEFINE w == [u EXCEPT ![c] = "absent"]
<1>1. \A d \in Circles : w[d] = IF d = c THEN "absent" ELSE u[d]
  OBVIOUS
<1> HIDE DEF w
<1>2. Placed(w) = Placed(u) \ {c}
  BY <1>1 DEF Placed
<1>3. \A d \in Placed(w) : w[d] = u[d] /\ u[d] # c
  BY <1>1, <1>2 DEF Placed
<1>4. \A d \in Placed(w) : w[d] \in Placed(w) \cup {"top"}
  BY <1>2, <1>3 DEF Rooted
<1>5. ASSUME NEW T \in SUBSET Placed(w), T # {} PROVE \E x \in T : w[x] \notin T
  <2>1. T \in SUBSET Placed(u)
    BY <1>2
  <2>2. PICK x \in T : u[x] \notin T
    BY <1>5, <2>1 DEF Rooted
  <2> QED BY <1>3, <2>2
<1> QED
  BY <1>2, <1>4, <1>5 DEF Rooted, w

LEMMA PrimedTree == Depths(up)' = Depths(up') /\ Placed(up)' = Placed(up')
BY DEF Depths, Placed

\* Where the tree stays, nothing sinks.
LEMMA SameTree ==
  ASSUME ForestInv, UNCHANGED up
  PROVE  ForestInv' /\ DepthKept
<1>1. Depths(up)' = Depths(up) /\ Placed(up)' = Placed(up)
  BY PrimedTree
<1>2. ForestInv'
  BY DEF ForestInv, Rooted, Placed
<1>3. \A c \in Placed(up) : Depths(up)[c] \in Nat
  BY DepthsLemma DEF ForestInv
<1>4. \A c \in Placed(up) : ~(Depths(up)[c] > Depths(up)[c])
  BY <1>3
<1> QED BY <1>1, <1>2, <1>4 DEF DepthKept

\* Only what hangs below the circle that was drawn or moved has another depth,
\* and validateWrite has looked at every circle there.
LEMMA PlacedDepths ==
  ASSUME Frame, ForestInv, NEW c \in Circles, NEW p \in Placed(up), up[c] # p,
         up[c] = "absent" \/ (c \in Placed(up) /\ p \notin Branch(up, c)),
         up' = [up EXCEPT ![c] = p], ValidateWrite(up')
  PROVE  ForestInv' /\ DepthKept
<1>1. \A d \in Circles : up'[d] = IF d = c THEN p ELSE up[d]
  BY DEF Frame
<1>2. Placed(up') = Placed(up) \cup {c} /\ Rooted(up')
  BY PlacedRooted DEF Frame, ForestInv
<1>3. ForestInv'
  BY <1>2 DEF ForestInv, Rooted, Placed
<1>4. c \in Placed(up') /\ up'[c] # up[c]
  BY <1>1, <1>2
<1>5. bounds # None /\ \A d \in Branch(up', c) : Depths(up')[d] <= bounds.maxDepth
  BY <1>4 DEF ValidateWrite
<1>6. /\ c \in Branch(up', c)
      /\ \A d \in Placed(up') : d \in Branch(up', c) <=> d = c \/ up'[d] \in Branch(up', c)
  BY <1>2, <1>4, BranchLemma
<1>12. PICK S : S = Placed(up') \ Branch(up', c)
  OBVIOUS
<1>7. S \in SUBSET (Placed(up) \cap Placed(up'))
  BY <1>2, <1>6, <1>12
<1>8. ASSUME NEW d \in S PROVE up'[d] = up[d] /\ (up[d] = "top" \/ up[d] \in S)
  <2>1. d \in Placed(up') /\ d # c /\ up'[d] \notin Branch(up', c)
    BY <1>6, <1>12
  <2>2. up'[d] = up[d]
    BY <1>1, <2>1 DEF Placed
  <2>3. up'[d] \in Placed(up') \cup {"top"}
    BY <1>2, <2>1 DEF Rooted
  <2> QED BY <1>12, <2>1, <2>2, <2>3
<1>9. \A d \in S : Depths(up')[d] = Depths(up)[d]
  <2>1. \A d \in S : up'[d] = up[d] /\ (up[d] = "top" \/ up[d] \in S)
    BY <1>8
  <2>2. Rooted(up) /\ Rooted(up')
    BY <1>2 DEF ForestInv
  <2>3. HangAlike(up, up', S)
    BY <1>7, <2>1 DEF HangAlike
  <2> QED BY <2>2, <2>3, SameDepths
<1>10. \A d \in Placed(up) : Depths(up)[d] \in Nat
  BY DepthsLemma DEF ForestInv
<1>11. ASSUME NEW d \in Placed(up'), d \in Placed(up) => Depths(up')[d] > Depths(up)[d]
       PROVE  d \in Branch(up', c)
  <2> SUFFICES ASSUME d \in S PROVE FALSE
    BY <1>12
  <2>1. d \in Placed(up) /\ Depths(up')[d] = Depths(up)[d]
    BY <1>7, <1>9
  <2>2. Depths(up)[d] > Depths(up)[d] /\ Depths(up)[d] \in Nat
    BY <1>10, <1>11, <2>1
  <2> QED BY <2>2
<1> QED BY <1>3, <1>5, <1>11, PrimedTree DEF DepthKept

LEMMA RemovedDepths ==
  ASSUME Frame, ForestInv, NEW c \in Circles, PersonRemoves(c)
  PROVE  ForestInv' /\ DepthKept
<1>1. \A d \in Circles : up'[d] = IF d = c THEN "absent" ELSE up[d]
  BY DEF Frame, PersonRemoves
<1>2. \A d \in Placed(up) : up[d] # c
  BY DEF PersonRemoves, ChildrenDrawn
<1>3. Placed(up') = Placed(up) \ {c} /\ Rooted(up')
  BY <1>2, RemovedRooted DEF Frame, ForestInv, PersonRemoves
<1>4. c # Parent
  BY ParentIsApart DEF PersonRemoves
<1>5. ForestInv'
  BY <1>3, <1>4 DEF ForestInv, Rooted, Placed
<1>6. \A d \in Placed(up') : up'[d] = up[d] /\ (up[d] = "top" \/ up[d] \in Placed(up'))
  BY <1>1, <1>2, <1>3 DEF ForestInv, Rooted, Placed
<1>7. \A d \in Placed(up') : Depths(up')[d] = Depths(up)[d]
  <2>1. HangAlike(up, up', Placed(up'))
    BY <1>3, <1>6 DEF HangAlike
  <2> QED BY <1>3, <2>1, SameDepths DEF ForestInv
<1>8. \A d \in Placed(up') : d \in Placed(up) /\ Depths(up)[d] \in Nat
  BY <1>3, DepthsLemma DEF ForestInv
<1>9. \A d \in Placed(up') : ~(Depths(up')[d] > Depths(up)[d])
  BY <1>7, <1>8
<1> QED BY <1>5, <1>8, <1>9, PrimedTree DEF DepthKept

LEMMA ForestStep ==
  ASSUME Frame, ErrandsSound, ForestInv, [Next]_vars
  PROVE  ForestInv' /\ DepthKept
<1>1. ASSUME NEW e \in Errands, Draw(e) PROVE ForestInv' /\ DepthKept
  <2>1. CASE UNCHANGED up
    BY <2>1, SameTree
  <2>2. CASE up[e] = "absent" /\ up' = [up EXCEPT ![e] = Parent] /\ ValidateWrite(up')
    <3>1. e \in Circles /\ Parent \in Placed(up) /\ up[e] # Parent
      BY <2>2, ConstantsOK DEF Circles, ForestInv
    <3> QED BY <2>2, <3>1, PlacedDepths
  <2> QED BY <1>1, <2>1, <2>2 DEF Draw
<1>2. ASSUME NEW c \in Circles, PersonRemoves(c) PROVE ForestInv' /\ DepthKept
  BY <1>2, RemovedDepths
<1>3. ASSUME NEW c \in Circles, NEW p \in Circles, PersonPlaces(c, p) PROVE ForestInv' /\ DepthKept
  BY <1>3, PlacedDepths DEF PersonPlaces
<1>4. CASE WindowReloads \/ ViewRebuilt \/ ParentStops \/ ParentChanges \/ BoundsChange \/ UNCHANGED vars
  BY <1>4, SameTree DEF WindowReloads, ViewRebuilt, ParentStops, ParentChanges, BoundsChange, vars
<1>5. ASSUME NEW e \in Errands, Dispatch(e) PROVE ForestInv' /\ DepthKept
  BY <1>5, SameTree DEF Dispatch
<1>6. ASSUME NEW e \in Errands,
         \/ Deliver(e) \/ Expires(e) \/ TimerFires(e) \/ BrokerTimesOut(e)
         \/ Publish(e) \/ CleanupEnds(e)
         \/ PageGivesUp(e) \/ PageHolds(e) \/ StartAsked(e) \/ StartReturns(e)
         \/ Recorded(e) \/ IntentRefused(e) \/ Hosted(e) \/ HostRefuses(e) \/ HostHolds(e)
         \/ ChildExits(e) \/ CloseRetried(e) \/ StartMoves(e)
      PROVE ForestInv' /\ DepthKept
  BY <1>6, ErrandFreed, SameTree
<1> QED
  BY <1>1, <1>2, <1>3, <1>4, <1>5, <1>6 DEF Next

\* At the start the asking agent and a person's circles hang below the root.
LEMMA InitForest == Init => ForestInv /\ SlotInPlace
<1> SUFFICES ASSUME Init PROVE ForestInv /\ SlotInPlace
  OBVIOUS
<1>1. PICK there \in SUBSET Others :
        up = [c \in Circles |-> IF c = Root THEN "top" ELSE IF c \in there \cup {Parent} THEN Root ELSE "absent"]
  BY DEF Init
<1>2. Root # Parent
  BY ParentIsApart
<1>3. Root \in Circles /\ Parent \in Circles /\ Root # "absent"
  BY ConstantsOK DEF Circles
<1>4. up[Root] = "top" /\ up[Parent] = Root
  BY <1>1, <1>2, <1>3
<1>5. Root \in Placed(up) /\ Parent \in Placed(up)
  BY <1>3, <1>4 DEF Placed
<1>6. \A c \in Placed(up) : c # Root => up[c] = Root
  BY <1>1 DEF Placed
<1>7. ASSUME NEW T \in SUBSET Placed(up), T # {} PROVE \E x \in T : up[x] \notin T
  <2>1. CASE Root \in T
    BY <1>4, <2>1, ConstantsOK DEF Placed
  <2>2. CASE Root \notin T
    BY <1>6, <1>7, <2>2
  <2> QED BY <2>1, <2>2
<1>8. ForestInv
  BY <1>4, <1>5, <1>6, <1>7 DEF ForestInv, Rooted
<1>9. Reserved = {}
  <2>1. \A e \in Errands : errand[e].at = "idle"
    BY DEF Init
  <2> QED BY <2>1 DEF Reserved, Unsettled
<1> QED BY <1>8, <1>9 DEF SlotInPlace

\* However errands, drawings, moves, refusals and changed limits cross, no
\* circle comes to have more slots, drawn or promised, than the width saved at
\* that moment, none comes to stand or sinks below the saved depth, and nothing
\* is given out or moved while the limits cannot be read; the saved circles
\* stay a tree (reserve and validateWrite).
THEOREM SlotsCorrect == Spec => SlotsGrowWithinBounds
<1>1. Init => SpawnInv /\ SlotInPlace /\ ForestInv
  BY InitLemma, InitForest
<1>2. SpawnInv /\ SlotInPlace /\ ForestInv /\ [Next]_vars
        => SpawnInv' /\ SlotInPlace' /\ ForestInv' /\ WidthKept /\ DepthKept
  BY ErrandsKept, FrameKept, SlotsStep, ForestStep DEF SpawnInv
<1> QED BY <1>1, <1>2, PTL DEF Spec, SlotsGrowWithinBounds
=============================================================================
