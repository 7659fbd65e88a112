------------------------------- MODULE TreeSpawn -------------------------------
(***************************************************************************)
(* An agent asks for a child of its own, confined to what it may do        *)
(* itself: the errand of the dispatcher (dispatchTreeSpawn in              *)
(* shell/main.cjs) with its reserved slot (shell/tree-slot-admission.cjs), *)
(* its one-use start token (shell/tree-delegation-authority.cjs) and its   *)
(* clock; the page that draws the circle and asks for its start; the start *)
(* itself (agent:start, the agent host, the resource lease); and the       *)
(* cleanup of a start whose errand was refused                             *)
(* (shell/tree-delegation-cleanup.cjs).                                    *)
(*                                                                         *)
(* One tree of circles, one asking agent at the circle Parent. The circle  *)
(* reserved for errand e is e itself. An errand holds its slot while it    *)
(* waits, and its token has been redeemed when it has a permit. What an    *)
(* agent may do (folder, tree, roots, permissions) is its scope.           *)
(***************************************************************************)
EXTENDS Naturals, FiniteSets

CONSTANTS Errands,       \* errands of the asking agent, each with its circle
          Local,         \* those of them whose child runs a local model
          Others,        \* circles a person may add
          Root, Parent,  \* the top of the tree, the asking agent's circle
          Scopes,        \* what an agent may do
          Bounds,        \* the saved width and depth limits a person may choose
          MaxActs,       \* bound: errands, and changes by the person and the agent
          None

Circles == {Root, Parent} \cup Errands \cup Others

ASSUME ConstantsOK ==
  /\ Cardinality(Circles) = 2 + Cardinality(Errands) + Cardinality(Others)
  /\ Local \subseteq Errands /\ MaxActs \in Nat /\ Scopes # {}
  /\ Bounds \subseteq [maxChildren : Nat \ {0}, maxDepth : Nat] /\ None \notin Bounds
  /\ IsFiniteSet(Circles) /\ Circles \cap {"top", "absent"} = {}

VARIABLES
  up,      \* the saved forest: each circle's parent
  bounds,  \* the saved limits, None when they cannot be read
  parent,  \* the asking agent: running or not, and its scope now
  errand,  \* each errand, as main's localTreeCommands holds it
  active,  \* the errand the broker has given to the page
  page,    \* how far the page is with each errand
  start,   \* the agent start each errand led to
  acts     \* bound: errands and changes so far

vars == <<up, bounds, parent, errand, active, page, start, acts>>
-----------------------------------------------------------------------------
(* Width and depth of the saved tree, with the slots that are spoken for.  *)

Placed(u) == {c \in Circles : u[c] # "absent"}
Unsettled == {"waiting", "late"}
Reserved == {e \in Errands : errand[e].at \in Unsettled}

Depths(u) ==
  LET depth[c \in Placed(u)] == IF u[c] = "top" THEN 0 ELSE 1 + depth[u[c]]
  IN  depth

\* c and every circle below it.
Branch(u, c) ==
  LET below[d \in Placed(u)] == d = c \/ (u[d] # "top" /\ below[u[d]])
  IN  {d \in Placed(u) : below[d]}

\* childrenOf, and a mutant of Children: a promised slot does not count.
ChildrenDrawn(u, p) == {c \in Placed(u) : u[c] = p}

\* treeSlotCount over withReservations.
Children(u, p) ==
  {c \in Placed(u) : u[c] = p} \cup {e \in Reserved \ Placed(u) : p = Parent}

\* planTreeSlot for a new child of the asking agent.
PlanAllowed ==
  /\ bounds # None
  /\ Cardinality(Children(up, Parent)) < bounds.maxChildren
  /\ Depths(up)[Parent] + 1 <= bounds.maxDepth

\* validateWrite: a reserved circle stays where it was reserved, and what is
\* new or moved fits, with everything below it.
ValidateWrite(u) ==
  LET changed == {c \in Placed(u) : u[c] # up[c]}
  IN  /\ \A e \in Reserved \cap Placed(u) : u[e] = Parent
      /\ changed # {} => bounds # None
      /\ \A c \in changed :
           /\ Cardinality(Children(u, u[c])) <= bounds.maxChildren
           /\ \A d \in Branch(u, c) : Depths(u)[d] <= bounds.maxDepth
-----------------------------------------------------------------------------
(* What main checks of a start.                                            *)

\* assertStart of a redeemed permit.
PermitHolds(e) ==
  /\ errand[e].permit = "valid" /\ errand[e].at # "late"
  /\ parent.live /\ parent.scope = errand[e].scope

\* assertCurrent of the start's admission, up to its dispatch; an errand that
\* is settled is late or no longer the broker's.
Current(e) ==
  /\ active = e /\ errand[e].at = "waiting"
  /\ parent.live /\ parent.scope = errand[e].scope
  /\ up[e] = Parent

\* redeem: once, in time, for the parent the token was issued to.
Redeemable(e) ==
  /\ errand[e].at = "waiting" /\ errand[e].permit = "none"
  /\ parent.live /\ parent.scope = errand[e].scope

\* Mutant: a cancelled permit is forgotten.
CancelledForgotten(r) == [r EXCEPT !.permit = "none"]

Cancelled(r) == [r EXCEPT !.permit = IF @ = "none" THEN @ ELSE "cancelled"]
-----------------------------------------------------------------------------
(* The end of an errand.                                                   *)

\* Mutant: only a child that is ready is closed.
MustCloseReady(e) == errand[e].permit # "none" /\ start[e].stage \in {"ready", "ended", "stuck"}

\* cleanupTreeDelegation finds a session of this start. The host does not
\* know one that has only been entered, so that close fails at once.
MustClose(e) ==
  errand[e].permit # "none" /\ start[e].stage \in {"hosting", "dispatched", "alive", "ready", "ended", "stuck"}

\* settle(reject, ...), once: the slot is free, the permit cancelled, and a
\* child is closed before the refusal is told.
Reject(e) ==
  /\ errand' = [errand EXCEPT ![e] =
       IF @.at \notin Unsettled THEN @
       ELSE [Cancelled(@) EXCEPT
              !.at = IF MustClose(e) THEN "closing"
                     ELSE IF start[e].stage = "entered" THEN "unclean" ELSE "refused"]]
  /\ start' = [start EXCEPT ![e].closing = @ \/ (errand[e].at \in Unsettled /\ MustClose(e))]

\* The receipt of the child is verified before the errand is told "ok".
Verified(e) == PermitHolds(e) /\ start[e].stage = "ready"

\* resolveLocalTreeCommand with what the page reported.
Resolve(e, good) ==
  IF good /\ errand[e].at \in Unsettled /\ Verified(e)
  THEN /\ errand' = [errand EXCEPT ![e] = [Cancelled(@) EXCEPT !.at = "ok"]]
       /\ UNCHANGED start
  ELSE Reject(e)
-----------------------------------------------------------------------------
(* The dispatcher and the broker.                                          *)

Acted == acts < MaxActs /\ acts' = acts + 1

\* dispatchTreeSpawn: a slot, a token for the parent as it is now, a timer.
Dispatch(e) ==
  /\ Acted
  /\ errand[e].at = "idle" /\ parent.live /\ up[e] = "absent" /\ PlanAllowed
  /\ errand' = [errand EXCEPT ![e].at = "waiting", ![e].scope = parent.scope]
  /\ UNCHANGED <<up, bounds, parent, active, page, start>>

\* pump: one errand at a time, and none whose entry is gone.
Deliver(e) ==
  /\ active = None /\ page[e] = "no"
  /\ errand[e].at = "waiting"
  /\ active' = e
  /\ page' = [page EXCEPT ![e] = "told"]
  /\ UNCHANGED <<up, bounds, parent, errand, start, acts>>

Expires(e) ==
  /\ errand[e].at = "waiting"
  /\ errand' = [errand EXCEPT ![e].at = "late"]
  /\ UNCHANGED <<up, bounds, parent, active, page, start, acts>>

TimerFires(e) ==
  /\ errand[e].at = "late"
  /\ Reject(e)
  /\ UNCHANGED <<up, bounds, parent, active, page, acts>>

\* The broker's own timer, which may be the shorter one.
BrokerTimesOut(e) ==
  /\ active = e
  /\ active' = None /\ Reject(e)
  /\ UNCHANGED <<up, bounds, parent, page, acts>>

\* rendererReloaded: the page's work is gone, a start that it asked for is not.
WindowReloads ==
  /\ active # None
  /\ page' = [e \in Errands |-> IF page[e] = "no" THEN "no" ELSE "over"]
  /\ active' = None /\ Reject(active)
  /\ UNCHANGED <<up, bounds, parent, acts>>

\* complete: an answer to anything but the active errand is dropped.
Publish(e) ==
  /\ page[e] \in {"ok", "bad", "refused"}
  /\ page' = [page EXCEPT ![e] = "over"]
  /\ IF active = e
     THEN active' = None /\ Resolve(e, page[e] = "ok")
     ELSE UNCHANGED <<active, errand, start>>
  /\ UNCHANGED <<up, bounds, parent, acts>>

\* Mutant: only a close that was confirmed ends the errand.
CleanupEndsClean(e) ==
  /\ errand[e].at = "closing" /\ start[e].stage = "over"
  /\ errand' = [errand EXCEPT ![e].at = "refused"]
  /\ UNCHANGED <<up, bounds, parent, active, page, start, acts>>

\* The child's close has been told.
CleanupEnds(e) ==
  /\ errand[e].at = "closing" /\ start[e].stage \in {"over", "stuck"}
  /\ errand' = [errand EXCEPT ![e].at = IF start[e].stage = "over" THEN "refused" ELSE "unclean"]
  /\ UNCHANGED <<up, bounds, parent, active, page, start, acts>>
-----------------------------------------------------------------------------
(* The page.                                                               *)

\* The circle is drawn, or the draft an earlier delivery drew is taken over.
Draw(e) ==
  /\ page[e] = "told"
  /\ \/ up[e] = Parent /\ UNCHANGED up
     \/ /\ up[e] = "absent"
        /\ up' = [up EXCEPT ![e] = Parent] /\ ValidateWrite(up')
  /\ page' = [page EXCEPT ![e] = "drawn"]
  /\ UNCHANGED <<bounds, parent, errand, active, start, acts>>

\* Refused by the store, by a check of the page, or by a person's cancel.
PageGivesUp(e) ==
  /\ page[e] \in {"told", "drawn", "held"}
  /\ page' = [page EXCEPT ![e] = "bad"]
  /\ UNCHANGED <<up, bounds, parent, errand, active, start, acts>>

\* The view is replaced. What it had not asked for is given to its successor,
\* which knows nothing of the starts that are still to come back.
ViewRebuilt ==
  /\ Acted
  /\ \E e \in Errands : page[e] \in {"drawn", "held"} \/ (page[e] = "asked" /\ ~start[e].left)
  /\ page' = [e \in Errands |-> IF page[e] \in {"drawn", "held"} THEN "told" ELSE page[e]]
  /\ start' = [e \in Errands |-> [start[e] EXCEPT !.left = @ \/ page[e] = "asked"]]
  /\ UNCHANGED <<up, bounds, parent, errand, active>>

\* The page's own look at the computer's resources, before it asks.
PageHolds(e) ==
  /\ page[e] = "drawn"
  /\ page' = [page EXCEPT ![e] = "held"]
  /\ UNCHANGED <<up, bounds, parent, errand, active, start, acts>>

\* redeemTreeDelegation: the receipt has its permit, and a start goes on.
Redeem(e) ==
  /\ errand' = [errand EXCEPT ![e].permit = "valid"]
  /\ start' = [start EXCEPT ![e].stage = "auditing"]

\* agent:start up to its first await; a held start is asked for again with
\* the same token.
StartAsked(e) ==
  /\ page[e] \in {"drawn", "held"}
  /\ IF Current(e) /\ Redeemable(e)
     THEN page' = [page EXCEPT ![e] = "asked"] /\ Redeem(e)
     ELSE page' = [page EXCEPT ![e] = "refused"] /\ UNCHANGED <<errand, start>>
  /\ UNCHANGED <<up, bounds, parent, active, acts>>

\* attachSession finds the circle.
Attaches(e) == up[e] # "absent"

\* A view that was left reports its start without asking what came of that.
StartReturns(e) ==
  /\ page[e] = "asked" /\ start[e].stage \in {"over", "stuck", "ready", "ended"}
  /\ page' = [page EXCEPT ![e] =
       IF start[e].stage = "ready" /\ (Attaches(e) \/ start[e].left) THEN "ok" ELSE "bad"]
  /\ UNCHANGED <<up, bounds, parent, errand, active, start, acts>>
-----------------------------------------------------------------------------
(* The start.                                                              *)

To(e, stage) == start' = [start EXCEPT ![e].stage = stage]

\* Every failure of agent:start cancels the permit.
Fails(e, stage) == To(e, stage) /\ errand' = [errand EXCEPT ![e] = Cancelled(@)]

\* recordSpawnIntent, then the session's entry.
Recorded(e) ==
  /\ start[e].stage = "auditing"
  /\ To(e, "entered")
  /\ UNCHANGED <<up, bounds, parent, errand, active, page, acts>>

IntentRefused(e) ==
  /\ start[e].stage = "auditing"
  /\ Fails(e, "over")
  /\ UNCHANGED <<up, bounds, parent, active, page, acts>>

\* The host is there: admission and permit once more, and room on the computer.
Hosted(e) ==
  /\ start[e].stage = "entered" /\ Current(e) /\ PermitHolds(e)
  /\ To(e, "hosting")
  /\ UNCHANGED <<up, bounds, parent, errand, active, page, acts>>

HostRefuses(e) ==
  /\ start[e].stage = "entered"
  /\ Fails(e, "over")
  /\ UNCHANGED <<up, bounds, parent, active, page, acts>>

\* No room: nothing was started, and the page's queue will ask again.
HostHolds(e) ==
  /\ start[e].stage = "entered" /\ Current(e) /\ PermitHolds(e)
  /\ Fails(e, "over")
  /\ page' = [page EXCEPT ![e] =
       IF @ # "asked" THEN @ ELSE IF ~start[e].left THEN "held" ELSE IF Attaches(e) THEN "told" ELSE "bad"]
  /\ UNCHANGED <<up, bounds, parent, active, acts>>

\* beginDispatch: from here the admission is not asked again.
DispatchEngine(e) ==
  /\ start[e].stage = "hosting" /\ Current(e)
  /\ To(e, "dispatched")
  /\ UNCHANGED <<up, bounds, parent, errand, active, page, acts>>

\* Mutant: the root of a leased start is spawned unasked.
MaySpawnUnasked(e) == TRUE

\* beforeRootSpawn. A local model has no lease and is not asked.
MaySpawn(e) == e \in Local \/ (~start[e].closing /\ PermitHolds(e))

RootSpawned(e) ==
  /\ start[e].stage = "dispatched" /\ MaySpawn(e)
  /\ To(e, "alive")
  /\ UNCHANGED <<up, bounds, parent, errand, active, page, acts>>

\* The host's own failure, before or after the child was spawned: confirmed
\* cleaned up, or kept as a failed close.
StartFails(e) ==
  /\ start[e].stage \in {"hosting", "dispatched", "alive"}
  /\ \E stage \in {"over", "stuck"} : Fails(e, stage)
  /\ UNCHANGED <<up, bounds, parent, active, page, acts>>

\* The session is ready, unless it was asked to close meanwhile.
Ready(e) ==
  /\ start[e].stage = "alive" /\ ~start[e].closing
  /\ To(e, "ready")
  /\ UNCHANGED <<up, bounds, parent, errand, active, page, acts>>

\* By itself, or stopped by its person.
ChildExits(e) ==
  /\ start[e].stage = "ready"
  /\ To(e, "ended")
  /\ UNCHANGED <<up, bounds, parent, errand, active, page, acts>>

\* closeSession of a session that is there.
Closes(e) ==
  /\ start[e].closing /\ start[e].stage \in {"ready", "ended"}
  /\ \E stage \in {"over", "stuck"} : To(e, stage)
  /\ UNCHANGED <<up, bounds, parent, errand, active, page, acts>>

\* The cleanup, or a person, closes once more what failed to close.
CloseRetried(e) ==
  /\ start[e].stage = "stuck"
  /\ To(e, "over")
  /\ UNCHANGED <<up, bounds, parent, errand, active, page, acts>>
-----------------------------------------------------------------------------
(* The person, and the asking agent.                                       *)

ParentStops ==
  /\ Acted
  /\ parent.live
  /\ parent' = [parent EXCEPT !.live = FALSE]
  /\ UNCHANGED <<up, bounds, errand, active, page, start>>

ParentChanges ==
  /\ Acted
  /\ parent.live
  /\ \E s \in Scopes \ {parent.scope} : parent' = [parent EXCEPT !.scope = s]
  /\ UNCHANGED <<up, bounds, errand, active, page, start>>

BoundsChange ==
  /\ Acted
  /\ bounds' \in (Bounds \cup {None}) \ {bounds}
  /\ UNCHANGED <<up, parent, errand, active, page, start>>

\* A person adds a circle, or moves one with everything below it.
PersonPlaces(c, p) ==
  /\ Acted
  /\ c # Root /\ p \in Placed(up) /\ up[c] # p
  /\ \/ c \in Others /\ up[c] = "absent"
     \/ c \in Placed(up) /\ p \notin Branch(up, c)
  /\ up' = [up EXCEPT ![c] = p] /\ ValidateWrite(up')
  /\ UNCHANGED <<bounds, parent, errand, active, page, start>>

\* Mutant: only the view's own starts are busy, not what runs.
BusyIfStarting(e) == page[e] \in {"drawn", "held"} \/ (page[e] = "asked" /\ ~start[e].left)

\* performNodeRemoval and removeNode: this view is starting it, or it has a
\* session that runs.
Busy(e) ==
  \/ page[e] \in {"drawn", "held"} \/ (page[e] = "asked" /\ ~start[e].left)
  \/ start[e].stage = "ready" /\ (page[e] = "ok" \/ errand[e].at = "ok")

PersonRemoves(c) ==
  /\ Acted
  /\ c \in (Errands \cup Others) \cap Placed(up) /\ ChildrenDrawn(up, c) = {}
  /\ c \in Errands => ~Busy(c)
  /\ up' = [up EXCEPT ![c] = "absent"]
  /\ UNCHANGED <<bounds, parent, errand, active, page, start>>
-----------------------------------------------------------------------------
Init ==
  /\ \E there \in SUBSET Others :
       up = [c \in Circles |-> IF c = Root THEN "top" ELSE IF c \in there \cup {Parent} THEN Root ELSE "absent"]
  /\ bounds \in Bounds
  /\ parent = [live |-> TRUE, scope |-> CHOOSE s \in Scopes : TRUE]
  /\ errand = [e \in Errands |-> [at |-> "idle", scope |-> None, permit |-> "none"]]
  /\ active = None
  /\ page = [e \in Errands |-> "no"]
  /\ start = [e \in Errands |-> [stage |-> "none", closing |-> FALSE, left |-> FALSE]]
  /\ acts = 0

StartMoves(e) ==
  \/ DispatchEngine(e) \/ RootSpawned(e) \/ StartFails(e) \/ Ready(e) \/ Closes(e)

Next ==
  \/ \E e \in Errands :
       \/ Dispatch(e) \/ Deliver(e) \/ Expires(e) \/ TimerFires(e) \/ BrokerTimesOut(e)
       \/ Publish(e) \/ CleanupEnds(e)
       \/ Draw(e) \/ PageGivesUp(e) \/ PageHolds(e) \/ StartAsked(e) \/ StartReturns(e)
       \/ Recorded(e) \/ IntentRefused(e) \/ Hosted(e) \/ HostRefuses(e) \/ HostHolds(e)
       \/ ChildExits(e) \/ CloseRetried(e) \/ StartMoves(e)
  \/ ViewRebuilt \/ WindowReloads
  \/ ParentStops \/ ParentChanges \/ BoundsChange
  \/ \E c \in Circles : PersonRemoves(c) \/ \E p \in Circles : PersonPlaces(c, p)

Spec == Init /\ [][Next]_vars

\* Timers fire; a start that was asked to close is over or fails to close; a
\* close that has ended is told.
FairSpec ==
  Spec /\ \A e \in Errands : /\ WF_vars(Expires(e)) /\ WF_vars(TimerFires(e))
                             /\ WF_vars(StartMoves(e)) /\ WF_vars(CleanupEnds(e))
-----------------------------------------------------------------------------
\* The shape of the state; a receipt has a permit once its start has begun.
TypeOK ==
  /\ up \in [Circles -> Circles \cup {"top", "absent"}]
  /\ bounds \in Bounds \cup {None}
  /\ parent \in [live : BOOLEAN, scope : Scopes]
  /\ errand \in [Errands ->
       [at : {"idle", "waiting", "late", "closing", "ok", "refused", "unclean"},
        scope : Scopes \cup {None}, permit : {"none", "valid", "cancelled"}]]
  /\ active \in Errands \cup {None}
  /\ page \in [Errands -> {"no", "told", "drawn", "asked", "held", "ok", "bad", "refused", "over"}]
  /\ start \in [Errands ->
       [stage : {"none", "auditing", "entered", "hosting", "dispatched", "alive", "ready", "ended",
                 "stuck", "over"}, closing : BOOLEAN, left : BOOLEAN]]
  /\ acts \in 0 .. MaxActs
  /\ \A e \in Errands : (errand[e].permit = "none") = (start[e].stage = "none")

\* A refusal that says nothing is left is true for good: no start of that
\* errand reaches the engine, runs or waits to be closed afterwards, whether
\* the timer, the page, the broker or a reload refused it and however far the
\* start was (settle in main.cjs, cleanupTreeDelegation, assertStart).
RefusedLeavesNothing ==
  \A e \in Errands : errand[e].at = "refused" => start[e].stage \notin {"hosting", "dispatched", "alive", "ready", "stuck"}

\* The agent that was told "ok" has a child that came up, and while it runs in
\* the view that asked for it, it can be seen and stopped: its circle is in the
\* tree (startDraftFlight, attachSession, the receipt check of
\* resolveLocalTreeCommand).
ToldChildHasItsCircle ==
  \A e \in Errands : errand[e].at = "ok" =>
    /\ start[e].stage \in {"ready", "ended"}
    /\ start[e].stage = "ready" /\ ~start[e].left => up[e] # "absent"

\* The step in which a provider root is spawned.
SpawnedAsIssued(e) ==
  start[e].stage # "alive" /\ start'[e].stage = "alive" /\ e \notin Local =>
    errand[e].at = "waiting" /\ parent.live /\ parent.scope = errand[e].scope

\* A provider root is spawned only for an errand that still waits, under a
\* parent that runs with the scope it had when it asked: nothing that happens
\* between the redemption and the spawn widens what the child may do
\* (assertAuthority of the resource lease).
SpawnsUnderParentAsIssued == [][\A e \in Errands : SpawnedAsIssued(e)]_vars

\* The slots below p, drawn or promised.
Taken(p) == {c \in Circles : up[c] = p \/ (c \in Reserved /\ up[c] = "absent" /\ p = Parent)}

\* No circle's slots grow in number past the saved width.
WidthKept ==
  \A p \in Circles : Cardinality(Taken(p)') > Cardinality(Taken(p)) =>
    bounds # None /\ Cardinality(Taken(p)') <= bounds.maxChildren

\* No circle is drawn or sinks below the saved depth.
DepthKept ==
  \A c \in Placed(up)' : (c \in Placed(up) => Depths(up)'[c] > Depths(up)[c]) =>
    bounds # None /\ Depths(up)'[c] <= bounds.maxDepth

\* Errands that reserve, pages that draw and a person who adds and moves
\* never widen a circle past the saved width nor take any circle below the
\* saved depth, and change nothing while the limits cannot be read; lowering
\* a limit, or answering an errand, takes nothing away (reserve and
\* validateWrite of tree-slot-admission.cjs).
SlotsGrowWithinBounds == [][WidthKept /\ DepthKept]_vars

\* Every errand is answered: with no page open, with a start that hangs until
\* it is asked to close, and with a close that fails (the timer and settle of
\* dispatchTreeSpawn).
EveryErrandAnswered ==
  \A e \in Errands : errand[e].at \in {"waiting", "late", "closing"} ~> errand[e].at \in {"ok", "refused", "unclean"}
=============================================================================
