---------------------------- MODULE RemoteConnection ----------------------------
(***************************************************************************)
(* The switch that keeps remote access off: the fence and its record on    *)
(* disk (shell/remote-connection-fence.cjs), the lifecycle that joins a    *)
(* disconnect, the claims and the administrative enrollment around it      *)
(* (shell/remote-connection-lifecycle.cjs), and what both see of the claim *)
(* helper (shell/device-claim.cjs): one child at a time, which outlives    *)
(* this process and leaves a signed receipt when its tree is empty.        *)
(*                                                                         *)
(* Tickets are compared for equality with the fence's generation only, so  *)
(* a ticket is modelled by the fact that it is still current.  An owner's  *)
(* identity is fresh for every helper; here a small set is used again once *)
(* nothing names the old one.  One continuation after an await runs before *)
(* any other event of the loop (Calm); the helper processes run in true    *)
(* parallel.                                                               *)
(***************************************************************************)
CONSTANTS Owners,    \* identities of helper trees
          Actions,   \* the administrative actions this instance takes
          Operation, \* the administrative operation
          Absent,    \* no record on disk
          Damaged,   \* a record that cannot be read
          None

Records == [state : {"blocked", "active"}, owner : Owners \union {None}, pending : BOOLEAN,
            admin : {None, Operation}]

ASSUME ConstantsDistinct ==
  /\ None \notin Owners /\ Operation # None
  /\ Absent # Damaged /\ Absent \notin Records /\ Damaged \notin Records

VARIABLES
  up,        \* this process runs
  fence,     \* the fence's memory
  disk,      \* remote-connection-state.json
  local,     \* lifecycle: cleanupBarrier, grantsRevokedKnown, claimTicket
  dis,       \* lifecycle: the disconnect flight
  adm,       \* lifecycle: the administration flight
  claim,     \* claim module: pending, lastKnownConnected, enrollmentFenced
  op,        \* claim module: the operation in flight and who awaits it
  slot,      \* claim module: the helper in flight
  arm,       \* the relay leg is being armed, under a ticket
  relay,     \* the relay leg runs
  job,       \* what each running helper was started for, or has done; they
             \* run on when this process dies
  receipts,  \* helpers whose signed receipt is on disk
  credential,\* the vault holds a device credential
  intent,    \* observer: what the owner of this computer last asked for
  lapse      \* observer: this process died while restart safety was unknown

store == <<fence, disk>>
world == <<job, receipts, credential>>
alive == {o \in Owners : job[o] # "none"}
observer == <<intent, lapse>>
vars == <<up, store, local, dis, adm, claim, op, slot, arm, relay, world, observer>>

Calm == up /\ (op # None => op.answer = "none")

\* A record, as persist writes it and readRecord understands it.
Record(f, state) == [state |-> state, owner |-> f.owner, pending |-> f.pending, admin |-> f.admin]

Closed == [blocked |-> TRUE, recorded |-> FALSE, damaged |-> FALSE, owner |-> None,
           pending |-> FALSE, admin |-> None]

\* A record persist never means to write is refused like an unreadable one.
Unreadable(d) == d = Damaged \/ (d.state = "active" /\ (d.pending \/ d.admin # None))

\* An owner left on the record keeps remote access off whatever the state says.
ReadRecord(d) ==
  CASE d = Absent -> [Closed EXCEPT !.blocked = FALSE]
    [] d # Absent /\ Unreadable(d) -> [Closed EXCEPT !.damaged = TRUE]
    [] OTHER -> [blocked |-> d.state = "blocked" \/ d.owner # None, recorded |-> TRUE,
                 damaged |-> FALSE, owner |-> d.owner,
                 pending |-> d.pending \/ d.owner # None, admin |-> d.admin]
-----------------------------------------------------------------------------
(* The fence.  Every method takes a pair of memory and record to the set of *)
(* pairs it may leave, with its answer.  The caller's ticket is current.    *)
Store == [fence |-> fence, disk |-> disk, ok |-> TRUE]
Refused(s) == {[s EXCEPT !.ok = FALSE]}

\* Mutant: an earlier synced record is still reported when a write fails.
PersistHopeful(s, state) ==
  {[fence |-> [s.fence EXCEPT !.recorded = (@ \/ saved = "synced")],
    disk |-> IF saved = "failed" THEN s.disk ELSE Record(s.fence, state),
    ok |-> saved = "synced", saved |-> saved] :
     saved \in IF s.fence.damaged THEN {"failed"} ELSE {"synced", "replaced", "failed"}}

\* persist(state): synced, or replaced without a synced directory, or not at all.
Persist(s, state) ==
  {[fence |-> [s.fence EXCEPT !.recorded = (saved = "synced")],
    disk |-> IF saved = "failed" THEN s.disk ELSE Record(s.fence, state),
    ok |-> saved = "synced", saved |-> saved] :
     saved \in IF s.fence.damaged THEN {"failed"} ELSE {"synced", "replaced", "failed"}}
Answering(t, f, ok) == [fence |-> f, disk |-> t.disk, ok |-> ok]
\* Mutant: an ownership change writes the record of a connection.
KeptActive(s) == "active"
Kept(s) == IF s.fence.blocked THEN "blocked" ELSE "active"

Admissible(f, o) == ~f.damaged /\ f.owner \in {None, o}

AdmitOwnership(s, o) ==
  IF ~Admissible(s.fence, o) THEN Refused(s)
  ELSE {Answering(t, IF t.ok THEN t.fence ELSE [t.fence EXCEPT !.blocked = TRUE, !.pending = TRUE], t.ok) :
          t \in Persist([s EXCEPT !.fence.owner = o], Kept(s))}

CompleteOwnership(s, o) ==
  IF o = None \/ s.fence.owner # o THEN Refused(s)
  ELSE {Answering(t, IF t.saved = "failed" THEN [t.fence EXCEPT !.owner = o] ELSE t.fence,
                  t.saved # "failed") :
          t \in Persist([s EXCEPT !.fence.owner = None], Kept(s))}

Block(s) == [s EXCEPT !.fence.blocked = TRUE, !.fence.admin = None, !.fence.recorded = FALSE,
                      !.fence.pending = TRUE]

\* recordDisconnect and recordOutcome.
RecordBlocked(s) ==
  IF ~s.fence.blocked THEN Refused(s)
  ELSE {Answering(t, t.fence, t.ok) : t \in Persist(s, "blocked")}

CompleteCleanup(s) ==
  IF ~s.fence.blocked \/ s.fence.damaged \/ s.fence.owner # None THEN Refused(s)
  ELSE {Answering(t, [t.fence EXCEPT !.pending = (t.saved = "failed")], t.ok) :
          t \in Persist([s EXCEPT !.fence.pending = FALSE], "blocked")}

Quiet(f) == ~f.damaged /\ f.owner = None /\ ~f.pending

ReserveAdministration(s) ==
  IF ~Quiet(s.fence) \/ s.fence.admin # None THEN Refused(s)
  ELSE {Answering(t, t.fence, t.ok) :
          t \in Persist([s EXCEPT !.fence.blocked = TRUE, !.fence.admin = Operation], "blocked")}

CancelAdministration(s) ==
  IF ~Quiet(s.fence) \/ s.fence.admin # Operation THEN Refused(s)
  ELSE {Answering(t, IF t.saved = "failed" THEN [t.fence EXCEPT !.admin = Operation] ELSE t.fence, t.ok) :
          t \in Persist([s EXCEPT !.fence.admin = None], "blocked")}

\* A record that was replaced but not synced is put back, if it can be.
CompleteAdministrativeEnrollment(s) ==
  IF ~Quiet(s.fence) \/ s.fence.admin # Operation THEN Refused(s)
  ELSE UNION {LET back == [t EXCEPT !.fence.admin = Operation, !.fence.blocked = TRUE]
              IN  CASE t.saved = "synced" ->
                         {Answering(t, [t.fence EXCEPT !.blocked = FALSE], TRUE)}
                    [] t.saved = "replaced" ->
                         {Answering(u, u.fence, FALSE) : u \in Persist(back, "blocked")}
                    [] OTHER -> {Answering(back, back.fence, FALSE)} :
              t \in Persist([s EXCEPT !.fence.admin = None], "active")}

CompleteFreshClaim(s) ==
  IF ~Quiet(s.fence) \/ s.fence.admin # None THEN Refused(s)
  ELSE {Answering(t, [t.fence EXCEPT !.blocked = (t.saved = "failed")], t.saved # "failed") :
          t \in Persist([s EXCEPT !.fence.blocked = TRUE], "active")}

Keep(t) == fence' = t.fence /\ disk' = t.disk

-----------------------------------------------------------------------------
(* The claim module as the lifecycle uses it: one helper, one operation.   *)
Vault == {"poll", "import", "finalize", "cancel", "disconnect"}
Verbs == Vault \union {"none", "status", "open", "decide", "prepare", "resume", "identity",
                       "pair-request", "stored", "cleared"}
Used == {fence.owner} \union alive \union (IF slot = None THEN {} ELSE {slot.owner})
          \union (IF disk \in {Absent, Damaged} THEN {} ELSE {disk.owner})

\* disconnect's claim half runs: every other operation is refused as busy.
Disconnecting == dis.stage \in {"draining", "clearing"}
Busy == op # None \/ slot # None \/ Disconnecting

\* runVerb: the proxy of a new helper is launched under a fresh identity.
Launch(verb, callers) ==
  \E o \in Owners \ Used :
    /\ slot' = [owner |-> o, stage |-> "spawned", verb |-> verb, cancelled |-> FALSE,
                effect |-> "none"]
    /\ receipts' = receipts \intersect {fence.owner}
    /\ op' = [verb |-> verb, valid |-> TRUE, fresh |-> TRUE, answer |-> "none", effect |-> "none",
             callers |-> callers]
    /\ UNCHANGED <<job, credential>>

\* ownsPendingOwnership, priorOwnerPending.
PriorOwner(f) == f.owner # None /\ (slot = None \/ slot.owner # f.owner)

\* Mutant: an earlier helper is taken to have ended with its window.
ReconcileAnyway(s) == IF s.fence.owner = None THEN {[s EXCEPT !.ok = TRUE]}
                      ELSE CompleteOwnership(s, s.fence.owner)
\* reconcileOwnership of the lifecycle: the receipt is read, then spent.
Reconcile(s) == CASE s.fence.owner = None -> {[s EXCEPT !.ok = TRUE]}
                  [] s.fence.owner \in receipts -> CompleteOwnership(s, s.fence.owner)
                  [] OTHER -> Refused(s)
Reconciled(s) == IF PriorOwner(s.fence) THEN Reconcile(s) ELSE {[s EXCEPT !.ok = TRUE]}

\* The generation moved: what was captured before is no longer current.
Stale(ticket) == IF ticket = "none" THEN "none" ELSE "stale"

\* invalidateForDisconnect.
Invalidated == [open |-> FALSE, enrolled |-> FALSE, fenced |-> TRUE]
Cancelled == IF slot = None THEN None ELSE [slot EXCEPT !.cancelled = TRUE]

RemoteStopped == ~relay
Flying == dis.stage \in {"stopping", "draining", "clearing"}
NoFlight == [stage |-> "no", claim |-> "?", relay |-> "?", revoke |-> "?",
             consent |-> FALSE, recorded |-> FALSE]
NoAdm == [stage |-> "no", action |-> "none", fresh |-> FALSE]

\* The proxy is initialized: its identity is admitted, and only then it starts.
Admit ==
  /\ Calm /\ slot # None /\ slot.stage = "spawned" /\ ~slot.cancelled
  /\ \E t \in AdmitOwnership(Store, slot.owner) :
       /\ Keep(t)
       /\ slot' = [slot EXCEPT !.stage = IF t.ok THEN "running" ELSE "refused"]
       /\ job' = IF t.ok THEN [job EXCEPT ![slot.owner] = slot.verb] ELSE job
  /\ UNCHANGED <<up, local, dis, adm, claim, op, arm, relay, receipts, credential, observer>>

\* The proxy closes.  Only a receipt, or a proxy that was never admitted,
\* releases the slot; the caller is answered with what the helper did.
ProxyCloses ==
  /\ Calm /\ slot # None /\ slot.stage # "lost"
  /\ \E signed \in IF slot.stage = "refused" THEN BOOLEAN ELSE {slot.owner \in receipts} :
       LET quiet == slot.stage = "spawned" \/ signed
       IN  /\ receipts' = IF signed THEN receipts \union {slot.owner} ELSE receipts
           /\ \E t \in IF signed THEN CompleteOwnership(Store, slot.owner) ELSE {Store} : Keep(t)
           /\ slot' = IF quiet THEN None ELSE [slot EXCEPT !.stage = "lost"]
           /\ dis' = IF dis.stage = "stopping" /\ dis.claim = "?"
                     THEN [dis EXCEPT !.claim = IF quiet THEN "quiet" ELSE "unknown"] ELSE dis
           /\ \/ op = None /\ op' = None
              \/ /\ op # None
                 /\ \E answer \in IF quiet /\ slot.stage = "running" THEN {"done", "failed"} ELSE {"failed"} :
                      op' = [op EXCEPT !.answer = answer, !.effect = slot.effect]
  /\ UNCHANGED <<up, local, adm, claim, arm, relay, job, credential, observer>>

\* The caller's deadline: it is answered, the slot stays taken.
Deadline ==
  /\ Calm /\ op # None /\ slot # None
  /\ op' = [op EXCEPT !.answer = "failed"]
  /\ slot' = Cancelled
  /\ UNCHANGED <<up, store, local, dis, adm, claim, arm, relay, world, observer>>

\* What a helper does to the vault, and its end, with or without a receipt.
HelperActs(o) ==
  /\ o \in alive /\ job[o] \in Vault
  /\ job' = [job EXCEPT ![o] = IF @ \in {"disconnect", "cancel"} THEN "cleared" ELSE "stored"]
  /\ credential' = (job[o] \notin {"disconnect", "cancel"})
  /\ UNCHANGED <<up, store, local, dis, adm, claim, op, slot, arm, relay, receipts, observer>>

HelperEnds(o) ==
  /\ o \in alive
  /\ job' = [job EXCEPT ![o] = "none"]
  /\ receipts' \in {receipts, receipts \union {o}}
  /\ slot' = IF slot # None /\ slot.owner = o THEN [slot EXCEPT !.effect = job[o]] ELSE slot
  /\ UNCHANGED <<up, store, local, dis, adm, claim, op, arm, relay, credential, observer>>
-----------------------------------------------------------------------------
(* Ordinary calls and their continuations.                                 *)
Answered(caller) == up /\ op # None /\ op.answer # "none" /\ caller \in op.callers
OpDone(caller) == op' = IF op.callers = {caller} THEN None ELSE [op EXCEPT !.callers = @ \ {caller}]
Told == op.answer = "done" /\ op.valid
Absence == Told /\ ~credential /\ slot = None

\* A status answer moves the cached enrollment.
Learned == IF Told THEN [claim EXCEPT !.enrolled = credential /\ ~claim.fenced] ELSE claim

\* claim.status: a second caller joins the first.
AskStatus(caller) ==
  IF op # None /\ op.verb = "status" /\ ~Disconnecting
  THEN op' = [op EXCEPT !.callers = @ \union {caller}] /\ UNCHANGED <<slot, world>>
  ELSE IF Busy THEN UNCHANGED <<op, slot, world>> ELSE Launch("status", {caller})

Status ==
  /\ Calm
  /\ \E t \in Reconciled(Store) :
       /\ Keep(t)
       /\ IF t.ok THEN AskStatus("status") ELSE UNCHANGED <<op, slot, world>>
  /\ UNCHANGED <<up, local, dis, adm, claim, arm, relay, observer>>

\* An absent credential, a quiet helper, a stopped relay and revoked grants
\* together end a cleanup that was left open.
Cleanable == ~Flying /\ Absence /\ RemoteStopped /\ local.revoked
Barrier(f) == f.pending \/ f.owner # None

StatusAnswered ==
  /\ Answered("status") /\ op.verb = "status" /\ OpDone("status")
  /\ claim' = Learned
  /\ IF Cleanable
     THEN \E t \in IF fence.blocked THEN CompleteCleanup(Store) ELSE {Store} :
            Keep(t) /\ local' = [local EXCEPT !.barrier = Barrier(t.fence)]
     ELSE UNCHANGED <<store, local>>
  /\ UNCHANGED <<up, dis, adm, slot, arm, relay, world, observer>>

Admitting == /\ Calm /\ adm.stage = "no" /\ fence.admin = None /\ ~Flying
             /\ ~local.barrier /\ ~fence.pending /\ ~PriorOwner(fence)

\* begin: a new claim is opened, or the account on the open one is decided.
BeginOpen ==
  /\ Admitting /\ ~fence.damaged /\ ~Busy /\ ~claim.open
  /\ Launch("open", {"call"})
  /\ intent' = IF intent = "on" THEN "on" ELSE "claiming"
  /\ UNCHANGED <<up, store, local, dis, adm, claim, arm, relay, lapse>>

BeginDecide ==
  /\ Admitting /\ ~fence.damaged /\ ~Busy /\ claim.open /\ local.ticket = "current"
  /\ Launch("decide", {"call"})
  /\ UNCHANGED <<up, store, local, dis, adm, claim, arm, relay, observer>>

Fresh == op.fresh /\ ~Flying

BeginAnswered ==
  /\ Answered("call") /\ op.verb \in {"open", "decide"} /\ OpDone("call")
  /\ \/ claim' = IF Told /\ op.verb = "open" THEN [claim EXCEPT !.open = TRUE] ELSE claim
     \/ Told /\ op.verb = "decide" /\ claim' = [claim EXCEPT !.open = FALSE]
  /\ local' = IF Fresh /\ Told /\ op.verb = "open" THEN [local EXCEPT !.ticket = "current"] ELSE local
  /\ UNCHANGED <<up, store, dis, adm, slot, arm, relay, world, observer>>

Poll ==
  /\ Admitting /\ ~Busy /\ claim.open
  /\ Launch("poll", {"call"})
  /\ UNCHANGED <<up, store, local, dis, adm, claim, arm, relay, observer>>

\* A claim that is collected opens remote access only for the ticket it was
\* opened under, after the earlier choice of the owner was cleared.
PollAnswered ==
  /\ Answered("call") /\ op.verb = "poll" /\ OpDone("call")
  /\ LET connected == Told /\ op.effect = "stored"
     IN  /\ \/ claim' = IF connected THEN [open |-> FALSE, enrolled |-> TRUE, fenced |-> FALSE] ELSE claim
            \/ ~connected /\ op.valid /\ claim' = [claim EXCEPT !.open = FALSE]
         /\ \/ /\ ~(connected /\ Fresh /\ local.ticket = "current")
               /\ UNCHANGED <<store, local, arm, intent>>
            \/ /\ connected /\ Fresh /\ local.ticket = "current"
               /\ \/ \E t \in CompleteFreshClaim(Store) :
                       /\ Keep(t)
                       /\ local' = IF t.ok THEN [local EXCEPT !.ticket = "none"] ELSE local
                       /\ arm' = IF t.ok THEN "current" ELSE arm
                       /\ intent' = IF t.ok /\ intent # "off" THEN "on" ELSE intent
                  \/ \E t \in RecordBlocked(Block(Store)) :
                       /\ Keep(t)
                       /\ local' = [local EXCEPT !.ticket = Stale(@)]
                       /\ arm' = Stale(arm)
                       /\ intent' = "off"
  /\ UNCHANGED <<up, dis, adm, slot, relay, world, lapse>>

Cancel ==
  /\ Calm /\ ~Busy
  /\ claim' = [claim EXCEPT !.open = FALSE]
  /\ local' = [local EXCEPT !.ticket = "none"]
  /\ UNCHANGED <<up, store, dis, adm, op, slot, arm, relay, world, observer>>

\* armRelayFacade and the supervisor's start: asked by a new connection, and
\* by the start of this process.
Enrolled == ~fence.blocked /\ claim.enrolled
ArmRelay ==
  /\ Calm /\ arm = "none" /\ ~relay /\ Enrolled
  /\ arm' = "current"
  /\ UNCHANGED <<up, store, local, dis, adm, claim, op, slot, relay, world, observer>>

RelayArmed ==
  /\ Calm /\ arm # "none"
  /\ relay' \in {relay, relay \/ (arm = "current" /\ Enrolled)}
  /\ arm' = "none"
  /\ adm' = IF adm.stage = "arming" THEN NoAdm ELSE adm
  /\ UNCHANGED <<up, store, local, dis, claim, op, slot, world, observer>>

\* The leg exits by itself.  Its restart timer asks as ArmRelay does.
RelayExits ==
  /\ Calm /\ relay /\ relay' = FALSE
  /\ UNCHANGED <<up, store, local, dis, adm, claim, op, slot, arm, world, observer>>
-----------------------------------------------------------------------------
(* disconnect.                                                             *)

\* Everything before the first await: the gate closes, then the helper, the
\* grants and the relay are told, then the intent is written.
Disconnect ==
  /\ Calm /\ ~Flying
  /\ \E t \in RecordBlocked(Block(Store)), consent \in BOOLEAN :
       /\ Keep(t)
       /\ dis' = [stage |-> "stopping", relay |-> "?", revoke |-> "?", consent |-> consent,
                  claim |-> CASE slot = None -> "quiet" [] slot.stage = "lost" -> "unknown"
                              [] OTHER -> "?",
                  recorded |-> t.ok]
  /\ local' = [barrier |-> TRUE, revoked |-> FALSE, ticket |-> "none"]
  /\ op' = IF op = None THEN None ELSE [op EXCEPT !.fresh = FALSE, !.valid = FALSE]
  /\ arm' = Stale(arm)
  /\ adm' = [adm EXCEPT !.fresh = FALSE]
  /\ claim' = Invalidated /\ slot' = Cancelled
  /\ intent' = "off" /\ lapse' = FALSE
  /\ UNCHANGED <<up, relay, world>>

\* The three receipts it waits for.  A timer ends the wait for the helper.
ClaimUnconfirmed ==
  /\ Calm /\ dis.stage = "stopping" /\ dis.claim = "?"
  /\ dis' = [dis EXCEPT !.claim = "unknown"]
  /\ UNCHANGED <<up, store, local, adm, claim, op, slot, arm, relay, world, observer>>

RelayStops ==
  /\ Calm /\ dis.stage = "stopping" /\ dis.relay = "?"
  /\ \E stopped \in BOOLEAN :
       /\ dis' = [dis EXCEPT !.relay = IF stopped THEN "ok" ELSE "failed"]
       /\ relay' = (relay /\ ~stopped)
  /\ UNCHANGED <<up, store, local, adm, claim, op, slot, arm, world, observer>>

GrantsRevoked ==
  /\ Calm /\ dis.stage = "stopping" /\ dis.revoke = "?"
  /\ \E revoked \in {"ok", "failed"} : dis' = [dis EXCEPT !.revoke = revoked]
  /\ UNCHANGED <<up, store, local, adm, claim, op, slot, arm, relay, world, observer>>

\* Mutant: a relay leg that did not stop is not waited for.
QuietButRelay(t) == dis.claim = "quiet" /\ t.ok /\ dis.revoke = "ok"
\* Only with all three may the credential be cleared.
AllQuiet(t) == dis.claim = "quiet" /\ t.ok /\ dis.relay = "ok" /\ dis.revoke = "ok"

\* claim.disconnect: earlier work is invalidated once more, and waited for.
Gathered ==
  /\ Calm /\ dis.stage = "stopping" /\ "?" \notin {dis.claim, dis.relay, dis.revoke}
  /\ local' = [local EXCEPT !.revoked = (dis.revoke = "ok")]
  /\ \E t \in IF dis.claim = "quiet" THEN Reconcile(Store) ELSE Refused(Store) :
       /\ Keep(t)
       /\ IF AllQuiet(t)
          THEN /\ dis' = [dis EXCEPT !.stage = "draining"]
               /\ claim' = Invalidated /\ slot' = Cancelled
               /\ op' = IF op = None THEN None ELSE [op EXCEPT !.valid = FALSE]
          ELSE /\ dis' = NoFlight
               /\ UNCHANGED <<claim, slot, op>>
  /\ UNCHANGED <<up, adm, arm, relay, world, observer>>

ClearCredential ==
  /\ Calm /\ dis.stage = "draining" /\ slot = None /\ op = None
  /\ dis' = [dis EXCEPT !.stage = "clearing"]
  /\ Launch("disconnect", {"disconnect"})
  /\ UNCHANGED <<up, store, local, adm, claim, arm, relay, observer>>

\* The clear was never begun: its answer is an uncertain outcome.
ClearAbandoned ==
  /\ Calm /\ dis.stage = "draining" /\ slot # None
  /\ \E t \in RecordBlocked(Store) : Keep(t)
  /\ dis' = NoFlight
  /\ UNCHANGED <<up, local, adm, claim, op, slot, arm, relay, world, observer>>

DisconnectAnswered ==
  /\ Answered("disconnect") /\ OpDone("disconnect")
  /\ LET cleared == Told /\ op.effect = "cleared" /\ slot = None
     IN \E t \in RecordBlocked(Store) :
        \E u \in IF cleared THEN CompleteCleanup(t) ELSE Refused(t) :
          /\ Keep(u)
          /\ local' = IF cleared THEN [local EXCEPT !.barrier = Barrier(u.fence)] ELSE local
          /\ dis' = IF cleared /\ u.ok /\ dis.consent /\ dis.recorded
                    THEN [NoFlight EXCEPT !.stage = "complete"] ELSE NoFlight
  /\ UNCHANGED <<up, adm, claim, slot, arm, relay, world, observer>>
-----------------------------------------------------------------------------
(* administer.                                                             *)
Administering == Calm /\ adm.stage = "no" /\ ~Flying /\ ~fence.damaged /\ ~claim.open
                 /\ local.ticket = "none"
Stage(stage, action) == adm' = [stage |-> stage, action |-> action, fresh |-> TRUE]

\* The actions that leave the fence alone: a helper runs and is answered.
AdminRead(action) ==
  /\ Administering /\ ~Busy
  /\ IF action = "identity" THEN fence.admin = None /\ RemoteStopped ELSE Enrolled
  /\ \E t \in IF action = "identity" THEN Reconciled(Store) ELSE {Store} :
       /\ Keep(t)
       /\ IF t.ok /\ (action = "identity" => t.fence.owner = None)
          THEN Launch(action, {"admin"}) /\ Stage("working", action)
          ELSE UNCHANGED <<op, slot, world, adm>>
  /\ UNCHANGED <<up, local, dis, claim, arm, relay, observer>>

\* A new operation, or the cancel of one a disconnect has forgotten: the
\* credential is observed first, then the fence is reserved.
AdminAsk(action) ==
  /\ Administering /\ RemoteStopped
  /\ ~local.barrier /\ Quiet(fence) /\ fence.admin = None
  /\ action = "cancel" => fence.blocked
  /\ ~Busy \/ (op # None /\ op.verb = "status")
  /\ AskStatus("admin") /\ Stage("status", action)
  /\ intent' = IF intent = "on" THEN "on" ELSE "claiming"
  /\ UNCHANGED <<up, store, local, dis, claim, arm, relay, lapse>>

AdminStatusAnswered ==
  /\ Answered("admin") /\ adm.stage = "status" /\ OpDone("admin")
  /\ claim' = Learned
  /\ IF /\ adm.fresh /\ ~Flying /\ Absence /\ RemoteStopped /\ ~claim.open
        /\ Quiet(fence) /\ fence.admin = None
     THEN \E t \in ReserveAdministration(Store) :
            /\ Keep(t)
            /\ local' = [local EXCEPT !.ticket = Stale(@), !.revoked = (@ /\ ~t.ok)]
            /\ arm' = Stale(arm)
            /\ adm' = IF t.ok THEN [adm EXCEPT !.stage = "revoking"] ELSE NoAdm
     ELSE adm' = NoAdm /\ UNCHANGED <<store, local, arm>>
  /\ UNCHANGED <<up, dis, slot, relay, world, observer>>

\* The later steps of the reserved operation, also after a restart.
AdminResume(action) ==
  /\ Administering /\ RemoteStopped /\ fence.admin = Operation
  /\ \E t \in Reconciled(Store) :
     \E u \in IF t.ok /\ t.fence.owner = None /\ t.fence.pending THEN CompleteCleanup(t) ELSE {t} :
       /\ Keep(u)
       /\ IF u.ok /\ u.fence.owner = None
          THEN Stage("revoking", action) /\ local' = [local EXCEPT !.barrier = FALSE, !.revoked = FALSE]
          ELSE UNCHANGED <<adm, local>>
  /\ UNCHANGED <<up, dis, claim, op, slot, arm, relay, world, observer>>

\* The old grants are revoked before a new one can be collected.
AdminRevoked ==
  /\ Calm /\ adm.stage = "revoking"
  /\ \/ adm' = NoAdm /\ UNCHANGED <<local, claim, op, slot, world>>
     \/ /\ adm.fresh /\ ~Flying /\ RemoteStopped
        /\ local' = [local EXCEPT !.revoked = TRUE]
        /\ IF Busy \/ claim.open
           THEN adm' = NoAdm /\ UNCHANGED <<claim, op, slot, world>>
           ELSE /\ adm' = [adm EXCEPT !.stage = "working"]
                /\ claim' = Invalidated
                /\ Launch(adm.action, {"admin"})
  /\ UNCHANGED <<up, store, dis, arm, relay, observer>>

AdminCompleted ==
  /\ adm.fresh /\ ~Flying /\ Told /\ slot = None /\ RemoteStopped
  /\ fence.owner = None /\ fence.admin = Operation

AdminAnswered ==
  /\ Answered("admin") /\ adm.stage = "working" /\ OpDone("admin")
  /\ \/ /\ AdminCompleted /\ adm.action = "cancel"
        /\ \E t \in CancelAdministration(Store) : Keep(t)
        /\ adm' = NoAdm /\ UNCHANGED <<claim, arm, intent>>
     \/ /\ AdminCompleted /\ adm.action = "finalize"
        /\ \E t \in CompleteAdministrativeEnrollment(Store) :
             /\ Keep(t)
             /\ claim' = [claim EXCEPT !.enrolled = TRUE, !.fenced = FALSE]
             /\ arm' = IF t.ok THEN "current" ELSE arm
             /\ adm' = IF t.ok THEN [adm EXCEPT !.stage = "arming"] ELSE NoAdm
             /\ intent' = IF t.ok /\ intent # "off" THEN "on" ELSE intent
     \/ /\ AdminCompleted => adm.action # "cancel"
        /\ adm' = NoAdm /\ UNCHANGED <<store, claim, arm, intent>>
  /\ UNCHANGED <<up, local, dis, slot, relay, world, lapse>>
-----------------------------------------------------------------------------
(* The process ends at any point and is started again.  Helpers run on.    *)
Memory(f) ==
  /\ fence' = f
  /\ local' = [barrier |-> Barrier(f), revoked |-> TRUE, ticket |-> "none"]
  /\ dis' = NoFlight /\ adm' = NoAdm /\ op' = None /\ slot' = None
  /\ claim' = [open |-> FALSE, enrolled |-> FALSE, fenced |-> FALSE]
  /\ arm' = "none" /\ relay' = FALSE

Crash ==
  /\ up /\ up' = FALSE
  /\ Memory(Closed)
  /\ lapse' = (lapse \/ (intent # "on" /\ ~fence.recorded))
  /\ UNCHANGED <<disk, world, intent>>

\* prepareForPrimary: the record is read again once this is the only instance.
Start ==
  /\ ~up /\ up' = TRUE
  /\ Memory(ReadRecord(disk))
  /\ UNCHANGED <<disk, world, observer>>

Init ==
  /\ up = FALSE /\ fence = Closed
  /\ disk \in {Absent, Damaged} \union
       {Record([Closed EXCEPT !.admin = a], "blocked") : a \in {None, Operation}}
       \union {Record(Closed, "active")}
  /\ local = [barrier |-> FALSE, revoked |-> TRUE, ticket |-> "none"]
  /\ dis = NoFlight /\ adm = NoAdm /\ op = None /\ slot = None
  /\ claim = [open |-> FALSE, enrolled |-> FALSE, fenced |-> FALSE]
  /\ arm = "none" /\ relay = FALSE
  /\ job = [o \in Owners |-> "none"] /\ receipts = {} /\ credential \in BOOLEAN
  /\ intent = IF ~ReadRecord(disk).blocked THEN "on"
              ELSE IF ReadRecord(disk).admin # None THEN "claiming" ELSE "off"
  /\ lapse = FALSE

Calls == \/ Status \/ BeginOpen \/ BeginDecide \/ Poll \/ Cancel \/ Disconnect \/ ArmRelay
         \/ \E action \in Actions \intersect {"identity", "pair-request"} : AdminRead(action)
         \/ \E action \in Actions \intersect {"prepare", "cancel"} : AdminAsk(action)
         \/ \E action \in Actions \intersect {"import", "finalize", "resume", "cancel"} :
              AdminResume(action)
Continue == StatusAnswered \/ BeginAnswered \/ PollAnswered \/ DisconnectAnswered
            \/ AdminStatusAnswered \/ AdminAnswered
Flights == RelayArmed \/ RelayExits \/ RelayStops \/ GrantsRevoked \/ Gathered \/ ClearCredential \/ AdminRevoked
Timers == Deadline \/ ClaimUnconfirmed \/ ClearAbandoned
Helper == Admit \/ ProxyCloses \/ \E o \in Owners : HelperActs(o) \/ HelperEnds(o)

Next == Calls \/ Continue \/ Flights \/ Timers \/ Helper \/ Crash \/ Start
Spec == Init /\ [][Next]_vars
-----------------------------------------------------------------------------
Stages == {"none", "current", "stale"}
FenceMemory == [blocked : BOOLEAN, recorded : BOOLEAN, damaged : BOOLEAN,
                owner : Owners \union {None}, pending : BOOLEAN, admin : {None, Operation}]
Disconnects == [stage : {"no", "stopping", "draining", "clearing", "complete"},
            claim : {"?", "quiet", "unknown"}, relay : {"?", "ok", "failed"},
            revoke : {"?", "ok", "failed"}, consent : BOOLEAN, recorded : BOOLEAN]
Administrations == [stage : {"no", "status", "revoking", "working", "arming"}, action : Verbs, fresh : BOOLEAN]
Operations == [verb : Verbs, valid : BOOLEAN, fresh : BOOLEAN, answer : {"none", "done", "failed"},
               effect : Verbs, callers : (SUBSET {"status", "call", "admin", "disconnect"}) \ {{}}]
Helpers == [owner : Owners, stage : {"spawned", "running", "refused", "lost"}, verb : Verbs,
            cancelled : BOOLEAN, effect : Verbs]

ASSUME NoneIsNothing == None \notin Operations /\ None \notin Helpers

StoreType == fence \in FenceMemory /\ disk \in Records \union {Absent, Damaged}
FlightType ==
  /\ up \in BOOLEAN /\ arm \in Stages /\ relay \in BOOLEAN
  /\ local \in [barrier : BOOLEAN, revoked : BOOLEAN, ticket : Stages]
  /\ dis \in Disconnects /\ adm \in Administrations
  /\ claim \in [open : BOOLEAN, enrolled : BOOLEAN, fenced : BOOLEAN]
  /\ intent \in {"off", "claiming", "on"} /\ lapse \in BOOLEAN
HelperType ==
  /\ op \in Operations \union {None} /\ slot \in Helpers \union {None}
  /\ job \in [Owners -> Verbs] /\ receipts \subseteq Owners /\ credential \in BOOLEAN

\* Type correctness of both memories, the record, the flights and the helpers.
TypeOK == StoreType /\ FlightType /\ HelperType

\* A helper tree runs only while its identity is on the record: a restart
\* cannot miss it, and no second helper changes the vault beside it.
HelperIsOnRecord ==
  \A o \in alive : /\ disk \notin {Absent, Damaged} /\ disk.owner = o
                   /\ up => fence.owner = o

\* Remote access is admitted only if the owner's last word was a claim, or an
\* enrollment, begun after every disconnect and completed; a restart included,
\* unless this process died while it reported that safety as unknown.
OpenOnlyAsAsked == up /\ ~fence.blocked => intent = "on" \/ lapse

\* restartSafety "recorded" is true: a restart now would find the same owner
\* and operation, and nothing it would leave open that is closed here.
RecordedIsOnDisk ==
  up /\ fence.recorded =>
    LET r == ReadRecord(disk)
    IN  /\ r.owner = fence.owner /\ r.admin = fence.admin
        /\ fence.blocked => r.blocked
        /\ fence.pending => r.pending

\* A disconnect that answers ok leaves nothing behind: no helper, no
\* credential, no relay leg, and a record of it that a restart will honour.
DisconnectIsComplete ==
  [][dis.stage = "clearing" /\ dis'.stage = "complete" =>
       /\ alive = {} /\ ~credential /\ ~relay /\ ~claim.enrolled /\ fence'.recorded
       /\ ReadRecord(disk').blocked /\ Quiet(ReadRecord(disk'))]_vars
=============================================================================
