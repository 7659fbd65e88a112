------------------------ MODULE RemoteConnectionProofs ------------------------
(***************************************************************************)
(* What the switch that keeps remote access off promises, for any number   *)
(* of helper identities.                                                   *)
(*                                                                         *)
(* Sound: the fence's memory and its record, which every method of the     *)
(* fence keeps.  HelperInv: the helper trees and the record.  MeantInv:    *)
(* what may still open remote access, and the owner's last word.  QuietInv:*)
(* what a disconnect has already made certain.                             *)
(***************************************************************************)
EXTENDS RemoteConnection, TLAPS

(* The fence and its record.                                               *)

\* Memory that would admit remote access has nothing left to settle; no record
\* is written that could not be read; a synced record is what memory says.
SoundPair(f, d) ==
  /\ f \in FenceMemory /\ d \in Records \union {Absent, Damaged}
  /\ ~f.blocked => ~f.pending /\ f.admin = None
  /\ d \in Records => ~Unreadable(d)
  /\ f.recorded => LET r == ReadRecord(d)
                   IN  /\ r.owner = f.owner /\ r.admin = f.admin
                       /\ f.blocked => r.blocked
                       /\ f.pending => r.pending

Sound == SoundPair(fence, disk)
-----------------------------------------------------------------------------
(* The helper trees.                                                       *)
DiskOwner == IF disk \in Records THEN disk.owner ELSE None

\* A helper that left a receipt has ended, and one that was not admitted has
\* neither started nor left anything.
ReceiptsAreFinal == receipts \intersect alive = {}
UnadmittedIsFresh == slot # None =>
  /\ slot.stage \in {"spawned", "refused"} => slot.owner \notin alive
  /\ slot.stage = "spawned" => slot.owner \notin receipts \union {fence.owner, DiskOwner}

HelperInv == HelperIsOnRecord /\ ReceiptsAreFinal /\ UnadmittedIsFresh
-----------------------------------------------------------------------------
(* The owner's last word.                                                  *)
Meant == intent # "off" \/ lapse

\* Whatever may still open remote access was asked for after the last
\* disconnect, or is unknown to have been forgotten.
OnlyIfMeant ==
  /\ up /\ fence.admin = Operation => Meant
  /\ local.ticket = "current" => Meant
  /\ op # None /\ op.fresh /\ op.verb = "open" => Meant
  /\ adm.stage = "status" /\ adm.fresh => Meant

\* A status asked for by an administration is the one operation under way, and
\* a claim has one caller, and is not an administration.
OneCaller ==
  /\ adm.stage = "status" => op # None /\ op.verb = "status" /\ "admin" \in op.callers
  /\ op # None /\ "call" \in op.callers => op.callers = {"call"} /\ op.verb \in {"open", "decide", "poll"}
  /\ op # None /\ op.verb \in {"open", "decide", "poll"} => op.callers = {"call"}
  /\ adm.action \notin {"open", "decide", "poll", "cleared"}

\* A start would find nothing on disk that the owner did not ask for.
RestartAsMeant == ~up =>
  /\ ~ReadRecord(disk).blocked => intent = "on" \/ lapse
  /\ ReadRecord(disk).admin = Operation => Meant

MeantInv == OpenOnlyAsAsked /\ OnlyIfMeant /\ OneCaller /\ RestartAsMeant
-----------------------------------------------------------------------------
(* What a disconnect has made certain.                                     *)
FlyingIsBlocked == Flying => fence.blocked

\* The helper that cleared the vault was the last to touch it.
ClearedIsClear ==
  /\ slot # None => slot.verb # "cleared"
  /\ \A o \in alive : job[o] = "cleared" => ~credential
  /\ slot # None /\ slot.effect = "cleared" => ~credential /\ alive = {} /\ slot.stage # "spawned"
  /\ op # None /\ op.effect = "cleared" => ~credential /\ alive = {} /\ op.answer # "none"

RelayStaysOff ==
  /\ dis.stage \in {"draining", "clearing"} => dis.relay = "ok"
  /\ Flying /\ dis.relay = "ok" => ~relay

\* Once the earlier work is invalidated, nothing can report an enrollment.
EnrollmentIsForgotten == Disconnecting =>
  /\ ~claim.enrolled /\ claim.fenced
  /\ op # None => ~op.valid \/ op.callers = {"disconnect"}

QuietInv == FlyingIsBlocked /\ ClearedIsClear /\ RelayStaysOff /\ EnrollmentIsForgotten

RemoteInv == TypeOK /\ Sound /\ HelperInv /\ MeantInv /\ QuietInv
-----------------------------------------------------------------------------
(* Every method of the fence keeps memory and record sound.                *)
Pairs == [fence : FenceMemory, disk : Records \union {Absent, Damaged}, ok : BOOLEAN]

\* A method opens nothing, and forgets or keeps the operation.
KeepsShut(s, t) == /\ ~t.fence.blocked => ~s.fence.blocked
                   /\ t.fence.admin = Operation => s.fence.admin = Operation
KeepsOwner(s, t) == /\ t.fence.owner = s.fence.owner
                    /\ t.disk = s.disk \/ (t.disk \in Records /\ t.disk.owner = s.fence.owner)

\* What a start makes of a record that persist wrote.
LEMMA RecordIsRead ==
  ASSUME NEW f \in FenceMemory, NEW state \in {"blocked", "active"},
         state = "active" => ~f.pending /\ f.admin = None
  PROVE  /\ Record(f, state) \in Records /\ ~Unreadable(Record(f, state))
         /\ Record(f, state).owner = f.owner
         /\ LET r == ReadRecord(Record(f, state))
            IN  /\ r.owner = f.owner /\ r.admin = f.admin /\ ~r.damaged
                /\ r.blocked <=> state = "blocked" \/ f.owner # None
                /\ r.pending <=> f.pending \/ f.owner # None
<1> DEFINE d == Record(f, state)
<1>1. d \in Records /\ d.state = state /\ d.owner = f.owner /\ d.pending = f.pending /\ d.admin = f.admin
  BY DEF Record, Records, FenceMemory
<1>2. d # Absent /\ d # Damaged
  BY <1>1, ConstantsDistinct
<1> HIDE DEF d
<1>3. ~Unreadable(d)
  BY <1>1, <1>2 DEF Unreadable
<1> DEFINE r == ReadRecord(d)
<1>4. r = [blocked |-> d.state = "blocked" \/ d.owner # None, recorded |-> TRUE, damaged |-> FALSE,
           owner |-> d.owner, pending |-> d.pending \/ d.owner # None, admin |-> d.admin]
  BY <1>2, <1>3 DEF ReadRecord
<1>5. r.owner = d.owner /\ r.admin = d.admin /\ ~r.damaged
  BY <1>4
<1>6. r.blocked = (d.state = "blocked" \/ d.owner # None)
  BY <1>4
<1>7. r.pending = (d.pending \/ d.owner # None)
  BY <1>4
<1> HIDE DEF r
<1>8. r.blocked <=> state = "blocked" \/ f.owner # None
  BY <1>1, <1>6
<1>9. r.pending <=> f.pending \/ f.owner # None
  BY <1>1, <1>7
<1> QED BY <1>1, <1>3, <1>5, <1>8, <1>9 DEF d, r

\* Everything but recorded is kept.
Same(f, g) == /\ g.blocked = f.blocked /\ g.damaged = f.damaged /\ g.owner = f.owner
              /\ g.pending = f.pending /\ g.admin = f.admin

LEMMA Persisted ==
  ASSUME NEW s, s.fence \in FenceMemory, NEW state, NEW t \in Persist(s, state)
  PROVE  /\ t.saved \in {"synced", "replaced", "failed"} /\ (s.fence.damaged => t.saved = "failed")
         /\ t.fence \in FenceMemory /\ Same(s.fence, t.fence)
         /\ t.fence.recorded <=> t.saved = "synced"
         /\ t.saved = "failed" => t.disk = s.disk
         /\ t.saved # "failed" => t.disk = Record(s.fence, state)
         /\ t.ok \in BOOLEAN /\ (t.ok <=> t.saved = "synced")
<1>1. /\ t.saved \in {"synced", "replaced", "failed"} /\ (s.fence.damaged => t.saved = "failed")
      /\ t.fence = [s.fence EXCEPT !.recorded = (t.saved = "synced")]
      /\ t.disk = IF t.saved = "failed" THEN s.disk ELSE Record(s.fence, state)
      /\ t.ok = (t.saved = "synced")
  BY DEF Persist
<1> QED BY <1>1 DEF FenceMemory, Same

LEMMA PersistedShape ==
  ASSUME NEW s, NEW state, NEW u \in Persist(s, state)
  PROVE  LET b == [u EXCEPT !.fence.admin = Operation, !.fence.blocked = TRUE]
         IN  b.fence = [u.fence EXCEPT !.admin = Operation, !.blocked = TRUE] /\ b.disk = u.disk
<1>1. PICK saved \in {"synced", "replaced", "failed"} :
         u = [fence |-> [s.fence EXCEPT !.recorded = (saved = "synced")],
              disk |-> IF saved = "failed" THEN s.disk ELSE Record(s.fence, state),
              ok |-> saved = "synced", saved |-> saved]
  BY DEF Persist
<1> DEFINE d == IF saved = "failed" THEN s.disk ELSE Record(s.fence, state)
           f == [s.fence EXCEPT !.recorded = (saved = "synced")]
           k == saved = "synced"
<1>2. u = [fence |-> f, disk |-> d, ok |-> k, saved |-> saved]
  BY <1>1
<1> HIDE DEF d, f, k
<1> QED BY <1>2

\* A record that can be read, of what memory says where memory says it is synced.
LEMMA WrittenIsSound ==
  ASSUME NEW f \in FenceMemory, NEW g \in FenceMemory, NEW state \in {"blocked", "active"},
         state = "active" => ~f.pending /\ f.admin = None,
         ~g.blocked => ~g.pending /\ g.admin = None,
         g.recorded => /\ g.owner = f.owner /\ g.pending = f.pending /\ g.admin = f.admin
                       /\ g.blocked => state = "blocked" \/ f.owner # None
  PROVE  SoundPair(g, Record(f, state)) /\ Record(f, state) \in Records /\ Record(f, state).owner = f.owner
<1> DEFINE d == Record(f, state)
<1>1. /\ d \in Records /\ ~Unreadable(d) /\ d.owner = f.owner
      /\ ReadRecord(d).owner = f.owner /\ ReadRecord(d).admin = f.admin
      /\ ReadRecord(d).blocked <=> state = "blocked" \/ f.owner # None
      /\ ReadRecord(d).pending <=> f.pending \/ f.owner # None
  BY RecordIsRead
<1> HIDE DEF d
<1>2. SoundPair(g, d)
  BY <1>1 DEF SoundPair
<1> QED BY <1>1, <1>2 DEF d

\* The record was kept, and memory says it may not be synced.
LEMMA KeptIsSound ==
  ASSUME NEW f, NEW d, SoundPair(f, d), NEW g \in FenceMemory, ~g.recorded, ~g.blocked => ~g.pending /\ g.admin = None
  PROVE  SoundPair(g, d)
BY DEF SoundPair

LEMMA AdmitSound ==
  ASSUME NEW s \in Pairs, SoundPair(s.fence, s.disk), NEW o \in Owners, NEW t \in AdmitOwnership(s, o)
  PROVE  /\ t \in Pairs /\ SoundPair(t.fence, t.disk) /\ KeepsShut(s, t)
         /\ s.fence.owner # None => KeepsOwner(s, t)
         /\ t.ok => t.fence.owner = o /\ t.disk \in Records /\ t.disk.owner = o
<1>1. CASE ~Admissible(s.fence, o)
  BY <1>1 DEF AdmitOwnership, Refused, Pairs, KeepsShut, KeepsOwner
<1>2. CASE Admissible(s.fence, o)
  <2> DEFINE f == [s.fence EXCEPT !.owner = o]
             r == [s EXCEPT !.fence.owner = o]
             st == Kept(s)
  <2>1. f \in FenceMemory /\ r.fence = f /\ r.disk = s.disk /\ s.fence \in FenceMemory
        /\ s.disk \in Records \union {Absent, Damaged}
    BY DEF Pairs, FenceMemory
  <2>2. f.owner = o /\ f.blocked = s.fence.blocked /\ f.admin = s.fence.admin /\ f.pending = s.fence.pending
    BY <2>1 DEF FenceMemory
  <2>3. st \in {"blocked", "active"} /\ (st = "active" => ~f.pending /\ f.admin = None)
        /\ (~f.blocked => ~f.pending /\ f.admin = None)
    BY <2>2 DEF Kept, SoundPair
  <2>4. PICK u \in Persist(r, st) :
          t = Answering(u, IF u.ok THEN u.fence ELSE [u.fence EXCEPT !.blocked = TRUE, !.pending = TRUE], u.ok)
    BY <1>2 DEF AdmitOwnership
  <2> HIDE DEF f, r, st
  <2>5. /\ u.fence \in FenceMemory /\ Same(f, u.fence) /\ (u.fence.recorded <=> u.saved = "synced")
        /\ u.saved = "failed" => u.disk = s.disk
        /\ u.saved # "failed" => u.disk = Record(f, st)
        /\ u.ok \in BOOLEAN /\ (u.ok <=> u.saved = "synced")
    BY <2>1, Persisted
  <2>6. /\ t.disk = u.disk /\ t.ok = u.ok
        /\ t.fence = IF u.ok THEN u.fence ELSE [u.fence EXCEPT !.blocked = TRUE, !.pending = TRUE]
        /\ t = [fence |-> t.fence, disk |-> t.disk, ok |-> t.ok]
    BY <2>4 DEF Answering
  <2>7. /\ t.fence \in FenceMemory /\ t.fence.owner = o /\ t.fence.admin = f.admin /\ (t.fence.recorded <=> t.ok)
        /\ (t.ok => t.fence.blocked = f.blocked /\ t.fence.pending = f.pending)
        /\ (~t.ok => t.fence.blocked)
    <3>1. CASE u.ok
      BY <2>2, <2>5, <2>6, <3>1 DEF Same
    <3>2. CASE ~u.ok
      <4>1. t.fence = [u.fence EXCEPT !.blocked = TRUE, !.pending = TRUE]
        BY <2>6, <3>2
      <4> QED BY <2>2, <2>5, <2>6, <3>2, <4>1 DEF Same, FenceMemory
    <3> QED BY <3>1, <3>2
  <2>8. SoundPair(t.fence, Record(f, st)) /\ Record(f, st) \in Records /\ Record(f, st).owner = o
    <3>1. o # None
      BY ConstantsDistinct
    <3> QED BY <2>1, <2>2, <2>3, <2>7, <3>1, WrittenIsSound
  <2>9. SoundPair(t.fence, t.disk)
    <3>1. CASE t.disk = Record(f, st)
      BY <2>8, <3>1
    <3>2. CASE t.disk = s.disk /\ ~t.ok
      BY <2>7, <3>2, KeptIsSound
    <3> QED BY <2>5, <2>6, <3>1, <3>2
  <2>10. t \in Pairs
    BY <2>1, <2>5, <2>6, <2>7, <2>8 DEF Pairs
  <2>11. KeepsShut(s, t)
    BY <2>2, <2>7 DEF KeepsShut
  <2>12. s.fence.owner # None => KeepsOwner(s, t)
    BY <1>2, <2>2, <2>5, <2>6, <2>7, <2>8 DEF KeepsOwner, Admissible
  <2> QED BY <2>5, <2>6, <2>7, <2>8, <2>9, <2>10, <2>11, <2>12
<1> QED BY <1>1, <1>2

\* What a method may return: another pair, as sound, and no more open.
Safe(s, t) == t \in Pairs /\ SoundPair(t.fence, t.disk) /\ KeepsShut(s, t)

LEMMA RefusedSafe ==
  ASSUME NEW s \in Pairs, SoundPair(s.fence, s.disk), NEW t \in Refused(s)
  PROVE  Safe(s, t) /\ KeepsOwner(s, t) /\ ~t.ok /\ t.fence = s.fence /\ t.disk = s.disk
BY DEF Refused, Pairs, Safe, KeepsShut, KeepsOwner

LEMMA CompleteOwnershipSound ==
  ASSUME NEW s \in Pairs, SoundPair(s.fence, s.disk), NEW o, NEW t \in CompleteOwnership(s, o)
  PROVE  /\ Safe(s, t)
         /\ ~t.ok => KeepsOwner(s, t)
         /\ t.ok => /\ s.fence.owner = o /\ o # None /\ t.fence.owner = None
                    /\ t.disk \in Records /\ t.disk.owner = None
<1>1. CASE o = None \/ s.fence.owner # o
  BY <1>1, RefusedSafe DEF CompleteOwnership
<1>2. CASE o # None /\ s.fence.owner = o
  <2> DEFINE f == [s.fence EXCEPT !.owner = None]
             r == [s EXCEPT !.fence.owner = None]
             st == Kept(s)
  <2>1. /\ f \in FenceMemory /\ r.fence = f /\ r.disk = s.disk /\ s.fence \in FenceMemory
        /\ s.disk \in Records \union {Absent, Damaged}
        /\ f.owner = None /\ f.blocked = s.fence.blocked /\ f.admin = s.fence.admin /\ f.pending = s.fence.pending
    BY DEF Pairs, FenceMemory
  <2>2. st \in {"blocked", "active"} /\ (st = "active" => ~f.pending /\ f.admin = None)
        /\ (~f.blocked => ~f.pending /\ f.admin = None) /\ (f.blocked => st = "blocked")
    BY <2>1 DEF Kept, SoundPair
  <2>3. PICK u \in Persist(r, st) :
          t = Answering(u, IF u.saved = "failed" THEN [u.fence EXCEPT !.owner = o] ELSE u.fence, u.saved # "failed")
    BY <1>2 DEF CompleteOwnership
  <2> HIDE DEF f, r, st
  <2>4. /\ u.fence \in FenceMemory /\ Same(f, u.fence) /\ (u.fence.recorded <=> u.saved = "synced")
        /\ u.saved = "failed" => u.disk = s.disk
        /\ u.saved # "failed" => u.disk = Record(f, st)
    BY <2>1, Persisted
  <2>5. /\ t.disk = u.disk /\ t.ok \in BOOLEAN /\ (t.ok <=> u.saved # "failed")
        /\ t.fence = IF t.ok THEN u.fence ELSE [u.fence EXCEPT !.owner = o]
        /\ t = [fence |-> t.fence, disk |-> t.disk, ok |-> t.ok]
    BY <2>3 DEF Answering
  <2>6. /\ t.fence \in FenceMemory /\ t.fence.blocked = f.blocked /\ t.fence.pending = f.pending
        /\ t.fence.admin = f.admin /\ (t.fence.recorded => t.ok)
        /\ t.fence.owner = IF t.ok THEN None ELSE o
    <3>1. CASE t.ok
      BY <2>1, <2>4, <2>5, <3>1 DEF Same
    <3>2. CASE ~t.ok
      <4>1. t.fence = [u.fence EXCEPT !.owner = o] /\ o \in Owners \union {None}
        BY <1>2, <2>1, <2>5, <3>2 DEF FenceMemory
      <4> QED BY <2>1, <2>4, <2>5, <3>2, <4>1 DEF Same, FenceMemory
    <3> QED BY <3>1, <3>2
  <2>7. CASE t.ok
    <3>1. t.disk = Record(f, st)
      BY <2>4, <2>5, <2>7
    <3>2. SoundPair(t.fence, t.disk) /\ t.disk \in Records /\ t.disk.owner = None
      BY <2>1, <2>2, <2>6, <2>7, <3>1, WrittenIsSound
    <3> QED BY <1>2, <2>1, <2>5, <2>6, <2>7, <3>2 DEF Safe, KeepsShut, Pairs
  <2>8. CASE ~t.ok
    <3>1. t.disk = s.disk
      BY <2>4, <2>5, <2>8
    <3>2. SoundPair(t.fence, t.disk)
      BY <2>1, <2>2, <2>6, <2>8, <3>1, KeptIsSound
    <3> QED BY <1>2, <2>1, <2>5, <2>6, <2>8, <3>1, <3>2 DEF Safe, KeepsShut, KeepsOwner, Pairs
  <2> QED BY <2>7, <2>8
<1> QED BY <1>1, <1>2

LEMMA BlockSound ==
  ASSUME NEW s \in Pairs, SoundPair(s.fence, s.disk)
  PROVE  /\ Block(s) \in Pairs /\ SoundPair(Block(s).fence, Block(s).disk)
         /\ Block(s).fence.blocked = TRUE /\ Block(s).fence.admin = None /\ Block(s).fence.owner = s.fence.owner
         /\ Block(s).disk = s.disk
<1> DEFINE b == Block(s)
<1>1. /\ b \in Pairs /\ b.fence \in FenceMemory /\ b.disk = s.disk
      /\ b.fence.blocked = TRUE /\ b.fence.admin = None /\ b.fence.owner = s.fence.owner /\ ~b.fence.recorded
  BY DEF Block, Pairs, FenceMemory
<1> HIDE DEF b
<1>2. SoundPair(b.fence, b.disk)
  BY <1>1, KeptIsSound
<1> QED BY <1>1, <1>2 DEF b

LEMMA RecordBlockedSound ==
  ASSUME NEW s \in Pairs, SoundPair(s.fence, s.disk), NEW t \in RecordBlocked(s)
  PROVE  /\ Safe(s, t) /\ KeepsOwner(s, t) /\ Same(s.fence, t.fence)
         /\ t.ok => t.fence.recorded /\ t.fence.blocked
<1>1. CASE ~s.fence.blocked
  BY <1>1, RefusedSafe DEF RecordBlocked, Same
<1>2. CASE s.fence.blocked
  <2>1. PICK u \in Persist(s, "blocked") : t = Answering(u, u.fence, u.ok)
    BY <1>2 DEF RecordBlocked
  <2>2. s.fence \in FenceMemory /\ s.disk \in Records \union {Absent, Damaged}
    BY DEF Pairs
  <2>3. /\ u.fence \in FenceMemory /\ Same(s.fence, u.fence) /\ (u.fence.recorded <=> u.saved = "synced")
        /\ u.saved = "failed" => u.disk = s.disk
        /\ u.saved # "failed" => u.disk = Record(s.fence, "blocked")
        /\ u.ok \in BOOLEAN /\ (u.ok <=> u.saved = "synced")
    BY <2>2, Persisted
  <2>4. t.disk = u.disk /\ t.ok = u.ok /\ t.fence = u.fence /\ t = [fence |-> u.fence, disk |-> u.disk, ok |-> u.ok]
    BY <2>1 DEF Answering
  <2>5. SoundPair(u.fence, Record(s.fence, "blocked")) /\ Record(s.fence, "blocked") \in Records
        /\ Record(s.fence, "blocked").owner = s.fence.owner
    BY <1>2, <2>2, <2>3, WrittenIsSound DEF Same
  <2>6. SoundPair(u.fence, u.disk)
    <3>1. CASE u.saved = "failed"
      BY <1>2, <2>3, <3>1, KeptIsSound DEF Same
    <3> QED BY <2>3, <2>5, <3>1
  <2>7. KeepsOwner(s, t) /\ t \in Pairs
    BY <2>2, <2>3, <2>4, <2>5 DEF KeepsOwner, Pairs, Same
  <2> QED BY <1>2, <2>3, <2>4, <2>6, <2>7 DEF Safe, KeepsShut, Same
<1> QED BY <1>1, <1>2

LEMMA CompleteCleanupSound ==
  ASSUME NEW s \in Pairs, SoundPair(s.fence, s.disk), NEW t \in CompleteCleanup(s)
  PROVE  /\ Safe(s, t) /\ KeepsOwner(s, t) /\ t.fence.blocked = s.fence.blocked
         /\ t.ok => /\ s.fence.owner = None /\ t.fence.recorded /\ t.fence.blocked
                    /\ ReadRecord(t.disk).blocked /\ Quiet(ReadRecord(t.disk))
<1>1. CASE ~s.fence.blocked \/ s.fence.damaged \/ s.fence.owner # None
  BY <1>1, RefusedSafe DEF CompleteCleanup
<1>2. CASE s.fence.blocked /\ ~s.fence.damaged /\ s.fence.owner = None
  <2> DEFINE f == [s.fence EXCEPT !.pending = FALSE]
             r == [s EXCEPT !.fence.pending = FALSE]
  <2>1. /\ f \in FenceMemory /\ r.fence = f /\ r.disk = s.disk /\ s.fence \in FenceMemory
        /\ s.disk \in Records \union {Absent, Damaged}
        /\ f.owner = None /\ f.blocked = s.fence.blocked /\ f.admin = s.fence.admin /\ f.pending = FALSE
    BY <1>2 DEF Pairs, FenceMemory
  <2>2. PICK u \in Persist(r, "blocked") :
          t = Answering(u, [u.fence EXCEPT !.pending = (u.saved = "failed")], u.ok)
    BY <1>2 DEF CompleteCleanup
  <2> HIDE DEF f, r
  <2>3. /\ u.fence \in FenceMemory /\ Same(f, u.fence) /\ (u.fence.recorded <=> u.saved = "synced")
        /\ u.saved = "failed" => u.disk = s.disk
        /\ u.saved # "failed" => u.disk = Record(f, "blocked")
        /\ u.ok \in BOOLEAN /\ (u.ok <=> u.saved = "synced")
    BY <2>1, Persisted
  <2>4. /\ t.disk = u.disk /\ t.ok = u.ok /\ t.fence = [u.fence EXCEPT !.pending = (u.saved = "failed")]
        /\ t = [fence |-> t.fence, disk |-> t.disk, ok |-> t.ok]
    BY <2>2 DEF Answering
  <2>5. /\ t.fence \in FenceMemory /\ t.fence.blocked = f.blocked /\ t.fence.owner = None /\ t.fence.admin = f.admin
        /\ (t.fence.recorded <=> u.saved = "synced") /\ (t.fence.pending <=> u.saved = "failed")
    BY <2>1, <2>3, <2>4 DEF Same, FenceMemory
  <2>6. /\ Record(f, "blocked") \in Records /\ Record(f, "blocked").owner = None
        /\ ReadRecord(Record(f, "blocked")).blocked /\ Quiet(ReadRecord(Record(f, "blocked")))
    BY <2>1, RecordIsRead DEF Quiet
  <2>7. SoundPair(t.fence, t.disk)
    <3>1. CASE u.saved = "failed"
      BY <1>2, <2>1, <2>3, <2>4, <2>5, <3>1, KeptIsSound
    <3>2. CASE u.saved # "failed"
      <4>1. ~t.fence.pending /\ f.pending = FALSE /\ t.fence.pending = FALSE
        BY <2>1, <2>5, <3>2 DEF FenceMemory
      <4>2. SoundPair(t.fence, Record(f, "blocked"))
        BY <1>2, <2>1, <2>5, <4>1, WrittenIsSound
      <4> QED BY <2>3, <2>4, <3>2, <4>2
    <3> QED BY <3>1, <3>2
  <2>8. KeepsOwner(s, t) /\ t \in Pairs
    BY <1>2, <2>1, <2>3, <2>4, <2>5, <2>6 DEF KeepsOwner, Pairs
  <2> QED BY <1>2, <2>1, <2>3, <2>4, <2>5, <2>6, <2>7, <2>8 DEF Safe, KeepsShut
<1> QED BY <1>1, <1>2

LEMMA ReserveSound ==
  ASSUME NEW s \in Pairs, SoundPair(s.fence, s.disk), NEW t \in ReserveAdministration(s)
  PROVE  /\ t \in Pairs /\ SoundPair(t.fence, t.disk) /\ KeepsOwner(s, t)
         /\ ~t.fence.blocked => ~s.fence.blocked
<1>1. CASE ~Quiet(s.fence) \/ s.fence.admin # None
  BY <1>1, RefusedSafe DEF ReserveAdministration, Safe, KeepsShut
<1>2. CASE Quiet(s.fence) /\ s.fence.admin = None
  <2> DEFINE f == [s.fence EXCEPT !.blocked = TRUE, !.admin = Operation]
             r == [s EXCEPT !.fence.blocked = TRUE, !.fence.admin = Operation]
  <2>1. /\ f \in FenceMemory /\ r.fence = f /\ r.disk = s.disk /\ s.fence \in FenceMemory
        /\ s.disk \in Records \union {Absent, Damaged}
        /\ f.owner = s.fence.owner /\ f.blocked = TRUE
    BY DEF Pairs, FenceMemory
  <2>2. PICK u \in Persist(r, "blocked") : t = Answering(u, u.fence, u.ok)
    BY <1>2 DEF ReserveAdministration
  <2> HIDE DEF f, r
  <2>3. /\ u.fence \in FenceMemory /\ Same(f, u.fence) /\ (u.fence.recorded <=> u.saved = "synced")
        /\ u.saved = "failed" => u.disk = s.disk
        /\ u.saved # "failed" => u.disk = Record(f, "blocked")
        /\ u.ok \in BOOLEAN /\ (u.ok <=> u.saved = "synced")
    BY <2>1, Persisted
  <2>4. t.disk = u.disk /\ t.ok = u.ok /\ t.fence = u.fence /\ t = [fence |-> u.fence, disk |-> u.disk, ok |-> u.ok]
    BY <2>2 DEF Answering
  <2>5. SoundPair(u.fence, Record(f, "blocked")) /\ Record(f, "blocked") \in Records
        /\ Record(f, "blocked").owner = s.fence.owner
    BY <2>1, <2>3, WrittenIsSound DEF Same
  <2>6. SoundPair(u.fence, u.disk)
    <3>1. CASE u.saved = "failed"
      BY <2>1, <2>3, <3>1, KeptIsSound DEF Same
    <3> QED BY <2>3, <2>5, <3>1
  <2> QED BY <2>1, <2>3, <2>4, <2>5, <2>6 DEF KeepsOwner, Pairs, Same
<1> QED BY <1>1, <1>2

LEMMA CancelSound ==
  ASSUME NEW s \in Pairs, SoundPair(s.fence, s.disk), NEW t \in CancelAdministration(s)
  PROVE  Safe(s, t) /\ KeepsOwner(s, t)
<1>1. CASE ~Quiet(s.fence) \/ s.fence.admin # Operation
  BY <1>1, RefusedSafe DEF CancelAdministration
<1>2. CASE Quiet(s.fence) /\ s.fence.admin = Operation
  <2> DEFINE f == [s.fence EXCEPT !.admin = None]
             r == [s EXCEPT !.fence.admin = None]
  <2>1. /\ f \in FenceMemory /\ r.fence = f /\ r.disk = s.disk /\ s.fence \in FenceMemory
        /\ s.disk \in Records \union {Absent, Damaged}
        /\ f.owner = s.fence.owner /\ f.blocked = s.fence.blocked /\ f.pending = s.fence.pending /\ f.admin = None
    BY DEF Pairs, FenceMemory
  <2>2. s.fence.blocked
    BY <1>2, ConstantsDistinct DEF SoundPair
  <2>3. PICK u \in Persist(r, "blocked") :
          t = Answering(u, IF u.saved = "failed" THEN [u.fence EXCEPT !.admin = Operation] ELSE u.fence, u.ok)
    BY <1>2 DEF CancelAdministration
  <2> HIDE DEF f, r
  <2>4. /\ u.fence \in FenceMemory /\ Same(f, u.fence) /\ (u.fence.recorded <=> u.saved = "synced")
        /\ u.saved = "failed" => u.disk = s.disk
        /\ u.saved # "failed" => u.disk = Record(f, "blocked")
        /\ u.ok \in BOOLEAN /\ (u.ok <=> u.saved = "synced")
    BY <2>1, Persisted
  <2>5. /\ t.disk = u.disk /\ t.ok = u.ok
        /\ t.fence = IF u.saved = "failed" THEN [u.fence EXCEPT !.admin = Operation] ELSE u.fence
        /\ t = [fence |-> t.fence, disk |-> t.disk, ok |-> t.ok]
    BY <2>3 DEF Answering
  <2>6. /\ t.fence \in FenceMemory /\ t.fence.blocked = s.fence.blocked /\ t.fence.owner = s.fence.owner
        /\ t.fence.pending = s.fence.pending /\ (t.fence.recorded <=> u.saved = "synced")
        /\ t.fence.recorded => t.fence.admin = None
    <3>1. CASE u.saved = "failed"
      <4>1. t.fence = [u.fence EXCEPT !.admin = Operation]
        BY <2>5, <3>1
      <4> QED BY <2>1, <2>4, <3>1, <4>1 DEF Same, FenceMemory
    <3>2. CASE u.saved # "failed"
      BY <2>1, <2>4, <2>5, <3>2 DEF Same
    <3> QED BY <3>1, <3>2
  <2>7. SoundPair(t.fence, Record(f, "blocked")) /\ Record(f, "blocked") \in Records
        /\ Record(f, "blocked").owner = s.fence.owner
    BY <2>1, <2>2, <2>6, WrittenIsSound
  <2>8. SoundPair(t.fence, t.disk)
    <3>1. CASE u.saved = "failed"
      BY <2>2, <2>4, <2>5, <2>6, <3>1, KeptIsSound
    <3> QED BY <2>4, <2>5, <2>7, <3>1
  <2> QED BY <1>2, <2>1, <2>2, <2>4, <2>5, <2>6, <2>7, <2>8 DEF KeepsOwner, KeepsShut, Safe, Pairs
<1> QED BY <1>1, <1>2

LEMMA FreshClaimSound ==
  ASSUME NEW s \in Pairs, SoundPair(s.fence, s.disk), NEW t \in CompleteFreshClaim(s)
  PROVE  /\ t \in Pairs /\ SoundPair(t.fence, t.disk) /\ KeepsOwner(s, t)
         /\ t.fence.admin = Operation => s.fence.admin = Operation
         /\ ~t.fence.blocked => t.ok \/ ~s.fence.blocked
<1>1. CASE ~Quiet(s.fence) \/ s.fence.admin # None
  BY <1>1, RefusedSafe DEF CompleteFreshClaim, Safe, KeepsShut
<1>2. CASE Quiet(s.fence) /\ s.fence.admin = None
  <2> DEFINE f == [s.fence EXCEPT !.blocked = TRUE]
             r == [s EXCEPT !.fence.blocked = TRUE]
  <2>1. /\ f \in FenceMemory /\ r.fence = f /\ r.disk = s.disk /\ s.fence \in FenceMemory
        /\ s.disk \in Records \union {Absent, Damaged}
        /\ f.owner = None /\ s.fence.owner = None /\ f.pending = s.fence.pending /\ ~f.pending /\ f.admin = None
    BY <1>2 DEF Pairs, FenceMemory, Quiet
  <2>2. PICK u \in Persist(r, "active") :
          t = Answering(u, [u.fence EXCEPT !.blocked = (u.saved = "failed")], u.saved # "failed")
    BY <1>2 DEF CompleteFreshClaim
  <2> HIDE DEF f, r
  <2>3. /\ u.fence \in FenceMemory /\ Same(f, u.fence) /\ (u.fence.recorded <=> u.saved = "synced")
        /\ u.saved = "failed" => u.disk = s.disk
        /\ u.saved # "failed" => u.disk = Record(f, "active")
    BY <2>1, Persisted
  <2>4. /\ t.disk = u.disk /\ t.ok \in BOOLEAN /\ (t.ok <=> u.saved # "failed")
        /\ t.fence = [u.fence EXCEPT !.blocked = (u.saved = "failed")]
        /\ t = [fence |-> t.fence, disk |-> t.disk, ok |-> t.ok]
    BY <2>2 DEF Answering
  <2>5. /\ t.fence \in FenceMemory /\ (t.fence.blocked <=> u.saved = "failed") /\ t.fence.owner = None
        /\ t.fence.pending = f.pending /\ t.fence.admin = None /\ (t.fence.recorded <=> u.saved = "synced")
    BY <2>1, <2>3, <2>4 DEF Same, FenceMemory
  <2>6. SoundPair(t.fence, t.disk)
    <3>1. CASE u.saved = "failed"
      BY <2>1, <2>3, <2>4, <2>5, <3>1, KeptIsSound
    <3>2. CASE u.saved # "failed"
      <4>1. ~t.fence.blocked /\ ~t.fence.pending
        BY <2>1, <2>5, <3>2
      <4>2. SoundPair(t.fence, Record(f, "active"))
        BY <2>1, <2>5, <4>1, WrittenIsSound
      <4> QED BY <2>3, <2>4, <3>2, <4>2
    <3> QED BY <3>1, <3>2
  <2>7. u.saved # "failed" => t.disk \in Records /\ t.disk.owner = None
    BY <2>1, <2>3, <2>4, RecordIsRead
  <2> QED BY <1>2, <2>1, <2>3, <2>4, <2>5, <2>6, <2>7, ConstantsDistinct DEF KeepsOwner, Pairs
<1> QED BY <1>1, <1>2

\* The record of an enrollment goes back to what it was where it was not synced.
LEMMA PutBackSound ==
  ASSUME NEW s, NEW f \in FenceMemory, s.fence = f, f.blocked,
         s.disk \in Records, SoundPair([f EXCEPT !.recorded = FALSE], s.disk), s.disk.owner = f.owner,
         NEW u \in Persist(s, "blocked")
  PROVE  /\ u.fence \in FenceMemory /\ SoundPair(u.fence, u.disk) /\ Same(f, u.fence)
         /\ u.disk \in Records /\ u.disk.owner = f.owner
<1>1. /\ u.saved \in {"synced", "replaced", "failed"}
      /\ u.fence \in FenceMemory /\ Same(f, u.fence) /\ (u.fence.recorded <=> u.saved = "synced")
      /\ u.saved = "failed" => u.disk = s.disk
      /\ u.saved # "failed" => u.disk = Record(f, "blocked")
  BY Persisted
<1>2. SoundPair(u.fence, Record(f, "blocked")) /\ Record(f, "blocked") \in Records
      /\ Record(f, "blocked").owner = f.owner
  BY <1>1, WrittenIsSound DEF Same
<1>3. CASE u.saved = "failed"
  <2>1. ~u.fence.recorded /\ u.fence.blocked
    BY <1>1, <1>3 DEF Same
  <2>2. SoundPair(u.fence, s.disk)
    BY <1>1, <2>1, KeptIsSound
  <2> QED BY <1>1, <1>3, <2>2
<1>4. CASE u.saved # "failed"
  BY <1>1, <1>2, <1>4
<1> QED BY <1>3, <1>4

LEMMA EnrollmentSound ==
  ASSUME NEW s \in Pairs, SoundPair(s.fence, s.disk), NEW t \in CompleteAdministrativeEnrollment(s)
  PROVE  /\ t \in Pairs /\ SoundPair(t.fence, t.disk) /\ KeepsOwner(s, t)
         /\ t.fence.admin = Operation => s.fence.admin = Operation
         /\ ~t.fence.blocked => t.ok \/ ~s.fence.blocked
         /\ t.ok => s.fence.admin = Operation
<1>1. CASE ~Quiet(s.fence) \/ s.fence.admin # Operation
  BY <1>1, RefusedSafe DEF CompleteAdministrativeEnrollment, Safe, KeepsShut
<1>2. CASE Quiet(s.fence) /\ s.fence.admin = Operation
  <2> DEFINE f == [s.fence EXCEPT !.admin = None]
             r == [s EXCEPT !.fence.admin = None]
             b(u) == [u EXCEPT !.fence.admin = Operation, !.fence.blocked = TRUE]
  <2>1. /\ f \in FenceMemory /\ r.fence = f /\ r.disk = s.disk /\ s.fence \in FenceMemory
        /\ s.disk \in Records \union {Absent, Damaged}
        /\ f.owner = None /\ s.fence.owner = None /\ ~f.pending /\ f.pending = s.fence.pending /\ f.admin = None
    BY <1>2 DEF Pairs, FenceMemory, Quiet
  <2>2. s.fence.blocked
    BY <1>2, ConstantsDistinct DEF SoundPair
  <2>3. PICK u \in Persist(r, "active") :
          t \in CASE u.saved = "synced" -> {Answering(u, [u.fence EXCEPT !.blocked = FALSE], TRUE)}
                  [] u.saved = "replaced" -> {Answering(v, v.fence, FALSE) : v \in Persist(b(u), "blocked")}
                  [] OTHER -> {Answering(b(u), b(u).fence, FALSE)}
    BY <1>2 DEF CompleteAdministrativeEnrollment
  <2>4. /\ u.saved \in {"synced", "replaced", "failed"}
        /\ u.fence \in FenceMemory /\ Same(f, u.fence) /\ (u.fence.recorded <=> u.saved = "synced")
        /\ u.saved = "failed" => u.disk = s.disk
        /\ u.saved # "failed" => u.disk = Record(f, "active")
    <3> HIDE DEF f, r, b
    <3> QED BY <2>1, Persisted
  <2>5. /\ b(u).fence = [u.fence EXCEPT !.admin = Operation, !.blocked = TRUE] /\ b(u).disk = u.disk
    BY PersistedShape
  <2>6. /\ b(u).fence \in FenceMemory /\ b(u).fence.blocked /\ b(u).fence.owner = None
        /\ b(u).fence.recorded = u.fence.recorded
    <3> HIDE DEF f, r, b
    <3> QED BY <2>1, <2>4, <2>5 DEF Same, FenceMemory
  <2> HIDE DEF f, r, b
  <2>7. CASE u.saved = "synced"
    <3>1. t = Answering(u, [u.fence EXCEPT !.blocked = FALSE], TRUE)
      BY <2>3, <2>7
    <3>2. /\ t.disk = Record(f, "active") /\ t.ok = TRUE /\ t.fence = [u.fence EXCEPT !.blocked = FALSE]
          /\ t = [fence |-> t.fence, disk |-> t.disk, ok |-> t.ok]
      BY <2>4, <2>7, <3>1 DEF Answering
    <3>3. /\ t.fence \in FenceMemory /\ t.fence.blocked = FALSE /\ t.fence.owner = None
          /\ t.fence.pending = f.pending /\ t.fence.admin = None
      BY <2>1, <2>4, <3>2 DEF Same, FenceMemory
    <3>4. SoundPair(t.fence, Record(f, "active")) /\ Record(f, "active") \in Records
          /\ Record(f, "active").owner = f.owner
      BY <2>1, <3>3, WrittenIsSound
    <3> QED BY <1>2, <2>1, <3>2, <3>3, <3>4, ConstantsDistinct DEF Pairs, KeepsOwner
  <2>8. CASE u.saved = "replaced"
    <3>1. PICK v \in Persist(b(u), "blocked") : t = Answering(v, v.fence, FALSE)
      BY <2>3, <2>8
    <3>2. t.disk = v.disk /\ t.ok = FALSE /\ t.fence = v.fence /\ t = [fence |-> v.fence, disk |-> v.disk, ok |-> FALSE]
      BY <3>1 DEF Answering
    <3> DEFINE g == b(u).fence
    <3>3. g \in FenceMemory /\ g.blocked /\ g.owner = None /\ b(u).fence = g /\ ~g.recorded
      BY <2>4, <2>6, <2>8
    <3> HIDE DEF g
    <3>4. [g EXCEPT !.recorded = FALSE] \in FenceMemory /\ [g EXCEPT !.recorded = FALSE].blocked
          /\ ~[g EXCEPT !.recorded = FALSE].recorded
      BY <3>3 DEF FenceMemory
    <3>5. SoundPair([g EXCEPT !.recorded = FALSE], Record(f, "active"))
          /\ Record(f, "active") \in Records /\ Record(f, "active").owner = f.owner
      <4> DEFINE h == [g EXCEPT !.recorded = FALSE]
      <4>1. h \in FenceMemory /\ h.blocked /\ ~h.recorded
        BY <3>4
      <4> HIDE DEF h
      <4>2. SoundPair(h, Record(f, "active")) /\ Record(f, "active") \in Records /\ Record(f, "active").owner = f.owner
        BY <2>1, <4>1, WrittenIsSound
      <4> QED BY <4>2 DEF h
    <3>6. b(u).disk = Record(f, "active")
      BY <2>4, <2>5, <2>8
    <3>7. /\ v.fence \in FenceMemory /\ SoundPair(v.fence, v.disk) /\ Same(g, v.fence)
          /\ v.disk \in Records /\ v.disk.owner = g.owner
      BY <2>1, <3>3, <3>5, <3>6, PutBackSound
    <3> QED BY <1>2, <2>1, <2>2, <3>2, <3>3, <3>7 DEF Pairs, KeepsOwner, Same
  <2>9. CASE u.saved = "failed"
    <3>1. t = Answering(b(u), b(u).fence, FALSE)
      BY <2>3, <2>9
    <3>2. t.disk = s.disk /\ t.ok = FALSE /\ t.fence = b(u).fence /\ t = [fence |-> t.fence, disk |-> t.disk, ok |-> FALSE]
      BY <2>4, <2>5, <2>9, <3>1 DEF Answering
    <3>3. t.fence \in FenceMemory /\ t.fence.blocked /\ t.fence.owner = None /\ ~t.fence.recorded
      BY <2>4, <2>6, <2>9, <3>2
    <3>4. SoundPair(t.fence, t.disk)
      BY <3>2, <3>3, KeptIsSound
    <3> QED BY <1>2, <2>1, <2>2, <3>2, <3>3, <3>4 DEF Pairs, KeepsOwner
  <2> QED BY <2>4, <2>7, <2>8, <2>9
<1> QED BY <1>1, <1>2

\* An owner leaves memory and record together, and only when its tree has ended.
Forgets(s, t) == /\ s.fence.owner \notin alive
                 /\ t.fence.owner = None /\ t.disk \in Records /\ t.disk.owner = None
OwnerMove(s, t) == KeepsOwner(s, t) \/ Forgets(s, t)

\* A receipt is asked before an owner is forgotten.
LEMMA ReconcileSound ==
  ASSUME receipts \subseteq Owners, ReceiptsAreFinal,
         NEW s \in Pairs, SoundPair(s.fence, s.disk), NEW t \in Reconcile(s)
  PROVE  /\ Safe(s, t) /\ OwnerMove(s, t)
         /\ t.ok => t.fence.owner = None
<1>1. CASE s.fence.owner = None
  <2>1. t = [s EXCEPT !.ok = TRUE]
    BY <1>1, ConstantsDistinct DEF Reconcile
  <2>2. t \in Pairs /\ t.fence = s.fence /\ t.disk = s.disk
    BY <2>1 DEF Pairs
  <2> QED BY <1>1, <2>2 DEF Safe, KeepsShut, OwnerMove, KeepsOwner
<1>2. CASE s.fence.owner # None /\ s.fence.owner \in receipts
  BY <1>2, CompleteOwnershipSound DEF Reconcile, OwnerMove, Forgets, ReceiptsAreFinal
<1>3. CASE s.fence.owner # None /\ s.fence.owner \notin receipts
  BY <1>3, RefusedSafe DEF Reconcile, OwnerMove
<1> QED BY <1>1, <1>2, <1>3

LEMMA ReconciledSound ==
  ASSUME receipts \subseteq Owners, ReceiptsAreFinal,
         NEW s \in Pairs, SoundPair(s.fence, s.disk), NEW t \in Reconciled(s)
  PROVE  Safe(s, t) /\ OwnerMove(s, t)
<1>1. CASE PriorOwner(s.fence)
  BY <1>1, ReconcileSound DEF Reconciled
<1>2. CASE ~PriorOwner(s.fence)
  BY <1>2 DEF Reconciled, Safe, KeepsShut, OwnerMove, KeepsOwner, Pairs
<1> QED BY <1>1, <1>2
-----------------------------------------------------------------------------
(* What one step does to memory and record.                                *)
Moves == OwnerMove(Store, [fence |-> fence', disk |-> disk', ok |-> TRUE])
Shuts == KeepsShut(Store, [fence |-> fence', disk |-> disk', ok |-> TRUE])

LEMMA StoreIsPair ==
  ASSUME Sound
  PROVE  Store \in Pairs /\ Store.fence = fence /\ Store.disk = disk /\ SoundPair(Store.fence, Store.disk)
BY DEF Sound, SoundPair, Store, Pairs

LEMMA OwnerMoves ==
  ASSUME NEW s, NEW t, NEW u, OwnerMove(s, t), KeepsOwner(t, u)
  PROVE  OwnerMove(s, u)
BY DEF OwnerMove, KeepsOwner, Forgets

\* A method's answer is taken over.
LEMMA KeptStore ==
  ASSUME NEW t, t \in Pairs, SoundPair(t.fence, t.disk), OwnerMove(Store, t), Keep(t)
  PROVE  Sound' /\ Moves /\ (KeepsShut(Store, t) => Shuts)
<1>1. fence' = t.fence /\ disk' = t.disk
  BY DEF Keep
<1>2. Sound'
  BY <1>1 DEF Sound
<1>3. Moves /\ (KeepsShut(Store, t) => Shuts)
  BY <1>1 DEF Moves, Shuts, OwnerMove, KeepsOwner, Forgets, KeepsShut
<1> QED BY <1>2, <1>3

LEMMA StoreUnchanged ==
  ASSUME Sound, UNCHANGED store
  PROVE  Sound' /\ Moves /\ Shuts
BY DEF Sound, store, Moves, Shuts, OwnerMove, KeepsOwner, KeepsShut, Store

\* The methods that neither open nor forget: two in a row are one.
LEMMA SafeTwice ==
  ASSUME NEW s, NEW t, NEW u, Safe(s, t), Safe(t, u)
  PROVE  Safe(s, u)
BY DEF Safe, KeepsShut

LEMMA StoreStatus ==
  ASSUME Sound, ReceiptsAreFinal, receipts \subseteq Owners, NEW t \in Reconciled(Store), Keep(t)
  PROVE  Sound' /\ Moves /\ Shuts
BY StoreIsPair, ReconciledSound, KeptStore DEF Safe

LEMMA StoreBlocked ==
  ASSUME Sound, NEW t \in RecordBlocked(Block(Store)), Keep(t)
  PROVE  Sound' /\ Moves /\ Shuts /\ fence'.blocked /\ fence'.admin = None /\ t.ok \in BOOLEAN
<1> DEFINE b == Block(Store)
<1>1. /\ b \in Pairs /\ SoundPair(b.fence, b.disk) /\ b.fence.blocked = TRUE /\ b.fence.admin = None
      /\ b.fence.owner = fence.owner /\ b.disk = disk
  BY StoreIsPair, BlockSound
<1>2. t \in RecordBlocked(b)
  OBVIOUS
<1> HIDE DEF b
<1>3. Safe(b, t) /\ KeepsOwner(b, t) /\ Same(b.fence, t.fence)
  BY <1>1, <1>2, RecordBlockedSound
<1>4. t.fence.blocked = TRUE /\ t.fence.admin = None /\ fence' = t.fence
  BY <1>1, <1>3 DEF Same, Keep
<1>5. KeepsOwner(Store, t) /\ KeepsShut(Store, t)
  BY <1>1, <1>3, <1>4, StoreIsPair, ConstantsDistinct DEF KeepsOwner, KeepsShut
<1>6. t.ok \in BOOLEAN
  BY <1>3 DEF Safe, Pairs
<1> QED BY <1>3, <1>4, <1>5, <1>6, KeptStore DEF Safe, OwnerMove

\* What every step may take as given of what came before.
Base == TypeOK /\ Sound /\ HelperInv

LEMMA BaseFacts ==
  ASSUME Base
  PROVE  Sound /\ ReceiptsAreFinal /\ receipts \subseteq Owners /\ TypeOK /\ HelperInv
BY DEF Base, HelperInv, TypeOK, HelperType

LEMMA StoreProxyCloses ==
  ASSUME Base, ProxyCloses
  PROVE  Sound' /\ Moves /\ Shuts
<1>0. Sound /\ receipts \subseteq Owners
  BY BaseFacts
<1>1. PICK signed \in IF slot.stage = "refused" THEN BOOLEAN ELSE {slot.owner \in receipts} :
        \E t \in IF signed THEN CompleteOwnership(Store, slot.owner) ELSE {Store} : Keep(t)
  BY DEF ProxyCloses
<1>2. PICK t \in IF signed THEN CompleteOwnership(Store, slot.owner) ELSE {Store} : Keep(t)
  BY <1>1
<1>3. CASE ~signed
  <2>1. t = Store
    BY <1>2, <1>3
  <2> QED BY <1>0, <1>2, <2>1, StoreUnchanged DEF Keep, Store, store
<1>4. CASE signed
  <2>1. t \in CompleteOwnership(Store, slot.owner)
    BY <1>2, <1>4
  <2>2. slot.owner \notin alive
    <3>1. CASE slot.stage = "refused"
      BY <3>1 DEF ProxyCloses, Base, HelperInv, UnadmittedIsFresh
    <3>2. CASE slot.stage # "refused"
      BY <1>1, <1>4, <3>2 DEF Base, HelperInv, ReceiptsAreFinal
    <3> QED BY <3>1, <3>2
  <2>3. Safe(Store, t) /\ OwnerMove(Store, t)
    BY <1>0, <2>1, <2>2, StoreIsPair, CompleteOwnershipSound DEF OwnerMove, Forgets
  <2> QED BY <1>2, <2>3, KeptStore DEF Safe
<1> QED BY <1>3, <1>4

LEMMA StoreStatusAnswered ==
  ASSUME Base, StatusAnswered
  PROVE  Sound' /\ Moves /\ Shuts
<1>0. Sound
  BY BaseFacts
<1>1. CASE Cleanable /\ fence.blocked
  <2>1. PICK t \in CompleteCleanup(Store) : Keep(t)
    BY <1>1 DEF StatusAnswered
  <2>2. Safe(Store, t) /\ KeepsOwner(Store, t)
    BY <1>0, <2>1, StoreIsPair, CompleteCleanupSound
  <2> QED BY <2>1, <2>2, KeptStore DEF Safe, OwnerMove
<1>2. CASE ~(Cleanable /\ fence.blocked)
  <2>1. UNCHANGED store
    BY <1>2 DEF StatusAnswered, Keep, store, Store
  <2> QED BY <1>0, <2>1, StoreUnchanged
<1> QED BY <1>1, <1>2

LEMMA StoreGathered ==
  ASSUME Base, Gathered
  PROVE  Sound' /\ Moves /\ Shuts
<1>0. Sound /\ ReceiptsAreFinal /\ receipts \subseteq Owners
  BY BaseFacts
<1>1. PICK t \in IF dis.claim = "quiet" THEN Reconcile(Store) ELSE Refused(Store) : Keep(t)
  BY DEF Gathered
<1>2. Safe(Store, t) /\ OwnerMove(Store, t)
  BY <1>0, <1>1, StoreIsPair, ReconcileSound, RefusedSafe DEF OwnerMove
<1> QED BY <1>1, <1>2, KeptStore DEF Safe

LEMMA StoreClearAbandoned ==
  ASSUME Base, ClearAbandoned
  PROVE  Sound' /\ Moves /\ Shuts
<1>0. Sound
  BY BaseFacts
<1>1. PICK t \in RecordBlocked(Store) : Keep(t)
  BY DEF ClearAbandoned
<1>2. Safe(Store, t) /\ KeepsOwner(Store, t)
  BY <1>0, <1>1, StoreIsPair, RecordBlockedSound
<1> QED BY <1>1, <1>2, KeptStore DEF Safe, OwnerMove

\* The two writes that end a disconnect.
LEMMA StoreDisconnectAnswered ==
  ASSUME Base, NEW cleared \in BOOLEAN, NEW t \in RecordBlocked(Store),
         NEW u \in IF cleared THEN CompleteCleanup(t) ELSE Refused(t), Keep(u)
  PROVE  /\ Sound' /\ Moves /\ Shuts /\ fence'.blocked = fence.blocked
         /\ cleared /\ u.ok => /\ fence.owner = None /\ fence'.recorded
                               /\ ReadRecord(disk').blocked /\ Quiet(ReadRecord(disk'))
<1>0. Sound
  BY BaseFacts
<1>1. Safe(Store, t) /\ KeepsOwner(Store, t) /\ Same(fence, t.fence)
  BY <1>0, StoreIsPair, RecordBlockedSound
<1>2. CASE cleared
  <2>1. u \in CompleteCleanup(t)
    BY <1>2
  <2>2. /\ Safe(t, u) /\ KeepsOwner(t, u) /\ u.fence.blocked = t.fence.blocked
        /\ u.ok => /\ t.fence.owner = None /\ u.fence.recorded
                   /\ ReadRecord(u.disk).blocked /\ Quiet(ReadRecord(u.disk))
    BY <1>1, <2>1, CompleteCleanupSound DEF Safe
  <2>3. Sound' /\ Moves /\ Shuts
    <3>1. Safe(Store, u) /\ OwnerMove(Store, u)
      BY <1>1, <2>2, SafeTwice, OwnerMoves DEF OwnerMove
    <3> QED BY <3>1, KeptStore DEF Safe
  <2>4. fence' = u.fence /\ disk' = u.disk
    BY DEF Keep
  <2> QED BY <1>1, <2>2, <2>3, <2>4 DEF Same
<1>3. CASE ~cleared
  <2>1. u \in Refused(t)
    BY <1>3
  <2>2. Safe(t, u) /\ KeepsOwner(t, u) /\ u.fence = t.fence
    BY <1>1, <2>1, RefusedSafe DEF Safe
  <2>3. Sound' /\ Moves /\ Shuts
    <3>1. Safe(Store, u) /\ OwnerMove(Store, u)
      BY <1>1, <2>2, SafeTwice, OwnerMoves DEF OwnerMove
    <3> QED BY <3>1, KeptStore DEF Safe
  <2>4. fence' = u.fence
    BY DEF Keep
  <2> QED BY <1>1, <1>3, <2>2, <2>3, <2>4 DEF Same
<1> QED BY <1>2, <1>3

\* A step that opens remote access, or keeps it open, and the owner's word for it.
Asked == intent' = IF intent = "off" THEN "off" ELSE "on"
ShutsAdmin == fence'.admin = Operation => fence.admin = Operation

LEMMA StorePollAnswered ==
  ASSUME Base, PollAnswered
  PROVE  /\ Sound' /\ Moves
         /\ \/ Shuts /\ intent' = intent /\ local' = local
            \/ fence'.blocked /\ fence'.admin = None /\ local' = [local EXCEPT !.ticket = Stale(@)]
            \/ ShutsAdmin /\ ~Flying /\ local.ticket = "current" /\ Asked /\ local' = [local EXCEPT !.ticket = "none"]
<1>0. Sound
  BY BaseFacts
<1>1. CASE UNCHANGED <<store, local, arm, intent>>
  BY <1>0, <1>1, StoreUnchanged
<1>2. CASE ~Flying /\ local.ticket = "current" /\ \E t \in CompleteFreshClaim(Store) :
             /\ Keep(t)
             /\ local' = IF t.ok THEN [local EXCEPT !.ticket = "none"] ELSE local
             /\ intent' = IF t.ok /\ intent # "off" THEN "on" ELSE intent
  <2>1. PICK t \in CompleteFreshClaim(Store) :
             /\ Keep(t)
             /\ local' = IF t.ok THEN [local EXCEPT !.ticket = "none"] ELSE local
             /\ intent' = IF t.ok /\ intent # "off" THEN "on" ELSE intent
    BY <1>2
  <2>2. /\ t \in Pairs /\ SoundPair(t.fence, t.disk) /\ KeepsOwner(Store, t)
        /\ t.fence.admin = Operation => fence.admin = Operation
        /\ ~t.fence.blocked => t.ok \/ ~fence.blocked
    BY <1>0, StoreIsPair, FreshClaimSound
  <2>3. Sound' /\ Moves /\ (KeepsShut(Store, t) => Shuts)
    BY <2>1, <2>2, KeptStore DEF OwnerMove
  <2>4. CASE t.ok
    BY <1>2, <2>1, <2>2, <2>3, <2>4 DEF Asked, ShutsAdmin, Keep
  <2>5. CASE ~t.ok
    BY <1>0, <2>1, <2>2, <2>3, <2>5, StoreIsPair DEF KeepsShut
  <2> QED BY <2>4, <2>5
<1>3. CASE \E t \in RecordBlocked(Block(Store)) : Keep(t) /\ local' = [local EXCEPT !.ticket = Stale(@)]
  BY <1>0, <1>3, StoreBlocked
<1> QED BY <1>1, <1>2, <1>3 DEF PollAnswered, Fresh

LEMMA StoreDisconnect ==
  ASSUME Base, Disconnect
  PROVE  Sound' /\ Moves /\ Shuts /\ fence'.blocked /\ fence'.admin = None
<1>1. PICK t \in RecordBlocked(Block(Store)) : Keep(t)
  BY DEF Disconnect
<1> QED BY <1>1, BaseFacts, StoreBlocked

LEMMA StoreAdminRead ==
  ASSUME Base, NEW action, AdminRead(action)
  PROVE  Sound' /\ Moves /\ Shuts
<1>0. Sound /\ ReceiptsAreFinal /\ receipts \subseteq Owners
  BY BaseFacts
<1>1. PICK t \in IF action = "identity" THEN Reconciled(Store) ELSE {Store} : Keep(t)
  BY DEF AdminRead
<1>2. CASE action = "identity"
  BY <1>0, <1>1, <1>2, StoreStatus
<1>3. CASE action # "identity"
  <2>1. UNCHANGED store
    BY <1>1, <1>3 DEF Keep, store, Store
  <2> QED BY <1>0, <2>1, StoreUnchanged
<1> QED BY <1>2, <1>3

LEMMA StoreAdminStatusAnswered ==
  ASSUME Base, AdminStatusAnswered
  PROVE  /\ Sound' /\ Moves /\ (~fence'.blocked => ~fence.blocked)
         /\ ShutsAdmin \/ adm.fresh
<1>0. Sound
  BY BaseFacts
<1>1. CASE UNCHANGED store
  BY <1>0, <1>1, StoreUnchanged DEF Shuts, ShutsAdmin, KeepsShut, Store, store
<1>2. CASE adm.fresh /\ \E t \in ReserveAdministration(Store) : Keep(t)
  <2>1. PICK t \in ReserveAdministration(Store) : Keep(t)
    BY <1>2
  <2>2. /\ t \in Pairs /\ SoundPair(t.fence, t.disk) /\ KeepsOwner(Store, t)
        /\ ~t.fence.blocked => ~fence.blocked
    BY <1>0, StoreIsPair, ReserveSound
  <2>3. Sound' /\ Moves
    BY <2>1, <2>2, KeptStore DEF OwnerMove
  <2> QED BY <1>2, <2>1, <2>2, <2>3 DEF Keep
<1> QED BY <1>1, <1>2 DEF AdminStatusAnswered

LEMMA StoreAdminResume ==
  ASSUME Base, NEW action, AdminResume(action)
  PROVE  Sound' /\ Moves /\ Shuts
<1>0. Sound /\ ReceiptsAreFinal /\ receipts \subseteq Owners
  BY BaseFacts
<1>1. PICK t \in Reconciled(Store) :
        \E u \in IF t.ok /\ t.fence.owner = None /\ t.fence.pending THEN CompleteCleanup(t) ELSE {t} : Keep(u)
  BY DEF AdminResume
<1>2. PICK u \in IF t.ok /\ t.fence.owner = None /\ t.fence.pending THEN CompleteCleanup(t) ELSE {t} : Keep(u)
  BY <1>1
<1>3. Safe(Store, t) /\ OwnerMove(Store, t)
  BY <1>0, StoreIsPair, ReconciledSound
<1>4. Safe(t, u) /\ KeepsOwner(t, u)
  <2>1. CASE u = t
    BY <1>3, <2>1 DEF Safe, KeepsShut, KeepsOwner
  <2>2. CASE u \in CompleteCleanup(t)
    BY <1>3, <2>2, CompleteCleanupSound DEF Safe
  <2> QED BY <1>2, <2>1, <2>2
<1>5. Safe(Store, u) /\ OwnerMove(Store, u)
  BY <1>3, <1>4, SafeTwice, OwnerMoves
<1> QED BY <1>2, <1>5, KeptStore DEF Safe

LEMMA StoreAdminAnswered ==
  ASSUME Base, AdminAnswered
  PROVE  /\ Sound' /\ Moves /\ ShutsAdmin
         /\ \/ Shuts /\ intent' = intent
            \/ ~Flying /\ fence.admin = Operation /\ Asked
<1>0. Sound
  BY BaseFacts
<1>1. CASE UNCHANGED store /\ intent' = intent
  BY <1>0, <1>1, StoreUnchanged DEF Shuts, ShutsAdmin, KeepsShut, Store
<1>2. CASE (\E t \in CancelAdministration(Store) : Keep(t)) /\ intent' = intent
  <2>1. PICK t \in CancelAdministration(Store) : Keep(t)
    BY <1>2
  <2>2. Safe(Store, t) /\ KeepsOwner(Store, t)
    BY <1>0, <2>1, StoreIsPair, CancelSound
  <2>3. Sound' /\ Moves /\ Shuts
    BY <2>1, <2>2, KeptStore DEF Safe, OwnerMove
  <2> QED BY <1>2, <2>3 DEF Shuts, ShutsAdmin, KeepsShut, Store
<1>3. CASE ~Flying /\ \E t \in CompleteAdministrativeEnrollment(Store) :
             /\ Keep(t)
             /\ intent' = IF t.ok /\ intent # "off" THEN "on" ELSE intent
  <2>1. PICK t \in CompleteAdministrativeEnrollment(Store) :
             /\ Keep(t)
             /\ intent' = IF t.ok /\ intent # "off" THEN "on" ELSE intent
    BY <1>3
  <2>2. /\ t \in Pairs /\ SoundPair(t.fence, t.disk) /\ KeepsOwner(Store, t)
        /\ t.fence.admin = Operation => fence.admin = Operation
        /\ ~t.fence.blocked => t.ok \/ ~fence.blocked
        /\ t.ok => fence.admin = Operation
    BY <1>0, StoreIsPair, EnrollmentSound
  <2>3. Sound' /\ Moves /\ (KeepsShut(Store, t) => Shuts) /\ ShutsAdmin
    BY <2>1, <2>2, KeptStore DEF OwnerMove, ShutsAdmin, Keep
  <2>4. CASE t.ok
    BY <1>3, <2>1, <2>2, <2>3, <2>4 DEF Asked
  <2>5. CASE ~t.ok
    BY <1>0, <2>1, <2>2, <2>3, <2>5, StoreIsPair DEF KeepsShut
  <2> QED BY <2>4, <2>5
<1> QED BY <1>1, <1>2, <1>3 DEF AdminAnswered, AdminCompleted

\* An identity is admitted beside no other, and only once.
LEMMA StoreAdmit ==
  ASSUME Base, up, slot # None, slot.stage = "spawned", NEW t \in AdmitOwnership(Store, slot.owner), Keep(t)
  PROVE  /\ Sound' /\ Shuts /\ (alive # {} => Moves)
         /\ t.ok => /\ alive = {} /\ fence'.owner = slot.owner
                    /\ disk' \in Records /\ disk'.owner = slot.owner
<1>0. Sound /\ HelperInv
  BY BaseFacts
<1>1. slot.owner \in Owners
  BY DEF Base, TypeOK, HelperType, Helpers
<1>2. slot.owner # fence.owner
  BY <1>0 DEF HelperInv, UnadmittedIsFresh
<1>3. /\ t \in Pairs /\ SoundPair(t.fence, t.disk) /\ KeepsShut(Store, t)
      /\ fence.owner # None => KeepsOwner(Store, t)
      /\ t.ok => t.fence.owner = slot.owner /\ t.disk \in Records /\ t.disk.owner = slot.owner
  BY <1>0, <1>1, StoreIsPair, AdmitSound
<1>4. fence' = t.fence /\ disk' = t.disk
  BY DEF Keep
<1>5. alive # {} => fence.owner # None
  BY <1>0, ConstantsDistinct DEF HelperInv, HelperIsOnRecord, alive
<1>6. alive # {} => Moves
  BY <1>3, <1>5, KeptStore DEF OwnerMove
<1>7. Sound' /\ Shuts
  BY <1>3, <1>4 DEF Sound, Shuts, KeepsShut
<1>8. t.ok => alive = {}
  BY <1>0, <1>2, <1>3, <1>5, StoreIsPair DEF KeepsOwner
<1> QED BY <1>3, <1>4, <1>6, <1>7, <1>8

\* A start finds its record, or nothing, or something it will not trust.
LEMMA ReadIsSound ==
  ASSUME NEW d, d \in Records \union {Absent, Damaged}, d \in Records => ~Unreadable(d)
  PROVE  SoundPair(ReadRecord(d), d) /\ Closed \in FenceMemory
         /\ (ReadRecord(d).owner = IF d \in Records THEN d.owner ELSE None)
         /\ (d \notin Records => ReadRecord(d).admin = None)
<1>1. Closed \in FenceMemory
  BY DEF Closed, FenceMemory
<1>2. CASE d = Absent
  <2>1. ReadRecord(d) = [Closed EXCEPT !.blocked = FALSE]
    BY <1>2 DEF ReadRecord
  <2>2. ReadRecord(d) \in FenceMemory /\ ~ReadRecord(d).recorded /\ ~ReadRecord(d).pending
        /\ ReadRecord(d).admin = None /\ ReadRecord(d).owner = None
    BY <2>1 DEF Closed, FenceMemory
  <2> QED BY <1>1, <1>2, <2>2, ConstantsDistinct DEF SoundPair
<1>3. CASE d = Damaged
  <2>1. ReadRecord(d) = [Closed EXCEPT !.damaged = TRUE]
    BY <1>3, ConstantsDistinct DEF ReadRecord, Unreadable
  <2>2. ReadRecord(d) \in FenceMemory /\ ~ReadRecord(d).recorded /\ ReadRecord(d).blocked
        /\ ReadRecord(d).admin = None /\ ReadRecord(d).owner = None
    BY <2>1 DEF Closed, FenceMemory
  <2> QED BY <1>1, <1>3, <2>2, ConstantsDistinct DEF SoundPair
<1>4. CASE d \in Records
  <2>1. d # Absent /\ d # Damaged /\ ~Unreadable(d)
    BY <1>4, ConstantsDistinct
  <2> DEFINE b == d.state = "blocked" \/ d.owner # None
             p == d.pending \/ d.owner # None
             r == [blocked |-> b, recorded |-> TRUE, damaged |-> FALSE, owner |-> d.owner,
                   pending |-> p, admin |-> d.admin]
  <2>2. ReadRecord(d) = r
    BY <2>1 DEF ReadRecord
  <2>3. b \in BOOLEAN /\ p \in BOOLEAN /\ d.owner \in Owners \union {None} /\ d.admin \in {None, Operation}
    BY <1>4 DEF Records
  <2>4. ~b => ~p /\ d.admin = None
    BY <1>4, <2>1 DEF Unreadable, Records
  <2> HIDE DEF b, p
  <2>5. r \in FenceMemory /\ r.blocked = b /\ r.pending = p /\ r.admin = d.admin /\ r.owner = d.owner
    BY <2>3 DEF FenceMemory
  <2> HIDE DEF r
  <2> QED BY <1>1, <1>4, <2>1, <2>2, <2>4, <2>5 DEF SoundPair
<1> QED BY <1>2, <1>3, <1>4

LEMMA StoreCrash ==
  ASSUME Sound, Crash
  PROVE  Sound' /\ fence' = Closed /\ disk' = disk
<1>1. fence' = Closed /\ disk' = disk
  BY DEF Crash, Memory
<1>2. SoundPair(Closed, disk)
  <2>1. Closed \in FenceMemory /\ ~Closed.recorded /\ Closed.blocked
    BY DEF Closed, FenceMemory
  <2> HIDE DEF Closed
  <2> QED BY <2>1, KeptIsSound DEF Sound
<1> QED BY <1>1, <1>2 DEF Sound

LEMMA StoreStart ==
  ASSUME Sound, Start
  PROVE  Sound' /\ fence' = ReadRecord(disk) /\ disk' = disk
<1>1. fence' = ReadRecord(disk) /\ disk' = disk
  BY DEF Start, Memory
<1>2. SoundPair(ReadRecord(disk), disk)
  BY ReadIsSound DEF Sound, SoundPair
<1> QED BY <1>1, <1>2 DEF Sound
-----------------------------------------------------------------------------
(* Types.                                                                  *)
LEMMA LaunchTyped ==
  ASSUME HelperType, NEW verb \in Verbs,
         NEW callers \in (SUBSET {"status", "call", "admin", "disconnect"}) \ {{}}, Launch(verb, callers)
  PROVE  /\ HelperType' /\ job' = job /\ credential' = credential
         /\ receipts' = receipts \intersect {fence.owner}
         /\ slot' \in Helpers /\ slot'.owner \in Owners \ Used /\ slot'.stage = "spawned" /\ slot'.effect = "none"
         /\ op' \in Operations /\ op'.verb = verb /\ op'.callers = callers /\ op'.effect = "none"
         /\ op'.valid = TRUE /\ op'.answer = "none" /\ op'.fresh = TRUE
<1>1. PICK o \in Owners \ Used :
        /\ slot' = [owner |-> o, stage |-> "spawned", verb |-> verb, cancelled |-> FALSE, effect |-> "none"]
        /\ receipts' = receipts \intersect {fence.owner}
        /\ op' = [verb |-> verb, valid |-> TRUE, fresh |-> TRUE, answer |-> "none", effect |-> "none",
                 callers |-> callers]
        /\ UNCHANGED <<job, credential>>
  BY DEF Launch
<1>2. "none" \in Verbs
  BY DEF Verbs
<1>3. slot' \in Helpers
  BY <1>1, <1>2 DEF Helpers
<1>4. op' \in Operations
  BY <1>1, <1>2 DEF Operations
<1> QED BY <1>1, <1>3, <1>4 DEF HelperType

\* The flights of the lifecycle and the claim module's own flags.
LEMMA FlightTyped ==
  ASSUME TypeOK, Sound, Next
  PROVE  FlightType'
<1> USE DEF TypeOK, FlightType, observer
<1>a. NoFlight \in Disconnects /\ NoAdm \in Administrations /\ Invalidated \in [open : BOOLEAN, enrolled : BOOLEAN, fenced : BOOLEAN]
  BY DEF NoFlight, NoAdm, Disconnects, Administrations, Invalidated, Verbs
<1>b. \A action \in Verbs, stage \in {"status", "revoking", "working"} :
        Stage(stage, action) => adm' \in Administrations
  BY DEF Stage, Administrations
<1>1. CASE Status
  BY <1>1 DEF Status
<1>2. CASE BeginOpen
  BY <1>2 DEF BeginOpen
<1>3. CASE BeginDecide
  BY <1>3 DEF BeginDecide
<1>4. CASE Poll
  BY <1>4 DEF Poll
<1>5. CASE Cancel
  BY <1>5 DEF Cancel, Stages
<1>6. CASE Disconnect
  <2>1. PICK t \in RecordBlocked(Block(Store)), consent \in BOOLEAN :
          /\ Keep(t)
          /\ dis' = [stage |-> "stopping", relay |-> "?", revoke |-> "?", consent |-> consent,
                     claim |-> CASE slot = None -> "quiet" [] slot.stage = "lost" -> "unknown"
                                 [] OTHER -> "?",
                     recorded |-> t.ok]
    BY <1>6 DEF Disconnect
  <2>2. dis' \in Disconnects
    <3> DEFINE c == CASE slot = None -> "quiet" [] slot.stage = "lost" -> "unknown" [] OTHER -> "?"
    <3>1. dis' = [stage |-> "stopping", relay |-> "?", revoke |-> "?", consent |-> consent,
                  claim |-> c, recorded |-> t.ok]
      BY <2>1
    <3>2. c \in {"?", "quiet", "unknown"}
      BY NoneIsNothing
    <3>3. t.ok \in BOOLEAN
      BY <2>1, StoreBlocked
    <3> HIDE DEF c
    <3> QED BY <3>1, <3>2, <3>3 DEF Disconnects
  <2>3. adm' \in Administrations
    BY <1>6, <1>a, <1>b DEF Disconnect, Administrations
  <2>4. arm' \in Stages
    BY <1>6, <1>a, <1>b DEF Disconnect, Stale, Stages
  <2>5. local' \in [barrier : BOOLEAN, revoked : BOOLEAN, ticket : Stages]
    BY <1>6, <1>a, <1>b DEF Disconnect, Stages
  <2>6. claim' \in [open : BOOLEAN, enrolled : BOOLEAN, fenced : BOOLEAN]
    BY <1>6, <1>a, <1>b DEF Disconnect
  <2> QED BY <1>6, <2>1, <2>2, <2>3, <2>4, <2>5, <2>6 DEF Disconnect
<1>7. CASE ArmRelay
  BY <1>7 DEF ArmRelay, Stages
<1>8. CASE StatusAnswered
  BY <1>8 DEF StatusAnswered, Barrier, Learned
<1>9. CASE BeginAnswered
  BY <1>9 DEF BeginAnswered, Stages
<1>10. CASE PollAnswered
  <2>1. claim' \in [open : BOOLEAN, enrolled : BOOLEAN, fenced : BOOLEAN]
    <3>1. claim' \in {claim, [claim EXCEPT !.open = FALSE], [open |-> FALSE, enrolled |-> TRUE, fenced |-> FALSE]}
      BY <1>10 DEF PollAnswered
    <3>2. CASE claim' = [claim EXCEPT !.open = FALSE]
      BY <3>2
    <3>3. CASE claim' = [open |-> FALSE, enrolled |-> TRUE, fenced |-> FALSE]
      BY <3>3
    <3> QED BY <3>1, <3>2, <3>3
  <2>2. Stale(local.ticket) \in Stages /\ Stale(arm) \in Stages
    BY <1>10, <1>a, <1>b DEF Stale, Stages
  <2>3. \E k \in {local.ticket, Stale(local.ticket), "none"} : local' = local \/ local' = [local EXCEPT !.ticket = k]
    BY <1>10, <1>a, <1>b DEF PollAnswered
  <2>4. "none" \in Stages /\ "current" \in Stages
    BY <1>10, <1>a, <1>b DEF Stages
  <2>5. local' \in [barrier : BOOLEAN, revoked : BOOLEAN, ticket : Stages]
    BY <1>10, <1>a, <1>b , <2>2, <2>3, <2>4
  <2>6. arm' \in Stages
    BY <1>10, <1>a, <1>b , <2>2, <2>4 DEF PollAnswered
  <2>7. intent' \in {"off", "claiming", "on"}
    BY <1>10, <1>a, <1>b DEF PollAnswered
  <2> QED BY <1>10, <2>1, <2>2, <2>3, <2>4, <2>5, <2>6, <2>7 DEF PollAnswered
<1>11. CASE DisconnectAnswered
  <2>1. dis' = NoFlight \/ dis' = [NoFlight EXCEPT !.stage = "complete"]
    BY <1>11, <1>a, <1>b DEF DisconnectAnswered
  <2>2. dis' \in Disconnects
    BY <1>11, <1>a, <1>b , <2>1 DEF Disconnects
  <2>3. local' \in [barrier : BOOLEAN, revoked : BOOLEAN, ticket : Stages]
    BY <1>11, <1>a, <1>b DEF DisconnectAnswered, Barrier
  <2> QED BY <1>11, <2>1, <2>2, <2>3 DEF DisconnectAnswered
<1>12. CASE AdminStatusAnswered
  <2>1. adm' = NoAdm \/ adm' = [adm EXCEPT !.stage = "revoking"]
    BY <1>12, <1>a, <1>b DEF AdminStatusAnswered
  <2>2. adm' \in Administrations
    BY <1>12, <1>a, <1>b , <2>1 DEF Administrations
  <2>3. arm' \in Stages
    BY <1>12, <1>a, <1>b DEF AdminStatusAnswered, Stages, Stale
  <2>4. claim' \in [open : BOOLEAN, enrolled : BOOLEAN, fenced : BOOLEAN]
    BY <1>12, <1>a, <1>b DEF AdminStatusAnswered, Learned
  <2>5. Stale(local.ticket) \in Stages
    BY <1>12, <1>a, <1>b DEF Stale, Stages
  <2>6. local' = local \/ \E k \in BOOLEAN : local' = [local EXCEPT !.ticket = Stale(@), !.revoked = (@ /\ ~k)]
    BY <1>12, <1>a, <1>b DEF AdminStatusAnswered
  <2>7. local' \in [barrier : BOOLEAN, revoked : BOOLEAN, ticket : Stages]
    BY <1>12, <1>a, <1>b , <2>5, <2>6
  <2> QED BY <1>12, <2>1, <2>2, <2>3, <2>4, <2>5, <2>6, <2>7 DEF AdminStatusAnswered
<1>13. CASE AdminAnswered
  <2>1. adm' = NoAdm \/ adm' = [adm EXCEPT !.stage = "arming"]
    BY <1>13, <1>a, <1>b DEF AdminAnswered
  <2>2. adm' \in Administrations
    BY <1>13, <1>a, <1>b , <2>1 DEF Administrations
  <2>3. arm' \in Stages
    BY <1>13, <1>a, <1>b DEF AdminAnswered, Stages
  <2>4. claim' \in [open : BOOLEAN, enrolled : BOOLEAN, fenced : BOOLEAN]
    BY <1>13, <1>a, <1>b DEF AdminAnswered
  <2>5. intent' \in {"off", "claiming", "on"}
    BY <1>13, <1>a, <1>b DEF AdminAnswered
  <2> QED BY <1>13, <2>1, <2>2, <2>3, <2>4, <2>5 DEF AdminAnswered
<1>14. CASE RelayArmed
  <2>1. adm' \in Administrations
    BY <1>14, <1>a, <1>b DEF RelayArmed
  <2>2. arm' \in Stages
    BY <1>14, <1>a, <1>b DEF RelayArmed, Stages
  <2>3. relay' \in BOOLEAN
    BY <1>14, <1>a, <1>b DEF RelayArmed
  <2> QED BY <1>14, <2>1, <2>2, <2>3 DEF RelayArmed
<1>15. CASE RelayExits
  BY <1>15 DEF RelayExits
<1>16. CASE RelayStops
  BY <1>16 DEF RelayStops, Disconnects
<1>17. CASE GrantsRevoked
  BY <1>17 DEF GrantsRevoked, Disconnects
<1>18. CASE Gathered
  <2>1. dis' = NoFlight \/ dis' = [dis EXCEPT !.stage = "draining"]
    BY <1>18, <1>a, <1>b DEF Gathered
  <2>2. dis' \in Disconnects
    BY <1>18, <1>a, <1>b , <2>1 DEF Disconnects
  <2>3. local' \in [barrier : BOOLEAN, revoked : BOOLEAN, ticket : Stages]
    BY <1>18, <1>a, <1>b DEF Gathered
  <2>4. claim' \in [open : BOOLEAN, enrolled : BOOLEAN, fenced : BOOLEAN]
    BY <1>18, <1>a, <1>b DEF Gathered
  <2> QED BY <1>18, <2>1, <2>2, <2>3, <2>4 DEF Gathered
<1>19. CASE ClearCredential
  BY <1>19 DEF ClearCredential, Disconnects
<1>20. CASE AdminRevoked
  <2>1. adm' = NoAdm \/ adm' = [adm EXCEPT !.stage = "working"]
    BY <1>20, <1>a, <1>b DEF AdminRevoked
  <2>2. adm' \in Administrations
    BY <1>20, <1>a, <1>b , <2>1 DEF Administrations
  <2>3. local' \in [barrier : BOOLEAN, revoked : BOOLEAN, ticket : Stages]
    BY <1>20, <1>a, <1>b DEF AdminRevoked
  <2>4. claim' \in [open : BOOLEAN, enrolled : BOOLEAN, fenced : BOOLEAN]
    BY <1>20, <1>a, <1>b DEF AdminRevoked
  <2> QED BY <1>20, <2>1, <2>2, <2>3, <2>4 DEF AdminRevoked
<1>21. CASE Deadline
  BY <1>21 DEF Deadline
<1>22. CASE ClaimUnconfirmed
  BY <1>22 DEF ClaimUnconfirmed, Disconnects
<1>23. CASE ClearAbandoned
  BY <1>23 DEF ClearAbandoned, Disconnects, NoFlight
<1>24. CASE Admit
  BY <1>24 DEF Admit
<1>25. CASE ProxyCloses
  <2>1. dis' = dis \/ \E c \in {"quiet", "unknown"} : dis' = [dis EXCEPT !.claim = c]
    BY <1>25, <1>a, <1>b DEF ProxyCloses
  <2>2. dis' \in Disconnects
    BY <1>25, <1>a, <1>b , <2>1 DEF Disconnects
  <2> QED BY <1>25, <2>1, <2>2 DEF ProxyCloses
<1>26. CASE Crash
  BY <1>26 DEF Crash, Memory, Barrier, NoFlight, NoAdm, Disconnects, Administrations, Verbs, Stages
<1>27. CASE Start
  BY <1>27 DEF Start, Memory, Barrier, NoFlight, NoAdm, Disconnects, Administrations, Verbs, Stages
<1>28. ASSUME NEW action \in Actions \intersect {"identity", "pair-request"}, AdminRead(action) PROVE FlightType'
  <2>1. action \in Verbs
    BY DEF Verbs
  <2>2. adm' \in Administrations
    BY <1>28, <1>a, <1>b , <2>1 DEF AdminRead
  <2> QED BY <1>28, <2>1, <2>2 DEF AdminRead
<1>29. ASSUME NEW action \in Actions \intersect {"prepare", "cancel"}, AdminAsk(action) PROVE FlightType'
  <2>1. action \in Verbs
    BY DEF Verbs, Vault
  <2>2. adm' \in Administrations
    BY <1>29, <1>a, <1>b , <2>1 DEF AdminAsk
  <2> QED BY <1>29, <2>1, <2>2 DEF AdminAsk
<1>30. ASSUME NEW action \in Actions \intersect {"import", "finalize", "resume", "cancel"}, AdminResume(action) PROVE FlightType'
  <2>1. action \in Verbs
    BY DEF Verbs, Vault
  <2>2. adm' \in Administrations
    BY <1>30, <1>a, <1>b , <2>1 DEF AdminResume
  <2>3. local' \in [barrier : BOOLEAN, revoked : BOOLEAN, ticket : Stages]
    BY <1>30, <1>a, <1>b DEF AdminResume
  <2> QED BY <1>30, <2>1, <2>2, <2>3 DEF AdminResume
<1>31. CASE \E o \in Owners : HelperActs(o) \/ HelperEnds(o)
  BY <1>31 DEF HelperActs, HelperEnds
<1> QED BY <1>1, <1>2, <1>3, <1>4, <1>5, <1>6, <1>7, <1>8, <1>9, <1>10, <1>11, <1>12, <1>13, <1>14, <1>15, <1>16, <1>17, <1>18, <1>19, <1>20, <1>21, <1>22, <1>23, <1>24, <1>25, <1>26, <1>27, <1>28, <1>29, <1>30, <1>31 DEF Next, Calls, Continue, Flights, Timers, Helper

Callers == {"status", "call", "admin", "disconnect"}

LEMMA OpDoneTyped ==
  ASSUME HelperType, NEW caller, Answered(caller), OpDone(caller)
  PROVE  op' \in Operations \union {None}
         /\ (op' # None => op' \in Operations /\ op'.callers = op.callers \ {caller}
                           /\ op'.verb = op.verb /\ op'.valid = op.valid /\ op'.fresh = op.fresh
                           /\ op'.effect = op.effect /\ op'.answer = op.answer)
<1>1. op \in Operations
  BY DEF HelperType, Answered
<1>2. CASE op.callers = {caller}
  BY <1>2 DEF OpDone
<1>3. CASE op.callers # {caller}
  <2>1. op' = [op EXCEPT !.callers = @ \ {caller}]
    BY <1>3 DEF OpDone
  <2>2. op.callers \ {caller} \in (SUBSET Callers) \ {{}}
    <3>1. op.callers \in (SUBSET Callers) \ {{}}
      BY <1>1 DEF Operations, Callers
    <3> QED BY <1>3, <3>1
  <2>3. op' \in Operations /\ op'.callers = op.callers \ {caller}
                           /\ op'.verb = op.verb /\ op'.valid = op.valid /\ op'.fresh = op.fresh
                           /\ op'.effect = op.effect /\ op'.answer = op.answer
    BY <1>1, <2>1, <2>2 DEF Operations, Callers
  <2> QED BY <2>3
<1> QED BY <1>2, <1>3

\* A status in flight is joined, or one is asked, or nothing is.
LEMMA AskStatusTyped ==
  ASSUME HelperType, NEW caller \in {"status", "admin"}, AskStatus(caller)
  PROVE  /\ HelperType'
         /\ \/ /\ op \in Operations /\ op.verb = "status" /\ ~Disconnecting
               /\ op' \in Operations /\ op'.callers = op.callers \union {caller}
               /\ op'.verb = op.verb /\ op'.valid = op.valid /\ op'.fresh = op.fresh
               /\ op'.effect = op.effect /\ op'.answer = op.answer
               /\ UNCHANGED <<slot, world>>
            \/ Busy /\ (op = None \/ op.verb # "status" \/ Disconnecting) /\ UNCHANGED <<op, slot, world>>
            \/ ~Busy /\ Launch("status", {caller})
<1>1. CASE op # None /\ op.verb = "status" /\ ~Disconnecting
  <2>1. op' = [op EXCEPT !.callers = @ \union {caller}] /\ UNCHANGED <<slot, world>>
    BY <1>1 DEF AskStatus
  <2>2. op \in Operations
    BY <1>1 DEF HelperType
  <2>3. op.callers \union {caller} \in (SUBSET Callers) \ {{}}
    BY <2>2 DEF Operations, Callers
  <2>4. op' \in Operations /\ op'.callers = op.callers \union {caller}
        /\ op'.verb = op.verb /\ op'.valid = op.valid /\ op'.fresh = op.fresh
        /\ op'.effect = op.effect /\ op'.answer = op.answer
    BY <2>1, <2>2, <2>3 DEF Operations, Callers
  <2> QED BY <1>1, <2>1, <2>2, <2>4 DEF HelperType, world
<1>2. CASE ~(op # None /\ op.verb = "status" /\ ~Disconnecting) /\ Busy
  <2>1. UNCHANGED <<op, slot, world>>
    BY <1>2 DEF AskStatus
  <2> QED BY <1>2, <2>1 DEF HelperType, world
<1>3. CASE ~(op # None /\ op.verb = "status" /\ ~Disconnecting) /\ ~Busy
  <2>1. Launch("status", {caller})
    BY <1>3 DEF AskStatus
  <2>2. "status" \in Verbs /\ {caller} \in (SUBSET {"status", "call", "admin", "disconnect"}) \ {{}}
    BY DEF Verbs
  <2> QED BY <1>3, <2>1, <2>2, LaunchTyped
<1> QED BY <1>1, <1>2, <1>3

\* The claim module's operation and slot, and the helpers.
LEMMA HelperTyped ==
  ASSUME TypeOK, Next
  PROVE  HelperType'
<1>0. HelperType
  BY DEF TypeOK
<1>a. Cancelled \in Helpers \union {None}
  BY <1>0 DEF Cancelled, HelperType, Helpers
<1>b. {"call"} \in (SUBSET {"status", "call", "admin", "disconnect"}) \ {{}}
      /\ {"admin"} \in (SUBSET {"status", "call", "admin", "disconnect"}) \ {{}}
      /\ {"disconnect"} \in (SUBSET {"status", "call", "admin", "disconnect"}) \ {{}}
  OBVIOUS
<1>c. op # None => [op EXCEPT !.fresh = FALSE, !.valid = FALSE] \in Operations
                                      /\ [op EXCEPT !.valid = FALSE] \in Operations
  BY <1>0 DEF HelperType, Operations
<1>d. \A v \in {"open", "decide", "poll", "disconnect", "status"} : v \in Verbs
  BY DEF Verbs, Vault
<1>1. CASE Status
  <2>1. CASE AskStatus("status")
    BY <1>0, <2>1, AskStatusTyped
  <2>2. CASE UNCHANGED <<op, slot, world>>
    BY <1>0, <2>2 DEF HelperType, world
  <2> QED BY <1>1, <2>1, <2>2 DEF Status
<1>2. CASE BeginOpen
  BY <1>0, <1>2, <1>b, <1>d, LaunchTyped DEF BeginOpen
<1>3. CASE BeginDecide
  BY <1>0, <1>3, <1>b, <1>d, LaunchTyped DEF BeginDecide
<1>4. CASE Poll
  BY <1>0, <1>4, <1>b, <1>d, LaunchTyped DEF Poll
<1>5. CASE Disconnect
  <2>1. (op' = None \/ op' \in Operations) /\ slot' = Cancelled
    BY <1>5, <1>c DEF Disconnect
  <2> QED BY <1>0, <1>5, <1>a, <2>1 DEF HelperType, Disconnect, world
<1>6. CASE Gathered
  <2>1. op' = op \/ op' = None \/ op' \in Operations
    BY <1>6, <1>c DEF Gathered
  <2>2. slot' = slot \/ slot' = Cancelled
    BY <1>6 DEF Gathered
  <2> QED BY <1>0, <1>6, <1>a, <2>1, <2>2 DEF HelperType, Gathered, world
<1>7. CASE ClearCredential
  BY <1>0, <1>7, <1>b, <1>d, LaunchTyped DEF ClearCredential
<1>8. ASSUME NEW action \in Actions \intersect {"identity", "pair-request"}, AdminRead(action) PROVE HelperType'
  <2>1. action \in Verbs
    BY DEF Verbs
  <2>2. CASE Launch(action, {"admin"})
    BY <1>0, <1>b, <2>1, <2>2, LaunchTyped
  <2>3. CASE UNCHANGED <<op, slot, world>>
    BY <1>0, <2>3 DEF HelperType, world
  <2> QED BY <1>8, <2>2, <2>3 DEF AdminRead
<1>9. ASSUME NEW action \in Actions \intersect {"prepare", "cancel"}, AdminAsk(action) PROVE HelperType'
  <2>1. AskStatus("admin")
    BY <1>9 DEF AdminAsk
  <2> QED BY <1>0, <2>1, AskStatusTyped
<1>10. CASE AdminRevoked
  <2>1. CASE Launch(adm.action, {"admin"})
    <3>1. adm.action \in Verbs
      BY DEF TypeOK, FlightType, Administrations
    <3> QED BY <1>0, <1>b, <2>1, <3>1, LaunchTyped
  <2>2. CASE UNCHANGED <<op, slot, world>>
    BY <1>0, <2>2 DEF HelperType, world
  <2> QED BY <1>10, <2>1, <2>2 DEF AdminRevoked
<1>11. CASE Deadline
  <2>1. op' = [op EXCEPT !.answer = "failed"] /\ op \in Operations /\ slot' = Cancelled
    BY <1>0, <1>11 DEF Deadline, HelperType
  <2>2. op' \in Operations
    BY <2>1 DEF Operations
  <2> QED BY <1>0, <1>11, <1>a, <2>1, <2>2 DEF HelperType, Deadline, world
<1>12. CASE Admit
  <2>1. slot \in Helpers /\ UNCHANGED <<op, receipts, credential>>
    BY <1>0, <1>12 DEF Admit, HelperType
  <2>2. \E stage \in {"running", "refused"} : slot' = [slot EXCEPT !.stage = stage]
    BY <1>12 DEF Admit
  <2>3. slot' \in Helpers
    BY <2>1, <2>2 DEF Helpers
  <2>4. slot.verb \in Verbs
    BY <2>1 DEF Helpers
  <2>5. job' = job \/ job' = [job EXCEPT ![slot.owner] = slot.verb]
    BY <1>12 DEF Admit
  <2>6. job' \in [Owners -> Verbs]
    BY <1>0, <2>4, <2>5 DEF HelperType
  <2> QED BY <1>0, <2>1, <2>3, <2>6 DEF HelperType
<1>13. CASE ProxyCloses
  <2>1. slot \in Helpers /\ UNCHANGED <<job, credential>>
    BY <1>0, <1>13 DEF ProxyCloses, HelperType
  <2>2. slot.owner \in Owners /\ slot.effect \in Verbs
    BY <2>1 DEF Helpers
  <2>3. receipts' = receipts \/ receipts' = receipts \union {slot.owner}
    BY <1>13 DEF ProxyCloses
  <2>4. slot' = None \/ slot' = [slot EXCEPT !.stage = "lost"]
    BY <1>13 DEF ProxyCloses
  <2>5. slot' \in Helpers \union {None}
    BY <2>1, <2>4 DEF Helpers
  <2>6. op' = None \/ (op # None /\ \E answer \in {"done", "failed"} : op' = [op EXCEPT !.answer = answer, !.effect = slot.effect])
    BY <1>13 DEF ProxyCloses
  <2>7. op' \in Operations \union {None}
    BY <1>0, <2>2, <2>6 DEF HelperType, Operations
  <2> QED BY <1>0, <2>1, <2>2, <2>3, <2>5, <2>7 DEF HelperType
<1>14. ASSUME NEW o \in Owners, HelperActs(o) PROVE HelperType'
  <2>1. job' \in [Owners -> Verbs]
    <3>1. "cleared" \in Verbs /\ "stored" \in Verbs
      BY DEF Verbs
    <3> QED BY <1>0, <1>14, <3>1 DEF HelperActs, HelperType
  <2> QED BY <1>0, <1>14, <2>1 DEF HelperActs, HelperType
<1>15. ASSUME NEW o \in Owners, HelperEnds(o) PROVE HelperType'
  <2>1. job' \in [Owners -> Verbs] /\ job[o] \in Verbs
    <3>1. "none" \in Verbs
      BY DEF Verbs
    <3> QED BY <1>0, <1>15, <3>1 DEF HelperEnds, HelperType
  <2>2. slot' = slot \/ (slot # None /\ slot' = [slot EXCEPT !.effect = job[o]])
    BY <1>15 DEF HelperEnds
  <2>3. slot' \in Helpers \union {None}
    BY <1>0, <2>1, <2>2 DEF HelperType, Helpers
  <2>4. UNCHANGED <<op, credential>> /\ receipts' \subseteq Owners
    BY <1>0, <1>15 DEF HelperEnds, HelperType
  <2> QED BY <1>0, <2>1, <2>3, <2>4 DEF HelperType
<1>16. CASE StatusAnswered
  BY <1>0, <1>16, OpDoneTyped DEF StatusAnswered, HelperType, world
<1>17. CASE BeginAnswered
  BY <1>0, <1>17, OpDoneTyped DEF BeginAnswered, HelperType, world
<1>18. CASE PollAnswered
  BY <1>0, <1>18, OpDoneTyped DEF PollAnswered, HelperType, world
<1>19. CASE DisconnectAnswered
  BY <1>0, <1>19, OpDoneTyped DEF DisconnectAnswered, HelperType, world
<1>20. CASE AdminStatusAnswered
  BY <1>0, <1>20, OpDoneTyped DEF AdminStatusAnswered, HelperType, world
<1>21. CASE AdminAnswered
  BY <1>0, <1>21, OpDoneTyped DEF AdminAnswered, HelperType, world
<1>22. CASE Crash \/ Start
  BY <1>0, <1>22 DEF Crash, Start, Memory, HelperType, world
<1>23. CASE UNCHANGED <<op, slot, world>>
  BY <1>0, <1>23 DEF HelperType, world
<1>24. CASE Cancel \/ ArmRelay \/ RelayArmed \/ RelayExits \/ RelayStops \/ GrantsRevoked \/ ClaimUnconfirmed \/ ClearAbandoned
  BY <1>23, <1>24 DEF Cancel, ArmRelay, RelayArmed, RelayExits, RelayStops, GrantsRevoked, ClaimUnconfirmed, ClearAbandoned
<1>25. ASSUME NEW action, AdminResume(action) PROVE HelperType'
  BY <1>23, <1>25 DEF AdminResume
<1> QED BY <1>1, <1>2, <1>3, <1>4, <1>5, <1>6, <1>7, <1>8, <1>9, <1>10, <1>11, <1>12, <1>13, <1>14, <1>15,
           <1>16, <1>17, <1>18, <1>19, <1>20, <1>21, <1>22, <1>24, <1>25
        DEF Next, Calls, Continue, Flights, Timers, Helper
-----------------------------------------------------------------------------
(* The helper trees.                                                       *)

\* Helpers run on as they were, and an owner that leaves has ended.
LEMMA RunningStay ==
  ASSUME Base, up, Moves, UNCHANGED <<up, job>>
  PROVE  /\ alive' = alive /\ HelperIsOnRecord'
         /\ fence'.owner \in {fence.owner, None} /\ DiskOwner' \in {DiskOwner, fence.owner, None}
<1>1. alive' = alive
  BY DEF alive
<1>2. HelperInv /\ disk \in Records \union {Absent, Damaged}
  BY DEF Base, TypeOK, StoreType
<1>3. fence'.owner \in {fence.owner, None} /\ DiskOwner' \in {DiskOwner, fence.owner, None}
  BY DEF Moves, OwnerMove, KeepsOwner, Forgets, DiskOwner, Store
<1>4. ASSUME NEW o \in alive PROVE disk' \notin {Absent, Damaged} /\ disk'.owner = o /\ (up' => fence'.owner = o)
  <2>1. disk \notin {Absent, Damaged} /\ disk.owner = o /\ (up => fence.owner = o)
    BY <1>2 DEF HelperInv, HelperIsOnRecord
  <2>2. fence.owner = o => KeepsOwner(Store, [fence |-> fence', disk |-> disk', ok |-> TRUE])
    BY DEF Moves, OwnerMove, Forgets, Store
  <2>3. fence.owner = o => fence'.owner = o /\ (disk' = disk \/ (disk' \in Records /\ disk'.owner = o))
    BY <2>2 DEF KeepsOwner, Store
  <2> QED BY <2>1, <2>3, ConstantsDistinct
<1> QED BY <1>1, <1>3, <1>4 DEF HelperIsOnRecord

\* The slot and the receipts stay, or the helper in it is closed.
LEMMA HelperStays ==
  ASSUME Base, up, Moves, UNCHANGED <<up, job, receipts>>, slot' \in {slot, Cancelled}
  PROVE  HelperInv'
<1>1. /\ alive' = alive /\ HelperIsOnRecord'
      /\ fence'.owner \in {fence.owner, None} /\ DiskOwner' \in {DiskOwner, fence.owner, None}
  BY RunningStay
<1>2. HelperInv /\ slot \in Helpers \union {None}
  BY DEF Base, TypeOK, HelperType
<1>3. ReceiptsAreFinal'
  BY <1>1, <1>2 DEF HelperInv, ReceiptsAreFinal
<1>4. slot' # None => slot # None /\ slot'.stage = slot.stage /\ slot'.owner = slot.owner /\ slot.owner \in Owners
  BY <1>2 DEF Cancelled, Helpers
<1>5. UnadmittedIsFresh'
  BY <1>1, <1>2, <1>4, ConstantsDistinct DEF HelperInv, UnadmittedIsFresh
<1> QED BY <1>1, <1>3, <1>5 DEF HelperInv

\* A helper is launched under an identity nothing names.
LEMMA HelperLaunched ==
  ASSUME Base, up, Moves, UNCHANGED up, NEW verb \in Verbs,
         NEW callers \in (SUBSET {"status", "call", "admin", "disconnect"}) \ {{}}, Launch(verb, callers)
  PROVE  HelperInv'
<1>0. HelperType /\ HelperInv /\ disk \in Records \union {Absent, Damaged}
  BY DEF Base, TypeOK, StoreType
<1>1. /\ job' = job /\ receipts' = receipts \intersect {fence.owner}
      /\ slot' \in Helpers /\ slot'.owner \in Owners \ Used /\ slot'.stage = "spawned"
  BY <1>0, LaunchTyped
<1>2. /\ alive' = alive /\ HelperIsOnRecord'
      /\ fence'.owner \in {fence.owner, None} /\ DiskOwner' \in {DiskOwner, fence.owner, None}
  BY <1>1, RunningStay
<1>3. ReceiptsAreFinal'
  BY <1>0, <1>1, <1>2 DEF HelperInv, ReceiptsAreFinal
<1>4. DiskOwner \in Used \union {None}
  BY <1>0, ConstantsDistinct DEF DiskOwner, Used
<1>5. slot'.owner \notin alive /\ slot'.owner # fence.owner /\ slot'.owner # DiskOwner /\ slot'.owner # None
  BY <1>1, <1>4, ConstantsDistinct DEF Used
<1>6. UnadmittedIsFresh'
  BY <1>1, <1>2, <1>5 DEF UnadmittedIsFresh
<1> QED BY <1>2, <1>3, <1>6 DEF HelperInv

LEMMA HelperAdmitted ==
  ASSUME Base, Admit
  PROVE  HelperInv'
<1>0. HelperType /\ HelperInv /\ slot \in Helpers /\ up /\ slot.stage = "spawned" /\ slot # None
      /\ receipts' = receipts /\ up' = up
  BY DEF Base, TypeOK, Admit, HelperType, Calm
<1>1. PICK t \in AdmitOwnership(Store, slot.owner) :
       /\ Keep(t)
       /\ slot' = [slot EXCEPT !.stage = IF t.ok THEN "running" ELSE "refused"]
       /\ job' = IF t.ok THEN [job EXCEPT ![slot.owner] = slot.verb] ELSE job
  BY DEF Admit
<1>2. /\ alive # {} => Moves
      /\ t.ok => /\ alive = {} /\ fence'.owner = slot.owner
                 /\ disk' \in Records /\ disk'.owner = slot.owner
  BY <1>0, <1>1, StoreAdmit
<1>3. slot.owner \in Owners /\ slot.owner \notin receipts /\ slot.owner \notin alive
  BY <1>0 DEF Helpers, HelperInv, UnadmittedIsFresh
<1>4. slot'.owner = slot.owner
  BY <1>0, <1>1 DEF Helpers
<1>5. CASE t.ok
  <2>1. alive' \subseteq {slot.owner}
    BY <1>0, <1>1, <1>2, <1>3, <1>5 DEF alive, HelperType
  <2>2. HelperIsOnRecord'
    BY <1>2, <1>5, <2>1, ConstantsDistinct DEF HelperIsOnRecord
  <2>3. ReceiptsAreFinal'
    BY <1>0, <1>3, <2>1 DEF ReceiptsAreFinal
  <2>4. slot'.stage = "running"
    BY <1>0, <1>1, <1>5 DEF Helpers
  <2> QED BY <2>2, <2>3, <2>4 DEF HelperInv, UnadmittedIsFresh
<1>6. CASE ~t.ok
  <2>1. job' = job /\ slot'.stage = "refused"
    BY <1>0, <1>1, <1>6 DEF Helpers
  <2>2. alive' = alive
    BY <2>1 DEF alive
  <2>3. HelperIsOnRecord'
    <3>1. CASE alive = {}
      BY <2>2, <3>1 DEF HelperIsOnRecord
    <3>2. CASE alive # {}
      BY <1>0, <1>2, <2>1, <3>2, RunningStay
    <3> QED BY <3>1, <3>2
  <2>4. ReceiptsAreFinal' /\ UnadmittedIsFresh'
    BY <1>0, <1>3, <1>4, <2>1, <2>2 DEF HelperInv, ReceiptsAreFinal, UnadmittedIsFresh
  <2> QED BY <2>3, <2>4 DEF HelperInv
<1> QED BY <1>5, <1>6

LEMMA HelperProxyCloses ==
  ASSUME Base, ProxyCloses
  PROVE  HelperInv'
<1>0. HelperType /\ HelperInv /\ slot \in Helpers /\ up /\ slot # None /\ job' = job /\ up' = up
  BY DEF Base, TypeOK, ProxyCloses, HelperType, Calm
<1>1. alive' = alive /\ HelperIsOnRecord'
  BY <1>0, StoreProxyCloses, RunningStay
<1>2. receipts' = receipts \/ (receipts' = receipts \union {slot.owner} /\ (slot.stage = "refused" \/ slot.owner \in receipts))
  BY DEF ProxyCloses
<1>3. ReceiptsAreFinal'
  BY <1>0, <1>1, <1>2 DEF HelperInv, ReceiptsAreFinal, UnadmittedIsFresh
<1>4. slot' = None \/ slot'.stage = "lost"
  BY <1>0 DEF ProxyCloses, Helpers
<1> QED BY <1>1, <1>3, <1>4 DEF HelperInv, UnadmittedIsFresh

LEMMA HelperEnded ==
  ASSUME Base, NEW o \in Owners, HelperActs(o) \/ HelperEnds(o)
  PROVE  HelperInv'
<1>0. HelperType /\ HelperInv /\ slot \in Helpers \union {None} /\ o \in alive
      /\ up' = up /\ fence' = fence /\ disk' = disk /\ receipts' \subseteq receipts \union {o}
  BY DEF Base, TypeOK, HelperType, HelperActs, HelperEnds, store
<1>1. alive' \subseteq alive /\ (receipts' = receipts \/ o \notin alive')
  BY <1>0 DEF HelperActs, HelperEnds, alive, HelperType
<1>2. HelperIsOnRecord'
  BY <1>0, <1>1 DEF HelperInv, HelperIsOnRecord
<1>3. ReceiptsAreFinal'
  BY <1>0, <1>1 DEF HelperInv, ReceiptsAreFinal
<1>4. slot' # None => slot # None /\ slot'.stage = slot.stage /\ slot'.owner = slot.owner
  BY <1>0 DEF HelperActs, HelperEnds, Helpers
<1>5. UnadmittedIsFresh'
  BY <1>0, <1>1, <1>4 DEF HelperInv, UnadmittedIsFresh, DiskOwner
<1> QED BY <1>2, <1>3, <1>5 DEF HelperInv

LEMMA HelperRestart ==
  ASSUME Base, Crash \/ Start
  PROVE  HelperInv'
<1>0. HelperInv /\ slot' = None /\ disk' = disk /\ job' = job /\ receipts' = receipts
      /\ (up' => fence' = ReadRecord(disk))
  BY DEF Base, Crash, Start, Memory, world
<1>1. alive' = alive
  BY <1>0 DEF alive
<1>2. disk \notin {Absent, Damaged} => ReadRecord(disk).owner = disk.owner
  BY ReadIsSound DEF Base, Sound, SoundPair
<1> QED BY <1>0, <1>1, <1>2 DEF HelperInv, HelperIsOnRecord, ReceiptsAreFinal, UnadmittedIsFresh

\* The rest of the steps leave the store alone.
Plain == \/ BeginOpen \/ BeginDecide \/ Poll \/ Cancel \/ ArmRelay \/ BeginAnswered
         \/ RelayArmed \/ RelayExits \/ RelayStops \/ GrantsRevoked \/ ClearCredential \/ AdminRevoked
         \/ Deadline \/ ClaimUnconfirmed

LEMMA PlainStore ==
  ASSUME Plain \/ \E action : AdminAsk(action)
  PROVE  UNCHANGED <<store, up>> /\ up
BY DEF Plain, store, BeginOpen, BeginDecide, Poll, Cancel, ArmRelay, BeginAnswered, RelayArmed, RelayExits,
       RelayStops, GrantsRevoked, ClearCredential, AdminRevoked, Deadline, ClaimUnconfirmed, AdminAsk,
       Calm, Admitting, Administering, Answered

LEMMA DisconnectShuts ==
  ASSUME Base, DisconnectAnswered
  PROVE  Sound' /\ Moves /\ Shuts
<1> DEFINE cleared == Told /\ op.effect = "cleared" /\ slot = None
<1>1. cleared \in BOOLEAN
  OBVIOUS
<1>2. \E t \in RecordBlocked(Store) : \E u \in IF cleared THEN CompleteCleanup(t) ELSE Refused(t) : Keep(u)
  BY DEF DisconnectAnswered
<1> HIDE DEF cleared
<1> QED BY <1>1, <1>2, StoreDisconnectAnswered

LEMMA AdmitShuts ==
  ASSUME Base, Admit
  PROVE  Sound' /\ Shuts
<1>1. PICK t \in AdmitOwnership(Store, slot.owner) : Keep(t)
  BY DEF Admit
<1> QED BY <1>1, StoreAdmit DEF Admit, Calm

LEMMA BaseStep ==
  ASSUME Base, Next
  PROVE  Sound' /\ HelperInv'
<1>0. Sound /\ ReceiptsAreFinal /\ receipts \subseteq Owners /\ TypeOK /\ HelperType
  BY BaseFacts DEF TypeOK
<1>a. \A verb : \A callers : Launch(verb, callers) => UNCHANGED job
  BY DEF Launch
<1>b. {"call"} \in (SUBSET {"status", "call", "admin", "disconnect"}) \ {{}}
      /\ {"admin"} \in (SUBSET {"status", "call", "admin", "disconnect"}) \ {{}}
      /\ {"disconnect"} \in (SUBSET {"status", "call", "admin", "disconnect"}) \ {{}}
  OBVIOUS
<1>d. \A v \in {"open", "decide", "poll", "disconnect", "status"} : v \in Verbs
  BY DEF Verbs, Vault
<1>e. ASSUME Moves, up, up' = up, UNCHANGED <<op, slot, world>> PROVE HelperInv'
  BY <1>e, HelperStays DEF world
<1>1. CASE Plain
  <2>1. up /\ up' = up /\ Sound' /\ Moves
    BY <1>0, <1>1, PlainStore, StoreUnchanged
  <2>2. CASE BeginOpen \/ BeginDecide \/ Poll \/ ClearCredential
    <3>1. \E verb \in Verbs, callers \in {{"call"}, {"disconnect"}} : Launch(verb, callers)
      BY <1>d, <2>2 DEF BeginOpen, BeginDecide, Poll, ClearCredential
    <3> QED BY <1>b, <2>1, <3>1, HelperLaunched
  <2>3. CASE AdminRevoked
    <3>1. CASE Launch(adm.action, {"admin"})
      <4>1. adm.action \in Verbs
        BY <1>0 DEF TypeOK, FlightType, Administrations
      <4> QED BY <1>b, <2>1, <3>1, <4>1, HelperLaunched
    <3>2. CASE UNCHANGED <<op, slot, world>>
      BY <1>e, <2>1, <3>2
    <3> QED BY <2>1, <2>3, <3>1, <3>2 DEF AdminRevoked
  <2>4. CASE \/ Cancel \/ ArmRelay \/ BeginAnswered \/ RelayArmed \/ RelayExits \/ RelayStops \/ GrantsRevoked
             \/ Deadline \/ ClaimUnconfirmed
    <3>1. UNCHANGED world /\ slot' \in {slot, Cancelled}
      BY <2>4 DEF Cancel, ArmRelay, BeginAnswered, RelayArmed, RelayExits, RelayStops, GrantsRevoked, Deadline,
                  ClaimUnconfirmed
    <3> QED BY <2>1, <3>1, HelperStays DEF world
  <2> QED BY <1>1, <2>1, <2>2, <2>3, <2>4 DEF Plain
<1>2. CASE Status
  <2>1. up /\ up' = up
    BY <1>2 DEF Status, Calm
  <2>2. PICK t \in Reconciled(Store) : Keep(t) /\ IF t.ok THEN AskStatus("status") ELSE UNCHANGED <<op, slot, world>>
    BY <1>2 DEF Status
  <2>3. Sound' /\ Moves
    BY <1>0, <2>2, StoreStatus
  <2>4. CASE UNCHANGED <<slot, world>>
    BY <2>1, <2>3, <2>4, HelperStays DEF world
  <2>5. CASE Launch("status", {"status"})
    BY <1>d, <2>1, <2>3, <2>5, HelperLaunched
  <2>6. UNCHANGED <<slot, world>> \/ Launch("status", {"status"})
    BY <1>0, <2>2, AskStatusTyped
  <2> QED BY <2>3, <2>4, <2>5, <2>6
<1>3. ASSUME NEW action \in Actions \intersect {"prepare", "cancel"}, AdminAsk(action) PROVE Sound' /\ HelperInv'
  <2>1. up /\ up' = up /\ Sound' /\ Moves
    BY <1>0, <1>3, PlainStore, StoreUnchanged
  <2>2. CASE UNCHANGED <<slot, world>>
    BY <2>1, <2>2, HelperStays DEF world
  <2>3. CASE Launch("status", {"admin"})
    BY <1>b, <1>d, <2>1, <2>3, HelperLaunched
  <2>4. AskStatus("admin")
    BY <1>3 DEF AdminAsk
  <2>5. UNCHANGED <<slot, world>> \/ Launch("status", {"admin"})
    BY <1>0, <2>4, AskStatusTyped
  <2> QED BY <2>1, <2>2, <2>3, <2>5
<1>4. ASSUME NEW action \in Actions \intersect {"identity", "pair-request"}, AdminRead(action) PROVE Sound' /\ HelperInv'
  <2>1. up /\ up' = up /\ Sound' /\ Moves
    BY <1>4, StoreAdminRead DEF AdminRead, Administering, Calm
  <2>2. CASE UNCHANGED <<op, slot, world>>
    BY <1>e, <2>1, <2>2
  <2>3. CASE Launch(action, {"admin"})
    <3>1. action \in Verbs
      BY DEF Verbs
    <3> QED BY <1>b, <2>1, <2>3, <3>1, HelperLaunched
  <2> QED BY <1>4, <2>1, <2>2, <2>3 DEF AdminRead
<1>5. ASSUME NEW action, AdminResume(action) PROVE Sound' /\ HelperInv'
  <2>1. up /\ up' = up /\ Sound' /\ Moves /\ UNCHANGED <<op, slot, world>>
    BY <1>5, StoreAdminResume DEF AdminResume, Administering, Calm
  <2> QED BY <1>e, <2>1
<1>6. CASE StatusAnswered \/ PollAnswered \/ DisconnectAnswered \/ AdminStatusAnswered \/ AdminAnswered
  <2>1. up /\ up' = up /\ UNCHANGED <<slot, world>>
    BY <1>6 DEF StatusAnswered, PollAnswered, DisconnectAnswered, AdminStatusAnswered, AdminAnswered, Answered
  <2>2. Sound' /\ Moves
    BY <1>6, StoreStatusAnswered, StorePollAnswered, DisconnectShuts, StoreAdminStatusAnswered,
       StoreAdminAnswered
  <2> QED BY <2>1, <2>2, HelperStays DEF world
<1>7. CASE Disconnect \/ Gathered \/ ClearAbandoned
  <2>1. up /\ up' = up /\ UNCHANGED world /\ slot' \in {slot, Cancelled}
    BY <1>7 DEF Disconnect, Gathered, ClearAbandoned, Calm
  <2>2. Sound' /\ Moves
    BY <1>7, StoreDisconnect, StoreGathered, StoreClearAbandoned
  <2> QED BY <2>1, <2>2, HelperStays DEF world
<1>8. CASE Admit
  BY <1>8, AdmitShuts, HelperAdmitted
<1>9. CASE ProxyCloses
  BY <1>9, StoreProxyCloses, HelperProxyCloses
<1>10. ASSUME NEW o \in Owners, HelperActs(o) \/ HelperEnds(o) PROVE Sound' /\ HelperInv'
  <2>1. UNCHANGED store
    BY <1>10 DEF HelperActs, HelperEnds
  <2> QED BY <1>0, <1>10, <2>1, HelperEnded, StoreUnchanged
<1>11. CASE Crash \/ Start
  BY <1>0, <1>11, HelperRestart, StoreCrash, StoreStart
<1> QED BY <1>1, <1>2, <1>3, <1>4, <1>5, <1>6, <1>7, <1>8, <1>9, <1>10, <1>11
        DEF Next, Calls, Continue, Flights, Timers, Helper, Plain

\* Every other step opens nothing and reserves nothing.
LEMMA ShutStep ==
  ASSUME Base, Next, ~PollAnswered, ~AdminStatusAnswered, ~AdminAnswered, ~Crash, ~Start
  PROVE  Shuts
<1>0. Sound /\ ReceiptsAreFinal /\ receipts \subseteq Owners
  BY BaseFacts
<1>1. CASE Plain
  BY <1>0, <1>1, PlainStore, StoreUnchanged
<1>2. CASE Status
  <2>1. PICK t \in Reconciled(Store) : Keep(t)
    BY <1>2 DEF Status
  <2> QED BY <1>0, <2>1, StoreStatus
<1>3. ASSUME NEW action, AdminAsk(action) \/ AdminRead(action) \/ AdminResume(action) PROVE Shuts
  BY <1>0, <1>3, PlainStore, StoreUnchanged, StoreAdminRead, StoreAdminResume
<1>4. CASE DisconnectAnswered
  BY <1>4, DisconnectShuts
<1>5. CASE Admit
  BY <1>5, AdmitShuts
<1>6. CASE StatusAnswered \/ Disconnect \/ Gathered \/ ClearAbandoned \/ ProxyCloses
  BY <1>6, StoreStatusAnswered, StoreDisconnect, StoreGathered, StoreClearAbandoned, StoreProxyCloses
<1>7. ASSUME NEW o \in Owners, HelperActs(o) \/ HelperEnds(o) PROVE Shuts
  <2>1. UNCHANGED store
    BY <1>7 DEF HelperActs, HelperEnds
  <2> QED BY <1>0, <2>1, StoreUnchanged
<1> QED BY <1>1, <1>2, <1>3, <1>4, <1>5, <1>6, <1>7 DEF Next, Calls, Continue, Flights, Timers, Helper, Plain

LEMMA InitBase ==
  ASSUME Init
  PROVE  Base
<1>1. Closed \in FenceMemory /\ Closed.blocked /\ ~Closed.recorded /\ Closed.owner = None /\ Closed.pending = FALSE
  BY DEF Closed, FenceMemory
<1>2. ASSUME NEW a \in {None, Operation}
      PROVE  /\ Record([Closed EXCEPT !.admin = a], "blocked") \in Records
             /\ ~Unreadable(Record([Closed EXCEPT !.admin = a], "blocked"))
  <2> DEFINE f == [Closed EXCEPT !.admin = a]
  <2>1. f \in FenceMemory
    BY <1>1 DEF FenceMemory
  <2> HIDE DEF f
  <2>2. Record(f, "blocked") \in Records /\ ~Unreadable(Record(f, "blocked"))
    BY <2>1, RecordIsRead
  <2> QED BY <2>2 DEF f
<1>3. Record(Closed, "active") \in Records /\ ~Unreadable(Record(Closed, "active"))
  <2>1. Closed.admin = None /\ ~Closed.pending
    BY DEF Closed
  <2> HIDE DEF Closed
  <2> QED BY <1>1, <2>1, RecordIsRead
<1>4. disk \in Records \union {Absent, Damaged} /\ (disk \in Records => ~Unreadable(disk))
  BY <1>2, <1>3, ConstantsDistinct DEF Init
<1>5. Sound
  <2>1. fence \in FenceMemory /\ fence.blocked /\ ~fence.recorded
    BY <1>1 DEF Init
  <2> QED BY <1>4, <2>1 DEF Sound, SoundPair
<1>6. alive = {} /\ receipts = {} /\ slot = None
  BY DEF Init, alive
<1>7. HelperInv
  BY <1>6 DEF HelperInv, HelperIsOnRecord, ReceiptsAreFinal, UnadmittedIsFresh
<1>8. NoFlight \in Disconnects /\ NoAdm \in Administrations /\ "none" \in Verbs /\ "none" \in Stages
  BY DEF NoFlight, NoAdm, Disconnects, Administrations, Verbs, Stages
<1>9. FlightType
  BY <1>8 DEF Init, FlightType
<1>10. HelperType
  BY <1>8 DEF Init, HelperType
<1> QED BY <1>5, <1>7, <1>9, <1>10 DEF Base, TypeOK, StoreType, Sound, SoundPair

LEMMA StepBase ==
  ASSUME Base, [Next]_vars
  PROVE  Base'
<1>1. CASE Next
  <2>1. Sound' /\ HelperInv'
    BY <1>1, BaseStep
  <2>2. FlightType' /\ HelperType'
    BY <1>1, BaseFacts, FlightTyped, HelperTyped
  <2> QED BY <2>1, <2>2 DEF Base, TypeOK, StoreType, Sound, SoundPair
<1>2. CASE UNCHANGED vars
  <2>1. alive' = alive /\ DiskOwner' = DiskOwner
    BY <1>2 DEF vars, world, store, alive, DiskOwner
  <2>2. HelperInv'
    BY <1>2, <2>1 DEF vars, world, store, Base, HelperInv, HelperIsOnRecord, ReceiptsAreFinal, UnadmittedIsFresh
  <2>3. Sound'
    BY <1>2 DEF vars, store, Base, Sound
  <2>4. TypeOK'
    BY <1>2 DEF vars, world, store, observer, Base, TypeOK, StoreType, FlightType, HelperType
  <2> QED BY <2>2, <2>3, <2>4 DEF Base
<1> QED BY <1>1, <1>2

\* Types, the pair of memory and record that every method of the fence keeps,
\* and the helpers' place on the record, in every reachable state.
THEOREM BaseCorrect == Spec => []Base
<1>1. Init => Base
  BY InitBase
<1>2. Base /\ [Next]_vars => Base'
  BY StepBase
<1> QED BY <1>1, <1>2, PTL DEF Spec

\* Type correctness of memory, record, flights and helpers.
THEOREM TypeCorrect == Spec => []TypeOK
<1>1. Base => TypeOK
  BY DEF Base
<1> QED BY <1>1, BaseCorrect, PTL

\* A helper tree runs only under the identity on the record: a restart finds
\* it, and no other helper is admitted beside it.
THEOREM HelperOnRecord == Spec => []HelperIsOnRecord
<1>1. Base => HelperIsOnRecord
  BY DEF Base, HelperInv
<1> QED BY <1>1, BaseCorrect, PTL

\* What restartSafety reports as recorded, a restart finds: the same owner and
\* operation, and nothing open or settled that is closed or pending here.
THEOREM RecordedCorrect == Spec => []RecordedIsOnDisk
<1>1. Base => RecordedIsOnDisk
  BY DEF Base, Sound, SoundPair, RecordedIsOnDisk
<1> QED BY <1>1, BaseCorrect, PTL
-----------------------------------------------------------------------------
(* The owner's last word.                                                  *)
OpAs == (op' = None <=> op = None) /\ (op # None => op'.verb = op.verb /\ op'.callers = op.callers)
AdmAs == adm' = adm \/ (adm'.stage # "status" /\ adm'.action \in {adm.action, "none"})

LEMMA CallerKept ==
  ASSUME OneCaller, OpAs, AdmAs
  PROVE  OneCaller'
BY DEF OneCaller, OpAs, AdmAs

\* One of several who wait is answered.
LEMMA CallerAnswered ==
  ASSUME HelperType, OneCaller, NEW caller, Answered(caller), OpDone(caller), AdmAs,
         caller # "admin" \/ adm'.stage # "status", caller # "call" \/ op.callers = {"call"}
  PROVE  OneCaller'
<1>1. op # None /\ caller \in op.callers
  BY DEF Answered
<1>2. op' # None => op'.callers = op.callers \ {caller} /\ op'.verb = op.verb
  BY OpDoneTyped
<1>3. op' = None => op.callers = {caller}
  <2>1. CASE op.callers # {caller}
    <3>1. op' \in Operations
      <4>1. op' = [op EXCEPT !.callers = @ \ {caller}] /\ op \in Operations
        BY <1>1, <2>1 DEF OpDone, HelperType
      <4>2. op.callers \ {caller} \in (SUBSET Callers) \ {{}}
        <5>1. op.callers \in (SUBSET Callers) \ {{}}
          BY <4>1 DEF Operations, Callers
        <5> QED BY <1>1, <2>1, <5>1
      <4> QED BY <4>1, <4>2 DEF Operations, Callers
    <3> QED BY <3>1, NoneIsNothing
  <2> QED BY <2>1
<1>4. op'.verb \in {"open", "decide", "poll"} /\ op' # None => op.callers = {"call"} /\ op'.callers # {"call"}
  BY <1>1, <1>2 DEF OneCaller
<1>5. op' # None => op'.callers # {}
  BY OpDoneTyped DEF Operations
<1>6. adm'.stage = "status" => op' # None /\ op'.verb = "status" /\ "admin" \in op'.callers
  BY <1>1, <1>2, <1>3 DEF OneCaller, AdmAs
<1>7. op' # None /\ "call" \in op'.callers => FALSE
  BY <1>1, <1>2 DEF OneCaller
<1>8. op' # None /\ op'.verb \in {"open", "decide", "poll"} => FALSE
  BY <1>1, <1>2, <1>5, <1>4 DEF OneCaller
<1>9. adm'.action \notin {"open", "decide", "poll", "cleared"}
  BY DEF OneCaller, AdmAs
<1> QED BY <1>6, <1>7, <1>8, <1>9 DEF OneCaller

LEMMA CallerLaunched ==
  ASSUME HelperType, op = None, OneCaller, NEW verb \in Verbs,
         NEW callers \in (SUBSET {"status", "call", "admin", "disconnect"}) \ {{}}, Launch(verb, callers),
         verb \in {"open", "decide", "poll"} => callers = {"call"},
         "call" \in callers => callers = {"call"} /\ verb \in {"open", "decide", "poll"},
         adm'.stage = "status" /\ adm' # adm => verb = "status" /\ "admin" \in callers,
         adm'.action \notin {"open", "decide", "poll", "cleared"}
  PROVE  OneCaller'
<1>1. op' # None /\ op'.verb = verb /\ op'.callers = callers
  BY LaunchTyped, NoneIsNothing
<1>2. adm'.stage = "status" => adm' # adm
  BY DEF OneCaller
<1> QED BY <1>1, <1>2 DEF OneCaller

LEMMA CallerStep ==
  ASSUME TypeOK, OneCaller, Next
  PROVE  OneCaller'
<1>0. HelperType /\ adm \in Administrations
  BY DEF TypeOK, FlightType
<1>b. {"call"} \in (SUBSET {"status", "call", "admin", "disconnect"}) \ {{}}
      /\ {"admin"} \in (SUBSET {"status", "call", "admin", "disconnect"}) \ {{}}
      /\ {"disconnect"} \in (SUBSET {"status", "call", "admin", "disconnect"}) \ {{}}
      /\ {"status"} \in (SUBSET {"status", "call", "admin", "disconnect"}) \ {{}}
  OBVIOUS
<1>d. \A v \in {"open", "decide", "poll", "disconnect", "status", "identity", "pair-request"} : v \in Verbs
  BY DEF Verbs, Vault
<1>e. ASSUME op' = op, adm' = adm PROVE OneCaller'
  BY <1>e, CallerKept DEF OpAs, AdmAs
<1>f. adm.action \notin {"open", "decide", "poll", "cleared"}
  BY DEF OneCaller
<1>1. CASE BeginOpen \/ BeginDecide \/ Poll
  <2>1. op = None /\ adm' = adm /\ \E verb \in {"open", "decide", "poll"} : Launch(verb, {"call"})
    BY <1>1 DEF BeginOpen, BeginDecide, Poll, Busy
  <2> QED BY <1>0, <1>b, <1>d, <1>f, <2>1, CallerLaunched
<1>2. CASE ClearCredential
  <2>1. op = None /\ adm' = adm /\ Launch("disconnect", {"disconnect"})
    BY <1>2 DEF ClearCredential
  <2> QED BY <1>0, <1>b, <1>d, <1>f, <2>1, CallerLaunched
<1>3. CASE AdminRevoked
  <2>1. CASE UNCHANGED <<op, slot, world>> /\ adm' = NoAdm
    BY <2>1, CallerKept DEF OpAs, AdmAs, NoAdm
  <2>2. CASE op = None /\ Launch(adm.action, {"admin"}) /\ adm' = [adm EXCEPT !.stage = "working"]
    <3>1. adm.action \in Verbs /\ adm'.stage = "working" /\ adm'.action = adm.action
      BY <1>0, <2>2 DEF Administrations
    <3> QED BY <1>0, <1>b, <1>f, <2>2, <3>1, CallerLaunched
  <2>3. op = None \/ Busy
    BY DEF Busy
  <2> QED BY <1>3, <2>1, <2>2, <2>3 DEF AdminRevoked
<1>4. ASSUME NEW action \in Actions \intersect {"identity", "pair-request"}, AdminRead(action) PROVE OneCaller'
  <2>1. CASE UNCHANGED <<op, slot, world, adm>>
    BY <1>e, <2>1
  <2>2. CASE Launch(action, {"admin"}) /\ Stage("working", action)
    <3>1. op = None /\ adm'.stage = "working" /\ adm'.action = action
      BY <1>4, <2>2 DEF AdminRead, Busy, Stage
    <3> QED BY <1>0, <1>b, <1>d, <2>2, <3>1, CallerLaunched
  <2> QED BY <1>4, <2>1, <2>2 DEF AdminRead
<1>5. CASE Status
  <2>1. adm' = adm
    BY <1>5 DEF Status
  <2>2. CASE AskStatus("status")
    <3>1. CASE op \in Operations /\ op.verb = "status" /\ op' \in Operations /\ op'.callers = op.callers \union {"status"} /\ op'.verb = op.verb
      BY <2>1, <3>1, NoneIsNothing DEF OneCaller
    <3>2. CASE op = None /\ Launch("status", {"status"})
      BY <1>0, <1>b, <1>d, <1>f, <2>1, <3>2, CallerLaunched
    <3>3. CASE op' = op
      BY <1>e, <2>1, <3>3
    <3> QED BY <1>0, <2>2, <3>1, <3>2, <3>3, AskStatusTyped DEF Busy
  <2> QED BY <1>5, <1>e, <2>1, <2>2 DEF Status
<1>6. ASSUME NEW action \in Actions \intersect {"prepare", "cancel"}, AdminAsk(action) PROVE OneCaller'
  <2>1. AskStatus("admin") /\ adm'.stage = "status" /\ adm'.action = action /\ ~Disconnecting
    BY <1>6 DEF AdminAsk, Stage, Administering, Flying, Disconnecting
  <2>2. ~(Busy /\ (op = None \/ op.verb # "status" \/ Disconnecting))
    BY <1>6, <2>1 DEF AdminAsk
  <2>3. CASE op \in Operations /\ op.verb = "status" /\ op' \in Operations /\ op'.callers = op.callers \union {"admin"} /\ op'.verb = op.verb
    BY <2>1, <2>3, NoneIsNothing DEF OneCaller
  <2>4. CASE op = None /\ Launch("status", {"admin"})
    BY <1>0, <1>b, <1>d, <2>1, <2>4, CallerLaunched
  <2> QED BY <1>0, <2>1, <2>2, <2>3, <2>4, AskStatusTyped DEF Busy
<1>7. ASSUME NEW action \in Actions \intersect {"import", "finalize", "resume", "cancel"}, AdminResume(action) PROVE OneCaller'
  <2>1. op' = op
    BY <1>7 DEF AdminResume
  <2>2. adm' = adm \/ (adm'.stage = "revoking" /\ adm'.action = action)
    BY <1>7 DEF AdminResume, Stage
  <2> QED BY <2>1, <2>2 DEF OneCaller
<1>8. CASE StatusAnswered
  BY <1>0, <1>8, CallerAnswered DEF StatusAnswered, AdmAs
<1>9. CASE BeginAnswered \/ PollAnswered
  <2>1. Answered("call") /\ OpDone("call") /\ adm' = adm
    BY <1>9 DEF BeginAnswered, PollAnswered
  <2>2. op.callers = {"call"}
    BY <2>1 DEF OneCaller, Answered
  <2> QED BY <1>0, <2>1, <2>2, CallerAnswered DEF AdmAs
<1>10. CASE DisconnectAnswered
  BY <1>0, <1>10, CallerAnswered DEF DisconnectAnswered, AdmAs
<1>11. CASE AdminStatusAnswered
  <2>1. Answered("admin") /\ OpDone("admin") /\ (adm' = NoAdm \/ adm' = [adm EXCEPT !.stage = "revoking"])
    BY <1>11 DEF AdminStatusAnswered
  <2>2. adm'.stage # "status" /\ adm'.action \in {adm.action, "none"}
    BY <1>0, <2>1 DEF NoAdm, Administrations
  <2> QED BY <1>0, <2>1, <2>2, CallerAnswered DEF AdmAs
<1>12. CASE AdminAnswered
  <2>1. Answered("admin") /\ OpDone("admin") /\ (adm' = NoAdm \/ adm' = [adm EXCEPT !.stage = "arming"])
    BY <1>12 DEF AdminAnswered
  <2>2. adm'.stage # "status" /\ adm'.action \in {adm.action, "none"}
    BY <1>0, <2>1 DEF NoAdm, Administrations
  <2> QED BY <1>0, <2>1, <2>2, CallerAnswered DEF AdmAs
<1>13. CASE Deadline \/ ProxyCloses \/ Gathered
  <2>1. adm' = adm
    BY <1>13 DEF Deadline, ProxyCloses, Gathered
  <2>2. \/ op' = op
        \/ op # None /\ op' = [op EXCEPT !.answer = "failed"]
        \/ op # None /\ op' = [op EXCEPT !.valid = FALSE]
        \/ op # None /\ \E answer \in {"done", "failed"} : op' = [op EXCEPT !.answer = answer, !.effect = slot.effect]
    BY <1>13 DEF Deadline, ProxyCloses, Gathered
  <2>3. op # None => op \in Operations
    BY <1>0 DEF HelperType
  <2>4. OpAs
    <3>1. CASE op' = op
      BY <3>1 DEF OpAs
    <3>2. CASE op # None /\ op' # op
      <4>1. op'.verb = op.verb /\ op'.callers = op.callers
        BY <2>2, <2>3, <3>2 DEF Operations
      <4>2. op' # None
        <5>1. \/ op' = [op EXCEPT !.answer = "failed"]
              \/ op' = [op EXCEPT !.valid = FALSE]
              \/ \E answer \in {"done", "failed"} : op' = [op EXCEPT !.answer = answer, !.effect = slot.effect]
          BY <2>2, <3>2
        <5>2. \A a \in {"done", "failed"} : slot # None => [op EXCEPT !.answer = a, !.effect = slot.effect] \in Operations
          <6>1. slot # None => slot.effect \in Verbs
            BY <1>0 DEF HelperType, Helpers
          <6> QED BY <2>3, <3>2, <6>1 DEF Operations
        <5>3. [op EXCEPT !.answer = "failed"] \in Operations /\ [op EXCEPT !.valid = FALSE] \in Operations
          BY <2>3, <3>2 DEF Operations
        <5>4. slot # None \/ op' = [op EXCEPT !.answer = "failed"] \/ op' = [op EXCEPT !.valid = FALSE]
          BY <1>13, <3>2 DEF Deadline, ProxyCloses, Gathered
        <5> QED BY <5>1, <5>2, <5>3, <5>4, NoneIsNothing
      <4> QED BY <3>2, <4>1, <4>2 DEF OpAs
    <3> QED BY <2>2, <3>1, <3>2
  <2> QED BY <2>1, <2>4, CallerKept DEF AdmAs
<1>14. CASE Disconnect
  <2>1. adm' = [adm EXCEPT !.fresh = FALSE] /\ op' = IF op = None THEN None ELSE [op EXCEPT !.fresh = FALSE, !.valid = FALSE]
    BY <1>14 DEF Disconnect
  <2>2. adm'.stage = adm.stage /\ adm'.action = adm.action
    BY <1>0, <2>1 DEF Administrations
  <2>3. op # None => op \in Operations /\ op' = [op EXCEPT !.fresh = FALSE, !.valid = FALSE]
    BY <1>0, <2>1 DEF HelperType
  <2>4. op # None => op'.verb = op.verb /\ op'.callers = op.callers /\ op' \in Operations
    BY <2>3 DEF Operations
  <2> QED BY <2>1, <2>2, <2>4, NoneIsNothing DEF OneCaller
<1>15. CASE Crash \/ Start
  BY <1>15 DEF Crash, Start, Memory, NoAdm, OneCaller
<1>16. CASE RelayArmed
  <2>1. op' = op /\ (adm' = adm \/ adm' = NoAdm)
    BY <1>16 DEF RelayArmed
  <2> QED BY <2>1, CallerKept DEF OpAs, AdmAs, NoAdm
<1>17. CASE \/ Cancel \/ ArmRelay \/ RelayExits \/ RelayStops \/ GrantsRevoked \/ ClaimUnconfirmed \/ ClearAbandoned \/ Admit
            \/ \E o \in Owners : HelperActs(o) \/ HelperEnds(o)
  <2>1. op' = op /\ adm' = adm
    BY <1>17 DEF Cancel, ArmRelay, RelayExits, RelayStops, GrantsRevoked, ClaimUnconfirmed, ClearAbandoned, Admit,
                 HelperActs, HelperEnds
  <2> QED BY <1>e, <2>1
<1> QED BY <1>1, <1>2, <1>3, <1>4, <1>5, <1>6, <1>7, <1>8, <1>9, <1>10, <1>11, <1>12, <1>13, <1>14, <1>15, <1>16, <1>17
        DEF Next, Calls, Continue, Flights, Timers, Helper

TicketAs == local'.ticket = "current" => local.ticket = "current"
ClaimAs == op' # None /\ op'.fresh /\ op'.verb = "open" => op # None /\ op.fresh /\ op.verb = "open"
AskAs == adm'.stage = "status" /\ adm'.fresh => adm.stage = "status" /\ adm.fresh
WordAs == lapse' = lapse /\ (intent' = intent \/ (intent # "off" /\ intent' = "on"))

\* Nothing is asked anew, and what was asked is not taken back.
LEMMA MeantKept ==
  ASSUME MeantInv, OneCaller', up, up', Shuts, TicketAs, ClaimAs, AskAs, WordAs
  PROVE  MeantInv'
<1>1. Meant => Meant'
  BY DEF Meant, WordAs
<1>2. (intent = "on" \/ lapse) => (intent = "on" \/ lapse)'
  BY DEF WordAs
<1>3. (~fence'.blocked => ~fence.blocked) /\ (fence'.admin = Operation => fence.admin = Operation)
  BY DEF Shuts, KeepsShut, Store
<1>4. OpenOnlyAsAsked'
  BY <1>2, <1>3 DEF MeantInv, OpenOnlyAsAsked
<1>5. OnlyIfMeant'
  BY <1>1, <1>3 DEF MeantInv, OnlyIfMeant, TicketAs, ClaimAs, AskAs
<1> QED BY <1>4, <1>5 DEF MeantInv, RestartAsMeant

LEMMA LaunchedClaim ==
  ASSUME HelperType, NEW verb \in Verbs, verb # "open",
         NEW callers \in (SUBSET {"status", "call", "admin", "disconnect"}) \ {{}}, Launch(verb, callers)
  PROVE  ClaimAs
BY LaunchTyped DEF ClaimAs

LEMMA JoinedClaim ==
  ASSUME HelperType, NEW caller \in {"status", "admin"}, AskStatus(caller)
  PROVE  ClaimAs
<1>1. "status" \in Verbs /\ {caller} \in (SUBSET {"status", "call", "admin", "disconnect"}) \ {{}}
  BY DEF Verbs
<1> QED BY <1>1, AskStatusTyped, LaunchedClaim DEF ClaimAs

LEMMA AnsweredClaim ==
  ASSUME HelperType, NEW caller, Answered(caller), OpDone(caller)
  PROVE  ClaimAs
BY OpDoneTyped DEF ClaimAs, Answered

\* What a step that is answered, or waits, leaves of the operation.
LEMMA ClaimStays ==
  ASSUME TypeOK, Deadline \/ ProxyCloses \/ Gathered \/ Disconnect
  PROVE  ClaimAs
<1>1. op # None => op \in Operations
  BY DEF TypeOK, HelperType
<1>2. op = None => op' = None
  BY DEF Deadline, ProxyCloses, Gathered, Disconnect
<1>3. op # None => \/ op' = op
                   \/ op' = [op EXCEPT !.answer = "failed"]
                   \/ op' = [op EXCEPT !.valid = FALSE]
                   \/ op' = [op EXCEPT !.fresh = FALSE, !.valid = FALSE]
                   \/ \E answer \in {"done", "failed"} : op' = [op EXCEPT !.answer = answer, !.effect = slot.effect]
  BY DEF Deadline, ProxyCloses, Gathered, Disconnect
<1>4. op # None => (op'.fresh => op.fresh) /\ op'.verb = op.verb
  BY <1>1, <1>3 DEF Operations
<1> QED BY <1>2, <1>4 DEF ClaimAs

\* The steps that ask: a claim, an administration, and their answers.
LEMMA MeantAsked ==
  ASSUME MeantInv, OneCaller', up, up', Shuts, TicketAs, lapse' = lapse,
         intent' = IF intent = "on" THEN "on" ELSE "claiming"
  PROVE  MeantInv'
<1>1. (intent = "on" \/ lapse => (intent = "on" \/ lapse)') /\ Meant'
  BY DEF Meant
<1>2. (~fence'.blocked => ~fence.blocked) /\ (fence'.admin = Operation => fence.admin = Operation)
  BY DEF Shuts, KeepsShut, Store
<1>3. OpenOnlyAsAsked'
  BY <1>1, <1>2 DEF MeantInv, OpenOnlyAsAsked
<1> QED BY <1>1, <1>3 DEF MeantInv, OnlyIfMeant, RestartAsMeant

LEMMA MeantBeginAnswered ==
  ASSUME Base, MeantInv, OneCaller', BeginAnswered
  PROVE  MeantInv'
<1>0. up /\ up' /\ Shuts /\ WordAs /\ AskAs /\ HelperType
  BY BaseFacts, StoreUnchanged DEF BeginAnswered, Answered, store, observer, WordAs, AskAs, TypeOK
<1>1. ClaimAs
  BY <1>0, AnsweredClaim DEF BeginAnswered
<1>2. local'.ticket = "current" => local.ticket = "current" \/ (op # None /\ op.fresh /\ op.verb = "open")
  BY DEF BeginAnswered, Answered, Fresh
<1>3. CASE op # None /\ op.fresh /\ op.verb = "open"
  <2>1. Meant /\ Meant'
    BY <1>0, <1>3 DEF MeantInv, OnlyIfMeant, Meant, WordAs
  <2>2. OpenOnlyAsAsked'
    BY <1>0 DEF MeantInv, OpenOnlyAsAsked, Shuts, KeepsShut, Store, WordAs
  <2> QED BY <1>0, <2>1, <2>2 DEF MeantInv, OnlyIfMeant, RestartAsMeant
<1>4. CASE TicketAs
  BY <1>0, <1>1, <1>4, MeantKept
<1> QED BY <1>2, <1>3, <1>4 DEF TicketAs

\* An answer after a disconnect opens nothing; a claim that is given up says so.
LEMMA MeantPollAnswered ==
  ASSUME Base, MeantInv, OneCaller', PollAnswered
  PROVE  MeantInv'
<1>0. up /\ up' /\ lapse' = lapse /\ adm' = adm /\ HelperType
  BY BaseFacts DEF PollAnswered, Answered, TypeOK
<1>1. op # None /\ op.verb = "poll" /\ op.callers = {"call"} /\ op' = None
  BY DEF PollAnswered, Answered, MeantInv, OneCaller, OpDone
<1>2. adm.stage # "status"
  BY <1>1 DEF MeantInv, OneCaller
<1>3. CASE Shuts /\ intent' = intent /\ local' = local
  <2>1. TicketAs /\ ClaimAs /\ AskAs /\ WordAs
    BY <1>0, <1>1, <1>3 DEF TicketAs, ClaimAs, AskAs, WordAs
  <2> QED BY <1>0, <1>3, <2>1, MeantKept
<1>4. CASE fence'.blocked /\ fence'.admin = None /\ local' = [local EXCEPT !.ticket = Stale(@)]
  <2>1. local'.ticket # "current"
    BY <1>4 DEF Base, TypeOK, FlightType, Stale
  <2> QED BY <1>0, <1>1, <1>2, <1>4, <2>1, ConstantsDistinct DEF MeantInv, OpenOnlyAsAsked, OnlyIfMeant, RestartAsMeant
<1>5. CASE ShutsAdmin /\ ~Flying /\ local.ticket = "current" /\ Asked /\ local' = [local EXCEPT !.ticket = "none"]
  <2>1. Meant
    BY <1>5 DEF MeantInv, OnlyIfMeant
  <2>2. local'.ticket # "current"
    BY <1>5 DEF Base, TypeOK, FlightType
  <2>3. (intent = "on" \/ lapse)' /\ Meant'
    BY <1>0, <1>5, <2>1 DEF Meant, Asked
  <2> QED BY <1>0, <1>1, <1>2, <2>2, <2>3 DEF MeantInv, OpenOnlyAsAsked, OnlyIfMeant, RestartAsMeant
<1> QED BY <1>3, <1>4, <1>5, StorePollAnswered

\* The owner's word is taken back, with everything that was asked before.
LEMMA MeantDisconnect ==
  ASSUME Base, MeantInv, OneCaller', Disconnect
  PROVE  MeantInv'
<1>1. fence'.blocked /\ fence'.admin = None /\ up' /\ local'.ticket = "none"
  BY StoreDisconnect DEF Disconnect, Calm
<1>2. op' # None => ~op'.fresh
  <2>1. op # None => op' = [op EXCEPT !.fresh = FALSE, !.valid = FALSE] /\ op \in Operations
    BY DEF Disconnect, Base, TypeOK, HelperType
  <2>2. op # None => ~op'.fresh
    BY <2>1 DEF Operations
  <2> QED BY <2>2 DEF Disconnect
<1>3. ~adm'.fresh
  BY DEF Disconnect, Base, TypeOK, FlightType, Administrations
<1> QED BY <1>1, <1>2, <1>3, ConstantsDistinct DEF MeantInv, OpenOnlyAsAsked, OnlyIfMeant, RestartAsMeant

LEMMA MeantAdminStatusAnswered ==
  ASSUME Base, MeantInv, OneCaller', AdminStatusAnswered
  PROVE  MeantInv'
<1>0. up /\ up' /\ intent' = intent /\ lapse' = lapse /\ HelperType /\ adm.stage = "status"
  BY BaseFacts DEF AdminStatusAnswered, Answered, observer, TypeOK
<1>1. (~fence'.blocked => ~fence.blocked) /\ (ShutsAdmin \/ adm.fresh)
  BY StoreAdminStatusAnswered
<1>2. ClaimAs
  BY <1>0, AnsweredClaim DEF AdminStatusAnswered
<1>3. adm'.stage # "status"
  <2>1. adm' = NoAdm \/ adm' = [adm EXCEPT !.stage = "revoking"]
    BY DEF AdminStatusAnswered
  <2> QED BY <2>1 DEF NoAdm, Base, TypeOK, FlightType, Administrations
<1>4. local'.ticket # "current" \/ local' = local
  BY DEF AdminStatusAnswered, Stale, Base, TypeOK, FlightType
<1>5. fence'.admin = Operation => Meant
  BY <1>0, <1>1 DEF MeantInv, OnlyIfMeant, ShutsAdmin
<1> QED BY <1>0, <1>1, <1>2, <1>3, <1>4, <1>5
        DEF MeantInv, OpenOnlyAsAsked, OnlyIfMeant, RestartAsMeant, Meant, ClaimAs

LEMMA MeantAdminAnswered ==
  ASSUME Base, MeantInv, OneCaller', AdminAnswered
  PROVE  MeantInv'
<1>0. up /\ up' /\ lapse' = lapse /\ HelperType /\ adm.stage = "working" /\ local' = local
  BY BaseFacts DEF AdminAnswered, Answered, TypeOK
<1>1. ClaimAs
  BY <1>0, AnsweredClaim DEF AdminAnswered
<1>2. adm'.stage # "status"
  <2>1. adm' = NoAdm \/ adm' = [adm EXCEPT !.stage = "arming"]
    BY DEF AdminAnswered
  <2> QED BY <2>1 DEF NoAdm, Base, TypeOK, FlightType, Administrations
<1>3. CASE Shuts /\ intent' = intent
  BY <1>0, <1>1, <1>2, <1>3, MeantKept DEF WordAs, AskAs, TicketAs
<1>4. CASE fence.admin = Operation /\ Asked
  <2>1. Meant
    BY <1>0, <1>4 DEF MeantInv, OnlyIfMeant
  <2>2. (intent = "on" \/ lapse)' /\ Meant'
    BY <1>0, <1>4, <2>1 DEF Meant, Asked
  <2> QED BY <1>0, <1>2, <2>2 DEF MeantInv, OpenOnlyAsAsked, OnlyIfMeant, RestartAsMeant
<1> QED BY <1>3, <1>4, StoreAdminAnswered

\* What a start will find was meant, or is known not to be known.
LEMMA MeantRestart ==
  ASSUME Base, MeantInv, OneCaller', Crash \/ Start
  PROVE  MeantInv'
<1>0. Sound /\ op' = None /\ adm'.stage = "no" /\ local'.ticket = "none"
  BY DEF Base, Crash, Start, Memory, NoAdm
<1>1. CASE Crash
  <2>1. up /\ ~up' /\ disk' = disk /\ intent' = intent /\ lapse' = (lapse \/ (intent # "on" /\ ~fence.recorded))
    BY <1>1 DEF Crash
  <2>2. CASE intent = "on" \/ lapse'
    BY <1>0, <2>1, <2>2 DEF MeantInv, OpenOnlyAsAsked, OnlyIfMeant, RestartAsMeant, Meant
  <2>3. CASE intent # "on" /\ ~lapse' /\ fence.recorded
    <3>1. /\ ReadRecord(disk).admin = fence.admin
          /\ fence.blocked => ReadRecord(disk).blocked
      BY <1>0, <2>3 DEF Sound, SoundPair
    <3> QED BY <1>0, <2>1, <2>3, <3>1 DEF MeantInv, OpenOnlyAsAsked, OnlyIfMeant, RestartAsMeant, Meant
  <2> QED BY <2>1, <2>2, <2>3
<1>2. CASE Start
  <2>1. ~up /\ up' /\ fence' = ReadRecord(disk) /\ intent' = intent /\ lapse' = lapse
    BY <1>2 DEF Start, Memory, observer
  <2> QED BY <1>0, <2>1 DEF MeantInv, OpenOnlyAsAsked, OnlyIfMeant, RestartAsMeant, Meant
<1> QED BY <1>1, <1>2

LEMMA MeantStep ==
  ASSUME Base, MeantInv, Next
  PROVE  MeantInv'
<1>0. TypeOK /\ HelperType /\ Sound
  BY BaseFacts DEF TypeOK
<1>a. OneCaller'
  BY <1>0, CallerStep DEF MeantInv
<1>b. {"call"} \in (SUBSET {"status", "call", "admin", "disconnect"}) \ {{}}
      /\ {"admin"} \in (SUBSET {"status", "call", "admin", "disconnect"}) \ {{}}
      /\ {"disconnect"} \in (SUBSET {"status", "call", "admin", "disconnect"}) \ {{}}
  OBVIOUS
<1>d. \A v \in {"decide", "poll", "disconnect", "identity", "pair-request"} : v \in Verbs /\ v # "open"
  BY DEF Verbs, Vault
<1>1. CASE BeginOpen \/ \E action : AdminAsk(action)
  <2>1. UNCHANGED <<store, up>> /\ up /\ local' = local /\ lapse' = lapse
        /\ intent' = IF intent = "on" THEN "on" ELSE "claiming"
    BY <1>1, PlainStore DEF Plain, BeginOpen, AdminAsk
  <2>2. Shuts
    BY <1>0, <2>1, StoreUnchanged
  <2> QED BY <1>a, <2>1, <2>2, MeantAsked DEF TicketAs
<1>2. CASE Plain /\ ~BeginOpen /\ ~BeginAnswered
  <2>1. up /\ up' /\ Shuts
    BY <1>0, <1>2, PlainStore, StoreUnchanged
  <2>2. WordAs /\ AskAs
    <3>1. UNCHANGED observer
      BY <1>2 DEF Plain, BeginDecide, Poll, Cancel, ArmRelay, RelayArmed, RelayExits, RelayStops, GrantsRevoked,
                  ClearCredential, AdminRevoked, Deadline, ClaimUnconfirmed
    <3>2. adm' = adm \/ adm' = NoAdm \/ adm' = [adm EXCEPT !.stage = "working"]
      BY <1>2 DEF Plain, BeginDecide, Poll, Cancel, ArmRelay, RelayArmed, RelayExits, RelayStops, GrantsRevoked,
                  ClearCredential, AdminRevoked, Deadline, ClaimUnconfirmed
    <3> QED BY <1>0, <3>1, <3>2 DEF WordAs, AskAs, observer, NoAdm, TypeOK, FlightType, Administrations
  <2>3. TicketAs
    <3>1. local' = local \/ local' = [local EXCEPT !.ticket = "none"] \/ local' = [local EXCEPT !.revoked = TRUE]
      BY <1>2 DEF Plain, BeginDecide, Poll, Cancel, ArmRelay, RelayArmed, RelayExits, RelayStops, GrantsRevoked,
                  ClearCredential, AdminRevoked, Deadline, ClaimUnconfirmed
    <3> QED BY <1>0, <3>1 DEF TicketAs, TypeOK, FlightType
  <2>4. ClaimAs
    <3>1. CASE BeginDecide \/ Poll \/ ClearCredential
      <4>1. \E verb \in {"decide", "poll", "disconnect"}, callers \in {{"call"}, {"disconnect"}} : Launch(verb, callers)
        BY <3>1 DEF BeginDecide, Poll, ClearCredential
      <4> QED BY <1>0, <1>b, <1>d, <4>1, LaunchedClaim
    <3>2. CASE AdminRevoked
      <4>1. op' = op \/ Launch(adm.action, {"admin"})
        BY <3>2 DEF AdminRevoked
      <4>2. adm.action \in Verbs /\ adm.action # "open"
        BY <1>0 DEF TypeOK, FlightType, Administrations, MeantInv, OneCaller
      <4> QED BY <1>0, <1>b, <4>1, <4>2, LaunchedClaim DEF ClaimAs
    <3>3. CASE Deadline
      BY <1>0, <3>3, ClaimStays
    <3>4. CASE Cancel \/ ArmRelay \/ RelayArmed \/ RelayExits \/ RelayStops \/ GrantsRevoked \/ ClaimUnconfirmed
      BY <3>4 DEF Cancel, ArmRelay, RelayArmed, RelayExits, RelayStops, GrantsRevoked, ClaimUnconfirmed, ClaimAs
    <3> QED BY <1>2, <3>1, <3>2, <3>3, <3>4 DEF Plain
  <2> QED BY <1>a, <2>1, <2>2, <2>3, <2>4, MeantKept
<1>3. CASE BeginAnswered
  BY <1>3, <1>a, MeantBeginAnswered
<1>4. CASE Status
  <2>1. up /\ up' /\ TicketAs /\ AskAs /\ WordAs
    BY <1>4 DEF Status, Calm, TicketAs, AskAs, WordAs, observer
  <2>2. PICK t \in Reconciled(Store) : Keep(t) /\ IF t.ok THEN AskStatus("status") ELSE UNCHANGED <<op, slot, world>>
    BY <1>4 DEF Status
  <2>3. Shuts
    BY BaseFacts, <2>2, StoreStatus
  <2>4. ClaimAs
    <3>1. CASE op' = op
      BY <3>1 DEF ClaimAs
    <3>2. CASE AskStatus("status")
      BY <1>0, <3>2, JoinedClaim
    <3> QED BY <2>2, <3>1, <3>2
  <2> QED BY <1>a, <2>1, <2>3, <2>4, MeantKept
<1>5. ASSUME NEW action \in Actions \intersect {"identity", "pair-request"}, AdminRead(action) PROVE MeantInv'
  <2>1. up /\ up' /\ TicketAs /\ WordAs
    BY <1>5 DEF AdminRead, Administering, Calm, TicketAs, WordAs, observer
  <2>2. AskAs
    BY <1>5 DEF AdminRead, Stage, AskAs
  <2>3. Shuts
    BY <1>5, StoreAdminRead
  <2>4. ClaimAs
    <3>1. op' = op \/ Launch(action, {"admin"})
      BY <1>5 DEF AdminRead
    <3> QED BY <1>0, <1>b, <1>d, <3>1, LaunchedClaim DEF ClaimAs
  <2> QED BY <1>a, <2>1, <2>2, <2>3, <2>4, MeantKept
<1>6. ASSUME NEW action, AdminResume(action) PROVE MeantInv'
  <2>1. up /\ up' /\ WordAs /\ ClaimAs
    BY <1>6 DEF AdminResume, Administering, Calm, WordAs, ClaimAs, observer
  <2>2. AskAs
    BY <1>6 DEF AdminResume, Stage, AskAs
  <2>3. TicketAs
    <3>1. local' = local \/ local' = [local EXCEPT !.barrier = FALSE, !.revoked = FALSE]
      BY <1>6 DEF AdminResume
    <3> QED BY <1>0, <3>1 DEF TicketAs, TypeOK, FlightType
  <2>4. Shuts
    BY <1>6, StoreAdminResume
  <2> QED BY <1>a, <2>1, <2>2, <2>3, <2>4, MeantKept
<1>7. CASE StatusAnswered \/ DisconnectAnswered
  <2>1. up /\ up' /\ WordAs /\ AskAs
    BY <1>7 DEF StatusAnswered, DisconnectAnswered, Answered, WordAs, AskAs, observer
  <2>2. ClaimAs
    BY <1>0, <1>7, AnsweredClaim DEF StatusAnswered, DisconnectAnswered
  <2>3. TicketAs
    <3>1. local' = local \/ \E b : local' = [local EXCEPT !.barrier = b]
      BY <1>7 DEF StatusAnswered, DisconnectAnswered
    <3> QED BY <1>0, <3>1 DEF TicketAs, TypeOK, FlightType
  <2>4. Shuts
    BY <1>7, StoreStatusAnswered, DisconnectShuts
  <2> QED BY <1>a, <2>1, <2>2, <2>3, <2>4, MeantKept
<1>8. CASE PollAnswered
  BY <1>8, <1>a, MeantPollAnswered
<1>9. CASE Disconnect
  BY <1>9, <1>a, MeantDisconnect
<1>10. CASE AdminStatusAnswered
  BY <1>10, <1>a, MeantAdminStatusAnswered
<1>11. CASE AdminAnswered
  BY <1>11, <1>a, MeantAdminAnswered
<1>12. CASE Crash \/ Start
  BY <1>12, <1>a, MeantRestart
<1>13. CASE ProxyCloses \/ Gathered \/ ClearAbandoned \/ Admit
  <2>1. up /\ up' /\ WordAs /\ AskAs
    <3>1. up /\ UNCHANGED <<up, adm, observer>>
      BY <1>13 DEF ProxyCloses, Gathered, ClearAbandoned, Admit, Calm
    <3> QED BY <3>1 DEF WordAs, AskAs, observer
  <2>2. TicketAs
    <3>1. local' = local \/ \E b : local' = [local EXCEPT !.revoked = b]
      BY <1>13 DEF ProxyCloses, Gathered, ClearAbandoned, Admit
    <3> QED BY <1>0, <3>1 DEF TicketAs, TypeOK, FlightType
  <2>3. ClaimAs
    <3>1. CASE op' = op
      BY <3>1 DEF ClaimAs
    <3> QED BY <1>0, <1>13, <3>1, ClaimStays DEF ClearAbandoned, Admit
  <2>4. Shuts
    BY <1>13, StoreProxyCloses, StoreGathered, StoreClearAbandoned, AdmitShuts
  <2> QED BY <1>a, <2>1, <2>2, <2>3, <2>4, MeantKept
<1>14. ASSUME NEW o \in Owners, HelperActs(o) \/ HelperEnds(o) PROVE MeantInv'
  <2>1. UNCHANGED <<up, fence, disk, local, adm, op, intent, lapse>>
    BY <1>14 DEF HelperActs, HelperEnds, store, observer
  <2>2. OpenOnlyAsAsked' /\ RestartAsMeant'
    BY <2>1 DEF MeantInv, OpenOnlyAsAsked, RestartAsMeant, Meant
  <2>3. OnlyIfMeant'
    BY <2>1 DEF MeantInv, OnlyIfMeant, Meant
  <2> QED BY <1>a, <2>2, <2>3 DEF MeantInv
<1> QED BY <1>1, <1>2, <1>3, <1>4, <1>5, <1>6, <1>7, <1>8, <1>9, <1>10, <1>11, <1>12, <1>13, <1>14
        DEF Next, Calls, Continue, Flights, Timers, Helper, Plain

LEMMA InitMeant ==
  ASSUME Init
  PROVE  MeantInv
<1>1. ~up /\ op = None /\ adm = NoAdm /\ local.ticket = "none"
  BY DEF Init
<1>2. Base
  BY InitBase
<1>3. ReadRecord(disk).admin # None => ReadRecord(disk).blocked
  <2>1. SoundPair(ReadRecord(disk), disk)
    BY <1>2, ReadIsSound DEF Base, Sound, SoundPair
  <2> QED BY <2>1 DEF SoundPair
<1>4. RestartAsMeant
  BY <1>3, ConstantsDistinct DEF Init, RestartAsMeant, Meant
<1> QED BY <1>1, <1>4 DEF MeantInv, OpenOnlyAsAsked, OnlyIfMeant, OneCaller, NoAdm

\* What is open, may still be opened by a running call, or would be opened by a
\* restart was asked for after the last disconnect.
THEOREM MeantCorrect == Spec => [](Base /\ MeantInv)
<1>1. Init => Base /\ MeantInv
  BY InitBase, InitMeant
<1>2. Base /\ MeantInv /\ [Next]_vars => (Base /\ MeantInv)'
  <2> SUFFICES ASSUME Base, MeantInv, [Next]_vars PROVE Base' /\ MeantInv'
    OBVIOUS
  <2>1. Base'
    BY StepBase
  <2>2. CASE Next
    BY <2>1, <2>2, MeantStep
  <2>3. CASE UNCHANGED vars
    <3>1. UNCHANGED <<up, fence, disk, local, adm, op, intent, lapse>>
      BY <2>3 DEF vars, store, observer
    <3>2. OpenOnlyAsAsked' /\ RestartAsMeant'
      BY <3>1 DEF MeantInv, OpenOnlyAsAsked, RestartAsMeant, Meant
    <3>3. OnlyIfMeant' /\ OneCaller'
      BY <3>1 DEF MeantInv, OnlyIfMeant, OneCaller, Meant
    <3> QED BY <2>1, <3>2, <3>3 DEF MeantInv
  <2> QED BY <2>2, <2>3
<1> QED BY <1>1, <1>2, PTL DEF Spec

\* Remote access is admitted only if the owner's last word was a claim or an
\* enrollment, begun after every disconnect and completed, after any number of
\* restarts, unless this process died while it reported that as unknown.
THEOREM AskedCorrect == Spec => []OpenOnlyAsAsked
<1>1. Base /\ MeantInv => OpenOnlyAsAsked
  BY DEF MeantInv
<1> QED BY <1>1, MeantCorrect, PTL
-----------------------------------------------------------------------------
(* What a disconnect has made certain.                                     *)

\* A flight is begun by Disconnect alone, and goes on without it.
LEMMA FlightGoesOn ==
  ASSUME TypeOK, Next, ~Disconnect
  PROVE  Flying' => Flying
<1>1. dis \in Disconnects
  BY DEF TypeOK, FlightType
<1>2. CASE dis'.stage = dis.stage
  BY <1>2 DEF Flying
<1>3. CASE Crash \/ Start \/ ClearAbandoned \/ DisconnectAnswered
  <2>1. dis' = NoFlight \/ dis' = [NoFlight EXCEPT !.stage = "complete"]
    BY <1>3 DEF Crash, Start, Memory, ClearAbandoned, DisconnectAnswered
  <2> QED BY <2>1 DEF Flying, NoFlight
<1>4. CASE Gathered
  <2>1. dis' = NoFlight \/ dis.stage = "stopping"
    BY <1>4 DEF Gathered
  <2> QED BY <1>4, <2>1 DEF Flying, NoFlight, Gathered
<1>5. CASE ClearCredential
  BY <1>5 DEF ClearCredential, Flying
<1>6. CASE ProxyCloses \/ ClaimUnconfirmed \/ RelayStops \/ GrantsRevoked
  <2>1. dis' = dis \/ (\E c \in {"quiet", "unknown"} : dis' = [dis EXCEPT !.claim = c])
        \/ (\E c \in {"ok", "failed"} : dis' = [dis EXCEPT !.relay = c])
        \/ (\E c \in {"ok", "failed"} : dis' = [dis EXCEPT !.revoke = c])
    BY <1>6 DEF ProxyCloses, ClaimUnconfirmed, RelayStops, GrantsRevoked
  <2>2. dis'.stage = dis.stage
    BY <1>1, <2>1 DEF Disconnects
  <2> QED BY <1>2, <2>2
<1>7. CASE \/ Status \/ BeginOpen \/ BeginDecide \/ Poll \/ Cancel \/ ArmRelay \/ StatusAnswered \/ BeginAnswered
           \/ PollAnswered \/ AdminStatusAnswered \/ AdminAnswered \/ RelayArmed \/ RelayExits \/ AdminRevoked
           \/ Deadline \/ Admit
  <2>1. dis' = dis
    BY <1>7 DEF Status, BeginOpen, BeginDecide, Poll, Cancel, ArmRelay, StatusAnswered, BeginAnswered, PollAnswered,
       AdminStatusAnswered, AdminAnswered, RelayArmed, RelayExits, AdminRevoked, Deadline, Admit
  <2> QED BY <1>2, <2>1
<1>8. ASSUME NEW action, AdminRead(action) \/ AdminAsk(action) \/ AdminResume(action) PROVE Flying' => Flying
  <2>1. dis' = dis
    BY <1>8 DEF AdminRead, AdminAsk, AdminResume
  <2> QED BY <1>2, <2>1
<1>9. ASSUME NEW o \in Owners, HelperActs(o) \/ HelperEnds(o) PROVE Flying' => Flying
  <2>1. dis' = dis
    BY <1>9 DEF HelperActs, HelperEnds
  <2> QED BY <1>2, <2>1
<1> QED BY <1>3, <1>4, <1>5, <1>6, <1>7, <1>8, <1>9 DEF Next, Calls, Continue, Flights, Timers, Helper

\* While a disconnect is under way nothing is admitted.
LEMMA BlockedStep ==
  ASSUME Base, FlyingIsBlocked, Next
  PROVE  FlyingIsBlocked'
<1>0. TypeOK
  BY BaseFacts
<1>1. CASE Disconnect
  BY <1>1, StoreDisconnect DEF FlyingIsBlocked
<1>2. CASE ~Disconnect
  <2>1. Flying' => Flying
    BY <1>0, <1>2, FlightGoesOn
  <2>2. Flying => (~fence'.blocked => ~fence.blocked) \/ ~Flying'
    <3>1. CASE Crash \/ Start
      BY <3>1 DEF Crash, Start, Memory, NoFlight, Flying
    <3>2. CASE PollAnswered
      BY <3>2, StorePollAnswered DEF Shuts, KeepsShut, Store
    <3>3. CASE AdminStatusAnswered
      BY <3>3, StoreAdminStatusAnswered
    <3>4. CASE AdminAnswered
      BY <3>4, StoreAdminAnswered DEF Shuts, KeepsShut, Store
    <3>5. CASE Shuts
      BY <3>5 DEF Shuts, KeepsShut, Store
    <3> QED BY <3>1, <3>2, <3>3, <3>4, <3>5, ShutStep
  <2> QED BY <2>1, <2>2 DEF FlyingIsBlocked
<1> QED BY <1>1, <1>2

\* A leg that was reported to have stopped is not started again.
LEMMA RelayStep ==
  ASSUME TypeOK, FlyingIsBlocked, RelayStaysOff, Next
  PROVE  RelayStaysOff'
<1>0. dis \in Disconnects
  BY DEF TypeOK, FlightType
<1>1. CASE RelayStops
  <2>1. PICK stopped \in BOOLEAN : /\ dis' = [dis EXCEPT !.relay = IF stopped THEN "ok" ELSE "failed"]
                                   /\ relay' = (relay /\ ~stopped)
    BY <1>1 DEF RelayStops
  <2>2. dis.stage = "stopping" /\ dis'.stage = "stopping" /\ (dis'.relay = "ok" => stopped)
    BY <1>0, <1>1, <2>1 DEF RelayStops, Disconnects
  <2> QED BY <2>1, <2>2 DEF RelayStaysOff
<1>2. CASE RelayArmed
  <2>1. dis' = dis /\ (relay' => relay \/ ~fence.blocked)
    BY <1>2 DEF RelayArmed, Enrolled
  <2> QED BY <2>1 DEF RelayStaysOff, FlyingIsBlocked, Flying
<1>3. CASE RelayExits
  BY <1>3 DEF RelayExits, RelayStaysOff, Flying
<1>4. CASE Disconnect
  BY <1>4 DEF Disconnect, RelayStaysOff
<1>5. CASE Gathered
  <2>1. dis' = NoFlight \/ (dis.relay = "ok" /\ dis' = [dis EXCEPT !.stage = "draining"])
    BY <1>5 DEF Gathered, AllQuiet
  <2>2. relay' = relay /\ dis.stage = "stopping"
    BY <1>5 DEF Gathered
  <2>3. CASE dis' = NoFlight
    BY <2>3 DEF NoFlight, RelayStaysOff, Flying
  <2>4. CASE dis.relay = "ok" /\ dis' = [dis EXCEPT !.stage = "draining"]
    <3>1. dis'.relay = "ok"
      BY <1>0, <2>4 DEF Disconnects
    <3> QED BY <2>2, <2>4, <3>1 DEF RelayStaysOff, Flying
  <2> QED BY <2>1, <2>3, <2>4
<1>6. CASE ClearCredential
  <2>1. dis' = [dis EXCEPT !.stage = "clearing"] /\ dis.stage = "draining" /\ relay' = relay
    BY <1>6 DEF ClearCredential
  <2>2. dis'.relay = dis.relay
    BY <1>0, <2>1 DEF Disconnects
  <2> QED BY <2>1, <2>2 DEF RelayStaysOff, Flying
<1>7. CASE ClearAbandoned \/ DisconnectAnswered \/ Crash \/ Start
  <2>1. dis' = NoFlight \/ dis' = [NoFlight EXCEPT !.stage = "complete"]
    BY <1>7 DEF Crash, Start, Memory, ClearAbandoned, DisconnectAnswered
  <2>2. dis'.stage \in {"no", "complete"}
    BY <2>1 DEF NoFlight
  <2> QED BY <2>2 DEF RelayStaysOff, Flying
<1>8. CASE ProxyCloses \/ ClaimUnconfirmed \/ GrantsRevoked
  <2>1. dis' = dis \/ (\E c \in {"quiet", "unknown"} : dis' = [dis EXCEPT !.claim = c])
        \/ (\E c \in {"ok", "failed"} : dis' = [dis EXCEPT !.revoke = c])
    BY <1>8 DEF ProxyCloses, ClaimUnconfirmed, GrantsRevoked
  <2>2. dis'.stage = dis.stage /\ dis'.relay = dis.relay
    BY <1>0, <2>1 DEF Disconnects
  <2>3. relay' = relay
    BY <1>8 DEF ProxyCloses, ClaimUnconfirmed, GrantsRevoked
  <2> QED BY <2>2, <2>3 DEF RelayStaysOff, Flying
<1>9. CASE UNCHANGED <<dis, relay>>
  BY <1>9 DEF RelayStaysOff, Flying
<1>10. CASE \/ Status \/ BeginOpen \/ BeginDecide \/ Poll \/ Cancel \/ ArmRelay \/ StatusAnswered \/ BeginAnswered
            \/ PollAnswered \/ AdminStatusAnswered \/ AdminAnswered \/ AdminRevoked \/ Deadline \/ Admit
            \/ \E o \in Owners : HelperActs(o) \/ HelperEnds(o)
  <2>1. UNCHANGED <<dis, relay>>
    BY <1>10 DEF Status, BeginOpen, BeginDecide, Poll, Cancel, ArmRelay, StatusAnswered, BeginAnswered, PollAnswered,
       AdminStatusAnswered, AdminAnswered, AdminRevoked, Deadline, Admit, HelperActs, HelperEnds
  <2> QED BY <1>9, <2>1
<1>11. ASSUME NEW action, AdminRead(action) \/ AdminAsk(action) \/ AdminResume(action) PROVE RelayStaysOff'
  BY <1>9, <1>11 DEF AdminRead, AdminAsk, AdminResume
<1> QED BY <1>1, <1>2, <1>3, <1>4, <1>5, <1>6, <1>7, <1>8, <1>10, <1>11 DEF Next, Calls, Continue, Flights, Timers, Helper

SlotAs == slot' # None => /\ slot # None /\ slot'.verb = slot.verb /\ slot'.effect = slot.effect
                          /\ slot'.stage = slot.stage \/ slot'.stage # "spawned"
EffectAs == op' # None /\ op'.effect = "cleared" =>
              op # None /\ op.effect = "cleared" /\ (op'.answer = op.answer \/ op'.answer = "failed")

LEMMA ClearedKept ==
  ASSUME ClearedIsClear, UNCHANGED <<job, credential>>, SlotAs, EffectAs
  PROVE  ClearedIsClear'
<1>1. alive' = alive
  BY DEF alive
<1> QED BY <1>1 DEF ClearedIsClear, SlotAs, EffectAs

LEMMA ClearedLaunched ==
  ASSUME HelperType, ClearedIsClear, NEW verb \in Verbs, verb # "cleared",
         NEW callers \in (SUBSET {"status", "call", "admin", "disconnect"}) \ {{}}, Launch(verb, callers)
  PROVE  ClearedIsClear'
<1>1. UNCHANGED <<job, credential>> /\ slot'.verb = verb /\ slot'.effect = "none" /\ op'.effect = "none"
  BY LaunchTyped DEF Launch
<1>2. alive' = alive
  BY <1>1 DEF alive
<1> QED BY <1>1, <1>2 DEF ClearedIsClear

LEMMA JoinedCleared ==
  ASSUME HelperType, ClearedIsClear, NEW caller \in {"status", "admin"}, AskStatus(caller)
  PROVE  ClearedIsClear'
<1>1. "status" \in Verbs /\ "status" # "cleared" /\ {caller} \in (SUBSET {"status", "call", "admin", "disconnect"}) \ {{}}
  BY DEF Verbs
<1>2. CASE Launch("status", {caller})
  BY <1>1, <1>2, ClearedLaunched
<1>3. CASE op \in Operations /\ op'.effect = op.effect /\ op'.answer = op.answer /\ UNCHANGED <<slot, world>>
  BY <1>3, ClearedKept, NoneIsNothing DEF SlotAs, EffectAs, world
<1>4. CASE UNCHANGED <<op, slot, world>>
  BY <1>4, ClearedKept DEF SlotAs, EffectAs, world
<1> QED BY <1>2, <1>3, <1>4, AskStatusTyped

\* The one helper that runs.
LEMMA OneAlive ==
  ASSUME HelperInv, NEW o \in alive
  PROVE  alive = {o}
BY DEF HelperInv, HelperIsOnRecord

LEMMA ClearedActs ==
  ASSUME Base, ClearedIsClear, NEW o \in Owners, HelperActs(o)
  PROVE  ClearedIsClear'
<1>1. HelperType /\ o \in alive /\ alive = {o} /\ UNCHANGED <<op, slot>>
  BY OneAlive DEF HelperActs, Base, TypeOK
<1>2. job' = [job EXCEPT ![o] = IF @ \in {"disconnect", "cancel"} THEN "cleared" ELSE "stored"]
      /\ credential' = (job[o] \notin {"disconnect", "cancel"})
  BY DEF HelperActs
<1>3. job'[o] = "cleared" => ~credential'
  BY <1>1, <1>2 DEF HelperType
<1>4. alive' \subseteq {o}
  BY <1>1, <1>2 DEF HelperType, alive
<1>5. /\ slot # None => slot.effect # "cleared" /\ slot.verb # "cleared"
      /\ op # None => op.effect # "cleared"
  BY <1>1 DEF ClearedIsClear
<1> QED BY <1>1, <1>3, <1>4, <1>5 DEF ClearedIsClear

LEMMA ClearedEnds ==
  ASSUME Base, ClearedIsClear, NEW o \in Owners, HelperEnds(o)
  PROVE  ClearedIsClear'
<1>1. HelperType /\ HelperInv /\ o \in alive /\ alive = {o} /\ UNCHANGED <<op, credential>>
  BY OneAlive DEF HelperEnds, Base, TypeOK
<1>2. job' = [job EXCEPT ![o] = "none"]
      /\ slot' = IF slot # None /\ slot.owner = o THEN [slot EXCEPT !.effect = job[o]] ELSE slot
  BY DEF HelperEnds
<1>3. alive' = {}
  BY <1>1, <1>2 DEF HelperType, alive
<1>4. op # None => op.effect # "cleared"
  BY <1>1 DEF ClearedIsClear
<1>5. CASE slot # None /\ slot.owner = o
  <2>1. slot \in Helpers /\ slot' = [slot EXCEPT !.effect = job[o]]
    BY <1>1, <1>2, <1>5 DEF HelperType
  <2>2. slot'.effect = job[o] /\ slot'.stage = slot.stage /\ slot'.verb = slot.verb
    BY <2>1 DEF Helpers
  <2>3. slot.stage # "spawned"
    BY <1>1, <1>5 DEF HelperInv, UnadmittedIsFresh
  <2>4. job[o] = "cleared" => ~credential
    BY <1>1 DEF ClearedIsClear
  <2> QED BY <1>1, <1>3, <1>4, <1>5, <2>2, <2>3, <2>4 DEF ClearedIsClear
<1>6. CASE ~(slot # None /\ slot.owner = o)
  <2>1. slot' = slot
    BY <1>2, <1>6
  <2> QED BY <1>1, <1>3, <1>4, <2>1 DEF ClearedIsClear
<1> QED BY <1>5, <1>6

LEMMA ClearedAdmit ==
  ASSUME Base, ClearedIsClear, Admit
  PROVE  ClearedIsClear'
<1>0. HelperType /\ slot # None /\ slot \in Helpers /\ slot.stage = "spawned" /\ UNCHANGED <<op, credential>>
      /\ (op # None => op.answer = "none")
  BY DEF Base, TypeOK, HelperType, Admit, Calm
<1>1. slot.effect # "cleared" /\ slot.verb # "cleared" /\ (op # None => op.effect # "cleared")
  BY <1>0 DEF ClearedIsClear
<1>2. slot' = [slot EXCEPT !.stage = "running"] \/ slot' = [slot EXCEPT !.stage = "refused"]
  BY DEF Admit
<1>3. slot'.effect = slot.effect /\ slot'.verb = slot.verb
  BY <1>0, <1>2 DEF Helpers
<1>4. job' = job \/ job' = [job EXCEPT ![slot.owner] = slot.verb]
  BY DEF Admit
<1>5. \A o \in Owners : job'[o] = "cleared" => job[o] = "cleared"
  BY <1>0, <1>1, <1>4 DEF HelperType
<1>6. \A o \in alive' : job'[o] = "cleared" => ~credential
  <2>1. \A o \in Owners : job[o] = "cleared" => o \in alive
    BY DEF alive
  <2> QED BY <1>5, <2>1 DEF ClearedIsClear, alive
<1> QED BY <1>0, <1>1, <1>3, <1>6 DEF ClearedIsClear

LEMMA ClearedProxyCloses ==
  ASSUME Base, ClearedIsClear, ProxyCloses
  PROVE  ClearedIsClear'
<1>0. HelperType /\ slot # None /\ slot \in Helpers /\ UNCHANGED <<job, credential>>
  BY DEF Base, TypeOK, HelperType, ProxyCloses
<1>1. alive' = alive
  BY <1>0 DEF alive
<1>2. slot' = None \/ slot' = [slot EXCEPT !.stage = "lost"]
  BY DEF ProxyCloses
<1>3. slot' # None => slot'.effect = slot.effect /\ slot'.stage = "lost" /\ slot'.verb = slot.verb
  BY <1>0, <1>2 DEF Helpers
<1>4. op' = None \/ \E answer \in {"done", "failed"} : op' = [op EXCEPT !.answer = answer, !.effect = slot.effect] /\ op # None
  BY DEF ProxyCloses
<1>5. op' # None => op'.effect = slot.effect /\ op'.answer # "none"
  BY <1>0, <1>4 DEF HelperType, Operations
<1> QED BY <1>0, <1>1, <1>3, <1>5 DEF ClearedIsClear

LEMMA CancelledSlot ==
  ASSUME TypeOK, slot' \in {slot, Cancelled}
  PROVE  SlotAs
<1>1. slot # None => slot \in Helpers
  BY DEF TypeOK, HelperType
<1> QED BY <1>1 DEF SlotAs, Cancelled, Helpers

LEMMA AnsweredEffect ==
  ASSUME HelperType, NEW caller, Answered(caller), OpDone(caller)
  PROVE  EffectAs
BY OpDoneTyped DEF EffectAs, Answered

LEMMA ClearedStep ==
  ASSUME Base, OneCaller, ClearedIsClear, Next
  PROVE  ClearedIsClear'
<1>0. TypeOK /\ HelperType
  BY BaseFacts DEF TypeOK
<1>b. {"call"} \in (SUBSET {"status", "call", "admin", "disconnect"}) \ {{}}
      /\ {"admin"} \in (SUBSET {"status", "call", "admin", "disconnect"}) \ {{}}
      /\ {"disconnect"} \in (SUBSET {"status", "call", "admin", "disconnect"}) \ {{}}
  OBVIOUS
<1>d. \A v \in {"open", "decide", "poll", "disconnect", "identity", "pair-request"} : v \in Verbs /\ v # "cleared"
  BY DEF Verbs, Vault
<1>e. ASSUME UNCHANGED <<op, slot, world>> PROVE ClearedIsClear'
  BY <1>e, ClearedKept DEF SlotAs, EffectAs, world
<1>1. CASE BeginOpen \/ BeginDecide \/ Poll \/ ClearCredential
  <2>1. \E verb \in {"open", "decide", "poll", "disconnect"}, callers \in {{"call"}, {"disconnect"}} : Launch(verb, callers)
    BY <1>1 DEF BeginOpen, BeginDecide, Poll, ClearCredential
  <2> QED BY <1>0, <1>b, <1>d, <2>1, ClearedLaunched
<1>2. CASE AdminRevoked
  <2>1. UNCHANGED <<op, slot, world>> \/ Launch(adm.action, {"admin"})
    BY <1>2 DEF AdminRevoked
  <2>2. adm.action \in Verbs /\ adm.action # "cleared"
    BY <1>0 DEF TypeOK, FlightType, Administrations, OneCaller
  <2> QED BY <1>0, <1>b, <1>e, <2>1, <2>2, ClearedLaunched
<1>3. CASE Status
  <2>1. AskStatus("status") \/ UNCHANGED <<op, slot, world>>
    BY <1>3 DEF Status
  <2> QED BY <1>0, <1>e, <2>1, JoinedCleared
<1>4. ASSUME NEW action, AdminAsk(action) PROVE ClearedIsClear'
  <2>1. AskStatus("admin")
    BY <1>4 DEF AdminAsk
  <2> QED BY <1>0, <2>1, JoinedCleared
<1>5. ASSUME NEW action \in Actions \intersect {"identity", "pair-request"}, AdminRead(action) PROVE ClearedIsClear'
  <2>1. UNCHANGED <<op, slot, world>> \/ Launch(action, {"admin"})
    BY <1>5 DEF AdminRead
  <2> QED BY <1>0, <1>b, <1>d, <1>e, <2>1, ClearedLaunched
<1>6. ASSUME NEW action, AdminResume(action) PROVE ClearedIsClear'
  BY <1>e, <1>6 DEF AdminResume
<1>7. CASE Cancel \/ ArmRelay \/ RelayArmed \/ RelayExits \/ RelayStops \/ GrantsRevoked \/ ClaimUnconfirmed \/ ClearAbandoned
  <2>1. UNCHANGED <<op, slot, world>>
    BY <1>7 DEF Cancel, ArmRelay, RelayArmed, RelayExits, RelayStops, GrantsRevoked, ClaimUnconfirmed, ClearAbandoned
  <2> QED BY <1>e, <2>1
<1>8. CASE \/ StatusAnswered \/ BeginAnswered \/ PollAnswered \/ DisconnectAnswered \/ AdminStatusAnswered \/ AdminAnswered
  <2>1. UNCHANGED <<slot, world>> /\ \E caller : Answered(caller) /\ OpDone(caller)
    BY <1>8 DEF StatusAnswered, BeginAnswered, PollAnswered, DisconnectAnswered, AdminStatusAnswered, AdminAnswered
  <2>2. EffectAs
    BY <1>0, <2>1, AnsweredEffect
  <2> QED BY <2>1, <2>2, ClearedKept DEF SlotAs, world
<1>9. CASE Deadline \/ Disconnect \/ Gathered
  <2>1. UNCHANGED world /\ slot' \in {slot, Cancelled}
    BY <1>9 DEF Deadline, Disconnect, Gathered
  <2>2. op # None => op \in Operations
    BY <1>0 DEF HelperType
  <2>3. op = None => op' = None
    BY <1>9 DEF Deadline, Disconnect, Gathered
  <2>4. op # None => \/ op' = op
                     \/ op' = [op EXCEPT !.answer = "failed"]
                     \/ op' = [op EXCEPT !.valid = FALSE]
                     \/ op' = [op EXCEPT !.fresh = FALSE, !.valid = FALSE]
    BY <1>9 DEF Deadline, Disconnect, Gathered
  <2>5. op # None => op'.effect = op.effect /\ (op'.answer = op.answer \/ op'.answer = "failed")
    BY <2>2, <2>4 DEF Operations
  <2>6. EffectAs
    BY <2>3, <2>5 DEF EffectAs
  <2> QED BY <1>0, <2>1, <2>6, CancelledSlot, ClearedKept DEF world
<1>10. CASE Admit
  BY <1>10, ClearedAdmit
<1>11. CASE ProxyCloses
  BY <1>11, ClearedProxyCloses
<1>12. ASSUME NEW o \in Owners, HelperActs(o) \/ HelperEnds(o) PROVE ClearedIsClear'
  BY <1>12, ClearedActs, ClearedEnds
<1>13. CASE Crash \/ Start
  <2>1. UNCHANGED world /\ op' = None /\ slot' = None
    BY <1>13 DEF Crash, Start, Memory
  <2> QED BY <2>1, ClearedKept DEF SlotAs, EffectAs, world
<1> QED BY <1>1, <1>2, <1>3, <1>4, <1>5, <1>6, <1>7, <1>8, <1>9, <1>10, <1>11, <1>12, <1>13
        DEF Next, Calls, Continue, Flights, Timers, Helper

\* What the claim module knows, and what may still tell it of an enrollment.
Forgotten == ~claim.enrolled /\ claim.fenced
Silent == op # None => ~op.valid \/ op.callers = {"disconnect"}

\* While the vault is being cleared no operation is launched beside the clear.
LEMMA DisconnectingStep ==
  ASSUME TypeOK, Next, ~Gathered, Disconnecting'
  PROVE  Disconnecting
<1>1. dis \in Disconnects
  BY DEF TypeOK, FlightType
<1>2. CASE dis'.stage = dis.stage
  BY <1>2 DEF Disconnecting
<1>3. CASE Crash \/ Start \/ ClearAbandoned \/ DisconnectAnswered
  <2>1. dis' = NoFlight \/ dis' = [NoFlight EXCEPT !.stage = "complete"]
    BY <1>3 DEF Crash, Start, Memory, ClearAbandoned, DisconnectAnswered
  <2> QED BY <2>1 DEF Disconnecting, NoFlight
<1>4. CASE Disconnect
  <2>1. dis'.stage = "stopping"
    BY <1>4 DEF Disconnect
  <2> QED BY <2>1 DEF Disconnecting
<1>5. CASE ClearCredential
  BY <1>5 DEF ClearCredential, Disconnecting
<1>6. CASE ProxyCloses \/ ClaimUnconfirmed \/ RelayStops \/ GrantsRevoked
  <2>1. dis' = dis \/ (\E c \in {"quiet", "unknown"} : dis' = [dis EXCEPT !.claim = c])
        \/ (\E c \in {"ok", "failed"} : dis' = [dis EXCEPT !.relay = c])
        \/ (\E c \in {"ok", "failed"} : dis' = [dis EXCEPT !.revoke = c])
    BY <1>6 DEF ProxyCloses, ClaimUnconfirmed, RelayStops, GrantsRevoked
  <2>2. dis'.stage = dis.stage
    BY <1>1, <2>1 DEF Disconnects
  <2> QED BY <1>2, <2>2
<1>7. CASE \/ Status \/ BeginOpen \/ BeginDecide \/ Poll \/ Cancel \/ ArmRelay \/ StatusAnswered \/ BeginAnswered
           \/ PollAnswered \/ AdminStatusAnswered \/ AdminAnswered \/ RelayArmed \/ RelayExits \/ AdminRevoked
           \/ Deadline \/ Admit \/ \E o \in Owners : HelperActs(o) \/ HelperEnds(o)
  <2>1. dis' = dis
    BY <1>7 DEF Status, BeginOpen, BeginDecide, Poll, Cancel, ArmRelay, StatusAnswered, BeginAnswered, PollAnswered,
       AdminStatusAnswered, AdminAnswered, RelayArmed, RelayExits, AdminRevoked, Deadline, Admit, HelperActs, HelperEnds
  <2> QED BY <1>2, <2>1
<1>8. ASSUME NEW action, AdminRead(action) \/ AdminAsk(action) \/ AdminResume(action) PROVE Disconnecting
  <2>1. dis' = dis
    BY <1>8 DEF AdminRead, AdminAsk, AdminResume
  <2> QED BY <1>2, <2>1
<1> QED BY <1>3, <1>4, <1>5, <1>6, <1>7, <1>8 DEF Next, Calls, Continue, Flights, Timers, Helper

\* No answer told while the clear is under way is believed.
LEMMA SilentAnswered ==
  ASSUME HelperType, Silent, NEW caller, caller # "disconnect", Answered(caller), OpDone(caller)
  PROVE  Silent' /\ ~Told
<1>1. ~op.valid
  BY DEF Silent, Answered
<1> QED BY <1>1, OpDoneTyped DEF Silent, Told

LEMMA ForgottenStep ==
  ASSUME TypeOK, EnrollmentIsForgotten, Next
  PROVE  EnrollmentIsForgotten'
<1>0. HelperType /\ claim \in [open : BOOLEAN, enrolled : BOOLEAN, fenced : BOOLEAN]
  BY DEF TypeOK, FlightType
<1>1. CASE Gathered
  <2>1. CASE dis' = NoFlight
    BY <2>1 DEF NoFlight, EnrollmentIsForgotten, Disconnecting
  <2>2. CASE claim' = Invalidated /\ op' = IF op = None THEN None ELSE [op EXCEPT !.valid = FALSE]
    <3>1. op' # None => ~op'.valid
      BY <1>0, <2>2 DEF HelperType, Operations
    <3> QED BY <2>2, <3>1 DEF EnrollmentIsForgotten, Invalidated
  <2> QED BY <1>1, <2>1, <2>2 DEF Gathered
<1>2. CASE ~Gathered
  <2> SUFFICES ASSUME Disconnecting' PROVE Forgotten' /\ Silent'
    BY DEF EnrollmentIsForgotten, Forgotten, Silent
  <2>1. Disconnecting /\ Forgotten /\ Silent /\ Flying
    BY <1>2, DisconnectingStep DEF EnrollmentIsForgotten, Forgotten, Silent, Disconnecting, Flying
  <2>2. Busy
    BY <2>1 DEF Busy
  <2>3. CASE UNCHANGED <<claim, op>>
    BY <2>1, <2>3 DEF Forgotten, Silent
  <2>4. CASE Status
    <3>1. UNCHANGED <<claim, op>>
      BY <2>1, <2>2, <2>4 DEF Status, AskStatus
    <3> QED BY <2>3, <3>1
  <2>5. CASE StatusAnswered \/ AdminStatusAnswered
    <3>1. \E caller \in {"status", "admin"} : Answered(caller) /\ OpDone(caller)
      BY <2>5 DEF StatusAnswered, AdminStatusAnswered
    <3>2. Silent' /\ ~Told
      BY <1>0, <2>1, <3>1, SilentAnswered
    <3>3. claim' = claim
      BY <2>5, <3>2 DEF StatusAnswered, AdminStatusAnswered, Learned
    <3> QED BY <2>1, <3>2, <3>3 DEF Forgotten
  <2>6. CASE BeginAnswered \/ PollAnswered
    <3>1. Answered("call") /\ OpDone("call")
      BY <2>6 DEF BeginAnswered, PollAnswered
    <3>2. Silent' /\ ~Told
      BY <1>0, <2>1, <3>1, SilentAnswered
    <3>3. claim' = claim \/ \E b \in BOOLEAN : claim' = [claim EXCEPT !.open = b]
      BY <2>6, <3>2 DEF BeginAnswered, PollAnswered
    <3>4. claim'.enrolled = claim.enrolled /\ claim'.fenced = claim.fenced
      BY <1>0, <3>3
    <3> QED BY <2>1, <3>2, <3>4 DEF Forgotten
  <2>7. CASE AdminAnswered
    <3>1. Answered("admin") /\ OpDone("admin") /\ claim' = claim
      BY <2>1, <2>7 DEF AdminAnswered, AdminCompleted
    <3>2. Silent'
      BY <1>0, <2>1, <3>1, SilentAnswered
    <3> QED BY <2>1, <3>1, <3>2 DEF Forgotten
  <2>8. CASE ClearCredential
    <3>1. "disconnect" \in Verbs /\ {"disconnect"} \in (SUBSET {"status", "call", "admin", "disconnect"}) \ {{}}
      BY DEF Verbs, Vault
    <3>2. op'.callers = {"disconnect"} /\ claim' = claim
      BY <1>0, <2>8, <3>1, LaunchTyped DEF ClearCredential
    <3> QED BY <2>1, <3>2 DEF Forgotten, Silent
  <2>9. CASE Deadline \/ ProxyCloses
    <3>1. claim' = claim /\ (op = None => op' = None)
      BY <2>9 DEF Deadline, ProxyCloses
    <3>2. op # None => op \in Operations
      BY <1>0 DEF HelperType
    <3>3. op # None => \/ op' = [op EXCEPT !.answer = "failed"]
                       \/ \E answer \in {"done", "failed"} : op' = [op EXCEPT !.answer = answer, !.effect = slot.effect]
      BY <2>9 DEF Deadline, ProxyCloses
    <3>4. op # None => op'.valid = op.valid /\ op'.callers = op.callers
      BY <3>2, <3>3 DEF Operations
    <3> QED BY <2>1, <3>1, <3>4 DEF Forgotten, Silent
  <2>10. CASE DisconnectAnswered
    <3>1. Answered("disconnect") /\ OpDone("disconnect") /\ claim' = claim
      BY <2>10 DEF DisconnectAnswered
    <3>2. Silent'
      <4>1. CASE op.callers = {"disconnect"}
        BY <3>1, <4>1 DEF OpDone, Silent
      <4>2. CASE ~op.valid
        BY <1>0, <3>1, <4>2, OpDoneTyped DEF Silent
      <4> QED BY <2>1, <3>1, <4>1, <4>2 DEF Silent, Answered
    <3> QED BY <2>1, <3>1, <3>2 DEF Forgotten
  <2>11. CASE AdminRevoked
    <3>1. UNCHANGED <<claim, op>>
      BY <2>1, <2>11 DEF AdminRevoked
    <3> QED BY <2>3, <3>1
  <2>12. CASE Disconnect \/ BeginOpen \/ BeginDecide \/ Poll \/ Cancel
    BY <2>1, <2>2, <2>12 DEF Disconnect, BeginOpen, BeginDecide, Poll, Cancel
  <2>13. ASSUME NEW action, AdminRead(action) \/ AdminAsk(action) \/ AdminResume(action) PROVE FALSE
    BY <2>1, <2>13 DEF AdminRead, AdminAsk, AdminResume, Administering
  <2>14. CASE Crash \/ Start
    <3>1. dis' = NoFlight
      BY <2>14 DEF Crash, Start, Memory
    <3> QED BY <3>1 DEF NoFlight, Disconnecting
  <2>15. CASE \/ ArmRelay \/ RelayArmed \/ RelayExits \/ RelayStops \/ GrantsRevoked \/ ClaimUnconfirmed
              \/ ClearAbandoned \/ Admit \/ \E o \in Owners : HelperActs(o) \/ HelperEnds(o)
    <3>1. UNCHANGED <<claim, op>>
      BY <2>15 DEF ArmRelay, RelayArmed, RelayExits, RelayStops, GrantsRevoked, ClaimUnconfirmed, ClearAbandoned,
         Admit, HelperActs, HelperEnds
    <3> QED BY <2>3, <3>1
  <2> QED BY <1>2, <2>4, <2>5, <2>6, <2>7, <2>8, <2>9, <2>10, <2>11, <2>12, <2>13, <2>14, <2>15
          DEF Next, Calls, Continue, Flights, Timers, Helper
<1> QED BY <1>1, <1>2

\* Only the answer of the clear completes a disconnect.
LEMMA OnlyAnswered ==
  ASSUME TypeOK, Next, dis.stage = "clearing", dis'.stage = "complete"
  PROVE  DisconnectAnswered
<1>1. dis \in Disconnects
  BY DEF TypeOK, FlightType
<1>2. dis'.stage # dis.stage /\ dis' # NoFlight /\ dis' # dis
  BY DEF NoFlight
<1>3. CASE Crash \/ Start \/ ClearAbandoned
  BY <1>2, <1>3 DEF Crash, Start, Memory, ClearAbandoned
<1>4. CASE Disconnect \/ ClearCredential \/ Gathered \/ ClaimUnconfirmed \/ RelayStops \/ GrantsRevoked
  BY <1>4 DEF Disconnect, ClearCredential, Gathered, ClaimUnconfirmed, RelayStops, GrantsRevoked, Flying
<1>5. CASE ProxyCloses
  BY <1>2, <1>5 DEF ProxyCloses
<1>6. CASE \/ Status \/ BeginOpen \/ BeginDecide \/ Poll \/ Cancel \/ ArmRelay \/ StatusAnswered \/ BeginAnswered
           \/ PollAnswered \/ AdminStatusAnswered \/ AdminAnswered \/ RelayArmed \/ RelayExits \/ AdminRevoked
           \/ Deadline \/ Admit \/ \E o \in Owners : HelperActs(o) \/ HelperEnds(o)
  <2>1. dis' = dis
    BY <1>6 DEF Status, BeginOpen, BeginDecide, Poll, Cancel, ArmRelay, StatusAnswered, BeginAnswered, PollAnswered,
       AdminStatusAnswered, AdminAnswered, RelayArmed, RelayExits, AdminRevoked, Deadline, Admit, HelperActs, HelperEnds
  <2> QED BY <1>2, <2>1
<1>7. ASSUME NEW action, AdminRead(action) \/ AdminAsk(action) \/ AdminResume(action) PROVE FALSE
  BY <1>2, <1>7 DEF AdminRead, AdminAsk, AdminResume
<1> QED BY <1>3, <1>4, <1>5, <1>6, <1>7 DEF Next, Calls, Continue, Flights, Timers, Helper

\* With it, a disconnect in flight stays closed: no helper writes the vault
\* beside the clear, the relay stays down, the enrollment stays forgotten.
THEOREM RemoteCorrect == Spec => []RemoteInv
<1>1. Init => QuietInv
  <2> SUFFICES ASSUME Init PROVE QuietInv
    OBVIOUS
  <2>1. alive = {} /\ slot = None /\ op = None /\ dis = NoFlight
    BY DEF Init, alive
  <2>2. ~Flying /\ ~Disconnecting /\ dis.stage = "no"
    BY <2>1 DEF Flying, Disconnecting, NoFlight
  <2> QED BY <2>1, <2>2 DEF QuietInv, FlyingIsBlocked, ClearedIsClear, RelayStaysOff, EnrollmentIsForgotten
<1>2. Base /\ MeantInv /\ QuietInv /\ [Next]_vars => QuietInv'
  <2> SUFFICES ASSUME Base, MeantInv, QuietInv, [Next]_vars PROVE QuietInv'
    OBVIOUS
  <2>1. CASE Next
    BY <2>1, BaseFacts, BlockedStep, ClearedStep, RelayStep, ForgottenStep DEF QuietInv, MeantInv
  <2>2. CASE UNCHANGED vars
    <3>1. UNCHANGED <<fence, disk, dis, claim, op, slot, relay, job, credential>>
      BY <2>2 DEF vars, store, world
    <3>2. alive' = alive
      BY <3>1 DEF alive
    <3>3. ClearedIsClear'
      BY <3>1, <3>2 DEF QuietInv, ClearedIsClear
    <3>4. FlyingIsBlocked' /\ RelayStaysOff' /\ EnrollmentIsForgotten'
      BY <3>1 DEF QuietInv, FlyingIsBlocked, RelayStaysOff, EnrollmentIsForgotten, Flying, Disconnecting
    <3> QED BY <3>3, <3>4 DEF QuietInv
  <2> QED BY <2>1, <2>2
<1>3. Spec => [](Base /\ MeantInv)
  BY MeantCorrect
<1>4. Base /\ MeantInv /\ QuietInv => RemoteInv
  BY DEF Base, RemoteInv
<1> QED BY <1>1, <1>2, <1>3, <1>4, PTL DEF Spec

\* A disconnect that answers ok leaves nothing behind: no helper, no
\* credential, no relay leg, and a record of it that a restart will honour.
THEOREM DisconnectCorrect == Spec => DisconnectIsComplete
<1> DEFINE Complete == dis.stage = "clearing" /\ dis'.stage = "complete" =>
       /\ alive = {} /\ ~credential /\ ~relay /\ ~claim.enrolled /\ fence'.recorded
       /\ ReadRecord(disk').blocked /\ Quiet(ReadRecord(disk'))
<1>1. RemoteInv /\ [Next]_vars => [Complete]_vars
  <2> SUFFICES ASSUME RemoteInv, Next, dis.stage = "clearing", dis'.stage = "complete"
               PROVE  /\ alive = {} /\ ~credential /\ ~relay /\ ~claim.enrolled /\ fence'.recorded
                      /\ ReadRecord(disk').blocked /\ Quiet(ReadRecord(disk'))
    OBVIOUS
  <2>1. Base
    BY DEF RemoteInv, Base
  <2>2. DisconnectAnswered
    BY OnlyAnswered DEF RemoteInv
  <2> DEFINE cleared == Told /\ op.effect = "cleared" /\ slot = None
  <2>3. PICK t \in RecordBlocked(Store) :
         \E u \in IF cleared THEN CompleteCleanup(t) ELSE Refused(t) :
          /\ Keep(u)
          /\ dis' = IF cleared /\ u.ok /\ dis.consent /\ dis.recorded
                    THEN [NoFlight EXCEPT !.stage = "complete"] ELSE NoFlight
    BY <2>2 DEF DisconnectAnswered
  <2>4. PICK u \in IF cleared THEN CompleteCleanup(t) ELSE Refused(t) :
          /\ Keep(u)
          /\ dis' = IF cleared /\ u.ok /\ dis.consent /\ dis.recorded
                    THEN [NoFlight EXCEPT !.stage = "complete"] ELSE NoFlight
    BY <2>3
  <2>5. cleared /\ u.ok
    BY <2>4 DEF NoFlight
  <2>6. op # None /\ op.effect = "cleared" /\ cleared \in BOOLEAN
    BY <2>2, <2>5 DEF DisconnectAnswered, Answered
  <2>7. ~credential /\ alive = {}
    BY <2>6 DEF RemoteInv, QuietInv, ClearedIsClear
  <2>8. ~relay /\ ~claim.enrolled
    BY DEF RemoteInv, QuietInv, RelayStaysOff, EnrollmentIsForgotten, Flying, Disconnecting
  <2> HIDE DEF cleared
  <2>9. fence'.recorded /\ ReadRecord(disk').blocked /\ Quiet(ReadRecord(disk'))
    BY <2>1, <2>4, <2>5, <2>6, StoreDisconnectAnswered
  <2> QED BY <2>7, <2>8, <2>9
<1> QED BY <1>1, RemoteCorrect, PTL DEF Spec, DisconnectIsComplete
=============================================================================
