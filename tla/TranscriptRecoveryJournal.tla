---------------------- MODULE TranscriptRecoveryJournal ----------------------
(***************************************************************************)
(* shell/transcript-recovery-journal.cjs: the preallocated store that keeps *)
(* a conversation's unsaved words when the ordinary transcript directory   *)
(* cannot be written.  Two files of one fixed size hold alternate          *)
(* generations of the whole record map.  A publication overwrites the      *)
(* generation that is NOT current (header, payload, fsync, commit marker,  *)
(* fsync, directory fsync) and only then moves the in-memory state to it;  *)
(* opening picks the newest generation that checks out.                    *)
(*                                                                         *)
(* The caller's calls are serialised by operationQueue (lines 415-419), so *)
(* at most one publication is on its way: `job'.  Which call comes next is *)
(* the environment's choice; a call refused by a check changes no state    *)
(* and is a disabled action here.                                          *)
(***************************************************************************)
EXTENDS Integers, FiniteSets, FiniteSetsExt

CONSTANTS Keys, Values,      \* record keys (one per node) and record values
          Absent,            \* the value of a key that has no record
          Capacity,          \* capacityBytes
          PayloadBytes(_),   \* length of encodeState(records, revision)
          ReservationIds,    \* reservation names the caller uses
          ReservationSizes,  \* the sizes it asks for
          Faults,            \* which of "kill" and "power" may happen
          MaxRevision,       \* model bound on publications
          Blank, Torn,       \* a field of zero bytes; a partly written field
          Idle, Nothing      \* no publication is running; no reservation

Gens == {0, 1}
Fields == {"header", "payload", "commit"}
Records == [Keys -> Values \union {Absent}]

\* One publication: revision and the records encoded with it.  The sha256 in
\* header and commit marker names exactly one of these.
Contents == [revision : 1..MaxRevision, records : Records]
Empty == [revision |-> 0, records |-> [k \in Keys |-> Absent]]
Cells == Contents \union {Blank, Torn}

\* A publication on its way: the file system call it waits for.
Steps == Fields \union {"sync", "syncCommit", "syncDirectory"}
Jobs == [step : Steps, next : Contents, reservation : ReservationIds \union {Nothing}]

ASSUME CapacityAssumption == Capacity \in Nat
ASSUME SizeAssumption == \A c \in Contents : PayloadBytes(c) \in Nat \ {0}
ASSUME ReservationAssumption == ReservationSizes \subseteq Nat \ {0} /\ IsFiniteSet(ReservationIds)
ASSUME FaultAssumption == Faults \subseteq {"kill", "power"}
ASSUME BoundAssumption == MaxRevision \in Nat
ASSUME FreshAssumption == /\ Blank \notin Contents /\ Torn \notin Contents
                          /\ Absent \notin Values
                          /\ Nothing \notin ReservationIds
                          /\ Nothing \notin Contents \union {Empty}
                          /\ Idle \notin Jobs

VARIABLES
  \* the process
  phase,        \* down, reserving, open, closed, unavailable or corrupt
  records, generation, revision, usedBytes,
  reservations, \* id -> reserved bytes, 0 when not live
  reservedBytes,
  job,          \* the running publication or Idle
  \* the two files
  extent,       \* absent, partial, full, or settled in a synced directory
  image,        \* what a read returns (page cache)
  durable,      \* what is on the medium
  \* observer
  acked,        \* the contents last promised: answered with ok, or recovered
  unacked       \* publications begun since

memory == <<records, generation, revision, usedBytes>>
claims == <<reservations, reservedBytes>>
files == <<extent, image, durable>>
observer == <<acked, unacked>>
vars == <<phase, memory, claims, job, files, observer>>

Current == [revision |-> revision, records |-> records]
\* Mutant: publish into the current generation.
TargetInPlace == generation
Target == 1 - generation

\* What readGeneration accepts: the three parts belong to one publication.
Whole(file) == /\ file["header"] \in Contents
               /\ file["payload"] = file["header"]
               /\ file["commit"] = file["header"]
               /\ PayloadBytes(file["header"]) <= Capacity

\* readGeneration's "nothing here yet": the payload area is not looked at.
NeverPublished(file) == file["header"] = Blank /\ file["commit"] = Blank

\* Mutant: the sort compares the generation before the revision.
NewestByGeneration(disk, g) == /\ Whole(disk[g])
                               /\ \A h \in Gens : Whole(disk[h]) => h <= g

\* loadGenerations prefers the higher revision, then the higher generation.
Newest(disk, g) == /\ Whole(disk[g])
                   /\ \A h \in Gens : Whole(disk[h]) =>
                        \/ disk[h]["header"].revision < disk[g]["header"].revision
                        \/ /\ disk[h]["header"].revision = disk[g]["header"].revision
                           /\ h <= g
-----------------------------------------------------------------------------
Init == /\ phase = "down"
        /\ records = Empty.records /\ generation = 1 /\ revision = 0 /\ usedBytes = 0
        /\ reservations = [i \in ReservationIds |-> 0] /\ reservedBytes = 0
        /\ job = Idle
        /\ extent = [g \in Gens |-> "absent"]
        /\ image = [g \in Gens |-> [f \in Fields |-> Blank]]
        /\ durable = image
        /\ acked = Empty /\ unacked = {}

ForgetMemory == /\ records' = Empty.records /\ generation' = 1
                /\ revision' = 0 /\ usedBytes' = 0
                /\ reservations' = [i \in ReservationIds |-> 0]
                /\ reservedBytes' = 0
                /\ job' = Idle

\* A new journal object: at program start, or when the transcript store's
\* explicit retry builds another one after a failed preparation.
Create == /\ phase \in {"down", "unavailable", "corrupt"}
          /\ phase' = "reserving"
          /\ UNCHANGED <<memory, claims, job, files, observer>>

\* reserveFile: an absent file is created and zero filled to its full length.
ReserveFile(g) ==
  /\ phase = "reserving"
  /\ extent[g] \in {"absent", "partial"}
  /\ g = 1 => extent[0] \in {"full", "settled"}
  /\ \E reached \in {"partial", "full"} \ {extent[g]} :
       extent' = [extent EXCEPT ![g] = reached]
  /\ UNCHANGED <<phase, memory, claims, job, image, durable, observer>>

SettleExtents ==
  /\ phase = "reserving"
  /\ \A g \in Gens : extent[g] \in {"full", "settled"}
  /\ extent # [g \in Gens |-> "settled"]
  /\ extent' = [g \in Gens |-> "settled"]
  /\ UNCHANGED <<phase, memory, claims, job, image, durable, observer>>

\* Any file system call of the preparation fails; ready rejects.
PreparationFails ==
  /\ phase = "reserving"
  /\ phase' = "unavailable"
  /\ UNCHANGED <<memory, claims, job, files, observer>>

\* The four variables that name what the journal holds.
Install(content, g) ==
  /\ records' = content.records /\ revision' = content.revision
  /\ generation' = g /\ usedBytes' = PayloadBytes(content)

\* loadGenerations with at least one generation that checks out.
LoadGeneration(g) ==
  /\ phase = "reserving"
  /\ \A h \in Gens : extent[h] = "settled"
  /\ Newest(image, g)
  /\ phase' = "open"
  /\ Install(image[g]["header"], g)
  /\ acked' = image[g]["header"] /\ unacked' = {}
  /\ UNCHANGED <<claims, job, files>>

\* loadGenerations before any publication.
LoadNothing ==
  /\ phase = "reserving"
  /\ \A h \in Gens : extent[h] = "settled" /\ NeverPublished(image[h])
  /\ phase' = "open"
  /\ acked' = Empty /\ unacked' = {}
  /\ UNCHANGED <<memory, claims, job, files>>

\* Mutant: one invalid generation is reported before a valid one is looked for.
UnrecoverableTooEarly == \E h \in Gens : ~NeverPublished(image[h]) /\ ~Whole(image[h])

\* No generation checks out and at least one is not blank.
Unrecoverable == /\ \A h \in Gens : ~Whole(image[h])
                 /\ \E h \in Gens : ~NeverPublished(image[h])

LoadCorrupt ==
  /\ phase = "reserving"
  /\ \A h \in Gens : extent[h] = "settled"
  /\ Unrecoverable
  /\ phase' = "corrupt"
  /\ UNCHANGED <<memory, claims, job, files, observer>>
-----------------------------------------------------------------------------
Ready == phase = "open" /\ job = Idle

Grantable(bytes) == usedBytes + reservedBytes + bytes <= Capacity

Reserve(id, bytes) ==
  /\ Ready
  /\ reservations[id] = 0
  /\ Grantable(bytes)
  /\ reservations' = [reservations EXCEPT ![id] = bytes]
  /\ reservedBytes' = reservedBytes + bytes
  /\ UNCHANGED <<phase, memory, job, files, observer>>

ReleaseReservation(id) ==
  /\ Ready
  /\ reservations[id] # 0
  /\ reservations' = [reservations EXCEPT ![id] = 0]
  /\ reservedBytes' = reservedBytes - reservations[id]
  /\ UNCHANGED <<phase, memory, job, files, observer>>

\* publish's checks, in the order the code makes them.
ClaimOf(reservation) == IF reservation = Nothing THEN 0 ELSE reservations[reservation]

\* Mutant: a publication without a claim may use the bytes others reserved.
AdmissibleIgnoringClaims(next, reservation, bytes) ==
  /\ PayloadBytes(next) <= Capacity
  /\ reservation # Nothing => /\ ClaimOf(reservation) # 0
                              /\ ClaimOf(reservation) = bytes
                              /\ PayloadBytes(next) <= usedBytes + ClaimOf(reservation)

Admissible(next, reservation, bytes) ==
  /\ PayloadBytes(next) <= Capacity
  /\ reservation # Nothing => /\ ClaimOf(reservation) # 0
                              /\ ClaimOf(reservation) = bytes
                              /\ PayloadBytes(next) <= usedBytes + ClaimOf(reservation)
  /\ PayloadBytes(next) + reservedBytes - ClaimOf(reservation) <= Capacity

Publish(nextRecords, reservation, bytes) ==
  LET next == [revision |-> revision + 1, records |-> nextRecords]
  IN  /\ Ready
      /\ revision < MaxRevision
      /\ Admissible(next, reservation, bytes)
      /\ job' = [step |-> "header", next |-> next, reservation |-> reservation]
      /\ unacked' = unacked \union {next}
      /\ UNCHANGED <<phase, memory, claims, files, acked>>

Put(key, value, reservation, bytes) ==
  Publish([records EXCEPT ![key] = value], reservation, bytes)

\* A key without a record is answered at once and publishes nothing.
Remove(key) ==
  /\ records[key] # Absent
  /\ Publish([records EXCEPT ![key] = Absent], Nothing, 0)

\* ensureOpen refuses every later call.
Close == /\ Ready
         /\ phase' = "closed"
         /\ UNCHANGED <<memory, claims, job, files, observer>>
-----------------------------------------------------------------------------
(* writeGeneration, one file system call at a time.                        *)

\* Mutant: the marker is written again after each sync.
AfterRetrying(step) == CASE step = "header"  -> "payload"
                         [] step = "payload" -> "sync"
                         [] step = "sync"    -> "commit"
                         [] step = "commit"  -> "syncCommit"
                         [] OTHER            -> "commit"

After(step) == CASE step = "header"  -> "payload"
                 [] step = "payload" -> "sync"
                 [] step = "sync"    -> "commit"
                 [] step = "commit"  -> "syncCommit"
                 [] step = "syncCommit" -> "syncDirectory"

Running == phase = "open" /\ job # Idle

WriteField(field) ==
  /\ Running
  /\ job.step = field
  /\ image' = [image EXCEPT ![Target] = [@ EXCEPT ![field] = job.next]]
  /\ job' = [job EXCEPT !.step = After(field)]
  /\ UNCHANGED <<phase, memory, claims, extent, durable, observer>>

\* Mutant: the handle that is synced is the current generation's.
SyncOfCurrent(step) ==
  /\ Running
  /\ job.step = step
  /\ durable' = [durable EXCEPT ![generation] = image[generation]]
  /\ job' = [job EXCEPT !.step = After(step)]
  /\ UNCHANGED <<phase, memory, claims, extent, image, observer>>

Sync(step) ==
  /\ Running
  /\ job.step = step
  /\ durable' = [durable EXCEPT ![Target] = image[Target]]
  /\ job' = [job EXCEPT !.step = After(step)]
  /\ UNCHANGED <<phase, memory, claims, extent, image, observer>>

\* Mutant: the spent reservation is subtracted but not deleted.
SpendClaimOnce(reservation) == /\ reservations' = reservations
                               /\ reservedBytes' = reservedBytes - ClaimOf(reservation)

SpendClaim(reservation) ==
  /\ reservations' = [i \in ReservationIds |->
                        IF i = reservation THEN 0 ELSE reservations[i]]
  /\ reservedBytes' = reservedBytes - ClaimOf(reservation)

\* The directory is synced (or the platform has no such call): publish drops
\* the spent reservation, moves the memory over and answers ok.
Acknowledge ==
  /\ Running
  /\ job.step = "syncDirectory"
  /\ SpendClaim(job.reservation)
  /\ Install(job.next, Target)
  /\ job' = Idle
  /\ acked' = job.next /\ unacked' = {}
  /\ UNCHANGED <<phase, files>>

\* Mutant: the records are installed before the publication is known to be good.
PublicationFailsAfterAdopting ==
  /\ Running
  /\ records' = job.next.records
  /\ job' = Idle
  /\ UNCHANGED <<phase, generation, revision, usedBytes, claims, files, observer>>

\* A write that was in progress may have written part of its field.
InterruptedWrite ==
  IF Running /\ job.step \in Fields
    THEN \E left \in {image[Target][job.step], Torn} :
           image' = [image EXCEPT ![Target] = [@ EXCEPT ![job.step] = left]]
    ELSE UNCHANGED image

\* A call of writeGeneration fails.  Memory and reservations stay; the caller is told the prior
\* generation remains authoritative.
PublicationFails ==
  /\ Running
  /\ InterruptedWrite
  /\ job' = Idle
  /\ UNCHANGED <<phase, memory, claims, extent, durable, observer>>
-----------------------------------------------------------------------------
InFlight(g, field) == Running /\ g = Target /\ job.step = field

\* The process ends at any point; the page cache survives it.
Kill ==
  /\ "kill" \in Faults
  /\ phase # "down"
  /\ phase' = "down"
  /\ ForgetMemory
  /\ InterruptedWrite
  /\ UNCHANGED <<extent, durable, observer>>

\* The machine stops.  A field not yet synced is on the medium as it was, as
\* it was last written, or in part; an extent not settled may be shorter.
Survivors(g, field) ==
  {durable[g][field], image[g][field]} \union
  (IF durable[g][field] # image[g][field] \/ InFlight(g, field) THEN {Torn} ELSE {})

SurvivingFiles(g) == {file \in [Fields -> UNION {Survivors(g, f) : f \in Fields}] :
                        \A f \in Fields : file[f] \in Survivors(g, f)}

ShorterExtents(g) == IF extent[g] \in {"absent", "settled"} THEN {extent[g]}
                     ELSE {"absent", "partial", extent[g]}

PowerLoss ==
  /\ "power" \in Faults
  /\ phase' = "down"
  /\ ForgetMemory
  /\ \E first \in SurvivingFiles(0), second \in SurvivingFiles(1) :
       image' = [g \in Gens |-> IF g = 0 THEN first ELSE second]
  /\ durable' = image'
  /\ \E first \in ShorterExtents(0), second \in ShorterExtents(1) :
       extent' = [g \in Gens |-> IF g = 0 THEN first ELSE second]
  /\ UNCHANGED observer
-----------------------------------------------------------------------------
Opening == \/ Create \/ SettleExtents \/ PreparationFails \/ LoadNothing \/ LoadCorrupt
           \/ \E g \in Gens : ReserveFile(g) \/ LoadGeneration(g)

Calling == \/ \E id \in ReservationIds, bytes \in ReservationSizes : Reserve(id, bytes)
           \/ \E id \in ReservationIds : ReleaseReservation(id)
           \/ \E key \in Keys, value \in Values : Put(key, value, Nothing, 0)
           \/ \E key \in Keys, value \in Values,
                 id \in ReservationIds, bytes \in ReservationSizes : Put(key, value, id, bytes)
           \/ \E key \in Keys : Remove(key)
           \/ Close

Writing == \/ \E field \in Fields : WriteField(field)
           \/ Sync("sync") \/ Sync("syncCommit")
           \/ Acknowledge

Next == Opening \/ Calling \/ Writing \/ PublicationFails \/ Kill \/ PowerLoss

Spec == Init /\ [][Next]_vars

\* Every file system call of a running publication returns, well or badly.
FairSpec == Spec /\ WF_vars(Writing \/ PublicationFails)
-----------------------------------------------------------------------------
\* Every variable holds what the code can put there; reservedBytes counts down
\* by subtraction, so its sign is a property (ReservationsAddUp) and not a type.
TypeOK ==
  /\ phase \in {"down", "reserving", "open", "closed", "unavailable", "corrupt"}
  /\ records \in Records /\ generation \in Gens /\ revision \in Nat /\ usedBytes \in Nat
  /\ reservations \in [ReservationIds -> Nat] /\ reservedBytes \in Int
  /\ job \in Jobs \union {Idle}
  /\ extent \in [Gens -> {"absent", "partial", "full", "settled"}]
  /\ image \in [Gens -> [Fields -> Cells]]
  /\ durable \in [Gens -> [Fields -> Cells]]
  /\ acked \in Contents \union {Empty}
  /\ unacked \subseteq Contents

\* The running total kept by += and -= over three handlers is the sum of the
\* live reservations, through failed publications and crashes.
ReservationsAddUp ==
  reservedBytes = MapThenSumSet(LAMBDA i : reservations[i], ReservationIds)

\* Published bytes and live claims never exceed the fixed extent together:
\* every claim granted can still be honoured (lines 388-399, 442).
CapacityHeld == usedBytes + reservedBytes <= Capacity

\* A file holds nothing that recovery must not see.
Promised(content) == content = acked \/ content \in unacked

\* disk would be recovered as something promised (never as an older state,
\* never as a mixture, never as corrupt once a publication was answered).
Recoverable(disk) ==
  \/ \E g \in Gens : Newest(disk, g) /\ Promised(disk[g]["header"])
  \/ /\ acked = Empty
     /\ \A g \in Gens : ~Whole(disk[g])

\* Whenever the process dies, what it leaves in the page cache is recovered as
\* the last acknowledged contents or a publication that was under way.
KilledRecovers == Recoverable(image)

\* Whenever the power fails, whatever part of the unsynced writes reached the
\* medium: the same.
PowerLossRecovers ==
  \A first \in SurvivingFiles(0), second \in SurvivingFiles(1) :
     Recoverable([g \in Gens |-> IF g = 0 THEN first ELSE second])

\* The generation in memory is the one on disk while the journal is open, so
\* a refused publication left nothing behind that a call can observe.
MemoryIsOnDisk ==
  phase = "open" /\ revision > 0 =>
     Whole(image[generation]) /\ image[generation]["header"] = Current

\* The journal opens again after every crash once a publication was answered
\* or recovered; otherwise every turn is refused for good.
CorruptOnlyBeforeFirstAck == phase = "corrupt" => acked = Empty

\* "The prior generation remains authoritative" (line 331), before any
\* publication succeeded: the journal that was empty can be opened again.  The
\* code breaks it: a first publication cut short leaves one file torn and the
\* other blank, which reads as corrupt.
InterruptedFirstPublicationReadable == phase # "corrupt"

\* A call that was let through is answered: the caller is never left waiting.
PublicationSettles == (job # Idle) ~> (job = Idle)

\* The register the journal implements.
Promise == INSTANCE TranscriptRecoveryPromise WITH
             promised <- acked, attempted <- unacked,
             visible <- IF phase = "open" THEN Current ELSE Nothing,
             Contents <- Contents, Empty <- Empty, Nothing <- Nothing
PromiseSpec == Promise!PromiseSpec
=============================================================================
