------------------- MODULE TranscriptRecoveryJournalProofs -------------------
(***************************************************************************)
(* TLAPS proofs about TranscriptRecoveryJournal, for every set of keys,    *)
(* values and reservations, every capacity and every payload size.         *)
(***************************************************************************)
EXTENDS TranscriptRecoveryJournal, FiniteSetTheorems, WellFoundedInduction, TLAPS

\* The publication's own file is one of the two, and never the current one.
LEMMA TargetIsOther ==
  ASSUME generation \in Gens
  PROVE  Target \in Gens /\ Target # generation
BY SMT DEF Gens, Target

\* Reading a claim of Nothing or of a known id gives a number of bytes.
LEMMA ClaimIsNat ==
  ASSUME NEW r \in ReservationIds \union {Nothing},
         reservations \in [ReservationIds -> Nat]
  PROVE  ClaimOf(r) \in Nat
BY DEF ClaimOf

\* Replacing one field by a cell leaves two well-formed files.
LEMMA FieldReplaced ==
  ASSUME NEW disk \in [Gens -> [Fields -> Cells]], NEW g \in Gens,
         NEW f \in Fields, NEW c \in Cells
  PROVE  [disk EXCEPT ![g] = [@ EXCEPT ![f] = c]] \in [Gens -> [Fields -> Cells]]
OBVIOUS

\* What the medium may hold after a power loss is well formed.
LEMMA SurvivorsWellFormed ==
  ASSUME NEW g \in Gens, NEW file \in SurvivingFiles(g),
         image \in [Gens -> [Fields -> Cells]],
         durable \in [Gens -> [Fields -> Cells]]
  PROVE  file \in [Fields -> Cells]
<1>1. \A f \in Fields : file[f] \in Cells
  <2> SUFFICES ASSUME NEW f \in Fields PROVE file[f] \in Cells
    OBVIOUS
  <2>1. file[f] \in Survivors(g, f)
    BY DEF SurvivingFiles
  <2>2. image[g][f] \in Cells /\ durable[g][f] \in Cells /\ Torn \in Cells
    BY DEF Cells
  <2> QED BY <2>1, <2>2 DEF Survivors
<1>2. file \in [Fields -> UNION {Survivors(g, f) : f \in Fields}]
  BY DEF SurvivingFiles
<1> QED BY <1>1, <1>2

\* The successor of the memory's contents is a publication.
LEMMA NextIsContents ==
  ASSUME NEW rs \in Records, revision \in Nat, revision < MaxRevision
  PROVE  [revision |-> revision + 1, records |-> rs] \in Contents
BY BoundAssumption DEF Contents

\* A step that only starts a publication keeps the types.
LEMMA PublishKeepsType ==
  ASSUME TypeOK, NEW rs \in Records, NEW r \in ReservationIds \union {Nothing},
         NEW bytes, Publish(rs, r, bytes)
  PROVE  TypeOK'
<1> DEFINE next == [revision |-> revision + 1, records |-> rs]
<1>1. next \in Contents
  BY NextIsContents DEF Publish, TypeOK
<1>2. job' \in Jobs
  <2>1. job' = [step |-> "header", next |-> next, reservation |-> r]
    BY DEF Publish
  <2> QED BY <1>1, <2>1 DEF Jobs, Steps, Fields
<1>3. unacked' \subseteq Contents
  BY <1>1 DEF Publish, TypeOK
<1> QED BY <1>2, <1>3 DEF Publish, TypeOK, memory, claims, files

\* Installing a publication keeps the memory typed.
LEMMA InstallKeepsType ==
  ASSUME NEW c \in Contents, NEW g \in Gens, Install(c, g)
  PROVE  /\ records' \in Records /\ revision' \in Nat
         /\ generation' \in Gens /\ usedBytes' \in Nat
BY SizeAssumption, BoundAssumption DEF Install, Contents

\* A crash that only forgets the memory and keeps well-formed files.
LEMMA ForgetKeepsType ==
  ASSUME ForgetMemory
  PROVE  /\ records' \in Records /\ revision' \in Nat /\ generation' \in Gens
         /\ usedBytes' \in Nat /\ reservations' \in [ReservationIds -> Nat]
         /\ reservedBytes' \in Int /\ job' \in Jobs \union {Idle}
BY DEF ForgetMemory, Empty, Records, Gens

\* A half-written field is still a cell.
LEMMA InterruptedKeepsType ==
  ASSUME TypeOK, InterruptedWrite
  PROVE  image' \in [Gens -> [Fields -> Cells]]
<1>1. CASE Running /\ job.step \in Fields
  <2>1. PICK left \in {image[Target][job.step], Torn} :
          image' = [image EXCEPT ![Target] = [@ EXCEPT ![job.step] = left]]
    BY <1>1 DEF InterruptedWrite
  <2>2. Target \in Gens
    BY TargetIsOther DEF TypeOK
  <2>3. left \in Cells
    BY <1>1, <2>2 DEF TypeOK, Cells
  <2> QED BY <1>1, <2>1, <2>2, <2>3, FieldReplaced DEF TypeOK
<1>2. CASE ~(Running /\ job.step \in Fields)
  BY <1>2 DEF InterruptedWrite, TypeOK
<1> QED BY <1>1, <1>2

\* Types are kept by opening: shell/transcript-recovery-journal.cjs 348-365.
LEMMA OpeningKeepsType == TypeOK /\ Opening => TypeOK'
<1> SUFFICES ASSUME TypeOK, Opening PROVE TypeOK'
  OBVIOUS
<1>1. CASE Create \/ PreparationFails \/ LoadCorrupt
  BY <1>1 DEF Create, PreparationFails, LoadCorrupt, TypeOK, memory, claims, files, observer
<1>2. CASE LoadNothing
  BY <1>2 DEF LoadNothing, TypeOK, memory, claims, files
<1>3. CASE SettleExtents
  BY <1>3 DEF SettleExtents, TypeOK, memory, claims, observer
<1>4. ASSUME NEW g \in Gens, ReserveFile(g) PROVE TypeOK'
  BY <1>4 DEF ReserveFile, TypeOK, memory, claims, observer
<1>5. ASSUME NEW g \in Gens, LoadGeneration(g) PROVE TypeOK'
  <2>1. image[g]["header"] \in Contents
    BY <1>5 DEF LoadGeneration, Newest, Whole
  <2>2. Install(image[g]["header"], g)
    BY <1>5 DEF LoadGeneration
  <2> QED BY <1>5, <2>1, <2>2, InstallKeepsType DEF LoadGeneration, TypeOK, claims, files
<1> QED BY <1>1, <1>2, <1>3, <1>4, <1>5 DEF Opening

\* Types are kept by the caller's operations: lines 420-494.
LEMMA CallingKeepsType == TypeOK /\ Calling => TypeOK'
<1> SUFFICES ASSUME TypeOK, Calling PROVE TypeOK'
  OBVIOUS
<1>1. ASSUME NEW id \in ReservationIds, NEW bytes \in ReservationSizes, Reserve(id, bytes)
      PROVE  TypeOK'
  <2>1. bytes \in Nat
    BY ReservationAssumption
  <2> QED BY <1>1, <2>1 DEF Reserve, TypeOK, memory, files, observer
<1>2. ASSUME NEW id \in ReservationIds, ReleaseReservation(id) PROVE TypeOK'
  BY <1>2 DEF ReleaseReservation, TypeOK, memory, files, observer
<1>3. ASSUME NEW key \in Keys, NEW value \in Values \union {Absent},
             NEW r \in ReservationIds \union {Nothing}, NEW bytes,
             Publish([records EXCEPT ![key] = value], r, bytes)
      PROVE  TypeOK'
  <2>1. [records EXCEPT ![key] = value] \in Records
    BY DEF TypeOK, Records
  <2> QED BY <1>3, <2>1, PublishKeepsType
<1>4. CASE Close
  BY <1>4 DEF Close, TypeOK, memory, claims, files, observer
<1> QED BY <1>1, <1>2, <1>3, <1>4 DEF Calling, Put, Remove

\* Types are kept by writeGeneration and by its failures: lines 280-313, 400-413.
LEMMA WritingKeepsType == TypeOK /\ (Writing \/ PublicationFails) => TypeOK'
<1> SUFFICES ASSUME TypeOK, Writing \/ PublicationFails PROVE TypeOK'
  OBVIOUS
<1>1. Target \in Gens
  BY TargetIsOther DEF TypeOK
<1>2. Running => job \in Jobs /\ job.next \in Contents
                 /\ job.reservation \in ReservationIds \union {Nothing}
  BY DEF Running, TypeOK, Jobs
<1>3. ASSUME NEW f \in Fields, WriteField(f) PROVE TypeOK'
  <2>1. image' \in [Gens -> [Fields -> Cells]]
    BY <1>1, <1>2, <1>3, FieldReplaced DEF WriteField, TypeOK, Cells
  <2>2. job' \in Jobs
    BY <1>2, <1>3 DEF WriteField, Jobs, After, Fields, Steps
  <2> QED BY <1>3, <2>1, <2>2 DEF WriteField, TypeOK, memory, claims, observer
<1>4. ASSUME NEW step \in {"sync", "syncCommit"}, Sync(step) PROVE TypeOK'
  <2>1. durable' \in [Gens -> [Fields -> Cells]]
    BY <1>1, <1>4 DEF Sync, TypeOK
  <2>2. job' \in Jobs
    BY <1>2, <1>4 DEF Sync, Jobs, After, Fields, Steps
  <2> QED BY <1>4, <2>1, <2>2 DEF Sync, TypeOK, memory, claims, observer
<1>5. CASE Acknowledge
  <2>1. /\ reservations' \in [ReservationIds -> Nat]
        /\ reservedBytes' \in Int
    BY <1>2, <1>5, ClaimIsNat DEF Acknowledge, SpendClaim, TypeOK
  <2> QED BY <1>1, <1>2, <1>5, <2>1, InstallKeepsType DEF Acknowledge, TypeOK, files
<1>6. CASE PublicationFails
  <2>1. image' \in [Gens -> [Fields -> Cells]]
    BY <1>6, InterruptedKeepsType DEF PublicationFails
  <2> QED BY <1>6, <2>1 DEF PublicationFails, TypeOK, memory, claims, observer
<1> QED BY <1>3, <1>4, <1>5, <1>6 DEF Writing

\* Types are kept by the two faults.
LEMMA FaultsKeepType == TypeOK /\ (Kill \/ PowerLoss) => TypeOK'
<1> SUFFICES ASSUME TypeOK, Kill \/ PowerLoss PROVE TypeOK'
  OBVIOUS
<1>1. CASE Kill
  <2>1. image' \in [Gens -> [Fields -> Cells]]
    BY <1>1, InterruptedKeepsType DEF Kill
  <2> QED BY <1>1, <2>1, ForgetKeepsType DEF Kill, TypeOK, observer
<1>2. CASE PowerLoss
  <2>1. PICK first \in SurvivingFiles(0), second \in SurvivingFiles(1) :
          image' = [g \in Gens |-> IF g = 0 THEN first ELSE second]
    BY <1>2 DEF PowerLoss
  <2>2. image' \in [Gens -> [Fields -> Cells]]
    BY <2>1, SurvivorsWellFormed DEF TypeOK, Gens
  <2>3. extent' \in [Gens -> {"absent", "partial", "full", "settled"}]
    <3>1. \A g \in Gens : ShorterExtents(g) \subseteq {"absent", "partial", "full", "settled"}
      BY DEF ShorterExtents, TypeOK
    <3>2. PICK first2 \in ShorterExtents(0), second2 \in ShorterExtents(1) :
            extent' = [g \in Gens |-> IF g = 0 THEN first2 ELSE second2]
      BY <1>2 DEF PowerLoss
    <3> QED BY <3>1, <3>2 DEF Gens
  <2> QED BY <1>2, <2>2, <2>3, ForgetKeepsType DEF PowerLoss, TypeOK, observer
<1> QED BY <1>1, <1>2

LEMMA TypeInit == Init => TypeOK
BY DEF Init, TypeOK, Empty, Records, Gens, Cells

\* Every variable of the journal and of its two files keeps its type.
THEOREM TypeCorrect == Spec => []TypeOK
<1>1. TypeOK /\ [Next]_vars => TypeOK'
  <2>1. CASE UNCHANGED vars
    BY <2>1 DEF TypeOK, vars, memory, claims, files, observer
  <2> QED BY <2>1, OpeningKeepsType, CallingKeepsType, WritingKeepsType,
             FaultsKeepType DEF Next
<1> QED BY TypeInit, <1>1, PTL DEF Spec
-----------------------------------------------------------------------------
(***************************************************************************)
(* Capacity: what is published and what is promised fit together.          *)
(***************************************************************************)

\* A journal that is not open yet holds nothing; only an open one publishes.
Fresh == /\ phase \notin {"open", "closed"} =>
              /\ records = Empty.records /\ generation = 1
              /\ revision = 0 /\ usedBytes = 0 /\ reservedBytes = 0
         /\ job # Idle => phase = "open"

\* A running publication passed publish's checks, and nothing that the checks
\* looked at changes before it is acknowledged.
CheckedJob == job # Idle => PayloadBytes(job.next) + reservedBytes
                              - ClaimOf(job.reservation) <= Capacity

CapacityInv == TypeOK /\ Fresh /\ CapacityHeld /\ CheckedJob

LEMMA InitCapacity == Init => CapacityInv
BY CapacityAssumption, TypeInit DEF Init, CapacityInv, Fresh, CapacityHeld, CheckedJob, Empty

LEMMA OpeningKeepsCapacity == CapacityInv /\ Opening => CapacityInv'
<1> SUFFICES ASSUME CapacityInv, Opening PROVE CapacityInv'
  OBVIOUS
<1>0. TypeOK'
  BY OpeningKeepsType DEF CapacityInv
<1>1. CASE Create \/ PreparationFails \/ LoadCorrupt \/ SettleExtents \/ LoadNothing
           \/ \E g \in Gens : ReserveFile(g)
  BY <1>0, <1>1 DEF Create, PreparationFails, LoadCorrupt, SettleExtents, ReserveFile,
       LoadNothing, CapacityInv, Fresh, CapacityHeld, CheckedJob, ClaimOf, memory, claims
<1>2. ASSUME NEW g \in Gens, LoadGeneration(g) PROVE CapacityInv'
  <2>1. /\ PayloadBytes(image[g]["header"]) <= Capacity
        /\ usedBytes' = PayloadBytes(image[g]["header"])
    BY <1>2 DEF LoadGeneration, Newest, Whole, Install
  <2>2. reservedBytes' = 0 /\ job' = Idle /\ phase' = "open"
    BY <1>2 DEF LoadGeneration, CapacityInv, Fresh, claims
  <2>3. usedBytes' \in Nat
    BY <1>0 DEF TypeOK
  <2> QED BY <1>0, <2>1, <2>2, <2>3 DEF CapacityInv, Fresh, CapacityHeld, CheckedJob
<1> QED BY <1>1, <1>2 DEF Opening

LEMMA CallingKeepsCapacity == CapacityInv /\ Calling => CapacityInv'
<1> SUFFICES ASSUME CapacityInv, Calling PROVE CapacityInv'
  OBVIOUS
<1>0. TypeOK'
  BY CallingKeepsType DEF CapacityInv
<1>1. ASSUME NEW id \in ReservationIds, NEW bytes \in ReservationSizes, Reserve(id, bytes)
      PROVE  CapacityInv'
  <2>1. bytes \in Nat
    BY ReservationAssumption
  <2> QED BY <1>0, <1>1, <2>1, CapacityAssumption
          DEF Reserve, Grantable, Ready, TypeOK, CapacityInv, Fresh, CapacityHeld,
              CheckedJob, memory
<1>2. ASSUME NEW id \in ReservationIds, ReleaseReservation(id) PROVE CapacityInv'
  <2>1. reservations[id] \in Nat
    BY DEF CapacityInv, TypeOK
  <2> QED BY <1>0, <1>2, <2>1, CapacityAssumption
          DEF ReleaseReservation, Ready, TypeOK, CapacityInv, Fresh, CapacityHeld,
              CheckedJob, memory
<1>3. ASSUME NEW rs, NEW r, NEW bytes, Publish(rs, r, bytes) PROVE CapacityInv'
  <2> DEFINE next == [revision |-> revision + 1, records |-> rs]
  <2>1. PayloadBytes(next) + reservedBytes - ClaimOf(r) <= Capacity
    BY <1>3 DEF Publish, Admissible
  <2>2. /\ job' = [step |-> "header", next |-> next, reservation |-> r]
        /\ phase = "open" /\ UNCHANGED <<phase, usedBytes, reservations, reservedBytes>>
    BY <1>3 DEF Publish, Ready, memory, claims
  <2>3. CheckedJob'
    BY <2>1, <2>2 DEF CheckedJob, ClaimOf
  <2> QED BY <1>0, <2>2, <2>3 DEF CapacityInv, Fresh, CapacityHeld
<1>4. CASE Close
  BY <1>0, <1>4 DEF Close, Ready, CapacityInv, Fresh, CapacityHeld, CheckedJob, ClaimOf,
       memory, claims
<1> QED BY <1>1, <1>2, <1>3, <1>4 DEF Calling, Put, Remove

LEMMA WritingKeepsCapacity == CapacityInv /\ (Writing \/ PublicationFails) => CapacityInv'
<1> SUFFICES ASSUME CapacityInv, Writing \/ PublicationFails PROVE CapacityInv'
  OBVIOUS
<1>0. TypeOK'
  BY WritingKeepsType DEF CapacityInv
<1>1. CASE \/ \E f \in Fields : WriteField(f)
           \/ Sync("sync") \/ Sync("syncCommit")
  <2>1. Running /\ UNCHANGED <<phase, memory, claims>> /\ \E s : job' = [job EXCEPT !.step = s]
    BY <1>1 DEF WriteField, Sync
  <2>2. job \in Jobs
    BY <2>1 DEF Running, CapacityInv, TypeOK
  <2>3. job'.next = job.next /\ job'.reservation = job.reservation
    BY <2>1, <2>2 DEF Jobs
  <2> QED BY <1>0, <2>1, <2>3 DEF CapacityInv, Fresh, CapacityHeld, CheckedJob, ClaimOf,
               Running, memory, claims
<1>2. CASE Acknowledge
  <2>1. /\ usedBytes' = PayloadBytes(job.next)
        /\ reservedBytes' = reservedBytes - ClaimOf(job.reservation)
        /\ job' = Idle /\ phase' = "open" /\ job # Idle
    BY <1>2 DEF Acknowledge, SpendClaim, Install, Running
  <2>2. job.next \in Contents /\ job.reservation \in ReservationIds \union {Nothing}
    BY <2>1 DEF CapacityInv, TypeOK, Jobs
  <2>3. PayloadBytes(job.next) \in Nat /\ ClaimOf(job.reservation) \in Nat
        /\ reservedBytes \in Int
    BY <2>2, SizeAssumption, ClaimIsNat DEF CapacityInv, TypeOK
  <2> QED BY <1>0, <2>1, <2>3, CapacityAssumption
          DEF CapacityInv, Fresh, CapacityHeld, CheckedJob
<1>3. CASE PublicationFails
  BY <1>0, <1>3 DEF PublicationFails, CapacityInv, Fresh, CapacityHeld, CheckedJob,
       Running, memory, claims
<1> QED BY <1>1, <1>2, <1>3 DEF Writing

\* Published bytes and live claims fit the fixed extent together, in every
\* reachable state (publish lines 374-399, reserve line 442).
THEOREM CapacityCorrect == Spec => []CapacityHeld
<1>1. CapacityInv /\ [Next]_vars => CapacityInv'
  <2>1. CASE UNCHANGED vars
    BY <2>1 DEF CapacityInv, TypeOK, Fresh, CapacityHeld, CheckedJob, ClaimOf, vars,
         memory, claims, files, observer
  <2>2. ASSUME CapacityInv, Kill \/ PowerLoss PROVE CapacityInv'
    BY <2>2, FaultsKeepType, CapacityAssumption
       DEF Kill, PowerLoss, ForgetMemory, CapacityInv, Fresh, CapacityHeld, CheckedJob
  <2> QED BY <2>1, <2>2, OpeningKeepsCapacity, CallingKeepsCapacity,
             WritingKeepsCapacity DEF Next
<1>2. CapacityInv => CapacityHeld
  BY DEF CapacityInv
<1> QED BY <1>1, <1>2, InitCapacity, PTL DEF Spec
-----------------------------------------------------------------------------
(***************************************************************************)
(* Recovery.  With one kind of fault only, what a restart can find is: one *)
(* file that holds the promised contents in every field (home), and another*)
(* that checks out only as something older or as a publication begun since.*)
(***************************************************************************)
SingleFault == "kill" \notin Faults \/ "power" \notin Faults

\* The values a field may show after the next fault, leaving aside torn ones.
Showing(g, f) == IF "power" \in Faults THEN {image[g][f], durable[g][f]}
                                       ELSE {image[g][f]}

\* File g could be found whole with contents c.
Possible(g, c) == \A f \in Fields : c \in Showing(g, f)

NotHome(g) == \A c \in Contents : Possible(g, c) =>
                 c \in unacked \/ c.revision < acked.revision

HomeAt(g) == /\ acked \in Contents /\ PayloadBytes(acked) <= Capacity
             /\ \A f \in Fields : Showing(g, f) = {acked}
             /\ NotHome(1 - g)

\* Before the first promise the publications go to file 0.
NoHome == /\ acked = Empty
          /\ NotHome(0)
          /\ \A c \in Contents : ~Possible(1, c)

StoreInv == NoHome \/ \E g \in Gens : HomeAt(g)

OpenInv == phase = "open" => /\ acked = Current
                             /\ revision = 0 => NoHome /\ generation = 1
                             /\ revision # 0 => HomeAt(generation)

UnackedInv == \A c \in unacked : /\ c.revision = acked.revision + 1
                                 /\ PayloadBytes(c) <= Capacity

\* After a power loss the page cache is what the medium holds.
CleanInv == "power" \in Faults /\ phase \notin {"open", "closed"} => durable = image

\* What a publication has written so far.
JobInv == job # Idle =>
  /\ job.next \in unacked
  /\ job.step # "header" => image[Target]["header"] = job.next
  /\ job.step \notin {"header", "payload"} => image[Target]["payload"] = job.next
  /\ job.step \in {"syncCommit", "syncDirectory"} => image[Target]["commit"] = job.next
  /\ job.step = "syncDirectory" => durable[Target] = image[Target]

RecoveryInv == /\ TypeOK /\ Fresh
               /\ UnackedInv /\ CleanInv /\ StoreInv /\ OpenInv /\ JobInv

\* A file gains no new way to check out, except as a publication begun since.
LEMMA NotHomeKept ==
  ASSUME NEW g \in Gens, NotHome(g), acked' = acked, unacked \subseteq unacked',
         \A f \in Fields : Showing(g, f)' \subseteq Showing(g, f) \union {Torn} \union unacked'
  PROVE  NotHome(g)'
<1> SUFFICES ASSUME NEW c \in Contents, Possible(g, c)', c \notin unacked'
             PROVE  c.revision < acked.revision
  BY DEF NotHome
<1>1. \A f \in Fields : c \in Showing(g, f)
  BY FreshAssumption DEF Possible
<1> QED BY <1>1 DEF NotHome, Possible

LEMMA HomeKept ==
  ASSUME NEW g \in Gens, HomeAt(g), acked' = acked, unacked \subseteq unacked',
         \A f \in Fields : Showing(g, f)' = Showing(g, f),
         \A f \in Fields : Showing(1 - g, f)'
                             \subseteq Showing(1 - g, f) \union {Torn} \union unacked'
  PROVE  HomeAt(g)'
<1>1. 1 - g \in Gens
  BY DEF Gens
<1>2. NotHome(1 - g)'
  BY <1>1, NotHomeKept DEF HomeAt
<1> QED BY <1>2 DEF HomeAt

LEMMA NoHomeKept ==
  ASSUME NoHome, acked' = acked, unacked \subseteq unacked',
         \A f \in Fields : Showing(1, f)' \subseteq Showing(1, f) \union {Torn},
         \A f \in Fields : Showing(0, f)' \subseteq Showing(0, f) \union {Torn} \union unacked'
  PROVE  NoHome'
<1>1. NotHome(0)'
  BY NotHomeKept DEF NoHome, Gens
<1>2. \A c \in Contents : ~Possible(1, c)'
  BY FreshAssumption DEF NoHome, Possible
<1> QED BY <1>1, <1>2 DEF NoHome

\* Where the promised contents live, whatever the phase.
LEMMA StoreCases ==
  ASSUME RecoveryInv
  PROVE  \/ NoHome /\ (phase = "open" => generation = 1 /\ Target = 0)
         \/ \E g \in Gens : HomeAt(g) /\ (phase = "open" => g = generation)
<1>1. CASE phase = "open" /\ revision = 0
  BY <1>1 DEF RecoveryInv, OpenInv, Target
<1>2. CASE phase = "open" /\ revision # 0
  BY <1>2 DEF RecoveryInv, OpenInv, TypeOK
<1>3. CASE phase # "open"
  BY <1>3 DEF RecoveryInv, StoreInv
<1> QED BY <1>1, <1>2, <1>3

\* Steps of an open journal that touch the target file t only.
LEMMA OpenStoreKept ==
  ASSUME RecoveryInv, phase = "open", acked' = acked, unacked \subseteq unacked',
         UNCHANGED <<records, generation, revision>>,
         NEW t \in Gens, Target = t,
         \A f \in Fields : Showing(1 - t, f)' = Showing(1 - t, f),
         \A f \in Fields : Showing(t, f)' \subseteq Showing(t, f) \union {Torn} \union unacked'
  PROVE  StoreInv' /\ OpenInv'
<1>0. generation = 1 - t /\ 1 - t \in Gens /\ 1 - (1 - t) = t
  BY DEF Gens, Target, RecoveryInv, TypeOK
<1>1. CASE revision = 0
  <2>1. NoHome /\ t = 0 /\ generation = 1
    BY <1>0, <1>1 DEF RecoveryInv, OpenInv, Gens
  <2>2. 1 - t = 1
    BY <2>1
  <2>3. NoHome'
    BY <2>1, <2>2, NoHomeKept
  <2> QED BY <1>1, <2>1, <2>3 DEF RecoveryInv, OpenInv, StoreInv, Current
<1>2. CASE revision # 0
  <2>1. HomeAt(1 - t)
    BY <1>0, <1>2 DEF RecoveryInv, OpenInv
  <2>2. HomeAt(1 - t)'
    BY <1>0, <2>1, HomeKept
  <2> QED BY <1>0, <1>2, <2>2 DEF RecoveryInv, OpenInv, StoreInv, Current
<1> QED BY <1>1, <1>2

\* A power loss shows no more than was possible before it, and torn fields.
LEMMA SurvivorsShow ==
  ASSUME "power" \in Faults, NEW g \in Gens, NEW file \in SurvivingFiles(g), NEW f \in Fields
  PROVE  /\ file[f] \in Showing(g, f) \union {Torn}
         /\ (\A v : Showing(g, f) = {v} /\ ~InFlight(g, f) => file[f] = v)
<1>1. file[f] \in Survivors(g, f)
  BY DEF SurvivingFiles
<1> QED BY <1>1 DEF Survivors, Showing

LEMMA RecoveryInit == Init => RecoveryInv
<1> SUFFICES ASSUME Init PROVE RecoveryInv
  OBVIOUS
<1>1. TypeOK
  BY TypeInit
<1>2. \A g \in Gens, f \in Fields : Showing(g, f) = {Blank}
  BY DEF Init, Showing
<1>3. NoHome
  BY <1>2, FreshAssumption DEF Init, NoHome, NotHome, Possible, Gens, Fields
<1> QED BY <1>1, <1>3 DEF Init, RecoveryInv, Fresh, UnackedInv, CleanInv, StoreInv,
             OpenInv, JobInv, Empty

\* Opening finds the promised contents (lines 267-278, 348-360).
LEMMA OpeningKeepsRecovery == SingleFault /\ RecoveryInv /\ Opening => RecoveryInv'
<1> SUFFICES ASSUME RecoveryInv, Opening PROVE RecoveryInv'
  OBVIOUS
<1>0. TypeOK'
  BY OpeningKeepsType DEF RecoveryInv
<1>1. CASE Create \/ PreparationFails \/ LoadCorrupt \/ SettleExtents
           \/ \E g \in Gens : ReserveFile(g)
  <2>1. /\ UNCHANGED <<memory, claims, job, image, durable, observer>>
        /\ phase # "open" /\ phase' # "open" /\ phase # "closed"
    BY <1>1 DEF Create, PreparationFails, LoadCorrupt, SettleExtents, ReserveFile, files
  <2>2. StoreInv'
    BY <2>1 DEF RecoveryInv, StoreInv, NoHome, HomeAt, NotHome, Possible, Showing, observer
  <2> QED BY <1>0, <2>1, <2>2 DEF RecoveryInv, Fresh, UnackedInv, CleanInv, OpenInv, JobInv,
               Target, memory, claims, observer
<1>2. CASE LoadNothing
  <2>1. /\ phase = "reserving" /\ phase' = "open" /\ acked' = Empty /\ unacked' = {}
        /\ UNCHANGED <<records, generation, revision, usedBytes, reservedBytes, job, image, durable>>
        /\ \A g \in Gens : image[g]["header"] = Blank
    BY <1>2 DEF LoadNothing, NeverPublished, memory, claims, files
  <2>2. job = Idle /\ records = Empty.records /\ revision = 0 /\ generation = 1
    BY <2>1 DEF RecoveryInv, Fresh
  <2>3. \A g \in Gens : Showing(g, "header") = {Blank}
    BY <2>1 DEF RecoveryInv, CleanInv, Showing
  <2>4. NoHome'
    BY <2>1, <2>3, FreshAssumption DEF NoHome, NotHome, Possible, Showing, Fields, Gens
  <2> QED BY <1>0, <2>1, <2>2, <2>4 DEF RecoveryInv, Fresh, UnackedInv, CleanInv, StoreInv,
               OpenInv, JobInv, Current, Empty
<1>3. ASSUME NEW g \in Gens, LoadGeneration(g) PROVE RecoveryInv'
  <2> DEFINE c == image[g]["header"]
  <2>1. /\ phase = "reserving" /\ phase' = "open" /\ acked' = c /\ unacked' = {}
        /\ UNCHANGED <<job, image, durable>> /\ Install(c, g) /\ Newest(image, g)
    BY <1>3 DEF LoadGeneration, claims, files
  <2>2. job = Idle
    BY <2>1 DEF RecoveryInv, Fresh
  <2>3. c \in Contents /\ PayloadBytes(c) <= Capacity /\ \A f \in Fields : image[g][f] = c
    BY <2>1 DEF Newest, Whole, Fields
  <2>4. \A h \in Gens, f \in Fields : Showing(h, f) = {image[h][f]}
    BY <2>1 DEF RecoveryInv, CleanInv, Showing
  <2>5. Possible(g, c) /\ 1 - g \in Gens
    BY <2>3, <2>4 DEF Possible, Gens
  <2>6. NotHome(1 - g)'
    <3> SUFFICES ASSUME NEW d \in Contents, Possible(1 - g, d) PROVE d.revision < c.revision
      BY <2>1 DEF NotHome, Possible, Showing
    <3>1. \A f \in Fields : image[1 - g][f] = d
      BY <2>4, <2>5 DEF Possible
    <3>2. PayloadBytes(d) <= Capacity => d.revision < c.revision \/ d.revision = c.revision
      <4>1. PayloadBytes(d) <= Capacity => Whole(image[1 - g])
        BY <3>1 DEF Whole, Fields
      <4> QED BY <2>1, <2>3, <2>5, <3>1, <4>1 DEF Newest, Fields
    <3>3. d \in unacked => PayloadBytes(d) <= Capacity /\ d.revision = acked.revision + 1
      BY DEF RecoveryInv, UnackedInv
    <3>4. c \in unacked => c.revision = acked.revision + 1
      BY DEF RecoveryInv, UnackedInv
    <3>5. CASE NoHome
      <4>1. g = 0
        BY <2>3, <2>5, <3>5 DEF NoHome, Gens
      <4> QED BY <3>5, <4>1 DEF NoHome
    <3>6. ASSUME NEW h \in Gens, HomeAt(h) PROVE d.revision < c.revision
      <4>0. acked.revision \in Nat /\ c.revision \in Nat /\ d.revision \in Nat
        BY <2>3, <3>6 DEF HomeAt, Contents
      <4>1. CASE h = g
        <5>1. c = acked
          BY <2>3, <2>4, <3>6, <4>1 DEF HomeAt, Fields
        <5>2. d \in unacked \/ d.revision < acked.revision
          BY <3>6, <4>1 DEF HomeAt, NotHome
        <5> QED BY <3>2, <3>3, <4>0, <5>1, <5>2
      <4>2. CASE h = 1 - g
        <5>1. d = acked
          BY <2>4, <3>1, <3>6, <4>2 DEF HomeAt, Fields
        <5>2. g = 1 - h
          BY <4>2 DEF Gens
        <5>3. c \in unacked \/ c.revision < acked.revision
          BY <2>3, <2>5, <3>6, <5>2 DEF HomeAt, NotHome
        <5>4. d.revision <= c.revision
          BY <3>2, <3>6, <4>0, <5>1 DEF HomeAt
        <5> QED BY <3>4, <4>0, <5>1, <5>3, <5>4
      <4> QED BY <4>1, <4>2 DEF Gens
    <3> QED BY <3>5, <3>6 DEF RecoveryInv, StoreInv
  <2>7. HomeAt(g)'
    BY <2>1, <2>3, <2>4, <2>6 DEF HomeAt, Showing
  <2>8. /\ Current' = c /\ generation' = g /\ c.revision # 0
    BY <2>1, <2>3 DEF Install, Current, Contents
  <2> QED BY <1>0, <2>1, <2>2, <2>7, <2>8 DEF RecoveryInv, Fresh, UnackedInv, CleanInv,
               StoreInv, OpenInv, JobInv, Current
<1> QED BY <1>1, <1>2, <1>3 DEF Opening

\* The caller's operations leave both files alone (lines 420-494).
LEMMA CallingKeepsRecovery == RecoveryInv /\ Calling => RecoveryInv'
<1> SUFFICES ASSUME RecoveryInv, Calling PROVE RecoveryInv'
  OBVIOUS
<1>0. TypeOK'
  BY CallingKeepsType DEF RecoveryInv
<1>1. ASSUME Ready, UNCHANGED <<memory, job, files, observer>>,
             phase' = phase \/ phase' = "closed"
      PROVE  RecoveryInv'
  <2>1. StoreInv' /\ (OpenInv /\ phase' = "open" => OpenInv')
    BY <1>1 DEF RecoveryInv, StoreInv, OpenInv, NoHome, HomeAt, NotHome, Possible, Showing,
         memory, files, observer, Current
  <2> QED BY <1>0, <1>1, <2>1 DEF Ready, RecoveryInv, Fresh, UnackedInv, CleanInv, OpenInv,
               JobInv, memory, files, observer
<1>2. ASSUME NEW rs, NEW r, NEW bytes, Publish(rs, r, bytes) PROVE RecoveryInv'
  <2> DEFINE next == [revision |-> revision + 1, records |-> rs]
  <2>1. /\ job' = [step |-> "header", next |-> next, reservation |-> r]
        /\ unacked' = unacked \union {next}
        /\ phase = "open" /\ phase' = "open"
        /\ UNCHANGED <<memory, claims, image, durable, acked>>
        /\ PayloadBytes(next) <= Capacity
    BY <1>2 DEF Publish, Ready, Admissible, files
  <2>2. acked = Current
    BY <2>1 DEF RecoveryInv, OpenInv
  <2>3. UnackedInv'
    BY <2>1, <2>2 DEF RecoveryInv, UnackedInv, Current
  <2>4. \A g \in Gens, f \in Fields : Showing(g, f)' = Showing(g, f)
    BY <2>1 DEF Showing
  <2>5. StoreInv' /\ OpenInv'
    <3>1. PICK t \in Gens : t = Target /\ 1 - t \in Gens
      BY DEF RecoveryInv, TypeOK, Gens, Target
    <3> QED BY <2>1, <2>4, <3>1, OpenStoreKept DEF memory
  <2>6. JobInv'
    BY <2>1 DEF JobInv
  <2> QED BY <1>0, <2>1, <2>3, <2>5, <2>6 DEF RecoveryInv, Fresh, CleanInv
<1>3. ASSUME NEW id \in ReservationIds, NEW bytes, Reserve(id, bytes) PROVE RecoveryInv'
  BY <1>1, <1>3 DEF Reserve
<1>4. ASSUME NEW id \in ReservationIds, ReleaseReservation(id) PROVE RecoveryInv'
  BY <1>1, <1>4 DEF ReleaseReservation
<1>5. CASE Close
  BY <1>1, <1>5 DEF Close
<1> QED BY <1>2, <1>3, <1>4, <1>5 DEF Calling, Put, Remove

\* A torn write shows nothing that was not possible before it.
LEMMA InterruptedShows ==
  ASSUME RecoveryInv, InterruptedWrite, UNCHANGED durable, NEW t \in Gens, Target = t
  PROVE  /\ \A f \in Fields : Showing(1 - t, f)' = Showing(1 - t, f)
         /\ \A f \in Fields : Showing(t, f)' \subseteq Showing(t, f) \union {Torn}
         /\ ~Running => image' = image
<1>1. 1 - t \in Gens /\ 1 - t # t
  BY DEF Gens
<1>2. CASE Running /\ job.step \in Fields
  <2>1. PICK left \in {image[t][job.step], Torn} :
          image' = [image EXCEPT ![t] = [@ EXCEPT ![job.step] = left]]
    BY <1>2 DEF InterruptedWrite
  <2>2. image'[1 - t] = image[1 - t]
    BY <1>1, <2>1 DEF RecoveryInv, TypeOK
  <2>3. \A f \in Fields : image'[t][f] = image[t][f] \/ image'[t][f] = Torn
    BY <1>1, <2>1 DEF RecoveryInv, TypeOK
  <2> QED BY <1>2, <2>2, <2>3 DEF Showing
<1>3. CASE ~(Running /\ job.step \in Fields)
  BY <1>3 DEF InterruptedWrite, Showing
<1> QED BY <1>2, <1>3

\* A publication, call by call (lines 280-313, 400-413).
LEMMA WritingKeepsRecovery == RecoveryInv /\ (Writing \/ PublicationFails) => RecoveryInv'
<1> SUFFICES ASSUME RecoveryInv, Writing \/ PublicationFails PROVE RecoveryInv'
  OBVIOUS
<1>0. TypeOK'
  BY WritingKeepsType DEF RecoveryInv
<1>1. PICK t \in Gens : /\ t = Target /\ 1 - t = generation
                       /\ 1 - t \in Gens /\ 1 - t # t
  BY DEF RecoveryInv, TypeOK, Gens, Target
<1>2. Running => job \in Jobs /\ job.next \in unacked /\ job.next \in Contents
  BY DEF Running, RecoveryInv, TypeOK, Jobs, JobInv
<1>3. ASSUME NEW f \in Fields, WriteField(f) PROVE RecoveryInv'
  <2>1. /\ Running /\ job.step = f
        /\ image' = [image EXCEPT ![t] = [@ EXCEPT ![f] = job.next]]
        /\ job' = [job EXCEPT !.step = After(f)]
        /\ UNCHANGED <<phase, memory, durable, acked, unacked, reservedBytes>>
    BY <1>1, <1>3 DEF WriteField, observer, claims
  <2>2. /\ image'[1 - t] = image[1 - t]
        /\ \A e \in Fields : image'[t][e] = IF e = f THEN job.next ELSE image[t][e]
    BY <1>1, <2>1 DEF RecoveryInv, TypeOK
  <2>3. \A e \in Fields : Showing(1 - t, e)' = Showing(1 - t, e)
    BY <2>1, <2>2 DEF Showing
  <2>4. \A e \in Fields : Showing(t, e)' \subseteq Showing(t, e) \union {Torn} \union unacked'
    BY <1>2, <2>1, <2>2 DEF Showing
  <2>5. StoreInv' /\ OpenInv'
    BY <1>1, <2>1, <2>3, <2>4, OpenStoreKept DEF Running, memory
  <2>6. JobInv'
    <3>1. job'.step = After(f) /\ job'.next = job.next /\ Target' = Target
      BY <1>2, <2>1 DEF Jobs, memory, Target
    <3> QED BY <1>1, <1>2, <2>1, <2>2, <3>1 DEF RecoveryInv, JobInv, Running, After, Fields
  <2> QED BY <1>0, <2>1, <2>5, <2>6 DEF RecoveryInv, Fresh, UnackedInv, CleanInv, Running, memory
<1>4. ASSUME NEW step \in {"sync", "syncCommit"}, Sync(step) PROVE RecoveryInv'
  <2>1. /\ Running /\ job.step = step
        /\ durable' = [durable EXCEPT ![t] = image[t]]
        /\ job' = [job EXCEPT !.step = After(step)]
        /\ UNCHANGED <<phase, memory, image, acked, unacked, reservedBytes>>
    BY <1>1, <1>4 DEF Sync, observer, claims
  <2>2. durable'[1 - t] = durable[1 - t] /\ durable'[t] = image[t]
    BY <1>1, <2>1 DEF RecoveryInv, TypeOK
  <2>3. \A e \in Fields : Showing(1 - t, e)' = Showing(1 - t, e)
    BY <2>1, <2>2 DEF Showing
  <2>4. \A e \in Fields : Showing(t, e)' \subseteq Showing(t, e) \union {Torn} \union unacked'
    BY <2>1, <2>2 DEF Showing
  <2>5. StoreInv' /\ OpenInv'
    BY <1>1, <2>1, <2>3, <2>4, OpenStoreKept DEF Running, memory
  <2>6. JobInv'
    <3>1. job'.step = After(step) /\ job'.next = job.next /\ Target' = Target
      BY <1>2, <2>1 DEF Jobs, memory, Target
    <3> QED BY <1>1, <1>2, <2>1, <2>2, <3>1 DEF RecoveryInv, JobInv, Running, After
  <2> QED BY <1>0, <2>1, <2>5, <2>6 DEF RecoveryInv, Fresh, UnackedInv, CleanInv, Running, memory
<1>5. CASE Acknowledge
  <2> DEFINE c == job.next
  <2>1. /\ Running /\ job.step = "syncDirectory" /\ Install(c, t)
        /\ job' = Idle /\ acked' = c /\ unacked' = {}
        /\ UNCHANGED <<phase, image, durable>>
    BY <1>1, <1>5 DEF Acknowledge, files
  <2>2. /\ c \in Contents /\ PayloadBytes(c) <= Capacity
        /\ c.revision = acked.revision + 1 /\ acked = Current
    BY <1>2, <2>1 DEF RecoveryInv, UnackedInv, OpenInv, Running
  <2>3. \A f \in Fields : Showing(t, f) = {c}
    BY <1>1, <2>1 DEF RecoveryInv, JobInv, Running, Showing, Fields
  <2>4. \A g \in Gens, f \in Fields : Showing(g, f)' = Showing(g, f)
    BY <2>1 DEF Showing
  <2>5. NotHome(1 - t)'
    <3> SUFFICES ASSUME NEW d \in Contents, Possible(1 - t, d)
                 PROVE  d.revision < c.revision
      BY <1>1, <2>1, <2>4 DEF NotHome, Possible
    <3>1. CASE revision = 0
      BY <1>1, <2>1, <3>1 DEF RecoveryInv, OpenInv, NoHome, Running
    <3>2. CASE revision # 0
      <4>1. d = acked
        BY <1>1, <2>1, <3>2 DEF RecoveryInv, OpenInv, HomeAt, Running, Possible, Fields
      <4> QED BY <2>2, <4>1 DEF Contents
    <3> QED BY <3>1, <3>2
  <2>6. HomeAt(t)'
    BY <2>1, <2>2, <2>3, <2>4, <2>5 DEF HomeAt
  <2>7. generation' = t /\ Current' = c /\ revision' # 0 /\ phase' = "open"
    BY <2>1, <2>2 DEF Install, Current, Contents, Running
  <2> QED BY <1>0, <2>1, <2>6, <2>7 DEF RecoveryInv, Fresh, UnackedInv, CleanInv,
               StoreInv, OpenInv, JobInv
<1>6. CASE PublicationFails
  <2>1. /\ Running /\ job' = Idle
        /\ UNCHANGED <<phase, memory, durable, acked, unacked, reservedBytes>>
        /\ InterruptedWrite
    BY <1>6 DEF PublicationFails, observer, claims
  <2>2. StoreInv' /\ OpenInv'
    BY <2>1, <1>1, InterruptedShows, OpenStoreKept DEF Running, memory
  <2> QED BY <1>0, <2>1, <2>2 DEF RecoveryInv, Fresh, UnackedInv, CleanInv, JobInv, Running, memory
<1> QED BY <1>3, <1>4, <1>5, <1>6 DEF Writing

\* A fault that shows no more than was possible, and nothing new in the home
\* file, keeps the promised contents findable.
LEMMA StoreSurvives ==
  ASSUME RecoveryInv, UNCHANGED observer,
         \A g \in Gens, f \in Fields : Showing(g, f)' \subseteq Showing(g, f) \union {Torn},
         \A g \in Gens, f \in Fields : (phase = "open" => g # Target) =>
            \A v : Showing(g, f) = {v} => Showing(g, f)' = {v}
  PROVE  StoreInv'
<1>1. CASE NoHome
  <2>1. NoHome'
    BY <1>1, NoHomeKept DEF observer, Gens
  <2> QED BY <2>1 DEF StoreInv
<1>2. ASSUME NEW g \in Gens, HomeAt(g), phase = "open" => g = generation PROVE StoreInv'
  <2>1. 1 - g \in Gens /\ (phase = "open" => g # Target)
    BY <1>2 DEF Gens, Target
  <2>2. \A f \in Fields : Showing(g, f)' = Showing(g, f)
    BY <1>2, <2>1 DEF HomeAt
  <2>3. HomeAt(g)'
    BY <1>2, <2>1, <2>2, HomeKept DEF observer
  <2> QED BY <2>3 DEF StoreInv
<1> QED BY <1>1, <1>2, StoreCases

LEMMA FaultsKeepRecovery == SingleFault /\ RecoveryInv /\ (Kill \/ PowerLoss) => RecoveryInv'
<1> SUFFICES ASSUME SingleFault, RecoveryInv, Kill \/ PowerLoss PROVE RecoveryInv'
  OBVIOUS
<1>0. TypeOK'
  BY FaultsKeepType DEF RecoveryInv
<1>1. PICK t \in Gens : t = Target /\ 1 - t \in Gens /\ \A g \in Gens : g # t => g = 1 - t
  BY DEF RecoveryInv, TypeOK, Gens, Target
<1>2. phase' = "down" /\ ForgetMemory /\ UNCHANGED observer
  BY DEF Kill, PowerLoss
<1>3. CASE Kill
  <2>1. "power" \notin Faults
    BY <1>3 DEF Kill, SingleFault
  <2>2. InterruptedWrite /\ UNCHANGED durable
    BY <1>3 DEF Kill
  <2>3. \A f \in Fields : Showing(1 - t, f)' = Showing(1 - t, f)
    BY <1>1, <2>2, InterruptedShows
  <2>4. \A f \in Fields : Showing(t, f)' \subseteq Showing(t, f) \union {Torn}
    BY <1>1, <2>2, InterruptedShows
  <2>5. \A g \in Gens, f \in Fields : (phase = "open" => g # Target) =>
            Showing(g, f)' = Showing(g, f)
    <3>1. CASE phase = "open"
      BY <1>1, <2>3, <3>1
    <3>2. CASE phase # "open"
      BY <2>2, <3>2, <1>1, InterruptedShows DEF Running, Showing
    <3> QED BY <3>1, <3>2
  <2>6. StoreInv'
    <3>1. \A g \in Gens, f \in Fields : Showing(g, f)' \subseteq Showing(g, f) \union {Torn}
      BY <1>1, <2>3, <2>4
    <3> QED BY <1>2, <2>5, <3>1, StoreSurvives
  <2> QED BY <1>0, <1>2, <2>1, <2>6 DEF RecoveryInv, Fresh, UnackedInv, CleanInv, OpenInv,
               JobInv, ForgetMemory, observer
<1>4. CASE PowerLoss
  <2>1. "power" \in Faults /\ durable' = image'
    BY <1>4 DEF PowerLoss
  <2>2. PICK first \in SurvivingFiles(0), second \in SurvivingFiles(1) :
          image' = [g \in Gens |-> IF g = 0 THEN first ELSE second]
    BY <1>4 DEF PowerLoss
  <2>3. \A g \in Gens, f \in Fields : Showing(g, f)' = {image'[g][f]}
    BY <2>1 DEF Showing
  <2>4. \A g \in Gens : image'[g] \in SurvivingFiles(g)
    BY <2>2 DEF Gens
  <2>5. \A g \in Gens, f \in Fields : Showing(g, f)' \subseteq Showing(g, f) \union {Torn}
    BY <2>1, <2>3, <2>4, SurvivorsShow
  <2>6. \A g \in Gens, f \in Fields : (phase = "open" => g # Target) =>
            \A v : Showing(g, f) = {v} => Showing(g, f)' = {v}
    <3>1. \A g \in Gens, f \in Fields : (phase = "open" => g # Target) => ~InFlight(g, f)
      BY DEF InFlight, Running
    <3> SUFFICES ASSUME NEW g \in Gens, NEW f \in Fields, phase = "open" => g # Target,
                        NEW v, Showing(g, f) = {v}
                 PROVE  image'[g][f] = v
      BY <2>3
    <3> QED BY <2>1, <2>4, <3>1, SurvivorsShow
  <2>7. StoreInv'
    BY <1>2, <2>5, <2>6, StoreSurvives
  <2> QED BY <1>0, <1>2, <2>1, <2>7 DEF RecoveryInv, Fresh, UnackedInv, CleanInv, OpenInv,
               JobInv, ForgetMemory, observer
<1> QED BY <1>3, <1>4

LEMMA RecoveryStep == SingleFault /\ RecoveryInv /\ [Next]_vars => RecoveryInv'
<1> SUFFICES ASSUME SingleFault, RecoveryInv, [Next]_vars PROVE RecoveryInv'
  OBVIOUS
<1>1. CASE UNCHANGED vars
  <2>1. TypeOK'
    BY <1>1 DEF RecoveryInv, TypeOK, vars, memory, claims, files, observer
  <2>2. UNCHANGED <<phase, records, generation, revision, usedBytes, reservedBytes, job, image, durable, acked, unacked>>
    BY <1>1 DEF vars, memory, claims, files, observer
  <2>3. Fresh' /\ UnackedInv' /\ CleanInv' /\ JobInv'
    BY <2>2 DEF RecoveryInv, Fresh, UnackedInv, CleanInv, JobInv, Target
  <2>4. StoreInv' /\ OpenInv'
    BY <2>2 DEF RecoveryInv, StoreInv, OpenInv, NoHome, HomeAt, NotHome, Possible, Showing, Current
  <2> QED BY <2>1, <2>3, <2>4 DEF RecoveryInv
<1> QED BY <1>1, OpeningKeepsRecovery, CallingKeepsRecovery, WritingKeepsRecovery,
           FaultsKeepRecovery DEF Next

\* Files that show only what is possible are recovered as something promised.
LEMMA PossibleRecovers ==
  ASSUME RecoveryInv, NEW disk,
         \A g \in Gens, f \in Fields : disk[g][f] \in Showing(g, f) \union {Torn},
         \A g \in Gens, f \in Fields : (phase = "open" => g # Target) =>
            \A v : Showing(g, f) = {v} => disk[g][f] = v
  PROVE  Recoverable(disk)
<1>1. \A g \in Gens : Whole(disk[g]) => /\ disk[g]["header"] \in Contents
                                        /\ Possible(g, disk[g]["header"])
  BY FreshAssumption DEF Whole, Possible, Fields
<1>2. CASE NoHome
  <2>1. ~Whole(disk[1])
    BY <1>1, <1>2 DEF NoHome, Gens
  <2>2. CASE Whole(disk[0])
    <3>1. disk[0]["header"] \in unacked
      <4>1. 0 \in Gens /\ disk[0]["header"] \in Contents /\ Possible(0, disk[0]["header"])
        BY <1>1, <2>2 DEF Gens
      <4>2. ~(disk[0]["header"].revision < acked.revision)
        BY <1>2, <4>1 DEF NoHome, Empty, Contents
      <4> QED BY <1>2, <4>1, <4>2 DEF NoHome, NotHome
    <3>2. Newest(disk, 0)
      BY <2>1, <2>2 DEF Newest, Gens
    <3> QED BY <3>1, <3>2 DEF Recoverable, Promised, Gens
  <2>3. CASE ~Whole(disk[0])
    BY <1>2, <2>1, <2>3 DEF Recoverable, NoHome, Gens
  <2> QED BY <2>2, <2>3
<1>3. ASSUME NEW g \in Gens, HomeAt(g), phase = "open" => g = generation
      PROVE  Recoverable(disk)
  <2>1. 1 - g \in Gens /\ (phase = "open" => g # Target) /\ \A h \in Gens : h = g \/ h = 1 - g
    BY <1>3 DEF Gens, Target
  <2>2. Whole(disk[g]) /\ disk[g]["header"] = acked /\ acked \in Contents
    BY <1>3, <2>1 DEF HomeAt, Whole, Fields
  <2>3. CASE Whole(disk[1 - g]) /\ disk[1 - g]["header"] \in unacked
    <3>1. disk[1 - g]["header"].revision = acked.revision + 1
      BY <2>3 DEF RecoveryInv, UnackedInv
    <3>2. Newest(disk, 1 - g)
      <4> SUFFICES ASSUME NEW h \in Gens, h = g
                   PROVE  disk[h]["header"].revision < disk[1 - g]["header"].revision
        BY <2>1, <2>3 DEF Newest, Gens
      <4> QED BY <2>2, <3>1, BoundAssumption DEF Contents
    <3> QED BY <2>1, <2>3, <3>2 DEF Recoverable, Promised
  <2>4. CASE ~(Whole(disk[1 - g]) /\ disk[1 - g]["header"] \in unacked)
    <3>1. Whole(disk[1 - g]) => disk[1 - g]["header"].revision < acked.revision
      BY <1>1, <1>3, <2>1, <2>4 DEF HomeAt, NotHome
    <3>2. Newest(disk, g)
      <4> SUFFICES ASSUME NEW h \in Gens, h = 1 - g, Whole(disk[h])
                   PROVE  disk[h]["header"].revision < disk[g]["header"].revision
        BY <2>1, <2>2 DEF Newest, Gens
      <4> QED BY <2>2, <3>1
    <3> QED BY <2>2, <3>2 DEF Recoverable, Promised
  <2> QED BY <2>3, <2>4
<1> QED BY <1>2, <1>3, StoreCases

\* With one kind of fault, whatever the page cache holds at any moment is
\* recovered as the promised contents or a publication begun since.
THEOREM KillRecovery == SingleFault => (Spec => []KilledRecovers)
<1> SUFFICES ASSUME SingleFault PROVE Spec => []KilledRecovers
  OBVIOUS
<1>1. RecoveryInv => KilledRecovers
  <2> SUFFICES ASSUME RecoveryInv PROVE Recoverable(image)
    BY DEF KilledRecovers
  <2>1. \A g \in Gens, f \in Fields : image[g][f] \in Showing(g, f)
    BY DEF Showing
  <2> QED BY <2>1, PossibleRecovers
<1>2. RecoveryInv /\ [Next]_vars => RecoveryInv'
  BY RecoveryStep
<1> QED BY <1>1, <1>2, RecoveryInit, PTL DEF Spec

\* With power losses only, whatever part of the unsynced writes reaches the
\* medium is recovered the same way.
THEOREM PowerLossRecovery ==
  "power" \in Faults /\ "kill" \notin Faults => (Spec => []PowerLossRecovers)
<1> SUFFICES ASSUME "power" \in Faults, SingleFault PROVE Spec => []PowerLossRecovers
  BY DEF SingleFault
<1>1. RecoveryInv => PowerLossRecovers
  <2> SUFFICES ASSUME RecoveryInv, NEW first \in SurvivingFiles(0), NEW second \in SurvivingFiles(1)
               PROVE  Recoverable([g \in Gens |-> IF g = 0 THEN first ELSE second])
    BY DEF PowerLossRecovers
  <2> DEFINE disk == [g \in Gens |-> IF g = 0 THEN first ELSE second]
  <2>1. \A g \in Gens : disk[g] \in SurvivingFiles(g)
    BY DEF Gens
  <2>2. \A g \in Gens, f \in Fields : disk[g][f] \in Showing(g, f) \union {Torn}
    BY <2>1, SurvivorsShow
  <2>3. \A g \in Gens, f \in Fields : (phase = "open" => g # Target) =>
            \A v : Showing(g, f) = {v} => disk[g][f] = v
    <3>1. \A g \in Gens, f \in Fields : (phase = "open" => g # Target) => ~InFlight(g, f)
      BY DEF InFlight, Running
    <3> SUFFICES ASSUME NEW g \in Gens, NEW f \in Fields, phase = "open" => g # Target,
                        NEW v, Showing(g, f) = {v}
                 PROVE  disk[g][f] = v
      OBVIOUS
    <3> QED BY <2>1, <3>1, SurvivorsShow
  <2> HIDE DEF disk
  <2>4. Recoverable(disk)
    BY <2>2, <2>3, PossibleRecovers
  <2> QED BY <2>4 DEF disk
<1>2. RecoveryInv /\ [Next]_vars => RecoveryInv'
  BY RecoveryStep
<1> QED BY <1>1, <1>2, RecoveryInit, PTL DEF Spec

\* At most one generation is the newest.
LEMMA NewestUnique ==
  ASSUME RecoveryInv, NEW g \in Gens, NEW h \in Gens, Newest(image, g), Newest(image, h)
  PROVE  g = h
<1>1. image[g]["header"].revision \in Nat /\ image[h]["header"].revision \in Nat
  BY BoundAssumption DEF Newest, Whole, Contents
<1> QED BY <1>1 DEF Newest, Gens

\* Opening shows the promised contents or an attempt (Promise!Recover).
LEMMA OpeningRecovers ==
  ASSUME RecoveryInv, RecoveryInv', SingleFault,
         LoadNothing \/ \E g \in Gens : LoadGeneration(g)
  PROVE  Promise!Recover
<1>1. phase = "reserving" /\ phase' = "open" /\ unacked' = {}
  BY DEF LoadNothing, LoadGeneration
<1>2. acked' = Current'
  BY <1>1 DEF RecoveryInv, OpenInv
<1>3. Recoverable(image)
  <2>1. \A g \in Gens, f \in Fields : image[g][f] \in Showing(g, f)
    BY DEF Showing
  <2> QED BY <2>1, PossibleRecovers
<1>4. acked' \in {acked} \union unacked
  <2>1. CASE LoadNothing
    <3>1. \A g \in Gens : ~Whole(image[g])
      BY <2>1, FreshAssumption DEF LoadNothing, NeverPublished, Whole
    <3> QED BY <1>3, <2>1, <3>1 DEF Recoverable, Newest, LoadNothing
  <2>2. ASSUME NEW g \in Gens, LoadGeneration(g) PROVE acked' \in {acked} \union unacked
    <3>1. Newest(image, g) /\ acked' = image[g]["header"]
      BY <2>2 DEF LoadGeneration
    <3>2. Promised(image[g]["header"])
      BY <1>3, <3>1, NewestUnique DEF Recoverable, Newest
    <3> QED BY <3>1, <3>2 DEF Promised
  <2> QED BY <2>1, <2>2
<1> QED BY <1>1, <1>2, <1>4 DEF Promise!Recover, Promise!RecoverOf

\* Every step of the journal is a step of the register, or none.
LEMMA RefinementStep ==
  SingleFault /\ RecoveryInv /\ RecoveryInv' /\ [Next]_vars
    => [Promise!Next]_(Promise!promiseVars)
<1> SUFFICES ASSUME SingleFault, RecoveryInv, RecoveryInv', [Next]_vars
             PROVE  Promise!Next \/ UNCHANGED Promise!promiseVars
  OBVIOUS
<1>0. phase = "open" => Current # Nothing /\ acked = Current
  BY FreshAssumption DEF RecoveryInv, OpenInv, TypeOK
<1>1. ASSUME phase # "open", phase' # "open", UNCHANGED observer
      PROVE  UNCHANGED Promise!promiseVars
  BY <1>1 DEF observer, Promise!promiseVars
<1>2. ASSUME UNCHANGED <<phase, memory, observer>> PROVE UNCHANGED Promise!promiseVars
  BY <1>2 DEF observer, memory, Current, Promise!promiseVars
<1>3. ASSUME phase' # "open", UNCHANGED observer PROVE Promise!Stop
  BY <1>3 DEF observer, Promise!Stop
<1>4. CASE UNCHANGED vars
  BY <1>2, <1>4 DEF vars
<1>5. CASE Opening
  <2>1. CASE Create \/ PreparationFails \/ LoadCorrupt \/ SettleExtents
             \/ \E g \in Gens : ReserveFile(g)
    BY <1>1, <2>1 DEF Create, PreparationFails, LoadCorrupt, SettleExtents, ReserveFile
  <2> QED BY <1>5, <2>1, OpeningRecovers DEF Opening, Promise!Next
<1>6. CASE Calling
  <2>1. ASSUME NEW rs, NEW r, NEW bytes, Publish(rs, r, bytes) PROVE Promise!Attempt
    <3> DEFINE next == [revision |-> revision + 1, records |-> rs]
    <3>1. /\ phase = "open" /\ unacked' = unacked \union {next}
          /\ UNCHANGED <<phase, memory, acked>>
      BY <2>1 DEF Publish, Ready
    <3>2. next \in Contents
      BY <3>1 DEF RecoveryInv, TypeOK
    <3>3. Current' = Current /\ phase' = "open"
      BY <3>1 DEF memory, Current
    <3> QED BY <1>0, <3>1, <3>2, <3>3 DEF Promise!Attempt, Promise!AttemptOf
  <2>2. ASSUME NEW id, NEW bytes, Reserve(id, bytes) \/ ReleaseReservation(id)
        PROVE  UNCHANGED Promise!promiseVars
    BY <1>2, <2>2 DEF Reserve, ReleaseReservation
  <2>3. CASE Close
    BY <1>3, <2>3 DEF Close, Promise!Next
  <2> QED BY <1>6, <2>1, <2>2, <2>3 DEF Calling, Put, Remove, Promise!Next
<1>7. CASE Writing
  <2>1. CASE \/ \E f \in Fields : WriteField(f)
             \/ Sync("sync") \/ Sync("syncCommit")
    BY <1>2, <2>1 DEF WriteField, Sync
  <2>2. CASE Acknowledge
    <3>1. phase = "open" /\ phase' = "open" /\ acked' = job.next /\ unacked' = {} /\ job # Idle
      BY <2>2 DEF Acknowledge, Running
    <3>2. job.next \in unacked /\ Current' = acked'
      BY <3>1 DEF RecoveryInv, JobInv, OpenInv
    <3> QED BY <1>0, <3>1, <3>2 DEF Promise!Acknowledge, Promise!AcknowledgeOf, Promise!Next
  <2> QED BY <1>7, <2>1, <2>2 DEF Writing
<1>8. CASE PublicationFails
  BY <1>2, <1>8 DEF PublicationFails
<1>9. CASE Kill \/ PowerLoss
  BY <1>3, <1>9 DEF Kill, PowerLoss, Promise!Next
<1> QED BY <1>4, <1>5, <1>6, <1>7, <1>8, <1>9 DEF Next

\* With one kind of fault the journal is a crash-safe register: what a caller
\* was told is durable is never rolled back, merged or replaced.
THEOREM Refinement == SingleFault => (Spec => PromiseSpec)
<1> SUFFICES ASSUME SingleFault PROVE Spec => PromiseSpec
  OBVIOUS
<1>1. Init => Promise!Init
  BY DEF Init, Promise!Init
<1>2. RecoveryInv /\ [Next]_vars => RecoveryInv'
  BY RecoveryStep
<1>3. RecoveryInv /\ RecoveryInv' /\ [Next]_vars => [Promise!Next]_(Promise!promiseVars)
  BY RefinementStep
<1> QED BY <1>1, <1>2, <1>3, RecoveryInit, PTL DEF Spec, PromiseSpec, Promise!PromiseSpec
-----------------------------------------------------------------------------
(***************************************************************************)
(* What an open journal holds in memory, and why it may be called corrupt. *)
(***************************************************************************)

\* What a publication has put in the page cache so far.
WrittenInv == job # Idle =>
  /\ PayloadBytes(job.next) <= Capacity
  /\ job.step # "header" => image[Target]["header"] = job.next
  /\ job.step \notin {"header", "payload"} => image[Target]["payload"] = job.next
  /\ job.step \in {"syncCommit", "syncDirectory"} => image[Target]["commit"] = job.next

\* File g is whole and holds what the memory holds.
Holds(g) == /\ Current \in Contents /\ PayloadBytes(Current) <= Capacity
            /\ \A f \in Fields : image[g][f] = Current

HeldInv == /\ TypeOK /\ Fresh /\ WrittenInv
           /\ phase = "open" /\ revision # 0 => Holds(generation)

\* Steps that keep the memory and the current generation's file.
LEMMA HeldKept ==
  ASSUME HeldInv, TypeOK', Fresh', WrittenInv', phase' = "open" => phase = "open",
         UNCHANGED <<records, revision, generation>>,
         phase' = "open" => image'[generation] = image[generation]
  PROVE  HeldInv'
BY DEF HeldInv, Holds, Current

\* The publication's file is not the current one.
LEMMA OtherFile ==
  ASSUME TypeOK, NEW f \in Fields, NEW c, image' = [image EXCEPT ![Target] = [@ EXCEPT ![f] = c]]
  PROVE  /\ image'[generation] = image[generation]
         /\ \A e \in Fields : image'[Target][e] = IF e = f THEN c ELSE image[Target][e]
BY TargetIsOther DEF TypeOK

LEMMA OpeningKeepsHeld == HeldInv /\ Opening => HeldInv'
<1> SUFFICES ASSUME HeldInv, Opening PROVE HeldInv'
  OBVIOUS
<1>0. TypeOK'
  BY OpeningKeepsType DEF HeldInv
<1>1. CASE Create \/ PreparationFails \/ LoadCorrupt \/ SettleExtents
           \/ \E g \in Gens : ReserveFile(g)
  <2>1. UNCHANGED <<memory, claims, job, image>> /\ phase # "open" /\ phase' # "open"
        /\ (phase' \in {"open", "closed"} => phase \in {"open", "closed"})
    BY <1>1 DEF Create, PreparationFails, LoadCorrupt, SettleExtents, ReserveFile, files
  <2>2. phase \notin {"open", "closed"}
    BY <1>1 DEF Create, PreparationFails, LoadCorrupt, SettleExtents, ReserveFile
  <2>3. Fresh' /\ WrittenInv'
    BY <2>1, <2>2 DEF HeldInv, Fresh, WrittenInv, Target, memory, claims
  <2> QED BY <1>0, <2>1, <2>3, HeldKept DEF memory
<1>2. CASE LoadNothing
  <2>1. UNCHANGED <<memory, claims, job, image>> /\ phase = "reserving" /\ phase' = "open"
    BY <1>2 DEF LoadNothing, files
  <2>2. revision' = 0 /\ Fresh' /\ WrittenInv'
    BY <2>1 DEF HeldInv, Fresh, WrittenInv, Target, memory, claims
  <2> QED BY <1>0, <2>2 DEF HeldInv
<1>3. ASSUME NEW g \in Gens, LoadGeneration(g) PROVE HeldInv'
  <2> DEFINE c == image[g]["header"]
  <2>1. /\ phase = "reserving" /\ phase' = "open" /\ UNCHANGED <<job, image>>
        /\ Install(c, g) /\ Whole(image[g])
    BY <1>3 DEF LoadGeneration, claims, files, Newest
  <2>2. job' = Idle
    BY <2>1 DEF HeldInv, Fresh
  <2>3. c \in Contents /\ PayloadBytes(c) <= Capacity /\ \A f \in Fields : image[g][f] = c
    BY <2>1 DEF Whole, Fields
  <2>4. Current' = c /\ generation' = g
    BY <2>1, <2>3 DEF Install, Current, Contents
  <2>5. Holds(generation)'
    BY <2>1, <2>3, <2>4 DEF Holds
  <2>6. Fresh' /\ WrittenInv'
    BY <2>1, <2>2 DEF Fresh, WrittenInv
  <2> QED BY <1>0, <2>5, <2>6 DEF HeldInv
<1> QED BY <1>1, <1>2, <1>3 DEF Opening

LEMMA CallingKeepsHeld == HeldInv /\ Calling => HeldInv'
<1> SUFFICES ASSUME HeldInv, Calling PROVE HeldInv'
  OBVIOUS
<1>0. TypeOK'
  BY CallingKeepsType DEF HeldInv
<1>1. ASSUME NEW id, NEW bytes, Reserve(id, bytes) \/ ReleaseReservation(id) PROVE HeldInv'
  <2>1. UNCHANGED <<phase, memory, job, image>> /\ phase = "open"
    BY <1>1 DEF Reserve, ReleaseReservation, Ready, files
  <2>2. Fresh' /\ WrittenInv'
    BY <2>1 DEF HeldInv, Fresh, WrittenInv, Target, memory
  <2> QED BY <1>0, <2>1, <2>2, HeldKept DEF memory
<1>2. ASSUME NEW rs, NEW r, NEW bytes, Publish(rs, r, bytes) PROVE HeldInv'
  <2> DEFINE next == [revision |-> revision + 1, records |-> rs]
  <2>1. /\ UNCHANGED <<phase, memory, image>> /\ phase = "open"
        /\ job' = [step |-> "header", next |-> next, reservation |-> r]
        /\ PayloadBytes(next) <= Capacity
    BY <1>2 DEF Publish, Ready, files, Admissible
  <2>2. Fresh' /\ WrittenInv'
    BY <2>1 DEF Fresh, WrittenInv
  <2> QED BY <1>0, <2>1, <2>2, HeldKept DEF memory
<1>3. CASE Close
  <2>1. UNCHANGED <<memory, job, image>> /\ phase' = "closed" /\ job = Idle
    BY <1>3 DEF Close, Ready, files
  <2>2. Fresh' /\ WrittenInv'
    BY <2>1 DEF Fresh, WrittenInv
  <2> QED BY <1>0, <2>1, <2>2, HeldKept DEF memory
<1> QED BY <1>1, <1>2, <1>3 DEF Calling, Put, Remove

LEMMA WritingKeepsHeld == HeldInv /\ (Writing \/ PublicationFails) => HeldInv'
<1> SUFFICES ASSUME HeldInv, Writing \/ PublicationFails PROVE HeldInv'
  OBVIOUS
<1>0. TypeOK'
  BY WritingKeepsType DEF HeldInv
<1>1. Running => job \in Jobs /\ job.next \in Contents
  BY DEF Running, HeldInv, TypeOK, Jobs
<1>2. ASSUME NEW f \in Fields, WriteField(f) PROVE HeldInv'
  <2>1. /\ Running /\ job.step = f /\ UNCHANGED <<phase, memory, reservedBytes>>
        /\ image' = [image EXCEPT ![Target] = [@ EXCEPT ![f] = job.next]]
        /\ job' = [job EXCEPT !.step = After(f)]
    BY <1>2 DEF WriteField, claims
  <2>2. /\ image'[generation] = image[generation]
        /\ \A e \in Fields : image'[Target][e] = IF e = f THEN job.next ELSE image[Target][e]
    BY <2>1, OtherFile DEF HeldInv
  <2>3. job'.step = After(f) /\ job'.next = job.next /\ Target' = Target /\ job # Idle
    BY <1>1, <2>1 DEF Jobs, memory, Target, Running
  <2>4. WrittenInv'
    BY <2>1, <2>2, <2>3 DEF HeldInv, WrittenInv, After, Fields
  <2>5. Fresh'
    BY <2>1 DEF Fresh, Running
  <2> QED BY <1>0, <2>1, <2>2, <2>4, <2>5, HeldKept DEF memory
<1>3. ASSUME NEW step \in {"sync", "syncCommit"}, Sync(step) PROVE HeldInv'
  <2>1. /\ Running /\ job.step = step /\ UNCHANGED <<phase, memory, image, reservedBytes>>
        /\ job' = [job EXCEPT !.step = After(step)]
    BY <1>3 DEF Sync, claims
  <2>2. job'.step = After(step) /\ job'.next = job.next /\ Target' = Target /\ job # Idle
    BY <1>1, <2>1 DEF Jobs, memory, Target, Running
  <2>3. WrittenInv'
    BY <2>1, <2>2 DEF HeldInv, WrittenInv, After
  <2>4. Fresh'
    BY <2>1 DEF Fresh, Running
  <2> QED BY <1>0, <2>1, <2>3, <2>4, HeldKept DEF memory
<1>4. CASE Acknowledge
  <2>1. /\ Running /\ job.step = "syncDirectory" /\ Install(job.next, Target)
        /\ job' = Idle /\ UNCHANGED <<phase, image>>
    BY <1>4 DEF Acknowledge, files
  <2>2. /\ job.next \in Contents /\ PayloadBytes(job.next) <= Capacity
        /\ \A f \in Fields : image[Target][f] = job.next
    BY <1>1, <2>1 DEF HeldInv, WrittenInv, Running, Fields
  <2>3. Current' = job.next /\ generation' = Target
    BY <2>1, <2>2 DEF Install, Current, Contents
  <2>4. Holds(generation)'
    BY <2>1, <2>2, <2>3 DEF Holds
  <2>5. Fresh' /\ WrittenInv'
    BY <2>1 DEF Fresh, WrittenInv, Running
  <2> QED BY <1>0, <2>4, <2>5 DEF HeldInv
<1>5. CASE PublicationFails
  <2>1. Running /\ InterruptedWrite /\ job' = Idle /\ UNCHANGED <<phase, memory>>
    BY <1>5 DEF PublicationFails
  <2>2. image'[generation] = image[generation]
    BY <2>1, OtherFile DEF InterruptedWrite, HeldInv
  <2>3. Fresh' /\ WrittenInv'
    BY <2>1 DEF Fresh, WrittenInv, Running
  <2> QED BY <1>0, <2>1, <2>2, <2>3, HeldKept DEF memory
<1> QED BY <1>2, <1>3, <1>4, <1>5 DEF Writing

\* While the journal is open its current generation is on disk, whole, as the
\* memory has it: a publication, failed or under way, touches the other file.
\* No limit on the faults is needed.
THEOREM MemoryCorrect == Spec => []MemoryIsOnDisk
<1>1. Init => HeldInv
  BY TypeInit DEF Init, HeldInv, Fresh, WrittenInv, Empty
<1>2. HeldInv /\ [Next]_vars => HeldInv'
  <2>1. CASE UNCHANGED vars
    <3>1. HeldInv => TypeOK'
      BY <2>1 DEF HeldInv, TypeOK, vars, memory, claims, files, observer
    <3> QED BY <2>1, <3>1 DEF HeldInv, Fresh, WrittenInv, Holds, Current, Target,
                 vars, memory, claims, files
  <2>2. ASSUME HeldInv, Kill \/ PowerLoss PROVE HeldInv'
    BY <2>2, FaultsKeepType DEF Kill, PowerLoss, ForgetMemory, HeldInv, Fresh, WrittenInv
  <2> QED BY <2>1, <2>2, OpeningKeepsHeld, CallingKeepsHeld, WritingKeepsHeld DEF Next
<1>3. HeldInv => MemoryIsOnDisk
  <2> SUFFICES ASSUME HeldInv, phase = "open", revision > 0
               PROVE  Whole(image[generation]) /\ image[generation]["header"] = Current
    BY DEF MemoryIsOnDisk
  <2>1. Holds(generation)
    BY DEF HeldInv, TypeOK
  <2> QED BY <2>1 DEF Holds, Whole, Fields
<1> QED BY <1>1, <1>2, <1>3, PTL DEF Spec

\* With one kind of fault the journal is called corrupt only before its first
\* promise: once a publication was answered, one file always checks out.
THEOREM CorruptCorrect == SingleFault => (Spec => []CorruptOnlyBeforeFirstAck)
<1> SUFFICES ASSUME SingleFault PROVE Spec => []CorruptOnlyBeforeFirstAck
  OBVIOUS
<1>1. Init => CorruptOnlyBeforeFirstAck
  BY DEF Init, CorruptOnlyBeforeFirstAck
<1>2. RecoveryInv /\ CorruptOnlyBeforeFirstAck /\ [Next]_vars => CorruptOnlyBeforeFirstAck'
  <2> SUFFICES ASSUME RecoveryInv, CorruptOnlyBeforeFirstAck, [Next]_vars, phase' = "corrupt"
               PROVE  acked' = Empty
    BY DEF CorruptOnlyBeforeFirstAck
  <2>1. CASE LoadCorrupt
    <3>1. ASSUME NEW g \in Gens, HomeAt(g) PROVE FALSE
      <4>1. acked \in Contents /\ PayloadBytes(acked) <= Capacity
            /\ \A f \in Fields : image[g][f] = acked
        BY <3>1 DEF HomeAt, Showing
      <4>2. Whole(image[g])
        BY <4>1 DEF Whole, Fields
      <4> QED BY <2>1, <4>2 DEF LoadCorrupt, Unrecoverable
    <3>2. NoHome
      BY <3>1 DEF RecoveryInv, StoreInv
    <3> QED BY <2>1, <3>2 DEF NoHome, LoadCorrupt, observer
  <2>2. CASE phase = "corrupt" /\ UNCHANGED acked
    BY <2>2 DEF CorruptOnlyBeforeFirstAck
  <2>3. CASE UNCHANGED vars
    BY <2>2, <2>3 DEF vars, observer
  <2>4. CASE Opening
    BY <2>1, <2>2, <2>4 DEF Opening, Create, SettleExtents, PreparationFails, LoadNothing, ReserveFile,
         LoadGeneration, observer
  <2>5. CASE Calling
    <3>1. phase = "open" /\ phase' \in {"open", "closed"}
      BY <2>5 DEF Calling, Put, Remove, Publish, Close, Reserve, ReleaseReservation, Ready
    <3> QED BY <3>1
  <2>6. CASE Writing \/ PublicationFails
    <3>1. phase = "open" /\ phase' = "open"
      BY <2>6 DEF Writing, WriteField, Sync, Acknowledge, PublicationFails, Running
    <3> QED BY <3>1
  <2>7. CASE Kill \/ PowerLoss
    BY <2>7 DEF Kill, PowerLoss
  <2> QED BY <2>3, <2>4, <2>5, <2>6, <2>7 DEF Next
<1>3. RecoveryInv /\ [Next]_vars => RecoveryInv'
  BY RecoveryStep
<1> QED BY <1>1, <1>2, <1>3, RecoveryInit, PTL DEF Spec
-----------------------------------------------------------------------------
(***************************************************************************)
(* The running total of the reservations is their sum.                     *)
(***************************************************************************)

\* The library's fold over a set is a recursive function on its subsets.
One(s) == CHOOSE i \in s : TRUE
IsSum(sum, f, T) ==
  sum = [s \in SUBSET T |-> IF s = {} THEN 0 ELSE f[One(s)] + sum[s \ {One(s)}]]
Total(f) == MapThenSumSet(LAMBDA i : f[i], ReservationIds)

\* Induction over the sets of reservations: a property that fails somewhere
\* fails at a smallest set.
LEMMA SmallestSet ==
  ASSUME NEW Z \in SUBSET SUBSET ReservationIds, Z # {}
  PROVE  \E T \in Z : \A U \in SUBSET T : U # T => U \notin Z
<1>1. IsWellFoundedOn(StrictSubsetOrdering(ReservationIds), FiniteSubsetsOf(ReservationIds))
  BY FS_StrictSubsetOrderingWellFounded
<1>2. Z \subseteq FiniteSubsetsOf(ReservationIds)
  BY FS_FiniteSubsetsOfFinite, ReservationAssumption
<1>3. PICK T \in Z : \A U \in Z : <<U, T>> \notin StrictSubsetOrdering(ReservationIds)
  BY <1>1, <1>2, WFMin
<1>4. ASSUME NEW U \in Z, U \subseteq T, U # T PROVE FALSE
  <2>1. <<U, T>> \in (SUBSET ReservationIds) \X (SUBSET ReservationIds)
    OBVIOUS
  <2> QED BY <1>3, <1>4, <2>1 DEF StrictSubsetOrdering
<1> QED BY <1>4

\* One step of the recursion, and its end.
LEMMA SumOfOne ==
  ASSUME NEW sum, NEW f, NEW T, IsSum(sum, f, T), NEW s \in SUBSET T, s # {}
  PROVE  /\ One(s) \in s /\ s \ {One(s)} \in SUBSET T /\ s \ {One(s)} # s
         /\ sum[s] = f[One(s)] + sum[s \ {One(s)}]
<1>1. One(s) \in s
  BY DEF One
<1> QED BY <1>1 DEF IsSum

LEMMA SumOfNone ==
  ASSUME NEW sum, NEW f, NEW T, IsSum(sum, f, T)
  PROVE  sum[{}] = 0
BY DEF IsSum

\* Two sums of the same function agree wherever both are defined.
LEMMA SumUnique ==
  ASSUME NEW f, NEW T \in SUBSET ReservationIds, NEW U \in SUBSET ReservationIds,
         NEW g, NEW h, IsSum(g, f, T), IsSum(h, f, U), NEW s, s \subseteq T, s \subseteq U
  PROVE  g[s] = h[s]
<1> DEFINE Z == {r \in SUBSET s : g[r] # h[r]}
<1> SUFFICES ASSUME Z # {} PROVE FALSE
  OBVIOUS
<1>1. PICK r \in Z : \A q \in SUBSET r : q # r => q \notin Z
  BY SmallestSet
<1>2. r # {}
  BY <1>1, SumOfNone
<1>3. /\ One(r) \in r /\ r \ {One(r)} \in SUBSET r /\ r \ {One(r)} # r
      /\ g[r] = f[One(r)] + g[r \ {One(r)}]
  BY <1>1, <1>2, SumOfOne
<1>4. h[r] = f[One(r)] + h[r \ {One(r)}]
  BY <1>1, <1>2, SumOfOne
<1>5. r \ {One(r)} \notin Z
  BY <1>1, <1>3
<1> QED BY <1>1, <1>3, <1>4, <1>5

\* The recursion has a solution: that of a set is put together from those of
\* its subsets.
LEMMA SumExists ==
  ASSUME NEW f
  PROVE  \E g : IsSum(g, f, ReservationIds)
<1> DEFINE Z == {T \in SUBSET ReservationIds : ~\E g : IsSum(g, f, T)}
<1> SUFFICES ASSUME Z # {} PROVE FALSE
  OBVIOUS
<1>1. PICK T \in Z : \A U \in SUBSET T : U # T => U \notin Z
  BY SmallestSet
<1> DEFINE sumOf(U) == CHOOSE g : IsSum(g, f, U)
           rest(s) == s \ {One(s)}
           sum == [s \in SUBSET T |-> IF s = {} THEN 0 ELSE f[One(s)] + sumOf(rest(s))[rest(s)]]
<1>2. ASSUME NEW U \in SUBSET T, U # T PROVE IsSum(sumOf(U), f, U)
  BY <1>1, <1>2
<1>3. ASSUME NEW s \in SUBSET T, s # {} PROVE sum[s] = f[One(s)] + sum[rest(s)]
  <2>1. One(s) \in s
    BY <1>3 DEF One
  <2>2. rest(s) \in SUBSET T /\ rest(s) # T
    BY <2>1
  <2>3. IsSum(sumOf(rest(s)), f, rest(s))
    BY <1>2, <2>2
  <2>4. sumOf(rest(s))[rest(s)] = sum[rest(s)]
    <3> DEFINE r == rest(s)
    <3>1. CASE r = {}
      <4>1. sumOf(r)[{}] = 0
        BY <2>3, SumOfNone
      <4> QED BY <2>2, <3>1, <4>1
    <3>2. CASE r # {}
      <4>1. One(r) \in r
        BY <3>2 DEF One
      <4>2. rest(r) \in SUBSET T /\ rest(r) # T /\ rest(r) \subseteq r
        BY <2>2, <4>1
      <4>3. sumOf(r)[r] = f[One(r)] + sumOf(r)[rest(r)]
        <5>1. ASSUME NEW q, NEW t, IsSum(q, f, t), t # {} PROVE q[t] = f[One(t)] + q[t \ {One(t)}]
          BY <5>1, SumOfOne
        <5> HIDE DEF sumOf
        <5> QED BY <2>3, <3>2, <5>1
      <4>4. IsSum(sumOf(rest(r)), f, rest(r))
        BY <1>2, <4>2
      <4>5. sumOf(rest(r))[rest(r)] = sumOf(r)[rest(r)]
        <5> HIDE DEF sumOf
        <5> QED BY <1>1, <2>2, <2>3, <4>2, <4>4, SumUnique
      <4>6. sum[r] = f[One(r)] + sumOf(rest(r))[rest(r)]
        BY <2>2, <3>2
      <4> QED BY <4>3, <4>5, <4>6
    <3> QED BY <3>1, <3>2
  <2> QED BY <1>3, <2>4
<1>4. IsSum(sum, f, T)
  <2>1. \A s \in SUBSET T : sum[s] = IF s = {} THEN 0 ELSE f[One(s)] + sum[rest(s)]
    <3>1. sum[{}] = 0
      OBVIOUS
    <3> HIDE DEF sum
    <3> QED BY <1>3, <3>1
  <2>2. sum = [s \in SUBSET T |-> sum[s]]
    OBVIOUS
  <2> HIDE DEF sum
  <2> QED BY <2>1, <2>2 DEF IsSum
<1> QED BY <1>1, <1>4

\* The total is the value of a sum on the whole set.
LEMMA TotalIsSum ==
  ASSUME NEW f
  PROVE  \E g : IsSum(g, f, ReservationIds) /\ Total(f) = g[ReservationIds]
<1>1. Total(f) = (CHOOSE g : IsSum(g, f, ReservationIds))[ReservationIds]
  BY DEF Total, MapThenSumSet, MapThenFoldSet, IsSum, One
<1> QED BY <1>1, SumExists

\* Nothing reserved, nothing in total.
LEMMA SumOfZeros ==
  ASSUME NEW f, \A i \in ReservationIds : f[i] = 0
  PROVE  Total(f) = 0
<1>1. PICK g : IsSum(g, f, ReservationIds) /\ Total(f) = g[ReservationIds]
  BY TotalIsSum
<1> DEFINE Z == {T \in SUBSET ReservationIds : g[T] # 0}
<1> SUFFICES ASSUME Z # {} PROVE FALSE
  BY <1>1
<1>2. PICK T \in Z : \A U \in SUBSET T : U # T => U \notin Z
  BY SmallestSet
<1>3. T # {}
  BY <1>1, <1>2, SumOfNone
<1>4. /\ One(T) \in T /\ T \ {One(T)} \in SUBSET T /\ T \ {One(T)} # T
      /\ g[T] = f[One(T)] + g[T \ {One(T)}]
  BY <1>1, <1>2, <1>3, SumOfOne
<1>5. g[T \ {One(T)}] = 0 /\ f[One(T)] = 0
  BY <1>2, <1>4
<1> QED BY <1>2, <1>4, <1>5

\* A sum of natural numbers is one.
LEMMA SumIsNat ==
  ASSUME NEW f \in [ReservationIds -> Nat], NEW g, IsSum(g, f, ReservationIds),
         NEW T \in SUBSET ReservationIds
  PROVE  g[T] \in Nat
<1> DEFINE Z == {U \in SUBSET ReservationIds : g[U] \notin Nat}
<1> SUFFICES ASSUME Z # {} PROVE FALSE
  OBVIOUS
<1>1. PICK U \in Z : \A V \in SUBSET U : V # U => V \notin Z
  BY SmallestSet
<1>2. U # {}
  BY <1>1, SumOfNone
<1>3. /\ One(U) \in U /\ U \ {One(U)} \in SUBSET U /\ U \ {One(U)} # U
      /\ g[U] = f[One(U)] + g[U \ {One(U)}]
  BY <1>1, <1>2, SumOfOne
<1>4. g[U \ {One(U)}] \in Nat /\ f[One(U)] \in Nat
  BY <1>1, <1>3
<1> QED BY <1>1, <1>3, <1>4

\* A total moves by what one reservation moves.
LEMMA SumMoves ==
  ASSUME NEW f \in [ReservationIds -> Nat], NEW h \in [ReservationIds -> Nat],
         NEW i \in ReservationIds, \A j \in ReservationIds : j # i => h[j] = f[j]
  PROVE  Total(h) = Total(f) + h[i] - f[i]
<1>1. PICK g : IsSum(g, f, ReservationIds) /\ Total(f) = g[ReservationIds]
  BY TotalIsSum
<1>2. PICK k : IsSum(k, h, ReservationIds) /\ Total(h) = k[ReservationIds]
  BY TotalIsSum
<1> DEFINE moved(T) == IF i \in T THEN h[i] - f[i] ELSE 0
           Z == {T \in SUBSET ReservationIds : k[T] # g[T] + moved(T)}
<1>3. Z = {}
  <2> SUFFICES ASSUME Z # {} PROVE FALSE
    OBVIOUS
  <2>1. PICK T \in Z : \A U \in SUBSET T : U # T => U \notin Z
    BY SmallestSet
  <2>2. T # {}
    <3>1. g[{}] = 0 /\ k[{}] = 0
      BY <1>1, <1>2, SumOfNone
    <3>2. moved({}) = 0 /\ k[{}] = g[{}] + moved({})
      BY <3>1
    <3> QED BY <2>1, <3>2
  <2> DEFINE x == One(T)
             R == T \ {x}
  <2>3. x \in T /\ R \in SUBSET T /\ R # T /\ g[T] = f[x] + g[R]
    BY <1>1, <2>1, <2>2, SumOfOne
  <2>4. k[T] = h[x] + k[R]
    BY <1>2, <2>1, <2>2, SumOfOne
  <2>5. k[R] = g[R] + moved(R)
    BY <2>1, <2>3
  <2>6. g[R] \in Nat /\ k[R] \in Nat
    BY <1>1, <1>2, <2>1, <2>3, SumIsNat
  <2> HIDE DEF x
  <2>7. h[x] \in Nat /\ f[x] \in Nat /\ h[i] \in Nat /\ f[i] \in Nat
    BY <2>1, <2>3
  <2>8. CASE x = i
    <3>1. moved(R) = 0 /\ moved(T) = h[i] - f[i]
      BY <2>3, <2>8
    <3> QED BY <2>1, <2>3, <2>4, <2>5, <2>6, <2>7, <2>8, <3>1
  <2>9. CASE x # i
    <3>1. moved(R) = moved(T) /\ h[x] = f[x] /\ moved(T) \in Int
      BY <2>1, <2>3, <2>7, <2>9
    <3> HIDE DEF moved
    <3> QED BY <2>1, <2>3, <2>4, <2>5, <2>6, <2>7, <3>1
  <2> QED BY <2>8, <2>9
<1>4. k[ReservationIds] = g[ReservationIds] + (h[i] - f[i])
  BY <1>3
<1>5. g[ReservationIds] \in Nat
  BY <1>1, SumIsNat
<1> QED BY <1>1, <1>2, <1>4, <1>5

\* The running total kept by three handlers, and forgotten by every crash, is
\* the sum of the live reservations (lines 407, 447, 459).
THEOREM ReservationsCorrect == Spec => []ReservationsAddUp
<1>a. ReservationsAddUp <=> reservedBytes = Total(reservations)
  BY DEF ReservationsAddUp, Total
<1>b. ReservationsAddUp' <=> reservedBytes' = Total(reservations')
  BY DEF ReservationsAddUp, Total, MapThenSumSet, MapThenFoldSet
<1>c. ASSUME NEW f \in [ReservationIds -> Nat] PROVE Total(f) \in Nat
  BY TotalIsSum, SumIsNat
<1>1. Init => ReservationsAddUp
  <2> SUFFICES ASSUME Init PROVE reservedBytes = Total(reservations)
    BY <1>a
  <2> QED BY SumOfZeros DEF Init
<1>2. TypeOK /\ ReservationsAddUp /\ [Next]_vars => ReservationsAddUp'
  <2> SUFFICES ASSUME TypeOK, ReservationsAddUp, [Next]_vars PROVE reservedBytes' = Total(reservations')
    BY <1>b
  <2>0. /\ reservedBytes = Total(reservations) /\ Total(reservations) \in Nat
        /\ reservations \in [ReservationIds -> Nat]
    BY <1>a, <1>c DEF TypeOK
  <2>1. CASE UNCHANGED claims
    BY <2>0, <2>1 DEF claims
  <2>2. CASE UNCHANGED vars \/ Opening \/ PublicationFails
    BY <2>1, <2>2 DEF vars, Opening, Create, ReserveFile, SettleExtents, PreparationFails, LoadGeneration,
         LoadNothing, LoadCorrupt, PublicationFails
  <2>3. CASE Calling
    <3>1. ASSUME NEW id \in ReservationIds, NEW bytes \in ReservationSizes, Reserve(id, bytes)
          PROVE  reservedBytes' = Total(reservations')
      <4>1. bytes \in Nat /\ reservations' = [reservations EXCEPT ![id] = bytes]
        BY <3>1, ReservationAssumption DEF Reserve
      <4>2. /\ reservations' \in [ReservationIds -> Nat] /\ reservations'[id] = bytes
            /\ \A j \in ReservationIds : j # id => reservations'[j] = reservations[j]
        BY <2>0, <4>1
      <4>3. Total(reservations') = Total(reservations) + reservations'[id] - reservations[id]
        BY <2>0, <4>2, SumMoves
      <4> QED BY <2>0, <3>1, <4>1, <4>2, <4>3 DEF Reserve
    <3>2. ASSUME NEW id \in ReservationIds, ReleaseReservation(id)
          PROVE  reservedBytes' = Total(reservations')
      <4>1. reservations' = [reservations EXCEPT ![id] = 0]
        BY <3>2 DEF ReleaseReservation
      <4>2. /\ reservations' \in [ReservationIds -> Nat] /\ reservations'[id] = 0
            /\ \A j \in ReservationIds : j # id => reservations'[j] = reservations[j]
        BY <2>0, <4>1
      <4>3. Total(reservations') = Total(reservations) + reservations'[id] - reservations[id]
        BY <2>0, <4>2, SumMoves
      <4> QED BY <2>0, <3>2, <4>2, <4>3 DEF ReleaseReservation
    <3>3. CASE Close
      BY <2>1, <3>3 DEF Close
    <3>4. ASSUME NEW rs, NEW r, NEW bytes, Publish(rs, r, bytes) PROVE reservedBytes' = Total(reservations')
      BY <2>1, <3>4 DEF Publish
    <3> QED BY <2>3, <3>1, <3>2, <3>3, <3>4 DEF Calling, Put, Remove
  <2>4. CASE Writing
    <3>1. CASE (\E f \in Fields : WriteField(f)) \/ Sync("sync") \/ Sync("syncCommit")
      BY <2>1, <3>1 DEF WriteField, Sync
    <3>2. CASE Acknowledge
      <4> DEFINE r == job.reservation
      <4>1. /\ reservations' = [i \in ReservationIds |-> IF i = r THEN 0 ELSE reservations[i]]
            /\ reservedBytes' = reservedBytes - ClaimOf(r) /\ r \in ReservationIds \union {Nothing}
        BY <3>2 DEF Acknowledge, SpendClaim, Running, TypeOK, Jobs
      <4> HIDE DEF r
      <4>2. CASE r = Nothing
        <5>1. reservations' = reservations /\ ClaimOf(r) = 0
          BY <2>0, <4>1, <4>2, FreshAssumption DEF ClaimOf
        <5> QED BY <2>0, <4>1, <5>1
      <4>3. CASE r # Nothing
        <5>1. /\ r \in ReservationIds /\ ClaimOf(r) = reservations[r] /\ reservations'[r] = 0
              /\ reservations' \in [ReservationIds -> Nat]
              /\ \A j \in ReservationIds : j # r => reservations'[j] = reservations[j]
          BY <2>0, <4>1, <4>3 DEF ClaimOf
        <5>2. Total(reservations') = Total(reservations) + reservations'[r] - reservations[r]
          BY <2>0, <5>1, SumMoves
        <5> QED BY <2>0, <4>1, <5>1, <5>2
      <4> QED BY <4>2, <4>3
    <3> QED BY <2>4, <3>1, <3>2 DEF Writing
  <2>5. CASE Kill \/ PowerLoss
    BY <2>5, SumOfZeros DEF Kill, PowerLoss, ForgetMemory
  <2> QED BY <2>2, <2>3, <2>4, <2>5 DEF Next
<1> QED BY <1>1, <1>2, TypeCorrect, PTL DEF Spec
=============================================================================
