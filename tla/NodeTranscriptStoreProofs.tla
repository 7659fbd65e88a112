----------------------- MODULE NodeTranscriptStoreProofs -----------------------
(***************************************************************************)
(* For any entries and any number of writes and faults: no entry is on the *)
(* disk without the node.json by which its conversation is found, a reader *)
(* is shown what was accepted, and what was closed is in its archive.      *)
(*                                                                         *)
(* Discoverable is not inductive: a write that is about to save an entry,  *)
(* and a retry that is about to, rely on a node.json that was saved        *)
(* earlier.  A write skips that first save when the node is known, which a *)
(* refused first save also makes it; but then storage is refused until a   *)
(* retry, which begins with node.json.                                     *)
(*                                                                         *)
(* Nor are the others.  A write changes the files before it is answered,   *)
(* so while one runs a reader is shown what is meant and not yet said      *)
(* (ViewInv, Meant); a retry passes from what is held to what is on the    *)
(* disk one file at a time (Made); what a refused write leaves to be saved *)
(* is right because its last piece is known to be the one node.json was    *)
(* missing for (PieceWritten).  That no call changes an entry another one  *)
(* writes comes from the queue (QueueInv).  The copy of an archive is that *)
(* of its revision, because whatever changes a conversation takes a new    *)
(* revision before it does (WriteStage, OtherStage, ArchiveInv), and a     *)
(* later process finds a closed conversation closed (ClosedInv).           *)
(***************************************************************************)
EXTENDS NodeTranscriptStore, TLAPS

\* The calls of a queue, how far they are, and the stages after a node.json.
Calls(q) == {q[i] : i \in DOMAIN q}
Stages(q) == {o.at : o \in Calls(q)}
Late == {"entry", "words", "node", "entries", "unlink", "remove", "sweep"}

IsQueue(q) == q \in Seq(Calls(q)) /\ \A o \in Calls(q) : "at" \in DOMAIN o

QueueType == IsQueue(queue)
HeldType ==
  /\ {"known", "closed", "revision"} \subseteq DOMAIN held
  /\ held.revision \in Nat /\ held.closed \in BOOLEAN
NodeType == node \in [revision : Nat, closed : BOOLEAN] \cup {None}
JournalType == \A c \in {promised} \cup attempted : c = None \/ c.revision \in Nat
StoreType == QueueType /\ HeldType /\ NodeType /\ JournalType

\* A node that may be written to without a first save has had one.
KnownIsSaved == held.known /\ ~failing => node # None
LateIsSaved == Stages(queue) \cap Late # {} => node # None

\* The inductive invariant.
StoreInv == StoreType /\ KnownIsSaved /\ LateIsSaved /\ Discoverable
-----------------------------------------------------------------------------
(* The queue.                                                              *)

LEMMA SeqOfCalls ==
  ASSUME NEW S, NEW q \in Seq(S), \A o \in S : "at" \in DOMAIN o
  PROVE  IsQueue(q)
<1>1. \A i \in 1 .. Len(q) : q[i] \in Calls(q)
  BY DEF Calls
<1>2. q \in Seq(Calls(q))
  BY <1>1
<1>3. Calls(q) \subseteq S
  BY DEF Calls
<1> QED BY <1>2, <1>3 DEF IsQueue

LEMMA HeadGoes ==
  ASSUME NEW q, IsQueue(q), q # <<>>, NEW o, "at" \in DOMAIN o
  PROVE  IsQueue(<<o>> \o Tail(q)) /\ Stages(<<o>> \o Tail(q)) \subseteq {o.at} \cup Stages(q)
<1> DEFINE s == <<o>> \o Tail(q)
           S == Calls(q) \cup {o}
<1>1. q \in Seq(S) /\ o \in S /\ \A p \in S : "at" \in DOMAIN p
  BY DEF IsQueue
<1> HIDE DEF S
<1>2. s \in Seq(S)
  BY <1>1
<1> HIDE DEF s
<1>3. Calls(s) \subseteq S
  BY <1>2 DEF Calls
<1>4. Stages(s) \subseteq {o.at} \cup Stages(q)
  BY <1>3 DEF Stages, S
<1> QED BY <1>1, <1>2, <1>4, SeqOfCalls DEF s

LEMMA HeadEnds ==
  ASSUME NEW q, IsQueue(q), q # <<>>
  PROVE  /\ IsQueue(Tail(q)) /\ Stages(Tail(q)) \subseteq Stages(q)
         /\ "at" \in DOMAIN Head(q) /\ Head(q).at \in Stages(q)
<1> DEFINE S == Calls(q)
<1>1. q \in Seq(S) /\ \A p \in S : "at" \in DOMAIN p
  BY DEF IsQueue
<1>2. Head(q) \in S
  BY <1>1 DEF Calls
<1> HIDE DEF S
<1>3. Tail(q) \in Seq(S)
  BY <1>1
<1>4. Calls(Tail(q)) \subseteq S
  BY <1>3 DEF Calls
<1>5. Stages(Tail(q)) \subseteq Stages(q) /\ Head(q).at \in Stages(q)
  BY <1>2, <1>4 DEF Stages, S
<1> QED BY <1>1, <1>2, <1>3, <1>5, SeqOfCalls

LEMMA CallsJoin ==
  ASSUME NEW q, IsQueue(q), NEW new, IsQueue(new), Stages(new) \subseteq {"called"}
  PROVE  IsQueue(q \o new) /\ Stages(q \o new) \subseteq Stages(q) \cup {"called"}
<1> DEFINE s == q \o new
           S == Calls(q) \cup Calls(new)
<1>1. q \in Seq(S) /\ new \in Seq(S) /\ \A p \in S : "at" \in DOMAIN p
  BY DEF IsQueue
<1> HIDE DEF S
<1>2. s \in Seq(S)
  BY <1>1
<1> HIDE DEF s
<1>3. Calls(s) \subseteq S
  BY <1>2 DEF Calls
<1>4. Stages(s) \subseteq Stages(q) \cup {"called"}
  BY <1>3 DEF Stages, S
<1> QED BY <1>1, <1>2, <1>4, SeqOfCalls DEF s

LEMMA NewCalls ==
  ASSUME NEW n \in Nat, NEW new, DOMAIN new = 1 .. n, new = [i \in 1 .. n |-> new[i]],
         \A i \in 1 .. n : "at" \in DOMAIN new[i] /\ new[i].at = "called"
  PROVE  IsQueue(new) /\ Stages(new) \subseteq {"called"}
<1>1. new \in Seq(Calls(new))
  BY DEF Calls
<1> QED BY <1>1 DEF IsQueue, Calls, Stages

\* A step that brings no call past a node.json that is not there.
LEMMA StepKeeps ==
  ASSUME StoreInv, StoreType',
         node # None => node' # None,
         Stages(queue') \cap Late # {} => Stages(queue) \cap Late # {} \/ node' # None,
         held'.known /\ ~failing' => (held.known /\ ~failing) \/ node' # None,
         (\E e \in Entries : file'[e] # None) => (\E e \in Entries : file[e] # None) \/ node' # None
  PROVE  StoreInv'
BY DEF StoreInv, KnownIsSaved, LateIsSaved, Discoverable

\* Whatever is done while there is a node.json, and leaves one there.
LEMMA NodeIsThere ==
  ASSUME StoreType', node' # None
  PROVE  StoreInv'
BY DEF StoreInv, KnownIsSaved, LateIsSaved, Discoverable
-----------------------------------------------------------------------------
(* The calls that join the queue.                                          *)

\* Nothing moves but the queue, which only gains calls that have not begun.
LEMMA OnlyCalled ==
  ASSUME StoreInv, QueueType', Stages(queue') \subseteq Stages(queue) \cup {"called"},
         UNCHANGED <<node, file, promised, attempted, held, failing>>
  PROVE  StoreInv'
<1>1. StoreType'
  BY DEF StoreInv, StoreType, HeldType, NodeType, JournalType
<1>2. Stages(queue') \cap Late \subseteq Stages(queue) \cap Late
  BY DEF Late
<1> QED BY <1>1, <1>2, StepKeeps

LEMMA CalledJoins ==
  ASSUME QueueType, NEW es \in Seq(Entries), Called(es)
  PROVE  QueueType' /\ Stages(queue') \subseteq Stages(queue) \cup {"called"}
<1> DEFINE new == [i \in DOMAIN es |-> Call("write", es[i], writes + i)]
<1>1. Len(es) \in Nat /\ DOMAIN es = 1 .. Len(es)
  OBVIOUS
<1>2. \A i \in 1 .. Len(es) : "at" \in DOMAIN new[i] /\ new[i].at = "called"
  BY <1>1 DEF Call
<1>3. DOMAIN new = 1 .. Len(es) /\ new = [i \in 1 .. Len(es) |-> new[i]] /\ queue' = queue \o new
  BY <1>1 DEF Called
<1> HIDE DEF new
<1> QED BY <1>1, <1>2, <1>3, NewCalls, CallsJoin DEF QueueType

LEMMA WritesJoin ==
  ASSUME StoreInv, CaptureWrites \/ WindowWrites
  PROVE  StoreInv'
<1>1. UNCHANGED <<node, file, promised, attempted, held, failing>>
  BY DEF CaptureWrites, WindowWrites, WindowMay, Calling, ByWindow, ByCapture, disk, journal
<1>2. ASSUME NEW es \in Seq(Entries), Called(es) PROVE StoreInv'
  <2>1. QueueType
    BY DEF StoreInv, StoreType
  <2> QED BY <1>1, <1>2, <2>1, CalledJoins, OnlyCalled
<1>3. CASE CaptureWrites
  <2>1. PICK e \in Entries, f \in Entries : Called(<<e>>) \/ Called(<<e, f>>)
    BY <1>3 DEF CaptureWrites, Entries, Calling, ByCapture
  <2>2. <<e>> \in Seq(Entries) /\ <<e, f>> \in Seq(Entries)
    OBVIOUS
  <2> QED BY <1>2, <2>1, <2>2
<1>4. CASE WindowWrites
  <2>1. PICK e \in Entries : Called(<<e>>)
    BY <1>4 DEF WindowWrites, Entries, WindowMay, Calling, ByWindow, ByCapture
  <2>2. <<e>> \in Seq(Entries)
    OBVIOUS
  <2> QED BY <1>2, <2>1, <2>2
<1> QED BY <1>3, <1>4

\* One call more.
LEMMA OneJoins ==
  ASSUME QueueType, NEW o, "at" \in DOMAIN o, o.at = "called", queue' = Append(queue, o)
  PROVE  QueueType' /\ Stages(queue') \subseteq Stages(queue) \cup {"called"}
<1> DEFINE S == {o}
<1>1. queue' = queue \o <<o>> /\ <<o>> \in Seq(S) /\ Calls(<<o>>) \subseteq S
  BY DEF QueueType, IsQueue, Calls
<1>2. IsQueue(<<o>>)
  <2>1. \A p \in S : "at" \in DOMAIN p
    OBVIOUS
  <2> HIDE DEF S
  <2> QED BY <1>1, <2>1, SeqOfCalls
<1>3. Stages(<<o>>) \subseteq {"called"}
  BY <1>1 DEF Stages
<1> HIDE DEF S
<1> QED BY <1>1, <1>2, <1>3, CallsJoin DEF QueueType

LEMMA AsksJoin ==
  ASSUME StoreInv, NEW kind, NEW e, WindowAsks(kind, e)
  PROVE  StoreInv'
<1>1. "at" \in DOMAIN Call(kind, e, 0) /\ Call(kind, e, 0).at = "called"
  BY DEF Call
<1>2. queue' = Append(queue, Call(kind, e, 0))
      /\ UNCHANGED <<node, file, promised, attempted, held, failing>>
  BY DEF WindowAsks, WindowMay, Calling, ByWindow, ByCapture, disk, journal
<1> QED BY <1>1, <1>2, OneJoins, OnlyCalled DEF StoreInv, StoreType
-----------------------------------------------------------------------------
(* The running call.                                                       *)

LEMMA OpIsCall ==
  ASSUME StoreInv, queue # <<>>
  PROVE  "at" \in DOMAIN Op /\ (Op.at \in Late => node # None)
<1>1. "at" \in DOMAIN Op /\ Op.at \in Stages(queue)
  BY HeadEnds DEF StoreInv, StoreType, QueueType, Op
<1> QED BY <1>1 DEF StoreInv, LateIsSaved

\* It goes on, whatever else of it changes.
LEMMA HeadChanges ==
  ASSUME StoreInv, queue # <<>>, NEW o, DOMAIN o = DOMAIN Op, queue' = <<o>> \o Tail(queue)
  PROVE  QueueType' /\ Stages(queue') \subseteq {o.at} \cup Stages(queue)
<1>1. "at" \in DOMAIN o
  BY OpIsCall
<1> QED BY <1>1, HeadGoes DEF StoreInv, StoreType, QueueType

LEMMA GoesOn ==
  ASSUME StoreInv, queue # <<>>, NEW at, Goes(at)
  PROVE  QueueType' /\ Stages(queue') \subseteq {at} \cup Stages(queue)
<1> DEFINE o == [Op EXCEPT !.at = at]
<1>1. DOMAIN o = DOMAIN Op /\ o.at = at /\ queue' = <<o>> \o Tail(queue)
  BY OpIsCall DEF Goes
<1> HIDE DEF o
<1> QED BY <1>1, HeadChanges

LEMMA Over ==
  ASSUME StoreInv, queue # <<>>, Ends
  PROVE  QueueType' /\ Stages(queue') \subseteq Stages(queue)
BY HeadEnds DEF Ends, StoreInv, StoreType, QueueType

\* The words of a refused write are held, and storage counts as refused.
LEMMA HoldKeeps ==
  ASSUME StoreInv, queue # <<>>, NEW state, Hold(state),
         state = held \/ state = [held EXCEPT !.revision = @ + 1],
         UNCHANGED <<node, file, promised, attempted>>
  PROVE  StoreInv'
<1>1. QueueType' /\ Stages(queue') \subseteq {"journal"} \cup Stages(queue) /\ failing' = TRUE
  BY GoesOn DEF Hold
<1>2. HeldType'
  BY DEF StoreInv, StoreType, HeldType, Hold
<1>3. StoreType'
  BY <1>1, <1>2 DEF StoreInv, StoreType, NodeType, JournalType
<1>4. Stages(queue') \cap Late \subseteq Stages(queue) \cap Late
  BY <1>1 DEF Late
<1> QED BY <1>1, <1>3, <1>4, StepKeeps

\* A call ends or is refused, and nothing moves but what the journal attempted.
LEMMA EndKeeps ==
  ASSUME StoreInv, queue # <<>>, Ends, JournalType', UNCHANGED <<node, file, held, failing>>
  PROVE  StoreInv'
<1>1. QueueType' /\ Stages(queue') \subseteq Stages(queue)
  BY Over
<1>2. StoreType'
  BY <1>1 DEF StoreInv, StoreType, NodeType, HeldType
<1> QED BY <1>1, <1>2, StepKeeps
\* node.json is saved with what the node holds, and the call ends or goes on.
LEMMA NodeIsSaved ==
  ASSUME StoreInv, NEW r \in Nat, NEW b \in BOOLEAN, node' = [revision |-> r, closed |-> b],
         QueueType', HeldType', UNCHANGED <<promised, attempted>>
  PROVE  StoreInv'
<1>1. node' \in Nodes /\ node' # None
  BY NoneAssumption DEF Nodes
<1>2. StoreType'
  BY <1>1 DEF StoreInv, StoreType, NodeType, JournalType, Nodes
<1> QED BY <1>1, <1>2, NodeIsThere
-----------------------------------------------------------------------------
(* A write.                                                                *)

LEMMA WriteStartsKeeps ==
  ASSUME StoreInv, WriteStarts
  PROVE  StoreInv'
<1>1. queue # <<>> /\ UNCHANGED <<node, file, promised, attempted>>
  BY DEF WriteStarts, Running, disk, journal
<1>2. CASE Ends /\ UNCHANGED <<held, failing>>
  BY <1>1, <1>2, EndKeeps DEF StoreInv, StoreType, JournalType
<1>3. CASE Hold([held EXCEPT !.revision = @ + 1])
  BY <1>1, <1>3, HoldKeeps
<1>4. ASSUME NEW at \in {"initial", "words", "entry"}, Goes(at), held' = [held EXCEPT !.revision = @ + 1],
             UNCHANGED failing, ~failing, ~held.known => at = "initial"
      PROVE  StoreInv'
  <2>1. QueueType' /\ Stages(queue') \subseteq {at} \cup Stages(queue)
    BY <1>1, <1>4, GoesOn
  <2>2. HeldType' /\ held'.known = held.known
    BY <1>4 DEF StoreInv, StoreType, HeldType
  <2>3. StoreType'
    BY <1>1, <2>1, <2>2 DEF StoreInv, StoreType, NodeType, JournalType
  <2>4. Stages(queue') \cap Late # {} => Stages(queue) \cap Late # {} \/ node # None
    BY <1>4, <2>1 DEF Late, StoreInv, KnownIsSaved
  <2> QED BY <1>1, <1>4, <2>2, <2>3, <2>4, StepKeeps
<1> QED BY <1>2, <1>3, <1>4 DEF WriteStarts

LEMMA InitialSavedKeeps ==
  ASSUME StoreInv, InitialSaved
  PROVE  StoreInv'
<1>1. queue # <<>> /\ node' = [revision |-> 0, closed |-> FALSE] /\ held' = [held EXCEPT !.known = TRUE]
      /\ UNCHANGED <<file, promised, attempted>>
  BY DEF InitialSaved, Running, journal
<1>2. QueueType'
  BY <1>1, GoesOn DEF InitialSaved
<1>3. HeldType'
  BY <1>1 DEF StoreInv, StoreType, HeldType
<1> QED BY <1>1, <1>2, <1>3, NodeIsSaved

LEMMA WordsKeep ==
  ASSUME StoreInv, EntrySaved \/ WordsSaved
  PROVE  StoreInv'
<1>1. queue # <<>> /\ Op.at \in {"entry", "words"} /\ UNCHANGED <<node, promised, attempted>>
  BY DEF EntrySaved, WordsSaved, Running, Op, journal
<1>2. node # None /\ "at" \in DOMAIN Op
  BY <1>1, OpIsCall DEF Late
<1>3. QueueType'
  <2>1. CASE EntrySaved
    BY <1>1, <2>1, GoesOn DEF EntrySaved
  <2>2. CASE WordsSaved
    <3> DEFINE o == [Op EXCEPT !.at = "node",
                               !.bytes = IF file[Op.entry].inline THEN None ELSE Len(spill[Op.entry])]
    <3>1. DOMAIN o = DOMAIN Op /\ queue' = <<o>> \o Tail(queue)
      BY <2>2 DEF WordsSaved
    <3> HIDE DEF o
    <3> QED BY <1>1, <3>1, HeadChanges
  <2> QED BY <2>1, <2>2
<1>4. HeldType'
  BY DEF EntrySaved, WordsSaved, StoreInv, StoreType, HeldType
<1> QED BY <1>1, <1>2, <1>3, <1>4, NodeIsThere DEF StoreInv, StoreType, NodeType, JournalType

LEMMA NodeSavedKeeps ==
  ASSUME StoreInv, NodeSaved
  PROVE  StoreInv'
<1>1. queue # <<>> /\ Ends /\ node' = [revision |-> held.revision, closed |-> FALSE]
      /\ UNCHANGED <<held, promised, attempted>>
  BY DEF NodeSaved, Running, journal
<1>2. QueueType'
  BY <1>1, Over
<1>3. HeldType' /\ held.revision \in Nat
  BY <1>1 DEF StoreInv, StoreType, HeldType
<1> QED BY <1>1, <1>2, <1>3, NodeIsSaved

LEMMA WriteRefusedKeeps ==
  ASSUME StoreInv, WriteRefused
  PROVE  StoreInv'
<1>1. queue # <<>> /\ UNCHANGED <<node, file, promised, attempted>>
  BY DEF WriteRefused, journal
<1>2. CASE Hold(held)
  BY <1>1, <1>2, HoldKeeps
<1>3. ASSUME NEW rest, held' = [held EXCEPT !.retained[Op.entry] = rest], failing' = TRUE, Goes("journal")
      PROVE  StoreInv'
  <2>1. QueueType' /\ Stages(queue') \subseteq {"journal"} \cup Stages(queue)
    BY <1>1, <1>3, GoesOn
  <2>2. HeldType'
    BY <1>3 DEF StoreInv, StoreType, HeldType
  <2>3. StoreType'
    BY <1>1, <2>1, <2>2 DEF StoreInv, StoreType, NodeType, JournalType
  <2>4. Stages(queue') \cap Late \subseteq Stages(queue) \cap Late
    BY <2>1 DEF Late
  <2> QED BY <1>1, <1>3, <2>3, <2>4, StepKeeps
<1> QED BY <1>2, <1>3 DEF WriteRefused

\* The journal is asked, and what it has been asked is a record of the node.
LEMMA HoldsKeep ==
  ASSUME StoreInv, HoldRecorded \/ HoldSafe \/ HoldUnsafe
  PROVE  StoreInv'
<1>1. queue # <<>> /\ UNCHANGED <<node, file, held, failing>>
  BY DEF HoldRecorded, HoldSafe, HoldUnsafe, Running, disk
<1>2. JournalType'
  <2>1. Record.revision \in Nat
    BY DEF Record, StoreInv, StoreType, HeldType
  <2>2. CASE HoldRecorded
    BY <2>1, <2>2 DEF HoldRecorded, Journal!AttemptOf, StoreInv, StoreType, JournalType
  <2>3. CASE HoldSafe
    BY <2>1, <2>3 DEF HoldSafe, Journal!AcknowledgeOf, StoreInv, StoreType, JournalType
  <2>4. CASE HoldUnsafe
    BY <2>4 DEF HoldUnsafe, journal, StoreInv, StoreType, JournalType
  <2> QED BY <2>2, <2>3, <2>4
<1>3. CASE HoldRecorded
  <2>1. QueueType' /\ Stages(queue') \subseteq {"put"} \cup Stages(queue)
    BY <1>1, <1>3, GoesOn DEF HoldRecorded
  <2>2. Stages(queue') \cap Late \subseteq Stages(queue) \cap Late
    BY <2>1 DEF Late
  <2>3. StoreType'
    BY <1>1, <1>2, <2>1 DEF StoreInv, StoreType, NodeType, HeldType
  <2> QED BY <1>1, <2>2, <2>3, StepKeeps
<1>4. CASE HoldSafe \/ HoldUnsafe
  BY <1>1, <1>2, <1>4, EndKeeps DEF HoldSafe, HoldUnsafe
<1> QED BY <1>3, <1>4
-----------------------------------------------------------------------------
(* A retry.                                                                *)

\* A state recovered from what the journal promised is known only if it is
\* saved, or has to be.
LEMMA PreparedKeeps ==
  ASSUME StoreInv, NEW c \in {promised} \cup attempted, Prepared(c), QueueType',
         Stages(queue') \subseteq Stages(queue) \cup {"called"}, UNCHANGED <<node, file>>
  PROVE  StoreInv'
<1>1. c = None \/ c.revision \in Nat
  BY DEF StoreInv, StoreType, JournalType
<1>2. held' = Recovered(c) /\ failing' = (c # None) /\ promised' = c /\ attempted' = {}
  BY DEF Prepared, Journal!RecoverOf
<1>3. JournalType'
  BY <1>1, <1>2 DEF JournalType
<1>4. HeldType'
  BY <1>1, <1>2 DEF HeldType, Recovered, StoreInv, StoreType, NodeType
<1>5. held'.known /\ ~failing' => node' # None
  BY <1>2 DEF Recovered
<1>6. StoreType'
  BY <1>3, <1>4 DEF StoreType, StoreInv, NodeType
<1>7. Stages(queue') \cap Late \subseteq Stages(queue) \cap Late
  BY DEF Late
<1> QED BY <1>5, <1>6, <1>7, StepKeeps

LEMMA NoCalls == IsQueue(<<>>) /\ Stages(<<>>) = {}
<1> DEFINE S == {}
<1>1. <<>> \in Seq(S) /\ Calls(<<>>) = {}
  BY DEF Calls
<1> QED BY <1>1 DEF IsQueue, Stages

LEMMA RetryKeeps ==
  ASSUME StoreInv, Retry
  PROVE  StoreInv'
<1> DEFINE o == Call("retry", None, 0)
<1>1. "at" \in DOMAIN o /\ o.at = "called" /\ UNCHANGED <<node, file>>
  BY DEF Call, Retry, Calling, IsRetry, disk
<1>2. CASE queue' = Append(queue, o) /\ UNCHANGED <<journal, phase, held, failing, told>>
  BY <1>1, <1>2, OneJoins, OnlyCalled DEF StoreInv, StoreType, journal
<1>3. ASSUME NEW c \in {promised} \cup attempted, Prepared(c), queue' \in {<<>>, <<o>>}
      PROVE  StoreInv'
  <2>1. IsQueue(<<o>>) /\ Stages(<<o>>) \subseteq {"called"}
    <3> DEFINE S == {o}
    <3>1. <<o>> \in Seq(S) /\ Calls(<<o>>) \subseteq S /\ \A p \in S : "at" \in DOMAIN p
      BY <1>1 DEF Calls
    <3>2. Stages(<<o>>) \subseteq {"called"}
      BY <1>1, <3>1 DEF Stages
    <3> HIDE DEF S
    <3> QED BY <3>1, <3>2, SeqOfCalls
  <2>2. QueueType' /\ Stages(queue') \subseteq {"called"}
    BY <1>3, <2>1, NoCalls DEF QueueType
  <2> QED BY <1>1, <1>3, <2>2, PreparedKeeps
<1>4. \/ queue' = Append(queue, o) /\ UNCHANGED <<journal, phase, held, failing, told>>
      \/ \E c \in {promised} \cup attempted : Prepared(c) /\ queue' \in {<<>>, <<o>>}
  BY DEF Retry, Calling, IsRetry
<1> QED BY <1>2, <1>3, <1>4

LEMMA RetryStartsKeeps ==
  ASSUME StoreInv, RetryStarts
  PROVE  StoreInv'
<1> DEFINE o == [Op EXCEPT !.at = "entries", !.left = Holding(held.retained)]
<1>1. queue # <<>> /\ DOMAIN o = DOMAIN Op /\ queue' = <<o>> \o Tail(queue)
      /\ node' = [revision |-> held.revision, closed |-> held.closed]
      /\ UNCHANGED <<held, promised, attempted>>
  BY DEF RetryStarts, Running, journal
<1> HIDE DEF o
<1>2. QueueType'
  BY <1>1, HeadChanges
<1>3. HeldType' /\ held.revision \in Nat /\ held.closed \in BOOLEAN
  BY <1>1 DEF StoreInv, StoreType, HeldType
<1> QED BY <1>1, <1>2, <1>3, NodeIsSaved

LEMMA RetryGoesOnKeeps ==
  ASSUME StoreInv, (\E e \in Entries : RetrySaves(e)) \/ RetryUnlinks \/ RetryClears
  PROVE  StoreInv'
<1>1. queue # <<>> /\ Op.at \in {"entries", "unlink"} /\ UNCHANGED <<node, held>>
  BY DEF RetrySaves, RetryUnlinks, RetryClears, Running, Op, disk
<1>2. node # None
  BY <1>1, OpIsCall DEF Late
<1>3. JournalType'
  BY DEF RetrySaves, RetryUnlinks, RetryClears, journal, Journal!AttemptOf, StoreInv, StoreType, JournalType
<1>4. QueueType'
  <2>1. PICK o : DOMAIN o = DOMAIN Op /\ queue' = <<o>> \o Tail(queue)
    <3>1. ASSUME NEW e, RetrySaves(e) PROVE \E o : DOMAIN o = DOMAIN Op /\ queue' = <<o>> \o Tail(queue)
      <4> WITNESS [Op EXCEPT !.at = "unlink", !.entry = e]
      <4> QED BY <3>1 DEF RetrySaves
    <3>2. CASE RetryUnlinks
      <4> WITNESS [Op EXCEPT !.at = "entries", !.left = @ \ {Op.entry}]
      <4> QED BY <3>2 DEF RetryUnlinks
    <3>3. CASE RetryClears
      <4> WITNESS [Op EXCEPT !.at = "remove"]
      <4> QED BY <3>3 DEF RetryClears, Goes
    <3> QED BY <3>1, <3>2, <3>3
  <2> QED BY <1>1, <2>1, HeadChanges
<1>5. StoreType'
  BY <1>1, <1>3, <1>4 DEF StoreInv, StoreType, NodeType, HeldType
<1> QED BY <1>1, <1>2, <1>5, NodeIsThere

LEMMA RetryEndKeeps ==
  ASSUME StoreInv, RetryEnds \/ RetryEndsWithoutRecord
  PROVE  StoreInv'
<1>1. queue # <<>> /\ Op.at \in {"entries", "remove"} /\ Ends /\ UNCHANGED node
      /\ held' = [held EXCEPT !.retained = NothingHeld]
  BY DEF RetryEnds, RetryEndsWithoutRecord, Saved, Running, Op, disk
<1>2. node # None
  BY <1>1, OpIsCall DEF Late
<1>3. JournalType'
  BY DEF RetryEnds, RetryEndsWithoutRecord, Journal!AcknowledgeOf, StoreInv, StoreType, JournalType
<1>4. HeldType'
  BY <1>1 DEF StoreInv, StoreType, HeldType
<1>5. StoreType'
  BY <1>1, <1>3, <1>4, Over DEF StoreInv, StoreType, NodeType
<1> QED BY <1>1, <1>2, <1>5, NodeIsThere

\* A refused retry, or call of the window, ends.
LEMMA RefusedKeeps ==
  ASSUME StoreInv, RetryRefused \/ WindowCallRefused
  PROVE  StoreInv'
<1>1. queue # <<>> /\ Ends /\ UNCHANGED <<node, file, held, failing, promised, attempted>>
  BY DEF RetryRefused, WindowCallRefused, disk, journal
<1> QED BY <1>1, EndKeeps DEF StoreInv, StoreType, JournalType
-----------------------------------------------------------------------------
(* A line taken back, and the archive.                                     *)

LEMMA RollbackKeeps ==
  ASSUME StoreInv, RollbackStarts \/ RollbackEnds
  PROVE  StoreInv'
<1>1. queue # <<>> /\ UNCHANGED <<promised, attempted, failing>>
  BY DEF RollbackStarts, RollbackEnds, Running, journal
<1>2. CASE Ends /\ UNCHANGED <<node, file, held>>
  BY <1>1, <1>2, EndKeeps DEF StoreInv, StoreType, JournalType
<1>3. CASE /\ held' = [held EXCEPT !.revision = @ + 1] /\ Goes("unlink")
           /\ node' = [revision |-> held.revision + 1, closed |-> held.closed]
  <2>1. HeldType' /\ held.revision + 1 \in Nat /\ held.closed \in BOOLEAN
    BY <1>3 DEF StoreInv, StoreType, HeldType
  <2>2. QueueType'
    BY <1>1, <1>3, GoesOn
  <2> QED BY <1>1, <1>3, <2>1, <2>2, NodeIsSaved
<1>4. CASE RollbackEnds
  <2>1. Op.at = "unlink" /\ Ends /\ UNCHANGED node
    BY <1>4 DEF RollbackEnds, Running, Op
  <2>2. node # None
    BY <1>1, <2>1, OpIsCall DEF Late
  <2>3. HeldType'
    BY <1>4 DEF RollbackEnds, StoreInv, StoreType, HeldType
  <2>4. StoreType'
    BY <1>1, <2>1, <2>3, Over DEF StoreInv, StoreType, NodeType, JournalType
  <2> QED BY <2>1, <2>2, <2>4, NodeIsThere
<1> QED BY <1>2, <1>3, <1>4 DEF RollbackStarts

LEMMA ArchiveKeeps ==
  ASSUME StoreInv, Staged \/ CommitStarts \/ Cancelled
  PROVE  StoreInv'
<1>1. queue # <<>> /\ UNCHANGED <<node, file, held, failing, promised, attempted>>
  BY DEF Staged, CommitStarts, Cancelled, Running, disk, journal
<1>2. CASE Ends
  BY <1>1, <1>2, EndKeeps DEF StoreInv, StoreType, JournalType
<1>3. CASE Goes("close")
  <2>1. QueueType' /\ Stages(queue') \subseteq {"close"} \cup Stages(queue)
    BY <1>1, <1>3, GoesOn
  <2>2. Stages(queue') \cap Late \subseteq Stages(queue) \cap Late
    BY <2>1 DEF Late
  <2>3. StoreType'
    BY <1>1, <2>1 DEF StoreInv, StoreType, NodeType, HeldType, JournalType
  <2> QED BY <1>1, <2>2, <2>3, StepKeeps
<1> QED BY <1>2, <1>3 DEF Staged, CommitStarts, Cancelled

\* The conversation is closed in its node.json before its files are removed.
LEMMA CommitKeeps ==
  ASSUME StoreInv, CommitCloses \/ CommitSweeps
  PROVE  StoreInv'
<1>1. queue # <<>> /\ UNCHANGED <<promised, attempted>>
  BY DEF CommitCloses, CommitSweeps, Running, journal
<1>2. HeldType'
  BY DEF CommitCloses, CommitSweeps, StoreInv, StoreType, HeldType
<1>3. CASE CommitCloses
  <2>1. QueueType'
    BY <1>1, <1>3, GoesOn DEF CommitCloses
  <2>2. node' = [revision |-> held.revision, closed |-> TRUE] /\ held.revision \in Nat
    BY <1>3 DEF CommitCloses, StoreInv, StoreType, HeldType
  <2> QED BY <1>1, <1>2, <2>1, <2>2, NodeIsSaved
<1>4. CASE CommitSweeps
  <2>1. Op.at = "sweep" /\ Ends /\ UNCHANGED node
    BY <1>4 DEF CommitSweeps, Running, Op
  <2>2. node # None
    BY <1>1, <2>1, OpIsCall DEF Late
  <2>3. StoreType'
    BY <1>1, <1>2, <2>1, Over DEF StoreInv, StoreType, NodeType, JournalType
  <2> QED BY <2>1, <2>2, <2>3, NodeIsThere
<1> QED BY <1>3, <1>4
-----------------------------------------------------------------------------
(* The end of a process, and the next one.                                 *)

LEMMA ProcessKeeps ==
  ASSUME StoreInv, Dies \/ Restarts \/ RestartsUnread
  PROVE  StoreInv'
<1>1. CASE Dies
  <2>1. held' = Unloaded /\ queue' = <<>> /\ failing' = FALSE /\ UNCHANGED <<node, file, promised, attempted>>
    BY <1>1 DEF Dies, Journal!Stop
  <2>2. HeldType' /\ ~held'.known
    BY <2>1 DEF HeldType, Unloaded
  <2>3. StoreType' /\ Stages(queue') = {}
    BY <2>1, <2>2, NoCalls DEF StoreInv, StoreType, QueueType, NodeType, JournalType
  <2> QED BY <2>1, <2>2, <2>3, StepKeeps
<1>2. CASE Restarts
  <2>1. PICK c \in {promised} \cup attempted : Prepared(c)
    BY <1>2 DEF Restarts
  <2>2. UNCHANGED <<queue, node, file>>
    BY <1>2 DEF Restarts, disk
  <2>3. QueueType' /\ Stages(queue') \subseteq Stages(queue)
    BY <2>2 DEF StoreInv, StoreType, QueueType
  <2> QED BY <2>1, <2>2, <2>3, PreparedKeeps
<1>3. CASE RestartsUnread
  <2>1. failing' = TRUE /\ UNCHANGED <<node, file, held, queue, promised, attempted>>
    BY <1>3 DEF RestartsUnread, disk, journal
  <2>2. StoreType'
    BY <2>1 DEF StoreInv, StoreType, QueueType, HeldType, NodeType, JournalType
  <2> QED BY <2>1, <2>2, StepKeeps
<1> QED BY <1>1, <1>2, <1>3

LEMMA NextStore == StoreInv /\ [Next]_vars => StoreInv'
<1> SUFFICES ASSUME StoreInv, [Next]_vars PROVE StoreInv'
  OBVIOUS
<1>1. CASE UNCHANGED vars
  <2>1. UNCHANGED <<node, file, promised, attempted, held, failing, queue>>
    BY <1>1 DEF vars, disk, journal
  <2> QED BY <2>1, OnlyCalled DEF StoreInv, StoreType, QueueType
<1>2. CASE CaptureWrites \/ WindowWrites
  BY <1>2, WritesJoin
<1>3. CASE \E kind, e : WindowAsks(kind, e)
  BY <1>3, AsksJoin
<1>4. CASE WriteSteps \/ WriteRefused \/ HoldUnsafe
  BY <1>4, WriteStartsKeeps, InitialSavedKeeps, WordsKeep, NodeSavedKeeps, WriteRefusedKeeps, HoldsKeep
     DEF WriteSteps
<1>5. CASE Retry \/ RetrySteps \/ RetryRefused \/ WindowCallRefused
  BY <1>5, RetryKeeps, RetryStartsKeeps, RetryGoesOnKeeps, RetryEndKeeps, RefusedKeeps DEF RetrySteps
<1>6. CASE WindowSteps
  BY <1>6, RollbackKeeps, ArchiveKeeps, CommitKeeps DEF WindowSteps
<1>7. CASE Dies \/ Restarts \/ RestartsUnread
  BY <1>7, ProcessKeeps
<1> QED BY <1>1, <1>2, <1>3, <1>4, <1>5, <1>6, <1>7 DEF Next

\* Whatever is refused, wherever a process dies, and in whatever order calls
\* and retries come: what is on the disk of a conversation can be found.
THEOREM DiscoverableCorrect == Spec => []Discoverable
<1>1. Init => StoreInv
  BY NoCalls DEF Init, StoreInv, StoreType, QueueType, HeldType, NodeType, JournalType,
                KnownIsSaved, LateIsSaved, Discoverable, Unloaded
<1>2. StoreInv => Discoverable
  BY DEF StoreInv
<1> QED BY <1>1, <1>2, NextStore, PTL DEF Spec
-----------------------------------------------------------------------------
Writes(o) == o.kind = "write"
Touches(o) == o.kind \in {"write", "rollback"}
Begun(o) == o.at # "called"

\* No two calls are about one entry, and the window makes one at a time.
Apart(o, p) == /\ Touches(o) /\ Touches(p) => o.entry # p.entry
               /\ ~(ByWindow(o) /\ ByWindow(p))

\* What is asked for is not held already, and was not written later.
CallOK(o) ==
  /\ Touches(o) => o.entry \in Entries
  /\ o.kind = "rollback" => o.entry \in Lines
  /\ Touches(o) /\ o.at \notin {"journal", "put"} => held.retained[o.entry] = None
  /\ Writes(o) => /\ o.n \in 1 .. writes /\ said[o.entry] # None
                  /\ file[o.entry] # None => file[o.entry].stamp < o.n
  /\ Writes(o) /\ o.at \in {"called", "initial", "entry", "words"} => o.bytes = None
  /\ o.kind = "commit" /\ o.at = "called" => archive # None

QueueInv ==
  /\ \A i \in DOMAIN queue : CallOK(queue[i]) /\ (i # 1 => ~Begun(queue[i]))
  /\ \A i, j \in DOMAIN queue : i # j => Apart(queue[i], queue[j])
-----------------------------------------------------------------------------
(* The files and the memory.                                               *)
FilesOf(e) ==
  /\ file[e] = None \/ e \notin Stream => spill[e] = <<>>
  /\ file[e] # None /\ file[e].stamp # 0 => file[e].inline
  /\ file[e] # None => file[e].stamp <= writes
FilesInv == \A e \in Entries : FilesOf(e)

PhaseInv ==
  /\ phase # "up" => queue = <<>> /\ archive = None
  /\ phase = "up" => failing = (Holding(held.retained) # {})
  /\ phase = "up" /\ ~held.known => held.files = {}
  /\ \A e \in Entries : said[e] = None => e \in Lines

RecordOK(c) == c # None => Holding(c.retained) # {}
PlanOK(r) == r # None /\ r.plan # None => r.plan.stamp <= writes
RecordsInv ==
  /\ \A c \in {promised} \cup attempted : RecordOK(c)
  /\ \A c \in {promised} \cup attempted : c # None => \A e \in Entries : PlanOK(c.retained[e])
  /\ \A e \in Entries : PlanOK(held.retained[e])
-----------------------------------------------------------------------------
(* What a reader is shown.                                                 *)

\* Once its words are on the disk or held, a write shows before it is answered.
Shows(o, e) == Writes(o) /\ o.entry = e /\ o.at \in {"node", "journal", "put"}
Meant(e) == IF queue # <<>> /\ Shows(Op, e)
            THEN IF e \in Stream THEN Append(said[e], Op.n) ELSE <<Op.n>>
            ELSE said[e]

ViewOf(e) ==
  /\ e \in held.files <=> file[e] # None \/ held.retained[e] # None
  /\ IF said[e] = None THEN file[e] = None /\ held.retained[e] = None
                       ELSE Shown(held.retained, e) = Meant(e)
ViewInv == phase = "up" /\ ~held.closed => \A e \in Entries : ViewOf(e)

\* The file a retry made of what is held.
Made(e) == LET r == held.retained[e]
           IN  /\ file[e] # None /\ file[e].inline
               /\ IF r.plan = None THEN file[e].text = r.text ELSE file[e].stamp = r.plan.stamp

\* The running call, by the stage it has reached.
WriteStage == Writes(Op) /\ Begun(Op) =>
  /\ ~held.closed
  /\ archive # None => archive.revision < held.revision
  /\ Op.at \in {"initial", "entry", "words", "node", "journal", "put"}
  /\ Op.at \in {"initial", "entry", "words", "node"} => ~failing
  /\ Op.at \in {"initial", "entry"} => Op.entry \notin Stream \cap held.files
  /\ Op.at \in {"entry", "words", "node"} => held.known
  /\ Op.at \in {"words", "node"} => file[Op.entry] # None
  /\ Op.at = "words" => Op.entry \in Stream
  /\ Op.at \in {"journal", "put"} => held.retained[Op.entry] # None

EndsIn(t, n) == t # <<>> /\ t[Len(t)] = n

\* The piece that a stream's node.json is still missing for is its last one.
PieceWritten == Writes(Op) /\ Op.at = "node" /\ Op.entry \in Stream =>
  LET f == file[Op.entry]
      s == spill[Op.entry]
  IN  IF f.inline THEN EndsIn(f.text, Op.n) ELSE EndsIn(s, Op.n) /\ Op.bytes = Len(s) - 1

RetryStage == IsRetry(Op) /\ Begun(Op) =>
  /\ Op.at \in {"entries", "unlink", "remove"}
  /\ node # None => node.closed = held.closed
  /\ Op.left \subseteq Holding(held.retained)
  /\ \A e \in Holding(held.retained) \ Op.left : Made(e)
  /\ Op.at = "unlink" => Op.entry \in Holding(held.retained) /\ Made(Op.entry)
  /\ Op.at = "remove" => Op.left = {}

TextOf(t) == IF t = None THEN <<>> ELSE t
IsWhole(a) == a.whole => \A e \in Entries : a.text[e] = TextOf(said[e])
Kept == \E a \in archived : IsWhole(a)

OtherStage ==
  /\ Op.kind = "rollback" /\ Begun(Op) /\ archive # None => archive.revision < held.revision
  /\ Op.kind = "commit" /\ Begun(Op) => Kept /\ (Op.at # "close" => held.closed)

StageInv == queue # <<>> => WriteStage /\ PieceWritten /\ RetryStage /\ OtherStage
-----------------------------------------------------------------------------
(* The archive.                                                            *)
ArchiveInv ==
  /\ archive # None => /\ archive.revision <= held.revision
                       /\ archive.revision = held.revision /\ ~held.closed => IsWhole(archive)
  /\ held.closed => Kept

NoneMayBe == None \in {promised} \cup attempted
ClosedInv == node # None /\ node.closed /\ NoneMayBe =>
  IF phase = "up" THEN held.closed ELSE Kept

StoreViewInv == /\ TypeOK /\ QueueInv /\ FilesInv /\ PhaseInv /\ RecordsInv
                /\ ViewInv /\ StageInv /\ ArchiveInv /\ ClosedInv
-----------------------------------------------------------------------------
(* The queue.                                                              *)

LEMMA HeadReplaced ==
  ASSUME NEW S, NEW q \in Seq(S), q # <<>>, NEW o \in S
  PROVE  /\ <<o>> \o Tail(q) \in Seq(S) /\ <<o>> \o Tail(q) # <<>> /\ Head(<<o>> \o Tail(q)) = o
         /\ DOMAIN (<<o>> \o Tail(q)) = DOMAIN q
         /\ \A i \in DOMAIN q : (<<o>> \o Tail(q))[i] = IF i = 1 THEN o ELSE q[i]
OBVIOUS

LEMMA TailShifts ==
  ASSUME NEW S, NEW q \in Seq(S), q # <<>>
  PROVE  /\ Tail(q) \in Seq(S)
         /\ \A i \in DOMAIN Tail(q) : i + 1 \in DOMAIN q /\ i + 1 # 1 /\ Tail(q)[i] = q[i + 1]
         /\ Tail(q) # <<>> => 2 \in DOMAIN q /\ Head(Tail(q)) = q[2]
         /\ 1 \in DOMAIN q /\ Head(q) = q[1] /\ Head(q) \in S
OBVIOUS

LEMMA OpType ==
  ASSUME TypeOK, queue # <<>>
  PROVE  Op \in Requests /\ 1 \in DOMAIN queue /\ Op = queue[1]
BY TailShifts DEF TypeOK, CallsType, Op

\* A step of the running call that leaves the other calls what they need.
OthersKeep ==
  /\ writes' = writes
  /\ \A e \in Entries : held.retained[e] = None /\ ~(Touches(Op) /\ Op.entry = e) =>
       /\ held'.retained[e] = None
       /\ file'[e] # None => file'[e] = file[e]
       /\ said[e] # None => said'[e] # None
  /\ archive # None => archive' # None \/ ByWindow(Op)

LEMMA OthersStay ==
  ASSUME TypeOK, QueueInv, queue # <<>>, OthersKeep,
         NEW o, \E i \in DOMAIN queue : i # 1 /\ o = queue[i]
  PROVE  CallOK(o)' /\ ~Begun(o)
<1>1. CallOK(o) /\ ~Begun(o) /\ Apart(o, Op) /\ o \in Requests
  BY OpType DEF QueueInv, TypeOK, CallsType
<1>2. Touches(o) => held'.retained[o.entry] = None
  BY <1>1 DEF OthersKeep, CallOK, Begun, Apart
<1>3. Writes(o) => /\ o.n \in 1 .. writes' /\ said'[o.entry] # None
                   /\ file'[o.entry] # None => file'[o.entry].stamp < o.n
  BY <1>1 DEF OthersKeep, CallOK, Begun, Apart, Touches, Writes
<1>4. o.kind = "commit" => archive' # None
  BY <1>1 DEF OthersKeep, CallOK, Begun, Apart, ByWindow, ByCapture
<1>5. /\ Touches(o) => o.entry \in Entries
      /\ o.kind = "rollback" => o.entry \in Lines
      /\ Writes(o) /\ o.at \in {"called", "initial", "entry", "words"} => o.bytes = None
  BY <1>1 DEF CallOK
<1> QED BY <1>1, <1>2, <1>3, <1>4, <1>5 DEF CallOK, Touches, Writes

\* The running call goes on to a later stage, or ends.
LEMMA QueueGoes ==
  ASSUME TypeOK, QueueInv, queue # <<>>, OthersKeep, NEW o \in Requests,
         queue' = <<o>> \o Tail(queue), CallOK(o)', ByWindow(o) = ByWindow(Op),
         Touches(o) => Touches(Op) /\ o.entry = Op.entry
  PROVE  QueueInv' /\ queue' \in Seq(Requests) /\ Op' = o /\ queue' # <<>>
<1>1. /\ queue' \in Seq(Requests) /\ queue' # <<>> /\ Head(queue') = o /\ DOMAIN queue' = DOMAIN queue
      /\ \A i \in DOMAIN queue : queue'[i] = IF i = 1 THEN o ELSE queue[i]
  BY HeadReplaced DEF TypeOK, CallsType
<1>2. \A i \in DOMAIN queue' : CallOK(queue[i])' /\ (i # 1 => ~Begun(queue[i])')
  <2> SUFFICES ASSUME NEW i \in DOMAIN queue' PROVE CallOK(queue[i])' /\ (i # 1 => ~Begun(queue[i])')
    OBVIOUS
  <2>1. PICK p : p = queue'[i]
    OBVIOUS
  <2>2. CallOK(p)' /\ (i # 1 => ~Begun(p))
    BY <1>1, <2>1, OthersStay
  <2> QED BY <2>1, <2>2 DEF CallOK, Begun, Touches, Writes
<1>3. \A i, j \in DOMAIN queue' : i # j => Apart(queue'[i], queue'[j])
  <2>1. \A p : Apart(Op, p) => Apart(o, p)
    BY DEF Apart
  <2>2. \A p : Apart(p, Op) => Apart(p, o)
    BY DEF Apart
  <2>3. Op = queue[1] /\ 1 \in DOMAIN queue /\ \A i, j \in DOMAIN queue : i # j => Apart(queue[i], queue[j])
    BY OpType DEF QueueInv
  <2> QED BY <1>1, <2>1, <2>2, <2>3
<1> QED BY <1>1, <1>2, <1>3 DEF QueueInv, Op, Apart, Touches, ByWindow, ByCapture

LEMMA QueueEnds ==
  ASSUME TypeOK, QueueInv, queue # <<>>, OthersKeep, Ends
  PROVE  QueueInv' /\ queue' \in Seq(Requests) /\ (queue' # <<>> => ~Begun(Op'))
<1>1. /\ queue' \in Seq(Requests)
      /\ \A i \in DOMAIN queue' : i + 1 \in DOMAIN queue /\ i + 1 # 1 /\ queue'[i] = queue[i + 1]
      /\ queue' # <<>> => 2 \in DOMAIN queue /\ Head(queue') = queue[2]
  BY TailShifts DEF TypeOK, CallsType, Ends
<1>2. \A i \in DOMAIN queue' : CallOK(queue[i])' /\ ~Begun(queue'[i])
  <2> SUFFICES ASSUME NEW i \in DOMAIN queue' PROVE CallOK(queue[i])' /\ ~Begun(queue'[i])
    OBVIOUS
  <2>1. PICK p : p = queue'[i]
    OBVIOUS
  <2>2. CallOK(p)' /\ ~Begun(p)
    BY <1>1, <2>1, OthersStay
  <2> QED BY <2>1, <2>2 DEF CallOK, Begun, Touches, Writes
<1>3. \A i, j \in DOMAIN queue' : i # j => Apart(queue'[i], queue'[j])
  <2>1. \A i, j \in DOMAIN queue' : i # j => i + 1 # j + 1
    BY <1>1
  <2> QED BY <1>1, <2>1 DEF QueueInv
<1>4. queue' # <<>> => ~Begun(Op')
  BY <1>1, OthersStay DEF Op, Begun
<1> QED BY <1>1, <1>2, <1>3, <1>4 DEF QueueInv, Begun, Apart, Touches, ByWindow, ByCapture
-----------------------------------------------------------------------------
(* Calls that join the queue.                                              *)

LEMMA SequencesJoin ==
  ASSUME NEW S, NEW q \in Seq(S), NEW t \in Seq(S)
  PROVE  /\ q \o t \in Seq(S)
         /\ \A i \in DOMAIN q : i \in DOMAIN (q \o t) /\ (q \o t)[i] = q[i]
         /\ \A i \in DOMAIN (q \o t) :
              IF i \in DOMAIN q THEN (q \o t)[i] = q[i]
              ELSE i - Len(q) \in DOMAIN t /\ (q \o t)[i] = t[i - Len(q)]
         /\ q \o t # <<>> => IF q # <<>> THEN Head(q \o t) = Head(q) ELSE 1 \in DOMAIN t /\ Head(q \o t) = t[1]
OBVIOUS

\* What a new call may not be beside.
MayJoin(o) == CallOK(o)' /\ ~Begun(o) /\ \A i \in DOMAIN queue : Apart(queue[i], o)

LEMMA QueueJoins ==
  ASSUME TypeOK, QueueInv, NEW t \in Seq(Requests), queue' = queue \o t,
         \A i \in DOMAIN t : MayJoin(t[i]),
         \A i, j \in DOMAIN t : i # j => Apart(t[i], t[j]),
         UNCHANGED <<held, file, said, archive>>, writes' \in Nat, writes <= writes'
  PROVE  QueueInv' /\ queue' \in Seq(Requests)
         /\ (queue' # <<>> => (queue # <<>> /\ Op' = Op) \/ ~Begun(Op'))
<1> DEFINE n == Len(queue)
<1>1. /\ queue' \in Seq(Requests)
      /\ \A i \in DOMAIN queue' : IF i \in DOMAIN queue THEN queue'[i] = queue[i]
                                  ELSE i - n \in DOMAIN t /\ queue'[i] = t[i - n]
      /\ queue' # <<>> => IF queue # <<>> THEN Head(queue') = Head(queue)
                          ELSE 1 \in DOMAIN t /\ Head(queue') = t[1]
  BY SequencesJoin DEF TypeOK, CallsType
<1>2. \A i \in DOMAIN queue' : n \in Nat /\ i \in Nat /\ (i \notin DOMAIN queue /\ queue # <<>> => i # 1)
  BY <1>1 DEF TypeOK, CallsType
<1>3. ASSUME NEW o, CallOK(o) PROVE CallOK(o)'
  <2>1. \A x : x \in 1 .. writes => x \in 1 .. writes'
    BY ConstantsOK DEF TypeOK, CallsType
  <2> QED BY <1>3, <2>1 DEF CallOK, Touches, Writes
<1>4. \A i \in DOMAIN queue' : CallOK(queue[i])' /\ (i # 1 => ~Begun(queue'[i]))
  <2> SUFFICES ASSUME NEW i \in DOMAIN queue' PROVE CallOK(queue[i])' /\ (i # 1 => ~Begun(queue'[i]))
    OBVIOUS
  <2>1. PICK p : p = queue'[i]
    OBVIOUS
  <2>2. CallOK(p)' /\ (i # 1 => ~Begun(p))
    <3>1. CASE i \in DOMAIN queue
      BY <1>1, <1>3, <2>1, <3>1 DEF QueueInv, Begun
    <3>2. CASE i \notin DOMAIN queue
      <4>1. i - n \in DOMAIN t /\ p = t[i - n]
        BY <1>1, <2>1, <3>2
      <4>2. MayJoin(t[i - n])
        BY <4>1
      <4> QED BY <4>1, <4>2 DEF MayJoin, CallOK, Begun, Touches, Writes
    <3> QED BY <3>1, <3>2
  <2> QED BY <2>1, <2>2 DEF CallOK, Begun, Touches, Writes
<1>5. \A i, j \in DOMAIN queue' : i # j => Apart(queue'[i], queue'[j])
  <2> SUFFICES ASSUME NEW i \in DOMAIN queue', NEW j \in DOMAIN queue', i # j
               PROVE  Apart(queue'[i], queue'[j])
    OBVIOUS
  <2>1. i - n # j - n
    BY <1>2
  <2>2. ASSUME NEW a \in DOMAIN queue, NEW b \in DOMAIN t PROVE Apart(queue[a], t[b]) /\ Apart(t[b], queue[a])
    BY DEF MayJoin, Apart
  <2> HIDE DEF n
  <2>3. CASE i \in DOMAIN queue /\ j \in DOMAIN queue
    BY <1>1, <2>3 DEF QueueInv
  <2>4. CASE i \notin DOMAIN queue /\ j \notin DOMAIN queue
    BY <1>1, <2>1, <2>4
  <2>5. CASE i \in DOMAIN queue /\ j \notin DOMAIN queue
    BY <1>1, <2>2, <2>5
  <2>6. CASE i \notin DOMAIN queue /\ j \in DOMAIN queue
    BY <1>1, <2>2, <2>6
  <2> QED BY <2>3, <2>4, <2>5, <2>6
<1>6. queue' # <<>> => (queue # <<>> /\ Op' = Op) \/ ~Begun(Op')
  <2>1. 1 \in DOMAIN t => ~Begun(t[1])
    BY DEF MayJoin
  <2> QED BY <1>1, <2>1 DEF Op, Begun
<1> QED BY <1>1, <1>4, <1>5, <1>6 DEF QueueInv, Begun, Apart, Touches, ByWindow, ByCapture
-----------------------------------------------------------------------------
(* Entries a step does not touch.                                          *)
SameEntry(e) == /\ file'[e] = file[e] /\ spill'[e] = spill[e]
                /\ held'.retained[e] = held.retained[e]

LEMMA ShownFrame ==
  ASSUME NEW e, SameEntry(e)
  PROVE  Shown(held.retained, e)' = Shown(held.retained, e)
BY DEF SameEntry, Shown, Materialized, Prefix

LEMMA ViewFrame ==
  ASSUME NEW e, SameEntry(e), ViewOf(e), said'[e] = said[e], e \in held'.files <=> e \in held.files,
         Meant(e)' = Meant(e)
  PROVE  ViewOf(e)'
BY ShownFrame DEF ViewOf, SameEntry

LEMMA JoinsKeep ==
  ASSUME StoreViewInv, NEW t \in Seq(Requests), queue' = queue \o t,
         \A i \in DOMAIN t : MayJoin(t[i]),
         \A i, j \in DOMAIN t : i # j => Apart(t[i], t[j]),
         phase = "up", writes' \in 0 .. MaxWrites, writes <= writes',
         UNCHANGED <<disk, archives, journal, phase, held, failing, faults, told, over>>
  PROVE  StoreViewInv'
<1>0. /\ UNCHANGED <<node, file, spill, archive, archived, promised, attempted, stray, said, safe, held>>
      /\ writes' \in Nat /\ writes \in Nat
  BY ConstantsOK DEF disk, archives, journal, told, StoreViewInv, TypeOK, CallsType
<1>1. QueueInv' /\ queue' \in Seq(Requests) /\ (queue' # <<>> => (queue # <<>> /\ Op' = Op) \/ ~Begun(Op'))
  BY <1>0, QueueJoins DEF StoreViewInv
<1>2. TypeOK'
  BY <1>0, <1>1 DEF StoreViewInv, TypeOK, DiskType, ArchiveType, RecordType, MemoryType, CallsType, ToldType,
                    Nodes
<1>3. FilesInv'
  <2> SUFFICES ASSUME NEW e \in Entries, file[e] # None PROVE file[e].stamp <= writes'
    BY <1>0 DEF StoreViewInv, FilesInv, FilesOf
  <2>1. file[e].stamp \in 0 .. MaxWrites /\ file[e].stamp <= writes
    BY DEF StoreViewInv, TypeOK, DiskType, Files, FilesInv, FilesOf
  <2> QED BY <1>0, <2>1, ConstantsOK
<1>4. PhaseInv' /\ ArchiveInv' /\ ClosedInv'
  BY <1>0 DEF StoreViewInv, PhaseInv, ArchiveInv, IsWhole, Kept, ClosedInv, NoneMayBe, Holding
<1>5. RecordsInv'
  <2>1. \A r \in Held \cup {None} : PlanOK(r) => PlanOK(r)'
    BY <1>0, ConstantsOK DEF PlanOK, Held, Plans
  <2>2. /\ \A c \in {promised} \cup attempted : RecordOK(c)'
        /\ \A c \in {promised} \cup attempted : c # None => \A e \in Entries : PlanOK(c.retained[e])'
    BY <1>0, <2>1 DEF StoreViewInv, TypeOK, RecordType, Records, RecordsInv, RecordOK, Holding
  <2>3. \A e \in Entries : PlanOK(held.retained[e])'
    BY <1>0, <2>1 DEF StoreViewInv, TypeOK, MemoryType, Memory, RecordsInv, PlanOK
  <2> QED BY <1>0, <2>2, <2>3 DEF RecordsInv
<1>6. ViewInv'
  <2> SUFFICES ASSUME phase = "up", ~held.closed, NEW e \in Entries PROVE ViewOf(e)'
    BY <1>0 DEF ViewInv
  <2>1. ViewOf(e) /\ SameEntry(e) /\ (queue' # <<>> /\ ~Begun(Op') => ~Shows(Op', e))
    BY <1>0 DEF StoreViewInv, ViewInv, SameEntry, Shows, Begun
  <2>2. queue # <<>> => queue' # <<>> /\ Op' = Op
    BY SequencesJoin DEF StoreViewInv, TypeOK, CallsType, Op
  <2>3. Meant(e)' = Meant(e)
    BY <1>0, <1>1, <2>1, <2>2 DEF Meant, Shows, Writes
  <2> QED BY <1>0, <2>1, <2>3, ViewFrame
<1>7. StageInv'
  <2> SUFFICES ASSUME queue # <<>>, Op' = Op PROVE (WriteStage /\ PieceWritten /\ RetryStage /\ OtherStage)'
    BY <1>1 DEF StageInv, WriteStage, PieceWritten, RetryStage, OtherStage, Begun, Writes
  <2> QED BY <1>0 DEF StoreViewInv, StageInv, WriteStage, PieceWritten, RetryStage, OtherStage, Made, Begun,
                      Writes, IsRetry, EndsIn, Kept, IsWhole, Holding
<1> QED BY <1>1, <1>2, <1>3, <1>4, <1>5, <1>6, <1>7 DEF StoreViewInv

LEMMA NothingIsHeld ==
  ASSUME StoreViewInv, phase = "up", ~failing, NEW e \in Entries
  PROVE  held.retained[e] = None
BY DEF StoreViewInv, PhaseInv, Holding

LEMMA NewWrite ==
  ASSUME StoreViewInv, phase = "up", ~failing, NEW e \in Entries, said[e] # None,
         NEW n \in Nat, writes < n, n <= writes', writes' \in 0 .. MaxWrites,
         UNCHANGED <<held, file, said, archive>>
  PROVE  LET o == Call("write", e, n)
         IN  o \in Requests /\ CallOK(o)' /\ ~Begun(o) /\ o.kind = "write" /\ o.entry = e
<1> DEFINE o == Call("write", e, n)
<1>1. /\ o.kind = "write" /\ o.entry = e /\ o.n = n /\ o.at = "called" /\ o.bytes = None
      /\ o \in Requests
  BY ConstantsOK DEF Call, Requests
<1> HIDE DEF o
<1>2. held.retained[e] = None
  BY NothingIsHeld
<1>3. n \in 1 .. writes'
  BY ConstantsOK DEF StoreViewInv, TypeOK, CallsType
<1>4. file[e] # None => file[e].stamp < n
  BY ConstantsOK DEF StoreViewInv, FilesInv, FilesOf, TypeOK, DiskType, CallsType, Files
<1>5. o \in Requests /\ CallOK(o)' /\ ~Begun(o)
  BY <1>1, <1>2, <1>3, <1>4 DEF CallOK, Touches, Writes, Begun
<1> QED BY <1>1, <1>5 DEF o

LEMMA CalledSequence ==
  ASSUME NEW es \in Seq(Entries), Called(es), writes \in Nat,
         \A i \in DOMAIN es : Call("write", es[i], writes + i) \in Requests
  PROVE  \E t \in Seq(Requests) : /\ queue' = queue \o t /\ DOMAIN t = DOMAIN es
                                  /\ \A i \in DOMAIN t : t[i] = Call("write", es[i], writes + i)
<1> DEFINE t == [i \in DOMAIN es |-> Call("write", es[i], writes + i)]
<1>1. queue' = queue \o t
  BY DEF Called
<1>3. t \in Seq(Requests)
  <2>1. DOMAIN es = 1 .. Len(es) /\ Len(es) \in Nat
    OBVIOUS
  <2>2. t \in [1 .. Len(es) -> Requests]
    BY <2>1
  <2> QED BY <2>1, <2>2
<1>2. DOMAIN t = DOMAIN es /\ \A i \in DOMAIN t : t[i] = Call("write", es[i], writes + i)
  OBVIOUS
<1> HIDE DEF t
<1> QED BY <1>1, <1>2, <1>3

\* Writes of different entries that nobody else is writing.
LEMMA CalledKeeps ==
  ASSUME StoreViewInv, phase = "up", ~failing, NEW es \in Seq(Entries), Called(es),
         \A i \in DOMAIN es : said[es[i]] # None,
         \A i, j \in DOMAIN es : i # j => es[i] # es[j] /\ {es[i], es[j]} \cap Lines = {},
         \A i \in DOMAIN es, j \in DOMAIN queue, n \in Nat : Apart(queue[j], Call("write", es[i], n)),
         UNCHANGED <<disk, archives, journal, phase, held, failing, faults, told, over>>
  PROVE  StoreViewInv'
<1>0. /\ writes \in Nat /\ writes' = writes + Len(es) /\ writes' \in 0 .. MaxWrites /\ writes <= writes'
      /\ UNCHANGED <<held, file, said, archive>>
  BY ConstantsOK DEF StoreViewInv, TypeOK, CallsType, Called, disk, archives, told
<1>1. ASSUME NEW i \in DOMAIN es, NEW n, n = writes + i
      PROVE  LET o == Call("write", es[i], n)
             IN  o \in Requests /\ CallOK(o)' /\ ~Begun(o) /\ o.kind = "write" /\ o.entry = es[i]
  <2>1. n \in Nat /\ writes < n /\ n <= writes' /\ es[i] \in Entries
    BY <1>0, <1>1
  <2> QED BY <1>0, <2>1, NewWrite
<1>2. PICK t \in Seq(Requests) : /\ queue' = queue \o t /\ DOMAIN t = DOMAIN es
                                 /\ \A i \in DOMAIN t : t[i] = Call("write", es[i], writes + i)
  BY <1>0, <1>1, CalledSequence
<1>3. \A i \in DOMAIN t : MayJoin(t[i])
  <2> SUFFICES ASSUME NEW i \in DOMAIN t PROVE MayJoin(t[i])
    OBVIOUS
  <2>1. PICK o : o = t[i]
    OBVIOUS
  <2>2. o = Call("write", es[i], writes + i) /\ i \in DOMAIN es /\ writes + i \in Nat
    BY <1>0, <1>2, <2>1
  <2>3. CallOK(o)' /\ ~Begun(o)
    <3>1. PICK n : n = writes + i
      OBVIOUS
    <3>2. CallOK(Call("write", es[i], n))' /\ ~Begun(Call("write", es[i], n)) /\ o = Call("write", es[i], n)
      BY <1>1, <2>2, <3>1
    <3> QED BY <3>2 DEF CallOK, Begun, Touches, Writes
  <2>4. \A j \in DOMAIN queue : Apart(queue[j], o)
    BY <2>2
  <2> QED BY <1>2, <2>1, <2>2, <2>3, <2>4 DEF MayJoin, CallOK, Begun, Touches, Writes
<1>4. \A i, j \in DOMAIN t : i # j => Apart(t[i], t[j])
  BY <1>1, <1>2 DEF Apart, ByWindow, ByCapture, Touches
<1> QED BY <1>0, <1>2, <1>3, <1>4, JoinsKeep

LEMMA EntryKinds ==
  ASSUME NEW e \in Entries
  PROVE  e \in Lines <=> e \notin Stream \cup Noted
BY ConstantsOK DEF Entries

LEMMA CapturesKeep ==
  ASSUME StoreViewInv, CaptureWrites
  PROVE  StoreViewInv'
<1>1. PICK e \in Stream \cup Noted, f \in Stream \cup Noted : Called(<<e>>) \/ (e # f /\ Called(<<e, f>>))
  BY DEF CaptureWrites
<1>2. /\ phase = "up" /\ ~failing /\ \A j \in DOMAIN queue : ~ByCapture(queue[j])
      /\ UNCHANGED <<disk, archives, journal, phase, held, failing, faults, told, over>>
  BY DEF CaptureWrites, Calling
<1>3. ASSUME NEW d \in {e, f}
      PROVE  /\ d \in Entries /\ d \notin Lines /\ said[d] # None
             /\ \A j \in DOMAIN queue, n \in Nat : Apart(queue[j], Call("write", d, n))
  <2>1. d \in Entries /\ d \notin Lines
    BY ConstantsOK DEF Entries
  <2>2. said[d] # None
    BY <2>1 DEF StoreViewInv, PhaseInv
  <2>3. ASSUME NEW j \in DOMAIN queue, NEW n \in Nat PROVE Apart(queue[j], Call("write", d, n))
    <3>1. CallOK(queue[j]) /\ ~ByCapture(queue[j])
      BY <1>2 DEF StoreViewInv, QueueInv
    <3> QED BY <2>1, <3>1 DEF CallOK, Apart, Call, ByWindow, ByCapture, Touches
  <2> QED BY <2>1, <2>2, <2>3
<1>4. ASSUME NEW es \in Seq(Entries), Called(es), \A i \in DOMAIN es : es[i] \in {e, f},
             \A i, j \in DOMAIN es : i # j => es[i] # es[j]
      PROVE  StoreViewInv'
  <2>1. \A i, j \in DOMAIN es : {es[i], es[j]} \cap Lines = {}
    BY <1>3, <1>4
  <2> QED BY <1>2, <1>3, <1>4, <2>1, CalledKeeps
<1>5. CASE Called(<<e>>)
  <2>1. <<e>> \in Seq(Entries)
    BY <1>3
  <2> DEFINE es == <<e>>
  <2>2. \A i \in DOMAIN es : es[i] = e /\ i = 1
    OBVIOUS
  <2> HIDE DEF es
  <2>3. es \in Seq(Entries) /\ Called(es)
    BY <1>5, <2>1 DEF es
  <2> QED BY <1>4, <2>2, <2>3
<1>6. CASE e # f /\ Called(<<e, f>>)
  <2>1. <<e, f>> \in Seq(Entries)
    BY <1>3
  <2> DEFINE es == <<e, f>>
  <2>2. \A i \in DOMAIN es : i \in {1, 2} /\ es[i] = IF i = 1 THEN e ELSE f
    OBVIOUS
  <2> HIDE DEF es
  <2>3. es \in Seq(Entries) /\ Called(es) /\ e # f
    BY <1>6, <2>1 DEF es
  <2>4. \A i, j \in DOMAIN es : i # j => es[i] # es[j]
    BY <2>2, <2>3
  <2>5. \A i \in DOMAIN es : es[i] \in {e, f}
    BY <2>2
  <2> QED BY <1>4, <2>3, <2>4, <2>5
<1> QED BY <1>1, <1>5, <1>6

LEMMA WindowWritesKeep ==
  ASSUME StoreViewInv, WindowWrites
  PROVE  StoreViewInv'
<1>1. PICK e \in Lines : said[e] # None /\ Called(<<e>>)
  BY DEF WindowWrites
<1>2. /\ phase = "up" /\ ~failing /\ \A j \in DOMAIN queue : ~ByWindow(queue[j])
      /\ UNCHANGED <<disk, archives, journal, phase, held, failing, faults, told, over>>
  BY DEF WindowWrites, WindowMay, Calling
<1>3. e \in Entries /\ <<e>> \in Seq(Entries)
  BY DEF Entries
<1>4. ASSUME NEW j \in DOMAIN queue, NEW n \in Nat PROVE Apart(queue[j], Call("write", e, n))
  BY <1>2 DEF Apart, Call, ByWindow, ByCapture, Touches
<1>5. \A i \in DOMAIN <<e>> : <<e>>[i] = e /\ i = 1
  OBVIOUS
<1> QED BY <1>1, <1>2, <1>3, <1>4, <1>5, CalledKeeps

\* One call more.
LEMMA OneCallKeeps ==
  ASSUME StoreViewInv, phase = "up", NEW o \in Requests, queue' = Append(queue, o), MayJoin(o),
         UNCHANGED <<disk, archives, journal, phase, held, failing, writes, faults, told, over>>
  PROVE  StoreViewInv'
<1>1. <<o>> \in Seq(Requests) /\ queue' = queue \o <<o>> /\ \A i \in DOMAIN <<o>> : <<o>>[i] = o /\ i = 1
  BY DEF StoreViewInv, TypeOK, CallsType
<1>2. writes' \in 0 .. MaxWrites /\ writes <= writes'
  BY ConstantsOK DEF StoreViewInv, TypeOK, CallsType
<1>3. \A i \in DOMAIN <<o>> : MayJoin(<<o>>[i])
  BY <1>1 DEF MayJoin, CallOK, Begun, Touches, Writes
<1> QED BY <1>1, <1>2, <1>3, JoinsKeep

LEMMA AsksKeep ==
  ASSUME StoreViewInv, NEW kind \in {"rollback", "archive", "commit", "cancel"}, NEW e \in Entries \cup {None},
         kind = "rollback" => e \in Lines, kind = "commit" => archive # None, WindowAsks(kind, e)
  PROVE  StoreViewInv'
<1> DEFINE o == Call(kind, e, 0)
<1>1. /\ phase = "up" /\ ~failing /\ \A j \in DOMAIN queue : ~ByWindow(queue[j])
      /\ UNCHANGED <<disk, archives, journal, phase, held, failing, writes, faults, told, over>>
      /\ queue' = Append(queue, o)
  BY DEF WindowAsks, WindowMay, Calling
<1>2. o \in Requests /\ o.kind = kind /\ o.entry = e /\ o.at = "called"
  BY ConstantsOK DEF Call, Requests
<1> HIDE DEF o
<1>3. kind = "rollback" => held.retained[e] = None /\ e \in Entries
  BY <1>1, NothingIsHeld DEF Entries
<1>4. CallOK(o)'
  BY <1>1, <1>2, <1>3 DEF CallOK, Touches, Writes, archives
<1>5. \A j \in DOMAIN queue : Apart(queue[j], o)
  <2> SUFFICES ASSUME NEW j \in DOMAIN queue PROVE Apart(queue[j], o)
    OBVIOUS
  <2>1. CallOK(queue[j]) /\ ~ByWindow(queue[j])
    BY <1>1 DEF StoreViewInv, QueueInv
  <2> QED BY <1>2, <2>1 DEF CallOK, Apart, Touches, ByWindow, ByCapture
<1> QED BY <1>1, <1>2, <1>4, <1>5, OneCallKeeps DEF MayJoin, Begun

LEMMA RetryAsked ==
  ASSUME StoreViewInv, phase = "up", Retry
  PROVE  StoreViewInv'
<1> DEFINE o == Call("retry", None, 0)
<1>1. /\ UNCHANGED <<disk, archives, journal, phase, held, failing, writes, faults, told, over>>
      /\ queue' = Append(queue, o)
  BY DEF Retry
<1>2. o \in Requests /\ o.kind = "retry" /\ o.at = "called"
  BY ConstantsOK DEF Call, Requests
<1> HIDE DEF o
<1>3. CallOK(o)' /\ \A j \in DOMAIN queue : Apart(queue[j], o)
  BY <1>2 DEF CallOK, Touches, Writes, Apart, ByWindow
<1> QED BY <1>1, <1>2, <1>3, OneCallKeeps DEF MayJoin, Begun
-----------------------------------------------------------------------------
(* Steps of the running call, in general.                                  *)

\* It ends, and nothing is said, saved or held.
LEMMA EndsQuietly ==
  ASSUME StoreViewInv, phase = "up", queue # <<>>, Ends, TypeOK', ArchiveInv',
         ~(Writes(Op) /\ Op.at \in {"node", "journal", "put"}),
         archive # None => archive' # None \/ ByWindow(Op),
         UNCHANGED <<disk, promised, attempted, phase, held, failing, writes, said>>
  PROVE  StoreViewInv'
<1>0. UNCHANGED <<node, file, spill, held, said, promised, attempted>>
  BY DEF disk
<1>1. OthersKeep
  BY <1>0 DEF OthersKeep
<1>2. QueueInv' /\ (queue' # <<>> => ~Begun(Op'))
  BY <1>1, QueueEnds DEF StoreViewInv
<1>3. FilesInv' /\ RecordsInv' /\ PhaseInv' /\ ClosedInv'
  BY <1>0 DEF StoreViewInv, FilesInv, FilesOf, RecordsInv, RecordOK, PlanOK, PhaseInv, ClosedInv, NoneMayBe, Holding
<1>4. ViewInv'
  <2> SUFFICES ASSUME ~held.closed, NEW e \in Entries PROVE ViewOf(e)'
    BY <1>0 DEF ViewInv
  <2>1. ViewOf(e) /\ SameEntry(e)
    BY <1>0 DEF StoreViewInv, ViewInv, SameEntry
  <2>2. Meant(e) = said[e] /\ Meant(e)' = said[e]
    BY <1>0, <1>2 DEF Meant, Shows, Writes, Begun
  <2> QED BY <1>0, <2>1, <2>2, ViewFrame
<1>5. StageInv'
  BY <1>2 DEF StageInv, WriteStage, PieceWritten, RetryStage, OtherStage, Begun, Writes
<1> QED BY <1>2, <1>3, <1>4, <1>5 DEF StoreViewInv

\* A write goes on; the others' entries, and what was said, are untouched.
LEMMA WriteGoes ==
  ASSUME StoreViewInv, phase = "up", queue # <<>>, Writes(Op), TypeOK',
         NEW o \in Requests, queue' = <<o>> \o Tail(queue),
         o.kind = "write", o.entry = Op.entry, o.n = Op.n, o.at # "called",
         o.at \in {"initial", "entry", "words"} => o.bytes = None,
         UNCHANGED <<archive, archived, phase, writes, said>>,
         \A e \in Entries : e # o.entry => SameEntry(e) /\ (e \in held'.files <=> e \in held.files),
         ~held.closed, ~held'.closed, held.revision <= held'.revision,
         o.at \notin {"journal", "put"} => held'.retained[o.entry] = None,
         file'[o.entry] # None => file'[o.entry].stamp < o.n,
         FilesOf(o.entry)', ViewOf(o.entry)',
         PhaseInv', RecordsInv', ClosedInv', WriteStage', PieceWritten'
  PROVE  StoreViewInv'
<1>1. Op \in Requests /\ CallOK(Op) /\ Op.entry \in Entries
  BY OpType DEF StoreViewInv, QueueInv, CallOK, Writes, Touches
<1>2. OthersKeep
  BY DEF OthersKeep, Writes, Touches, SameEntry
<1>3. CallOK(o)'
  BY <1>1 DEF CallOK, Writes, Touches
<1>4. QueueInv' /\ Op' = o /\ queue' # <<>>
  <2>1. ByWindow(o) = ByWindow(Op) /\ (Touches(o) => Touches(Op))
    BY DEF ByWindow, ByCapture, Touches, Writes
  <2> QED BY <1>2, <1>3, <2>1, QueueGoes DEF StoreViewInv
<1>5. FilesInv'
  BY DEF StoreViewInv, FilesInv, FilesOf, SameEntry
<1>6. ViewInv'
  <2> SUFFICES ASSUME NEW e \in Entries, e # o.entry PROVE ViewOf(e)'
    BY DEF ViewInv
  <2>1. ViewOf(e) /\ SameEntry(e) /\ (e \in held'.files <=> e \in held.files)
    BY DEF StoreViewInv, ViewInv
  <2>2. Meant(e) = said[e] /\ Meant(e)' = said[e]
    BY <1>4 DEF Meant, Shows
  <2> QED BY <2>1, <2>2, ViewFrame
<1>7. StageInv'
  BY <1>4 DEF StageInv, RetryStage, OtherStage, IsRetry
<1>8. ArchiveInv'
  <2>1. held.revision \in Nat /\ held'.revision \in Nat /\ (archive # None => archive.revision \in Nat)
    BY DEF StoreViewInv, TypeOK, MemoryType, Memory, ArchiveType, Archives
  <2> QED BY <2>1 DEF StoreViewInv, ArchiveInv, IsWhole, Kept
<1> QED BY <1>4, <1>5, <1>6, <1>7, <1>8 DEF StoreViewInv

LEMMA WriteFacts ==
  ASSUME StoreViewInv, queue # <<>>, Writes(Op)
  PROVE  /\ Op \in Requests /\ CallOK(Op) /\ Op.entry \in Entries /\ Op.n \in 1 .. writes
         /\ Op.n \in 1 .. MaxWrites /\ Op.n \in Pieces /\ said[Op.entry] \in Texts /\ said[Op.entry] # None
<1>1. Op \in Requests /\ CallOK(Op) /\ Op.entry \in Entries /\ Op.n \in 1 .. writes /\ said[Op.entry] # None
  BY OpType DEF StoreViewInv, QueueInv, CallOK, Writes, Touches
<1>2. \A n \in 1 .. writes : n \in 1 .. MaxWrites
  BY ConstantsOK DEF StoreViewInv, TypeOK, CallsType
<1> QED BY <1>1, <1>2 DEF Pieces, StoreViewInv, TypeOK, ToldType

\* A write is answered: it is said, as it was already shown.
LEMMA WriteEnds ==
  ASSUME StoreViewInv, phase = "up", queue # <<>>, Writes(Op), Op.at \in {"node", "journal", "put"}, Ends,
         Say(Op.entry, Op.n), TypeOK', RecordsInv', ClosedInv',
         UNCHANGED <<archive, archived, file, spill, held, phase, failing, writes>>
  PROVE  StoreViewInv'
<1>1. /\ Op \in Requests /\ CallOK(Op) /\ Op.entry \in Entries /\ said[Op.entry] # None
      /\ Begun(Op) /\ ~held.closed /\ (archive # None => archive.revision < held.revision)
  BY OpType DEF StoreViewInv, QueueInv, CallOK, Writes, Touches, StageInv, WriteStage, Begun
<1>2. /\ \A e \in Entries : e # Op.entry => said'[e] = said[e]
      /\ said'[Op.entry] = Meant(Op.entry) /\ said'[Op.entry] # None
  <2>1. said' = [said EXCEPT ![Op.entry] = Meant(Op.entry)]
    BY DEF Say, Meant, Shows, Writes
  <2>2. DOMAIN said = Entries
    BY DEF StoreViewInv, TypeOK, ToldType
  <2>3. said'[Op.entry] # None
    <3>1. said[Op.entry] \in Texts /\ Op.n \in Pieces
      BY <1>1, WriteFacts DEF StoreViewInv, TypeOK, ToldType
    <3>2. Append(said[Op.entry], Op.n) \in Texts /\ <<Op.n>> \in Texts
      BY <3>1 DEF Texts
    <3> QED BY <1>1, <2>1, <2>2, <3>2, NoneAssumption DEF Meant
  <2> QED BY <1>1, <2>1, <2>2, <2>3
<1>3. OthersKeep
  BY <1>2 DEF OthersKeep
<1>4. QueueInv' /\ (queue' # <<>> => ~Begun(Op'))
  BY <1>3, QueueEnds DEF StoreViewInv
<1>5. FilesInv' /\ PhaseInv'
  BY <1>1, <1>2 DEF StoreViewInv, FilesInv, FilesOf, PhaseInv, Holding
<1>6. ViewInv'
  <2> SUFFICES ASSUME NEW e \in Entries PROVE ViewOf(e)'
    BY DEF ViewInv
  <2>1. ViewOf(e) /\ SameEntry(e) /\ Meant(e)' = said'[e]
    BY <1>1, <1>4 DEF StoreViewInv, ViewInv, SameEntry, Meant, Shows, Begun
  <2>2. CASE e = Op.entry
    BY <1>1, <1>2, <2>1, <2>2, ShownFrame DEF ViewOf
  <2>3. CASE e # Op.entry
    <3>1. Meant(e) = said[e]
      BY <2>3 DEF Meant, Shows
    <3> QED BY <1>2, <2>1, <2>3, <3>1, ViewFrame
  <2> QED BY <2>2, <2>3
<1>7. StageInv'
  BY <1>4 DEF StageInv, WriteStage, PieceWritten, RetryStage, OtherStage, Begun, Writes
<1>8. ArchiveInv'
  <2>1. held.revision \in Nat /\ (archive # None => archive.revision \in Nat)
    BY DEF StoreViewInv, TypeOK, MemoryType, Memory, ArchiveType, Archives
  <2> QED BY <1>1, <2>1 DEF StoreViewInv, ArchiveInv
<1> QED BY <1>4, <1>5, <1>6, <1>7, <1>8 DEF StoreViewInv
-----------------------------------------------------------------------------
(* Texts.                                                                  *)
LEMMA TextsClosed ==
  /\ <<>> \in Texts
  /\ \A t \in Texts, u \in Texts, x \in Pieces : t \o u \in Texts /\ Append(t, x) \in Texts /\ <<x>> \in Texts
BY DEF Texts

LEMMA ClipType ==
  ASSUME NEW t \in Texts, NEW n \in Nat
  PROVE  Clipped(t, n) \in Texts
BY DEF Texts, Clipped

LEMMA ClipAll ==
  ASSUME NEW t \in Texts
  PROVE  Clipped(t, Len(t)) = t
BY DEF Texts, Clipped

\* What comes after a front is clipped off.
LEMMA ClipFront ==
  ASSUME NEW t \in Texts, NEW u \in Texts
  PROVE  Clipped(t \o u, Len(t)) = t
<1>1. t \o u \in Texts /\ Len(t \o u) = Len(t) + Len(u) /\ Len(t) \in Nat /\ Len(u) \in Nat
  BY DEF Texts
<1>2. Clipped(t \o u, Len(t)) = SubSeq(t \o u, 1, Len(t))
  BY <1>1 DEF Clipped
<1> QED BY <1>1, <1>2 DEF Texts

\* A text whose last piece is n is its front and n.
LEMMA FrontAndLast ==
  ASSUME NEW t \in Texts, NEW n, EndsIn(t, n)
  PROVE  Len(t) - 1 \in Nat /\ Clipped(t, Len(t) - 1) \in Texts /\ Clipped(t, Len(t) - 1) \o <<n>> = t
<1>1. Len(t) - 1 \in Nat /\ Len(t) \in Nat /\ n \in Pieces
  BY DEF Texts, EndsIn
<1>2. Clipped(t, Len(t) - 1) = SubSeq(t, 1, Len(t) - 1)
  <2>1. Len(t) - 1 < Len(t)
    BY <1>1
  <2> QED BY <2>1 DEF Clipped
<1>4. Clipped(t, Len(t) - 1) \in Texts
  BY <1>1, ClipType
<1>3. SubSeq(t, 1, Len(t) - 1) \o <<n>> = t
  BY <1>1 DEF Texts, EndsIn
<1> QED BY <1>1, <1>2, <1>3, <1>4
-----------------------------------------------------------------------------
(* A refused write is held.                                                *)
Source(e) == IF file[e] = None THEN NoFile ELSE file[e]

\* The text of a plan that is not yet carried out, over a spill s.
Plain(f, s, p) ==
  Clipped(f.text, p.base) \o (IF p.inline THEN <<>> ELSE IF p.bytes = None THEN s ELSE Clipped(s, p.bytes)) \o p.text

PlanOf(o, b) ==
  [stamp |-> o.n, bytes |-> b, inline |-> Source(o.entry).inline, text |-> <<o.n>>,
   base |-> Len(Source(o.entry).text) - (IF o.at = "node" /\ Source(o.entry).inline THEN 1 ELSE 0)]

LEMMA SourceType ==
  ASSUME TypeOK, NEW e \in Entries
  PROVE  /\ Source(e).text \in Texts /\ Source(e).inline \in BOOLEAN /\ spill[e] \in Texts
         /\ Len(Source(e).text) \in Nat /\ Len(spill[e]) \in Nat
         /\ file[e] # None => Source(e) = file[e] /\ file[e] \in Files
         /\ file[e] = None => Source(e) = NoFile
<1>1. spill[e] \in Texts /\ (file[e] # None => file[e] \in Files) /\ file[e] \in Files \cup {None}
  BY DEF TypeOK, DiskType
<1>2. NoFile.text = <<>> /\ NoFile.inline = FALSE
  BY DEF NoFile
<1>3. Source(e).text \in Texts /\ Source(e).inline \in BOOLEAN
  BY <1>1, <1>2, TextsClosed DEF Source, Files
<1>4. \A t \in Texts : Len(t) \in Nat
  BY DEF Texts
<1> QED BY <1>1, <1>3, <1>4 DEF Source

\* An entry that nobody holds shows its files.
LEMMA ShownOnDisk ==
  ASSUME TypeOK, FilesInv, NEW e \in Entries, held.retained[e] = None
  PROVE  Shown(held.retained, e) = Source(e).text \o (IF Source(e).inline THEN <<>> ELSE spill[e])
<1>1. CASE file[e] = None
  <2>1. spill[e] = <<>> /\ Source(e) = NoFile
    BY <1>1 DEF FilesInv, FilesOf, Source
  <2> QED BY <1>1, <2>1 DEF Shown, NoFile
<1>2. CASE file[e] # None
  BY <1>2 DEF Shown, Source
<1> QED BY <1>1, <1>2

\* The rest that is held is what was written, and the piece that was not.
LEMMA PlanShows ==
  ASSUME StoreViewInv, phase = "up", ~held.closed, queue # <<>>, Writes(Op), Op.entry \in Stream,
         Op.at \in {"called", "initial", "entry", "words", "node"}, NEW b, NEW s,
         \/ b = Op.bytes /\ s = spill[Op.entry]
         \/ /\ Op.at = "words" /\ ~Source(Op.entry).inline /\ b = Len(spill[Op.entry])
            /\ \E part \in Texts : s = spill[Op.entry] \o part
  PROVE  /\ PlanOf(Op, b) \in Plans
         /\ Plain(Source(Op.entry), s, PlanOf(Op, b)) = Append(said[Op.entry], Op.n)
<1> DEFINE e == Op.entry
           n == Op.n
           f == Source(e)
           p == PlanOf(Op, b)
<1>1. /\ e \in Entries /\ n \in 1 .. MaxWrites /\ n \in Pieces /\ said[e] \in Texts /\ said[e] # None
      /\ Op \in Requests /\ CallOK(Op)
  BY WriteFacts
<1>2. /\ f.text \in Texts /\ f.inline \in BOOLEAN /\ spill[e] \in Texts
      /\ Len(f.text) \in Nat /\ Len(spill[e]) \in Nat /\ <<n>> \in Texts /\ <<>> \in Texts
      /\ (file[e] # None => f = file[e])
  BY <1>1, SourceType, TextsClosed DEF StoreViewInv
<1>3. held.retained[e] = None
  BY <1>1 DEF CallOK, Writes, Touches
<1>4. Meant(e) = f.text \o (IF f.inline THEN <<>> ELSE spill[e])
  <2>1. Shown(held.retained, e) = Meant(e)
    BY <1>1 DEF StoreViewInv, ViewInv, ViewOf
  <2> QED BY <1>1, <1>3, <2>1, ShownOnDisk DEF StoreViewInv
<1> HIDE DEF e, n, f
<1>5. Append(said[e], n) = said[e] \o <<n>>
  BY <1>1 DEF Texts
<1>6. CASE Op.at # "node"
  <2>1. Meant(e) = said[e] /\ Op.bytes = None
    BY <1>1, <1>6 DEF e, Meant, Shows, CallOK, Writes
  <2>2. p = [stamp |-> n, bytes |-> b, inline |-> f.inline, text |-> <<n>>, base |-> Len(f.text)]
    BY <1>2, <1>6 DEF PlanOf, e, n, f
  <2>3. p \in Plans
    BY <1>1, <1>2, <2>1, <2>2 DEF Plans, e
  <2>4. Clipped(f.text, Len(f.text)) = f.text
    BY <1>2, ClipAll
  <2> HIDE DEF p
  <2>5. CASE f.inline
    <3>1. Plain(f, s, p) = f.text \o <<>> \o <<n>> /\ said[e] = f.text \o <<>>
      BY <1>4, <2>1, <2>2, <2>4, <2>5 DEF Plain
    <3> QED BY <1>2, <1>5, <2>3, <3>1 DEF e, n, f, p
  <2>6. CASE ~f.inline /\ b = None /\ s = spill[e]
    <3>1. Plain(f, s, p) = f.text \o spill[e] \o <<n>> /\ said[e] = f.text \o spill[e]
      BY <1>4, <2>1, <2>2, <2>4, <2>6 DEF Plain
    <3> QED BY <1>2, <1>5, <2>3, <3>1 DEF e, n, f, p
  <2>7. CASE ~f.inline /\ b = Len(spill[e]) /\ \E part \in Texts : s = spill[e] \o part
    <3>1. Clipped(s, b) = spill[e] /\ b # None
      BY <1>2, <2>7, ClipFront, NoneAssumption
    <3>2. Plain(f, s, p) = f.text \o spill[e] \o <<n>> /\ said[e] = f.text \o spill[e]
      BY <1>4, <2>1, <2>2, <2>4, <2>7, <3>1 DEF Plain
    <3> QED BY <1>2, <1>5, <2>3, <3>2 DEF e, n, f, p
  <2> QED BY <1>2, <2>1, <2>5, <2>6, <2>7 DEF e, f
<1>7. CASE Op.at = "node"
  <2>1. b = Op.bytes /\ s = spill[e] /\ Meant(e) = Append(said[e], n)
    BY <1>7 DEF e, n, Meant, Shows
  <2>2. file[e] # None /\ f = file[e]
    BY <1>2, <1>7 DEF e, StoreViewInv, StageInv, WriteStage, Begun
  <2>3. CASE f.inline
    <3>1. EndsIn(f.text, n)
      BY <1>7, <2>2, <2>3 DEF e, n, StoreViewInv, StageInv, PieceWritten
    <3>2. Len(f.text) - 1 \in Nat /\ Clipped(f.text, Len(f.text) - 1) \in Texts
          /\ Clipped(f.text, Len(f.text) - 1) \o <<n>> = f.text
      BY <1>2, <3>1, FrontAndLast
    <3>3. p = [stamp |-> n, bytes |-> b, inline |-> TRUE, text |-> <<n>>, base |-> Len(f.text) - 1]
      BY <1>2, <1>7, <2>3 DEF PlanOf, e, n, f
    <3>4. p \in Plans
      BY <1>1, <1>2, <2>1, <3>2, <3>3 DEF Plans, Requests
    <3> HIDE DEF p
    <3>5. Plain(f, s, p) = Clipped(f.text, Len(f.text) - 1) \o <<>> \o <<n>>
      BY <3>3 DEF Plain
    <3>6. Plain(f, s, p) = f.text \o <<>>
      BY <1>2, <3>2, <3>5
    <3> QED BY <1>4, <2>1, <2>3, <3>4, <3>6 DEF e, n, f, p
  <2>4. CASE ~f.inline
    <3>1. EndsIn(spill[e], n) /\ b = Len(spill[e]) - 1
      BY <1>7, <2>1, <2>2, <2>4 DEF e, n, StoreViewInv, StageInv, PieceWritten
    <3>2. Len(spill[e]) - 1 \in Nat /\ Clipped(spill[e], Len(spill[e]) - 1) \in Texts
          /\ Clipped(spill[e], Len(spill[e]) - 1) \o <<n>> = spill[e]
      BY <1>2, <3>1, FrontAndLast
    <3>3. p = [stamp |-> n, bytes |-> b, inline |-> f.inline, text |-> <<n>>, base |-> Len(f.text)]
      <4>1. PlanOf(Op, b).base = Len(f.text)
        BY <1>2, <2>4 DEF PlanOf, e, f
      <4> QED BY <4>1 DEF PlanOf, e, n, f
    <3>9. b \in Nat /\ b # None
      BY <3>1, <3>2, NoneAssumption
    <3>4. p \in Plans /\ b # None
      BY <1>1, <1>2, <3>3, <3>9 DEF Plans
    <3>5. Clipped(f.text, Len(f.text)) = f.text
      BY <1>2, ClipAll
    <3> HIDE DEF p
    <3>6. Plain(f, s, p) = f.text \o Clipped(spill[e], Len(spill[e]) - 1) \o <<n>>
      BY <2>1, <2>4, <3>1, <3>3, <3>4, <3>5 DEF Plain
    <3>7. Plain(f, s, p) = f.text \o spill[e]
      <4>1. \A t, u, v \in Texts : (t \o u) \o v = t \o (u \o v)
        BY DEF Texts
      <4> DEFINE c == Clipped(spill[e], Len(spill[e]) - 1)
      <4>2. c \in Texts /\ c \o <<n>> = spill[e] /\ Plain(f, s, p) = (f.text \o c) \o <<n>>
        BY <3>2, <3>6
      <4>4. f.text \in Texts /\ <<n>> \in Texts
        BY <1>2
      <4>5. PICK t : t = f.text
        OBVIOUS
      <4> HIDE DEF c
      <4>6. c \in Texts
        BY <4>2
      <4>3. (t \o c) \o <<n>> = t \o (c \o <<n>>)
        BY <4>1, <4>4, <4>5, <4>6
      <4> QED BY <4>2, <4>3, <4>5
    <3> QED BY <1>4, <2>1, <2>4, <3>4, <3>7 DEF e, n, f, p
  <2> QED BY <2>3, <2>4
<1> QED BY <1>6, <1>7

LEMMA HeadIs ==
  ASSUME TypeOK, queue # <<>>, NEW o \in Requests, queue' = <<o>> \o Tail(queue)
  PROVE  Op' = o /\ queue' # <<>> /\ queue' \in Seq(Requests)
BY HeadReplaced DEF TypeOK, CallsType, Op

\* The running call, at another stage.
LEMMA OpAt ==
  ASSUME TypeOK, queue # <<>>,
         NEW at \in {"initial", "entry", "words", "node", "journal", "put",
                     "entries", "unlink", "remove", "close", "sweep"}
  PROVE  LET o == [Op EXCEPT !.at = at]
         IN  /\ o \in Requests /\ o.kind = Op.kind /\ o.entry = Op.entry /\ o.n = Op.n /\ o.at = at
             /\ o.bytes = Op.bytes /\ o.left = Op.left
BY OpType DEF Requests

RestOf(b) == IF Op.entry \in Stream THEN [text |-> <<>>, plan |-> PlanOf(Op, b)] ELSE [text |-> <<Op.n>>, plan |-> None]

LEMMA RestIs ==
  ASSUME TypeOK, queue # <<>>, NEW b
  PROVE  Rest(Op) = RestOf(Op.bytes) /\ Rest([Op EXCEPT !.bytes = b]) = RestOf(b)
BY OpType DEF Rest, RestOf, PlanOf, Source, Requests

LEMMA WriteHeld ==
  ASSUME StoreViewInv, phase = "up", queue # <<>>, Writes(Op), ~held.closed,
         Op.at \in {"called", "initial", "entry", "words", "node"}, NEW b, NEW rev \in Nat,
         IF Op.at = "called" THEN rev = held.revision + 1 ELSE rev = held.revision,
         \/ b = Op.bytes /\ spill' = spill
         \/ /\ Op.at = "words" /\ ~file[Op.entry].inline /\ b = Len(spill[Op.entry])
            /\ \E part \in Texts : spill' = [spill EXCEPT ![Op.entry] = @ \o part],
         held' = [held EXCEPT !.revision = rev, !.retained[Op.entry] = RestOf(b),
                              !.files = @ \cup {Op.entry}, !.known = TRUE],
         failing' = TRUE, Goes("journal"), faults' \in 0 .. MaxFaults,
         UNCHANGED <<node, file, archives, journal, phase, writes, told, over>>
  PROVE  StoreViewInv'
<1>e. PICK e : e = Op.entry
  OBVIOUS
<1>r. PICK r : r = RestOf(b)
  OBVIOUS
<1>o. PICK o : o = [Op EXCEPT !.at = "journal"]
  OBVIOUS
<1>0. UNCHANGED <<node, file, archive, archived, promised, attempted, stray, phase, writes, said, safe, over>>
  BY DEF archives, journal, told
<1>1. /\ e \in Entries /\ Op.n \in 1 .. MaxWrites /\ Op.n \in 1 .. writes /\ Op.n \in Pieces
      /\ said[e] # None /\ CallOK(Op)
  BY <1>e, WriteFacts
<1>2. o \in Requests /\ o.kind = "write" /\ o.entry = e /\ o.n = Op.n /\ o.at = "journal"
  BY <1>e, <1>o, OpAt DEF Writes, StoreViewInv
<1>3. queue' = <<o>> \o Tail(queue) /\ Op' = o /\ queue' # <<>> /\ queue' \in Seq(Requests)
  BY <1>2, <1>o, HeadIs DEF Goes, StoreViewInv
<1>4. /\ spill[e] \in Texts /\ spill'[e] \in Texts /\ spill' \in [Entries -> Texts]
      /\ \A d \in Entries : d # e => spill'[d] = spill[d]
      /\ spill'[e] # spill[e] => e \in Stream /\ file[e] # None
  <2>1. CASE spill' = spill
    BY <1>1, <2>1 DEF StoreViewInv, TypeOK, DiskType
  <2>2. ASSUME Op.at = "words", NEW part \in Texts, spill' = [spill EXCEPT ![e] = @ \o part]
        PROVE  /\ spill[e] \in Texts /\ spill'[e] \in Texts /\ spill' \in [Entries -> Texts]
               /\ \A d \in Entries : d # e => spill'[d] = spill[d]
               /\ spill'[e] # spill[e] => e \in Stream /\ file[e] # None
    <3>1. e \in Stream /\ file[e] # None
      BY <1>e, <2>2 DEF StoreViewInv, StageInv, WriteStage, Begun
    <3>2. spill \in [Entries -> Texts] /\ spill[e] \o part \in Texts
      BY <1>1, TextsClosed DEF StoreViewInv, TypeOK, DiskType
    <3> QED BY <1>1, <2>2, <3>1, <3>2
  <2> QED BY <1>e, <2>1, <2>2
<1>5. e \in Stream => PlanOf(Op, b) \in Plans /\ Plain(Source(e), spill'[e], PlanOf(Op, b)) = Append(said[e], Op.n)
  <2>1. \/ b = Op.bytes /\ spill'[e] = spill[e]
        \/ /\ Op.at = "words" /\ ~Source(e).inline /\ b = Len(spill[e])
           /\ \E part \in Texts : spill'[e] = spill[e] \o part
    <3>1. Op.at = "words" => Source(e) = file[e]
      BY <1>e DEF StoreViewInv, StageInv, WriteStage, Begun, Source
    <3> QED BY <1>e, <1>1, <3>1 DEF StoreViewInv, TypeOK, DiskType
  <2> QED BY <1>e, <2>1, PlanShows
<1>6. r \in Held /\ r # None /\ (r.plan # None => r.plan.stamp = Op.n)
  <2>1. r \in Held
    BY <1>e, <1>r, <1>1, <1>5, TextsClosed DEF RestOf, Held
  <2>2. r.plan # None => r.plan.stamp = Op.n
    BY <1>r DEF RestOf, PlanOf
  <2> QED BY <2>1, <2>2, NoneAssumption
<1>7. /\ held'.retained = [held.retained EXCEPT ![e] = r] /\ held'.revision = rev /\ held'.closed = held.closed
      /\ held'.known = TRUE /\ held'.files = held.files \cup {e} /\ held' \in Memory
      /\ held'.retained[e] = r /\ \A d \in Entries : d # e => held'.retained[d] = held.retained[d]
  <2>1. held \in Memory
    BY DEF StoreViewInv, TypeOK, MemoryType
  <2>2. /\ held'.retained = [held.retained EXCEPT ![e] = r] /\ held'.revision = rev /\ held'.closed = held.closed
        /\ held'.known = TRUE /\ held'.files = held.files \cup {e}
    BY <1>e, <1>r, <2>1 DEF Memory
  <2>3. held' = [known |-> TRUE, closed |-> held.closed, revision |-> rev, files |-> held.files \cup {e},
                 retained |-> [held.retained EXCEPT ![e] = r]]
    BY <1>e, <1>r, <2>1 DEF Memory
  <2>4. held.retained \in [Entries -> Held \cup {None}] /\ held.closed \in BOOLEAN /\ held.files \subseteq Entries
    BY <2>1 DEF Memory
  <2>5. [held.retained EXCEPT ![e] = r] \in [Entries -> Held \cup {None}]
    BY <1>1, <1>6, <2>4
  <2>6. held.files \cup {e} \subseteq Entries
    BY <1>1, <2>4
  <2>7. PICK m : m = [held.retained EXCEPT ![e] = r]
    OBVIOUS
  <2>8. m \in [Entries -> Held \cup {None}]
    BY <2>5, <2>7
  <2>9. [known |-> TRUE, closed |-> held.closed, revision |-> rev, files |-> held.files \cup {e}, retained |-> m]
          \in Memory
    BY <2>4, <2>6, <2>8 DEF Memory
  <2>10. held' \in Memory
    BY <2>3, <2>7, <2>9
  <2> QED BY <1>1, <2>2, <2>4, <2>10
<1>8. TypeOK'
  BY <1>0, <1>3, <1>4, <1>7 DEF StoreViewInv, TypeOK, DiskType, ArchiveType, RecordType, MemoryType, CallsType,
                                ToldType, Nodes
<1>9. FilesOf(e)'
  BY <1>0, <1>1, <1>4 DEF StoreViewInv, FilesInv, FilesOf
<1>10. ViewOf(e)'
  <2>1. Shown(held.retained, e)' = Materialized(e, r)'.text
    BY <1>6, <1>7 DEF Shown
  <2>2. CASE e \notin Stream
    <3>1. r = [text |-> <<Op.n>>, plan |-> None]
      BY <1>e, <1>r, <2>2 DEF RestOf
    <3>2. Materialized(e, r)'.text = <<Op.n>>
      BY <3>1 DEF Materialized
    <3> QED BY <1>0, <1>1, <1>2, <1>3, <1>6, <1>7, <2>1, <2>2, <3>2 DEF ViewOf, Meant, Shows, Writes
  <2>3. CASE e \in Stream
    <3>1. r.plan = PlanOf(Op, b) /\ r.plan # None /\ r.plan.stamp = Op.n
      BY <1>e, <1>r, <1>5, <2>3, NoneAssumption DEF RestOf, PlanOf
    <3>2. Source(e).stamp # Op.n
      BY <1>e, <1>1, ConstantsOK DEF CallOK, Writes, Source, NoFile, StoreViewInv, TypeOK, DiskType, Files
    <3>3. Materialized(e, r)'.text = Plain(Source(e), spill'[e], r.plan)
      BY <1>0, <3>1, <3>2 DEF Materialized, Plain, Source, Prefix
    <3>4. Materialized(e, r)'.text = Append(said[e], Op.n)
      BY <1>5, <2>3, <3>1, <3>3
    <3>5. Shows(Op, e)'
      BY <1>2, <1>3 DEF Shows, Writes
    <3>6. Meant(e)' = Append(said[e], Op.n)
      BY <1>0, <1>2, <1>3, <2>3, <3>5 DEF Meant
    <3>7. Shown(held.retained, e)' = Meant(e)'
      BY <2>1, <3>4, <3>6
    <3>8. said'[e] # None /\ held'.retained[e] # None /\ e \in held'.files
      BY <1>0, <1>1, <1>6, <1>7
    <3> QED BY <3>7, <3>8 DEF ViewOf
  <2> QED BY <2>2, <2>3
<1>11. PhaseInv'
  <2>1. Holding(held'.retained) # {}
    BY <1>1, <1>6, <1>7 DEF Holding
  <2> QED BY <1>0, <1>7, <2>1 DEF StoreViewInv, PhaseInv, Holding
<1>12. RecordsInv'
  <2>1. PlanOK(r)'
    <3>1. Op.n <= writes'
      BY <1>0, <1>1
    <3> QED BY <1>6, <3>1 DEF PlanOK
  <2>2. \A d \in Entries : PlanOK(held.retained[d])'
    BY <1>0, <1>7, <2>1 DEF StoreViewInv, RecordsInv, PlanOK
  <2> QED BY <1>0, <2>2 DEF StoreViewInv, RecordsInv, RecordOK, PlanOK, Holding
<1>13. ClosedInv'
  BY <1>0, <1>7 DEF StoreViewInv, ClosedInv, NoneMayBe
<1>14. held.revision \in Nat /\ held.revision <= rev /\ (archive # None => archive.revision < rev)
  <2>1. held.revision \in Nat /\ (archive # None => archive.revision \in Nat)
    BY DEF StoreViewInv, TypeOK, MemoryType, Memory, ArchiveType, Archives
  <2>2. archive # None => archive.revision <= held.revision /\ (Op.at # "called" => archive.revision < held.revision)
    BY DEF StoreViewInv, ArchiveInv, StageInv, WriteStage, Begun
  <2> QED BY <2>1, <2>2
<1>15. WriteStage' /\ PieceWritten'
  BY <1>0, <1>2, <1>3, <1>6, <1>7, <1>14 DEF WriteStage, PieceWritten
<1>16. \A d \in Entries : d # e => SameEntry(d) /\ (d \in held'.files <=> d \in held.files)
  BY <1>0, <1>4, <1>7 DEF SameEntry
<1>17. file'[e] # None => file'[e].stamp < o.n
  BY <1>e, <1>0, <1>1, <1>2 DEF CallOK, Writes
<1> QED BY <1>0, <1>2, <1>3, <1>7, <1>8, <1>9, <1>10, <1>11, <1>12, <1>13, <1>14, <1>15, <1>16, <1>17,
           <1>e, WriteGoes
-----------------------------------------------------------------------------
(* The steps of a write.                                                   *)

LEMMA EndsType ==
  ASSUME TypeOK, queue # <<>>, Ends
  PROVE  queue' \in Seq(Requests)
BY TailShifts DEF TypeOK, CallsType, Ends

LEMMA MemoryIs ==
  ASSUME NEW k \in BOOLEAN, NEW c \in BOOLEAN, NEW rev \in Nat, NEW fs \in SUBSET Entries,
         NEW m \in [Entries -> Held \cup {None}]
  PROVE  [known |-> k, closed |-> c, revision |-> rev, files |-> fs, retained |-> m] \in Memory
BY DEF Memory

LEMMA HeldType2 ==
  ASSUME TypeOK
  PROVE  /\ held \in Memory /\ held.known \in BOOLEAN /\ held.closed \in BOOLEAN /\ held.revision \in Nat
         /\ held.files \subseteq Entries /\ held.retained \in [Entries -> Held \cup {None}]
BY DEF TypeOK, MemoryType, Memory

LEMMA WriteStartsView ==
  ASSUME StoreViewInv, WriteStarts
  PROVE  StoreViewInv'
<1> DEFINE next == [held EXCEPT !.revision = @ + 1]
<1>1. /\ phase = "up" /\ queue # <<>> /\ Writes(Op) /\ Op.at = "called" /\ TypeOK
      /\ UNCHANGED <<disk, archives, journal, phase, writes, faults, told, over>>
  BY DEF WriteStarts, Running, Op, Writes, StoreViewInv
<1>2. UNCHANGED <<node, file, spill, archive, archived, promised, attempted, stray, said, safe>>
  BY <1>1 DEF disk, archives, journal, told
<1>3. CASE Ends /\ UNCHANGED <<held, failing>>
  <2>1. TypeOK'
    BY <1>1, <1>2, <1>3, EndsType DEF TypeOK, DiskType, ArchiveType, RecordType, MemoryType, CallsType, ToldType,
                                  Nodes
  <2>2. ArchiveInv'
    BY <1>2, <1>3 DEF StoreViewInv, ArchiveInv, IsWhole, Kept
  <2> QED BY <1>1, <1>2, <1>3, <2>1, <2>2, EndsQuietly DEF Writes
<1>4. CASE ~held.closed /\ Hold(next)
  <2>1. PICK rev : rev = held.revision + 1
    OBVIOUS
  <2>2. rev \in Nat
    BY <1>1, <2>1, HeldType2
  <2>3. held' = [held EXCEPT !.revision = rev, !.retained[Op.entry] = RestOf(Op.bytes),
                             !.files = @ \cup {Op.entry}, !.known = TRUE]
    BY <1>1, <1>4, <2>1, HeldType2, RestIs DEF Hold, Memory
  <2>4. faults' \in 0 .. MaxFaults
    BY <1>1 DEF TypeOK, CallsType
  <2> QED BY <1>1, <1>2, <1>4, <2>1, <2>2, <2>3, <2>4, WriteHeld DEF Hold
<1>5. ASSUME ~held.closed, ~failing, held' = next, UNCHANGED failing, NEW at \in {"initial", "words", "entry"},
             Goes(at), at = "initial" <=> ~held.known,
             at = "words" => Op.entry \in Stream \cap held.files,
             at = "entry" => Op.entry \notin Stream \cap held.files
      PROVE  StoreViewInv'
  <2>e. PICK e : e = Op.entry
    OBVIOUS
  <2>o. PICK o : o = [Op EXCEPT !.at = at]
    OBVIOUS
  <2>1. /\ e \in Entries /\ CallOK(Op) /\ held.retained[e] = None /\ Op.bytes = None
    BY <1>1, <1>5, <2>e, WriteFacts, NothingIsHeld DEF CallOK, Writes
  <2>2. o \in Requests /\ o.kind = "write" /\ o.entry = e /\ o.n = Op.n /\ o.at = at /\ o.bytes = None
    BY <1>1, <1>5, <2>1, <2>e, <2>o, OpAt DEF Writes
  <2>3. queue' = <<o>> \o Tail(queue) /\ Op' = o /\ queue' # <<>> /\ queue' \in Seq(Requests)
    BY <1>1, <1>5, <2>2, <2>o, HeadIs DEF Goes
  <2>4. /\ held'.retained = held.retained /\ held'.revision = held.revision + 1 /\ held'.closed = held.closed
        /\ held'.known = held.known /\ held'.files = held.files /\ held' \in Memory
    <3>1. held' = [known |-> held.known, closed |-> held.closed, revision |-> held.revision + 1,
                   files |-> held.files, retained |-> held.retained]
      BY <1>1, <1>5, HeldType2 DEF Memory
    <3>2. held.revision + 1 \in Nat
      BY <1>1, HeldType2
    <3> QED BY <1>1, <3>1, <3>2, HeldType2, MemoryIs
  <2>5. TypeOK'
    BY <1>1, <1>2, <1>5, <2>3, <2>4 DEF TypeOK, DiskType, ArchiveType, RecordType, MemoryType, CallsType, ToldType,
                                    Nodes
  <2>6. \A d \in Entries : SameEntry(d) /\ FilesOf(d)'
    BY <1>1, <1>2, <2>4 DEF SameEntry, StoreViewInv, FilesInv, FilesOf
  <2>7. ViewOf(e)'
    <3>1. Meant(e) = said[e] /\ Meant(e)' = said[e]
      BY <1>1, <1>2, <1>5, <2>2, <2>3 DEF Meant, Shows
    <3> QED BY <1>1, <1>2, <1>5, <2>1, <2>4, <2>6, <3>1, ViewFrame DEF StoreViewInv, ViewInv
  <2>8. PhaseInv' /\ RecordsInv' /\ ClosedInv'
    BY <1>1, <1>2, <1>5, <2>4 DEF StoreViewInv, PhaseInv, RecordsInv, RecordOK, PlanOK, ClosedInv, NoneMayBe, Holding
  <2>9. archive # None => archive.revision < held'.revision
    <3>1. archive # None => archive.revision \in Nat /\ archive.revision <= held.revision
      BY DEF StoreViewInv, ArchiveInv, TypeOK, ArchiveType, Archives
    <3> QED BY <1>1, <2>4, <3>1, HeldType2
  <2>10. at \in {"initial", "entry"} => e \notin Stream \cap held.files
    BY <1>1, <1>5, <2>e DEF StoreViewInv, PhaseInv
  <2>11. at = "words" => e \in Stream /\ file[e] # None
    BY <1>1, <1>5, <2>1, <2>e DEF StoreViewInv, ViewInv, ViewOf
  <2>12. WriteStage' /\ PieceWritten'
    BY <1>2, <1>5, <2>2, <2>3, <2>4, <2>9, <2>10, <2>11 DEF WriteStage, PieceWritten
  <2>13. file'[e] # None => file'[e].stamp < o.n
    BY <1>1, <1>2, <2>1, <2>2, <2>e DEF CallOK, Writes
  <2>14. held.revision <= held'.revision
    BY <1>1, <2>4, HeldType2
  <2> QED BY <1>1, <1>2, <1>5, <2>e, <2>1, <2>2, <2>3, <2>4, <2>5, <2>6, <2>7, <2>8, <2>12, <2>13, <2>14, WriteGoes
<1> QED BY <1>1, <1>3, <1>4, <1>5 DEF WriteStarts

LEMMA InitialSavedView ==
  ASSUME StoreViewInv, InitialSaved
  PROVE  StoreViewInv'
<1>1. /\ phase = "up" /\ queue # <<>> /\ Writes(Op) /\ Op.at = "initial" /\ TypeOK
      /\ UNCHANGED <<file, spill, archives, journal, phase, failing, writes, faults, told, over>>
      /\ node' = [revision |-> 0, closed |-> FALSE] /\ held' = [held EXCEPT !.known = TRUE] /\ Goes("entry")
  BY DEF InitialSaved, Running, Op, Writes, StoreViewInv
<1>2. UNCHANGED <<file, spill, archive, archived, promised, attempted, stray, said, safe>>
  BY <1>1 DEF archives, journal, told
<1>e. PICK e : e = Op.entry
  OBVIOUS
<1>o. PICK o : o = [Op EXCEPT !.at = "entry"]
  OBVIOUS
<1>3. /\ e \in Entries /\ CallOK(Op) /\ held.retained[e] = None /\ Op.bytes = None
      /\ ~held.closed /\ ~failing /\ e \notin Stream \cap held.files
      /\ (archive # None => archive.revision < held.revision)
  BY <1>1, <1>e, WriteFacts, NothingIsHeld DEF CallOK, Writes, StoreViewInv, StageInv, WriteStage, Begun
<1>4. o \in Requests /\ o.kind = "write" /\ o.entry = e /\ o.n = Op.n /\ o.at = "entry" /\ o.bytes = None
  BY <1>1, <1>3, <1>e, <1>o, OpAt DEF Writes
<1>5. queue' = <<o>> \o Tail(queue) /\ Op' = o /\ queue' # <<>> /\ queue' \in Seq(Requests)
  BY <1>1, <1>4, <1>o, HeadIs DEF Goes
<1>6. /\ held'.retained = held.retained /\ held'.revision = held.revision /\ held'.closed = held.closed
      /\ held'.known = TRUE /\ held'.files = held.files /\ held' \in Memory
  <2>1. held' = [known |-> TRUE, closed |-> held.closed, revision |-> held.revision,
                 files |-> held.files, retained |-> held.retained]
    BY <1>1, HeldType2 DEF Memory
  <2>2. held' \in Memory
    BY <1>1, <2>1, HeldType2 DEF Memory
  <2> QED BY <2>1, <2>2
<1>7. node' \in Nodes /\ ~node'.closed
  BY <1>1 DEF Nodes
<1>8. TypeOK'
  BY <1>1, <1>2, <1>5, <1>6, <1>7 DEF TypeOK, DiskType, ArchiveType, RecordType, MemoryType, CallsType, ToldType
<1>9. \A d \in Entries : SameEntry(d) /\ FilesOf(d)'
  BY <1>1, <1>2, <1>6 DEF SameEntry, StoreViewInv, FilesInv, FilesOf
<1>10. ViewOf(e)'
  <2>1. Meant(e) = said[e] /\ Meant(e)' = said[e]
    BY <1>1, <1>2, <1>4, <1>5 DEF Meant, Shows
  <2> QED BY <1>1, <1>2, <1>3, <1>6, <1>9, <2>1, ViewFrame DEF StoreViewInv, ViewInv
<1>11. PhaseInv' /\ RecordsInv' /\ ClosedInv'
  BY <1>1, <1>2, <1>6, <1>7 DEF StoreViewInv, PhaseInv, RecordsInv, RecordOK, PlanOK, ClosedInv, NoneMayBe, Holding
<1>12. WriteStage' /\ PieceWritten'
  BY <1>1, <1>2, <1>3, <1>4, <1>5, <1>6 DEF WriteStage, PieceWritten
<1>13. file'[e] # None => file'[e].stamp < o.n
  BY <1>1, <1>2, <1>3, <1>4, <1>e DEF CallOK, Writes
<1> QED BY <1>1, <1>2, <1>e, <1>3, <1>4, <1>5, <1>6, <1>8, <1>9, <1>10, <1>11, <1>12, <1>13, HeldType2, WriteGoes

LEMMA EntrySavedView ==
  ASSUME StoreViewInv, EntrySaved
  PROVE  StoreViewInv'
<1>e. PICK e : e = Op.entry
  OBVIOUS
<1>f. PICK f : f = [text |-> IF e \in Stream THEN <<>> ELSE <<Op.n>>, inline |-> FALSE, stamp |-> 0]
  OBVIOUS
<1>a. PICK at : at = IF e \in Stream THEN "words" ELSE "node"
  OBVIOUS
<1>1. /\ phase = "up" /\ queue # <<>> /\ Writes(Op) /\ Op.at = "entry" /\ TypeOK
      /\ UNCHANGED <<node, spill, archives, journal, phase, failing, writes, faults, told, over>>
      /\ file' = [file EXCEPT ![e] = f] /\ held' = [held EXCEPT !.files = @ \cup {e}] /\ Goes(at)
  <2>1. [NoFile EXCEPT !.text = IF e \in Stream THEN <<>> ELSE <<Op.n>>] = f
    <3>1. PICK t : t = IF e \in Stream THEN <<>> ELSE <<Op.n>>
      OBVIOUS
    <3>2. f = [text |-> t, inline |-> FALSE, stamp |-> 0] /\ [NoFile EXCEPT !.text = t] = f
      <4>1. [NoFile EXCEPT !.text = t] = [text |-> t, inline |-> FALSE, stamp |-> 0]
        <5>1. \A s, i, n : [[text |-> s, inline |-> i, stamp |-> n] EXCEPT !.text = t]
                             = [text |-> t, inline |-> i, stamp |-> n]
          OBVIOUS
        <5> QED BY <5>1 DEF NoFile
      <4>2. f = [text |-> t, inline |-> FALSE, stamp |-> 0]
        BY <1>f, <3>1
      <4> QED BY <4>1, <4>2
    <3> QED BY <3>1, <3>2
  <2>2. /\ UNCHANGED <<node, spill, archives, journal, phase, failing, writes, faults, told, over>>
        /\ file' = [file EXCEPT ![e] = f] /\ held' = [held EXCEPT !.files = @ \cup {e}] /\ Goes(at)
    BY <1>e, <1>a, <2>1 DEF EntrySaved
  <2> QED BY <2>2 DEF EntrySaved, Running, Op, Writes, StoreViewInv
<1>2. UNCHANGED <<node, spill, archive, archived, promised, attempted, stray, said, safe>>
  BY <1>1 DEF archives, journal, told
<1>o. PICK o : o = [Op EXCEPT !.at = at]
  OBVIOUS
<1>3. /\ e \in Entries /\ CallOK(Op) /\ held.retained[e] = None /\ Op.bytes = None
      /\ Op.n \in Pieces /\ Op.n \in 1 .. writes /\ said[e] # None
      /\ ~held.closed /\ ~failing /\ e \notin Stream \cap held.files /\ held.known
      /\ (archive # None => archive.revision < held.revision)
  BY <1>1, <1>e, WriteFacts, NothingIsHeld DEF CallOK, Writes, StoreViewInv, StageInv, WriteStage, Begun
<1>4. o \in Requests /\ o.kind = "write" /\ o.entry = e /\ o.n = Op.n /\ o.at = at /\ o.bytes = None
  BY <1>1, <1>3, <1>e, <1>a, <1>o, OpAt DEF Writes
<1>5. queue' = <<o>> \o Tail(queue) /\ Op' = o /\ queue' # <<>> /\ queue' \in Seq(Requests)
  BY <1>1, <1>4, <1>o, HeadIs DEF Goes
<1>6. /\ held'.retained = held.retained /\ held'.revision = held.revision /\ held'.closed = held.closed
      /\ held'.known = held.known /\ held'.files = held.files \cup {e} /\ held' \in Memory
  <2>1. held' = [known |-> held.known, closed |-> held.closed, revision |-> held.revision,
                 files |-> held.files \cup {e}, retained |-> held.retained]
    BY <1>1, HeldType2 DEF Memory
  <2>2. held.files \cup {e} \in SUBSET Entries
    BY <1>1, <1>3, HeldType2
  <2>3. PICK fs : fs = held.files \cup {e}
    OBVIOUS
  <2>4. held' = [known |-> held.known, closed |-> held.closed, revision |-> held.revision,
                 files |-> fs, retained |-> held.retained] /\ fs \in SUBSET Entries
    BY <2>1, <2>2, <2>3
  <2>5. held' \in Memory
    BY <1>1, <2>4, HeldType2 DEF Memory
  <2> QED BY <2>1, <2>5
<1>7. f \in Files /\ f # None /\ f.stamp = 0 /\ ~f.inline
  <2>1. f.text \in Texts /\ 0 \in 0 .. MaxWrites
    BY <1>f, <1>3, ConstantsOK, TextsClosed
  <2>2. f \in Files
    BY <1>f, <2>1 DEF Files
  <2> QED BY <1>f, <2>2, NoneAssumption
<1>8. file' \in [Entries -> Files \cup {None}] /\ file'[e] = f /\ \A d \in Entries : d # e => file'[d] = file[d]
  BY <1>1, <1>3, <1>7 DEF TypeOK, DiskType
<1>9. TypeOK'
  BY <1>1, <1>2, <1>5, <1>6, <1>8 DEF TypeOK, DiskType, ArchiveType, RecordType, MemoryType, CallsType, ToldType, Nodes
<1>10. \A d \in Entries : d # e => SameEntry(d)
  BY <1>1, <1>2, <1>6, <1>8 DEF SameEntry
<1>11. FilesOf(e)'
  <2>1. 0 <= writes'
    BY <1>1, ConstantsOK DEF TypeOK, CallsType
  <2> QED BY <1>1, <1>2, <1>3, <1>7, <1>8, <2>1 DEF FilesOf, StoreViewInv, FilesInv
<1>12. ViewOf(e)'
  <2>1. ViewOf(e) /\ FilesOf(e)
    BY <1>1, <1>3 DEF StoreViewInv, ViewInv, FilesInv
  <2>2. spill[e] = <<>>
    BY <1>3, <2>1 DEF ViewOf, FilesOf
  <2>3. Shown(held.retained, e)' = f.text
    <3>1. Shown(held.retained, e)' = f.text \o <<>>
      BY <1>2, <1>3, <1>6, <1>7, <1>8, <2>2 DEF Shown
    <3> QED BY <1>7, <3>1 DEF Files, Texts
  <2>4. Meant(e)' = f.text
    <3>1. CASE e \in Stream
      <4>1. Meant(e) = said[e] /\ Meant(e)' = said[e]
        BY <1>1, <1>2, <1>4, <1>5, <1>a, <3>1 DEF Meant, Shows
      <4>2. Shown(held.retained, e) = <<>>
        BY <1>3, <2>1, <3>1 DEF ViewOf, Shown
      <4> QED BY <1>3, <1>f, <2>1, <3>1, <4>1, <4>2 DEF ViewOf
    <3>2. CASE e \notin Stream
      BY <1>4, <1>5, <1>a, <1>f, <3>2 DEF Meant, Shows, Writes
    <3> QED BY <3>1, <3>2
  <2> QED BY <1>2, <1>3, <1>6, <1>7, <1>8, <2>3, <2>4 DEF ViewOf
<1>13. PhaseInv' /\ RecordsInv' /\ ClosedInv'
  BY <1>1, <1>2, <1>3, <1>6 DEF StoreViewInv, PhaseInv, RecordsInv, RecordOK, PlanOK, ClosedInv, NoneMayBe, Holding
<1>14. WriteStage' /\ PieceWritten'
  BY <1>1, <1>2, <1>3, <1>4, <1>5, <1>6, <1>7, <1>8, <1>a DEF WriteStage, PieceWritten
<1>15. file'[e].stamp < o.n
  BY <1>3, <1>4, <1>7, <1>8
<1>16. \A d \in Entries : d # o.entry => SameEntry(d) /\ (d \in held'.files <=> d \in held.files)
  BY <1>4, <1>6, <1>10
<1>17. /\ o.kind = "write" /\ o.entry = Op.entry /\ o.n = Op.n /\ o.at \notin {"called", "journal", "put"}
       /\ o.bytes = None
  BY <1>4, <1>a, <1>e
<1>18. ~held.closed /\ ~held'.closed /\ held.revision <= held'.revision /\ held'.retained[o.entry] = None
  BY <1>1, <1>3, <1>4, <1>6, HeldType2
<1>19. FilesOf(o.entry)' /\ ViewOf(o.entry)' /\ file'[o.entry].stamp < o.n
  BY <1>4, <1>11, <1>12, <1>15
<1>20. /\ phase = "up" /\ queue # <<>> /\ Writes(Op) /\ o \in Requests
       /\ UNCHANGED <<archive, archived, phase, writes, said>>
  BY <1>1, <1>2, <1>4
<1> QED BY <1>5, <1>9, <1>13, <1>14, <1>16, <1>17, <1>18, <1>19, <1>20, WriteGoes

LEMMA WordsSavedView ==
  ASSUME StoreViewInv, WordsSaved
  PROVE  StoreViewInv'
<1>e. PICK e : e = Op.entry
  OBVIOUS
<1>b. PICK b : b = IF file[e].inline THEN None ELSE Len(spill[e])
  OBVIOUS
<1>o. PICK o : o = [Op EXCEPT !.at = "node", !.bytes = b]
  OBVIOUS
<1>n. PICK n : n = Op.n
  OBVIOUS
<1>1. /\ phase = "up" /\ queue # <<>> /\ Writes(Op) /\ Op.at = "words" /\ TypeOK
      /\ UNCHANGED <<node, archives, journal, phase, held, failing, writes, faults, told, over>>
      /\ queue' = <<o>> \o Tail(queue)
      /\ IF file[e].inline
         THEN file' = [file EXCEPT ![e].text = Append(@, n)] /\ UNCHANGED spill
         ELSE spill' = [spill EXCEPT ![e] = Append(@, n)] /\ UNCHANGED file
  BY <1>e, <1>b, <1>o, <1>n DEF WordsSaved, Running, Op, Writes, StoreViewInv
<1>2. UNCHANGED <<node, archive, archived, promised, attempted, stray, said, safe>>
  BY <1>1 DEF archives, journal, told
<1>3. /\ e \in Entries /\ CallOK(Op) /\ held.retained[e] = None /\ e \in Stream
      /\ n \in Pieces /\ n \in 1 .. writes /\ said[e] # None /\ said[e] \in Texts
      /\ ~held.closed /\ ~failing /\ held.known /\ file[e] # None
      /\ (archive # None => archive.revision < held.revision)
  BY <1>1, <1>e, <1>n, WriteFacts, NothingIsHeld DEF CallOK, Writes, StoreViewInv, StageInv, WriteStage, Begun
<1>4. /\ file[e] \in Files /\ file[e].text \in Texts /\ spill[e] \in Texts /\ Len(spill[e]) \in Nat
      /\ file[e].inline \in BOOLEAN
  BY <1>1, <1>3 DEF TypeOK, DiskType, Files, Texts
<1>5. o \in Requests /\ o.kind = "write" /\ o.entry = e /\ o.n = n /\ o.at = "node" /\ o.bytes = b
  BY <1>1, <1>e, <1>b, <1>o, <1>n, <1>4, OpType DEF Requests, Writes
<1>6. Op' = o /\ queue' # <<>> /\ queue' \in Seq(Requests)
  BY <1>1, <1>5, HeadIs
<1>f. PICK f : f = IF file[e].inline THEN [file[e] EXCEPT !.text = Append(@, n)] ELSE file[e]
  OBVIOUS
<1>s. PICK s : s = IF file[e].inline THEN spill[e] ELSE Append(spill[e], n)
  OBVIOUS
<1>7. /\ f \in Files /\ f # None /\ f.inline = file[e].inline /\ f.stamp = file[e].stamp /\ s \in Texts
      /\ f.text = IF f.inline THEN Append(file[e].text, n) ELSE file[e].text
  <2>1. Append(file[e].text, n) \in Texts /\ s \in Texts
    BY <1>3, <1>4, <1>s, TextsClosed
  <2>2. f \in Files /\ f.inline = file[e].inline /\ f.stamp = file[e].stamp
        /\ f.text = IF f.inline THEN Append(file[e].text, n) ELSE file[e].text
    BY <1>f, <1>4, <2>1 DEF Files
  <2> QED BY <2>1, <2>2, NoneAssumption
<1>8. /\ file' \in [Entries -> Files \cup {None}] /\ file'[e] = f /\ \A d \in Entries : d # e => file'[d] = file[d]
      /\ spill' \in [Entries -> Texts] /\ spill'[e] = s /\ \A d \in Entries : d # e => spill'[d] = spill[d]
  <2>1. file' = [file EXCEPT ![e] = f] /\ spill' = [spill EXCEPT ![e] = s]
    <3>1. CASE file[e].inline
      BY <1>1, <1>3, <1>f, <1>s, <3>1 DEF TypeOK, DiskType
    <3>2. CASE ~file[e].inline
      BY <1>1, <1>3, <1>f, <1>s, <3>2 DEF TypeOK, DiskType
    <3> QED BY <3>1, <3>2
  <2> QED BY <1>1, <1>3, <1>7, <2>1 DEF TypeOK, DiskType
<1>9. TypeOK'
  BY <1>1, <1>2, <1>6, <1>8 DEF TypeOK, DiskType, ArchiveType, RecordType, MemoryType, CallsType, ToldType, Nodes
<1>10. \A d \in Entries : d # e => SameEntry(d)
  BY <1>1, <1>8 DEF SameEntry
<1>11. FilesOf(e)'
  BY <1>1, <1>3, <1>7, <1>8 DEF FilesOf, StoreViewInv, FilesInv
<1>12. ViewOf(e)'
  <2>1. ViewOf(e) /\ Meant(e) = said[e]
    BY <1>1, <1>3 DEF StoreViewInv, ViewInv, Meant, Shows
  <2>2. said[e] = file[e].text \o (IF file[e].inline THEN <<>> ELSE spill[e])
    BY <1>3, <2>1 DEF ViewOf, Shown
  <2>3. Shown(held.retained, e)' = f.text \o (IF f.inline THEN <<>> ELSE s)
    BY <1>1, <1>3, <1>7, <1>8 DEF Shown
  <2>4. Meant(e)' = Append(said[e], n)
    BY <1>2, <1>3, <1>5, <1>6 DEF Meant, Shows, Writes
  <2>5. Append(said[e], n) = f.text \o (IF f.inline THEN <<>> ELSE s)
    <3>1. ASSUME NEW t \in Texts, NEW u \in Texts PROVE Append(t \o u, n) = t \o Append(u, n) /\ t \o <<>> = t
      <4>0. \A x \in Texts : Append(x, n) = x \o <<n>>
        BY <1>3 DEF Texts
      <4>1. Append(t \o u, n) = t \o Append(u, n)
        <5>1. \A x, y, z \in Texts : (x \o y) \o z = x \o (y \o z)
          BY DEF Texts
        <5>2. t \o u \in Texts /\ <<n>> \in Texts
          BY <1>3, TextsClosed
        <5>3. (t \o u) \o <<n>> = t \o (u \o <<n>>)
          BY <5>1, <5>2
        <5> QED BY <4>0, <5>2, <5>3
      <4>2. t \o <<>> = t
        BY DEF Texts
      <4> QED BY <4>1, <4>2
    <3>t. PICK t : t = file[e].text
      OBVIOUS
    <3>2. CASE file[e].inline
      <4>1. said[e] = t \o <<>> /\ f.inline /\ f.text = Append(t, n)
        BY <1>7, <2>2, <3>t, <3>2
      <4>2. t \in Texts /\ Append(t, n) \in Texts
        BY <1>3, <1>4, <3>t, TextsClosed
      <4>3. \A x \in Texts : x \o <<>> = x
        BY <1>4, <3>1
      <4> QED BY <4>1, <4>2, <4>3
    <3>3. CASE ~file[e].inline
      <4>1. said[e] = t \o spill[e] /\ ~f.inline /\ f.text = t /\ s = Append(spill[e], n)
        BY <1>7, <1>s, <2>2, <3>t, <3>3
      <4>2. Append(t \o spill[e], n) = t \o Append(spill[e], n)
        BY <1>4, <3>t, <3>1
      <4> QED BY <4>1, <4>2
    <3> QED BY <3>2, <3>3
  <2> QED BY <1>1, <1>2, <1>3, <1>7, <1>8, <2>1, <2>3, <2>4, <2>5 DEF ViewOf
<1>13. PhaseInv' /\ RecordsInv' /\ ClosedInv'
  BY <1>1, <1>2 DEF StoreViewInv, PhaseInv, RecordsInv, RecordOK, PlanOK, ClosedInv, NoneMayBe, Holding
<1>14. WriteStage'
  BY <1>1, <1>2, <1>3, <1>5, <1>6, <1>7, <1>8 DEF WriteStage
<1>15. PieceWritten'
  <2>1. \A t \in Texts : EndsIn(Append(t, n), n) /\ Len(Append(t, n)) - 1 = Len(t)
    BY <1>3 DEF Texts, EndsIn
  <2>2. IF f.inline THEN EndsIn(f.text, n) ELSE EndsIn(s, n) /\ b = Len(s) - 1
    BY <1>4, <1>7, <1>b, <1>s, <2>1
  <2> QED BY <1>5, <1>6, <1>8, <2>2 DEF PieceWritten, EndsIn
<1>16. file'[e].stamp < o.n
  BY <1>1, <1>3, <1>5, <1>7, <1>8, <1>e, <1>n DEF CallOK, Writes
<1> QED BY <1>1, <1>2, <1>e, <1>n, <1>3, <1>5, <1>6, <1>8, <1>9, <1>10, <1>11, <1>12, <1>13, <1>14, <1>15, <1>16,
           HeldType2, WriteGoes

LEMMA SaidType ==
  ASSUME StoreViewInv, queue # <<>>, Writes(Op), Say(Op.entry, Op.n)
  PROVE  said' \in [Entries -> Texts \cup {None}]
<1>1. Append(said[Op.entry], Op.n) \in Texts /\ <<Op.n>> \in Texts /\ Op.entry \in Entries
  BY WriteFacts, TextsClosed
<1>2. PICK t \in Texts : said' = [said EXCEPT ![Op.entry] = t]
  BY <1>1 DEF Say
<1> QED BY <1>1, <1>2 DEF StoreViewInv, TypeOK, ToldType

LEMMA NodeSavedView ==
  ASSUME StoreViewInv, NodeSaved
  PROVE  StoreViewInv'
<1>1. /\ phase = "up" /\ queue # <<>> /\ Writes(Op) /\ Op.at = "node" /\ TypeOK
      /\ node' = [revision |-> held.revision, closed |-> FALSE] /\ Ends /\ Say(Op.entry, Op.n) /\ safe' = said'
      /\ UNCHANGED <<file, spill, archives, journal, phase, held, failing, writes, faults, over>>
  BY DEF NodeSaved, Running, Op, Writes, StoreViewInv
<1>2. UNCHANGED <<archive, archived, promised, attempted, stray>>
  BY <1>1 DEF archives, journal
<1>3. node' \in Nodes /\ ~node'.closed
  BY <1>1, HeldType2 DEF Nodes
<1>4. TypeOK'
  <2>1. queue' \in Seq(Requests) /\ said' \in [Entries -> Texts \cup {None}]
    BY <1>1, EndsType, SaidType
  <2> QED BY <1>1, <1>2, <1>3, <2>1 DEF TypeOK, DiskType, ArchiveType, RecordType, MemoryType, CallsType, ToldType
<1>5. RecordsInv' /\ ClosedInv'
  BY <1>1, <1>2, <1>3 DEF StoreViewInv, RecordsInv, RecordOK, PlanOK, ClosedInv, Holding
<1> QED BY <1>1, <1>2, <1>4, <1>5, WriteEnds

LEMMA RecordIs ==
  ASSUME StoreViewInv, queue # <<>>, Writes(Op), Op.at \in {"journal", "put"}
  PROVE  /\ Record \in Records /\ Record # None /\ RecordOK(Record)
         /\ \A e \in Entries : PlanOK(Record.retained[e])
         /\ Record.retained = held.retained
<1>1. Record.retained = held.retained
  BY DEF Record
<1>2. held.retained[Op.entry] # None /\ Op.entry \in Entries
  BY WriteFacts DEF StoreViewInv, StageInv, WriteStage, Begun
<1>3. Holding(held.retained) # {} /\ \A e \in Entries : PlanOK(held.retained[e])
  BY <1>2 DEF Holding, StoreViewInv, RecordsInv
<1>4. Record \in Records
  BY HeldType2 DEF Record, Records, StoreViewInv
<1> QED BY <1>1, <1>3, <1>4, NoneAssumption DEF RecordOK

LEMMA HoldSafeView ==
  ASSUME StoreViewInv, HoldSafe
  PROVE  StoreViewInv'
<1>1. /\ phase = "up" /\ queue # <<>> /\ Writes(Op) /\ Op.at = "put" /\ TypeOK
      /\ promised' = Record /\ attempted' = {} /\ stray' = {}
      /\ Ends /\ Say(Op.entry, Op.n) /\ safe' = said'
      /\ UNCHANGED <<disk, archives, phase, held, failing, writes, faults, over>>
  BY DEF HoldSafe, Journal!AcknowledgeOf, Running, Op, Writes, StoreViewInv
<1>2. UNCHANGED <<node, file, spill, archive, archived>>
  BY <1>1 DEF archives, disk
<1>r. PICK r : r = Record
  OBVIOUS
<1>3. /\ r \in Records /\ r # None /\ Holding(r.retained) # {} /\ \A e \in Entries : PlanOK(r.retained[e])
      /\ promised' = r
  BY <1>1, <1>r, RecordIs DEF RecordOK
<1>4. TypeOK'
  <2>1. queue' \in Seq(Requests) /\ said' \in [Entries -> Texts \cup {None}]
    BY <1>1, EndsType, SaidType
  <2> QED BY <1>1, <1>2, <1>3, <2>1 DEF TypeOK, DiskType, ArchiveType, RecordType, MemoryType, CallsType, ToldType, Nodes
<1>5. RecordsInv' /\ ClosedInv'
  BY <1>1, <1>2, <1>3 DEF StoreViewInv, RecordsInv, RecordOK, PlanOK, ClosedInv, NoneMayBe, Holding
<1> QED BY <1>1, <1>2, <1>4, <1>5, WriteEnds

LEMMA HoldUnsafeView ==
  ASSUME StoreViewInv, HoldUnsafe
  PROVE  StoreViewInv'
<1>1. /\ phase = "up" /\ queue # <<>> /\ Writes(Op) /\ Op.at \in {"journal", "put"} /\ TypeOK
      /\ Ends /\ Say(Op.entry, Op.n) /\ faults' = faults + 1 /\ faults < MaxFaults
      /\ UNCHANGED <<disk, archives, journal, phase, held, failing, writes, safe, over>>
  BY DEF HoldUnsafe, Refused, Running, Op, Writes, StoreViewInv
<1>2. UNCHANGED <<node, file, spill, archive, archived, promised, attempted, stray>>
  BY <1>1 DEF archives, disk, journal
<1>3. TypeOK'
  <2>1. queue' \in Seq(Requests) /\ said' \in [Entries -> Texts \cup {None}]
    BY <1>1, EndsType, SaidType
  <2>2. faults' \in 0 .. MaxFaults
    BY <1>1, ConstantsOK DEF TypeOK, CallsType
  <2> QED BY <1>1, <1>2, <2>1, <2>2 DEF TypeOK, DiskType, ArchiveType, RecordType, MemoryType, CallsType, ToldType, Nodes
<1>4. RecordsInv' /\ ClosedInv'
  BY <1>1, <1>2 DEF StoreViewInv, RecordsInv, RecordOK, PlanOK, ClosedInv, NoneMayBe, Holding
<1> QED BY <1>1, <1>2, <1>3, <1>4, WriteEnds

LEMMA HoldRecordedView ==
  ASSUME StoreViewInv, HoldRecorded
  PROVE  StoreViewInv'
<1>1. /\ phase = "up" /\ queue # <<>> /\ Writes(Op) /\ Op.at = "journal" /\ TypeOK
      /\ attempted' \subseteq attempted \cup {Record} /\ Goes("put")
      /\ UNCHANGED <<disk, archives, promised, stray, phase, held, failing, writes, faults, told, over>>
  BY DEF HoldRecorded, Journal!AttemptOf, Running, Op, Writes, StoreViewInv
<1>2. UNCHANGED <<node, file, spill, archive, archived, said, safe>>
  BY <1>1 DEF archives, disk, told
<1>e. PICK e : e = Op.entry
  OBVIOUS
<1>o. PICK o : o = [Op EXCEPT !.at = "put"]
  OBVIOUS
<1>r. PICK r : r = Record
  OBVIOUS
<1>3. /\ r \in Records /\ r # None /\ Holding(r.retained) # {} /\ \A d \in Entries : PlanOK(r.retained[d])
      /\ attempted' \subseteq attempted \cup {r}
  BY <1>1, <1>r, RecordIs DEF RecordOK
<1>4. o \in Requests /\ o.kind = "write" /\ o.entry = e /\ o.n = Op.n /\ o.at = "put"
  BY <1>1, <1>e, <1>o, OpAt DEF Writes
<1>5. queue' = <<o>> \o Tail(queue) /\ Op' = o /\ queue' # <<>> /\ queue' \in Seq(Requests)
  BY <1>1, <1>4, <1>o, HeadIs DEF Goes
<1>6. /\ e \in Entries /\ CallOK(Op) /\ held.retained[e] # None /\ ~held.closed
      /\ (archive # None => archive.revision < held.revision)
  BY <1>1, <1>e, WriteFacts DEF StoreViewInv, StageInv, WriteStage, Begun
<1>7. TypeOK'
  <2>1. RecordType'
    BY <1>1, <1>3 DEF TypeOK, RecordType
  <2> QED BY <1>1, <1>2, <1>5, <2>1 DEF TypeOK, DiskType, ArchiveType, MemoryType, CallsType, ToldType, Nodes
<1>8. \A d \in Entries : SameEntry(d) /\ FilesOf(d)'
  BY <1>1, <1>2 DEF SameEntry, StoreViewInv, FilesInv, FilesOf
<1>9. ViewOf(e)'
  <2>1. Meant(e)' = Meant(e)
    BY <1>1, <1>2, <1>4, <1>5, <1>e DEF Meant, Shows, Writes
  <2> QED BY <1>1, <1>2, <1>6, <1>8, <2>1, ViewFrame DEF StoreViewInv, ViewInv
<1>10. RecordsInv' /\ ClosedInv' /\ PhaseInv'
  <2>1. ASSUME NEW c \in {promised'} \cup attempted'
        PROVE  RecordOK(c)' /\ (c # None => \A d \in Entries : PlanOK(c.retained[d])')
    <3>1. c \in {promised} \cup attempted \/ c = r
      BY <1>1, <1>3
    <3>2. RecordOK(c) /\ (c # None => \A d \in Entries : PlanOK(c.retained[d]))
      BY <1>3, <3>1 DEF StoreViewInv, RecordsInv, RecordOK
    <3> QED BY <1>1, <3>2 DEF RecordOK, PlanOK, Holding
  <2>2. RecordsInv'
    BY <1>1, <2>1 DEF StoreViewInv, RecordsInv, PlanOK
  <2>3. NoneMayBe' => NoneMayBe
    BY <1>1, <1>3 DEF NoneMayBe
  <2> QED BY <1>1, <1>2, <2>2, <2>3 DEF StoreViewInv, PhaseInv, ClosedInv, Holding, Kept, IsWhole
<1>11. WriteStage' /\ PieceWritten'
  BY <1>1, <1>2, <1>4, <1>5, <1>6 DEF WriteStage, PieceWritten
<1>12. file'[e] # None => file'[e].stamp < o.n
  BY <1>1, <1>2, <1>4, <1>6, <1>e DEF CallOK, Writes
<1> QED BY <1>1, <1>2, <1>e, <1>4, <1>5, <1>6, <1>7, <1>8, <1>9, <1>10, <1>11, <1>12, HeldType2, WriteGoes

LEMMA WriteRefusedView ==
  ASSUME StoreViewInv, WriteRefused
  PROVE  StoreViewInv'
<1>1. /\ phase = "up" /\ queue # <<>> /\ Writes(Op) /\ Op.at \in {"initial", "entry", "words", "node"} /\ TypeOK
      /\ faults' = faults + 1 /\ faults < MaxFaults
      /\ UNCHANGED <<node, file, archives, journal, phase, writes, told, over>>
  BY DEF WriteRefused, Refused, Writes, StoreViewInv
<1>2. /\ ~held.closed /\ Op.entry \in Entries /\ Op.n \in Pieces
      /\ Op.at = "words" => Op.entry \in held.files /\ held.known
  <2>1. ~held.closed /\ Op.entry \in Entries /\ Op.n \in Pieces
    BY <1>1, WriteFacts DEF StoreViewInv, StageInv, WriteStage, Begun
  <2>2. Op.at = "words" => file[Op.entry] # None /\ held.known
    BY <1>1 DEF StoreViewInv, StageInv, WriteStage, Begun
  <2> QED BY <1>1, <2>1, <2>2 DEF StoreViewInv, ViewInv, ViewOf
<1>3. faults' \in 0 .. MaxFaults /\ held.revision \in Nat
  BY <1>1, ConstantsOK, HeldType2 DEF TypeOK, CallsType
<1>4. CASE UNCHANGED spill /\ Hold(held)
  <2>1. held' = [held EXCEPT !.revision = held.revision, !.retained[Op.entry] = RestOf(Op.bytes),
                             !.files = @ \cup {Op.entry}, !.known = TRUE]
    BY <1>1, <1>4, HeldType2, RestIs DEF Hold, Memory
  <2> QED BY <1>1, <1>2, <1>3, <1>4, <2>1, WriteHeld DEF Hold
<1>5. ASSUME Op.at = "words", ~file[Op.entry].inline, NEW part \in {<<>>, <<Torn>>, <<Op.n>>},
             spill' = [spill EXCEPT ![Op.entry] = @ \o part],
             held' = [held EXCEPT !.retained[Op.entry] = Rest([Op EXCEPT !.bytes = Len(spill[Op.entry])])],
             failing' = TRUE, Goes("journal")
      PROVE  StoreViewInv'
  <2>b. PICK b : b = Len(spill[Op.entry])
    OBVIOUS
  <2>1. part \in Texts
    BY <1>2, TextsClosed DEF Pieces
  <2>2. held' = [held EXCEPT !.retained[Op.entry] = RestOf(b)]
    BY <1>1, <1>5, <2>b, RestIs
  <2>3. held' = [held EXCEPT !.revision = held.revision, !.retained[Op.entry] = RestOf(b),
                             !.files = @ \cup {Op.entry}, !.known = TRUE]
    <3>1. held.files = held.files \cup {Op.entry} /\ held.known = TRUE
      BY <1>1, <1>2, <1>5, HeldType2
    <3> QED BY <1>1, <2>2, <3>1, HeldType2 DEF Memory
  <2> QED BY <1>1, <1>2, <1>3, <1>5, <2>b, <2>1, <2>3, WriteHeld
<1> QED BY <1>4, <1>5 DEF WriteRefused
-----------------------------------------------------------------------------
(* The steps of a retry.                                                   *)

\* It goes on: what it saves is what is held.
LEMMA RetryGoes ==
  ASSUME StoreViewInv, phase = "up", queue # <<>>, IsRetry(Op), TypeOK',
         NEW o \in Requests, queue' = <<o>> \o Tail(queue), o.kind = "retry",
         UNCHANGED <<archive, archived, held, phase, failing, writes, said>>,
         \A e \in Entries : held.retained[e] = None => SameEntry(e),
         \A e \in Entries : FilesOf(e)', ~held.closed => \A e \in Entries : ViewOf(e)',
         RecordsInv', ClosedInv', RetryStage'
  PROVE  StoreViewInv'
<1>1. OthersKeep
  BY DEF OthersKeep, IsRetry, Touches, SameEntry
<1>2. CallOK(o)'
  BY DEF CallOK, Touches, Writes
<1>3. QueueInv' /\ Op' = o /\ queue' # <<>>
  <2>1. ByWindow(o) = ByWindow(Op) /\ (Touches(o) => Touches(Op))
    BY DEF ByWindow, Touches, IsRetry
  <2>2. Touches(o) => o.entry = Op.entry
    BY DEF Touches
  <2> QED BY <1>1, <1>2, <2>1, <2>2, QueueGoes DEF StoreViewInv
<1>4. FilesInv' /\ ViewInv'
  BY DEF FilesInv, ViewInv
<1>5. PhaseInv' /\ ArchiveInv'
  BY DEF StoreViewInv, PhaseInv, Holding, ArchiveInv, Kept, IsWhole
<1>6. StageInv'
  BY <1>3 DEF StageInv, WriteStage, PieceWritten, OtherStage, Writes
<1> QED BY <1>3, <1>4, <1>5, <1>6 DEF StoreViewInv

LEMMA NotMeant ==
  ASSUME NEW e, queue # <<>>, ~Writes(Op)
  PROVE  Meant(e) = said[e]
BY DEF Meant, Shows

LEMMA RetryStartsView ==
  ASSUME StoreViewInv, RetryStarts
  PROVE  StoreViewInv'
<1>o. PICK o : o = [Op EXCEPT !.at = "entries", !.left = Holding(held.retained)]
  OBVIOUS
<1>1. /\ phase = "up" /\ queue # <<>> /\ IsRetry(Op) /\ TypeOK /\ queue' = <<o>> \o Tail(queue)
      /\ node' = [revision |-> held.revision, closed |-> held.closed]
      /\ UNCHANGED <<file, spill, archives, journal, phase, held, failing, writes, faults, told, over>>
  BY <1>o DEF RetryStarts, Running, Op, IsRetry, StoreViewInv
<1>2. UNCHANGED <<archive, archived, promised, attempted, stray, said, safe>>
  BY <1>1 DEF archives, journal, told
<1>3. o \in Requests /\ o.kind = "retry" /\ o.at = "entries" /\ o.left = Holding(held.retained)
  <2>1. Holding(held.retained) \in SUBSET Entries
    BY DEF Holding
  <2> QED BY <1>1, <1>o, <2>1, OpType DEF Requests, IsRetry
<1>4. Op' = o /\ queue' # <<>> /\ queue' \in Seq(Requests)
  BY <1>1, <1>3, HeadIs
<1>5. node' \in Nodes /\ node'.closed = held.closed
  BY <1>1, HeldType2 DEF Nodes
<1>6. TypeOK'
  BY <1>1, <1>2, <1>4, <1>5 DEF TypeOK, DiskType, ArchiveType, RecordType, MemoryType, CallsType, ToldType
<1>7. \A e \in Entries : SameEntry(e) /\ FilesOf(e)'
  BY <1>1 DEF SameEntry, StoreViewInv, FilesInv, FilesOf
<1>8. ASSUME ~held.closed, NEW e \in Entries PROVE ViewOf(e)'
  <2>1. Meant(e) = said[e] /\ Meant(e)' = said[e]
    BY <1>1, <1>2, <1>3, <1>4 DEF Meant, Shows, Writes, IsRetry
  <2> QED BY <1>1, <1>2, <1>7, <1>8, <2>1, ViewFrame DEF StoreViewInv, ViewInv
<1>9. RecordsInv' /\ ClosedInv'
  BY <1>1, <1>2, <1>5 DEF StoreViewInv, RecordsInv, RecordOK, PlanOK, ClosedInv, Holding
<1>10. RetryStage'
  BY <1>1, <1>3, <1>4, <1>5 DEF RetryStage, Holding
<1> QED BY <1>1, <1>2, <1>3, <1>6, <1>7, <1>8, <1>9, <1>10, RetryGoes

\* What a retry makes of an entry is held is a file like the others.
LEMMA MadeFile ==
  ASSUME TypeOK, FilesInv, NEW e \in Entries, NEW r \in Held, PlanOK(r), r # None
  PROVE  LET f == Materialized(e, r)
         IN  /\ f \in Files /\ f.inline /\ f.stamp <= writes
             /\ IF r.plan = None THEN f.text = r.text ELSE f.stamp = r.plan.stamp
<1> DEFINE f == Materialized(e, r)
<1>1. /\ r.text \in Texts /\ (r.plan = None \/ r.plan \in Plans)
      /\ (r.plan # None => r.plan.stamp <= writes)
  BY DEF PlanOK, Held
<1>2. 0 \in 0 .. MaxWrites /\ 0 <= writes
  BY ConstantsOK DEF TypeOK, CallsType
<1>3. CASE r.plan = None
  <2>1. f = [text |-> r.text, inline |-> TRUE, stamp |-> 0]
    BY <1>3 DEF Materialized
  <2> HIDE DEF f
  <2>2. f \in Files
    BY <1>1, <1>2, <2>1 DEF Files
  <2> QED BY <1>1, <1>2, <1>3, <2>1, <2>2 DEF f
<1>4. CASE r.plan # None
  <2>p. PICK p : p = r.plan
    OBVIOUS
  <2>1. /\ p \in Plans /\ p.text \in Texts /\ p.base \in Nat /\ p.stamp \in 1 .. MaxWrites
        /\ p.stamp <= writes /\ p.bytes \in Nat \cup {None} /\ p # None
    BY <1>1, <1>4, <2>p DEF Plans
  <2>2. Source(e).text \in Texts /\ spill[e] \in Texts /\ (file[e] # None => Source(e) = file[e] /\ file[e] \in Files)
        /\ (file[e] = None => Source(e) = NoFile)
    BY SourceType
  <2>3. CASE Source(e).stamp = p.stamp
    <3>1. f = Source(e)
      BY <1>4, <2>p, <2>3 DEF Materialized, Source
    <3>2. Source(e).stamp # 0 /\ file[e] # None
      BY <2>1, <2>2, <2>3, ConstantsOK DEF NoFile
    <3>3. Source(e) = file[e] /\ file[e].inline /\ file[e] \in Files
      BY <2>2, <3>2 DEF FilesInv, FilesOf
    <3> HIDE DEF f
    <3> QED BY <1>4, <2>1, <2>3, <2>p, <3>1, <3>3 DEF f
  <2>4. CASE Source(e).stamp # p.stamp
    <3>t. PICK t : t = Clipped(Source(e).text, p.base) \o Prefix(e, p) \o p.text
      OBVIOUS
    <3>1. f = [text |-> t, inline |-> TRUE, stamp |-> p.stamp]
      BY <1>4, <2>p, <2>4, <3>t DEF Materialized, Source
    <3>2. t \in Texts
      <4>1. Prefix(e, p) \in Texts
        BY <2>1, <2>2, ClipType, TextsClosed DEF Prefix
      <4>2. Clipped(Source(e).text, p.base) \in Texts
        BY <2>1, <2>2, ClipType
      <4>3. \A x, y, z \in Texts : x \o y \o z \in Texts
        BY DEF Texts
      <4> QED BY <2>1, <3>t, <4>1, <4>2, <4>3
    <3>3. p.stamp \in 0 .. MaxWrites
      BY <2>1, ConstantsOK
    <3> HIDE DEF f
    <3>4. f \in Files
      BY <3>1, <3>2, <3>3 DEF Files
    <3> QED BY <1>4, <2>1, <2>p, <3>1, <3>4 DEF f
  <2> QED BY <2>3, <2>4
<1> QED BY <1>3, <1>4

\* An entry a retry has made shows as it did while it was held.
LEMMA MadeShows ==
  ASSUME NEW e, held.retained[e] # None, Made(e)
  PROVE  Shown(held.retained, e) = file[e].text
BY DEF Made, Shown, Materialized

LEMMA RetrySavesView ==
  ASSUME StoreViewInv, NEW e \in Entries, RetrySaves(e)
  PROVE  StoreViewInv'
<1>o. PICK o : o = [Op EXCEPT !.at = "unlink", !.entry = e]
  OBVIOUS
<1>r. PICK r : r = held.retained[e]
  OBVIOUS
<1>f. PICK f : f = Materialized(e, r)
  OBVIOUS
<1>1. /\ phase = "up" /\ queue # <<>> /\ IsRetry(Op) /\ Op.at = "entries" /\ e \in Op.left /\ TypeOK
      /\ queue' = <<o>> \o Tail(queue) /\ file' = [file EXCEPT ![e] = f]
      /\ UNCHANGED <<node, spill, archives, journal, phase, held, failing, writes, faults, told, over>>
  BY <1>o, <1>r, <1>f DEF RetrySaves, Running, Op, IsRetry, StoreViewInv
<1>2. UNCHANGED <<archive, archived, promised, attempted, stray, said, safe>>
  BY <1>1 DEF archives, journal, told
<1>3. /\ RetryStage /\ Begun(Op) /\ Op.left \subseteq Holding(held.retained) /\ r # None
      /\ (node # None => node.closed = held.closed)
      /\ \A d \in Holding(held.retained) \ Op.left : Made(d)
  BY <1>1, <1>r DEF StoreViewInv, StageInv, RetryStage, Begun, Holding
<1>4. o \in Requests /\ o.kind = "retry" /\ o.at = "unlink" /\ o.entry = e /\ o.left = Op.left
  BY <1>1, <1>o, OpType DEF Requests, IsRetry
<1>5. Op' = o /\ queue' # <<>> /\ queue' \in Seq(Requests)
  BY <1>1, <1>4, HeadIs
<1>6. /\ f \in Files /\ f # None /\ f.inline /\ f.stamp <= writes
      /\ IF r.plan = None THEN f.text = r.text ELSE f.stamp = r.plan.stamp
  <2>1. r \in Held /\ PlanOK(r)
    BY <1>1, <1>r, <1>3, HeldType2 DEF StoreViewInv, RecordsInv
  <2> QED BY <1>f, <1>1, <1>3, <2>1, MadeFile, NoneAssumption DEF StoreViewInv
<1>7. file' \in [Entries -> Files \cup {None}] /\ file'[e] = f /\ \A d \in Entries : d # e => file'[d] = file[d]
  BY <1>1, <1>6 DEF TypeOK, DiskType
<1>8. TypeOK'
  BY <1>1, <1>2, <1>5, <1>7 DEF TypeOK, DiskType, ArchiveType, RecordType, MemoryType, CallsType, ToldType, Nodes
<1>9. \A d \in Entries : d # e => SameEntry(d)
  BY <1>1, <1>7 DEF SameEntry
<1>10. \A d \in Entries : FilesOf(d)'
  <2> SUFFICES ASSUME NEW d \in Entries PROVE FilesOf(d)'
    OBVIOUS
  <2>1. FilesOf(d)
    BY DEF StoreViewInv, FilesInv
  <2> QED BY <1>1, <1>6, <1>7, <2>1 DEF FilesOf
<1>11. Made(e)'
  BY <1>1, <1>r, <1>6, <1>7 DEF Made
<1>12. Shown(held.retained, e) = f.text
  BY <1>r, <1>f, <1>3 DEF Shown
<1>13. ASSUME ~held.closed, NEW d \in Entries PROVE ViewOf(d)'
  <2>1. Meant(d) = said[d] /\ Meant(d)' = said[d]
    BY <1>1, <1>2, <1>4, <1>5 DEF Meant, Shows, Writes, IsRetry
  <2>2. ViewOf(d)
    BY <1>1, <1>13 DEF StoreViewInv, ViewInv
  <2>3. CASE d # e
    BY <1>1, <1>2, <1>9, <2>1, <2>2, <2>3, ViewFrame
  <2>4. CASE d = e
    <3>1. Shown(held.retained, e)' = file'[e].text
      BY <1>1, <1>r, <1>3, <1>11 DEF Made, Shown, Materialized
    <3> QED BY <1>1, <1>2, <1>r, <1>3, <1>6, <1>7, <1>12, <2>1, <2>2, <2>4, <3>1 DEF ViewOf
  <2> QED BY <2>3, <2>4
<1>14. RecordsInv' /\ ClosedInv'
  BY <1>1, <1>2 DEF StoreViewInv, RecordsInv, RecordOK, PlanOK, ClosedInv, NoneMayBe, Holding
<1>15. RetryStage'
  <2>1. \A d \in Holding(held.retained) \ o.left : Made(d)'
    <3> SUFFICES ASSUME NEW d \in Holding(held.retained) \ o.left PROVE Made(d)'
      OBVIOUS
    <3>1. Made(d) /\ d # e /\ d \in Entries
      BY <1>1, <1>3, <1>4 DEF Holding
    <3> QED BY <1>1, <1>7, <3>1 DEF Made
  <2>2. Holding(held.retained)' = Holding(held.retained) /\ e \in Holding(held.retained)
    BY <1>1, <1>r, <1>3 DEF Holding
  <2> QED BY <1>1, <1>3, <1>4, <1>5, <1>11, <2>1, <2>2 DEF RetryStage
<1>16. \A d \in Entries : held.retained[d] = None => SameEntry(d)
  BY <1>r, <1>3, <1>9
<1> QED BY <1>1, <1>2, <1>4, <1>8, <1>10, <1>13, <1>14, <1>15, <1>16, RetryGoes

LEMMA RetryUnlinksView ==
  ASSUME StoreViewInv, RetryUnlinks
  PROVE  StoreViewInv'
<1>e. PICK e : e = Op.entry
  OBVIOUS
<1>o. PICK o : o = [Op EXCEPT !.at = "entries", !.left = @ \ {e}]
  OBVIOUS
<1>1. /\ phase = "up" /\ queue # <<>> /\ IsRetry(Op) /\ Op.at = "unlink" /\ TypeOK
      /\ queue' = <<o>> \o Tail(queue) /\ spill' = [spill EXCEPT ![e] = <<>>]
      /\ UNCHANGED <<node, file, archives, journal, phase, held, failing, writes, faults, told, over>>
  BY <1>e, <1>o DEF RetryUnlinks, Running, Op, IsRetry, StoreViewInv
<1>2. UNCHANGED <<archive, archived, promised, attempted, stray, said, safe>>
  BY <1>1 DEF archives, journal, told
<1>3. /\ RetryStage /\ Begun(Op) /\ Op.left \subseteq Holding(held.retained) /\ held.retained[e] # None
      /\ (node # None => node.closed = held.closed) /\ Made(e) /\ e \in Entries
      /\ \A d \in Holding(held.retained) \ Op.left : Made(d)
  BY <1>1, <1>e DEF StoreViewInv, StageInv, RetryStage, Begun, Holding
<1>4. o \in Requests /\ o.kind = "retry" /\ o.at = "entries" /\ o.left = Op.left \ {e}
  <2>1. Op \in Requests /\ Op.left \ {e} \in SUBSET Entries
    BY <1>1, OpType DEF Requests
  <2> QED BY <1>1, <1>o, <2>1 DEF Requests, IsRetry
<1>5. Op' = o /\ queue' # <<>> /\ queue' \in Seq(Requests)
  BY <1>1, <1>4, HeadIs
<1>6. spill' \in [Entries -> Texts] /\ spill'[e] = <<>> /\ \A d \in Entries : d # e => spill'[d] = spill[d]
  BY <1>1, <1>3, TextsClosed DEF TypeOK, DiskType
<1>7. TypeOK'
  BY <1>1, <1>2, <1>5, <1>6 DEF TypeOK, DiskType, ArchiveType, RecordType, MemoryType, CallsType, ToldType, Nodes
<1>8. \A d \in Entries : d # e => SameEntry(d)
  BY <1>1, <1>6 DEF SameEntry
<1>9. \A d \in Entries : FilesOf(d)' /\ (Made(d) => Made(d)')
  BY <1>1, <1>6 DEF StoreViewInv, FilesInv, FilesOf, Made
<1>10. ASSUME ~held.closed, NEW d \in Entries PROVE ViewOf(d)'
  <2>1. Meant(d) = said[d] /\ Meant(d)' = said[d]
    BY <1>1, <1>2, <1>4, <1>5 DEF Meant, Shows, Writes, IsRetry
  <2>2. ViewOf(d)
    BY <1>1, <1>10 DEF StoreViewInv, ViewInv
  <2>3. CASE d # e
    BY <1>1, <1>2, <1>8, <2>1, <2>2, <2>3, ViewFrame
  <2>4. CASE d = e
    <3>1. Shown(held.retained, e)' = file'[e].text /\ Shown(held.retained, e) = file[e].text
      BY <1>1, <1>3, <1>9 DEF Made, Shown, Materialized
    <3> QED BY <1>1, <1>2, <1>3, <2>1, <2>2, <2>4, <3>1 DEF ViewOf
  <2> QED BY <2>3, <2>4
<1>11. RecordsInv' /\ ClosedInv'
  BY <1>1, <1>2 DEF StoreViewInv, RecordsInv, RecordOK, PlanOK, ClosedInv, NoneMayBe, Holding
<1>12. RetryStage'
  <2>1. \A d \in Holding(held.retained) \ o.left : Made(d)'
    BY <1>3, <1>4, <1>9 DEF Holding
  <2>2. Holding(held.retained)' = Holding(held.retained) /\ o.left \subseteq Holding(held.retained)
    BY <1>1, <1>3, <1>4 DEF Holding
  <2> QED BY <1>1, <1>3, <1>4, <1>5, <2>1, <2>2 DEF RetryStage
<1>13. \A d \in Entries : held.retained[d] = None => SameEntry(d)
  BY <1>3, <1>8
<1> QED BY <1>1, <1>2, <1>4, <1>7, <1>9, <1>10, <1>11, <1>12, <1>13, RetryGoes

LEMMA RetryClearsView ==
  ASSUME StoreViewInv, RetryClears
  PROVE  StoreViewInv'
<1>o. PICK o : o = [Op EXCEPT !.at = "remove"]
  OBVIOUS
<1>1. /\ phase = "up" /\ queue # <<>> /\ IsRetry(Op) /\ Op.at = "entries" /\ Op.left = {} /\ TypeOK
      /\ queue' = <<o>> \o Tail(queue) /\ attempted' = attempted \cup {None} /\ UNCHANGED promised
      /\ UNCHANGED <<disk, archives, stray, phase, held, failing, writes, faults, told, over>>
  BY <1>o DEF RetryClears, Goes, Running, Op, IsRetry, StoreViewInv, Journal!AttemptOf
<1>2. UNCHANGED <<node, file, spill, archive, archived, said, safe>>
  BY <1>1 DEF archives, disk, told
<1>3. /\ RetryStage /\ Begun(Op) /\ (node # None => node.closed = held.closed)
      /\ \A d \in Holding(held.retained) \ Op.left : Made(d)
  BY <1>1 DEF StoreViewInv, StageInv, RetryStage, Begun
<1>4. o \in Requests /\ o.kind = "retry" /\ o.at = "remove" /\ o.left = {}
  BY <1>1, <1>o, OpAt DEF IsRetry
<1>5. Op' = o /\ queue' # <<>> /\ queue' \in Seq(Requests)
  BY <1>1, <1>4, HeadIs
<1>6. TypeOK'
  BY <1>1, <1>2, <1>5 DEF TypeOK, DiskType, ArchiveType, RecordType, MemoryType, CallsType, ToldType, Nodes
<1>7. \A e \in Entries : SameEntry(e) /\ FilesOf(e)' /\ (Made(e) => Made(e)')
  BY <1>1, <1>2 DEF SameEntry, StoreViewInv, FilesInv, FilesOf, Made
<1>8. ASSUME ~held.closed, NEW e \in Entries PROVE ViewOf(e)'
  <2>1. Meant(e) = said[e] /\ Meant(e)' = said[e]
    BY <1>1, <1>2, <1>4, <1>5 DEF Meant, Shows, Writes, IsRetry
  <2> QED BY <1>1, <1>2, <1>7, <1>8, <2>1, ViewFrame DEF StoreViewInv, ViewInv
<1>9. RecordsInv' /\ ClosedInv'
  BY <1>1, <1>2, <1>3 DEF StoreViewInv, RecordsInv, RecordOK, PlanOK, ClosedInv, Holding
<1>10. RetryStage'
  BY <1>1, <1>2, <1>3, <1>4, <1>5, <1>7 DEF RetryStage, Holding
<1> QED BY <1>1, <1>2, <1>4, <1>6, <1>7, <1>8, <1>9, <1>10, RetryGoes

LEMMA StageFree ==
  ASSUME queue' # <<>> => ~Begun(Op')
  PROVE  StageInv' /\ \A e : Meant(e)' = said'[e]
BY DEF StageInv, WriteStage, PieceWritten, RetryStage, OtherStage, Begun, Writes, Meant, Shows

\* Everything held is in the files, and is let go.
LEMMA RetrySavedView ==
  ASSUME StoreViewInv, phase = "up", queue # <<>>, IsRetry(Op), Begun(Op), Op.left = {}, Saved,
         promised' \in {promised, None}, attempted' \subseteq attempted, stray' \subseteq attempted
  PROVE  StoreViewInv'
<1>1. /\ TypeOK /\ held' = [held EXCEPT !.retained = NothingHeld] /\ failing' = FALSE /\ Ends /\ safe' = said
      /\ UNCHANGED <<node, file, spill, archive, archived, phase, writes, faults, said, over>>
  BY DEF Saved, disk, archives, StoreViewInv
<1>2. /\ (node # None => node.closed = held.closed) /\ \A e \in Holding(held.retained) : Made(e)
  BY DEF StoreViewInv, StageInv, RetryStage
<1>3. NothingHeld \in [Entries -> Held \cup {None}] /\ \A e \in Entries : NothingHeld[e] = None
  BY DEF NothingHeld
<1>4. /\ held'.retained = NothingHeld /\ held'.revision = held.revision /\ held'.closed = held.closed
      /\ held'.known = held.known /\ held'.files = held.files /\ held' \in Memory
  <2>1. held' = [known |-> held.known, closed |-> held.closed, revision |-> held.revision,
                 files |-> held.files, retained |-> NothingHeld]
    BY <1>1, HeldType2 DEF Memory
  <2>2. held' \in Memory
    <3>1. PICK m : m = NothingHeld
      OBVIOUS
    <3>2. m \in [Entries -> Held \cup {None}]
      BY <1>3, <3>1
    <3>3. held' = [known |-> held.known, closed |-> held.closed, revision |-> held.revision,
                   files |-> held.files, retained |-> m]
      BY <2>1, <3>1
    <3> QED BY <1>1, <3>2, <3>3, HeldType2 DEF Memory
  <2> QED BY <2>1, <2>2
<1>5. TypeOK'
  <2>1. queue' \in Seq(Requests)
    BY <1>1, EndsType
  <2>2. RecordType'
    BY <1>1 DEF TypeOK, RecordType
  <2> QED BY <1>1, <1>4, <2>1, <2>2 DEF TypeOK, DiskType, ArchiveType, MemoryType, CallsType, ToldType, Nodes
<1>6. OthersKeep
  BY <1>1, <1>3, <1>4 DEF OthersKeep
<1>7. QueueInv' /\ (queue' # <<>> => ~Begun(Op'))
  BY <1>1, <1>6, QueueEnds DEF StoreViewInv
<1>8. FilesInv' /\ ArchiveInv'
  BY <1>1, <1>4 DEF StoreViewInv, FilesInv, FilesOf, ArchiveInv, IsWhole, Kept
<1>9. PhaseInv'
  <2>1. Holding(held.retained)' = {}
    BY <1>3, <1>4 DEF Holding
  <2>2. /\ ~held'.known => held'.files = {}
        /\ \A e \in Entries : said'[e] = None => e \in Lines
    BY <1>1, <1>4 DEF StoreViewInv, PhaseInv
  <2> QED BY <1>1, <2>1, <2>2 DEF PhaseInv
<1>10. RecordsInv'
  <2>1. \A e \in Entries : PlanOK(held.retained[e])'
    BY <1>3, <1>4 DEF PlanOK
  <2> QED BY <1>1, <2>1 DEF StoreViewInv, RecordsInv, RecordOK, PlanOK, Holding
<1>11. ClosedInv'
  BY <1>1, <1>2, <1>4 DEF ClosedInv
<1>12. ViewInv'
  <2> SUFFICES ASSUME ~held.closed, NEW e \in Entries PROVE ViewOf(e)'
    BY <1>1, <1>4 DEF ViewInv
  <2>1. ViewOf(e) /\ Meant(e) = said[e] /\ Meant(e)' = said[e]
    BY <1>1, <1>7, StageFree, NotMeant DEF StoreViewInv, ViewInv, IsRetry, Writes
  <2>2. CASE held.retained[e] # None
    <3>1. Made(e) /\ Shown(held.retained, e) = file[e].text /\ file[e] # None /\ file[e].inline /\ file[e] \in Files
      BY <1>1, <1>2, <2>2, MadeShows DEF Holding, Made, TypeOK, DiskType
    <3>2. Shown(held.retained, e)' = file[e].text \o <<>>
      BY <1>1, <1>3, <1>4, <3>1 DEF Shown
    <3>3. file[e].text \o <<>> = file[e].text
      BY <3>1 DEF Files, Texts
    <3> QED BY <1>1, <1>4, <2>1, <2>2, <3>1, <3>2, <3>3 DEF ViewOf
  <2>3. CASE held.retained[e] = None
    <3>1. SameEntry(e)
      BY <1>1, <1>3, <1>4, <2>3 DEF SameEntry
    <3> QED BY <1>1, <1>4, <2>1, <3>1, ViewFrame
  <2> QED BY <2>2, <2>3
<1> QED BY <1>5, <1>7, <1>8, <1>9, <1>10, <1>11, <1>12, StageFree DEF StoreViewInv

LEMMA RetryEndsView ==
  ASSUME StoreViewInv, RetryEnds \/ RetryEndsWithoutRecord
  PROVE  StoreViewInv'
<1>1. /\ phase = "up" /\ queue # <<>> /\ IsRetry(Op) /\ Begun(Op) /\ Saved
      /\ promised' \in {promised, None} /\ attempted' \subseteq attempted /\ stray' \subseteq attempted
  BY DEF RetryEnds, RetryEndsWithoutRecord, Journal!AcknowledgeOf, Running, Op, IsRetry, Begun
<1>2. Op.left = {}
  <2>1. CASE RetryEnds
    BY <1>1, <2>1 DEF RetryEnds, Running, Op, StoreViewInv, StageInv, RetryStage
  <2>2. CASE RetryEndsWithoutRecord
    BY <2>2 DEF RetryEndsWithoutRecord
  <2> QED BY <2>1, <2>2
<1> QED BY <1>1, <1>2, RetrySavedView

\* A refused retry, or call of the window, ends.
LEMMA RefusedView ==
  ASSUME StoreViewInv, RetryRefused \/ WindowCallRefused
  PROVE  StoreViewInv'
<1>1. /\ phase = "up" /\ queue # <<>> /\ ~Writes(Op) /\ Ends /\ faults' = faults + 1 /\ faults < MaxFaults
      /\ UNCHANGED <<disk, archives, journal, phase, held, failing, writes, told, over>>
  BY DEF RetryRefused, WindowCallRefused, Refused, Writes
<1>2. UNCHANGED <<node, file, spill, archive, archived, promised, attempted, stray, said, safe>>
  BY <1>1 DEF disk, archives, journal, told
<1>3. TypeOK'
  <2>1. faults' \in 0 .. MaxFaults
    BY <1>1, ConstantsOK DEF StoreViewInv, TypeOK, CallsType
  <2>2. queue' \in Seq(Requests)
    BY <1>1, EndsType DEF StoreViewInv
  <2> QED BY <1>1, <1>2, <2>1, <2>2 DEF StoreViewInv, TypeOK, DiskType, ArchiveType, RecordType, MemoryType,
                                         CallsType, ToldType, Nodes
<1>4. ArchiveInv'
  BY <1>1, <1>2 DEF StoreViewInv, ArchiveInv, IsWhole, Kept
<1> QED BY <1>1, <1>2, <1>3, <1>4, EndsQuietly
-----------------------------------------------------------------------------
(* The steps of the window's calls.                                        *)

\* What is shown is a text.
LEMMA ShownType ==
  ASSUME TypeOK, NEW e \in Entries
  PROVE  Shown(NothingHeld, e) \in Texts
<1>1. NothingHeld[e] = None
  BY DEF NothingHeld
<1>2. file[e] = None \/ file[e] \in Files
  BY DEF TypeOK, DiskType
<1>3. spill[e] \in Texts
  BY DEF TypeOK, DiskType
<1>4. CASE file[e] = None
  BY <1>1, <1>4, TextsClosed DEF Shown
<1>5. CASE file[e] # None
  <2>1. file[e].text \in Texts
    BY <1>2, <1>5 DEF Files
  <2>2. file[e].text \o <<>> \in Texts /\ file[e].text \o spill[e] \in Texts
    BY <1>3, <2>1 DEF Texts
  <2> QED BY <1>1, <1>5, <2>2 DEF Shown
<1> QED BY <1>4, <1>5

LEMMA StagedView ==
  ASSUME StoreViewInv, Staged \/ Cancelled
  PROVE  StoreViewInv'
<1>1. /\ phase = "up" /\ queue # <<>> /\ ByWindow(Op) /\ ~Writes(Op) /\ TypeOK /\ Ends
      /\ UNCHANGED <<disk, archived, journal, phase, held, failing, writes, faults, told, over>>
  BY DEF Staged, Cancelled, Running, Op, ByWindow, ByCapture, Writes, StoreViewInv
<1>2. UNCHANGED <<node, file, spill, promised, attempted, stray, said, safe>>
  BY <1>1 DEF disk, journal, told
<1>3. archive' = None \/ /\ archive' \in Archives /\ archive' # None /\ archive'.revision = held.revision
                         /\ ~held.closed => IsWhole(archive')
  <2>1. CASE archive' = None
    BY <2>1
  <2>2. CASE archive' # None
    <3>a. PICK a : a = archive'
      OBVIOUS
    <3>t. PICK t : t = [e \in Entries |-> Shown(NothingHeld, e)]
      OBVIOUS
    <3>1. a = [revision |-> held.revision, whole |-> ~failing, text |-> t]
      BY <2>2, <3>a, <3>t DEF Staged, Cancelled
    <3>2. t \in [Entries -> Texts]
      BY <1>1, <3>t, ShownType
    <3>3. a \in Archives
      <4>1. held.revision \in Nat /\ (~failing) \in BOOLEAN
        BY <1>1, HeldType2 DEF TypeOK, MemoryType
      <4> QED BY <3>1, <3>2, <4>1 DEF Archives
    <3>4. ASSUME ~held.closed, a.whole, NEW e \in Entries PROVE a.text[e] = TextOf(said[e])
      <4>1. ~failing
        BY <3>1, <3>4
      <4>2. held.retained[e] = None /\ NothingHeld[e] = None
        BY <1>1, <4>1, NothingIsHeld DEF NothingHeld
      <4>3. ViewOf(e) /\ Meant(e) = said[e]
        BY <1>1, <3>4, NotMeant DEF StoreViewInv, ViewInv
      <4>4. Shown(NothingHeld, e) = Shown(held.retained, e)
        BY <4>2 DEF Shown
      <4>5. CASE said[e] = None
        BY <3>1, <3>t, <4>2, <4>3, <4>5 DEF ViewOf, Shown, TextOf
      <4>6. CASE said[e] # None
        BY <3>1, <3>t, <4>3, <4>4, <4>6 DEF ViewOf, TextOf
      <4> QED BY <4>5, <4>6
    <3> QED BY <3>a, <3>1, <3>3, <3>4, NoneAssumption DEF IsWhole
  <2> QED BY <2>1, <2>2
<1>4. TypeOK'
  <2>1. queue' \in Seq(Requests)
    BY <1>1, EndsType
  <2> QED BY <1>1, <1>2, <1>3, <2>1 DEF TypeOK, DiskType, ArchiveType, RecordType, MemoryType, CallsType, ToldType, Nodes
<1>5. ArchiveInv'
  <2>1. held.revision <= held.revision
    BY <1>1, HeldType2
  <2> QED BY <1>1, <1>2, <1>3, <2>1 DEF StoreViewInv, ArchiveInv, IsWhole, Kept
<1> QED BY <1>1, <1>2, <1>4, <1>5, EndsQuietly

\* A call of the window goes on.
LEMMA WindowGoes ==
  ASSUME StoreViewInv, phase = "up", queue # <<>>, Op.kind \in {"rollback", "commit"}, TypeOK',
         Op.at \in {"called", "close"},
         NEW at \in {"unlink", "close", "sweep"}, Goes(at),
         UNCHANGED <<phase, writes, failing, said, promised, attempted, file, spill>>,
         held'.retained = held.retained, held'.known = held.known, held'.files = held.files,
         ~held'.closed => ~held.closed, ArchiveInv', ClosedInv', OtherStage'
  PROVE  StoreViewInv'
<1>o. PICK o : o = [Op EXCEPT !.at = at]
  OBVIOUS
<1>1. o \in Requests /\ o.kind = Op.kind /\ o.entry = Op.entry /\ o.at = at
  BY <1>o, OpAt DEF StoreViewInv
<1>2. queue' = <<o>> \o Tail(queue)
  BY <1>o DEF Goes
<1>3. ByWindow(Op) /\ ByWindow(o) /\ CallOK(Op)
  BY <1>1, OpType DEF ByWindow, ByCapture, StoreViewInv, QueueInv
<1>4. OthersKeep
  BY <1>3 DEF OthersKeep
<1>5. CallOK(o)'
  BY <1>1, <1>3 DEF CallOK, Touches, Writes
<1>6. QueueInv' /\ Op' = o /\ queue' # <<>>
  <2>1. Touches(o) => Touches(Op) /\ o.entry = Op.entry
    BY <1>1 DEF Touches
  <2> QED BY <1>1, <1>2, <1>3, <1>4, <1>5, <2>1, QueueGoes DEF StoreViewInv
<1>7. FilesInv' /\ PhaseInv' /\ RecordsInv'
  BY DEF StoreViewInv, FilesInv, FilesOf, PhaseInv, RecordsInv, RecordOK, PlanOK, Holding
<1>8. ViewInv'
  <2> SUFFICES ASSUME ~held.closed, NEW e \in Entries PROVE ViewOf(e)'
    BY DEF ViewInv
  <2>1. Meant(e) = said[e] /\ Meant(e)' = said[e]
    BY <1>1, <1>6 DEF Meant, Shows, Writes
  <2>2. SameEntry(e) /\ ViewOf(e)
    BY DEF SameEntry, StoreViewInv, ViewInv
  <2> QED BY <2>1, <2>2, ViewFrame
<1>9. StageInv'
  BY <1>1, <1>6 DEF StageInv, WriteStage, PieceWritten, RetryStage, Writes, IsRetry
<1> QED BY <1>6, <1>7, <1>8, <1>9 DEF StoreViewInv

LEMMA CommitStartsView ==
  ASSUME StoreViewInv, CommitStarts
  PROVE  StoreViewInv'
<1>1. /\ phase = "up" /\ queue # <<>> /\ Op.kind = "commit" /\ Op.at = "called" /\ TypeOK
      /\ UNCHANGED <<disk, journal, phase, held, failing, writes, faults, told, over>>
  BY DEF CommitStarts, Running, Op, StoreViewInv
<1>2. UNCHANGED <<node, file, spill, promised, attempted, stray, said, safe>>
  BY <1>1 DEF disk, journal, told
<1>3. CASE Ends /\ UNCHANGED archives
  <2>1. UNCHANGED <<archive, archived>>
    BY <1>3 DEF archives
  <2>2. queue' \in Seq(Requests)
    BY <1>1, <1>3, EndsType
  <2>3. TypeOK' /\ ArchiveInv'
    BY <1>1, <1>2, <2>1, <2>2 DEF TypeOK, DiskType, ArchiveType, RecordType, MemoryType, CallsType, ToldType, Nodes,
                                  StoreViewInv, ArchiveInv, IsWhole, Kept
  <2> QED BY <1>1, <1>2, <1>3, <2>1, <2>3, EndsQuietly DEF Writes
<1>4. CASE SameRevision /\ archived' = archived \cup {archive} /\ archive' = None /\ Goes("close")
  <2>1. archive # None /\ archive \in Archives
    BY <1>1, OpType DEF StoreViewInv, QueueInv, CallOK, TypeOK, ArchiveType
  <2>o. PICK o : o = [Op EXCEPT !.at = "close"]
    OBVIOUS
  <2>2. o \in Requests /\ o.kind = "commit" /\ o.at = "close"
    BY <1>1, <2>o, OpAt
  <2>3. queue' = <<o>> \o Tail(queue) /\ Op' = o /\ queue' # <<>> /\ queue' \in Seq(Requests)
    BY <1>1, <1>4, <2>2, <2>o, HeadIs DEF Goes
  <2>4. TypeOK'
    BY <1>1, <1>2, <1>4, <2>1, <2>3 DEF TypeOK, DiskType, ArchiveType, RecordType, MemoryType, CallsType, ToldType, Nodes
  <2>5. \E a \in archived' : IsWhole(a)
    <3>1. CASE held.closed
      BY <1>4, <3>1 DEF StoreViewInv, ArchiveInv, Kept
    <3>2. CASE ~held.closed
      BY <1>4, <2>1, <3>2 DEF StoreViewInv, ArchiveInv, SameRevision
    <3> QED BY <3>1, <3>2
  <2>6. Kept'
    BY <1>2, <2>5 DEF Kept, IsWhole
  <2>7. ArchiveInv' /\ ClosedInv' /\ OtherStage'
    BY <1>1, <1>2, <1>4, <2>2, <2>3, <2>6 DEF ArchiveInv, ClosedInv, NoneMayBe, OtherStage, StoreViewInv
  <2> QED BY <1>1, <1>2, <1>4, <2>4, <2>7, WindowGoes
<1> QED BY <1>3, <1>4 DEF CommitStarts

LEMMA CommitClosesView ==
  ASSUME StoreViewInv, CommitCloses
  PROVE  StoreViewInv'
<1>1. /\ phase = "up" /\ queue # <<>> /\ Op.kind = "commit" /\ Op.at = "close" /\ TypeOK
      /\ node' = [revision |-> held.revision, closed |-> TRUE] /\ held' = [held EXCEPT !.closed = TRUE] /\ Goes("sweep")
      /\ UNCHANGED <<file, spill, archives, journal, phase, failing, writes, faults, told, over>>
  BY DEF CommitCloses, Running, Op, StoreViewInv
<1>2. UNCHANGED <<archive, archived, promised, attempted, stray, said, safe>>
  BY <1>1 DEF archives, journal, told
<1>3. Kept /\ Kept'
  BY <1>1, <1>2 DEF StoreViewInv, StageInv, OtherStage, Begun, Kept, IsWhole
<1>o. PICK o : o = [Op EXCEPT !.at = "sweep"]
  OBVIOUS
<1>4. o \in Requests /\ o.kind = "commit" /\ o.at = "sweep"
  BY <1>1, <1>o, OpAt
<1>5. queue' = <<o>> \o Tail(queue) /\ Op' = o /\ queue' # <<>> /\ queue' \in Seq(Requests)
  BY <1>1, <1>4, <1>o, HeadIs DEF Goes
<1>6. /\ held'.retained = held.retained /\ held'.revision = held.revision /\ held'.closed = TRUE
      /\ held'.known = held.known /\ held'.files = held.files /\ held' \in Memory
  <2>1. held' = [known |-> held.known, closed |-> TRUE, revision |-> held.revision,
                 files |-> held.files, retained |-> held.retained]
    BY <1>1, HeldType2 DEF Memory
  <2>2. held' \in Memory
    BY <1>1, <2>1, HeldType2 DEF Memory
  <2> QED BY <2>1, <2>2
<1>7. node' \in Nodes
  BY <1>1, HeldType2 DEF Nodes
<1>8. TypeOK'
  BY <1>1, <1>2, <1>5, <1>6, <1>7 DEF TypeOK, DiskType, ArchiveType, RecordType, MemoryType, CallsType, ToldType
<1>9. ArchiveInv' /\ ClosedInv' /\ OtherStage'
  BY <1>1, <1>2, <1>3, <1>4, <1>5, <1>6 DEF ArchiveInv, ClosedInv, OtherStage, StoreViewInv
<1> QED BY <1>1, <1>2, <1>6, <1>8, <1>9, WindowGoes

LEMMA CommitSweepsView ==
  ASSUME StoreViewInv, CommitSweeps
  PROVE  StoreViewInv'
<1>1. /\ phase = "up" /\ queue # <<>> /\ Op.kind = "commit" /\ Op.at = "sweep" /\ TypeOK
      /\ file' = [e \in Entries |-> IF e \in held.files THEN None ELSE file[e]]
      /\ spill' = [e \in Entries |-> IF e \in held.files THEN <<>> ELSE spill[e]]
      /\ held' = [held EXCEPT !.files = {}] /\ Ends
      /\ UNCHANGED <<node, archives, journal, phase, failing, writes, faults, told, over>>
  BY DEF CommitSweeps, Running, Op, StoreViewInv
<1>2. UNCHANGED <<archive, archived, promised, attempted, stray, said, safe>>
  BY <1>1 DEF archives, journal, told
<1>3. held.closed
  BY <1>1 DEF StoreViewInv, StageInv, OtherStage, Begun
<1>4. /\ held'.retained = held.retained /\ held'.revision = held.revision /\ held'.closed = held.closed
      /\ held'.known = held.known /\ held'.files = {} /\ held' \in Memory
  <2>1. held' = [known |-> held.known, closed |-> held.closed, revision |-> held.revision,
                 files |-> {}, retained |-> held.retained]
    BY <1>1, HeldType2 DEF Memory
  <2>2. {} \in SUBSET Entries
    OBVIOUS
  <2>3. held' \in Memory
    BY <1>1, <2>1, <2>2, HeldType2 DEF Memory
  <2> QED BY <2>1, <2>3
<1>5. /\ file' \in [Entries -> Files \cup {None}] /\ spill' \in [Entries -> Texts]
      /\ \A e \in Entries : \/ file'[e] = None /\ spill'[e] = <<>>
                            \/ file'[e] = file[e] /\ spill'[e] = spill[e]
  <2>1. file \in [Entries -> Files \cup {None}] /\ spill \in [Entries -> Texts]
    BY <1>1 DEF TypeOK, DiskType
  <2> QED BY <1>1, <2>1, TextsClosed
<1>6. TypeOK'
  <2>1. queue' \in Seq(Requests)
    BY <1>1, EndsType
  <2> QED BY <1>1, <1>2, <1>4, <1>5, <2>1 DEF TypeOK, DiskType, ArchiveType, RecordType, MemoryType, CallsType,
                                              ToldType, Nodes
<1>7. OthersKeep
  BY <1>1, <1>2, <1>4, <1>5 DEF OthersKeep
<1>8. QueueInv' /\ (queue' # <<>> => ~Begun(Op'))
  BY <1>1, <1>7, QueueEnds DEF StoreViewInv
<1>9. FilesInv'
  <2> SUFFICES ASSUME NEW e \in Entries PROVE FilesOf(e)'
    BY DEF FilesInv
  <2> QED BY <1>1, <1>5 DEF StoreViewInv, FilesInv, FilesOf
<1>10. PhaseInv' /\ RecordsInv' /\ ArchiveInv' /\ ClosedInv' /\ ViewInv'
  BY <1>1, <1>2, <1>3, <1>4 DEF StoreViewInv, PhaseInv, RecordsInv, RecordOK, PlanOK, Holding, ArchiveInv, IsWhole,
                                Kept, ClosedInv, ViewInv
<1> QED BY <1>6, <1>8, <1>9, <1>10, StageFree DEF StoreViewInv

LEMMA RollbackStartsView ==
  ASSUME StoreViewInv, RollbackStarts
  PROVE  StoreViewInv'
<1>1. /\ phase = "up" /\ queue # <<>> /\ Op.kind = "rollback" /\ Op.at = "called" /\ TypeOK
      /\ UNCHANGED <<file, spill, archives, journal, phase, failing, writes, faults, told, over>>
  BY DEF RollbackStarts, Running, Op, StoreViewInv
<1>2. UNCHANGED <<file, spill, archive, archived, promised, attempted, stray, said, safe>>
  BY <1>1 DEF archives, journal, told
<1>3. CASE Ends /\ UNCHANGED <<held, node>>
  <2>1. UNCHANGED disk
    BY <1>1, <1>3 DEF disk
  <2>2. queue' \in Seq(Requests)
    BY <1>1, <1>3, EndsType
  <2>3. TypeOK' /\ ArchiveInv'
    BY <1>1, <1>2, <1>3, <2>2 DEF TypeOK, DiskType, ArchiveType, RecordType, MemoryType, CallsType, ToldType, Nodes,
                                  StoreViewInv, ArchiveInv, IsWhole, Kept
  <2> QED BY <1>1, <1>2, <1>3, <2>1, <2>3, EndsQuietly DEF Writes
<1>4. CASE /\ held' = [held EXCEPT !.revision = @ + 1] /\ Goes("unlink")
           /\ node' = [revision |-> held.revision + 1, closed |-> held.closed]
  <2>o. PICK o : o = [Op EXCEPT !.at = "unlink"]
    OBVIOUS
  <2>1. o \in Requests /\ o.kind = "rollback" /\ o.at = "unlink"
    BY <1>1, <2>o, OpAt
  <2>2. queue' = <<o>> \o Tail(queue) /\ Op' = o /\ queue' # <<>> /\ queue' \in Seq(Requests)
    BY <1>1, <1>4, <2>1, <2>o, HeadIs DEF Goes
  <2>3. /\ held'.retained = held.retained /\ held'.revision = held.revision + 1 /\ held'.closed = held.closed
        /\ held'.known = held.known /\ held'.files = held.files /\ held' \in Memory
        /\ held.revision + 1 \in Nat /\ held.revision \in Nat
    <3>1. held' = [known |-> held.known, closed |-> held.closed, revision |-> held.revision + 1,
                   files |-> held.files, retained |-> held.retained]
      BY <1>1, <1>4, HeldType2 DEF Memory
    <3>2. held.revision + 1 \in Nat /\ held.revision \in Nat
      BY <1>1, HeldType2
    <3> QED BY <1>1, <3>1, <3>2, HeldType2, MemoryIs
  <2>4. node' \in Nodes /\ node'.closed = held.closed
    BY <1>1, <1>4, <2>3, HeldType2 DEF Nodes
  <2>5. TypeOK'
    BY <1>1, <1>2, <2>2, <2>3, <2>4 DEF TypeOK, DiskType, ArchiveType, RecordType, MemoryType, CallsType, ToldType
  <2>6. archive # None => archive.revision \in Nat /\ archive.revision <= held.revision
    BY <1>1 DEF StoreViewInv, ArchiveInv, TypeOK, ArchiveType, Archives
  <2>7. archive # None => archive.revision < held'.revision /\ archive.revision # held'.revision
                          /\ archive.revision <= held'.revision
    BY <2>3, <2>6
  <2>8. ArchiveInv' /\ ClosedInv' /\ OtherStage'
    BY <1>1, <1>2, <2>1, <2>2, <2>3, <2>4, <2>7 DEF ArchiveInv, ClosedInv, OtherStage, Kept, IsWhole, StoreViewInv
  <2> QED BY <1>1, <1>2, <1>4, <2>3, <2>5, <2>8, WindowGoes
<1> QED BY <1>3, <1>4 DEF RollbackStarts

LEMMA RollbackEndsView ==
  ASSUME StoreViewInv, RollbackEnds
  PROVE  StoreViewInv'
<1>e. PICK e : e = Op.entry
  OBVIOUS
<1>1. /\ phase = "up" /\ queue # <<>> /\ Op.kind = "rollback" /\ Op.at = "unlink" /\ TypeOK /\ Ends
      /\ file' = [file EXCEPT ![e] = None] /\ held' = [held EXCEPT !.files = @ \ {e}]
      /\ UNCHANGED <<node, spill, archives, journal, phase, failing, writes, faults, over>>
      /\ IF held.closed THEN UNCHANGED told
         ELSE said' = [said EXCEPT ![e] = None] /\ safe' = [safe EXCEPT ![e] = None]
  BY <1>e DEF RollbackEnds, Running, Op, StoreViewInv
<1>2. UNCHANGED <<archive, archived, promised, attempted, stray>>
  BY <1>1 DEF archives, journal
<1>3. /\ CallOK(Op) /\ e \in Entries /\ e \in Lines /\ e \notin Stream /\ held.retained[e] = None
      /\ (archive # None => archive.revision < held.revision)
  <2>1. CallOK(Op) /\ (archive # None => archive.revision < held.revision)
    BY <1>1, OpType DEF StoreViewInv, QueueInv, StageInv, OtherStage, Begun
  <2>2. e \in Entries /\ e \in Lines /\ held.retained[e] = None
    BY <1>1, <1>e, <2>1 DEF CallOK, Touches
  <2> QED BY <2>1, <2>2, EntryKinds
<1>4. /\ held'.retained = held.retained /\ held'.revision = held.revision /\ held'.closed = held.closed
      /\ held'.known = held.known /\ held'.files = held.files \ {e} /\ held' \in Memory
  <2>f. PICK fs : fs = held.files \ {e}
    OBVIOUS
  <2>1. held' = [known |-> held.known, closed |-> held.closed, revision |-> held.revision,
                 files |-> fs, retained |-> held.retained]
    BY <1>1, <2>f, HeldType2 DEF Memory
  <2>2. fs \in SUBSET Entries
    BY <1>1, <2>f, HeldType2
  <2>3. held' \in Memory
    BY <1>1, <2>1, <2>2, HeldType2 DEF Memory
  <2> QED BY <2>f, <2>1, <2>3
<1>5. /\ file' \in [Entries -> Files \cup {None}] /\ file'[e] = None
      /\ \A d \in Entries : d # e => file'[d] = file[d]
  BY <1>1, <1>3 DEF TypeOK, DiskType
<1>6. /\ said' \in [Entries -> Texts \cup {None}] /\ safe' \in [Entries -> Texts \cup {None}]
      /\ \A d \in Entries : d # e => said'[d] = said[d]
      /\ IF held.closed THEN said' = said ELSE said'[e] = None
  BY <1>1, <1>3 DEF TypeOK, ToldType, told
<1>7. TypeOK'
  <2>1. queue' \in Seq(Requests)
    BY <1>1, EndsType
  <2> QED BY <1>1, <1>2, <1>4, <1>5, <1>6, <2>1 DEF TypeOK, DiskType, ArchiveType, RecordType, MemoryType, CallsType,
                                                    ToldType, Nodes
<1>8. OthersKeep
  <2>1. Touches(Op)
    BY <1>1 DEF Touches
  <2>2. ASSUME NEW d \in Entries, held.retained[d] = None, ~(Touches(Op) /\ Op.entry = d)
        PROVE  /\ held'.retained[d] = None /\ (file'[d] # None => file'[d] = file[d])
               /\ (said[d] # None => said'[d] # None)
    BY <1>4, <1>5, <1>6, <1>e, <2>1, <2>2
  <2> QED BY <1>1, <1>2, <2>2 DEF OthersKeep
<1>9. QueueInv' /\ (queue' # <<>> => ~Begun(Op'))
  BY <1>1, <1>8, QueueEnds DEF StoreViewInv
<1>10. FilesInv'
  <2> SUFFICES ASSUME NEW d \in Entries PROVE FilesOf(d)'
    BY DEF FilesInv
  <2>1. FilesOf(d)
    BY DEF StoreViewInv, FilesInv
  <2> QED BY <1>1, <1>3, <1>5, <2>1 DEF FilesOf
<1>11. PhaseInv'
  <2>1. \A d \in Entries : said'[d] = None => d \in Lines
    BY <1>3, <1>6 DEF StoreViewInv, PhaseInv
  <2>2. ~held.known => held'.files = {}
    BY <1>1, <1>4 DEF StoreViewInv, PhaseInv
  <2> QED BY <1>1, <1>2, <1>4, <2>1, <2>2 DEF StoreViewInv, PhaseInv, Holding
<1>12. RecordsInv' /\ ClosedInv'
  BY <1>1, <1>2, <1>4 DEF StoreViewInv, RecordsInv, RecordOK, PlanOK, Holding, ClosedInv, NoneMayBe
<1>13. ArchiveInv'
  <2>1. held.revision \in Nat /\ (archive # None => archive.revision \in Nat)
    BY <1>1, HeldType2 DEF TypeOK, ArchiveType, Archives
  <2> QED BY <1>1, <1>2, <1>3, <1>4, <1>6, <2>1 DEF StoreViewInv, ArchiveInv, IsWhole, Kept
<1>14. ViewInv'
  <2> SUFFICES ASSUME ~held.closed, NEW d \in Entries PROVE ViewOf(d)'
    BY <1>1, <1>4 DEF ViewInv
  <2>1. CASE d = e
    BY <1>3, <1>4, <1>5, <1>6, <2>1 DEF ViewOf
  <2>2. CASE d # e
    <3>1. SameEntry(d) /\ (d \in held'.files <=> d \in held.files) /\ ViewOf(d) /\ said'[d] = said[d]
      BY <1>1, <1>4, <1>5, <1>6, <2>2 DEF SameEntry, StoreViewInv, ViewInv
    <3>2. Meant(d)' = Meant(d)
      BY <1>1, <1>9, <3>1, StageFree, NotMeant DEF Writes
    <3> QED BY <3>1, <3>2, ViewFrame
  <2> QED BY <2>1, <2>2
<1> QED BY <1>7, <1>9, <1>10, <1>11, <1>12, <1>13, <1>14, StageFree DEF StoreViewInv
-----------------------------------------------------------------------------
(* The end of a process, and the next one.                                 *)

LEMMA NothingHeldType ==
  /\ NothingHeld \in [Entries -> Held \cup {None}] /\ \A e \in Entries : NothingHeld[e] = None
  /\ Holding(NothingHeld) = {} /\ \A e \in Entries : PlanOK(NothingHeld[e])
BY DEF NothingHeld, Holding, PlanOK

LEMMA UnloadedType ==
  /\ Unloaded \in Memory /\ ~Unloaded.known /\ ~Unloaded.closed /\ Unloaded.revision = 0
  /\ Unloaded.files = {} /\ Unloaded.retained = NothingHeld
<1>m. PICK m : m = NothingHeld
  OBVIOUS
<1>1. m \in [Entries -> Held \cup {None}]
  BY <1>m, NothingHeldType
<1>2. Unloaded = [known |-> FALSE, closed |-> FALSE, revision |-> 0, files |-> {}, retained |-> m]
  BY <1>m DEF Unloaded
<1>3. {} \in SUBSET Entries /\ 0 \in Nat
  OBVIOUS
<1>4. Unloaded \in Memory
  BY <1>1, <1>2, <1>3 DEF Memory
<1> QED BY <1>m, <1>2, <1>4

LEMMA DiesView ==
  ASSUME StoreViewInv, Dies
  PROVE  StoreViewInv'
<1>1. /\ TypeOK /\ phase' = "down" /\ UNCHANGED <<node, file, archived, promised, attempted, stray, writes, said, safe>>
      /\ held' = Unloaded /\ failing' = FALSE /\ queue' = <<>> /\ archive' = None /\ over' \subseteq Entries
      /\ faults' = faults + 1 /\ faults < MaxFaults
  BY DEF Dies, Refused, Journal!Stop, told, StoreViewInv
<1>2. /\ spill' \in [Entries -> Texts]
      /\ \A e \in Entries : spill'[e] # spill[e] => e \in Stream /\ file[e] # None
  <2>1. CASE spill' = spill
    BY <1>1, <2>1 DEF TypeOK, DiskType
  <2>2. ASSUME Running("write", "words"), NEW part \in {<<Torn>>, <<Op.n>>},
               spill' = [spill EXCEPT ![Op.entry] = @ \o part]
        PROVE  /\ spill' \in [Entries -> Texts]
               /\ \A e \in Entries : spill'[e] # spill[e] => e \in Stream /\ file[e] # None
    <3>1. queue # <<>> /\ Writes(Op) /\ Op.at = "words"
      BY <2>2 DEF Running, Op, Writes
    <3>2. Op.entry \in Stream /\ file[Op.entry] # None /\ Op.entry \in Entries /\ Op.n \in Pieces
      BY <3>1, WriteFacts DEF StoreViewInv, StageInv, WriteStage, Begun
    <3>3. spill \in [Entries -> Texts] /\ part \in Texts
      BY <1>1, <2>2, <3>2, TextsClosed DEF TypeOK, DiskType, Pieces
    <3>4. spill[Op.entry] \o part \in Texts
      BY <3>2, <3>3 DEF Texts
    <3> QED BY <2>2, <3>2, <3>3, <3>4
  <2> QED BY <2>1, <2>2 DEF Dies
<1>3. held' \in Memory /\ ~held'.closed /\ held'.revision = 0 /\ held'.retained = NothingHeld
  BY <1>1, UnloadedType
<1>4. TypeOK'
  <2>1. faults' \in 0 .. MaxFaults
    BY <1>1, ConstantsOK DEF TypeOK, CallsType
  <2>2. <<>> \in Seq(Requests)
    OBVIOUS
  <2> QED BY <1>1, <1>2, <1>3, <2>1, <2>2 DEF TypeOK, DiskType, ArchiveType, RecordType, MemoryType, CallsType,
                                              ToldType, Nodes
<1>5. QueueInv' /\ StageInv'
  BY <1>1 DEF QueueInv, StageInv
<1>6. FilesInv'
  BY <1>1, <1>2 DEF StoreViewInv, FilesInv, FilesOf
<1>7. PhaseInv' /\ ViewInv' /\ RecordsInv'
  BY <1>1, <1>3, NothingHeldType DEF StoreViewInv, PhaseInv, ViewInv, RecordsInv, RecordOK, PlanOK, Holding
<1>8. ArchiveInv'
  BY <1>1, <1>3 DEF ArchiveInv
<1>9. ClosedInv'
  <2>1. node # None /\ node.closed /\ NoneMayBe => Kept
    BY DEF StoreViewInv, ClosedInv, ArchiveInv
  <2> QED BY <1>1, <2>1 DEF ClosedInv, NoneMayBe, Kept, IsWhole
<1> QED BY <1>4, <1>5, <1>6, <1>7, <1>8, <1>9 DEF StoreViewInv

\* What the memory is made of when a process starts over the record c.
LEMMA RecoveredIs ==
  ASSUME StoreViewInv, NEW c \in {promised} \cup attempted
  PROVE  LET m == Recovered(c)
         IN  /\ m \in Memory
             /\ Holding(m.retained) # {} <=> c # None
             /\ m.closed <=> node # None /\ node.closed /\ c = None
             /\ m.known <=> node # None \/ c # None
             /\ \A e \in Entries : e \in m.files <=> file[e] # None \/ m.retained[e] # None
             /\ \A e \in Entries : PlanOK(m.retained[e])
             /\ m.files \subseteq Entries
<1>1. TypeOK /\ (c # None => c \in Records) /\ (c # None => Holding(c.retained) # {})
      /\ (c # None => \A e \in Entries : PlanOK(c.retained[e]))
  BY DEF StoreViewInv, TypeOK, RecordType, RecordsInv, RecordOK
<1>m. PICK m : m = Recovered(c)
  OBVIOUS
<1>s. PICK s : s = IF c = None THEN NothingHeld ELSE c.retained
  OBVIOUS
<1>2. s \in [Entries -> Held \cup {None}] /\ (Holding(s) # {} <=> c # None) /\ \A e \in Entries : PlanOK(s[e])
  BY <1>1, <1>s, NothingHeldType DEF Records
<1>t. PICK fs : fs = {e \in Entries : file[e] # None} \cup Holding(s)
  OBVIOUS
<1>v. PICK rev : rev = IF c # None THEN c.revision ELSE IF node = None THEN 0 ELSE node.revision
  OBVIOUS
<1>3. rev \in Nat /\ (node # None => node.closed \in BOOLEAN)
  BY <1>1, <1>v DEF TypeOK, DiskType, Records, Nodes
<1>4. fs \in SUBSET Entries /\ \A e \in Entries : e \in fs <=> file[e] # None \/ s[e] # None
  BY <1>t DEF Holding
<1>k. PICK k \in BOOLEAN : k = (node # None \/ c # None)
  OBVIOUS
<1>c. PICK d \in BOOLEAN : d = (node # None /\ node.closed /\ c = None)
  OBVIOUS
<1>5. m = [known |-> k, closed |-> d, revision |-> rev, files |-> fs, retained |-> s]
  <2>1. fs = {e \in Entries : file[e] # None} \cup (IF c = None THEN {} ELSE Holding(c.retained))
    BY <1>t, <1>s, NothingHeldType
  <2> QED BY <1>m, <1>s, <1>v, <1>k, <1>c, <2>1 DEF Recovered
<1>6. m \in Memory
  BY <1>2, <1>3, <1>4, <1>5, MemoryIs
<1>7. /\ m.closed <=> node # None /\ node.closed /\ c = None
      /\ m.known <=> node # None \/ c # None
      /\ m.files = fs /\ m.retained = s
  BY <1>5, <1>k, <1>c
<1> QED BY <1>2, <1>4, <1>6, <1>7, <1>m

\* What is held shows as a text, and as no file at all never.
LEMMA HeldShows ==
  ASSUME TypeOK, FilesInv, NEW e \in Entries, NEW m \in [Entries -> Held \cup {None}], PlanOK(m[e])
  PROVE  Shown(m, e) \in Texts /\ Shown(m, e) # None
<1>1. CASE m[e] = None
  <2>1. Shown(m, e) = Shown(NothingHeld, e)
    BY <1>1, NothingHeldType DEF Shown
  <2> QED BY <2>1, ShownType, NoneAssumption
<1>2. CASE m[e] # None
  <2>1. Materialized(e, m[e]) \in Files /\ Shown(m, e) = Materialized(e, m[e]).text
    BY <1>2, MadeFile DEF Shown
  <2>2. \A f \in Files : f.text \in Texts
    BY DEF Files
  <2> QED BY <2>1, <2>2, NoneAssumption
<1> QED BY <1>1, <1>2

LEMMA PreparedView ==
  ASSUME StoreViewInv, Discoverable, phase # "up", NEW c \in {promised} \cup attempted, Prepared(c),
         faults' \in 0 .. MaxFaults, queue' \in {<<>>, <<Call("retry", None, 0)>>},
         UNCHANGED <<disk, archives, writes, over>>
  PROVE  StoreViewInv'
<1>o. PICK o : o = Call("retry", None, 0)
  OBVIOUS
<1>m. PICK m : m = Recovered(c)
  OBVIOUS
<1>1. /\ TypeOK /\ promised' = c /\ attempted' = {} /\ stray' = {} /\ phase' = "up" /\ held' = m
      /\ failing' = (c # None) /\ UNCHANGED <<node, file, spill, archive, archived, writes, over>>
      /\ IF m.closed THEN UNCHANGED told
         ELSE /\ said' = [e \in Entries |-> IF said[e] # None \/ e \in m.files THEN Shown(m.retained, e) ELSE None]
              /\ safe' = said'
  BY <1>m DEF Prepared, Journal!RecoverOf, disk, archives, StoreViewInv
<1>2. /\ m \in Memory /\ (Holding(m.retained) # {} <=> c # None)
      /\ (m.closed <=> node # None /\ node.closed /\ c = None)
      /\ (m.known <=> node # None \/ c # None)
      /\ \A e \in Entries : e \in m.files <=> file[e] # None \/ m.retained[e] # None
      /\ \A e \in Entries : PlanOK(m.retained[e])
      /\ m.files \subseteq Entries
  BY <1>m, RecoveredIs
<1>3. m.retained \in [Entries -> Held \cup {None}]
  BY <1>2 DEF Memory
<1>4. \A e \in Entries : Shown(m.retained, e) \in Texts /\ Shown(m.retained, e) # None
  BY <1>1, <1>2, <1>3, HeldShows DEF StoreViewInv
<1>5. o \in Requests /\ o.kind = "retry" /\ o.at = "called" /\ queue' \in {<<>>, <<o>>} /\ queue' \in Seq(Requests)
      /\ (queue' # <<>> => queue' = <<o>> /\ Op' = o)
  <2>1. o \in Requests /\ o.kind = "retry" /\ o.at = "called"
    BY <1>o, ConstantsOK DEF Call, Requests
  <2>2. queue' \in {<<>>, <<o>>} /\ <<>> \in Seq(Requests) /\ <<o>> \in Seq(Requests) /\ Head(<<o>>) = o
    BY <1>o, <2>1
  <2> QED BY <2>1, <2>2 DEF Op
<1>6. /\ said' \in [Entries -> Texts \cup {None}] /\ safe' \in [Entries -> Texts \cup {None}]
      /\ \A e \in Entries : said'[e] = None => said[e] = None
      /\ IF m.closed THEN said' = said
         ELSE \A e \in Entries : IF said[e] # None \/ e \in m.files THEN said'[e] = Shown(m.retained, e)
                                                                   ELSE said'[e] = None
  <2>1. CASE m.closed
    BY <1>1, <2>1 DEF TypeOK, ToldType, told
  <2>2. CASE ~m.closed
    BY <1>1, <1>4, <2>2
  <2> QED BY <2>1, <2>2
<1>7. TypeOK'
  <2>1. RecordType'
    BY <1>1 DEF TypeOK, RecordType
  <2> QED BY <1>1, <1>2, <1>5, <1>6, <2>1 DEF TypeOK, DiskType, ArchiveType, MemoryType, CallsType, ToldType, Nodes
<1>8. QueueInv'
  <2>1. \A i \in DOMAIN queue' : queue'[i] = o /\ i = 1
    BY <1>5
  <2>2. CallOK(o)' /\ ~Begun(o)
    BY <1>5 DEF CallOK, Touches, Writes, Begun
  <2>3. \A i \in DOMAIN queue' : CallOK(queue[i])' /\ (i # 1 => ~Begun(queue[i])')
    <3> SUFFICES ASSUME NEW i \in DOMAIN queue' PROVE CallOK(queue[i])' /\ (i # 1 => ~Begun(queue[i])')
      OBVIOUS
    <3>1. queue'[i] = o
      BY <2>1
    <3> QED BY <2>1, <2>2, <3>1 DEF CallOK, Touches, Writes, Begun
  <2> QED BY <2>1, <2>3 DEF QueueInv
<1>9. StageInv'
  BY <1>5 DEF StageInv, WriteStage, PieceWritten, RetryStage, OtherStage, Begun, Writes
<1>10. FilesInv'
  BY <1>1 DEF StoreViewInv, FilesInv, FilesOf
<1>11. PhaseInv'
  <2>1. ~m.known => m.files = {}
    BY <1>2 DEF Discoverable, Holding
  <2> QED BY <1>1, <1>2, <1>6, <2>1 DEF StoreViewInv, PhaseInv, Holding
<1>12. RecordsInv'
  <2>1. RecordOK(c) /\ (c # None => \A e \in Entries : PlanOK(c.retained[e]))
    BY DEF StoreViewInv, RecordsInv
  <2> QED BY <1>1, <1>2, <2>1 DEF RecordsInv, RecordOK, PlanOK, Holding
<1>13. ViewInv'
  <2> SUFFICES ASSUME ~m.closed, NEW e \in Entries PROVE ViewOf(e)'
    BY <1>1 DEF ViewInv
  <2>1. Shown(held.retained, e)' = Shown(m.retained, e)
    BY <1>1 DEF Shown, Materialized, Prefix
  <2>2. Meant(e)' = said'[e]
    BY <1>5 DEF Meant, Shows, Writes
  <2> QED BY <1>1, <1>2, <1>4, <1>6, <2>1, <2>2 DEF ViewOf
<1>14. ArchiveInv' /\ ClosedInv'
  <2>1. archive' = None
    BY <1>1 DEF StoreViewInv, PhaseInv
  <2>2. m.closed => Kept
    BY <1>2 DEF StoreViewInv, ClosedInv, NoneMayBe
  <2>3. m.closed => Kept'
    BY <1>1, <1>6, <2>2 DEF Kept, IsWhole
  <2> QED BY <1>1, <1>2, <2>1, <2>3 DEF ArchiveInv, ClosedInv, NoneMayBe
<1> QED BY <1>7, <1>8, <1>9, <1>10, <1>11, <1>12, <1>13, <1>14 DEF StoreViewInv

LEMMA ProcessView ==
  ASSUME StoreViewInv, Discoverable, Restarts \/ RestartsUnread \/ (phase # "up" /\ Retry)
  PROVE  StoreViewInv'
<1>1. CASE Restarts
  <2>1. PICK c \in {promised} \cup attempted : Prepared(c)
    BY <1>1 DEF Restarts
  <2>2. phase # "up" /\ queue = <<>> /\ UNCHANGED <<disk, archives, queue, writes, faults, over>>
    BY <1>1 DEF Restarts, StoreViewInv, PhaseInv
  <2>3. faults' \in 0 .. MaxFaults
    BY <2>2 DEF StoreViewInv, TypeOK, CallsType
  <2> QED BY <2>1, <2>2, <2>3, PreparedView
<1>2. CASE phase # "up" /\ Retry
  <2>1. PICK c \in {promised} \cup attempted :
          Prepared(c) /\ queue' = IF c = None THEN <<>> ELSE <<Call("retry", None, 0)>>
    BY <1>2 DEF Retry
  <2>2. UNCHANGED <<disk, archives, writes, faults, over>>
    BY <1>2 DEF Retry
  <2>3. faults' \in 0 .. MaxFaults
    BY <2>2 DEF StoreViewInv, TypeOK, CallsType
  <2> QED BY <1>2, <2>1, <2>2, <2>3, PreparedView
<1>3. CASE RestartsUnread
  <2>1. /\ TypeOK /\ phase = "down" /\ phase' = "unread" /\ failing' = TRUE /\ faults' = faults + 1 /\ faults < MaxFaults
        /\ UNCHANGED <<node, file, spill, archive, archived, promised, attempted, stray, held, queue, writes,
                       said, safe, over>>
    BY <1>3 DEF RestartsUnread, Refused, disk, archives, journal, told, StoreViewInv
  <2>2. TypeOK'
    <3>1. faults' \in 0 .. MaxFaults
      BY <2>1, ConstantsOK DEF TypeOK, CallsType
    <3> QED BY <2>1, <3>1 DEF TypeOK, DiskType, ArchiveType, RecordType, MemoryType, CallsType, ToldType, Nodes
  <2>3. queue = <<>> /\ archive = None
    BY <2>1 DEF StoreViewInv, PhaseInv
  <2>4. QueueInv' /\ StageInv'
    BY <2>1, <2>3 DEF QueueInv, StageInv
  <2>5. FilesInv' /\ PhaseInv' /\ RecordsInv' /\ ViewInv'
    BY <2>1, <2>3 DEF StoreViewInv, FilesInv, FilesOf, PhaseInv, RecordsInv, RecordOK, PlanOK, Holding, ViewInv
  <2>6. ArchiveInv' /\ ClosedInv'
    BY <2>1, <2>3 DEF StoreViewInv, ArchiveInv, ClosedInv, NoneMayBe, Kept, IsWhole
  <2> QED BY <2>2, <2>4, <2>5, <2>6 DEF StoreViewInv
<1> QED BY <1>1, <1>2, <1>3

LEMMA InitView == Init => StoreViewInv
<1> SUFFICES ASSUME Init PROVE StoreViewInv
  OBVIOUS
<1>1. /\ node = None /\ archive = None /\ archived = {} /\ promised = None /\ attempted = {} /\ stray = {}
      /\ phase = "up" /\ failing = FALSE /\ queue = <<>> /\ writes = 0 /\ faults = 0 /\ over = {}
      /\ safe = said /\ held = Unloaded
  BY DEF Init
<1>2. /\ \A e \in Entries : file[e] = None /\ spill[e] = <<>> /\ said[e] = <<>>
      /\ file \in [Entries -> Files \cup {None}] /\ spill \in [Entries -> Texts]
      /\ said \in [Entries -> Texts \cup {None}]
  BY TextsClosed DEF Init
<1>3. TypeOK
  <2>1. <<>> \in Seq(Requests) /\ 0 \in 0 .. MaxWrites /\ 0 \in 0 .. MaxFaults
    BY ConstantsOK
  <2> QED BY <1>1, <1>2, <2>1, UnloadedType DEF TypeOK, DiskType, ArchiveType, RecordType, MemoryType, CallsType, ToldType
<1>4. QueueInv /\ StageInv
  BY <1>1 DEF QueueInv, StageInv
<1>5. FilesInv
  BY <1>2 DEF FilesInv, FilesOf
<1>6. <<>> # None
  BY TextsClosed, NoneAssumption
<1>7. PhaseInv /\ RecordsInv
  BY <1>1, <1>2, <1>6, UnloadedType, NothingHeldType DEF PhaseInv, RecordsInv, RecordOK
<1>8. ViewInv
  BY <1>1, <1>2, <1>6, UnloadedType, NothingHeldType DEF ViewInv, ViewOf, Shown, Meant
<1>9. ArchiveInv /\ ClosedInv
  BY <1>1, UnloadedType DEF ArchiveInv, ClosedInv
<1> QED BY <1>3, <1>4, <1>5, <1>7, <1>8, <1>9 DEF StoreViewInv

LEMMA StutterView ==
  ASSUME StoreViewInv, UNCHANGED vars
  PROVE  StoreViewInv'
<1>1. /\ UNCHANGED <<node, file, spill, archive, archived, promised, attempted, visible, stray>>
      /\ UNCHANGED <<phase, held, failing, queue, writes, faults, said, safe, over>>
  BY DEF vars, disk, archives, journal, told
<1>2. DiskType' /\ ArchiveType' /\ RecordType' /\ MemoryType' /\ CallsType' /\ ToldType'
  BY <1>1 DEF StoreViewInv, TypeOK, DiskType, ArchiveType, RecordType, MemoryType, CallsType, ToldType
<1>3. QueueInv'
  BY <1>1 DEF StoreViewInv, QueueInv, CallOK
<1>4. FilesInv' /\ PhaseInv' /\ RecordsInv'
  BY <1>1 DEF StoreViewInv, FilesInv, FilesOf, PhaseInv, RecordsInv, PlanOK
<1>5. ViewInv'
  BY <1>1 DEF StoreViewInv, ViewInv, ViewOf, Shown, Materialized, Prefix, Meant, Shows, Op
<1>6. queue # <<>> => WriteStage' /\ PieceWritten' /\ OtherStage'
  BY <1>1 DEF StoreViewInv, StageInv, WriteStage, PieceWritten, OtherStage, Kept, IsWhole, Op
<1>7. queue # <<>> => RetryStage'
  BY <1>1 DEF StoreViewInv, StageInv, RetryStage, Made, Materialized, Prefix, Op
<1>8. ArchiveInv' /\ ClosedInv'
  BY <1>1 DEF StoreViewInv, ArchiveInv, ClosedInv, Kept, IsWhole, NoneMayBe
<1> QED BY <1>1, <1>2, <1>3, <1>4, <1>5, <1>6, <1>7, <1>8 DEF StoreViewInv, TypeOK, StageInv

LEMMA NextView == StoreViewInv /\ Discoverable /\ [Next]_vars => StoreViewInv'
<1> SUFFICES ASSUME StoreViewInv, Discoverable, [Next]_vars PROVE StoreViewInv'
  OBVIOUS
<1>1. CASE UNCHANGED vars
  BY <1>1, StutterView
<1>2. CASE CaptureWrites \/ WindowWrites
  BY <1>2, CapturesKeep, WindowWritesKeep
<1>3. CASE \/ \E e \in Lines : e \in held.files /\ said[e] # None /\ WindowAsks("rollback", e)
           \/ archive = None /\ WindowAsks("archive", None)
           \/ archive # None /\ \E kind \in {"commit", "cancel"} : WindowAsks(kind, None)
  <2>1. CASE \E e \in Lines : WindowAsks("rollback", e)
    BY <2>1, AsksKeep DEF Entries
  <2>2. CASE WindowAsks("archive", None)
    BY <2>2, AsksKeep
  <2>3. CASE archive # None /\ \E kind \in {"commit", "cancel"} : WindowAsks(kind, None)
    BY <2>3, AsksKeep
  <2> QED BY <1>3, <2>1, <2>2, <2>3
<1>4. CASE WriteSteps \/ WriteRefused \/ HoldUnsafe
  BY <1>4, WriteStartsView, InitialSavedView, EntrySavedView, WordsSavedView, NodeSavedView, HoldRecordedView,
     HoldSafeView, WriteRefusedView, HoldUnsafeView DEF WriteSteps
<1>5. CASE RetrySteps \/ RetryRefused \/ WindowCallRefused
  BY <1>5, RetryStartsView, RetrySavesView, RetryUnlinksView, RetryClearsView, RetryEndsView, RefusedView
     DEF RetrySteps
<1>6. CASE WindowSteps
  BY <1>6, RollbackStartsView, RollbackEndsView, StagedView, CommitStartsView, CommitClosesView, CommitSweepsView
     DEF WindowSteps
<1>7. CASE Retry \/ Dies \/ Restarts \/ RestartsUnread
  BY <1>7, RetryAsked, DiesView, ProcessView
<1> QED BY <1>1, <1>2, <1>3, <1>4, <1>5, <1>6, <1>7 DEF Next

LEMMA ViewAlways == Spec => []StoreViewInv
BY InitView, NextView, DiscoverableCorrect, PTL DEF Spec

\* The shape of the state, for any entries and any number of writes and faults.
THEOREM TypeCorrect == Spec => []TypeOK
<1>1. StoreViewInv => TypeOK
  BY DEF StoreViewInv
<1> QED BY <1>1, ViewAlways, PTL

\* Whatever was refused, torn, held, retried or recovered, and wherever a
\* process died: while no call is running, a reader is shown every accepted
\* piece of every entry once and in its order, and no line that was taken back.
THEOREM ShownCorrect == Spec => []ShowsWhatWasSaid
<1>1. StoreViewInv => ShowsWhatWasSaid
  BY DEF StoreViewInv, ShowsWhatWasSaid, Quiet, ViewInv, ViewOf, Meant
<1> QED BY <1>1, ViewAlways, PTL

\* A conversation is closed only after a copy of it was committed that has
\* every accepted word and no line that was taken back, if the copy was made
\* while storage was not refused; nothing that is done later, by this process
\* or a later one, makes that untrue.
THEOREM ArchiveCorrect == Spec => []CommittedArchiveIsWhole
<1>1. StoreViewInv => CommittedArchiveIsWhole
  BY DEF StoreViewInv, ArchiveInv, Kept, IsWhole, TextOf, CommittedArchiveIsWhole
<1> QED BY <1>1, ViewAlways, PTL
=============================================================================
