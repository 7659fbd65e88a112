-------------------------- MODULE NodeTranscriptStore --------------------------
(***************************************************************************)
(* One saved conversation: shell/node-transcript-store.cjs for one node,   *)
(* over the promise of its recovery journal (TranscriptRecoveryPromise).   *)
(*                                                                         *)
(* Every entry has a file of its own.  A whole entry is replaced by each   *)
(* write; a stream grows piece by piece in a second file beside it (its    *)
(* spill) and is rewritten in one file once it had to be held.  When the   *)
(* disk refuses a write, the words are held in memory and put into the     *)
(* journal, and a person's retry writes them; held pieces of a stream are  *)
(* a plan: how much of the files to keep, and the words to add.            *)
(*                                                                         *)
(* Calls on the node run one after another (queue).  The capture           *)
(* (shell/node-transcript-capture.cjs) writes what was accepted, at most   *)
(* one piece of each entry between two looks at the storage; the window    *)
(* writes, takes back and archives, one call at a time.  A process may die *)
(* between and within the calls; what it wrote stays.  The pieces of an    *)
(* entry are the numbers of the writes that brought them.                  *)
(***************************************************************************)
EXTENDS Naturals, Sequences, FiniteSets

CONSTANTS Stream,      \* entries the capture writes in pieces
          Noted,       \* entries the capture writes whole
          Lines,       \* entries the window writes, and may take back
          MaxWrites,   \* bound: writes of entries
          MaxFaults,   \* bound: refused file and journal calls, and deaths
          Torn,        \* part of a piece
          None, Nothing

Entries == Stream \cup Noted \cup Lines

ASSUME ConstantsOK ==
  /\ Stream \cap Noted = {} /\ Stream \cap Lines = {} /\ Noted \cap Lines = {}
  /\ MaxWrites \in Nat /\ MaxFaults \in Nat /\ Torn \notin Nat

(* What is kept of an entry: its files' texts, its held rest, the record.  *)
Pieces == (1 .. MaxWrites) \cup {Torn}
Texts == Seq(Pieces)
Files == [text : Texts, inline : BOOLEAN, stamp : 0 .. MaxWrites]
Plans == [stamp : 1 .. MaxWrites, bytes : Nat \cup {None}, inline : BOOLEAN, text : Texts, base : Nat]
Held == [text : Texts, plan : Plans \cup {None}]
Records == [revision : Nat, retained : [Entries -> Held \cup {None}]]
Archives == [revision : Nat, whole : BOOLEAN, text : [Entries -> Texts]]
Nodes == [revision : Nat, closed : BOOLEAN]

\* What is absent differs from everything that is there.
ASSUME NoneAssumption ==
  /\ None \notin Nat /\ None \notin Texts /\ None \notin Nodes /\ None \notin Files
  /\ None \notin Plans /\ None \notin Held /\ None \notin Records /\ None \notin Archives

VARIABLES
  node,      \* node.json: its revision and whether it is closed, or None
  file,      \* each entry's file: its text, whether that is all, and its stamp
  spill,     \* each entry's second file
  archive,   \* the staged archive whose receipt the window has, or None
  archived,  \* the committed archives
  promised, attempted, visible, \* the journal, as it promises: the held record
  phase,     \* down, unread (the journal could not be read) or up
  held,      \* the node's state in memory
  failing,   \* diskFailure
  queue,     \* the calls on this node, the first of them running
  writes, faults,
  said,      \* each entry as it was accepted until it closed, None once taken back
  safe,      \* what of it was answered as saved or recoverable
  over,      \* entries of sessions that ended with an earlier process
  stray      \* refused records that may be in the journal, and nobody removed

disk == <<node, file, spill>>
archives == <<archive, archived>>
journal == <<promised, attempted, visible, stray>>
told == <<said, safe>>
vars == <<disk, archives, journal, phase, held, failing, queue, writes, faults, told, over>>

Journal == INSTANCE TranscriptRecoveryPromise WITH Contents <- {}, Empty <- None
-----------------------------------------------------------------------------
(* Reading.                                                                *)

NothingHeld == [e \in Entries |-> None]
Unloaded == [known |-> FALSE, closed |-> FALSE, revision |-> 0, files |-> {}, retained |-> NothingHeld]

Holding(retained) == {e \in Entries : retained[e] # None}
NoFile == [text |-> <<>>, inline |-> FALSE, stamp |-> 0]

\* As much of s as there is of its first n.
Clipped(s, n) == SubSeq(s, 1, IF n < Len(s) THEN n ELSE Len(s))

\* The bytes before the append that failed, or all when it failed earlier.
Prefix(e, plan) ==
  IF plan.inline THEN <<>> ELSE IF plan.bytes = None THEN spill[e] ELSE Clipped(spill[e], plan.bytes)

\* Mutant: the file is not asked whether an earlier retry had already made it.
MaterializedAgain(e, r) ==
  LET source == IF file[e] = None THEN NoFile ELSE file[e]
  IN  IF r.plan = None THEN [text |-> r.text, inline |-> TRUE, stamp |-> 0]
      ELSE [text |-> Clipped(source.text, r.plan.base) \o Prefix(e, r.plan) \o r.plan.text,
            inline |-> TRUE, stamp |-> r.plan.stamp]

\* materializeRetained: the file a held entry is saved as; once only.
Materialized(e, r) ==
  LET source == IF file[e] = None THEN NoFile ELSE file[e]
  IN  IF r.plan = None THEN [text |-> r.text, inline |-> TRUE, stamp |-> 0]
      ELSE IF source.stamp = r.plan.stamp THEN source
      ELSE [text |-> Clipped(source.text, r.plan.base) \o Prefix(e, r.plan) \o r.plan.text,
            inline |-> TRUE, stamp |-> r.plan.stamp]

\* read: an entry as it is shown.
Shown(retained, e) ==
  IF retained[e] # None THEN Materialized(e, retained[e]).text
  ELSE IF file[e] = None THEN <<>>
  ELSE file[e].text \o (IF file[e].inline THEN <<>> ELSE spill[e])
-----------------------------------------------------------------------------
(* The queue of calls.                                                     *)

Call(kind, e, n) == [kind |-> kind, entry |-> e, n |-> n, at |-> "called", bytes |-> None, left |-> {}]
Running(kind, at) == phase = "up" /\ queue # <<>> /\ Head(queue).kind = kind /\ Head(queue).at = at
Op == Head(queue)
Goes(at) == queue' = <<[Op EXCEPT !.at = at]>> \o Tail(queue)
Ends == queue' = Tail(queue)

ByCapture(o) == o.kind = "write" /\ o.entry \notin Lines
ByWindow(o) == o.kind # "retry" /\ ~ByCapture(o)
Calling(test(_)) == \E i \in DOMAIN queue : test(queue[i])
IsRetry(o) == o.kind = "retry"

Refused == faults < MaxFaults /\ faults' = faults + 1

\* An append or appendText for each of these entries, in this order.
Called(entries) ==
  /\ writes + Len(entries) <= MaxWrites
  /\ writes' = writes + Len(entries)
  /\ queue' = queue \o [i \in DOMAIN entries |-> Call("write", entries[i], writes + i)]

\* One flight of the capture: its producers wait while storage is refused.
CaptureWrites ==
  /\ phase = "up" /\ ~failing /\ ~Calling(ByCapture)
  /\ \E e, f \in (Stream \cup Noted) \ over :
       \/ Called(<<e>>)
       \/ e # f /\ Called(<<e, f>>)
  /\ UNCHANGED <<disk, archives, journal, phase, held, failing, faults, told, over>>

\* What a window asks for is refused at once while storage is.
WindowMay == phase = "up" /\ ~failing /\ ~Calling(ByWindow)

WindowWrites ==
  /\ WindowMay
  /\ \E e \in Lines : said[e] # None /\ Called(<<e>>)
  /\ UNCHANGED <<disk, archives, journal, phase, held, failing, faults, told, over>>

WindowAsks(kind, e) ==
  /\ WindowMay /\ queue' = Append(queue, Call(kind, e, 0))
  /\ UNCHANGED <<disk, archives, journal, phase, held, failing, writes, faults, told, over>>
-----------------------------------------------------------------------------
(* A write: append, or appendText for a stream.                            *)

\* What a refused write leaves to be saved.
Rest(o) ==
  IF o.entry \notin Stream THEN [text |-> <<o.n>>, plan |-> None]
  ELSE LET source == IF file[o.entry] = None THEN NoFile ELSE file[o.entry]
       IN  [text |-> <<>>,
            plan |-> [stamp |-> o.n, bytes |-> o.bytes, inline |-> source.inline, text |-> <<o.n>>,
                      base |-> Len(source.text) - (IF o.at = "node" /\ source.inline THEN 1 ELSE 0)]]

Hold(state) ==
  /\ held' = [state EXCEPT !.retained[Op.entry] = Rest(Op), !.files = @ \cup {Op.entry}, !.known = TRUE]
  /\ failing' = TRUE
  /\ Goes("journal")

\* The task starts: closed, unsent, held at once, or on its way to the disk.
WriteStarts ==
  /\ Running("write", "called")
  /\ LET next == [held EXCEPT !.revision = @ + 1]
     IN  IF held.closed \/ (failing /\ Op.entry \in Lines)
         THEN Ends /\ UNCHANGED <<held, failing>>
         ELSE IF failing THEN Hold(next)
         ELSE /\ held' = next
              /\ Goes(IF ~held.known THEN "initial"
                      ELSE IF Op.entry \in Stream \cap held.files THEN "words" ELSE "entry")
              /\ UNCHANGED failing
  /\ UNCHANGED <<disk, archives, journal, phase, writes, faults, told, over>>

\* The first node.json, before any entry.
InitialSaved ==
  /\ Running("write", "initial")
  /\ node' = [revision |-> 0, closed |-> FALSE]
  /\ held' = [held EXCEPT !.known = TRUE]
  /\ Goes("entry")
  /\ UNCHANGED <<file, spill, archives, journal, phase, failing, writes, faults, told, over>>

\* A whole entry, or the empty beginning of a stream.
EntrySaved ==
  /\ Running("write", "entry")
  /\ file' = [file EXCEPT ![Op.entry] = [NoFile EXCEPT !.text = IF Op.entry \in Stream THEN <<>> ELSE <<Op.n>>]]
  /\ held' = [held EXCEPT !.files = @ \cup {Op.entry}]
  /\ Goes(IF Op.entry \in Stream THEN "words" ELSE "node")
  /\ UNCHANGED <<node, spill, archives, journal, phase, failing, writes, faults, told, over>>

\* A stream's piece, in its one file or at the end of the second.
WordsSaved ==
  /\ Running("write", "words")
  /\ IF file[Op.entry].inline
     THEN file' = [file EXCEPT ![Op.entry].text = Append(@, Op.n)] /\ UNCHANGED spill
     ELSE spill' = [spill EXCEPT ![Op.entry] = Append(@, Op.n)] /\ UNCHANGED file
  /\ queue' = <<[Op EXCEPT !.at = "node", !.bytes = IF file[Op.entry].inline THEN None ELSE Len(spill[Op.entry])]>>
              \o Tail(queue)
  /\ UNCHANGED <<node, archives, journal, phase, held, failing, writes, faults, told, over>>

\* The entry is as its writer meant it.
Say(e, n) ==
  said' = [said EXCEPT ![e] = IF e \in Stream THEN Append(@, n) ELSE <<n>>]

NodeSaved ==
  /\ Running("write", "node")
  /\ node' = [revision |-> held.revision, closed |-> FALSE]
  /\ Ends /\ Say(Op.entry, Op.n) /\ safe' = said'
  /\ UNCHANGED <<file, spill, archives, journal, phase, held, failing, writes, faults, over>>

\* A call of the write is refused; a refused append may leave part of its piece.
WriteRefused ==
  /\ phase = "up" /\ queue # <<>> /\ Op.kind = "write" /\ Op.at \in {"initial", "entry", "words", "node"}
  /\ Refused
  /\ \/ UNCHANGED spill /\ Hold(held)
     \/ /\ Op.at = "words" /\ ~file[Op.entry].inline
        /\ \E part \in {<<>>, <<Torn>>, <<Op.n>>} : spill' = [spill EXCEPT ![Op.entry] = @ \o part]
        /\ held' = [held EXCEPT !.retained[Op.entry] = Rest([Op EXCEPT !.bytes = Len(spill[Op.entry])])]
        /\ failing' = TRUE
        /\ Goes("journal")
  /\ UNCHANGED <<node, file, archives, journal, phase, writes, told, over>>

Record == [revision |-> held.revision, retained |-> held.retained]

\* hold: the journal is asked to keep what the node holds.
HoldRecorded ==
  /\ Running("write", "journal")
  /\ Journal!AttemptOf(Record) /\ Goes("put")
  /\ UNCHANGED <<disk, archives, phase, held, failing, writes, faults, told, over, stray>>

\* It has it, so it is recoverable, and the writer is answered.
HoldSafe ==
  /\ Running("write", "put")
  /\ Journal!AcknowledgeOf(Record)
  /\ Ends /\ Say(Op.entry, Op.n) /\ safe' = said' /\ stray' = {}
  /\ UNCHANGED <<disk, archives, phase, held, failing, writes, faults, over>>

\* It has not, or does not say: the words are in memory only.
HoldUnsafe ==
  /\ Running("write", "journal") \/ Running("write", "put")
  /\ Refused
  /\ Ends /\ Say(Op.entry, Op.n)
  /\ UNCHANGED <<disk, archives, journal, phase, held, failing, writes, safe, over>>
-----------------------------------------------------------------------------
(* Retry: node.json, every held entry, then the journal's record.          *)

Recovered(record) ==
  [known |-> node # None \/ record # None,
   closed |-> node # None /\ node.closed /\ record = None,
   revision |-> IF record # None THEN record.revision ELSE IF node = None THEN 0 ELSE node.revision,
   files |-> {e \in Entries : file[e] # None} \cup (IF record = None THEN {} ELSE Holding(record.retained)),
   retained |-> IF record = None THEN NothingHeld ELSE record.retained]

\* prepareRecovery: what the journal kept is held again.
Prepared(c) ==
  /\ Journal!RecoverOf(c) /\ c \in {promised} \cup attempted
  /\ held' = Recovered(c) /\ failing' = (c # None) /\ phase' = "up" /\ stray' = {}
  /\ IF held'.closed THEN UNCHANGED told
     ELSE /\ said' = [e \in Entries |-> IF said[e] # None \/ e \in held'.files
                                       THEN Shown(held'.retained, e) ELSE None]
          /\ safe' = said'

\* A person asks; a journal that could not be read is read first.
Retry ==
  /\ failing /\ ~Calling(IsRetry)
  /\ \/ phase = "up" /\ queue' = Append(queue, Call("retry", None, 0))
        /\ UNCHANGED <<journal, phase, held, failing, told>>
     \/ /\ phase = "unread"
        /\ \E c \in {promised} \cup attempted :
             Prepared(c) /\ queue' = IF c = None THEN <<>> ELSE <<Call("retry", None, 0)>>
  /\ UNCHANGED <<disk, archives, writes, faults, over>>

\* Mutant: the entries are saved without the node.json they are found by.
RetryStartsUnpublished ==
  /\ Running("retry", "called")
  /\ queue' = <<[Op EXCEPT !.at = "entries", !.left = Holding(held.retained)]>> \o Tail(queue)
  /\ UNCHANGED <<disk, archives, journal, phase, held, failing, writes, faults, told, over>>

RetryStarts ==
  /\ Running("retry", "called")
  /\ node' = [revision |-> held.revision, closed |-> held.closed]
  /\ queue' = <<[Op EXCEPT !.at = "entries", !.left = Holding(held.retained)]>> \o Tail(queue)
  /\ UNCHANGED <<file, spill, archives, journal, phase, held, failing, writes, faults, told, over>>

RetrySaves(e) ==
  /\ Running("retry", "entries") /\ e \in Op.left
  /\ file' = [file EXCEPT ![e] = Materialized(e, held.retained[e])]
  /\ queue' = <<[Op EXCEPT !.at = "unlink", !.entry = e]>> \o Tail(queue)
  /\ UNCHANGED <<node, spill, archives, journal, phase, held, failing, writes, faults, told, over>>

RetryUnlinks ==
  /\ Running("retry", "unlink")
  /\ spill' = [spill EXCEPT ![Op.entry] = <<>>]
  /\ queue' = <<[Op EXCEPT !.at = "entries", !.left = @ \ {Op.entry}]>> \o Tail(queue)
  /\ UNCHANGED <<node, file, archives, journal, phase, held, failing, writes, faults, told, over>>

\* The journal's record is removed, and then the memory is let go.
RetryClears ==
  /\ Running("retry", "entries") /\ Op.left = {} /\ visible # None
  /\ Journal!AttemptOf(None) /\ Goes("remove")
  /\ UNCHANGED <<disk, archives, phase, held, failing, writes, faults, told, over, stray>>

Saved ==
  /\ held' = [held EXCEPT !.retained = NothingHeld] /\ failing' = FALSE
  /\ Ends /\ safe' = said
  /\ UNCHANGED <<disk, archives, phase, writes, faults, said, over>>

RetryEnds ==
  /\ Running("retry", "remove")
  /\ Journal!AcknowledgeOf(None) /\ stray' = {}
  /\ Saved

\* A journal that never said it has the record is not written: remove answers
\* at once, and what a refused put may have left there stays.
RetryEndsWithoutRecord ==
  /\ Running("retry", "entries") /\ Op.left = {} /\ visible = None
  /\ stray' = attempted /\ UNCHANGED <<promised, attempted, visible>>
  /\ Saved

\* Mutant: a retry that was refused stays the retry every later one is given.
RetryRefusedForGood ==
  /\ phase = "up" /\ queue # <<>> /\ Op.kind = "retry"
  /\ Refused /\ Goes("over")
  /\ UNCHANGED <<disk, archives, journal, phase, held, failing, writes, told, over>>

\* Mutant: the memory is let go before every entry is saved.
RetryRefusedLetsGo ==
  /\ phase = "up" /\ queue # <<>> /\ Op.kind = "retry"
  /\ Refused /\ Ends
  /\ held' = [held EXCEPT !.retained = NothingHeld]
  /\ UNCHANGED <<disk, archives, journal, phase, failing, writes, told, over>>

RetryRefused ==
  /\ phase = "up" /\ queue # <<>> /\ Op.kind = "retry"
  /\ Refused /\ Ends
  /\ UNCHANGED <<disk, archives, journal, phase, held, failing, writes, told, over>>
-----------------------------------------------------------------------------
(* The window takes a line back, and archives the conversation.            *)

RollbackStarts ==
  /\ Running("rollback", "called")
  /\ IF Op.entry \in held.files
     THEN /\ held' = [held EXCEPT !.revision = @ + 1]
          /\ node' = [revision |-> held.revision + 1, closed |-> held.closed]
          /\ Goes("unlink")
     ELSE Ends /\ UNCHANGED <<held, node>>
  /\ UNCHANGED <<file, spill, archives, journal, phase, failing, writes, faults, told, over>>

RollbackEnds ==
  /\ Running("rollback", "unlink")
  /\ file' = [file EXCEPT ![Op.entry] = None]
  /\ held' = [held EXCEPT !.files = @ \ {Op.entry}]
  /\ IF held.closed THEN UNCHANGED told
     ELSE said' = [said EXCEPT ![Op.entry] = None] /\ safe' = [safe EXCEPT ![Op.entry] = None]
  /\ Ends
  /\ UNCHANGED <<node, spill, archives, journal, phase, failing, writes, faults, over>>

\* archive, staged: a copy of the files, and the revision it was made at.
Staged ==
  /\ Running("archive", "called")
  /\ archive' = IF held.known
                THEN [revision |-> held.revision, whole |-> ~failing, text |-> [e \in Entries |-> Shown(NothingHeld, e)]]
                ELSE None
  /\ Ends
  /\ UNCHANGED <<disk, archived, journal, phase, held, failing, writes, faults, told, over>>

\* Mutant: the conversation may have moved on.
SameRevisionUnasked == TRUE
SameRevision == held.revision = archive.revision

CommitStarts ==
  /\ Running("commit", "called")
  /\ IF SameRevision
     THEN archived' = archived \cup {archive} /\ archive' = None /\ Goes("close")
     ELSE Ends /\ UNCHANGED archives
  /\ UNCHANGED <<disk, journal, phase, held, failing, writes, faults, told, over>>

\* finishArchive: closed for good, and only then are the entries removed.
CommitCloses ==
  /\ Running("commit", "close")
  /\ node' = [revision |-> held.revision, closed |-> TRUE]
  /\ held' = [held EXCEPT !.closed = TRUE]
  /\ Goes("sweep")
  /\ UNCHANGED <<file, spill, archives, journal, phase, failing, writes, faults, told, over>>

CommitSweeps ==
  /\ Running("commit", "sweep")
  /\ file' = [e \in Entries |-> IF e \in held.files THEN None ELSE file[e]]
  /\ spill' = [e \in Entries |-> IF e \in held.files THEN <<>> ELSE spill[e]]
  /\ held' = [held EXCEPT !.files = {}]
  /\ Ends
  /\ UNCHANGED <<node, archives, journal, phase, failing, writes, faults, told, over>>

Cancelled ==
  /\ Running("cancel", "called")
  /\ archive' = None
  /\ Ends
  /\ UNCHANGED <<disk, archived, journal, phase, held, failing, writes, faults, told, over>>

\* A call of these is refused; what was done before it stays.
WindowCallRefused ==
  /\ phase = "up" /\ queue # <<>> /\ Op.kind \in {"rollback", "archive", "commit", "cancel"}
  /\ Refused /\ Ends
  /\ UNCHANGED <<disk, archives, journal, phase, held, failing, writes, told, over>>
-----------------------------------------------------------------------------
(* The end of a process, and the next one.                                 *)

Dies ==
  /\ phase # "down"
  /\ Refused
  /\ \/ UNCHANGED spill
     \/ /\ Running("write", "words") /\ ~file[Op.entry].inline
        /\ \E part \in {<<Torn>>, <<Op.n>>} : spill' = [spill EXCEPT ![Op.entry] = @ \o part]
  /\ Journal!Stop /\ phase' = "down" /\ UNCHANGED stray
  /\ held' = Unloaded /\ failing' = FALSE /\ queue' = <<>> /\ archive' = None
  /\ over' = Entries \ {e \in Entries : said[e] = <<>> /\ file[e] = None}
  /\ UNCHANGED <<node, file, archived, writes, told>>

Restarts ==
  /\ phase = "down"
  /\ \E c \in {promised} \cup attempted : Prepared(c)
  /\ UNCHANGED <<disk, archives, queue, writes, faults, over>>

\* The journal cannot be read: nothing more is taken on until it can.
RestartsUnread ==
  /\ phase = "down"
  /\ Refused
  /\ phase' = "unread" /\ failing' = TRUE
  /\ UNCHANGED <<disk, archives, journal, held, queue, writes, told, over>>
-----------------------------------------------------------------------------
Init ==
  /\ node = None /\ archive = None /\ archived = {}
  /\ file = [e \in Entries |-> None] /\ spill = [e \in Entries |-> <<>>]
  /\ promised = None /\ attempted = {} /\ visible = None
  /\ phase = "up" /\ held = Unloaded /\ failing = FALSE /\ queue = <<>>
  /\ writes = 0 /\ faults = 0
  /\ said = [e \in Entries |-> <<>>] /\ safe = said /\ over = {} /\ stray = {}

WriteSteps == WriteStarts \/ InitialSaved \/ EntrySaved \/ WordsSaved \/ NodeSaved \/ HoldRecorded \/ HoldSafe
RetrySteps == RetryStarts \/ (\E e \in Entries : RetrySaves(e)) \/ RetryUnlinks \/ RetryClears \/ RetryEnds \/ RetryEndsWithoutRecord
WindowSteps ==
  \/ RollbackStarts \/ RollbackEnds \/ Staged \/ CommitStarts \/ CommitCloses \/ CommitSweeps \/ Cancelled

Next ==
  \/ CaptureWrites \/ WindowWrites
  \/ \E e \in Lines : e \in held.files /\ said[e] # None /\ WindowAsks("rollback", e)
  \/ archive = None /\ WindowAsks("archive", None)
  \/ archive # None /\ \E kind \in {"commit", "cancel"} : WindowAsks(kind, None)
  \/ WriteSteps \/ WriteRefused \/ HoldUnsafe
  \/ Retry \/ RetrySteps \/ RetryRefused
  \/ WindowSteps \/ WindowCallRefused
  \/ Dies \/ Restarts \/ RestartsUnread

Spec == Init /\ [][Next]_vars

\* Calls that are not refused are answered, and a person retries and restarts.
FairSpec ==
  Spec /\ WF_vars(WriteSteps) /\ WF_vars(RetrySteps) /\ WF_vars(WindowSteps) /\ WF_vars(Retry) /\ WF_vars(Restarts)
-----------------------------------------------------------------------------
Memory == [known : BOOLEAN, closed : BOOLEAN, revision : Nat, files : SUBSET Entries,
           retained : [Entries -> Held \cup {None}]]
Requests ==
  [kind : {"write", "retry", "rollback", "archive", "commit", "cancel"},
   entry : Entries \cup {None}, n : 0 .. MaxWrites, bytes : Nat \cup {None}, left : SUBSET Entries,
   at : {"called", "initial", "entry", "words", "node", "journal", "put",
         "entries", "unlink", "remove", "close", "sweep"}]

DiskType == /\ node \in Nodes \cup {None}
            /\ file \in [Entries -> Files \cup {None}] /\ spill \in [Entries -> Texts]
ArchiveType == archive \in Archives \cup {None} /\ archived \subseteq Archives
RecordType == {promised} \cup attempted \cup stray \subseteq Records \cup {None}
MemoryType == held \in Memory /\ failing \in BOOLEAN /\ phase \in {"down", "unread", "up"}
CallsType == queue \in Seq(Requests) /\ writes \in 0 .. MaxWrites /\ faults \in 0 .. MaxFaults
ToldType == /\ said \in [Entries -> Texts \cup {None}] /\ safe \in [Entries -> Texts \cup {None}]
            /\ over \subseteq Entries

\* The shape of the state.
TypeOK == DiskType /\ ArchiveType /\ RecordType /\ MemoryType /\ CallsType /\ ToldType

Quiet == phase = "up" /\ queue = <<>> /\ ~held.closed

\* Whatever was refused, torn, held, retried or recovered: a reader is shown
\* every accepted piece once, in its order, and no line that was taken back
\* (read, materializeRetained).
ShowsWhatWasSaid ==
  Quiet => \A e \in Entries : IF said[e] = None THEN file[e] = None /\ held.retained[e] = None
                              ELSE Shown(held.retained, e) = said[e]

\* What a later process shows of e if this one dies now and the journal gives c.
Surviving(c, e) == Shown(Recovered(c).retained, e)

\* What was answered as saved or recoverable survives the process, whole and
\* once, whatever it was doing, and whichever record the journal gives; a line
\* taken back does not come back.  Excepted are the records nobody removed
\* (RetryEndsWithoutRecord): the code does bring those back.
SafeSurvives ==
  (node # None => ~node.closed) => \A c \in {promised} \cup (attempted \ stray), e \in Entries :
    LET t == Surviving(c, e)
    IN  IF said[e] = None THEN e \notin Recovered(c).files
        ELSE IF e \in Stream
        THEN /\ Len(t) >= Len(safe[e]) /\ SubSeq(t, 1, Len(safe[e])) = safe[e]
             /\ \A i, j \in DOMAIN t : i < j /\ Torn \notin {t[i], t[j]} => t[i] < t[j]
        ELSE safe[e] # <<>> => t # <<>> /\ t[1] >= safe[e][1]

\* No entry is ever on the disk without the node.json by which the
\* conversation is found (list).
Discoverable == (\E e \in Entries : file[e] # None) => node # None

\* A conversation that was closed is in its archive as it was: every word
\* accepted before, no line that was taken back (commitArchive).  Its copy was
\* made while storage was not refused; see EntriesAtDestination.
CommittedArchiveIsWhole ==
  held.closed => \E a \in archived :
    a.whole => \A e \in Entries : a.text[e] = IF said[e] = None THEN <<>> ELSE said[e]

\* "Copy first, mark closed only after every entry is durable at destination"
\* (shell/node-transcript-store.cjs:729).
EntriesAtDestination ==
  held.closed => \E a \in archived : \A e \in Entries : said[e] # None => a.text[e] = said[e]

\* Once the disk takes writes, a retry leaves nothing unsaved.
RetriedIsSaved == failing ~> ~failing
=============================================================================
