# A TLA+ verification of ToolsEnabled's main process

ToolsEnabled is an Electron application that runs a tree of coding agents on one
computer.  Its main process (`src/shell/*.cjs`) owns the files, the child
processes, the audit trail and the link that lets the owner drive the computer
from elsewhere; the window (`src/src`) talks to it over IPC.  Most of the code
is formatting, validation and views.  The part that is hard to get right is
small: a dozen files whose correctness depends on the *order* in which a crash,
a failed write, a timeout, a late answer or a second launch arrives.  That part
is what this directory models, model-checks with TLC, and proves about with
TLAPS.

Every definition is translated from the code under `src/`; `PROJECT.json` maps
it to the lines it stands for.

## 1. Inventory

| component (source) | state it keeps | operations | what is hard | what makes it correct |
| --- | --- | --- | --- | --- |
| Transcript recovery journal (`transcript-recovery-journal.cjs`) | two preallocated generation files; record map, generation, revision, bytes used; reservations | open, load, reserve, release, put, remove, close | a crash between any two file system calls, torn writes, calls that fail half-way, capacity promised before it is used | acknowledged records survive; a mixture is never read; a granted reservation can always be paid |
| Canonical audit lane (`canonical-audit-queue.cjs`, `canonical-audit-worker.cjs`) | queue, record in flight, worker thread, threads still ending | record, close, retireWhenIdle; timeouts, thread death, restart from source | a timeout against a late answer, a second delivery after a death, shutdown in all of this | "recorded" is true of the ledger, no action appears twice, every caller is answered |
| Tree-node command broker and spool (`tree-node-command-broker.cjs`, `tree-node-command.cjs`) | queue, slot, remembered ids, result being published; claim and result files | queueRequest, complete, rendererReady/Reloaded, start admission, dispose; launches from other processes | duplicate launches, restarts, reloads, evicted ids, results that cannot be written | a request reaches a window once, its result is true, the queue moves |
| Remote connection fence, lifecycle, claim helper (`remote-connection-fence.cjs`, `remote-connection-lifecycle.cjs`, `device-claim.cjs`, `claim-lifetime-*.cjs`) | durable fence record and its memory; disconnect, claim and administration flights; a helper tree that outlives the process | status, begin, poll, cancel, disconnect, administer, restart | a late claim after a disconnect, a record half written, a helper from before the restart | remote access opens only as the owner last asked; a disconnect that says ok left nothing running |
| Relay supervisor, facade server and their arming (`relay-supervisor.cjs`, `agent-facade.cjs` listen/close, `armRelayFacade` in `main.cjs`) | one child, its restart timer, a stop under way; a loopback server with a bearer; the credentials handed on | start, stop, exit; listen, close; arm, revoke, reset | an unconfirmed stop, a late exit, restart back-off; a bind that settles after the owner changed their mind | one leg at a time; no leg and no bearer after a disconnect or a reset that says ok |
| Tree delegation authority, slot admission, errand dispatcher, delegated start (`tree-delegation-authority.cjs`, `tree-slot-admission.cjs`, `tree-delegation-cleanup.cjs`, `dispatchTreeSpawn` in `main.cjs`, the view's half in `computers.js`) | one-time grants with parent, owner and expiry; reserved slots; the errands under way; pages and starts | reserve, issue, redeem, assertStart, settle, cancel, cleanup; draw, start, hold | a timer against a late start, a parent that stops or changes, a person who moves circles, a page rebuilt or reloaded, limits lowered in between | a token starts at most one child, under the parent it was issued for; a refusal leaves nothing; limits hold; every errand is answered |
| Node transcript store and its capture (`node-transcript-store.cjs`, `node-transcript-capture.cjs`) | entry files, node.json, held words and their journal record, staged archives | append, appendText, retry, rollback, archive, commit, recovery at a start | a refused or half-made write of any file, a retry cut short, a restart between the copies of a word, a queue between a check and its use | accepted words are shown and survive once and in order; a take-back stays; an archive is whole |
| Sandbox setup lease (`sandbox-setup-lease.cjs`) | two directories with a record each | acquire, markBuildStarted, finish | two processes, a reboot, a crash between directory and record | one preparation at a time; recovery after a reboot |
| Durable files, image custody, node recovery, standalone switch, research shutdown | small files and flights | replace, adopt, hand over, stop | crash order, ownership | see plan |
| Agent host, command surface, accounts, sign-in, screen/voice, settings, installation, renderer | large, mostly data and protocol with outside programs | — | outside the reach of a bounded model | not modelled |

How they interact: `main.cjs` builds each part and joins them by direct calls.
The window reaches the broker, the transcript store and the remote lifecycle
over IPC and may answer late, twice or never.  The transcript store is the
journal's only caller.  An agent's errand for a child reserves a slot, is given
to a page by the broker, and comes back as an `agent:start` with a token.  The audit lane is called before every action that must
be recorded.  The fence's gate is read by the relay supervisor (before it
starts a leg), by the facade the leg talks to (at every command), and by the
lifecycle; the claim helper is admitted through the fence before it may run.
Parts share no memory but what is passed in calls, and the main process is one
thread: a handler runs to its next `await` undisturbed.  True parallelism comes
only from worker threads, child processes and other launches of the program.

All components, the ones not modelled included, are listed in `PROJECT.json`
with the reason; the hazards list there gives, line by line, what could go wrong
that a unit test would hardly reach, and the property aimed at it.

## 2. Modules

| module | role |
| --- | --- |
| `TranscriptRecoveryPromise` | abstract specification: a register that survives crashes |
| `TranscriptRecoveryJournal` | the journal call by call; implements the promise (`PromiseSpec`) |
| `TranscriptRecoveryJournalProofs` | theorems about it |
| `CanonicalAuditQueue` | the audit lane and its threads |
| `CanonicalAuditQueueProofs` | theorems about it |
| `TreeNodeCommand` | broker, spool, window and starts composed |
| `TreeNodeCommandProofs` | theorems about it |
| `RemoteConnection` | fence, lifecycle and claim helper composed |
| `RemoteConnectionProofs` | theorems about it |
| `RelayLeg` | supervisor, facade server, arming, disconnect and reset composed |
| `RelayLegProofs` | theorems about it |
| `TreeSpawn` | an agent's errand for a child, from the reserved slot to the running child |
| `TreeSpawnProofs` | theorems about it |
| `NodeTranscriptStore` | one saved conversation, over `TranscriptRecoveryPromise` |
| `NodeTranscriptStoreProofs` | theorems about it: what is on the disk can be found, what it shows, what it archives |
| `NodeTranscriptStoreSafeProofs` | a theorem about it: what was answered survives the process |
| `MC…` | each component for TLC: symmetry sets and size functions |

### TranscriptRecoveryJournal

State: the process memory (`records generation revision usedBytes`,
`reservations reservedBytes`), the publication under way (`job`, named by the
file system call it waits for) and the two files, each with the fields header,
payload and commit marker, once as the page cache shows them (`image`) and once
as the medium holds them (`durable`).  `acked` and `unacked` observe what the
caller was promised.

One action per file system call of `writeGeneration` (`WriteField`, `Sync`,
directory sync), each of which may fail (`PublicationFails`); opening is
`Create`, `ReserveFile`, `SettleExtents`, `Load…`; the caller's calls are
`Reserve`, `Release`, `Put`, `Remove`, `Close`.  `Kill` ends the process inside
any write and leaves the page cache; `PowerLoss` leaves any subset of the
unsynced fields, each old, new or torn.  A checksum is modelled by what it
tells apart: a generation is whole when the three fields name the same contents.

### CanonicalAuditQueue

Main process and threads run in parallel.  Handlers that end in `pump()` set
`pumpDue`, and nothing else of the main process runs until it is served, as in
the code.  Threads boot, take a message, append, answer and die at any point;
`terminate()` is a request that a thread inside a native call does not notice.
`record`, `recordBatch` and `findEvents` are one kind of request.

### TreeNodeCommand

The claim file is made by exclusive creation and is therefore the only thing
two processes race for; claim, result and launch refusal are separate steps
that may fail in the middle.  The window holds what its present document was
handed; a reload forgets it.  A start is admitted (`BeginStart`) and dispatched
later (`DispatchStart`), and whatever happens in between is allowed to.

### RemoteConnection

The fence's methods are operators from a pair of memory and record to the set
of pairs they may leave, because every write may be synced, only replaced, or
not happen (`Persist`).  Lifecycle calls are split at their awaits: the call
launches a helper (`Status`, `BeginOpen`, `Poll`, `AdminAsk`, …), the
continuation acts on its answer (`StatusAnswered`, `PollAnswered`, …), and
between the two anything else may run.  A helper is admitted before it starts
(`Admit`), acts on the vault in parallel (`HelperActs`), ends with or without a
signed receipt (`HelperEnds`), and lives on when the application dies (`Crash`);
the next start reads the record again (`Start`).  A ticket is modelled by the
fact that it is still current, since it is only ever compared with the
generation for equality.  Two observers are not in the code: `intent`, what the
owner last asked for, and `lapse`, that the process died while it reported
restart safety as unknown.

### RelayLeg

The other half of the remote link: what `RemoteConnection` closes and opens as
a gate, this module starts and stops as a process.  `sup` is the supervisor's
closure (`ScheduleRestart`, `Launch…`, `Stop…` are operators over it), `legs`
the processes with their undelivered end, `facade` the loopback server and its
bearer, `arms` the calls of `armRelayFacade` under way and what each waits for.
They continue in the order in which they were made: a call whose fence has moved
(`current` is false) is older than every one whose fence has not, and goes
first (`IsNext`); two of the same kind do the same.  A disconnect waits for the relay's answer and the revocation; the data
reset raises a flag, stops the leg and closes the server.  Settled promises are
continued before the next event (`Calm`).  A signal may be refused or ignored,
a spawn may throw or fail later, an exit may be told late.  `offline` observes
that a disconnect or a reset answered that nothing is left.

The payload is assumed present and the supervisor's `running` is
`child # None` (the branch of `stop` for a child with an exit code is never
taken: the exit handler clears the child first).  Quitting and a crash of the
application are not modelled; the leg ends with its parent.

### TreeSpawn

One tree, one asking agent, and the errands it issues: `Dispatch` reserves the
slot and issues the token, `Deliver` gives the errand to the page, `Draw`,
`StartAsked`, `PageHolds` and `PageGivesUp` are the page, `Recorded` to `Hosted`
follow the start through its audit record, the host and the resource lease,
each of which looks at the permit again.  `Expires`, `TimerFires` and
`BrokerTimesOut` are the three clocks; `CleanupEnds` closes what a refused
errand had begun.  Meanwhile a person places, moves and removes circles and
changes the limits, the agent stops or changes its scope, and views are
rebuilt or the window reloads.  Expiry and answer share one field (`late` is
expired and not yet answered).  The page and its rules come from
`src/src/views/computers.js` and `fleet-trees.js`.

### NodeTranscriptStore

One node, its calls in a queue, each split where its files are written: a
write is a file of its own, a step and a refusal (`WriteSteps`,
`WriteRefused`), which may leave part of a piece (`Torn`).  A refused write is
held, put into the journal, and answered as recoverable or, when the journal
refuses too, as held in memory only (`HoldUnsafe`).  `Retry` takes the held
entries one file at a time; take-back, archive, commit and cancel are the
window's calls, which its client makes one after the other.  `Dies` may come
between any two steps, `Restarts` recovers from the journal's record, and
`RestartsUnread` is a start that cannot read it.

The journal is not modelled again: its part of the state is an instance of
`TranscriptRecoveryPromise`, whose implementation by `TranscriptRecoveryJournal`
is proved, so that the two modules together cover a word from the capture to
the last sync.  The capture writes at most one piece of an entry between two
looks at the storage, and pauses while storage is refused; ids of streams carry
the session, so an entry of an earlier process is never written again (`over`).
`said` and `safe` observe what was accepted and what was promised of it.

## 3. What the runs check

| run | question | instance | result |
| --- | --- | --- | --- |
| `journal_kill` | is every crash of the process recovered, is every publication answered, is the promise implemented? | one key, one value, 3 revisions, kills at every call | holds |
| `journal_power` | the same for power losses; is capacity ever promised twice? | values of two lengths, a revision that gains a digit, two reservations that cannot both fit beside the largest contents | holds |
| `journal_first` | can the journal be opened after its very first publication is cut short? | smallest | **violated**: finding 1 |
| `audit` | is what callers are told true of the ledger, in order, once; does a successful close leave no thread; is everybody answered; does shutdown end? | 2 requests, 3 threads | holds |
| `command` | is a request handed over once, answered truly, started once; does the queue move on when the window is silent and results cannot be written? | 2 requests, 2 circles, 3 launches, 1 restart, memory of one id | holds |
| `command_known` | is a known id always being taken care of? | 1 request, 1 launch | **violated**: finding 2 |
| `command_claim` | does a launch refusal clean up its claim? | 1 request, 1 launch | **violated**: finding 3 |
| `remote_off` | does remote access open only as asked, restarts included; does ok mean complete; does the record say what memory claims? | two helper identities, every administrative action, crashes at any point | holds |
| `relay_leg` | is one leg known at a time; does anything outlive a disconnect or a reset that says ok; does a leg come back; is a disconnect answered? | 2 leg identities, 2 armings in flight, a ladder of 3 delays | holds |
| `tree_spawn` | does a refusal leave nothing; does an ok have its circle; is a child spawned only as asked; do slots keep the limits; is every errand answered? | 2 errands (one for a local model), 1 other circle, 2 scopes, wide and narrow limits, 3 acts | holds |
| `node_store` | is every accepted piece shown and kept once and in order; is an archive whole; does a retry save? | a stream, a whole entry and a window's line, 3 writes, 2 faults | holds |
| `node_archive` | is every accepted entry in the archive a conversation is closed for? | the same, 2 writes | **violated**: finding 4 |

Each property of a passing run is paired in `PROJECT.json` with a mutation of
the model, of the kind a plausible edit of the code would make, that breaks it.

### Bounds, and why they are enough

- Journal: a publication only compares revisions and alternates between two
  files, so three revisions give first, overwriting and twice-overwriting
  publications; with one key the contents of two generations already differ.
  The capacity run needs two lengths and two claims, and a payload that grows
  with the revision number (`DigitAt`).  The theorems remove these bounds.
- Audit: with two requests one is in flight and one queued behind it, or one
  arrives after a replacement; a thread is started at most once per request and
  once for the source fallback, which is why there are `MaxRequests + 1`.  The
  safety properties were also checked with three requests.
- Commands: with a memory of one id the second request evicts the first, three
  launches let either be launched again after that, and a restart forgets all.
- Remote: there is one slot and one owner on the record; the second identity is
  the helper that may wrongly be admitted beside the first.  Identities are
  fresh in the code and are reused here only when no record, slot, receipt or
  process names the old one.
- Relay: two identities let a second leg be wrongly started beside one the
  supervisor gave up on; two armings let one be overtaken by a disconnect and
  the next; the ladder has a floor, a step and a ceiling.
- Tree: two errands compete for a slot and for the page; one of each kind
  because a local child is not spawned through the lease.  Two limits, of which
  the narrow one is already full, and two scopes are all that comparisons tell
  apart.  `MaxActs` counts errands, changes and rebuilt views together: two
  errands leave one disturbance for the history between them, one errand two.
- Store: three writes make a stream of three pieces, or let each kind of entry
  appear; two faults are a refused write and what can then go wrong with its
  rescue (a refused journal call, an interrupted retry, a death).

### Fairness

- Journal `FairSpec`: a file system call returns, well or badly.
- Audit `FairSpec`: the event loop serves what is due and its timers fire.
  Nothing is assumed of a thread, so `EveryRequestAnswered` holds although
  threads may do nothing.  `ShutdownCompletes` has `Stopping` (every
  `terminate()` settles) as its hypothesis: a thread inside a native call does
  not notice its termination, and the code waits for it without a deadline.
- Commands `FairSpec`: publication attempts and the pump run, the clock
  passes, and the completion timer fires (strong fairness, since the slot it
  guards is repeatedly filled and emptied).  Nothing is assumed of the window
  or of launches; `QueueNeverWedges` supposes a window that comes back.
- Remote: no liveness is stated; that a disconnect is answered is a property
  of `RelayLeg`, where what it waits for is modelled.
- Relay `FairSpec`: the two timers of a stop fire, a settled promise is
  continued, a server that is closed drains and a revocation answers (weak
  fairness).  The end of a child, once it happened, is told, and a restart that
  may spawn does so some day (strong fairness: newly armed callers may put
  both off again and again, and a spawn may throw a few times).  Nothing is
  assumed of a child: it may live for ever and ignore its signals.
- Tree `FairSpec`: the errand's clock runs out and its timer fires; a start that
  was asked to close moves on (the transport has a ceiling of five minutes and
  is aborted by a close) to an end or a failure; the end of the cleanup is
  told.  Nothing is assumed of pages, persons, agents or of a start nobody
  asked to close.
- Store `FairSpec`: a call that is not refused is answered, and a person
  restarts the program and retries while words are held.  Refusals are bounded
  by `MaxFaults`; a disk that refuses for ever saves nothing, and the code
  promises no more.

Deadlock is checked for the journal, the remote connection and the relay leg.
The others really may stop: a closed lane whose requests are all answered; a
broker that is disposed, or idle after the last launch of the instance; a tree
whose errands are all answered and whose acts are used up; a conversation
after the last write of the instance with nothing held.

### Assumptions about the surroundings

- Electron's single-instance lock holds: one primary process.
- node delivers what a worker thread posted before it reports its death.
  (An `error` event travels on another port than the messages; were it to
  overtake an unread `ready`, a record could be sent twice.  This is listed as
  a hazard and not as a finding, since node is not part of the repository.)
- `loadAndClaim` and sending to the window are synchronous, as `main.cjs` has
  them.
- File creation is exclusive, rename is atomic.
- Remote: the relay leg ends with the process that started it (it is spawned
  with an IPC channel); restart of the application, not power loss, is the
  crash considered, as the comment at `remote-connection-fence.cjs:138` limits
  its own claim; a continuation runs before the next event of the loop.
- Relay: the child's payload is there; the fence and the enrollment are read as
  one gate.
- Tree: one window serves the errands; the saved forest is read and written by
  synchronous calls of the page.
- Store: what a process wrote stays when it dies (kills, not power losses);
  reading does not fail except for the journal's record at a start; the node's
  calls come from one process.

## 4. Findings

Four places where the code and a statement in it disagree; quotes and lines are
in `PROJECT.json`.

1. *Journal.* Interrupting the very first publication leaves one torn and one
   blank file, which every later start rejects as corrupt; nothing rewrites
   them.  Afterwards every acknowledged state is recovered
   (`CorruptOnlyBeforeFirstAck`).
2. *Commands.* A request whose claim throws once is dropped from the queue but
   stays remembered, so every later launch of it is ignored in silence.
3. *Commands.* A launch refusal whose own claim fails its re-check leaves the
   claim behind and no result.
4. *Store.* `archive` and `commitArchive` ask for sound storage when they are
   called, not when they run.  A write queued between the two can be refused
   and held: the staged copy lacks its entry but carries its revision, a retry
   saves it without a new revision, and the commit then closes the conversation
   and deletes the only saved copy.  When storage was sound at the copy, the
   archive is whole (`CommittedArchiveIsWhole`).

What follows was met on the way and has no run, either because the repository
says nothing to the contrary or because the history is outside a model's fault
assumptions.

- *Journal.* When the process is killed before the syncs of a publication, the
  next start takes that unsynced generation as current, the following
  publication overwrites the only synced one, and a power loss then can lose
  acknowledged contents.  The recovery theorems therefore assume one *kind* of
  fault per history (`SingleFault`).
- *Audit.* A timeout frees the worker slot at once (`canonical-audit-queue.cjs:242`),
  so the next record starts a second thread beside one that may still be inside
  its append; `RecordedInOrder` and `NoDoubleAppend` hold nevertheless.
  `close()` waits for every `terminate()` without a deadline (line 153).
- *Relay.* A spawn that throws leaves `startedAt` of the last child that lived,
  so after a long life the restart delay stays at its floor
  (`relay-supervisor.cjs:466`).  A second `listen()` mints a new bearer while
  the leg that holds the old one lives on.  A facade that cannot bind keeps the
  leg from starting, which the comment at `main.cjs:10833` says it should not
  (10838, 10879, 11234).
- *Tree.* A start held for room is asked for again with the token the first
  attempt spent, and is refused (`main.cjs:4909`, `tree-launch-queue.js:24`).
  A view that was replaced while its start ran answers "ok" without looking at
  the attachment, so the circle can have been removed and a running child be
  named by none (`computers.js:9104`, `fleet-trees.js:1935`);
  `ToldChildHasItsCircle` excepts these starts (`left`).
- *Store.* A put that was refused after its commit marker is still in the
  journal.  `remove` does not know its key and writes nothing
  (`transcript-recovery-journal.cjs:479`), so a restart may restore entries
  that were saved, taken back or archived since, against the comment at
  `node-transcript-store.cjs:571`.  `SafeSurvives` excepts exactly these
  records (`stray`).

## 5. What is proved

`TranscriptRecoveryJournalProofs`, for every capacity, key set, value set, size
function and number of publications:

- `TypeCorrect`: `TypeOK` is inductive by itself.
- `CapacityCorrect`: `CapacityHeld`.  Not inductive alone: a publication is
  checked when it starts and installed many steps later.  `CapacityInv` adds
  that nothing is used before the journal opens (`Fresh`) and that a running
  publication still fits beside all live claims but the one it spends
  (`CheckedJob`).
- `MemoryCorrect`: `MemoryIsOnDisk`, under any mixture of faults.  `HeldInv` says
  more than the property: all three fields of the current file agree and fit,
  and what a publication has written so far went into the other file
  (`WrittenInv`), so that installing it finds it whole.
- `ReservationsCorrect`: `ReservationsAddUp`, the running total against the sum
  of the claims.  It needs finitely many callers; that a claim added to or taken
  from one of them changes the sum by as much is shown by a smallest
  counterexample over the finite subsets (`WellFoundedInduction`), without
  an induction rule.
- `KillRecovery`, `PowerLossRecovery`: from `RecoveryInv`, which says for each
  step of a publication what the other generation holds in the page cache and
  on the medium (everything before the step's sync is durable after it), that
  the current generation is untouched, and that nothing on disk is newer than
  what the observer counts as attempted.  Both assume `SingleFault`; the power
  theorem also that the fault is a power loss.
- `CorruptCorrect`: `CorruptOnlyBeforeFirstAck`, from the same invariant.
- `Refinement`: `TranscriptRecoveryPromise` is implemented under the mapping
  acked/unacked/current contents, by the same invariant: only the last
  directory sync acknowledges, only a crash or a close hides, and a start
  recovers one of the promised contents.

`CanonicalAuditQueueProofs`, for every number of requests and threads, in three
layers (`AuditInv`).  `LaneInv`: every thread started is paid for by a record
taken off the queue or by the one source fallback, and one that lives is the
worker, or being stopped, or could not be; it gives `TypeCorrect`,
`CloseCorrect` (`CloseTruth`) and `RetirementCorrect`
(`RetirementNeverCutsOff`).  `PostInv`: a worker is asked one thing at a time,
its result is the last message it posts and names what it was asked, and a
worker that was replaced posts to nobody.  `RowInv`: a record still queued, or
in flight in a thread that has not appended, is not in the ledger; one in flight
whose row is there has it last; outstanding records are in the order in which
they were asked.  The two upper layers give `RecordedCorrect`
(`RecordedIsInLedger`), `AppendedOnce` (`NoDoubleAppend`) and `OrderCorrect`
(`RecordedInOrder`).  None is inductive alone: what forbids the second append is
that only a worker which never became ready is replaced and its record sent
again, and that such a worker has not read its inbox.

`TreeNodeCommandProofs`, for every set of requests and circles and every bound:
`DispatchCorrect`, `RefusalCorrect`, `PublicationCorrect`, `StartCorrect`, all
from `CommandInv`.  A dispatch alone does not show that there is no second one;
what carries it is that a dispatched request stays claimed (`SentIsClaimed`),
that the slot and the publication exclude each other and hold claimed requests
(`SlotInv`, `PublishingInv`), and that what is published agrees with what was
sent.  `CircleCorrect` (`OneCirclePerRequest`) adds `CircleInv`: every start
admitted or dispatched belongs to a claimed request and, while that request has
the slot, to the circle the slot was bound to.

`RemoteConnectionProofs`, for any number of helper identities, in four layers
(`RemoteInv`), each true after every failed write and every restart:

- `Sound`: memory that would admit remote access has nothing left to settle, no
  unreadable record is written, and a synced record is what memory says.  Every
  method of the fence keeps it, shown once per method for all outcomes of its
  write; it gives `RecordedCorrect` (`RecordedIsOnDisk`).
- `HelperInv`, for `HelperOnRecord` (`HelperIsOnRecord`): a receipt is final, and
  a helper that was not admitted has not run, is not on the record and has left
  no receipt.  Without it, a new helper could be taken for one that ended.
- `MeantInv`, for `AskedCorrect` (`OpenOnlyAsAsked`): whatever may still open
  remote access later (a current claim, an open under way, an administration
  about to arm, the record a restart would read) was asked for after the last
  disconnect.
- `QuietInv`, for `DisconnectCorrect` (the action property
  `DisconnectIsComplete`): while a disconnect flies the fence is blocked, the
  helper that cleared the vault was the last to touch it, the relay stays off
  once it was stopped, and no earlier claim can report an enrollment.

`RelayLegProofs`, for every number of identities, armings and delays:
`LegCorrect`, that a relay process that lives is the one the supervisor holds.
It is not inductive alone: a restart timer still armed, or a start, would put a
second leg beside the first; the invariant adds that a timer is armed only while
there is no child and nothing has stopped the supervisor.  `DarkCorrect`
(`NothingSurvives`) speaks of the moment of the answer; `DarkInv` says what each
stage of a disconnect and of a reset has made certain before it (the supervisor
stopped, the leg gone, the bearer withdrawn or about to be by the call that
holds it), and that from then on the gate or the flag keeps everybody from
undoing it.

`TreeSpawnProofs`, for every tree, number of errands, set of scopes and limits:
`TypeCorrect`, `RefusalsAreTrue` (`RefusedLeavesNothing`) and `SpawnsAsIssued`
(`SpawnsUnderParentAsIssued`), all from one invariant per errand, `Sound`: it
has no permit exactly while its start has not begun, a valid one only while it
is unsettled, and it is refused only while its start has not passed the host's
check or is over.  No property of the tree's shape is needed for these.
`CircleCorrect` (`ToldChildHasItsCircle`) adds `TiedInv`: only the start of a
refused errand is ever asked to close, an errand or a page that says ok has a
child that came up, and while that child runs in the view that asked for it the
circle cannot be removed, from the page's ok on and not only from the errand's.
`SlotsCorrect` (`SlotsGrowWithinBounds`) rests on two invariants of the saved
forest.  Width: a reserved circle is not drawn, or drawn where it was reserved
(`SlotInPlace`), so that drawing it turns one slot into another.  Depth: every
set of circles has one whose parent is not in it (`Rooted`), the form of "the
circles stay a tree" in which no induction rule is needed; from it follow that
the recursive `Depths` and `Branch` are what they say (`TreeRecursion`), and
that only what hangs below a circle that was drawn or moved has another depth.

`NodeTranscriptStoreProofs`, for any entries and any number of writes, refusals
and deaths: `DiscoverableCorrect` (`Discoverable`).  Not inductive alone: a
write skips saving `node.json` when the node counts as known, and a first save
that was refused makes it count as known.  `StoreInv` adds that this shortcut is
only open while storage is not refused and a `node.json` exists
(`KnownIsSaved`), and that no call is past its `node.json` without one
(`LateIsSaved`); the rest says that what `node.json` is made from has the shape
of a `node.json`, also when it comes from the journal.

In the same module, from `StoreViewInv`: `TypeCorrect`,
`ShownCorrect` (`ShowsWhatWasSaid`) and `ArchiveCorrect`
(`CommittedArchiveIsWhole`).  A write changes the files before it is answered,
so `ViewInv` says what is shown while one runs: what was said and, once its words
are on the disk or held, the piece that is meant.  A refused write is held as a
plan that clips what the refusal left; that the plan shows the same words is
`PlanShows`, which needs that the piece a stream's `node.json` is missing for is
the last one in its file (`PieceWritten`).  A retry passes from the plan to the
file one entry at a time, and a file that carries the plan's stamp is the one
the plan would make (`Made`, `MadeFile`).  `QueueInv` keeps the calls apart that
would write one entry.  For the archive, whatever changes a conversation takes a
new revision first, so a copy that still carries the current one is whole
(`ArchiveInv`, `WriteStage`, `OtherStage`), and a later process finds what was
closed closed (`ClosedInv`).  After a start, that a conversation without a
`node.json` has no files is `Discoverable` again, cited as a theorem.

`NodeTranscriptStoreSafeProofs`, for the same: `SafeCorrect` (`SafeSurvives`),
from `SafeInv` beside `StoreViewInv`.  A record the journal may give is *live*:
promised, or attempted and not one of the strays nobody removed.

- What a record says.  A live record keeps of an entry nothing or what memory
  holds, and while storage is not refused the journal promises nothing and has
  only strays (`JournalInv`).  What a live record does not keep, the files alone
  show as far as it was answered (`DiskReaches`); while no process is up, what
  the record and the files show together is what the property asks for
  (`DownInv`).
- Numbers.  Every piece has the number of the write that made it; what is on the
  disk is in that order but for torn pieces, and a write that is not there yet
  is later than all that is (`NumbersInv`, `LaterInv`, `StreamInv`).
- Applying a plan twice.  What a plan keeps of the files is older than what it
  adds (`Fits`), or the file carries its stamp and was made from it already
  (`Stamped`); so a record that is applied to files which went on without it
  repeats nothing and puts nothing out of order (`FitsInv`).
- Strays.  They lie beside a conversation that goes on over a journal which
  promises nothing.  A stray keeps less of a stream's file than is there, and
  than a plan that is held does (`BesideInv`): the file only grows, so a later
  start that reads the stray still finds its beginning.
- The end.  A conversation is closed only while nothing is held, and is found
  closed (`EndInv`), so a closed one owes nothing to any record.

Only model-checked: all liveness (under fairness and ENABLED, outside the
prover's reach).  Every invariant the passing runs check is a theorem.
`KilledRecovers` and its kin are not claimed at all when both kinds of fault
occur in one history.

## 6. Plan

Done: journal, audit lane, commands, remote connection, relay leg, errands,
transcript store; their runs; theorems about each.

Of the invariants that the passing runs check, none is left to prove; the next
theorems are those of the next models.

Next models:

1. The admission of a turn (`reserveTurn`, `releaseTurn`) in the store, with
   the journal's reservations it takes.
2. `SandboxSetupLease`: two processes, two directories, a reboot; a process
   that ends between directory and record (`sandbox-setup-lease.cjs:72`).
3. `DurableFile` with its serial queue as an abstract register for the stores
   that use it; image custody and node recovery above it.
4. Quitting: the order in which `main.cjs` closes the parts modelled here.

## 7. Not modelled, and why

The text of messages, JSON, paths, access lists and digests are outcomes
(readable or not, whole or torn, located or not).  Argument validation that
changes no state is a disabled action.  In the remote component the stages of a
reservation, its expiry, and the words of a refusal are left out: a step that
depends on them may happen or not.  The engine's ledger, the claim program, the
vault and the relay's network side are not in the repository and are
represented by what the code does with them.  The large parts of the agent
host, accounts, sign-in and the window are data handling and dialogue with
outside programs, for which a bounded model would say little.

Of the errands, those of a full-permission or research parent, resume and
restart with their own authority, moves between trees, experiment trees, the
destruction of the window and a person's own start of the drawn circle are left
out; scope stands for folder, tree, roots and permissions together; a request
that supersedes another keeps its place.  Of the store, several nodes,
`bindSessionMetadata`, `migrate`, `configure`, shutdown, seal and erase, the
archive quota, read failures, the repair of a single spill and the admission of
turns are left out; an append of several entries is several writes; after a
start with refused storage no turn is admitted, so nothing is written then
but retries.  Of the relay, the bytes of the leg's channel, what it prints and
the routes of the facade.
