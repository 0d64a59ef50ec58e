# A TLA+ model of heterodyne

heterodyne runs coding agents for a group of human operators. Two daemons carry it. `wsd`, the workstream
daemon, takes units of work ("beads") from an external tracker, runs one sandboxed agent session per bead,
and parks, defers, resumes, releases or escalates the bead. `admind`, the operators' daemon, talks to the
operators over an encrypted group chat, runs an admin agent, and turns an operator's "approve" into a
decision on a bead. Both keep what they know in SQLite, both are killed at any time, and both depend on
services that fail, answer late or answer nothing: the tracker, the sandbox runtime, the chat, the host.

This directory holds TLA+ modules translated from `src/src/heterodyne`, TLC configurations, and proofs for
TLAPS. `PROJECT.json` maps each definition to the lines it stands for, lists every hazard with the property
that watches it, and gives each property a mutant of the code that breaks it.

## Inventory

| Part | State it keeps | Operations | Where it is modelled |
|---|---|---|---|
| Launch guard (`wsd/park.py` `launch`, `wsd/launches.py`) | launch entries per bead and generation in the journal and a copy on the bead, crash counts, the pin of role and head | reconcile, count crashes, pin, dispatch, receipt, outcome | `LaunchGuard`, `LaunchPromise` |
| Bead operations (`wsd/park.py`, `scheduler.py`, `sweep.py`, `recovery.py`, `states.py`) | a row per bead, one open operation with step and attempts, holds, labels, blockers, claim, worktree | claim, park, defer, undefer, re-gate, resume, release, escalate, sweep, recovery, session signals | `BeadOps` |
| Paired backup (`wsd/backup_*.py`, `effect_owner.py`, `effects.py`) | cycle counter, pairing row, bundles on disk and their seals | native cycle, companion request, admit, copy, seal, settle, verify at a start, prune | `PairedBackup` |
| Approval asks (`admind/daemon.py`, `store.py`, `retirement.py`, `membership.py`) | a row per card, per decision attempt and per chat message, the maintenance hold and its proof, membership | post, refresh, cancel, decide, hold, retry, retire, reconcile, rearm | `ApprovalAsks` |
| Agent turns (`admind/daemon.py`, `hook.py`, `agent.py`) | queue, busy period, message in flight and its anchor, accepted hooks with a floor, the launch and its hold | flush, hook loop, interrupt, new session, launch, adopt, hold | `AgentTurns` |
| Ask cards (`admind/asks.py`, `notices.py`, `daemon.py`, `store.py`) | asks, question keys, card parts, notices, inbound messages and what their senders were told | post, post once, notice, reply, react, answer, repeat, details, remind | `AskCards` |
| Replies and outbox (`admind/daemon.py`, `store.py`, `summarize.py`, `backstop.py`, `alerts.py`, `guard_state.py`) | recorded turns, batches, outbox rows with owners, attempts and threads, membership observations | record a reply, summarise, batch, send, fail, suppress, alert, notify | `ReplyOutbox` |
| Ingress and reconnect (`admind/ingress_reconnect.py`, `marmot/control.py`, `daemon.py`) | subscription generation, reader and its transport, retained events, fence and locks, the count of the group | supervise, reconnect, read, retain, count | `IngressReconnect` |
| Gateway custody (`admind/gateway_custody*.py`) | a bundle per proposal, its commands and conflicts, permits and their files | register, notify, command, settle, issue, publish, repair | `GatewayCustody` |
| Maintenance recovery (`admind/recovery.py`) | proposals of an operation, consent messages, permits and their files | register, post, consent, revoke, supersede, permit, repair | `MaintenanceConsent` |
| Ask fulfillment (`admind/fulfillment*.py`) | receipts, operator intents, generations and verification stamps | propose, confirm, retire, apply, verify | `AskFulfillment` |
| Sandbox session (`sandbox/runtime.py`, `creates.py`, `reaper.py`, `sessiongit.py`, `wsd/gitwip.py`) | session record with phase and cause, create ledger, watcher, WIP mark, branch | launch, end, teardown, restore, land, resolve, reap | `SandboxSession`; LaunchGuard and BeadOps have its answers |
| Harness installs (`harness/resources/store_core.py`, `harness/store.py`, `verify.py`, `wsd/harness.py`) | stagings, intents, receipts and records of the store; rows, decisions and the selection of wsd | stage, propose, decide, publish, recover, select, roll back, launch, remove | `HarnessStore` |
| Action requests (`actions/`) | requests, decisions and dispatches of one journal | request, judge, decide, invalidate, dispatch, report, attest, settle | `ActionJournal` (dormant code) |
| Session socket and intake (`session/`) | turn state, request, marker and outcome files | serve, admit, settle, close | not modelled yet |
| Scheduled effects, lanes, observer (`wsd/`), acceptance and deployment ledgers | job ledger, lanes, heartbeats, evidence files | prepare, dispatch, pass | not modelled yet |
| Gatekeeper, configuration, agents, surfaces, self-test | none of their own, or the kernel's | parse, validate, render, exec | not modelled |

How they interact. A pickup or the sweep of `wsd` opens an operation in the journal and carries it out one
committed step at a time; its last step for a resume is the launch guard, which calls the sandbox runtime.
The runtime tells `wsd` of ends, questions, limits and taints through signals that the next pickup reads.
The tracker is read and written by `wsd`, by `admind` through the `approve-bead` program and by people.
`admind` is one asyncio program: every await is a place where another message, timer or host command may
run, and its locks order only some of them. The backup runs on two executor threads inside `wsd`.

What is hard. Steps that cannot be one transaction because two of journal, tracker, runtime, file system
and chat take part; calls whose answer is lost; state read before an await and used after it; a start on an
older journal; budgets that end a retry; and settling at a start what a crash left undecided. `PROJECT.json`
lists the 40 that matter most, each with its line.

What makes each part correct: for the launch guard, a generation is given to the runtime at most once and
its outcome is recorded truthfully; for the operations, a waiting bead has no session, a stuck one asks for a
human, no claim is orphaned, work is committed before a park and every operation ends; for the backup, a
completed cycle is on disk, is copied once and in order and a pending one ends; for the asks, what operators
are told is true, one card at a time leads to a decision, nothing of unknown fate is run twice and each
decision has the authority of its moment; for the turns, a reply is the answer to the message it is threaded
to, and no message is given to the agent twice, in the middle of another turn, or forgotten; for cards and
replies, a retry is the same ask, senders are told the truth, nothing is stranded and nothing is sent on lost
authority; for the ingress, no membership change goes unseen while
the group is read; for custody, maintenance and fulfillment, a
refusal holds, an operation is settled once and a receipt counts only for the ask as it is; for the sandbox,
every sandbox is tracked until it is really gone and no work is lost; for the store, only approved bytes are
published and what is used stays; for actions, a resource has one holder and an end is true.

## Modules

### LaunchGuard

`Parker.launch` (`park.py` 1040-1560) and all that it calls, on the beads of one workstream. The journal
(`op`, `row`, `entry`, `receipt`, `acc`, `deaths`, the holds), its copy on the bead (`copy`), the runtime's
sessions and record of the last end (`sess`, `ended`), and the guard's program counter are the state; each
commit of the journal, each write to the bead and each call of the runtime is an action, so a crash can fall
between any two. `Crash` drops the guard's locals (a bead write that fails does the same); `Backup` and
`Restore` put wsd on an older or an empty journal; `RuntimeDown` and `LivenessChanges` make the runtime
unreadable; `Relisted` lists a session again that was taken for ended. The history `calls` counts the calls
of the runtime per generation.

`LaunchPromise` is the abstract specification: a generation is handed to the runtime at most once, only while
no session of the workstream may be running, and the generations only go up. `KeepsPromise` instantiates it
with `called` and `running` read off the history and the runtime's listing.

`LaunchGuardProofs` has the theorems.

### BeadOps

One bead with its row, its one open operation (`kind`, `step`, attempts), labels, blockers, claim, worktree,
session and signals. `Operate` carries out the current step of the open operation; `Pass` is a start (`Start`, `Recover`, the
`Sweep...` actions) or a pickup with its signals, replays and candidates; `Calls` are what operators ask. The kinds of disturbance are a constant, `Happens`, and
`troubles` counts them up to MaxTroubles: crash, a failed pass (`fault`), a lost journal, an outside edit of labels, blockers, claim
or routing, a session's death, a runtime outage, an operator's call, a limit or a taint report.

Abstractions. The launch guard is one step here, with the answers LaunchGuard shows it can give. Usage,
accounts and headroom are a nondeterministic verdict. `park` and `defer` are called for a RUNNING row only,
as today's callers do. The sweep's read and adoption of one bead are one step, and the re-verification of an
adopted RELEASE is a nondeterministic escalation. The migration paths (PARKED and QUOTA rows, the `quota`
step) are left out. Budgets assume LaunchLimit <= ParkLimit, as the defaults 2 and 3 do.

### PairedBackup

The native cycle with its number, the companion request (lost, repeated, late or out of order), the pairing
row, the writer and the copier thread, bundles with their seals, the verification and discarding of a start,
shutdown and retention. `stranded` is a history: a failed open or write leaves a pending cycle that has no
worker until the next start. Attempt ids (uuid4 in the code) are numbered in order of admission, which also
breaks retention ties. The calendar windows (7 days, 7-day weeks, 28 days) are constants, scaled down.
The job ledger of `EffectStore` is not modelled.

### ApprovalAsks

One bead with its cards. An operator's decision goes through the chat message, the checks of authority, the
attempt row, the `approve-bead` child and its settlement; every await of the code separates two actions.
The maintenance hold, its retry loop, the zero-effect proof, retirement, `!asks`, the start's reconciliation,
drift of the bead, edits and decisions on the host, and membership changes run between them.

Abstractions. `native.form` folds what the host reports of the bead into ok, gate, approver and kind;
`verified` folds the group check, the observer, a change under way and a readable policy. The latch is set
only at a start (a pending membership change or a migration). A full table is a failed read. The unit's
KillMode=control-group means that a crash kills the child (external). A killed child is taken as dead when
the read-back starts; the code waits 5 s. A suspended attempt, or an unverified one that was being issued,
ends only by retirement or a recorded read-back. Delivery and repair of notices, questions, the hourly limit
and asks protected by a fulfillment are left out.

### AgentTurns

How `admind` runs its admin agent. Operators' messages wait in `held`; `Dispatch` reserves one (`inFlight`) and
begins a busy period; the paste is a step of its own. The agent's hooks connect to a socket (`backlog`), are
accepted in order (`conns`) and applied one at a time: `OnPrompt` anchors the reservation if the text is its
own, and the Stop records a reply and ends the turn. The Stop reads the transcript between `StopBegins` and
`OnStop` without the lock, so what it found must be found again. `job` is whoever holds the dispatch lock
across an await: a send, `!interrupt`, `!new`, the first launch. The floor (`Admind.turn_floor`, an index in
accept order) is the flag `below` of the connections it covers. Agent, hooks and terminal are external: the
agent runs one turn at a time, waits for its hooks up to a timeout, and drops the Stop of an interrupted turn.
`known` and `raced` are histories that the properties use.

Abstractions. A message's text is the message; a text typed at the terminal may be that of a message that waits
or is in flight. `open` folds the gates of `_flush` and of `authorised`. A transcript is the sequence of prompts and texts.
The change of the login, the timers that only send a notice, shutdown and the remaining commands are left out.

PastedIntoIdle excepts a turn that someone starts at the terminal after the Escape of `!interrupt` landed and
before the command returned: `raise_floor` then puts its prompt below the floor, the queue is released and a
message can be pasted into that turn. A comment (`daemon.py` 3939-3941) says that such a prompt opened a busy
period of its own, but hooks wait for the lock that the command holds, so it never does.
ReplyIsOwn excepts turns whose prompt hook was lost: the Stop of such a turn, after a turn that was escaped at
the terminal, is taken for the Stop of the earlier one. It also excepts a text that is read from the transcript for
a turn whose prompt hook gave up waiting: `on_stop` takes the bytes up to the size it measured for the turn's own
("the turn's bytes end here, before a later turn can write"), but an agent that goes on before its hooks are
answered may write a later turn first. That takes five disturbances and came up in the search for the inductive invariant.

### AskCards

Questions, merge asks and notices. A behaviour has a scene: the posts, messages and notices that may come, and
whether hours pass. A post stores the ask, its key and its card in one transaction; `Delivered`, `MessageStarts`
and `Replies` are the claim of an inbound message, the start of its handling and the answer to its sender, with
a crash (`Recovers`) between any two. `heard` and `toldOf` are histories of what posters and senders were told.
Text is a class (choice, free, control, empty); approval asks exist only to be listed, noted on and repeated.

### ReplyOutbox

A turn's reply goes to the outbox in parts, through the summariser, or into a batch; rows have owners, attempts, a
lane and a thread. `sending` is the row whose send is awaited; `operators` changes at any time. What is posted
beside the replies (cards, alerts, membership notices, details) is the `traffic` of a behaviour, so that they
need not all be present at once. Batch windows are compared with the wall clock by each call; `ClockBack` may run
them again at any time, that of the batch being rendered too. A batch that is suppressed because one contributor lost authority keeps the
replies of the others held: that is what `docs/admind.md` says, and NothingStranded counts such a row as held.
The gates that only delay a send are choices not to act.

### IngressReconnect

Everything runs on one event loop, so an action is what happens between two awaits. `pipe` is the transport, whose
close can miss its deadline (`late`); `sup` and `cut` are the supervisor and the explicit reconnect; `gate` is the
fence with the locks; `user` are the handlers that hold them. `group` has the true membership, the count that
was adopted and the changes under way; `stray` counts readers that were started beside a live transport.

### GatewayCustody and MaintenanceConsent

Both give an external queue permits that an operator consented to. A permit generation is committed to the
store and then published as files, with a crash between any two writes and a repair by the next call. In
`GatewayCustody` a command and a permit call may overlap (`cmdCall`, `issCall`), each with the row it has
read; the daemon's custody lock, a second fence, is not relied on. `MaintenanceConsent` has several proposals of one
operation, supersession, expiry by the boot clock, reboots, and the queue that consumes permits (external).

### AskFulfillment

Receipts and intents of answered asks. `versions` is the generation that the SQL triggers raise on every write,
`stamped` the verdict of the last verification and the generation it is about, `checking` a verification under way
with its snapshot. Writes by an older daemon are actions too. A text is a number, and so is its digest.

### SandboxSession

One session key over its generations: the record `rec`, the create ledger `led`, the watcher `watch`, and what
really exists: `box` (sandboxes), `out` (creates that may still appear), `pane`, `git` and `fate` (a branch and what
became of its commits). `job` is wsd's call under way, one durable write per action; a crash or a reboot falls
between any two, and the watcher runs on without wsd. Not modelled: a second key on the same branch, records
older than the create ledger.

### HarnessStore

The helper's request `req` under the store lock, one durable write per action: begin, two records with a hash
between them, intent, rename, seal, receipt; removal and recovery likewise. wsd's operations (`storeOp`) wait for an
answer that may be lost while the helper goes on. A tree's bytes are `good` or changed. Two stagings may
compete for one install name; they are drawn in order, which loses nothing as they are interchangeable.

### ActionJournal

Requests, decisions and dispatches as the reducers rebuild them, and `outside`: the shell the queue created, the
native decision, the process and its effect. Observations are truthful, but late, missing or lost. All requests
want the same resource. Not modelled: the capacity of the event log and the heart-proposal bit.

### MCWsdParts and MCAdmindParts

The parts of a daemon whose models share no state are checked in one run each. `part` says which part a
behaviour is about; the variables of the others are 0 and stay so, and each property is the component's own,
guarded by `part`. The actions begin
in states that the journal reaches, and in two stretches that a request's own record separates: a new request
beside a denied one is followed, with any fault, up to its dispatch (`filing`), and approved requests from there
(`dispatch`): two that want the one resource, the first being launched and no further fault, or one with a
fault. What came before a dispatch shows in it only through the records that it starts from. Asks, proposals,
messages, intents and events that are interchangeable are numbered in the order in which they come
(`NextIntent`, `NextHash`, `NextMid`, `EventIds`).

## Runs

| Run | Bounds | Shows |
|---|---|---|
| guard_faults | 1 bead, 2 generations, FailLimit 1, 1 crash, 1 journal loss, 1 outage | TypeOK, AtMostOnce, DispatchOnBeadFirst, Accounted (EarlierSettled, OutcomeTrue, CrashLoopStops), KeepsPromise |
| guard_live | 1 bead, 2 generations, FailLimit 2, 1 crash, 1 outage | LaunchEnds |
| beadops_any | ParkLimit 2, LaunchLimit 2, 2 defers, any 3 disturbances | RowsAgree (TypeOK, OperationsLegal, OpMatchesRow, DeferredOnRecord), WaitingIsQuiet, NoOneForgotten (NoOrphanClaim, StuckAsksHuman), ParkKeepsWork |
| beadops_live | ParkLimit 1, LaunchLimit 2, 1 defer, 3 of crash, fault, call, limit | BeadsMove (OpEnds, ParkedMoves, DueMoves) |
| beadops_tainted | 2 of call, taint | NoIllegalTransition is violated |
| beadops_shelved | 2 of edit, fault | ShelvedIsCommitted is violated |
| backup_crash | 2 cycles, 2 crashes, 1 stop, 1 fault, 3 deliveries, 1 foreign request | CompletedIsSealed, CopiedOnceInOrder, RecordsHonest (TypeOK, NativeHonest, PendingOwned), PendingEnds |
| backup_retain | 4 cycles over 3 days, 1 step back of the clock, windows of 2 | RetentionKeeps |
| asks | 2 cards, 2 messages received in order, 2 contents, 1 operator, any 2 disturbances, together at most MaxLoad = 3 | OneActive, AnswersTrue, DecisionOnRecord (TypeOK, RecordAgrees, ApprovedWasShown, ProofHolds), NoReplay, IssuedOnAuthority, MessageAnswered |
| turns_races | 2 messages (symmetric), 2 launches, any 3 of 17 kinds of disturbance | ReplyIsOwn, PromptsKept (PastedOnce, NoneForgotten), PastedIntoIdle |
| wsd_parts | sandbox: 2 generations, 1 of 10 kinds of disturbance; store: 2 stagings, 2 names, 1 of 8 faults; actions: 2 requests, 2 identities, 2 launches, 1 of 5 faults (none beside two dispatches) | SessionsGone (GoneIsGone), SessionsTracked (NoneUntracked), SessionCausesTrue (EndCauseTrue), SessionWorkKept (LifetimeWipLands, NoCommitLost), StorePublishes (PublishedIsApproved, EndedUnpublished), StoreKeepsInUse (InUseStays), ActionsExclusive (ResourceExclusive), ActionsDecided (OneDecision, EndTrue) |
| admind_parts | outbox: 2 turns, 2 operators, 2 parts, 2 sends, 1 batch, 1 fault; cards: 2 asks, 1 key, 2 messages, 2 notices, 8 scenes, all limits 1, 1 fault; fulfillment: 2 asks, 2 intents, 2 writes; custody: 3 generations, 2 commands, 2 faults; ingress: 3 subscriptions, 1 change, 1 late close; maintenance: 2 proposals, 2 messages, 2 generations, 1 fault | RepliesArrive (NothingStranded, PartsInOrder), RepliesToOwners (SentToOwners), CardsTrue (RetriedIsSame, ToldTrue), FulfilmentTrue (SuppressedIsTrue, AttestedOnce), CustodyHolds (RefusalHolds, ChainWhole), IngressSound (NoSwapUnseen, OneSubscription, CutoverLetsGo), MaintenanceOnce (OneSettlement, PublishedIsCommitted) |

Why the bounds are enough to be worth running. A second generation is what makes an earlier one stale, and
two cycles what makes a request late; a crash and a loss together give an older journal after a dispatch;
three disturbances cover an edit, a fault and a crash inside one operation and its retry; two cards and two
messages give every pair of handlers that meet at an await. In `turns_races` three disturbances give an escaped
turn, a typed one and the loss of a hook between them, and the second message is what a wrongly released queue
would paste. In the parts, two of each thing that competes (generations, stagings, requests, asks, proposals) and one
fault, which is a crash, a lost answer or a change of policy at any point; limits are 1, so that they are
reached. Custody needs two faults for a refusal against a repair. Retention needs more bundles than its windows,
hence four cycles and windows of two. Every action fires in some passing run. Deadlock is not checked: a
bead that is done, or a run whose bounds are used up, may rest.

Fairness. `guard_live` and `beadops_live` assume that wsd's ticks come (weak fairness of pickup, of the next
step, and of the runtime's return): the daemon's timers call them unconditionally. `backup_crash` assumes
that a start follows a crash and that the executor threads run. `asks` assumes weak fairness of the
loops and of the child's exit, which the code kills at a timeout, and strong fairness of the four actions
that queue on a lock, since `asyncio.Lock` wakes its waiters in order. No fairness is given to operators,
disturbances or external edits. The liveness runs leave out outside edits, lost journals and taints, which
the code hands to a human on purpose; LaunchEnds is checked for one bead, as a second one may keep the role.
MessageAnswered excepts a suspended attempt, a missing `approve-bead` and a failed store.

## Proofs

Every theorem is about the specification that TLC checks, for every value of the constants that meets the
module's assumptions: any sets of beads, cards, asks, operators and messages, any limits, any calendar, and any
number of cycles, crashes, faults and outages, since the bounds of the runs are constants of the proofs too. The
assumptions say that bounds and limits are natural numbers (limits at least one), that identifiers that are
counted (Intents, Proposals, ask ids, question keys) are positive, that a scene of AskCards has the kinds of posts and
messages the daemon accepts, that turns are finitely many, that a fresh ask has content 1 and that there is an operator;
TwoRequests is about `MCWsdParts` only. Each
safety property follows from an inductive invariant, which TLC checked before it was proved.

**LaunchGuardProofs.** TypeCorrect (TypeOK), DispatchedAtMostOnce (AtMostOnce), BeadKnowsFirst
(DispatchOnBeadFirst), OneCoderAlways (OneCoder), LaunchesAccounted (Accounted) and PromiseKept, the refinement
of `LaunchPromise`. The argument is in four invariants, each inductive with those before it:

- DispatchInv. AtMostOnce is not inductive: nothing in it stops a guard that stands before the call of the
  runtime from having made that call already. DispatchInv adds Formed (a dispatched entry exists) and Handover:
  between pin and call the bead's copy equals the journal's entry before the dispatch and tells of it after, and
  the runtime has not seen the generation. The copy survives a lost journal, so a restart finds there every
  dispatch the journal forgot.
- RoleInv. While the guard works on a bead past its role check, no other bead has a session.
- LedgerInv. That a generation is settled before the next one is called depends on all three ledgers at once. It
  says of the journal, of its backup and of the bead's copy that entries have no gaps and tell the truth
  (EntriesTrue), that a receipt is of a call (ReceiptsTrue), that the copy is in order (CopyInOrder), that the
  open operation's generation is journaled and that a later one is there only if the bead has this one settled
  (PinTrue, which is what makes an older journal safe), and what the guard has made sure of at each step
  (GuardsOp, StepsTrue, SeenTrue). That the generation pinned is above every called one needs the greatest
  element of a bounded set of naturals, the lemma Greatest, proved from the well-foundedness of the naturals.
- CrashInv. For a journal that was never lost: it knows all that the bead has (JournalWhole), only the last
  session is left to account (EndsTrue), the count lags the deaths by at most that one (DeathsCounted), and a
  bead at the limit has no launch open and no row that a resume takes up (LimitHeld).

PromiseKept maps Call to the promise's Launch (no session is running by RoleInv and SeenTrue, and all generations
called before are smaller by LedgerInv), the ends to End, Relisted to Back, and every other step to a stutter.
OneCoder has no run of its own: it needs two beads, and the theorem covers every number of them.

**PairedBackupProofs.** CompletedHasItsBundle, CopiesNeverReplay, RecordsAlwaysHonest and RetentionAlwaysKeeps, which
is an action property. BackupInv: there is one worker at a time and it works on the pending cycle (OneWorker,
WorkIsPending, Owned); all that names a cycle names its real native result (NativeTrue); what will be recorded
as copied is already sealed on disk (BundlesThere); the cycles admitted only go up (InOrder). Retention adds OwnNames:
the names of attempts are never used twice, so "newest" is one bundle and a bundle is not sealed twice.

**ApprovalAsksProofs.** OneCardActive, AnswersAlwaysTrue, DecisionsOnRecord, and the action properties
RunsNeverReplay and ChildOnAuthority. AskInv has the cards (filled, one active, linked to their attempts),
the counts, the bead's record, what was told, the snapshots that decide reads before it awaits, and the job that
holds `work_lock`. The heart is that admind records only through a child of the job under that lock, so an old
read-back that shows a decision stays true, and that every run of an attempt but its last answered HOLD.

**AdmindConsentProofs** proves the parts' own properties of AskFulfillment, GatewayCustody and MaintenanceConsent from
FulfillInv, CustodyInv and MaintInv; **AdmindPartsProofs** carries them to the specification composed in
`MCAdmindParts` (RepliesArrive, RepliesToOwners, CardsTrue, FulfilmentTrue, CustodyHolds, IngressSound, MaintenanceOnce), where a step of one part is no step
of another. It also holds the proofs about IngressReconnect, ReplyOutbox and AskCards. NoSwapUnseen and OneSubscription need three facts that no
single action shows: an acknowledgement of the present generation is of the present reader, and a reserved generation
is no reader's (GensTrue, WatchTrue), so the answer to a check that was asked under an earlier one is never adopted; a
check that cannot be adopted was asked while nothing was trusted, and one that can be has the membership unless word of
a change is still on its way (CheckTrue); and a supervisor out of its stop has the old transport closed and no
reconnect past its first step (SupTrue), which holds although either may begin while the other waits. That a count
outlives its reader only while a supervisor is there to void it needs FenceTrue: after a shutdown or a close of unknown
outcome, and while a reconnect stops it, no reader begins and nothing is acknowledged. TLC checked this
invariant on the ingress alone, with 3 generations and 2 changes, before it was proved. RepliesToOwners is an action
property: the sender decides from the owners a row was given when it was composed, maybe long ago, by the verbatim
reply, the summariser, the batch renderer, the hold after a failed send or `!details`. OutboxInv says that a row that a
request owns names the owner of every turn it shows, and that a row of the system shows none (Owned); that a turn which
ended keeps its owner through every later step (TurnsKept); and that what each task has in hand between two of its
steps has ended, with an owner on record for what `!details` is about to show (WorkInv). RepliesArrive says in which of
several places a reply is found, but not how it stays found when one of them fails. ArriveInv says it by the state of
the turn (TurnsCarried): a reply that is on its way as it is, or as a summary, has rows none of which failed, because
`send_failed` moves the turn to the batch in the step in which the row fails; a held one has its row; a batched one is in an
open batch, in the row of the batch's present attempt, or has been overtaken by a batch whose window was set back
(Overtaken). A batch has one row per attempt and all but the last failed
(BatchRows), so a row that is given up can only reopen the batch it belongs to. What the summariser, the renderer and
the sender have in hand is as they left it (HandsTrue), the one notice on its way is the unresolved one and tells all
that is not pending again (NoticesTrue), and a later part of a card stands behind its first part (CardsInOrder), which
with the order of a pass is why it is cut loose only after that is settled. TLC checked ArriveInv on the outbox alone (11 million states) before it was
proved. CardsTrue is for any posts,
messages and limits. Its invariant, CardInv, has the key's binding between the asks and what posters heard: an ask with
a key is the one the key is bound to, and so is every ask that was heard of under it (KeysTrue), which holds across an
answer, a cancellation or a lost reply because the binding is stored with the ask and never again. Of a message, nothing
is told before the step that settles it (MessagesTrue), a message about a card names an ask that is stored (ClaimsTrue),
and the answers are of the messages told "recorded", each in one place of one ask (AnswersTrue).

**BeadOpsProofs.** RowsAlwaysAgree, WaitingAlwaysQuiet, NoBeadForgotten and the action property ParksAlwaysKeepWork, for
any limits, cycles and disturbances. BeadInv is one invariant of the bead's row, its open operation and what wsd
has in hand: the steps each kind of operation can be at (OpShape) and the row they go with (RowOfOp); that an effect
is remembered only while wsd works on the operation it belongs to (ControlKnows); that a deferral under way is on
record (Recorded) and only a claim read back in vain is held as uncertain (HoldKnows). WaitingIsQuiet and ParkKeepsWork
are about the end of an operation; what makes them inductive is Stops: from which step of each operation on the
session is gone and the work committed, kept over the crashes that repeat a step, as long as nobody else touched
the bead. NoOneForgotten needs BeadKnown, what the labels and the claim say at each step.

**AgentTurnsProofs.** PromptsAlwaysKept, RepliesAlwaysOwn and PromptsAlwaysIntoIdle, for any messages, launches and
disturbances, along three invariants, each inductive with the ones before it.

PromptInv is for PromptsKept. PastedOnce and NoneForgotten are
not inductive: PromptInv adds that the queue holds a message once and only while it is received (HeldOnce), that the
reservation is dispatched and alone can be anchored (FlightDispatched), that nothing which may still be dispatched has
reached the pane, nor what is being sent before its paste is done (NotYetPasted), and that a crash leaves no queue and
no job (DownHoldsNothing).

ReplyInv is for ReplyIsOwn, which looks at a reply long after the agent's turn. Every step is first shown to be one of a few
moves of the agent and of the line of hooks, accepted or not (StepMoves). Then: the hooks wait in the order of what
they tell of, the transcript is in the order of the turns, and a waiting prompt's turn has written nothing unless its
agent went on without the answer (LineInv); the agents in the pane come one after the other (SessionInv); the size
measured for a hook separates what was written before it from what came after (SeenInv); what has been applied is past
for the agent and for all hooks that wait (PastInv); hence the anchor is the text of the last turn admind knows of, the
mark is where that turn begins, and each reply is in the thread it belongs to (WordInv); and what a Stop keeps while
it reads the transcript is still about the turn, or is seen not to be (LookInv).

IdleInv is for PastedIntoIdle. Its last conjunct, CoverInv, names what keeps the queue shut while a turn runs whose hook
came through: a launch that gets no prompts, the busy period, the hold, or a last hook above the floor; and what
still does when a failed send takes its busy period back. It needs that a reservation is in a busy period (FlightInv),
that an agent of another session than the launch's is neither ready nor adopted (StandInv), and that the last hook in the
line is the running turn's prompt, the floor a prefix of the line, and a turn that a finished command finds running
was begun during it (LastInv).

**WsdPartsProofs** is about ActionJournal, SandboxSession and HarnessStore. ActionsSound is for any number of requests from an empty journal;
ResourceNeverShared and DecisionsAndEndsTrue carry it to the behaviours of `MCWsdParts`, whose first states are of two
requests (TwoRequests). ActionInv relates the five records of each request: nothing is written natively before the
write is issued and what is past it is what stands (DecisionTrue); a launcher that may be started again has done
nothing, and a settled dispatch has no process (DispatchTrue); a reconciliation child exists only where no launcher can
be started again, so its reading that the process is gone stays true (KidTrue); and a dispatch is of a filed request
with a committed approval (EndsTrue). With one holder of the resource at a time, live processes are the holder's.

Its second part is about the sandbox session, for any number of generations and disturbances of any kinds
(SandboxBounds). GoneStaysGone, SandboxesAlwaysTracked, SessionWorkAlwaysKept and EndCausesAlwaysTrue rest on three
invariants, the last one inductive with the first two:

- SandboxInv, generation by generation. GoneIsGone says nothing of what an end, a sweep or a watcher has read and not
  yet written. SandboxInv adds that whoever read a settlement before its delete read it after the create was over
  (WatcherTrue, EndingTrue, SweepTrue), that an entry is settled only then (EntryFits), and what the record and the
  steps of a launch say of the create (RecordTrue, LaunchTrue). A generation that the operator settled by hand is
  excepted, as in the property.
- WorkInv. Commits that are nowhere else are in the directory of a seeded record, or the operator is discarding them
  (PrivateTrue); a launch that may seed has none (WorkLaunches); an ended record with such commits says that it is
  unlanded (PhaseTrue); the resolve's intent tells how far the directory went (IntentTrue, WorkResolves); and an
  owed commit is made, resolved, or still owed by the record (OwedTrue).
- CauseInv. A started session lives in its sandbox and never after a death (PaneTrue); a running one whose pane is not
  live has died, or was killed with or without a marker, and a marked one that died was confirmed (StartedTrue); and
  what an end has in hand, its reason, its proof and the liveness it read, is true of the session until it is
  written (CauseEnds), although the agent, the watcher and the clock go on between the reading and the write.

Its third part is about the harness store. StoreSound is for any stagings, names and faults; InstallsAlwaysApproved and
InstallsInUseStay carry it to the behaviours of `MCWsdParts`. The properties speak of the files as a request finds
them, and a request leaves them half written at any step, so StoreInv says what each step may count on:

- at most one intent exists, and the helper is at it or still has it to recover (StoreIntents), so that a request past
  its recovery finds none;
- a record was of bytes that had been read: one with the tree's present change time is of good bytes (StoreRecords).
  This is what R1 = R2 and the re-reading in recovery give, and check_fast compares only records;
- what has a receipt or an intent was approved, and its row is still approved or published unless its tree was
  changed (StoreApproved): an ended row is therefore published by nobody;
- an intended staging has its name alone and the name being published is free up to the rename (OwnNames, StoreNames),
  although a removal, a recovery or another staging of the same name may come between two requests;
- what is launched, selected, next to roll back to or picked by a `use` under way is Whole: one receipt, its tree, its
  manifest and its record agree. No removal under way is of such an install, and none is under way while an approved
  row is owed a publication (StoreUses). The last also makes "failed" and "conflict" true answers when they end a row.

TLC checked StoreInv on the store alone, with one fault in full, before it was proved. The proof attempt found a fault of
the model: the outcome of a staging that the store does not know had been written as no answer at all; it is an answer
now ("unknown"), at which `_settle` leaves the row approved.

Only model-checked: liveness (LaunchEnds, BeadsMove, PendingEnds, MessageAnswered), as reasoning under fairness is
beyond the prover. Every safety invariant and action property that a passing run checks is proved.

## Findings

- `beadops_tainted`: a taint report for a bead parked on a question asks for WAITING_INPUT -> PARKING, which
  `states.ALLOWED` does not have. `Journal.set_state` raises, the notice stays in the queue, and every later
  pickup of the workstream raises at it until the report is cleared or wsd restarts.
- `beadops_shelved`: `_shelve` says there is "nothing to stop or commit", but the resume of a bead whose
  session died can be shelved with that session's work still uncommitted in the worktree.

Three more disagreements came up while modelling; the models follow the code, and the properties name the exception.

- `open_batch` says that a batch whose window has passed takes no more replies (`store.py` 816-819), and `send_failed`
  that a reply is never stranded (`daemon.py` 4869). Both compare with the wall clock anew: when it is set back while
  `render_batch` is awaited (4749), a reply joins the batch that is about to be posted and closed without it. It is shown
  by `!details` only, or if the post fails for good (NothingStranded, Overtaken).
- `may_post` posts only while "the membership subscription is confirmed active" (`daemon.py` 653-656). When the reader ends,
  its transport is closed first, for up to 2 s (`control.py` 354-357), and only then does the supervisor void the
  count (`ingress_reconnect.py` 368-371): a change of the group in that window is not seen (NoSwapUnseen, TrustExpires).
- `docs/admind/maintenance-recovery.md` 89-91 lets a proposal be superseded when its windows have expired "or belong to a
  different verified boot"; `recovery.py` 1162-1176 refuses after a reboot, and beside the expiry asks for the queue's
  certificate that the permit was not consumed. `Supersede` has the code's rule.

## Not modelled, and why

Rendering, parsing, redaction, command lines and the schema of the databases have no coordination of their
own. The self-test and host reads decide properties of the kernel's interface. The gatekeeper is a pure
validation. The journal upgrade, the migration of guard_state, `redact_pending_outbox`, the account binding and the
reaping of old rows are each one transaction over a snapshot. The validation of proof documents in
`admind/recovery.py` and of records in `actions/codec.py` is a predicate of its input, which the models take as
given. The deployment ledgers, the acceptance ledger and the delivery policy are offline or disabled code that no daemon
runs. The session socket, the scheduled effects, draining and reload of the lanes, and the observer are left: they keep
state, and are the next candidates.

## Plan

1. AgentTurns, continued: the liveness of the queue (a message leaves it unless recovery waits for an operator).
2. The session socket and its intake, composed with the record of SandboxSession.
3. Scheduled effects as an extension of PairedBackup, then the lanes and the observer.
