------------------------------ MODULE BeadOps ------------------------------
(***************************************************************************)
(* The life of one bead of a workstream: the journaled operations wsd runs *)
(* on it (pickup, park, defer, undefer, resume, release, escalate), the    *)
(* pickup pass and the recovery pass that open and replay them, and the    *)
(* sweep that reconciles the bead's row with beads and the runtime         *)
(* (wsd/park.py, scheduler.py, sweep.py, recovery.py, states.py).          *)
(*                                                                         *)
(* The journal survives a crash; `did' does not: it says that the effect   *)
(* of the open operation's next step has been done and the step not yet    *)
(* journaled.  Parker.entry makes wsd one thread of control (pc, busy);    *)
(* people, the clock, the runtime and other workers move between any two   *)
(* of its steps.  The launch guard's own protocol is module LaunchGuard;   *)
(* here it is one launch with its possible ends.                           *)
(***************************************************************************)
EXTENDS Integers, Sequences

CONSTANTS
    ParkLimit,      \* limits.park_attempts_before_human
    LaunchLimit,    \* limits.launch_failures_before_human
    MaxDefers,      \* bound: deferral records of the session
    MaxTroubles,    \* bound: disturbances of all kinds together
    Happens         \* the kinds that may happen

\* crash: a crash or an interrupted pass; loss: the journal is lost; edit: people or other workers change
\* the bead; fault: a session dies, the runtime is out; call: the operator parks, defers, releases or
\* reloads; taint, limit: a session reports an install taint or a usage limit
AllKinds == {"crash", "loss", "edit", "fault", "call", "taint", "limit"}

ASSUME LimitsAssumption == ParkLimit \in Nat \ {0} /\ LaunchLimit \in Nat \ {0}
ASSUME BoundsAssumption ==
    MaxDefers \in Nat /\ MaxTroubles \in Nat /\ Happens \subseteq AllKinds

VARIABLES
    op,         \* journal: the open operation of the bead
    row, why,   \* journal: the bead's state row and, where it matters, its reason
    defers,     \* journal: the reasons of the session's deferral records, by number
    over,       \* journal: the current record carries a re-gate's over-mark
    rhold,      \* journal: the RUNTIME_UNAVAILABLE hold
    chold,      \* journal: the CLAIM_UNCERTAIN hold of this bead
    limbo,      \* journal: a dispatched generation without a receipt
    labels,     \* bead: wsd's labels and `needs-human`
    blockers,   \* bead: the kinds of its open blockers
    claim,      \* bead: who holds it ("odd": our worker, not in progress)
    routed,     \* bead: btq's `matches` and `design_allowed` pass
    sess,       \* runtime: a session of the bead is listed
    work,       \* worktree: the session's work is committed, or not
    up,         \* runtime: available
    due,        \* clock: the current quota deferral's time has come
    pc,         \* what wsd is doing for the workstream
    busy,       \* wsd is working on the open operation
    did,        \* the effect of the next step is done, not journaled
    signals,    \* reports of the session not yet handled
    illegal,    \* history: a set_state was refused as an illegal transition: an operation's, a report's
    touched,    \* history: somebody else changed the bead's labels or claim, or the journal was lost
    troubles    \* history: how many disturbances there were

records == <<defers, over>>
holds   == <<rhold, chold>>
journal == <<op, row, why, records, holds, limbo>>
bead    == <<labels, blockers, claim, routed>>
world   == <<sess, work, up, due>>
control == <<pc, busy, did, signals>>
history == <<illegal, touched>>
vars    == <<journal, bead, world, control, history, troubles>>

Trouble(kind) == kind \in Happens /\ troubles < MaxTroubles /\ troubles' = troubles + 1

Labels   == {"parked", "held", "deferred", "human"}
Blockers == {"bead", "input"}
Claims   == {"ours", "free", "other", "closed", "gone", "odd"}
Waiting  == {"PARKED", "WAITING_INPUT", "HELD"}
Keep     == {"STUCK", "HELD"}
ParkedLike == Waiting \cup {"STUCK"}
BeadStates == {"NONE", "CLAIMING", "STARTING", "RUNNING", "PARKING", "PARKED", "WAITING_INPUT",
               "HELD", "STUCK", "RESUMING", "DEFERRED", "CLOSED", "DROPPED"}
Whys     == {"none", "quota", "account", "unclaimable", "repointed"}
Unlisted == {"unclaimable", "repointed"}
Kinds    == {"none", "pickup", "park", "resume", "undefer", "release", "escalate"}
DeferSteps == {"d.recorded", "d.stopped", "d.committed", "d.confirmed", "d.labelled"}
Steps    == {"intent", "stopped", "committed", "blocked", "labelled", "unlabelled", "gated",
             "regate", "claimed", "placed", "worktree"} \cup DeferSteps
Op == [kind : Kinds, step : Steps, attempts : 0 .. ParkLimit + LaunchLimit, hold : BOOLEAN,
       blocks : SUBSET Blockers, limit : BOOLEAN, n : 0 .. MaxDefers, noted : BOOLEAN,
       started : BOOLEAN]

NewOp(kind, step) == [kind |-> kind, step |-> step, attempts |-> 0, hold |-> FALSE, blocks |-> {},
                      limit |-> FALSE, n |-> 0, noted |-> FALSE, started |-> FALSE]
NoOp == NewOp("none", "intent")

\* states.ALLOWED: the transitions set_state lets through.
ALLOWED ==
    [NONE          |-> {"CLAIMING"},
     CLAIMING      |-> {"STARTING", "DROPPED", "STUCK", "CLOSED"},
     STARTING      |-> {"RUNNING", "PARKING", "STUCK", "CLOSED", "DEFERRED"} \cup Waiting,
     RUNNING       |-> {"PARKING", "RESUMING", "STUCK", "CLOSED"},
     PARKING       |-> {"PARKED", "WAITING_INPUT", "HELD", "STUCK", "CLOSED", "DEFERRED"},
     PARKED        |-> ParkedLike \cup {"RESUMING", "CLOSED", "PARKING"},
     WAITING_INPUT |-> ParkedLike \cup {"RESUMING", "CLOSED"},
     HELD          |-> ParkedLike \cup {"RESUMING", "CLOSED", "DEFERRED"},
     RESUMING      |-> {"RUNNING", "PARKING", "PARKED", "WAITING_INPUT", "HELD", "STUCK", "CLOSED",
                        "DEFERRED"},
     STUCK         |-> ParkedLike \cup {"RESUMING", "CLOSED", "DEFERRED"},
     DEFERRED      |-> {"PARKING", "RESUMING", "HELD", "STUCK", "CLOSED"},
     CLOSED        |-> {"CLAIMING"},
     DROPPED       |-> {"CLAIMING"}]

allowed(src, dst) == src = dst \/ dst \in ALLOWED[src]

------------------------------
\* A bead in the queue, wsd about to start.
Init ==
    /\ op = NoOp /\ row = "NONE" /\ why = "none"
    /\ defers = <<>> /\ over = FALSE /\ rhold = FALSE /\ chold = FALSE /\ limbo = FALSE
    /\ labels = {} /\ blockers = {} /\ claim = "free" /\ routed = TRUE
    /\ sess = FALSE /\ work = "clean" /\ up = TRUE /\ due = FALSE
    /\ pc = "down" /\ busy = FALSE /\ did = "no" /\ signals = <<>>
    /\ illegal = {} /\ touched = FALSE
    /\ troubles = 0

\* Journal.set_state: a checked move of the row.
SetState(state, reason) ==
    /\ row' = state /\ why' = reason
    /\ illegal' = illegal \cup IF allowed(row, state) THEN {} ELSE {"operation"}

\* Journal.adopt: the row is rebuilt unchecked from what beads and the runtime say.
Adopt(state, reason) == row' = state /\ why' = reason /\ UNCHANGED illegal

SameRow == UNCHANGED <<row, why, illegal>>

\* What wsd does after the operation it works on ended or has to wait.
After == [recover |-> "resweep", resweep |-> "idle", signals |-> "signals", sweep |-> "replay",
          replay |-> "cands", cands |-> "ready", ready |-> "idle", call |-> "idle"]

\* The handler returns; a handled report leaves the queue.
Yield ==
    /\ busy' = FALSE /\ did' = "no" /\ pc' = After[pc]
    /\ signals' = IF pc = "signals" THEN Tail(signals) ELSE signals

\* The handler goes on with the operation.
GoOn(d) == did' = d /\ UNCHANGED <<pc, busy, signals>>

OpStep(step) == op' = [op EXCEPT !.step = step]

\* Parker._finish: the operation ends and the row moves, in one transaction.
Finish(state, reason) ==
    /\ op' = NoOp /\ SetState(state, reason) /\ Yield
    /\ UNCHANGED <<records, holds, limbo, bead, world, touched, troubles>>

\* Parker._stuck: the operation ends STUCK and its escalation is opened with it.
StuckFrom ==
    /\ op' = NewOp("escalate", "intent") /\ SetState("STUCK", "none") /\ GoOn("no")

\* Parker.escalate_from.
EscalateFrom ==
    /\ StuckFrom
    /\ UNCHANGED <<records, holds, limbo, bead, world, touched, troubles>>
\* Parker._spend: one failed attempt, escalating in the same transaction when it was the last.
Spend(limit) ==
    /\ IF op.attempts + 1 >= limit
       THEN StuckFrom
       ELSE op' = [op EXCEPT !.attempts = @ + 1] /\ SetState(row, "none") /\ Yield
    /\ UNCHANGED <<records, holds, bead, world, touched, troubles>>

\* Where a pass goes on that could not confirm a stop: recovery fails, a pickup holds.
HoldPass ==
    /\ busy' = FALSE /\ did' = "no" /\ UNCHANGED signals
    /\ pc' = IF pc \in {"recover", "resweep"} THEN "down" ELSE "idle"

\* Parker._runtime_hold: the workstream holds, the operation stays open at its step.
RuntimeHold ==
    /\ rhold' = TRUE /\ SetState(row, "none") /\ HoldPass
    /\ UNCHANGED <<op, records, chold, limbo, bead, world, touched, troubles>>

\* ensure_label, in the order the code asks for them: the next label to change.
Pending(want, drop) == (want \ labels) \cup (drop \cap labels)
NextLabel(want, drop) ==
    IF "held" \in Pending(want, drop) THEN "held" ELSE CHOOSE l \in Pending(want, drop) : TRUE
Labelled(want, drop) == did = "done" \/ Pending(want, drop) = {}

WriteLabel(want, drop) ==
    /\ did = "no" /\ Pending(want, drop) # {} /\ claim = "ours"
    /\ LET l == NextLabel(want, drop) IN
        /\ labels' = IF l \in want THEN labels \cup {l} ELSE labels \ {l}
        /\ GoOn(IF Pending(want, drop) = {l} THEN "done" ELSE "no")
    /\ UNCHANGED <<journal, blockers, claim, routed, world, history, troubles>>

\* btq refuses the write: the bead is no longer ours.
NotOurs(want, drop) ==
    /\ did = "no" /\ Pending(want, drop) # {} /\ claim \notin {"ours", "gone"}

parked_state == IF "held" \in labels THEN "HELD"
                ELSE IF "input" \in blockers THEN "WAITING_INPUT" ELSE "PARKED"

resumable == /\ "parked" \in labels /\ labels \cap {"held", "human"} = {}
             /\ blockers = {}

undeferrable == /\ "deferred" \in labels /\ labels \cap {"held", "human"} = {}
                /\ ("parked" \in labels \/ blockers = {})

Current == IF defers = <<>> THEN "none" ELSE defers[Len(defers)]

------------------------------
(* Escalation, park and the defer tail. *)

\* Parker.replay_escalate: `needs-human' on the bead; a bead not ours keeps its STUCK row.
ReplayEscalate ==
    /\ busy /\ op.kind = "escalate"
    /\ \/ WriteLabel({"human"}, {})
       \/ /\ Labelled({"human"}, {}) \/ NotOurs({"human"}, {})
          /\ op' = NoOp /\ SameRow /\ Yield
          /\ UNCHANGED <<records, holds, limbo, bead, world, touched, troubles>>

\* Parker.park: the journaled intent.
Park(blocks, hold, next) ==
    /\ op' = [NewOp("park", "intent") EXCEPT !.hold = hold, !.blocks = blocks]
    /\ SetState("PARKING", "none")
    /\ busy' = TRUE /\ did' = "no" /\ pc' = next
    /\ UNCHANGED <<records, holds, limbo, bead, world, signals, touched>>

Parking == op.kind = "park" \/ op.step \in DeferSteps
\* Mutant: a stopped park goes on without its commit.
StoppedCommitted == IF op.step = "d.recorded" THEN "d.committed" ELSE "committed"

\* The step a stop, and the commit after it, are journaled as.
StopStep   == op.step = "d.recorded" \/ (op.kind = "park" /\ op.step = "intent")
CommitStep == op.step \in {"stopped", "d.stopped"}
Stopped    == IF op.step = "d.recorded" THEN "d.stopped" ELSE "stopped"
Committed  == IF op.step = "d.stopped" THEN "d.committed" ELSE "committed"

\* A budget spent before the replay: Parker.replay_park, Parker.defer_tail and Parker.launch.
Limit == IF Parking THEN ParkLimit ELSE LaunchLimit
Spent == op.attempts >= Limit

SpentBudget == busy /\ Parking /\ did = "no" /\ Spent /\ EscalateFrom

\* replay_park and defer_tail: the bead's sessions are stopped.  The defer lists them again.
StopSessions ==
    /\ busy /\ StopStep /\ did = "no" /\ ~Spent /\ up
    /\ \/ /\ sess' = FALSE /\ GoOn("done")
          /\ UNCHANGED <<journal, bead, work, up, due, history, troubles>>
       \/ /\ op.step = "d.recorded" /\ sess /\ Trouble("fault")
          /\ rhold' = TRUE /\ SetState(row, "none") /\ HoldPass
          /\ UNCHANGED <<op, records, chold, limbo, bead, world, touched>>

SessionsStopped ==
    /\ busy /\ StopStep /\ did = "done" /\ OpStep(Stopped) /\ GoOn("no") /\ SameRow
    /\ UNCHANGED <<records, holds, limbo, bead, world, touched, troubles>>

StopUnavailable == busy /\ StopStep /\ did = "no" /\ ~Spent /\ ~up /\ RuntimeHold

\* gitwip.wip_commit in the verified worktree of a bead that is still ours.
CommitWip ==
    /\ busy /\ CommitStep /\ did = "no" /\ ~Spent
    /\ \/ claim # "ours" /\ Finish("STUCK", "none")
       \/ claim = "ours" /\ EscalateFrom
       \/ claim = "ours" /\ Spend(ParkLimit) /\ UNCHANGED limbo
       \/ /\ claim = "ours" /\ work' = "clean" /\ GoOn("done")
          /\ UNCHANGED <<journal, bead, sess, up, due, history, troubles>>

WipCommitted ==
    /\ busy /\ CommitStep /\ did = "done" /\ OpStep(Committed) /\ GoOn("no") /\ SameRow
    /\ UNCHANGED <<records, holds, limbo, bead, world, touched, troubles>>

\* replay_park, step `committed': the blocking edges.
AddBlockers ==
    /\ busy /\ op.kind = "park" /\ op.step = "committed" /\ ~Spent
    /\ \/ /\ did = "no" /\ ~(op.blocks \subseteq blockers) /\ claim = "ours"
          /\ blockers' = blockers \cup op.blocks /\ GoOn("done")
          /\ UNCHANGED <<journal, labels, claim, routed, world, history, troubles>>
       \/ /\ did = "done" \/ (op.blocks \subseteq blockers /\ claim # "gone")
          /\ OpStep("blocked") /\ GoOn("no") /\ SameRow
          /\ UNCHANGED <<records, holds, limbo, bead, world, touched, troubles>>
       \/ /\ did = "no" /\ ~(op.blocks \subseteq blockers) /\ claim \notin {"ours", "gone"}
          /\ Finish("STUCK", "none")

\* The labels a park puts on: `v2:held' first for an operator's hold.
ParkLabels == IF op.hold THEN {"held", "parked"} ELSE {"parked"}

\* A step that changes labels, from its journaled step to the next.
LabelStep(step, want, drop, next) ==
    /\ busy /\ op.step = step
    /\ \/ WriteLabel(want, drop)
       \/ /\ Labelled(want, drop) /\ claim # "gone"
          /\ OpStep(next) /\ GoOn("no") /\ SameRow
          /\ UNCHANGED <<records, holds, limbo, bead, world, touched, troubles>>
       \/ NotOurs(want, drop) /\ Finish("STUCK", "none")

LabelParked == op.kind = "park" /\ ~Spent /\ LabelStep("blocked", ParkLabels, {}, "labelled")

\* Parker._finish_defer: needs-human, then v2:held, then DEFERRED.
FinishDefer ==
    IF op.n # Len(defers) THEN EscalateFrom
    ELSE IF "human" \in labels THEN Finish("STUCK", "none")
    ELSE IF "held" \in labels THEN Finish("HELD", "none")
    ELSE Finish("DEFERRED", Current)

\* The end of a park or a defer: the comment, once, then the row's final state.
CommentAndEnd ==
    /\ busy /\ Parking /\ op.step \in {"labelled", "d.labelled"} /\ ~Spent /\ claim # "gone"
    /\ \/ /\ ~op.noted /\ claim = "ours"
          /\ op' = [op EXCEPT !.noted = TRUE] /\ GoOn("no") /\ SameRow
          /\ UNCHANGED <<records, holds, limbo, bead, world, touched, troubles>>
       \/ ~op.noted /\ claim # "ours" /\ Finish("STUCK", "none")
       \/ op.noted /\ op.step = "labelled" /\ Finish(parked_state, "none")
       \/ op.noted /\ op.step = "d.labelled" /\ FinishDefer

\* Mutant: the record is journaled without the row.
RecordDeferUnmoved(o, reason) ==
    /\ Len(defers) < MaxDefers
    /\ defers' = Append(defers, reason) /\ over' = FALSE /\ due' = FALSE
    /\ op' = [o EXCEPT !.step = "d.recorded", !.n = Len(defers) + 1, !.noted = FALSE]
    /\ SameRow

\* Parker._record_defer: the next record, the operation's defer step and the row, at once.
RecordDefer(o, reason) ==
    /\ Len(defers) < MaxDefers
    /\ defers' = Append(defers, reason) /\ over' = FALSE /\ due' = FALSE
    /\ op' = [o EXCEPT !.step = "d.recorded", !.n = Len(defers) + 1, !.noted = FALSE]
    /\ SetState("PARKING", "none")

\* Parker._defer_within: the open operation goes on as a defer.
DeferWithin(reason) ==
    /\ RecordDefer(op, reason) /\ GoOn("no")
    /\ UNCHANGED <<holds, limbo, bead, sess, work, up, touched, troubles>>

\* Parker.open_defer, Parker.limit and the re-gate's new deadline: a PARK op that defers.
OpenDefer(o, reason, next) ==
    /\ RecordDefer(o, reason)
    /\ busy' = TRUE /\ did' = "no" /\ pc' = next
    /\ UNCHANGED <<holds, limbo, bead, sess, work, up, signals, touched>>

\* Parker._confirm: a trusted read keeps the untrusted record, or supersedes it in the step's
\* transaction (due at once if the gate gives an account).
Confirm ==
    /\ busy /\ op.step = "d.committed" /\ op.limit /\ ~Spent /\ GoOn("no") /\ SameRow
    /\ \/ OpStep("d.confirmed") /\ UNCHANGED <<records, due>>
       \/ /\ Len(defers) < MaxDefers /\ op.n = Len(defers) /\ over' = FALSE
          /\ op' = [op EXCEPT !.step = "d.confirmed", !.n = @ + 1, !.noted = FALSE]
          /\ \E reason \in {"quota", "account"} : defers' = Append(defers, reason)
          /\ due' \in IF defers'[Len(defers')] = "quota" THEN BOOLEAN ELSE {FALSE}
    /\ UNCHANGED <<holds, limbo, bead, sess, work, up, touched, troubles>>

LabelDeferred ==
    /\ ~Spent /\ op.step = (IF op.limit THEN "d.confirmed" ELSE "d.committed")
    /\ LabelStep(op.step, {"deferred"}, {}, "d.labelled")

------------------------------
(* The launch guard, resume, undefer and release. *)

Verdicts == {"account", "deadline", "changed"}
Reason(verdict) == IF verdict = "deadline" THEN "quota" ELSE "account"

\* The operation has come to Parker.launch.
AtGuard == /\ busy
           /\ \/ op.kind = "pickup" /\ op.step = "worktree"
              \/ op.kind = "resume" /\ op.step = "unlabelled"
              \/ /\ op.kind = "undefer" /\ op.step = "unlabelled"
                 /\ "parked" \notin labels \/ did # "no"

\* Parker.launch before it looks at the bead.
GuardWaits ==
    /\ AtGuard /\ did = "no"
    /\ \/ Spent /\ EscalateFrom
       \/ /\ ~Spent /\ (~up \/ rhold \/ chold)
          /\ rhold' = (rhold \/ ~up) /\ Yield /\ SameRow
          /\ UNCHANGED <<op, records, chold, limbo, bead, world, touched, troubles>>

GuardGoes == AtGuard /\ did = "no" /\ ~Spent /\ up /\ ~rhold /\ ~chold /\ claim # "gone"
Runnable  == GuardGoes /\ "human" \notin labels /\ claim = "ours" /\ routed
Blocked   == labels \cap {"held", "parked"} # {} \/ blockers # {}

\* The guard's checks: `needs-human', the claim; and what it escalates: routing, the record, the
\* worktree, the configuration, a generation without a receipt, the crash count (Parker._account).
GuardRefuses ==
    /\ GuardGoes
    /\ \/ ("human" \in labels \/ claim # "ours") /\ Finish("STUCK", "none")
       \/ "human" \notin labels /\ claim = "ours" /\ EscalateFrom

\* Mutant: a bead with a listed session is shelved as well.
ShelvableListed == Blocked

\* Not runnable now, and no session to stop.
Shelvable == Blocked /\ ~sess

\* Parker._shelve: back to waiting, parked.
GuardShelves ==
    \/ Runnable /\ Shelvable /\ WriteLabel({"parked"}, {})
    \/ Runnable /\ Shelvable /\ "parked" \in labels /\ Finish(parked_state, "none")
    \/ AtGuard /\ did = "done" /\ claim # "gone" /\ Finish(parked_state, "none")

\* The operation's own receipt says that it started, or the bead's session is live.
GuardSettles ==
    Runnable /\ ~Blocked /\ ~limbo /\ (op.started \/ sess) /\ Finish("RUNNING", "none")

\* Parker._pin: the gate defers the bead inside the operation, or a generation is dispatched.
GuardPins ==
    /\ Runnable /\ ~Blocked /\ ~limbo /\ ~op.started /\ ~sess
    /\ \/ \E v \in Verdicts \ {"account"} : DeferWithin(Reason(v))
       \/ /\ limbo' = TRUE /\ GoOn("call") /\ SameRow
          /\ UNCHANGED <<op, records, holds, bead, world, touched, troubles>>

\* runtime.launch, once the bead has the dispatched entry: it starts, refuses, is unavailable, or
\* can't say whatever it did.
GuardCalls ==
    /\ AtGuard /\ did = "call"
    /\ \/ claim \notin {"ours", "gone"} /\ Finish("STUCK", "none")
       \/ /\ claim = "ours" /\ up /\ sess' = TRUE /\ work' = "dirty" /\ GoOn("asked")
          /\ UNCHANGED <<journal, bead, up, due, history, troubles>>
       \/ claim = "ours" /\ limbo' = FALSE /\ Spend(LaunchLimit)
       \/ /\ claim = "ours" /\ ~up /\ rhold' = TRUE /\ limbo' = FALSE /\ SetState(row, "none") /\ Yield
          /\ UNCHANGED <<op, records, chold, bead, world, touched, troubles>>
       \/ /\ claim = "ours" /\ StuckFrom /\ sess' \in {sess, TRUE} /\ work' = "dirty"
          /\ UNCHANGED <<records, holds, limbo, bead, up, due, touched, troubles>>

\* The receipt is journaled; then the outcome goes on the bead and the operation ends RUNNING.
GuardReceives ==
    /\ AtGuard /\ did = "asked" /\ op' = [op EXCEPT !.started = TRUE] /\ limbo' = FALSE
    /\ GoOn("rcpt") /\ SameRow
    /\ UNCHANGED <<records, holds, bead, world, touched, troubles>>

GuardEnds ==
    /\ AtGuard /\ did = "rcpt"
    /\ \/ claim = "ours" /\ Finish("RUNNING", "none")
       \/ claim \notin {"ours", "gone"} /\ Finish("STUCK", "none")

\* Parker.replay_resume, step `intent': `v2:parked' comes off a bead that is still resumable.
ReplayResume ==
    /\ busy /\ op.kind = "resume" /\ op.step = "intent" /\ (did = "done" \/ claim # "gone")
    /\ \/ /\ did = "no" /\ "parked" \in labels /\ ~resumable
          /\ Finish(IF "human" \in labels THEN "STUCK" ELSE parked_state, "none")
       \/ /\ did = "done" \/ "parked" \notin labels \/ resumable
          /\ LabelStep("intent", {}, {"parked"}, "unlabelled")

\* Parker._undefer_gate: the checks, then the account gate.
UndeferGate ==
    /\ busy /\ op.kind = "undefer" /\ op.step = "intent" /\ claim # "gone"
    /\ IF op.n # Len(defers) THEN Finish("DEFERRED", Current)
       ELSE IF "human" \in labels THEN Finish("STUCK", "none")
       ELSE IF "held" \in labels THEN Finish("HELD", "none")
       ELSE IF blockers # {} /\ "parked" \notin labels THEN Finish("DEFERRED", Current)
       ELSE \/ EscalateFrom
            \/ /\ OpStep("gated") /\ GoOn("no") /\ SameRow
               /\ UNCHANGED <<records, holds, limbo, bead, world, touched, troubles>>
            \/ DeferWithin("quota")
            \/ Current = "quota" /\ DeferWithin("account")
            \/ /\ Current = "account" /\ over' = FALSE
               /\ op' = NoOp /\ SetState("DEFERRED", "account") /\ Yield
               /\ UNCHANGED <<defers, holds, limbo, bead, world, touched, troubles>>
\* Parker.replay_undefer after the gate.
UndeferUnlabel == op.kind = "undefer" /\ LabelStep("gated", {}, {"deferred"}, "unlabelled")

UndeferParked ==
    /\ busy /\ op.kind = "undefer" /\ op.step = "unlabelled" /\ claim # "gone"
    /\ "parked" \in labels /\ did = "no" /\ Finish(parked_state, "none")

\* Parker.replay_release: both labels off, then where the bead's labels send it.
ReleaseUnlabel ==
    op.kind = "release" /\ LabelStep("intent", {}, {"held", "human"}, "unlabelled")

\* A bead with `v2:deferred' is re-gated, a parked one waits on, any other one gets a resume; its
\* sessions outside the record are stopped first (Parker._record_for_release).
ReleaseOn ==
    /\ busy /\ op.kind = "release" /\ op.step = "unlabelled" /\ claim # "gone"
    /\ \/ "deferred" \in labels /\ defers = <<>> /\ EscalateFrom
       \/ /\ "deferred" \in labels /\ defers # <<>>
          /\ OpStep("regate") /\ SetState("DEFERRED", Current) /\ GoOn("no")
          /\ UNCHANGED <<records, holds, limbo, bead, world, touched, troubles>>
       \/ labels \cap {"deferred", "parked"} = {"parked"} /\ Finish(parked_state, "none")
       \/ labels \cap {"deferred", "parked"} = {} /\ EscalateFrom
       \/ labels \cap {"deferred", "parked"} = {} /\ ~up /\ RuntimeHold
       \/ /\ labels \cap {"deferred", "parked"} = {} /\ up
          /\ op' = NewOp("resume", "unlabelled") /\ SetState("RESUMING", "none") /\ Yield
          /\ UNCHANGED <<records, holds, limbo, bead, world, touched, troubles>>

\* Parker._release_regate: a quota wait stays; an `account_changed' one is gated again.
ReleaseRegate ==
    /\ busy /\ op.kind = "release" /\ op.step = "regate" /\ claim # "gone"
    /\ \/ Current = "none" /\ EscalateFrom
       \/ Current # "none" /\ Finish("DEFERRED", Current)
       \/ Current = "account" /\ DeferWithin("quota")
       \/ /\ Current = "account" /\ over' = TRUE
          /\ op' = NoOp /\ SetState("DEFERRED", "account") /\ Yield
          /\ UNCHANGED <<defers, holds, limbo, bead, world, touched, troubles>>

------------------------------
(* Claims. *)

\* Scheduler.start_new: the journaled intent; a row that still describes an old claim is dropped first.
StartNew ==
    /\ op' = NewOp("pickup", "intent") /\ Adopt("CLAIMING", "none")
    /\ busy' = TRUE /\ did' = "call"
    /\ UNCHANGED <<pc, signals, records, holds, limbo, bead, world, touched, troubles>>

\* ClaimGate.claim, from a pickup that has just been opened.
ClaimBead ==
    /\ busy /\ op.kind = "pickup" /\ op.step = "intent" /\ did = "call"
    /\ \/ Finish("DROPPED", "none")                                    \* paused
       \/ /\ claim = "free" /\ claim' = "ours" /\ GoOn("done")
          /\ UNCHANGED <<journal, labels, blockers, routed, world, history, troubles>>
       \/ /\ claim = "free" /\ claim' = "ours" /\ StuckFrom            \* routing changed
          /\ UNCHANGED <<records, holds, limbo, labels, blockers, routed, world, touched, troubles>>
       \/ claim = "free" /\ Finish("STUCK", "unclaimable")             \* refused, and still free
       \/ /\ claim' \in IF claim = "free" THEN {"free", "ours"} ELSE {claim}
          /\ GoOn("no")                                                \* it can't say: read it back
          /\ UNCHANGED <<journal, labels, blockers, routed, world, history, troubles>>
\* The claim is the journal's; recovery leaves the rest of the pickup to the next pass.
Claimed ==
    /\ OpStep("claimed") /\ SameRow
    /\ IF pc = "recover" THEN Yield ELSE GoOn("no")
    /\ chold' = FALSE
    /\ UNCHANGED <<records, rhold, limbo, bead, world, touched, troubles>>

ClaimJournaled == busy /\ op.kind = "pickup" /\ op.step = "intent" /\ did = "done" /\ Claimed
\* Mutant: an intent of unknown effect is given up without reading the claim.
ResolveBlind ==
    /\ busy /\ op.kind = "pickup" /\ op.step = "intent" /\ did = "no" /\ claim # "gone"
    /\ chold' = FALSE /\ op' = NoOp /\ SetState("DROPPED", "none") /\ Yield
    /\ UNCHANGED <<records, rhold, limbo, bead, world, touched, troubles>>

\* Scheduler.resolve_claim: an intent of unknown effect is settled by reading the claim back.
ResolveClaim ==
    /\ busy /\ op.kind = "pickup" /\ op.step = "intent" /\ did = "no"
    /\ \/ claim = "ours" /\ Claimed
       \/ /\ claim \notin {"ours", "gone"} /\ chold' = FALSE
          /\ op' = NoOp /\ SetState("DROPPED", "none") /\ Yield
          /\ UNCHANGED <<records, rhold, limbo, bead, world, touched, troubles>>
       \/ /\ chold' = TRUE /\ Trouble("crash")                                    \* unreadable
          /\ SetState("CLAIMING", "none") /\ HoldPass
          /\ UNCHANGED <<op, records, rhold, limbo, bead, world, touched>>

\* Scheduler._start: the placement, then the worktree.
PlaceBead ==
    /\ busy /\ op.kind = "pickup" /\ op.step = "claimed" /\ claim # "gone"
    /\ \/ EscalateFrom
       \/ /\ OpStep("placed") /\ SetState("STARTING", "none") /\ GoOn("no")
          /\ UNCHANGED <<records, holds, limbo, bead, world, touched, troubles>>

MakeWorktree ==
    /\ busy /\ op.kind = "pickup" /\ op.step = "placed" /\ claim # "gone"
    /\ \/ claim # "ours" /\ Finish("STUCK", "none")
       \/ EscalateFrom
       \/ /\ OpStep("worktree") /\ GoOn("no") /\ SameRow
          /\ UNCHANGED <<records, holds, limbo, bead, world, touched, troubles>>

\* Scheduler._vanished: the operation of a bead that no longer exists ends; its sessions first.
\* Outside a replay the failed read only ends the pass.
ReadsBead == /\ did \notin {"done", "asked"}
             /\ ~(StopStep \/ CommitStep \/ (op.kind = "pickup" /\ op.step = "intent"))
Vanished ==
    /\ busy /\ claim = "gone"
    /\ \/ ReadsBead /\ pc \in {"replay", "recover"}
       \/ op.kind = "pickup" /\ op.step = "intent" /\ did = "no"
    /\ \/ /\ up /\ sess' = FALSE /\ op' = NoOp /\ Adopt("DROPPED", "none") /\ Yield
          /\ chold' = FALSE
          /\ UNCHANGED <<records, rhold, limbo, bead, work, up, due, touched, troubles>>
       \/ /\ ~up /\ rhold' = TRUE /\ HoldPass /\ SameRow
          /\ UNCHANGED <<op, records, chold, limbo, bead, world, touched, troubles>>

ReadFails ==
    /\ busy /\ claim = "gone" /\ ReadsBead /\ pc \notin {"replay", "recover"} /\ HoldPass
    /\ UNCHANGED <<journal, bead, world, history, troubles>>

------------------------------
(* The sweep: recovery's step 5 and the first thing every pickup does. *)

Listed == {"ours", "odd"}       \* BeadsAdapter.ours: held by our worker, in any unclosed status

Sweeping == pc \in {"sweep", "resweep"} /\ ~busy

Swept == pc' = After[pc] /\ did' = "no" /\ UNCHANGED <<busy, signals>>

\* The sweep leaves the bead as it is, or rebuilds its row.
SweptAs(state, reason) ==
    /\ Adopt(state, reason) /\ Swept
    /\ UNCHANGED <<op, records, holds, limbo, bead, world, touched, troubles>>
SweptSame ==
    /\ Swept /\ UNCHANGED <<journal, bead, world, history, troubles>>

\* _Sweep._hold: recovery's escalation, from whatever the row said.
SweptHeld ==
    /\ op' = NewOp("escalate", "intent") /\ Adopt("STUCK", "none")
    /\ busy' = TRUE /\ did' = "no"
    /\ UNCHANGED <<pc, signals, records, holds, limbo, bead, world, touched, troubles>>

\* Only beads with no open operation are swept.
SweepSkips == Sweeping /\ op # NoOp /\ SweptSame

\* _Sweep._not_ours: nothing runs without our claim.
SweepStops ==
    /\ Sweeping /\ op = NoOp /\ claim \notin Listed /\ sess
    /\ \/ /\ up /\ sess' = FALSE /\ GoOn("done")
          /\ UNCHANGED <<journal, bead, work, up, due, history, troubles>>
       \/ /\ ~up /\ Adopt("STUCK", "none")
          /\ IF pc = "resweep" THEN HoldPass ELSE Swept
          /\ UNCHANGED <<op, records, holds, limbo, bead, world, touched, troubles>>

SweepNotOurs ==
    /\ Sweeping /\ op = NoOp /\ claim \notin Listed /\ ~sess
    /\ IF did = "no" /\ (row \in {"NONE", "CLOSED", "DROPPED"} \/ (row \in Keep /\ claim # "gone"))
       THEN SweptSame
       ELSE IF claim = "gone" THEN SweptAs("DROPPED", "none")
       ELSE IF claim = "closed" THEN SweptAs("CLOSED", "none")
       ELSE IF row = "NONE" THEN SweptSame ELSE SweptAs("STUCK", "none")

\* Only the operator's release moves a STUCK or HELD row on.
Kept == row \in Keep

\* What the sweep finds wrong with a bead of ours that is neither kept nor needs a human.
Mismatch ==
    \/ claim # "ours" \/ ~routed
    \/ "deferred" \in labels /\ (sess \/ row # "DEFERRED" \/ defers = <<>>)
    \/ "deferred" \notin labels
        /\ \/ row = "DEFERRED"
           \/ "held" \in labels /\ "parked" \notin labels
           \/ "parked" \in labels /\ (sess \/ row \notin Waiting)
           \/ "parked" \notin labels /\ row # "RUNNING"

\* _Sweep._ours: a bead of ours is checked against its row.
SweepOurs ==
    /\ Sweeping /\ op = NoOp /\ claim \in Listed
    /\ IF "human" \in labels THEN IF row = "STUCK" THEN SweptSame ELSE SweptAs("STUCK", "none")
       ELSE IF row # "NONE" /\ Kept THEN SweptSame
       ELSE IF row = "NONE" \/ Mismatch THEN SweptHeld
       ELSE IF "deferred" \in labels THEN SweptSame
       ELSE IF "parked" \in labels THEN SweptAs(parked_state, "none")
       ELSE IF sess THEN SweptSame
       ELSE /\ op' = NewOp("resume", "unlabelled") /\ SetState("RESUMING", "none") /\ Swept
            /\ UNCHANGED <<records, holds, limbo, bead, world, touched, troubles>>

------------------------------
(* The recovery pass, the pickup pass and the operator's calls. *)

Goto(label) == pc' = label /\ UNCHANGED <<busy, did, signals>>
Begin       == busy' = TRUE /\ did' = "no" /\ UNCHANGED <<pc, signals>>
Resting     == ~busy /\ UNCHANGED <<bead, world, history, troubles>>

Start == pc = "down" /\ up /\ Goto("recover") /\ Resting /\ UNCHANGED journal

\* recover: the journals that never launch are replayed first, then the orphaned hold goes.
NeverLaunches == \/ op.kind \in {"park", "release", "escalate"} \/ op.step \in DeferSteps
                 \/ op.kind = "pickup" /\ op.step = "intent"
Recover ==
    /\ pc = "recover" /\ Resting
    /\ IF op # NoOp /\ NeverLaunches THEN Begin /\ UNCHANGED journal
       ELSE /\ Goto("resweep") /\ chold' = (chold /\ op # NoOp)
            /\ UNCHANGED <<op, row, why, records, rhold, limbo>>

\* Scheduler._pickup up to the reports: the runtime has answered, so its hold goes.
Pickup ==
    /\ pc = "idle" /\ Resting
    /\ rhold' = ~up /\ (IF up THEN Goto("signals") ELSE UNCHANGED control)
    /\ up \/ ~rhold
    /\ UNCHANGED <<op, row, why, records, chold, limbo>>

\* Scheduler._signals, one report: a taint parks a bead for the operator.
Dequeue == signals' = Tail(signals) /\ UNCHANGED <<pc, busy, did>>

TaintSignal ==
    /\ pc = "signals" /\ ~busy /\ signals # <<>> /\ Head(signals) = "taint"
    /\ \/ Dequeue       \* the bead no longer runs, or the taint has been cleared since
          /\ UNCHANGED <<journal, bead, world, history, troubles>>
       \/ /\ row \in {"RUNNING", "WAITING_INPUT"} /\ allowed(row, "PARKING")
          /\ Park({}, TRUE, "signals") /\ UNCHANGED troubles
       \/ /\ row \in {"RUNNING", "WAITING_INPUT"} /\ ~allowed(row, "PARKING")
          /\ illegal' = illegal \cup {"report"} /\ HoldPass          \* the transaction rolls back and the pickup raises
          /\ UNCHANGED <<journal, bead, world, touched, troubles>>

\* Parker.limit: only a running bead with no operation is deferred.
LimitSignal ==
    /\ pc = "signals" /\ ~busy /\ signals # <<>> /\ Head(signals) = "limit"
    /\ IF row = "RUNNING" /\ op = NoOp /\ claim # "gone" /\ Len(defers) < MaxDefers
       THEN OpenDefer([NewOp("park", "intent") EXCEPT !.limit = TRUE], "quota", "signals")
            /\ UNCHANGED troubles
       ELSE Dequeue /\ UNCHANGED <<journal, bead, world, history, troubles>>

SignalsDone == pc = "signals" /\ signals = <<>> /\ Resting /\ Goto("sweep") /\ UNCHANGED journal

\* The open operation is replayed; what still holds or runs ends the pass.
Replay == pc = "replay" /\ Resting /\ op # NoOp /\ Begin /\ UNCHANGED journal
ReplayDone == pc = "replay" /\ Resting /\ op = NoOp /\ Goto("cands") /\ UNCHANGED journal

Free == op = NoOp /\ ~rhold /\ ~chold /\ up /\ ~sess
PassHeld == pc = "cands" /\ Resting /\ ~Free /\ Goto("idle") /\ UNCHANGED journal

Over == IF Current = "quota" THEN due ELSE Current = "account" /\ over
\* Mutant: only a bead that waited on input is taken up again.
CanResumeInput == claim \in Listed /\ row = "WAITING_INPUT" /\ resumable

\* Scheduler._source_one and _candidates: an over deferral, or a resumable bead.
CanUndefer == claim \in Listed /\ row = "DEFERRED" /\ Over /\ undeferrable
CanResume  == claim \in Listed /\ row \in {"PARKED", "WAITING_INPUT"} /\ resumable

Undefer ==
    /\ pc = "cands" /\ ~busy /\ Free /\ CanUndefer
    /\ op' = [NewOp("undefer", "intent") EXCEPT !.n = Len(defers)]
    /\ SetState("RESUMING", "none") /\ Begin
    /\ UNCHANGED <<records, holds, limbo, bead, world, touched, troubles>>

Resume ==
    /\ pc = "cands" /\ ~busy /\ Free /\ CanResume
    /\ \E v \in Verdicts :
        \/ row = "PARKED" /\ v # "account" /\ OpenDefer(NewOp("park", "intent"), Reason(v), "cands")
           /\ UNCHANGED troubles
        \/ row = "WAITING_INPUT" /\ v = "deadline" /\ Goto("ready") /\ UNCHANGED journal /\ Resting
        \/ /\ v = "account" \/ (row = "WAITING_INPUT" /\ v = "changed")
           /\ op' = NewOp("resume", "intent") /\ SetState("RESUMING", "none") /\ Begin
           /\ UNCHANGED <<records, holds, limbo, bead, world, touched, troubles>>

NoCandidate ==
    pc = "cands" /\ Resting /\ Free /\ ~CanUndefer /\ ~CanResume /\ Goto("ready") /\ UNCHANGED journal

\* New work: the bead if it is listed as ready, one outcome per gate verdict.
Ready == claim = "free" /\ blockers = {} /\ routed /\ op = NoOp

NewWork ==
    /\ pc = "ready" /\ ~busy /\ Ready
    /\ \/ labels \cap {"parked", "held"} # {} /\ SweptAs("STUCK", "unclaimable")
       \/ /\ labels \cap {"parked", "held"} = {}
          /\ \/ SweptAs("STUCK", "repointed")
             \/ row = "STUCK" /\ why = "repointed" /\ SweptAs("DROPPED", "none")
             \/ StartNew

\* Scheduler._forget_unlisted, or nothing to do: paused, a deadline, or not listed.
NoNewWork ==
    /\ pc = "ready" /\ ~busy
    /\ IF ~Ready /\ row = "STUCK" /\ why \in Unlisted /\ op = NoOp
       THEN SweptAs("DROPPED", "none")
       ELSE Goto("idle") /\ UNCHANGED <<journal, bead, world, history, troubles>>

\* The operator's calls take the operation lock between passes; a park or a defer is asked for a bead
\* that wsd runs.
Call == pc = "idle" /\ ~busy /\ op = NoOp /\ Trouble("call")

ParkCall ==
    /\ Call /\ row = "RUNNING"
    /\ \E hold \in BOOLEAN, blocks \in {{}, {"bead"}, {"input"}} :
        (hold \/ blocks # {}) /\ Park(blocks, hold, "call")

DeferCall ==
    /\ Call /\ row = "RUNNING" /\ claim # "gone"
    /\ OpenDefer(NewOp("park", "intent"), "quota", "call")

\* Parker.release: refused while a dispatched generation has no receipt.
ReleaseCall ==
    /\ Call /\ ~limbo
    /\ \/ row \in Keep /\ op' = NewOp("release", "intent")
       \/ row = "DEFERRED" /\ why = "account" /\ op' = NewOp("release", "regate")
    /\ busy' = TRUE /\ did' = "no" /\ pc' = "call" /\ SameRow
    /\ UNCHANGED <<records, holds, limbo, bead, world, signals, touched>>

\* Parker.regate at process start and reload.
RegateCall ==
    /\ Call /\ row = "DEFERRED" /\ Current = "account" /\ ~over /\ labels \cap {"held", "human"} = {}
    /\ claim # "gone"
    /\ \/ over' = TRUE /\ SameRow
          /\ UNCHANGED <<op, defers, holds, limbo, bead, world, control, touched>>
       \/ OpenDefer(NewOp("park", "intent"), "quota", "call")

------------------------------
(* The world between wsd's steps. *)

\* Whatever a bead call raises ends the pass; the operation stays open at its step.
Interrupt ==
    /\ pc \notin {"down", "idle"} /\ Trouble("crash") /\ HoldPass
    /\ UNCHANGED <<journal, bead, world, history>>

\* wsd dies: the journal stays, undelivered reports are gone.
Crash ==
    /\ pc # "down" /\ Trouble("crash")
    /\ pc' = "down" /\ busy' = FALSE /\ did' = "no" /\ signals' = <<>>
    /\ UNCHANGED <<journal, bead, world, history>>

LoseJournal ==
    /\ pc = "down" /\ Trouble("loss") /\ touched' = TRUE
    /\ op' = NoOp /\ row' = "NONE" /\ why' = "none" /\ defers' = <<>> /\ over' = FALSE
    /\ rhold' = FALSE /\ chold' = FALSE /\ limbo' = FALSE
    /\ UNCHANGED <<bead, world, control, illegal>>

\* People and other workers: labels and claims are theirs to change, and blockers to open and close.
Edit == Trouble("edit") /\ UNCHANGED <<journal, world, control, illegal>>

EditLabel ==
    /\ Edit /\ claim # "gone" /\ touched' = TRUE
    /\ \E l \in Labels : labels' = IF l \in labels THEN labels \ {l} ELSE labels \cup {l}
    /\ UNCHANGED <<blockers, claim, routed>>
EditBlocker ==
    /\ Edit /\ claim # "gone" /\ UNCHANGED touched
    /\ \E k \in Blockers : blockers' = IF k \in blockers THEN blockers \ {k} ELSE blockers \cup {k}
    /\ UNCHANGED <<labels, claim, routed>>
EditClaim ==
    /\ Edit /\ claim # "gone" /\ touched' = TRUE
    /\ claim' \in Claims \ {claim} /\ UNCHANGED <<labels, blockers, routed>>
EditRoute == Edit /\ routed' = ~routed /\ UNCHANGED <<touched, labels, blockers, claim>>

\* What a session waits on closes in the end.
CloseBlocker ==
    /\ blockers # {} /\ claim # "gone" /\ \E k \in blockers : blockers' = blockers \ {k}
    /\ UNCHANGED <<journal, labels, claim, routed, world, control, history, troubles>>

Fault == Trouble("fault") /\ UNCHANGED <<journal, bead, due, control, history>>
SessionDies == Fault /\ sess /\ sess' = FALSE /\ UNCHANGED <<work, up>>
RuntimeDown == Fault /\ up /\ up' = FALSE /\ UNCHANGED <<sess, work>>
RuntimeUp   == /\ ~up /\ up' = TRUE
               /\ UNCHANGED <<journal, bead, sess, work, due, control, history, troubles>>

ClockTicks == /\ Current = "quota" /\ ~due /\ due' = TRUE
              /\ UNCHANGED <<journal, bead, sess, work, up, control, history, troubles>>

ReportTaint == /\ sess /\ Trouble("taint") /\ signals' = Append(signals, "taint")
               /\ UNCHANGED <<journal, bead, world, pc, busy, did, history>>
ReportLimit == /\ sess /\ Trouble("limit") /\ signals' = Append(signals, "limit")
               /\ UNCHANGED <<journal, bead, world, pc, busy, did, history>>

------------------------------
Operate ==
    \/ ReplayEscalate \/ SpentBudget \/ StopSessions \/ SessionsStopped \/ StopUnavailable
    \/ CommitWip \/ WipCommitted \/ AddBlockers \/ LabelParked \/ CommentAndEnd
    \/ Confirm \/ LabelDeferred
    \/ GuardWaits \/ GuardRefuses \/ GuardShelves \/ GuardSettles \/ GuardPins
    \/ GuardCalls \/ GuardReceives \/ GuardEnds
    \/ ReplayResume \/ UndeferGate \/ UndeferUnlabel \/ UndeferParked
    \/ ReleaseUnlabel \/ ReleaseOn \/ ReleaseRegate
    \/ ClaimBead \/ ClaimJournaled \/ ResolveClaim \/ PlaceBead \/ MakeWorktree
    \/ Vanished \/ ReadFails

Pass ==
    \/ Start \/ Recover \/ Pickup \/ TaintSignal \/ LimitSignal \/ SignalsDone
    \/ SweepSkips \/ SweepStops \/ SweepNotOurs \/ SweepOurs
    \/ Replay \/ ReplayDone \/ PassHeld \/ Undefer \/ Resume \/ NoCandidate
    \/ NewWork \/ NoNewWork

Calls == ParkCall \/ DeferCall \/ ReleaseCall \/ RegateCall

World ==
    \/ Interrupt \/ Crash \/ LoseJournal \/ EditLabel \/ EditBlocker \/ EditClaim \/ EditRoute
    \/ CloseBlocker \/ SessionDies \/ RuntimeDown \/ RuntimeUp \/ ClockTicks
    \/ ReportTaint \/ ReportLimit

Next == Operate \/ Pass \/ Calls \/ World

Spec == Init /\ [][Next]_vars

\* wsd goes on whenever it can (its threads are scheduled, the supervisor restarts it and the backstop
\* timer triggers pickups), and an outage of the runtime ends.
FairSpec == Spec /\ WF_vars(Operate) /\ WF_vars(Pass) /\ WF_vars(RuntimeUp)

------------------------------
TypeOK ==
    /\ op \in Op /\ row \in BeadStates /\ why \in Whys
    /\ defers \in Seq({"quota", "account"}) /\ Len(defers) <= MaxDefers
    /\ {over, rhold, chold, limbo, routed, sess, up, due, busy, touched} \subseteq BOOLEAN
    /\ illegal \subseteq {"operation", "report"}
    /\ labels \subseteq Labels /\ blockers \subseteq Blockers /\ claim \in Claims
    /\ work \in {"clean", "dirty"} /\ did \in {"no", "done", "call", "asked", "rcpt"}
    /\ pc \in DOMAIN After \cup {"down", "idle"} /\ signals \in Seq({"taint", "limit"})

\* No operation of wsd asks for a row transition that states.ALLOWED refuses, whatever the labels,
\* the claim and the runtime did since its last step (Journal.set_state would raise IllegalTransition).
OperationsLegal == "operation" \notin illegal

\* Nothing at all asks for one, a session's report included (Scheduler._signal).
NoIllegalTransition == illegal = {}

\* A bead that waits for blockers, input or a deferral has no session, unless somebody else changed the
\* bead (park's and defer's stop, the guard's check before it shelves).
WaitingIsQuiet ==
    row \in Waiting \cup {"DEFERRED"} /\ op = NoOp /\ ~touched => ~sess

\* No crash leaves a stuck bead of ours without its `needs-human', on the bead or pending in the
\* journal (Parker._stuck, Parker.replay_escalate).
StuckAsksHuman ==
    row = "STUCK" /\ claim = "ours" /\ ~touched => "human" \in labels \/ op.kind # "none"

\* A deferred bead waits on exactly its current record: the clock ends a quota wait, the operator or a
\* re-gate an `account_changed' one, and the row's reason, which release reads, says which.
DeferredOnRecord == row = "DEFERRED" /\ op = NoOp => defers # <<>> /\ why = Current

\* A claim that landed is never forgotten: a bead of ours has a live row or an open operation, wherever
\* the claim was interrupted (ClaimGate.claim, Scheduler.resolve_claim).
NoOrphanClaim == claim = "ours" /\ ~touched => row \notin {"NONE", "DROPPED", "CLOSED"}

\* While its operation is open the row says which one, so nothing else takes the bead for idle; and the
\* CLAIM_UNCERTAIN hold, which stops every pickup, has the operation that will settle it.
OpMatchesRow ==
    /\ op.kind \in {"resume", "undefer"} /\ op.step \notin DeferSteps => row = "RESUMING"
    /\ Parking => row = "PARKING"
    /\ op.kind = "escalate" => row = "STUCK"
    /\ op.kind = "none" => row \notin {"CLAIMING", "STARTING", "PARKING", "RESUMING"}
    /\ chold => op.kind = "pickup" /\ op.step = "intent"

\* The row tells what the bead's operation and its records say, through every crash between two steps: no
\* operation asks for an illegal transition, and rows, operations, holds and deferrals agree.
RowsAgree == TypeOK /\ OperationsLegal /\ OpMatchesRow /\ DeferredOnRecord

\* No bead of ours is forgotten: not a claim that landed, nor a stuck bead that needs a human.
NoOneForgotten == NoOrphanClaim /\ StuckAsksHuman

------------------------------
\* A park or a defer that reaches its end has stopped the bead's session and then committed its work.
ParkKeepsWork ==
    [][Parking /\ op' = NoOp /\ row' \in Waiting \cup {"DEFERRED"} /\ ~touched'
        => (~sess' /\ work' = "clean")]_vars

\* A shelved bead has nothing to commit, as Parker._shelve says: its session's work is in a commit.
ShelvedIsCommitted ==
    [][AtGuard /\ op' = NoOp /\ row' \in Waiting /\ ~touched' => work' = "clean"]_vars

\* Every operation ends, once the runtime stays up and nobody interferes: no hold waits on itself.
OpEnds == op # NoOp ~> op = NoOp

\* A bead whose blockers have closed is resumed, deferred or handed to a human, not forgotten.
ParkedMoves == row \in {"PARKED", "WAITING_INPUT"} /\ resumable ~> ~(row \in {"PARKED", "WAITING_INPUT"} /\ resumable)

\* A quota deferral whose time has come ends.
DueMoves == row = "DEFERRED" /\ Current = "quota" /\ due /\ undeferrable
            ~> ~(row = "DEFERRED" /\ due /\ undeferrable)

\* Beads move on: an operation ends, a parked bead whose blockers closed is resumed, and a quota deferral
\* whose time has come ends (Scheduler.pickup, Parker.resume, Parker.undefer).
BeadsMove == OpEnds /\ ParkedMoves /\ DueMoves
==============================
