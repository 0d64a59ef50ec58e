----------------------------- MODULE LaunchGuard -----------------------------
(***************************************************************************)
(* The launch guard of a workstream (wsd/park.py, Parker.launch): the one  *)
(* path on which wsd starts or resumes an agent session.  Three parties    *)
(* keep state that must agree across crashes: the SQLite journal (launch   *)
(* entries, receipts, the open operation, the crash count), the copy of    *)
(* every launch entry on the bead, and the runtime with its sessions.      *)
(*                                                                         *)
(* Every action is one journal transaction or one external effect of the   *)
(* guard; the code has a checkpoint between each two of them, and Crash    *)
(* may take any of these points.  The workstream's operation lock          *)
(* (Parker.entry) makes the guard a single thread of control: pc and cur.  *)
(***************************************************************************)
EXTENDS Integers, FiniteSets

CONSTANTS
    Beads,          \* the beads of one workstream
    NoBead,         \* "no bead": the guard is idle, or nothing is uncertain
    MaxGen,         \* launches.MAX_GENERATION: the last generation of a session
    FailLimit,      \* limits.launch_failures_before_human
    MaxCrashes,     \* bound: how often wsd dies (or a bead write fails) in the guard
    MaxLosses,      \* bound: how often the journal is lost or restored, or an ended session listed
    MaxOutages      \* bound: runtime outages, lost claims and human labels

ASSUME BeadsAssumption == NoBead \notin Beads
ASSUME MaxGenAssumption == MaxGen \in Nat \ {0}
ASSUME FailLimitAssumption == FailLimit \in Nat \ {0}
ASSUME BoundsAssumption ==
    MaxCrashes \in Nat /\ MaxLosses \in Nat /\ MaxOutages \in Nat

VARIABLES
    op,         \* journal: the bead's one open operation
    row,        \* journal: the bead's state row, as far as the guard tells it apart
    entry,      \* journal: the launch entries of the bead's session, by generation
    rebuilt,    \* journal: the generations copied back from the bead
    receipt,    \* journal: what the runtime answered, by generation
    acc,        \* journal: the generations whose end has been accounted
    deaths,     \* journal: the bead's count of deaths in a row
    rhold,      \* journal: the RUNTIME_UNAVAILABLE hold
    uncertain,  \* journal: the bead the LAUNCH_UNCERTAIN hold names
    saved,      \* a backup of the journal
    claimed,    \* bead: claimed by this workstream's per-bead worker
    human,      \* bead: carries `needs-human`
    copy,       \* bead: its copy of the launch entries, wsd_launches
    sess,       \* runtime: the bead's listed session
    sessGen,    \* runtime: the generation of that session, or of the last one
    ended,      \* runtime: the record of the last confirmed end
    up,         \* runtime: available
    calls,      \* history: how often runtime.launch was called, by generation
    started,    \* history: the generations that started a session
    dead,       \* history: how many sessions of the bead died in a row
    pc,         \* the guard's program counter
    cur,        \* the bead the guard works on
    seen,       \* the listing the guard read: its own session
    Gen,        \* the operation's pinned generation, as the guard holds it (0: none)
    retried,    \* the guard has abandoned one pin in this call
    answer,     \* what runtime.launch returned or raised
    crashes, losses, outages

journal == <<op, row, entry, rebuilt, receipt, acc, deaths, rhold, uncertain>>
bead    == <<claimed, human, copy>>
runtime == <<sess, sessGen, ended, up, calls, started, dead>>
local   == <<seen, Gen, retried, answer>>
guard   == <<pc, cur, local>>
bounds  == <<crashes, losses, outages>>
vars    == <<journal, saved, bead, runtime, guard, bounds>>

Gens     == 1 .. MaxGen
Kinds    == {"none", "launch", "escalate", "release"}
Rows     == {"none", "launching", "running", "waiting", "stuck"}
Outcomes == {"absent", "none", "launched", "abandoned"}
Entry    == [dispatched : BOOLEAN, outcome : Outcomes]
Receipts == {"none", "started", "failed", "unavailable", "stale"}
Causes   == {"stopped", "lifetime", "died"}
Op       == [kind : Kinds, gen : 0 .. MaxGen, attempts : 0 .. FailLimit]

Absent   == [dispatched |-> FALSE, outcome |-> "absent"]
Pinned   == [dispatched |-> FALSE, outcome |-> "none"]
NoOp     == [kind |-> "none", gen |-> 0, attempts |-> 0]
NewOp(k) == [kind |-> k, gen |-> 0, attempts |-> 0]

PCs == {"idle", "handoff", "checks", "own", "rebuild", "reconcile", "live",
        "liveCopy", "account", "pin", "pinCopy", "holds", "abandonCopy",
        "dispatch", "dispatchCopy", "call", "answered", "outcome",
        "outcomeCopy", "finish"}

\* Where the guard works on a pinned generation.
PinnedPCs == {"liveCopy", "pinCopy", "holds", "abandonCopy", "dispatch", "dispatchCopy",
              "call", "answered", "outcome", "outcomeCopy", "finish"}

\* The entries of bead b journaled so far.
Known(b) == {g \in Gens : entry[b][g].outcome # "absent"}

\* The generations the journal has as launched.
Launched(b) == {g \in Gens : entry[b][g].outcome = "launched"}

\* Mutant: the bead's copy is overwritten with whatever the journal says.
MergeableAlways(have, want) == have \in Entry /\ want \in Entry

\* A set-once field of the bead's copy may be filled in, never changed.
Mergeable(have, want) ==
    \/ have.outcome = "absent"
    \/ /\ have.dispatched => want.dispatched
       /\ have.outcome \in {"none", want.outcome}

\* The journal's content, as Journal.backup copies it.
Journal == [op |-> op, row |-> row, entry |-> entry, rebuilt |-> rebuilt,
            receipt |-> receipt, acc |-> acc, deaths |-> deaths,
            rhold |-> rhold, uncertain |-> uncertain]

------------------------------
Init ==
    /\ op        = [b \in Beads |-> NoOp]
    /\ row       = [b \in Beads |-> "none"]
    /\ entry     = [b \in Beads |-> [g \in Gens |-> Absent]]
    /\ rebuilt   = [b \in Beads |-> {}]
    /\ receipt   = [b \in Beads |-> [g \in Gens |-> "none"]]
    /\ acc       = [b \in Beads |-> {}]
    /\ deaths    = [b \in Beads |-> 0]
    /\ rhold     = FALSE
    /\ uncertain = NoBead
    /\ saved     = Journal
    /\ claimed   = {}
    /\ human     = {}
    /\ copy      = [b \in Beads |-> [g \in Gens |-> Absent]]
    /\ sess      = [b \in Beads |-> "none"]
    /\ sessGen   = [b \in Beads |-> 0]
    /\ ended     = [b \in Beads |-> [gen |-> 0, cause |-> "died"]]
    /\ up        = TRUE
    /\ calls     = [b \in Beads |-> [g \in Gens |-> 0]]
    /\ started   = [b \in Beads |-> {}]
    /\ dead      = [b \in Beads |-> 0]
    /\ pc = "idle" /\ cur = NoBead /\ seen = "none"
    /\ Gen = 0 /\ retried = FALSE /\ answer = "none"
    /\ crashes = 0 /\ losses = 0 /\ outages = 0

\* Mutant: the guard returns without letting go of its bead.
ReturnHolding == pc' = "idle" /\ UNCHANGED <<cur, local>>

\* The guard returns to its caller, which lets go of the operation lock.
Return == /\ pc' = "idle" /\ cur' = NoBead
          /\ seen' = "none" /\ Gen' = 0 /\ retried' = FALSE /\ answer' = "none"

Goto(label) == pc' = label /\ UNCHANGED <<cur, local>>

\* Parker._settle_uncertain: an operation that ends settles its own hold.
SettleUncertain(b) == uncertain' = IF uncertain = b THEN NoBead ELSE uncertain

\* Parker._finish: the operation ends and the row moves, in one transaction.
Finish(b, state) ==
    /\ op' = [op EXCEPT ![b] = NoOp]
    /\ row' = [row EXCEPT ![b] = state]
    /\ SettleUncertain(b)

\* Parker._stuck: the operation ends STUCK and its escalation opens, in one
\* transaction, so a crash never leaves a stuck bead without `needs-human` due.
Stuck(b) ==
    /\ op' = [op EXCEPT ![b] = NewOp("escalate")]
    /\ row' = [row EXCEPT ![b] = "stuck"]
    /\ SettleUncertain(b)

\* Parker.escalate_from: the journal half, then the hand-off to the label.
EscalateFrom == Stuck(cur) /\ Goto("handoff")

------------------------------
(* The callers: pickup, resume, the sweep, recovery and release. *)

\* What a pickup has seen before it looks for candidates: no hold, no session.
Unoccupied == ~rhold /\ uncertain = NoBead /\ \A x \in Beads : sess[x] = "none"

\* Scheduler.start_new up to the guard: a new claim opens the operation and
\* starts the crash count afresh (Journal.crash_reset).
StartNew(b) ==
    /\ pc = "idle" /\ op[b].kind = "none" /\ b \notin claimed /\ Unoccupied /\ up
    /\ op' = [op EXCEPT ![b] = NewOp("launch")]
    /\ row' = [row EXCEPT ![b] = "launching"]
    /\ claimed' = claimed \cup {b}
    /\ acc' = [acc EXCEPT ![b] = @ \cup Launched(b)]
    /\ deaths' = [deaths EXCEPT ![b] = 0]
    /\ dead' = [dead EXCEPT ![b] = 0]
    /\ UNCHANGED <<entry, rebuilt, receipt, rhold, uncertain, saved, human, copy,
                   sess, sessGen, ended, up, calls, started, guard, bounds>>

\* Parker.resume of a waiting bead, or open_resumes for a running bead whose
\* session is gone.
OpenResume(b) ==
    /\ pc = "idle" /\ op[b].kind = "none" /\ b \in claimed \ human
    /\ \/ row[b] = "waiting" /\ Unoccupied
       \/ row[b] = "running" /\ sess[b] = "none" /\ up
    /\ op' = [op EXCEPT ![b] = NewOp("launch")]
    /\ row' = [row EXCEPT ![b] = "launching"]
    /\ UNCHANGED <<entry, rebuilt, receipt, acc, deaths, rhold, uncertain, saved,
                   bead, runtime, guard, bounds>>

\* _Sweep._ours: a bead of ours that carries `needs-human` is recorded STUCK,
\* and one with no row (a lost journal) is escalated.
SweepOurs(b) ==
    /\ pc = "idle" /\ op[b].kind = "none" /\ b \in claimed
    /\ \/ /\ b \in human /\ row[b] # "stuck"
          /\ row' = [row EXCEPT ![b] = "stuck"]
          /\ UNCHANGED <<op, guard>>
       \/ /\ b \notin human /\ row[b] = "none"
          /\ op' = [op EXCEPT ![b] = NewOp("escalate")]
          /\ row' = [row EXCEPT ![b] = "stuck"]
          /\ pc' = "handoff" /\ cur' = b /\ UNCHANGED local
    /\ UNCHANGED <<entry, rebuilt, receipt, acc, deaths, rhold, uncertain, saved,
                   bead, runtime, bounds>>

\* _Sweep._not_ours: the sessions of a bead that is not ours are stopped, and
\* the row says what beads say (closed, gone, or CLAIM_LOST).
SweepNotOurs(b) ==
    /\ pc = "idle" /\ op[b].kind = "none" /\ b \notin claimed /\ up
    /\ sess[b] # "none" \/ row[b] \in {"running", "waiting", "launching"}
    /\ sess' = [sess EXCEPT ![b] = "none"]
    /\ ended' = IF sess[b] = "none" THEN ended
                ELSE [ended EXCEPT ![b] = [gen |-> sessGen[b], cause |-> "stopped"]]
    /\ \E state \in {"none", "stuck"} : row' = [row EXCEPT ![b] = state]
    /\ UNCHANGED <<op, entry, rebuilt, receipt, acc, deaths, rhold, uncertain, saved,
                   bead, sessGen, up, calls, started, dead, guard, bounds>>

\* Mutant: the runtime hold is never lifted.
PickupBeginHeld ==
    /\ pc = "idle" /\ up
    /\ uncertain' = IF uncertain # NoBead /\ op[uncertain].kind = "none"
                    THEN NoBead ELSE uncertain
    /\ UNCHANGED <<op, row, entry, rebuilt, receipt, acc, deaths, rhold, saved, bead,
                   runtime, guard, bounds>>

\* The pickup's first step: the runtime answers, so its hold ends.  Recovery
\* settles an uncertainty hold whose bead has no operation left.
PickupBegin ==
    /\ pc = "idle" /\ up
    /\ rhold' = FALSE
    /\ uncertain' = IF uncertain # NoBead /\ op[uncertain].kind = "none"
                    THEN NoBead ELSE uncertain
    /\ UNCHANGED <<op, row, entry, rebuilt, receipt, acc, deaths, saved, bead,
                   runtime, guard, bounds>>

\* A dispatched generation with neither an outcome nor a receipt, which no
\* release can resolve (Parker._refuse_unverifiable).
Unverifiable(b) ==
    \E g \in Gens : /\ entry[b][g].dispatched /\ entry[b][g].outcome = "none"
                    /\ receipt[b][g] = "none"

\* Parker.release: the operator's release of a stuck bead, and its reset of
\* the crash count.
Release(b) ==
    /\ pc = "idle" /\ op[b].kind = "none" /\ row[b] = "stuck"
    /\ ~Unverifiable(b)
    /\ op' = [op EXCEPT ![b] = NewOp("release")]
    /\ acc' = [acc EXCEPT ![b] = @ \cup Launched(b)]
    /\ deaths' = [deaths EXCEPT ![b] = 0]
    /\ dead' = [dead EXCEPT ![b] = 0]
    /\ UNCHANGED <<row, entry, rebuilt, receipt, rhold, uncertain, saved, bead,
                   sess, sessGen, ended, up, calls, started, guard, bounds>>

\* Parker.replay_release: the labels come off, then one transaction ends the
\* release and opens the resume that the guard carries on.  A bead that is not
\* ours ends it CLAIM_LOST.
ReplayRelease(b) ==
    /\ pc = "idle" /\ op[b].kind = "release"
    /\ \/ /\ b \in claimed \cap human
          /\ human' = human \ {b} /\ UNCHANGED <<op, row, uncertain>>
       \/ /\ b \in claimed \ human /\ UNCHANGED <<human, uncertain>>
          /\ op' = [op EXCEPT ![b] = NewOp("launch")]
          /\ row' = [row EXCEPT ![b] = "launching"]
       \/ b \notin claimed /\ Finish(b, "stuck") /\ UNCHANGED human
    /\ UNCHANGED <<entry, rebuilt, receipt, acc, deaths, rhold, saved,
                   claimed, copy, runtime, guard, bounds>>

\* Parker.replay_escalate: `needs-human` goes on the bead if it is still ours,
\* then the operation ends.
Escalate(b) ==
    /\ op[b].kind = "escalate"
    /\ pc = "idle" \/ (pc = "handoff" /\ cur = b)
    /\ \/ /\ b \in claimed \ human /\ human' = human \cup {b}
          /\ pc' = "handoff" /\ cur' = b /\ UNCHANGED <<op, uncertain, local>>
       \/ /\ b \notin claimed \ human /\ UNCHANGED human
          /\ op' = [op EXCEPT ![b] = NoOp] /\ SettleUncertain(b) /\ Return
    /\ UNCHANGED <<row, entry, rebuilt, receipt, acc, deaths, rhold, saved, claimed,
                   copy, runtime, bounds>>

------------------------------
(* The guard, Parker.launch, step by step. *)

\* The budget, the runtime, the holds and the session list; the guard goes on
\* only if no other bead holds the coder role.
Enter(b) ==
    /\ pc = "idle" /\ op[b].kind = "launch"
    /\ \/ /\ op[b].attempts >= FailLimit
          /\ Stuck(b) /\ pc' = "handoff" /\ cur' = b /\ UNCHANGED <<rhold, local>>
       \/ /\ op[b].attempts < FailLimit /\ ~up
          /\ rhold' = TRUE /\ UNCHANGED <<op, row, uncertain, guard>>
       \/ /\ op[b].attempts < FailLimit /\ up /\ ~rhold /\ uncertain \in {b, NoBead}
          /\ \A x \in Beads \ {b} : sess[x] = "none"
          /\ pc' = "checks" /\ cur' = b /\ seen' = sess[b] /\ Gen' = op[b].gen
          /\ UNCHANGED <<op, row, rhold, uncertain, retried, answer>>
    /\ UNCHANGED <<entry, rebuilt, receipt, acc, deaths, saved, bead, runtime, bounds>>

\* What beads say: needs-human and the claim end the operation; a routing
\* change, an unreadable record, a worktree or configuration conflict escalates;
\* a bead that is not runnable is shelved, unless its session is listed.
Checks ==
    /\ pc = "checks"
    /\ \/ cur \in human /\ Finish(cur, "stuck") /\ Return
       \/ cur \notin human /\ cur \notin claimed /\ Finish(cur, "stuck") /\ Return
       \/ cur \in claimed \ human
          /\ \/ EscalateFrom
             \/ seen = "none" /\ Finish(cur, "waiting") /\ Return
             \/ Goto("own") /\ UNCHANGED <<op, row, uncertain>>
    /\ UNCHANGED <<entry, rebuilt, receipt, acc, deaths, rhold, saved, bead, runtime,
                   bounds>>

\* Step 0, Parker._own_dispatch: once dispatched, the operation's generation is
\* finished from its receipt and never dispatched again.
OwnDispatch ==
    /\ pc = "own"
    /\ IF Gen = 0 THEN Goto("rebuild") /\ UNCHANGED <<op, row, uncertain>>
       ELSE \/ entry[cur][Gen].outcome = "absent" /\ EscalateFrom
            \/ /\ entry[cur][Gen].outcome # "absent"
               /\ Goto(IF entry[cur][Gen].dispatched THEN "outcome" ELSE "rebuild")
               /\ UNCHANGED <<op, row, uncertain>>
    /\ UNCHANGED <<entry, rebuilt, receipt, acc, deaths, rhold, saved, bead, runtime,
                   bounds>>

\* Step 1, Parker._reconcile: entries the journal lost come back from the bead,
\* in one transaction.
Rebuild ==
    /\ pc = "rebuild"
    /\ LET missing == {g \in Gens : copy[cur][g].outcome # "absent"} \ Known(cur)
       IN  /\ entry' = [entry EXCEPT ![cur] =
                           [g \in Gens |-> IF g \in missing THEN copy[cur][g] ELSE @[g]]]
           /\ rebuilt' = [rebuilt EXCEPT ![cur] = @ \cup missing]
    /\ Goto("reconcile")
    /\ UNCHANGED <<op, row, receipt, acc, deaths, rhold, uncertain, saved, bead,
                   runtime, bounds>>

\* The outcome a receipt stands for (Parker._settle).
OutcomeOf(r) == IF r = "started" THEN "launched" ELSE "abandoned"

\* Mutant: reconciliation leaves a dispatched generation as it is.
UnsettledPinned(g) == entry[cur][g] = Pinned /\ g # Gen

\* A generation other than the operation's own that has no outcome yet.
Unsettled(g) == entry[cur][g].outcome = "none" /\ g # Gen

\* A bead write of entry g (Beads.ensure_launch): merged and the guard goes on,
\* or refused because the copy differs in a field already set, or because the
\* bead is not ours.
BeadWrite(g, goOn) ==
    \/ /\ cur \in claimed /\ Mergeable(copy[cur][g], entry[cur][g])
       /\ copy' = [copy EXCEPT ![cur][g] = entry[cur][g]]
       /\ goOn /\ UNCHANGED <<op, row, uncertain>>
    \/ /\ cur \in claimed /\ ~Mergeable(copy[cur][g], entry[cur][g])
       /\ EscalateFrom /\ UNCHANGED copy
    \/ cur \notin claimed /\ Finish(cur, "stuck") /\ Return /\ UNCHANGED copy

\* Step 1, one generation at a time: settle it in the journal, then bring the
\* bead's copy up to date.  A dispatch with no receipt is never settled.
Reconcile ==
    LET todo == {g \in Known(cur) : Unsettled(g) \/ copy[cur][g] # entry[cur][g]}
    IN
    /\ pc = "reconcile"
    /\ \/ /\ todo = {} /\ Goto("live") /\ UNCHANGED <<op, row, uncertain, entry, copy>>
       \/ \E g \in todo :
            /\ \A h \in todo : g <= h
            /\ \/ /\ Unsettled(g) /\ ~entry[cur][g].dispatched
                  /\ entry' = [entry EXCEPT ![cur][g].outcome = "abandoned"]
                  /\ UNCHANGED <<op, row, uncertain, copy, guard>>
               \/ /\ Unsettled(g) /\ entry[cur][g].dispatched
                  /\ receipt[cur][g] = "none"
                  /\ EscalateFrom /\ UNCHANGED <<entry, copy>>
               \/ /\ Unsettled(g) /\ entry[cur][g].dispatched
                  /\ receipt[cur][g] # "none"
                  /\ entry' = [entry EXCEPT ![cur][g].outcome = OutcomeOf(receipt[cur][g])]
                  /\ UNCHANGED <<op, row, uncertain, copy, guard>>
               \/ /\ ~Unsettled(g) /\ BeadWrite(g, Goto("reconcile")) /\ UNCHANGED entry
    /\ UNCHANGED <<rebuilt, receipt, acc, deaths, rhold, saved, claimed, human, runtime,
                   bounds>>

\* The bead's own session, as listed on entry.  Parker._uncertain: not confirmed
\* live, so the role stays taken.  Parker._finish_live: live, so the pinned
\* generation never reached the runtime and is abandoned as the operation ends.
Live ==
    /\ pc = "live"
    /\ \/ seen = "none" /\ Goto("account") /\ UNCHANGED <<op, row, uncertain, entry>>
       \/ /\ seen = "unknown" /\ uncertain' = cur
          /\ Return /\ UNCHANGED <<op, row, entry>>
       \/ /\ seen = "live" /\ Gen = 0
          /\ Finish(cur, "running") /\ Return /\ UNCHANGED entry
       \/ /\ seen = "live" /\ Gen # 0
          /\ IF entry[cur][Gen].outcome = "launched"
             THEN EscalateFrom /\ UNCHANGED entry
             ELSE /\ entry' = [entry EXCEPT ![cur][Gen].outcome = "abandoned"]
                  /\ Finish(cur, "running") /\ Goto("liveCopy")
    /\ UNCHANGED <<rebuilt, receipt, acc, deaths, rhold, saved, bead, runtime, bounds>>

LiveCopy ==
    /\ pc = "liveCopy" /\ BeadWrite(Gen, Return)
    /\ UNCHANGED <<entry, rebuilt, receipt, acc, deaths, rhold, saved, claimed, human,
                   runtime, bounds>>

\* What the end of generation g is accounted as (Parker._account): only the
\* session's latest launched generation has evidence, and no trusted end is a
\* death; a generation rebuilt from the bead predates the release that reset it.
EndClass(g) ==
    IF g \in rebuilt[cur] THEN "reset"
    ELSE IF \E h \in Launched(cur) \ acc[cur] : h > g THEN "legacy"
    ELSE IF ended[cur].gen = g THEN ended[cur].cause ELSE "died"

\* Parker._account: with no session listed, every launched generation is
\* accounted once, and the bound escalates before the next launch.
Account ==
    LET todo  == Launched(cur) \ acc[cur]
        count == IF \E g \in todo : EndClass(g) = "died" THEN deaths[cur] + 1
                 ELSE IF \E g \in todo : EndClass(g) = "lifetime" THEN 0
                 ELSE deaths[cur]
    IN
    /\ pc = "account"
    /\ \/ todo = {} /\ Goto("pin") /\ UNCHANGED <<op, row, uncertain, acc, deaths, rhold>>
       \/ /\ todo # {} /\ ~up /\ rhold' = TRUE
          /\ Return /\ UNCHANGED <<op, row, uncertain, acc, deaths>>
       \/ /\ todo # {} /\ up /\ UNCHANGED rhold
          /\ acc' = [acc EXCEPT ![cur] = @ \cup todo]
          /\ deaths' = [deaths EXCEPT ![cur] = count]
          /\ IF count >= FailLimit THEN EscalateFrom
             ELSE Goto("pin") /\ UNCHANGED <<op, row, uncertain>>
    /\ UNCHANGED <<entry, rebuilt, receipt, saved, bead, runtime, bounds>>

\* The next generation of the session: one above every journaled one.
NextGen == IF Known(cur) = {} THEN 1
           ELSE 1 + CHOOSE g \in Known(cur) : \A h \in Known(cur) : h <= g

\* Step 2, Parker._pin and _pin_and_dispatch: a pinned generation is replayed;
\* otherwise the account gate escalates, defers the bead, or gives an account,
\* and generation n+1 is journaled with the operation's step.
Pin ==
    /\ pc = "pin"
    /\ \/ Gen # 0 /\ Goto("pinCopy") /\ UNCHANGED <<op, row, uncertain, entry>>
       \/ /\ Gen = 0
          /\ \/ EscalateFrom /\ UNCHANGED entry
             \/ Finish(cur, "waiting") /\ Return /\ UNCHANGED entry
             \/ /\ NextGen \in Gens
                /\ entry' = [entry EXCEPT ![cur][NextGen] = Pinned]
                /\ op' = [op EXCEPT ![cur].gen = NextGen]
                /\ Gen' = NextGen /\ pc' = "pinCopy"
                /\ UNCHANGED <<row, uncertain, cur, seen, retried, answer>>
    /\ UNCHANGED <<rebuilt, receipt, acc, deaths, rhold, saved, bead, runtime, bounds>>

PinCopy ==
    /\ pc = "pinCopy" /\ BeadWrite(Gen, Goto("holds"))
    /\ UNCHANGED <<entry, rebuilt, receipt, acc, deaths, rhold, saved, claimed, human,
                   runtime, bounds>>

\* Step 3, Parker._pin_holds: the pinned account is still admitted, or the
\* generation is abandoned and forgotten in one transaction.
PinHolds ==
    /\ pc = "holds"
    /\ \/ Goto("dispatch") /\ UNCHANGED <<op, row, uncertain, entry>>
       \/ /\ entry[cur][Gen].outcome \in {"none", "abandoned"}
          /\ entry' = [entry EXCEPT ![cur][Gen].outcome = "abandoned"]
          /\ op' = [op EXCEPT ![cur].gen = 0]
          /\ Goto("abandonCopy") /\ UNCHANGED <<row, uncertain>>
       \/ /\ entry[cur][Gen].outcome \notin {"none", "abandoned"}
          /\ EscalateFrom /\ UNCHANGED entry
    /\ UNCHANGED <<rebuilt, receipt, acc, deaths, rhold, saved, bead, runtime, bounds>>

PinAgain == /\ pc' = "pin" /\ Gen' = 0 /\ retried' = TRUE
            /\ UNCHANGED <<cur, seen, answer>>

\* The abandoned generation on the bead; one more pin in this call, then WAIT.
AbandonCopy ==
    /\ pc = "abandonCopy" /\ BeadWrite(Gen, IF retried THEN Return ELSE PinAgain)
    /\ UNCHANGED <<entry, rebuilt, receipt, acc, deaths, rhold, saved, claimed, human,
                   runtime, bounds>>

\* Step 4: dispatch, only ever of an entry with no outcome and no dispatch.
Dispatch ==
    /\ pc = "dispatch"
    /\ IF entry[cur][Gen] = Pinned
       THEN /\ entry' = [entry EXCEPT ![cur][Gen].dispatched = TRUE]
            /\ Goto("dispatchCopy") /\ UNCHANGED <<op, row, uncertain>>
       ELSE EscalateFrom /\ UNCHANGED entry
    /\ UNCHANGED <<rebuilt, receipt, acc, deaths, rhold, saved, bead, runtime, bounds>>

DispatchCopy ==
    /\ pc = "dispatchCopy" /\ BeadWrite(Gen, Goto("call"))
    /\ UNCHANGED <<entry, rebuilt, receipt, acc, deaths, rhold, saved, claimed, human,
                   runtime, bounds>>

\* A session of the pinned generation appears in the runtime's list.
Appears(liveness) ==
    /\ sess' = [sess EXCEPT ![cur] = liveness]
    /\ sessGen' = [sessGen EXCEPT ![cur] = Gen]
    /\ started' = [started EXCEPT ![cur] = @ \cup {Gen}]

\* Step 5: the runtime is asked to launch.  It starts the session, refuses with
\* nothing started, or fails in a way that says neither.
Call ==
    /\ pc = "call"
    /\ calls' = [calls EXCEPT ![cur][Gen] = @ + 1]
    /\ \/ \E r \in Receipts \ {"none"} :
            /\ answer' = r /\ pc' = "answered" /\ UNCHANGED <<cur, seen, Gen, retried>>
            /\ IF r = "started" THEN Appears("live") ELSE UNCHANGED <<sess, sessGen, started>>
            /\ UNCHANGED <<op, row, uncertain>>
       \/ /\ Appears("unknown") \/ UNCHANGED <<sess, sessGen, started>>
          /\ EscalateFrom
    /\ UNCHANGED <<entry, rebuilt, receipt, acc, deaths, rhold, saved, bead, ended, up,
                   dead, bounds>>

\* The receipt, before anything else is done with the answer: written once.
ReceiptPut ==
    /\ pc = "answered"
    /\ IF receipt[cur][Gen] = "none"
       THEN /\ receipt' = [receipt EXCEPT ![cur][Gen] = answer]
            /\ Goto("outcome") /\ UNCHANGED <<op, row, uncertain>>
       ELSE EscalateFrom /\ UNCHANGED receipt
    /\ UNCHANGED <<entry, rebuilt, acc, deaths, rhold, saved, bead, runtime, bounds>>

\* Steps 0 and 6, Parker._outcome: with no receipt the bead is held; with one,
\* its outcome goes on the entry, in the journal and then on the bead.
Outcome ==
    /\ pc = "outcome"
    /\ \/ receipt[cur][Gen] = "none" /\ EscalateFrom /\ UNCHANGED entry
       \/ /\ receipt[cur][Gen] # "none"
          /\ IF entry[cur][Gen].outcome \in {"none", OutcomeOf(receipt[cur][Gen])}
             THEN /\ entry' = [entry EXCEPT ![cur][Gen].outcome = OutcomeOf(receipt[cur][Gen])]
                  /\ Goto("outcomeCopy") /\ UNCHANGED <<op, row, uncertain>>
             ELSE EscalateFrom /\ UNCHANGED entry
    /\ UNCHANGED <<rebuilt, receipt, acc, deaths, rhold, saved, bead, runtime, bounds>>

OutcomeCopy ==
    /\ pc = "outcomeCopy" /\ BeadWrite(Gen, Goto("finish"))
    /\ UNCHANGED <<entry, rebuilt, receipt, acc, deaths, rhold, saved, claimed, human,
                   runtime, bounds>>

\* The operation after a settled dispatch: RUNNING; or the generation is
\* forgotten, with a hold (unavailable), for another account or a human (stale
\* login), or with one attempt spent (Parker._spend).
FinishLaunch ==
    LET r == receipt[cur][Gen]
        tried == op[cur].attempts + 1
    IN
    /\ pc = "finish"
    /\ \/ r = "started" /\ Finish(cur, "running") /\ Return /\ UNCHANGED rhold
       \/ /\ r = "unavailable" /\ op' = [op EXCEPT ![cur].gen = 0] /\ rhold' = TRUE
          /\ Return /\ UNCHANGED <<row, uncertain>>
       \/ /\ r = "stale" /\ UNCHANGED rhold
          /\ \/ op' = [op EXCEPT ![cur].gen = 0] /\ Return /\ UNCHANGED <<row, uncertain>>
             \/ EscalateFrom
       \/ /\ r = "failed" /\ UNCHANGED rhold
          /\ IF tried >= FailLimit THEN EscalateFrom
             ELSE /\ op' = [op EXCEPT ![cur].gen = 0, ![cur].attempts = tried]
                  /\ Return /\ UNCHANGED <<row, uncertain>>
    /\ UNCHANGED <<entry, rebuilt, receipt, acc, deaths, saved, bead, runtime, bounds>>

------------------------------
(* The environment. *)

\* wsd dies, or a bead write raises BeadsUnavailable: the journal stays as the
\* last transaction left it and the operation stays open.
Crash ==
    /\ pc # "idle" /\ crashes < MaxCrashes
    /\ crashes' = crashes + 1 /\ Return
    /\ UNCHANGED <<journal, saved, bead, runtime, losses, outages>>

\* A session ends; the runtime confirms it and keeps the record of this end.  A
\* session that was already running at a reset does not count as a death.
SessionEnds(b, cause) ==
    /\ sess[b] # "none"
    /\ sess' = [sess EXCEPT ![b] = "none"]
    /\ ended' = [ended EXCEPT ![b] = [gen |-> sessGen[b], cause |-> cause]]
    /\ dead' = [dead EXCEPT ![b] = IF cause = "lifetime" THEN 0
                                   ELSE IF cause = "died" /\ sessGen[b] \notin acc[b] /\ @ < FailLimit
                                   THEN @ + 1 ELSE @]
    /\ UNCHANGED <<journal, saved, bead, sessGen, up, calls, started, guard, bounds>>

\* The runtime lists a session again that it had taken for ended, between two
\* calls of the guard (test_a_pin_abandoned_for_a_live_session_is_never_dispatched).
Relisted(b) ==
    /\ pc = "idle" /\ sessGen[b] # 0 /\ \A x \in Beads : sess[x] = "none"
    /\ losses < MaxLosses /\ losses' = losses + 1
    /\ sess' = [sess EXCEPT ![b] = "live"]
    /\ UNCHANGED <<journal, saved, bead, sessGen, ended, up, calls, started, dead, guard, crashes,
                   outages>>

\* The runtime can no longer, or can again, tell whether a listed session runs.
LivenessChanges(b) ==
    /\ \/ sess[b] = "unknown" /\ sess' = [sess EXCEPT ![b] = "live"] /\ UNCHANGED outages
       \/ /\ sess[b] = "live" /\ sess' = [sess EXCEPT ![b] = "unknown"]
          /\ outages < MaxOutages /\ outages' = outages + 1
    /\ UNCHANGED <<journal, saved, bead, sessGen, ended, up, calls, started, dead, guard, crashes,
                   losses>>

RuntimeDown ==
    /\ up /\ outages < MaxOutages /\ up' = FALSE /\ outages' = outages + 1
    /\ UNCHANGED <<journal, saved, bead, sess, sessGen, ended, calls, started, dead, guard, crashes,
                   losses>>

RuntimeUp ==
    /\ ~up /\ up' = TRUE
    /\ UNCHANGED <<journal, saved, bead, sess, sessGen, ended, calls, started, dead, guard, bounds>>

\* The bead is closed or taken over by someone with the right to do so.
ClaimLost(b) ==
    /\ b \in claimed /\ outages < MaxOutages /\ outages' = outages + 1
    /\ claimed' = claimed \ {b}
    /\ UNCHANGED <<journal, saved, human, copy, runtime, guard, crashes, losses>>

\* Anyone may put `needs-human` on a bead, or take it off.
HumanLabel(b) ==
    /\ outages < MaxOutages /\ outages' = outages + 1
    /\ human' = (human \cup {b}) \ (human \cap {b})
    /\ UNCHANGED <<journal, saved, claimed, copy, runtime, guard, crashes, losses>>

\* Journal.backup, outside any transaction.
Backup ==
    /\ pc = "idle" /\ losses < MaxLosses /\ saved # Journal /\ saved' = Journal
    /\ UNCHANGED <<journal, bead, runtime, guard, bounds>>

\* wsd starts again on the last backup; the first one is the empty journal of
\* a journal that was lost.
Restore ==
    /\ pc = "idle" /\ losses < MaxLosses /\ losses' = losses + 1
    /\ op' = saved.op /\ row' = saved.row /\ entry' = saved.entry
    /\ rebuilt' = saved.rebuilt /\ receipt' = saved.receipt /\ acc' = saved.acc
    /\ deaths' = saved.deaths /\ rhold' = saved.rhold /\ uncertain' = saved.uncertain
    /\ UNCHANGED <<saved, bead, runtime, guard, crashes, outages>>

------------------------------
Caller(b) == StartNew(b) \/ OpenResume(b) \/ SweepOurs(b) \/ SweepNotOurs(b)
             \/ ReplayRelease(b) \/ Escalate(b) \/ Enter(b)

Step == \/ Checks \/ OwnDispatch \/ Rebuild \/ Reconcile \/ Live \/ LiveCopy
        \/ Account \/ Pin \/ PinCopy \/ PinHolds \/ AbandonCopy \/ Dispatch
        \/ DispatchCopy \/ Call \/ ReceiptPut \/ Outcome \/ OutcomeCopy \/ FinishLaunch

Environment == \/ Crash \/ RuntimeDown \/ RuntimeUp \/ Backup \/ Restore
               \/ \E b \in Beads : \/ Release(b) \/ LivenessChanges(b) \/ ClaimLost(b)
                                   \/ HumanLabel(b) \/ Relisted(b)
                                   \/ \E c \in Causes : SessionEnds(b, c)

Next == PickupBegin \/ Step \/ Environment \/ \E b \in Beads : Caller(b)

Spec == Init /\ [][Next]_vars

\* wsd ticks every workstream: a pickup begins and carries each open operation
\* on, a guard that has started runs on, and an outage of the runtime ends.
Fairness ==
    /\ WF_vars(PickupBegin) /\ WF_vars(Step) /\ WF_vars(RuntimeUp)
    /\ \A b \in Beads : WF_vars(Enter(b)) /\ WF_vars(Escalate(b)) /\ WF_vars(ReplayRelease(b))

FairSpec == Spec /\ Fairness

------------------------------
JournalType ==
    [op : [Beads -> Op], row : [Beads -> Rows], entry : [Beads -> [Gens -> Entry]],
     rebuilt : [Beads -> SUBSET Gens], receipt : [Beads -> [Gens -> Receipts]],
     acc : [Beads -> SUBSET Gens], deaths : [Beads -> Nat],
     rhold : BOOLEAN, uncertain : Beads \cup {NoBead}]

BeadType ==
    /\ claimed \subseteq Beads /\ human \subseteq Beads
    /\ copy \in [Beads -> [Gens -> Entry]]

RuntimeType ==
    /\ sess \in [Beads -> {"none", "live", "unknown"}]
    /\ sessGen \in [Beads -> 0 .. MaxGen]
    /\ ended \in [Beads -> [gen : 0 .. MaxGen, cause : Causes]]
    /\ up \in BOOLEAN
    /\ calls \in [Beads -> [Gens -> Nat]]
    /\ started \in [Beads -> SUBSET Gens]
    /\ dead \in [Beads -> Nat]

GuardType ==
    /\ pc \in PCs /\ cur \in Beads \cup {NoBead} /\ (cur = NoBead <=> pc = "idle")
    /\ seen \in {"none", "live", "unknown"}
    /\ Gen \in 0 .. MaxGen /\ (pc \in PinnedPCs => Gen # 0)
    /\ retried \in BOOLEAN /\ answer \in Receipts

\* Every variable has its type, an open operation never has more attempts than
\* its limit, and the guard holds a bead exactly while it works.
TypeOK ==
    /\ Journal \in JournalType /\ saved \in JournalType
    /\ BeadType /\ RuntimeType /\ GuardType
    /\ crashes \in Nat /\ losses \in Nat /\ outages \in Nat

\* No generation is ever handed to the runtime twice, whatever crashes and
\* whatever journal wsd starts again on (park.py: "never dispatched again").
AtMostOnce == \A b \in Beads : \A g \in Gens : calls[b][g] <= 1

\* A generation reaches the runtime only after its dispatch is on the bead, so a
\* journal rebuilt from the bead knows of it (steps 4 and 5 of the guard).
DispatchOnBeadFirst ==
    \A b \in Beads : \A g \in Gens : calls[b][g] > 0 => copy[b][g].dispatched

\* A later generation is dispatched only when every earlier one that reached the
\* runtime has its outcome on the bead (step 1, Parker._reconcile).
EarlierSettled ==
    \A b \in Beads : \A g, h \in Gens :
        g < h /\ calls[b][g] > 0 /\ calls[b][h] > 0
            => copy[b][g].outcome \in {"launched", "abandoned"}

\* What the bead records is what happened: an abandoned generation never started
\* a session, and a launched one did (Parker._settle, _finish_live, _reconcile).
OutcomeTrue ==
    \A b \in Beads : \A g \in Gens :
        /\ copy[b][g].outcome = "abandoned" => g \notin started[b]
        /\ copy[b][g].outcome = "launched"  => g \in started[b]

\* One coder session per workstream at any time (park.py:1087, ADR 4.3).
OneCoder ==
    \A b, c \in Beads : sess[b] # "none" /\ sess[c] # "none" => b = c

\* With its journal intact, wsd never launches a bead whose sessions have died
\* FailLimit times in a row since the last release or claim (Parker._account).
CrashLoopStops == pc = "call" /\ losses = 0 => dead[cur] < FailLimit

\* The ledger of a bead's launches is right: each generation is settled before the next is dispatched, with
\* what became of it, and the deaths it counts stop a crash loop (Parker._reconcile, _settle, _account).
Accounted == EarlierSettled /\ OutcomeTrue /\ CrashLoopStops

\* Every launch operation ends (running, waiting or with a human), unless the
\* role is taken by another bead's session or the bead's own cannot be confirmed.
LaunchEnds ==
    \A b \in Beads :
        op[b].kind = "launch" ~> \/ op[b].kind # "launch"
                                 \/ sess[b] = "unknown"
                                 \/ \E x \in Beads \ {b} : sess[x] # "none"

------------------------------
(* Why a generation is dispatched once, and one session runs: what holds in  *)
(* every state, between any two steps of the guard.                          *)

\* An entry that is not there is not dispatched.
Formed(e) == \A b \in Beads : \A g \in Gens :
                 e[b][g].outcome = "absent" => ~e[b][g].dispatched

\* What the guard relies on from one step to the next: before the dispatch the
\* bead's copy is the journal's entry, after it the copy tells of the dispatch,
\* and until the call the runtime has not seen the generation.
Handover ==
    /\ pc \in {"holds", "dispatch"} => copy[cur][Gen] = entry[cur][Gen]
    /\ pc = "dispatchCopy" => entry[cur][Gen].dispatched /\ calls[cur][Gen] = 0
    /\ pc = "call" => copy[cur][Gen].dispatched /\ calls[cur][Gen] = 0

\* The inductive invariant behind AtMostOnce and DispatchOnBeadFirst.
DispatchInv ==
    /\ Formed(entry) /\ Formed(copy) /\ Formed(saved.entry)
    /\ AtMostOnce /\ DispatchOnBeadFirst /\ Handover

\* The inductive invariant behind OneCoder: while the guard works on a bead, no
\* other bead has a session, and none appears but the one the guard launches.
RoleInv ==
    OneCoder /\ (pc \notin {"idle", "handoff"} => \A x \in Beads \ {cur} : sess[x] = "none")

------------------------------
(* Why the ledger is right: what the journal, its backup and the bead's copy *)
(* say of every generation, and what the guard has made sure of when it      *)
(* reaches a step.                                                           *)

Settled == {"launched", "abandoned"}

\* The guard's steps from the point where the bead and the journal agree on all
\* earlier generations, to the call.
AgreedPCs == {"live", "account", "pin"}
OwnPCs    == {"pinCopy", "holds", "dispatch", "dispatchCopy", "call", "abandonCopy"}
WorkPCs   == {"checks", "own", "rebuild", "reconcile"} \cup AgreedPCs \cup OwnPCs

\* The open operation's generation is journaled, without an outcome until it is
\* dispatched; a later one can only be there if the bead has this one settled.
PinTrue(o, e) ==
    \A b \in Beads : o[b].gen # 0 =>
        /\ e[b][o[b].gen].outcome # "absent"
        /\ e[b][o[b].gen].dispatched \/ e[b][o[b].gen].outcome = "none"
        /\ \A h \in Gens : h > o[b].gen /\ e[b][h].outcome # "absent"
                               => copy[b][o[b].gen].outcome \in Settled

\* Entries have no gaps, and tell the truth: launched is started, and a dispatch
\* that was abandoned reached the runtime and started nothing.
EntriesTrue(e) ==
    \A b \in Beads : \A g \in Gens :
        /\ \A h \in Gens : g < h /\ e[b][h].outcome # "absent" => e[b][g].outcome # "absent"
        /\ e[b][g].dispatched => copy[b][g].outcome # "absent"
        /\ e[b][g].outcome = "launched" => g \in started[b]
        /\ e[b][g].outcome = "abandoned" /\ e[b][g].dispatched
               => g \notin started[b] /\ calls[b][g] > 0

\* A receipt is of a call, and says what came of it.
ReceiptsTrue(r) ==
    \A b \in Beads : \A g \in Gens : r[b][g] # "none" =>
        calls[b][g] > 0 /\ (r[b][g] = "started" <=> g \in started[b])

\* The bead's copy of a generation comes after that of every earlier one.
CopyInOrder ==
    \A b \in Beads : \A g, h \in Gens :
        g < h /\ copy[b][h].outcome # "absent" => copy[b][g].outcome \in Settled

\* Only a call starts a session, and a bead's last session was started by one.
SessionsTrue ==
    \A b \in Beads :
        /\ \A g \in started[b] : calls[b][g] > 0
        /\ sessGen[b] # 0 => sessGen[b] \in started[b]
        /\ sess[b] # "none" => sessGen[b] # 0

\* The operation the guard works on is the bead's, with the generation it holds.
GuardsOp ==
    pc \in WorkPCs \cup {"answered", "outcome", "outcomeCopy", "finish"} =>
        /\ op[cur].kind = "launch"
        /\ op[cur].gen = IF pc = "abandonCopy" THEN 0 ELSE Gen

\* What each step has made sure of for the next ones.
StepsTrue ==
    /\ pc \in {"rebuild", "reconcile", "holds", "dispatch"} \cup AgreedPCs /\ Gen # 0
           => entry[cur][Gen] = Pinned
    /\ pc = "reconcile" =>
           \A g \in Gens : copy[cur][g].outcome # "absent" => entry[cur][g].outcome # "absent"
    /\ pc \in AgreedPCs =>
           \A g \in Gens : /\ entry[cur][g] = copy[cur][g]
                           /\ g # Gen => entry[cur][g].outcome # "none"
    /\ pc \in OwnPCs =>
           \A g \in Gens : /\ g # Gen => /\ entry[cur][g] = copy[cur][g]
                                         /\ entry[cur][g].outcome # "none"
                           /\ g > Gen => entry[cur][g].outcome = "absent"
    /\ pc \in {"dispatchCopy", "call"} => entry[cur][Gen] = [dispatched |-> TRUE, outcome |-> "none"]
    /\ pc = "call" => copy[cur][Gen] = entry[cur][Gen]
    /\ pc \in {"abandonCopy", "liveCopy"} => /\ entry[cur][Gen].outcome = "abandoned"
                                            /\ copy[cur][Gen].outcome # "absent"
    /\ pc = "pinCopy" => entry[cur][Gen] = Pinned
    /\ pc \in {"answered", "outcome", "outcomeCopy", "finish"} => entry[cur][Gen].dispatched
    /\ pc = "answered" => /\ calls[cur][Gen] > 0 /\ answer # "none"
                          /\ answer = "started" <=> Gen \in started[cur]

\* The guard calls only for a bead whose session it saw gone, and none came since.
SeenTrue ==
    /\ pc \in WorkPCs /\ seen = "none" => sess[cur] = "none"
    /\ pc \in {"account", "pin"} \cup OwnPCs => seen = "none"

\* The inductive invariant behind EarlierSettled and OutcomeTrue.
LedgerInv ==
    /\ PinTrue(op, entry) /\ PinTrue(saved.op, saved.entry)
    /\ EntriesTrue(entry) /\ EntriesTrue(saved.entry) /\ EntriesTrue(copy)
    /\ ReceiptsTrue(receipt) /\ ReceiptsTrue(saved.receipt)
    /\ CopyInOrder /\ SessionsTrue /\ GuardsOp /\ StepsTrue /\ SeenTrue
    /\ EarlierSettled /\ OutcomeTrue

\* A session of b died that the journal has not accounted yet.
DeathPending(b) == /\ sess[b] = "none" /\ sessGen[b] # 0 /\ sessGen[b] \notin acc[b]
                   /\ ended[b].cause = "died"

\* Every launch the journal knows of has been accounted when the guard pins.
PinAccounted == pc \in {"pin"} \cup OwnPCs => Launched(cur) \subseteq acc[cur]

\* A journal that was never lost knows all that the bead has a copy of.
JournalWhole(b) ==
    /\ rebuilt[b] = {}
    /\ \A g \in Gens : copy[b][g].outcome # "absent" => entry[b][g].outcome # "absent"

\* All sessions but the last are accounted, and the record of the last end is of
\* the last session.
EndsTrue(b) ==
    /\ \A g \in started[b] : g # sessGen[b] => g \in acc[b]
    /\ sess[b] = "none" /\ sessGen[b] # 0 =>
           ended[b].gen = sessGen[b] /\ (ended[b].cause = "lifetime" => dead[b] = 0)

\* The journal counts every death but one that it has yet to account.
DeathsCounted(b) == dead[b] <= deaths[b] + (IF DeathPending(b) THEN 1 ELSE 0)

\* A bead at the limit has no launch open, and no row that a resume would take up.
LimitHeld(b) ==
    deaths[b] >= FailLimit => op[b].kind \in {"none", "escalate"} /\ row[b] \in {"none", "stuck"}

\* The inductive invariant behind CrashLoopStops, of a journal that was never lost.
CrashInv ==
    /\ PinAccounted
    /\ losses = 0 =>
           \A b \in Beads : JournalWhole(b) /\ EndsTrue(b) /\ DeathsCounted(b) /\ LimitHeld(b)

------------------------------
\* What the promise sees of this state.
Called  == [b \in Beads |-> {g \in Gens : calls[b][g] > 0}]
Running == {b \in Beads : sess[b] # "none"}

Promise == INSTANCE LaunchPromise WITH called <- Called, running <- Running

\* The guard keeps its promise: every step is one of LaunchPromise or a stutter.
KeepsPromise == Promise!Spec

==============================
