------------------------------- MODULE ActionJournal -------------------------------
(***************************************************************************)
(* Approved outward actions (actions/): the request, its decision and its  *)
(* dispatch, three records of one journal whose transitions are rebuilt by *)
(* pure reducers inside one transaction (journal.py, transitions.py).      *)
(*                                                                         *)
(* Beside the journal stand the things its observations are about: the     *)
(* shells the queue created, the native decision, and the launcher and     *)
(* worker process whose effect must happen at most once.  Observations are *)
(* truthful, but may be late, missing, or lost.  All requests come from    *)
(* one session and bead and want the same resource.                        *)
(***************************************************************************)
EXTENDS Integers, FiniteSets

CONSTANTS
    Requests,        \* creation keys
    Idents,          \* denial identities an intent may have
    MaxReads,        \* bounded lookups and reconciliations (3 in the code)
    MaxGrooms,       \* groom revisions (2 in the code)
    MaxLaunches,     \* launcher attempts (3 in the code)
    MaxPerBead,      \* outstanding requests of one bead (2 in the code)
    ActionFaults,    \* the disturbances allowed
    MaxActionFaults  \* bound: how many of them

ASSUME ActionBounds ==
    /\ MaxReads \in Nat \ {0} /\ MaxGrooms \in Nat /\ MaxLaunches \in Nat \ {0}
    /\ MaxPerBead \in Nat \ {0} /\ MaxActionFaults \in Nat

VARIABLES
    request,    \* requests: the staged request records
    decision,   \* decisions: one record per approval
    dispatch,   \* dispatches: the initial record per approval
    kid,        \* dispatches: the reconciliation children, newest first
    denials,    \* denials: identities denied in the session
    advice,     \* the judgement receipt and the grooming history
    outside,    \* external: shells, native decision, processes, effect, clocks
    authority,  \* whether the deciding principal's authority is current
    afaults     \* disturbances so far

actionVars == <<request, decision, dispatch, kid, denials, advice, outside, authority, afaults>>

NoEvent == [id |-> 0, v |-> "none"]
NoRequest == [phase |-> "none", ident |-> "none", rev |-> 1, grooms |-> 0, lookups |-> 0,
              effect |-> "none"]
NoDecision == [phase |-> "none", ev |-> NoEvent, rev |-> 0, observed |-> NoEvent, tried |-> {}]
NoDispatch == [state |-> "none", claimed |-> FALSE, launches |-> 0, lookups |-> 0, evidence |-> FALSE,
               settled |-> FALSE, recovered |-> FALSE]
NoKid == [n |-> 0, state |-> "none", effect |-> "unknown", clean |-> FALSE]
NoAdvice == [rev |-> 0, verdict |-> "none", assessed |-> {}]
NoWorld == [made |-> 0, creating |-> FALSE, native |-> NoEvent, writes |-> 0, writing |-> FALSE,
            proc |-> "none", done |-> 0, late |-> FALSE, skew |-> FALSE]

ActionInit ==
    /\ request = [r \in Requests |-> NoRequest]
    /\ decision = [r \in Requests |-> NoDecision]
    /\ dispatch = [r \in Requests |-> NoDispatch]
    /\ kid = [r \in Requests |-> NoKid]
    /\ denials = {}
    /\ advice = [r \in Requests |-> NoAdvice]
    /\ outside = [r \in Requests |-> NoWorld]
    /\ authority = TRUE
    /\ afaults = 0

ActionFault(kind) == kind \in ActionFaults /\ afaults < MaxActionFaults /\ afaults' = afaults + 1

Terminal == {"completed", "denied", "cancelled", "reconciled-abandoned"}
RequestAt(r, phases) == request[r].phase \in phases
NotDenied(ident) == ident \notin denials
ClockHolds(r) == ~outside[r].skew
Outstanding(r) == request[r].phase \notin Terminal \union {"none"}
Undecided(r) == decision[r].phase = "none" \/ (decision[r].phase = "invalid" /\ decision[r].observed = NoEvent)

------------------------------
(* Requests *)
RequestOnly(r, to) ==
    /\ request' = [request EXCEPT ![r] = to]
    /\ UNCHANGED <<decision, dispatch, kid, denials, authority, afaults>>

\* What is wrong with the inputs of a new request, if anything.
InputFlaws == {"none", "decoding", "binding", "reference"}
DecodesOk(flaw) == flaw # "decoding"
BindingsOk(flaw) == flaw # "binding"
ReferencesOk(flaw) == flaw # "reference"

AddRequest(r, ident, flaw) ==
    /\ RequestAt(r, {"none"})
    /\ DecodesOk(flaw) /\ BindingsOk(flaw) /\ ReferencesOk(flaw)
    /\ NotDenied(ident)
    /\ Cardinality({s \in Requests : Outstanding(s)}) < MaxPerBead
    /\ RequestOnly(r, [NoRequest EXCEPT !.phase = "allocation-intent", !.ident = ident])
    /\ UNCHANGED <<advice, outside>>

\* Written ahead: only after this commit is the one create call made.
IssueAllocation(r) ==
    /\ RequestAt(r, {"allocation-intent"})
    /\ RequestOnly(r, [request[r] EXCEPT !.phase = "allocation-unknown"])
    /\ outside' = [outside EXCEPT ![r].creating = TRUE]
    /\ UNCHANGED advice

\* A lookup that sees the one shell allocates, and one that sees none counts; the
\* journal refuses what saw more (contradictory-allocation-readback).
ObserveAllocation(r, n) ==
    /\ RequestAt(r, {"allocation-unknown"}) /\ request[r].lookups < MaxReads
    /\ ClockHolds(r)
    /\ n \in {0, outside[r].made}
    /\ RequestOnly(r, [request[r] EXCEPT !.lookups = @ + 1, !.phase = IF n = 1 THEN "allocated" ELSE @])
    /\ UNCHANGED <<advice, outside>>

\* The operator's repair names the canonical shell and closes the others.
RecoverAllocation(r) ==
    /\ RequestAt(r, {"allocation-unknown"})
    /\ request[r].lookups = MaxReads \/ ~ClockHolds(r)
    /\ outside[r].made >= 1 /\ ~outside[r].creating
    /\ RequestOnly(r, [request[r] EXCEPT !.phase = "allocated"])
    /\ outside' = [outside EXCEPT ![r].made = 1]
    /\ UNCHANGED advice

Stage == [p \in {"allocated", "blocker-pending", "parked", "landed"} |->
            CASE p = "allocated" -> "blocker-pending"
              [] p = "blocker-pending" -> "parked"
              [] p = "parked" -> "landed"
              [] p = "landed" -> "ask-pinned"]

\* Blocker, park and land, each on its own readback, then the pinned ask.
ObserveStage(r) ==
    /\ RequestAt(r, DOMAIN Stage)
    /\ RequestOnly(r, [request[r] EXCEPT !.phase = Stage[@]])
    /\ UNCHANGED <<advice, outside>>

ObserveSufficient(r) ==
    /\ RequestAt(r, {"ask-pinned"})
    /\ RequestOnly(r, [request[r] EXCEPT !.phase = "sufficient"])
    /\ UNCHANGED <<advice, outside>>

ObserveFiled(r) ==
    /\ RequestAt(r, {"sufficient"})
    /\ NotDenied(request[r].ident)
    /\ RequestOnly(r, [request[r] EXCEPT !.phase = "filed"])
    /\ UNCHANGED <<advice, outside>>

------------------------------
(* Judgement: one bounded provider call, bound to the request as it was; *)
(* advice about another revision than the current one is not used.       *)
Bound(r) == request[r].phase \in {"ask-pinned", "sufficient", "filed"} /\ NotDenied(request[r].ident)

Assess(r) ==
    /\ Bound(r)
    /\ advice[r].verdict = "none" \/ (advice[r].verdict # "asked" /\ advice[r].rev # request[r].rev)
    /\ advice' = [advice EXCEPT ![r].verdict = "asked", ![r].rev = request[r].rev]
    /\ UNCHANGED <<request, decision, dispatch, kid, denials, outside, authority, afaults>>

\* A reply in time is kept; a late, failed or mismatched one is no advice.
AssessReply(r, verdict) ==
    /\ advice[r].verdict = "asked"
    /\ advice' = [advice EXCEPT ![r].verdict = verdict]
    /\ UNCHANGED <<request, decision, dispatch, kid, denials, outside, authority, afaults>>

CurrentAdvice(r, verdict) == Bound(r) /\ advice[r].rev = request[r].rev /\ advice[r].verdict = verdict

\* Current negative advice is recorded once per revision.
RecordGroom(r) ==
    /\ CurrentAdvice(r, "groom")
    /\ request[r].rev \notin advice[r].assessed
    /\ advice' = [advice EXCEPT ![r].assessed = @ \union {request[r].rev}]
    /\ UNCHANGED <<request, decision, dispatch, kid, denials, outside, authority, afaults>>

\* A groom spends recorded current advice, goes back to be parked and landed
\* again, and never onto a denied intent or over an unsettled decision.
Groom(r, ident) ==
    /\ CurrentAdvice(r, "groom") /\ request[r].rev \in advice[r].assessed
    /\ RequestAt(r, {"ask-pinned", "sufficient"}) /\ request[r].grooms < MaxGrooms
    /\ Undecided(r) /\ NotDenied(ident)
    /\ RequestOnly(r, [request[r] EXCEPT !.phase = "blocker-pending", !.ident = ident, !.rev = @ + 1,
                                         !.grooms = @ + 1])
    /\ UNCHANGED <<advice, outside>>

------------------------------
(* Decisions *)
DecisionOnly(r, to) ==
    /\ decision' = [decision EXCEPT ![r] = to]
    /\ UNCHANGED <<request, dispatch, kid, advice, authority>>

Decidable(r, v) == request[r].phase = "filed" \/ (v = "deny" /\ request[r].phase \in {"ask-pinned", "sufficient"})
DecisionCurrent(r) == decision[r].rev = request[r].rev /\ Decidable(r, decision[r].ev.v)

\* Mutant: an event found invalid by a foreign native decision gives way to any other.
BeginAfterForeign(r, e) ==
    /\ authority /\ Decidable(r, e.v)
    /\ decision[r].phase \in {"none", "invalid"} /\ e \notin decision[r].tried
    /\ DecisionOnly(r, [decision[r] EXCEPT !.phase = "pending", !.ev = e, !.rev = request[r].rev])
    /\ UNCHANGED <<denials, outside, afaults>>

\* The first valid event decides; after an invalid one another event may, except
\* one that was itself found invalid; a foreign native decision admits only itself.
BeginDecision(r, e) ==
    /\ authority /\ Decidable(r, e.v)
    /\ LET old == decision[r]
           fresh == [old EXCEPT !.phase = "pending", !.ev = e, !.rev = request[r].rev]
       IN \/ /\ old.phase = "none"
             /\ DecisionOnly(r, fresh)
          \/ /\ old.phase = "invalid" /\ old.observed = NoEvent /\ e \notin old.tried
             /\ DecisionOnly(r, fresh)
          \/ /\ old.phase = "invalid" /\ old.observed = e
             /\ DecisionOnly(r, [fresh EXCEPT !.phase = "native-written"])
    /\ UNCHANGED <<denials, outside, afaults>>

\* The native write is issued once, after the commit that says so.
IssueDecision(r) ==
    /\ decision[r].phase = "pending" /\ authority /\ DecisionCurrent(r)
    /\ DecisionOnly(r, [decision[r] EXCEPT !.phase = "write-issued"])
    /\ outside' = [outside EXCEPT ![r].writes = @ + 1, ![r].writing = TRUE]
    /\ UNCHANGED <<denials, afaults>>

ReadDecision(r) ==
    /\ decision[r].phase = "write-issued" /\ DecisionCurrent(r)
    /\ outside[r].native = decision[r].ev
    /\ DecisionOnly(r, [decision[r] EXCEPT !.phase = "native-written"])
    /\ UNCHANGED <<denials, outside, afaults>>

Finalize == [p \in {"native-written", "native-closed", "pins-finished"} |->
               CASE p = "native-written" -> "native-closed"
                 [] p = "native-closed" -> "pins-finished"
                 [] p = "pins-finished" -> "committed"]

CommitsDenial(r) == Finalize[decision[r].phase] = "committed" /\ decision[r].ev.v = "deny"

\* Close, pins, finish, each on a readback of the very event; a committed denial
\* enters the session's denials in the same transaction.
FinalizeDecision(r) ==
    /\ decision[r].phase \in DOMAIN Finalize /\ authority /\ DecisionCurrent(r)
    /\ outside[r].native = decision[r].ev
    /\ DecisionOnly(r, [decision[r] EXCEPT !.phase = Finalize[@]])
    /\ denials' = IF CommitsDenial(r) THEN denials \union {request[r].ident} ELSE denials
    /\ UNCHANGED <<outside, afaults>>

\* Before the write an event is dropped when its authority or its digest is gone;
\* after it only on reading another native decision.
InvalidateDecision(r) ==
    /\ \/ /\ decision[r].phase = "pending"
          /\ ~authority \/ decision[r].rev # request[r].rev
          /\ DecisionOnly(r, [decision[r] EXCEPT !.phase = "invalid", !.tried = @ \union {decision[r].ev}])
       \/ /\ decision[r].phase = "write-issued"
          /\ outside[r].native \notin {NoEvent, decision[r].ev}
          /\ DecisionOnly(r, [decision[r] EXCEPT !.phase = "invalid", !.observed = outside[r].native,
                                                 !.tried = @ \union {decision[r].ev}])
    /\ UNCHANGED <<denials, outside, afaults>>

------------------------------
(* Dispatches *)
DispatchOnly(r, to) ==
    /\ dispatch' = [dispatch EXCEPT ![r] = to]
    /\ UNCHANGED <<request, decision, denials, advice, authority, afaults>>

Held(r) == dispatch[r].state # "none" /\ ~dispatch[r].settled
InTime(r) == ~outside[r].late /\ ClockHolds(r)

\* One initial dispatch per approval, and none while the resource is held.
AddDispatch(r) ==
    /\ dispatch[r].state = "none"
    /\ RequestAt(r, {"filed"})
    /\ decision[r].phase = "committed" /\ decision[r].ev.v = "approve" /\ decision[r].rev = request[r].rev
    /\ \A s \in Requests : ~Held(s)
    /\ DispatchOnly(r, [NoDispatch EXCEPT !.state = "preparing", !.launches = 1])
    /\ outside' = [outside EXCEPT ![r].proc = "up", ![r].late = FALSE]
    /\ UNCHANGED kid

Ready(r) ==
    /\ dispatch[r].state = "preparing" /\ InTime(r) /\ outside[r].proc = "up"
    /\ DispatchOnly(r, [dispatch[r] EXCEPT !.state = "ready"])
    /\ UNCHANGED <<kid, outside>>

\* Durable before its acknowledgement, which may be lost on the way.
ConsumeClaim(r, heard) ==
    /\ dispatch[r].state = "ready" /\ InTime(r) /\ outside[r].proc = "up"
    /\ DispatchOnly(r, [dispatch[r] EXCEPT !.state = "executing", !.claimed = TRUE])
    /\ outside' = IF heard THEN [outside EXCEPT ![r].proc = "claimed"] ELSE outside
    /\ UNCHANGED kid

\* Preparation failed or the claim was never consumed: only with the launcher gone.
RetireLauncher(r) ==
    /\ dispatch[r].state \in {"preparing", "ready"} /\ outside[r].proc = "gone"
    /\ DispatchOnly(r, [dispatch[r] EXCEPT !.state = "held"])
    /\ UNCHANGED <<kid, outside>>

RestartPreparation(r) ==
    /\ dispatch[r].state = "held" /\ InTime(r) /\ ~dispatch[r].settled
    /\ dispatch[r].launches < MaxLaunches
    /\ DispatchOnly(r, [dispatch[r] EXCEPT !.state = "preparing", !.launches = @ + 1])
    /\ outside' = [outside EXCEPT ![r].proc = "up"]
    /\ UNCHANGED kid

MarkUncertain(r) ==
    /\ dispatch[r].state \in {"ready", "executing"} /\ ~dispatch[r].settled
    /\ DispatchOnly(r, [dispatch[r] EXCEPT !.state = "uncertain"])
    /\ UNCHANGED <<kid, outside>>

\* What an observer of the process can truthfully say.
Clean(r) == outside[r].proc = "gone"
Sees(r, effect) ==
    \/ effect = "unknown"
    \/ effect = "succeeded" /\ outside[r].done = 1
    \/ effect = "absent" /\ outside[r].done = 0

\* Mutant: a successful report settles while the worker's group still runs.
ReportUnclean(r, effect, evidence) ==
    /\ dispatch[r].claimed /\ ~dispatch[r].settled /\ dispatch[r].state \in {"executing", "uncertain"}
    /\ Sees(r, effect) /\ (dispatch[r].evidence => evidence)
    /\ LET d == [dispatch[r] EXCEPT !.evidence = evidence]
       IN DispatchOnly(r, CASE effect = "succeeded" /\ evidence -> [d EXCEPT !.state = "succeeded", !.settled = TRUE]
                            [] effect = "absent" /\ evidence /\ Clean(r) -> [d EXCEPT !.state = "failed"]
                            [] OTHER -> [d EXCEPT !.state = "uncertain"])
    /\ kid[r].state # "up"
    /\ UNCHANGED <<kid, outside>>

\* The worker's report settles only a success with its cleanup proved.
Report(r, effect, evidence) ==
    /\ dispatch[r].claimed /\ ~dispatch[r].settled /\ dispatch[r].state \in {"executing", "uncertain"}
    /\ Sees(r, effect) /\ (dispatch[r].evidence => evidence)
    /\ LET d == [dispatch[r] EXCEPT !.evidence = evidence]
           settles == effect = "succeeded" /\ evidence /\ Clean(r)
       IN /\ settles => kid[r].state # "up"
          /\ DispatchOnly(r, CASE settles -> [d EXCEPT !.state = "succeeded", !.settled = TRUE]
                               [] effect = "absent" /\ evidence /\ Clean(r) -> [d EXCEPT !.state = "failed"]
                               [] OTHER -> [d EXCEPT !.state = "uncertain"])
    /\ UNCHANGED <<kid, outside>>

\* A read-only child, one at a time, none while an earlier one is unread.
AddReconciliation(r) ==
    /\ dispatch[r].state \in {"uncertain", "failed"} /\ ~dispatch[r].settled
    /\ kid[r].n < MaxReads /\ kid[r].state = "none" /\ ClockHolds(r)
    /\ kid' = [kid EXCEPT ![r] = [NoKid EXCEPT !.n = kid[r].n + 1, !.state = "up"]]
    /\ UNCHANGED <<request, decision, dispatch, denials, advice, outside, authority, afaults>>

FinishReconciliation(r, effect) ==
    /\ kid[r].state = "up" /\ Sees(r, effect)
    /\ kid' = [kid EXCEPT ![r].state = "read", ![r].effect = effect, ![r].clean = Clean(r)]
    /\ UNCHANGED <<request, decision, dispatch, denials, advice, outside, authority, afaults>>

Contradicts(r) == kid[r].effect = "succeeded" /\ dispatch[r].state = "failed"

\* The child's reading enters the parent: it may settle a success, it never
\* turns a failure into one.
ReconcileLookup(r) ==
    /\ kid[r].state = "read"
    /\ dispatch[r].state \in {"uncertain", "failed"} /\ ~dispatch[r].settled /\ dispatch[r].lookups < MaxReads
    /\ ClockHolds(r)
    /\ LET d == [dispatch[r] EXCEPT !.lookups = @ + 1]
           k == kid[r]
       IN /\ ~(Contradicts(r) /\ dispatch[r].claimed)
          /\ dispatch' = [dispatch EXCEPT ![r] =
                IF k.effect = "succeeded" /\ ~d.claimed THEN d
                ELSE IF k.effect = "succeeded" /\ k.clean
                     THEN [d EXCEPT !.state = "succeeded", !.settled = TRUE, !.evidence = TRUE]
                ELSE IF d.state = "failed" THEN d
                ELSE IF k.effect = "absent" /\ k.clean THEN [d EXCEPT !.state = "failed", !.evidence = TRUE]
                ELSE [d EXCEPT !.evidence = TRUE]]
    /\ kid' = [kid EXCEPT ![r].state = "none"]
    /\ UNCHANGED <<request, decision, denials, advice, outside, authority, afaults>>

\* The machine's reads are used up, contradict its record, or lost their clock.
Exhausted(r) ==
    /\ dispatch[r].state \in {"uncertain", "failed"}
    /\ \/ dispatch[r].lookups = MaxReads
       \/ ~ClockHolds(r)
       \/ kid[r].n = MaxReads
       \/ kid[r].state = "read" /\ Contradicts(r)

\* The operator's exact attestation, once the machine's own reads are exhausted,
\* contradictory or on a broken clock: the effect happened or it did not.
SettleDispatch(r) ==
    /\ Held(r) /\ Clean(r) /\ kid[r].state # "up"
    /\ dispatch[r].state = "held" \/ Exhausted(r)
    /\ (outside[r].done = 1) => dispatch[r].claimed
    /\ DispatchOnly(r, [dispatch[r] EXCEPT !.state = IF outside[r].done = 1 THEN "succeeded" ELSE "failed",
                                           !.settled = TRUE, !.recovered = TRUE])
    /\ UNCHANGED <<kid, outside>>

------------------------------
(* The end of a request, on the proof its end needs. *)
CompletedFit(r) ==
    /\ RequestAt(r, {"filed"}) /\ dispatch[r].settled
    /\ \/ dispatch[r].state = "succeeded" /\ dispatch[r].claimed
       \/ dispatch[r].state = "failed" /\ dispatch[r].recovered

DeniedFit(r) ==
    /\ RequestAt(r, {"ask-pinned", "sufficient", "filed"})
    /\ decision[r].phase = "committed" /\ decision[r].ev.v = "deny" /\ decision[r].rev = request[r].rev

CancelledFit(r) ==
    /\ RequestAt(r, DOMAIN Stage \union {"ask-pinned", "sufficient", "filed"})
    /\ Undecided(r)
    /\ dispatch[r].state = "none"

AbandonedFit(r) ==
    /\ RequestAt(r, {"allocation-unknown"})
    /\ request[r].lookups = MaxReads \/ ~ClockHolds(r)
    /\ ~outside[r].creating

\* Every known shell cleaned, the blockers clear, the native state terminal.
SettleRequest(r, phase) ==
    /\ CASE phase = "completed" -> CompletedFit(r)
         [] phase = "denied" -> DeniedFit(r)
         [] phase = "cancelled" -> CancelledFit(r)
         [] phase = "reconciled-abandoned" -> AbandonedFit(r)
    /\ RequestOnly(r, [request[r] EXCEPT !.phase = phase,
                          !.effect = IF phase # "completed" THEN @
                                     ELSE IF dispatch[r].state = "succeeded" THEN "succeeded" ELSE "absent"])
    /\ UNCHANGED <<advice, outside>>

------------------------------
(* The outside world *)
World(r, to) ==
    /\ outside' = [outside EXCEPT ![r] = to]
    /\ UNCHANGED <<request, decision, dispatch, kid, denials, advice, authority>>

\* The queue's create lands, at most once unless the queue duplicates it.
BeadCreateLands(r) ==
    /\ outside[r].creating
    /\ \/ World(r, [outside[r] EXCEPT !.creating = FALSE, !.made = @ + 1]) /\ UNCHANGED afaults
       \/ ActionFault("duplicate") /\ World(r, [outside[r] EXCEPT !.creating = FALSE, !.made = 2])
       \/ ActionFault("lost") /\ World(r, [outside[r] EXCEPT !.creating = FALSE])

\* The first native decision stands; ours may come second or be lost.
NativeLands(r) ==
    /\ outside[r].writing
    /\ \/ /\ World(r, [outside[r] EXCEPT !.writing = FALSE,
                          !.native = IF @ = NoEvent THEN decision[r].ev ELSE @])
          /\ UNCHANGED afaults
       \/ ActionFault("lost") /\ World(r, [outside[r] EXCEPT !.writing = FALSE])

\* Someone else decides natively.
NativeOther(r, v) ==
    /\ ActionFault("other")
    /\ Decidable(r, v) /\ outside[r].native = NoEvent
    /\ World(r, [outside[r] EXCEPT !.native = [id |-> 2, v |-> v]])

\* The claimed worker performs its effect; a process may end at any point.
Effect(r) ==
    /\ outside[r].proc = "claimed"
    /\ World(r, [outside[r] EXCEPT !.proc = "finished", !.done = @ + 1])
    /\ UNCHANGED afaults

ProcEnds(r) ==
    /\ outside[r].proc \in {"up", "claimed", "finished"}
    /\ World(r, [outside[r] EXCEPT !.proc = "gone"])
    /\ UNCHANGED afaults

\* The dispatch's window passes.
DeadlinePasses(r) ==
    /\ Held(r) /\ ~outside[r].late
    /\ World(r, [outside[r] EXCEPT !.late = TRUE])
    /\ UNCHANGED afaults

ClockBreaks(r) ==
    /\ ActionFault("clock")
    /\ RequestAt(r, {"allocation-unknown"}) \/ Held(r)
    /\ World(r, [outside[r] EXCEPT !.skew = TRUE])

AuthorityChanges ==
    /\ ActionFault("authority")
    /\ \E r \in Requests : decision[r].phase \notin {"none", "committed"}
    /\ authority' = ~authority
    /\ UNCHANGED <<request, decision, dispatch, kid, denials, advice, outside>>

\* Bound: two events decide about a request, numbered as they come.
EventIds(r) == {1, 2} \intersect (1 .. 1 + Cardinality(decision[r].tried))

ActionNext ==
    \/ \E r \in Requests :
          \/ \E i \in Idents, f \in InputFlaws : AddRequest(r, i, f)
          \/ IssueAllocation(r)
          \/ \E n \in 0..1 : ObserveAllocation(r, n)
          \/ RecoverAllocation(r)
          \/ ObserveStage(r)
          \/ ObserveSufficient(r)
          \/ ObserveFiled(r)
          \/ Assess(r)
          \/ \E v \in {"groom", "enrich", "none"} : AssessReply(r, v)
          \/ RecordGroom(r)
          \/ \E i \in Idents : Groom(r, i)
          \/ \E v \in {"approve", "deny"}, i \in EventIds(r) : BeginDecision(r, [id |-> i, v |-> v])
          \/ IssueDecision(r)
          \/ ReadDecision(r)
          \/ FinalizeDecision(r)
          \/ InvalidateDecision(r)
          \/ AddDispatch(r)
          \/ Ready(r)
          \/ \E h \in BOOLEAN : ConsumeClaim(r, h)
          \/ RetireLauncher(r)
          \/ RestartPreparation(r)
          \/ MarkUncertain(r)
          \/ \E e \in {"succeeded", "absent", "unknown"}, v \in BOOLEAN : Report(r, e, v)
          \/ AddReconciliation(r)
          \/ \E e \in {"succeeded", "absent", "unknown"} : FinishReconciliation(r, e)
          \/ ReconcileLookup(r)
          \/ SettleDispatch(r)
          \/ \E p \in Terminal : SettleRequest(r, p)
          \/ BeadCreateLands(r)
          \/ NativeLands(r)
          \/ \E v \in {"approve", "deny"} : NativeOther(r, v)
          \/ Effect(r)
          \/ ProcEnds(r)
          \/ DeadlinePasses(r)
          \/ ClockBreaks(r)
    \/ AuthorityChanges

------------------------------
(* Properties *)

\* The resource is released only when nothing of its holder runs: however
\* reports, lookups, attestations and lost acknowledgements interleave, two
\* requests never have live processes on the one resource (add_dispatch's
\* "resource-still-held" and the cleanup proofs of the reducers).
ResourceExclusive ==
    \A r, s \in Requests : r # s =>
        ~(outside[r].proc \in {"up", "claimed", "finished"} /\ outside[s].proc \in {"up", "claimed", "finished"})

\* A request's end tells the truth about its effect: it happened once under
\* "succeeded", and never under "absent", a denial or a withdrawal, nor later.
EndTrue ==
    \A r \in Requests :
        /\ outside[r].done <= 1
        /\ request[r].phase \in Terminal =>
              outside[r].done = (IF request[r].effect = "succeeded" THEN 1 ELSE 0)

\* One approval has one native decision: its write is never replayed, not after
\* a lost answer, a revocation or a foreign decision, and what the journal calls
\* committed is what stands natively (issue, read and invalidate_decision).
OneDecision ==
    \A r \in Requests :
        /\ outside[r].writes <= 1
        /\ decision[r].phase = "committed" => outside[r].native = decision[r].ev
==============================
