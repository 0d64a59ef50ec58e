----------------------------- MODULE MCWsdParts -----------------------------
(* Three parts of wsd for TLC, one in each behaviour: the sandbox session, *)
(* the harness store and the action journal.  The parts share no state and *)
(* take no steps together; the variables of the parts that a behaviour is  *)
(* not about are 0.                                                        *)
EXTENDS SandboxSession, HarnessStore, ActionJournal

\* The states that the action journal begins with are of two requests.
ASSUME TwoRequests == Requests = {1, 2} /\ {"i", "j"} \subseteq Idents

VARIABLE part   \* the part that the behaviour is about

NoSandbox ==
    /\ rec = 0 /\ led = 0 /\ watch = 0 /\ box = 0 /\ out = 0 /\ pane = 0 /\ markers = 0 /\ receipts = 0 /\ due = 0
    /\ git = 0 /\ fate = 0 /\ wip = 0 /\ intent = 0 /\ trash = 0 /\ job = 0 /\ wsdUp = 0 /\ last = 0 /\ owed = 0
    /\ died = 0 /\ confirmed = 0 /\ unmarked = 0 /\ accepted = 0 /\ resolved = 0 /\ troubles = 0
NoStore ==
    /\ name = 0 /\ tree = 0 /\ good = 0 /\ ver = 0 /\ sealed = 0 /\ building = 0 /\ staged = 0 /\ irec = 0
    /\ intended = 0 /\ failed = 0 /\ pubReceipts = 0 /\ metaM = 0 /\ metaR = 0 /\ aged = 0 /\ begun = 0 /\ req = 0
    /\ reply = 0 /\ install = 0 /\ asking = 0 /\ decided = 0 /\ sel = 0 /\ opened = 0 /\ tainted = 0
    /\ launched = 0 /\ code = 0 /\ storeOp = 0 /\ wsd = 0 /\ disturbed = 0 /\ faults = 0
NoActions ==
    /\ request = 0 /\ decision = 0 /\ dispatch = 0 /\ kid = 0 /\ denials = 0 /\ advice = 0 /\ outside = 0
    /\ authority = 0 /\ afaults = 0

Filed == [NoRequest EXCEPT !.phase = "filed", !.ident = "i", !.lookups = 1]
Approved == [NoDecision EXCEPT !.phase = "committed", !.ev = [id |-> 1, v |-> "approve"], !.rev = 1]
Denied == [Approved EXCEPT !.ev.v = "deny"]
Made(e) == [NoWorld EXCEPT !.made = 1, !.native = e, !.writes = 1]
Judged == [NoAdvice EXCEPT !.rev = 1, !.verdict = "enrich"]
Launched == [NoDispatch EXCEPT !.state = "preparing", !.launches = 1]
\* A new request, beside one that was denied: it is followed up to its dispatch.
FilingBegins ==
    /\ request = <<NoRequest, [Filed EXCEPT !.phase = "denied"]>>
    /\ decision = <<NoDecision, Denied>>
    /\ denials = {"i"}
    /\ advice = <<NoAdvice, NoAdvice>>
    /\ outside = <<NoWorld, Made(Denied.ev)>>
    /\ dispatch = <<NoDispatch, NoDispatch>> /\ afaults = 0
\* Two approved requests for the one resource, and the first is being launched; or one beside one that was
\* denied, with faults.
DispatchBegins ==
    /\ \/ /\ request = <<Filed, Filed>> /\ decision = <<Approved, Approved>> /\ denials = {}
          /\ outside = <<[Made(Approved.ev) EXCEPT !.proc = "up"], Made(Approved.ev)>>
          /\ dispatch = <<Launched, NoDispatch>> /\ advice = <<Judged, Judged>> /\ afaults = MaxActionFaults
       \/ /\ request = <<[Filed EXCEPT !.ident = "j"], [Filed EXCEPT !.phase = "denied"]>>
          /\ decision = <<Approved, Denied>> /\ denials = {"i"}
          /\ outside = <<Made(Approved.ev), Made(Denied.ev)>>
          /\ dispatch = <<NoDispatch, NoDispatch>> /\ advice = <<Judged, NoAdvice>> /\ afaults = 0

PartsInit ==
    \/ part = "sandbox" /\ SandboxInit /\ NoStore /\ NoActions
    \/ part = "store" /\ StoreInit /\ name[1] = "a" /\ NoSandbox /\ NoActions
    \/ /\ \/ part = "filing" /\ FilingBegins
          \/ part = "dispatch" /\ DispatchBegins
       /\ kid = <<NoKid, NoKid>> /\ authority = TRUE /\ NoSandbox /\ NoStore

PartsNext ==
    \/ /\ part = "sandbox" /\ SandboxNext
       /\ UNCHANGED <<part, storeVars, actionVars>>
    \/ /\ part = "store" /\ StoreNext
       /\ UNCHANGED <<part, sandboxVars, actionVars>>
    \/ /\ part \in {"filing", "dispatch"} /\ ActionNext
       /\ part = "filing" => UNCHANGED dispatch
       /\ UNCHANGED <<part, sandboxVars, storeVars>>

PartsSpec == PartsInit /\ [][PartsNext]_<<part, sandboxVars, storeVars, actionVars>>

\* SandboxSession: a create that the ledger calls gone has no sandbox and can't make one any more
\* (reaper.reap, SandboxRuntime._end, _restore_creates).
SessionsGone == part = "sandbox" => GoneIsGone

\* SandboxSession: every sandbox that exists or may still be made is in the create ledger, through any
\* crash between the submission, the record, the watcher and the create (SandboxRuntime.launch).
SessionsTracked == part = "sandbox" => NoneUntracked

\* SandboxSession: the cause of the end that SandboxRuntime._end records is what happened.
SessionCausesTrue == part = "sandbox" => EndCauseTrue

\* SandboxSession: a lifetime stop's WIP commit lands in time, and no commit of a session is lost
\* (SandboxRuntime._settle_wip, launch, resolve).
SessionWorkKept == part = "sandbox" => LifetimeWipLands /\ NoCommitLost

\* HarnessStore: what the store calls published is the approved tree, and a row that wsd ended without a
\* publication is never published later (publish, recover, _settle).
StorePublishes == part = "store" => PublishedIsApproved /\ EndedUnpublished

\* HarnessStore: an install that a launch or the selection uses stays published (in_use).
StoreKeepsInUse == part = "store" => InUseStays

\* ActionJournal: two requests never have live processes on the one resource (add_dispatch).
ActionsExclusive == part \in {"filing", "dispatch"} => ResourceExclusive

\* ActionJournal: an approval has one native decision, and the end of a request is true of its effect
\* (issue, read, invalidate_decision, the reducers).
ActionsDecided == part \in {"filing", "dispatch"} => OneDecision /\ EndTrue
==============================
