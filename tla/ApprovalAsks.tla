---------------------------- MODULE ApprovalAsks ----------------------------
(***************************************************************************)
(* admind's approval asks (admind/daemon.py, store.py, approvals.py,       *)
(* operations.py, retirement.py) for one bead of the queue.                *)
(*                                                                         *)
(* An approval card is posted from a readout of the bead.  An operator's   *)
(* reply to a delivered card becomes an attempt, which is stored before    *)
(* the `approve-bead' child runs; what the child did is always read back   *)
(* from the bead.  A child that answers HOLD before any effect keeps its   *)
(* attempt for a retry.  One coroutine at a time holds `work_lock' (`job'), *)
(* and one `ask_post_lock' (`post'); every await is a place where the      *)
(* others, the queue and the host go on.                                   *)
(***************************************************************************)
EXTENDS Naturals, FiniteSets

CONSTANTS
    MaxAsks,      \* bound on the cards of the bead
    MaxMsgs,      \* bound on the operators' decisions
    Digests,      \* contents that the bead can have
    Operators,    \* who decides
    MaxTroubles,  \* bound on the disturbances
    MaxLoad,      \* bound on decisions and disturbances together
    Happens       \* the kinds of disturbance that a run allows

AllKinds == {"crash", "fault", "read", "hold", "spawn", "edit", "host", "gate", "policy", "group",
             "pending", "drift", "unconfigured", "cancel", "withdraw"}

ASSUME BoundsAssumption ==
    /\ {MaxAsks, MaxMsgs, MaxTroubles, MaxLoad} \subseteq Nat /\ MaxAsks > 0 /\ MaxMsgs > 0
    /\ Happens \subseteq AllKinds /\ Digests # {} /\ Operators # {}

Asks == 1..MaxAsks
Msgs == 1..MaxMsgs
Host == MaxMsgs + 1       \* the `via_ref' of a decision that was not made through admind
MaxInvocations == MaxTroubles + 1

VARIABLES
    asks,      \* the cards: status, digest, outcome, current attempt, delivery, maintenance overlay
    att,       \* ask_attempts, maintenance_proofs and the recovery notice of each
    inbound,   \* the operators' messages
    native,    \* the bead in the queue, as approve-bead reads and writes it
    keyed, withdrawn,   \* the approval operation of the bead's source
    ops,       \* the operators that policy and group confirm
    latched, pending, verified, tool,   \* the latch, membership_pending, group_ok, approve_bead configured
    job,       \* what the holder of work_lock is doing
    post,      \* what the holder of ask_post_lock is doing
    child,     \* the approve-bead child
    snapshot,  \* what the reconcile has still to look at
    up,        \* admind runs
    told,      \* history: what the operator was told about each decision
    unknown,   \* history: the decisions whose last child did not answer HOLD
    stranded,  \* history: a failing store left an attempt to a restart or to `!asks'
    troubles

store == <<asks, att, inbound, told>>
gate == <<ops, latched, pending, verified, tool>>
source == <<keyed, withdrawn>>
history == <<unknown, stranded>>
vars == <<store, native, source, gate, job, post, child, snapshot, up, history, troubles>>

------------------------------
(* Rows and readouts. *)

Statuses == {"none", "open", "deciding", "uncertain", "approved", "denied", "stale", "superseded",
             "cancelled", "blocked"}
Outcomes == {"text", "decision-issuing", "maintenance-issuing", "pending", "held"}
Forms == {"ok", "gate", "approver", "kind"}   \* what stands against a decision of the bead
Native == [digest : Digests, open : BOOLEAN, form : Forms, ref : 0..Host,
           act : {"approve", "deny"}, seen : Digests]
Ask == [status : Statuses, digest : Digests, outcome : Outcomes, attempt : 0..MaxMsgs,
        sent : {"none", "part", "all"}, hold : {"none", "wait", "due"}]
Attempt == [ask : 0..MaxAsks, act : {"approve", "deny"}, op : Operators,
            settled : {"none", "refused", "recorded", "untouched", "blocked", "uncertain"},
            inv : 0..MaxInvocations, proof : 0..MaxInvocations,
            notice : 0..MaxInvocations, shown : 0..MaxInvocations]
Read == [kind : {"ok", "busy", "fail"}, n : Native]
Said == {"nothing", "recorded", "blocked", "unknown"}

Any == CHOOSE d \in Digests : TRUE
NotRead(kind) == [kind |-> kind, n |-> [digest |-> Any, open |-> TRUE, form |-> "ok", ref |-> 0,
                                        act |-> "approve", seen |-> Any]]
Now == [kind |-> "ok", n |-> native]
At(pc, m, r, how) == [pc |-> pc, m |-> m, r |-> r, how |-> how]
Free == At("free", 0, NotRead("fail"), "none")

AskOf(m) == asks[att[m].ask]
Digest(m) == AskOf(m).digest
Live == {i \in Asks : asks[i].status \in {"deciding", "uncertain"}}
Posted == Cardinality({i \in Asks : asks[i].status # "none"})

\* Store.current_attempt names m, and its ask is still in this status.
IsCurrent(m, status) == AskOf(m).status = status /\ AskOf(m).attempt = m

\* Admind.authorised, for a message of operator o.
Authorised(o) == ~latched /\ verified /\ o \in ops

HasRoom == troubles + Cardinality({m \in Msgs : inbound[m] # "new"}) < MaxLoad
Trouble(kind) == kind \in Happens /\ troubles < MaxTroubles /\ HasRoom /\ troubles' = troubles + 1

\* approve-bead's readout of the bead, which can fail or find the bead busy.
Reads(r) ==
    \/ r = Now /\ UNCHANGED troubles
    \/ \E kind \in {"busy", "fail"} : r = NotRead(kind) /\ Trouble("read")

\* approvals.settle: a readout against the stored attempt.
Settled(r, m) ==
    IF r.kind # "ok" THEN "uncertain"
    ELSE IF ~r.n.open /\ r.n.ref = m /\ r.n.act = att[m].act /\ r.n.seen = Digest(m) THEN "recorded"
    ELSE IF r.n.open /\ r.n.ref = 0 THEN "untouched"
    ELSE "blocked"

\* Admind.settlement: the ask's new status.
NewStatus(settled, m) ==
    CASE settled = "untouched" -> IF withdrawn THEN "cancelled" ELSE "open"
      [] settled = "recorded" -> IF att[m].act = "approve" THEN "approved" ELSE "denied"
      [] OTHER -> settled

Means(settled) == CASE settled \in {"untouched", "refused"} -> "nothing"
                    [] settled = "uncertain" -> "unknown" [] OTHER -> settled

\* Admind.preflight: why the attempt stops before the decision runs.
Preflight(r, m) ==
    IF r.kind # "ok" THEN r.kind
    ELSE IF r.n.digest # Digest(m) THEN "stale"
    ELSE IF r.n.ref # 0 THEN "decided"
    ELSE IF \/ ~r.n.open \/ r.n.form \in {"kind", "approver"}
            \/ att[m].act = "approve" /\ r.n.form = "gate" THEN "refuse"
    ELSE "go"

------------------------------
(* What the store's transactions do. *)

\* Store.close_attempt, after its compare-and-set: the ask.
Closed(m, settled, new) ==
    [status |-> IF new = "open" /\ settled \in {"untouched", "refused"} /\ withdrawn
                THEN "cancelled" ELSE new,
     digest |-> Digest(m), outcome |-> "text", attempt |-> IF settled = "uncertain" THEN m ELSE 0,
     sent |-> AskOf(m).sent, hold |-> "none"]

\* ... and the attempt: Retirement.clear_active drops the proof unless the outcome is uncertain.
ClosedAttempt(m, settled) ==
    [ask |-> att[m].ask, act |-> att[m].act, op |-> att[m].op, settled |-> settled, inv |-> att[m].inv,
     proof |-> IF settled = "uncertain" THEN att[m].proof ELSE 0,
     notice |-> IF settled = "uncertain" THEN att[m].notice ELSE 0, shown |-> att[m].shown]

\* Admind.finish: the message is settled and its reply queued, at once.
Answer(m, status, what) ==
    /\ inbound' = [inbound EXCEPT ![m] = status]
    /\ told' = [told EXCEPT ![m] = @ \cup {what}]

\* close_attempt and finish in one transaction; a lost compare-and-set writes nothing.
CloseAttempt(m, expect, settled, new, status) ==
    IF IsCurrent(m, expect)
    THEN /\ asks' = [asks EXCEPT ![att[m].ask] = Closed(m, settled, new)]
         /\ att' = [att EXCEPT ![m] = ClosedAttempt(m, settled)]
         /\ Answer(m, status, Means(settled))
    ELSE UNCHANGED store

\* approvals.postable: a card can be made of the readout.
Postable(r) == r.kind = "ok" /\ r.n.open /\ r.n.ref = 0 /\ r.n.form \in {"ok", "approver"}

\* Mutant: the limits are not checked again after the read.
RefusedOnce(retiring) == FALSE

\* Admind.approval_post_refusal: another ask of the bead is being decided.
PostRefused(retiring) == latched \/ ~tool \/ Live \ retiring # {}

\* Admind.commit_approval: the bead's open cards are superseded, the new one stored.
Commit(cards, digest) ==
    [i \in Asks |->
        IF i = Posted + 1
        THEN [status |-> "open", digest |-> digest, outcome |-> "text", attempt |-> 0,
              sent |-> "none", hold |-> "none"]
        ELSE IF cards[i].status = "open" THEN [cards[i] EXCEPT !.status = "superseded"] ELSE cards[i]]

\* Retirement.eligible: every invocation of the held attempt is proven not issued.
Eligible(a, t) == a.hold # "none" /\ t.proof > 0 /\ t.proof = t.inv

\* Retirement.record_hold: a proof needs every earlier invocation proven, by the same adapter.
Proven(m, same) ==
    IF same /\ (att[m].inv = 1 \/ att[m].proof = att[m].inv - 1) THEN att[m].inv ELSE att[m].proof

\* retirement.publish_notice: one selector, replaced only once it was delivered.
Publish(a, t, refresh) ==
    IF Eligible(a, t) /\ (t.notice = 0 \/ (refresh /\ t.shown = t.notice))
    THEN [t EXCEPT !.notice = t.proof] ELSE t

\* Admind.hold_maintenance without new evidence: the attempt is kept, for a retry or suspended.
HoldAs(m, outcome, t) ==
    LET a == [AskOf(m) EXCEPT !.outcome = outcome, !.hold = "wait"]
    IN  /\ asks' = [asks EXCEPT ![att[m].ask] = a]
        /\ att' = [att EXCEPT ![m] = Publish(a, t, outcome = "held")]
        /\ UNCHANGED <<inbound, told>>

------------------------------
(* Posting: Admind.post_approval and operations.post, under ask_post_lock. *)

Idle == [pc |-> "idle", keyed |-> FALSE, r |-> NotRead("fail")]

PostBegins ==
    /\ up /\ post.pc = "idle" /\ ~keyed /\ tool /\ Posted < MaxAsks
    /\ \E k \in BOOLEAN :
        /\ ~(k /\ Posted > 0) => ~PostRefused({})
        /\ post' = [Idle EXCEPT !.pc = "read", !.keyed = k]
    /\ UNCHANGED <<store, native, source, gate, job, child, snapshot, up, history, troubles>>

PostReads ==
    /\ post.pc = "read"
    /\ \/ post' = [post EXCEPT !.pc = "commit", !.r = Now] /\ UNCHANGED troubles
       \/ post' = Idle /\ Trouble("read")
    /\ UNCHANGED <<store, native, source, gate, job, child, snapshot, up, history>>

\* The source's first post adopts a card that still stands for the bead's content.
Reusable(digest) ==
    \E i \in Asks : /\ asks[i].status \in {"open", "deciding", "uncertain", "approved"}
                    /\ asks[i].digest = digest

PostCommits ==
    /\ post.pc = "commit"
    /\ post' = Idle
    /\ IF post.keyed /\ Reusable(post.r.n.digest)
       THEN keyed' = TRUE /\ UNCHANGED asks
       ELSE IF Postable(post.r) /\ ~PostRefused({})
       THEN /\ asks' = Commit(asks, post.r.n.digest)
            /\ keyed' = (keyed \/ post.keyed)
       ELSE UNCHANGED <<keyed, asks>>
    /\ UNCHANGED <<att, inbound, told, native, withdrawn, gate, job, child, snapshot, up, history,
                   troubles>>

\* operations.withdraw: the tombstone, and every card that no attempt holds is cancelled.
Withdraw ==
    /\ up /\ post.pc = "idle" /\ ~withdrawn /\ Trouble("withdraw")
    /\ keyed' = TRUE /\ withdrawn' = TRUE
    /\ asks' = [i \in Asks |-> IF asks[i].status = "open"
                               THEN [asks[i] EXCEPT !.status = "cancelled"] ELSE asks[i]]
    /\ UNCHANGED <<att, inbound, told, native, gate, job, post, child, snapshot, up, history>>

\* Admind.cancel_ask.
Cancel(i) ==
    /\ up /\ asks[i].status = "open" /\ Trouble("cancel")
    /\ asks' = [asks EXCEPT ![i].status = "cancelled"]
    /\ UNCHANGED <<att, inbound, told, native, source, gate, job, post, child, snapshot, up, history>>

\* The outbox delivers the card's chunks, and a recovery notice.
Deliver(i) ==
    /\ up /\ ~latched /\ verified /\ asks[i].status # "none" /\ asks[i].sent # "all"
    /\ asks' = [asks EXCEPT ![i].sent = IF @ = "none" THEN "part" ELSE "all"]
    /\ UNCHANGED <<att, inbound, told, native, source, gate, job, post, child, snapshot, up, history,
                   troubles>>

DeliverNotice(m) ==
    /\ up /\ ~latched /\ verified /\ att[m].notice > att[m].shown
    /\ att' = [att EXCEPT ![m].shown = att[m].notice]
    /\ UNCHANGED <<asks, inbound, told, native, source, gate, job, post, child, snapshot, up, history,
                   troubles>>

------------------------------
(* A decision: Admind.handle, decide, decide_card and run_attempt, under work_lock. *)

\* The worker takes up a reply to a delivered card; the group check awaits.
Receive(m) ==
    /\ up /\ job = Free /\ inbound[m] = "new" /\ HasRoom /\ (\A k \in Msgs : k < m => inbound[k] # "new")
    /\ \E i \in Asks : asks[i].sent # "none"
    /\ inbound' = [inbound EXCEPT ![m] = "executing"]
    /\ job' = At("decide", m, NotRead("fail"), "none")
    /\ UNCHANGED <<asks, att, told, native, source, gate, post, child, snapshot, up, history, troubles>>

\* Mutant: an approval of a card that was delivered in part.
ShownPart(i, act) == asks[i].sent # "none"

\* R8: an approval needs the whole card delivered, a denial only a part to reply to.
Shown(i, act) == asks[i].sent = "all" \/ (act = "deny" /\ asks[i].sent = "part")

\* A row of ask_attempts as it is inserted.
NewAttempt(i, act, o) == [ask |-> i, act |-> act, op |-> o, settled |-> "none",
                          inv |-> 0, proof |-> 0, notice |-> 0, shown |-> 0]

\* Store.begin_attempt: the attempt is stored before anything runs.
Begin(m, i, act, o) ==
    /\ asks' = [asks EXCEPT ![i] = [@ EXCEPT !.status = "deciding", !.attempt = m]]
    /\ att' = [att EXCEPT ![m] = NewAttempt(i, act, o)]
    /\ job' = At("read", m, NotRead("fail"), "worker")
    /\ UNCHANGED <<inbound, told>>

Decidable(i, act) == asks[i].status = "open" /\ Shown(i, act) /\ tool /\ ~withdrawn

Decide ==
    /\ job.pc = "decide"
    /\ \E i \in Asks, act \in {"approve", "deny"}, o \in Operators :
        /\ asks[i].sent # "none"
        /\ \/ Authorised(o) /\ Decidable(i, act) /\ Begin(job.m, i, act, o)
           \/ Authorised(o) /\ ~Decidable(i, act)
              /\ Answer(job.m, "done", "nothing") /\ job' = Free /\ UNCHANGED <<asks, att>>
           \/ ~Authorised(o)
              /\ Answer(job.m, "dropped", "nothing") /\ job' = Free /\ UNCHANGED <<asks, att>>
    /\ UNCHANGED <<native, source, gate, post, child, snapshot, up, history, troubles>>

\* The readout before the decision; or no room among the held attempts of all beads.
AttemptReads ==
    /\ job.pc = "read"
    /\ \E r \in {Now, NotRead("busy"), NotRead("fail")} :
        Reads(r) /\ job' = At("check", job.m, r, job.how)
    /\ UNCHANGED <<store, native, source, gate, post, child, snapshot, up, history>>

\* Admind.close_refused: nothing was launched.
CheckRefuses ==
    /\ job.pc = "check" /\ Preflight(job.r, job.m) \in {"busy", "fail", "decided", "refuse"}
    /\ CloseAttempt(job.m, "deciding", "refused",
                    IF Preflight(job.r, job.m) = "decided" THEN "blocked" ELSE "open", "done")
    /\ job' = Free
    /\ UNCHANGED <<native, source, gate, post, child, snapshot, up, history, troubles>>

CheckStale ==
    /\ job.pc = "check" /\ Preflight(job.r, job.m) = "stale"
    /\ job' = At("refresh", job.m, job.r, "refused")
    /\ UNCHANGED <<store, native, source, gate, post, child, snapshot, up, history, troubles>>

\* Authority went, or the source withdrew, while the bead was read.
CheckDenied ==
    /\ job.pc = "check" /\ Preflight(job.r, job.m) = "go"
    /\ ~Authorised(att[job.m].op) \/ withdrawn
    /\ IF Authorised(att[job.m].op)
       THEN CloseAttempt(job.m, "deciding", "refused", "cancelled", "done")
       ELSE CloseAttempt(job.m, "deciding", "refused", "open", "dropped")
    /\ job' = Free
    /\ UNCHANGED <<native, source, gate, post, child, snapshot, up, history, troubles>>

\* Every invocation is counted before it runs.
Invoked(t) == [t EXCEPT !.inv = @ + 1]

\* Store.issue_decision and the spawn, with no await since the last check.  The marker replaces the
\* overlay of a held attempt, so a crash grants no second retry.
Issue(m, outcome, how) ==
    /\ asks' = [asks EXCEPT ![att[m].ask] = [@ EXCEPT !.outcome = outcome, !.hold = "none"]]
    /\ att' = [att EXCEPT ![m] = Invoked(@)]
    /\ child' = "running" /\ unknown' = unknown \cup {m}
    /\ job' = At("child", m, NotRead("fail"), how)
    /\ UNCHANGED <<inbound, told>>

CheckIssues ==
    /\ job.pc = "check" /\ Preflight(job.r, job.m) = "go"
    /\ Authorised(att[job.m].op) /\ ~withdrawn /\ IsCurrent(job.m, "deciding")
    /\ Issue(job.m, "decision-issuing", "worker")
    /\ UNCHANGED <<native, source, gate, post, snapshot, up, stranded, troubles>>

\* The spawn fails: there is no child (approvals.NotSpawned).
CheckNotSpawned ==
    /\ job.pc = "check" /\ Preflight(job.r, job.m) = "go"
    /\ Authorised(att[job.m].op) /\ ~withdrawn /\ IsCurrent(job.m, "deciding") /\ Trouble("spawn")
    /\ asks' = [asks EXCEPT ![att[job.m].ask] = Closed(job.m, "refused", "open")]
    /\ att' = [att EXCEPT ![job.m] = Invoked(ClosedAttempt(job.m, "refused"))]
    /\ Answer(job.m, "done", "nothing")
    /\ job' = Free
    /\ UNCHANGED <<native, source, gate, post, child, snapshot, up, history>>

\* approve-bead records the decision, if the bead is undecided and still what the card showed.
ChildWrites ==
    /\ child = "running" /\ native.open /\ native.ref = 0 /\ native.digest = Digest(job.m)
    /\ native' = [native EXCEPT !.open = FALSE, !.ref = job.m, !.act = att[job.m].act,
                                !.seen = Digest(job.m)]
    /\ child' = "wrote"
    /\ UNCHANGED <<store, source, gate, job, post, snapshot, up, history, troubles>>

\* The child exits, is refused by btq or killed at its time limit; its group is reaped first.
ChildExits ==
    /\ job.pc = "child"
    /\ child' = "none" /\ job' = At("back", job.m, job.r, job.how)
    /\ UNCHANGED <<store, native, source, gate, post, snapshot, up, history, troubles>>

\* It answers HOLD, which approve-bead only does before any effect.
ChildHolds ==
    /\ job.pc = "child" /\ child = "running" /\ Trouble("hold")
    /\ child' = "none" /\ unknown' = unknown \ {job.m}
    /\ asks' = [asks EXCEPT ![att[job.m].ask].outcome = "maintenance-issuing"]
    /\ job' = At("hold", job.m, job.r, job.how)
    /\ UNCHANGED <<att, inbound, told, native, source, gate, post, snapshot, up, stranded>>

\* Admind.hold_maintenance with the HOLD as evidence; the adapter's bytes may have changed meanwhile.
HoldCommits ==
    /\ job.pc = "hold"
    /\ \E same \in BOOLEAN :
        /\ IF same THEN UNCHANGED troubles ELSE Trouble("drift")
        /\ HoldAs(job.m, "pending", [att[job.m] EXCEPT !.proof = Proven(job.m, same)])
    /\ job' = Free
    /\ UNCHANGED <<native, source, gate, post, child, snapshot, up, history>>

\* Admind.read_and_settle, whoever asks for it.
BackReads ==
    /\ job.pc = "back"
    /\ \E r \in {Now, NotRead("busy"), NotRead("fail")} :
        Reads(r) /\ job' = At("settle", job.m, r, job.how)
    /\ UNCHANGED <<store, native, source, gate, post, child, snapshot, up, history>>

Back == Settled(job.r, job.m)

\* run_attempt, step 8.
AttemptSettles ==
    /\ job.pc = "settle" /\ job.how \in {"worker", "retried"}
    /\ IF Back = "untouched" /\ job.r.n.digest # Digest(job.m)
       THEN job' = At("refresh", job.m, job.r, "untouched") /\ UNCHANGED store
       ELSE /\ CloseAttempt(job.m, "deciding", Back, NewStatus(Back, job.m), "done")
            /\ job' = Free
    /\ UNCHANGED <<native, source, gate, post, child, snapshot, up, history, troubles>>

\* Admind.refresh, once ask_post_lock is free: the stale card is closed and its replacement stored.
RefreshSettles ==
    /\ job.pc = "refresh" /\ post.pc = "idle" /\ IsCurrent(job.m, "deciding")
    /\ LET i == att[job.m].ask
           old == [asks EXCEPT ![i] = Closed(job.m, job.how, IF withdrawn THEN "cancelled" ELSE "stale")]
       IN  asks' = IF ~withdrawn /\ Postable(job.r) /\ ~PostRefused({i}) /\ Posted < MaxAsks
                   THEN Commit(old, job.r.n.digest) ELSE old
    /\ att' = [att EXCEPT ![job.m] = ClosedAttempt(job.m, job.how)]
    /\ Answer(job.m, "done", "nothing")
    /\ job' = Free
    /\ UNCHANGED <<native, source, gate, post, child, snapshot, up, history, troubles>>

------------------------------
(* The retry of a held attempt (retry_maintenance), and its retirement (retirement.retire). *)

\* Mutant: a retry checks only the group.
AuthorityGroup(m) == IF ~verified THEN "pending" ELSE "go"

\* Admind.maintenance_authority_reason: what it holds the attempt as.
Authority(m) ==
    IF ~tool \/ (~latched /\ ~verified) THEN "pending"
    ELSE IF latched \/ att[m].op \notin ops THEN "held"
    ELSE "go"

RetryBegins(i) ==
    /\ up /\ job = Free /\ asks[i].hold = "due" /\ asks[i].outcome = "pending"
    /\ LET m == asks[i].attempt
       IN  IF withdrawn \/ Authority(m) = "go"
           THEN /\ asks' = [asks EXCEPT ![i].hold = "wait"]
                /\ job' = At("back", m, NotRead("fail"), IF withdrawn THEN "withdrawn" ELSE "retry")
                /\ UNCHANGED <<att, inbound, told>>
           ELSE HoldAs(m, Authority(m), att[m]) /\ job' = Free
    /\ UNCHANGED <<native, source, gate, post, child, snapshot, up, history, troubles>>

\* What a read-back that can't end the attempt holds it as: the queue's own answer suspends it.
HoldReason(r) == IF r.kind = "ok" THEN "held" ELSE "pending"

\* Admind.settle_maintenance_recorded, or the untouched attempt of a withdrawn source.
RetryEnds ==
    /\ job.pc = "settle" /\ job.how \in {"retry", "withdrawn", "issuing"}
    /\ Back = "recorded" \/ (job.how = "withdrawn" /\ Back = "untouched")
    /\ IF Back = "recorded"
       THEN CloseAttempt(job.m, "deciding", Back, NewStatus(Back, job.m), "done")
       ELSE CloseAttempt(job.m, "deciding", "refused", "cancelled", "done")
    /\ job' = Free
    /\ UNCHANGED <<native, source, gate, post, child, snapshot, up, history, troubles>>

Untried == Back = "untouched" /\ Preflight(job.r, job.m) = "go"

RetryHolds ==
    /\ job.pc = "settle"
    /\ \/ job.how = "retry" /\ Back # "recorded" /\ ~(Untried /\ Authority(job.m) = "go")
       \/ job.how = "withdrawn" /\ Back \in {"blocked", "uncertain"}
    /\ HoldAs(job.m, IF Untried THEN Authority(job.m) ELSE HoldReason(job.r), att[job.m])
    /\ job' = Free
    /\ UNCHANGED <<native, source, gate, post, child, snapshot, up, history, troubles>>

RetryWithdrawn ==
    /\ job.pc = "settle" /\ job.how = "retry" /\ Untried /\ Authority(job.m) = "go" /\ withdrawn
    /\ CloseAttempt(job.m, "deciding", "refused", "cancelled", "done")
    /\ job' = Free
    /\ UNCHANGED <<native, source, gate, post, child, snapshot, up, history, troubles>>

RetryReady ==
    /\ job.pc = "settle" /\ job.how = "retry" /\ Untried /\ Authority(job.m) = "go" /\ ~withdrawn
    /\ IsCurrent(job.m, "deciding") /\ AskOf(job.m).outcome = "pending" /\ AskOf(job.m).hold # "none"

RetryIssues ==
    /\ RetryReady
    /\ Issue(job.m, "maintenance-issuing", "retried")
    /\ UNCHANGED <<native, source, gate, post, snapshot, up, stranded, troubles>>

\* Retirement.record_not_spawned: the generation counts as proven if those before it are.
RetryNotSpawned ==
    /\ RetryReady /\ Trouble("spawn")
    /\ LET t == [Invoked(att[job.m]) EXCEPT
                    !.proof = IF @ > 0 /\ @ = att[job.m].inv THEN @ + 1 ELSE @]
       IN  HoldAs(job.m, "pending", t)
    /\ job' = Free
    /\ UNCHANGED <<native, source, gate, post, child, snapshot, up, history>>

Tick(i) ==
    /\ asks[i].hold = "wait" /\ up
    /\ asks' = [asks EXCEPT ![i].hold = "due"]
    /\ UNCHANGED <<att, inbound, told, native, source, gate, job, post, child, snapshot, up, history,
                   troubles>>

\* Retirement.select: only the delivered notice of the current proof selects the attempt.
Selectable(m) ==
    /\ att[m].ask # 0 /\ IsCurrent(m, "deciding") /\ Eligible(AskOf(m), att[m])
    /\ att[m].notice = att[m].proof /\ att[m].shown = att[m].notice

RetireBegins(m) ==
    /\ up /\ job = Free /\ Selectable(m) /\ tool
    /\ \E o \in Operators : Authorised(o)
    /\ job' = At("back", m, NotRead("fail"), "retire")
    /\ UNCHANGED <<store, native, source, gate, post, child, snapshot, up, history, troubles>>

\* The native read decides; its failure, or lost authority, leaves the attempt as it is.
RetireSettles ==
    /\ job.pc = "settle" /\ job.how = "retire"
    /\ IF Back = "uncertain" \/ ~(\E o \in Operators : Authorised(o)) \/ ~Selectable(job.m)
       THEN UNCHANGED store
       ELSE IF Back = "recorded"
       THEN CloseAttempt(job.m, "deciding", Back, NewStatus(Back, job.m), "done")
       ELSE IF Back = "blocked" \/ job.r.n.form = "kind"
       THEN CloseAttempt(job.m, "deciding", "blocked", "blocked", "done")
       ELSE CloseAttempt(job.m, "deciding", "untouched", "cancelled", "done")
    /\ job' = Free
    /\ UNCHANGED <<native, source, gate, post, child, snapshot, up, history, troubles>>

------------------------------
(* Restart: recover, the reconcile of its snapshot, and `!asks', which reconciles again. *)

\* Mutant: only the uncertain ones.
SnapshotUncertain ==
    {[i |-> i, m |-> asks[i].attempt, status |-> "uncertain"] :
        i \in {j \in Live : asks[j].status = "uncertain"}}

\* Store.recovery_snapshot.
RecoverySnapshot == {[i |-> i, m |-> asks[i].attempt, status |-> asks[i].status] : i \in Live}

\* A latch, and its clearing, suspend every held attempt.
Fenced == [i \in Asks |-> IF asks[i].hold # "none" THEN [asks[i] EXCEPT !.outcome = "held"] ELSE asks[i]]

\* Admind.run up to its loops: the latch of an interrupted membership change suspends what is held.
Start ==
    /\ ~up /\ up' = TRUE
    /\ \E configured \in BOOLEAN :
        /\ tool' = configured
        /\ IF configured THEN UNCHANGED troubles ELSE Trouble("unconfigured")
    /\ latched' = (latched \/ pending)
    /\ asks' = IF latched' /\ ~latched THEN Fenced ELSE asks
    /\ snapshot' = RecoverySnapshot
    /\ LET lost == {m \in Msgs : inbound[m] = "executing" /\ \A e \in RecoverySnapshot : e.m # m}
       IN  /\ inbound' = [m \in Msgs |-> IF m \in lost THEN "dropped" ELSE inbound[m]]
           /\ told' = [m \in Msgs |-> IF m \in lost THEN told[m] \cup {"nothing"} ELSE told[m]]
    /\ UNCHANGED <<att, native, source, ops, pending, verified, job, post, child, history>>

\* Mutant: every issued decision is left to the retry loop.
KeptIssued(e) == asks[e.i].outcome # "text"

\* An attempt that a proven HOLD keeps, or one no longer current, is not reconciled.
Kept(e) == asks[e.i].attempt # e.m \/ asks[e.i].hold # "none"

\* Admind.reconcile_one: what needs a readout awaits it; without approve-bead the operator is told so.
ReconcileOne(e) ==
    \/ Kept(e) /\ UNCHANGED <<job, inbound, told>>
    \/ ~Kept(e) /\ tool
       /\ job' = At("back", e.m, NotRead("fail"),
                    IF asks[e.i].outcome = "maintenance-issuing" THEN "issuing" ELSE e.status)
       /\ UNCHANGED <<inbound, told>>
    \/ ~Kept(e) /\ ~tool /\ UNCHANGED job
       /\ IF asks[e.i].outcome # "maintenance-issuing" /\ inbound[e.m] = "executing"
          THEN Answer(e.m, "done", "unknown") ELSE UNCHANGED <<inbound, told>>

Reconcile(e) ==
    /\ up /\ job = Free /\ e \in snapshot /\ snapshot' = snapshot \ {e}
    /\ ReconcileOne(e)
    /\ UNCHANGED <<asks, att, native, source, gate, post, child, up, history, troubles>>

\* Admind.list_asks: the backstop reconcile, then the recovery notice of what stays held.
ListAsks(e) ==
    /\ up /\ job = Free /\ e \in RecoverySnapshot /\ \E o \in Operators : Authorised(o)
    /\ ReconcileOne(e)
    /\ att' = IF e.status = "deciding" THEN [att EXCEPT ![e.m] = Publish(asks[e.i], @, TRUE)] ELSE att
    /\ UNCHANGED <<asks, native, source, gate, post, child, snapshot, up, history, troubles>>

ReconcileSettles ==
    /\ job.pc = "settle" /\ job.how \in {"deciding", "uncertain"}
    /\ CloseAttempt(job.m, job.how, Back, NewStatus(Back, job.m), "done")
    /\ job' = Free
    /\ UNCHANGED <<native, source, gate, post, child, snapshot, up, history, troubles>>

\* Mutant: an untouched bead gives the retry back.
IssuingRetries == HoldAs(job.m, "pending", att[job.m])

\* Admind.reconcile_issuing: only the exact decision settles it; untouched proves no right to retry.
IssuingStays == UNCHANGED store

IssuingHeld ==
    /\ job.pc = "settle" /\ job.how = "issuing" /\ Back # "recorded"
    /\ IssuingStays
    /\ job' = Free
    /\ UNCHANGED <<native, source, gate, post, child, snapshot, up, history, troubles>>

------------------------------
(* The world. *)

\* admind dies; the unit's control group takes the child with it.
Crash ==
    /\ up /\ Trouble("crash")
    /\ up' = FALSE /\ job' = Free /\ post' = Idle /\ child' = "none" /\ snapshot' = {}
    /\ UNCHANGED <<store, native, source, gate, history>>

\* The store fails under the holder of work_lock: the handler ends, its transaction rolled back.
Fault ==
    /\ job.pc \in {"check", "hold", "settle", "refresh"} /\ Trouble("fault")
    /\ job' = Free /\ stranded' = TRUE
    /\ UNCHANGED <<store, native, source, gate, post, child, snapshot, up, unknown>>

\* The bead's author edits it; somebody decides or closes it on the host; its gate changes.
NativeEdited ==
    /\ native.ref = 0 /\ Trouble("edit")
    /\ \E d \in Digests \ {native.digest} : native' = [native EXCEPT !.digest = d]
    /\ UNCHANGED <<store, source, gate, job, post, child, snapshot, up, history>>

NativeDecided ==
    /\ native.ref = 0 /\ native.open /\ Trouble("host")
    /\ \/ native' = [native EXCEPT !.open = FALSE, !.ref = Host, !.seen = native.digest]
       \/ native' = [native EXCEPT !.open = FALSE]
    /\ UNCHANGED <<store, source, gate, job, post, child, snapshot, up, history>>

NativeGated ==
    /\ native.ref = 0 /\ native.form = "ok" /\ Trouble("gate")
    /\ \E f \in Forms \ {native.form} : native' = [native EXCEPT !.form = f]
    /\ UNCHANGED <<store, source, gate, job, post, child, snapshot, up, history>>

\* policy.toml is edited; the subscription or the group check fails and recovers.
PolicyEdited ==
    /\ Trouble("policy") /\ \E o \in Operators : ops' = IF o \in ops THEN ops \ {o} ELSE ops \cup {o}
    /\ UNCHANGED <<store, native, source, latched, pending, verified, tool, job, post, child, snapshot, up,
                   history>>

GroupLost ==
    /\ verified /\ Trouble("group") /\ verified' = FALSE
    /\ UNCHANGED <<store, native, source, ops, latched, pending, tool, job, post, child, snapshot, up,
                   history>>

GroupChecked ==
    /\ ~verified /\ up /\ verified' = TRUE
    /\ UNCHANGED <<store, native, source, ops, latched, pending, tool, job, post, child, snapshot, up,
                   history, troubles>>

\* Admind.change_membership, under work_lock: the change is committed, or its outcome is unknown and the
\* pending record latches the next start.  The last operator is not removed.
ChangeMembership ==
    /\ up /\ job = Free /\ ~pending /\ ~latched /\ verified
    /\ \/ /\ Trouble("policy") /\ UNCHANGED pending
          /\ \E o \in Operators :
                \/ o \notin ops /\ ops' = ops \cup {o}
                \/ o \in ops /\ ops # {o} /\ ops' = ops \ {o}
       \/ Trouble("pending") /\ pending' = TRUE /\ UNCHANGED ops
    /\ UNCHANGED <<store, native, source, latched, verified, tool, job, post, child, snapshot, up, history>>

\* Admind.rearm, whoever holds work_lock.
Rearm ==
    /\ up /\ verified /\ (latched \/ pending)
    /\ latched' = FALSE /\ pending' = FALSE
    /\ asks' = IF latched THEN Fenced ELSE asks
    /\ UNCHANGED <<att, inbound, told, native, source, ops, verified, tool, job, post, child, snapshot, up,
                   history, troubles>>

------------------------------
Init ==
    /\ native = NotRead("ok").n
    /\ asks = [i \in Asks |-> [status |-> "none", digest |-> Any, outcome |-> "text", attempt |-> 0,
                               sent |-> "none", hold |-> "none"]]
    /\ att = [m \in Msgs |-> NewAttempt(0, "approve", CHOOSE o \in Operators : TRUE)]
    /\ inbound = [m \in Msgs |-> "new"] /\ told = [m \in Msgs |-> {}]
    /\ keyed = FALSE /\ withdrawn = FALSE
    /\ ops = Operators /\ latched = FALSE /\ pending = FALSE /\ verified = TRUE /\ tool = TRUE
    /\ job = Free /\ post = Idle /\ child = "none" /\ snapshot = {} /\ up = TRUE
    /\ unknown = {} /\ stranded = FALSE /\ troubles = 0

Entries == [i : Asks, m : Msgs, status : {"deciding", "uncertain"}]

Posting == PostBegins \/ PostReads \/ PostCommits
Deciding == Decide \/ AttemptReads \/ CheckRefuses \/ CheckStale \/ CheckDenied \/ CheckIssues
Settling == HoldCommits \/ BackReads \/ AttemptSettles \/ ReconcileSettles \/ IssuingHeld
            \/ RetryEnds \/ RetryHolds \/ RetryWithdrawn \/ RetryIssues \/ RetireSettles
World == Crash \/ Fault \/ NativeEdited \/ NativeDecided \/ NativeGated \/ PolicyEdited \/ GroupLost
         \/ ChangeMembership \/ Rearm \/ CheckNotSpawned \/ RetryNotSpawned \/ Withdraw

Next ==
    \/ Posting \/ Deciding \/ ChildWrites \/ ChildExits \/ ChildHolds \/ Settling \/ RefreshSettles
    \/ Start \/ GroupChecked \/ World
    \/ \E i \in Asks : Cancel(i) \/ Deliver(i) \/ RetryBegins(i) \/ Tick(i)
    \/ \E m \in Msgs : DeliverNotice(m) \/ Receive(m) \/ RetireBegins(m)
    \/ \E e \in Entries : Reconcile(e) \/ ListAsks(e)

Spec == Init /\ [][Next]_vars

\* The supervisor restarts admind; a child ends, its time limit sees to that; a coroutine that can go on
\* does; the waiters of the two locks are served in turn (asyncio.Lock is first come, first served).
FairSpec ==
    /\ Spec
    /\ WF_vars(Start) /\ WF_vars(GroupChecked) /\ WF_vars(ChildExits)
    /\ WF_vars(Posting) /\ WF_vars(Deciding) /\ WF_vars(Settling) /\ SF_vars(RefreshSettles)
    /\ WF_vars(\E i \in Asks : Tick(i)) /\ SF_vars(\E i \in Asks : RetryBegins(i))
    /\ SF_vars(\E m \in Msgs : Receive(m)) /\ SF_vars(\E e \in Entries : Reconcile(e))

------------------------------
(* Properties. *)

\* Every row, readout and coroutine state is one that the schema and the code know.
TypeOK ==
    /\ asks \in [Asks -> Ask] /\ att \in [Msgs -> Attempt] /\ native \in Native
    /\ inbound \in [Msgs -> {"new", "executing", "done", "dropped"}] /\ told \in [Msgs -> SUBSET Said]
    /\ {keyed, withdrawn, latched, pending, verified, tool, up, stranded} \subseteq BOOLEAN
    /\ ops \subseteq Operators /\ unknown \subseteq Msgs /\ child \in {"none", "running", "wrote"}
    /\ snapshot \subseteq Entries /\ troubles \in 0..MaxTroubles

\* At most one card of a bead can still lead to a decision: post_approval, operations.post and refresh
\* check for a decision in flight again after their reads.
OneActive == Cardinality({i \in Asks : asks[i].status \in {"open", "deciding", "uncertain"}}) <= 1

\* What the operator was told is so: "nothing was recorded" is only ever said of a decision that is not
\* on the bead, "recorded" only of one that is (run_attempt, recover, reconcile_one, retire).
AnswersTrue ==
    \A m \in Msgs : /\ "nothing" \in told[m] => native.ref # m
                    /\ "recorded" \in told[m] => native.ref = m

\* A decision that is on the bead is never shown as open, cancelled, stale, superseded or blocked: its card
\* is still being settled, or has its status.
RecordAgrees ==
    \A m \in Msgs :
        native.ref = m => AskOf(m).status \in {"deciding", "uncertain",
                                               IF att[m].act = "approve" THEN "approved" ELSE "denied"}

\* R8: an approval on the bead is of content that was delivered to the operators in full.
ApprovedWasShown ==
    \A m \in Msgs : native.ref = m /\ native.act = "approve" => AskOf(m).sent = "all"

\* A proof of non-issuance is right: whatever crashed or failed, an attempt whose invocations are all
\* proven has left nothing on the bead (record_hold, record_not_spawned).
ProofHolds ==
    \A m \in Msgs : att[m].proof > 0 /\ att[m].proof = att[m].inv /\ (job.m = m => job.pc # "child")
                    => native.ref # m

\* The card and the bead tell the same: a decision on the bead has its card's status, its content was shown
\* in full, and an attempt proven not issued left nothing (settle, post_approval, record_hold).
DecisionOnRecord == TypeOK /\ RecordAgrees /\ ApprovedWasShown /\ ProofHolds

\* approve-bead runs again for a decision only if every run before it answered HOLD: no crash, failed
\* write or read-back grants a second run (issue_decision, mark_maintenance_issuing, reconcile_issuing).
NoReplay == [][\A m \in Msgs : att'[m].inv > att[m].inv => m \notin unknown]_vars

\* The child is launched only with the operator's authority and the source's consent of that moment,
\* whatever happened during the reads before it.
IssuedOnAuthority ==
    [][child = "none" /\ child' = "running" => Authorised(att[job.m].op) /\ ~withdrawn]_vars

\* The attempt of m is suspended, to be retired by an operator, or of unknown issuance.
Suspended(m) ==
    \E i \in Asks : asks[i].attempt = m /\ asks[i].outcome \in {"held", "maintenance-issuing"} /\ job.m # m

\* Every decision of an operator is answered, unless it is suspended, approve-bead was unconfigured or the
\* store failed under it.
MessageAnswered ==
    \A m \in Msgs : inbound[m] = "executing"
        ~> inbound[m] # "executing" \/ Suspended(m) \/ ~tool \/ stranded

==============================
