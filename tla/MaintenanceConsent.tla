---------------------------- MODULE MaintenanceConsent ----------------------------
(***************************************************************************)
(* admind's maintenance recovery (admind/recovery.py): a proposal to       *)
(* settle an interrupted maintenance operation is registered, posted as a  *)
(* notice, consented to or revoked by operator messages in that notice's   *)
(* thread, and then permitted: one generation at a time, committed to the  *)
(* store and published as files which the external queue consumes.         *)
(*                                                                         *)
(* All proposals of the model are about one operation.  The service's      *)
(* calls are serialised by the daemon's work lock (mjob); the queue, the   *)
(* clock, the membership policy and a crash of admind run beside them.     *)
(***************************************************************************)
EXTENDS Integers, FiniteSets

CONSTANTS
    Proposals,        \* hashes of the proposals of the one operation, from 1
    Mids,             \* message ids, from 1
    Window,           \* permit window in ticks (30 s in the code)
    MaxTick,          \* bound: ticks of the boot clock
    MaxGeneration,    \* permit generations of one proposal (3 in the code)
    MaintFaults,      \* the disturbances allowed
    MaxMaintFaults    \* bound: how many of them

ASSUME MaintenanceBounds ==
    /\ Proposals \subseteq Nat \ {0}
    /\ Window \in Nat \ {0} /\ MaxTick \in Nat
    /\ MaxGeneration \in Nat \ {0} /\ MaxMaintFaults \in Nat

VARIABLES
    prop,       \* maintenance_recovery_proposals, one row per hash
    current,    \* maintenance_recovery_current: the operation's proposal (0: none)
    messages,   \* messages, revocations and refusals, by message id
    conflicts,  \* maintenance_recovery_conflicts: proposals with a contradicted message
    policy,     \* what recovery_authority observes (0: no authority)
    now,        \* boot id and CLOCK_BOOTTIME
    queue,      \* the queue's recovery-v1 files per proposal (external)
    published,  \* generations/<hash>/<n>.json and permits/<hash>.json
    mjob,       \* the permit call holding the work lock
    mfaults     \* disturbances so far

maintVars == <<prop, current, messages, conflicts, policy, now, queue, published, mjob, mfaults>>

NoPermit == [gen |-> 0, boot |-> 0, deadline |-> 0]
Unregistered == [state |-> "none", schema |-> "none", gen |-> 0, permit |-> NoPermit,
                 policy |-> 0, alive |-> FALSE, delivered |-> FALSE]
NoMessage == [kind |-> "none", verb |-> "none", about |-> 0]
NoCall == [at |-> "idle", p |-> 0, cert |-> FALSE, seen |-> Unregistered, policy |-> 0,
           permit |-> NoPermit]

MaintInit ==
    /\ prop = [p \in Proposals |-> Unregistered]
    /\ current = 0
    /\ messages = [m \in Mids |-> NoMessage]
    /\ conflicts = {}
    /\ policy = 1
    /\ now = [boot |-> 1, tick |-> 0]
    /\ queue = [p \in Proposals |-> [cert |-> {}, tomb |-> {}, used |-> {}]]
    /\ published = [p \in Proposals |-> [files |-> {}, cur |-> NoPermit]]
    /\ mjob = NoCall
    /\ mfaults = 0

Idle == mjob.at = "idle"
MaintFault(kind) == kind \in MaintFaults /\ mfaults < MaxMaintFaults /\ mfaults' = mfaults + 1

------------------------------
(* Registration.  "flaw" is what is wrong with the request, if anything: *)
(* each verdict below is one of the validators the descriptor passes.    *)
Schemas == {"v1", "v2"}
Flaws == {"none", "encoding", "shape", "native", "child", "writes", "plan", "evidence", "enrollment",
          "provenance", "expiry", "card"}

CanonicalOk(flaw) == flaw # "encoding"         \* one canonical encoding, no duplicate keys
RequestOk(flaw) == flaw # "shape"              \* exact schema, bounds, mode's fields
ChildOk(flaw) == flaw # "child"                \* the primary child's observation and coverage
NativeOk(flaw) == flaw # "native"              \* the native effect's descriptor
WritesOk(flaw) == flaw # "writes"              \* the allowed writes are the derived ones
PlanOk(flaw) == flaw # "plan"                  \* the primary child's terminal plan
TerminalOk(flaw) == flaw # "evidence"          \* the effects and verdicts of the plan
Enrolled(flaw) == flaw # "enrollment"          \* enrollment, source closure, coverage
ProvenanceOk(flaw) == flaw # "provenance"      \* the operation's or backup's own record
LiveAt(flaw) == flaw # "expiry"                \* expires in the future, within 24 h
CardFits(flaw) == flaw # "card"                \* the whole notice fits one message

Descriptor(flaw) ==
    /\ CanonicalOk(flaw) /\ RequestOk(flaw) /\ NativeOk(flaw)
    /\ ChildOk(flaw) /\ WritesOk(flaw) /\ PlanOk(flaw) /\ TerminalOk(flaw)

\* The queue's certificate for permit pm of proposal p, with its tombstone, of
\* the permit's own boot, and no trace of a consumption of the proposal.
Certificate(p, pm) ==
    /\ pm.gen \in queue[p].cert
    /\ pm.gen \in queue[p].tomb
    /\ queue[p].used = {}

\* Mutant: a permit past its window is taken as never consumed.
SupersedeExpired(schema) ==
    \/ current = 0
    \/ /\ current # 0
       /\ LET old == prop[current] IN
          IF old.permit # NoPermit
          THEN old.permit.boot = now.boot /\ now.tick >= old.permit.deadline
          ELSE old.schema = schema \/ old.state = "revoked" \/ ~old.alive

\* Whether a new proposal of this schema may replace the current one.
Supersede(schema) ==
    \/ current = 0
    \/ /\ current # 0
       /\ LET old == prop[current] IN
          IF old.permit # NoPermit
          THEN /\ old.permit.boot = now.boot
               /\ now.tick >= old.permit.deadline
               /\ Certificate(current, old.permit)
          ELSE old.schema = schema \/ old.state = "revoked" \/ ~old.alive

Register(p, schema, flaw) ==
    /\ Idle
    /\ prop[p].state = "none"
    /\ IF Descriptor(flaw) /\ Enrolled(flaw) /\ LiveAt(flaw) /\ ProvenanceOk(flaw) /\ CardFits(flaw)
          /\ Supersede(schema)
       THEN /\ prop' = [prop EXCEPT ![p] = [state |-> "awaiting", schema |-> schema, gen |-> 0, permit |-> NoPermit,
                                            policy |-> 0, alive |-> TRUE, delivered |-> FALSE]]
            /\ current' = p
       ELSE UNCHANGED <<prop, current>>
    /\ UNCHANGED <<messages, conflicts, policy, now, queue, published, mjob, mfaults>>

\* The outbox reports the notice sent: only now can a message be in its thread.
NoticeSent(p) ==
    /\ prop[p].state # "none" /\ ~prop[p].delivered
    /\ prop' = [prop EXCEPT ![p].delivered = TRUE]
    /\ UNCHANGED <<current, messages, conflicts, policy, now, queue, published, mjob, mfaults>>

------------------------------
(* Operator messages: one transaction decides, a second one records the *)
(* refusal of what the first refused.                                   *)
Verbs == {"settle", "revoke"}

Revoking(p, verb) == verb = "revoke" /\ prop[p].state \in {"awaiting", "consented"}

Decide(p, verb) ==
    prop' = CASE Revoking(p, verb) -> [prop EXCEPT ![p].state = "revoked"]
              [] /\ verb = "settle" /\ prop[p].state = "awaiting"
                 /\ prop[p].alive /\ current = p
                                   -> [prop EXCEPT ![p].state = "consented", ![p].policy = policy]
              [] OTHER -> prop

\* A message contradicting a recorded one of the same id is kept as a conflict,
\* whatever the policy; any other refusal is recorded under a readable policy.
Refusal(m, p, verb) ==
    /\ conflicts' = IF messages[m].kind = "recorded" THEN conflicts \union {messages[m].about} ELSE conflicts
    /\ messages' = IF messages[m].kind = "none" /\ policy # 0
                   THEN [messages EXCEPT ![m] = [kind |-> "refused", verb |-> verb, about |-> p]]
                   ELSE messages
    /\ UNCHANGED prop

\* The recorded message of this id has this very payload.
Same(old, p, verb) == old.verb = verb /\ old.about = p

\* The message answers the delivered notice, whose text is the proposal's.
InNoticeThread(p, inThread) == inThread /\ prop[p].delivered

\* Recorded once; a redelivery with the same payload only repeats the answer.
Message(m, p, verb, inThread) ==
    /\ Idle
    /\ prop[p].state # "none"
    /\ LET old == messages[m]
           same == Same(old, p, verb)
           accepted == policy # 0 /\ InNoticeThread(p, inThread)
       IN \/ /\ old.kind # "none" /\ same
             /\ UNCHANGED <<prop, messages, conflicts>>
          \/ /\ old.kind = "none" /\ accepted
             /\ Decide(p, verb)
             /\ messages' = [messages EXCEPT ![m] = [kind |-> "recorded", verb |-> verb, about |-> p]]
             /\ UNCHANGED conflicts
          \/ /\ (old.kind = "none" /\ ~accepted) \/ (old.kind # "none" /\ ~same)
             /\ Refusal(m, p, verb)
    /\ UNCHANGED <<current, policy, now, queue, published, mjob, mfaults>>

------------------------------
(* The permit call: observe and ask the policy, check the certificate and *)
(* ask again, commit, then publish the generation and the pointer to it.  *)

PermitObserve(p, withCert) ==
    /\ Idle
    /\ current = p
    /\ prop[p].state = "consented"
    /\ policy # 0 /\ policy = prop[p].policy
    /\ withCert => prop[p].permit # NoPermit
    /\ mjob' = [at |-> "certify", p |-> p, cert |-> withCert, seen |-> prop[p], policy |-> policy,
                permit |-> NoPermit]
    /\ UNCHANGED <<prop, current, messages, conflicts, policy, now, queue, published, mfaults>>

PermitCertify ==
    /\ mjob.at = "certify"
    /\ LET pm == mjob.seen.permit
           ok == /\ mjob.cert => /\ mjob.seen.gen < MaxGeneration
                                 /\ pm.boot = now.boot
                                 /\ Certificate(mjob.p, pm)
                 /\ policy = mjob.policy
       IN mjob' = IF ok THEN [mjob EXCEPT !.at = "commit"] ELSE NoCall
    /\ UNCHANGED <<prop, current, messages, conflicts, policy, now, queue, published, mfaults>>

Repairing(j) == j.seen.permit # NoPermit /\ ~j.cert

\* What the transaction publishes: the stored permit when it repairs one, else
\* the next generation, open for one window from now.
NextPermit(j) ==
    IF Repairing(j) THEN j.seen.permit
    ELSE [gen |-> j.seen.gen + 1, boot |-> now.boot, deadline |-> now.tick + Window]

PermitCommit ==
    /\ mjob.at = "commit"
    /\ LET p == mjob.p
           pm == NextPermit(mjob)
           ok == /\ [prop[p] EXCEPT !.delivered = mjob.seen.delivered, !.alive = mjob.seen.alive] = mjob.seen
                 /\ current = p /\ prop[p].state = "consented"
                 /\ p \notin conflicts
                 /\ prop[p].alive
       IN /\ prop' = IF ok THEN [prop EXCEPT ![p].gen = pm.gen, ![p].permit = pm] ELSE prop
          /\ mjob' = IF ok THEN [mjob EXCEPT !.at = "publish", !.permit = pm] ELSE NoCall
    /\ UNCHANGED <<current, messages, conflicts, policy, now, queue, published, mfaults>>

\* No-replace publication: an existing file of the generation must be the same.
PermitPublish ==
    /\ mjob.at = "publish"
    /\ LET p == mjob.p
           clash == \E f \in published[p].files : f.gen = mjob.permit.gen /\ f # mjob.permit
       IN /\ published' = IF clash THEN published
                          ELSE [published EXCEPT ![p].files = @ \union {mjob.permit}]
          /\ mjob' = IF clash THEN NoCall ELSE [mjob EXCEPT !.at = "point"]
    /\ UNCHANGED <<prop, current, messages, conflicts, policy, now, queue, mfaults>>

PermitPoint ==
    /\ mjob.at = "point"
    /\ published' = [published EXCEPT ![mjob.p].cur = mjob.permit]
    /\ mjob' = NoCall
    /\ UNCHANGED <<prop, current, messages, conflicts, policy, now, queue, mfaults>>

------------------------------
(* The queue (external): it consumes the permit the pointer names within *)
(* its window, or attests under its own lock that it has not and fences  *)
(* the generation off, certificate before tombstone.                     *)
Presented(p) == published[p].cur

QueueConsume(p) ==
    /\ Presented(p) # NoPermit
    /\ Presented(p).boot = now.boot /\ now.tick < Presented(p).deadline
    /\ Presented(p).gen \notin queue[p].tomb /\ queue[p].used = {}
    /\ queue' = [queue EXCEPT ![p].used = {Presented(p).gen}]
    /\ UNCHANGED <<prop, current, messages, conflicts, policy, now, published, mjob, mfaults>>

QueueCertify(p) ==
    /\ Presented(p) # NoPermit /\ Presented(p).boot = now.boot
    /\ queue[p].used = {}
    /\ IF Presented(p).gen \in queue[p].cert
       THEN queue' = [queue EXCEPT ![p].tomb = @ \union {Presented(p).gen}]
       ELSE queue' = [queue EXCEPT ![p].cert = @ \union {Presented(p).gen}]
    /\ UNCHANGED <<prop, current, messages, conflicts, policy, now, published, mjob, mfaults>>

------------------------------
(* The clock and the disturbances. *)
MaintTick ==
    /\ now.tick < MaxTick
    /\ now' = [now EXCEPT !.tick = @ + 1]
    /\ UNCHANGED <<prop, current, messages, conflicts, policy, queue, published, mjob, mfaults>>

Expire(p) ==
    /\ MaintFault("expire")
    /\ prop[p].alive
    /\ prop' = [prop EXCEPT ![p].alive = FALSE]
    /\ UNCHANGED <<current, messages, conflicts, policy, now, queue, published, mjob>>

PolicyChanges(new) ==
    /\ MaintFault("policy")
    /\ new # policy
    /\ policy' = new
    /\ UNCHANGED <<prop, current, messages, conflicts, now, queue, published, mjob>>

\* admind dies: the store and the files stay, the call is gone.
AdmindCrash ==
    /\ MaintFault("crash")
    /\ ~Idle
    /\ mjob' = NoCall
    /\ UNCHANGED <<prop, current, messages, conflicts, policy, now, queue, published>>

\* The host restarts: another boot id, the boot clock from zero.
Reboot ==
    /\ MaintFault("reboot")
    /\ now' = [boot |-> now.boot + 1, tick |-> 0]
    /\ mjob' = NoCall
    /\ UNCHANGED <<prop, current, messages, conflicts, policy, queue, published>>

\* Hashes and message ids are numbered as they come into use.
NextHash(p) == prop[p].state = "none" /\ \A q \in Proposals : q < p => prop[q].state # "none"
NextMid(m) == \A k \in Mids : k < m => messages[k].kind # "none"

MaintNext ==
    \/ \E p \in Proposals :
          \/ NextHash(p) /\ \E s \in Schemas, f \in Flaws : Register(p, s, f)
          \/ NoticeSent(p)
          \/ \E m \in Mids, v \in Verbs, t \in BOOLEAN : NextMid(m) /\ Message(m, p, v, t)
          \/ \E c \in BOOLEAN : PermitObserve(p, c)
          \/ QueueConsume(p)
          \/ QueueCertify(p)
          \/ Expire(p)
    \/ PermitCertify
    \/ PermitCommit
    \/ PermitPublish
    \/ PermitPoint
    \/ MaintTick
    \/ \E n \in 0..2 : PolicyChanges(n)
    \/ AdmindCrash
    \/ Reboot

MaintSpec == MaintInit /\ [][MaintNext]_maintVars

------------------------------
(* Properties *)

\* The operation is settled under at most one permit: however proposals are
\* superseded (Service.supersede), generations reissued (Service.permit) and
\* permits published late or twice, the queue never consumes two of them.
OneSettlement ==
    Cardinality({pg \in Proposals \X (1..MaxGeneration) : pg[2] \in queue[pg[1]].used}) <= 1

\* The files say what the store committed: after any crash between the commit
\* and the publication, and any repair, a file of the newest generation is the
\* stored permit, none is ahead of the store, and the pointer names a file.
PublishedIsCommitted ==
    \A p \in Proposals :
        /\ published[p].cur \in published[p].files \union {NoPermit}
        /\ \A f \in published[p].files :
              /\ f.gen <= prop[p].gen
              /\ f.gen = prop[p].gen => f = prop[p].permit
==============================
