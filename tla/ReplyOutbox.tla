------------------------------- MODULE ReplyOutbox -------------------------------
(***************************************************************************)
(* What admind says (admind/daemon.py, store.py, guard_state.py,           *)
(* summarize.py, backstop.py, alerts.py).  A reply is posted as it is, or  *)
(* summarised first, or joins the open backstop batch; a summary, a post   *)
(* or a batch that cannot be delivered goes to the (next) batch.  Every    *)
(* row of the outbox has the operators it belongs to, and is sent only     *)
(* while all of them are authorised.                                       *)
(*                                                                         *)
(* An action is what runs between two awaits, or one transaction.  Texts   *)
(* are the set of turns they show.  The gates of may_post and authorised   *)
(* (latch, group, policy readable) only delay, so an action guarded by     *)
(* them may simply not be taken.  Rows are never deleted: seq is the       *)
(* position.                                                               *)
(***************************************************************************)
EXTENDS Integers, FiniteSets, SequencesExt

CONSTANTS
    OutTurns,        \* turns that end with a reply
    Senders,         \* operators
    Requesters,      \* bound: who may have asked for a turn, by traffic ("none": not on record)
    Traffic,         \* what else is posted in a behaviour: one of these
    MaxParts,        \* bound: chunks of a reply
    MaxSends,        \* MAX_SEND_ATTEMPTS
    MaxBatches,      \* bound: batches opened, and times one is posted
    MaxObserved,     \* bound: membership observations
    MaxNotices,      \* bound: membership notices
    MaxOutFaults     \* bound: policy changes, restarts and clocks set back

ASSUME OutboxBounds ==
    /\ IsFiniteSet(OutTurns)
    /\ {MaxParts, MaxSends, MaxBatches, MaxObserved, MaxNotices, MaxOutFaults} \subseteq Nat
    /\ Requesters \in [Traffic -> [OutTurns -> SUBSET (Senders \cup {"none"})]]
    /\ Traffic \subseteq {"none", "notice", "alert", "card", "details"}

VARIABLES
    outbox,       \* table outbox with outbox_owners, posts
    turn,         \* table turns
    batches,      \* table batches; history: whether the clock was set back while it was rendered
    summing,      \* the turn in the summariser, or 0
    rendering,    \* the batch in render_batch
    sending,      \* the row in send_final, or 0
    backoff,      \* rows whose retry timer runs
    operators,    \* who may command, by policy and group
    notice,       \* membership_notice, with what was observed and told
    alert,        \* the alert file
    command,      \* the !details command
    traffic,      \* the extra posts of this behaviour
    outFaults     \* disturbances so far

outboxVars == <<outbox, turn, batches, summing, rendering, sending, backoff, operators, notice, alert,
                command, traffic, outFaults>>

Nobody == "none"
NoTurn == [status |-> "none", owner |-> Nobody, batch |-> 0]
NoRender == [batch |-> 0, attempt |-> 0, turns |-> {}]
NoDetails == [at |-> "none", by |-> Nobody, todo |-> {}, shows |-> {}]

OutboxInit ==
    /\ outbox = <<>>
    /\ turn = [t \in OutTurns |-> NoTurn]
    /\ batches = <<>>
    /\ summing = 0 /\ rendering = NoRender /\ sending = 0 /\ backoff = {}
    /\ operators = Senders
    /\ notice = [pending |-> FALSE, unresolved |-> 0, sequence |-> 0, cool |-> FALSE, seen |-> 0, told |-> 0]
    /\ alert = "new"
    /\ command = NoDetails
    /\ traffic \in Traffic
    /\ outFaults = 0

------------------------------
(* Rows *)
Key(kind, id, part) == [kind |-> kind, id |-> id, part |-> part]
Lane(kind) == IF kind = "details" THEN 2 ELSE 1

\* post: nobody at all owns it ("unknown"), the named operators, or the system.
Row(key, own, owners, shows) ==
    [key |-> key, own |-> own, owners |-> owners, shows |-> shows, status |-> "pending", tries |-> 0,
     thread |-> key.kind = "card" /\ key.part > 1, upto |-> 0]
RequestRow(key, owners, shows) == Row(key, IF owners = {} THEN "unknown" ELSE "request", owners, shows)
SystemRow(key) == Row(key, "system", {}, {})

\* The parts of one post are held together.
Group(r) == IF r.key.kind = "batch" THEN r.key ELSE [r.key EXCEPT !.part = 0]

HoldGroup(box, group, status) ==
    [i \in DOMAIN box |->
        IF /\ Group(box[i]) = group
           /\ \/ box[i].status \in {"pending", "delayed"}
              \/ box[i].status = "quarantined" /\ status # "delayed"
        THEN [box[i] EXCEPT !.status = status] ELSE box[i]]

\* INSERT OR IGNORE: a known key changes nothing.
HasKey(box, key) == \E i \in DOMAIN box : box[i].key = key
Enqueue(box, r) == IF HasKey(box, r.key) THEN box ELSE Append(box, r)

OwnersOf(t) == {turn[t].owner} \ {Nobody}

\* Mutant: one owner answers for the whole batch.
BatchOwnersOne(ts) == IF ts = {} THEN {} ELSE OwnersOf(CHOOSE t \in ts : TRUE)

\* A batch with a reply of unknown origin is of unknown origin.
BatchOwners(ts) == IF \E t \in ts : OwnersOf(t) = {} THEN {} ELSE UNION {OwnersOf(t) : t \in ts}

------------------------------
(* Replies, summaries and batches *)
\* A running window, or a new batch.
OpenBatch == {b \in DOMAIN batches : batches[b].status = "open" /\ ~batches[b].due}
Joined == IF OpenBatch = {} THEN Len(batches) + 1 ELSE CHOOSE b \in OpenBatch : \A c \in OpenBatch : b <= c
BatchesWith ==
    IF OpenBatch = {} THEN Append(batches, [status |-> "open", due |-> FALSE, attempt |-> 0, back |-> FALSE])
    ELSE batches
MayQueue == Joined <= MaxBatches

QueueBackstop(t) ==
    /\ MayQueue
    /\ turn' = [turn EXCEPT ![t].status = "batched", ![t].batch = Joined]
    /\ batches' = BatchesWith

\* The parts of a turn's reply: no row has their keys yet, as a turn ends once.
PartRows(t, owners, n) == [i \in 1..n |-> RequestRow(Key("reply", t, i), owners, {t})]

\* on_stop: the reply, with its posts or its route, in one transaction.
Reply(t, owner, mode) ==
    /\ turn[t].status = "none"
    /\ \/ /\ mode = "verbatim"
          /\ turn' = [turn EXCEPT ![t] = [NoTurn EXCEPT !.status = "verbatim", !.owner = owner]]
          /\ \E n \in 1..MaxParts : outbox' = outbox \o PartRows(t, {owner} \ {Nobody}, n)
          /\ UNCHANGED batches
       \/ /\ mode = "summary"
          /\ turn' = [turn EXCEPT ![t] = [NoTurn EXCEPT !.status = "summarizing", !.owner = owner]]
          /\ UNCHANGED <<outbox, batches>>
       \/ /\ mode = "backstop" /\ MayQueue
          /\ turn' = [turn EXCEPT ![t] = [status |-> "batched", owner |-> owner, batch |-> Joined]]
          /\ batches' = BatchesWith
          /\ UNCHANGED outbox
    /\ UNCHANGED <<summing, rendering, sending, backoff, operators, notice, alert, command, traffic, outFaults>>

Untrusted(t) == OwnersOf(t) = {} \/ ~(OwnersOf(t) \subseteq operators)

\* hold_untrusted_turn, for each of these: kept apart, never to be sent.
HeldStatus(t) == IF OwnersOf(t) = {} THEN "quarantined" ELSE "suppressed"
HeldRow(t) == [RequestRow(Key("held", t, 0), OwnersOf(t), {t}) EXCEPT !.status = HeldStatus(t)]
HeldRows(ts) == LET q == SetToSeq(ts) IN [i \in DOMAIN q |-> HeldRow(q[i])]
HoldTurns(ts) ==
    /\ outbox' = outbox \o HeldRows({t \in ts : ~HasKey(outbox, Key("held", t, 0))})
    /\ turn' = [t \in OutTurns |->
                    IF t \in ts THEN [turn[t] EXCEPT !.status = "summarized", !.batch = 0] ELSE turn[t]]

SummaryBegins(t) ==
    /\ turn[t].status = "summarizing" /\ summing = 0
    /\ IF Untrusted(t)
       THEN HoldTurns({t}) /\ UNCHANGED summing
       ELSE summing' = t /\ UNCHANGED <<outbox, turn>>
    /\ UNCHANGED <<batches, rendering, sending, backoff, operators, notice, alert, command, traffic, outFaults>>

\* How summarize ends: its process ran, in time, and wrote something short.
Summaries == {"good", "not-configured", "not-run", "timeout", "failed", "empty", "too-long"}

\* A short summary is posted; any failure sends the reply to the backstop.
SummaryEnds(how) ==
    /\ summing # 0
    /\ summing' = 0
    /\ IF how = "good"
       THEN /\ turn' = [turn EXCEPT ![summing].status = "summarized"]
            /\ outbox' = Enqueue(outbox, RequestRow(Key("summary", summing, 1), OwnersOf(summing), {summing}))
            /\ UNCHANGED batches
       ELSE QueueBackstop(summing) /\ UNCHANGED outbox
    /\ UNCHANGED <<rendering, sending, backoff, operators, notice, alert, command, traffic, outFaults>>

\* The window is compared with the wall clock by every call, so it may run again
\* (ClockBack).
WindowPasses(b) ==
    /\ batches[b].status = "open" /\ ~batches[b].due
    /\ batches' = [batches EXCEPT ![b].due = TRUE]
    /\ UNCHANGED <<outbox, turn, summing, rendering, sending, backoff, operators, notice, alert, command,
                   traffic, outFaults>>

InBatch(b) == {t \in OutTurns : turn[t].status = "batched" /\ turn[t].batch = b}

\* close_due_batches, up to the rendering in its thread.  A clock set back
\* between the list of due batches and this is one set back during the rendering.
BatchRenders(b) ==
    /\ rendering = NoRender
    /\ batches[b].status = "open" /\ batches[b].due
    /\ HoldTurns({t \in InBatch(b) : Untrusted(t)})
    /\ rendering' = [batch |-> b, attempt |-> batches[b].attempt, turns |-> {t \in InBatch(b) : ~Untrusted(t)}]
    /\ batches' = [batches EXCEPT ![b].back = FALSE]
    /\ UNCHANGED <<summing, sending, backoff, operators, notice, alert, command, traffic, outFaults>>

\* A reply that lost its operator meanwhile makes the batch render again.  The
\* window is not looked at again, and what was not rendered is not shown.
BatchPosts ==
    /\ rendering # NoRender
    /\ rendering' = NoRender
    /\ IF \E t \in rendering.turns : Untrusted(t)
       THEN HoldTurns({t \in rendering.turns : Untrusted(t)}) /\ UNCHANGED batches
       ELSE /\ outbox' = IF rendering.turns = {} THEN outbox
                         ELSE Enqueue(outbox, RequestRow(Key("batch", rendering.batch, rendering.attempt),
                                                         BatchOwners(rendering.turns), rendering.turns))
            /\ batches' = [batches EXCEPT ![rendering.batch].status = "posted"]
            /\ UNCHANGED turn
    /\ UNCHANGED <<summing, sending, backoff, operators, notice, alert, command, traffic, outFaults>>

------------------------------
(* Other posts *)
\* A card in two parts, of the system or (repeated) for an operator.
CardPosts(owner) ==
    /\ traffic = "card"
    /\ \A i \in DOMAIN outbox : outbox[i].key.kind # "card"
    /\ outbox' = outbox \o [p \in 1..2 |-> IF owner = Nobody THEN SystemRow(Key("card", 1, p))
                                           ELSE RequestRow(Key("card", 1, p), {owner}, {})]
    /\ UNCHANGED <<turn, batches, summing, rendering, sending, backoff, operators, notice, alert, command,
                   traffic, outFaults>>

\* What is relayed for a file: its text, or a fixed notice when it does not
\* follow the contract, holds a secret, or could not be handled.
AlertTexts == {"text", "malformed", "withheld", "failed"}

\* relay_alert, or the fixed wording of alert_failed; a file neither can be
\* stored for is left alone until the next start.
AlertRelays(how) ==
    /\ traffic = "alert" /\ alert = "new"
    /\ alert' = IF how \in AlertTexts THEN "relayed" ELSE "skipped"
    /\ outbox' = IF how \notin AlertTexts THEN outbox ELSE Enqueue(outbox, SystemRow(Key("alert", 1, 0)))
    /\ UNCHANGED <<turn, batches, summing, rendering, sending, backoff, operators, notice, command, traffic,
                   outFaults>>

\* observe_membership: a changed count, or a change the group reports.
Observe ==
    /\ traffic = "notice" /\ notice.seen < MaxObserved
    /\ notice' = [notice EXCEPT !.pending = TRUE, !.seen = @ + 1]
    /\ UNCHANGED <<outbox, turn, batches, summing, rendering, sending, backoff, operators, alert, command,
                   traffic, outFaults>>

\* flush_membership_notice: one at a time, one per cadence.
Flushes == notice.pending /\ notice.unresolved = 0 /\ ~notice.cool /\ notice.sequence < MaxNotices
Flushed ==
    IF Flushes THEN [notice EXCEPT !.sequence = @ + 1, !.unresolved = notice.sequence + 1, !.pending = FALSE]
    ELSE notice
FlushedBox ==
    IF Flushes
    THEN Append(outbox, [SystemRow(Key("notice", notice.sequence + 1, 0)) EXCEPT !.upto = notice.seen])
    ELSE outbox

CadencePasses ==
    /\ notice.cool
    /\ notice' = [notice EXCEPT !.cool = FALSE]
    /\ UNCHANGED <<outbox, turn, batches, summing, rendering, sending, backoff, operators, alert, command,
                   traffic, outFaults>>

------------------------------
(* !details *)
\* The reply of a delivered summary, or what is in the batch now; what leaves the
\* batch, or lost its operator, is passed over.
DetailsBegins(by, i) ==
    /\ traffic = "details" /\ command = NoDetails
    /\ outbox[i].status = "sent" /\ outbox[i].key.kind \in {"summary", "batch"}
    /\ by \in operators
    /\ command' = [at |-> outbox[i].key.kind, by |-> by, shows |-> {},
                   todo |-> IF outbox[i].key.kind = "batch" THEN InBatch(outbox[i].key.id) ELSE outbox[i].shows]
    /\ UNCHANGED <<outbox, turn, batches, summing, rendering, sending, backoff, operators, notice, alert,
                   traffic, outFaults>>

\* Each step asks again whether the operator may command.
DetailsDenied ==
    /\ command' = [NoDetails EXCEPT !.at = "done"]
    /\ outbox' = Enqueue(outbox, RequestRow(Key("unverified", 1, 0), {command.by}, {}))

DetailsReads(t) ==
    /\ command.at \in {"summary", "batch"} /\ t \in command.todo
    /\ IF command.by \notin operators
       THEN DetailsDenied
       ELSE /\ command' = [command EXCEPT !.todo = @ \ {t},
                              !.shows = IF Untrusted(t) \/ (command.at = "batch" /\ turn[t].status # "batched")
                                        THEN @ ELSE @ \cup {t}]
            /\ UNCHANGED outbox
    /\ UNCHANGED <<turn, batches, summing, rendering, sending, backoff, operators, notice, alert, traffic,
                   outFaults>>

\* The staged parts become rows in one transaction, or are discarded.
DetailsPublish ==
    /\ command.at \in {"summary", "batch"} /\ command.todo = {}
    /\ IF command.by \notin operators
       THEN DetailsDenied
       ELSE /\ command' = [NoDetails EXCEPT !.at = "done"]
            /\ outbox' = Enqueue(outbox, RequestRow(Key("details", 1, 0),
                                     {command.by} \cup UNION {OwnersOf(t) : t \in command.shows},
                                     command.shows))
    /\ UNCHANGED <<turn, batches, summing, rendering, sending, backoff, operators, notice, alert, traffic,
                   outFaults>>

------------------------------
(* Delivery *)
Undelayed(box) ==
    [i \in DOMAIN box |->
        IF box[i].status = "delayed" /\ ~notice.cool THEN [box[i] EXCEPT !.status = "pending"] ELSE box[i]]

Pending(box) == {i \in DOMAIN box : box[i].status = "pending"}

Before(box, i, j) ==
    \/ Lane(box[i].key.kind) < Lane(box[j].key.kind)
    \/ Lane(box[i].key.kind) = Lane(box[j].key.kind) /\ i <= j

\* Lane 1 before lane 2, each in order.
NextPending(box) == CHOOSE i \in Pending(box) : \A j \in Pending(box) : Before(box, i, j)

\* prepare_delivery: how a row is held, if it is.
HeldBack(r) ==
    IF r.own = "unknown" THEN "quarantined"
    ELSE IF r.own = "request" /\ ~(r.owners \subseteq operators) THEN "suppressed"
    ELSE IF r.key.kind = "notice" /\ notice.cool THEN "delayed"
    ELSE "no"

Parent(box, r) == {i \in DOMAIN box : box[i].key = [r.key EXCEPT !.part = 1]}

\* One row of outbox_pass, under send_lock, up to the send.
PassSelects ==
    LET box == Undelayed(FlushedBox)
        i   == NextPending(box)
        r   == box[i]
        up  == Parent(box, r)
    IN /\ sending = 0
       /\ notice' = Flushed
       /\ IF Pending(box) = {} THEN outbox' = box /\ UNCHANGED sending
          ELSE IF HeldBack(r) # "no" THEN outbox' = HoldGroup(box, Group(r), HeldBack(r)) /\ UNCHANGED sending
          ELSE IF i \in backoff THEN outbox' = box /\ UNCHANGED sending
          ELSE IF r.thread /\ \E p \in up : box[p].status \in {"quarantined", "suppressed", "delayed"}
          THEN outbox' = HoldGroup(box, Group(r), box[CHOOSE p \in up : TRUE].status) /\ UNCHANGED sending
          ELSE outbox' = [box EXCEPT ![i].thread = FALSE] /\ sending' = i
       /\ UNCHANGED <<turn, batches, summing, rendering, backoff, operators, alert, command, traffic, outFaults>>

SendAnswered ==
    /\ sending # 0
    /\ outbox' = [outbox EXCEPT ![sending].status = "sent"]
    /\ notice' = IF outbox[sending].key.kind = "notice" /\ outbox[sending].key.id = notice.unresolved
                 THEN [notice EXCEPT !.unresolved = 0, !.cool = TRUE, !.told = outbox[sending].upto] ELSE notice
    /\ sending' = 0
    /\ backoff' = backoff \ {sending}
    /\ UNCHANGED <<turn, batches, summing, rendering, operators, alert, command, traffic, outFaults>>

\* The call failed or was not answered; it will be tried again.
SendRetries ==
    /\ sending # 0 /\ outbox[sending].tries + 1 < MaxSends
    /\ outbox' = [outbox EXCEPT ![sending].tries = @ + 1]
    /\ backoff' = backoff \cup {sending}
    /\ sending' = 0
    /\ UNCHANGED <<turn, batches, summing, rendering, operators, notice, alert, command, traffic, outFaults>>

TimerEnds(i) ==
    /\ i \in backoff
    /\ backoff' = backoff \ {i}
    /\ UNCHANGED <<outbox, turn, batches, summing, rendering, sending, operators, notice, alert, command,
                   traffic, outFaults>>

\* report_part: the missing part is told under part 1.
PartNote(box, r) ==
    IF r.key.kind = "card" /\ r.key.part > 1
    THEN Enqueue(box, [r EXCEPT !.key = Key("partfail", 1, r.key.part), !.status = "pending", !.tries = 0])
    ELSE box

\* Mutant: a reply that was summarised is taken for delivered.
FallsBackVerbatim(r) ==
    r.key.kind \in {"reply", "summary"} /\ turn[r.key.id].status = "verbatim"

\* The post carried a reply that is in no batch yet.
FallsBack(r) ==
    r.key.kind \in {"reply", "summary"} /\ turn[r.key.id].status \in {"verbatim", "summarized"}

\* send_failed: the reply goes to the backstop, a batch opens again.
SendGivenUp ==
    LET r == outbox[sending]
    IN /\ sending # 0
       /\ outbox' = PartNote([outbox EXCEPT ![sending].status = "failed", ![sending].tries = @ + 1], r)
       /\ notice' = IF r.key.kind = "notice" /\ r.key.id = notice.unresolved
                    THEN [notice EXCEPT !.unresolved = 0, !.cool = TRUE, !.pending = TRUE] ELSE notice
       /\ IF FallsBack(r) THEN QueueBackstop(r.key.id)
          ELSE /\ batches' = IF r.key.kind # "batch" THEN batches
                             ELSE [batches EXCEPT ![r.key.id] = [status |-> "open", due |-> FALSE,
                                                                 attempt |-> @.attempt + 1, back |-> FALSE]]
               /\ UNCHANGED turn
       /\ r.key.kind = "batch" => r.key.part < MaxBatches
       /\ sending' = 0
       /\ backoff' = backoff \ {sending}
       /\ UNCHANGED <<summing, rendering, operators, alert, command, traffic, outFaults>>

------------------------------
(* Disturbances *)
OwnersChange(o) ==
    /\ outFaults < MaxOutFaults
    /\ outFaults' = outFaults + 1
    /\ operators' = IF o \in operators THEN operators \ {o} ELSE operators \cup {o}
    /\ UNCHANGED <<outbox, turn, batches, summing, rendering, sending, backoff, notice, alert, command, traffic>>

\* What awaits is lost, with the timers; the tables stay.
Restarts ==
    /\ outFaults < MaxOutFaults
    /\ outFaults' = outFaults + 1
    /\ summing' = 0 /\ rendering' = NoRender /\ sending' = 0 /\ backoff' = {}
    /\ command' = IF command = NoDetails THEN command ELSE [NoDetails EXCEPT !.at = "done"]
    /\ alert' = IF alert = "skipped" THEN "new" ELSE alert
    /\ UNCHANGED <<outbox, turn, batches, operators, notice, traffic>>

\* The wall clock is set back: windows that had passed run again, that of the
\* batch being rendered too, and the last notice is recent again.
ClockBack(bs) ==
    /\ outFaults < MaxOutFaults
    /\ \A b \in bs : batches[b].status = "open" /\ batches[b].due
    /\ outFaults' = outFaults + 1
    /\ batches' = [b \in DOMAIN batches |->
                      IF b \in bs THEN [batches[b] EXCEPT !.due = FALSE, !.back = @ \/ b = rendering.batch]
                      ELSE batches[b]]
    /\ \/ bs # {} /\ UNCHANGED notice
       \/ notice.sequence > 0 /\ ~notice.cool /\ notice' = [notice EXCEPT !.cool = TRUE]
    /\ UNCHANGED <<outbox, turn, summing, rendering, sending, backoff, operators, alert, command, traffic>>

OutboxNext ==
    \/ \E t \in OutTurns :
           \/ \E o \in Requesters[traffic][t], m \in {"verbatim", "summary", "backstop"} : Reply(t, o, m)
           \/ SummaryBegins(t) \/ DetailsReads(t)
    \/ \E how \in Summaries : SummaryEnds(how)
    \/ \E b \in DOMAIN batches : WindowPasses(b) \/ BatchRenders(b)
    \/ BatchPosts
    \/ \E o \in Senders \cup {Nobody} : CardPosts(o)
    \/ \E how \in AlertTexts \cup {"skipped"} : AlertRelays(how)
    \/ Observe \/ CadencePasses
    \/ \E o \in Senders, i \in DOMAIN outbox : DetailsBegins(o, i)
    \/ DetailsPublish
    \/ PassSelects \/ SendAnswered \/ SendRetries \/ SendGivenUp
    \/ \E i \in backoff : TimerEnds(i)
    \/ \E o \in Senders : OwnersChange(o)
    \/ Restarts
    \/ \E bs \in SUBSET (DOMAIN batches) : ClockBack(bs)

------------------------------
(* Properties *)
Showing(t) == {i \in DOMAIN outbox : t \in outbox[i].shows /\ outbox[i].key.kind # "details"}
PartsOf(t, kind) == {i \in Showing(t) : outbox[i].key.kind = kind}
Unsent == {"pending", "delayed"}

\* The reply joined a batch while it was rendered, because the clock was set back
\* meanwhile and its window ran again: the batch was posted and closed without it.
Overtaken(t) ==
    LET b == turn[t].batch
    IN /\ turn[t].status = "batched" /\ batches[b].status = "posted" /\ batches[b].back
       /\ \A i \in Showing(t) : outbox[i].key # Key("batch", b, batches[b].attempt)

\* No reply is stranded: whatever fails in whatever order (summary, part of a
\* post, batch, restart), a reply is in the summariser's queue, in a batch that
\* will be posted, in a row that will be sent, was delivered whole, or is held
\* with a row one of whose operators lost authority (send_failed).  The one
\* exception is a reply overtaken by its own batch, which only a clock set back
\* during render_batch brings about: it waits for !details, or for a failed post.
\* In the same way a membership observation stays pending until it is told.
NothingStranded ==
    /\ \A t \in OutTurns : turn[t].status # "none" =>
           \/ turn[t].status = "summarizing"
           \/ turn[t].status = "batched" /\ batches[turn[t].batch].status = "open"
           \/ \E i \in Showing(t) : outbox[i].status \in Unsent \cup {"quarantined", "suppressed"}
           \/ \E i \in PartsOf(t, "batch") : outbox[i].status = "sent"
           \/ \E k \in {"reply", "summary"} :
                  PartsOf(t, k) # {} /\ \A i \in PartsOf(t, k) : outbox[i].status = "sent"
           \/ Overtaken(t)
    /\ notice.told < notice.seen =>
           \/ notice.pending
           \/ \E i \in DOMAIN outbox :
                  outbox[i].key.kind = "notice" /\ outbox[i].upto = notice.seen /\ outbox[i].status \in Unsent

\* A text goes out only while everyone whose reply it shows may command, though
\* summaries, batches and details are composed long before and by other tasks
\* (prepare_delivery, batch_owners, publish_details).
SendsToOwners ==
    sending' # 0 /\ sending = 0 => \A t \in outbox'[sending'].shows : turn[t].owner \in operators
SentToOwners == [][SendsToOwners]_outboxVars

\* The later part of a post is sent after its first part is settled, so it is
\* never cut loose from a part that still arrives (resolve_thread, "never in
\* normal operation").
PartsInOrder ==
    \A i \in DOMAIN outbox : outbox[i].key.kind = "card" /\ outbox[i].key.part > 1 /\ ~outbox[i].thread =>
        \A p \in Parent(outbox, outbox[i]) : outbox[p].status \notin Unsent
==============================
