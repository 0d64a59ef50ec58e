---------------------------- MODULE MCAdmindParts ----------------------------
(* Six parts of admind for TLC, one in each behaviour: the reply outbox,   *)
(* the ask cards, the fulfillment of asks, the gateway's custody of        *)
(* commands, the ingress and the maintenance consent.  The models of the   *)
(* parts share no state and take no steps together; the variables of the   *)
(* parts that a behaviour is not about are 0.                              *)
EXTENDS ReplyOutbox, AskCards, AskFulfillment, GatewayCustody, IngressReconnect, MaintenanceConsent

VARIABLE part   \* the part that the behaviour is about

\* Who may have asked for a turn: two operators' replies share a batch, and only the details of the first
\* turn are asked for beside it.
MCRequesters ==
    [x \in Traffic |-> [t \in OutTurns |->
        CASE x = "none" -> IF t = 1 THEN {"p"} ELSE {"q"}
          [] x = "details" -> IF t = 1 THEN {"p"} ELSE {}
          [] x = "alert" -> IF t = 1 THEN {"none"} ELSE {}
          [] OTHER -> {}]]

\* What posters and operators do in a behaviour.
Post(k, t, c) == [key |-> k, kind |-> t, content |-> c]
Say(v, t) == [verb |-> v, text |-> t]
Scene(p, x, y, n, h, a) == [posts |-> p, says |-> <<x, y>>, notices |-> n, hours |-> h, approval |-> a]
MCScenes == {
    Scene({Post(1, "question", 1), Post(1, "question", 2)}, {Say("reply", "choice")}, {}, 0, 1, FALSE),
    Scene({Post(1, "question", 1), Post(0, "question", 1)}, {}, {}, 0, 1, FALSE),
    Scene({Post(1, "question", 1)}, {Say("reply", "free"), Say("react", "control")},
          {Say("answer", "free")}, 0, 0, TRUE),
    Scene({Post(1, "question", 1)}, {Say("reply", "control")}, {Say("answer", "empty")}, 0, 0, TRUE),
    Scene({Post(0, "merge", 1)}, {Say("repeat", "none"), Say("reply", "choice")}, {Say("bump", "none")},
          0, 0, FALSE),
    Scene({}, {Say("repeat", "none"), Say("bump", "none")},
          {Say("reply", "choice"), Say("react", "free"), Say("details", "none")}, 0, 1, TRUE),
    Scene({Post(0, "merge", 1)}, {Say("details", "none")}, {}, 0, 1, FALSE),
    Scene({}, {}, {}, 2, 2, FALSE)}

NoOutbox ==
    /\ outbox = 0 /\ turn = 0 /\ batches = 0 /\ summing = 0 /\ rendering = 0 /\ sending = 0 /\ backoff = 0
    /\ operators = 0 /\ notice = 0 /\ alert = 0 /\ command = 0 /\ traffic = 0 /\ outFaults = 0
NoCards ==
    /\ asks = 0 /\ bindings = 0 /\ heard = 0 /\ posting = 0 /\ chunks = 0 /\ notices = 0 /\ inbound = 0
    /\ toldOf = 0 /\ hours = 0 /\ bumps = 0 /\ postGate = 0 /\ scene = 0 /\ cardFaults = 0
NoFulfilment ==
    /\ asked = 0 /\ fulfilled = 0 /\ projected = 0 /\ versions = 0 /\ stamped = 0 /\ dirty = 0 /\ offer = 0
    /\ checking = 0 /\ writes = 0
NoCustody ==
    /\ bundle = 0 /\ delivery = 0 /\ cfiles = 0 /\ consumer = 0 /\ authorityOf = 0 /\ cmdCall = 0 /\ issCall = 0
    /\ refusedAt = 0 /\ cfaults = 0
NoIngress ==
    /\ subGen = 0 /\ watch = 0 /\ reader = 0 /\ pipe = 0 /\ sup = 0 /\ cut = 0 /\ gate = 0
    /\ user = 0 /\ kept = 0 /\ count = 0 /\ group = 0 /\ stray = 0 /\ late = 0
NoMaintenance ==
    /\ prop = 0 /\ current = 0 /\ messages = 0 /\ conflicts = 0 /\ policy = 0 /\ now = 0 /\ queue = 0
    /\ published = 0 /\ mjob = 0 /\ mfaults = 0

\* The two asks are interchangeable: the first has got no further than the second.
Rank(a) == IF asked[a].status = "open" THEN 0 ELSE IF Protected(a) THEN 2 ELSE 1

AdmindInit ==
    \/ part = "outbox" /\ OutboxInit /\ NoCards /\ NoFulfilment /\ NoCustody /\ NoIngress /\ NoMaintenance
    \/ part = "cards" /\ CardInit /\ NoOutbox /\ NoFulfilment /\ NoCustody /\ NoIngress /\ NoMaintenance
    \/ part = "fulfilment" /\ FulfillInit /\ Rank(1) <= Rank(2) /\ NoOutbox /\ NoCards /\ NoCustody /\ NoIngress /\ NoMaintenance
    \/ part = "custody" /\ CustodyInit /\ NoOutbox /\ NoCards /\ NoFulfilment /\ NoIngress /\ NoMaintenance
    \/ part = "ingress" /\ IngressInit /\ NoOutbox /\ NoCards /\ NoFulfilment /\ NoCustody /\ NoMaintenance
    \/ part = "maintenance" /\ MaintInit /\ NoOutbox /\ NoCards /\ NoFulfilment /\ NoCustody /\ NoIngress

AdmindNext ==
    \/ /\ part = "outbox" /\ OutboxNext
       /\ UNCHANGED <<part, cardVars, fulfillVars, custodyVars, ingressVars, maintVars>>
    \/ /\ part = "cards" /\ CardNext
       /\ UNCHANGED <<part, outboxVars, fulfillVars, custodyVars, ingressVars, maintVars>>
    \/ /\ part = "fulfilment" /\ FulfillNext
       /\ UNCHANGED <<part, outboxVars, cardVars, custodyVars, ingressVars, maintVars>>
    \/ /\ part = "custody" /\ CustodyNext
       /\ UNCHANGED <<part, outboxVars, cardVars, fulfillVars, ingressVars, maintVars>>
    \/ /\ part = "ingress" /\ IngressNext
       /\ UNCHANGED <<part, outboxVars, cardVars, fulfillVars, custodyVars, maintVars>>
    \/ /\ part = "maintenance" /\ MaintNext
       /\ UNCHANGED <<part, outboxVars, cardVars, fulfillVars, custodyVars, ingressVars>>

admindVars == <<part, outboxVars, cardVars, fulfillVars, custodyVars, ingressVars, maintVars>>
AdmindSpec == AdmindInit /\ [][AdmindNext]_admindVars

\* ReplyOutbox: no reply and no membership observation is stranded, except a reply that joined its batch while
\* it was rendered, after the clock was set back; and the later part of a post is never cut loose from a first
\* part that still arrives (send_failed, close_due_batches, resolve_thread).
RepliesArrive == part = "outbox" => NothingStranded /\ PartsInOrder

\* ReplyOutbox: a text goes out only while everyone whose reply it shows may command (prepare_delivery).
RepliesToOwners == [][part = "outbox" => SendsToOwners]_admindVars

\* AskCards: a question's key stands for one question, and what an operator is told about a message is what
\* became of it (post_question_once, claim_inbound, answer_ask).
CardsTrue == part = "cards" => RetriedIsSame /\ ToldTrue

\* AskFulfillment: an ask is off the capacity only while its receipt is about the ask as it is now, and work
\* is attested once (Lifecycle.view, Lifecycle.commit).
FulfilmentTrue == part = "fulfilment" => SuppressedIsTrue /\ AttestedOnce

\* GatewayCustody: a refusal holds against every call under way, and the published chain of permits is
\* whole (_retain_command, _issue_permit).
CustodyHolds == part = "custody" => RefusalHolds /\ ChainWhole

\* IngressReconnect: no membership change goes unseen while the count is trusted and the group subscribed to,
\* and the count outlives its reader only until a running supervisor voids it; the group is subscribed to once,
\* and a reconnect leaves nothing locked (_check_group, _stop_reader, _release).
IngressSound == part = "ingress" => NoSwapUnseen /\ OneSubscription /\ CutoverLetsGo

\* MaintenanceConsent: the operation is settled under one permit, and the files say what the store committed
\* (Service.supersede, Service.permit).
MaintenanceOnce == part = "maintenance" => OneSettlement /\ PublishedIsCommitted
==============================
