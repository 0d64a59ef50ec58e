--------------------------------- MODULE AskCards ---------------------------------
(***************************************************************************)
(* Question and merge asks (admind/asks.py, notices.py and the ask parts   *)
(* of daemon.py and store.py): a poster submits a request, once or again   *)
(* under an idempotency key; the daemon stores the ask and queues its      *)
(* card; an operator replies or reacts to a delivered part, or names the   *)
(* ask in a command; open asks are repeated and reminded of.  Approval     *)
(* asks are posted and decided in ApprovalAsks: here one may exist, to be  *)
(* noted on, listed and repeated.                                          *)
(*                                                                         *)
(* A message is one inbound message or reaction: it may be delivered       *)
(* again, the daemon handles one at a time, and may die between claiming,  *)
(* starting and answering it.                                              *)
(***************************************************************************)
EXTENDS Integers, FiniteSets, SequencesExt

CONSTANTS
    CardAsks,        \* ask ids, 1 .. n
    QuestionKeys,    \* idempotency keys of question.once.v1, from 1
    NoticeIds,       \* notice ids
    OperatorMessages,\* inbound message ids
    Scenes,          \* bound: the requests and messages of a behaviour, [posts, says, notices, hours, approval];
                     \* a post is [key, kind, content], key 0 a plain one, and says[m] is a set of [verb, text]
    CardParts,       \* parts of every card
    MaxOpenQuestions,\* MAX_UNANSWERED_QUESTIONS
    MaxPostsPerHour, \* MAX_PER_HOUR, of asks and of notices
    MaxUndelivered,  \* NOTICE_UNDELIVERED
    MaxPostsInFlight,\* MAX_IN_FLIGHT
    MaxAnswers,      \* MAX_ANSWERS
    MaxAutobumps,    \* bound: automatic reminders
    CardFaults,      \* kinds of disturbance
    MaxCardFaults    \* bound: disturbances

ASSUME CardBounds ==
    /\ {MaxAutobumps, MaxCardFaults} \subseteq Nat /\ CardFaults \subseteq {"gate", "ask", "crash"}
    /\ {CardParts, MaxOpenQuestions, MaxPostsPerHour, MaxUndelivered, MaxPostsInFlight, MaxAnswers} \subseteq Nat \ {0}
ASSUME CardScenes ==
    /\ CardAsks \cup QuestionKeys \subseteq Nat \ {0} /\ 1 \in CardAsks
    /\ \A s \in Scenes :
         /\ s.posts \subseteq [key : QuestionKeys \cup {0}, kind : {"question", "merge"}, content : Nat]
         /\ \A m \in OperatorMessages :
              s.says[m] \subseteq [verb : {"reply", "react", "answer", "details", "bump", "repeat"},
                                  text : {"choice", "free", "control", "empty", "none"}]

VARIABLES
    asks,       \* asks, with their answers
    bindings,   \* ask_question_keys
    heard,      \* what a poster was told for its key: set of [content, ask]
    posting,    \* posts past the in-flight check, waiting for ask_post_lock
    chunks,     \* outbox rows of asks: set of [ask, what, ref, part, status]
    notices,    \* notices, and whether their outbox rows are pending
    inbound,    \* inbound: status, and what the message says
    toldOf,       \* what the operator is told of a message: set of outcomes
    hours,      \* hours passed
    bumps,      \* autobump_seq
    postGate,       \* authorised, latched, may_post
    scene,      \* which of Scenes this behaviour is in
    cardFaults  \* disturbances so far

cardVars == <<asks, bindings, heard, posting, chunks, notices, inbound, toldOf, hours, bumps, postGate, scene, cardFaults>>

NoAsk == [kind |-> "none", status |-> "none", content |-> 0, key |-> 0, hour |-> FALSE, quiet |-> FALSE,
          form |-> "ok", fulfilled |-> FALSE, answers |-> <<>>]
NoBinding == [content |-> 0, ask |-> 0]
NoNotice == [age |-> "none", pending |-> FALSE]
Unclaimed == [status |-> "none", verb |-> "none", text |-> "none", ask |-> 0, what |-> "none"]

\* An approval ask may be open already, its card delivered.
CardInit ==
    /\ scene \in Scenes
    /\ asks = [a \in CardAsks |-> IF a = 1 /\ scene.approval
                                  THEN [NoAsk EXCEPT !.kind = "approval", !.status = "open"] ELSE NoAsk]
    /\ chunks = IF ~scene.approval THEN {}
                ELSE {[ask |-> 1, what |-> "card", ref |-> 0, part |-> p, status |-> "sent"] : p \in 1 .. CardParts}
    /\ bindings = [k \in QuestionKeys |-> NoBinding]
    /\ heard = [k \in QuestionKeys |-> {}]
    /\ posting = {}
    /\ notices = [n \in NoticeIds |-> NoNotice]
    /\ inbound = [m \in OperatorMessages |-> Unclaimed]
    /\ toldOf = [m \in OperatorMessages |-> {}]
    /\ hours = 0
    /\ bumps = 0
    /\ postGate = [authorised |-> TRUE, latched |-> FALSE]
    /\ cardFaults = 0

CardFault(k) == k \in CardFaults /\ cardFaults < MaxCardFaults /\ cardFaults' = cardFaults + 1

Stored == {a \in CardAsks : asks[a].status # "none"}
PartsQueued(a, what, ref, n) == [ask : {a}, what : {what}, ref : {ref}, part : 1 .. n, status : {"pending"}]

------------------------------
(* The ask socket. *)

\* The form of a request (title, body, choices, links, management contract, id): abstracted to a verdict.
PostFlaws == {"none", "form", "choices", "management", "link", "width"}
FormOk(flaw) == flaw # "form"
ChoicesOk(flaw) == flaw # "choices"
ManagementOk(flaw) == flaw # "management"
LinksOk(flaw) == flaw # "link"
RenderOk(flaw) == flaw # "width"
OnceOk(req) == req.key # 0 => req.kind = "question"
RequestAdmitted(req, flaw) ==
    FormOk(flaw) /\ ChoicesOk(flaw) /\ ManagementOk(flaw) /\ LinksOk(flaw) /\ RenderOk(flaw) /\ OnceOk(req)

\* serialised_post: one over the bound is refused, the others wait for the lock.
PostArrives(req) ==
    /\ req \notin posting
    /\ Cardinality(posting) < MaxPostsInFlight
    /\ \E flaw \in PostFlaws : RequestAdmitted(req, flaw)
    /\ posting' = posting \cup {req}
    /\ UNCHANGED <<asks, bindings, heard, chunks, notices, inbound, toldOf, hours, bumps, postGate, scene, cardFaults>>

FreshAsk(a) == a \notin Stored /\ \A b \in CardAsks : b < a => b \in Stored
PostedThisHour == Cardinality({a \in Stored : asks[a].hour})
Unanswered == Cardinality({a \in Stored : asks[a].kind = "question" /\ asks[a].status = "open"})
PostAllowed(req) ==
    /\ ~postGate.latched
    /\ PostedThisHour < MaxPostsPerHour
    /\ req.kind = "question" => Unanswered < MaxOpenQuestions

\* Mutant: a retained question is looked up among the open asks only.
KeyRetainedOpen(req) == bindings[req.key].ask # 0 /\ asks[bindings[req.key].ask].status = "open"
\* The lookup of question_once, before the latch and the limits.
KeyRetained(req) == bindings[req.key].ask # 0

\* The reply to the poster may be lost; the poster then only retries.
Hears(req, a) ==
    heard' \in {heard} \cup IF req.key = 0 THEN {}
                            ELSE {[heard EXCEPT ![req.key] = @ \cup {[content |-> req.content, ask |-> a]}]}

\* post_ask in the lock: the ask, its card and the key's binding, or nothing.
PostStores(req) ==
    /\ req \in posting /\ (req.key # 0 => ~KeyRetained(req))
    /\ posting' = posting \ {req}
    /\ \/ /\ ~PostAllowed(req)
          /\ UNCHANGED <<asks, bindings, heard, chunks>>
       \/ /\ PostAllowed(req)
          /\ \E a \in CardAsks :
               /\ FreshAsk(a)
               /\ asks' = [asks EXCEPT ![a] = [NoAsk EXCEPT !.kind = req.kind, !.status = "open", !.key = req.key,
                                               !.content = req.content, !.hour = TRUE]]
               /\ chunks' = chunks \cup PartsQueued(a, "card", 0, CardParts)
               /\ bindings' = IF req.key = 0 THEN bindings
                              ELSE [bindings EXCEPT ![req.key] = [content |-> req.content, ask |-> a]]
               /\ Hears(req, a)
    /\ UNCHANGED <<notices, inbound, toldOf, hours, bumps, postGate, scene, cardFaults>>

\* A key that is bound: the retained ask for the same content, a refusal for any other.
PostRetained(req) ==
    /\ req \in posting /\ req.key # 0 /\ KeyRetained(req)
    /\ posting' = posting \ {req}
    /\ IF req.content = bindings[req.key].content THEN Hears(req, bindings[req.key].ask) ELSE UNCHANGED heard
    /\ UNCHANGED <<asks, bindings, chunks, notices, inbound, toldOf, hours, bumps, postGate, scene, cardFaults>>

SetAsk(f, a, s) == [f EXCEPT ![a].status = s]

\* cancel_ask, with the notice on the card.
CancelAsk(a) ==
    /\ asks[a].status \in {"open", "answered"} /\ ~asks[a].fulfilled
    /\ asks' = SetAsk(asks, a, "cancelled")
    /\ chunks' = chunks \cup PartsQueued(a, "note", 0, 1)
    /\ UNCHANGED <<bindings, heard, posting, notices, inbound, toldOf, hours, bumps, postGate, scene, cardFaults>>

\* post_notice: ended notices of last week go, then the limits, then the notice and its parts.
NoticeFit(flaw) == flaw = "none"
Kept == [n \in NoticeIds |-> IF notices[n].age = "week" /\ ~notices[n].pending THEN NoNotice ELSE notices[n]]
NoticesThisHour == Cardinality({n \in NoticeIds : Kept[n].age = "hour"})
NoticesUndelivered == Cardinality({n \in NoticeIds : notices[n].pending})
PostNotice(n) ==
    /\ ~postGate.latched /\ \E flaw \in PostFlaws : NoticeFit(flaw)
    /\ Kept[n] = NoNotice
    /\ \A i \in NoticeIds : i < n => Kept[i] # NoNotice
    /\ notices' =
         IF NoticesThisHour >= MaxPostsPerHour \/ NoticesUndelivered >= MaxUndelivered
         THEN Kept ELSE [Kept EXCEPT ![n] = [age |-> "hour", pending |-> TRUE]]
    /\ UNCHANGED <<asks, bindings, heard, posting, chunks, inbound, toldOf, hours, bumps, postGate, scene, cardFaults>>

------------------------------
(* Delivery: the outbox sends a part or gives it up (see ReplyOutbox). *)

PartEnds(c, s) ==
    /\ c.status = "pending"
    /\ \A d \in chunks : d.status = "pending" /\ d.ask = c.ask /\ d.what = c.what /\ d.ref = c.ref => d.part >= c.part
    /\ chunks' = (chunks \ {c}) \cup {[c EXCEPT !.status = s]}
    /\ UNCHANGED <<asks, bindings, heard, posting, notices, inbound, toldOf, hours, bumps, postGate, scene, cardFaults>>

NoticeEnds(n) ==
    /\ notices[n].pending
    /\ notices' = [notices EXCEPT ![n].pending = FALSE]
    /\ UNCHANGED <<asks, bindings, heard, posting, chunks, inbound, toldOf, hours, bumps, postGate, scene, cardFaults>>

AllSent(a, what, ref) ==
    LET rows == {c \in chunks : c.ask = a /\ c.what = what /\ c.ref = ref}
    IN  rows # {} /\ \A c \in rows : c.status = "sent"
FirstSent(a) == \E c \in chunks : c.ask = a /\ c.what = "card" /\ c.part = 1 /\ c.status = "sent"
FullRepeat(a) == \E m \in OperatorMessages : AllSent(a, "repeat", m)
\* bump_target: there is a delivered message of the card to thread a reminder to.
BumpTarget(a) == FirstSent(a) \/ FullRepeat(a)
ReminderPending(a) == \E c \in chunks : c.ask = a /\ c.what \in {"bump", "auto", "repeat"} /\ c.status = "pending"

------------------------------
(* An operator's message. *)

InHand == {m \in OperatorMessages : inbound[m].status \in {"received", "executing"}}

\* claim_inbound: one claim for a message id, ever.
FirstClaim(m) == inbound[m].status = "none"

\* on_message and on_reaction up to the check of the group.  What a redelivered message says is what it said.
Delivered(m, say, c) ==
    /\ InHand = {} /\ ~postGate.latched
    /\ FirstClaim(m)
    /\ inbound[m].status = "none" \/ (inbound[m].verb = say.verb /\ inbound[m].text = say.text
                                      /\ inbound[m].ask = c.ask /\ inbound[m].what = c.what)
    /\ inbound' = [inbound EXCEPT ![m] = [status |-> "received", verb |-> say.verb, text |-> say.text,
                                          ask |-> c.ask, what |-> c.what]]
    /\ UNCHANGED <<asks, bindings, heard, posting, chunks, notices, toldOf, hours, bumps, postGate, scene, cardFaults>>

TellSender(m, t) == toldOf' = [toldOf EXCEPT ![m] = @ \cup {t}]
Status(m, s) == inbound' = [inbound EXCEPT ![m].status = s]
\* finish: the status and the reply in one transaction.
Settle(m, t) == Status(m, "done") /\ TellSender(m, t)
\* deny: no reply while latched.
Deny(m) == Status(m, "dropped") /\ toldOf' = IF postGate.latched THEN toldOf ELSE [toldOf EXCEPT ![m] = @ \cup {"denied"}]

\* ask_for_message and bump_for_message: what a message is about, from the delivered part it replies to.
OnCard(m) == inbound[m].what \in {"card", "repeat", "details"}
OnBump(m) == inbound[m].what \in {"bump", "auto"}

\* The group is checked; a message that is refused before it starts is settled here.
MessageStarts(m) ==
    /\ inbound[m].status = "received"
    /\ \/ /\ ~postGate.authorised \/ postGate.latched
          /\ Deny(m) /\ UNCHANGED asks
       \/ /\ postGate.authorised /\ ~postGate.latched
          /\ \/ /\ inbound[m].text = "control"
                /\ IF inbound[m].verb = "react" THEN Status(m, "done") /\ UNCHANGED toldOf
                                                ELSE Status(m, "dropped") /\ TellSender(m, "refused")
                /\ asks' = IF OnCard(m) THEN [asks EXCEPT ![inbound[m].ask].quiet = FALSE] ELSE asks
             \/ /\ inbound[m].text # "control"
                /\ Status(m, "executing") /\ UNCHANGED <<asks, toldOf>>
    /\ UNCHANGED <<bindings, heard, posting, chunks, notices, hours, bumps, postGate, scene, cardFaults>>

AnswerRefused(a, text) ==
    \/ asks[a].form = "broken" \/ asks[a].fulfilled
    \/ asks[a].status \notin {"open", "answered"}
    \/ text = "empty"
    \/ Len(asks[a].answers) >= MaxAnswers

\* map_reaction, map_reply: the choice that a short text stands for on a question with a form.
Choice(a, text) == asks[a].kind = "question" /\ text = "choice"

Touched(a) == [asks EXCEPT ![a].quiet = FALSE]
AddAnswer(f, a, answer) == [f EXCEPT ![a].answers = Append(@, answer)]

\* answer_ask: the answer, the status, the clock and the reply in one transaction.
Answers(m, a) ==
    LET answer == [message |-> m, choice |-> Choice(a, inbound[m].text)] IN
    IF AnswerRefused(a, inbound[m].text) THEN asks' = Touched(a) /\ Settle(m, "refused")
    ELSE /\ asks' = SetAsk(AddAnswer(Touched(a), a, answer), a,
                           IF asks[a].kind = "approval" THEN asks[a].status ELSE "answered")
         /\ Settle(m, "recorded")

\* On a reminder a reply, or an emoji that decides, is told where to answer; any other reaction is ignored.
Hinted(m) == OnBump(m) /\ (inbound[m].verb = "react" => inbound[m].text = "choice")

\* bang_answer: the ask is named in a command.
Named(m) == inbound[m].verb = "answer"

\* An emoji on an approval card decides (ApprovalAsks) or is ignored; elsewhere it is an answer.
Ignored(m) == inbound[m].verb = "react" /\ OnCard(m) /\ asks[inbound[m].ask].kind = "approval"

\* ask_reply, react and bump_hint.
Replies(m) ==
    /\ inbound[m].status = "executing" /\ inbound[m].verb \in {"reply", "react", "answer"}
    /\ LET a == inbound[m].ask
       IN  \/ /\ ~postGate.authorised \/ postGate.latched
              /\ Deny(m) /\ UNCHANGED asks
           \/ /\ postGate.authorised /\ ~postGate.latched
              /\ \/ /\ ~Named(m) /\ Hinted(m)
                    /\ Settle(m, "hint") /\ UNCHANGED asks
                 \/ /\ ~Named(m) /\ ~Hinted(m) /\ ~OnCard(m)
                    /\ Status(m, "done") /\ UNCHANGED <<asks, toldOf>>
                 \/ /\ Named(m) /\ asks[a].kind = "approval"
                    /\ asks' = Touched(a) /\ Settle(m, "refused")
                 \/ /\ Ignored(m)
                    /\ asks' = Touched(a) /\ Status(m, "done") /\ UNCHANGED toldOf
                 \/ /\ IF Named(m) THEN asks[a].kind # "approval" ELSE OnCard(m) /\ ~Ignored(m)
                    /\ Answers(m, a)
    /\ UNCHANGED <<bindings, heard, posting, chunks, notices, hours, bumps, postGate, scene, cardFaults>>

\* ask_details: the whole ask in parts of its own, threaded to the command.
DetailsOf(m) ==
    /\ inbound[m].status = "executing" /\ inbound[m].verb = "details"
    /\ LET a == inbound[m].ask IN
       \/ /\ ~postGate.authorised \/ postGate.latched
          /\ Deny(m) /\ UNCHANGED <<asks, chunks>>
       \/ /\ postGate.authorised /\ ~postGate.latched
          /\ \/ /\ ~OnCard(m)
                /\ Settle(m, "refused") /\ UNCHANGED <<asks, chunks>>
             \/ /\ OnCard(m)
                /\ asks' = Touched(a)
                /\ IF asks[a].form # "ok" /\ asks[a].kind # "approval"
                   THEN Settle(m, "refused") /\ UNCHANGED chunks
                   ELSE /\ chunks' = chunks \cup PartsQueued(a, "details", m, CardParts)
                        /\ Status(m, "done") /\ UNCHANGED toldOf
    /\ UNCHANGED <<bindings, heard, posting, notices, hours, bumps, postGate, scene, cardFaults>>

\* remind: every open ask is repeated, or bumped if its card has reached the group, in one transaction.
Reminded(verb) ==
    {a \in Stored : /\ asks[a].status = "open" /\ asks[a].form # "broken"
                    /\ IF verb = "repeat" THEN asks[a].form = "ok" \/ asks[a].kind = "approval" ELSE BumpTarget(a)}
Remind(m) ==
    /\ inbound[m].status = "executing" /\ inbound[m].verb \in {"bump", "repeat"}
    /\ LET verb == inbound[m].verb IN
       IF postGate.authorised /\ ~postGate.latched
       THEN /\ asks' = [a \in CardAsks |-> IF a \in Reminded(verb) THEN [asks[a] EXCEPT !.quiet = FALSE] ELSE asks[a]]
            /\ chunks' = chunks \cup UNION {PartsQueued(a, verb, m, IF verb = "bump" THEN 1 ELSE CardParts)
                                              : a \in Reminded(verb)}
            /\ Settle(m, "listed")
       ELSE Deny(m) /\ UNCHANGED <<asks, chunks>>
    /\ UNCHANGED <<bindings, heard, posting, notices, hours, bumps, postGate, scene, cardFaults>>

Remindable(a) == asks[a].status = "open" /\ ~asks[a].fulfilled

\* autobump, in one go under work_lock: every quiet open ask with no reminder on its way.
Autobump ==
    /\ postGate.authorised /\ ~postGate.latched /\ InHand = {} /\ bumps < MaxAutobumps
    /\ LET due == {a \in Stored : /\ Remindable(a) /\ asks[a].quiet
                                  /\ asks[a].form # "broken" /\ ~ReminderPending(a) /\ BumpTarget(a)}
       IN  /\ due # {}
           /\ chunks' = chunks \cup UNION {PartsQueued(a, "auto", bumps + 1, 1) : a \in due}
           /\ asks' = [a \in CardAsks |-> IF a \in due THEN [asks[a] EXCEPT !.quiet = FALSE] ELSE asks[a]]
    /\ bumps' = bumps + 1
    /\ UNCHANGED <<bindings, heard, posting, notices, inbound, toldOf, hours, postGate, scene, cardFaults>>

------------------------------
(* The world. *)

HourPasses ==
    /\ hours < scene.hours
    /\ hours' = hours + 1
    /\ asks' = [a \in CardAsks |-> IF a \in Stored THEN [asks[a] EXCEPT !.hour = FALSE, !.quiet = TRUE] ELSE asks[a]]
    /\ notices' = [n \in NoticeIds |-> [notices[n] EXCEPT !.age = CASE @ = "hour" -> "day" [] @ = "day" -> "week" [] OTHER -> @]]
    /\ UNCHANGED <<bindings, heard, posting, chunks, inbound, toldOf, bumps, postGate, scene, cardFaults>>

GateChanges ==
    /\ CardFault("gate")
    /\ postGate' \in {[postGate EXCEPT !.authorised = ~@], [postGate EXCEPT !.latched = TRUE]}
    /\ UNCHANGED <<asks, bindings, heard, posting, chunks, notices, inbound, toldOf, hours, bumps, scene>>

\* Another part fulfils an answered ask, or its stored card no longer renders.
AskChanges(a) ==
    /\ CardFault("ask") /\ a \in Stored
    /\ \/ asks[a].status = "answered" /\ asks' = [asks EXCEPT ![a].fulfilled = TRUE]
       \/ \E f \in {"narrow", "broken"} : asks' = [asks EXCEPT ![a].form = f]
    /\ UNCHANGED <<bindings, heard, posting, chunks, notices, inbound, toldOf, hours, bumps, postGate, scene>>

\* The daemon dies; recover answers every message in hand and prunes the notices.
Recovers ==
    /\ CardFault("crash")
    /\ posting' = {}
    /\ notices' = Kept
    /\ inbound' = [m \in OperatorMessages |-> IF m \in InHand THEN [inbound[m] EXCEPT !.status = "dropped"] ELSE inbound[m]]
    /\ toldOf' = [m \in OperatorMessages |-> IF m \in InHand THEN toldOf[m] \cup {"resend"} ELSE toldOf[m]]
    /\ UNCHANGED <<asks, bindings, heard, chunks, hours, bumps, postGate, scene>>

\* A reply or reaction is to a part that was delivered, an answer may name any ask, a reminder names none.
Targets(verb) ==
    CASE verb = "answer" -> [ask : Stored, what : {"id"}]
      [] verb \in {"bump", "repeat"} -> [ask : {0}, what : {"none"}]
      [] OTHER -> {[ask |-> c.ask, what |-> c.what] : c \in {d \in chunks : d.status = "sent"}}

CardNext ==
    \/ \E r \in scene.posts : PostArrives(r) \/ PostStores(r) \/ PostRetained(r)
    \/ \E a \in CardAsks : CancelAsk(a) \/ AskChanges(a)
    \/ \E n \in 1 .. scene.notices : PostNotice(n) \/ NoticeEnds(n)
    \/ \E c \in chunks, s \in {"sent", "failed"} : PartEnds(c, s)
    \/ \E m \in OperatorMessages :
         \/ \E say \in scene.says[m] : \E c \in Targets(say.verb) : Delivered(m, say, c)
         \/ MessageStarts(m) \/ Replies(m) \/ DetailsOf(m) \/ Remind(m)
    \/ Autobump
    \/ HourPasses
    \/ GateChanges
    \/ Recovers

------------------------------

(* A key of question.once.v1 stands for one question: whatever a poster    *)
(* was told under it, however often and after whichever answers, limits,   *)
(* latch or restart, is the one ask with the one content that the key      *)
(* bound, and no other ask was ever posted for the key                     *)
(* (post_question_once, bind_question).                                    *)
RetriedIsSame ==
    \A k \in QuestionKeys :
        /\ Cardinality({a \in Stored : asks[a].key = k}) <= 1
        /\ \A h \in heard[k] : asks[h.ask].key = k /\ asks[h.ask].content = h.content

(* An operator can act on what it is told: a message answered "recorded"   *)
(* is one answer of one ask, a message that was refused, denied or must be *)
(* sent again is none, and no message is told two things, with messages    *)
(* delivered again and the daemon dying at any step (claim_inbound,        *)
(* answer_ask, finish, recover).                                           *)
ToldTrue ==
    \A m \in OperatorMessages :
        /\ Cardinality(toldOf[m]) <= 1
        /\ Cardinality({n \in CardAsks \X (1 .. MaxAnswers) :
                           n[2] <= Len(asks[n[1]].answers) /\ asks[n[1]].answers[n[2]].message = m})
             = IF toldOf[m] = {"recorded"} THEN 1 ELSE 0

==============================
