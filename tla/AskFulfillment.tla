------------------------------ MODULE AskFulfillment ------------------------------
(***************************************************************************)
(* Ask fulfillment (admind/fulfillment.py, fulfillment_projection.py): an  *)
(* answered ask gets at most one receipt, from a controller or from an     *)
(* operator who confirms a delivered notice.  The receipt takes the ask    *)
(* off the capacity only while a verification stamp of the ask's current   *)
(* generation says that the receipt still matches it: SQL triggers raise   *)
(* the generation on any write, by this daemon or by an older one, and a   *)
(* worker verifies from a snapshot and stamps in a later transaction.      *)
(*                                                                         *)
(* The text of an ask and its answers is a number; its digests are that    *)
(* number.  The projection's epoch is set once, by the migration, and is   *)
(* not modelled further.                                                   *)
(***************************************************************************)
EXTENDS Integers, FiniteSets

CONSTANTS
    FulfilledAsks,    \* asks of kind question or merge
    Intents,          \* operator intents that may be proposed, from 1
    Contents,         \* contents of an ask and its answers, from 1
    Large,            \* the contents over the verification bounds
    Operations,       \* namespace and operation id of a controller's receipt
    MaxPendingIntents,\* intents pending at once (40 in the code)
    MaxWrites         \* bound: writes to asks by others

ASSUME FulfillmentBounds ==
    /\ MaxWrites \in Nat /\ MaxPendingIntents \in Nat \ {0}
    /\ Intents \subseteq Nat \ {0}
    /\ 1 \in Contents /\ Large \subseteq Contents

VARIABLES
    asked,      \* asks: status and content
    fulfilled,  \* ask_fulfillments
    projected,  \* the projection's tables and triggers are there
    versions,   \* fulfillment_generations
    stamped,    \* fulfillment_verifications
    dirty,      \* fulfillment_dirty
    offer,      \* ask_fulfillment_intents, with the delivery of the notice
    checking,   \* what a verification pass found in its snapshot
    writes      \* writes by others so far

fulfillVars == <<asked, fulfilled, projected, versions, stamped, dirty, offer, checking, writes>>

NoFulfillment == [content |-> 0, by |-> "none", op |-> 0, core |-> 0, valid |-> FALSE]
ReceiptFor(content, by, op, core) == [content |-> content, by |-> by, op |-> op, core |-> core, valid |-> TRUE]
NoStamp == [gen |-> -1, state |-> "none"]
NoOffer == [ask |-> 0, content |-> 0, status |-> "none", note |-> "none"]

\* An answered ask may have a receipt from before the projection.
FulfillInit ==
    /\ asked \in [FulfilledAsks -> [status : {"open", "answered"}, content : {1}]]
    /\ fulfilled \in [FulfilledAsks -> {NoFulfillment, ReceiptFor(1, "controller", 0, 0)}]
    /\ \A a \in FulfilledAsks : fulfilled[a] # NoFulfillment => asked[a].status = "answered"
    /\ projected = FALSE
    /\ versions = [a \in FulfilledAsks |-> -1]
    /\ stamped = [a \in FulfilledAsks |-> NoStamp]
    /\ dirty = [a \in FulfilledAsks |-> -1]
    /\ offer = [i \in Intents |-> NoOffer]
    /\ checking = [a \in {} |-> NoStamp]
    /\ writes = 0

Protected(a) == fulfilled[a].by # "none"

\* The quiesced migration: tables, triggers, and every receipt to verify.
Migrate ==
    /\ ~projected
    /\ projected' = TRUE
    /\ versions' = [a \in FulfilledAsks |-> IF Protected(a) THEN 0 ELSE -1]
    /\ dirty' = [a \in FulfilledAsks |-> IF Protected(a) THEN 0 ELSE -1]
    /\ fulfilled' = [a \in FulfilledAsks |-> [fulfilled[a] EXCEPT !.valid = FALSE]]
    /\ UNCHANGED <<asked, stamped, offer, checking, writes>>

------------------------------
(* Writes to asks and answers, by whatever version of the daemon. *)
\* Mutant: the triggers take the stamp away and leave the generation.
BumpKept(a) ==
    IF projected /\ Protected(a)
    THEN /\ fulfilled' = [fulfilled EXCEPT ![a].valid = FALSE]
         /\ stamped' = [stamped EXCEPT ![a] = NoStamp]
         /\ dirty' = [dirty EXCEPT ![a] = versions[a]]
         /\ UNCHANGED versions
    ELSE UNCHANGED <<versions, fulfilled, stamped, dirty>>

\* What the triggers do to an ask that has a receipt.
Bump(a) ==
    IF projected /\ Protected(a)
    THEN /\ versions' = [versions EXCEPT ![a] = @ + 1]
         /\ fulfilled' = [fulfilled EXCEPT ![a].valid = FALSE]
         /\ stamped' = [stamped EXCEPT ![a] = NoStamp]
         /\ dirty' = [dirty EXCEPT ![a] = versions[a] + 1]
    ELSE UNCHANGED <<versions, fulfilled, stamped, dirty>>

\* Whatever notice of the ask is pending is retired.
RetirePending(a, without) ==
    [i \in Intents |-> IF offer[i].ask = a /\ offer[i].status = "pending" /\ i # without
                       THEN [offer[i] EXCEPT !.status = "retired"] ELSE offer[i]]

\* set_ask, add_answer: an ask with a receipt is refused, and a notice of the ask
\* is retired with the write.  An older daemon does neither.
AskWritten(a, status, content, older) ==
    /\ writes < MaxWrites
    /\ older \/ ~Protected(a)
    /\ writes' = writes + 1
    /\ asked[a] # [status |-> status, content |-> content]
    /\ asked' = [asked EXCEPT ![a] = [status |-> status, content |-> content]]
    /\ Bump(a)
    /\ offer' = IF older THEN offer ELSE RetirePending(a, 0)
    /\ UNCHANGED <<projected, checking>>

------------------------------
(* Receipts *)
\* What is wrong with a request, if anything.
ReceiptFlaws == {"none", "malformed", "peer", "reference", "text"}
WellFormed(flaw) == flaw # "malformed"   \* strict JSON, closed schema, bounds
PeerOk(flaw) == flaw # "peer"            \* the caller runs under the daemon's uid
ReferencesKnown(flaw) == flaw # "reference"  \* digests, answer ids, evidence
DeclarationOk(flaw) == flaw # "text"     \* the declaration and its notice fit and redact to themselves
RequestFit(flaw) == WellFormed(flaw) /\ PeerOk(flaw) /\ ReferencesKnown(flaw)

\* The binding names the ask as it is now, and the ask is answered.
Binds(a, content) == asked[a].content = content /\ asked[a].status = "answered"

StampCurrent(g) == [gen |-> g, state |-> "valid"]

\* The receipt, the generation its trigger sets, the stamp of that generation
\* and the retirement are one transaction.
CommitReceipt(a, receipt) ==
    /\ projected
    /\ LET g == versions[a] + 1 IN
       /\ versions' = [versions EXCEPT ![a] = g]
       /\ stamped' = [stamped EXCEPT ![a] = StampCurrent(g)]
    /\ dirty' = [dirty EXCEPT ![a] = -1]
    /\ fulfilled' = [fulfilled EXCEPT ![a] = receipt]

OperationAgrees(op, core) ==
    \A b \in FulfilledAsks : fulfilled[b].op = op => fulfilled[b].core = core

\* A controller's receipt: the same request again is answered from the row,
\* another one is a conflict.
Apply(a, content, op, core, flaw) ==
    /\ RequestFit(flaw)
    /\ ~Protected(a)
    /\ Binds(a, content)
    /\ OperationAgrees(op, core)
    /\ CommitReceipt(a, ReceiptFor(content, "controller", op, core))
    /\ offer' = RetirePending(a, 0)
    /\ UNCHANGED <<asked, projected, checking, writes>>

------------------------------
(* Operator intents *)
PendingOf(a) == {i \in Intents : offer[i].ask = a /\ offer[i].status = "pending"}
AllPending == {i \in Intents : offer[i].status = "pending"}

\* A second intent needs to name the one it replaces, whose notice still has
\* its owner; the old one is retired in the same transaction.
Propose(i, a, content, replace, flaw) ==
    /\ offer[i] = NoOffer
    /\ RequestFit(flaw) /\ DeclarationOk(flaw)
    /\ projected
    /\ Binds(a, content)
    /\ ~Protected(a)
    /\ IF PendingOf(a) = {} THEN replace = 0
       ELSE replace \in PendingOf(a) /\ offer[replace].note \in {"pending", "delivered", "expired"}
    /\ Cardinality(AllPending \ {replace}) < MaxPendingIntents
    /\ offer' = [j \in Intents |->
                    IF j = i THEN [ask |-> a, content |-> content, status |-> "pending", note |-> "pending"]
                    ELSE IF j = replace THEN [offer[j] EXCEPT !.status = "retired"] ELSE offer[j]]
    /\ UNCHANGED <<asked, fulfilled, projected, versions, stamped, dirty, checking, writes>>

Dispose(i) ==
    /\ offer[i].status = "pending"
    /\ offer' = [offer EXCEPT ![i].status = "retired"]
    /\ UNCHANGED <<asked, fulfilled, projected, versions, stamped, dirty, checking, writes>>

\* The notice is delivered, loses its owner or its delivery, or is 24 h old.
NoticeState(i, note) ==
    /\ offer[i].ask # 0
    /\ <<offer[i].note, note>> \in ({"pending"} \X {"delivered", "suppressed", "unavailable"})
                                     \union ({"pending", "delivered"} \X {"expired"})
    /\ offer' = [offer EXCEPT ![i].note = note]
    /\ UNCHANGED <<asked, fulfilled, projected, versions, stamped, dirty, checking, writes>>

\* `!fulfill' on the notice of intent i: consumed before the receipt is made,
\* which retires any other.
Confirm(i) ==
    /\ offer[i].status = "pending" /\ offer[i].note = "delivered"
    /\ LET a == offer[i].ask IN
       /\ ~Protected(a)
       /\ Binds(a, offer[i].content)
       /\ CommitReceipt(a, ReceiptFor(offer[i].content, "operator", 0, 0))
       /\ offer' = [RetirePending(a, i) EXCEPT ![i].status = "consumed"]
    /\ UNCHANGED <<asked, projected, checking, writes>>

------------------------------
(* The verification worker *)
Measured(a) == asked[a].content \notin Large
Verdict(a) ==
    CASE ~Measured(a) -> "too-large"
      [] Measured(a) /\ Binds(a, fulfilled[a].content) -> "valid"
      [] OTHER -> "conflict"

\* The dirty asks and the ones without a stamp of this epoch.
ToVerify == {a \in FulfilledAsks : Protected(a) /\ (dirty[a] # -1 \/ stamped[a] = NoStamp)}

\* One snapshot; the pass may run out of time or bytes after any of them.
VerifyReads(some) ==
    /\ projected
    /\ DOMAIN checking = {}
    /\ some # {} /\ some \subseteq ToVerify
    /\ checking' = [a \in some |-> [gen |-> versions[a], state |-> Verdict(a)]]
    /\ UNCHANGED <<asked, fulfilled, projected, versions, stamped, dirty, offer, writes>>

\* The generation in the snapshot is the one of now.
StillCurrent(a) == checking[a].gen = versions[a]

VerifyWrites ==
    /\ DOMAIN checking # {}
    /\ LET now1 == {a \in DOMAIN checking : StillCurrent(a)} IN
       /\ stamped' = [a \in FulfilledAsks |->
                        IF a \in now1 THEN checking[a] ELSE stamped[a]]
       /\ fulfilled' = [a \in FulfilledAsks |->
                          IF a \in now1 THEN [fulfilled[a] EXCEPT !.valid = checking[a].state = "valid"]
                          ELSE fulfilled[a]]
       /\ dirty' = [a \in FulfilledAsks |-> IF a \in now1 THEN -1 ELSE dirty[a]]
    /\ checking' = [a \in {} |-> NoStamp]
    /\ UNCHANGED <<asked, projected, versions, offer, writes>>

\* The pass fails or the daemon stops: the dirty rows are durable.
VerifyLost ==
    /\ DOMAIN checking # {}
    /\ checking' = [a \in {} |-> NoStamp]
    /\ UNCHANGED <<asked, fulfilled, projected, versions, stamped, dirty, offer, writes>>

\* Intents are numbered as they are proposed.
NextIntent(i) == offer[i] = NoOffer /\ \A j \in Intents : j < i => offer[j] # NoOffer

FulfillNext ==
    \/ Migrate
    \/ \E a \in FulfilledAsks, s \in {"open", "answered"}, c \in Contents, older \in BOOLEAN : AskWritten(a, s, c, older)
    \/ \E a \in FulfilledAsks, c \in Contents, o \in Operations, k \in {1, 2}, f \in ReceiptFlaws : Apply(a, c, o, k, f)
    \/ \E i \in Intents :
          /\ NextIntent(i)
          /\ \E a \in FulfilledAsks, c \in Contents, r \in Intents \union {0}, f \in ReceiptFlaws : Propose(i, a, c, r, f)
    \/ \E i \in Intents : Dispose(i)
    \/ \E i \in Intents, n \in {"delivered", "suppressed", "unavailable", "expired"} : NoticeState(i, n)
    \/ \E i \in Intents : Confirm(i)
    \/ \E some \in SUBSET FulfilledAsks : VerifyReads(some)
    \/ VerifyWrites
    \/ VerifyLost

FulfillSpec == FulfillInit /\ [][FulfillNext]_fulfillVars

------------------------------
(* Properties *)
\* The ask no longer counts against the capacity.
Suppressed(a) ==
    /\ projected
    /\ Protected(a) /\ fulfilled[a].valid
    /\ stamped[a].state = "valid" /\ stamped[a].gen = versions[a]

\* What `fulfillment get' reports.
Lifecycle(a) ==
    CASE ~Protected(a) -> "unfulfilled"
      [] Suppressed(a) /\ Measured(a) -> "fulfilled"
      [] /\ Protected(a) /\ projected /\ Measured(a)
         /\ stamped[a] = [gen |-> versions[a], state |-> "conflict"] -> "conflict"
      [] OTHER -> "unverified"

\* An ask is off the capacity only while its receipt is about the ask and the
\* answers as they are now (SUPPRESSED), and a reported lifecycle is the true
\* one (Lifecycle.view): a verification begun before a write, by this daemon or
\* an older one, never outlives it.
SuppressedIsTrue ==
    \A a \in FulfilledAsks :
        /\ Suppressed(a) \/ Lifecycle(a) = "fulfilled" => Binds(a, fulfilled[a].content)
        /\ Lifecycle(a) = "conflict" => ~Binds(a, fulfilled[a].content)

\* Work is attested once: beside a receipt no notice of its ask stays open to
\* confirmation, an operator's receipt comes from exactly one consumed intent,
\* and receipts of one operation agree on what it did (Lifecycle.commit).
AttestedOnce ==
    /\ \A a \in FulfilledAsks : projected /\ Protected(a) => PendingOf(a) = {}
    /\ \A a \in FulfilledAsks :
          Cardinality({i \in Intents : offer[i].ask = a /\ offer[i].status = "consumed"})
             = IF fulfilled[a].by = "operator" THEN 1 ELSE 0
    /\ \A a, b \in FulfilledAsks :
          fulfilled[a].op # 0 /\ fulfilled[a].op = fulfilled[b].op => fulfilled[a].core = fulfilled[b].core
==============================
