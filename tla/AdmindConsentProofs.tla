---------------------------- MODULE AdmindConsentProofs ----------------------------
(***************************************************************************)
(* Theorems about the parts of admind that keep what operators asked for   *)
(* and agreed to, for any asks, contents, proposals, commands, messages,   *)
(* generations and disturbances: the fulfillment of asks, the custody of   *)
(* gateway permits and the consent to maintenance.                         *)
(***************************************************************************)
EXTENDS AskFulfillment, GatewayCustody, MaintenanceConsent, FiniteSetTheorems, TLAPS

------------------------------
(* AskFulfillment: a receipt takes an ask off the capacity only while it is about the *)
(* ask as it is, and attests work once.                                               *)

Receipt == [content : Contents \union {0}, by : {"none", "controller", "operator"},
            op : Operations \union {0}, core : 0 .. 2, valid : BOOLEAN]
StampType == [gen : Int, state : {"none", "valid", "conflict", "too-large"}]
OfferType == [ask : FulfilledAsks \union {0}, content : Contents \union {0},
              status : {"none", "pending", "retired", "consumed"},
              note : {"none", "pending", "delivered", "suppressed", "unavailable", "expired"}]

FulfillType ==
    /\ asked \in [FulfilledAsks -> [status : {"open", "answered"}, content : Contents]]
    /\ fulfilled \in [FulfilledAsks -> Receipt]
    /\ projected \in BOOLEAN
    /\ versions \in [FulfilledAsks -> Int]
    /\ stamped \in [FulfilledAsks -> StampType]
    /\ dirty \in [FulfilledAsks -> Int]
    /\ offer \in [Intents -> OfferType]
    /\ DOMAIN checking \subseteq FulfilledAsks
    /\ \A a \in DOMAIN checking : checking[a] \in StampType
    /\ writes \in Nat

\* A finding about generation "gen" of ask a is true when a is still of that generation.
FindingTrue(a, found) ==
    /\ found.gen <= versions[a]
    /\ found.gen = versions[a] =>
          /\ found.state = "valid" => Binds(a, fulfilled[a].content)
          /\ found.state = "conflict" => ~Binds(a, fulfilled[a].content)

\* Stamps and findings are about receipts, and true unless they are outdated.
Stamps ==
    /\ \A a \in FulfilledAsks : projected /\ Protected(a) => FindingTrue(a, stamped[a]) /\ versions[a] >= 0
    /\ \A a \in FulfilledAsks : ~projected \/ ~Protected(a) => stamped[a] = NoStamp /\ versions[a] = -1
    /\ \A a \in DOMAIN checking : projected /\ Protected(a) /\ FindingTrue(a, checking[a])

\* Notices are for asks without a receipt, and an operator's receipt has its one intent.
Consumed(a) == {i \in Intents : offer[i].ask = a /\ offer[i].status = "consumed"}
Offers ==
    /\ ~projected => \A i \in Intents : offer[i] = NoOffer
    /\ \A i \in Intents, a \in FulfilledAsks :
          projected /\ Protected(a) /\ offer[i].ask = a => offer[i].status # "pending"
    /\ \A a \in FulfilledAsks : fulfilled[a].by = "operator" => \E i \in Intents : Consumed(a) = {i}
    /\ \A a \in FulfilledAsks : fulfilled[a].by # "operator" => Consumed(a) = {}
    /\ \A i \in Intents : offer[i].status \in {"pending", "consumed"} => offer[i].ask \in FulfilledAsks

OperationsAgree ==
    \A a, b \in FulfilledAsks :
        fulfilled[a].op # 0 /\ fulfilled[a].op = fulfilled[b].op => fulfilled[a].core = fulfilled[b].core

FulfillInv == FulfillType /\ Stamps /\ Offers /\ OperationsAgree

------------------------------
\* Facts that hold for every value of the constants.
LEMMA NullsTyped ==
  /\ NoFulfillment \in Receipt /\ NoStamp \in StampType /\ NoOffer \in OfferType
  /\ NoFulfillment.by = "none" /\ NoStamp.gen = -1 /\ NoStamp.state = "none" /\ NoOffer.status = "none"
BY FulfillmentBounds DEF NoFulfillment, NoStamp, NoOffer, Receipt, StampType, OfferType

\* A receipt made for a request is a receipt.
LEMMA ReceiptTyped ==
  ASSUME NEW c \in Contents, NEW by \in {"controller", "operator"}, NEW o \in Operations \union {0}, NEW k \in 0 .. 2
  PROVE  /\ ReceiptFor(c, by, o, k) \in Receipt /\ ReceiptFor(c, by, o, k) # NoFulfillment
         /\ ReceiptFor(c, by, o, k).content = c /\ ReceiptFor(c, by, o, k).by = by
         /\ ReceiptFor(c, by, o, k).op = o /\ ReceiptFor(c, by, o, k).core = k
BY DEF ReceiptFor, Receipt, NoFulfillment

\* What the validity of a receipt is changes nothing else about it.
LEMMA ValidOnly ==
  ASSUME NEW r \in Receipt, NEW v \in BOOLEAN
  PROVE  /\ [r EXCEPT !.valid = v] \in Receipt
         /\ [r EXCEPT !.valid = v].by = r.by /\ [r EXCEPT !.valid = v].op = r.op
         /\ [r EXCEPT !.valid = v].core = r.core /\ [r EXCEPT !.valid = v].content = r.content
BY DEF Receipt

\* The invariant holds at first.
LEMMA FulfillInitInv == FulfillInit => FulfillInv
<1> SUFFICES ASSUME FulfillInit PROVE FulfillInv OBVIOUS
<1>1. FulfillType
 <2>1. ReceiptFor(1, "controller", 0, 0) \in Receipt BY ReceiptTyped, FulfillmentBounds
 <2>2. asked \in [FulfilledAsks -> [status : {"open", "answered"}, content : Contents]]
  BY FulfillmentBounds DEF FulfillInit
 <2>3. fulfilled \in [FulfilledAsks -> Receipt] BY <2>1, NullsTyped DEF FulfillInit
 <2>4. DOMAIN checking = {} /\ projected \in BOOLEAN BY DEF FulfillInit
 <2>5. versions \in [FulfilledAsks -> Int] /\ dirty \in [FulfilledAsks -> Int] /\ writes \in Nat BY DEF FulfillInit
 <2>6. stamped \in [FulfilledAsks -> StampType] /\ offer \in [Intents -> OfferType] BY NullsTyped DEF FulfillInit
 <2> QED BY <2>2, <2>3, <2>4, <2>5, <2>6 DEF FulfillType
<1>2. Stamps BY DEF FulfillInit, Stamps
<1>3. \A a \in FulfilledAsks : fulfilled[a].by # "operator" /\ fulfilled[a].op = 0 /\ fulfilled[a].core = 0
 BY ReceiptTyped, FulfillmentBounds DEF FulfillInit, NoFulfillment
<1>4. Offers BY <1>3, NullsTyped DEF FulfillInit, Offers, Consumed
<1>5. OperationsAgree BY <1>3 DEF OperationsAgree
<1> QED BY <1>1, <1>2, <1>4, <1>5 DEF FulfillInv

------------------------------
\* The migration marks every receipt for verification: nothing is stamped or checked yet.
LEMMA MigrateStep == FulfillInv /\ Migrate => FulfillInv'
<1> SUFFICES ASSUME FulfillInv, Migrate PROVE FulfillInv' OBVIOUS
<1> USE DEF FulfillInv
<1>1. /\ fulfilled' \in [FulfilledAsks -> Receipt]
      /\ \A a \in FulfilledAsks :
            /\ fulfilled'[a].by = fulfilled[a].by /\ fulfilled'[a].op = fulfilled[a].op
            /\ fulfilled'[a].core = fulfilled[a].core /\ (Protected(a)' <=> Protected(a))
 BY ValidOnly DEF Migrate, FulfillType, Protected
<1>2. FulfillType' BY <1>1 DEF Migrate, FulfillType
<1>3. Stamps' BY <1>1, NullsTyped DEF Migrate, FulfillType, Stamps, FindingTrue, Protected
<1>4. Offers' BY <1>1, NullsTyped DEF Migrate, Offers, Consumed, Protected
<1>5. OperationsAgree' BY <1>1 DEF OperationsAgree
<1> QED BY <1>2, <1>3, <1>4, <1>5

\* Retiring the pending notices of an ask changes no other status.
LEMMA Retiring ==
  ASSUME FulfillType, NEW a \in FulfilledAsks, NEW w
  PROVE  LET f == RetirePending(a, w) IN
         /\ f \in [Intents -> OfferType]
         /\ \A i \in Intents :
               /\ f[i].ask = offer[i].ask
               /\ f[i].status = IF offer[i].ask = a /\ offer[i].status = "pending" /\ i # w
                                THEN "retired" ELSE offer[i].status
<1>1. \A i \in Intents : offer[i] \in OfferType BY DEF FulfillType
<1>2. \A x \in OfferType : /\ [x EXCEPT !.status = "retired"] \in OfferType
                           /\ [x EXCEPT !.status = "retired"].ask = x.ask
                           /\ [x EXCEPT !.status = "retired"].status = "retired" BY DEF OfferType
<1> QED BY <1>1, <1>2 DEF RetirePending

\* A write by whatever daemon raises the generation of a receipt's ask and takes its stamp away.
LEMMA WriteStep ==
  ASSUME FulfillInv, NEW a \in FulfilledAsks, NEW st \in {"open", "answered"}, NEW c \in Contents,
    NEW older \in BOOLEAN, AskWritten(a, st, c, older)
  PROVE  FulfillInv'
<1> USE DEF FulfillInv
<1>1. /\ fulfilled' \in [FulfilledAsks -> Receipt]
      /\ \A b \in FulfilledAsks :
            /\ fulfilled'[b].by = fulfilled[b].by /\ fulfilled'[b].op = fulfilled[b].op
            /\ fulfilled'[b].core = fulfilled[b].core /\ fulfilled'[b].content = fulfilled[b].content
            /\ (Protected(b)' <=> Protected(b))
 <2>1. \/ fulfilled' = fulfilled
       \/ fulfilled' = [fulfilled EXCEPT ![a] = [fulfilled[a] EXCEPT !.valid = FALSE]] BY DEF AskWritten, Bump
 <2>2. fulfilled \in [FulfilledAsks -> Receipt] /\ FALSE \in BOOLEAN BY DEF FulfillType
 <2> DEFINE r == [fulfilled[a] EXCEPT !.valid = FALSE]
 <2>3. /\ r \in Receipt /\ r.by = fulfilled[a].by /\ r.op = fulfilled[a].op
       /\ r.core = fulfilled[a].core /\ r.content = fulfilled[a].content BY <2>2, ValidOnly
 <2>4. fulfilled' = fulfilled \/ fulfilled' = [fulfilled EXCEPT ![a] = r] BY <2>1
 <2> HIDE DEF r
 <2> QED BY <2>2, <2>3, <2>4 DEF Protected
<1>2. FulfillType'
 <2>1. asked' \in [FulfilledAsks -> [status : {"open", "answered"}, content : Contents]] /\ writes' \in Nat
  BY DEF AskWritten, FulfillType
 <2>2. versions' \in [FulfilledAsks -> Int] /\ dirty' \in [FulfilledAsks -> Int] BY DEF AskWritten, Bump, FulfillType
 <2>3. stamped' \in [FulfilledAsks -> StampType] BY NullsTyped DEF AskWritten, Bump, FulfillType
 <2>4. offer' \in [Intents -> OfferType] BY Retiring DEF AskWritten, FulfillType
 <2> QED BY <1>1, <2>1, <2>2, <2>3, <2>4 DEF AskWritten, FulfillType
<1>3. Stamps'
 <2>1. \A b \in FulfilledAsks \ {a} : asked'[b] = asked[b] /\ versions'[b] = versions[b] /\ stamped'[b] = stamped[b]
  BY DEF AskWritten, Bump, FulfillType
 <2>2. CASE projected /\ Protected(a)
  <3>1. versions'[a] = versions[a] + 1 /\ stamped'[a] = NoStamp /\ versions[a] \in Int /\ versions[a] >= 0
   BY <2>2 DEF AskWritten, Bump, FulfillType, Stamps
  <3>2. \A b \in DOMAIN checking : checking[b].gen \in Int BY DEF FulfillType, StampType
  <3> QED BY <1>1, <2>1, <2>2, <3>1, <3>2, NullsTyped DEF AskWritten, Stamps, FindingTrue, Binds, FulfillType
 <2>3. CASE ~(projected /\ Protected(a))
  BY <1>1, <2>1, <2>3 DEF AskWritten, Bump, Stamps, FindingTrue, Binds, FulfillType
 <2> QED BY <2>2, <2>3
<1>4. Offers'
 <2>1. \A i \in Intents : /\ offer'[i].ask = offer[i].ask
                         /\ \/ offer'[i].status = offer[i].status
                            \/ offer[i].status = "pending" /\ offer'[i].status = "retired"
  BY Retiring DEF AskWritten
 <2>2. \A b \in FulfilledAsks : Consumed(b)' = Consumed(b) BY <2>1, Zenon DEF Consumed
 <2>3. projected' = projected /\ (~projected => \A i \in Intents : offer'[i] = NoOffer)
  BY NullsTyped DEF AskWritten, RetirePending, Offers
 <2>4. \A b \in FulfilledAsks : fulfilled'[b].by = fulfilled[b].by BY <1>1
 <2> QED BY <1>1, <2>1, <2>2, <2>3, <2>4 DEF Offers
<1>5. OperationsAgree' BY <1>1 DEF OperationsAgree
<1> QED BY <1>2, <1>3, <1>4, <1>5

------------------------------
\* A receipt is for an ask without one that it binds, and takes over: its stamp is of
\* the generation it begins, and no notice of the ask stays pending.
LEMMA CommitStep ==
  ASSUME FulfillInv, NEW a \in FulfilledAsks, NEW c \in Contents, NEW by \in {"controller", "operator"},
    NEW o \in Operations \union {0}, NEW k \in 0 .. 2,
    ~Protected(a), Binds(a, c), CommitReceipt(a, ReceiptFor(c, by, o, k)),
    UNCHANGED <<asked, projected, checking, writes>>
  PROVE  /\ Stamps' /\ projected'
         /\ offer' \in [Intents -> OfferType] => FulfillType'
         /\ Protected(a)' /\ fulfilled'[a].by = by /\ fulfilled'[a].op = o /\ fulfilled'[a].core = k
         /\ \A b \in FulfilledAsks \ {a} : fulfilled'[b] = fulfilled[b]
<1> DEFINE r == ReceiptFor(c, by, o, k)
<1> USE DEF FulfillInv
<1>1. r \in Receipt /\ r.content = c /\ r.by = by /\ r.op = o /\ r.core = k BY ReceiptTyped
<1>2. fulfilled' = [fulfilled EXCEPT ![a] = r] /\ projected BY DEF CommitReceipt
<1> HIDE DEF r
<1>3. /\ fulfilled' \in [FulfilledAsks -> Receipt] /\ fulfilled'[a] = r
      /\ \A b \in FulfilledAsks \ {a} : fulfilled'[b] = fulfilled[b] BY <1>1, <1>2 DEF FulfillType
<1>4. /\ versions' \in [FulfilledAsks -> Int] /\ versions[a] = -1 /\ versions'[a] = 0
      /\ \A b \in FulfilledAsks \ {a} : versions'[b] = versions[b] /\ stamped'[b] = stamped[b]
      /\ stamped'[a] = StampCurrent(0)
      /\ stamped' \in [FulfilledAsks -> StampType] /\ dirty' \in [FulfilledAsks -> Int]
 <2>1. versions[a] = -1 BY DEF Stamps
 <2>2. StampCurrent(0) \in StampType BY DEF StampCurrent, StampType
 <2> QED BY <2>1, <2>2 DEF CommitReceipt, FulfillType
<1>5. offer' \in [Intents -> OfferType] => FulfillType' BY <1>3, <1>4 DEF FulfillType
<1>6. Stamps'
 <2>1. a \notin DOMAIN checking BY DEF Stamps
 <2>2. FindingTrue(a, stamped[a])' /\ Protected(a)'
  BY <1>1, <1>3, <1>4 DEF FindingTrue, StampCurrent, Binds, Protected
 <2> QED BY <1>2, <1>3, <1>4, <2>1, <2>2 DEF Stamps, FindingTrue, Binds, Protected, FulfillType
<1> QED BY <1>1, <1>2, <1>3, <1>5, <1>6 DEF Protected

\* Applying an operation keeps the invariant (Lifecycle.apply).
LEMMA ApplyStep ==
  ASSUME FulfillInv, NEW a \in FulfilledAsks, NEW c \in Contents, NEW o \in Operations, NEW k \in {1, 2},
    NEW f \in ReceiptFlaws, Apply(a, c, o, k, f)
  PROVE  FulfillInv'
<1>1. /\ Stamps' /\ projected' /\ Protected(a)'
      /\ offer' \in [Intents -> OfferType] => FulfillType'
      /\ fulfilled'[a].by = "controller" /\ fulfilled'[a].op = o /\ fulfilled'[a].core = k
      /\ \A b \in FulfilledAsks \ {a} : fulfilled'[b] = fulfilled[b] BY CommitStep DEF Apply
<1>2. /\ offer' \in [Intents -> OfferType]
      /\ \A i \in Intents :
            /\ offer'[i].ask = offer[i].ask
            /\ offer'[i].status = IF offer[i].ask = a /\ offer[i].status = "pending" THEN "retired" ELSE offer[i].status
 BY Retiring, FulfillmentBounds DEF FulfillInv, Apply
<1>3. fulfilled[a].by = "none" /\ projected BY DEF Apply, Protected, CommitReceipt
<1>4. Offers'
 <2>1. \A b \in FulfilledAsks : Consumed(b)' = Consumed(b) BY <1>2 DEF Consumed
 <2> QED BY <1>1, <1>2, <1>3, <2>1 DEF FulfillInv, Offers, Protected
<1>5. OperationsAgree'
 <2>1. \A b \in FulfilledAsks : fulfilled[b].op = o => fulfilled[b].core = k BY DEF Apply, OperationAgrees
 <2> QED BY <1>1, <2>1 DEF FulfillInv, OperationsAgree
<1> QED BY <1>1, <1>2, <1>4, <1>5 DEF FulfillInv

\* Confirming a notice keeps it (Lifecycle.confirm).
LEMMA ConfirmStep ==
  ASSUME FulfillInv, NEW i \in Intents, Confirm(i)
  PROVE  FulfillInv'
<1>0. offer[i].ask \in FulfilledAsks BY DEF Confirm, FulfillInv, Offers
<1> PICK a \in FulfilledAsks : a = offer[i].ask BY <1>0
<1>1. /\ offer[i].status = "pending" /\ ~Protected(a) /\ Binds(a, offer[i].content)
      /\ CommitReceipt(a, ReceiptFor(offer[i].content, "operator", 0, 0))
      /\ UNCHANGED <<asked, projected, checking, writes>>
      /\ offer' = [RetirePending(a, i) EXCEPT ![i].status = "consumed"] BY DEF Confirm
<1>2. PICK c \in Contents : c = offer[i].content BY <1>1 DEF Binds, FulfillInv, FulfillType
<1>3. /\ Stamps' /\ projected' /\ Protected(a)'
      /\ offer' \in [Intents -> OfferType] => FulfillType'
      /\ fulfilled'[a].by = "operator" /\ fulfilled'[a].op = 0
      /\ \A b \in FulfilledAsks \ {a} : fulfilled'[b] = fulfilled[b]
 <2>1. Binds(a, c) /\ CommitReceipt(a, ReceiptFor(c, "operator", 0, 0)) BY <1>1, <1>2
 <2>2. 0 \in Operations \union {0} /\ 0 \in 0 .. 2 OBVIOUS
 <2> QED BY <1>1, <2>1, <2>2, CommitStep
<1>4. /\ offer' \in [Intents -> OfferType]
      /\ \A j \in Intents :
            /\ offer'[j].ask = offer[j].ask
            /\ offer'[j].status = IF j = i THEN "consumed"
                                  ELSE IF offer[j].ask = a /\ offer[j].status = "pending" THEN "retired"
                                  ELSE offer[j].status
 <2> DEFINE f == RetirePending(a, i)
 <2>1. /\ f \in [Intents -> OfferType]
       /\ \A j \in Intents :
              /\ f[j].ask = offer[j].ask
              /\ f[j].status = IF offer[j].ask = a /\ offer[j].status = "pending" /\ j # i
                               THEN "retired" ELSE offer[j].status BY <1>1, Retiring DEF FulfillInv
 <2>2. offer' = [f EXCEPT ![i] = [f[i] EXCEPT !.status = "consumed"]] BY <1>1
 <2>3. \A x \in OfferType : /\ [x EXCEPT !.status = "consumed"] \in OfferType
                            /\ [x EXCEPT !.status = "consumed"].ask = x.ask
                            /\ [x EXCEPT !.status = "consumed"].status = "consumed" BY DEF OfferType
 <2> HIDE DEF f
 <2> QED BY <2>1, <2>2, <2>3
<1>5. Offers'
 <2>1. Consumed(a) = {} BY <1>1 DEF FulfillInv, Offers, Protected
 <2>2. Consumed(a)' = {i} BY <1>1, <1>4, <2>1 DEF Consumed
 <2>3. \A b \in FulfilledAsks \ {a} : Consumed(b)' = Consumed(b) BY <1>1, <1>4 DEF Consumed
 <2>4. \A b \in FulfilledAsks : fulfilled'[b].by = "operator" => \E j \in Intents : Consumed(b)' = {j}
  BY <1>3, <2>2, <2>3 DEF FulfillInv, Offers
 <2>5. \A b \in FulfilledAsks : fulfilled'[b].by # "operator" => Consumed(b)' = {}
  BY <1>3, <2>2, <2>3 DEF FulfillInv, Offers
 <2>6. projected BY <1>1 DEF CommitReceipt
 <2>7. \A j \in Intents, b \in FulfilledAsks :
          Protected(b)' /\ offer'[j].ask = b => offer'[j].status # "pending"
  BY <1>3, <1>4, <2>6 DEF FulfillInv, Offers, Protected
 <2>8. \A j \in Intents : offer'[j].status \in {"pending", "consumed"} => offer'[j].ask \in FulfilledAsks
  BY <1>4 DEF FulfillInv, Offers
 <2> QED BY <1>3, <2>4, <2>5, <2>7, <2>8 DEF Offers
<1>6. OperationsAgree' BY <1>3 DEF FulfillInv, OperationsAgree
<1> QED BY <1>3, <1>4, <1>5, <1>6 DEF FulfillInv

------------------------------
\* Steps that change only the notices: the stamps and receipts stand, and what has to
\* be shown is that no notice becomes pending beside a receipt.
LEMMA NoticesStep ==
  ASSUME FulfillInv, UNCHANGED <<asked, fulfilled, projected, versions, stamped, dirty, checking, writes>>,
    offer' \in [Intents -> OfferType],
    projected,
    \A j \in Intents : \/ offer'[j].ask = offer[j].ask /\ offer'[j].status = offer[j].status
                       \/ /\ offer[j].status = "pending" /\ offer'[j].status = "retired"
                          /\ offer'[j].ask = offer[j].ask
                       \/ /\ offer[j] = NoOffer /\ offer'[j].status = "pending"
                          /\ offer'[j].ask \in FulfilledAsks /\ ~Protected(offer'[j].ask)
  PROVE  FulfillInv'
<1>1. FulfillType' BY DEF FulfillInv, FulfillType
<1>2. Stamps' BY DEF FulfillInv, Stamps, FindingTrue, Protected, Binds
<1>3. \A b \in FulfilledAsks : Consumed(b)' = Consumed(b) BY NullsTyped DEF Consumed
<1>4. Offers'
 <2>1. \A b \in FulfilledAsks : fulfilled'[b].by = "operator" => \E j \in Intents : Consumed(b)' = {j}
  BY <1>3 DEF FulfillInv, Offers
 <2>2. \A b \in FulfilledAsks : fulfilled'[b].by # "operator" => Consumed(b)' = {} BY <1>3 DEF FulfillInv, Offers
 <2>3. \A j \in Intents, b \in FulfilledAsks :
          Protected(b)' /\ offer'[j].ask = b => offer'[j].status # "pending" BY DEF FulfillInv, Offers, Protected
 <2>4. \A j \in Intents : offer'[j].status \in {"pending", "consumed"} => offer'[j].ask \in FulfilledAsks
  BY DEF FulfillInv, Offers
 <2> QED BY <2>1, <2>2, <2>3, <2>4 DEF Offers
<1>5. OperationsAgree' BY DEF FulfillInv, OperationsAgree
<1> QED BY <1>1, <1>2, <1>4, <1>5 DEF FulfillInv

\* A proposed notice keeps it.
LEMMA ProposeStep ==
  ASSUME FulfillInv, NEW i \in Intents, NEW a \in FulfilledAsks, NEW c \in Contents, NEW w \in Intents \union {0},
    NEW f \in ReceiptFlaws, Propose(i, a, c, w, f)
  PROVE  FulfillInv'
<1> DEFINE new == [ask |-> a, content |-> c, status |-> "pending", note |-> "pending"]
           old(j) == [offer[j] EXCEPT !.status = "retired"]
<1>1. offer' = [j \in Intents |-> IF j = i THEN new ELSE IF j = w THEN old(j) ELSE offer[j]] BY DEF Propose
<1>2. new \in OfferType /\ new.ask = a /\ new.status = "pending" BY DEF OfferType
<1>3. \A j \in Intents : offer[j] \in OfferType BY DEF FulfillInv, FulfillType
<1>4. \A j \in Intents : old(j) \in OfferType /\ old(j).ask = offer[j].ask /\ old(j).status = "retired"
 BY <1>3 DEF OfferType
<1>5. /\ offer[i] = NoOffer /\ projected /\ ~Protected(a)
      /\ w \in Intents => offer[w].status = "pending" BY FulfillmentBounds DEF Propose, PendingOf
<1>6. UNCHANGED <<asked, fulfilled, projected, versions, stamped, dirty, checking, writes>> BY DEF Propose
<1> HIDE DEF new, old
<1>7. offer' \in [Intents -> OfferType] BY <1>1, <1>2, <1>3, <1>4
<1>8. \A j \in Intents : \/ offer'[j].ask = offer[j].ask /\ offer'[j].status = offer[j].status
                         \/ /\ offer[j].status = "pending" /\ offer'[j].status = "retired"
                            /\ offer'[j].ask = offer[j].ask
                         \/ /\ offer[j] = NoOffer /\ offer'[j].status = "pending"
                            /\ offer'[j].ask \in FulfilledAsks /\ ~Protected(offer'[j].ask)
 BY <1>1, <1>2, <1>4, <1>5
<1> QED BY <1>5, <1>6, <1>7, <1>8, NoticesStep

\* A disposed notice keeps it.
LEMMA DisposeStep ==
  ASSUME FulfillInv, NEW i \in Intents, Dispose(i)
  PROVE  FulfillInv'
<1> DEFINE old == [offer[i] EXCEPT !.status = "retired"]
<1>1. offer' = [offer EXCEPT ![i] = old] BY DEF Dispose
<1>2. offer \in [Intents -> OfferType] /\ offer[i].status = "pending" BY DEF FulfillInv, FulfillType, Dispose
<1>3. old \in OfferType /\ old.ask = offer[i].ask /\ old.status = "retired" BY <1>2 DEF OfferType
<1>4. UNCHANGED <<asked, fulfilled, projected, versions, stamped, dirty, checking, writes>> BY DEF Dispose
<1>5. projected BY <1>2, NullsTyped DEF FulfillInv, FulfillType, Offers
<1> HIDE DEF old
<1>6. offer' \in [Intents -> OfferType] BY <1>1, <1>2, <1>3
<1> QED BY <1>1, <1>2, <1>3, <1>4, <1>5, <1>6, NoticesStep

\* A notice that only changes its state keeps it.
LEMMA NoticeStateStep ==
  ASSUME FulfillInv, NEW i \in Intents, NEW n \in {"delivered", "suppressed", "unavailable", "expired"},
    NoticeState(i, n)
  PROVE  FulfillInv'
<1> DEFINE next == [offer[i] EXCEPT !.note = n]
<1>1. offer' = [offer EXCEPT ![i] = next] BY DEF NoticeState
<1>2. offer \in [Intents -> OfferType] /\ offer[i].ask # 0 BY DEF FulfillInv, FulfillType, NoticeState
<1>3. next \in OfferType /\ next.ask = offer[i].ask /\ next.status = offer[i].status BY <1>2 DEF OfferType
<1>4. UNCHANGED <<asked, fulfilled, projected, versions, stamped, dirty, checking, writes>> BY DEF NoticeState
<1>5. projected BY <1>2 DEF FulfillInv, FulfillType, Offers, NoOffer
<1> HIDE DEF next
<1>6. offer' \in [Intents -> OfferType] BY <1>1, <1>2, <1>3
<1> QED BY <1>1, <1>2, <1>3, <1>4, <1>5, <1>6, NoticesStep

------------------------------
\* A pass reads generation and verdict in one snapshot, so what it found is true.
LEMMA VerifyReadsStep ==
  ASSUME FulfillInv, NEW some \in SUBSET FulfilledAsks, VerifyReads(some)
  PROVE  FulfillInv'
<1>1. UNCHANGED <<asked, fulfilled, projected, versions, stamped, dirty, offer, writes>> BY DEF VerifyReads
<1>2. /\ projected /\ some \subseteq FulfilledAsks /\ \A a \in some : Protected(a)
      /\ checking' = [a \in some |-> [gen |-> versions[a], state |-> Verdict(a)]] BY DEF VerifyReads, ToVerify
<1>3. \A a \in FulfilledAsks :
         /\ Verdict(a) \in {"valid", "conflict", "too-large"}
         /\ Verdict(a) = "valid" => Binds(a, fulfilled[a].content)
         /\ Verdict(a) = "conflict" => ~Binds(a, fulfilled[a].content) BY DEF Verdict
<1>4. FulfillType'
 <2>1. \A a \in some : [gen |-> versions[a], state |-> Verdict(a)] \in StampType
  BY <1>2, <1>3 DEF FulfillInv, FulfillType, StampType
 <2> QED BY <1>1, <1>2, <2>1 DEF FulfillInv, FulfillType
<1>5. Stamps'
 <2>1. \A a \in some : FindingTrue(a, checking[a])'
  BY <1>1, <1>2, <1>3 DEF FindingTrue, Binds, FulfillInv, FulfillType
 <2> QED BY <1>1, <1>2, <2>1 DEF FulfillInv, Stamps, FindingTrue, Binds, Protected
<1>6. Offers' /\ OperationsAgree' BY <1>1 DEF FulfillInv, Offers, OperationsAgree, Consumed, Protected
<1> QED BY <1>4, <1>5, <1>6 DEF FulfillInv

\* The stamp of a pass is of the generation the ask has now: StillCurrent.
LEMMA VerifyWritesStep == FulfillInv /\ VerifyWrites => FulfillInv'
<1> SUFFICES ASSUME FulfillInv, VerifyWrites PROVE FulfillInv' OBVIOUS
<1> DEFINE stillTrue == {a \in DOMAIN checking : StillCurrent(a)}
           found(a) == checking[a]
           v(a) == checking[a].state = "valid"
           receipt(a) == [fulfilled[a] EXCEPT !.valid = v(a)]
<1>1. /\ UNCHANGED <<asked, projected, versions, offer, writes>>
      /\ stamped' = [a \in FulfilledAsks |-> IF a \in stillTrue THEN found(a) ELSE stamped[a]]
      /\ fulfilled' = [a \in FulfilledAsks |-> IF a \in stillTrue THEN receipt(a) ELSE fulfilled[a]]
      /\ dirty' = [a \in FulfilledAsks |-> IF a \in stillTrue THEN -1 ELSE dirty[a]]
      /\ DOMAIN checking' = {} BY DEF VerifyWrites
<1>2. \A a \in stillTrue : /\ a \in FulfilledAsks /\ a \in DOMAIN checking /\ checking[a].gen = versions[a]
                         /\ checking[a] \in StampType BY DEF FulfillInv, FulfillType, StillCurrent
<1>3. \A a \in stillTrue : found(a) \in StampType /\ found(a).gen = versions[a] /\ found(a).state = checking[a].state
 BY <1>2 DEF FulfillInv, FulfillType, StampType
<1>4. \A a \in FulfilledAsks :
          /\ receipt(a) \in Receipt /\ receipt(a).by = fulfilled[a].by /\ receipt(a).op = fulfilled[a].op
          /\ receipt(a).core = fulfilled[a].core /\ receipt(a).content = fulfilled[a].content
 <2> TAKE a \in FulfilledAsks
 <2>1. v(a) \in BOOLEAN OBVIOUS
 <2>2. fulfilled[a] \in Receipt BY DEF FulfillInv, FulfillType
 <2> HIDE DEF v
 <2> QED BY <2>1, <2>2, ValidOnly
<1> HIDE DEF stillTrue, found, receipt, v
<1>5. /\ fulfilled' \in [FulfilledAsks -> Receipt]
      /\ \A a \in FulfilledAsks :
            /\ fulfilled'[a].by = fulfilled[a].by /\ fulfilled'[a].op = fulfilled[a].op
            /\ fulfilled'[a].core = fulfilled[a].core /\ fulfilled'[a].content = fulfilled[a].content
            /\ (Protected(a)' <=> Protected(a)) BY <1>1, <1>4 DEF FulfillInv, FulfillType, Protected
<1>6. FulfillType'
 <2>1. stamped' \in [FulfilledAsks -> StampType] BY <1>1, <1>3 DEF FulfillInv, FulfillType
 <2>2. dirty' \in [FulfilledAsks -> Int] BY <1>1 DEF FulfillInv, FulfillType
 <2> QED BY <1>1, <1>5, <2>1, <2>2 DEF FulfillInv, FulfillType
<1>7. Stamps'
 <2>1. \A a \in FulfilledAsks : Binds(a, fulfilled[a].content)' <=> Binds(a, fulfilled[a].content)
  BY <1>1, <1>5 DEF Binds
 <2>2. ASSUME NEW a \in stillTrue PROVE projected' /\ Protected(a)' /\ FindingTrue(a, stamped[a])' /\ versions'[a] >= 0
  <3>1. stamped'[a] = found(a) /\ projected /\ Protected(a) /\ FindingTrue(a, checking[a]) /\ versions[a] >= 0
   BY <1>1, <1>2 DEF FulfillInv, Stamps
  <3> QED BY <1>1, <1>2, <1>3, <1>5, <2>1, <3>1 DEF FindingTrue, FulfillInv, FulfillType
 <2>3. ASSUME NEW a \in FulfilledAsks \ stillTrue
       PROVE  /\ stamped'[a] = stamped[a] /\ (Protected(a)' <=> Protected(a))
              /\ FindingTrue(a, stamped[a])' <=> FindingTrue(a, stamped[a]) BY <1>1, <1>5, <2>1 DEF FindingTrue
 <2>4. \A a \in FulfilledAsks : projected' /\ Protected(a)' => FindingTrue(a, stamped[a])' /\ versions'[a] >= 0
  BY <1>1, <2>2, <2>3 DEF FulfillInv, Stamps
 <2>5. \A a \in FulfilledAsks : ~projected' \/ ~Protected(a)' => stamped'[a] = NoStamp /\ versions'[a] = -1
  BY <1>1, <2>2, <2>3 DEF FulfillInv, Stamps
 <2> QED BY <1>1, <2>4, <2>5 DEF Stamps
<1>8. Offers' BY <1>1, <1>5 DEF FulfillInv, Offers, Consumed
<1>9. OperationsAgree' BY <1>5 DEF FulfillInv, OperationsAgree
<1> QED BY <1>6, <1>7, <1>8, <1>9 DEF FulfillInv

\* A verification whose answer is lost keeps it.
LEMMA VerifyLostStep == FulfillInv /\ VerifyLost => FulfillInv'
<1> SUFFICES ASSUME FulfillInv, VerifyLost PROVE FulfillInv' OBVIOUS
<1>1. UNCHANGED <<asked, fulfilled, projected, versions, stamped, dirty, offer, writes>> /\ DOMAIN checking' = {}
 BY DEF VerifyLost
<1>2. FulfillType' BY <1>1 DEF FulfillInv, FulfillType
<1>3. Stamps' BY <1>1 DEF FulfillInv, Stamps, FindingTrue, Binds, Protected
<1>4. Offers' /\ OperationsAgree' BY <1>1 DEF FulfillInv, Offers, OperationsAgree, Consumed, Protected
<1> QED BY <1>2, <1>3, <1>4 DEF FulfillInv

------------------------------
\* Every step, and stuttering, preserves the invariant.
LEMMA FulfillNextInv == FulfillInv /\ [FulfillNext]_fulfillVars => FulfillInv'
<1> SUFFICES ASSUME FulfillInv, [FulfillNext]_fulfillVars PROVE FulfillInv' OBVIOUS
<1>1. CASE UNCHANGED fulfillVars
 <2>1. FulfillType' BY <1>1 DEF FulfillInv, FulfillType, fulfillVars
 <2>2. Stamps' BY <1>1 DEF FulfillInv, Stamps, FindingTrue, Binds, Protected, fulfillVars
 <2>3. Offers' /\ OperationsAgree' BY <1>1 DEF FulfillInv, Offers, OperationsAgree, Consumed, Protected, fulfillVars
 <2> QED BY <2>1, <2>2, <2>3 DEF FulfillInv
<1>2. CASE FulfillNext
 <2>1. CASE Migrate BY <2>1, MigrateStep
 <2>2. CASE \E a \in FulfilledAsks, s \in {"open", "answered"}, c \in Contents, older \in BOOLEAN :
               AskWritten(a, s, c, older) BY <2>2, WriteStep
 <2>3. CASE \E a \in FulfilledAsks, c \in Contents, o \in Operations, k \in {1, 2}, f \in ReceiptFlaws :
               Apply(a, c, o, k, f) BY <2>3, ApplyStep
 <2>4. CASE \E i \in Intents :
               /\ NextIntent(i)
               /\ \E a \in FulfilledAsks, c \in Contents, r \in Intents \union {0}, f \in ReceiptFlaws :
                     Propose(i, a, c, r, f) BY <2>4, ProposeStep
 <2>5. CASE \E i \in Intents : Dispose(i) BY <2>5, DisposeStep
 <2>6. CASE \E i \in Intents, n \in {"delivered", "suppressed", "unavailable", "expired"} : NoticeState(i, n)
  BY <2>6, NoticeStateStep
 <2>7. CASE \E i \in Intents : Confirm(i) BY <2>7, ConfirmStep
 <2>8. CASE \E some \in SUBSET FulfilledAsks : VerifyReads(some) BY <2>8, VerifyReadsStep
 <2>9. CASE VerifyWrites BY <2>9, VerifyWritesStep
 <2>10. CASE VerifyLost BY <2>10, VerifyLostStep
 <2> QED BY <1>2, <2>1, <2>2, <2>3, <2>4, <2>5, <2>6, <2>7, <2>8, <2>9, <2>10 DEF FulfillNext
<1> QED BY <1>1, <1>2

\* What the invariant says of the two properties.
LEMMA FulfillInvSays == FulfillInv => SuppressedIsTrue /\ AttestedOnce
<1> SUFFICES ASSUME FulfillInv PROVE SuppressedIsTrue /\ AttestedOnce OBVIOUS
<1>1. SuppressedIsTrue
 <2> SUFFICES ASSUME NEW a \in FulfilledAsks
              PROVE  /\ Suppressed(a) \/ Lifecycle(a) = "fulfilled" => Binds(a, fulfilled[a].content)
                     /\ Lifecycle(a) = "conflict" => ~Binds(a, fulfilled[a].content) BY DEF SuppressedIsTrue
 <2>1. Suppressed(a) => Binds(a, fulfilled[a].content) BY DEF Suppressed, FulfillInv, Stamps, FindingTrue
 <2>2. Lifecycle(a) = "fulfilled" => Suppressed(a) BY DEF Lifecycle
 <2>3. Lifecycle(a) = "conflict" =>
          projected /\ Protected(a) /\ stamped[a] = [gen |-> versions[a], state |-> "conflict"] BY DEF Lifecycle
 <2>4. Lifecycle(a) = "conflict" => ~Binds(a, fulfilled[a].content) BY <2>3 DEF FulfillInv, Stamps, FindingTrue
 <2> QED BY <2>1, <2>2, <2>4
<1>2. AttestedOnce
 <2>1. \A a \in FulfilledAsks : projected /\ Protected(a) => PendingOf(a) = {} BY DEF PendingOf, FulfillInv, Offers
 <2>2. ASSUME NEW a \in FulfilledAsks
       PROVE  Cardinality({i \in Intents : offer[i].ask = a /\ offer[i].status = "consumed"})
                 = IF fulfilled[a].by = "operator" THEN 1 ELSE 0
  <3>1. CASE fulfilled[a].by = "operator"
   <4>1. PICK i \in Intents : Consumed(a) = {i} BY <3>1 DEF FulfillInv, Offers
   <4>2. Cardinality(Consumed(a)) = 1 BY <4>1, FS_Singleton
   <4> QED BY <3>1, <4>2 DEF Consumed
  <3>2. CASE fulfilled[a].by # "operator"
   <4>1. Consumed(a) = {} BY <3>2 DEF FulfillInv, Offers
   <4>2. Cardinality(Consumed(a)) = 0 BY <4>1, FS_EmptySet
   <4> QED BY <3>2, <4>2 DEF Consumed
  <3> QED BY <3>1, <3>2
 <2> QED BY <2>1, <2>2 DEF AttestedOnce, FulfillInv, OperationsAgree
<1> QED BY <1>1, <1>2

------------------------------
\* An ask is off the capacity, or reported fulfilled or in conflict, only truthfully
\* (SUPPRESSED, Lifecycle.view), whatever other daemons write meanwhile.
THEOREM FulfilmentIsTrue == FulfillSpec => []SuppressedIsTrue
<1>1. FulfillSpec => []FulfillInv BY FulfillInitInv, FulfillNextInv, PTL DEF FulfillSpec
<1> QED BY <1>1, FulfillInvSays, PTL

\* Work is attested once (Lifecycle.commit, Lifecycle.confirm): one receipt, from one
\* controller's operation or one consumed notice, and no notice pending beside it.
THEOREM WorkAttestedOnce == FulfillSpec => []AttestedOnce
<1>1. FulfillSpec => []FulfillInv BY FulfillInitInv, FulfillNextInv, PTL DEF FulfillSpec
<1> QED BY <1>1, FulfillInvSays, PTL

------------------------------
(* GatewayCustody: a refusal holds, and the published chain of permits is whole. *)

CommandType == [act : {"none", "settle", "decline", "revoke"}, out : {"none", "consented", "revoked", "held"}]
Bundle == [state : {"none", "awaiting-consent", "consented", "revoked"}, policy : Nat,
           commands : [CommandIds -> CommandType], conflicts : SUBSET Acts, permits : Nat]
CmdCallType == [at : {"idle", "observe", "retain"}, p : Resolutions \union {0}, mid : CommandIds \union {0},
                act : {"none", "settle", "decline", "revoke"}, mapped : BOOLEAN, seen : Bundle, policy : Nat]
IssCallType == [at : {"idle", "commit", "tomb", "generation", "pointer"}, p : Resolutions \union {0},
                gen : Nat, complete : BOOLEAN, seen : Bundle, policy : Nat]
FilesType == [gens : SUBSET Nat, tombs : SUBSET Nat, cur : Nat]
ConsumerType == [used : SUBSET Nat, certs : SUBSET Nat]

CustodyType ==
    /\ bundle \in [Resolutions -> Bundle]
    /\ delivery \in [Resolutions -> {"none", "pending", "sent", "unknown"}]
    /\ cfiles \in [Resolutions -> FilesType]
    /\ consumer \in [Resolutions -> ConsumerType]
    /\ authorityOf \in Nat
    /\ cmdCall \in CmdCallType
    /\ issCall \in IssCallType
    /\ refusedAt \in [Resolutions -> Int]
    /\ cfaults \in Nat

\* What the calls under way know: a command is about a registered proposal, and a
\* permit call holds the certificate for the generation before the one it publishes.
CommandKnows ==
    cmdCall.at # "idle" =>
        /\ cmdCall.p \in Resolutions /\ cmdCall.mid \in CommandIds /\ cmdCall.act \in Acts
        /\ bundle[cmdCall.p].state # "none"
IssueKnows ==
    issCall.at # "idle" =>
        LET p == issCall.p
            g == issCall.gen
        IN /\ p \in Resolutions /\ g >= 1
           /\ issCall.at = "commit" => issCall.seen.state = "consented" /\ issCall.seen.permits <= g
           /\ ~issCall.complete /\ g > 1 => g - 1 \in consumer[p].certs
           /\ issCall.at # "commit" => bundle[p].permits = g /\ ~issCall.complete
           /\ issCall.at \in {"generation", "pointer"} /\ g > 1 => g - 1 \in cfiles[p].tombs
           /\ issCall.at = "pointer" => g \in cfiles[p].gens

\* The queue certifies only what was published, with everything before it.
CertifiedIsWhole ==
    \A p \in Resolutions : \A g \in consumer[p].certs : g >= 1 /\ 1..g \subseteq cfiles[p].gens

CustodyInv == CustodyType /\ CommandKnows /\ IssueKnows /\ CertifiedIsWhole /\ RefusalHolds /\ ChainWhole

------------------------------
\* Facts that hold for every value of the constants.
LEMMA CustodyNulls ==
  /\ NoBundle \in Bundle /\ NoBundle.state = "none" /\ NoBundle.permits = 0
  /\ NoCmdCall \in CmdCallType /\ NoCmdCall.at = "idle"
  /\ NoIssCall \in IssCallType /\ NoIssCall.at = "idle"
<1>1. NoCommand \in CommandType BY DEF NoCommand, CommandType
<1>2. NoBundle \in Bundle BY <1>1 DEF NoBundle, Bundle
<1>3. NoBundle.state = "none" /\ NoBundle.permits = 0 BY DEF NoBundle
<1> HIDE DEF NoBundle
<1>4. NoCmdCall \in CmdCallType /\ NoIssCall \in IssCallType
 BY <1>2 DEF NoCmdCall, NoIssCall, CmdCallType, IssCallType
<1>5. NoCmdCall.at = "idle" /\ NoIssCall.at = "idle" BY DEF NoCmdCall, NoIssCall
<1> QED BY <1>2, <1>3, <1>4, <1>5

\* A command ends a consent when it is contrary, and never takes a refusal back.
LEMMA AfterSays ==
  ASSUME NEW row \in Bundle, NEW call \in CmdCallType, call.act \in Acts, row.state # "none"
  PROVE  /\ After(row, call).state \in {"awaiting-consent", "consented", "revoked"}
         /\ After(row, call).out \in {"consented", "revoked", "held"}
         /\ row.state = "revoked" => After(row, call).state = "revoked"
         /\ Contrary(row, call) => After(row, call).state = "revoked"
BY DEF After, Contrary, Bundle, CmdCallType, Acts

\* What a recorded command leaves in the register (_retain_command).
LEMMA RecordSays ==
  ASSUME NEW row \in Bundle, NEW call \in CmdCallType, call.act \in Acts, call.mid \in CommandIds, row.state # "none"
  PROVE  /\ RecordCommand(row, call) \in Bundle
         /\ RecordCommand(row, call).state = After(row, call).state
         /\ RecordCommand(row, call).permits = row.permits
<1> DEFINE a == After(row, call)
           po == IF row.state = "awaiting-consent" /\ a.state = "consented" THEN call.policy ELSE row.policy
           co == IF a.conflict THEN row.commands
                 ELSE [row.commands EXCEPT ![call.mid] = [act |-> call.act, out |-> a.out]]
           cf == IF a.conflict THEN row.conflicts \union {call.act} ELSE row.conflicts
<1>1. /\ row.policy \in Nat /\ row.commands \in [CommandIds -> CommandType] /\ row.conflicts \in SUBSET Acts
      /\ row.permits \in Nat /\ call.policy \in Nat BY DEF Bundle, CmdCallType
<1>2. a.state \in {"awaiting-consent", "consented", "revoked"} /\ a.out \in {"consented", "revoked", "held"}
 BY AfterSays
<1>3. RecordCommand(row, call) = [state |-> a.state, policy |-> po, commands |-> co, conflicts |-> cf,
                                  permits |-> row.permits] BY DEF RecordCommand
<1> HIDE DEF a
<1>4. po \in Nat /\ cf \in SUBSET Acts BY <1>1
<1>5. co \in [CommandIds -> CommandType]
 <2>1. [act |-> call.act, out |-> a.out] \in CommandType BY <1>2 DEF CommandType, Acts
 <2> QED BY <1>1, <2>1
<1> HIDE DEF po, co, cf
<1>6. RecordCommand(row, call) \in Bundle BY <1>1, <1>2, <1>3, <1>4, <1>5 DEF Bundle
<1> QED BY <1>3, <1>6 DEF a

\* A held state is revoked by any contrary command, and keeps its permits.
LEMMA HeldSays ==
  ASSUME NEW row \in Bundle, NEW call, row.state # "none"
  PROVE  /\ HeldState(row, call) \in Bundle /\ HeldState(row, call).permits = row.permits
         /\ HeldState(row, call).state # "none"
         /\ Contrary(row, call) \/ row.state = "revoked" => HeldState(row, call).state = "revoked"
<1> DEFINE st == IF Contrary(row, call) /\ row.state \in {"awaiting-consent", "consented"}
                 THEN "revoked" ELSE row.state
<1>1. HeldState(row, call) = [row EXCEPT !.state = st] BY DEF HeldState
<1>2. /\ st \in {"awaiting-consent", "consented", "revoked"}
      /\ Contrary(row, call) \/ row.state = "revoked" => st = "revoked" BY DEF Bundle
<1> HIDE DEF st
<1> QED BY <1>1, <1>2 DEF Bundle

\* The invariant holds at first.
LEMMA CustodyInitInv == CustodyInit => CustodyInv
<1> SUFFICES ASSUME CustodyInit PROVE CustodyInv OBVIOUS
<1>1. CustodyType
 <2>1. bundle \in [Resolutions -> Bundle] /\ cmdCall \in CmdCallType /\ issCall \in IssCallType
  BY CustodyNulls DEF CustodyInit
 <2>2. delivery \in [Resolutions -> {"none", "pending", "sent", "unknown"}] /\ authorityOf \in Nat /\ cfaults \in Nat
  BY DEF CustodyInit
 <2>3. cfiles \in [Resolutions -> FilesType] /\ consumer \in [Resolutions -> ConsumerType]
  BY DEF CustodyInit, FilesType, ConsumerType
 <2>4. refusedAt \in [Resolutions -> Int] BY DEF CustodyInit
 <2> QED BY <2>1, <2>2, <2>3, <2>4 DEF CustodyType
<1>2. CommandKnows /\ IssueKnows BY CustodyNulls DEF CustodyInit, CommandKnows, IssueKnows
<1>3. CertifiedIsWhole /\ RefusalHolds /\ ChainWhole BY DEF CustodyInit, CertifiedIsWhole, RefusalHolds, ChainWhole
<1> QED BY <1>1, <1>2, <1>3 DEF CustodyInv

------------------------------
\* A resolution that is registered keeps the invariant (RegisterResolution).
LEMMA ResolutionStep ==
  ASSUME CustodyInv, NEW p \in Resolutions, NEW f \in CustodyFlaws, RegisterResolution(p, f)
  PROVE  CustodyInv'
<1> DEFINE row == [bundle[p] EXCEPT !.state = "awaiting-consent"]
<1>1. /\ bundle[p].state = "none" /\ bundle' = [bundle EXCEPT ![p] = row]
      /\ delivery' = [delivery EXCEPT ![p] = "pending"]
      /\ UNCHANGED <<cfiles, consumer, authorityOf, cmdCall, issCall, refusedAt, cfaults>> BY DEF RegisterResolution
<1>2. bundle \in [Resolutions -> Bundle] BY DEF CustodyInv, CustodyType
<1>3. row \in Bundle /\ row.state = "awaiting-consent" /\ row.permits = bundle[p].permits BY <1>2 DEF Bundle
<1> HIDE DEF row
<1>4. /\ bundle' \in [Resolutions -> Bundle]
      /\ \A q \in Resolutions : bundle'[q].permits = bundle[q].permits
      /\ \A q \in Resolutions : bundle[q].state # "none" => bundle'[q] = bundle[q] BY <1>1, <1>2, <1>3
<1>5. CustodyType' BY <1>1, <1>4 DEF CustodyInv, CustodyType
<1>6. CommandKnows' /\ IssueKnows' BY <1>1, <1>4 DEF CustodyInv, CommandKnows, IssueKnows
<1>7. CertifiedIsWhole' /\ ChainWhole' /\ RefusalHolds'
 BY <1>1, <1>4 DEF CustodyInv, CertifiedIsWhole, ChainWhole, RefusalHolds
<1> QED BY <1>5, <1>6, <1>7 DEF CustodyInv

\* Steps that change only the delivery, the authority, the faults or end the calls.
LEMMA QuietStep ==
  ASSUME CustodyInv, CustodyType', UNCHANGED <<bundle, cfiles, consumer, refusedAt>>,
    cmdCall' \in {cmdCall, NoCmdCall}, issCall' \in {issCall, NoIssCall}
  PROVE  CustodyInv'
<1>1. CommandKnows' /\ IssueKnows' BY CustodyNulls DEF CustodyInv, CommandKnows, IssueKnows
<1>2. CertifiedIsWhole' /\ ChainWhole' /\ RefusalHolds' BY DEF CustodyInv, CertifiedIsWhole, ChainWhole, RefusalHolds
<1> QED BY <1>1, <1>2 DEF CustodyInv

\* The world's steps keep it.
LEMMA DisturbedStep ==
  ASSUME CustodyInv,
    \/ \E p \in Resolutions, how \in {"sent", "unknown"} : NoticeDelivered(p, how)
    \/ \E n \in 0..2 : CustodyPolicyChanges(n)
    \/ CustodyCrash
  PROVE  CustodyInv'
<1>1. CASE \E p \in Resolutions, how \in {"sent", "unknown"} : NoticeDelivered(p, how)
 <2>1. /\ delivery' \in [Resolutions -> {"none", "pending", "sent", "unknown"}] /\ cfaults' \in Nat
       /\ UNCHANGED <<bundle, cfiles, consumer, authorityOf, cmdCall, issCall, refusedAt>>
  BY <1>1 DEF NoticeDelivered, CustodyFault, CustodyInv, CustodyType
 <2> QED BY <2>1, QuietStep DEF CustodyInv, CustodyType
<1>2. CASE \E n \in 0..2 : CustodyPolicyChanges(n)
 <2>1. /\ authorityOf' \in Nat /\ cfaults' \in Nat
       /\ UNCHANGED <<bundle, delivery, cfiles, consumer, cmdCall, issCall, refusedAt>>
  BY <1>2 DEF CustodyPolicyChanges, CustodyFault, CustodyInv, CustodyType
 <2> QED BY <2>1, QuietStep DEF CustodyInv, CustodyType
<1>3. CASE CustodyCrash
 <2>1. /\ cmdCall' = NoCmdCall /\ issCall' = NoIssCall /\ cfaults' \in Nat
       /\ UNCHANGED <<bundle, delivery, cfiles, consumer, authorityOf, refusedAt>>
  BY <1>3 DEF CustodyCrash, CustodyFault, CustodyInv, CustodyType
 <2>2. CustodyType' BY <2>1, CustodyNulls DEF CustodyInv, CustodyType
 <2> QED BY <2>1, <2>2, QuietStep
<1> QED BY <1>1, <1>2, <1>3

------------------------------
\* Reading the command keeps it.
LEMMA CommandReadsStep ==
  ASSUME CustodyInv, NEW p \in Resolutions, NEW m \in CommandIds, NEW a \in Acts, NEW t \in BOOLEAN,
    CommandReads(p, m, a, t)
  PROVE  CustodyInv'
<1> DEFINE call == [at |-> "observe", p |-> p, mid |-> m, act |-> a, mapped |-> t,
                    seen |-> bundle[p], policy |-> authorityOf]
<1>1. /\ cmdCall' = call /\ bundle[p].state # "none"
      /\ UNCHANGED <<bundle, delivery, cfiles, consumer, authorityOf, issCall, refusedAt, cfaults>>
 BY DEF CommandReads
<1>2. bundle[p] \in Bundle /\ authorityOf \in Nat BY DEF CustodyInv, CustodyType
<1>3. call \in CmdCallType /\ call.p = p /\ call.mid = m /\ call.act = a BY <1>2 DEF CmdCallType, Acts
<1> HIDE DEF call
<1>4. CustodyType' BY <1>1, <1>3 DEF CustodyInv, CustodyType
<1>5. CommandKnows' /\ IssueKnows' BY <1>1, <1>3 DEF CustodyInv, CommandKnows, IssueKnows
<1>6. CertifiedIsWhole' /\ ChainWhole' /\ RefusalHolds'
 BY <1>1 DEF CustodyInv, CertifiedIsWhole, ChainWhole, RefusalHolds
<1> QED BY <1>4, <1>5, <1>6 DEF CustodyInv

\* Checking the command keeps it.
LEMMA CommandChecksStep ==
  ASSUME CustodyInv, NEW s \in BOOLEAN, CommandChecks(s)
  PROVE  CustodyInv'
<1> DEFINE call == [cmdCall EXCEPT !.at = "retain"]
<1>1. /\ cmdCall.at = "observe" /\ cmdCall' \in {call, NoCmdCall}
      /\ UNCHANGED <<bundle, delivery, cfiles, consumer, authorityOf, issCall, refusedAt, cfaults>>
 BY DEF CommandChecks
<1>2. cmdCall \in CmdCallType BY DEF CustodyInv, CustodyType
<1>3. call \in CmdCallType /\ call.p = cmdCall.p /\ call.mid = cmdCall.mid /\ call.act = cmdCall.act
 BY <1>2 DEF CmdCallType
<1> HIDE DEF call
<1>4. CustodyType' BY <1>1, <1>3, CustodyNulls DEF CustodyInv, CustodyType
<1>5. CommandKnows' /\ IssueKnows' BY <1>1, <1>3, CustodyNulls DEF CustodyInv, CommandKnows, IssueKnows
<1>6. CertifiedIsWhole' /\ ChainWhole' /\ RefusalHolds'
 BY <1>1 DEF CustodyInv, CertifiedIsWhole, ChainWhole, RefusalHolds
<1> QED BY <1>4, <1>5, <1>6 DEF CustodyInv

\* A contrary command that is taken leaves the row revoked, with room for its receipt
\* or without, and no command changes the number of permits.
LEMMA CommandRetainsStep == CustodyInv /\ CommandRetains => CustodyInv'
<1> SUFFICES ASSUME CustodyInv, CommandRetains PROVE CustodyInv' OBVIOUS
<1>0. cmdCall.at = "retain" /\ cmdCall.p \in Resolutions /\ cmdCall.mid \in CommandIds /\ cmdCall.act \in Acts
 BY DEF CommandRetains, CustodyInv, CommandKnows
<1> PICK p \in Resolutions : p = cmdCall.p BY <1>0
<1> DEFINE row == bundle[p]
           new == IF Fits(RecordCommand(row, cmdCall)) THEN RecordCommand(row, cmdCall) ELSE HeldState(row, cmdCall)
<1>1. /\ cmdCall' = NoCmdCall /\ UNCHANGED <<delivery, cfiles, consumer, authorityOf, issCall, cfaults>>
      /\ \/ UNCHANGED <<bundle, refusedAt>>
         \/ /\ bundle' = [bundle EXCEPT ![p] = new]
            /\ refusedAt' = IF Contrary(row, cmdCall) /\ refusedAt[p] = -1
                            THEN [refusedAt EXCEPT ![p] = row.permits] ELSE refusedAt BY DEF CommandRetains
<1>2. row \in Bundle /\ row.state # "none" /\ cmdCall \in CmdCallType
 BY <1>0 DEF CustodyInv, CustodyType, CommandKnows
<1>3. /\ new \in Bundle /\ new.permits = row.permits /\ new.state # "none"
      /\ Contrary(row, cmdCall) \/ row.state = "revoked" => new.state = "revoked"
 BY <1>0, <1>2, AfterSays, RecordSays, HeldSays
<1>4. row.permits \in Nat /\ row = bundle[p] BY <1>2 DEF Bundle
<1>5. bundle \in [Resolutions -> Bundle] /\ refusedAt \in [Resolutions -> Int] BY DEF CustodyInv, CustodyType
<1> HIDE DEF new, row
<1>6. /\ bundle' \in [Resolutions -> Bundle] /\ refusedAt' \in [Resolutions -> Int]
      /\ \A q \in Resolutions : bundle'[q].permits = bundle[q].permits BY <1>1, <1>3, <1>4, <1>5
<1>7. CustodyType' BY <1>1, <1>6, CustodyNulls DEF CustodyInv, CustodyType
<1>8. CommandKnows' /\ IssueKnows' BY <1>1, <1>6, CustodyNulls DEF CustodyInv, CommandKnows, IssueKnows
<1>9. CertifiedIsWhole' /\ ChainWhole' BY <1>1, <1>6 DEF CustodyInv, CertifiedIsWhole, ChainWhole
<1>10. RefusalHolds' BY <1>1, <1>3, <1>4, <1>5 DEF CustodyInv, RefusalHolds
<1> QED BY <1>7, <1>8, <1>9, <1>10 DEF CustodyInv

------------------------------
\* The next generation, and the repair of one, need the certificate of the one before.
LEMMA IssueReadsStep ==
  ASSUME CustodyInv, NEW p \in Resolutions, NEW renew \in BOOLEAN, NEW s \in BOOLEAN, IssueReads(p, renew, s)
  PROVE  CustodyInv'
<1> DEFINE g == bundle[p].permits
           retry == g > 0 /\ ~renew
           done == retry /\ Complete(p, g)
           gen == IF retry THEN g ELSE g + 1
           call == [at |-> "commit", p |-> p, gen |-> gen, complete |-> done, seen |-> bundle[p], policy |-> authorityOf]
<1>1. /\ issCall' = call /\ bundle[p].state = "consented"
      /\ UNCHANGED <<bundle, delivery, cfiles, consumer, authorityOf, cmdCall, refusedAt, cfaults>>
 BY DEF IssueReads
<1>2. IF retry THEN IF g = 1 THEN Unconsumed(p) /\ ~Renewal(p, 1) ELSE done \/ PermitCertificate(p, g - 1)
      ELSE PermitCertificate(p, g) BY DEF IssueReads
<1>3. bundle[p] \in Bundle /\ g \in Nat /\ authorityOf \in Nat BY DEF CustodyInv, CustodyType, Bundle
<1>4. gen \in Nat /\ gen >= 1 /\ g <= gen BY <1>3
<1>5. done \in BOOLEAN OBVIOUS
<1>6. ~done /\ gen > 1 => gen - 1 \in consumer[p].certs BY <1>2, <1>3 DEF PermitCertificate, Renewal
<1>7. bundle[p].permits <= gen BY <1>4
<1> HIDE DEF gen, done, retry, g
<1>8. call \in IssCallType BY <1>3, <1>4, <1>5 DEF IssCallType
<1>9. CustodyType' BY <1>1, <1>8 DEF CustodyInv, CustodyType
<1>10. CommandKnows' BY <1>1 DEF CustodyInv, CommandKnows
<1>11. IssueKnows' BY <1>1, <1>4, <1>6, <1>7 DEF IssueKnows
<1>12. CertifiedIsWhole' /\ ChainWhole' /\ RefusalHolds'
 BY <1>1 DEF CustodyInv, CertifiedIsWhole, ChainWhole, RefusalHolds
<1> QED BY <1>9, <1>10, <1>11, <1>12 DEF CustodyInv

\* What a permit call may be after a step of its own.
LEMMA CallAt ==
  ASSUME NEW call \in IssCallType, NEW at \in {"tomb", "generation", "pointer"}
  PROVE  /\ [call EXCEPT !.at = at] \in IssCallType /\ [call EXCEPT !.at = at].at = at
         /\ [call EXCEPT !.at = at].p = call.p /\ [call EXCEPT !.at = at].gen = call.gen
         /\ [call EXCEPT !.at = at].complete = call.complete
BY DEF IssCallType

\* The row is the consented one that was read, so nothing was refused meanwhile.
LEMMA IssueCommitsStep == CustodyInv /\ IssueCommits => CustodyInv'
<1> SUFFICES ASSUME CustodyInv, IssueCommits PROVE CustodyInv' OBVIOUS
<1>0. issCall.at = "commit" /\ issCall.p \in Resolutions /\ issCall \in IssCallType
 BY DEF IssueCommits, CustodyInv, CustodyType, IssueKnows
<1> PICK p \in Resolutions : p = issCall.p BY <1>0
<1> PICK g \in Nat : g = issCall.gen BY <1>0 DEF IssCallType
<1> DEFINE row == [bundle[p] EXCEPT !.permits = g]
           call == [issCall EXCEPT !.at = "tomb"]
           ok == authorityOf = issCall.policy /\ bundle[p] = issCall.seen
<1>1. /\ UNCHANGED <<delivery, cfiles, consumer, authorityOf, cmdCall, refusedAt, cfaults>>
      /\ bundle' = IF ok THEN [bundle EXCEPT ![p] = row] ELSE bundle
      /\ issCall' = IF ok /\ ~issCall.complete THEN call ELSE NoIssCall BY DEF IssueCommits
<1>2. bundle \in [Resolutions -> Bundle] BY DEF CustodyInv, CustodyType
<1>3. row \in Bundle /\ row.state = bundle[p].state /\ row.permits = g BY <1>2 DEF Bundle
<1>4. call \in IssCallType /\ call.at = "tomb" /\ call.p = p /\ call.gen = g /\ call.complete = issCall.complete
 BY <1>0, CallAt
<1>5. ok => bundle[p].state = "consented" /\ bundle[p].permits <= g /\ bundle[p].permits \in Nat
 BY <1>0, <1>2 DEF CustodyInv, IssueKnows, Bundle
<1>6. g >= 1 /\ (~issCall.complete /\ g > 1 => g - 1 \in consumer[p].certs) BY <1>0 DEF CustodyInv, IssueKnows
<1> HIDE DEF row, call, ok
<1>7. /\ bundle' \in [Resolutions -> Bundle]
      /\ \A q \in Resolutions : bundle'[q].state = bundle[q].state
      /\ \A q \in Resolutions : bundle[q].state # "consented" => bundle'[q] = bundle[q]
      /\ \A q \in Resolutions : bundle[q].permits <= bundle'[q].permits
      /\ \A q \in Resolutions : bundle[q].permits \in Nat /\ bundle'[q].permits \in Nat
      /\ ok => bundle'[p].permits = g
 <2>1. \A q \in Resolutions : bundle[q].permits \in Nat BY <1>2 DEF Bundle
 <2> QED BY <1>1, <1>2, <1>3, <1>5, <2>1
<1>8. CustodyType' BY <1>1, <1>4, <1>7, CustodyNulls DEF CustodyInv, CustodyType
<1>9. CommandKnows' BY <1>1, <1>7 DEF CustodyInv, CommandKnows
<1>10. IssueKnows'
 <2>1. CASE ok /\ ~issCall.complete BY <1>1, <1>4, <1>6, <1>7, <2>1 DEF IssueKnows
 <2>2. CASE ~(ok /\ ~issCall.complete) BY <1>1, <2>2, CustodyNulls DEF IssueKnows
 <2> QED BY <2>1, <2>2
<1>11. RefusalHolds' BY <1>1, <1>7 DEF CustodyInv, RefusalHolds
<1>12. CertifiedIsWhole' BY <1>1 DEF CustodyInv, CertifiedIsWhole
<1>13. ChainWhole'
 <2>1. \A q \in Resolutions : 1..bundle[q].permits \subseteq 1..bundle'[q].permits BY <1>7
 <2> QED BY <1>1, <2>1 DEF CustodyInv, ChainWhole
<1> QED BY <1>8, <1>9, <1>10, <1>11, <1>12, <1>13 DEF CustodyInv

\* A step of the publication: rows and the queue stay, files of one proposal change.
LEMMA PublishingStep ==
  ASSUME CustodyInv, NEW p \in Resolutions, NEW f \in FilesType,
    cfiles' = [cfiles EXCEPT ![p] = f],
    UNCHANGED <<bundle, delivery, consumer, authorityOf, cmdCall, refusedAt, cfaults>>,
    issCall' \in IssCallType, IssueKnows',
    cfiles[p].gens \subseteq f.gens,
    f.gens \subseteq 1..bundle[p].permits,
    f.cur # 0 => 1..f.cur \subseteq f.gens,
    \A g \in f.gens : g > 1 => g - 1 \in f.tombs,
    f.tombs \subseteq consumer[p].certs
  PROVE  CustodyInv'
<1>1. /\ cfiles' \in [Resolutions -> FilesType] /\ cfiles'[p] = f
      /\ \A q \in Resolutions \ {p} : cfiles'[q] = cfiles[q] BY DEF CustodyInv, CustodyType
<1>2. CustodyType' BY <1>1 DEF CustodyInv, CustodyType
<1>3. CommandKnows' /\ RefusalHolds' BY DEF CustodyInv, CommandKnows, RefusalHolds
<1>4. CertifiedIsWhole' BY <1>1 DEF CustodyInv, CertifiedIsWhole
<1>5. ChainWhole' BY <1>1 DEF CustodyInv, ChainWhole
<1> QED BY <1>2, <1>3, <1>4, <1>5 DEF CustodyInv

\* Writing a tombstone keeps it (_issue_permit).
LEMMA IssueEntombsStep == CustodyInv /\ IssueEntombs => CustodyInv'
<1> SUFFICES ASSUME CustodyInv, IssueEntombs PROVE CustodyInv' OBVIOUS
<1>0. issCall.at = "tomb" /\ issCall.p \in Resolutions /\ issCall \in IssCallType
 BY DEF IssueEntombs, CustodyInv, CustodyType, IssueKnows
<1> PICK p \in Resolutions : p = issCall.p BY <1>0
<1> PICK g \in Nat : g = issCall.gen BY <1>0 DEF IssCallType
<1> DEFINE tombs == IF g > 1 THEN cfiles[p].tombs \union {g - 1} ELSE cfiles[p].tombs
           f == [cfiles[p] EXCEPT !.tombs = tombs]
           call == [issCall EXCEPT !.at = "generation"]
<1>1. /\ UNCHANGED <<bundle, delivery, consumer, authorityOf, cmdCall, refusedAt, cfaults>>
      /\ issCall' = call
      /\ cfiles' = IF g > 1 THEN [cfiles EXCEPT ![p] = [cfiles[p] EXCEPT !.tombs = cfiles[p].tombs \union {g - 1}]] ELSE cfiles
 BY DEF IssueEntombs
<1>2. cfiles \in [Resolutions -> FilesType] /\ cfiles[p] \in FilesType BY DEF CustodyInv, CustodyType
<1>3. /\ call \in IssCallType /\ call.at = "generation" /\ call.p = p /\ call.gen = g
      /\ call.complete = issCall.complete BY <1>0, CallAt
<1>4. /\ g >= 1 /\ bundle[p].permits = g /\ ~issCall.complete
      /\ g > 1 => g - 1 \in consumer[p].certs BY <1>0 DEF CustodyInv, IssueKnows
<1>5. /\ tombs \in SUBSET Nat /\ cfiles[p].tombs \subseteq tombs /\ tombs \subseteq consumer[p].certs
      /\ g > 1 => g - 1 \in tombs
 <2>1. cfiles[p].tombs \in SUBSET Nat /\ cfiles[p].tombs \subseteq consumer[p].certs
  BY <1>2 DEF FilesType, CustodyInv, ChainWhole
 <2> QED BY <1>4, <2>1
<1>6. cfiles' = [cfiles EXCEPT ![p] = f]
 <2>1. CASE g > 1 BY <1>1, <2>1
 <2>2. CASE ~(g > 1)
  <3>1. f = cfiles[p] BY <1>2, <2>2 DEF FilesType
  <3> QED BY <1>1, <1>2, <2>2, <3>1
 <2> QED BY <2>1, <2>2
<1> HIDE DEF tombs, call
<1>7. f \in FilesType /\ f.tombs = tombs /\ f.gens = cfiles[p].gens /\ f.cur = cfiles[p].cur
 BY <1>2, <1>5 DEF FilesType
<1> HIDE DEF f
<1>8. cfiles'[p] = f BY <1>2, <1>6
<1>9. IssueKnows' BY <1>1, <1>3, <1>4, <1>5, <1>7, <1>8 DEF IssueKnows
<1> QED BY <1>1, <1>3, <1>5, <1>6, <1>7, <1>9, PublishingStep DEF CustodyInv, ChainWhole

\* Publishing a generation keeps it (_issue_permit).
LEMMA IssuePublishesStep == CustodyInv /\ IssuePublishes => CustodyInv'
<1> SUFFICES ASSUME CustodyInv, IssuePublishes PROVE CustodyInv' OBVIOUS
<1>0. issCall.at = "generation" /\ issCall.p \in Resolutions /\ issCall \in IssCallType
 BY DEF IssuePublishes, CustodyInv, CustodyType, IssueKnows
<1> PICK p \in Resolutions : p = issCall.p BY <1>0
<1> PICK g \in Nat : g = issCall.gen BY <1>0 DEF IssCallType
<1> DEFINE f == [cfiles[p] EXCEPT !.gens = cfiles[p].gens \union {g}]
           call == [issCall EXCEPT !.at = "pointer"]
<1>1. /\ UNCHANGED <<bundle, delivery, consumer, authorityOf, cmdCall, refusedAt, cfaults>>
      /\ issCall' = call /\ cfiles' = [cfiles EXCEPT ![p] = f] BY DEF IssuePublishes
<1>2. cfiles \in [Resolutions -> FilesType] /\ cfiles[p] \in FilesType BY DEF CustodyInv, CustodyType
<1>3. call \in IssCallType /\ call.at = "pointer" /\ call.p = p /\ call.gen = g /\ call.complete = issCall.complete
 BY <1>0, CallAt
<1>4. /\ g >= 1 /\ bundle[p].permits = g /\ ~issCall.complete
      /\ g > 1 => g - 1 \in consumer[p].certs /\ g - 1 \in cfiles[p].tombs BY <1>0 DEF CustodyInv, IssueKnows
<1>5. f \in FilesType /\ f.gens = cfiles[p].gens \union {g} /\ f.tombs = cfiles[p].tombs /\ f.cur = cfiles[p].cur
 BY <1>2 DEF FilesType
<1> HIDE DEF f, call
<1>6. cfiles'[p] = f BY <1>1, <1>2
<1>7. IssueKnows' BY <1>1, <1>3, <1>4, <1>5, <1>6 DEF IssueKnows
<1>8. f.gens \subseteq 1..bundle[p].permits BY <1>4, <1>5 DEF CustodyInv, ChainWhole
<1>9. \A k \in f.gens : k > 1 => k - 1 \in f.tombs BY <1>4, <1>5 DEF CustodyInv, ChainWhole
<1>10. (f.cur # 0 => 1..f.cur \subseteq f.gens) /\ f.tombs \subseteq consumer[p].certs
 BY <1>5 DEF CustodyInv, ChainWhole
<1> QED BY <1>1, <1>3, <1>5, <1>7, <1>8, <1>9, <1>10, PublishingStep

\* Moving the pointer keeps it (_issue_permit).
LEMMA IssuePointsStep == CustodyInv /\ IssuePoints => CustodyInv'
<1> SUFFICES ASSUME CustodyInv, IssuePoints PROVE CustodyInv' OBVIOUS
<1>0. issCall.at = "pointer" /\ issCall.p \in Resolutions /\ issCall \in IssCallType
 BY DEF IssuePoints, CustodyInv, CustodyType, IssueKnows
<1> PICK p \in Resolutions : p = issCall.p BY <1>0
<1> PICK g \in Nat : g = issCall.gen BY <1>0 DEF IssCallType
<1> DEFINE f == [cfiles[p] EXCEPT !.cur = g]
<1>1. /\ UNCHANGED <<bundle, delivery, consumer, authorityOf, cmdCall, refusedAt, cfaults>>
      /\ issCall' = NoIssCall /\ cfiles' = [cfiles EXCEPT ![p] = f] BY DEF IssuePoints
<1>2. cfiles[p] \in FilesType BY DEF CustodyInv, CustodyType
<1>3. /\ g >= 1 /\ g \in cfiles[p].gens /\ ~issCall.complete
      /\ g > 1 => g - 1 \in consumer[p].certs BY <1>0 DEF CustodyInv, IssueKnows
<1>4. f \in FilesType /\ f.gens = cfiles[p].gens /\ f.tombs = cfiles[p].tombs /\ f.cur = g BY <1>2 DEF FilesType
<1> HIDE DEF f
<1>5. 1..g \subseteq f.gens
 <2>1. g > 1 => 1..(g - 1) \subseteq f.gens BY <1>3, <1>4 DEF CustodyInv, CertifiedIsWhole
 <2> QED BY <1>3, <1>4, <2>1
<1>6. IssueKnows' BY <1>1, CustodyNulls DEF IssueKnows
<1>7. f.gens \subseteq 1..bundle[p].permits /\ f.tombs \subseteq consumer[p].certs BY <1>4 DEF CustodyInv, ChainWhole
<1>8. \A k \in f.gens : k > 1 => k - 1 \in f.tombs BY <1>4 DEF CustodyInv, ChainWhole
<1> QED BY <1>1, <1>4, <1>5, <1>6, <1>7, <1>8, CustodyNulls, PublishingStep

------------------------------
\* The queue takes no certificate back and certifies only what the pointer names.
LEMMA ConsumerStep ==
  ASSUME CustodyInv, NEW p \in Resolutions, Consume(p) \/ Certify(p)
  PROVE  CustodyInv'
<1> DEFINE c == IF Consume(p) THEN [consumer[p] EXCEPT !.used = {cfiles[p].cur}]
                ELSE [consumer[p] EXCEPT !.certs = consumer[p].certs \union {cfiles[p].cur}]
<1>1. /\ UNCHANGED <<bundle, delivery, cfiles, authorityOf, cmdCall, issCall, refusedAt, cfaults>>
      /\ consumer' = [consumer EXCEPT ![p] = c] /\ cfiles[p].cur # 0 BY DEF Consume, Certify
<1>2. consumer \in [Resolutions -> ConsumerType] /\ consumer[p] \in ConsumerType /\ cfiles[p].cur \in Nat
 BY DEF CustodyInv, CustodyType, FilesType
<1>3. /\ c \in ConsumerType /\ consumer[p].certs \subseteq c.certs
      /\ c.certs \subseteq consumer[p].certs \union {cfiles[p].cur} BY <1>2 DEF ConsumerType
<1> HIDE DEF c
<1>4. /\ consumer' \in [Resolutions -> ConsumerType] /\ consumer'[p] = c
      /\ \A q \in Resolutions \ {p} : consumer'[q] = consumer[q] BY <1>1, <1>2, <1>3
<1>5. CustodyType' BY <1>1, <1>4 DEF CustodyInv, CustodyType
<1>6. CommandKnows' /\ RefusalHolds' BY <1>1 DEF CustodyInv, CommandKnows, RefusalHolds
<1>7. \A q \in Resolutions : consumer[q].certs \subseteq consumer'[q].certs BY <1>3, <1>4
<1>8. IssueKnows' BY <1>1, <1>7 DEF CustodyInv, IssueKnows
<1>9. CertifiedIsWhole'
 <2>1. cfiles[p].cur >= 1 /\ 1..cfiles[p].cur \subseteq cfiles[p].gens BY <1>1, <1>2 DEF CustodyInv, ChainWhole
 <2> QED BY <1>1, <1>3, <1>4, <2>1 DEF CustodyInv, CertifiedIsWhole
<1>10. ChainWhole' BY <1>1, <1>7 DEF CustodyInv, ChainWhole
<1> QED BY <1>5, <1>6, <1>8, <1>9, <1>10 DEF CustodyInv

\* Every step, and stuttering, preserves the invariant.
LEMMA CustodyNextInv == CustodyInv /\ [CustodyNext]_custodyVars => CustodyInv'
<1> SUFFICES ASSUME CustodyInv, [CustodyNext]_custodyVars PROVE CustodyInv' OBVIOUS
<1>1. CASE UNCHANGED custodyVars BY <1>1, QuietStep DEF CustodyInv, CustodyType, custodyVars
<1>2. CASE CustodyNext
 <2>1. CASE \E p \in Resolutions, f \in CustodyFlaws : RegisterResolution(p, f) BY <2>1, ResolutionStep
 <2>2. CASE \/ \E p \in Resolutions, how \in {"sent", "unknown"} : NoticeDelivered(p, how)
            \/ \E n \in 0..2 : CustodyPolicyChanges(n)
            \/ CustodyCrash BY <2>2, DisturbedStep
 <2>3. CASE \E p \in Resolutions, m \in CommandIds, a \in Acts, t \in BOOLEAN : CommandReads(p, m, a, t)
  BY <2>3, CommandReadsStep
 <2>4. CASE \E p \in Resolutions : \E r, s \in BOOLEAN : IssueReads(p, r, s) BY <2>4, IssueReadsStep
 <2>5. CASE \E p \in Resolutions : Consume(p) \/ Certify(p) BY <2>5, ConsumerStep
 <2>6. CASE \E s \in BOOLEAN : CommandChecks(s) BY <2>6, CommandChecksStep
 <2>7. CASE CommandRetains \/ IssueCommits \/ IssueEntombs \/ IssuePublishes \/ IssuePoints
  BY <2>7, CommandRetainsStep, IssueCommitsStep, IssueEntombsStep, IssuePublishesStep, IssuePointsStep
 <2> QED BY <1>2, <2>1, <2>2, <2>3, <2>4, <2>5, <2>6, <2>7 DEF CustodyNext
<1> QED BY <1>1, <1>2

------------------------------
\* A decline, a revocation or a contradiction that was taken (_retain_command) holds
\* against every settle and permit call under way: no further permit, never consented.
THEOREM CustodyRefusalHolds == CustodySpec => []RefusalHolds
<1>1. CustodySpec => []CustodyInv BY CustodyInitInv, CustodyNextInv, PTL DEF CustodySpec
<1>2. CustodyInv => RefusalHolds BY DEF CustodyInv
<1> QED BY <1>1, <1>2, PTL

\* The published chain is whole through every crash and repair (_issue_permit): the
\* pointer names a retained generation, all before it are there with the tombstones
\* that only the queue's certificates allow.
THEOREM CustodyChainWhole == CustodySpec => []ChainWhole
<1>1. CustodySpec => []CustodyInv BY CustodyInitInv, CustodyNextInv, PTL DEF CustodySpec
<1>2. CustodyInv => ChainWhole BY DEF CustodyInv
<1> QED BY <1>1, <1>2, PTL

------------------------------
(* MaintenanceConsent: the operation is settled under at most one permit, and the     *)
(* published files say what the store committed.                                      *)

PermitType == [gen : Nat, boot : Nat, deadline : Nat]
RowType == [state : {"none", "awaiting", "consented", "revoked"}, schema : {"none", "v1", "v2"}, gen : Nat,
            permit : PermitType, policy : Nat, alive : BOOLEAN, delivered : BOOLEAN]
CallType == [at : {"idle", "certify", "commit", "publish", "point"}, p : Proposals \union {0}, cert : BOOLEAN,
             seen : RowType, policy : Nat, permit : PermitType]
QueueType == [cert : SUBSET Nat, tomb : SUBSET Nat, used : SUBSET Nat]
PublishedType == [files : SUBSET PermitType, cur : PermitType]

\* The messages and conflicts decide nothing that the two properties are about.
MaintType ==
    /\ prop \in [Proposals -> RowType]
    /\ current \in Proposals \union {0}
    /\ policy \in Nat
    /\ now \in [boot : Nat, tick : Nat]
    /\ queue \in [Proposals -> QueueType]
    /\ published \in [Proposals -> PublishedType]
    /\ mjob \in CallType

\* A row's permit is of the row's generation, and a proposal without a row has none.
RowWhole(r) == /\ r.permit.gen = r.gen
               /\ r.gen = 0 => r.permit = NoPermit
               /\ r.state = "none" => r.gen = 0

\* What the files and the queue may hold of a proposal: files up to the stored
\* generation, and every generation fenced off but the newest of the current proposal.
PermitsFenced ==
    \A p \in Proposals :
        /\ RowWhole(prop[p])
        /\ \A f \in published[p].files : f.gen >= 1
        /\ \A g \in 1..prop[p].gen : p # current \/ g < prop[p].gen => g \in queue[p].tomb
        /\ prop[p].gen = 0 => queue[p].used = {}
        /\ queue[p].used # {} => p = current
        /\ \A g, h \in queue[p].used : g = h

\* What the permit call under way knows: it is about the current proposal, it has seen
\* the generation before a new one fenced off, and publishes the stored permit.
PermitKnows ==
    mjob.at # "idle" =>
        /\ mjob.p \in Proposals /\ mjob.p = current
        /\ RowWhole(mjob.seen)
        /\ mjob.at = "commit" /\ mjob.cert => mjob.seen.gen \in queue[mjob.p].tomb
        /\ mjob.at \in {"publish", "point"} => mjob.permit = prop[mjob.p].permit /\ mjob.permit.gen >= 1
        /\ mjob.at = "point" => mjob.permit \in published[mjob.p].files

MaintInv == MaintType /\ PermitsFenced /\ PermitKnows /\ PublishedIsCommitted

------------------------------
\* Facts that hold for every value of the constants.
LEMMA MaintNulls ==
  /\ NoPermit \in PermitType /\ NoPermit.gen = 0
  /\ Unregistered \in RowType /\ RowWhole(Unregistered) /\ Unregistered.gen = 0
  /\ NoCall \in CallType /\ NoCall.at = "idle"
<1>1. NoPermit \in PermitType /\ NoPermit.gen = 0 BY DEF NoPermit, PermitType
<1> HIDE DEF NoPermit
<1>2. Unregistered \in RowType /\ Unregistered.gen = 0 /\ Unregistered.permit = NoPermit
 BY <1>1 DEF Unregistered, RowType
<1>3. RowWhole(Unregistered) BY <1>1, <1>2 DEF RowWhole
<1> HIDE DEF Unregistered
<1>4. NoCall \in CallType /\ NoCall.at = "idle" BY <1>1, <1>2 DEF NoCall, CallType
<1> QED BY <1>1, <1>2, <1>3, <1>4

\* The invariant holds at first.
LEMMA MaintInitInv == MaintInit => MaintInv
<1> SUFFICES ASSUME MaintInit PROVE MaintInv OBVIOUS
<1>1. MaintType
 <2>1. prop \in [Proposals -> RowType] /\ mjob \in CallType BY MaintNulls DEF MaintInit
 <2>2. current \in Proposals \union {0} /\ policy \in Nat /\ now \in [boot : Nat, tick : Nat] BY DEF MaintInit
 <2>3. queue \in [Proposals -> QueueType] BY DEF MaintInit, QueueType
 <2>4. published \in [Proposals -> PublishedType]
  <3>1. [files |-> {}, cur |-> NoPermit] \in PublishedType BY MaintNulls DEF PublishedType
  <3> QED BY <3>1 DEF MaintInit
 <2> QED BY <2>1, <2>2, <2>3, <2>4 DEF MaintType
<1>2. PermitsFenced BY MaintNulls DEF MaintInit, PermitsFenced
<1>3. PermitKnows /\ PublishedIsCommitted BY MaintNulls DEF MaintInit, PermitKnows, PublishedIsCommitted
<1> QED BY <1>1, <1>2, <1>3 DEF MaintInv

\* Steps that issue, publish, consume and supersede nothing.
LEMMA MaintQuiet ==
  ASSUME MaintInv, MaintType', UNCHANGED <<current, queue, published>>, mjob' \in {mjob, NoCall},
    \A p \in Proposals : /\ prop'[p].gen = prop[p].gen /\ prop'[p].permit = prop[p].permit
                         /\ prop'[p].state = "none" => prop[p].state = "none"
  PROVE  MaintInv'
<1>1. PermitsFenced' BY DEF MaintInv, PermitsFenced, RowWhole
<1>2. PermitKnows' BY MaintNulls DEF MaintInv, PermitKnows
<1>3. PublishedIsCommitted' BY DEF MaintInv, PublishedIsCommitted
<1> QED BY <1>1, <1>2, <1>3 DEF MaintInv

\* Consent, revocation, delivery and expiry change nothing else in a row.
LEMMA RowFields ==
  ASSUME NEW r \in RowType, NEW st \in {"consented", "revoked"}, NEW y \in Nat, NEW v \in BOOLEAN
  PROVE  /\ [r EXCEPT !.state = st] \in RowType /\ [r EXCEPT !.state = st].state = st
         /\ [r EXCEPT !.state = st].gen = r.gen /\ [r EXCEPT !.state = st].permit = r.permit
         /\ [r EXCEPT !.policy = y] \in RowType /\ [r EXCEPT !.policy = y].state = r.state
         /\ [r EXCEPT !.policy = y].gen = r.gen /\ [r EXCEPT !.policy = y].permit = r.permit
         /\ [r EXCEPT !.alive = v] \in RowType /\ [r EXCEPT !.alive = v].state = r.state
         /\ [r EXCEPT !.alive = v].gen = r.gen /\ [r EXCEPT !.alive = v].permit = r.permit
         /\ [r EXCEPT !.delivered = v] \in RowType /\ [r EXCEPT !.delivered = v].state = r.state
         /\ [r EXCEPT !.delivered = v].gen = r.gen /\ [r EXCEPT !.delivered = v].permit = r.permit
BY DEF RowType

\* A notice sent keeps the invariant.
LEMMA NoticeSentStep ==
  ASSUME MaintInv, NEW p \in Proposals, NoticeSent(p)
  PROVE  MaintInv'
<1> DEFINE r == [prop[p] EXCEPT !.delivered = TRUE]
<1>1. prop' = [prop EXCEPT ![p] = r] /\ UNCHANGED <<current, policy, now, queue, published, mjob>> BY DEF NoticeSent
<1>2. prop \in [Proposals -> RowType] /\ TRUE \in BOOLEAN BY DEF MaintInv, MaintType
<1>3. r \in RowType /\ r.state = prop[p].state /\ r.gen = prop[p].gen /\ r.permit = prop[p].permit BY <1>2, RowFields
<1> HIDE DEF r
<1>4. prop' \in [Proposals -> RowType] BY <1>1, <1>2, <1>3
<1>5. MaintType' BY <1>1, <1>4 DEF MaintInv, MaintType
<1> QED BY <1>1, <1>2, <1>3, <1>5, MaintQuiet

\* An expiry keeps it.
LEMMA ExpireStep ==
  ASSUME MaintInv, NEW p \in Proposals, Expire(p)
  PROVE  MaintInv'
<1> DEFINE r == [prop[p] EXCEPT !.alive = FALSE]
<1>1. prop' = [prop EXCEPT ![p] = r] /\ UNCHANGED <<current, policy, now, queue, published, mjob>> BY DEF Expire
<1>2. prop \in [Proposals -> RowType] /\ FALSE \in BOOLEAN BY DEF MaintInv, MaintType
<1>3. r \in RowType /\ r.state = prop[p].state /\ r.gen = prop[p].gen /\ r.permit = prop[p].permit BY <1>2, RowFields
<1> HIDE DEF r
<1>4. prop' \in [Proposals -> RowType] BY <1>1, <1>2, <1>3
<1>5. MaintType' BY <1>1, <1>4 DEF MaintInv, MaintType
<1> QED BY <1>1, <1>2, <1>3, <1>5, MaintQuiet

\* An operator's message keeps it.
LEMMA MessageStep ==
  ASSUME MaintInv, NEW m \in Mids, NEW p \in Proposals, NEW v \in Verbs, NEW t \in BOOLEAN, Message(m, p, v, t)
  PROVE  MaintInv'
<1> DEFINE r1 == [prop[p] EXCEPT !.state = "revoked"]
           r2 == [prop[p] EXCEPT !.state = "consented"]
           r3 == [r2 EXCEPT !.policy = policy]
<1>1. UNCHANGED <<current, policy, now, queue, published, mjob>> BY DEF Message
<1>2. prop' = prop \/ Decide(p, v) BY DEF Message, Refusal
<1>3. prop \in [Proposals -> RowType] /\ policy \in Nat BY DEF MaintInv, MaintType
<1>4. /\ r1 \in RowType /\ r1.state = "revoked" /\ r1.gen = prop[p].gen /\ r1.permit = prop[p].permit
      /\ r2 \in RowType /\ r2.state = "consented" /\ r2.gen = prop[p].gen /\ r2.permit = prop[p].permit
 BY <1>3, RowFields
<1>5. prop' \in {prop, [prop EXCEPT ![p] = r1], [prop EXCEPT ![p] = r3]}
 <2>1. [prop EXCEPT ![p].state = "revoked"] = [prop EXCEPT ![p] = r1] OBVIOUS
 <2>2. [prop EXCEPT ![p].state = "consented", ![p].policy = policy] = [prop EXCEPT ![p] = r3] BY <1>3 DEF RowType
 <2> HIDE DEF r1, r3
 <2> QED BY <1>2, <2>1, <2>2 DEF Decide
<1> HIDE DEF r2
<1>6. r3 \in RowType /\ r3.state = "consented" /\ r3.gen = prop[p].gen /\ r3.permit = prop[p].permit
 BY <1>3, <1>4, RowFields
<1> HIDE DEF r1, r3
<1>7. prop' \in [Proposals -> RowType] BY <1>3, <1>4, <1>5, <1>6
<1>8. MaintType' BY <1>1, <1>7 DEF MaintInv, MaintType
<1>9. \A q \in Proposals : /\ prop'[q].gen = prop[q].gen /\ prop'[q].permit = prop[q].permit
                           /\ prop'[q].state = "none" => prop[q].state = "none" BY <1>3, <1>4, <1>5, <1>6
<1> QED BY <1>1, <1>8, <1>9, MaintQuiet

\* The clock, the policy, a crash and a restart.
LEMMA MaintDisturbed ==
  ASSUME MaintInv, MaintTick \/ AdmindCrash \/ Reboot \/ \E n \in 0..2 : PolicyChanges(n)
  PROVE  MaintInv'
<1>1. UNCHANGED <<prop, current, queue, published>> /\ mjob' \in {mjob, NoCall}
 BY DEF MaintTick, AdmindCrash, Reboot, PolicyChanges
<1>2. policy' \in Nat BY DEF MaintTick, AdmindCrash, Reboot, PolicyChanges, MaintInv, MaintType
<1>3. now' \in [boot : Nat, tick : Nat]
 <2>1. now \in [boot : Nat, tick : Nat] BY DEF MaintInv, MaintType
 <2>2. \/ now' = now
       \/ now' = [now EXCEPT !.tick = now.tick + 1]
       \/ now' = [boot |-> now.boot + 1, tick |-> 0] BY DEF MaintTick, AdmindCrash, Reboot, PolicyChanges
 <2> QED BY <2>1, <2>2
<1>4. MaintType' BY <1>1, <1>2, <1>3, MaintNulls DEF MaintInv, MaintType
<1> QED BY <1>1, <1>4, MaintQuiet

------------------------------
\* A proposal that is superseded has no permit, or one that the queue has fenced off.
LEMMA ProposalStep ==
  ASSUME MaintInv, NEW p \in Proposals, NEW s \in Schemas, NEW f \in Flaws, Register(p, s, f)
  PROVE  MaintInv'
<1> DEFINE r == [state |-> "awaiting", schema |-> s, gen |-> 0, permit |-> NoPermit,
                 policy |-> 0, alive |-> TRUE, delivered |-> FALSE]
<1>1. /\ mjob.at = "idle" /\ prop[p].state = "none"
      /\ UNCHANGED <<policy, now, queue, published, mjob>>
      /\ \/ UNCHANGED <<prop, current>>
         \/ prop' = [prop EXCEPT ![p] = r] /\ current' = p /\ Supersede(s) BY DEF Register, Idle
<1>2. CASE UNCHANGED <<prop, current>> BY <1>1, <1>2, MaintQuiet DEF MaintInv, MaintType
<1>3. CASE prop' = [prop EXCEPT ![p] = r] /\ current' = p /\ Supersede(s)
 <2>1. r \in RowType /\ r.gen = 0 /\ r.permit = NoPermit /\ r.state = "awaiting" BY MaintNulls DEF RowType, Schemas
 <2>2. RowWhole(r) BY <2>1, MaintNulls DEF RowWhole
 <2> HIDE DEF r
 <2>3. /\ prop' \in [Proposals -> RowType] /\ prop'[p] = r
       /\ \A q \in Proposals \ {p} : prop'[q] = prop[q] BY <1>3, <2>1 DEF MaintInv, MaintType
 <2>4. MaintType' BY <1>1, <1>3, <2>3 DEF MaintInv, MaintType
 <2>5. /\ prop[p].gen = 0 /\ queue[p].used = {} /\ published[p].files = {} /\ published[p].cur = NoPermit
  <3>1. prop[p].gen = 0 /\ queue[p].used = {} /\ \A x \in published[p].files : x.gen >= 1 /\ x.gen <= 0
   BY <1>1 DEF MaintInv, PermitsFenced, RowWhole, PublishedIsCommitted
  <3>2. \A x \in published[p].files : x.gen \in Nat BY DEF MaintInv, MaintType, PublishedType, PermitType
  <3>3. published[p].files = {} BY <3>1, <3>2
  <3> QED BY <3>1, <3>3 DEF MaintInv, PublishedIsCommitted
 <2>6. current \in Proposals =>
          queue[current].used = {} /\ \A g \in 1..prop[current].gen : g \in queue[current].tomb
  <3> SUFFICES ASSUME current \in Proposals
               PROVE  queue[current].used = {} /\ \A g \in 1..prop[current].gen : g \in queue[current].tomb
   OBVIOUS
  <3>1. current # 0 BY MaintenanceBounds
  <3>2. \/ prop[current].permit = NoPermit
        \/ Certificate(current, prop[current].permit) BY <1>3, <3>1 DEF Supersede
  <3>3. /\ RowWhole(prop[current]) /\ prop[current].gen \in Nat
        /\ \A g \in 1..prop[current].gen : g < prop[current].gen => g \in queue[current].tomb
        /\ prop[current].gen = 0 => queue[current].used = {} BY DEF MaintInv, MaintType, RowType, PermitsFenced
  <3>4. CASE prop[current].permit = NoPermit BY <3>3, <3>4, MaintNulls DEF RowWhole
  <3>5. CASE Certificate(current, prop[current].permit) BY <3>3, <3>5 DEF Certificate, RowWhole
  <3> QED BY <3>2, <3>4, <3>5
 <2>7. PermitsFenced'
  <3> SUFFICES ASSUME NEW q \in Proposals
               PROVE  /\ RowWhole(prop'[q])
                      /\ \A x \in published[q].files : x.gen >= 1
                      /\ \A g \in 1..prop'[q].gen : q # p \/ g < prop'[q].gen => g \in queue[q].tomb
                      /\ prop'[q].gen = 0 => queue[q].used = {}
                      /\ queue[q].used # {} => q = p
                      /\ \A g, h \in queue[q].used : g = h BY <1>1, <1>3 DEF PermitsFenced, RowWhole
  <3>1. CASE q = p BY <2>1, <2>2, <2>3, <2>5, <3>1
  <3>2. CASE q # p BY <2>3, <2>6, <3>2 DEF MaintInv, PermitsFenced
  <3> QED BY <3>1, <3>2
 <2>8. PermitKnows' BY <1>1 DEF PermitKnows
 <2>9. PublishedIsCommitted' BY <1>1, <2>3, <2>5 DEF MaintInv, PublishedIsCommitted
 <2> QED BY <2>4, <2>7, <2>8, <2>9 DEF MaintInv
<1> QED BY <1>1, <1>2, <1>3

------------------------------
\* Steps of the permit call that change the call only.
LEMMA CallStep ==
  ASSUME MaintInv, UNCHANGED <<prop, current, policy, now, queue, published>>, mjob' \in CallType, PermitKnows'
  PROVE  MaintInv'
<1>1. MaintType' BY DEF MaintInv, MaintType
<1>2. PermitsFenced' /\ PublishedIsCommitted' BY DEF MaintInv, PermitsFenced, PublishedIsCommitted
<1> QED BY <1>1, <1>2 DEF MaintInv

\* The observation a permit is for keeps it (Service.permit).
LEMMA PermitObserveStep ==
  ASSUME MaintInv, NEW p \in Proposals, NEW c \in BOOLEAN, PermitObserve(p, c)
  PROVE  MaintInv'
<1> DEFINE call == [at |-> "certify", p |-> p, cert |-> c, seen |-> prop[p], policy |-> policy, permit |-> NoPermit]
<1>1. UNCHANGED <<prop, current, policy, now, queue, published>> /\ mjob' = call /\ current = p BY DEF PermitObserve
<1>2. prop[p] \in RowType /\ policy \in Nat /\ RowWhole(prop[p]) BY DEF MaintInv, MaintType, PermitsFenced
<1>3. call \in CallType /\ call.at = "certify" /\ call.p = p /\ call.seen = prop[p] BY <1>2, MaintNulls DEF CallType
<1> HIDE DEF call
<1>4. PermitKnows' BY <1>1, <1>2, <1>3 DEF PermitKnows, RowWhole
<1> QED BY <1>1, <1>3, <1>4, CallStep

\* A call that moves on is still a call.
LEMMA CallMoves ==
  ASSUME NEW j \in CallType, NEW at \in {"commit", "publish", "point"}
  PROVE  /\ [j EXCEPT !.at = at] \in CallType /\ [j EXCEPT !.at = at].at = at
         /\ [j EXCEPT !.at = at].p = j.p /\ [j EXCEPT !.at = at].cert = j.cert
         /\ [j EXCEPT !.at = at].seen = j.seen /\ [j EXCEPT !.at = at].permit = j.permit
BY DEF CallType

\* The certificate of a permit keeps it.
LEMMA PermitCertifyStep == MaintInv /\ PermitCertify => MaintInv'
<1> SUFFICES ASSUME MaintInv, PermitCertify PROVE MaintInv' OBVIOUS
<1> DEFINE call == [mjob EXCEPT !.at = "commit"]
<1>1. /\ UNCHANGED <<prop, current, policy, now, queue, published>> /\ mjob.at = "certify"
      /\ \/ mjob' = NoCall
         \/ mjob' = call /\ (mjob.cert => Certificate(mjob.p, mjob.seen.permit)) BY DEF PermitCertify
<1>2. mjob \in CallType /\ mjob.p \in Proposals /\ mjob.p = current /\ RowWhole(mjob.seen)
 BY <1>1 DEF MaintInv, MaintType, PermitKnows
<1>3. /\ call \in CallType /\ call.at = "commit" /\ call.p = mjob.p /\ call.cert = mjob.cert
      /\ call.seen = mjob.seen BY <1>2, CallMoves
<1> HIDE DEF call
<1>4. CASE mjob' = NoCall BY <1>1, <1>4, MaintNulls, CallStep DEF PermitKnows
<1>5. CASE mjob' = call /\ (mjob.cert => Certificate(mjob.p, mjob.seen.permit))
 <2>1. mjob.cert => mjob.seen.gen \in queue[mjob.p].tomb BY <1>2, <1>5 DEF Certificate, RowWhole
 <2>2. PermitKnows' BY <1>1, <1>2, <1>3, <1>5, <2>1 DEF PermitKnows
 <2> QED BY <1>1, <1>3, <1>5, <2>2, CallStep
<1> QED BY <1>1, <1>4, <1>5

\* The row is the one that was seen, so a new generation follows a fenced one.
LEMMA PermitCommitStep == MaintInv /\ PermitCommit => MaintInv'
<1> SUFFICES ASSUME MaintInv, PermitCommit PROVE MaintInv' OBVIOUS
<1>0. mjob.at = "commit" /\ mjob \in CallType /\ mjob.p \in Proposals /\ mjob.p = current /\ RowWhole(mjob.seen)
 BY DEF PermitCommit, MaintInv, MaintType, PermitKnows
<1> PICK p \in Proposals : p = mjob.p BY <1>0
<1> DEFINE pm == NextPermit(mjob)
           old == [prop[p] EXCEPT !.delivered = mjob.seen.delivered, !.alive = mjob.seen.alive]
           r0 == [prop[p] EXCEPT !.gen = pm.gen]
           r == [r0 EXCEPT !.permit = pm]
           c0 == [mjob EXCEPT !.at = "publish"]
           call == [c0 EXCEPT !.permit = pm]
<1>1. UNCHANGED <<current, policy, now, queue, published>> BY DEF PermitCommit
<1>2. prop \in [Proposals -> RowType] /\ now \in [boot : Nat, tick : Nat] /\ Window \in Nat /\ mjob.seen \in RowType
 BY <1>0, MaintenanceBounds DEF MaintInv, MaintType, CallType
<1>3. \/ UNCHANGED prop /\ mjob' = NoCall
      \/ prop' = [prop EXCEPT ![p] = r] /\ mjob' = call /\ old = mjob.seen /\ prop[p].state = "consented"
 <2>1. [prop EXCEPT ![p].gen = pm.gen, ![p].permit = pm] = [prop EXCEPT ![p] = r] BY <1>2 DEF RowType
 <2>2. [mjob EXCEPT !.at = "publish", !.permit = pm] = call BY <1>0 DEF CallType
 <2> QED BY <2>1, <2>2 DEF PermitCommit
<1>4. CASE UNCHANGED prop /\ mjob' = NoCall BY <1>1, <1>4, MaintNulls, MaintQuiet DEF MaintInv, MaintType
<1>5. CASE prop' = [prop EXCEPT ![p] = r] /\ mjob' = call /\ old = mjob.seen /\ prop[p].state = "consented"
 <2>1. mjob.seen.gen = prop[p].gen /\ mjob.seen.permit = prop[p].permit
  <3>1. old.gen = prop[p].gen /\ old.permit = prop[p].permit BY <1>2 DEF RowType
  <3> QED BY <1>5, <3>1
 <2>2. /\ prop[p].gen \in Nat /\ prop[p].permit \in PermitType /\ RowWhole(prop[p])
       /\ mjob.cert => prop[p].gen \in queue[p].tomb
  BY <1>0, <1>2, <2>1 DEF RowType, MaintInv, PermitsFenced, PermitKnows
 <2>3. /\ pm \in PermitType /\ pm.gen >= 1
       /\ \/ pm = prop[p].permit
          \/ /\ pm.gen = prop[p].gen + 1
             /\ prop[p].gen = 0 \/ prop[p].gen \in queue[p].tomb
  <3>1. CASE Repairing(mjob)
   <4>1. pm = prop[p].permit /\ prop[p].permit # NoPermit BY <2>1, <3>1 DEF NextPermit, Repairing
   <4>2. pm.gen = prop[p].gen /\ prop[p].gen # 0 BY <2>2, <4>1 DEF RowWhole
   <4> QED BY <2>2, <4>1, <4>2
  <3>2. CASE ~Repairing(mjob)
   <4>1. pm = [gen |-> prop[p].gen + 1, boot |-> now.boot, deadline |-> now.tick + Window]
    BY <2>1, <3>2 DEF NextPermit
   <4>2. prop[p].gen = 0 \/ prop[p].gen \in queue[p].tomb BY <2>1, <2>2, <3>2, MaintNulls DEF Repairing, RowWhole
   <4> QED BY <1>2, <2>2, <4>1, <4>2 DEF PermitType
  <3> QED BY <3>1, <3>2
 <2> HIDE DEF pm
 <2>4. pm.gen \in Nat BY <2>3 DEF PermitType
 <2>5. r0 \in RowType /\ r0.gen = pm.gen /\ r0.state = prop[p].state BY <1>2, <2>4 DEF RowType
 <2> HIDE DEF r0
 <2>6. r \in RowType /\ r.gen = pm.gen /\ r.permit = pm /\ r.state = prop[p].state BY <2>3, <2>5 DEF RowType
 <2>7. c0 \in CallType /\ c0.at = "publish" /\ c0.p = p /\ c0.seen = mjob.seen BY <1>0, CallMoves
 <2> HIDE DEF c0
 <2>8. call \in CallType /\ call.at = "publish" /\ call.p = p /\ call.seen = mjob.seen /\ call.permit = pm
  BY <2>3, <2>7 DEF CallType
 <2> HIDE DEF r, call
 <2>9. /\ prop' \in [Proposals -> RowType] /\ prop'[p] = r
       /\ \A q \in Proposals \ {p} : prop'[q] = prop[q] BY <1>2, <1>5, <2>6
 <2>10. MaintType' BY <1>1, <1>5, <2>8, <2>9 DEF MaintInv, MaintType
 <2>11. RowWhole(r) BY <1>5, <2>3, <2>4, <2>6 DEF RowWhole
 <2>12. PermitsFenced'
  <3> SUFFICES ASSUME NEW q \in Proposals
               PROVE  /\ RowWhole(prop'[q])
                      /\ \A x \in published[q].files : x.gen >= 1
                      /\ \A g \in 1..prop'[q].gen : q # current \/ g < prop'[q].gen => g \in queue[q].tomb
                      /\ prop'[q].gen = 0 => queue[q].used = {}
                      /\ queue[q].used # {} => q = current
                      /\ \A g, h \in queue[q].used : g = h BY <1>1 DEF PermitsFenced, RowWhole
  <3>1. CASE q = p
   <4>1. \A g \in 1..prop[p].gen : g < prop[p].gen => g \in queue[p].tomb BY DEF MaintInv, PermitsFenced
   <4>2. pm.gen = prop[p].gen \/ (pm.gen = prop[p].gen + 1 /\ (prop[p].gen = 0 \/ prop[p].gen \in queue[p].tomb))
    BY <2>2, <2>3 DEF RowWhole
   <4>3. \A g \in 1..pm.gen : g < pm.gen => g \in queue[p].tomb BY <2>2, <2>4, <4>1, <4>2
   <4>4. RowWhole(prop'[q]) /\ prop'[q].gen = pm.gen /\ prop'[q].gen # 0 BY <2>3, <2>4, <2>6, <2>9, <2>11, <3>1
   <4>5. /\ \A x \in published[q].files : x.gen >= 1
         /\ queue[q].used # {} => q = current
         /\ \A g, h \in queue[q].used : g = h BY DEF MaintInv, PermitsFenced
   <4> QED BY <1>0, <3>1, <4>3, <4>4, <4>5
  <3>2. CASE q # p BY <2>9, <3>2 DEF MaintInv, PermitsFenced
  <3> QED BY <3>1, <3>2
 <2>13. PermitKnows' BY <1>0, <1>1, <1>5, <2>3, <2>6, <2>8, <2>9 DEF PermitKnows
 <2>14. PublishedIsCommitted'
  <3> SUFFICES ASSUME NEW q \in Proposals
               PROVE  /\ published[q].cur \in published[q].files \union {NoPermit}
                      /\ \A x \in published[q].files : x.gen <= prop'[q].gen /\ (x.gen = prop'[q].gen => x = prop'[q].permit)
   BY <1>1 DEF PublishedIsCommitted
  <3>1. CASE q = p
   <4>1. \A x \in published[p].files :
            x.gen \in Nat /\ x.gen <= prop[p].gen /\ (x.gen = prop[p].gen => x = prop[p].permit)
    BY DEF MaintInv, MaintType, PublishedType, PermitType, PublishedIsCommitted
   <4>2. /\ prop'[q].gen = pm.gen /\ prop'[q].permit = pm
         /\ \/ pm = prop[p].permit /\ pm.gen = prop[p].gen
            \/ pm.gen = prop[p].gen + 1 BY <2>2, <2>3, <2>6, <2>9, <3>1 DEF RowWhole
   <4>3. published[q].cur \in published[q].files \union {NoPermit} BY DEF MaintInv, PublishedIsCommitted
   <4> QED BY <2>2, <2>4, <3>1, <4>1, <4>2, <4>3
  <3>2. CASE q # p BY <2>9, <3>2 DEF MaintInv, PublishedIsCommitted
  <3> QED BY <3>1, <3>2
 <2> QED BY <2>10, <2>12, <2>13, <2>14 DEF MaintInv
<1> QED BY <1>3, <1>4, <1>5

\* A step of the publication: one proposal's files change.
LEMMA FilesStep ==
  ASSUME MaintInv, NEW p \in Proposals, NEW f \in PublishedType,
    published' = [published EXCEPT ![p] = f],
    UNCHANGED <<prop, current, policy, now, queue>>, mjob' \in CallType, PermitKnows',
    f.cur \in f.files \union {NoPermit},
    \A x \in f.files : /\ x.gen >= 1 /\ x.gen <= prop[p].gen
                       /\ x.gen = prop[p].gen => x = prop[p].permit
  PROVE  MaintInv'
<1>1. /\ published' \in [Proposals -> PublishedType] /\ published'[p] = f
      /\ \A q \in Proposals \ {p} : published'[q] = published[q] BY DEF MaintInv, MaintType
<1>2. MaintType' BY <1>1 DEF MaintInv, MaintType
<1>3. PermitsFenced' BY <1>1 DEF MaintInv, PermitsFenced
<1>4. PublishedIsCommitted' BY <1>1 DEF MaintInv, PublishedIsCommitted
<1> QED BY <1>2, <1>3, <1>4 DEF MaintInv

\* Publishing a permit keeps it.
LEMMA PermitPublishStep == MaintInv /\ PermitPublish => MaintInv'
<1> SUFFICES ASSUME MaintInv, PermitPublish PROVE MaintInv' OBVIOUS
<1>0. /\ mjob.at = "publish" /\ mjob \in CallType /\ mjob.p \in Proposals /\ mjob.p = current /\ RowWhole(mjob.seen)
      /\ mjob.permit = prop[mjob.p].permit /\ mjob.permit.gen >= 1 /\ mjob.permit \in PermitType
 BY DEF PermitPublish, MaintInv, MaintType, PermitKnows, CallType
<1> PICK p \in Proposals : p = mjob.p BY <1>0
<1> DEFINE f == [published[p] EXCEPT !.files = published[p].files \union {mjob.permit}]
           call == [mjob EXCEPT !.at = "point"]
<1>1. /\ UNCHANGED <<prop, current, policy, now, queue>>
      /\ \/ UNCHANGED published /\ mjob' = NoCall
         \/ published' = [published EXCEPT ![p] = f] /\ mjob' = call BY DEF PermitPublish
<1>2. CASE UNCHANGED published /\ mjob' = NoCall BY <1>1, <1>2, MaintNulls, MaintQuiet DEF MaintInv, MaintType
<1>3. CASE published' = [published EXCEPT ![p] = f] /\ mjob' = call
 <2>1. published \in [Proposals -> PublishedType] /\ published[p] \in PublishedType BY DEF MaintInv, MaintType
 <2>2. f \in PublishedType /\ f.files = published[p].files \union {mjob.permit} /\ f.cur = published[p].cur
  BY <1>0, <2>1 DEF PublishedType
 <2>3. /\ call \in CallType /\ call.at = "point" /\ call.p = p /\ call.seen = mjob.seen
       /\ call.permit = mjob.permit BY <1>0, CallMoves
 <2> HIDE DEF f, call
 <2>4. published'[p] = f BY <1>3, <2>1
 <2>5. PermitKnows' BY <1>0, <1>1, <1>3, <2>2, <2>3, <2>4 DEF PermitKnows
 <2>6. prop[p].gen = mjob.permit.gen /\ prop[p].gen \in Nat
  BY <1>0 DEF MaintInv, MaintType, RowType, PermitsFenced, RowWhole
 <2>7. \A x \in f.files : x.gen >= 1 /\ x.gen <= prop[p].gen /\ (x.gen = prop[p].gen => x = prop[p].permit)
  BY <1>0, <2>2, <2>6 DEF MaintInv, PermitsFenced, PublishedIsCommitted
 <2>8. f.cur \in f.files \union {NoPermit} BY <2>2 DEF MaintInv, PublishedIsCommitted
 <2> QED BY <1>1, <1>3, <2>2, <2>3, <2>5, <2>7, <2>8, FilesStep
<1> QED BY <1>1, <1>2, <1>3

\* Moving the pointer keeps it.
LEMMA PermitPointStep == MaintInv /\ PermitPoint => MaintInv'
<1> SUFFICES ASSUME MaintInv, PermitPoint PROVE MaintInv' OBVIOUS
<1>0. /\ mjob.at = "point" /\ mjob \in CallType /\ mjob.p \in Proposals
      /\ mjob.permit \in published[mjob.p].files /\ mjob.permit \in PermitType
 BY DEF PermitPoint, MaintInv, MaintType, PermitKnows, CallType
<1> PICK p \in Proposals : p = mjob.p BY <1>0
<1> DEFINE f == [published[p] EXCEPT !.cur = mjob.permit]
<1>1. /\ UNCHANGED <<prop, current, policy, now, queue>>
      /\ published' = [published EXCEPT ![p] = f] /\ mjob' = NoCall BY DEF PermitPoint
<1>2. published[p] \in PublishedType BY DEF MaintInv, MaintType
<1>3. f \in PublishedType /\ f.files = published[p].files /\ f.cur = mjob.permit BY <1>0, <1>2 DEF PublishedType
<1> HIDE DEF f
<1>4. PermitKnows' BY <1>1, MaintNulls DEF PermitKnows
<1>5. \A x \in f.files : x.gen >= 1 /\ x.gen <= prop[p].gen /\ (x.gen = prop[p].gen => x = prop[p].permit)
 BY <1>3 DEF MaintInv, PermitsFenced, PublishedIsCommitted
<1> QED BY <1>0, <1>1, <1>3, <1>4, <1>5, MaintNulls, FilesStep

------------------------------
\* The queue finds every generation fenced off but the newest of the current proposal.
LEMMA QueueStep ==
  ASSUME MaintInv, NEW p \in Proposals, QueueConsume(p) \/ QueueCertify(p)
  PROVE  MaintInv'
<1> DEFINE g == Presented(p).gen
           q1 == [queue[p] EXCEPT !.used = {g}]
           q2 == [queue[p] EXCEPT !.tomb = queue[p].tomb \union {g}]
           q3 == [queue[p] EXCEPT !.cert = queue[p].cert \union {g}]
<1>1. /\ UNCHANGED <<prop, current, policy, now, published, mjob>> /\ Presented(p) # NoPermit
      /\ queue[p].used = {}
      /\ \/ queue' = [queue EXCEPT ![p] = q1] /\ g \notin queue[p].tomb
         \/ queue' = [queue EXCEPT ![p] = q2]
         \/ queue' = [queue EXCEPT ![p] = q3] BY DEF QueueConsume, QueueCertify
<1>2. queue \in [Proposals -> QueueType] /\ queue[p] \in QueueType BY DEF MaintInv, MaintType
<1>3. /\ Presented(p) \in published[p].files /\ g \in Nat /\ g >= 1 /\ g <= prop[p].gen /\ prop[p].gen \in Nat
 BY <1>1 DEF Presented, MaintInv, MaintType, RowType, PublishedType, PermitType, PublishedIsCommitted, PermitsFenced
<1>4. g \notin queue[p].tomb => p = current BY <1>3 DEF MaintInv, PermitsFenced
<1> HIDE DEF g
<1>5. /\ q1 \in QueueType /\ q1.used = {g} /\ q1.tomb = queue[p].tomb
      /\ q2 \in QueueType /\ q2.used = queue[p].used /\ q2.tomb = queue[p].tomb \union {g}
      /\ q3 \in QueueType /\ q3.used = queue[p].used /\ q3.tomb = queue[p].tomb BY <1>2, <1>3 DEF QueueType
<1> HIDE DEF q1, q2, q3
<1>6. /\ queue' \in [Proposals -> QueueType]
      /\ \A q \in Proposals \ {p} : queue'[q] = queue[q]
      /\ queue[p].tomb \subseteq queue'[p].tomb
      /\ queue'[p].used # {} => p = current /\ prop[p].gen # 0
      /\ \A x, y \in queue'[p].used : x = y BY <1>1, <1>2, <1>3, <1>4, <1>5
<1>7. MaintType' BY <1>1, <1>6 DEF MaintInv, MaintType
<1>8. PermitsFenced' BY <1>1, <1>6 DEF MaintInv, PermitsFenced
<1>9. PermitKnows' BY <1>1, <1>6 DEF MaintInv, PermitKnows
<1>10. PublishedIsCommitted' BY <1>1 DEF MaintInv, PublishedIsCommitted
<1> QED BY <1>7, <1>8, <1>9, <1>10 DEF MaintInv

\* Every step, and stuttering, preserves the invariant.
LEMMA MaintNextInv == MaintInv /\ [MaintNext]_maintVars => MaintInv'
<1> SUFFICES ASSUME MaintInv, [MaintNext]_maintVars PROVE MaintInv' OBVIOUS
<1>1. CASE UNCHANGED maintVars BY <1>1, MaintQuiet DEF MaintInv, MaintType, maintVars
<1>2. CASE MaintNext
 <2>1. CASE \E p \in Proposals, s \in Schemas, f \in Flaws : Register(p, s, f) BY <2>1, ProposalStep
 <2>2. CASE \E p \in Proposals : NoticeSent(p) BY <2>2, NoticeSentStep
 <2>3. CASE \E p \in Proposals, m \in Mids, v \in Verbs, t \in BOOLEAN : Message(m, p, v, t) BY <2>3, MessageStep
 <2>4. CASE \E p \in Proposals, c \in BOOLEAN : PermitObserve(p, c) BY <2>4, PermitObserveStep
 <2>5. CASE \E p \in Proposals : QueueConsume(p) \/ QueueCertify(p) BY <2>5, QueueStep
 <2>6. CASE \E p \in Proposals : Expire(p) BY <2>6, ExpireStep
 <2>7. CASE PermitCertify \/ PermitCommit \/ PermitPublish \/ PermitPoint
  BY <2>7, PermitCertifyStep, PermitCommitStep, PermitPublishStep, PermitPointStep
 <2>8. CASE MaintTick \/ AdmindCrash \/ Reboot \/ \E n \in 0..2 : PolicyChanges(n) BY <2>8, MaintDisturbed
 <2> QED BY <1>2, <2>1, <2>2, <2>3, <2>4, <2>5, <2>6, <2>7, <2>8 DEF MaintNext
<1> QED BY <1>1, <1>2

\* The invariant says that the operation is settled once.
LEMMA MaintInvSays == MaintInv => OneSettlement
<1> SUFFICES ASSUME MaintInv PROVE OneSettlement OBVIOUS
<1> DEFINE S == {pg \in Proposals \X (1..MaxGeneration) : pg[2] \in queue[pg[1]].used}
<1>1. \A x, y \in S : x = y
 <2> SUFFICES ASSUME NEW x \in S, NEW y \in S PROVE x = y OBVIOUS
 <2>1. x[1] = current /\ y[1] = current BY DEF MaintInv, PermitsFenced
 <2>2. x[2] = y[2] BY <2>1 DEF MaintInv, PermitsFenced
 <2> QED BY <2>1, <2>2
<1>2. Cardinality(S) <= 1
 <2>1. CASE S = {} BY <2>1, FS_EmptySet
 <2>2. CASE S # {}
  <3>1. PICK x \in S : TRUE BY <2>2
  <3>2. S = {x} BY <1>1, <3>1
  <3> HIDE DEF S
  <3> QED BY <3>2, FS_Singleton
 <2> QED BY <2>1, <2>2
<1> QED BY <1>2 DEF OneSettlement

------------------------------
\* The interrupted operation is settled under at most one permit (Service.supersede,
\* Service.permit), however its proposals are superseded and its permits reissued.
THEOREM SettledOnce == MaintSpec => []OneSettlement
<1>1. MaintSpec => []MaintInv BY MaintInitInv, MaintNextInv, PTL DEF MaintSpec
<1> QED BY <1>1, MaintInvSays, PTL

\* The published permits are the committed ones (Service.permit), through any crash
\* between the commit and the publication, and any repair.
THEOREM FilesCommitted == MaintSpec => []PublishedIsCommitted
<1>1. MaintSpec => []MaintInv BY MaintInitInv, MaintNextInv, PTL DEF MaintSpec
<1>2. MaintInv => PublishedIsCommitted BY DEF MaintInv
<1> QED BY <1>1, <1>2, PTL

==============================
