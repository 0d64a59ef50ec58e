-------------------------- MODULE AgentTurnsProofs --------------------------
(***************************************************************************)
(* Theorems about AgentTurns, for any messages, any number of launches and *)
(* disturbances: no message is pasted twice or forgotten, a reply is the   *)
(* text of its own turn, and a prompt goes only to an agent that no hook   *)
(* has told admind is running.                                             *)
(***************************************************************************)
EXTENDS AgentTurns, SequenceTheorems, FiniteSetTheorems, WellFoundedInduction, TLAPS

Message == Msgs \cup {None}
Sending   == [name : {"send"}, msg : Msgs, done : BOOLEAN]
Launching == [name : {"start", "new"}, step : {"begun", "issued", "spawned"}]
Breaking  == [name : {"interrupt"}, done : BOOLEAN, target : Message, anchor : Message, busy : Nat]
Restart   == [name |-> "restart"]

JobType == job \in {Free, Restart} \cup Sending \cup Launching \cup Breaking

\* The types of what a message's way through the queue reads and writes.
PromptType ==
    /\ status \in [Msgs -> {"none", "received", "dispatched", "done", "dropped"}]
    /\ inFlight \in Message /\ anchor \in Message
    /\ live \in BOOLEAN /\ held \in Seq(Msgs) /\ pastes \in [Msgs -> Nat] /\ busy \in Nat /\ seq \in Nat

\* The queue holds each message once, and only ones that were received and not dispatched.
HeldOnce == /\ \A i, j \in 1 .. Len(held) : i # j => held[i] # held[j]
            /\ \A i \in 1 .. Len(held) : status[held[i]] = "received"

\* The reservation is dispatched, and only it can be anchored.
FlightDispatched == /\ inFlight # None => status[inFlight] = "dispatched"
                    /\ anchor # None => anchor = inFlight

\* A message that may still be dispatched has not reached the pane, nor has the one being sent before the
\* paste is done; the reservation stays while it is sent.
NotYetPasted ==
    /\ \A m \in Msgs : status[m] \in {"none", "received"} => pastes[m] = 0
    /\ job.name = "send" => /\ inFlight = job.msg
                            /\ ~job.done => pastes[job.msg] = 0

\* A crash leaves nothing in memory.
DownHoldsNothing == ~live => held = <<>> /\ job = Free

PromptInv == /\ JobType /\ PromptType /\ HeldOnce /\ FlightDispatched /\ NotYetPasted /\ DownHoldsNothing
             /\ PastedOnce /\ NoneForgotten

promptVars == <<status, inFlight, anchor, live, held, pastes, busy, seq, told, replies, job>>

------------------------------
(* Sequences and least elements. *)

\* The natural numbers' order is well-founded, in the form the library's theorem takes.
LEMMA NatBelow == \E R : IsWellFoundedOn(R, Nat) /\ \A y, z \in Nat : y < z => <<y, z>> \in R
<1>1. \A y, z \in Nat : y < z => <<y, z>> \in OpToRel(<, Nat) BY DEF OpToRel
<1> QED BY <1>1, NatLessThanWellFounded

\* A set of natural numbers has a least element.
LEMMA Least ==
  ASSUME NEW S, S \subseteq Nat, S # {}
  PROVE  \E g \in S : \A h \in S : g <= h
<1>1. PICK R : IsWellFoundedOn(R, Nat) /\ \A y, z \in Nat : y < z => <<y, z>> \in R BY NatBelow
<1>2. PICK x \in S : \A y \in S : <<y, x>> \notin R
 <2>1. IsWellFoundedOn(R, Nat) BY <1>1
 <2> QED BY <2>1, WFMin, Zenon
<1>3. ASSUME NEW h \in S PROVE x <= h
 <2>1. x \in Nat /\ h \in Nat OBVIOUS
 <2>2. h < x => <<h, x>> \in R BY <1>1, <2>1
 <2>3. ~(h < x) BY <1>2, <2>2
 <2> QED BY <2>1, <2>3
<1> QED BY <1>3

LEMMA InToSet ==
  ASSUME NEW S, NEW s \in Seq(S), NEW x
  PROVE  x \in ToSet(s) <=> \E i \in 1 .. Len(s) : s[i] = x
BY DEF ToSet

LEMMA ToSetGrows ==
  ASSUME NEW S, NEW s \in Seq(S), NEW t \in Seq(S),
    \A i \in 1 .. Len(s) : \E j \in 1 .. Len(t) : t[j] = s[i]
  PROVE  ToSet(s) \subseteq ToSet(t)
<1> SUFFICES ASSUME NEW x \in ToSet(s) PROVE x \in ToSet(t) OBVIOUS
<1>1. PICK i \in 1 .. Len(s) : s[i] = x BY InToSet
<1>2. PICK j \in 1 .. Len(t) : t[j] = x BY <1>1
<1> QED BY <1>2, InToSet

\* The messages whose senders were revoked are a prefix of the queue.
LEMMA LeadIsPrefix ==
  ASSUME held \in Seq(Msgs)
  PROVE  \E k \in 0 .. Len(held) : Lead = 1 .. k /\ Cardinality(Lead) = k
<1> DEFINE S == {i \in Nat : i = Len(held) + 1 \/ (i \in 1 .. Len(held) /\ held[i] \notin revoked)}
<1>1. Len(held) \in Nat /\ DOMAIN held = 1 .. Len(held) OBVIOUS
<1>2. S \subseteq Nat /\ S # {} /\ \A i \in S : i >= 1 /\ i <= Len(held) + 1 BY <1>1
<1>3. PICK g \in S : \A h \in S : g <= h BY <1>2, Least
<1>4. PICK k \in 0 .. Len(held) : k = g - 1 BY <1>1, <1>2
<1>5. ASSUME NEW i \in 1 .. Len(held) PROVE i \in Lead <=> i <= k
 <2>1. CASE i <= k
  <3>1. \A j \in 1 .. i : j \notin S BY <1>1, <1>3, <1>4, <2>1
  <3>2. \A j \in 1 .. i : held[j] \in revoked BY <1>1, <3>1
  <3> QED BY <1>1, <2>1, <3>2 DEF Lead
 <2>2. CASE ~(i <= k)
  <3>1. g \in 1 .. i /\ g \in 1 .. Len(held) BY <1>1, <1>2, <1>4, <2>2
  <3>2. held[g] \notin revoked BY <1>1, <3>1
  <3> QED BY <2>2, <3>1, <3>2 DEF Lead
 <2> QED BY <2>1, <2>2
<1>6. Lead = 1 .. k
 <2>1. Lead \subseteq 1 .. Len(held) BY <1>1 DEF Lead
 <2>2. \A i \in Lead : i \in 1 .. k BY <1>1, <1>5, <2>1
 <2>3. \A i \in 1 .. k : i \in Lead BY <1>1, <1>5
 <2> QED BY <2>2, <2>3, Zenon
<1>7. Cardinality(1 .. k) = k BY FS_Interval
<1> QED BY <1>6, <1>7

\* What a flush takes off the queue, and what it leaves.
LEMMA RestOfHeld ==
  ASSUME held \in Seq(Msgs)
  PROVE  \E k \in 0 .. Len(held) :
            /\ Rest \in Seq(Msgs) /\ Len(Rest) = Len(held) - k
            /\ \A i \in 1 .. Len(Rest) : Rest[i] = held[i + k]
            /\ Denied = {held[i] : i \in 1 .. k}
<1>1. PICK k \in 0 .. Len(held) : Lead = 1 .. k /\ Cardinality(Lead) = k BY LeadIsPrefix
<1>2. Rest = SubSeq(held, k + 1, Len(held)) /\ Denied = {held[i] : i \in 1 .. k} BY <1>1 DEF Rest, Denied
<1>3. Len(held) \in Nat /\ k \in Nat /\ k <= Len(held) BY <1>1
<1>4. /\ SubSeq(held, k + 1, Len(held)) \in Seq(Msgs)
      /\ Len(SubSeq(held, k + 1, Len(held))) = IF k + 1 <= Len(held) THEN Len(held) - (k + 1) + 1 ELSE 0
      /\ \A i \in 1 .. Len(held) - (k + 1) + 1 : SubSeq(held, k + 1, Len(held))[i] = held[k + 1 + i - 1]
 <2>1. k + 1 \in 1 .. Len(held) + 1 /\ Len(held) \in (k + 1) - 1 .. Len(held) BY <1>3
 <2> QED BY <1>3, <2>1, SubSeqProperties
<1>5. Len(Rest) = Len(held) - k /\ Rest \in Seq(Msgs) BY <1>2, <1>3, <1>4
<1>6. ASSUME NEW i \in 1 .. Len(Rest) PROVE Rest[i] = held[i + k]
 <2>1. i \in 1 .. Len(held) - (k + 1) + 1 /\ k + 1 + i - 1 = i + k BY <1>3, <1>5
 <2> QED BY <1>2, <1>4, <2>1
<1> QED BY <1>2, <1>5, <1>6

------------------------------
(* The way of a message. *)

\* What each name of a job says of it.
LEMMA JobByName ==
  ASSUME JobType
  PROVE  /\ job.name = "send" => job \in Sending
         /\ job.name \in {"start", "new"} => job \in Launching
         /\ job.name = "interrupt" => job \in Breaking
         /\ job.name = "restart" => job = Restart
         /\ job.name = "free" => job = Free
BY DEF JobType, Sending, Launching, Breaking, Restart, Free

USE DEF Message

\* A step that only goes on with, ends or begins a job other than a send.
LEMMA JobGoesOn ==
  ASSUME PromptInv, JobType', job'.name # "send", live,
    UNCHANGED <<status, inFlight, anchor, live, held, pastes, busy, seq, told, replies>>
  PROVE  PromptInv'
BY MsgsAssumption DEF PromptInv, PromptType, HeldOnce, FlightDispatched, NotYetPasted, DownHoldsNothing, PastedOnce,
  NoneForgotten

LEMMA PromptStays == PromptInv /\ UNCHANGED promptVars => PromptInv'
BY DEF promptVars, PromptInv, JobType, PromptType, HeldOnce, FlightDispatched, NotYetPasted, DownHoldsNothing,
  PastedOnce, NoneForgotten

LEMMA PromptInit == Init => PromptInv
<1> SUFFICES ASSUME Init PROVE PromptInv OBVIOUS
<1>1. live \in BOOLEAN /\ ~live BY DEF Init
<1>2. JobType BY DEF Init, JobType
<1>3. PromptType BY <1>1 DEF Init, PromptType
<1>4. job.name = "free" /\ held = <<>> /\ Len(held) = 0 BY DEF Init, Free
<1> QED
 BY <1>1, <1>2, <1>3, <1>4 DEF Init, PromptInv, HeldOnce, FlightDispatched, NotYetPasted, DownHoldsNothing,
   PastedOnce, NoneForgotten

\* Admind.recover answers the turn in flight and all that waited.
LEMMA PromptRecover ==
  ASSUME PromptInv, Recover, JobType', job' = Free \/ job' \in Launching, busy' \in Nat, seq' \in Nat
  PROVE  PromptInv'
<1>1. held = <<>> /\ held' = <<>> /\ Len(held') = 0 /\ job'.name # "send"
 BY DEF PromptInv, DownHoldsNothing, Recover, Launching, Free
<1>2. live' \in BOOLEAN /\ live' BY DEF Recover
<1>3. PromptType' BY <1>1, <1>2 DEF PromptInv, PromptType, Recover, ClearFlight
<1>4. PastedOnce' /\ NotYetPasted' BY <1>1 DEF PromptInv, PromptType, NotYetPasted, PastedOnce, Recover, ClearFlight
<1>5. NoneForgotten' BY <1>1, MsgsAssumption DEF PromptInv, PromptType, NoneForgotten, Recover, ClearFlight, Tell
<1> QED
 BY <1>1, <1>2, <1>3, <1>4, <1>5 DEF PromptInv, HeldOnce, FlightDispatched, DownHoldsNothing, Recover, ClearFlight

LEMMA PromptStarts ==
  ASSUME PromptInv, StartAdopts \/ StartLaunches \/ StartRefuses
  PROVE  PromptInv'
<1>1. job = Free /\ busy \in Nat /\ seq \in Nat
 <2>1. ~live BY DEF StartAdopts, StartLaunches, StartRefuses, Recover
 <2> QED BY <2>1 DEF PromptInv, PromptType, DownHoldsNothing
<1>2. CASE StartAdopts
 <2>1. job' = Free /\ busy' \in Nat /\ seq' \in Nat BY <1>1, <1>2 DEF StartAdopts, PersistHold, SetBusy
 <2> QED BY <1>2, <2>1, PromptRecover DEF StartAdopts, JobType
<1>3. CASE StartLaunches
 <2>1. job' \in Launching /\ busy' \in Nat /\ seq' \in Nat BY <1>1, <1>3 DEF StartLaunches, Launching
 <2> QED BY <1>3, <2>1, PromptRecover DEF StartLaunches, JobType
<1>4. CASE StartRefuses
 <2>1. job' = Free /\ busy' \in Nat /\ seq' \in Nat BY <1>1, <1>4 DEF StartRefuses
 <2> QED BY <1>4, <2>1, PromptRecover DEF StartRefuses, JobType
<1> QED BY <1>2, <1>3, <1>4

LEMMA PromptCrash ==
  ASSUME PromptInv, Crash
  PROVE  PromptInv'
<1>1. live' \in BOOLEAN /\ ~live' /\ live BY DEF Crash
<1>2. JobType' /\ job'.name = "free" /\ held' = <<>> /\ held' \in Seq(Msgs) /\ Len(held') = 0
 BY DEF Crash, JobType, Free
<1>3. UNCHANGED <<status, inFlight, anchor, pastes, busy, seq, told, replies>>
 BY DEF Crash, store, flight, period, outcome
<1>4. NoneForgotten' BY <1>1, <1>2, <1>3 DEF PromptInv, PromptType, HeldOnce, NoneForgotten, ToSet
<1> QED
 BY <1>1, <1>2, <1>3, <1>4 DEF Crash, PromptInv, PromptType, HeldOnce, FlightDispatched, NotYetPasted,
   DownHoldsNothing, PastedOnce, NoneForgotten

LEMMA PromptReceive ==
  ASSUME PromptInv, NEW m \in Msgs, Receive(m)
  PROVE  PromptInv'
<1>1. UNCHANGED <<inFlight, anchor, live, pastes, busy, seq, told, replies, job>> /\ JobType'
 BY DEF Receive, flight, period, outcome, PromptInv, JobType
<1>2. /\ held' \in Seq(Msgs) /\ Len(held') = Len(held) + 1 /\ held'[Len(held) + 1] = m
      /\ \A i \in 1 .. Len(held) : held'[i] = held[i] BY DEF PromptInv, PromptType, Receive
<1>3. status[m] = "none" /\ live /\ status' = [status EXCEPT ![m] = "received"] BY DEF Receive
<1>4. \A i \in 1 .. Len(held') : i \in 1 .. Len(held) \/ i = Len(held) + 1 BY <1>2 DEF PromptInv, PromptType
<1>a. \A i \in 1 .. Len(held) : held[i] \in Msgs /\ held[i] # m /\ status[held[i]] = "received"
 BY <1>3 DEF PromptInv, PromptType, HeldOnce
<1>b. \A i \in 1 .. Len(held) : status'[held[i]] = "received" BY <1>3, <1>a DEF PromptInv, PromptType
<1>5. HeldOnce'
 <2>1. ASSUME NEW i \in 1 .. Len(held'), NEW j \in 1 .. Len(held'), i # j PROVE held'[i] # held'[j]
  BY <1>2, <1>4, <1>a, <2>1 DEF PromptInv, HeldOnce
 <2>2. ASSUME NEW i \in 1 .. Len(held') PROVE status'[held'[i]] = "received"
  BY <1>2, <1>3, <1>4, <1>b DEF PromptInv, PromptType
 <2> QED BY <2>1, <2>2 DEF HeldOnce
<1>6. NoneForgotten'
 <2>1. ToSet(held) \subseteq ToSet(held')
  <3>1. \A i \in 1 .. Len(held) : \E j \in 1 .. Len(held') : held'[j] = held[i] BY <1>2 DEF PromptInv, PromptType
  <3> QED BY <1>2, <3>1, ToSetGrows DEF PromptInv, PromptType
 <2>2. m \in ToSet(held') BY <1>2, InToSet DEF PromptInv, PromptType
 <2> QED BY <1>1, <1>3, <2>1, <2>2 DEF PromptInv, PromptType, NoneForgotten
<1>7. NotYetPasted' /\ FlightDispatched' BY <1>1, <1>3 DEF PromptInv, PromptType, NotYetPasted, FlightDispatched
<1> QED BY <1>1, <1>2, <1>3, <1>5, <1>6, <1>7 DEF PromptInv, PromptType, DownHoldsNothing, PastedOnce

\* A flush leaves the rest of the queue.
LEMMA HeldSuffix ==
  ASSUME PromptInv, NEW n \in 0 .. Len(held), held' \in Seq(Msgs), Len(held') = Len(held) - n,
    \A i \in 1 .. Len(held') : held'[i] = held[i + n], PromptType',
    \A m \in Msgs : status'[m] = status[m] \/ \E i \in 1 .. n : m = held[i]
  PROVE  /\ HeldOnce'
         /\ \A x \in Msgs : x \in ToSet(held) => x \in ToSet(held') \/ \E i \in 1 .. n : x = held[i]
<1>0. Len(held) \in Nat /\ n \in Nat /\ n <= Len(held) BY DEF PromptInv, PromptType
<1>1. \A i \in 1 .. Len(held') : i + n \in 1 .. Len(held) /\ held[i + n] \in Msgs BY <1>0 DEF PromptInv, PromptType
<1>2. ASSUME NEW i \in 1 .. Len(held'), NEW j \in 1 .. Len(held'), i # j PROVE held'[i] # held'[j]
 <2>1. i + n # j + n /\ held'[i] = held[i + n] /\ held'[j] = held[j + n] BY <1>0, <1>2
 <2> QED BY <1>1, <2>1 DEF PromptInv, HeldOnce
<1>3. ASSUME NEW i \in 1 .. Len(held') PROVE status'[held'[i]] = "received"
 <2>1. held'[i] = held[i + n] /\ i + n \in 1 .. Len(held) /\ held[i + n] \in Msgs BY <1>1
 <2>2. \A j \in 1 .. n : j \in 1 .. Len(held) /\ j # i + n BY <1>0
 <2>3. \A j \in 1 .. n : held[i + n] # held[j] BY <2>1, <2>2 DEF PromptInv, HeldOnce
 <2> QED BY <2>1, <2>3 DEF PromptInv, HeldOnce
<1>4. ASSUME NEW x \in Msgs, x \in ToSet(held), x \notin ToSet(held') PROVE \E i \in 1 .. n : x = held[i]
 <2>1. PICK i \in 1 .. Len(held) : held[i] = x BY <1>4, InToSet DEF PromptInv, PromptType
 <2>2. CASE i <= n BY <1>0, <2>1, <2>2
 <2>3. CASE ~(i <= n)
  <3>1. i - n \in 1 .. Len(held') /\ (i - n) + n = i BY <1>0, <2>3
  <3>2. held'[i - n] = x BY <2>1, <3>1
  <3> QED BY <1>4, <3>1, <3>2, InToSet
 <2> QED BY <2>2, <2>3
<1> QED BY <1>2, <1>3, <1>4 DEF HeldOnce

\* A flush that dispatches nothing.
LEMMA PromptTakesOff ==
  ASSUME PromptInv, held' = Rest, told \subseteq told', Denied \subseteq told', live,
    status' = [m \in Msgs |-> IF m \in Denied THEN "dropped" ELSE status[m]],
    UNCHANGED <<inFlight, anchor, live, pastes, busy, seq, replies, job>>
  PROVE  PromptInv'
<1>1. PICK n \in 0 .. Len(held) :
            /\ Rest \in Seq(Msgs) /\ Len(Rest) = Len(held) - n
            /\ \A i \in 1 .. Len(Rest) : Rest[i] = held[i + n]
            /\ Denied = {held[i] : i \in 1 .. n} BY RestOfHeld DEF PromptInv, PromptType
<1>2. PromptType' BY <1>1 DEF PromptInv, PromptType
<1>3. \A m \in Msgs : status'[m] = status[m] \/ \E i \in 1 .. n : m = held[i] BY <1>1
<1>4. /\ HeldOnce'
      /\ \A x \in Msgs : x \in ToSet(held) => x \in ToSet(held') \/ \E i \in 1 .. n : x = held[i]
 BY <1>1, <1>2, <1>3, HeldSuffix
<1>5. \A i \in 1 .. n : held[i] \in Msgs /\ status[held[i]] = "received" BY DEF PromptInv, PromptType, HeldOnce
<1>6. FlightDispatched'
 <2>1. inFlight # None => inFlight \notin Denied BY <1>1, <1>5 DEF PromptInv, FlightDispatched
 <2> QED BY <2>1 DEF PromptInv, PromptType, FlightDispatched
<1>7. NotYetPasted' BY DEF PromptInv, PromptType, NotYetPasted
<1>8. NoneForgotten'
 <2>1. \A x \in Msgs : x \in ToSet(held) => x \in ToSet(held') \/ x \in told' BY <1>1, <1>4
 <2> QED BY <2>1 DEF PromptInv, PromptType, NoneForgotten
<1> QED BY <1>2, <1>4, <1>6, <1>7, <1>8 DEF PromptInv, JobType, DownHoldsNothing, PastedOnce

LEMMA PromptFlush ==
  ASSUME PromptInv, FlushStuck \/ FlushDenies
  PROVE  PromptInv'
<1>0. Denied \subseteq Msgs /\ Denied \subseteq ToSet(held) BY DEF Denied, Lead, ToSet, PromptInv, PromptType
<1>1. /\ held' = Rest /\ told \subseteq told' /\ Denied \subseteq told' /\ live
 BY <1>0, MsgsAssumption DEF FlushStuck, FlushDenies, Flushing, Tell
<1>2. status' = [m \in Msgs |-> IF m \in Denied THEN "dropped" ELSE status[m]] BY DEF FlushStuck, FlushDenies
<1>3. UNCHANGED <<inFlight, anchor, live, pastes, busy, seq, replies, job>>
 BY DEF FlushStuck, FlushDenies, flight, period
<1> QED BY <1>1, <1>2, <1>3, PromptTakesOff

LEMMA PromptDispatch ==
  ASSUME PromptInv, Dispatch
  PROVE  PromptInv'
<1>1. PICK k \in 0 .. Len(held) :
            /\ Rest \in Seq(Msgs) /\ Len(Rest) = Len(held) - k
            /\ \A i \in 1 .. Len(Rest) : Rest[i] = held[i + k]
            /\ Denied = {held[i] : i \in 1 .. k} BY RestOfHeld DEF PromptInv, PromptType
<1>2. Rest # <<>> /\ held' = Tail(Rest) /\ inFlight' = Head(Rest) BY DEF Dispatch
<1>3. PICK h \in Msgs : h = Head(Rest) /\ h = held[k + 1] /\ k + 1 \in 1 .. Len(held)
 <2>1. Len(held) \in Nat /\ k \in Nat /\ Rest \in Seq(Msgs) /\ Len(Rest) # 0 BY <1>1, <1>2 DEF PromptInv, PromptType
 <2>2. 1 \in 1 .. Len(Rest) /\ 1 + k = k + 1 /\ k + 1 \in 1 .. Len(held) BY <1>1, <2>1
 <2>3. Head(Rest) = Rest[1] /\ Rest[1] \in Msgs /\ Rest[1] = held[k + 1] BY <1>1, <2>1, <2>2
 <2> QED BY <2>2, <2>3
<1>4. /\ inFlight = None /\ live /\ job = Free /\ inFlight' = h /\ told' = told \cup (Denied \ {None})
      /\ status' = [m \in Msgs |-> IF m \in Denied THEN "dropped"
                                   ELSE IF m = h THEN "dispatched" ELSE status[m]]
      /\ job' = [name |-> "send", msg |-> h, done |-> FALSE]
      /\ busy' = seq + 1 /\ seq' = seq + 1 /\ UNCHANGED <<anchor, live, pastes, replies>>
 BY <1>3 DEF Dispatch, Flushing, MayPaste, Tell, SetBusy
<1>5. PICK n \in 0 .. Len(held) : n = k + 1 BY <1>3
<1>6. /\ held' \in Seq(Msgs) /\ Len(held') = Len(held) - n
      /\ \A i \in 1 .. Len(held') : held'[i] = held[i + n]
 <2>1. Len(held) \in Nat /\ k \in Nat /\ Rest \in Seq(Msgs) BY <1>1 DEF PromptInv, PromptType
 <2>2. /\ Tail(Rest) \in Seq(Msgs) /\ Len(Tail(Rest)) = Len(Rest) - 1
       /\ \A i \in 1 .. Len(Tail(Rest)) : Tail(Rest)[i] = Rest[i + 1] BY <1>2, <2>1, HeadTailProperties
 <2>3. \A i \in 1 .. Len(Tail(Rest)) : i + 1 \in 1 .. Len(Rest) /\ (i + 1) + k = i + n BY <1>1, <1>5, <2>1, <2>2
 <2> QED BY <1>1, <1>2, <1>5, <2>1, <2>2, <2>3
<1>7. PromptType' BY <1>4, <1>6 DEF PromptInv, PromptType
<1>8. \A m \in Msgs : status'[m] = status[m] \/ \E i \in 1 .. n : m = held[i]
 <2>1. \A i \in 1 .. k : i \in 1 .. n BY <1>5
 <2>2. n \in 1 .. n /\ h = held[n] BY <1>3, <1>5
 <2>3. \A m \in Denied : \E i \in 1 .. n : m = held[i] BY <1>1, <2>1
 <2> QED BY <1>4, <2>2, <2>3
<1>9. /\ HeldOnce'
      /\ \A x \in Msgs : x \in ToSet(held) => x \in ToSet(held') \/ \E i \in 1 .. n : x = held[i]
 BY <1>6, <1>7, <1>8, HeldSuffix
<1>10. h \notin Denied /\ pastes[h] = 0 /\ Denied \subseteq Msgs
 <2>1. \A i \in 1 .. k : i \in 1 .. Len(held) /\ i # k + 1 BY <1>3
 <2>2. \A i \in 1 .. k : held[i] # h /\ held[i] \in Msgs BY <1>3, <2>1 DEF PromptInv, PromptType, HeldOnce
 <2>3. status[h] = "received" BY <1>3 DEF PromptInv, HeldOnce
 <2> QED BY <1>1, <2>2, <2>3 DEF PromptInv, NotYetPasted
<1>11. FlightDispatched' BY <1>4, <1>10 DEF PromptInv, PromptType, FlightDispatched
<1>12. NotYetPasted' /\ JobType'
 <2>1. job'.name = "send" /\ job'.msg = h /\ job' \in Sending BY <1>4 DEF Sending
 <2> QED BY <1>4, <1>10, <2>1 DEF PromptInv, PromptType, NotYetPasted, JobType
<1>13. NoneForgotten'
 <2>1. \A x \in Msgs : x \in ToSet(held) => x \in ToSet(held') \/ x \in told' \/ x = inFlight'
  <3>1. \A i \in 1 .. n : i \in 1 .. k \/ i = k + 1 BY <1>5
  <3>2. \A i \in 1 .. n : held[i] \in Denied \/ held[i] = h BY <1>1, <1>3, <3>1
  <3> QED BY <1>4, <1>9, <1>10, <3>2, MsgsAssumption
 <2>2. \A x \in Msgs : status'[x] # "none" => status[x] # "none" \/ x \in told' \/ x = inFlight'
  BY <1>4, <1>10, MsgsAssumption DEF PromptInv, PromptType
 <2>3. told \subseteq told' /\ inFlight = None /\ live BY <1>4
 <2> QED BY <1>4, <2>1, <2>2, <2>3, MsgsAssumption DEF PromptInv, PromptType, NoneForgotten
<1> QED BY <1>4, <1>7, <1>9, <1>11, <1>12, <1>13 DEF PromptInv, DownHoldsNothing, PastedOnce

LEMMA JobLives == PromptInv /\ job.name # "free" => live
BY DEF PromptInv, DownHoldsNothing, Free

\* The steps that only move a job on, and those that begin or end one.
LEMMA PromptJob ==
  ASSUME PromptInv,
    SendReturns \/ Restarted \/ InterruptBegins \/ EscapeLands \/ InterruptFails
      \/ NewIssued \/ PaneSpawned \/ LaunchReturns \/ LaunchFails
  PROVE  PromptInv'
<1>0. JobType /\ PromptType BY DEF PromptInv
<1>1. UNCHANGED <<status, inFlight, anchor, live, held, pastes, busy, seq, told, replies>>
 BY DEF SendReturns, Restarted, InterruptBegins, EscapeLands, InterruptFails, NewIssued, PaneSpawned, LaunchReturns,
   LaunchFails, store, flight, period, outcome
<1>2. live
 <2>1. CASE InterruptBegins BY <2>1 DEF InterruptBegins
 <2>2. CASE ~InterruptBegins
  BY <2>2, JobLives DEF SendReturns, Restarted, EscapeLands, InterruptFails, NewIssued, PaneSpawned, LaunchReturns,
    LaunchFails
 <2> QED BY <2>1, <2>2
<1>3. JobType' /\ job'.name # "send"
 <2>1. CASE SendReturns \/ Restarted \/ InterruptFails \/ LaunchReturns \/ LaunchFails
  BY <2>1 DEF SendReturns, Restarted, InterruptFails, LaunchReturns, LaunchFails, JobType, Free
 <2>2. CASE InterruptBegins
  <3>1. /\ job' = [name |-> "interrupt", done |-> FALSE, target |-> inFlight, anchor |-> anchor, busy |-> busy]
   BY <2>2 DEF InterruptBegins
  <3>2. job' \in Breaking BY <1>0, <3>1 DEF Breaking, PromptType
  <3> QED BY <3>1, <3>2 DEF JobType
 <2>3. CASE EscapeLands
  <3>1. job \in Breaking /\ job' = [job EXCEPT !.done = TRUE] BY <1>0, <2>3, JobByName DEF EscapeLands
  <3>2. job' \in Breaking BY <3>1 DEF Breaking
  <3> QED BY <3>2 DEF JobType, Breaking
 <2>4. CASE NewIssued
  <3>1. job \in Launching /\ job' = [job EXCEPT !.step = "issued"] BY <1>0, <2>4, JobByName DEF NewIssued
  <3>2. job' \in Launching BY <3>1 DEF Launching
  <3> QED BY <3>2 DEF JobType, Launching
 <2>5. CASE PaneSpawned
  <3>1. job \in Launching /\ job' = [job EXCEPT !.step = "spawned"] BY <1>0, <2>5, JobByName DEF PaneSpawned
  <3>2. job' \in Launching BY <3>1 DEF Launching
  <3> QED BY <3>2 DEF JobType, Launching
 <2> QED BY <2>1, <2>2, <2>3, <2>4, <2>5
<1> QED BY <1>1, <1>2, <1>3, JobGoesOn

LEMMA PromptPaste ==
  ASSUME PromptInv, PasteLands
  PROVE  PromptInv'
<1>1. /\ job \in Sending /\ job.name = "send" /\ ~job.done /\ job' = [job EXCEPT !.done = TRUE]
      /\ pastes' = [pastes EXCEPT ![job.msg] = @ + 1] BY JobByName DEF PasteLands, PromptInv
<1>2. PICK m \in Msgs : m = job.msg BY <1>1 DEF Sending
<1>3. job' = [name |-> "send", msg |-> m, done |-> TRUE] BY <1>1, <1>2 DEF Sending
<1>4. job' \in Sending /\ job'.name = "send" /\ job'.msg = m /\ job'.done BY <1>3 DEF Sending
<1>5. JobType' /\ live BY <1>1, <1>4, JobLives DEF JobType
<1>6. UNCHANGED <<status, inFlight, anchor, live, held, busy, seq, told, replies>>
 BY DEF PasteLands, store, flight, period
<1>7. pastes[m] = 0 /\ inFlight = m /\ status[m] = "dispatched"
 BY <1>1, <1>2, MsgsAssumption DEF PromptInv, NotYetPasted, FlightDispatched
<1>8. pastes' \in [Msgs -> Nat] /\ pastes'[m] = 1 /\ \A x \in Msgs : x # m => pastes'[x] = pastes[x]
 BY <1>1, <1>2, <1>7 DEF PromptInv, PromptType
<1>9. PromptType' BY <1>6, <1>8 DEF PromptInv, PromptType
<1>10. PastedOnce' BY <1>8 DEF PromptInv, PastedOnce
<1>11. NotYetPasted' BY <1>4, <1>6, <1>7, <1>8 DEF PromptInv, NotYetPasted
<1> QED BY <1>5, <1>6, <1>9, <1>10, <1>11 DEF PromptInv, HeldOnce, FlightDispatched, DownHoldsNothing, NoneForgotten

\* A send that reached nothing puts its message back at the head of the queue.
LEMMA PromptSendFails ==
  ASSUME PromptInv, SendFails
  PROVE  PromptInv'
<1>1. job \in Sending /\ job.name = "send" /\ ~job.done /\ job' = Restart /\ live
 BY JobByName, JobLives DEF SendFails, PromptInv, Restart
<1>2. PICK m \in Msgs : m = job.msg BY <1>1 DEF Sending
<1>3. inFlight = m /\ pastes[m] = 0 /\ status[m] = "dispatched" /\ (anchor = m \/ anchor = None)
 BY <1>1, <1>2, MsgsAssumption DEF PromptInv, NotYetPasted, FlightDispatched
<1>4. /\ inFlight' = None /\ anchor' = None /\ status' = [status EXCEPT ![m] = "received"]
      /\ held' = <<m>> \o held BY <1>2, <1>3 DEF SendFails
<1>5. UNCHANGED <<live, pastes, seq, told, replies>> BY DEF SendFails, outcome
<1>6. busy' \in Nat BY <1>2, <1>3 DEF SendFails, SetIdle, PromptInv, PromptType
<1>7. JobType' /\ job'.name = "restart" BY <1>1 DEF JobType, Restart
<1>8. /\ held' \in Seq(Msgs) /\ Len(held') = Len(held) + 1 /\ held'[1] = m
      /\ \A i \in 1 .. Len(held') : i = 1 \/ (i - 1 \in 1 .. Len(held) /\ held'[i] = held[i - 1])
 BY <1>4 DEF PromptInv, PromptType
<1>9. PromptType' BY <1>4, <1>5, <1>6, <1>8 DEF PromptInv, PromptType
<1>10. \A i \in 1 .. Len(held) : held[i] \in Msgs /\ held[i] # m /\ status[held[i]] = "received"
 BY <1>3 DEF PromptInv, PromptType, HeldOnce
<1>11. HeldOnce'
 <2>1. ASSUME NEW i \in 1 .. Len(held'), NEW j \in 1 .. Len(held'), i # j PROVE held'[i] # held'[j]
  <3>1. Len(held) \in Nat BY DEF PromptInv, PromptType
  <3>2. CASE i # 1 /\ j # 1
   <4>1. i - 1 \in 1 .. Len(held) /\ j - 1 \in 1 .. Len(held) /\ i - 1 # j - 1 BY <1>8, <2>1, <3>1, <3>2
   <4> QED BY <1>8, <3>2, <4>1 DEF PromptInv, HeldOnce
  <3>3. CASE i = 1 \/ j = 1 BY <1>8, <1>10, <2>1, <3>3
  <3> QED BY <3>2, <3>3
 <2>2. ASSUME NEW i \in 1 .. Len(held') PROVE status'[held'[i]] = "received"
  BY <1>4, <1>8, <1>10 DEF PromptInv, PromptType
 <2> QED BY <2>1, <2>2 DEF HeldOnce
<1>12. NotYetPasted' BY <1>3, <1>4, <1>5, <1>7 DEF PromptInv, PromptType, NotYetPasted
<1>13. NoneForgotten'
 <2>1. ToSet(held) \subseteq ToSet(held')
  <3>1. Len(held) \in Nat /\ held \in Seq(Msgs) BY DEF PromptInv, PromptType
  <3>2. \A i \in 1 .. Len(held) : i + 1 \in 1 .. Len(held') /\ held'[i + 1] = held[i] BY <1>8, <3>1
  <3>3. \A i \in 1 .. Len(held) : \E j \in 1 .. Len(held') : held'[j] = held[i] BY <3>2
  <3> QED BY <1>8, <3>1, <3>3, ToSetGrows
 <2>2. m \in ToSet(held')
  <3>1. 1 \in 1 .. Len(held') BY <1>8 DEF PromptInv, PromptType
  <3> QED BY <1>8, <3>1, InToSet
 <2> QED BY <1>1, <1>3, <1>4, <1>5, <2>1, <2>2 DEF PromptInv, PromptType, NoneForgotten
<1> QED
 BY <1>1, <1>4, <1>5, <1>7, <1>9, <1>11, <1>12, <1>13 DEF PromptInv, FlightDispatched, DownHoldsNothing, PastedOnce

\* A step that answers the reservation, if it ends it.
LEMMA FlightEnds ==
  ASSUME PromptInv, PromptType', JobType', live, job'.name # "send",
    UNCHANGED <<status, live, held, pastes>>, told \subseteq told', replies \subseteq replies',
    \/ inFlight' = inFlight /\ (anchor' = None \/ anchor' = inFlight)
    \/ inFlight' = None /\ anchor' = None /\ (inFlight # None => inFlight \in told' \/ \E r \in replies' : r.to = inFlight)
  PROVE  PromptInv'
<1>1. NoneForgotten' BY DEF PromptInv, NoneForgotten
<1> QED BY <1>1 DEF PromptInv, HeldOnce, FlightDispatched, NotYetPasted, DownHoldsNothing, PastedOnce

LEMMA PromptUncertain ==
  ASSUME PromptInv, SendUncertain
  PROVE  PromptInv'
<1>1. job' = Free /\ job'.name = "free" /\ JobType' BY DEF SendUncertain, JobType, Free
<1>2. live BY JobLives DEF SendUncertain
<1>3. inFlight' = None /\ anchor' = None /\ told' = told \cup ({inFlight} \ {None})
 BY DEF SendUncertain, Abandon, ClearFlight, Tell
<1>4. UNCHANGED <<status, live, held, pastes, replies, busy, seq>> BY DEF SendUncertain, period
<1>5. PromptType' BY <1>3, <1>4 DEF PromptInv, PromptType
<1> QED BY <1>1, <1>2, <1>3, <1>4, <1>5, FlightEnds

LEMMA PromptInterrupted ==
  ASSUME PromptInv, Interrupted
  PROVE  PromptInv'
<1>1. job' = Free /\ job'.name = "free" /\ JobType' BY DEF Interrupted, JobType, Free
<1>2. live BY JobLives DEF Interrupted
<1>3. \/ inFlight' = None /\ anchor' = None /\ told' = told \cup ({inFlight} \ {None})
      \/ inFlight' = inFlight /\ told' = told /\ (anchor' = None \/ anchor' = anchor)
 BY DEF Interrupted, Abandon, ClearFlight, Tell
<1>4. UNCHANGED <<status, live, held, pastes, replies, seq>> BY DEF Interrupted
<1>5. busy' \in Nat BY DEF Interrupted, SetIdle, PromptInv, PromptType
<1>6. PromptType' BY <1>3, <1>4, <1>5 DEF PromptInv, PromptType
<1>7. anchor = None \/ anchor = inFlight BY DEF PromptInv, FlightDispatched
<1> QED BY <1>1, <1>2, <1>3, <1>4, <1>6, <1>7, FlightEnds

LEMMA PromptOnPrompt ==
  ASSUME PromptInv, OnPrompt
  PROVE  PromptInv'
<1>1. job' = Free /\ job'.name = "free" /\ JobType' BY DEF OnPrompt, Applying, JobType, Free
<1>2. \/ inFlight' = None /\ anchor' = None /\ told' = told \cup ({inFlight} \ {None})
      \/ inFlight' = inFlight /\ told' = told /\ (anchor' = anchor \/ anchor' = inFlight)
 BY DEF OnPrompt, Abandon, ClearFlight, Tell, flight
<1>3. UNCHANGED <<status, live, held, pastes, replies>> /\ busy' = seq + 1 /\ seq' = seq + 1 BY DEF OnPrompt, SetBusy
<1>4. PromptType' BY <1>2, <1>3 DEF PromptInv, PromptType
<1>5. anchor = None \/ anchor = inFlight BY DEF PromptInv, FlightDispatched
<1>6. CASE live BY <1>1, <1>2, <1>3, <1>4, <1>5, <1>6, FlightEnds
<1>7. CASE ~live
 BY <1>1, <1>2, <1>3, <1>4, <1>5, <1>7 DEF PromptInv, HeldOnce, FlightDispatched, NotYetPasted, DownHoldsNothing,
   PastedOnce, NoneForgotten
<1> QED BY <1>6, <1>7

LEMMA PromptOnStop ==
  ASSUME PromptInv, OnStop
  PROVE  PromptInv'
<1>1. job' = Free /\ job'.name = "free" /\ JobType' BY DEF OnStop, Applying, JobType, Free
<1>2. UNCHANGED <<status, live, held, pastes, told, seq>> /\ replies \subseteq replies' BY DEF OnStop
<1>3. anchor = None \/ anchor = inFlight BY DEF PromptInv, FlightDispatched
<1>4. \/ inFlight' = inFlight /\ anchor' = anchor
      \/ inFlight' = None /\ anchor' = None /\ \E r \in replies' : r.to = inFlight
 <2>1. CASE ~Current \/ anchor = None BY <2>1 DEF OnStop
 <2>2. CASE Current /\ anchor # None
  <3>1. replies' = replies \cup {[to |-> IF Current THEN anchor ELSE None,
                                 turn |-> IF ev.own THEN ev.turn ELSE Said(look.span), by |-> ev.turn]}
   BY DEF OnStop
  <3>2. PICK r : r \in replies' /\ r.to = anchor
   <4>1. PICK t, b : replies' = replies \cup {[to |-> anchor, turn |-> t, by |-> b]} BY <2>2, <3>1
   <4>2. PICK q : q = [to |-> anchor, turn |-> t, by |-> b] OBVIOUS
   <4> QED BY <4>1, <4>2
  <3>3. inFlight' = None /\ anchor' = None BY <2>2 DEF OnStop
  <3> QED BY <1>3, <2>2, <3>2, <3>3
 <2> QED BY <2>1, <2>2
<1>5. busy' \in Nat BY DEF OnStop, SetIdle, PromptInv, PromptType
<1>6. PromptType' BY <1>2, <1>4, <1>5 DEF PromptInv, PromptType
<1>7. CASE live BY <1>1, <1>2, <1>3, <1>4, <1>6, <1>7, FlightEnds
<1>8. CASE ~live
 BY <1>1, <1>2, <1>3, <1>4, <1>6, <1>8 DEF PromptInv, HeldOnce, FlightDispatched, NotYetPasted, DownHoldsNothing,
   PastedOnce, NoneForgotten
<1> QED BY <1>7, <1>8

\* !new answers all that waited and the turn in flight.
LEMMA PromptNew ==
  ASSUME PromptInv, NewBegins
  PROVE  PromptInv'
<1>1. /\ held' = <<>> /\ held' \in Seq(Msgs) /\ Len(held') = 0 /\ live /\ live' = live
      /\ inFlight' = None /\ anchor' = None /\ told' = told \cup ((ToSet(held) \cup {inFlight}) \ {None})
      /\ busy' = 0 /\ UNCHANGED <<seq, pastes, replies>> BY DEF NewBegins, ClearFlight, Tell, SetIdle
<1>2. job' = [name |-> "new", step |-> "begun"] BY DEF NewBegins
<1>3. job' \in Launching /\ JobType' /\ job'.name # "send" BY <1>2 DEF Launching, JobType
<1>4. status' = [m \in Msgs |-> IF m \notin ToSet(held) THEN status[m]
                                ELSE IF m \in revoked THEN "dropped" ELSE "done"] BY DEF NewBegins
<1>5. PromptType' BY <1>1, <1>4 DEF PromptInv, PromptType
<1>6. NotYetPasted' BY <1>1, <1>3, <1>4 DEF PromptInv, PromptType, NotYetPasted
<1>7. NoneForgotten' BY <1>1, <1>4, MsgsAssumption DEF PromptInv, PromptType, NoneForgotten
<1> QED BY <1>1, <1>3, <1>5, <1>6, <1>7 DEF PromptInv, HeldOnce, FlightDispatched, DownHoldsNothing, PastedOnce

\* A hook that was lost or failed may begin a busy period.
LEMMA PromptHold ==
  ASSUME PromptInv, LostHolds \/ HookFails
  PROVE  PromptInv'
<1>1. busy' \in Nat /\ seq' \in Nat BY DEF LostHolds, HookFails, PersistHold, SetBusy, PromptInv, PromptType
<1>2. UNCHANGED <<status, inFlight, anchor, live, held, pastes, told, replies, job>>
 BY DEF LostHolds, HookFails, flight, outcome
<1> QED
 BY <1>1, <1>2 DEF PromptInv, JobType, PromptType, HeldOnce, FlightDispatched, NotYetPasted, DownHoldsNothing,
   PastedOnce, NoneForgotten

\* Everything else leaves a message's way alone.
LEMMA PromptElse ==
  ASSUME PromptInv,
    \/ CheckAgent \/ Gate \/ Agent \/ UNCHANGED vars
    \/ Accept \/ FrameDropped \/ Measure \/ Ignored \/ OnSessionStart
    \/ PromptLate \/ StopBegins \/ StopUnusable
  PROVE  PromptInv'
<1>1. CASE CheckAgent \/ Gate
 BY <1>1, PromptStays DEF CheckAgent, Gate, store, flight, period, memory, outcome, promptVars
<1>2. CASE Agent
 BY <1>2, PromptStays DEF Agent, HookDone, HookConnects, Finish, TakeInput, Terminal, PaneDies, store, flight,
   period, memory, outcome, promptVars
<1>3. CASE UNCHANGED vars BY <1>3, PromptStays DEF vars, store, flight, period, memory, outcome, promptVars
<1>4. CASE Accept \/ FrameDropped \/ Measure \/ Ignored
 BY <1>4, PromptStays DEF Accept, FrameDropped, Measure, Ignored, store, flight, period, memory, outcome, promptVars
<1>5. CASE OnSessionStart \/ PromptLate \/ StopBegins \/ StopUnusable
 BY <1>5, PromptStays DEF OnSessionStart, PromptLate, StopBegins, StopUnusable, store, flight, period, memory,
   outcome, promptVars
<1> QED BY <1>1, <1>2, <1>3, <1>4, <1>5

LEMMA PromptStep == PromptInv /\ [Next]_vars => PromptInv'
<1> SUFFICES ASSUME PromptInv, [Next]_vars PROVE PromptInv' OBVIOUS
<1>1. CASE Starts BY <1>1, PromptStarts, PromptCrash DEF Starts
<1>2. CASE \E m \in Msgs : Receive(m) BY <1>2, PromptReceive
<1>3. CASE Queue
 BY <1>3, PromptFlush, PromptDispatch, PromptPaste, PromptJob, PromptSendFails, PromptUncertain DEF Queue
<1>4. CASE Commands BY <1>4, PromptJob, PromptInterrupted, PromptNew, PromptElse DEF Commands
<1>5. CASE Hooks BY <1>5, PromptHold, PromptOnPrompt, PromptOnStop, PromptElse DEF Hooks
<1>6. CASE Gate \/ Agent \/ UNCHANGED vars BY <1>6, PromptElse
<1> QED BY <1>1, <1>2, <1>3, <1>4, <1>5, <1>6 DEF Next

\* PromptInv holds always: what the queue, the store, the send in progress and the notices say of a message
\* agree between any two steps of admind and across crashes.
THEOREM PromptInvHolds == Spec => []PromptInv
<1> QED BY PromptInit, PromptStep, PTL DEF Spec

\* PromptsKept, for any messages, launches and disturbances: a message reaches the agent's pane at most once,
\* and it waits, is in flight, has its reply or its sender was told (Admind._flush, recover, interrupt,
\* new_session).
THEOREM PromptsAlwaysKept == Spec => []PromptsKept
<1>1. PromptInv => PromptsKept BY DEF PromptInv, PromptsKept
<1> QED BY <1>1, PromptInvHolds, PTL

------------------------------
(* The hooks that wait, and the turns they tell of. *)

Turn  == [text : Msgs \cup {"typed"}, hooked : BOOLEAN, late : BOOLEAN, raced : BOOLEAN]
Entry == [turn : Nat, says : BOOLEAN]
Hook  == [kind : {"start", "prompt", "stop"}, of : Nat, turn : Nat, own : BOOLEAN, at : Int,
          below : BOOLEAN, bad : BOOLEAN]
LaunchRecord == [session : Nat, nonce : BOOLEAN, ack : BOOLEAN, hold : BOOLEAN, issued : BOOLEAN,
                 replace : BOOLEAN]

AgentType ==
    /\ conns \in Seq(Hook) /\ backlog \in Seq(Hook) /\ turns \in Seq(Turn) /\ log \in Seq(Entry)
    /\ input \in Seq(Msgs) /\ pane \in Nat /\ launch \in LaunchRecord
    /\ phase \in {"none", "boot", "hello", "idle", "asking", "prompting", "running", "stopping"}

\* The hooks in the order in which they will be applied.
line == conns \o backlog

\* The place of a hook's event in the agent's life, and the last place that has been reached.
Rank(e) == IF e.kind = "prompt" THEN 2 * e.turn ELSE 2 * e.turn + 1
Top == IF phase = "asking" THEN 2 * Len(turns) - 1
       ELSE IF phase \in {"prompting", "running"} THEN 2 * Len(turns) ELSE 2 * Len(turns) + 1

\* Hooks wait in the order of what they tell of, and tell of nothing that has not happened.
InOrder ==
    /\ \A i, j \in 1 .. Len(line) : i < j => Rank(line[i]) <= Rank(line[j])
    /\ \A i \in 1 .. Len(line) : /\ Rank(line[i]) <= Top
                                 /\ line[i].kind # "start" => line[i].turn >= 1
    /\ phase \in {"asking", "prompting", "running", "stopping"} => Len(turns) >= 1

\* The transcript is in the order of the turns, and has nothing of a turn that has only been asked for.
LogInOrder ==
    /\ \A i, j \in 1 .. Len(log) : i < j => log[i].turn <= log[j].turn
    /\ \A i \in 1 .. Len(log) : /\ log[i].turn <= Len(turns)
                                /\ phase \in {"asking", "prompting"} => log[i].turn < Len(turns)

\* While a prompt's hook waits, the transcript has nothing of its turn, unless the agent went on without
\* the answer.
Unlogged ==
    \A i \in 1 .. Len(line) : line[i].kind = "prompt" =>
        /\ ~turns[line[i].turn].late => \A n \in 1 .. Len(log) : log[n].turn # line[i].turn
        /\ phase \in {"prompting", "running"} /\ line[i].turn = Len(turns) =>
               /\ line[i].of = pane
               /\ phase = "running" => turns[line[i].turn].late

LineInv == AgentType /\ InOrder /\ LogInOrder /\ Unlogged

\* A hook that is still the same one, and the ways in which the line changes other than by a new hook.
Alike(f, e) == f.kind = e.kind /\ f.of = e.of /\ f.turn = e.turn
Thins ==
    \E d \in 0 .. Len(line) : /\ Len(line') = Len(line) - d
                              /\ \A i \in 1 .. Len(line') : Alike(line'[i], line[i + d])
Shrinks ==
    \E d \in 0 .. Len(line) : /\ Len(line') = Len(line) - d
                              /\ \A i \in 1 .. Len(line') : /\ Alike(line'[i], line[i + d])
                                                            /\ line'[i].at = line[i + d].at
Joins(e) ==
    /\ Len(line') = Len(line) + 1 /\ line'[Len(line) + 1] = e
    /\ \A i \in 1 .. Len(line) : line'[i] = line[i]

LEMMA Concat ==
  ASSUME NEW c \in Seq(Hook), NEW b \in Seq(Hook)
  PROVE  /\ c \o b \in Seq(Hook) /\ Len(c) \in Nat /\ Len(b) \in Nat /\ Len(c \o b) = Len(c) + Len(b)
         /\ \A i \in 1 .. Len(c) : (c \o b)[i] = c[i]
         /\ \A i \in 1 .. Len(c \o b) : i > Len(c) => (c \o b)[i] = b[i - Len(c)]
OBVIOUS

LEMMA LineType ==
  ASSUME AgentType
  PROVE  /\ line \in Seq(Hook) /\ Len(line) \in Nat /\ Len(conns) \in Nat /\ Len(backlog) \in Nat
         /\ Len(line) = Len(conns) + Len(backlog)
         /\ \A i \in 1 .. Len(conns) : line[i] = conns[i]
         /\ \A i \in 1 .. Len(line) : i > Len(conns) => line[i] = backlog[i - Len(conns)]
         /\ \A i \in 1 .. Len(line) : line[i] \in Hook
BY Concat DEF AgentType, line

LEMMA LineTypeNext ==
  ASSUME conns' \in Seq(Hook), backlog' \in Seq(Hook)
  PROVE  /\ line' \in Seq(Hook) /\ Len(line') \in Nat /\ Len(conns') \in Nat /\ Len(backlog') \in Nat
         /\ Len(line') = Len(conns') + Len(backlog')
         /\ \A i \in 1 .. Len(conns') : line'[i] = conns'[i]
         /\ \A i \in 1 .. Len(line') : i > Len(conns') => line'[i] = backlog'[i - Len(conns')]
         /\ \A i \in 1 .. Len(line') : line'[i] \in Hook
<1>1. line' = conns' \o backlog' BY DEF line
<1>2. PICK c \in Seq(Hook), b \in Seq(Hook) : c = conns' /\ b = backlog' OBVIOUS
<1> QED BY <1>1, <1>2, Concat

LEMMA ShrinksThins == Shrinks => Thins
BY DEF Shrinks, Thins

\* The line is as it was.
LEMMA LineSame ==
  ASSUME AgentType, UNCHANGED <<conns, backlog>>
  PROVE  Shrinks /\ conns' \in Seq(Hook) /\ backlog' \in Seq(Hook) /\ line' = line
<1>1. line' = line /\ Len(line) \in Nat BY LineType DEF line
<1>2. 0 \in 0 .. Len(line) /\ \A i \in 1 .. Len(line) : i + 0 = i BY <1>1
<1> QED BY <1>1, <1>2 DEF Shrinks, Alike, AgentType

\* A hook is accepted.
LEMMA LineAccept ==
  ASSUME AgentType, Accept
  PROVE  Shrinks /\ conns' \in Seq(Hook) /\ backlog' \in Seq(Hook) /\ line' = line
<1>1. backlog # <<>> /\ conns' = Append(conns, Head(backlog)) /\ backlog' = Tail(backlog) BY DEF Accept
<1>2. /\ conns' \in Seq(Hook) /\ backlog' \in Seq(Hook) /\ Len(conns') = Len(conns) + 1
      /\ Len(backlog') = Len(backlog) - 1 /\ Head(backlog) = backlog[1]
      /\ \A i \in 1 .. Len(backlog') : backlog'[i] = backlog[i + 1]
      /\ \A i \in 1 .. Len(conns) : conns'[i] = conns[i]
      /\ conns'[Len(conns) + 1] = backlog[1] BY <1>1 DEF AgentType
<1>3. Len(line') = Len(line) BY <1>2, LineType, LineTypeNext
<1>4. ASSUME NEW i \in 1 .. Len(line) PROVE line'[i] = line[i]
 <2>1. CASE i <= Len(conns) BY <1>2, <2>1, LineType, LineTypeNext
 <2>2. CASE i = Len(conns) + 1
  <3>1. i - Len(conns) = 1 /\ i \in 1 .. Len(conns') /\ i > Len(conns) BY <1>2, <2>2, LineType
  <3>2. line'[i] = conns'[i] /\ line[i] = backlog[1] BY <1>2, <3>1, LineType, LineTypeNext
  <3> QED BY <1>2, <2>2, <3>2
 <2>3. CASE i > Len(conns) + 1
  <3>1. /\ i > Len(conns') /\ i > Len(conns) /\ i \in 1 .. Len(line') /\ i - Len(conns') \in 1 .. Len(backlog')
        /\ (i - Len(conns')) + 1 = i - Len(conns) BY <1>2, <1>3, <2>3, LineType
  <3>2. line'[i] = backlog'[i - Len(conns')] /\ line[i] = backlog[i - Len(conns)]
   BY <1>2, <3>1, LineType, LineTypeNext
  <3> QED BY <1>2, <3>1, <3>2
 <2> QED BY <2>1, <2>2, <2>3, LineType
<1>5. line' = line
 <2>1. line \in Seq(Hook) /\ line' \in Seq(Hook) BY <1>2, LineType, LineTypeNext
 <2>2. PICK l \in Seq(Hook) : l = line' BY <2>1
 <2>3. Len(l) = Len(line) /\ \A i \in 1 .. Len(line) : l[i] = line[i] BY <1>3, <1>4, <2>2
 <2> QED BY <2>1, <2>2, <2>3, SeqEqual
<1>6. 0 \in 0 .. Len(line) /\ \A i \in 1 .. Len(line) : i + 0 = i BY LineType
<1>7. Len(line') = Len(line) - 0
      /\ \A i \in 1 .. Len(line') : Alike(line'[i], line[i + 0]) /\ line'[i].at = line[i + 0].at
 BY <1>5, <1>6, LineType DEF Alike
<1> QED BY <1>2, <1>5, <1>6, <1>7 DEF Shrinks

\* The hook at the head has been applied.
LEMMA LinePop ==
  ASSUME AgentType, conns # <<>>, conns' = Tail(conns), backlog' = backlog
  PROVE  /\ Shrinks /\ conns' \in Seq(Hook) /\ backlog' \in Seq(Hook)
         /\ Len(line') = Len(line) - 1 /\ \A i \in 1 .. Len(line') : line'[i] = line[i + 1]
<1>1. /\ conns' \in Seq(Hook) /\ backlog' \in Seq(Hook) /\ Len(conns') = Len(conns) - 1
      /\ \A i \in 1 .. Len(conns') : conns'[i] = conns[i + 1] BY DEF AgentType
<1>2. Len(line') = Len(line) - 1 /\ Len(line) >= 1 BY <1>1, LineType, LineTypeNext
<1>3. ASSUME NEW i \in 1 .. Len(line') PROVE line'[i] = line[i + 1]
 <2>1. CASE i <= Len(conns')
  <3>1. i \in 1 .. Len(conns') /\ i + 1 \in 1 .. Len(conns) BY <1>1, <2>1, LineType, LineTypeNext
  <3> QED BY <1>1, <3>1, LineType, LineTypeNext
 <2>2. CASE i > Len(conns')
  <3>1. i + 1 \in 1 .. Len(line) /\ i + 1 > Len(conns) /\ (i + 1) - Len(conns) = i - Len(conns')
   BY <1>1, <1>2, <2>2, LineType, LineTypeNext
  <3> QED BY <1>1, <2>2, <3>1, LineType, LineTypeNext
 <2> QED BY <1>1, <2>1, <2>2, LineTypeNext
<1>4. 1 \in 0 .. Len(line) BY <1>2, LineType
<1> QED BY <1>1, <1>2, <1>3, <1>4 DEF Shrinks, Alike

\* Hooks that were accepted are changed in place.
LEMMA LineMarks ==
  ASSUME AgentType, conns' \in Seq(Hook), Len(conns') = Len(conns), backlog' = backlog,
    \A i \in 1 .. Len(conns) : Alike(conns'[i], conns[i])
  PROVE  /\ Thins /\ backlog' \in Seq(Hook) /\ Len(line') = Len(line)
         /\ \A i \in 1 .. Len(line) : Alike(line'[i], line[i])
         /\ \A i \in 1 .. Len(line) : i > Len(conns) => line'[i] = line[i]
         /\ (\A i \in 1 .. Len(conns) : conns'[i].at = conns[i].at) => Shrinks
<1>1. backlog' \in Seq(Hook) /\ Len(line') = Len(line) BY LineType, LineTypeNext DEF AgentType
<1>2. ASSUME NEW i \in 1 .. Len(line), i > Len(conns) PROVE line'[i] = line[i] BY <1>1, <1>2, LineType, LineTypeNext
<1>3. ASSUME NEW i \in 1 .. Len(line) PROVE Alike(line'[i], line[i])
 <2>1. CASE i <= Len(conns) BY <1>1, <2>1, LineType, LineTypeNext
 <2>2. CASE i > Len(conns) BY <1>2, <2>2 DEF Alike
 <2> QED BY <2>1, <2>2, LineType
<1>4. 0 \in 0 .. Len(line) /\ \A i \in 1 .. Len(line) : i + 0 = i BY LineType
<1>5. Len(line') = Len(line) - 0 /\ \A i \in 1 .. Len(line') : Alike(line'[i], line[i + 0])
 BY <1>1, <1>3, <1>4, LineType
<1>6. ASSUME \A i \in 1 .. Len(conns) : conns'[i].at = conns[i].at PROVE Shrinks
 <2>1. ASSUME NEW i \in 1 .. Len(line) PROVE line'[i].at = line[i].at
  <3>1. CASE i <= Len(conns)
   <4>1. line'[i] = conns'[i] /\ line[i] = conns[i] /\ i \in 1 .. Len(conns) BY <1>1, <3>1, LineType, LineTypeNext
   <4> QED BY <1>6, <4>1
  <3>2. CASE i > Len(conns) BY <1>2, <3>2
  <3> QED BY <3>1, <3>2, LineType
 <2>2. \A i \in 1 .. Len(line') : line'[i].at = line[i + 0].at BY <1>1, <1>4, <2>1
 <2> QED BY <1>4, <1>5, <2>2 DEF Shrinks
<1> QED BY <1>1, <1>2, <1>3, <1>4, <1>5, <1>6 DEF Thins

LEMMA LineRaise ==
  ASSUME AgentType, RaiseFloor, backlog' = backlog
  PROVE  /\ Shrinks /\ conns' \in Seq(Hook) /\ backlog' \in Seq(Hook) /\ Len(line') = Len(line)
         /\ Len(conns') = Len(conns)
         /\ \A i \in 1 .. Len(conns) : /\ Alike(conns'[i], conns[i]) /\ conns'[i].at = conns[i].at
                                       /\ conns'[i].own = conns[i].own
                                       /\ conns'[i].bad = conns[i].bad /\ conns'[i].below
<1>1. conns' = [i \in 1 .. Len(conns) |-> [conns[i] EXCEPT !.below = TRUE]] /\ Len(conns) \in Nat
 BY DEF RaiseFloor, AgentType
<1>2. \A i \in 1 .. Len(conns) : conns[i] \in Hook BY DEF AgentType
<1>3. ASSUME NEW i \in 1 .. Len(conns)
      PROVE  /\ [conns[i] EXCEPT !.below = TRUE] \in Hook
             /\ Alike([conns[i] EXCEPT !.below = TRUE], conns[i])
             /\ [conns[i] EXCEPT !.below = TRUE].at = conns[i].at
             /\ [conns[i] EXCEPT !.below = TRUE].own = conns[i].own
             /\ [conns[i] EXCEPT !.below = TRUE].bad = conns[i].bad
             /\ [conns[i] EXCEPT !.below = TRUE].below BY <1>2 DEF Hook, Alike
<1>4. conns' \in Seq(Hook) /\ Len(conns') = Len(conns) BY <1>1, <1>3
<1>5. \A i \in 1 .. Len(conns) : /\ Alike(conns'[i], conns[i]) /\ conns'[i].at = conns[i].at
                                 /\ conns'[i].own = conns[i].own
                                 /\ conns'[i].bad = conns[i].bad /\ conns'[i].below BY <1>1, <1>3
<1> QED BY <1>4, <1>5, LineMarks

LEMMA LineCrash ==
  ASSUME AgentType, conns' = <<>>, backlog' = <<>>
  PROVE  Shrinks /\ conns' \in Seq(Hook) /\ backlog' \in Seq(Hook) /\ line' = <<>> /\ Len(line') = 0
<1>1. line' = <<>> /\ Len(line') = 0 /\ conns' \in Seq(Hook) /\ backlog' \in Seq(Hook) BY DEF line
<1>2. Len(line) \in 0 .. Len(line) /\ Len(line') = Len(line) - Len(line) BY <1>1, LineType
<1>3. \A i \in 1 .. Len(line') : /\ Alike(line'[i], line[i + Len(line)])
                                 /\ line'[i].at = line[i + Len(line)].at BY <1>1
<1> QED BY <1>1, <1>2, <1>3 DEF Shrinks

\* A frame is cut off.
LEMMA LineDrop ==
  ASSUME AgentType, FrameDropped
  PROVE  /\ Shrinks /\ conns' \in Seq(Hook) /\ backlog' \in Seq(Hook) /\ Len(line') = Len(line)
         /\ Len(conns') = Len(conns)
         /\ \A i \in 1 .. Len(conns) : /\ Alike(conns'[i], conns[i]) /\ conns'[i].at = conns[i].at
                                       /\ conns'[i].own = conns[i].own
                                       /\ conns'[i].below = conns[i].below
                                       /\ conns'[i].bad = conns[i].bad \/ conns[i].at = Unmeasured
<1>1. PICK k \in DOMAIN conns : conns[k].at = Unmeasured /\ conns' = [conns EXCEPT ![k].bad = TRUE]
 BY DEF FrameDropped
<1>2. Len(conns) \in Nat /\ k \in 1 .. Len(conns) /\ \A i \in 1 .. Len(conns) : conns[i] \in Hook BY DEF AgentType
<1>3. /\ [conns[k] EXCEPT !.bad = TRUE] \in Hook
      /\ Alike([conns[k] EXCEPT !.bad = TRUE], conns[k])
      /\ [conns[k] EXCEPT !.bad = TRUE].at = conns[k].at
      /\ [conns[k] EXCEPT !.bad = TRUE].own = conns[k].own
      /\ [conns[k] EXCEPT !.bad = TRUE].below = conns[k].below BY <1>2 DEF Hook, Alike
<1>4. PICK h \in Hook : /\ h = [conns[k] EXCEPT !.bad = TRUE] /\ Alike(h, conns[k]) /\ h.at = conns[k].at
                        /\ h.own = conns[k].own /\ h.below = conns[k].below BY <1>3
<1>5. conns' = [conns EXCEPT ![k] = h] BY <1>1, <1>4
<1>6. conns' \in Seq(Hook) /\ Len(conns') = Len(conns) /\ conns'[k] = h
      /\ \A i \in 1 .. Len(conns) : i # k => conns'[i] = conns[i] BY <1>2, <1>5 DEF AgentType
<1>7. \A i \in 1 .. Len(conns) : /\ Alike(conns'[i], conns[i]) /\ conns'[i].at = conns[i].at
                                 /\ conns'[i].own = conns[i].own
                                 /\ conns'[i].below = conns[i].below
                                 /\ conns'[i].bad = conns[i].bad \/ conns[i].at = Unmeasured
 BY <1>1, <1>4, <1>6 DEF Alike
<1> QED BY <1>6, <1>7, LineMarks DEF FrameDropped

\* The transcript's size is taken for the hook at the head.
LEMMA LineMeasure ==
  ASSUME AgentType, Measure
  PROVE  /\ Thins /\ conns' \in Seq(Hook) /\ backlog' = backlog /\ backlog' \in Seq(Hook) /\ Len(line') = Len(line)
         /\ Len(conns') = Len(conns) /\ Len(conns) >= 1
         /\ \A i \in 1 .. Len(conns) : /\ Alike(conns'[i], conns[i]) /\ conns'[i].own = conns[i].own
                                       /\ conns'[i].below = conns[i].below /\ conns'[i].bad = conns[i].bad
                                       /\ i # 1 => conns'[i] = conns[i]
         /\ conns[1].at = Unmeasured /\ ~conns[1].bad /\ conns[1].kind # "start"
         /\ conns'[1].at = Len(log) \/ conns'[1].at = Unknown
<1>0. Unknown \in Int /\ Len(log) \in Int BY DEF Unknown, AgentType
<1>1. PICK n \in Int : (n = Len(log) \/ n = Unknown) /\ conns' = [conns EXCEPT ![1].at = n] BY <1>0 DEF Measure
<1>2. conns # <<>> /\ Head(conns).at = Unmeasured /\ ~Head(conns).bad /\ Head(conns).kind # "start" /\ backlog' = backlog
 BY DEF Measure, ev
<1>3. /\ Len(conns) \in Nat /\ 1 \in 1 .. Len(conns) /\ Head(conns) = conns[1] /\ Len(conns) >= 1
      /\ \A i \in 1 .. Len(conns) : conns[i] \in Hook BY <1>2 DEF AgentType
<1>4. PICK h \in Hook : /\ h = [conns[1] EXCEPT !.at = n] /\ Alike(h, conns[1]) /\ h.at = n
                        /\ h.own = conns[1].own /\ h.below = conns[1].below /\ h.bad = conns[1].bad
 <2>1. conns[1] \in Hook BY <1>3
 <2>2. /\ [conns[1] EXCEPT !.at = n] \in Hook /\ Alike([conns[1] EXCEPT !.at = n], conns[1])
       /\ [conns[1] EXCEPT !.at = n].at = n /\ [conns[1] EXCEPT !.at = n].own = conns[1].own
       /\ [conns[1] EXCEPT !.at = n].below = conns[1].below
       /\ [conns[1] EXCEPT !.at = n].bad = conns[1].bad BY <2>1 DEF Hook, Alike
 <2> QED BY <2>2
<1>5. conns' = [conns EXCEPT ![1] = h] BY <1>1, <1>4
<1>6. conns' \in Seq(Hook) /\ Len(conns') = Len(conns) /\ conns'[1] = h
      /\ \A i \in 1 .. Len(conns) : i # 1 => conns'[i] = conns[i] BY <1>3, <1>5 DEF AgentType
<1>7. \A i \in 1 .. Len(conns) : /\ Alike(conns'[i], conns[i]) /\ conns'[i].own = conns[i].own
                                 /\ conns'[i].below = conns[i].below /\ conns'[i].bad = conns[i].bad
                                 /\ i # 1 => conns'[i] = conns[i] BY <1>4, <1>6 DEF Alike
<1> QED BY <1>1, <1>2, <1>3, <1>4, <1>6, <1>7, LineMarks

LEMMA LineJoins ==
  ASSUME AgentType, NEW e \in Hook, backlog' = Append(backlog, e), conns' = conns
  PROVE  Joins(e) /\ conns' \in Seq(Hook) /\ backlog' \in Seq(Hook)
<1>1. /\ conns' \in Seq(Hook) /\ backlog' \in Seq(Hook) /\ Len(backlog') = Len(backlog) + 1
      /\ backlog'[Len(backlog) + 1] = e
      /\ \A i \in 1 .. Len(backlog) : backlog'[i] = backlog[i] BY DEF AgentType
<1>2. Len(line') = Len(line) + 1
 <2>1. Len(line) = Len(conns) + Len(backlog) /\ Len(conns) \in Nat /\ Len(backlog) \in Nat BY LineType
 <2>2. Len(line') = Len(conns') + Len(backlog') BY <1>1, LineTypeNext
 <2> QED BY <1>1, <2>1, <2>2
<1>3. ASSUME NEW i \in 1 .. Len(line) PROVE line'[i] = line[i]
 <2>1. CASE i <= Len(conns) BY <1>1, <2>1, LineType, LineTypeNext
 <2>2. CASE i > Len(conns)
  <3>1. i \in 1 .. Len(line') /\ i - Len(conns) \in 1 .. Len(backlog) BY <1>2, <2>2, LineType
  <3> QED BY <1>1, <2>2, <3>1, LineType, LineTypeNext
 <2> QED BY <2>1, <2>2, LineType
<1>4. line'[Len(line) + 1] = e
 <2>a. PICK n \in Nat, c \in Nat, b \in Nat : n = Len(line) /\ c = Len(conns) /\ b = Len(backlog) /\ n = c + b
  BY LineType
 <2>b. n + 1 \in 1 .. n + 1 /\ n + 1 > c /\ (n + 1) - c = b + 1 BY <2>a
 <2>1. Len(line) + 1 \in 1 .. Len(line') /\ Len(line) + 1 > Len(conns) /\ (Len(line) + 1) - Len(conns) = Len(backlog) + 1
  BY <1>2, <2>a, <2>b
 <2> QED BY <1>1, <2>1, LineType, LineTypeNext
<1> QED BY <1>1, <1>2, <1>3, <1>4 DEF Joins

LEMMA RankAlike ==
  ASSUME NEW e, NEW f, Alike(f, e)
  PROVE  Rank(f) = Rank(e)
BY DEF Rank, Alike

LEMMA RankType ==
  ASSUME NEW e \in Hook
  PROVE  Rank(e) \in Int /\ e.turn \in Nat /\ e.of \in Nat /\ e.at \in Int
BY DEF Rank, Hook

\* The line keeps its order when hooks leave it and the agent goes on.
LEMMA OrderThins ==
  ASSUME AgentType, AgentType', InOrder, Thins, Top \in Int, Top' \in Int, Top <= Top',
    phase' \in {"asking", "prompting", "running", "stopping"} => Len(turns') >= 1
  PROVE  InOrder'
<1>1. PICK d \in 0 .. Len(line) : /\ Len(line') = Len(line) - d
                                  /\ \A i \in 1 .. Len(line') : Alike(line'[i], line[i + d]) BY DEF Thins
<1>2. Len(line) \in Nat /\ d \in Nat /\ \A i \in 1 .. Len(line) : line[i] \in Hook BY <1>1, LineType
<1>3. \A i \in 1 .. Len(line') : i + d \in 1 .. Len(line) /\ Rank(line'[i]) = Rank(line[i + d])
 BY <1>1, <1>2, RankAlike
<1>4. ASSUME NEW i \in 1 .. Len(line'), NEW j \in 1 .. Len(line'), i < j
      PROVE  Rank(line'[i]) <= Rank(line'[j])
 <2>1. i + d < j + d BY <1>2, <1>4
 <2> QED BY <1>3, <2>1 DEF InOrder
<1>5. ASSUME NEW i \in 1 .. Len(line')
      PROVE  Rank(line'[i]) <= Top' /\ (line'[i].kind # "start" => line'[i].turn >= 1)
 <2>1. Rank(line[i + d]) \in Int /\ Rank(line[i + d]) <= Top BY <1>2, <1>3, RankType DEF InOrder
 <2>2. line[i + d].kind # "start" => line[i + d].turn >= 1 BY <1>3 DEF InOrder
 <2> QED BY <1>1, <1>3, <2>1, <2>2 DEF Alike
<1> QED BY <1>4, <1>5 DEF InOrder

\* A new hook joins the line at its end.
LEMMA OrderJoins ==
  ASSUME AgentType, AgentType', InOrder, NEW e \in Hook, Joins(e), Top \in Int, Top' \in Int, Top <= Rank(e),
    Rank(e) <= Top', e.kind # "start" => e.turn >= 1,
    phase' \in {"asking", "prompting", "running", "stopping"} => Len(turns') >= 1
  PROVE  InOrder'
<1>1. Len(line) \in Nat /\ \A i \in 1 .. Len(line) : line[i] \in Hook BY LineType
<1>2. /\ Len(line') = Len(line) + 1 /\ line'[Len(line) + 1] = e
      /\ \A i \in 1 .. Len(line) : line'[i] = line[i] BY DEF Joins
<1>3. \A i \in 1 .. Len(line') : i \in 1 .. Len(line) \/ i = Len(line) + 1 BY <1>1, <1>2
<1>4. \A i \in 1 .. Len(line) : Rank(line[i]) \in Int /\ Rank(line[i]) <= Top BY <1>1, RankType DEF InOrder
<1>5. Rank(e) \in Int BY RankType
<1>6. \A i \in 1 .. Len(line) : Rank(line[i]) <= Rank(e) BY <1>4, <1>5
<1>7. ASSUME NEW i \in 1 .. Len(line'), NEW j \in 1 .. Len(line'), i < j
      PROVE  Rank(line'[i]) <= Rank(line'[j])
 <2>1. i \in 1 .. Len(line) BY <1>1, <1>2, <1>7
 <2>2. CASE j \in 1 .. Len(line) BY <1>2, <1>7, <2>1, <2>2 DEF InOrder
 <2>3. CASE j = Len(line) + 1 BY <1>2, <1>6, <2>1, <2>3
 <2> QED BY <1>3, <2>2, <2>3
<1>8. ASSUME NEW i \in 1 .. Len(line')
      PROVE  Rank(line'[i]) <= Top' /\ (line'[i].kind # "start" => line'[i].turn >= 1)
 <2>1. CASE i \in 1 .. Len(line) BY <1>2, <1>4, <1>5, <1>6, <2>1 DEF InOrder
 <2>2. CASE i = Len(line) + 1 BY <1>2, <2>2
 <2> QED BY <1>3, <2>1, <2>2
<1> QED BY <1>7, <1>8 DEF InOrder

LEMMA TopType ==
  ASSUME AgentType
  PROVE  /\ Top \in Int /\ Len(turns) \in Nat /\ Len(log) \in Nat
         /\ Top <= 2 * Len(turns) + 1 /\ 2 * Len(turns) - 1 <= Top
         /\ phase = "asking" => Top = 2 * Len(turns) - 1
         /\ phase \in {"prompting", "running"} => Top = 2 * Len(turns)
         /\ phase \notin {"asking", "prompting", "running"} => Top = 2 * Len(turns) + 1
BY DEF Top, AgentType

LEMMA TopTypeNext ==
  ASSUME AgentType'
  PROVE  /\ Top' \in Int /\ Len(turns') \in Nat /\ Len(log') \in Nat
         /\ Top' <= 2 * Len(turns') + 1 /\ 2 * Len(turns') - 1 <= Top'
         /\ phase' = "asking" => Top' = 2 * Len(turns') - 1
         /\ phase' \in {"prompting", "running"} => Top' = 2 * Len(turns')
         /\ phase' \notin {"asking", "prompting", "running"} => Top' = 2 * Len(turns') + 1
BY DEF Top, AgentType

\* A prompt in the line is of a turn that was begun, and before the one that is asked for.
LEMMA PromptPlace ==
  ASSUME AgentType, InOrder, NEW i \in 1 .. Len(line), line[i].kind = "prompt"
  PROVE  /\ line[i].turn \in 1 .. Len(turns) /\ line[i].turn \in Nat
         /\ phase = "asking" => line[i].turn < Len(turns)
<1>1. line[i] \in Hook /\ Rank(line[i]) <= Top /\ line[i].turn >= 1 /\ line[i].turn \in Nat
 BY LineType, RankType DEF InOrder
<1>2. 2 * line[i].turn <= Top BY <1>1 DEF Rank
<1> QED BY <1>1, <1>2, TopType

\* Hooks leave the line or are marked while the agent does nothing.
LEMMA LineThins ==
  ASSUME LineInv, Thins, AgentType', UNCHANGED <<phase, turns, log, pane>>
  PROVE  LineInv'
<1>0. AgentType /\ InOrder /\ LogInOrder /\ Unlogged BY DEF LineInv
<1>1. Top' = Top /\ Top \in Int BY <1>0, TopType DEF Top
<1>2. InOrder' BY <1>0, <1>1, OrderThins DEF InOrder
<1>3. LogInOrder' BY <1>0 DEF LogInOrder
<1>4. Unlogged'
 <2>1. PICK d \in 0 .. Len(line) : /\ Len(line') = Len(line) - d
                                   /\ \A i \in 1 .. Len(line') : Alike(line'[i], line[i + d]) BY DEF Thins
 <2>2. \A i \in 1 .. Len(line') : i + d \in 1 .. Len(line) BY <1>0, <2>1, LineType
 <2>3. ASSUME NEW i \in 1 .. Len(line')
       PROVE  \E j \in 1 .. Len(line) : /\ line'[i].kind = line[j].kind /\ line'[i].turn = line[j].turn
                                        /\ line'[i].of = line[j].of BY <2>1, <2>2 DEF Alike
 <2>4. ASSUME NEW i \in 1 .. Len(line'), line'[i].kind = "prompt"
       PROVE  /\ ~turns'[line'[i].turn].late => \A n \in 1 .. Len(log') : log'[n].turn # line'[i].turn
              /\ phase' \in {"prompting", "running"} /\ line'[i].turn = Len(turns') =>
                    line'[i].of = pane' /\ (phase' = "running" => turns'[line'[i].turn].late)
  <3>1. PICK j \in 1 .. Len(line) : /\ line'[i].kind = line[j].kind /\ line'[i].turn = line[j].turn
                                    /\ line'[i].of = line[j].of BY <2>3
  <3>2. /\ ~turns[line[j].turn].late => \A n \in 1 .. Len(log) : log[n].turn # line[j].turn
        /\ phase \in {"prompting", "running"} /\ line[j].turn = Len(turns) =>
              line[j].of = pane /\ (phase = "running" => turns[line[j].turn].late) BY <1>0, <2>4, <3>1 DEF Unlogged
  <3> QED BY <3>1, <3>2
 <2> QED BY <2>4 DEF Unlogged
<1> QED BY <1>2, <1>3, <1>4 DEF LineInv

\* The turns with only whether a hook connected or was answered in time changed.
Flagged ==
    /\ turns' \in Seq(Turn) /\ Len(turns') = Len(turns)
    /\ \A i \in 1 .. Len(turns) : /\ turns'[i].text = turns[i].text /\ turns'[i].raced = turns[i].raced
                                  /\ turns[i].late => turns'[i].late

\* What a hook that connects does to the line and the turns.
LEMMA ConnectDoes ==
  ASSUME AgentType, conns' = conns, NEW k \in {"start", "prompt", "stop"}, NEW own \in BOOLEAN,
    Connect(HookOf(k, own)), k = "prompt" => Len(turns) >= 1
  PROVE  \E e \in Hook :
            /\ e.kind = k /\ e.of = pane /\ e.turn = Len(turns) /\ e.at = Unmeasured /\ ~e.below /\ ~e.bad /\ e.own = own
            /\ \/ live /\ Joins(e) /\ backlog' = Append(backlog, e)
               \/ ~live /\ line' = line /\ Shrinks /\ backlog' = backlog
            /\ conns' \in Seq(Hook) /\ backlog' \in Seq(Hook) /\ Flagged
            /\ \A i \in 1 .. Len(turns) : /\ turns'[i].late = turns[i].late
                                          /\ k # "prompt" \/ i # Len(turns) => turns'[i] = turns[i]
            /\ live /\ k = "prompt" => turns'[Len(turns)].hooked
            /\ ~live => turns' = turns
<1>0. Len(turns) \in Nat /\ pane \in Nat /\ Unmeasured \in Int /\ turns \in Seq(Turn) BY DEF AgentType, Unmeasured
<1>1. PICK b \in BOOLEAN : ~b /\ HookOf(k, own) = [kind |-> k, of |-> pane, turn |-> Len(turns), own |-> own,
                                                   at |-> Unmeasured, below |-> b, bad |-> b] BY DEF HookOf
<1>2. PICK e \in Hook : /\ e = HookOf(k, own) /\ e.kind = k /\ e.of = pane /\ e.turn = Len(turns)
                        /\ e.at = Unmeasured /\ ~e.below /\ ~e.bad /\ e.own = own
 <2>1. [kind |-> k, of |-> pane, turn |-> Len(turns), own |-> own, at |-> Unmeasured, below |-> b, bad |-> b] \in Hook
  BY <1>0, <1>1 DEF Hook
 <2>2. PICK e \in Hook : e = [kind |-> k, of |-> pane, turn |-> Len(turns), own |-> own,
                              at |-> Unmeasured, below |-> b, bad |-> b] BY <2>1
 <2>3. /\ e.kind = k /\ e.of = pane /\ e.turn = Len(turns) /\ e.at = Unmeasured /\ ~e.below /\ ~e.bad /\ e.own = own
  BY <1>1, <2>2
 <2> QED BY <1>1, <2>2, <2>3
<1>3. /\ backlog' = (IF live THEN Append(backlog, e) ELSE backlog)
      /\ turns' = IF live /\ e.kind = "prompt" THEN [turns EXCEPT ![e.turn].hooked = TRUE] ELSE turns
 BY <1>2 DEF Connect
<1>4. /\ \/ live /\ Joins(e) /\ backlog' = Append(backlog, e)
         \/ ~live /\ line' = line /\ Shrinks /\ backlog' = backlog
      /\ conns' \in Seq(Hook) /\ backlog' \in Seq(Hook) BY <1>3, LineJoins, LineSame
<1>5. /\ Flagged
      /\ \A i \in 1 .. Len(turns) : /\ turns'[i].late = turns[i].late
                                    /\ k # "prompt" \/ i # Len(turns) => turns'[i] = turns[i]
      /\ live /\ k = "prompt" => turns'[Len(turns)].hooked
 <2>1. CASE ~(live /\ k = "prompt")
  <3>1. turns' = turns BY <1>2, <1>3, <2>1
  <3> QED BY <1>0, <2>1, <3>1 DEF Flagged
 <2>2. CASE live /\ k = "prompt"
  <3>1. Len(turns) \in 1 .. Len(turns) /\ turns[Len(turns)] \in Turn BY <1>0, <2>2
  <3>2. PICK t \in Turn : /\ t = [turns[Len(turns)] EXCEPT !.hooked = TRUE] /\ t.hooked
                          /\ t.text = turns[Len(turns)].text /\ t.raced = turns[Len(turns)].raced
                          /\ t.late = turns[Len(turns)].late
   <4>1. /\ [turns[Len(turns)] EXCEPT !.hooked = TRUE] \in Turn
         /\ [turns[Len(turns)] EXCEPT !.hooked = TRUE].hooked
         /\ [turns[Len(turns)] EXCEPT !.hooked = TRUE].text = turns[Len(turns)].text
         /\ [turns[Len(turns)] EXCEPT !.hooked = TRUE].raced = turns[Len(turns)].raced
         /\ [turns[Len(turns)] EXCEPT !.hooked = TRUE].late = turns[Len(turns)].late BY <3>1 DEF Turn
   <4> QED BY <4>1
  <3>3. turns' = [turns EXCEPT ![Len(turns)] = t] BY <1>2, <1>3, <2>2, <3>2
  <3>4. /\ turns' \in Seq(Turn) /\ Len(turns') = Len(turns) /\ turns'[Len(turns)] = t
        /\ \A i \in 1 .. Len(turns) : i # Len(turns) => turns'[i] = turns[i] BY <1>0, <3>1, <3>3
  <3> QED BY <2>2, <3>2, <3>4 DEF Flagged
 <2> QED BY <2>1, <2>2
<1>6. ~live => turns' = turns BY <1>3
<1> QED BY <1>2, <1>4, <1>5, <1>6

\* A turn begins.
LEMMA AskDoes ==
  ASSUME AgentType, NEW text \in Msgs \cup {"typed"}, Ask(text)
  PROVE  /\ turns' \in Seq(Turn) /\ Len(turns') = Len(turns) + 1 /\ phase' = "asking"
         /\ \A i \in 1 .. Len(turns) : turns'[i] = turns[i]
         /\ turns'[Len(turns')].raced <=> job.name \in {"interrupt", "new"}
         /\ ~turns'[Len(turns')].hooked
<1>1. PICK r \in BOOLEAN, n \in BOOLEAN : /\ r <=> job.name \in {"interrupt", "new"} /\ ~n
           /\ turns' = Append(turns, [text |-> text, hooked |-> n, late |-> n, raced |-> r])
 <2>1. PICK r \in BOOLEAN : r = (job.name \in {"interrupt", "new"})
  <3>1. (job.name \in {"interrupt", "new"}) \in BOOLEAN OBVIOUS
  <3> QED BY <3>1, Zenon
 <2>2. PICK n \in BOOLEAN : n = FALSE OBVIOUS
 <2>3. turns' = Append(turns, [text |-> text, hooked |-> FALSE, late |-> FALSE,
                               raced |-> job.name \in {"interrupt", "new"}]) BY DEF Ask
 <2>4. turns' = Append(turns, [text |-> text, hooked |-> n, late |-> n, raced |-> r]) BY <2>1, <2>2, <2>3, Zenon
 <2> QED BY <2>1, <2>2, <2>4, Zenon
<1>2. [text |-> text, hooked |-> n, late |-> n, raced |-> r] \in Turn BY DEF Turn
<1>3. PICK t \in Turn : t = [text |-> text, hooked |-> n, late |-> n, raced |-> r] /\ t.raced = r /\ t.hooked = n
 BY <1>2
<1>4. turns \in Seq(Turn) /\ Len(turns) \in Nat /\ turns' = Append(turns, t) BY <1>1, <1>3 DEF AgentType
<1>5. /\ turns' \in Seq(Turn) /\ Len(turns') = Len(turns) + 1 /\ turns'[Len(turns) + 1] = t
      /\ \A i \in 1 .. Len(turns) : turns'[i] = turns[i] BY <1>4
<1> QED BY <1>1, <1>3, <1>5 DEF Ask

LEMMA LineAsk ==
  ASSUME LineInv, AgentType', Thins, phase = "idle", phase' = "asking", Len(turns') = Len(turns) + 1,
    \A i \in 1 .. Len(turns) : turns'[i] = turns[i], log' = log
  PROVE  LineInv'
<1>0. AgentType /\ InOrder /\ LogInOrder /\ Unlogged /\ Len(turns) \in Nat BY TopType DEF LineInv
<1>1. Top' = Top /\ Top \in Int /\ Top' \in Int /\ Len(turns') >= 1 BY <1>0, TopType, TopTypeNext
<1>2. InOrder' BY <1>0, <1>1, OrderThins
<1>3. LogInOrder'
 <2>1. \A i \in 1 .. Len(log) : log[i].turn \in Nat /\ log[i].turn <= Len(turns)
  <3>1. \A i \in 1 .. Len(log) : log[i] \in Entry BY <1>0 DEF AgentType
  <3> QED BY <1>0, <3>1 DEF LogInOrder, Entry
 <2> QED BY <1>0, <2>1 DEF LogInOrder
<1>4. Unlogged'
 <2>1. PICK d \in 0 .. Len(line) : /\ Len(line') = Len(line) - d
                                   /\ \A i \in 1 .. Len(line') : Alike(line'[i], line[i + d]) BY DEF Thins
 <2>2. \A i \in 1 .. Len(line') : i + d \in 1 .. Len(line) BY <1>0, <2>1, LineType
 <2>3. ASSUME NEW i \in 1 .. Len(line'), line'[i].kind = "prompt", ~turns'[line'[i].turn].late,
   NEW n \in 1 .. Len(log')
       PROVE  log'[n].turn # line'[i].turn
  <3>1. i + d \in 1 .. Len(line) /\ line[i + d].kind = "prompt" /\ line'[i].turn = line[i + d].turn
   BY <2>1, <2>2, <2>3 DEF Alike
  <3>2. line[i + d].turn \in 1 .. Len(turns) BY <1>0, <3>1, PromptPlace
  <3> QED BY <1>0, <2>3, <3>1, <3>2 DEF Unlogged
 <2> QED BY <2>3 DEF Unlogged
<1> QED BY <1>2, <1>3, <1>4 DEF LineInv

\* The agent comes to rest, dies or is a new one.
LEMMA LineRests ==
  ASSUME LineInv, AgentType', Thins, turns' = turns, log' = log \/ log' = <<>>,
         phase' \notin {"asking", "prompting", "running", "stopping"}
  PROVE  LineInv'
<1>0. AgentType /\ InOrder /\ LogInOrder /\ Unlogged /\ Len(turns) \in Nat BY TopType DEF LineInv
<1>1. Top <= Top' /\ Top \in Int /\ Top' \in Int BY <1>0, TopType, TopTypeNext
<1>2. InOrder' BY <1>0, <1>1, OrderThins
<1>3. LogInOrder' BY <1>0 DEF LogInOrder
<1>4. Unlogged'
 <2>1. PICK d \in 0 .. Len(line) : /\ Len(line') = Len(line) - d
                                   /\ \A i \in 1 .. Len(line') : Alike(line'[i], line[i + d]) BY DEF Thins
 <2>2. \A i \in 1 .. Len(line') : i + d \in 1 .. Len(line) BY <1>0, <2>1, LineType
 <2>3. ASSUME NEW i \in 1 .. Len(line'), line'[i].kind = "prompt", ~turns'[line'[i].turn].late,
   NEW n \in 1 .. Len(log')
       PROVE  log'[n].turn # line'[i].turn
  <3>1. i + d \in 1 .. Len(line) /\ line[i + d].kind = "prompt" /\ line'[i].turn = line[i + d].turn
   BY <2>1, <2>2, <2>3 DEF Alike
  <3>2. CASE log' = log BY <1>0, <2>3, <3>1, <3>2 DEF Unlogged
  <3>3. CASE log' = <<>> BY <2>3, <3>3
  <3> QED BY <3>2, <3>3
 <2> QED BY <2>3 DEF Unlogged
<1> QED BY <1>2, <1>3, <1>4 DEF LineInv

\* A hook of a start or a clear connects.
LEMMA LineStart ==
  ASSUME LineInv, AgentType', NEW e \in Hook, Joins(e), e.kind = "start", e.turn = Len(turns),
    turns' = turns, log' = log, phase \in {"boot", "idle"}, phase' \in {"hello", "idle"}
  PROVE  LineInv'
<1>0. AgentType /\ InOrder /\ LogInOrder /\ Unlogged /\ Len(turns) \in Nat BY TopType DEF LineInv
<1>1. Top = Rank(e) /\ Top' = Rank(e) /\ Top \in Int /\ Top' \in Int BY <1>0, TopType, TopTypeNext DEF Rank
<1>2. InOrder' BY <1>0, <1>1, OrderJoins
<1>3. LogInOrder' BY <1>0 DEF LogInOrder
<1>4. Unlogged'
 <2>1. Len(line) \in Nat BY <1>0, LineType
 <2>2. \A i \in 1 .. Len(line') : i \in 1 .. Len(line) \/ i = Len(line) + 1 BY <2>1 DEF Joins
 <2> QED BY <1>0, <2>1, <2>2 DEF Unlogged, Joins
<1> QED BY <1>2, <1>3, <1>4 DEF LineInv

\* A prompt's hook connects.
LEMMA LinePrompt ==
  ASSUME LineInv, AgentType', NEW e \in Hook, Joins(e), e.kind = "prompt", e.turn = Len(turns), e.of = pane,
    Flagged, \A i \in 1 .. Len(turns) : turns'[i].late = turns[i].late,
    log' = log, pane' = pane, phase = "asking", phase' \in {"prompting", "idle"}
  PROVE  LineInv'
<1>0. AgentType /\ InOrder /\ LogInOrder /\ Unlogged /\ Len(turns) \in Nat /\ Len(turns') = Len(turns)
      /\ Len(turns) >= 1 BY TopType DEF LineInv, Flagged, InOrder
<1>1. Top <= Rank(e) /\ Rank(e) <= Top' /\ Top \in Int /\ Top' \in Int BY <1>0, TopType, TopTypeNext DEF Rank
<1>2. InOrder' BY <1>0, <1>1, OrderJoins
<1>3. LogInOrder' BY <1>0 DEF LogInOrder
<1>4. Unlogged'
 <2>1. Len(line) \in Nat BY <1>0, LineType
 <2>2. \A i \in 1 .. Len(line') : i \in 1 .. Len(line) \/ i = Len(line) + 1 BY <2>1 DEF Joins
 <2>3. ASSUME NEW i \in 1 .. Len(line), line[i].kind = "prompt"
       PROVE  /\ ~turns'[line[i].turn].late => \A n \in 1 .. Len(log') : log'[n].turn # line[i].turn
              /\ line[i].turn # Len(turns')
  <3>1. line[i].turn \in 1 .. Len(turns) /\ line[i].turn < Len(turns) /\ line[i].turn \in Nat
   BY <1>0, <2>3, PromptPlace
  <3> QED BY <1>0, <2>3, <3>1 DEF Unlogged
 <2>4. \A n \in 1 .. Len(log') : log'[n].turn # e.turn
  <3>1. \A n \in 1 .. Len(log) : log[n] \in Entry BY <1>0 DEF AgentType
  <3> QED BY <1>0, <3>1 DEF LogInOrder, Entry
 <2>5. \A i \in 1 .. Len(line) : line'[i] = line[i] BY DEF Joins
 <2>6. line'[Len(line) + 1] = e /\ phase' # "running" BY DEF Joins
 <2>7. ASSUME NEW i \in 1 .. Len(line'), line'[i].kind = "prompt"
       PROVE  /\ ~turns'[line'[i].turn].late => \A n \in 1 .. Len(log') : log'[n].turn # line'[i].turn
              /\ phase' \in {"prompting", "running"} /\ line'[i].turn = Len(turns') =>
                    /\ line'[i].of = pane'
                    /\ phase' = "running" => turns'[line'[i].turn].late
  <3>1. CASE i \in 1 .. Len(line) BY <2>3, <2>5, <2>7, <3>1
  <3>2. CASE i = Len(line) + 1 BY <2>4, <2>6, <3>2
  <3> QED BY <2>2, <3>1, <3>2
 <2> QED BY <2>7 DEF Unlogged
<1> QED BY <1>2, <1>3, <1>4 DEF LineInv

\* A prompt's hook is lost.
LEMMA LineLost ==
  ASSUME LineInv, AgentType', Thins, turns' = turns, log' = log, phase = "asking", phase' = "prompting"
  PROVE  LineInv'
<1>0. AgentType /\ InOrder /\ LogInOrder /\ Unlogged /\ Len(turns) \in Nat /\ Len(turns) >= 1
 BY TopType DEF LineInv, InOrder
<1>1. Top <= Top' /\ Top \in Int /\ Top' \in Int BY <1>0, TopType, TopTypeNext
<1>2. InOrder' BY <1>0, <1>1, OrderThins
<1>3. LogInOrder' BY <1>0 DEF LogInOrder
<1>4. Unlogged'
 <2>1. PICK d \in 0 .. Len(line) : /\ Len(line') = Len(line) - d
                                   /\ \A i \in 1 .. Len(line') : Alike(line'[i], line[i + d]) BY DEF Thins
 <2>2. \A i \in 1 .. Len(line') : i + d \in 1 .. Len(line) BY <1>0, <2>1, LineType
 <2>3. \A i \in 1 .. Len(line) : line[i].kind = "prompt" => line[i].turn # Len(turns) BY <1>0, PromptPlace
 <2>4. ASSUME NEW i \in 1 .. Len(line'), line'[i].kind = "prompt"
       PROVE  /\ ~turns'[line'[i].turn].late => \A n \in 1 .. Len(log') : log'[n].turn # line'[i].turn
              /\ line'[i].turn # Len(turns')
  <3>1. PICK j \in 1 .. Len(line) : line'[i].turn = line[j].turn /\ line[j].kind = "prompt"
   BY <2>1, <2>2, <2>4 DEF Alike
  <3>2. ~turns[line[j].turn].late => \A n \in 1 .. Len(log) : log[n].turn # line[j].turn BY <1>0, <3>1 DEF Unlogged
  <3> QED BY <2>3, <3>1, <3>2
 <2> QED BY <2>4 DEF Unlogged
<1> QED BY <1>2, <1>3, <1>4 DEF LineInv

\* A new line of the transcript.
LogGrows(says) == /\ log' \in Seq(Entry) /\ Len(log') = Len(log) + 1
                  /\ \A i \in 1 .. Len(log) : log'[i] = log[i]
                  /\ log'[Len(log) + 1].turn = Len(turns) /\ log'[Len(log) + 1].says = says

LEMMA LogAppended ==
  ASSUME AgentType, NEW says \in BOOLEAN, log' = Append(log, [turn |-> Len(turns), says |-> says])
  PROVE  LogGrows(says)
<1>1. PICK e \in Entry : e = [turn |-> Len(turns), says |-> says] /\ e.turn = Len(turns) /\ e.says = says
 BY TopType DEF Entry
<1>2. log' = Append(log, e) /\ log \in Seq(Entry) BY <1>1 DEF AgentType
<1> QED BY <1>1, <1>2 DEF LogGrows

LEMMA LogOrderGrows ==
  ASSUME AgentType, LogInOrder, NEW says, LogGrows(says), Len(turns') = Len(turns), phase' \notin {"asking", "prompting"}
  PROVE  LogInOrder'
<1>0. Len(turns) \in Nat /\ Len(log) \in Nat /\ \A i \in 1 .. Len(log) : log[i] \in Entry /\ log[i].turn \in Nat
 <2>1. \A i \in 1 .. Len(log) : log[i] \in Entry BY DEF AgentType
 <2> QED BY <2>1, TopType DEF Entry
<1>1. \A i \in 1 .. Len(log') : i \in 1 .. Len(log) \/ i = Len(log) + 1 BY <1>0 DEF LogGrows
<1>2. \A i \in 1 .. Len(log') : log'[i].turn <= Len(turns) BY <1>0, <1>1 DEF LogGrows, LogInOrder
<1>3. ASSUME NEW i \in 1 .. Len(log'), NEW j \in 1 .. Len(log'), i < j PROVE log'[i].turn <= log'[j].turn
 <2>1. i \in 1 .. Len(log) /\ log'[i] = log[i] BY <1>0, <1>3 DEF LogGrows
 <2>2. CASE j \in 1 .. Len(log) BY <1>3, <2>1, <2>2 DEF LogGrows, LogInOrder
 <2>3. CASE j = Len(log) + 1 BY <1>2, <2>3 DEF LogGrows
 <2> QED BY <1>1, <2>2, <2>3
<1> QED BY <1>2, <1>3 DEF LogInOrder

NoNewPrompt ==
    \A i \in 1 .. Len(line') : line'[i].kind = "prompt" => \E j \in 1 .. Len(line) : Alike(line'[i], line[j])

LEMMA ThinsNoPrompt ==
  ASSUME AgentType, Thins
  PROVE  NoNewPrompt
<1>1. PICK d \in 0 .. Len(line) : /\ Len(line') = Len(line) - d
                                  /\ \A i \in 1 .. Len(line') : Alike(line'[i], line[i + d]) BY DEF Thins
<1>2. \A i \in 1 .. Len(line') : i + d \in 1 .. Len(line) BY <1>1, LineType
<1> QED BY <1>1, <1>2 DEF NoNewPrompt

LEMMA JoinsNoPrompt ==
  ASSUME AgentType, NEW e, e.kind # "prompt", Joins(e)
  PROVE  NoNewPrompt
<1>1. \A i \in 1 .. Len(line') : i \in 1 .. Len(line) \/ i = Len(line) + 1 BY LineType DEF Joins
<1> QED BY <1>1 DEF NoNewPrompt, Joins, Alike

\* The agent writes about its present turn: what the line says of the transcript stays true if the prompt of
\* this turn is not in the line or was not waited for.
LEMMA UnloggedGrows ==
  ASSUME AgentType, InOrder, Unlogged, NoNewPrompt, NEW says, LogGrows(says), Flagged,
    \A i \in 1 .. Len(line) : line[i].kind = "prompt" /\ line[i].turn = Len(turns) =>
        turns'[Len(turns)].late /\ (phase' \in {"prompting", "running"} => line[i].of = pane')
  PROVE  Unlogged'
<1>3. Len(log) \in Nat /\ Len(turns) \in Nat /\ Len(turns') = Len(turns) BY TopType DEF Flagged
<1>4. \A i \in 1 .. Len(log') : i \in 1 .. Len(log) \/ i = Len(log) + 1 BY <1>3 DEF LogGrows
<1>5. ASSUME NEW i \in 1 .. Len(line), line[i].kind = "prompt", ~turns'[line[i].turn].late, NEW n \in 1 .. Len(log')
      PROVE  log'[n].turn # line[i].turn
 <2>1. line[i].turn \in 1 .. Len(turns) BY <1>5, PromptPlace
 <2>2. ~turns[line[i].turn].late /\ line[i].turn # Len(turns) BY <1>5, <2>1 DEF Flagged
 <2>3. CASE n \in 1 .. Len(log) BY <1>5, <2>2, <2>3 DEF LogGrows, Unlogged
 <2>4. CASE n = Len(log) + 1 BY <2>2, <2>4 DEF LogGrows
 <2> QED BY <1>4, <2>3, <2>4
<1>6. ASSUME NEW i \in 1 .. Len(line'), line'[i].kind = "prompt"
      PROVE  /\ ~turns'[line'[i].turn].late => \A n \in 1 .. Len(log') : log'[n].turn # line'[i].turn
             /\ phase' \in {"prompting", "running"} /\ line'[i].turn = Len(turns') =>
                   /\ line'[i].of = pane'
                   /\ phase' = "running" => turns'[line'[i].turn].late
 <2>1. PICK j \in 1 .. Len(line) : Alike(line'[i], line[j]) BY <1>6 DEF NoNewPrompt
 <2>2. line[j].kind = "prompt" /\ line'[i].turn = line[j].turn /\ line'[i].of = line[j].of BY <1>6, <2>1 DEF Alike
 <2> QED BY <1>3, <1>5, <2>2
<1> QED BY <1>6 DEF Unlogged

LEMMA LineRuns ==
  ASSUME LineInv, AgentType', Thins, NEW says, LogGrows(says), Flagged, phase = "prompting", phase' = "running", pane' = pane,
    \A i \in 1 .. Len(line) : line[i].kind = "prompt" /\ line[i].turn = Len(turns) => turns'[Len(turns)].late
  PROVE  LineInv'
<1>0. AgentType /\ InOrder /\ LogInOrder /\ Unlogged /\ Len(turns') = Len(turns) /\ Len(turns') >= 1
 BY DEF LineInv, Flagged, InOrder
<1>1. Top' = Top /\ Top \in Int /\ Top' \in Int BY <1>0, TopType, TopTypeNext
<1>2. InOrder' BY <1>0, <1>1, OrderThins
<1>3. LogInOrder' BY <1>0, LogOrderGrows
<1>4. \A i \in 1 .. Len(line) : line[i].kind = "prompt" /\ line[i].turn = Len(turns) =>
             turns'[Len(turns)].late /\ (phase' \in {"prompting", "running"} => line[i].of = pane')
 BY <1>0 DEF Unlogged
<1>5. Unlogged' BY <1>0, <1>4, UnloggedGrows, ThinsNoPrompt
<1> QED BY <1>2, <1>3, <1>5 DEF LineInv

LEMMA LineFinish ==
  ASSUME LineInv, AgentType', NEW says, LogGrows(says), turns' = turns, phase = "running", phase' = "stopping",
    Thins \/ \E e \in Hook : Joins(e) /\ e.kind = "stop" /\ e.turn = Len(turns)
  PROVE  LineInv'
<1>0. AgentType /\ InOrder /\ LogInOrder /\ Unlogged /\ Len(turns) >= 1 /\ Len(turns) \in Nat /\ Flagged
 BY TopType DEF LineInv, Flagged, InOrder, AgentType
<1>1. Top <= Top' /\ Top \in Int /\ Top' \in Int /\ Top = 2 * Len(turns) /\ Top' = 2 * Len(turns) + 1
 BY <1>0, TopType, TopTypeNext
<1>2. InOrder' /\ NoNewPrompt
 <2>1. CASE Thins BY <1>0, <1>1, <2>1, OrderThins, ThinsNoPrompt
 <2>2. ASSUME NEW e \in Hook, Joins(e), e.kind = "stop", e.turn = Len(turns) PROVE InOrder' /\ NoNewPrompt
  <3>1. Rank(e) = 2 * Len(turns) + 1 BY <2>2 DEF Rank
  <3>2. Top <= Rank(e) /\ Rank(e) <= Top' BY <1>0, <1>1, <3>1
  <3>3. InOrder' BY <1>0, <1>1, <2>2, <3>2, OrderJoins
  <3> QED BY <1>0, <2>2, <3>3, JoinsNoPrompt
 <2> QED BY <2>1, <2>2
<1>3. LogInOrder' BY <1>0, LogOrderGrows
<1>4. \A i \in 1 .. Len(line) : line[i].kind = "prompt" /\ line[i].turn = Len(turns) =>
             turns'[Len(turns)].late /\ (phase' \in {"prompting", "running"} => line[i].of = pane')
 BY <1>0 DEF Unlogged
<1>5. Unlogged' BY <1>0, <1>2, <1>4, UnloggedGrows
<1> QED BY <1>2, <1>3, <1>5 DEF LineInv

------------------------------
(* What the agent may do in one step. *)

Quiet  == UNCHANGED <<phase, turns, log, pane, conns, backlog>>
Asks   == /\ phase = "idle" /\ phase' = "asking" /\ Len(turns') = Len(turns) + 1
          /\ \A i \in 1 .. Len(turns) : turns'[i] = turns[i]
          /\ turns'[Len(turns')].raced <=> job.name \in {"interrupt", "new"}
          /\ ~turns'[Len(turns')].hooked
          /\ UNCHANGED <<log, pane, conns, backlog>>
Rests  == /\ phase' \in {"none", "idle", "hello"}
          /\ \/ phase' = "none" /\ pane' = 0
             \/ phase' # "none" /\ phase # "none" /\ pane' = pane
          /\ UNCHANGED <<turns, log, conns, backlog>>
Issued == job.name \in {"start", "new"} /\ job.step = "issued"
Spawns == /\ Issued /\ phase' = "boot" /\ pane' = launch.session /\ log' = <<>>
          /\ UNCHANGED <<turns, conns, backlog>>
Runs   == /\ phase = "prompting" /\ phase' = "running" /\ LogGrows(FALSE) /\ Flagged
          /\ \A i \in 1 .. Len(turns) : turns'[i].hooked = turns[i].hooked
          /\ \A i \in 1 .. Len(line) : line[i].kind = "prompt" /\ line[i].turn = Len(turns) => turns'[Len(turns)].late
          /\ UNCHANGED <<pane, conns, backlog>>
Loses  == phase = "asking" /\ phase' = "prompting" /\ UNCHANGED <<turns, log, pane, conns, backlog>>

NewHook(e) == /\ e.of = pane /\ e.turn = Len(turns) /\ e.at = Unmeasured /\ ~e.below /\ ~e.bad
              /\ live /\ Joins(e) /\ backlog' = Append(backlog, e) /\ UNCHANGED <<pane, conns>>
Greets(e)  == /\ NewHook(e) /\ e.kind = "start" /\ phase \in {"boot", "idle"} /\ phase' \in {"hello", "idle"}
              /\ UNCHANGED <<turns, log>>
Prompts(e) == /\ NewHook(e) /\ e.kind = "prompt" /\ phase = "asking" /\ phase' \in {"prompting", "idle"}
              /\ Flagged /\ log' = log /\ turns'[Len(turns)].hooked
              /\ \A i \in 1 .. Len(turns) : turns'[i].late = turns[i].late
Ends(e)    == NewHook(e) /\ e.kind = "stop"
Finishes   == /\ phase = "running" /\ phase' = "stopping" /\ LogGrows(TRUE) /\ turns' = turns /\ pane' = pane
              /\ \/ UNCHANGED <<conns, backlog>>
                 \/ \E e \in Hook : Ends(e)

AgentMoves == \/ Quiet \/ Asks \/ Rests \/ Spawns \/ Runs \/ Loses \/ Finishes
              \/ \E e \in Hook : Greets(e) \/ Prompts(e)

LEMMA AskMoves ==
  ASSUME LineInv, NEW text \in Msgs \cup {"typed"}, Ask(text), phase = "idle", input' \in Seq(Msgs),
    UNCHANGED <<log, pane, conns, backlog, launch>>
  PROVE  AgentType' /\ Asks
<1>1. AgentType BY DEF LineInv
<1>2. /\ turns' \in Seq(Turn) /\ Len(turns') = Len(turns) + 1 /\ phase' = "asking"
      /\ \A i \in 1 .. Len(turns) : turns'[i] = turns[i]
      /\ turns'[Len(turns')].raced <=> job.name \in {"interrupt", "new"}
      /\ ~turns'[Len(turns')].hooked BY <1>1, AskDoes
<1> QED BY <1>1, <1>2 DEF AgentType, Asks

LEMMA PasteMoves ==
  ASSUME LineInv, PromptInv, PasteLands
  PROVE  AgentType' /\ AgentMoves
<1>1. job.msg \in Msgs /\ AgentType BY JobByName DEF PasteLands, PromptInv, Sending, LineInv
<1>2. UNCHANGED <<log, pane, conns, backlog, launch>> BY DEF PasteLands, store, hooks
<1>3. CASE phase = "idle"
 <2>1. Ask(job.msg) /\ input' = input BY <1>3 DEF PasteLands
 <2> QED BY <1>1, <1>2, <1>3, <2>1, AskMoves DEF AgentType, AgentMoves
<1>4. CASE phase # "idle"
 <2>1. input' = Append(input, job.msg) /\ UNCHANGED <<phase, turns>> BY <1>4 DEF PasteLands
 <2> QED BY <1>1, <1>2, <2>1 DEF AgentType, AgentMoves, Quiet
<1> QED BY <1>3, <1>4

LEMMA TakeInputMoves ==
  ASSUME LineInv, TakeInput
  PROVE  AgentType' /\ AgentMoves
<1>1. AgentType /\ input # <<>> /\ Head(input) \in Msgs /\ input' \in Seq(Msgs) BY DEF TakeInput, LineInv, AgentType
<1>2. UNCHANGED <<log, pane, conns, backlog, launch>> /\ phase = "idle" /\ Ask(Head(input))
 BY DEF TakeInput, store, hooks
<1> QED BY <1>1, <1>2, AskMoves DEF AgentMoves

\* Escape ends a turn; a hook that was starting may connect.
LEMMA EscapeMoves ==
  ASSUME LineInv, Escape, phase # "none", UNCHANGED <<log, pane, conns, launch, input>>
  PROVE  AgentType' /\ AgentMoves
<1>0. AgentType BY DEF LineInv
<1>1. CASE UNCHANGED <<backlog, turns>>
 <2>1. phase' = "idle" \/ phase' = phase BY DEF Escape
 <2> QED BY <1>0, <1>1, <2>1 DEF AgentType, AgentMoves, Rests, Quiet
<1>2. CASE phase = "asking" /\ Connect(HookOf("prompt", TRUE))
 <2>1. phase' = "idle" /\ Len(turns) >= 1 BY <1>2 DEF Escape, LineInv, InOrder
 <2>2. PICK own \in BOOLEAN : Connect(HookOf("prompt", own)) BY <1>2
 <2>3. PICK e \in Hook :
           /\ e.kind = "prompt" /\ e.of = pane /\ e.turn = Len(turns) /\ e.at = Unmeasured /\ ~e.below /\ ~e.bad
           /\ \/ live /\ Joins(e) /\ backlog' = Append(backlog, e)
              \/ ~live /\ backlog' = backlog
           /\ conns' \in Seq(Hook) /\ backlog' \in Seq(Hook) /\ Flagged
           /\ \A i \in 1 .. Len(turns) : turns'[i].late = turns[i].late
           /\ live => turns'[Len(turns)].hooked
           /\ ~live => turns' = turns BY <1>0, <2>1, <2>2, ConnectDoes
 <2>4. AgentType' BY <1>0, <2>1, <2>3 DEF AgentType, Flagged
 <2>5. CASE live BY <1>2, <2>1, <2>3, <2>4, <2>5 DEF AgentMoves, Prompts, NewHook
 <2>6. CASE ~live BY <2>1, <2>3, <2>4, <2>6 DEF AgentMoves, Rests
 <2> QED BY <2>5, <2>6
<1> QED BY <1>1, <1>2 DEF Escape

LEMMA ConnectMoves ==
  ASSUME LineInv, HookConnects
  PROVE  AgentType' /\ AgentMoves
<1>0. AgentType /\ UNCHANGED <<log, pane, conns, launch, input>> BY DEF LineInv, HookConnects, store
<1>1. PICK h \in {<<"boot", "start", "hello">>, <<"asking", "prompt", "prompting">>} :
        /\ phase = h[1] /\ phase' = h[3]
        /\ Connect(HookOf(h[2], TRUE)) \/ UNCHANGED <<backlog, turns>> BY DEF HookConnects
<1>2. CASE phase = "boot" /\ phase' = "hello" /\ h[2] = "start"
 <2>1. CASE UNCHANGED <<backlog, turns>> BY <1>0, <1>2, <2>1 DEF AgentType, AgentMoves, Rests
 <2>2. CASE Connect(HookOf("start", TRUE))
  <3>1. PICK own \in BOOLEAN : Connect(HookOf("start", own)) BY <2>2
  <3>2. PICK e \in Hook :
          /\ e.kind = "start" /\ e.of = pane /\ e.turn = Len(turns) /\ e.at = Unmeasured /\ ~e.below /\ ~e.bad
          /\ \/ live /\ Joins(e) /\ backlog' = Append(backlog, e)
             \/ ~live /\ backlog' = backlog
          /\ conns' \in Seq(Hook) /\ backlog' \in Seq(Hook) BY <1>0, <3>1, ConnectDoes
  <3>3. turns' = turns BY <3>1, <3>2 DEF Connect, HookOf
  <3>4. AgentType' BY <1>0, <1>2, <3>2, <3>3 DEF AgentType
  <3>5. CASE live BY <1>0, <1>2, <3>2, <3>3, <3>4, <3>5 DEF AgentMoves, Greets, NewHook
  <3>6. CASE ~live BY <1>0, <1>2, <3>2, <3>3, <3>4, <3>6 DEF AgentMoves, Rests
  <3> QED BY <3>5, <3>6
 <2> QED BY <1>1, <1>2, <2>1, <2>2
<1>3. CASE phase = "asking" /\ phase' = "prompting" /\ h[2] = "prompt"
 <2>1. CASE UNCHANGED <<backlog, turns>> BY <1>0, <1>3, <2>1 DEF AgentType, AgentMoves, Loses
 <2>2. CASE Connect(HookOf("prompt", TRUE))
  <3>0. Len(turns) >= 1 BY <1>3 DEF LineInv, InOrder
  <3>1. PICK own \in BOOLEAN : Connect(HookOf("prompt", own)) BY <2>2
  <3>2. PICK e \in Hook :
          /\ e.kind = "prompt" /\ e.of = pane /\ e.turn = Len(turns) /\ e.at = Unmeasured /\ ~e.below /\ ~e.bad
          /\ \/ live /\ Joins(e) /\ backlog' = Append(backlog, e)
             \/ ~live /\ backlog' = backlog
          /\ conns' \in Seq(Hook) /\ backlog' \in Seq(Hook) /\ Flagged
          /\ \A i \in 1 .. Len(turns) : turns'[i].late = turns[i].late
          /\ live => turns'[Len(turns)].hooked
          /\ ~live => turns' = turns BY <1>0, <3>0, <3>1, ConnectDoes
  <3>4. AgentType' BY <1>0, <1>3, <3>2 DEF AgentType, Flagged
  <3>5. CASE live BY <1>0, <1>3, <3>2, <3>4, <3>5 DEF AgentMoves, Prompts, NewHook
  <3>6. CASE ~live BY <1>0, <1>3, <3>2, <3>4, <3>6 DEF AgentMoves, Loses
  <3> QED BY <3>5, <3>6
 <2> QED BY <1>1, <1>3, <2>1, <2>2
<1> QED BY <1>1, <1>2, <1>3

LEMMA FinishMoves ==
  ASSUME LineInv, Finish
  PROVE  AgentType' /\ AgentMoves
<1>0. AgentType /\ UNCHANGED <<pane, conns, launch, input>> /\ phase = "running" /\ phase' = "stopping"
 BY DEF LineInv, Finish, store
<1>1. LogGrows(TRUE)
 <2>1. PICK s \in BOOLEAN : s = TRUE OBVIOUS
 <2>2. log' = Append(log, [turn |-> Len(turns), says |-> s]) BY <2>1 DEF Finish
 <2>3. LogGrows(s) BY <1>0, <2>2, LogAppended
 <2> QED BY <2>1, <2>3, Zenon
<1>2. CASE UNCHANGED <<backlog, turns>> BY <1>0, <1>1, <1>2 DEF AgentType, AgentMoves, Finishes, LogGrows
<1>3. ASSUME NEW own \in BOOLEAN, Connect(HookOf("stop", own)) PROVE AgentType' /\ AgentMoves
 <2>1. PICK e \in Hook :
           /\ e.kind = "stop" /\ e.of = pane /\ e.turn = Len(turns) /\ e.at = Unmeasured /\ ~e.below /\ ~e.bad
           /\ \/ live /\ Joins(e) /\ backlog' = Append(backlog, e)
              \/ ~live /\ backlog' = backlog
           /\ conns' \in Seq(Hook) /\ backlog' \in Seq(Hook) BY <1>0, <1>3, ConnectDoes
 <2>2. turns' = turns BY <1>3, <2>1 DEF Connect, HookOf
 <2>3. AgentType' BY <1>0, <1>1, <2>1, <2>2 DEF AgentType, LogGrows
 <2>4. CASE live BY <1>0, <1>1, <2>1, <2>2, <2>3, <2>4 DEF AgentMoves, Finishes, Ends, NewHook
 <2>5. CASE ~live BY <1>0, <1>1, <2>1, <2>2, <2>3, <2>5 DEF AgentMoves, Finishes
 <2> QED BY <2>4, <2>5
<1>4. Connect(HookOf("stop", TRUE)) \/ Connect(HookOf("stop", FALSE)) \/ UNCHANGED <<backlog, turns>> BY DEF Finish
<1>5. \/ UNCHANGED <<backlog, turns>>
      \/ \E own \in BOOLEAN : Connect(HookOf("stop", own)) BY <1>4
<1> QED BY <1>2, <1>3, <1>5

\* A hook in the line is one the agent still waits for.
LEMMA StillWaits ==
  ASSUME AgentType, NEW k, NEW i \in 1 .. Len(line), line[i].of = pane, line[i].turn = Len(turns), line[i].kind = k
  PROVE  ~Answered(k)
<1>1. line[i] \in ToSet(backlog) \cup ToSet(conns)
 <2>1. CASE i \in 1 .. Len(conns)
  <3>1. line[i] = conns[i] /\ conns \in Seq(Hook) BY <2>1, LineType DEF AgentType
  <3>2. line[i] \in ToSet(conns) BY <2>1, <3>1, InToSet
  <3> QED BY <3>2
 <2>2. CASE i > Len(conns)
  <3>0. Len(conns) \in Nat /\ Len(backlog) \in Nat /\ Len(line) = Len(conns) + Len(backlog) BY LineType
  <3>3. i - Len(conns) \in 1 .. Len(backlog) BY <2>2, <3>0
  <3>1. line[i] = backlog[i - Len(conns)] /\ backlog \in Seq(Hook) /\ i - Len(conns) \in 1 .. Len(backlog)
   BY <2>2, <3>3, LineType DEF AgentType
  <3>2. line[i] \in ToSet(backlog) BY <3>1, InToSet
  <3> QED BY <3>2
 <2> QED BY <2>1, <2>2, LineType
<1> QED BY <1>1 DEF Answered

LEMMA HookDoneMoves ==
  ASSUME LineInv, HookDone
  PROVE  AgentType' /\ AgentMoves
<1>0. AgentType /\ UNCHANGED <<pane, conns, backlog, launch, input>> BY DEF LineInv, HookDone, store, hooks
<1>1. PICK h \in {<<"hello", "start", "idle">>, <<"prompting", "prompt", "running">>, <<"stopping", "stop", "idle">>} :
          phase = h[1] /\ phase' = h[3] BY DEF HookDone
<1>2. CASE phase \in {"hello", "stopping"} /\ phase' = "idle"
 <2>1. UNCHANGED <<turns, log>> BY <1>2 DEF HookDone
 <2> QED BY <1>0, <1>2, <2>1 DEF AgentType, AgentMoves, Rests
<1>3. CASE phase = "prompting" /\ phase' = "running"
 <2>0. InOrder /\ Unlogged /\ Len(turns) \in Nat /\ Len(turns) >= 1 /\ turns \in Seq(Turn)
  BY <1>0, <1>3, TopType DEF LineInv, InOrder, AgentType
 <2>1. LogGrows(FALSE)
  <3>1. PICK s \in BOOLEAN : s = FALSE OBVIOUS
  <3>2. log' = Append(log, [turn |-> Len(turns), says |-> s]) BY <1>3, <3>1 DEF HookDone
  <3>3. LogGrows(s) BY <1>0, <3>2, LogAppended
  <3> QED BY <3>1, <3>3, Zenon
 <2>2. turns' = IF Answered("prompt") THEN turns ELSE [turns EXCEPT ![Len(turns)].late = TRUE] BY <1>3 DEF HookDone
 <2>3. /\ Flagged /\ \A i \in 1 .. Len(turns) : turns'[i].hooked = turns[i].hooked
       /\ ~Answered("prompt") => turns'[Len(turns)].late
  <3>1. CASE Answered("prompt") BY <2>0, <2>2, <3>1 DEF Flagged
  <3>2. CASE ~Answered("prompt")
   <4>1. Len(turns) \in 1 .. Len(turns) /\ turns[Len(turns)] \in Turn BY <2>0
   <4>2. /\ [turns[Len(turns)] EXCEPT !.late = TRUE] \in Turn
         /\ [turns[Len(turns)] EXCEPT !.late = TRUE].late
         /\ [turns[Len(turns)] EXCEPT !.late = TRUE].text = turns[Len(turns)].text
         /\ [turns[Len(turns)] EXCEPT !.late = TRUE].raced = turns[Len(turns)].raced
         /\ [turns[Len(turns)] EXCEPT !.late = TRUE].hooked = turns[Len(turns)].hooked BY <4>1 DEF Turn
   <4>3. PICK t \in Turn : /\ t = [turns[Len(turns)] EXCEPT !.late = TRUE] /\ t.late
                           /\ t.text = turns[Len(turns)].text /\ t.raced = turns[Len(turns)].raced
                           /\ t.hooked = turns[Len(turns)].hooked BY <4>2
   <4>4. turns' = [turns EXCEPT ![Len(turns)] = t] BY <2>2, <3>2, <4>3
   <4>5. /\ turns' \in Seq(Turn) /\ Len(turns') = Len(turns) /\ turns'[Len(turns)] = t
         /\ \A i \in 1 .. Len(turns) : i # Len(turns) => turns'[i] = turns[i] BY <2>0, <4>1, <4>4
   <4> QED BY <4>3, <4>5 DEF Flagged
  <3> QED BY <3>1, <3>2
 <2>4. ASSUME NEW i \in 1 .. Len(line), line[i].kind = "prompt", line[i].turn = Len(turns)
       PROVE  turns'[Len(turns)].late
  <3>1. line[i].of = pane BY <1>3, <2>0, <2>4 DEF Unlogged
  <3> QED BY <1>0, <2>3, <2>4, <3>1, StillWaits
 <2>5. AgentType' BY <1>0, <1>3, <2>1, <2>3 DEF AgentType, LogGrows, Flagged
 <2> QED BY <1>0, <1>3, <2>1, <2>3, <2>4, <2>5 DEF AgentMoves, Runs
<1> QED BY <1>1, <1>2, <1>3

LEMMA TerminalMoves ==
  ASSUME LineInv, PromptInv, Terminal
  PROVE  AgentType' /\ AgentMoves
<1>0. AgentType /\ UNCHANGED <<log, pane, conns, launch, input>> BY DEF LineInv, Terminal, store
<1>1. ASSUME phase = "idle", NEW text \in (ToSet(held) \cup {inFlight, "typed"}) \ {None}, Ask(text), UNCHANGED backlog
      PROVE  AgentType' /\ AgentMoves
 <2>1. text \in Msgs \cup {"typed"}
  <3>1. held \in Seq(Msgs) /\ inFlight \in Msgs \cup {None} BY DEF PromptInv, PromptType
  <3>2. text \in ToSet(held) => text \in Msgs BY <3>1, InToSet
  <3> QED BY <1>1, <3>1, <3>2
 <2> QED BY <1>0, <1>1, <2>1, AskMoves DEF AgentMoves, AgentType
<1>2. ASSUME phase = "idle", Connect(HookOf("start", FALSE)), UNCHANGED phase
      PROVE  AgentType' /\ AgentMoves
 <2>1. PICK own \in BOOLEAN : Connect(HookOf("start", own)) BY <1>2
 <2>2. PICK e \in Hook :
           /\ e.kind = "start" /\ e.of = pane /\ e.turn = Len(turns) /\ e.at = Unmeasured /\ ~e.below /\ ~e.bad
           /\ \/ live /\ Joins(e) /\ backlog' = Append(backlog, e)
              \/ ~live /\ backlog' = backlog
           /\ conns' \in Seq(Hook) /\ backlog' \in Seq(Hook) BY <1>0, <2>1, ConnectDoes
 <2>3. turns' = turns BY <2>1, <2>2 DEF Connect, HookOf
 <2>4. AgentType' BY <1>0, <1>2, <2>2, <2>3 DEF AgentType
 <2>5. CASE live BY <1>0, <1>2, <2>2, <2>3, <2>4, <2>5 DEF AgentMoves, Greets, NewHook
 <2>6. CASE ~live BY <1>0, <1>2, <2>2, <2>3, <2>4, <2>6 DEF AgentMoves, Quiet
 <2> QED BY <2>5, <2>6
<1>3. CASE phase \in {"asking", "prompting", "running"} /\ Escape BY <1>0, <1>3, EscapeMoves
<1>4. \/ phase = "idle" /\ \E text \in (ToSet(held) \cup {inFlight, "typed"}) \ {None} : Ask(text) /\ UNCHANGED backlog
      \/ phase = "idle" /\ Connect(HookOf("start", FALSE)) /\ UNCHANGED phase
      \/ phase \in {"asking", "prompting", "running"} /\ Escape BY DEF Terminal
<1> QED BY <1>1, <1>2, <1>3, <1>4

\* A pane has an agent with a phase, and no other has.
PaneIs == (pane = 0) <=> (phase = "none")

LEMMA OtherMoves ==
  ASSUME LineInv, PromptInv, PaneIs, PaneDies \/ EscapeLands \/ PaneSpawned
  PROVE  AgentType' /\ AgentMoves
<1>0. AgentType BY DEF LineInv
<1>1. CASE PaneDies BY <1>0, <1>1 DEF PaneDies, AgentType, AgentMoves, Rests, hooks, store
<1>2. CASE EscapeLands
 <2>1. phase # "none" /\ UNCHANGED <<log, pane, conns, launch, input>> /\ Escape
  BY <1>2 DEF EscapeLands, PaneIs, Alive, store
 <2> QED BY <2>1, EscapeMoves
<1>3. CASE PaneSpawned
 <2>1. /\ phase' = "boot" /\ pane' = launch.session /\ log' = <<>> /\ input' = <<>>
       /\ UNCHANGED <<turns, conns, backlog, launch>> /\ Issued BY <1>3 DEF PaneSpawned, Spawn, hooks, store, Issued
 <2>2. launch.session \in Nat BY <1>0 DEF AgentType, LaunchRecord
 <2> QED BY <1>0, <2>1, <2>2 DEF AgentType, AgentMoves, Spawns
<1> QED BY <1>1, <1>2, <1>3

\* The line and the transcript stay in order, whatever the agent does.
LEMMA LineMoves ==
  ASSUME LineInv, AgentType', AgentMoves
  PROVE  LineInv'
<1>0. AgentType /\ (UNCHANGED <<conns, backlog>> => Thins) BY LineSame, ShrinksThins DEF LineInv
<1>1. CASE Quiet BY <1>0, <1>1, LineThins DEF Quiet
<1>2. CASE Asks BY <1>0, <1>2, LineAsk DEF Asks
<1>3. CASE Rests BY <1>0, <1>3, LineRests DEF Rests
<1>4. CASE Spawns BY <1>0, <1>4, LineRests DEF Spawns
<1>5. CASE Runs
 <2>1. PICK s \in BOOLEAN : s = FALSE OBVIOUS
 <2>2. LogGrows(s) BY <1>5, <2>1, Zenon DEF Runs
 <2> QED BY <1>0, <1>5, <2>2, LineRuns DEF Runs
<1>6. CASE Loses BY <1>0, <1>6, LineLost DEF Loses
<1>7. CASE Finishes
 <2>1. PICK s \in BOOLEAN : s = TRUE OBVIOUS
 <2>2. LogGrows(s) BY <1>7, <2>1, Zenon DEF Finishes
 <2>3. Thins \/ \E e \in Hook : Joins(e) /\ e.kind = "stop" /\ e.turn = Len(turns)
  BY <1>0, <1>7 DEF Finishes, Ends, NewHook
 <2> QED BY <1>7, <2>2, <2>3, LineFinish DEF Finishes
<1>8. ASSUME NEW e \in Hook, Greets(e) PROVE LineInv' BY <1>8, LineStart DEF Greets, NewHook
<1>9. ASSUME NEW e \in Hook, Prompts(e) PROVE LineInv' BY <1>9, LinePrompt DEF Prompts, NewHook
<1> QED BY <1>1, <1>2, <1>3, <1>4, <1>5, <1>6, <1>7, <1>8, <1>9 DEF AgentMoves

------------------------------
(* One step of the system, as the line, the agent and the launch see it. *)

\* admind takes hooks off the line or marks them while the agent does nothing, or a failed launch leaves no agent.
Handles == UNCHANGED <<pane, phase, turns, log>> /\ Shrinks
Dies    == phase' = "none" /\ pane' = 0 /\ UNCHANGED <<turns, log>> /\ Shrinks

Moves == AgentMoves \/ Handles \/ Dies \/ Measure

\* The launch as a step leaves it: the same session, or the next one, which is then to be spawned.
SameSession == launch'.session = launch.session /\ (Issued' => Issued /\ pane' \in {0, pane})
NextSession == launch'.session = launch.session + 1 /\ Handles

LEMMA LaunchFields ==
  ASSUME launch \in LaunchRecord
  PROVE  /\ launch.session \in Nat /\ launch.nonce \in BOOLEAN /\ launch.ack \in BOOLEAN /\ launch.hold \in BOOLEAN
         /\ launch.issued \in BOOLEAN /\ launch.replace \in BOOLEAN
BY DEF LaunchRecord

LEMMA RefuseDoes ==
  ASSUME launch \in LaunchRecord, Refuse
  PROVE  launch' \in LaunchRecord /\ launch'.session = launch.session /\ launch'.nonce = launch.nonce /\ launch'.hold
<1>1. PICK b \in BOOLEAN : b /\ launch' = [launch EXCEPT !.hold = b] BY DEF Refuse
<1> QED BY <1>1 DEF LaunchRecord

LEMMA StartLaunchDoes ==
  ASSUME launch \in LaunchRecord, StartLaunches
  PROVE  launch' \in LaunchRecord /\ launch'.session = launch.session + 1 /\ launch'.nonce /\ launch'.issued
         /\ launch.session = 0
<1>1. PICK b \in BOOLEAN, c \in BOOLEAN : b /\ ~c OBVIOUS
<1>2. launch' = [session |-> 1, nonce |-> b, ack |-> c, hold |-> c, issued |-> b, replace |-> c]
 BY <1>1 DEF StartLaunches, NoLaunch
<1>3. launch.session = 0 /\ launch.session + 1 = 1 BY DEF StartLaunches
<1> QED BY <1>1, <1>2, <1>3 DEF LaunchRecord

LEMMA NewBeginDoes ==
  ASSUME launch \in LaunchRecord, NewBegins
  PROVE  launch' \in LaunchRecord /\ launch'.session = launch.session /\ ~launch'.nonce /\ launch'.replace
<1>1. PICK b \in BOOLEAN, c \in BOOLEAN : b /\ ~c OBVIOUS
<1>2. launch' = [launch EXCEPT !.nonce = c, !.replace = b] BY <1>1 DEF NewBegins
<1> QED BY <1>1, <1>2 DEF LaunchRecord

LEMMA NewIssueDoes ==
  ASSUME launch \in LaunchRecord, NewIssued
  PROVE  launch' \in LaunchRecord /\ launch'.session = launch.session + 1 /\ launch'.nonce /\ launch'.issued /\ ~launch'.hold
<1>1. PICK b \in BOOLEAN, c \in BOOLEAN : b /\ ~c OBVIOUS
<1>2. launch' = [session |-> launch.session + 1, nonce |-> b, ack |-> c, hold |-> c, issued |-> b, replace |-> b]
 BY <1>1 DEF NewIssued
<1> QED BY <1>1, <1>2 DEF LaunchRecord

LEMMA LaunchReturnDoes ==
  ASSUME launch \in LaunchRecord, LaunchReturns
  PROVE  launch' \in LaunchRecord /\ launch'.session = launch.session /\ launch'.nonce = launch.nonce
         /\ launch'.hold = launch.hold
<1>1. PICK c \in BOOLEAN : ~c OBVIOUS
<1>2. launch' = [launch EXCEPT !.issued = c, !.replace = c] BY <1>1 DEF LaunchReturns
<1> QED BY <1>1, <1>2 DEF LaunchRecord

LEMMA SessionStartDoes ==
  ASSUME launch \in LaunchRecord, OnSessionStart
  PROVE  /\ launch' \in LaunchRecord /\ launch'.session = launch.session /\ launch'.nonce = launch.nonce
         /\ \/ launch'.hold /\ stuck'
            \/ launch'.hold = launch.hold /\ stuck' = stuck /\ busy = 0 /\ inFlight = None
         /\ launch'.issued = launch.issued /\ launch'.replace = launch.replace
<1>1. PICK b \in BOOLEAN : b OBVIOUS
<1>2. CASE Refuse BY <1>1, <1>2 DEF Refuse, LaunchRecord
<1>3. CASE launch' = [launch EXCEPT !.ack = TRUE, !.hold = TRUE] /\ stuck' = TRUE
 <2>1. launch' = [launch EXCEPT !.ack = b, !.hold = b] BY <1>1, <1>3
 <2> QED BY <1>1, <1>3, <2>1 DEF LaunchRecord
<1>4. CASE launch' = [launch EXCEPT !.ack = TRUE] /\ stuck' = stuck /\ busy = 0 /\ inFlight = None
 <2>1. launch' = [launch EXCEPT !.ack = b] BY <1>1, <1>4
 <2> QED BY <1>4, <2>1 DEF LaunchRecord
<1> QED BY <1>2, <1>3, <1>4 DEF OnSessionStart

------------------------------
LEMMA HandleType ==
  ASSUME AgentType, Handles, conns' \in Seq(Hook), backlog' \in Seq(Hook), input' = input, launch' \in LaunchRecord
  PROVE  AgentType' /\ Moves
BY DEF AgentType, Handles, Moves

\* Nothing the line or the agent is made of changes.
LEMMA RestHandles ==
  ASSUME AgentType, UNCHANGED <<agent, conns, backlog>>
  PROVE  Handles /\ conns' \in Seq(Hook) /\ backlog' \in Seq(Hook) /\ input' = input
BY LineSame DEF Handles, agent

\* The hook at the head is taken off.
LEMMA PopHandles ==
  ASSUME AgentType, conns # <<>>, conns' = Tail(conns), UNCHANGED <<agent, backlog>>
  PROVE  Handles /\ conns' \in Seq(Hook) /\ backlog' \in Seq(Hook) /\ input' = input
BY LinePop DEF Handles, agent

LEMMA RaiseHandles ==
  ASSUME AgentType, RaiseFloor, UNCHANGED <<agent, backlog>>
  PROVE  Handles /\ conns' \in Seq(Hook) /\ backlog' \in Seq(Hook) /\ input' = input
BY LineRaise DEF Handles, agent

LEMMA StartHandles ==
  ASSUME AgentType, Starts
  PROVE  Handles /\ conns' \in Seq(Hook) /\ backlog' \in Seq(Hook) /\ input' = input
<1>1. CASE Crash BY <1>1, LineCrash DEF Crash, Handles, agent
<1>2. CASE StartAdopts \/ StartLaunches \/ StartRefuses
 BY <1>2, RestHandles DEF StartAdopts, StartLaunches, StartRefuses, Recover, hooks
<1> QED BY <1>1, <1>2 DEF Starts

LEMMA QueueHandles ==
  ASSUME AgentType, FlushStuck \/ FlushDenies \/ Dispatch \/ SendReturns \/ SendFails \/ Restarted \/ SendUncertain
                    \/ (\E m \in Msgs : Receive(m)) \/ Gate
  PROVE  Handles /\ conns' \in Seq(Hook) /\ backlog' \in Seq(Hook) /\ input' = input
<1>1. CASE SendUncertain BY <1>1, RaiseHandles DEF SendUncertain
<1>2. CASE FlushStuck \/ FlushDenies \/ Dispatch \/ SendReturns \/ SendFails
 BY <1>2, RestHandles DEF FlushStuck, FlushDenies, Dispatch, SendReturns, SendFails, hooks
<1>3. CASE Restarted \/ (\E m \in Msgs : Receive(m)) \/ Gate BY <1>3, RestHandles DEF Restarted, Receive, Gate, hooks
<1> QED BY <1>1, <1>2, <1>3

LEMMA CommandHandles ==
  ASSUME AgentType, InterruptBegins \/ Interrupted \/ InterruptFails \/ NewBegins \/ NewIssued \/ LaunchReturns \/ CheckAgent
  PROVE  Handles /\ conns' \in Seq(Hook) /\ backlog' \in Seq(Hook) /\ input' = input
<1>1. CASE Interrupted \/ NewBegins \/ CheckAgent BY <1>1, RaiseHandles DEF Interrupted, NewBegins, CheckAgent
<1>2. CASE InterruptBegins \/ InterruptFails \/ NewIssued
 BY <1>2, RestHandles DEF InterruptBegins, InterruptFails, NewIssued, hooks
<1>3. CASE LaunchReturns BY <1>3, RaiseHandles, RestHandles DEF LaunchReturns, FloorOfNew
<1> QED BY <1>1, <1>2, <1>3

LEMMA HookHandles ==
  ASSUME AgentType, Hooks, ~Measure
  PROVE  Handles /\ conns' \in Seq(Hook) /\ backlog' \in Seq(Hook) /\ input' = input
<1>1. CASE Accept BY <1>1, LineAccept DEF Accept, Handles, agent
<1>2. CASE FrameDropped BY <1>2, LineDrop DEF FrameDropped, Handles, agent
<1>3. CASE LostHolds \/ HookFails \/ Ignored \/ OnSessionStart \/ PromptLate \/ OnPrompt \/ StopUnusable \/ OnStop
 <2>1. conns # <<>> /\ conns' = Tail(conns) /\ UNCHANGED <<agent, backlog>>
  BY <1>3 DEF LostHolds, HookFails, Ignored, OnSessionStart, PromptLate, OnPrompt, StopUnusable, OnStop, Applying
 <2> QED BY <2>1, PopHandles
<1>4. CASE StopBegins
 <2>1. conns # <<>> /\ (conns' = Tail(conns) \/ conns' = conns) /\ UNCHANGED <<agent, backlog>>
  BY <1>4 DEF StopBegins, Applying
 <2> QED BY <2>1, PopHandles, RestHandles
<1> QED BY <1>1, <1>2, <1>3, <1>4 DEF Hooks

\* A launch fails.
LEMMA LaunchFailDoes ==
  ASSUME AgentType, LaunchFails
  PROVE  AgentType' /\ (Handles \/ Dies) /\ SameSession
<1>1. launch \in LaunchRecord BY DEF AgentType
<1>2. launch' \in LaunchRecord /\ launch'.session = launch.session BY <1>1, RefuseDoes DEF LaunchFails
<1>3. Shrinks /\ conns' \in Seq(Hook) /\ backlog' \in Seq(Hook) BY LineRaise, LineSame DEF LaunchFails, FloorOfNew
<1>4. ~Issued' BY DEF Issued, LaunchFails, Free
<1>5. CASE UNCHANGED agent BY <1>2, <1>3, <1>4, <1>5 DEF AgentType, Handles, SameSession, agent
<1>6. CASE pane' = 0 /\ phase' = "none" /\ UNCHANGED <<input, turns, log>>
 BY <1>2, <1>3, <1>4, <1>6 DEF AgentType, Dies, SameSession
<1> QED BY <1>5, <1>6 DEF LaunchFails

------------------------------
(* Sessions: the agents in the pane come one after the other. *)

\* No hook and no pane is of a session that is yet to be spawned.
SessionInv ==
    /\ (pane = 0) <=> (phase = "none")
    /\ pane <= launch.session
    /\ \A i \in 1 .. Len(line) : line[i].of >= 1 /\ line[i].of <= launch.session
    /\ Issued => pane < launch.session /\ \A i \in 1 .. Len(line) : line[i].of < launch.session

LEMMA JobSame ==
  ASSUME UNCHANGED job, launch'.session = launch.session, pane' \in {0, pane}
  PROVE  SameSession
BY DEF SameSession, Issued

LEMMA NotIssued ==
  ASSUME launch'.session = launch.session, ~Issued'
  PROVE  SameSession
BY DEF SameSession

LEMMA FreeNotIssued == job' \in {Free, Restart} => ~Issued'
BY DEF Free, Restart, Issued

LEMMA SendNotIssued == job'.name \notin {"start", "new"} => ~Issued'
BY DEF Issued

LEMMA StartSessions ==
  ASSUME AgentType, PromptInv, Starts
  PROVE  AgentType' /\ Moves /\ (SameSession \/ NextSession)
<1>1. Handles /\ conns' \in Seq(Hook) /\ backlog' \in Seq(Hook) /\ input' = input /\ pane' = pane
 BY StartHandles DEF Handles
<1>2. launch \in LaunchRecord BY DEF AgentType
<1>3. CASE StartLaunches BY <1>1, <1>2, <1>3, StartLaunchDoes, HandleType DEF NextSession
<1>4. CASE StartAdopts \/ Crash \/ StartRefuses
 <2>1. launch' \in LaunchRecord /\ launch'.session = launch.session
  BY <1>2, <1>4, RefuseDoes DEF StartAdopts, Crash, StartRefuses, store
 <2>2. job' \in {job, Free} BY <1>4 DEF StartAdopts, Crash, StartRefuses
 <2> QED BY <1>1, <2>1, <2>2, HandleType, JobSame, NotIssued, FreeNotIssued
<1> QED BY <1>3, <1>4 DEF Starts

LEMMA QueueSessions ==
  ASSUME AgentType, PromptInv,
    FlushStuck \/ FlushDenies \/ Dispatch \/ SendReturns \/ SendFails \/ Restarted \/ SendUncertain
    \/ (\E m \in Msgs : Receive(m)) \/ Gate
  PROVE  AgentType' /\ Moves /\ SameSession
<1>1. Handles /\ conns' \in Seq(Hook) /\ backlog' \in Seq(Hook) /\ input' = input /\ pane' = pane
 BY QueueHandles DEF Handles
<1>2. launch \in LaunchRecord BY DEF AgentType
<1>3. CASE Restarted
 <2>1. launch' \in LaunchRecord /\ launch'.session = launch.session /\ job' = Free
  BY <1>2, <1>3, RefuseDoes DEF Restarted
 <2> QED BY <1>1, <2>1, HandleType, NotIssued, FreeNotIssued
<1>4. CASE FlushStuck \/ FlushDenies \/ Dispatch \/ SendReturns \/ SendFails \/ SendUncertain
 <2>1. launch' = launch BY <1>4 DEF FlushStuck, FlushDenies, Dispatch, SendReturns, SendFails, SendUncertain, store
 <2>2. job' \in {job, Free, Restart} \/ job'.name = "send"
  BY <1>4 DEF FlushStuck, FlushDenies, Dispatch, SendReturns, SendFails, SendUncertain, Restart
 <2> QED BY <1>1, <1>2, <2>1, <2>2, HandleType, JobSame, NotIssued, FreeNotIssued, SendNotIssued
<1>5. CASE (\E m \in Msgs : Receive(m)) \/ Gate
 <2>1. UNCHANGED <<launch, job>> BY <1>5 DEF Receive, Gate, store, memory
 <2> QED BY <1>1, <1>2, <2>1, HandleType, JobSame
<1> QED BY <1>3, <1>4, <1>5

LEMMA CommandSessions ==
  ASSUME AgentType, PromptInv,
    InterruptBegins \/ Interrupted \/ InterruptFails \/ NewBegins \/ NewIssued \/ LaunchReturns \/ CheckAgent
  PROVE  AgentType' /\ Moves /\ (SameSession \/ NextSession)
<1>1. Handles /\ conns' \in Seq(Hook) /\ backlog' \in Seq(Hook) /\ input' = input /\ pane' = pane
 BY CommandHandles DEF Handles
<1>2. launch \in LaunchRecord BY DEF AgentType
<1>3. CASE NewIssued BY <1>1, <1>2, <1>3, NewIssueDoes, HandleType DEF NextSession
<1>4. CASE NewBegins
 <2>1. launch' \in LaunchRecord /\ launch'.session = launch.session BY <1>2, <1>4, NewBeginDoes
 <2>2. ~Issued' BY <1>4 DEF NewBegins, Issued
 <2> QED BY <1>1, <2>1, <2>2, HandleType, NotIssued
<1>5. CASE LaunchReturns
 <2>1. launch' \in LaunchRecord /\ launch'.session = launch.session /\ job' = Free
  BY <1>2, <1>5, LaunchReturnDoes DEF LaunchReturns
 <2> QED BY <1>1, <2>1, HandleType, NotIssued, FreeNotIssued
<1>6. CASE CheckAgent
 <2>1. launch' \in LaunchRecord /\ launch'.session = launch.session /\ job' = job
  BY <1>2, <1>6, RefuseDoes DEF CheckAgent
 <2> QED BY <1>1, <2>1, HandleType, JobSame
<1>7. CASE InterruptBegins \/ Interrupted \/ InterruptFails
 <2>1. launch' = launch /\ (job' = Free \/ job'.name = "interrupt")
  BY <1>7 DEF InterruptBegins, Interrupted, InterruptFails, store
 <2> QED BY <1>1, <1>2, <2>1, HandleType, NotIssued, FreeNotIssued, SendNotIssued
<1> QED BY <1>3, <1>4, <1>5, <1>6, <1>7

LEMMA HookSessions ==
  ASSUME AgentType, PromptInv, Hooks
  PROVE  AgentType' /\ Moves /\ SameSession
<1>2. launch \in LaunchRecord BY DEF AgentType
<1>3. CASE Measure
 <2>1. conns' \in Seq(Hook) /\ backlog' \in Seq(Hook) /\ UNCHANGED <<pane, phase, turns, log, input, launch, job>>
  BY <1>3, LineMeasure DEF Measure, agent, store, memory
 <2> QED BY <1>3, <2>1, JobSame DEF AgentType, Moves
<1>4. CASE ~Measure
 <2>1. Handles /\ conns' \in Seq(Hook) /\ backlog' \in Seq(Hook) /\ input' = input /\ pane' = pane
  BY <1>4, HookHandles DEF Handles
 <2>2. launch' \in LaunchRecord /\ launch'.session = launch.session
  <3>1. CASE OnSessionStart BY <1>2, <3>1, SessionStartDoes
  <3>2. CASE Accept \/ FrameDropped \/ LostHolds \/ HookFails \/ Ignored \/ PromptLate
   BY <1>2, <3>2 DEF Accept, FrameDropped, LostHolds, HookFails, Ignored, PromptLate, store
  <3>3. CASE OnPrompt \/ StopBegins \/ StopUnusable \/ OnStop
   BY <1>2, <3>3 DEF OnPrompt, StopBegins, StopUnusable, OnStop, store
  <3> QED BY <1>4, <3>1, <3>2, <3>3 DEF Hooks
 <2>3. job' = job
  <3>2. CASE Accept \/ FrameDropped \/ LostHolds \/ HookFails \/ Ignored \/ PromptLate
   BY <3>2 DEF Accept, FrameDropped, LostHolds, HookFails, Ignored, PromptLate, memory
  <3>3. CASE OnPrompt \/ StopBegins \/ StopUnusable \/ OnStop \/ OnSessionStart
   BY <3>3 DEF OnPrompt, StopBegins, StopUnusable, OnStop, OnSessionStart, memory
  <3> QED BY <1>4, <3>2, <3>3 DEF Hooks
 <2> QED BY <2>1, <2>2, <2>3, HandleType, JobSame
<1> QED BY <1>3, <1>4

LEMMA AgentSessions ==
  ASSUME LineInv, PromptInv, PaneIs, Agent \/ PasteLands \/ EscapeLands \/ PaneSpawned
  PROVE  AgentType' /\ AgentMoves /\ SameSession /\ launch' = launch
<1>1. CASE Agent
 <2>1. AgentType' /\ AgentMoves
  BY <1>1, HookDoneMoves, ConnectMoves, FinishMoves, TakeInputMoves, TerminalMoves, OtherMoves DEF Agent
 <2>2. UNCHANGED <<job, launch>> /\ pane' \in {0, pane}
  BY <1>1 DEF Agent, HookDone, HookConnects, Finish, TakeInput, Terminal, PaneDies, store, memory
 <2> QED BY <2>1, <2>2, JobSame
<1>2. CASE PasteLands
 <2>1. job'.name = "send" /\ launch' = launch
  <3>1. job \in Sending /\ job' = [job EXCEPT !.done = TRUE] BY <1>2, JobByName DEF PasteLands, PromptInv
  <3> QED BY <1>2, <3>1 DEF PasteLands, store, Sending
 <2> QED BY <1>2, <2>1, PasteMoves, NotIssued, SendNotIssued
<1>3. CASE EscapeLands
 <2>1. job'.name = "interrupt" /\ launch' = launch
  <3>1. job \in Breaking /\ job' = [job EXCEPT !.done = TRUE] BY <1>3, JobByName DEF EscapeLands, PromptInv
  <3> QED BY <1>3, <3>1 DEF EscapeLands, store, Breaking
 <2> QED BY <1>3, <2>1, OtherMoves, NotIssued, SendNotIssued
<1>4. CASE PaneSpawned
 <2>1. job'.step = "spawned" /\ launch' = launch
  <3>1. job \in Launching /\ job' = [job EXCEPT !.step = "spawned"] BY <1>4, JobByName DEF PaneSpawned, PromptInv
  <3> QED BY <1>4, <3>1 DEF PaneSpawned, store, Launching
 <2>2. ~Issued' BY <2>1 DEF Issued
 <2> QED BY <1>4, <2>1, <2>2, OtherMoves, NotIssued
<1> QED BY <1>1, <1>2, <1>3, <1>4

\* Every step is one of these.
LEMMA StepMoves ==
  ASSUME LineInv, PromptInv, PaneIs, [Next]_vars
  PROVE  AgentType' /\ Moves /\ (SameSession \/ NextSession)
<1>0. AgentType BY DEF LineInv
<1>1. CASE Starts BY <1>0, <1>1, StartSessions
<1>2. CASE Queue \/ (\E m \in Msgs : Receive(m)) \/ Gate BY <1>0, <1>2, QueueSessions, AgentSessions DEF Queue, Moves
<1>3. CASE Commands BY <1>0, <1>3, CommandSessions, AgentSessions, LaunchFailDoes DEF Commands, Moves
<1>4. CASE Hooks BY <1>0, <1>4, HookSessions
<1>5. CASE Agent BY <1>5, AgentSessions DEF Moves
<1>6. CASE UNCHANGED vars
 <2>1. UNCHANGED <<agent, conns, backlog, launch, job>> BY <1>6 DEF vars, hooks, store, memory
 <2>2. Handles /\ conns' \in Seq(Hook) /\ backlog' \in Seq(Hook) /\ input' = input /\ pane' = pane
  BY <1>0, <2>1, RestHandles DEF agent
 <2> QED BY <1>0, <2>1, <2>2, HandleType, JobSame DEF AgentType
<1> QED BY <1>1, <1>2, <1>3, <1>4, <1>5, <1>6 DEF Next

LEMMA LineStep ==
  ASSUME LineInv, AgentType', Moves
  PROVE  LineInv'
<1>0. AgentType BY DEF LineInv
<1>1. CASE AgentMoves BY <1>1, LineMoves
<1>2. CASE Handles BY <1>2, LineThins, ShrinksThins DEF Handles
<1>3. CASE Dies BY <1>3, LineRests, ShrinksThins DEF Dies
<1>4. CASE Measure BY <1>0, <1>4, LineMeasure, LineThins DEF Measure, agent
<1> QED BY <1>1, <1>2, <1>3, <1>4 DEF Moves

\* A hook that joins is of the agent in the pane and of what it has come to; the others were there.
LEMMA Origin ==
  ASSUME LineInv, AgentType', Moves
  PROVE  \A i \in 1 .. Len(line') :
            \/ \E j \in 1 .. Len(line) : Alike(line'[i], line[j])
            \/ line'[i].of = pane /\ phase # "none" /\ Top <= Rank(line'[i])
<1>0. AgentType /\ Len(line) \in Nat BY LineType DEF LineInv
<1>1. ASSUME Thins, NEW i \in 1 .. Len(line')
      PROVE  \E j \in 1 .. Len(line) : Alike(line'[i], line[j])
 <2>1. PICK d \in 0 .. Len(line) : /\ Len(line') = Len(line) - d
                                   /\ \A n \in 1 .. Len(line') : Alike(line'[n], line[n + d]) BY <1>1 DEF Thins
 <2>2. i + d \in 1 .. Len(line) BY <1>0, <2>1
 <2> QED BY <2>1, <2>2
<1>2. ASSUME NEW e \in Hook, NewHook(e), phase # "none", Top <= Rank(e), NEW i \in 1 .. Len(line')
      PROVE  \/ \E j \in 1 .. Len(line) : Alike(line'[i], line[j])
             \/ line'[i].of = pane /\ phase # "none" /\ Top <= Rank(line'[i])
 <2>1. i \in 1 .. Len(line) \/ i = Len(line) + 1 BY <1>0, <1>2 DEF NewHook, Joins
 <2>2. CASE i \in 1 .. Len(line) BY <1>2, <2>2 DEF NewHook, Joins, Alike
 <2>3. CASE i = Len(line) + 1 BY <1>2, <2>3 DEF NewHook, Joins
 <2> QED BY <2>1, <2>2, <2>3
<1>3. UNCHANGED <<conns, backlog>> => Thins BY <1>0, LineSame, ShrinksThins
<1>4. CASE Quiet \/ Asks \/ Rests \/ Spawns \/ Runs \/ Loses
 <2>1. UNCHANGED <<conns, backlog>> BY <1>4 DEF Quiet, Asks, Rests, Spawns, Runs, Loses
 <2> QED BY <1>1, <1>3, <2>1
<1>5. CASE Handles \/ Dies BY <1>1, <1>5, ShrinksThins DEF Handles, Dies
<1>6. CASE Measure BY <1>0, <1>1, <1>6, LineMeasure
<1>7. CASE Finishes
 <2>1. CASE UNCHANGED <<conns, backlog>> BY <1>1, <1>3, <2>1
 <2>2. ASSUME NEW e \in Hook, Ends(e)
       PROVE  \A i \in 1 .. Len(line') :
                 \/ \E j \in 1 .. Len(line) : Alike(line'[i], line[j])
                 \/ line'[i].of = pane /\ phase # "none" /\ Top <= Rank(line'[i])
  <3>1. phase = "running" /\ e.kind = "stop" /\ e.turn = Len(turns) /\ NewHook(e)
   BY <1>7, <2>2 DEF Finishes, Ends, NewHook
  <3>2. Top <= Rank(e) BY <1>0, <3>1, TopType DEF Rank
  <3> QED BY <1>2, <3>1, <3>2
 <2> QED BY <1>7, <2>1, <2>2 DEF Finishes
<1>8. ASSUME NEW e \in Hook, Greets(e) \/ Prompts(e)
      PROVE  \A i \in 1 .. Len(line') :
                \/ \E j \in 1 .. Len(line) : Alike(line'[i], line[j])
                \/ line'[i].of = pane /\ phase # "none" /\ Top <= Rank(line'[i])
 <2>1. NewHook(e) /\ phase # "none" /\ e.turn = Len(turns) BY <1>8 DEF Greets, Prompts, NewHook
 <2>2. Top <= Rank(e) BY <1>0, <1>8, <2>1, TopType DEF Rank, Greets, Prompts
 <2> QED BY <1>2, <2>1, <2>2
<1> QED BY <1>4, <1>5, <1>6, <1>7, <1>8 DEF Moves, AgentMoves

LEMMA TopGrows ==
  ASSUME LineInv, AgentType', Moves
  PROVE  Top <= Top' /\ Len(turns) <= Len(turns')
<1>0. AgentType /\ Len(turns) \in Nat /\ Len(turns') \in Nat /\ Top \in Int /\ Top' \in Int
 BY TopType, TopTypeNext DEF LineInv
<1>1. CASE Quiet \/ Handles \/ Measure
 <2>1. UNCHANGED <<phase, turns>> BY <1>1 DEF Quiet, Handles, Measure, agent
 <2> QED BY <1>0, <2>1 DEF Top
<1>2. CASE Asks BY <1>0, <1>2, TopType, TopTypeNext DEF Asks
<1>3. CASE Rests \/ Spawns \/ Dies
 <2>1. turns' = turns /\ phase' \notin {"asking", "prompting", "running"} BY <1>3 DEF Rests, Spawns, Dies
 <2> QED BY <1>0, <2>1, TopType, TopTypeNext
<1>4. CASE Runs
 <2>1. Len(turns') = Len(turns) /\ phase = "prompting" /\ phase' = "running" BY <1>4 DEF Runs, Flagged
 <2> QED BY <1>0, <2>1, TopType, TopTypeNext
<1>5. CASE Loses \/ Finishes
 <2>1. turns' = turns /\ ((phase = "asking" /\ phase' = "prompting") \/ (phase = "running" /\ phase' = "stopping"))
  BY <1>5 DEF Loses, Finishes
 <2>2. Top <= 2 * Len(turns) /\ 2 * Len(turns') <= Top' /\ Len(turns') = Len(turns)
  BY <1>0, <2>1, TopType, TopTypeNext
 <2> QED BY <1>0, <2>2
<1>6. ASSUME NEW e \in Hook, Greets(e) \/ Prompts(e) PROVE Top <= Top' /\ Len(turns) <= Len(turns')
 <2>1. CASE Greets(e)
  <3>1. turns' = turns /\ phase' \in {"hello", "idle"} BY <2>1 DEF Greets
  <3> QED BY <1>0, <3>1, TopType, TopTypeNext
 <2>2. CASE Prompts(e)
  <3>1. Len(turns') = Len(turns) /\ phase = "asking" BY <2>2 DEF Prompts, Flagged
  <3>2. Top = 2 * Len(turns) - 1 /\ 2 * Len(turns') - 1 <= Top' BY <1>0, <3>1, TopType, TopTypeNext
  <3> QED BY <1>0, <3>1, <3>2
 <2> QED BY <1>6, <2>1, <2>2
<1> QED BY <1>1, <1>2, <1>3, <1>4, <1>5, <1>6 DEF Moves, AgentMoves

\* A turn keeps its text and what raced it; a turn that is late stays late.
LEMMA TurnsKept ==
  ASSUME LineInv, AgentType', Moves
  PROVE  \A t \in 1 .. Len(turns) : /\ t \in 1 .. Len(turns') /\ turns'[t].text = turns[t].text
                                    /\ turns'[t].raced = turns[t].raced
                                    /\ turns[t].late => turns'[t].late
<1>0. Len(turns) \in Nat /\ Len(turns') \in Nat /\ Len(turns) <= Len(turns')
 BY TopType, TopTypeNext, TopGrows DEF LineInv
<1>1. CASE Quiet \/ Handles \/ Measure \/ Rests \/ Spawns \/ Dies \/ Loses \/ Finishes
 <2>1. turns' = turns BY <1>1 DEF Quiet, Handles, Measure, Rests, Spawns, Dies, Loses, Finishes, agent
 <2> QED BY <1>0, <2>1
<1>2. CASE Asks BY <1>0, <1>2 DEF Asks
<1>3. CASE Runs BY <1>0, <1>3 DEF Runs, Flagged
<1>4. ASSUME NEW e \in Hook, Greets(e) \/ Prompts(e)
      PROVE  turns' = turns \/ Flagged BY <1>4 DEF Greets, Prompts
<1>5. CASE turns' = turns \/ Flagged BY <1>0, <1>5 DEF Flagged
<1> QED BY <1>1, <1>2, <1>3, <1>4, <1>5 DEF Moves, AgentMoves

LEMMA PaneMoves ==
  ASSUME LineInv, Moves
  PROVE  \/ pane' = pane /\ ((phase' = "none") <=> (phase = "none"))
         \/ pane' = 0 /\ phase' = "none"
         \/ Issued /\ pane' = launch.session /\ phase' = "boot"
<1>1. CASE Quiet \/ Handles \/ Measure \/ Spawns \/ Dies BY <1>1 DEF Quiet, Handles, Measure, Spawns, Dies, agent
<1>2. CASE Asks \/ Rests \/ Runs \/ Loses \/ Finishes BY <1>2 DEF Asks, Rests, Runs, Loses, Finishes
<1>3. ASSUME NEW e \in Hook, Greets(e) \/ Prompts(e)
      PROVE  pane' = pane /\ phase # "none" /\ phase' # "none" BY <1>3 DEF Greets, Prompts, NewHook
<1> QED BY <1>1, <1>2, <1>3 DEF Moves, AgentMoves

LEMMA SessionStep ==
  ASSUME LineInv, SessionInv, AgentType', Moves, SameSession \/ NextSession
  PROVE  SessionInv'
<1>0. /\ AgentType /\ launch.session \in Nat /\ launch'.session \in Nat /\ pane \in Nat /\ pane' \in Nat
      /\ \A i \in 1 .. Len(line) : line[i].of \in Nat
 <2>1. launch \in LaunchRecord /\ launch' \in LaunchRecord /\ pane \in Nat /\ pane' \in Nat /\ AgentType
  BY DEF LineInv, AgentType
 <2>2. \A i \in 1 .. Len(line) : line[i] \in Hook BY <2>1, LineType
 <2> QED BY <2>1, <2>2 DEF LaunchRecord, Hook
<1>1. \/ pane' = pane /\ ((phase' = "none") <=> (phase = "none"))
      \/ pane' = 0 /\ phase' = "none"
      \/ Issued /\ pane' = launch.session /\ phase' = "boot" BY PaneMoves
<1>2. ((pane' = 0) <=> (phase' = "none")) /\ pane' <= launch.session BY <1>0, <1>1 DEF SessionInv
<1>3. \A i \in 1 .. Len(line') : \/ \E j \in 1 .. Len(line) : line'[i].of = line[j].of
                                 \/ line'[i].of = pane /\ phase # "none" BY Origin DEF Alike
<1>4. \A i \in 1 .. Len(line') : line'[i].of >= 1 /\ line'[i].of <= launch.session BY <1>0, <1>3 DEF SessionInv
<1>5. ASSUME Issued PROVE \A i \in 1 .. Len(line') : line'[i].of < launch.session
 <2>1. pane < launch.session /\ \A i \in 1 .. Len(line) : line[i].of < launch.session BY <1>5 DEF SessionInv
 <2> QED BY <1>3, <2>1
<1>6. CASE SameSession
 <2>1. Issued' => pane' < launch'.session BY <1>0, <1>6 DEF SessionInv, SameSession
 <2> QED BY <1>2, <1>4, <1>5, <1>6, <2>1 DEF SessionInv, SameSession
<1>7. CASE NextSession
 <2>1. \A i \in 1 .. Len(line') : line'[i].of \in Nat BY <1>0, <1>3
 <2>2. launch'.session = launch.session + 1 BY <1>7 DEF NextSession
 <2>3. pane' < launch'.session /\ pane' <= launch'.session BY <1>0, <1>2, <2>2
 <2>4. \A i \in 1 .. Len(line') : line'[i].of >= 1 /\ line'[i].of < launch'.session /\ line'[i].of <= launch'.session
  BY <1>0, <1>4, <2>1, <2>2
 <2> QED BY <1>2, <2>3, <2>4 DEF SessionInv
<1> QED BY <1>6, <1>7

------------------------------
(* What the size taken for a hook says of the transcript. *)

\* The transcript is no shorter than it was when the hook was measured; before that a Stop's turn had spoken, and
\* since then nobody has written but the turn of the prompt and later ones.
SeenIn(e, lg, session) ==
    /\ e.at >= -2
    /\ e.of = session =>
          /\ e.at <= Len(lg)
          /\ e.kind = "stop" => \E n \in 1 .. Len(lg) : /\ lg[n].says /\ lg[n].turn = e.turn
                                                        /\ e.at >= 0 => n <= e.at
          /\ e.kind = "prompt" /\ e.at >= 0 => \A n \in 1 .. Len(lg) : n > e.at => lg[n].turn >= e.turn

SeenInv == \A i \in 1 .. Len(line) : SeenIn(line[i], log, launch.session)

LEMMA Halve ==
  ASSUME NEW t \in Nat, NEW n \in Nat, 2 * t <= 2 * n + 1
  PROVE  t <= n
OBVIOUS

\* A hook tells of a turn that was begun.
LEMMA TurnReached ==
  ASSUME LineInv, NEW j \in 1 .. Len(line)
  PROVE  line[j] \in Hook /\ line[j].turn \in Nat /\ line[j].turn <= Len(turns)
<1>1. AgentType /\ line[j] \in Hook BY LineType DEF LineInv
<1>2. line[j].turn \in Nat /\ Rank(line[j]) <= Top /\ Rank(line[j]) \in Int /\ Len(turns) \in Nat /\ Top \in Int
 BY <1>1, RankType, TopType DEF LineInv, InOrder
<1>3. Top <= 2 * Len(turns) + 1 BY <1>1, TopType
<1>4. PICK t \in Nat, n \in Nat, r \in Int : t = line[j].turn /\ n = Len(turns) /\ r = Rank(line[j]) BY <1>2
<1>6. 2 * t <= r BY <1>4 DEF Rank
<1>7. r <= 2 * n + 1 BY <1>2, <1>3, <1>4
<1>8. 2 * t <= 2 * n + 1 BY <1>6, <1>7
<1>5. t <= n BY <1>8, Halve
<1> QED BY <1>1, <1>4, <1>5

\* The same hook, with the transcript as it was or grown by later turns.
LEMMA SeenStill ==
  ASSUME NEW e \in Hook, NEW f \in Hook, Alike(f, e), f.at = e.at, NEW lg \in Seq(Entry), NEW lh \in Seq(Entry),
    NEW s \in Nat, SeenIn(e, lg, s), Len(lg) <= Len(lh), \A n \in 1 .. Len(lg) : lh[n] = lg[n],
    \A n \in 1 .. Len(lh) : n > Len(lg) => lh[n].turn >= e.turn
  PROVE  SeenIn(f, lh, s)
<1>0. Len(lg) \in Nat /\ Len(lh) \in Nat /\ e.at \in Int /\ \A n \in 1 .. Len(lg) : n \in 1 .. Len(lh) BY DEF Hook
<1>1. f.at >= -2 /\ f.kind = e.kind /\ f.of = e.of /\ f.turn = e.turn BY DEF SeenIn, Alike
<1>2. ASSUME e.of = s PROVE f.at <= Len(lh) BY <1>0, <1>2 DEF SeenIn
<1>3. ASSUME e.of = s, e.kind = "stop"
      PROVE  \E n \in 1 .. Len(lh) : lh[n].says /\ lh[n].turn = f.turn /\ (f.at >= 0 => n <= f.at)
 <2>1. PICK n \in 1 .. Len(lg) : lg[n].says /\ lg[n].turn = e.turn /\ (e.at >= 0 => n <= e.at) BY <1>3 DEF SeenIn
 <2> QED BY <1>0, <1>1, <2>1
<1>4. ASSUME e.of = s, e.kind = "prompt", e.at >= 0, NEW n \in 1 .. Len(lh), n > e.at
      PROVE  lh[n].turn >= f.turn
 <2>1. CASE n \in 1 .. Len(lg) BY <1>1, <1>4, <2>1 DEF SeenIn
 <2>2. CASE n > Len(lg) BY <1>1, <2>2
 <2> QED BY <1>0, <2>1, <2>2
<1> QED BY <1>1, <1>2, <1>3, <1>4 DEF SeenIn

\* A hook of another session.
LEMMA SeenOther ==
  ASSUME NEW f, NEW lg, NEW s, f.at >= -2, f.of # s
  PROVE  SeenIn(f, lg, s)
BY DEF SeenIn

LEMMA LineShrinks ==
  ASSUME AgentType, AgentType', Shrinks
  PROVE  \A i \in 1 .. Len(line') : \E j \in 1 .. Len(line) : /\ Alike(line'[i], line[j]) /\ line'[i].at = line[j].at
                                                             /\ line'[i] \in Hook /\ line[j] \in Hook
<1>1. PICK d \in 0 .. Len(line) : /\ Len(line') = Len(line) - d
                                  /\ \A i \in 1 .. Len(line') : /\ Alike(line'[i], line[i + d])
                                                                /\ line'[i].at = line[i + d].at BY DEF Shrinks
<1>2. Len(line) \in Nat /\ \A i \in 1 .. Len(line') : i + d \in 1 .. Len(line) BY <1>1, LineType
<1>3. (\A i \in 1 .. Len(line') : line'[i] \in Hook) /\ (\A i \in 1 .. Len(line) : line[i] \in Hook)
 BY LineType, LineTypeNext DEF AgentType
<1> QED BY <1>1, <1>2, <1>3

\* Hooks leave the line or are marked, and the transcript is as it was or has grown.
LEMMA SeenShrinks ==
  ASSUME LineInv, SeenInv, AgentType', Shrinks, launch'.session = launch.session,
    log' = log \/ \E says \in BOOLEAN : LogGrows(says)
  PROVE  SeenInv'
<1>0. AgentType /\ log \in Seq(Entry) /\ log' \in Seq(Entry) /\ launch.session \in Nat /\ Len(log) \in Nat
      /\ Len(turns) \in Nat BY TopType, LaunchFields DEF LineInv, AgentType
<1>1. /\ Len(log) <= Len(log') /\ \A n \in 1 .. Len(log) : log'[n] = log[n]
      /\ \A n \in 1 .. Len(log') : n > Len(log) => log'[n].turn = Len(turns)
 <2>1. CASE log' = log BY <1>0, <2>1
 <2>2. ASSUME NEW says \in BOOLEAN, LogGrows(says)
       PROVE  /\ Len(log) <= Len(log') /\ \A n \in 1 .. Len(log) : log'[n] = log[n]
              /\ \A n \in 1 .. Len(log') : n > Len(log) => log'[n].turn = Len(turns)
  <3>1. \A n \in 1 .. Len(log') : n > Len(log) => n = Len(log) + 1 BY <1>0, <2>2 DEF LogGrows
  <3> QED BY <1>0, <2>2, <3>1 DEF LogGrows
 <2> QED BY <2>1, <2>2
<1>2. \A j \in 1 .. Len(line) : line[j] \in Hook /\ line[j].turn \in Nat /\ line[j].turn <= Len(turns) BY TurnReached
<1>3. SUFFICES ASSUME NEW i \in 1 .. Len(line') PROVE SeenIn(line'[i], log', launch'.session) BY DEF SeenInv
<1>4. PICK j \in 1 .. Len(line) : /\ Alike(line'[i], line[j]) /\ line'[i].at = line[j].at
                                  /\ line'[i] \in Hook /\ line[j] \in Hook BY <1>0, LineShrinks
<1>5. SeenIn(line[j], log, launch.session) BY DEF SeenInv
<1>6. \A n \in 1 .. Len(log') : n > Len(log) => log'[n].turn >= line[j].turn BY <1>0, <1>1, <1>2
<1> QED BY <1>0, <1>1, <1>4, <1>5, <1>6, SeenStill

LEMMA SeenMeasure ==
  ASSUME LineInv, SeenInv, AgentType', Measure
  PROVE  SeenInv'
<1>0. AgentType /\ log \in Seq(Entry) /\ Len(log) \in Nat /\ launch.session \in Nat /\ UNCHANGED <<launch, log>>
 BY TopType, LaunchFields DEF LineInv, AgentType, Measure, agent, store
<1>1. /\ conns' \in Seq(Hook) /\ backlog' = backlog /\ Len(line') = Len(line) /\ Len(conns') = Len(conns)
      /\ Len(conns) >= 1 /\ Len(conns) \in Nat
      /\ \A i \in 1 .. Len(conns) : Alike(conns'[i], conns[i]) /\ (i # 1 => conns'[i] = conns[i])
 BY <1>0, LineMeasure, LineType
<1>2. conns'[1].at \in {Len(log), Unknown} BY <1>0, LineMeasure
<1>3. ASSUME NEW i \in 1 .. Len(line'), i # 1 PROVE line'[i] = line[i] /\ i \in 1 .. Len(line)
 <2>1. CASE i \in 1 .. Len(conns) BY <1>0, <1>1, <1>3, <2>1, LineType, LineTypeNext DEF AgentType
 <2>2. CASE i > Len(conns) BY <1>0, <1>1, <2>2, LineType, LineTypeNext DEF AgentType
 <2> QED BY <1>1, <2>1, <2>2
<1>4. line'[1] = conns'[1] /\ line[1] = conns[1] /\ 1 \in 1 .. Len(line) /\ Alike(line'[1], line[1])
 BY <1>0, <1>1, LineType, LineTypeNext DEF AgentType
<1>5. SeenIn(line[1], log, launch.session) /\ line[1] \in Hook /\ line'[1] \in Hook
 BY <1>0, <1>1, <1>4, LineType, LineTypeNext DEF SeenInv, AgentType
<1>6. SeenIn(line'[1], log, launch.session)
 <2>1. line'[1].at = Len(log) \/ line'[1].at = -2 BY <1>2, <1>4 DEF Unknown
 <2>2. line'[1].at >= -2 /\ line'[1].at <= Len(log) BY <1>0, <2>1
 <2>3. ASSUME line[1].of = launch.session, line[1].kind = "stop"
       PROVE  \E n \in 1 .. Len(log) : log[n].says /\ log[n].turn = line'[1].turn /\ (line'[1].at >= 0 => n <= line'[1].at)
  <3>1. PICK n \in 1 .. Len(log) : log[n].says /\ log[n].turn = line[1].turn BY <1>5, <2>3 DEF SeenIn
  <3> QED BY <1>0, <1>4, <2>1, <3>1 DEF Alike
 <2>4. \A n \in 1 .. Len(log) : n > line'[1].at /\ line'[1].at >= 0 => FALSE BY <1>0, <2>1
 <2> QED BY <1>4, <2>2, <2>3, <2>4 DEF SeenIn, Alike
<1>7. ASSUME NEW i \in 1 .. Len(line') PROVE SeenIn(line'[i], log, launch.session) BY <1>3, <1>6 DEF SeenInv
<1> QED BY <1>0, <1>7 DEF SeenInv

\* A hook that connects: its turn has spoken if it is a Stop, and nothing is measured yet.
LEMMA SeenJoins ==
  ASSUME LineInv, SeenInv, AgentType', NEW e \in Hook, NewHook(e), launch'.session = launch.session,
    \/ log' = log /\ e.kind # "stop"
    \/ LogGrows(TRUE)
  PROVE  SeenInv'
<1>0. AgentType /\ log' \in Seq(Entry) /\ Len(log') \in Nat /\ Len(line) \in Nat /\ Len(log) \in Nat
 BY TopType, TopTypeNext, LineType DEF LineInv, AgentType
<1>1. PICK s \in BOOLEAN : s = TRUE OBVIOUS
<1>2. SeenIn(e, log', launch.session)
 <2>1. e.at = -1 /\ e.at >= -2 /\ e.at <= Len(log') /\ ~(e.at >= 0) /\ e.turn = Len(turns)
  BY <1>0 DEF NewHook, Unmeasured
 <2>2. ASSUME e.kind = "stop" PROVE \E n \in 1 .. Len(log') : log'[n].says /\ log'[n].turn = e.turn
  <3>1. LogGrows(TRUE) BY <2>2
  <3>2. Len(log) + 1 \in 1 .. Len(log') /\ log'[Len(log) + 1].says /\ log'[Len(log) + 1].turn = e.turn
   BY <1>0, <2>1, <3>1 DEF LogGrows
  <3> QED BY <3>2
 <2> QED BY <2>1, <2>2 DEF SeenIn
<1>3. ASSUME NEW i \in 1 .. Len(line) PROVE SeenIn(line[i], log', launch.session)
 <2>0. /\ line[i] \in Hook /\ log \in Seq(Entry) /\ launch.session \in Nat /\ SeenIn(line[i], log, launch.session)
       /\ Alike(line[i], line[i]) BY <1>0, LineType, LaunchFields DEF SeenInv, AgentType, Alike
 <2>1. /\ Len(log) <= Len(log') /\ \A n \in 1 .. Len(log) : log'[n] = log[n]
       /\ \A n \in 1 .. Len(log') : n > Len(log) => n = Len(log) + 1 /\ log'[n].turn = Len(turns)
  <3>1. CASE log' = log BY <1>0, <3>1
  <3>2. CASE LogGrows(TRUE)
   <4>1. \A n \in 1 .. Len(log') : n > Len(log) => n = Len(log) + 1 BY <1>0, <3>2 DEF LogGrows
   <4> QED BY <1>0, <3>2, <4>1 DEF LogGrows
  <3> QED BY <3>1, <3>2
 <2>2. line[i].turn <= Len(turns) /\ line[i].turn \in Nat /\ Len(turns) \in Nat BY <1>0, TurnReached, TopType
 <2>3. \A n \in 1 .. Len(log') : n > Len(log) => log'[n].turn >= line[i].turn BY <2>1, <2>2
 <2> QED BY <1>0, <2>0, <2>1, <2>3, SeenStill
<1>4. \A i \in 1 .. Len(line') : i \in 1 .. Len(line) \/ i = Len(line) + 1 BY <1>0 DEF NewHook, Joins
<1> QED BY <1>2, <1>3, <1>4 DEF NewHook, Joins, SeenInv

LEMMA SeenStep ==
  ASSUME LineInv, SessionInv, SeenInv, AgentType', Moves, SameSession \/ NextSession
  PROVE  SeenInv'
<1>0. /\ AgentType /\ launch.session \in Nat
      /\ \A i \in 1 .. Len(line) : line[i].of \in Nat /\ line[i].at >= -2
 <2>1. AgentType BY DEF LineInv
 <2>2. \A i \in 1 .. Len(line) : line[i] \in Hook BY <2>1, LineType
 <2>3. launch \in LaunchRecord BY <2>1 DEF AgentType
 <2> QED BY <2>1, <2>2, <2>3, LaunchFields DEF SeenInv, SeenIn, Hook
<1>1. CASE NextSession
 <2>1. launch'.session = launch.session + 1 /\ Shrinks BY <1>1 DEF NextSession, Handles
 <2>2. SUFFICES ASSUME NEW i \in 1 .. Len(line') PROVE SeenIn(line'[i], log', launch'.session) BY DEF SeenInv
 <2>3. PICK j \in 1 .. Len(line) : line'[i].of = line[j].of /\ line'[i].at = line[j].at
  BY <1>0, <2>1, LineShrinks DEF Alike
 <2>4. line'[i].of # launch'.session BY <1>0, <2>1, <2>3 DEF SessionInv
 <2> QED BY <1>0, <2>3, <2>4, SeenOther
<1>2. CASE SameSession
 <2>0. launch'.session = launch.session BY <1>2 DEF SameSession
 <2>1. CASE Spawns
  <3>1. Issued /\ line' = line BY <2>1 DEF Spawns, line
  <3>2. SUFFICES ASSUME NEW i \in 1 .. Len(line) PROVE SeenIn(line[i], log', launch.session) BY <2>0, <3>1 DEF SeenInv
  <3>3. line[i].of < launch.session BY <3>1 DEF SessionInv
  <3> QED BY <1>0, <3>3, SeenOther
 <2>2. CASE Quiet \/ Asks \/ Rests \/ Loses \/ Runs
  <3>1. UNCHANGED <<conns, backlog>> BY <2>2 DEF Quiet, Asks, Rests, Loses, Runs
  <3>2. log' = log \/ LogGrows(FALSE) BY <2>2 DEF Quiet, Asks, Rests, Loses, Runs
  <3>3. log' = log \/ \E says \in BOOLEAN : LogGrows(says) BY <3>2
  <3> QED BY <1>0, <2>0, <3>1, <3>3, LineSame, SeenShrinks
 <2>3. CASE Handles \/ Dies BY <2>0, <2>3, SeenShrinks DEF Handles, Dies
 <2>4. CASE Measure BY <2>4, SeenMeasure
 <2>5. CASE Finishes
  <3>1. LogGrows(TRUE) BY <2>5 DEF Finishes
  <3>2. CASE UNCHANGED <<conns, backlog>>
   <4>1. \E says \in BOOLEAN : LogGrows(says) BY <3>1
   <4> QED BY <1>0, <2>0, <3>2, <4>1, LineSame, SeenShrinks
  <3>3. ASSUME NEW e \in Hook, Ends(e) PROVE SeenInv' BY <2>0, <3>1, <3>3, SeenJoins DEF Ends
  <3> QED BY <2>5, <3>2, <3>3 DEF Finishes
 <2>6. ASSUME NEW e \in Hook, Greets(e) \/ Prompts(e) PROVE SeenInv'
  <3>1. NewHook(e) /\ log' = log /\ e.kind # "stop" BY <2>6 DEF Greets, Prompts
  <3> QED BY <2>0, <3>1, SeenJoins
 <2> QED BY <2>1, <2>2, <2>3, <2>4, <2>5, <2>6 DEF Moves, AgentMoves
<1> QED BY <1>1, <1>2

------------------------------
(* What has been applied is over. *)

\* The agent and every hook in the line are past this place.
Passed(b) == b <= Top /\ \A i \in 1 .. Len(line) : b <= Rank(line[i])

LEMMA PassedStays ==
  ASSUME LineInv, AgentType', Moves, NEW b \in Int, Passed(b)
  PROVE  Passed(b)'
<1>0. AgentType /\ Top \in Int /\ Top' \in Int /\ Top <= Top' /\ b <= Top
 BY TopType, TopTypeNext, TopGrows DEF LineInv, Passed
<1>1. ASSUME NEW i \in 1 .. Len(line') PROVE b <= Rank(line'[i])
 <2>0. Rank(line'[i]) \in Int BY LineTypeNext, RankType DEF AgentType
 <2>1. CASE \E j \in 1 .. Len(line) : Alike(line'[i], line[j]) BY <2>1, RankAlike DEF Passed
 <2>2. CASE Top <= Rank(line'[i]) BY <1>0, <2>0, <2>2
 <2> QED BY <2>1, <2>2, Origin
<1>2. b <= Top' BY <1>0
<1> QED BY <1>1, <1>2 DEF Passed

\* The hook at the head, once it is applied.
LEMMA HeadPassed ==
  ASSUME LineInv, conns # <<>>, conns' = Tail(conns), UNCHANGED <<backlog, phase, turns>>
  PROVE  /\ ev = line[1] /\ 1 \in 1 .. Len(line) /\ ev \in Hook /\ ev.turn \in Nat /\ ev.turn <= Len(turns)
         /\ \A b \in Int : b <= Rank(ev) => Passed(b)'
<1>0. AgentType /\ conns \in Seq(Hook) BY DEF LineInv, AgentType
<1>1. ev = conns[1] /\ Len(conns) \in Nat /\ Len(conns) >= 1 BY <1>0 DEF ev
<1>2. ev = line[1] /\ 1 \in 1 .. Len(line) BY <1>0, <1>1, LineType
<1>3. ev \in Hook /\ ev.turn \in Nat /\ ev.turn <= Len(turns) /\ Rank(ev) \in Int BY <1>2, TurnReached, RankType
<1>4. Len(line') = Len(line) - 1 /\ \A i \in 1 .. Len(line') : line'[i] = line[i + 1] BY <1>0, LinePop
<1>5. Top' = Top /\ Top \in Int /\ Rank(ev) <= Top BY <1>0, <1>2, TopType DEF Top, LineInv, InOrder
<1>6. ASSUME NEW b \in Int, b <= Rank(ev), NEW i \in 1 .. Len(line') PROVE b <= Rank(line'[i])
 <2>1. i + 1 \in 1 .. Len(line) /\ 1 < i + 1 /\ line'[i] = line[i + 1] BY <1>0, <1>4, LineType
 <2>2. Rank(line[1]) <= Rank(line[i + 1]) BY <1>2, <2>1 DEF LineInv, InOrder
 <2>3. Rank(line[i + 1]) \in Int BY <1>0, <2>1, LineType, RankType
 <2> QED BY <1>2, <1>3, <1>6, <2>1, <2>2, <2>3
<1>7. ASSUME NEW b \in Int, b <= Rank(ev) PROVE Passed(b)'
 <2>1. b <= Top' BY <1>3, <1>5, <1>7
 <2> QED BY <1>6, <1>7, <2>1 DEF Passed
<1> QED BY <1>2, <1>3, <1>7

PastInv ==
    /\ \A t \in known : t \in Nat /\ t >= 1 /\ Passed(2 * t)
    /\ \A r \in replies : r.by \in Nat /\ r.by >= 1 /\ Passed(2 * r.by + 1)

LEMMA PastStays ==
  ASSUME LineInv, AgentType', Moves, PastInv, UNCHANGED <<known, replies>>
  PROVE  PastInv'
<1>1. ASSUME NEW t \in known PROVE t \in Nat /\ t >= 1 /\ Passed(2 * t)'
 <2>1. t \in Nat /\ t >= 1 /\ Passed(2 * t) BY DEF PastInv
 <2>2. PICK b \in Int : b = 2 * t BY <2>1
 <2>3. Passed(b)' BY <2>1, <2>2, PassedStays
 <2> QED BY <2>1, <2>2, <2>3
<1>2. ASSUME NEW r \in replies PROVE r.by \in Nat /\ r.by >= 1 /\ Passed(2 * r.by + 1)'
 <2>1. r.by \in Nat /\ r.by >= 1 /\ Passed(2 * r.by + 1) BY DEF PastInv
 <2>2. PICK b \in Int : b = 2 * r.by + 1 BY <2>1
 <2>3. Passed(b)' BY <2>1, <2>2, PassedStays
 <2> QED BY <2>1, <2>2, <2>3
<1> QED BY <1>1, <1>2 DEF PastInv

------------------------------
(* The anchor, the mark and the replies. *)

Latest(t) == t \in known /\ \A u \in known : u <= t

PeriodType == mark.owner \in Nat /\ mark.at \in Int /\ busy <= seq /\ mark.owner <= seq

\* What is anchored is the text of the last turn that admind knows of.
AnchorIs == anchor # None => \A t \in known : Latest(t) => turns[t].text = anchor

\* The present period has a mark.  The transcript after it is of the last known turn and later ones, and none of
\* that turn is before it if the agent waited.
Marked == mark.owner = busy /\ busy # 0 /\ mark.at # Unknown
MarkIs ==
    Marked => /\ mark.at \in 0 .. Len(log) /\ job.name \notin {"start", "new"} /\ launch.session # 0
              /\ \A t \in known : Latest(t) =>
                    /\ \A n \in 1 .. Len(log) : n > mark.at => log[n].turn >= t
                    /\ ~turns[t].late => \A n \in 1 .. Len(log) : n <= mark.at => log[n].turn # t

\* A reply that was sent for a known turn is in the thread of its message; its text is that turn's, or unknown.
ReplyIs ==
    \A r \in replies : r.to # None /\ r.by \in known =>
        turns[r.by].text = r.to /\ (~turns[r.by].late => r.turn \in {0, r.by})

WordInv == PeriodType /\ AnchorIs /\ MarkIs /\ ReplyIs

\* What most steps do to them.
WordsKept ==
    /\ UNCHANGED <<known, replies, mark>> /\ anchor' \in {anchor, None}
    /\ \/ busy' \in {busy, 0} /\ seq' = seq
       \/ busy' = seq + 1 /\ seq' = seq + 1
    /\ job'.name \in {"start", "new"} => job.name \in {"start", "new"} \/ busy' = 0 \/ launch.session = 0

LEMMA LogMoves ==
  ASSUME Moves
  PROVE  log' = log \/ (\E says \in BOOLEAN : LogGrows(says)) \/ Issued
<1>1. CASE Quiet \/ Asks \/ Rests \/ Loses \/ Handles \/ Dies \/ Measure \/ Spawns
 BY <1>1 DEF Quiet, Asks, Rests, Loses, Handles, Dies, Measure, Spawns, agent
<1>2. CASE Runs \/ Finishes
 <2>1. LogGrows(TRUE) \/ LogGrows(FALSE) BY <1>2 DEF Runs, Finishes
 <2> QED BY <2>1
<1>3. ASSUME NEW e \in Hook, Greets(e) \/ Prompts(e) PROVE log' = log BY <1>3 DEF Greets, Prompts
<1> QED BY <1>1, <1>2, <1>3 DEF Moves, AgentMoves

\* A known turn has been begun.
LEMMA KnownBegun ==
  ASSUME LineInv, PastInv, NEW t \in known
  PROVE  t \in Nat /\ t \in 1 .. Len(turns)
<1>1. t \in Nat /\ t >= 1 /\ 2 * t <= Top /\ AgentType BY DEF PastInv, Passed, LineInv
<1>2. PICK n \in Nat, p \in Int : n = Len(turns) /\ p = Top /\ p <= 2 * n + 1 /\ 2 * t <= p BY <1>1, TopType
<1>3. 2 * t <= 2 * n + 1 BY <1>1, <1>2
<1>4. t <= n BY <1>1, <1>3, Halve
<1> QED BY <1>1, <1>2, <1>4

LEMMA WordStays ==
  ASSUME LineInv, PastInv, SessionInv, WordInv, PromptInv, AgentType', Moves, SameSession \/ NextSession, WordsKept
  PROVE  WordInv'
<1>0. /\ AgentType /\ busy \in Nat /\ seq \in Nat /\ Len(log) \in Nat /\ Len(turns) \in Nat
      /\ launch.session \in Nat /\ mark.owner \in Nat /\ mark.at \in Int /\ busy <= seq /\ mark.owner <= seq
 BY TopType, LaunchFields DEF LineInv, AgentType, PromptInv, PromptType, WordInv, PeriodType
<1>1. PeriodType' BY <1>0 DEF WordsKept, PeriodType
<1>2. \A t \in known : Latest(t)' <=> Latest(t) BY DEF WordsKept, Latest
<1>3. \A t \in known : /\ t \in 1 .. Len(turns) /\ turns'[t].text = turns[t].text /\ (turns[t].late => turns'[t].late)
                       /\ t \in Nat BY KnownBegun, TurnsKept
<1>4. AnchorIs' BY <1>2, <1>3 DEF WordsKept, WordInv, AnchorIs
<1>5. ReplyIs' BY <1>3 DEF WordsKept, WordInv, ReplyIs
<1>6. MarkIs'
 <2> SUFFICES ASSUME Marked' PROVE MarkIs' BY DEF MarkIs
 <2>1. Marked /\ busy' = busy BY <1>0 DEF Marked, WordsKept
 <2>2. /\ mark.at \in 0 .. Len(log) /\ job.name \notin {"start", "new"} /\ launch.session # 0
       /\ \A t \in known : Latest(t) =>
             /\ \A n \in 1 .. Len(log) : n > mark.at => log[n].turn >= t
             /\ ~turns[t].late => \A n \in 1 .. Len(log) : n <= mark.at => log[n].turn # t
  BY <2>1 DEF WordInv, MarkIs
 <2>3. launch'.session # 0 BY <1>0, <2>2 DEF SameSession, NextSession
 <2>4. job'.name \notin {"start", "new"} BY <2>1, <2>2 DEF WordsKept, Marked
 <2>5. log' = log \/ \E says \in BOOLEAN : LogGrows(says) BY <2>2, LogMoves DEF Issued
 <2>6. /\ Len(log') \in Nat /\ Len(log) <= Len(log') /\ \A n \in 1 .. Len(log) : log'[n] = log[n]
       /\ \A n \in 1 .. Len(log') : n > Len(log) => log'[n].turn = Len(turns)
  <3>1. CASE log' = log BY <1>0, <3>1
  <3>2. ASSUME NEW says \in BOOLEAN, LogGrows(says)
        PROVE  /\ Len(log') \in Nat /\ Len(log) <= Len(log') /\ \A n \in 1 .. Len(log) : log'[n] = log[n]
               /\ \A n \in 1 .. Len(log') : n > Len(log) => log'[n].turn = Len(turns)
   <4>1. \A n \in 1 .. Len(log') : n > Len(log) => n = Len(log) + 1 BY <1>0, <3>2 DEF LogGrows
   <4> QED BY <1>0, <3>2, <4>1 DEF LogGrows
  <3> QED BY <2>5, <3>1, <3>2
 <2>7. mark' = mark /\ mark.at \in 0 .. Len(log') /\ known' = known BY <1>0, <2>2, <2>6 DEF WordsKept
 <2>8. ASSUME NEW t \in known, Latest(t), NEW n \in 1 .. Len(log')
       PROVE  /\ n > mark.at => log'[n].turn >= t
              /\ ~turns'[t].late /\ n <= mark.at => log'[n].turn # t
  <3>1. CASE n \in 1 .. Len(log) BY <1>3, <2>2, <2>6, <2>8, <3>1
  <3>2. CASE n > Len(log)
   <4>1. ~(n <= mark.at) /\ log'[n].turn >= t BY <1>0, <1>3, <2>2, <2>6, <3>2
   <4> QED BY <4>1
  <3> QED BY <1>0, <3>1, <3>2
 <2> QED BY <1>2, <2>3, <2>4, <2>7, <2>8 DEF MarkIs
<1> QED BY <1>1, <1>4, <1>5, <1>6 DEF WordInv

------------------------------
LEMMA StartKeepsWords ==
  ASSUME PromptInv, Starts
  PROVE  WordsKept
<1>0. busy \in Nat /\ seq \in Nat BY DEF PromptInv, PromptType
<1>1. CASE Crash BY <1>0, <1>1 DEF Crash, WordsKept, store, flight, period, outcome, Free
<1>2. CASE StartAdopts BY <1>0, <1>2 DEF StartAdopts, Recover, ClearFlight, PersistHold, SetBusy, WordsKept
<1>3. CASE StartLaunches BY <1>0, <1>3 DEF StartLaunches, Recover, ClearFlight, WordsKept
<1>4. CASE StartRefuses BY <1>0, <1>4 DEF StartRefuses, Recover, ClearFlight, WordsKept
<1> QED BY <1>1, <1>2, <1>3, <1>4 DEF Starts

LEMMA QueueKeepsWords ==
  ASSUME PromptInv, Queue \/ (\E m \in Msgs : Receive(m)) \/ Gate
  PROVE  WordsKept
<1>0. busy \in Nat /\ seq \in Nat BY DEF PromptInv, PromptType
<1>1. CASE FlushStuck \/ FlushDenies \/ (\E m \in Msgs : Receive(m)) \/ Gate
 BY <1>0, <1>1 DEF FlushStuck, FlushDenies, Receive, Gate, WordsKept, store, flight, period, memory, outcome
<1>2. CASE Dispatch BY <1>0, <1>2 DEF Dispatch, SetBusy, WordsKept
<1>3. CASE PasteLands
 <2>1. job \in Sending /\ job' = [job EXCEPT !.done = TRUE] BY <1>3, JobByName DEF PasteLands, PromptInv
 <2>2. job'.name = "send" BY <2>1 DEF Sending
 <2> QED BY <1>0, <1>3, <2>2 DEF PasteLands, WordsKept, store, flight, period
<1>4. CASE SendReturns \/ Restarted \/ SendUncertain
 BY <1>0, <1>4 DEF SendReturns, Restarted, SendUncertain, Abandon, ClearFlight, WordsKept, store, flight, period,
   outcome, Free
<1>5. CASE SendFails BY <1>0, <1>5 DEF SendFails, SetIdle, WordsKept, outcome
<1> QED BY <1>1, <1>2, <1>3, <1>4, <1>5 DEF Queue

LEMMA CommandKeepsWords ==
  ASSUME PromptInv, Commands
  PROVE  WordsKept
<1>0. busy \in Nat /\ seq \in Nat BY DEF PromptInv, PromptType
<1>1. CASE InterruptBegins \/ InterruptFails \/ LaunchReturns \/ LaunchFails \/ CheckAgent
 BY <1>0, <1>1 DEF InterruptBegins, InterruptFails, LaunchReturns, LaunchFails, CheckAgent, WordsKept, store,
   flight, period, outcome, Free
<1>2. CASE EscapeLands
 <2>1. job \in Breaking /\ job' = [job EXCEPT !.done = TRUE] BY <1>2, JobByName DEF EscapeLands, PromptInv
 <2>2. job'.name = "interrupt" BY <2>1 DEF Breaking
 <2> QED BY <1>0, <1>2, <2>2 DEF EscapeLands, WordsKept, store, flight, period, outcome
<1>3. CASE Interrupted BY <1>0, <1>3 DEF Interrupted, Abandon, ClearFlight, SetIdle, WordsKept, Free
<1>4. CASE NewBegins BY <1>0, <1>4 DEF NewBegins, ClearFlight, SetIdle, WordsKept
<1>5. CASE NewIssued \/ PaneSpawned
 BY <1>0, <1>5 DEF NewIssued, PaneSpawned, WordsKept, store, flight, period, outcome
<1> QED BY <1>1, <1>2, <1>3, <1>4, <1>5 DEF Commands

LEMMA HookKeepsWords ==
  ASSUME PromptInv, Hooks, ~OnPrompt, ~OnStop
  PROVE  WordsKept
<1>0. busy \in Nat /\ seq \in Nat BY DEF PromptInv, PromptType
<1>1. CASE Accept \/ FrameDropped \/ Measure \/ Ignored \/ StopUnusable
 BY <1>0, <1>1 DEF Accept, FrameDropped, Measure, Ignored, StopUnusable, WordsKept, store, flight, period, memory,
   outcome
<1>2. CASE OnSessionStart \/ PromptLate \/ StopBegins
 BY <1>0, <1>2 DEF OnSessionStart, PromptLate, StopBegins, WordsKept, store, flight, period, memory, outcome
<1>3. CASE LostHolds \/ HookFails
 BY <1>0, <1>3 DEF LostHolds, HookFails, PersistHold, SetBusy, WordsKept, flight, outcome
<1> QED BY <1>1, <1>2, <1>3 DEF Hooks

LEMMA AgentKeepsWords ==
  ASSUME PromptInv, Agent \/ UNCHANGED vars
  PROVE  WordsKept
<1>0. busy \in Nat /\ seq \in Nat BY DEF PromptInv, PromptType
<1>1. UNCHANGED <<store, memory, outcome>>
 BY DEF Agent, HookDone, HookConnects, Finish, TakeInput, Terminal, PaneDies, vars
<1> QED BY <1>0, <1>1 DEF WordsKept, store, flight, period, memory, outcome

LEMMA OddBelow ==
  ASSUME NEW a \in Nat, NEW b \in Nat, 2 * a + 1 <= 2 * b
  PROVE  a < b
OBVIOUS

\* A prompt is applied: its turn is the last one known.
LEMMA PromptApplies ==
  ASSUME LineInv, PastInv, SessionInv, SeenInv, WordInv, PromptInv, AgentType', OnPrompt
  PROVE  PastInv' /\ WordInv'
<1>0. /\ AgentType /\ busy \in Nat /\ seq \in Nat /\ Len(log) \in Nat /\ Len(turns) \in Nat
      /\ launch.session \in Nat /\ mark.owner \in Nat /\ mark.at \in Int /\ busy <= seq /\ mark.owner <= seq
 BY TopType, LaunchFields DEF LineInv, AgentType, PromptInv, PromptType, WordInv, PeriodType
<1>1. /\ conns # <<>> /\ conns' = Tail(conns) /\ UNCHANGED <<backlog, phase, turns, log, replies, launch, job>>
      /\ ev.kind = "prompt" /\ ev.of = launch.session /\ job = Free /\ ev.at # Unmeasured
      /\ seq' = seq + 1 /\ busy' = seq + 1 /\ known' = known \cup {ev.turn}
      /\ mark' = (IF ev.at = Unknown THEN NoMark ELSE [owner |-> seq + 1, at |-> ev.at])
 <2>1. Classify(ev) = "current" /\ ev.kind = "prompt" /\ Applying BY DEF OnPrompt
 <2>2. ev.of = launch.session BY <2>1 DEF Classify, SessionCurrent
 <2>3. conns # <<>> /\ job = Free /\ ev.at # Unmeasured BY <2>1 DEF Applying
 <2> QED BY <2>1, <2>2, <2>3 DEF OnPrompt, SetBusy, agent
<1>14. anchor' = None \/ anchor' = turns[ev.turn].text BY DEF OnPrompt, Abandon, ClearFlight, flight
<1>2. /\ ev = line[1] /\ 1 \in 1 .. Len(line) /\ ev \in Hook /\ ev.turn \in Nat /\ ev.turn <= Len(turns)
      /\ \A b \in Int : b <= Rank(ev) => Passed(b)' BY <1>1, HeadPassed
<1>3. ev.turn >= 1 /\ Rank(ev) = 2 * ev.turn /\ ev.at \in Int /\ ev.of >= 1
 BY <1>1, <1>2, RankType DEF Rank, LineInv, InOrder, SessionInv
<1>4. PICK t \in Nat : t = ev.turn /\ t >= 1 /\ t \in 1 .. Len(turns) BY <1>0, <1>2, <1>3
<1>5. ASSUME NEW u \in known PROVE u \in Nat /\ u >= 1 /\ Passed(2 * u)' /\ u <= t
 <2>1. u \in Nat /\ u >= 1 /\ 2 * u <= Rank(line[1]) BY <1>2 DEF PastInv, Passed
 <2>2. PICK b \in Int : b = 2 * u BY <2>1
 <2>3. Passed(b)' BY <1>2, <2>1, <2>2
 <2>4. 2 * u <= 2 * t BY <1>2, <1>3, <1>4, <2>1
 <2> QED BY <1>4, <2>1, <2>2, <2>3, <2>4
<1>6. Passed(2 * t)'
 <2>1. PICK b \in Int : b = 2 * t BY <1>4
 <2>2. b <= Rank(ev) BY <1>3, <1>4, <2>1
 <2> QED BY <1>2, <2>1, <2>2
<1>7. ASSUME NEW r \in replies PROVE r.by \in Nat /\ r.by >= 1 /\ Passed(2 * r.by + 1)' /\ r.by # t
 <2>1. r.by \in Nat /\ r.by >= 1 /\ 2 * r.by + 1 <= Rank(line[1]) BY <1>2 DEF PastInv, Passed
 <2>2. PICK b \in Int : b = 2 * r.by + 1 BY <2>1
 <2>3. Passed(b)' BY <1>2, <2>1, <2>2
 <2>4. 2 * r.by + 1 <= 2 * t BY <1>2, <1>3, <1>4, <2>1
 <2>5. r.by < t BY <2>1, <2>4, OddBelow
 <2>6. r.by # t BY <1>4, <2>1, <2>5
 <2> QED BY <2>1, <2>2, <2>3, <2>6
<1>8. PastInv' BY <1>1, <1>4, <1>5, <1>6, <1>7 DEF PastInv
<1>9. \A u \in known' : Latest(u)' => u = t
 <2>1. t \in known' /\ \A u \in known' : u \in Nat /\ u <= t BY <1>1, <1>4, <1>5
 <2>2. ASSUME NEW u \in known', Latest(u)' PROVE u = t
  <3>1. t <= u /\ u <= t /\ u \in Nat BY <2>1, <2>2 DEF Latest
  <3> QED BY <1>4, <3>1
 <2> QED BY <2>2
<1>10. PeriodType' /\ (Marked' => mark'.at = ev.at /\ ev.at # Unknown)
 <2>1. CASE ev.at = Unknown
  <3>1. mark'.owner = 0 /\ mark'.at = Unknown BY <1>1, <2>1 DEF NoMark
  <3>2. ~Marked' BY <3>1 DEF Marked
  <3>3. mark'.at \in Int BY <3>1 DEF Unknown
  <3> QED BY <1>0, <1>1, <3>1, <3>2, <3>3 DEF PeriodType
 <2>2. CASE ev.at # Unknown
  <3>1. mark'.owner = seq + 1 /\ mark'.at = ev.at BY <1>1, <2>2
  <3> QED BY <1>0, <1>1, <1>3, <2>2, <3>1 DEF PeriodType, Marked
 <2> QED BY <2>1, <2>2
<1>11. AnchorIs' BY <1>1, <1>4, <1>9, <1>14 DEF AnchorIs
<1>12. ReplyIs'
 <2>1. \A r \in replies : r.by \in known' => r.by \in known BY <1>1, <1>4, <1>7
 <2> QED BY <1>1, <2>1 DEF WordInv, ReplyIs
<1>13. MarkIs'
 <2> SUFFICES ASSUME Marked' PROVE MarkIs' BY DEF MarkIs
 <2>1. SeenIn(ev, log, launch.session) BY <1>2 DEF SeenInv
 <2>2. mark'.at = ev.at /\ ev.at >= 0 /\ ev.at <= Len(log)
  <3>1. ev.at >= -2 /\ ev.at <= Len(log) BY <1>1, <2>1 DEF SeenIn
  <3> QED BY <1>1, <1>3, <1>10, <3>1 DEF Unknown, Unmeasured
 <2>3. \A n \in 1 .. Len(log) : n > ev.at => log[n].turn >= t BY <1>1, <1>4, <2>1, <2>2 DEF SeenIn
 <2>4. ~turns[t].late => \A n \in 1 .. Len(log) : log[n].turn # t BY <1>1, <1>2, <1>4 DEF LineInv, Unlogged
 <2>5. job'.name \notin {"start", "new"} /\ launch'.session # 0 BY <1>0, <1>1, <1>3 DEF Free
 <2>6. mark'.at \in 0 .. Len(log') BY <1>0, <1>1, <1>3, <2>2
 <2>7. ASSUME NEW u \in known', Latest(u)'
       PROVE  /\ \A n \in 1 .. Len(log') : n > mark'.at => log'[n].turn >= u
              /\ ~turns'[u].late => \A n \in 1 .. Len(log') : n <= mark'.at => log'[n].turn # u
  <3>1. u = t BY <1>9, <2>7
  <3> QED BY <1>1, <2>2, <2>3, <2>4, <3>1
 <2> QED BY <2>5, <2>6, <2>7 DEF MarkIs
<1> QED BY <1>8, <1>10, <1>11, <1>12, <1>13 DEF WordInv

\* What on_stop keeps while it reads: the Stop at the head, and the bytes from the mark to its size.
LookInv ==
    look.on => /\ conns # <<>> /\ conns[1].kind = "stop" /\ ~conns[1].bad /\ conns[1].at # Unmeasured
               /\ \/ look.span[1] = Unknown
                  \/ /\ look.id[3] # 0 /\ mark.owner = look.id[3] /\ look.span = <<mark.at, conns[1].at>>
                     /\ Unknown < mark.at /\ mark.at <= conns[1].at

\* The first text after the mark, up to the size of the Stop, is the turn's own.
LEMMA SaidIsOwn ==
  ASSUME LineInv, WordInv, SeenIn(ev, log, launch.session), ev \in Hook, ev.of = launch.session, ev.kind = "stop",
    ev.turn \in known, Latest(ev.turn), ~turns[ev.turn].late, Marked, mark.at <= ev.at, ev.turn \in Nat
  PROVE  Said(<<mark.at, ev.at>>) = ev.turn
<1>0. /\ Len(log) \in Nat /\ mark.at \in 0 .. Len(log) /\ mark.at \in Int /\ ev.at \in Int /\ ev.at <= Len(log)
      /\ mark.at # Unknown /\ ev.at >= 0
 <2>1. AgentType /\ mark.at \in 0 .. Len(log) /\ ev.at <= Len(log) BY DEF LineInv, WordInv, MarkIs, SeenIn
 <2>2. Len(log) \in Nat /\ ev.at \in Int /\ mark.at \in Int BY <2>1, TopType, RankType DEF WordInv, PeriodType
 <2> QED BY <2>1, <2>2 DEF Marked
<1>1. PICK i \in 1 .. Len(log) : log[i].says /\ log[i].turn = ev.turn /\ i <= ev.at BY <1>0 DEF SeenIn
<1>2. /\ \A n \in 1 .. Len(log) : n > mark.at => log[n].turn >= ev.turn
      /\ \A n \in 1 .. Len(log) : n <= mark.at => log[n].turn # ev.turn BY DEF WordInv, MarkIs
<1> DEFINE S == {n \in mark.at + 1 .. ev.at : log[n].says}
<1>3. i \in S /\ S \subseteq Nat /\ \A n \in S : n \in 1 .. Len(log) /\ n > mark.at
 <2>1. ~(i <= mark.at) BY <1>1, <1>2
 <2>2. i \in mark.at + 1 .. ev.at BY <1>0, <1>1, <2>1
 <2>3. i \in S BY <1>1, <2>2
 <2>4. \A n \in mark.at + 1 .. ev.at : n \in Nat /\ n \in 1 .. Len(log) /\ n > mark.at BY <1>0
 <2> QED BY <2>3, <2>4
<1>4. \E g \in S : \A h \in S : g <= h BY <1>3, Least
<1>5. PICK f \in S : f = (CHOOSE n \in S : \A j \in S : n <= j) /\ \A j \in S : f <= j
 <2>1. PICK f : f = CHOOSE n \in S : \A j \in S : n <= j OBVIOUS
 <2>2. f \in S /\ \A j \in S : f <= j BY <1>4, <2>1
 <2> QED BY <2>1, <2>2
<1>6. f \in 1 .. Len(log) /\ f > mark.at /\ f <= i BY <1>3, <1>5
<1>7. log[f].turn >= ev.turn /\ log[f].turn <= log[i].turn /\ log[f].turn \in Nat
 <2>1. f = i \/ f < i BY <1>6
 <2>2. log[f] \in Entry BY <1>6 DEF LineInv, AgentType
 <2> QED BY <1>2, <1>6, <2>1, <2>2 DEF LineInv, LogInOrder, Entry
<1>8. log[f].turn = ev.turn BY <1>1, <1>7
<1>9. Said(<<mark.at, ev.at>>) = log[CHOOSE n \in S : \A j \in S : n <= j].turn BY <1>0, <1>3 DEF Said
<1> QED BY <1>5, <1>8, <1>9

\* A Stop is applied: its reply is the text of its turn.
LEMMA StopApplies ==
  ASSUME LineInv, PastInv, SessionInv, SeenInv, WordInv, LookInv, PromptInv, AgentType', OnStop
  PROVE  PastInv' /\ WordInv'
<1>0. /\ AgentType /\ busy \in Nat /\ seq \in Nat /\ mark.owner \in Nat /\ mark.at \in Int /\ busy <= seq
      /\ mark.owner <= seq BY DEF LineInv, PromptInv, PromptType, WordInv, PeriodType
<1>1. /\ conns # <<>> /\ conns' = Tail(conns) /\ UNCHANGED <<backlog, phase, turns, log, known, launch, job, seq>>
      /\ look.on /\ SessionCurrent(ev) BY DEF OnStop, Applying, agent
<1>2. /\ ev = line[1] /\ 1 \in 1 .. Len(line) /\ ev \in Hook /\ ev.turn \in Nat /\ ev.turn <= Len(turns)
      /\ \A b \in Int : b <= Rank(ev) => Passed(b)' BY <1>1, HeadPassed
<1>3. ev = conns[1] /\ ev.kind = "stop" /\ ev.of = launch.session
 <2>1. ev = conns[1] BY <1>0, <1>1 DEF ev, AgentType
 <2> QED BY <1>1, <2>1 DEF LookInv, SessionCurrent
<1>4. PICK s \in Nat : s = ev.turn /\ s >= 1 /\ Rank(ev) = 2 * s + 1 BY <1>2, <1>3 DEF Rank, LineInv, InOrder
<1>5. ASSUME NEW u \in known PROVE u \in Nat /\ u >= 1 /\ Passed(2 * u)' /\ u <= s
 <2>1. u \in Nat /\ u >= 1 /\ 2 * u <= Rank(line[1]) BY <1>2 DEF PastInv, Passed
 <2>2. PICK b \in Int : b = 2 * u BY <2>1
 <2>3. Passed(b)' BY <1>2, <2>1, <2>2
 <2>4. 2 * u <= 2 * s + 1 BY <1>2, <1>4, <2>1
 <2>5. u <= s BY <2>1, <2>4, Halve
 <2> QED BY <2>1, <2>2, <2>3, <2>5
<1>6. ASSUME NEW r \in replies PROVE r.by \in Nat /\ r.by >= 1 /\ Passed(2 * r.by + 1)'
 <2>1. r.by \in Nat /\ r.by >= 1 /\ 2 * r.by + 1 <= Rank(line[1]) BY <1>2 DEF PastInv, Passed
 <2>2. PICK b \in Int : b = 2 * r.by + 1 BY <2>1
 <2>3. Passed(b)' BY <1>2, <2>1, <2>2
 <2> QED BY <2>1, <2>2, <2>3
<1>7. PICK q : /\ replies' = replies \cup {q} /\ q.by = s
               /\ q.to = (IF Current THEN anchor ELSE None)
               /\ q.turn = (IF ev.own THEN s ELSE Said(look.span))
 <2>1. PICK x, y : x = (IF Current THEN anchor ELSE None) /\ y = IF ev.own THEN s ELSE Said(look.span) OBVIOUS
 <2>2. replies' = replies \cup {[to |-> x, turn |-> y, by |-> s]} BY <1>4, <2>1 DEF OnStop
 <2>3. PICK q : q = [to |-> x, turn |-> y, by |-> s] OBVIOUS
 <2>4. q.to = x /\ q.turn = y /\ q.by = s BY <2>3
 <2> QED BY <2>1, <2>2, <2>3, <2>4
<1>8. Passed(2 * s + 1)'
 <2>1. PICK b \in Int : b = 2 * s + 1 BY <1>4
 <2>2. b <= Rank(ev) BY <1>4, <2>1
 <2> QED BY <1>2, <2>1, <2>2
<1>9. PastInv'
 <2>1. \A u \in known' : u \in Nat /\ u >= 1 /\ Passed(2 * u)' BY <1>1, <1>5
 <2>2. \A r \in replies' : r.by \in Nat /\ r.by >= 1 /\ Passed(2 * r.by + 1)' BY <1>4, <1>6, <1>7, <1>8
 <2> QED BY <2>1, <2>2 DEF PastInv
<1>10. \/ busy' = 0 /\ mark' = NoMark /\ anchor' \in {anchor, None}
       \/ busy' = busy /\ mark' = mark /\ anchor' = anchor BY DEF OnStop, SetIdle
<1>11. PeriodType'
 <2>1. NoMark.owner = 0 /\ NoMark.at \in Int BY DEF NoMark, Unknown
 <2> QED BY <1>0, <1>1, <1>10, <2>1 DEF PeriodType
<1>12. \A u \in known : Latest(u)' <=> Latest(u) BY <1>1 DEF Latest
<1>13. AnchorIs' BY <1>1, <1>10, <1>12 DEF WordInv, AnchorIs
<1>14. MarkIs'
 <2>1. CASE busy' = 0 BY <2>1 DEF MarkIs, Marked
 <2>2. CASE busy' = busy /\ mark' = mark BY <1>1, <1>12, <2>2 DEF WordInv, MarkIs, Marked
 <2> QED BY <1>10, <2>1, <2>2
<1>15. ASSUME Current, anchor # None, s \in known
       PROVE  turns[s].text = anchor /\ (~turns[s].late => q.turn \in {0, s})
 <2>1. Latest(s) BY <1>5, <1>15 DEF Latest
 <2>2. turns[s].text = anchor BY <1>15, <2>1 DEF WordInv, AnchorIs
 <2>3. ASSUME ~turns[s].late, ~ev.own PROVE q.turn \in {0, s}
  <3>1. q.turn = Said(look.span) BY <1>7, <2>3
  <3>2. CASE look.span[1] = Unknown BY <3>1, <3>2 DEF Said
  <3>3. CASE look.span[1] # Unknown
   <4>1. /\ look.id[3] # 0 /\ mark.owner = look.id[3] /\ look.span = <<mark.at, ev.at>>
         /\ Unknown < mark.at /\ mark.at <= ev.at BY <1>1, <1>3, <3>3 DEF LookInv
   <4>2. look.id[3] = busy
    <5>1. look.id = <<inFlight, anchor, busy, launch.session, launch.nonce>> BY <1>15 DEF Current, Identity
    <5> QED BY <5>1
   <4>3. Marked BY <1>0, <4>1, <4>2 DEF Marked, Unknown
   <4>4. SeenIn(ev, log, launch.session) BY <1>2 DEF SeenInv
   <4>5. Said(<<mark.at, ev.at>>) = ev.turn BY <1>2, <1>3, <1>4, <1>15, <2>1, <2>3, <4>1, <4>3, <4>4, SaidIsOwn
   <4> QED BY <1>4, <3>1, <4>1, <4>5
  <3> QED BY <3>2, <3>3
 <2>4. ev.own => q.turn = s BY <1>7
 <2> QED BY <2>2, <2>3, <2>4
<1>16. ReplyIs'
 <2>1. ASSUME NEW r \in replies', r.to # None, r.by \in known'
       PROVE  turns'[r.by].text = r.to /\ (~turns'[r.by].late => r.turn \in {0, r.by})
  <3>1. CASE r \in replies BY <1>1, <2>1, <3>1 DEF WordInv, ReplyIs
  <3>2. CASE r = q
   <4>1. Current /\ anchor # None /\ s \in known /\ q.to = anchor BY <1>1, <1>7, <2>1, <3>2
   <4> QED BY <1>1, <1>7, <1>15, <3>2, <4>1
  <3> QED BY <1>7, <3>1, <3>2
 <2> QED BY <2>1 DEF ReplyIs
<1> QED BY <1>9, <1>11, <1>13, <1>14, <1>16 DEF WordInv

------------------------------
\* The Stop that is being read stays at the head, and the mark stays with it.
LEMMA LookStays ==
  ASSUME LookInv, ~look'.on \/ (look' = look /\ mark' = mark
                                /\ (look.on => /\ conns' # <<>> /\ Alike(conns'[1], conns[1])
                                               /\ conns'[1].at = conns[1].at /\ ~conns'[1].bad))
  PROVE  LookInv'
BY DEF LookInv, Alike

LEMMA LookRaise ==
  ASSUME AgentType, LookInv, RaiseFloor, backlog' = backlog, UNCHANGED <<look, mark>>
  PROVE  LookInv'
<1>1. conns \in Seq(Hook) /\ Len(conns) \in Nat /\ conns' \in Seq(Hook) /\ Len(conns') = Len(conns)
      /\ \A i \in 1 .. Len(conns) : /\ Alike(conns'[i], conns[i]) /\ conns'[i].at = conns[i].at
                                    /\ conns'[i].bad = conns[i].bad BY LineRaise DEF AgentType
<1>2. ASSUME look.on PROVE conns' # <<>> /\ Alike(conns'[1], conns[1]) /\ conns'[1].at = conns[1].at /\ ~conns'[1].bad
 <2>1. conns # <<>> /\ ~conns[1].bad BY <1>2 DEF LookInv
 <2>2. 1 \in 1 .. Len(conns) BY <1>1, <2>1
 <2> QED BY <1>1, <2>1, <2>2
<1> QED BY <1>2, LookStays

LEMMA LookSame ==
  ASSUME LookInv, UNCHANGED <<look, mark, conns>>
  PROVE  LookInv'
BY DEF LookInv

LEMMA LookOff == ~look'.on => LookInv'
BY DEF LookInv

LEMMA LookStarts ==
  ASSUME AgentType, LookInv, Starts
  PROVE  LookInv'
<1>1. CASE Crash BY <1>1, LookOff DEF Crash, NoLook
<1>2. CASE StartAdopts \/ StartLaunches \/ StartRefuses
 BY <1>2, LookSame DEF StartAdopts, StartLaunches, StartRefuses, Recover, hooks
<1> QED BY <1>1, <1>2 DEF Starts

LEMMA LookQueue ==
  ASSUME AgentType, LookInv, Queue \/ (\E m \in Msgs : Receive(m)) \/ Gate
  PROVE  LookInv'
<1>1. CASE SendUncertain BY <1>1, LookRaise DEF SendUncertain, period
<1>2. CASE FlushStuck \/ FlushDenies \/ Dispatch \/ PasteLands
 BY <1>2, LookSame DEF FlushStuck, FlushDenies, Dispatch, PasteLands, hooks, store, period
<1>3. CASE SendReturns \/ SendFails \/ Restarted \/ (\E m \in Msgs : Receive(m)) \/ Gate
 BY <1>3, LookSame DEF SendReturns, SendFails, Restarted, Receive, Gate, hooks, store, period
<1> QED BY <1>1, <1>2, <1>3 DEF Queue

LEMMA LookCommands ==
  ASSUME AgentType, LookInv, Commands
  PROVE  LookInv'
<1>1. CASE Interrupted \/ NewBegins \/ CheckAgent BY <1>1, LookRaise DEF Interrupted, NewBegins, CheckAgent, period
<1>2. CASE LaunchReturns \/ LaunchFails
 BY <1>2, LookRaise, LookSame DEF LaunchReturns, LaunchFails, FloorOfNew, period
<1>3. CASE InterruptBegins \/ InterruptFails \/ NewIssued \/ EscapeLands \/ PaneSpawned
 BY <1>3, LookSame DEF InterruptBegins, InterruptFails, NewIssued, EscapeLands, PaneSpawned, hooks, store, period
<1> QED BY <1>1, <1>2, <1>3 DEF Commands

LEMMA LookAgent ==
  ASSUME AgentType, LookInv, Agent \/ UNCHANGED vars
  PROVE  LookInv'
<1>1. UNCHANGED <<look, mark, conns>>
 BY DEF Agent, HookDone, HookConnects, Finish, TakeInput, Terminal, PaneDies, vars, hooks, store, period
<1> QED BY <1>1, LookSame

LEMMA LookHooks ==
  ASSUME AgentType, LookInv, Hooks
  PROVE  LookInv'
<1>0. conns \in Seq(Hook) /\ Len(conns) \in Nat /\ (conns # <<>> => ev = conns[1] /\ 1 \in 1 .. Len(conns))
 BY DEF AgentType, ev
<1>1. CASE Accept
 <2>1. conns' = Append(conns, Head(backlog)) /\ UNCHANGED <<look, mark>> /\ Head(backlog) \in Hook
  BY <1>1 DEF Accept, store, period, AgentType
 <2>2. conns # <<>> => conns' # <<>> /\ conns'[1] = conns[1] BY <1>0, <2>1
 <2> QED BY <2>1, <2>2, LookStays DEF LookInv, Alike
<1>2. CASE FrameDropped
 <2>1. UNCHANGED <<look, mark>> /\ conns' \in Seq(Hook) /\ Len(conns') = Len(conns)
       /\ \A i \in 1 .. Len(conns) : /\ Alike(conns'[i], conns[i]) /\ conns'[i].at = conns[i].at
                                     /\ conns'[i].bad = conns[i].bad \/ conns[i].at = Unmeasured
  BY <1>2, LineDrop DEF FrameDropped, store, period
 <2>2. ASSUME look.on PROVE conns' # <<>> /\ Alike(conns'[1], conns[1]) /\ conns'[1].at = conns[1].at /\ ~conns'[1].bad
  <3>1. conns # <<>> /\ ~conns[1].bad /\ conns[1].at # Unmeasured BY <2>2 DEF LookInv
  <3> QED BY <1>0, <2>1, <3>1
 <2> QED BY <2>1, <2>2, LookStays
<1>3. CASE HookFails \/ StopUnusable \/ OnStop BY <1>3, LookOff DEF HookFails, StopUnusable, OnStop, NoLook
<1>4. CASE LostHolds \/ Measure \/ Ignored \/ OnSessionStart \/ PromptLate \/ OnPrompt
 <2>1. look' = look BY <1>4 DEF LostHolds, Measure, Ignored, OnSessionStart, PromptLate, OnPrompt
 <2>2. ~look.on BY <1>0, <1>4 DEF LostHolds, Measure, Ignored, OnSessionStart, PromptLate, OnPrompt, Applying, LookInv
 <2> QED BY <2>1, <2>2, LookOff
<1>5. CASE StopBegins
 <2>1. conns # <<>> /\ ~ev.bad /\ ev.kind = "stop" /\ ev.at # Unmeasured /\ ~look.on /\ mark' = mark
  BY <1>5 DEF StopBegins, Applying, period
 <2>2. CASE look' = look BY <2>1, <2>2, LookOff
 <2>3. CASE look' # look
  <3>1. conns' = conns /\ look'.id = Identity /\ look'.span = Span(ev.at) BY <1>5, <2>3 DEF StopBegins
  <3>2. look'.id[3] = busy BY <3>1 DEF Identity
  <3>3. CASE busy # 0 /\ mark.owner = busy /\ Unknown < mark.at /\ mark.at <= ev.at
   <4>1. look'.span = <<mark.at, ev.at>> BY <3>1, <3>3 DEF Span
   <4> QED BY <1>0, <2>1, <3>1, <3>2, <3>3, <4>1 DEF LookInv
  <3>4. CASE ~(busy # 0 /\ mark.owner = busy /\ Unknown < mark.at /\ mark.at <= ev.at)
   <4>1. look'.span[1] = Unknown BY <3>1, <3>4 DEF Span
   <4> QED BY <1>0, <2>1, <3>1, <4>1 DEF LookInv
  <3> QED BY <3>3, <3>4
 <2> QED BY <2>2, <2>3
<1> QED BY <1>1, <1>2, <1>3, <1>4, <1>5 DEF Hooks

------------------------------
ReplyInv == LineInv /\ SessionInv /\ SeenInv /\ PastInv /\ WordInv /\ LookInv

LEMMA ReplyInit == Init => ReplyInv
<1> SUFFICES ASSUME Init PROVE ReplyInv OBVIOUS
<1>1. line = <<>> /\ Len(line) = 0 /\ turns = <<>> /\ log = <<>> /\ Len(turns) = 0 /\ Len(log) = 0 /\ phase = "none" /\ pane = 0
      /\ known = {} /\ replies = {} /\ anchor = None /\ busy = 0 /\ seq = 0 /\ ~look.on /\ job.name = "free"
      /\ mark.owner = 0 /\ mark.at = -2 /\ launch.session = 0
 BY DEF Init, line, NoLook, Free, NoMark, NoLaunch, Unknown
<1>2. AgentType
 <2>1. PICK f \in BOOLEAN : ~f /\ launch = [session |-> 0, nonce |-> f, ack |-> f, hold |-> f, issued |-> f, replace |-> f]
  BY DEF Init, NoLaunch
 <2>2. launch \in LaunchRecord BY <2>1 DEF LaunchRecord
 <2> QED BY <2>2 DEF Init, AgentType
<1>3. LineInv BY <1>1, <1>2 DEF LineInv, InOrder, LogInOrder, Unlogged
<1>4. SessionInv /\ SeenInv BY <1>1 DEF SessionInv, SeenInv, Issued
<1>5. PastInv /\ WordInv /\ LookInv
 BY <1>1 DEF PastInv, WordInv, PeriodType, AnchorIs, MarkIs, Marked, ReplyIs, LookInv
<1> QED BY <1>3, <1>4, <1>5 DEF ReplyInv

LEMMA ReplyStep == PromptInv /\ ReplyInv /\ [Next]_vars => ReplyInv'
<1> SUFFICES ASSUME PromptInv, ReplyInv, [Next]_vars PROVE ReplyInv' OBVIOUS
<1>0. LineInv /\ SessionInv /\ SeenInv /\ PastInv /\ WordInv /\ LookInv /\ AgentType /\ PaneIs
 BY DEF ReplyInv, LineInv, SessionInv, PaneIs
<1>1. AgentType' /\ Moves /\ (SameSession \/ NextSession) BY <1>0, StepMoves
<1>2. LineInv' /\ SessionInv' /\ SeenInv' BY <1>0, <1>1, LineStep, SessionStep, SeenStep
<1>3. LookInv' BY <1>0, LookStarts, LookQueue, LookCommands, LookAgent, LookHooks DEF Next
<1>4. PastInv' /\ WordInv'
 <2>1. CASE OnPrompt BY <1>0, <1>1, <2>1, PromptApplies
 <2>2. CASE OnStop BY <1>0, <1>1, <2>2, StopApplies
 <2>3. CASE ~OnPrompt /\ ~OnStop
  <3>1. WordsKept
   BY <2>3, StartKeepsWords, QueueKeepsWords, CommandKeepsWords, HookKeepsWords, AgentKeepsWords DEF Next
  <3>2. UNCHANGED <<known, replies>> BY <3>1 DEF WordsKept
  <3> QED BY <1>0, <1>1, <3>1, <3>2, PastStays, WordStays
 <2> QED BY <2>1, <2>2, <2>3
<1> QED BY <1>2, <1>3, <1>4 DEF ReplyInv

\* Of what admind knows of the agent's turns, ReplyInv holds always: the hooks on their way, the anchor, the mark, the
\* replies and the transcript agree, whatever is typed, interrupted, lost, delayed or restarted.
THEOREM ReplyInvHolds == Spec => []ReplyInv
<1>1. PromptInv /\ ReplyInv /\ [Next]_vars => ReplyInv' BY ReplyStep
<1>2. Init => ReplyInv BY ReplyInit
<1> QED BY <1>1, <1>2, PromptInvHolds, PTL DEF Spec

\* ReplyIsOwn, for any messages, launches and disturbances: a reply in the thread of a message is the text of a turn that
\* was started with that message (Admind.on_prompt, on_stop, turn_span).
THEOREM RepliesAlwaysOwn == Spec => []ReplyIsOwn
<1>1. ReplyInv => ReplyIsOwn
 <2> SUFFICES ASSUME ReplyInv, NEW r \in replies, r.to # None, r.turn \in known,
   r.turn = r.by \/ (r.by \in known /\ ~turns[r.by].late)
              PROVE  turns[r.turn].text = r.to BY DEF ReplyIsOwn
 <2>1. r.turn # 0 BY DEF ReplyInv, PastInv
 <2> QED BY <2>1 DEF ReplyInv, WordInv, ReplyIs
<1> QED BY <1>1, ReplyInvHolds, PTL

------------------------------
(* The reservation and the busy period. *)

\* admind is busy while a message is in flight; an interrupt has the message that is; and a Stop that is being read
\* knows whether one was reserved and not anchored.
FlightBusy == inFlight # None => busy # 0
TargetIs   == job.name = "interrupt" => job.target = inFlight
LookKnows  == look.on => (look.unanchored <=> look.id[1] # None /\ look.id[2] = None)

FlightInv == FlightBusy /\ TargetIs /\ LookKnows

LEMMA FlightStays ==
  ASSUME FlightInv, inFlight' = inFlight, busy # 0 => busy' # 0, ~look'.on \/ look' = look,
         job'.name # "interrupt" \/ (job.name = "interrupt" /\ job'.target = job.target)
  PROVE  FlightInv'
BY DEF FlightInv, FlightBusy, TargetIs, LookKnows

LEMMA FlightCleared ==
  ASSUME FlightInv, inFlight' = None, job'.name # "interrupt", ~look'.on \/ look' = look
  PROVE  FlightInv'
BY DEF FlightInv, FlightBusy, TargetIs, LookKnows

LEMMA FlightStarts ==
  ASSUME PromptInv, FlightInv, Starts
  PROVE  FlightInv'
<1>0. busy \in Nat /\ seq \in Nat BY DEF PromptInv, PromptType
<1>1. CASE Crash BY <1>1, FlightStays DEF Crash, store, flight, period, Free, NoLook
<1>2. CASE StartAdopts \/ StartLaunches \/ StartRefuses
 <2>1. inFlight' = None /\ look' = look /\ ~live
  BY <1>2 DEF StartAdopts, StartLaunches, StartRefuses, Recover, ClearFlight, hooks
 <2>2. job = Free BY <2>1 DEF PromptInv, DownHoldsNothing
 <2>3. job'.name # "interrupt" BY <1>2, <2>2 DEF StartAdopts, StartLaunches, StartRefuses, Free
 <2> QED BY <2>1, <2>3, FlightCleared
<1> QED BY <1>1, <1>2 DEF Starts

LEMMA FlightQueue ==
  ASSUME PromptInv, FlightInv, Queue \/ (\E m \in Msgs : Receive(m)) \/ Gate
  PROVE  FlightInv'
<1>0. busy \in Nat /\ seq \in Nat BY DEF PromptInv, PromptType
<1>1. CASE FlushStuck \/ FlushDenies \/ (\E m \in Msgs : Receive(m)) \/ Gate
 BY <1>1, FlightStays DEF FlushStuck, FlushDenies, Receive, Gate, store, flight, period, memory, hooks
<1>2. CASE Dispatch
 <2>1. busy' # 0 /\ job'.name = "send" /\ look' = look BY <1>0, <1>2 DEF Dispatch, SetBusy, hooks
 <2> QED BY <2>1 DEF FlightInv, FlightBusy, TargetIs, LookKnows
<1>3. CASE PasteLands
 <2>1. job \in Sending /\ job' = [job EXCEPT !.done = TRUE] BY <1>3, JobByName DEF PasteLands, PromptInv
 <2>2. job'.name = "send" BY <2>1 DEF Sending
 <2> QED BY <1>3, <2>2, FlightStays DEF PasteLands, store, flight, period, hooks
<1>4. CASE SendReturns \/ Restarted
 BY <1>4, FlightStays DEF SendReturns, Restarted, store, flight, period, hooks, Free
<1>5. CASE SendUncertain BY <1>5, FlightCleared DEF SendUncertain, Abandon, ClearFlight, Free
<1>6. CASE SendFails
 <2>1. inFlight = job.msg BY <1>6 DEF SendFails, PromptInv, NotYetPasted
 <2> QED BY <1>6, <2>1, FlightCleared DEF SendFails, hooks
<1> QED BY <1>1, <1>2, <1>3, <1>4, <1>5, <1>6 DEF Queue

LEMMA FlightCommands ==
  ASSUME PromptInv, FlightInv, Commands
  PROVE  FlightInv'
<1>1. CASE InterruptFails \/ LaunchReturns \/ LaunchFails \/ CheckAgent
 BY <1>1, FlightStays DEF InterruptFails, LaunchReturns, LaunchFails, CheckAgent, store, flight, period, hooks, Free
<1>2. CASE InterruptBegins
 <2>1. UNCHANGED <<inFlight, busy, look>> /\ job'.target = inFlight
  BY <1>2 DEF InterruptBegins, store, flight, period, hooks
 <2> QED BY <2>1 DEF FlightInv, FlightBusy, TargetIs, LookKnows
<1>3. CASE EscapeLands
 <2>1. job \in Breaking /\ job' = [job EXCEPT !.done = TRUE] /\ job.name = "interrupt"
  BY <1>3, JobByName DEF EscapeLands, PromptInv
 <2>2. job'.name = "interrupt" /\ job'.target = job.target BY <2>1 DEF Breaking
 <2> QED BY <1>3, <2>1, <2>2, FlightStays DEF EscapeLands, store, flight, period, hooks
<1>4. CASE Interrupted
 <2>1. job.target = inFlight /\ look' = look /\ job' = Free BY <1>4 DEF Interrupted, FlightInv, TargetIs
 <2>2. inFlight' = None BY <1>4, <2>1 DEF Interrupted, Abandon, ClearFlight
 <2> QED BY <2>1, <2>2, FlightCleared DEF Free
<1>5. CASE NewBegins BY <1>5, FlightCleared DEF NewBegins, ClearFlight
<1>6. CASE NewIssued \/ PaneSpawned
 <2>1. job \in Launching BY <1>6, JobByName DEF NewIssued, PaneSpawned, PromptInv
 <2>2. job'.name # "interrupt" BY <1>6, <2>1 DEF NewIssued, PaneSpawned, Launching
 <2> QED BY <1>6, <2>2, FlightStays DEF NewIssued, PaneSpawned, store, flight, period, hooks
<1> QED BY <1>1, <1>2, <1>3, <1>4, <1>5, <1>6 DEF Commands

LEMMA FlightHooks ==
  ASSUME PromptInv, FlightInv, Hooks
  PROVE  FlightInv'
<1>0. busy \in Nat /\ seq \in Nat BY DEF PromptInv, PromptType
<1>1. CASE Accept \/ FrameDropped \/ Measure \/ Ignored \/ StopUnusable
 BY <1>1, FlightStays DEF Accept, FrameDropped, Measure, Ignored, StopUnusable, store, flight, period, memory, NoLook
<1>2. CASE OnSessionStart \/ PromptLate BY <1>2, FlightStays DEF OnSessionStart, PromptLate, store, flight, period
<1>3. CASE LostHolds \/ HookFails
 <2>1. inFlight' = inFlight /\ job' = job /\ (~look'.on \/ look' = look)
  BY <1>3 DEF LostHolds, HookFails, flight, NoLook
 <2>2. busy # 0 => busy' # 0 BY <1>0, <1>3 DEF LostHolds, HookFails, PersistHold, SetBusy
 <2> QED BY <2>1, <2>2, FlightStays
<1>4. CASE OnPrompt
 <2>1. busy' # 0 /\ job' = job /\ job = Free /\ look' = look BY <1>0, <1>4 DEF OnPrompt, SetBusy, Applying
 <2> QED BY <2>1 DEF FlightInv, FlightBusy, TargetIs, LookKnows, Free
<1>5. CASE StopBegins
 <2>1. UNCHANGED <<inFlight, busy, job>> BY <1>5 DEF StopBegins, period, memory
 <2>2. CASE look' = look BY <2>1, <2>2, FlightStays
 <2>3. CASE look' # look
  <3>a. (inFlight # None /\ anchor = None) \in BOOLEAN /\ (Classify(ev) = "stale" \/ ev.below) \in BOOLEAN OBVIOUS
  <3>b. PICK u \in BOOLEAN, st \in BOOLEAN : u = (inFlight # None /\ anchor = None) /\ st = (Classify(ev) = "stale" \/ ev.below)
   BY <3>a, Zenon
  <3>c. PICK f : f = (~st /\ ~u /\ ~ev.own) BY Zenon
  <3>d. look' = [on |-> TRUE, stale |-> st, unanchored |-> u, id |-> Identity, span |-> Span(ev.at), fallback |-> f]
   BY <1>5, <2>3, <3>b, <3>c, Zenon DEF StopBegins
  <3>e. look'.id = Identity /\ look'.unanchored = u BY <3>d
  <3>f. u <=> inFlight # None /\ anchor = None BY <3>b, Zenon
  <3>1. look'.id = Identity /\ (look'.unanchored <=> inFlight # None /\ anchor = None) BY <3>e, <3>f
  <3>2. look'.id[1] = inFlight /\ look'.id[2] = anchor BY <3>1 DEF Identity
  <3> QED BY <2>1, <3>1, <3>2 DEF FlightInv, FlightBusy, TargetIs, LookKnows
 <2> QED BY <2>2, <2>3
<1>6. CASE OnStop
 <2>1. look.on /\ job = Free /\ job' = job /\ ~look'.on BY <1>6 DEF OnStop, Applying, NoLook
 <2>2. CASE ~Current BY <1>6, <2>1, <2>2, FlightStays DEF OnStop
 <2>3. CASE Current
  <3>1. ~look.unanchored /\ look.id = Identity BY <2>3 DEF Current
  <3>2. look.id[1] = inFlight /\ look.id[2] = anchor BY <3>1 DEF Identity
  <3>3. inFlight = None \/ anchor # None BY <2>1, <3>1, <3>2 DEF FlightInv, LookKnows
  <3>4. inFlight' = None BY <1>6, <2>3, <3>3 DEF OnStop
  <3> QED BY <2>1, <3>4, FlightCleared DEF Free
 <2> QED BY <2>2, <2>3
<1> QED BY <1>1, <1>2, <1>3, <1>4, <1>5, <1>6 DEF Hooks

LEMMA FlightStep == PromptInv /\ FlightInv /\ [Next]_vars => FlightInv'
<1> SUFFICES ASSUME PromptInv, FlightInv, [Next]_vars PROVE FlightInv' OBVIOUS
<1>1. CASE Agent \/ UNCHANGED vars
 <2>1. UNCHANGED <<inFlight, busy, look, job>>
  BY <1>1 DEF Agent, HookDone, HookConnects, Finish, TakeInput, Terminal, PaneDies, vars, hooks, store, flight,
    period, memory
 <2> QED BY <2>1, FlightStays
<1> QED BY <1>1, FlightStarts, FlightQueue, FlightCommands, FlightHooks DEF Next

------------------------------
(* The launch and the pane. *)

\* A retired session is no longer the launch's, or !new is about to issue the next.
RetiredIs   == retired \subseteq 1 .. launch.session /\ (launch.session \in retired => ~launch.nonce)
UnstuckSend == job.name \in {"send", "restart"} => ~stuck

\* An agent of another session than the launch's: admind is not ready and won't adopt it, and no hook is of the launch.
PaneKnows ==
    pane \notin {0, launch.session} => /\ ~ready /\ (launch.issued \/ launch.hold \/ launch.replace)
                                       /\ \A i \in 1 .. Len(line) : line[i].of # launch.session
SpawnedIs == job.name \in {"start", "new"} /\ job.step = "spawned" => pane \in {0, launch.session}
NewQuiet  == job.name = "new" => ~ready

StandInv == RetiredIs /\ UnstuckSend /\ PaneKnows /\ SpawnedIs /\ NewQuiet

LEMMA PaneStays ==
  ASSUME LineInv, SessionInv, PaneKnows, AgentType', Moves, launch'.session = launch.session,
    pane \in {0, launch.session}
    \/ ((ready' => ready) /\ (launch'.issued \/ launch'.hold \/ launch'.replace
                              \/ ~(launch.issued \/ launch.hold \/ launch.replace)))
  PROVE  PaneKnows'
<1> SUFFICES ASSUME pane' \notin {0, launch'.session}
             PROVE  /\ ~ready' /\ (launch'.issued \/ launch'.hold \/ launch'.replace)
                    /\ \A i \in 1 .. Len(line') : line'[i].of # launch'.session BY DEF PaneKnows
<1>1. pane' = pane /\ pane \notin {0, launch.session} BY PaneMoves
<1>2. ~ready /\ (launch.issued \/ launch.hold \/ launch.replace) /\ \A i \in 1 .. Len(line) : line[i].of # launch.session
 BY <1>1 DEF PaneKnows
<1>3. ASSUME NEW i \in 1 .. Len(line') PROVE line'[i].of # launch'.session
 <2>1. CASE \E j \in 1 .. Len(line) : Alike(line'[i], line[j]) BY <1>2, <2>1 DEF Alike
 <2>2. CASE line'[i].of = pane BY <1>1, <2>2
 <2> QED BY <2>1, <2>2, Origin
<1> QED BY <1>1, <1>2, <1>3

LEMMA SpawnStays ==
  ASSUME LineInv, SpawnedIs, Moves, launch'.session = launch.session, job' = job \/ job'.name \notin {"start", "new"}
  PROVE  SpawnedIs'
<1>1. \/ pane' = pane \/ pane' = 0 \/ pane' = launch.session BY PaneMoves
<1> QED BY <1>1 DEF SpawnedIs

\* The launch, the readiness and the sessions are as they were, and the job goes on, ends or is another one.
LEMMA StandStays ==
  ASSUME LineInv, SessionInv, StandInv, AgentType', Moves, UNCHANGED <<launch, ready, retired, stuck>>,
    \/ job' = job \/ job' = Free \/ job'.name = "interrupt"
    \/ job'.name \in {"send", "restart"} /\ (~stuck \/ job.name \in {"send", "restart"})
  PROVE  StandInv'
<1>1. PaneKnows' BY PaneStays DEF StandInv
<1>2. SpawnedIs' BY SpawnStays DEF StandInv, Free
<1> QED BY <1>1, <1>2 DEF StandInv, RetiredIs, UnstuckSend, NewQuiet, Free

\* The launch is held and recovery paused.
LEMMA StandRefused ==
  ASSUME LineInv, SessionInv, StandInv, AgentType', Moves, retired' = retired, Refuse,
    ready' => ready, job' = Free
  PROVE  StandInv'
<1>0. launch \in LaunchRecord BY DEF LineInv, AgentType
<1>1. launch'.session = launch.session /\ launch'.nonce = launch.nonce /\ launch'.hold BY <1>0, RefuseDoes
<1>2. PaneKnows' BY <1>1, PaneStays DEF StandInv
<1>3. SpawnedIs' BY <1>1, SpawnStays DEF StandInv, Free
<1> QED BY <1>1, <1>2, <1>3 DEF StandInv, RetiredIs, UnstuckSend, NewQuiet, Free

LEMMA StandStarts ==
  ASSUME PromptInv, LineInv, SessionInv, StandInv, AgentType', Moves, SameSession \/ NextSession, Starts
  PROVE  StandInv'
<1>0. launch \in LaunchRecord /\ AgentType /\ pane \in Nat /\ launch.session \in Nat
 BY LaunchFields DEF LineInv, AgentType
<1>1. CASE Crash
 <2>1. /\ retired' = {} /\ job' = Free /\ launch' = launch /\ pane' = pane /\ ready' = FALSE
       /\ conns' = <<>> /\ backlog' = <<>> BY <1>1 DEF Crash, store, agent
 <2>2. Len(line') = 0 BY <1>0, <2>1, LineCrash
 <2>3. PaneKnows' BY <2>1, <2>2 DEF StandInv, PaneKnows
 <2> QED BY <2>1, <2>3 DEF StandInv, RetiredIs, UnstuckSend, SpawnedIs, NewQuiet, Free
<1>2. CASE StartAdopts
 <2>1. /\ job = Free /\ job' = job /\ UNCHANGED <<launch, stuck, retired>>
       /\ ~launch.hold /\ ~launch.replace /\ ~launch.issued
  BY <1>2 DEF StartAdopts, Adoptable, Recover, PromptInv, DownHoldsNothing
 <2>2. pane \in {0, launch.session} BY <2>1 DEF StandInv, PaneKnows
 <2>3. PaneKnows' /\ SpawnedIs' BY <2>1, <2>2, PaneStays, SpawnStays DEF StandInv
 <2> QED BY <2>1, <2>3 DEF StandInv, RetiredIs, UnstuckSend, NewQuiet, Free
<1>3. CASE StartLaunches
 <2>1. /\ launch.session = 0 /\ launch'.session = 1 /\ retired' = retired /\ pane' = pane /\ ready' = ready
       /\ job'.name = "start" /\ job'.step = "issued"
  BY <1>0, <1>3, StartLaunchDoes DEF StartLaunches, Recover, agent
 <2>2. retired = {} /\ pane = 0 BY <1>0, <2>1 DEF StandInv, RetiredIs, SessionInv
 <2> QED BY <2>1, <2>2 DEF StandInv, RetiredIs, UnstuckSend, PaneKnows, SpawnedIs, NewQuiet
<1>4. CASE StartRefuses
 <2>1. job = Free /\ UNCHANGED <<job, ready, retired>> BY <1>4 DEF StartRefuses, Recover, PromptInv, DownHoldsNothing
 <2>2. CASE Refuse BY <2>1, <2>2, StandRefused
 <2>3. CASE launch' = launch
  <3>1. PaneKnows' /\ SpawnedIs' BY <2>1, <2>3, PaneStays, SpawnStays DEF StandInv
  <3> QED BY <2>1, <2>3, <3>1 DEF StandInv, RetiredIs, UnstuckSend, NewQuiet, Free
 <2> QED BY <1>4, <2>2, <2>3 DEF StartRefuses
<1> QED BY <1>1, <1>2, <1>3, <1>4 DEF Starts

LEMMA StandQueue ==
  ASSUME PromptInv, LineInv, SessionInv, StandInv, AgentType', Moves, SameSession \/ NextSession,
         Queue \/ (\E m \in Msgs : Receive(m)) \/ Gate
  PROVE  StandInv'
<1>0. launch \in LaunchRecord /\ AgentType BY DEF LineInv, AgentType
<1>1. CASE FlushStuck \/ FlushDenies \/ (\E m \in Msgs : Receive(m)) \/ Gate \/ SendReturns \/ SendUncertain
 BY <1>1, StandStays DEF FlushStuck, FlushDenies, Receive, Gate, SendReturns, SendUncertain, store, memory
<1>2. CASE Dispatch
 <2>1. ~stuck /\ UNCHANGED <<launch, ready, retired, stuck>> /\ job'.name = "send" BY <1>2 DEF Dispatch
 <2> QED BY <2>1, StandStays
<1>3. CASE PasteLands
 <2>1. job \in Sending /\ job' = [job EXCEPT !.done = TRUE] /\ job.name = "send"
  BY <1>3, JobByName DEF PasteLands, PromptInv
 <2>2. job'.name = "send" BY <2>1 DEF Sending
 <2>3. UNCHANGED <<launch, ready, retired, stuck>> BY <1>3 DEF PasteLands, store
 <2> QED BY <2>1, <2>2, <2>3, StandStays
<1>4. CASE SendFails
 <2>1. /\ job.name = "send" /\ job'.name = "restart" /\ UNCHANGED <<launch, retired, stuck>> /\ ready' = FALSE
  BY <1>4 DEF SendFails
 <2>2. PaneKnows' /\ SpawnedIs' BY <2>1, PaneStays, SpawnStays DEF StandInv
 <2> QED BY <2>1, <2>2 DEF StandInv, RetiredIs, UnstuckSend, NewQuiet
<1>5. CASE Restarted
 <2>1. job' = Free /\ retired' = retired BY <1>5 DEF Restarted
 <2>2. CASE Refuse /\ ready' = ready BY <2>1, <2>2, StandRefused
 <2>3. CASE launch' = launch /\ (Adoptable \/ ready' = ready)
  <3>1. pane \in {0, launch.session} \/ ready' = ready BY <2>3 DEF Adoptable, StandInv, PaneKnows
  <3>2. PaneKnows' /\ SpawnedIs' BY <2>1, <2>3, <3>1, PaneStays, SpawnStays DEF StandInv, Free
  <3> QED BY <2>1, <2>3, <3>2 DEF StandInv, RetiredIs, UnstuckSend, NewQuiet, Free
 <2> QED BY <1>5, <2>2, <2>3 DEF Restarted
<1> QED BY <1>1, <1>2, <1>3, <1>4, <1>5 DEF Queue

LEMMA StandCommands ==
  ASSUME PromptInv, LineInv, SessionInv, StandInv, AgentType', Moves, SameSession \/ NextSession, Commands
  PROVE  StandInv'
<1>0. launch \in LaunchRecord /\ AgentType /\ pane \in Nat /\ launch.session \in Nat
 BY LaunchFields DEF LineInv, AgentType
<1>1. CASE InterruptBegins \/ Interrupted \/ InterruptFails
 <2>1. UNCHANGED <<launch, ready, retired, stuck>> /\ (job' = Free \/ job'.name = "interrupt")
  BY <1>1 DEF InterruptBegins, Interrupted, InterruptFails, store
 <2> QED BY <2>1, StandStays
<1>2. CASE EscapeLands
 <2>1. job \in Breaking /\ job' = [job EXCEPT !.done = TRUE] BY <1>2, JobByName DEF EscapeLands, PromptInv
 <2>2. job'.name = "interrupt" BY <2>1 DEF Breaking
 <2>3. UNCHANGED <<launch, ready, retired, stuck>> BY <1>2 DEF EscapeLands, store
 <2> QED BY <2>2, <2>3, StandStays
<1>3. CASE NewBegins
 <2>1. /\ launch'.session = launch.session /\ ~launch'.nonce /\ launch'.replace /\ ready' = FALSE
       /\ job'.name = "new" /\ job'.step = "begun" /\ retired' = retired \cup ({launch.session} \ {0})
  BY <1>0, <1>3, NewBeginDoes DEF NewBegins
 <2>2. retired' \subseteq 1 .. launch'.session
  <3>1. retired \subseteq 1 .. launch.session /\ {launch.session} \ {0} \subseteq 1 .. launch.session
   BY <1>0 DEF StandInv, RetiredIs
  <3> QED BY <2>1, <3>1
 <2>3. PaneKnows' BY <2>1, PaneStays DEF StandInv
 <2> QED BY <2>1, <2>2, <2>3 DEF StandInv, RetiredIs, UnstuckSend, SpawnedIs, NewQuiet
<1>4. CASE NewIssued
 <2>1. /\ launch'.session = launch.session + 1 /\ launch'.issued /\ UNCHANGED <<ready, retired, conns, backlog>>
       /\ job.name = "new" /\ job' = [job EXCEPT !.step = "issued"] /\ job \in Launching
  BY <1>0, <1>4, NewIssueDoes, JobByName DEF NewIssued, hooks, PromptInv
 <2>2. job'.name = "new" /\ job'.step = "issued" BY <2>1 DEF Launching
 <2>3. ~ready' BY <2>1 DEF StandInv, NewQuiet
 <2>4. line' = line /\ \A i \in 1 .. Len(line) : line[i].of \in Nat /\ line[i].of <= launch.session
  BY <1>0, <2>1, LineSame, LineType DEF SessionInv, Hook
 <2>5. PaneKnows' BY <1>0, <2>1, <2>3, <2>4 DEF PaneKnows
 <2>6. retired' \subseteq 1 .. launch'.session /\ launch'.session \notin retired'
  BY <1>0, <2>1 DEF StandInv, RetiredIs
 <2> QED BY <2>2, <2>3, <2>5, <2>6 DEF StandInv, RetiredIs, UnstuckSend, SpawnedIs, NewQuiet
<1>5. CASE PaneSpawned
 <2>1. /\ job.name \in {"start", "new"} /\ job' = [job EXCEPT !.step = "spawned"] /\ job \in Launching
       /\ UNCHANGED <<launch, ready, retired, stuck>> /\ pane' = launch.session
  BY <1>5, JobByName DEF PaneSpawned, Spawn, store, PromptInv
 <2>2. job'.name = job.name BY <2>1 DEF Launching
 <2> QED BY <2>1, <2>2 DEF StandInv, RetiredIs, UnstuckSend, PaneKnows, SpawnedIs, NewQuiet
<1>6. CASE LaunchReturns
 <2>1. /\ launch'.session = launch.session /\ launch'.nonce = launch.nonce /\ UNCHANGED <<ready, retired, stuck>>
       /\ job' = Free BY <1>0, <1>6, LaunchReturnDoes DEF LaunchReturns
 <2>2. pane \in {0, launch.session} BY <1>6 DEF LaunchReturns, StandInv, SpawnedIs
 <2>3. PaneKnows' /\ SpawnedIs' BY <2>1, <2>2, PaneStays, SpawnStays DEF StandInv, Free
 <2> QED BY <2>1, <2>3 DEF StandInv, RetiredIs, UnstuckSend, NewQuiet, Free
<1>7. CASE LaunchFails BY <1>7, StandRefused DEF LaunchFails
<1>8. CASE CheckAgent
 <2>1. Refuse /\ ready' = FALSE /\ job' = Free /\ retired' = retired BY <1>8 DEF CheckAgent
 <2> QED BY <2>1, StandRefused
<1> QED BY <1>1, <1>2, <1>3, <1>4, <1>5, <1>6, <1>7, <1>8 DEF Commands

\* The event at the head is one in the line.
LEMMA HeadInLine ==
  ASSUME AgentType, conns # <<>>
  PROVE  ev = line[1] /\ 1 \in 1 .. Len(line) /\ ev \in Hook
<1>1. conns \in Seq(Hook) /\ ev = conns[1] /\ Len(conns) \in Nat /\ Len(conns) >= 1 BY DEF AgentType, ev
<1> QED BY <1>1, LineType

LEMMA StandHooks ==
  ASSUME PromptInv, LineInv, SessionInv, StandInv, AgentType', Moves, SameSession \/ NextSession, Hooks
  PROVE  StandInv'
<1>0. launch \in LaunchRecord /\ AgentType BY DEF LineInv, AgentType
<1>1. CASE ~OnSessionStart
 <2>1. UNCHANGED <<launch, ready, retired, stuck, job>>
  BY <1>1 DEF Hooks, Accept, FrameDropped, LostHolds, HookFails, Measure, Ignored, PromptLate, OnPrompt, StopBegins,
    StopUnusable, OnStop, store, memory
 <2> QED BY <2>1, StandStays
<1>2. CASE OnSessionStart
 <2>1. conns # <<>> /\ job = Free /\ job' = job /\ retired' = retired /\ ev.of = launch.session
  BY <1>2 DEF OnSessionStart, Applying, Classify, SessionCurrent
 <2>2. launch'.session = launch.session /\ launch'.nonce = launch.nonce BY <1>0, <1>2, SessionStartDoes
 <2>3. pane \in {0, launch.session} BY <1>0, <2>1, HeadInLine DEF StandInv, PaneKnows
 <2>4. PaneKnows' /\ SpawnedIs' BY <2>1, <2>2, <2>3, PaneStays, SpawnStays DEF StandInv
 <2> QED BY <2>1, <2>2, <2>4 DEF StandInv, RetiredIs, UnstuckSend, NewQuiet, Free
<1> QED BY <1>1, <1>2

LEMMA StandStep ==
  ASSUME PromptInv, LineInv, SessionInv, StandInv, [Next]_vars
  PROVE  StandInv'
<1>0. AgentType' /\ Moves /\ (SameSession \/ NextSession) BY StepMoves DEF SessionInv, PaneIs
<1>1. CASE Agent \/ UNCHANGED vars
 <2>1. UNCHANGED <<launch, ready, retired, stuck, job>>
  BY <1>1 DEF Agent, HookDone, HookConnects, Finish, TakeInput, Terminal, PaneDies, vars, store, memory
 <2> QED BY <1>0, <2>1, StandStays
<1> QED BY <1>0, <1>1, StandStarts, StandQueue, StandCommands, StandHooks DEF Next

------------------------------
(* The last hook in the line. *)

InTurn == phase \in {"asking", "prompting", "running"}

\* A turn whose hook is yet to start has none; a turn that runs is the one the last hook is about.
AskOpen == phase = "asking" => ~turns[Len(turns)].hooked
LastIsPrompt ==
    phase \in {"prompting", "running"} /\ turns[Len(turns)].hooked /\ Len(line) >= 1 =>
        line[Len(line)].kind = "prompt" /\ line[Len(line)].turn = Len(turns)

\* The hooks below the floor are the first ones.
FloorIs == \A i, j \in 1 .. Len(line) : i < j /\ line[j].below => line[i].below

\* A command that releases turns has ended them: one that runs was begun since.
Releases == (job.name = "interrupt" /\ job.done) \/ (job.name = "new" /\ job.step = "spawned")
RacedIs  == Releases /\ InTurn => turns[Len(turns)].raced

LastInv == AskOpen /\ LastIsPrompt /\ FloorIs /\ RacedIs

\* What is left of the line ends as it did.
LEMMA ThinsLast ==
  ASSUME AgentType, AgentType', Thins, Len(line') >= 1
  PROVE  Len(line) >= 1 /\ Alike(line'[Len(line')], line[Len(line)])
<1>1. PICK d \in 0 .. Len(line) : /\ Len(line') = Len(line) - d
                                  /\ \A i \in 1 .. Len(line') : Alike(line'[i], line[i + d]) BY DEF Thins
<1>2. Len(line) \in Nat /\ Len(line') \in Nat /\ d \in Nat BY <1>1, LineType, LineTypeNext DEF AgentType
<1>3. Len(line') \in 1 .. Len(line') /\ Len(line') + d = Len(line) /\ Len(line) >= 1 BY <1>1, <1>2
<1> QED BY <1>1, <1>3

\* The agent is in a turn that has just been asked for, or in the one it was in.
LEMMA InTurnMoves ==
  ASSUME LineInv, Moves, InTurn'
  PROVE  Asks \/ (InTurn /\ Len(turns') = Len(turns))
<1>1. CASE Quiet \/ Handles \/ Measure BY <1>1 DEF Quiet, Handles, Measure, InTurn, agent
<1>2. CASE Rests \/ Spawns \/ Dies \/ Finishes BY <1>2 DEF Rests, Spawns, Dies, Finishes, InTurn
<1>3. CASE Runs \/ Loses BY <1>3 DEF Runs, Loses, Flagged, InTurn
<1>4. ASSUME NEW e \in Hook, Greets(e) \/ Prompts(e) PROVE InTurn /\ Len(turns') = Len(turns)
 BY <1>4 DEF Greets, Prompts, Flagged, InTurn
<1> QED BY <1>1, <1>2, <1>3, <1>4 DEF Moves, AgentMoves

LEMMA LastMoves ==
  ASSUME LineInv, AgentType', Moves, AskOpen, LastIsPrompt
  PROVE  AskOpen' /\ LastIsPrompt'
<1>0. AgentType /\ Len(line) \in Nat /\ Len(turns) \in Nat BY LineType, TopType DEF LineInv
<1>1. CASE Thins /\ UNCHANGED <<phase, turns>>
 <2>1. AskOpen' BY <1>1 DEF AskOpen
 <2>2. LastIsPrompt' BY <1>0, <1>1, ThinsLast DEF LastIsPrompt, Alike
 <2> QED BY <2>1, <2>2
<1>2. CASE Quiet \/ Handles \/ Measure
 <2>1. Thins /\ UNCHANGED <<phase, turns>>
  BY <1>0, <1>2, LineSame, ShrinksThins, LineMeasure DEF Quiet, Handles, Measure, agent
 <2> QED BY <1>1, <2>1
<1>3. CASE Rests \/ Spawns \/ Dies \/ Finishes BY <1>3 DEF Rests, Spawns, Dies, Finishes, AskOpen, LastIsPrompt
<1>4. CASE Asks BY <1>4 DEF Asks, AskOpen, LastIsPrompt
<1>5. CASE Loses BY <1>5 DEF Loses, AskOpen, LastIsPrompt
<1>6. CASE Runs
 <2>1. line' = line /\ Len(turns') = Len(turns) /\ phase = "prompting" /\ phase' = "running"
       /\ \A i \in 1 .. Len(turns) : turns'[i].hooked = turns[i].hooked BY <1>0, <1>6, LineSame DEF Runs, Flagged
 <2>2. Len(turns) \in 1 .. Len(turns) BY <1>0, <2>1 DEF LineInv, InOrder
 <2> QED BY <2>1, <2>2 DEF AskOpen, LastIsPrompt
<1>7. ASSUME NEW e \in Hook, Greets(e) \/ Prompts(e) PROVE AskOpen' /\ LastIsPrompt'
 <2>1. CASE Greets(e) BY <2>1 DEF Greets, AskOpen, LastIsPrompt
 <2>2. CASE Prompts(e)
  <3>1. /\ Len(line') = Len(line) + 1 /\ line'[Len(line) + 1] = e /\ e.kind = "prompt" /\ e.turn = Len(turns)
        /\ Len(turns') = Len(turns) /\ phase' # "asking" BY <2>2 DEF Prompts, NewHook, Joins, Flagged
  <3> QED BY <3>1 DEF AskOpen, LastIsPrompt
 <2> QED BY <1>7, <2>1, <2>2
<1> QED BY <1>2, <1>3, <1>4, <1>5, <1>6, <1>7 DEF Moves, AgentMoves

------------------------------
(* The floor. *)

\* What a step does to the line's floor: nothing, but for hooks that leave, or it is raised.
FloorKept ==
    \E d \in 0 .. Len(line) : /\ Len(line') = Len(line) - d
                              /\ \A i \in 1 .. Len(line') : line'[i].below = line[i + d].below
FloorMoves == FloorKept \/ (RaiseFloor /\ backlog' = backlog) \/ (\E e \in Hook : ~e.below /\ Joins(e))

LEMMA FloorSame ==
  ASSUME AgentType, AgentType', line' = line
  PROVE  FloorKept
<1>1. 0 \in 0 .. Len(line) /\ Len(line') = Len(line) - 0 /\ \A i \in 1 .. Len(line') : line'[i].below = line[i + 0].below
 BY LineType
<1> QED BY <1>1 DEF FloorKept

LEMMA FloorPop ==
  ASSUME AgentType, conns # <<>>, conns' = Tail(conns), backlog' = backlog
  PROVE  FloorKept
<1>1. /\ Len(line') = Len(line) - 1 /\ \A i \in 1 .. Len(line') : line'[i] = line[i + 1] BY LinePop
<1>2. 1 \in 0 .. Len(line) BY LineType, HeadInLine
<1>3. \A i \in 1 .. Len(line') : line'[i].below = line[i + 1].below BY <1>1
<1> QED BY <1>1, <1>2, <1>3 DEF FloorKept

\* Accepted hooks are changed, but for whether they are below the floor.
LEMMA FloorMarks ==
  ASSUME AgentType, conns' \in Seq(Hook), Len(conns') = Len(conns), backlog' = backlog,
    \A i \in 1 .. Len(conns) : conns'[i].below = conns[i].below
  PROVE  FloorKept /\ Len(line') = Len(line) /\ \A i \in 1 .. Len(line) : line'[i].below = line[i].below
<1>1. backlog' \in Seq(Hook) /\ Len(line') = Len(line) BY LineType, LineTypeNext DEF AgentType
<1>2. ASSUME NEW i \in 1 .. Len(line) PROVE line'[i].below = line[i].below
 <2>1. CASE i <= Len(conns) BY <1>1, <2>1, LineType, LineTypeNext
 <2>2. CASE i > Len(conns) BY <1>1, <2>2, LineType, LineTypeNext
 <2> QED BY <2>1, <2>2, LineType
<1>3. 0 \in 0 .. Len(line) /\ Len(line') = Len(line) - 0 /\ \A i \in 1 .. Len(line') : line'[i].below = line[i + 0].below
 BY <1>1, <1>2, LineType
<1> QED BY <1>1, <1>2, <1>3 DEF FloorKept

LEMMA FloorCrash ==
  ASSUME AgentType, conns' = <<>>, backlog' = <<>>
  PROVE  FloorKept
<1>1. Len(line) \in 0 .. Len(line) /\ Len(line') = Len(line) - Len(line) /\ Len(line') = 0 BY LineType, LineCrash
<1>2. \A i \in 1 .. Len(line') : line'[i].below = line[i + Len(line)].below BY <1>1
<1> QED BY <1>1, <1>2 DEF FloorKept

LEMMA FloorStays ==
  ASSUME AgentType, AgentType', FloorIs, FloorMoves
  PROVE  FloorIs'
<1>0. Len(line) \in Nat /\ Len(line') \in Nat /\ Len(conns) \in Nat BY LineType, LineTypeNext DEF AgentType
<1>1. CASE FloorKept
 <2>1. PICK d \in 0 .. Len(line) : /\ Len(line') = Len(line) - d
                                   /\ \A i \in 1 .. Len(line') : line'[i].below = line[i + d].below
  BY <1>1 DEF FloorKept
 <2>2. ASSUME NEW i \in 1 .. Len(line'), NEW j \in 1 .. Len(line'), i < j, line'[j].below PROVE line'[i].below
  <3>1. i + d \in 1 .. Len(line) /\ j + d \in 1 .. Len(line) /\ i + d < j + d BY <1>0, <2>1, <2>2
  <3> QED BY <2>1, <2>2, <3>1 DEF FloorIs
 <2> QED BY <2>2 DEF FloorIs
<1>2. CASE RaiseFloor /\ backlog' = backlog
 <2>1. /\ Len(line') = Len(line) /\ Len(conns') = Len(conns) /\ conns' \in Seq(Hook) /\ backlog' \in Seq(Hook)
       /\ \A i \in 1 .. Len(conns) : conns'[i].below BY <1>2, LineRaise
 <2>2. ASSUME NEW i \in 1 .. Len(line'), NEW j \in 1 .. Len(line'), i < j, line'[j].below PROVE line'[i].below
  <3>1. CASE i <= Len(conns)
   <4>1. i \in 1 .. Len(conns) /\ i \in 1 .. Len(conns') BY <1>0, <2>1, <3>1
   <4> QED BY <2>1, <4>1, LineTypeNext
  <3>2. CASE i > Len(conns)
   <4>1. i \in 1 .. Len(line) /\ j \in 1 .. Len(line) /\ j > Len(conns) /\ i > Len(conns) BY <1>0, <2>1, <2>2, <3>2
   <4>2. line'[i] = line[i] /\ line'[j] = line[j] BY <1>2, <2>1, <4>1, LineType, LineTypeNext
   <4> QED BY <2>2, <4>1, <4>2 DEF FloorIs
  <3> QED BY <1>0, <3>1, <3>2
 <2> QED BY <2>2 DEF FloorIs
<1>3. ASSUME NEW e \in Hook, ~e.below, Joins(e) PROVE FloorIs'
 <2>1. /\ Len(line') = Len(line) + 1 /\ line'[Len(line) + 1] = e
       /\ \A i \in 1 .. Len(line) : line'[i] = line[i] BY <1>3 DEF Joins
 <2>2. ASSUME NEW i \in 1 .. Len(line'), NEW j \in 1 .. Len(line'), i < j, line'[j].below PROVE line'[i].below
  <3>1. j # Len(line) + 1 BY <1>3, <2>1, <2>2
  <3>2. i \in 1 .. Len(line) /\ j \in 1 .. Len(line) BY <1>0, <2>1, <2>2, <3>1
  <3> QED BY <2>1, <2>2, <3>2 DEF FloorIs
 <2> QED BY <2>2 DEF FloorIs
<1> QED BY <1>1, <1>2, <1>3 DEF FloorMoves

LEMMA AgentFloor ==
  ASSUME AgentType, AgentType', AgentMoves
  PROVE  FloorMoves
<1>1. CASE UNCHANGED <<conns, backlog>> BY <1>1, LineSame, FloorSame DEF FloorMoves
<1>2. ASSUME NEW e \in Hook, NewHook(e) PROVE FloorMoves BY <1>2 DEF NewHook, FloorMoves
<1>3. CASE Quiet \/ Asks \/ Rests \/ Spawns \/ Runs \/ Loses BY <1>1, <1>3 DEF Quiet, Asks, Rests, Spawns, Runs, Loses
<1>4. CASE Finishes BY <1>1, <1>2, <1>4 DEF Finishes, Ends
<1>5. ASSUME NEW e \in Hook, Greets(e) \/ Prompts(e) PROVE FloorMoves BY <1>2, <1>5 DEF Greets, Prompts
<1> QED BY <1>3, <1>4, <1>5 DEF AgentMoves

LEMMA CommandFloor ==
  ASSUME AgentType, AgentType', Commands, ~EscapeLands, ~PaneSpawned
  PROVE  FloorMoves
<1>1. CASE UNCHANGED <<conns, backlog>> BY <1>1, LineSame, FloorSame DEF FloorMoves
<1>2. CASE RaiseFloor /\ backlog' = backlog BY <1>2 DEF FloorMoves
<1>3. CASE InterruptBegins \/ InterruptFails \/ NewIssued
 BY <1>1, <1>3 DEF InterruptBegins, InterruptFails, NewIssued, hooks
<1>4. CASE Interrupted \/ NewBegins \/ CheckAgent BY <1>2, <1>4 DEF Interrupted, NewBegins, CheckAgent
<1>5. CASE LaunchReturns \/ LaunchFails BY <1>1, <1>2, <1>5 DEF LaunchReturns, LaunchFails, FloorOfNew
<1> QED BY <1>3, <1>4, <1>5 DEF Commands

LEMMA HookFloor ==
  ASSUME AgentType, AgentType', Hooks
  PROVE  FloorKept
<1>1. ASSUME conns # <<>>, conns' = Tail(conns), backlog' = backlog PROVE FloorKept BY <1>1, FloorPop
<1>2. CASE Accept BY <1>2, LineAccept, FloorSame
<1>3. CASE FrameDropped
 <2>1. backlog' = backlog BY <1>3 DEF FrameDropped
 <2> QED BY <1>3, <2>1, LineDrop, FloorMarks
<1>4. CASE Measure BY <1>4, LineMeasure, FloorMarks
<1>5. CASE LostHolds \/ HookFails BY <1>1, <1>5 DEF LostHolds, HookFails
<1>6. CASE Ignored \/ OnSessionStart \/ PromptLate \/ OnPrompt \/ StopUnusable \/ OnStop
 BY <1>1, <1>6 DEF Ignored, OnSessionStart, PromptLate, OnPrompt, StopUnusable, OnStop, Applying
<1>7. CASE StopBegins
 <2>1. conns # <<>> /\ backlog' = backlog /\ (conns' = Tail(conns) \/ conns' = conns) BY <1>7 DEF StopBegins, Applying
 <2> QED BY <1>1, <2>1, LineSame, FloorSame
<1> QED BY <1>2, <1>3, <1>4, <1>5, <1>6, <1>7 DEF Hooks

LEMMA StepFloor ==
  ASSUME LineInv, SessionInv, PromptInv, [Next]_vars, AgentType'
  PROVE  FloorMoves
<1>0. AgentType /\ PaneIs BY DEF LineInv, SessionInv, PaneIs
<1>1. CASE UNCHANGED <<conns, backlog>> BY <1>0, <1>1, LineSame, FloorSame DEF FloorMoves
<1>2. CASE StartAdopts \/ StartLaunches \/ StartRefuses \/ UNCHANGED vars \/ (\E m \in Msgs : Receive(m)) \/ Gate
 BY <1>1, <1>2 DEF StartAdopts, StartLaunches, StartRefuses, Recover, Receive, Gate, vars, hooks
<1>3. CASE Crash BY <1>0, <1>3, FloorCrash DEF Crash, FloorMoves
<1>4. CASE FlushStuck \/ FlushDenies \/ Dispatch \/ SendReturns \/ SendFails \/ Restarted
 BY <1>1, <1>4 DEF FlushStuck, FlushDenies, Dispatch, SendReturns, SendFails, Restarted, hooks
<1>5. CASE SendUncertain BY <1>5 DEF SendUncertain, FloorMoves
<1>6. CASE Agent \/ PasteLands \/ EscapeLands \/ PaneSpawned BY <1>0, <1>6, AgentSessions, AgentFloor
<1>7. CASE Hooks BY <1>0, <1>7, HookFloor DEF FloorMoves
<1>8. CASE Commands /\ ~EscapeLands /\ ~PaneSpawned BY <1>0, <1>8, CommandFloor
<1> QED BY <1>2, <1>3, <1>4, <1>5, <1>6, <1>7, <1>8 DEF Next, Starts, Queue

------------------------------
\* A command that releases turns goes on, or has just ended the agent's turn.
LEMMA StepReleases ==
  ASSUME PromptInv, [Next]_vars, Releases'
  PROVE  job' = job \/ ~InTurn'
<1>1. CASE Crash \/ StartAdopts \/ StartLaunches \/ StartRefuses
 BY <1>1 DEF Crash, StartAdopts, StartLaunches, StartRefuses, Releases, Free
<1>2. CASE Queue \/ (\E m \in Msgs : Receive(m)) \/ Gate
 <2>1. CASE PasteLands
  <3>1. job \in Sending /\ job' = [job EXCEPT !.done = TRUE] BY <2>1, JobByName DEF PasteLands, PromptInv
  <3>2. job'.name = "send" BY <3>1 DEF Sending
  <3> QED BY <3>2 DEF Releases
 <2>2. CASE ~PasteLands
  BY <1>2, <2>2 DEF Queue, FlushStuck, FlushDenies, Dispatch, SendReturns, SendFails, Restarted, SendUncertain,
    Receive, Gate, memory, Releases, Free
 <2> QED BY <2>1, <2>2
<1>3. CASE EscapeLands \/ PaneSpawned BY <1>3 DEF EscapeLands, Escape, PaneSpawned, Spawn, InTurn
<1>4. CASE NewIssued
 <2>1. job \in Launching /\ job' = [job EXCEPT !.step = "issued"] BY <1>4, JobByName DEF NewIssued, PromptInv
 <2>2. job'.name \in {"start", "new"} /\ job'.step = "issued" BY <2>1 DEF Launching
 <2> QED BY <2>2 DEF Releases
<1>5. CASE InterruptBegins \/ Interrupted \/ InterruptFails \/ NewBegins \/ LaunchReturns \/ LaunchFails \/ CheckAgent
 BY <1>5 DEF InterruptBegins, Interrupted, InterruptFails, NewBegins, LaunchReturns, LaunchFails, CheckAgent,
   Releases, Free
<1>6. CASE Hooks \/ Agent \/ UNCHANGED vars
 <2>1. job' = job
  BY <1>6 DEF Hooks, Accept, FrameDropped, LostHolds, HookFails, Measure, Ignored, OnSessionStart, PromptLate,
    OnPrompt, StopBegins, StopUnusable, OnStop, Agent, HookDone, HookConnects, Finish, TakeInput, Terminal,
    PaneDies, vars, memory
 <2> QED BY <2>1
<1> QED BY <1>1, <1>2, <1>3, <1>4, <1>5, <1>6 DEF Next, Starts, Commands

LEMMA LastStep ==
  ASSUME PromptInv, LineInv, SessionInv, LastInv, [Next]_vars
  PROVE  LastInv'
<1>0. AgentType /\ AgentType' /\ Moves /\ Len(turns) \in Nat BY StepMoves, TopType DEF LineInv, SessionInv, PaneIs
<1>1. AskOpen' /\ LastIsPrompt' BY <1>0, LastMoves DEF LastInv
<1>2. FloorIs' BY <1>0, StepFloor, FloorStays DEF LastInv
<1>3. RacedIs'
 <2> SUFFICES ASSUME Releases', InTurn' PROVE turns'[Len(turns')].raced BY DEF RacedIs
 <2>1. job' = job /\ Releases /\ job.name \in {"interrupt", "new"} BY StepReleases DEF Releases
 <2>2. CASE Asks BY <2>1, <2>2 DEF Asks
 <2>3. CASE InTurn /\ Len(turns') = Len(turns)
  <3>1. turns[Len(turns)].raced /\ Len(turns) \in 1 .. Len(turns)
   BY <1>0, <2>1, <2>3 DEF LastInv, RacedIs, InTurn, LineInv, InOrder
  <3> QED BY <1>0, <2>3, <3>1, TurnsKept
 <2> QED BY <1>0, <2>2, <2>3, InTurnMoves
<1> QED BY <1>1, <1>2, <1>3 DEF LastInv

------------------------------
(* No prompt goes to an agent that admind was told is running. *)

\* A turn runs whose prompt hook connected and that was not begun while a command released turns.
Running == phase \in {"prompting", "running"} /\ turns[Len(turns)].hooked /\ ~turns[Len(turns)].raced

\* Nothing is dispatched to the pane's agent; the last hook on its way is not below the floor.
Off   == ~live \/ stuck \/ launch.hold \/ ~launch.nonce \/ pane # launch.session
Ahead == Len(line) >= 1 /\ ~line[Len(line)].below

\* Something keeps admind from dispatching while the agent runs, also once the reservation of a failed send is given back.
Covered     == Running => Off \/ busy # 0 \/ blocked \/ Ahead
SendCovered == job.name = "send" /\ fresh /\ Running => Off \/ Ahead

CoverInv == Covered /\ SendCovered

LEMMA CoverOff ==
  ASSUME Off'
  PROVE  CoverInv'
BY DEF CoverInv, Covered, SendCovered

LEMMA CoverIdle ==
  ASSUME ~Running'
  PROVE  CoverInv'
BY DEF CoverInv, Covered, SendCovered

\* An agent that runs was running, or has just connected the hook that says so.
LEMMA RunMoves ==
  ASSUME LineInv, AgentType', AskOpen, Moves, Running'
  PROVE  (Running /\ pane' = pane) \/ \E e \in Hook : Prompts(e)
<1>0. Len(turns) \in Nat /\ phase' \in {"prompting", "running"} BY TopType DEF LineInv, Running
<1>1. CASE Quiet \/ Handles \/ Measure BY <1>1 DEF Quiet, Handles, Measure, Running, agent
<1>2. CASE Rests \/ Spawns \/ Dies \/ Finishes \/ Asks BY <1>0, <1>2 DEF Rests, Spawns, Dies, Finishes, Asks
<1>3. CASE Loses BY <1>3 DEF Loses, Running, AskOpen
<1>4. CASE Runs
 <2>1. /\ Len(turns') = Len(turns) /\ phase = "prompting" /\ pane' = pane
       /\ \A i \in 1 .. Len(turns) : turns'[i].hooked = turns[i].hooked /\ turns'[i].raced = turns[i].raced
  BY <1>4 DEF Runs, Flagged
 <2>2. Len(turns) \in 1 .. Len(turns) BY <1>0, <2>1 DEF LineInv, InOrder
 <2> QED BY <2>1, <2>2 DEF Running
<1>5. ASSUME NEW e \in Hook, Greets(e) PROVE FALSE BY <1>0, <1>5 DEF Greets
<1> QED BY <1>1, <1>2, <1>3, <1>4, <1>5 DEF Moves, AgentMoves

LEMMA PromptAhead ==
  ASSUME LineInv, NEW e \in Hook, Prompts(e)
  PROVE  Ahead'
<1>1. Len(line') = Len(line) + 1 /\ line'[Len(line) + 1] = e /\ ~e.below /\ Len(line) \in Nat
 BY LineType DEF Prompts, NewHook, Joins, LineInv
<1> QED BY <1>1 DEF Ahead

\* What covered the agent's turn still does.
LEMMA CoverStays ==
  ASSUME LineInv, AgentType', AskOpen, Moves, CoverInv,
    Running /\ pane' = pane =>
       /\ Off => Off'
       /\ Ahead => Off' \/ Ahead' \/ (busy' # 0 /\ ~(job'.name = "send" /\ fresh'))
       /\ (busy # 0 => busy' # 0) /\ (blocked => blocked'),
    job'.name = "send" /\ fresh' => job.name = "send" /\ fresh
  PROVE  CoverInv'
<1>1. ASSUME Running' PROVE (Running /\ pane' = pane) \/ Ahead' BY <1>1, RunMoves, PromptAhead
<1>2. Covered' BY <1>1 DEF CoverInv, Covered
<1>3. SendCovered' BY <1>1 DEF CoverInv, SendCovered
<1> QED BY <1>2, <1>3 DEF CoverInv

\* The line is as it was, or has lost its head and is not empty.
LEMMA AheadSame == line' = line => (Ahead => Ahead')
BY DEF Ahead

LEMMA AheadPop ==
  ASSUME AgentType, conns # <<>>, conns' = Tail(conns), backlog' = backlog, Len(line) # 1
  PROVE  Len(line') >= 1 /\ line'[Len(line')] = line[Len(line)] /\ (Ahead => Ahead')
<1>1. Len(line') = Len(line) - 1 /\ \A i \in 1 .. Len(line') : line'[i] = line[i + 1] BY LinePop
<1>2. Len(line) \in Nat /\ Len(line) >= 2 BY LineType, HeadInLine
<1>3. Len(line') \in 1 .. Len(line') /\ Len(line') + 1 = Len(line) /\ Len(line') >= 1 BY <1>1, <1>2
<1> QED BY <1>1, <1>3 DEF Ahead

\* The only hook on its way, while the agent runs, is the prompt of its turn.
LEMMA OnlyHook ==
  ASSUME LineInv, LastInv, Running, conns # <<>>, Len(line) = 1
  PROVE  ev.kind = "prompt" /\ ev.turn = Len(turns) /\ ev.of = pane /\ ev = line[1]
<1>1. ev = line[1] /\ 1 \in 1 .. Len(line) BY HeadInLine DEF LineInv
<1>2. ev.kind = "prompt" /\ ev.turn = Len(turns) /\ phase \in {"prompting", "running"}
 BY <1>1 DEF LastInv, LastIsPrompt, Running
<1> QED BY <1>1, <1>2 DEF LineInv, Unlogged

\* Another session's event, or one of a launch that is being replaced, is not of an agent that gets prompts.
LEMMA OtherIsOff ==
  ASSUME StandInv, ev.of = pane, Classify(ev) # "current"
  PROVE  Off
<1>1. CASE ~SessionCurrent(ev) BY <1>1 DEF SessionCurrent, StandInv, RetiredIs, Off
<1>2. CASE SessionCurrent(ev) BY <1>2 DEF Classify, Off
<1> QED BY <1>1, <1>2

------------------------------
LEMMA CoverStarts ==
  ASSUME PromptInv, LineInv, SessionInv, AgentType', Moves, AskOpen, CoverInv, Starts
  PROVE  CoverInv'
<1>1. CASE Crash BY <1>1, CoverOff DEF Crash, Off
<1>2. CASE StartAdopts
 <2>1. blocked' = TRUE /\ job = Free /\ job' = job
  BY <1>2 DEF StartAdopts, HoldNow, Recover, PromptInv, DownHoldsNothing
 <2> QED BY <2>1 DEF CoverInv, Covered, SendCovered, Free
<1>3. CASE StartLaunches
 <2>1. pane \in Nat /\ launch.session = 0 /\ phase' = phase
  BY <1>3 DEF StartLaunches, Recover, LineInv, AgentType, agent
 <2>2. phase = "none" BY <2>1 DEF SessionInv
 <2> QED BY <2>1, <2>2, CoverIdle DEF Running
<1>4. CASE StartRefuses
 <2>1. stuck' = TRUE BY <1>4 DEF StartRefuses, Refuse
 <2> QED BY <2>1, CoverOff DEF Off
<1> QED BY <1>1, <1>2, <1>3, <1>4 DEF Starts

\* The gates of a dispatch are all the covers there are.
LEMMA DispatchIdle ==
  ASSUME LineInv, SessionInv, StandInv, CoverInv, Dispatch
  PROVE  ~Running
<1>1. /\ ready /\ launch.nonce /\ ~launch.hold /\ busy = 0 /\ ~blocked /\ live /\ ~stuck
      /\ conns = <<>> /\ backlog = <<>> BY DEF Dispatch, Flushing, MayPaste, IsReady, Acknowledged
<1>2. Len(line) = 0 BY <1>1, LineType DEF LineInv
<1>3. pane \in {0, launch.session} BY <1>1 DEF StandInv, PaneKnows
<1>4. CASE pane = 0 BY <1>4 DEF SessionInv, Running
<1>5. CASE pane = launch.session BY <1>1, <1>2, <1>5 DEF CoverInv, Covered, Off, Ahead
<1> QED BY <1>3, <1>4, <1>5

LEMMA CoverQueue ==
  ASSUME PromptInv, LineInv, SessionInv, StandInv, FlightInv, AgentType', Moves, AskOpen, CoverInv,
    Queue \/ (\E m \in Msgs : Receive(m)) \/ Gate
  PROVE  CoverInv'
<1>0. AgentType BY DEF LineInv
<1>1. CASE FlushStuck \/ FlushDenies \/ (\E m \in Msgs : Receive(m)) \/ Gate \/ SendReturns
 <2>1. UNCHANGED <<live, stuck, launch, pane, busy, blocked, fresh, conns, backlog>> /\ (job' = job \/ job' = Free)
  BY <1>1 DEF FlushStuck, FlushDenies, Receive, Gate, SendReturns, store, period, memory, hooks, agent
 <2>2. line' = line BY <1>0, <2>1, LineSame
 <2> QED BY <2>1, <2>2, CoverStays, AheadSame DEF Off, Free
<1>2. CASE Dispatch
 <2>1. UNCHANGED <<phase, turns>> BY <1>2 DEF Dispatch, agent
 <2>2. ~Running' BY <1>2, <2>1, DispatchIdle DEF Running
 <2> QED BY <2>2, CoverIdle
<1>3. CASE PasteLands
 <2>1. UNCHANGED <<live, stuck, launch, busy, blocked, fresh, conns, backlog>> /\ job.name = "send"
  BY <1>3 DEF PasteLands, store, period, hooks
 <2>2. line' = line BY <1>0, <2>1, LineSame
 <2> QED BY <2>1, <2>2, CoverStays, AheadSame DEF Off
<1>4. CASE SendFails
 <2>1. /\ UNCHANGED <<live, stuck, launch, pane, phase, turns, fresh, conns, backlog>> /\ job'.name = "restart"
       /\ job.name = "send" /\ (fresh \/ UNCHANGED <<busy, blocked>>) BY <1>4 DEF SendFails, SetIdle, hooks, agent
 <2>2. line' = line BY <1>0, <2>1, LineSame
 <2>3. (Running' <=> Running) /\ (Off' <=> Off) /\ (Ahead' <=> Ahead) BY <2>1, <2>2 DEF Running, Off, Ahead
 <2> QED BY <2>1, <2>3 DEF CoverInv, Covered, SendCovered
<1>5. CASE Restarted
 <2>1. CASE stuck' = TRUE BY <2>1, CoverOff DEF Off
 <2>2. CASE launch' = launch /\ stuck' = FALSE
  <3>1. ~stuck BY <1>5 DEF Restarted, StandInv, UnstuckSend
  <3>2. UNCHANGED <<live, pane, busy, blocked, fresh, conns, backlog>> /\ job' = Free
   BY <1>5 DEF Restarted, period, hooks, agent
  <3>3. line' = line BY <1>0, <3>2, LineSame
  <3> QED BY <2>2, <3>1, <3>2, <3>3, CoverStays, AheadSame DEF Off, Free
 <2> QED BY <1>5, <2>1, <2>2 DEF Restarted, Refuse
<1>6. CASE SendUncertain
 <2>1. inFlight = job.msg /\ job \in Sending BY <1>6, JobByName DEF SendUncertain, PromptInv, NotYetPasted
 <2>2. inFlight # None BY <2>1, MsgsAssumption DEF Sending
 <2>3. busy # 0 /\ busy' = busy /\ job' = Free BY <1>6, <2>2 DEF SendUncertain, FlightInv, FlightBusy, period
 <2> QED BY <2>3 DEF CoverInv, Covered, SendCovered, Free
<1> QED BY <1>1, <1>2, <1>3, <1>4, <1>5, <1>6 DEF Queue

LEMMA CoverCommands ==
  ASSUME PromptInv, LineInv, SessionInv, StandInv, LastInv, AgentType', Moves, CoverInv, Commands
  PROVE  CoverInv'
<1>0. AgentType /\ launch \in LaunchRecord /\ pane \in Nat /\ launch.session \in Nat /\ AskOpen
 BY LaunchFields DEF LineInv, AgentType, LastInv
<1>1. CASE InterruptBegins \/ InterruptFails
 <2>1. /\ UNCHANGED <<live, stuck, launch, pane, busy, blocked, fresh, conns, backlog>>
       /\ job' = Free \/ job'.name = "interrupt"
  BY <1>1 DEF InterruptBegins, InterruptFails, store, period, hooks, agent
 <2>2. line' = line BY <1>0, <2>1, LineSame
 <2> QED BY <1>0, <2>1, <2>2, CoverStays, AheadSame DEF Off, Free
<1>2. CASE EscapeLands
 <2>1. UNCHANGED <<live, stuck, launch, busy, blocked, fresh>> /\ ~InTurn'
  BY <1>2 DEF EscapeLands, store, period, Escape, InTurn
 <2> QED BY <2>1, CoverIdle DEF Running, InTurn
<1>3. ASSUME Releases, UNCHANGED <<phase, turns>> PROVE CoverInv'
 <2>1. ~Running' BY <1>3 DEF LastInv, RacedIs, InTurn, Running
 <2> QED BY <2>1, CoverIdle
<1>4. CASE Interrupted BY <1>3, <1>4 DEF Interrupted, Releases, agent
<1>5. CASE NewBegins BY <1>0, <1>5, NewBeginDoes, CoverOff DEF Off
<1>6. CASE NewIssued
 <2>1. launch'.session = launch.session + 1 /\ pane' = pane /\ pane <= launch.session
  BY <1>0, <1>6, NewIssueDoes DEF NewIssued, agent, SessionInv
 <2>2. pane' # launch'.session BY <1>0, <2>1
 <2> QED BY <2>2, CoverOff DEF Off
<1>7. CASE PaneSpawned BY <1>7, CoverIdle DEF PaneSpawned, Spawn, Running
<1>8. CASE LaunchReturns
 <2>1. CASE job.name = "new" BY <1>3, <1>8, <2>1 DEF LaunchReturns, Releases, agent
 <2>2. CASE job.name # "new"
  <3>1. /\ UNCHANGED <<live, stuck, pane, busy, blocked, fresh, conns, backlog>> /\ job' = Free
        /\ launch'.session = launch.session /\ launch'.nonce = launch.nonce /\ launch'.hold = launch.hold
   BY <1>0, <1>8, <2>2, LaunchReturnDoes DEF LaunchReturns, FloorOfNew, period, agent
  <3>2. line' = line BY <1>0, <3>1, LineSame
  <3> QED BY <1>0, <3>1, <3>2, CoverStays, AheadSame DEF Off, Free
 <2> QED BY <2>1, <2>2
<1>9. CASE LaunchFails \/ CheckAgent
 <2>1. stuck' = TRUE BY <1>9 DEF LaunchFails, CheckAgent, Refuse
 <2> QED BY <2>1, CoverOff DEF Off
<1> QED BY <1>1, <1>2, <1>4, <1>5, <1>6, <1>7, <1>8, <1>9 DEF Commands

------------------------------
\* A hook leaves the line and nothing else changes: if it was the only one, it did not cover the turn.
LEMMA CoverPops ==
  ASSUME LineInv, LastInv, AgentType', Moves, CoverInv, conns # <<>>, conns' = Tail(conns), backlog' = backlog,
    Off => Off', UNCHANGED <<busy, blocked>>, job'.name = "send" /\ fresh' => job.name = "send" /\ fresh,
    Len(line) = 1 /\ Running => Off' \/ ~Ahead \/ (busy' # 0 /\ job'.name # "send")
  PROVE  CoverInv'
<1>1. Len(line) # 1 => (Ahead => Ahead') BY AheadPop DEF LineInv
<1> QED BY <1>1, CoverStays DEF LastInv

LEMMA CoverIgnored ==
  ASSUME LineInv, StandInv, LastInv, LookInv, AgentType', Moves, CoverInv, Ignored \/ HookFails
  PROVE  CoverInv'
<1>0. AgentType BY DEF LineInv
<1>1. CASE blocked' = TRUE /\ fresh' = FALSE BY <1>1 DEF CoverInv, Covered, SendCovered
<1>2. CASE UNCHANGED <<busy, blocked, fresh>> /\ (Classify(ev) # "current" \/ look.on)
 <2>1. /\ UNCHANGED <<live, stuck, launch, pane, job, backlog>> /\ conns # <<>> /\ conns' = Tail(conns)
  BY DEF Ignored, HookFails, Applying, store, memory, agent
 <2>2. ev = conns[1] BY <1>0, <2>1 DEF ev, AgentType
 <2>3. ASSUME Len(line) = 1, Running PROVE Off'
  <3>1. ev.kind = "prompt" /\ ev.of = pane BY <2>1, <2>3, OnlyHook
  <3>2. ~look.on BY <2>2, <3>1 DEF LookInv
  <3> QED BY <1>2, <2>1, <3>1, <3>2, OtherIsOff DEF Off
 <2> QED BY <1>2, <2>1, <2>3, CoverPops DEF Off
<1>3. CASE Ignored
 <2>1. UNCHANGED <<busy, blocked, fresh>> /\ Classify(ev) # "current" BY <1>3 DEF Ignored, store, period, memory
 <2> QED BY <1>2, <2>1
<1>4. CASE HookFails BY <1>1, <1>2, <1>4 DEF HookFails, HoldNow
<1> QED BY <1>3, <1>4

LEMMA CoverHooks ==
  ASSUME PromptInv, LineInv, StandInv, LastInv, LookInv, FlightInv, AgentType', Moves, CoverInv, Hooks
  PROVE  CoverInv'
<1>0. AgentType /\ launch \in LaunchRecord /\ AskOpen /\ busy \in Nat /\ seq \in Nat
 BY DEF LineInv, AgentType, LastInv, PromptInv, PromptType
<1>1. CASE Accept
 <2>1. UNCHANGED <<live, stuck, launch, pane, busy, blocked, fresh, job>> /\ line' = line
  BY <1>0, <1>1, LineAccept DEF Accept, store, period, memory, agent
 <2> QED BY <1>0, <2>1, CoverStays, AheadSame DEF Off
<1>2. CASE FrameDropped \/ LostHolds
 <2>1. blocked' = TRUE /\ fresh' = FALSE BY <1>2 DEF FrameDropped, LostHolds, HoldNow
 <2> QED BY <2>1 DEF CoverInv, Covered, SendCovered
<1>3. CASE Measure
 <2>1. UNCHANGED <<live, stuck, launch, pane, busy, blocked, fresh, job>>
  BY <1>3 DEF Measure, store, period, memory, agent
 <2>2. Len(line') = Len(line) /\ Len(line) \in Nat /\ \A i \in 1 .. Len(line) : line'[i].below = line[i].below
  BY <1>0, <1>3, LineMeasure, FloorMarks, LineType
 <2>3. Ahead => Ahead' BY <2>2 DEF Ahead
 <2> QED BY <1>0, <2>1, <2>3, CoverStays DEF Off
<1>4. CASE HookFails \/ Ignored BY <1>4, CoverIgnored
<1>5. CASE OnPrompt
 <2>1. busy' # 0 /\ job = Free /\ job' = job BY <1>0, <1>5 DEF OnPrompt, SetBusy, Applying
 <2> QED BY <2>1 DEF CoverInv, Covered, SendCovered, Free
<1>6. CASE OnSessionStart
 <2>1. /\ UNCHANGED <<live, pane, busy, blocked, job, backlog>> /\ conns # <<>> /\ conns' = Tail(conns) /\ ev.kind = "start"
       /\ fresh' = FALSE BY <1>6 DEF OnSessionStart, Applying, period, agent
 <2>2. Off => Off' BY <1>0, <1>6, <2>1, SessionStartDoes DEF Off
 <2>3. ~(Len(line) = 1 /\ Running) BY <2>1, OnlyHook
 <2> QED BY <2>1, <2>2, <2>3, CoverPops
<1>7. CASE PromptLate
 <2>1. /\ UNCHANGED <<live, stuck, launch, pane, busy, blocked, job, backlog>> /\ conns # <<>> /\ conns' = Tail(conns)
       /\ job = Free /\ (ev.below \/ inFlight # None) BY <1>7 DEF PromptLate, Applying, store, period, agent
 <2>2. ev = line[1] BY <1>0, <2>1, HeadInLine
 <2>3. Len(line) = 1 => ~Ahead \/ busy # 0 BY <2>1, <2>2 DEF Ahead, FlightInv, FlightBusy
 <2>4. job'.name # "send" BY <2>1 DEF Free
 <2> QED BY <2>1, <2>3, <2>4, CoverPops DEF Off
<1>8. CASE StopBegins \/ StopUnusable
 <2>1. /\ UNCHANGED <<live, stuck, launch, pane, busy, blocked, fresh, job, backlog>> /\ conns # <<>>
       /\ (conns' = conns \/ conns' = Tail(conns)) /\ (ev.kind = "stop" \/ look.on)
  BY <1>8 DEF StopBegins, StopUnusable, Applying, store, period, memory, agent
 <2>a. ev = conns[1] BY <1>0, <2>1 DEF ev, AgentType
 <2>2. ev.kind = "stop" BY <2>1, <2>a DEF LookInv
 <2>3. CASE conns' = conns
  <3>1. line' = line BY <1>0, <2>1, <2>3, LineSame
  <3> QED BY <1>0, <2>1, <3>1, CoverStays, AheadSame DEF Off
 <2>4. CASE conns' = Tail(conns)
  <3>1. ~(Len(line) = 1 /\ Running) BY <2>1, <2>2, OnlyHook
  <3> QED BY <2>1, <2>4, <3>1, CoverPops DEF Off
 <2> QED BY <2>1, <2>3, <2>4
<1>9. CASE OnStop
 <2>1. /\ UNCHANGED <<live, stuck, launch, pane, phase, turns, job, backlog>> /\ conns # <<>> /\ conns' = Tail(conns)
       /\ look.on /\ job = Free BY <1>9 DEF OnStop, Applying, agent
 <2>2. ev.kind = "stop" /\ ev = line[1] /\ 1 \in 1 .. Len(line) BY <1>0, <2>1, HeadInLine DEF LookInv, ev, AgentType
 <2>3. ~(Len(line) = 1 /\ Running) BY <2>1, <2>2, OnlyHook
 <2>4. CASE ~Current
  <3>1. UNCHANGED <<busy, blocked>> /\ job'.name # "send" BY <1>9, <2>1, <2>4 DEF OnStop, Free
  <3> QED BY <2>1, <2>3, <3>1, CoverPops DEF Off
 <2>5. CASE Current
  <3> SUFFICES ASSUME Running' PROVE Ahead' BY <2>1 DEF CoverInv, Covered, SendCovered
  <3>1. Running BY <2>1 DEF Running
  <3>2. /\ Len(line) \in Nat /\ Len(line) # 1 /\ Len(line) >= 1 /\ ~line[1].below
   BY <1>0, <2>2, <2>3, <2>5, <3>1, LineType DEF Current
  <3>a. PICK n \in Nat : n = Len(line) /\ n # 1 /\ n >= 1 BY <3>2
  <3>b. 1 < n /\ n \in 1 .. n BY <3>a
  <3>3. 1 < Len(line) /\ Len(line) \in 1 .. Len(line) BY <3>a, <3>b
  <3>4. ~line[Len(line)].below BY <2>2, <3>2, <3>3 DEF LastInv, FloorIs
  <3> QED BY <1>0, <2>1, <3>2, <3>4, AheadPop DEF Ahead
 <2> QED BY <2>4, <2>5
<1> QED BY <1>1, <1>2, <1>3, <1>4, <1>5, <1>6, <1>7, <1>8, <1>9 DEF Hooks

LEMMA CoverAgent ==
  ASSUME LineInv, SessionInv, PromptInv, LastInv, AgentType', Moves, CoverInv, Agent \/ UNCHANGED vars
  PROVE  CoverInv'
<1>0. AgentType /\ PaneIs /\ AskOpen BY DEF LineInv, SessionInv, PaneIs, LastInv
<1>1. UNCHANGED <<live, stuck, launch, busy, blocked, fresh, job>>
 BY DEF Agent, HookDone, HookConnects, Finish, TakeInput, Terminal, PaneDies, vars, store, period, memory
<1>2. AgentMoves BY <1>0, AgentSessions DEF AgentMoves, Quiet, vars, agent, hooks
<1>3. CASE UNCHANGED <<conns, backlog>>
 <2>1. line' = line BY <1>0, <1>3, LineSame
 <2> QED BY <1>0, <1>1, <2>1, CoverStays, AheadSame DEF Off
<1>4. ASSUME NEW e \in Hook, NewHook(e) PROVE CoverInv'
 <2>1. Len(line') = Len(line) + 1 /\ line'[Len(line) + 1] = e /\ ~e.below /\ Len(line) \in Nat
  BY <1>0, <1>4, LineType DEF NewHook, Joins
 <2>2. Ahead' BY <2>1 DEF Ahead
 <2> QED BY <2>2 DEF CoverInv, Covered, SendCovered
<1>5. CASE Quiet \/ Asks \/ Rests \/ Spawns \/ Runs \/ Loses \/ Finishes
 BY <1>3, <1>4, <1>5 DEF Quiet, Asks, Rests, Spawns, Runs, Loses, Finishes, Ends
<1>6. ASSUME NEW e \in Hook, Greets(e) \/ Prompts(e) PROVE CoverInv' BY <1>4, <1>6 DEF Greets, Prompts
<1> QED BY <1>2, <1>5, <1>6 DEF AgentMoves

IdleInv == FlightInv /\ StandInv /\ LastInv /\ CoverInv

LEMMA IdleInit == Init => IdleInv
<1> SUFFICES ASSUME Init PROVE IdleInv OBVIOUS
<1>1. /\ inFlight = None /\ job.name = "free" /\ ~look.on /\ retired = {} /\ pane = 0 /\ phase = "none"
      /\ conns = <<>> /\ backlog = <<>> /\ line = <<>> /\ Len(line) = 0 BY DEF Init, Free, NoLook, line
<1>2. FlightInv /\ StandInv
 BY <1>1 DEF FlightInv, FlightBusy, TargetIs, LookKnows, StandInv, RetiredIs, UnstuckSend, PaneKnows, SpawnedIs,
   NewQuiet
<1>3. LastInv /\ CoverInv
 BY <1>1 DEF LastInv, AskOpen, LastIsPrompt, FloorIs, RacedIs, Releases, InTurn, CoverInv, Covered, SendCovered,
   Running
<1> QED BY <1>2, <1>3 DEF IdleInv

LEMMA IdleStep == PromptInv /\ ReplyInv /\ IdleInv /\ [Next]_vars => IdleInv'
<1> SUFFICES ASSUME PromptInv, ReplyInv, IdleInv, [Next]_vars PROVE IdleInv' OBVIOUS
<1>0. /\ LineInv /\ SessionInv /\ LookInv /\ PaneIs /\ FlightInv /\ StandInv /\ LastInv /\ CoverInv /\ AskOpen
 BY DEF ReplyInv, IdleInv, SessionInv, PaneIs, LastInv
<1>1. AgentType' /\ Moves /\ (SameSession \/ NextSession) BY <1>0, StepMoves
<1>2. FlightInv' /\ StandInv' /\ LastInv' BY <1>0, FlightStep, StandStep, LastStep
<1>3. CoverInv' BY <1>0, <1>1, CoverStarts, CoverQueue, CoverCommands, CoverHooks, CoverAgent DEF Next
<1> QED BY <1>2, <1>3 DEF IdleInv

\* Whenever the agent runs a turn whose hook came through, a gate of the dispatch is shut: the busy period, the hold, the
\* readiness of the launch, or a hook that waits; and so it stays when a failed send gives its reservation back.
THEOREM IdleInvHolds == Spec => []IdleInv
<1>1. PromptInv /\ ReplyInv /\ IdleInv /\ [Next]_vars => IdleInv' BY IdleStep
<1>2. Init => IdleInv BY IdleInit
<1> QED BY <1>1, <1>2, PromptInvHolds, ReplyInvHolds, PTL DEF Spec

\* Only a dispatch begins a send.
LEMMA SendBegins ==
  ASSUME PromptInv, [Next]_vars, job = Free, job'.name = "send"
  PROVE  Dispatch
<1>1. CASE Starts BY <1>1 DEF Starts, Crash, StartAdopts, StartLaunches, StartRefuses, Free
<1>4. CASE Hooks
 <2>1. job' = job
  BY <1>4 DEF Hooks, Accept, FrameDropped, LostHolds, HookFails, Measure, Ignored, OnSessionStart, PromptLate,
    OnPrompt, StopBegins, StopUnusable, OnStop, memory
 <2> QED BY <2>1 DEF Free
<1>5. CASE Agent \/ Gate \/ (\E m \in Msgs : Receive(m)) \/ UNCHANGED vars
 <2>1. job' = job
  BY <1>5 DEF Gate, Receive, Agent, HookDone, HookConnects, Finish, TakeInput, Terminal, PaneDies, vars, memory
 <2> QED BY <2>1 DEF Free
<1>2. CASE Queue
 BY <1>2 DEF Queue, FlushStuck, FlushDenies, PasteLands, SendReturns, SendFails, Restarted, SendUncertain, Free
<1>3. CASE Commands
 BY <1>3 DEF Commands, InterruptBegins, EscapeLands, Interrupted, InterruptFails, NewBegins, NewIssued, PaneSpawned,
   LaunchReturns, LaunchFails, CheckAgent, Free
<1> QED BY <1>1, <1>2, <1>3, <1>4, <1>5 DEF Next

\* PastedIntoIdle, for any messages, launches and disturbances: a prompt is dispatched only when no turn is running whose
\* prompt hook has reached the socket (the gates of Admind._flush, hold_now, hold_adopted), except one begun while
\* !interrupt or !new held the lock.
THEOREM PromptsAlwaysIntoIdle == Spec => PastedIntoIdle
<1>1. PromptInv /\ ReplyInv /\ IdleInv /\ [Next]_vars =>
         [job = Free /\ job'.name = "send" =>
             phase \notin {"prompting", "running"} \/ ~turns[Len(turns)].hooked \/ turns[Len(turns)].raced]_vars
 <2> SUFFICES ASSUME PromptInv, ReplyInv, IdleInv, [Next]_vars, job = Free, job'.name = "send"
              PROVE  phase \notin {"prompting", "running"} \/ ~turns[Len(turns)].hooked \/ turns[Len(turns)].raced
  OBVIOUS
 <2>1. Dispatch BY SendBegins
 <2>2. ~Running BY <2>1, DispatchIdle DEF ReplyInv, IdleInv
 <2> QED BY <2>2 DEF Running
<1> QED BY <1>1, PromptInvHolds, ReplyInvHolds, IdleInvHolds, PTL DEF Spec, PastedIntoIdle
==============================
