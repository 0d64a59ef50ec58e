------------------------------ MODULE AdmindPartsProofs ------------------------------
(***************************************************************************)
(* The theorems about the parts of admind, for the specification that TLC  *)
(* checks: the composition adds no step to a part.                         *)
(***************************************************************************)
EXTENDS MCAdmindParts, AdmindConsentProofs

------------------------------
(* The ingress.  The three properties rest on each other: a count may be trusted only   *)
(* because a generation is never acknowledged twice (GensTrue, WatchTrue), because a     *)
(* check that was asked in another one finds nothing trusted (CheckTrue), and a reader   *)
(* is started only over a closed transport because the supervisor and a reconnect that   *)
(* overlap leave each other's stop alone (SupTrue).                                      *)

Generations == [n : Nat, reserved : BOOLEAN]
Watches == [acked : BOOLEAN, reading : BOOLEAN, ok : BOOLEAN]
Readers == [at : {"none", "connecting", "checking", "acked", "reading", "ending", "done"}, gen : Nat]
Pipes == {"none", "open", "closing", "closed"}
Sups == [at : {"loop", "watching", "stopping", "backoff", "ended"}, gen : Nat]
Cuts == {"none", "admitting"} \cup Reconnecting
Gates == [intent : BOOLEAN, paused : BOOLEAN, changed : BOOLEAN, unknown : BOOLEAN]
UserStates == {"idle", "waiting", "gated", "handling"}
Checks ==
    [at : {"idle", "asking", "answered", "done"}, gen : Nat, acked : BOOLEAN, value : Nat,
     by : {"none", "reader", "event", "loop"}]
Counts == [asked : BOOLEAN, check : Checks]
Groups == [n : Nat, counted : Nat, events : Nat]

\* Types of the ingress.
IngressType ==
    /\ subGen \in Generations /\ watch \in Watches /\ reader \in Readers /\ pipe \in Pipes /\ sup \in Sups
    /\ cut \in Cuts /\ gate \in Gates /\ user \in [Users -> UserStates] /\ count \in Counts /\ group \in Groups
    /\ stray \in Nat

\* The reader was acknowledged.
Begun == reader.at \notin {"none", "connecting"}
\* A reserved generation is not the reader's.
GensTrue == reader.gen <= subGen.n /\ (subGen.reserved => reader.gen < subGen.n)
\* What was acknowledged in this generation was acknowledged by the reader of this generation.
OfThisReader(acked, gen) == acked /\ gen = subGen.n => ~subGen.reserved /\ reader.gen = subGen.n /\ Begun
WatchTrue == OfThisReader(watch.acked, subGen.n) /\ (watch.ok => watch.acked)
\* A check under way that could not be adopted is of a time when nothing was trusted, and an answer that could
\* be is the group's membership unless word of a change is on its way.
CheckPending == count.check.at \in {"asking", "answered"}
CheckTrue ==
    /\ count.check.gen <= subGen.n
    /\ CheckPending => OfThisReader(count.check.acked, count.check.gen)
    /\ CheckPending /\ ~(count.check.gen = subGen.n /\ count.check.acked) => ~watch.ok
    /\ count.check.at = "answered" /\ count.check.acked /\ count.check.gen = subGen.n /\ Subscribed =>
          count.check.value = group.n \/ group.events > 0 \/ count.asked
\* Before a reader is started the transport of the last one is closed.
SupTrue ==
    /\ reader.at = "none" => pipe = "none"
    /\ sup.at = "stopping" => sup.gen <= reader.gen /\ (reader.gen = sup.gen => reader.at = "done")
    /\ sup.at = "backoff" /\ ~gate.changed => reader.at = "done" /\ PipeClosed /\ cut \notin {"stopping", "waiting"}

\* While the daemon is subscribed, what it trusts is so.
SeenWhile == watch.ok /\ Subscribed => ChangesSeen

\* The inductive invariant of the ingress, but for the fence.
IngressCore ==
    /\ IngressType /\ GensTrue /\ WatchTrue /\ CheckTrue /\ SupTrue
    /\ SeenWhile /\ OneSubscription /\ CutoverLetsGo

\* After a shutdown, a close of unknown outcome or in a reconnect that stops it no reader begins, and nothing is
\* trusted; a supervisor that is stopping a reader, or about to start one, has not been fenced.
Fenced == gate.unknown \/ sup.at = "ended"
FenceTrue ==
    /\ Fenced \/ cut = "stopping" => reader.at \in {"none", "ending", "done"}
    /\ Fenced => ~watch.acked
    /\ sup.at = "stopping" \/ (sup.at = "backoff" /\ ~gate.changed) => ~gate.unknown

\* The inductive invariant of the ingress.
IngressInv == IngressCore /\ FenceTrue

\* What an invalidation leaves, and what a new reader finds: nothing is trusted, and what was
\* acknowledged is of a generation that is past.
Forgotten ==
    /\ watch' = NoWatch /\ subGen' \in Generations /\ reader.gen < subGen'.n
    /\ subGen.n <= subGen'.n /\ (subGen'.n = subGen.n => subGen.reserved)
Voided == Forgotten /\ subGen'.reserved
Started ==
    /\ Forgotten /\ ~subGen'.reserved
    /\ reader' \in Readers /\ reader'.at = "connecting" /\ reader'.gen = subGen'.n
    /\ pipe' = "none" /\ (PipeClosed => stray' = stray)
    /\ group' \in Groups /\ group'.n = group.n /\ group'.counted = group.counted

\* The next generation is a new one unless it was reserved, and later than the reader's.
LEMMA NextGeneration ==
  ASSUME IngressType, GensTrue
  PROVE  /\ Invalidated \in Generations /\ subGen.n <= Invalidated.n /\ reader.gen < Invalidated.n
         /\ Invalidated.n = subGen.n => subGen.reserved
         /\ Invalidated.reserved
<1>1. CASE subGen.reserved
 <2>1. Invalidated = subGen BY <1>1 DEF Invalidated
 <2>2. subGen \in Generations /\ subGen.n \in Nat /\ reader.gen \in Nat /\ reader.gen < subGen.n
  BY <1>1 DEF IngressType, Generations, Readers, GensTrue
 <2>3. subGen.n <= subGen.n BY <2>2
 <2> QED BY <1>1, <2>1, <2>2, <2>3
<1>2. CASE ~subGen.reserved
 <2>1. PICK k \in Nat : k = subGen.n + 1 BY DEF IngressType, Generations
 <2>2. Invalidated = [n |-> k, reserved |-> TRUE] BY <1>2, <2>1 DEF Invalidated
 <2>3. reader.gen < k /\ subGen.n <= k /\ k # subGen.n BY <2>1 DEF IngressType, Generations, Readers, GensTrue
 <2>4. Invalidated \in Generations /\ Invalidated.n = k /\ Invalidated.reserved BY <2>2 DEF Generations
 <2> QED BY <2>3, <2>4
<1> QED BY <1>1, <1>2

\* _invalidate_observation.
LEMMA Voids == ASSUME IngressType, GensTrue, Invalidate PROVE Voided
BY NextGeneration DEF Invalidate, Voided, Forgotten

\* _start_reader: the reader takes the reserved generation.
LEMMA Starts == ASSUME IngressType, GensTrue, StartReader PROVE Started
<1>1. PICK v : v = Invalidated OBVIOUS
<1>2. /\ v \in Generations /\ subGen.n <= v.n /\ reader.gen < v.n
      /\ v.n = subGen.n => subGen.reserved BY <1>1, NextGeneration
<1>3. /\ watch' = NoWatch /\ subGen' = [v EXCEPT !.reserved = FALSE]
      /\ reader' = [at |-> "connecting", gen |-> v.n] /\ pipe' = "none"
      /\ stray' = stray + (IF pipe \in {"open", "closing"} THEN 1 ELSE 0)
      /\ group' = [group EXCEPT !.events = 0] BY <1>1 DEF StartReader
<1>4. subGen' \in Generations /\ subGen'.n = v.n /\ ~subGen'.reserved BY <1>2, <1>3 DEF Generations
<1>5. reader' \in Readers /\ reader'.at = "connecting" /\ reader'.gen = v.n BY <1>2, <1>3 DEF Generations, Readers
<1>6. group' \in Groups /\ group'.n = group.n /\ group'.counted = group.counted BY <1>3 DEF IngressType, Groups
<1>7. PipeClosed => stray' = stray BY <1>3 DEF PipeClosed, IngressType
<1>8. Forgotten BY <1>2, <1>3, <1>4 DEF Forgotten
<1> QED BY <1>3, <1>4, <1>5, <1>6, <1>7, <1>8 DEF Started

\* Then no check under way can be adopted, and nothing is trusted that was not seen.
LEMMA ForgottenKeeps ==
  ASSUME IngressType, CheckTrue, IngressType', Forgotten, count'.check \in {count.check, NoCheck}
  PROVE  WatchTrue' /\ CheckTrue' /\ SeenWhile'
<1>1. ~watch'.acked /\ ~watch'.ok BY DEF Forgotten, NoWatch
<1>2. /\ count'.check.gen <= subGen'.n
      /\ count'.check.at \in {"asking", "answered"} => ~(count'.check.acked /\ count'.check.gen = subGen'.n)
 BY DEF Forgotten, IngressType, Generations, Counts, Checks, CheckTrue, CheckPending, OfThisReader, NoCheck
<1> QED BY <1>1, <1>2 DEF WatchTrue, CheckTrue, SeenWhile, ChangesSeen, OfThisReader, CheckPending

\* Every step of the ingress keeps the invariant.
LEMMA IngressCoreNext == IngressCore /\ [IngressNext]_ingressVars => IngressCore'
<1> USE DEF PipeClosed, Closing, Readers, Pipes, Sups, Cuts, Reconnecting, Gates, OfThisReader, Begun,
  CheckPending, Subscribed, ChangesSeen, Generations, Watches, Counts, Checks, Groups, UserStates, IngressType
<1> SUFFICES ASSUME IngressCore, [IngressNext]_ingressVars PROVE IngressCore' OBVIOUS
<1>t. /\ IngressType /\ GensTrue /\ WatchTrue /\ CheckTrue /\ SupTrue
      /\ SeenWhile /\ OneSubscription /\ CutoverLetsGo BY DEF IngressCore
<1>g. watch \in Watches /\ gate \in Gates BY <1>t
<1>n. NoCheck \in Checks /\ NoCheck.at = "idle" /\ NoCheck.gen = 0 /\ NoCheck.acked = FALSE BY DEF NoCheck
<1>1. CASE PipeCloses
 <2>1. UNCHANGED <<subGen, watch, reader, sup, cut, gate, user, count, group, stray>> BY <1>1 DEF PipeCloses
 <2>2. pipe = "closing" /\ pipe' = "closed" BY <1>1, <1>t DEF PipeCloses
 <2>a. pipe' \in Pipes BY <1>1, <1>t DEF PipeCloses
 <2>4. IngressType' BY <1>t, <2>1, <2>a
 <2>5. SupTrue' BY <1>t, <2>1, <2>2, <1>n, <2>4 DEF SupTrue, CutoverLetsGo
 <2>6. GensTrue' /\ WatchTrue' /\ CheckTrue' /\ SeenWhile' /\ OneSubscription' /\ CutoverLetsGo'
  BY <1>t, <2>1 DEF GensTrue, WatchTrue, CheckTrue, SeenWhile, OneSubscription, CutoverLetsGo
 <2> QED BY <2>4, <2>5, <2>6 DEF IngressCore
<1>2. CASE ReaderConnects
 <2>1. UNCHANGED <<subGen, watch, reader, sup, cut, gate, user, count, group, stray>> BY <1>2 DEF ReaderConnects
 <2>2. reader.at = "connecting" /\ pipe' = "open" BY <1>2, <1>t DEF ReaderConnects
 <2>a. pipe' \in Pipes BY <1>2, <1>t DEF ReaderConnects
 <2>4. IngressType' BY <1>t, <2>1, <2>a
 <2>5. SupTrue' BY <1>t, <2>1, <2>2, <1>n, <2>4 DEF SupTrue, CutoverLetsGo
 <2>6. GensTrue' /\ WatchTrue' /\ CheckTrue' /\ SeenWhile' /\ OneSubscription' /\ CutoverLetsGo'
  BY <1>t, <2>1 DEF GensTrue, WatchTrue, CheckTrue, SeenWhile, OneSubscription, CutoverLetsGo
 <2> QED BY <2>4, <2>5, <2>6 DEF IngressCore
<1>3. CASE ReaderAcked /\ ~Stale
 <2>1. UNCHANGED <<subGen, pipe, sup, cut, gate, user, count, group, stray>> BY <1>3 DEF ReaderAcked, Stale
 <2>2. /\ reader.at = "connecting" /\ reader.gen = subGen.n /\ reader'.at = "checking" /\ reader'.gen = reader.gen
       /\ watch'.acked = TRUE /\ watch'.ok = watch.ok BY <1>3, <1>t DEF ReaderAcked, Stale
 <2>a. reader' \in Readers BY <1>3, <1>t DEF ReaderAcked, Stale
 <2>b. watch' \in Watches BY <1>3, <1>t DEF ReaderAcked, Stale
 <2>4. IngressType' BY <1>t, <2>1, <2>a, <2>b
 <2>5. GensTrue' BY <1>t, <2>1, <2>2, <1>n, <2>4 DEF GensTrue
 <2>6. WatchTrue' BY <1>t, <2>1, <2>2, <1>n, <2>4 DEF WatchTrue, GensTrue
 <2>7. CheckTrue' BY <1>t, <2>1, <2>2, <1>n, <2>4 DEF CheckTrue, WatchTrue
 <2>8. SupTrue' BY <1>t, <2>1, <2>2, <1>n, <2>4 DEF SupTrue, CutoverLetsGo
 <2>9. SeenWhile' BY <1>t, <2>1, <2>2, <1>n, <2>4 DEF SeenWhile, WatchTrue, CheckTrue
 <2>10. OneSubscription' /\ CutoverLetsGo' BY <1>t, <2>1 DEF OneSubscription, CutoverLetsGo
 <2> QED BY <2>4, <2>5, <2>6, <2>7, <2>8, <2>9, <2>10 DEF IngressCore
<1>4. CASE ReaderOpens
 <2>1. UNCHANGED <<subGen, watch, pipe, sup, cut, gate, user, count, group, stray>> BY <1>4 DEF ReaderOpens
 <2>2. reader.at = "acked" /\ reader'.at = "reading" /\ reader'.gen = reader.gen BY <1>4, <1>t DEF ReaderOpens
 <2>a. reader' \in Readers BY <1>4, <1>t DEF ReaderOpens
 <2>4. IngressType' BY <1>t, <2>1, <2>a
 <2>5. GensTrue' BY <1>t, <2>1, <2>2, <1>n, <2>4 DEF GensTrue
 <2>6. WatchTrue' BY <1>t, <2>1, <2>2, <1>n, <2>4 DEF WatchTrue, GensTrue
 <2>7. CheckTrue' BY <1>t, <2>1, <2>2, <1>n, <2>4 DEF CheckTrue, WatchTrue
 <2>8. SupTrue' BY <1>t, <2>1, <2>2, <1>n, <2>4 DEF SupTrue, CutoverLetsGo
 <2>9. SeenWhile' BY <1>t, <2>1, <2>2, <1>n, <2>4 DEF SeenWhile, WatchTrue, CheckTrue
 <2>10. OneSubscription' /\ CutoverLetsGo' BY <1>t, <2>1 DEF OneSubscription, CutoverLetsGo
 <2> QED BY <2>4, <2>5, <2>6, <2>7, <2>8, <2>9, <2>10 DEF IngressCore
<1>32. CASE ReaderAcked /\ Stale
 <2>1. UNCHANGED <<subGen, watch, pipe, sup, cut, gate, user, count, group, stray>> BY <1>32 DEF ReaderAcked, Stale
 <2>2. reader.at = "connecting" /\ reader'.at = "acked" /\ reader.gen # subGen.n /\ reader'.gen = reader.gen
  BY <1>32, <1>t DEF ReaderAcked, Stale
 <2>a. reader' \in Readers BY <1>32, <1>t DEF ReaderAcked, Stale
 <2>4. IngressType' BY <1>t, <2>1, <2>a
 <2>5. GensTrue' BY <1>t, <2>1, <2>2, <1>n, <2>4 DEF GensTrue
 <2>6. WatchTrue' BY <1>t, <2>1, <2>2, <1>n, <2>4 DEF WatchTrue, GensTrue
 <2>7. CheckTrue' BY <1>t, <2>1, <2>2, <1>n, <2>4 DEF CheckTrue, WatchTrue
 <2>8. SupTrue' BY <1>t, <2>1, <2>2, <1>n, <2>4 DEF SupTrue, CutoverLetsGo
 <2>9. SeenWhile' BY <1>t, <2>1, <2>2, <1>n, <2>4 DEF SeenWhile, WatchTrue, CheckTrue
 <2>10. OneSubscription' /\ CutoverLetsGo' BY <1>t, <2>1 DEF OneSubscription, CutoverLetsGo
 <2> QED BY <2>4, <2>5, <2>6, <2>7, <2>8, <2>9, <2>10 DEF IngressCore
<1>5. CASE ReaderMembership
 <2>1. UNCHANGED <<subGen, watch, sup, cut, gate, user, stray>> BY <1>5 DEF ReaderMembership
 <2>2. /\ group'.n = group.n /\ group'.counted = group.counted
       /\ count'.check = count.check /\ reader.at = "reading" /\ reader'.gen = reader.gen
       /\ \/ count'.asked = TRUE /\ reader' = reader /\ pipe' = pipe
          \/ reader.gen # subGen.n /\ reader'.at = "ending" /\ pipe' = Closing(pipe)
  BY <1>5, <1>t DEF ReaderMembership, ReadOn, Stale
 <2>a. group' \in Groups BY <1>5, <1>t DEF ReaderMembership
 <2>b. count' \in Counts BY <1>5, <1>t DEF ReaderMembership, Stale, NoCheck
 <2>c. reader' \in Readers /\ pipe' \in Pipes BY <1>5, <1>t DEF ReaderMembership, ReadOn
 <2>4. IngressType' BY <1>t, <2>1, <2>a, <2>b, <2>c
 <2>5. GensTrue' /\ WatchTrue' BY <1>t, <2>1, <2>2, <2>4 DEF GensTrue, WatchTrue
 <2>6. CheckTrue' BY <1>t, <2>1, <2>2, <1>n, <2>4 DEF CheckTrue, WatchTrue
 <2>7. SeenWhile' BY <1>t, <2>1, <2>2, <1>n, <2>4 DEF SeenWhile, WatchTrue, CheckTrue
 <2>8. SupTrue' BY <1>t, <2>1, <2>2, <1>n, <2>4 DEF SupTrue, CutoverLetsGo
 <2>9. OneSubscription' /\ CutoverLetsGo' BY <1>t, <2>1 DEF OneSubscription, CutoverLetsGo
 <2> QED BY <2>4, <2>5, <2>6, <2>7, <2>8, <2>9 DEF IngressCore
<1>6. CASE ReaderFails
 <2>1. UNCHANGED <<subGen, watch, sup, cut, gate, user, group, stray>> BY <1>6 DEF ReaderFails
 <2>2. /\ reader.at \in {"connecting", "checking", "acked", "reading"}
       /\ reader'.at = "ending" /\ reader'.gen = reader.gen
       /\ pipe' = Closing(pipe)
       /\ count'.check \in {count.check, NoCheck} /\ count'.asked = count.asked
  BY <1>6, <1>t DEF ReaderFails, NoCheck
 <2>a. reader' \in Readers BY <1>6, <1>t DEF ReaderFails
 <2>b. pipe' \in Pipes BY <1>6, <1>t DEF ReaderFails
 <2>c. count' \in Counts BY <1>6, <1>t DEF ReaderFails, NoCheck
 <2>4. IngressType' BY <1>t, <2>1, <2>a, <2>b, <2>c
 <2>5. GensTrue' BY <1>t, <2>1, <2>2, <1>n, <2>4 DEF GensTrue
 <2>6. WatchTrue' BY <1>t, <2>1, <2>2, <1>n, <2>4 DEF WatchTrue, GensTrue
 <2>7. CheckTrue' BY <1>t, <2>1, <2>2, <1>n, <2>4 DEF CheckTrue, WatchTrue
 <2>8. SupTrue' BY <1>t, <2>1, <2>2, <1>n, <2>4 DEF SupTrue, CutoverLetsGo
 <2>9. SeenWhile' BY <1>t, <2>1, <2>2, <1>n, <2>4 DEF SeenWhile, WatchTrue, CheckTrue
 <2>10. OneSubscription' /\ CutoverLetsGo' BY <1>t, <2>1 DEF OneSubscription, CutoverLetsGo
 <2> QED BY <2>4, <2>5, <2>6, <2>7, <2>8, <2>9, <2>10 DEF IngressCore
<1>7. CASE ReaderEnds
 <2>1. UNCHANGED <<subGen, watch, pipe, sup, cut, gate, user, count, group, stray>> BY <1>7 DEF ReaderEnds, Late
 <2>2. reader.at = "ending" /\ reader'.at = "done" /\ reader'.gen = reader.gen BY <1>7, <1>t DEF ReaderEnds, Late
 <2>a. reader' \in Readers BY <1>7, <1>t DEF ReaderEnds, Late
 <2>4. IngressType' BY <1>t, <2>1, <2>a
 <2>5. GensTrue' BY <1>t, <2>1, <2>2, <1>n, <2>4 DEF GensTrue
 <2>6. WatchTrue' BY <1>t, <2>1, <2>2, <1>n, <2>4 DEF WatchTrue, GensTrue
 <2>7. CheckTrue' BY <1>t, <2>1, <2>2, <1>n, <2>4 DEF CheckTrue, WatchTrue
 <2>8. SupTrue' BY <1>t, <2>1, <2>2, <1>n, <2>4 DEF SupTrue, CutoverLetsGo
 <2>9. SeenWhile' BY <1>t, <2>1, <2>2, <1>n, <2>4 DEF SeenWhile, WatchTrue, CheckTrue
 <2>10. OneSubscription' /\ CutoverLetsGo' BY <1>t, <2>1 DEF OneSubscription, CutoverLetsGo
 <2> QED BY <2>4, <2>5, <2>6, <2>7, <2>8, <2>9, <2>10 DEF IngressCore
<1>8. CASE \E v, l \in BOOLEAN : ReaderCounted(v, l)
 <2>1. UNCHANGED <<subGen, sup, cut, user, group, stray>> BY <1>8 DEF ReaderCounted, Observed, Stale
 <2>2. /\ reader.at = "checking" /\ reader'.at \in {"ending", "acked"} /\ reader'.gen = reader.gen
       /\ count.check.at = "done"
       /\ pipe' \in {pipe, Closing(pipe)}
       /\ watch'.acked = watch.acked /\ watch'.ok = watch.ok
       /\ gate'.intent = gate.intent /\ gate'.changed = gate.changed
       /\ count'.check = NoCheck /\ count'.asked = count.asked
  BY <1>8, <1>t DEF ReaderCounted, Observed, Stale, NoCheck
 <2>a. reader' \in Readers BY <1>8, <1>t DEF ReaderCounted, Observed, Stale
 <2>b. pipe' \in Pipes BY <1>8, <1>t DEF ReaderCounted, Observed, Stale
 <2>c. watch' \in Watches BY <1>8, <1>g DEF ReaderCounted, Observed, Stale
 <2>d. gate' \in Gates BY <1>8, <1>g DEF ReaderCounted, Observed, Stale
 <2>e. count' \in Counts BY <1>8, <1>t, <1>n DEF ReaderCounted, Stale
 <2>4. IngressType' BY <1>t, <2>1, <2>a, <2>b, <2>c, <2>d, <2>e
 <2>5. GensTrue' BY <1>t, <2>1, <2>2, <1>n, <2>4 DEF GensTrue
 <2>6. WatchTrue' BY <1>t, <2>1, <2>2, <1>n, <2>4 DEF WatchTrue, GensTrue
 <2>7. CheckTrue' BY <1>t, <2>1, <2>2, <1>n, <2>4 DEF CheckTrue, WatchTrue
 <2>8. SupTrue' BY <1>t, <2>1, <2>2, <1>n, <2>4 DEF SupTrue, CutoverLetsGo
 <2>9. SeenWhile' BY <1>t, <2>1, <2>2, <1>n, <2>4 DEF SeenWhile, WatchTrue, CheckTrue
 <2>10. CutoverLetsGo' BY <1>t, <2>1, <2>2, <1>n, <2>4 DEF CutoverLetsGo
 <2>11. OneSubscription' BY <1>t, <2>1 DEF OneSubscription
 <2> QED BY <2>4, <2>5, <2>6, <2>7, <2>8, <2>9, <2>10, <2>11 DEF IngressCore
<1>9. CASE \E w \in Workers : ReaderEvent(w)
 <2>1. UNCHANGED <<subGen, watch, sup, cut, gate, user, count, group, stray>> BY <1>9 DEF ReaderEvent
 <2>2. /\ reader.at = "reading" /\ reader'.gen = reader.gen
       /\ \/ reader' = reader /\ pipe' = pipe
          \/ reader.gen # subGen.n /\ reader'.at = "ending" /\ pipe' = Closing(pipe)
  BY <1>9, <1>t DEF ReaderEvent, ReadOn, Stale
 <2>a. reader' \in Readers /\ pipe' \in Pipes BY <1>9, <1>t DEF ReaderEvent, ReadOn
 <2>4. IngressType' BY <1>t, <2>1, <2>a
 <2>5. GensTrue' /\ WatchTrue' BY <1>t, <2>1, <2>2, <2>4 DEF GensTrue, WatchTrue
 <2>6. CheckTrue' /\ SeenWhile' BY <1>t, <2>1, <2>2, <1>n, <2>4 DEF CheckTrue, WatchTrue, SeenWhile
 <2>7. SupTrue' BY <1>t, <2>1, <2>2, <1>n, <2>4 DEF SupTrue, CutoverLetsGo
 <2>8. OneSubscription' /\ CutoverLetsGo' BY <1>t, <2>1 DEF OneSubscription, CutoverLetsGo
 <2> QED BY <2>4, <2>5, <2>6, <2>7, <2>8 DEF IngressCore
<1>10. CASE \E by \in {"reader", "event", "loop"} : CheckBegins(by)
 <2>1. UNCHANGED <<subGen, watch, reader, pipe, sup, cut, gate, user, group, stray>> BY <1>10 DEF CheckBegins
 <2>p. PICK by \in {"reader", "event", "loop"} : CheckBegins(by) BY <1>10
 <2>c. PICK c : c = [NoCheck EXCEPT !.at = "asking", !.gen = subGen.n, !.acked = watch.acked, !.by = by] OBVIOUS
 <2>k. c \in Checks /\ c.at = "asking" /\ c.gen = subGen.n /\ c.acked = watch.acked BY <1>t, <2>c DEF NoCheck
 <2>q. count.check.at = "idle" /\ count' = [asked |-> count.asked /\ by # "event", check |-> c]
  BY <2>p, <2>c DEF CheckBegins
 <2>2. /\ count.check.at = "idle" /\ count'.check.at = "asking"
       /\ count'.check.gen = subGen.n /\ count'.check.acked = watch.acked BY <2>k, <2>q
 <2>a. count' \in Counts BY <2>k, <2>q
 <2>4. IngressType' BY <1>t, <2>1, <2>a
 <2>5. CheckTrue' BY <1>t, <2>1, <2>2, <1>n, <2>4 DEF CheckTrue, WatchTrue
 <2>6. SeenWhile' BY <1>t, <2>1, <2>2, <1>n, <2>4 DEF SeenWhile, WatchTrue, CheckTrue
 <2>7. GensTrue' /\ WatchTrue' /\ SupTrue' /\ OneSubscription' /\ CutoverLetsGo'
  BY <1>t, <2>1 DEF GensTrue, WatchTrue, SupTrue, CutoverLetsGo, OneSubscription
 <2> QED BY <2>4, <2>5, <2>6, <2>7 DEF IngressCore
<1>11. CASE CheckAnswered
 <2>1. UNCHANGED <<subGen, watch, reader, pipe, sup, cut, gate, user, group, stray>> BY <1>11 DEF CheckAnswered
 <2>c. PICK c : c = [count.check EXCEPT !.at = "answered", !.value = group.n] OBVIOUS
 <2>k. /\ c \in Checks /\ c.at = "answered" /\ c.value = group.n
       /\ c.gen = count.check.gen /\ c.acked = count.check.acked BY <1>t, <2>c
 <2>q. count.check.at = "asking" /\ count' = [count EXCEPT !.check = c] BY <1>11, <1>t, <2>c DEF CheckAnswered
 <2>2. /\ count.check.at = "asking" /\ count'.check.at = "answered"
       /\ count'.check.value = group.n /\ count'.asked = count.asked
       /\ count'.check.gen = count.check.gen /\ count'.check.acked = count.check.acked BY <1>t, <2>k, <2>q
 <2>a. count' \in Counts BY <1>t, <2>k, <2>q
 <2>4. IngressType' BY <1>t, <2>1, <2>a
 <2>5. CheckTrue' BY <1>t, <2>1, <2>2, <1>n, <2>4 DEF CheckTrue, WatchTrue
 <2>6. SeenWhile' BY <1>t, <2>1, <2>2, <1>n, <2>4 DEF SeenWhile, WatchTrue, CheckTrue
 <2>7. GensTrue' /\ WatchTrue' /\ SupTrue' /\ OneSubscription' /\ CutoverLetsGo'
  BY <1>t, <2>1 DEF GensTrue, WatchTrue, SupTrue, CutoverLetsGo, OneSubscription
 <2> QED BY <2>4, <2>5, <2>6, <2>7 DEF IngressCore
<1>12. CASE CheckAdopts
 <2>1. UNCHANGED <<subGen, reader, pipe, sup, cut, user, stray>>
  BY <1>12 DEF CheckAdopts, CheckCurrent, CheckEnds, Observed
 <2>v. count.check \in Checks /\ count.check.value \in Nat BY <1>t
 <2>2. /\ count.check.at = "answered" /\ count'.check.at \in {"idle", "done"}
       /\ count'.check.gen \in {0, count.check.gen} /\ count'.asked = count.asked
       /\ watch'.acked = watch.acked
       /\ gate'.intent = gate.intent /\ gate'.changed = gate.changed
       /\ group'.n = group.n /\ group'.events = group.events
       /\ \/ /\ count.check.gen = subGen.n /\ count.check.acked /\ watch.acked
             /\ watch'.ok = TRUE /\ group'.counted = count.check.value
          \/ /\ ~(count.check.gen = subGen.n /\ count.check.acked /\ watch.acked)
             /\ watch'.ok = watch.ok /\ group'.counted = group.counted
  BY <1>12, <1>t DEF CheckAdopts, CheckCurrent, CheckEnds, Observed, NoCheck
 <2>a. count' \in Counts BY <1>12, <1>t DEF CheckAdopts, CheckCurrent, CheckEnds, Observed, NoCheck
 <2>b. watch' \in Watches BY <1>12, <1>g DEF CheckAdopts, CheckCurrent, CheckEnds, Observed
 <2>c. group' \in Groups BY <1>12, <1>t, <2>v DEF CheckAdopts
 <2>d. gate' \in Gates BY <1>12, <1>g DEF CheckAdopts, CheckCurrent, CheckEnds, Observed
 <2>4. IngressType' BY <1>t, <2>1, <2>a, <2>b, <2>c, <2>d
 <2>5. WatchTrue' BY <1>t, <2>1, <2>2, <1>n, <2>4 DEF WatchTrue, GensTrue
 <2>6. CheckTrue' BY <1>t, <2>1, <2>2, <1>n, <2>4 DEF CheckTrue, WatchTrue
 <2>7. SupTrue' BY <1>t, <2>1, <2>2, <1>n, <2>4 DEF SupTrue, CutoverLetsGo
 <2>8. SeenWhile'
  <3>1. CASE count.check.gen = subGen.n /\ count.check.acked /\ watch.acked
   BY <1>t, <2>1, <2>2, <3>1 DEF SeenWhile, CheckTrue
  <3>2. CASE ~(count.check.gen = subGen.n /\ count.check.acked /\ watch.acked)
   BY <1>t, <2>1, <2>2, <3>2 DEF SeenWhile, CheckTrue, WatchTrue
  <3> QED BY <3>1, <3>2
 <2>9. CutoverLetsGo' BY <1>t, <2>1, <2>2, <1>n, <2>4 DEF CutoverLetsGo
 <2>10. GensTrue' /\ OneSubscription' BY <1>t, <2>1 DEF GensTrue, OneSubscription
 <2> QED BY <2>4, <2>5, <2>6, <2>7, <2>8, <2>9, <2>10 DEF IngressCore
<1>13. CASE CheckFails
 <2>1. UNCHANGED <<subGen, reader, pipe, sup, cut, gate, user, group, stray>> BY <1>13 DEF CheckFails, CheckEnds
 <2>2. /\ count.check.at = "asking" /\ count'.check.at \in {"idle", "done"}
       /\ count'.check.gen \in {0, count.check.gen} /\ count'.asked = count.asked
       /\ watch'.acked = watch.acked /\ watch'.ok = (watch.ok /\ count.check.gen # subGen.n)
  BY <1>13, <1>t DEF CheckFails, CheckEnds, NoCheck
 <2>a. count' \in Counts BY <1>13, <1>t DEF CheckFails, CheckEnds, NoCheck
 <2>b. watch' \in Watches BY <1>13, <1>t DEF CheckFails, CheckEnds
 <2>4. IngressType' BY <1>t, <2>1, <2>a, <2>b
 <2>5. WatchTrue' BY <1>t, <2>1, <2>2, <1>n, <2>4 DEF WatchTrue, GensTrue
 <2>6. CheckTrue' BY <1>t, <2>1, <2>2, <1>n, <2>4 DEF CheckTrue, WatchTrue
 <2>7. SeenWhile' BY <1>t, <2>1, <2>2, <1>n, <2>4 DEF SeenWhile, WatchTrue, CheckTrue
 <2>8. GensTrue' /\ SupTrue' /\ OneSubscription' /\ CutoverLetsGo'
  BY <1>t, <2>1 DEF GensTrue, SupTrue, CutoverLetsGo, OneSubscription
 <2> QED BY <2>4, <2>5, <2>6, <2>7, <2>8 DEF IngressCore
<1>14. CASE MemberChanges
 <2>1. UNCHANGED <<subGen, watch, reader, pipe, sup, cut, gate, user, count, stray>> BY <1>14 DEF MemberChanges
 <2>p. PICK k \in Nat : k = group.n + 1 BY <1>t
 <2>q. PICK e \in Nat : e = group.events + (IF Subscribed THEN 1 ELSE 0) BY <1>t
 <2>r. group' = [group EXCEPT !.n = k, !.events = e] BY <1>14, <2>p, <2>q DEF MemberChanges
 <2>2. /\ group'.counted = group.counted /\ group'.events \in Nat
       /\ IF Subscribed THEN group'.events = group.events + 1 ELSE group'.events = group.events BY <1>t, <2>q, <2>r
 <2>a. group' \in Groups BY <1>t, <2>p, <2>q, <2>r
 <2>4. IngressType' BY <1>t, <2>1, <2>a
 <2>5. CheckTrue' BY <1>t, <2>1, <2>2, <1>n, <2>4 DEF CheckTrue, WatchTrue
 <2>6. SeenWhile' BY <1>t, <2>1, <2>2, <1>n, <2>4 DEF SeenWhile, WatchTrue, CheckTrue
 <2>7. GensTrue' /\ WatchTrue' /\ SupTrue' /\ OneSubscription' /\ CutoverLetsGo'
  BY <1>t, <2>1 DEF GensTrue, WatchTrue, SupTrue, CutoverLetsGo, OneSubscription
 <2> QED BY <2>4, <2>5, <2>6, <2>7 DEF IngressCore
<1>15. CASE \E u \in Users : UserWants(u) \/ UserGated(u) \/ UserEnters(u) \/ UserLeaves(u)
 <2>1. UNCHANGED <<subGen, watch, reader, pipe, sup, cut, gate, count, group, stray>>
  BY <1>15 DEF UserWants, UserGated, UserEnters, UserLeaves, UserOnly
 <2>p. PICK x \in Users : UserWants(x) \/ UserGated(x) \/ UserEnters(x) \/ UserLeaves(x) BY <1>15
 <2>q. PICK s \in UserStates :
          user' = [user EXCEPT ![x] = s] /\ (s = "handling" => cut \notin Reconnecting)
  BY <2>p DEF UserWants, UserGated, UserEnters, UserLeaves, UserOnly, LockFree
 <2>2. /\ user' \in [Users -> {"idle", "waiting", "gated", "handling"}]
       /\ cut \in Reconnecting => \A u \in Users : user'[u] = "handling" => user[u] = "handling" BY <1>t, <2>q
 <2>a. user' \in [Users -> UserStates] BY <1>t, <2>q
 <2>4. IngressType' BY <1>t, <2>1, <2>a
 <2>5. CutoverLetsGo' BY <1>t, <2>1, <2>2, <1>n, <2>4 DEF CutoverLetsGo
 <2>6. GensTrue' /\ WatchTrue' /\ CheckTrue' /\ SupTrue' /\ SeenWhile' /\ OneSubscription'
  BY <1>t, <2>1 DEF GensTrue, WatchTrue, CheckTrue, SupTrue, CutoverLetsGo, SeenWhile, OneSubscription
 <2> QED BY <2>4, <2>5, <2>6 DEF IngressCore
<1>16. CASE \E g \in 0..MaxSubGen : Admit(g)
 <2>1. UNCHANGED <<subGen, watch, reader, pipe, sup, user, count, group, stray>> BY <1>16 DEF Admit
 <2>2. /\ cut = "none" /\ cut' = "admitting"
       /\ gate'.intent = TRUE /\ gate'.changed = gate.changed BY <1>16, <1>t DEF Admit
 <2>a. cut' \in Cuts BY <1>16, <1>t DEF Admit
 <2>b. gate' \in Gates BY <1>16, <1>t DEF Admit
 <2>4. IngressType' BY <1>t, <2>1, <2>a, <2>b
 <2>5. SupTrue' BY <1>t, <2>1, <2>2, <1>n, <2>4 DEF SupTrue, CutoverLetsGo
 <2>6. CutoverLetsGo' BY <1>t, <2>1, <2>2, <1>n, <2>4 DEF CutoverLetsGo
 <2>7. GensTrue' /\ WatchTrue' /\ CheckTrue' /\ SeenWhile' /\ OneSubscription'
  BY <1>t, <2>1 DEF GensTrue, WatchTrue, CheckTrue, SeenWhile, OneSubscription
 <2> QED BY <2>4, <2>5, <2>6, <2>7 DEF IngressCore
<1>17. CASE AdmitTakes
 <2>1. UNCHANGED <<subGen, watch, reader, pipe, sup, user, count, group, stray>> BY <1>17 DEF AdmitTakes, LockFree
 <2>2. /\ cut = "admitting" /\ gate'.changed = gate.changed
       /\ \/ cut' = "created" /\ gate'.intent = gate.intent /\ \A u \in Users : user[u] # "handling"
          \/ cut' = "none" /\ gate'.intent = FALSE
  <3>1. CASE \A u \in Users : LockFree(u)
   <4>1. cut = "admitting" /\ cut' = "created" /\ gate' = gate BY <1>17, <3>1 DEF AdmitTakes
   <4>2. \A u \in Users : user[u] # "handling" BY <3>1 DEF LockFree
   <4> QED BY <4>1, <4>2
  <3>2. CASE ~\A u \in Users : LockFree(u) BY <1>17, <1>t, <3>2 DEF AdmitTakes
  <3> QED BY <3>1, <3>2
 <2>a. cut' \in Cuts BY <1>17, <1>t DEF AdmitTakes, LockFree
 <2>b. gate' \in Gates BY <1>17, <1>g DEF AdmitTakes, LockFree
 <2>4. IngressType' BY <1>t, <2>1, <2>a, <2>b
 <2>5. SupTrue' BY <1>t, <2>1, <2>2, <1>n, <2>4 DEF SupTrue, CutoverLetsGo
 <2>6. CutoverLetsGo' BY <1>t, <2>1, <2>2, <1>n, <2>4 DEF CutoverLetsGo
 <2>7. GensTrue' /\ WatchTrue' /\ CheckTrue' /\ SeenWhile' /\ OneSubscription'
  BY <1>t, <2>1 DEF GensTrue, WatchTrue, CheckTrue, SeenWhile, OneSubscription
 <2> QED BY <2>4, <2>5, <2>6, <2>7 DEF IngressCore
<1>18. CASE CutoverNeverRuns
 <2>1. UNCHANGED <<reader, pipe, sup, user, count, group, stray>> BY <1>18 DEF CutoverNeverRuns, Released
 <2>2. /\ Invalidate
       /\ cut = "created" /\ cut' = "none" /\ gate'.intent = FALSE /\ gate'.changed = TRUE
  BY <1>18, <1>t DEF CutoverNeverRuns, Released
 <2>3. Voided BY <1>t, <2>2, Voids
 <2>a. cut' \in Cuts BY <1>18, <1>t DEF CutoverNeverRuns, Released
 <2>b. gate' \in Gates BY <1>18, <1>t DEF CutoverNeverRuns, Released
 <2>c. subGen' \in Generations /\ watch' \in Watches BY <1>t, <2>2, <2>3 DEF Voided, Forgotten, NoWatch
 <2>4. IngressType' BY <1>t, <2>1, <2>a, <2>b, <2>c
 <2>5. WatchTrue' /\ CheckTrue' /\ SeenWhile' BY <1>t, <2>1, <2>2, <2>3, <2>4, ForgottenKeeps DEF Voided
 <2>6. GensTrue' BY <1>t, <2>1, <2>2, <2>3, <1>n, <2>4 DEF GensTrue, Voided, Forgotten
 <2>7. SupTrue' BY <1>t, <2>1, <2>2, <2>3, <1>n, <2>4 DEF SupTrue, CutoverLetsGo, Voided, Forgotten
 <2>8. CutoverLetsGo' BY <1>t, <2>1, <2>2, <2>3, <1>n, <2>4 DEF CutoverLetsGo, Voided, Forgotten
 <2>9. OneSubscription' BY <1>t, <2>1 DEF OneSubscription
 <2> QED BY <2>4, <2>5, <2>6, <2>7, <2>8, <2>9 DEF IngressCore
<1>19. CASE CutoverBegins
 <2>1. UNCHANGED <<sup, user, group, stray>> BY <1>19 DEF CutoverBegins, ReaderLive, ReaderDone
 <2>2. /\ Invalidate
       /\ cut = "created" /\ cut' = "stopping" /\ gate'.intent = gate.intent /\ gate'.changed = TRUE
       /\ reader'.gen = reader.gen
       /\ (reader'.at = reader.at \/ (reader.at \notin {"none", "done"} /\ reader'.at = "ending"))
       /\ pipe' = Closing(pipe)
       /\ count'.check \in {count.check, NoCheck} /\ count'.asked = count.asked
  BY <1>19, <1>t DEF CutoverBegins, ReaderLive, ReaderDone, NoCheck
 <2>3. Voided BY <1>t, <2>2, Voids
 <2>a. cut' \in Cuts BY <1>19, <1>t DEF CutoverBegins, ReaderLive, ReaderDone
 <2>b. gate' \in Gates BY <1>19, <1>t DEF CutoverBegins, ReaderLive, ReaderDone
 <2>c. reader' \in Readers BY <1>19, <1>t DEF CutoverBegins, ReaderLive, ReaderDone
 <2>d. count' \in Counts BY <1>19, <1>t, <1>n DEF CutoverBegins
 <2>e. pipe' \in Pipes BY <1>19, <1>t DEF CutoverBegins, ReaderLive, ReaderDone
 <2>f. subGen' \in Generations /\ watch' \in Watches BY <1>t, <2>2, <2>3 DEF Voided, Forgotten, NoWatch
 <2>4. IngressType' BY <1>t, <2>1, <2>a, <2>b, <2>c, <2>d, <2>e, <2>f
 <2>5. WatchTrue' /\ CheckTrue' /\ SeenWhile' BY <1>t, <2>1, <2>2, <2>3, <2>4, ForgottenKeeps DEF Voided
 <2>6. GensTrue' BY <1>t, <2>1, <2>2, <2>3, <1>n, <2>4 DEF GensTrue, Voided, Forgotten
 <2>7. SupTrue' BY <1>t, <2>1, <2>2, <2>3, <1>n, <2>4 DEF SupTrue, CutoverLetsGo, Voided, Forgotten
 <2>8. CutoverLetsGo' BY <1>t, <2>1, <2>2, <2>3, <1>n, <2>4 DEF CutoverLetsGo, Voided, Forgotten
 <2>9. OneSubscription' BY <1>t, <2>1 DEF OneSubscription
 <2> QED BY <2>4, <2>5, <2>6, <2>7, <2>8, <2>9 DEF IngressCore
<1>20. CASE CutoverStops /\ sup.at # "ended"
 <2>1. UNCHANGED <<sup, user, count>> BY <1>20 DEF CutoverStops, Stopped, StartReader
 <2>2. /\ StartReader /\ PipeClosed
       /\ cut = "stopping" /\ cut' = "waiting" /\ gate'.intent = gate.intent /\ gate'.changed = gate.changed
  BY <1>20, <1>t DEF CutoverStops, Stopped, SupTrue
 <2>3. Started BY <1>t, <2>2, Starts
 <2>a. cut' \in Cuts BY <1>20, <1>t DEF CutoverStops, Stopped
 <2>b. gate' \in Gates BY <1>20, <1>g DEF CutoverStops, Stopped
 <2>c. /\ subGen' \in Generations /\ watch' \in Watches /\ reader' \in Readers
       /\ pipe' \in Pipes /\ stray' \in Nat /\ group' \in Groups BY <1>t, <2>2, <2>3 DEF Started, Forgotten, NoWatch
 <2>4. IngressType' BY <1>t, <2>1, <2>a, <2>b, <2>c
 <2>5. WatchTrue' /\ CheckTrue' /\ SeenWhile' BY <1>t, <2>1, <2>2, <2>3, <2>4, ForgottenKeeps DEF Started
 <2>6. GensTrue' BY <1>t, <2>1, <2>2, <2>3, <1>n, <2>4 DEF GensTrue, Started, Forgotten
 <2>7. SupTrue' BY <1>t, <2>1, <2>2, <2>3, <1>n, <2>4 DEF SupTrue, CutoverLetsGo, Started, Forgotten
 <2>8. OneSubscription' BY <1>t, <2>1, <2>2, <2>3, <1>n, <2>4 DEF OneSubscription, Started, Forgotten
 <2>9. CutoverLetsGo' BY <1>t, <2>1, <2>2, <2>3, <1>n, <2>4 DEF CutoverLetsGo, Started, Forgotten
 <2> QED BY <2>4, <2>5, <2>6, <2>7, <2>8, <2>9 DEF IngressCore
<1>33. CASE CutoverStops /\ sup.at = "ended"
 <2>1. UNCHANGED <<subGen, watch, reader, pipe, sup, user, count, group, stray>> BY <1>33 DEF CutoverStops, Released
 <2>2. cut = "stopping" /\ cut' = "none" /\ gate'.intent = FALSE /\ gate'.changed = TRUE
  BY <1>33, <1>t DEF CutoverStops, Released
 <2>a. cut' \in Cuts BY <1>33, <1>t DEF CutoverStops, Released
 <2>b. gate' \in Gates BY <1>33, <1>g DEF CutoverStops, Released
 <2>4. IngressType' BY <1>t, <2>1, <2>a, <2>b
 <2>5. SupTrue' BY <1>t, <2>1, <2>2, <1>n, <2>4 DEF SupTrue, CutoverLetsGo
 <2>6. CutoverLetsGo' BY <1>t, <2>1, <2>2, <1>n, <2>4 DEF CutoverLetsGo
 <2>7. GensTrue' /\ WatchTrue' /\ CheckTrue' /\ SeenWhile' /\ OneSubscription'
  BY <1>t, <2>1 DEF GensTrue, WatchTrue, CheckTrue, SeenWhile, OneSubscription
 <2> QED BY <2>4, <2>5, <2>6, <2>7 DEF IngressCore
<1>21. CASE CutoverStopLate
 <2>1. UNCHANGED <<reader, pipe, sup, user, count, group, stray>> BY <1>21 DEF CutoverStopLate, Late, Released
 <2>2. /\ Invalidate
       /\ cut = "stopping" /\ cut' = "none" /\ gate'.intent = FALSE /\ gate'.changed = TRUE
  BY <1>21, <1>t DEF CutoverStopLate, Late, Released
 <2>3. Voided BY <1>t, <2>2, Voids
 <2>a. cut' \in Cuts BY <1>21, <1>t DEF CutoverStopLate, Late, Released
 <2>b. gate' \in Gates BY <1>21, <1>t DEF CutoverStopLate, Late, Released
 <2>c. subGen' \in Generations /\ watch' \in Watches BY <1>t, <2>2, <2>3 DEF Voided, Forgotten, NoWatch
 <2>4. IngressType' BY <1>t, <2>1, <2>a, <2>b, <2>c
 <2>5. WatchTrue' /\ CheckTrue' /\ SeenWhile' BY <1>t, <2>1, <2>2, <2>3, <2>4, ForgottenKeeps DEF Voided
 <2>6. GensTrue' BY <1>t, <2>1, <2>2, <2>3, <1>n, <2>4 DEF GensTrue, Voided, Forgotten
 <2>7. SupTrue' BY <1>t, <2>1, <2>2, <2>3, <1>n, <2>4 DEF SupTrue, CutoverLetsGo, Voided, Forgotten
 <2>8. CutoverLetsGo' BY <1>t, <2>1, <2>2, <2>3, <1>n, <2>4 DEF CutoverLetsGo, Voided, Forgotten
 <2>9. OneSubscription' BY <1>t, <2>1 DEF OneSubscription
 <2> QED BY <2>4, <2>5, <2>6, <2>7, <2>8, <2>9 DEF IngressCore
<1>22. CASE \E how \in {"observing", "failed"} : CutoverEnds(how)
 <2>1. UNCHANGED <<subGen, watch, reader, pipe, sup, user, count, group, stray>> BY <1>22 DEF CutoverEnds, Released
 <2>2. cut = "waiting" /\ cut' = "none" /\ gate'.intent = FALSE /\ gate'.changed = TRUE
  BY <1>22, <1>t DEF CutoverEnds, Released
 <2>a. cut' \in Cuts BY <1>22, <1>t DEF CutoverEnds, Released
 <2>b. gate' \in Gates BY <1>22, <1>t DEF CutoverEnds, Released
 <2>4. IngressType' BY <1>t, <2>1, <2>a, <2>b
 <2>5. SupTrue' BY <1>t, <2>1, <2>2, <1>n, <2>4 DEF SupTrue, CutoverLetsGo
 <2>6. CutoverLetsGo' BY <1>t, <2>1, <2>2, <1>n, <2>4 DEF CutoverLetsGo
 <2>7. GensTrue' /\ WatchTrue' /\ CheckTrue' /\ SeenWhile' /\ OneSubscription'
  BY <1>t, <2>1 DEF GensTrue, WatchTrue, CheckTrue, SeenWhile, OneSubscription
 <2> QED BY <2>4, <2>5, <2>6, <2>7 DEF IngressCore
<1>23. CASE SupLoop /\ reader.at = "none"
 <2>1. UNCHANGED <<cut, gate, user, count>> BY <1>23 DEF SupLoop, StartReader
 <2>2. /\ StartReader /\ PipeClosed
       /\ sup'.at = "watching" BY <1>23, <1>t DEF SupLoop, ReaderLive, ReaderDone, SupTrue
 <2>3. Started BY <1>t, <2>2, Starts
 <2>a. sup' \in Sups
  <3>1. sup' = [at |-> "watching", gen |-> reader'.gen] BY <1>23 DEF SupLoop, ReaderLive, ReaderDone, StartReader
  <3>2. reader'.gen \in Nat BY <2>3 DEF Started
  <3> QED BY <3>1, <3>2
 <2>b. /\ subGen' \in Generations /\ watch' \in Watches /\ reader' \in Readers
       /\ pipe' \in Pipes /\ stray' \in Nat /\ group' \in Groups BY <1>t, <2>2, <2>3 DEF Started, Forgotten, NoWatch
 <2>4. IngressType' BY <1>t, <2>1, <2>a, <2>b
 <2>5. WatchTrue' /\ CheckTrue' /\ SeenWhile' BY <1>t, <2>1, <2>2, <2>3, <2>4, ForgottenKeeps DEF Started
 <2>6. GensTrue' BY <1>t, <2>1, <2>2, <2>3, <1>n, <2>4 DEF GensTrue, Started, Forgotten
 <2>7. SupTrue' BY <1>t, <2>1, <2>2, <2>3, <1>n, <2>4 DEF SupTrue, CutoverLetsGo, Started, Forgotten
 <2>8. OneSubscription' BY <1>t, <2>1, <2>2, <2>3, <1>n, <2>4 DEF OneSubscription, Started, Forgotten
 <2>9. CutoverLetsGo' BY <1>t, <2>1 DEF CutoverLetsGo
 <2> QED BY <2>4, <2>5, <2>6, <2>7, <2>8, <2>9 DEF IngressCore
<1>24. CASE SupLoop /\ reader.at = "done"
 <2>1. UNCHANGED <<reader, cut, gate, user, count, group, stray>> BY <1>24 DEF SupLoop, ReaderLive, ReaderDone
 <2>2. /\ Invalidate
       /\ pipe' = Closing(pipe)
       /\ reader.at = "done" /\ sup'.at = "stopping" /\ sup'.gen = reader.gen
  BY <1>24, <1>t DEF SupLoop, ReaderLive, ReaderDone
 <2>3. Voided BY <1>t, <2>2, Voids
 <2>a. pipe' \in Pipes BY <1>24, <1>t DEF SupLoop, ReaderLive, ReaderDone
 <2>b. sup' \in Sups
  <3>1. reader.gen \in Nat BY <1>t
  <3> QED BY <1>24, <3>1 DEF SupLoop, ReaderLive, ReaderDone
 <2>c. subGen' \in Generations /\ watch' \in Watches BY <1>t, <2>2, <2>3 DEF Voided, Forgotten, NoWatch
 <2>4. IngressType' BY <1>t, <2>1, <2>a, <2>b, <2>c
 <2>5. WatchTrue' /\ CheckTrue' /\ SeenWhile' BY <1>t, <2>1, <2>2, <2>3, <2>4, ForgottenKeeps DEF Voided
 <2>6. GensTrue' BY <1>t, <2>1, <2>2, <2>3, <1>n, <2>4 DEF GensTrue, Voided, Forgotten
 <2>7. SupTrue' BY <1>t, <2>1, <2>2, <2>3, <1>n, <2>4 DEF SupTrue, CutoverLetsGo, Voided, Forgotten
 <2>8. OneSubscription' /\ CutoverLetsGo' BY <1>t, <2>1 DEF OneSubscription, CutoverLetsGo
 <2> QED BY <2>4, <2>5, <2>6, <2>7, <2>8 DEF IngressCore
<1>25. CASE SupLoop /\ ReaderLive
 <2>1. UNCHANGED <<subGen, watch, reader, pipe, cut, gate, user, count, group, stray>>
  BY <1>25 DEF SupLoop, ReaderLive, ReaderDone
 <2>2. sup'.at = "watching" BY <1>25, <1>t DEF SupLoop, ReaderLive, ReaderDone
 <2>a. sup' \in Sups
  <3>1. reader.gen \in Nat BY <1>t
  <3> QED BY <1>25, <3>1 DEF SupLoop, ReaderLive, ReaderDone
 <2>4. IngressType' BY <1>t, <2>1, <2>a
 <2>5. SupTrue' BY <1>t, <2>1, <2>2, <1>n, <2>4 DEF SupTrue, CutoverLetsGo
 <2>6. GensTrue' /\ WatchTrue' /\ CheckTrue' /\ SeenWhile' /\ OneSubscription' /\ CutoverLetsGo'
  BY <1>t, <2>1 DEF GensTrue, WatchTrue, CheckTrue, SeenWhile, OneSubscription, CutoverLetsGo
 <2> QED BY <2>4, <2>5, <2>6 DEF IngressCore
<1>26. CASE SupStopped
 <2>1. UNCHANGED <<subGen, watch, reader, pipe, cut, user, count, group, stray>> BY <1>26 DEF SupStopped, Superseded
 <2>2. /\ gate'.intent = gate.intent
       /\ \/ sup'.at = "loop" /\ gate' = gate
          \/ sup.at = "stopping" /\ sup'.at = "backoff" /\ ~gate.intent /\ reader.gen = sup.gen /\ PipeClosed
  <3>1. CASE Superseded
   <4>1. sup' = [sup EXCEPT !.at = "loop"] /\ gate' = gate BY <1>26, <3>1 DEF SupStopped
   <4> QED BY <1>t, <4>1
  <3>2. CASE ~Superseded BY <1>26, <1>t, <3>2 DEF SupStopped, Superseded
  <3> QED BY <3>1, <3>2
 <2>a. sup' \in Sups BY <1>26, <1>t DEF SupStopped, Superseded
 <2>b. gate' \in Gates BY <1>26, <1>g DEF SupStopped, Superseded
 <2>4. IngressType' BY <1>t, <2>1, <2>a, <2>b
 <2>5. SupTrue' BY <1>t, <2>1, <2>2, <1>n, <2>4 DEF SupTrue, CutoverLetsGo
 <2>6. CutoverLetsGo' BY <1>t, <2>1, <2>2, <1>n, <2>4 DEF CutoverLetsGo
 <2>7. GensTrue' /\ WatchTrue' /\ CheckTrue' /\ SeenWhile' /\ OneSubscription'
  BY <1>t, <2>1 DEF GensTrue, WatchTrue, CheckTrue, SeenWhile, OneSubscription
 <2> QED BY <2>4, <2>5, <2>6, <2>7 DEF IngressCore
<1>27. CASE SupStopLate
 <2>1. UNCHANGED <<reader, pipe, cut, user, count, group, stray>> BY <1>27 DEF SupStopLate, Late, Superseded
 <2>2. /\ Invalidate
       /\ gate'.intent = gate.intent /\ gate'.changed = gate.changed
       /\ sup'.at = "loop" BY <1>27, <1>t DEF SupStopLate, Late, Superseded
 <2>3. Voided BY <1>t, <2>2, Voids
 <2>a. sup' \in Sups BY <1>27, <1>t DEF SupStopLate, Late, Superseded
 <2>b. gate' \in Gates BY <1>27, <1>t DEF SupStopLate, Late, Superseded
 <2>c. subGen' \in Generations /\ watch' \in Watches BY <1>t, <2>2, <2>3 DEF Voided, Forgotten, NoWatch
 <2>4. IngressType' BY <1>t, <2>1, <2>a, <2>b, <2>c
 <2>5. WatchTrue' /\ CheckTrue' /\ SeenWhile' BY <1>t, <2>1, <2>2, <2>3, <2>4, ForgottenKeeps DEF Voided
 <2>6. GensTrue' BY <1>t, <2>1, <2>2, <2>3, <1>n, <2>4 DEF GensTrue, Voided, Forgotten
 <2>7. SupTrue' BY <1>t, <2>1, <2>2, <2>3, <1>n, <2>4 DEF SupTrue, CutoverLetsGo, Voided, Forgotten
 <2>8. CutoverLetsGo' BY <1>t, <2>1, <2>2, <2>3, <1>n, <2>4 DEF CutoverLetsGo, Voided, Forgotten
 <2>9. OneSubscription' BY <1>t, <2>1 DEF OneSubscription
 <2> QED BY <2>4, <2>5, <2>6, <2>7, <2>8, <2>9 DEF IngressCore
<1>28. CASE SupBackoff /\ gate.changed
 <2>1. UNCHANGED <<subGen, watch, reader, pipe, cut, gate, user, count, group, stray>> BY <1>28 DEF SupBackoff
 <2>2. sup'.at = "loop" BY <1>28, <1>t DEF SupBackoff
 <2>a. sup' \in Sups BY <1>28, <1>t DEF SupBackoff
 <2>4. IngressType' BY <1>t, <2>1, <2>a
 <2>5. SupTrue' BY <1>t, <2>1, <2>2, <1>n, <2>4 DEF SupTrue, CutoverLetsGo
 <2>6. GensTrue' /\ WatchTrue' /\ CheckTrue' /\ SeenWhile' /\ OneSubscription' /\ CutoverLetsGo'
  BY <1>t, <2>1 DEF GensTrue, WatchTrue, CheckTrue, SeenWhile, OneSubscription, CutoverLetsGo
 <2> QED BY <2>4, <2>5, <2>6 DEF IngressCore
<1>29. CASE SupBackoff /\ ~gate.changed
 <2>1. UNCHANGED <<cut, gate, user, count>> BY <1>29 DEF SupBackoff, StartReader
 <2>2. /\ StartReader /\ PipeClosed
       /\ sup'.at = "watching" BY <1>29, <1>t DEF SupBackoff, SupTrue
 <2>3. Started BY <1>t, <2>2, Starts
 <2>a. sup' \in Sups
  <3>1. sup' = [at |-> "watching", gen |-> reader'.gen] BY <1>29 DEF SupBackoff, StartReader
  <3>2. reader'.gen \in Nat BY <2>3 DEF Started
  <3> QED BY <3>1, <3>2
 <2>b. /\ subGen' \in Generations /\ watch' \in Watches /\ reader' \in Readers
       /\ pipe' \in Pipes /\ stray' \in Nat /\ group' \in Groups BY <1>t, <2>2, <2>3 DEF Started, Forgotten, NoWatch
 <2>4. IngressType' BY <1>t, <2>1, <2>a, <2>b
 <2>5. WatchTrue' /\ CheckTrue' /\ SeenWhile' BY <1>t, <2>1, <2>2, <2>3, <2>4, ForgottenKeeps DEF Started
 <2>6. GensTrue' BY <1>t, <2>1, <2>2, <2>3, <1>n, <2>4 DEF GensTrue, Started, Forgotten
 <2>7. SupTrue' BY <1>t, <2>1, <2>2, <2>3, <1>n, <2>4 DEF SupTrue, CutoverLetsGo, Started, Forgotten
 <2>8. OneSubscription' BY <1>t, <2>1, <2>2, <2>3, <1>n, <2>4 DEF OneSubscription, Started, Forgotten
 <2>9. CutoverLetsGo' BY <1>t, <2>1 DEF CutoverLetsGo
 <2> QED BY <2>4, <2>5, <2>6, <2>7, <2>8, <2>9 DEF IngressCore
<1>30. CASE SupWatches
 <2>1. UNCHANGED <<subGen, watch, reader, pipe, cut, gate, user, count, group, stray>> BY <1>30 DEF SupWatches
 <2>2. sup'.at = "loop" BY <1>30, <1>t DEF SupWatches
 <2>a. sup' \in Sups BY <1>30, <1>t DEF SupWatches
 <2>4. IngressType' BY <1>t, <2>1, <2>a
 <2>5. SupTrue' BY <1>t, <2>1, <2>2, <1>n, <2>4 DEF SupTrue, CutoverLetsGo
 <2>6. GensTrue' /\ WatchTrue' /\ CheckTrue' /\ SeenWhile' /\ OneSubscription' /\ CutoverLetsGo'
  BY <1>t, <2>1 DEF GensTrue, WatchTrue, CheckTrue, SeenWhile, OneSubscription, CutoverLetsGo
 <2> QED BY <2>4, <2>5, <2>6 DEF IngressCore
<1>31. CASE ShutDown
 <2>1. UNCHANGED <<user, group, stray>> BY <1>31 DEF ShutDown, ReaderLive, ReaderDone, Released
 <2>2. /\ Invalidate
       /\ sup'.at = "ended"
       /\ \/ cut = "admitting" /\ cut' = cut /\ gate'.intent = gate.intent
          \/ cut = "none" /\ cut' = cut /\ gate'.intent = gate.intent
          \/ cut' = "none" /\ gate'.intent = FALSE
       /\ reader'.gen = reader.gen
       /\ (reader'.at = reader.at \/ (reader.at \notin {"none", "done"} /\ reader'.at = "ending"))
       /\ pipe' = Closing(pipe)
       /\ count'.check \in {count.check, NoCheck} /\ count'.asked = count.asked
  <3>1. Invalidate /\ pipe' = Closing(pipe) /\ sup' = [sup EXCEPT !.at = "ended"] BY <1>31 DEF ShutDown
  <3>2. sup'.at = "ended" BY <1>t, <3>1
  <3>3. \/ cut = "admitting" /\ cut' = cut /\ gate'.intent = gate.intent
        \/ cut = "none" /\ cut' = cut /\ gate'.intent = gate.intent
        \/ cut' = "none" /\ gate'.intent = FALSE BY <1>31, <1>t DEF ShutDown, Released
  <3>4. /\ reader'.gen = reader.gen
        /\ (reader'.at = reader.at \/ (reader.at \notin {"none", "done"} /\ reader'.at = "ending"))
   BY <1>31, <1>t DEF ShutDown, ReaderLive, ReaderDone
  <3>5. count'.check \in {count.check, NoCheck} /\ count'.asked = count.asked BY <1>31, <1>t DEF ShutDown
  <3> QED BY <3>1, <3>2, <3>3, <3>4, <3>5
 <2>3. Voided BY <1>t, <2>2, Voids
 <2>a. cut' \in Cuts BY <1>31, <1>t DEF ShutDown, ReaderLive, ReaderDone, Released
 <2>b. gate' \in Gates BY <1>31, <1>t DEF ShutDown, ReaderLive, ReaderDone, Released
 <2>c. reader' \in Readers BY <1>31, <1>t DEF ShutDown, ReaderLive, ReaderDone, Released
 <2>d. count' \in Counts BY <1>31, <1>t, <1>n DEF ShutDown
 <2>e. pipe' \in Pipes BY <1>31, <1>t DEF ShutDown, ReaderLive, ReaderDone, Released
 <2>f. sup' \in Sups BY <1>31, <1>t DEF ShutDown, ReaderLive, ReaderDone, Released
 <2>g. subGen' \in Generations /\ watch' \in Watches BY <1>t, <2>2, <2>3 DEF Voided, Forgotten, NoWatch
 <2>4. IngressType' BY <1>t, <2>1, <2>a, <2>b, <2>c, <2>d, <2>e, <2>f, <2>g
 <2>5. WatchTrue' /\ CheckTrue' /\ SeenWhile' BY <1>t, <2>1, <2>2, <2>3, <2>4, ForgottenKeeps DEF Voided
 <2>6. GensTrue' BY <1>t, <2>1, <2>2, <2>3, <1>n, <2>4 DEF GensTrue, Voided, Forgotten
 <2>7. SupTrue' BY <1>t, <2>1, <2>2, <2>3, <1>n, <2>4 DEF SupTrue, CutoverLetsGo, Voided, Forgotten
 <2>8. CutoverLetsGo' BY <1>t, <2>1, <2>2, <2>3, <1>n, <2>4 DEF CutoverLetsGo, Voided, Forgotten
 <2>9. OneSubscription' BY <1>t, <2>1 DEF OneSubscription
 <2> QED BY <2>4, <2>5, <2>6, <2>7, <2>8, <2>9 DEF IngressCore
<1>s. CASE UNCHANGED ingressVars
 BY <1>s, <1>t DEF ingressVars, IngressCore, GensTrue, WatchTrue, CheckTrue, SupTrue, SeenWhile, OneSubscription,
   CutoverLetsGo
<1> QED
 BY <1>s, <1>1, <1>2, <1>3, <1>4, <1>5, <1>6, <1>7, <1>8, <1>9, <1>10, <1>11, <1>12, <1>13, <1>14, <1>15, <1>16,
   <1>17, <1>18, <1>19, <1>20, <1>21, <1>22, <1>23, <1>24, <1>25, <1>26, <1>27, <1>28, <1>29, <1>30, <1>31, <1>32,
   <1>33
   DEF IngressNext, SupLoop, SupBackoff

\* Nothing is subscribed, trusted or locked at the start.
LEMMA IngressCoreInit == IngressInit => IngressCore
<1> SUFFICES ASSUME IngressInit PROVE IngressCore OBVIOUS
<1>1. subGen \in Generations /\ watch \in Watches /\ reader \in Readers /\ pipe \in Pipes /\ sup \in Sups
 BY DEF IngressInit, Generations, Watches, NoWatch, Readers, Pipes, Sups
<1>2. cut \in Cuts /\ gate \in Gates /\ user \in [Users -> UserStates] /\ group \in Groups /\ stray \in Nat
 BY DEF IngressInit, Cuts, Gates, UserStates, Groups
<1>3. count \in Counts BY DEF IngressInit, Counts, Checks, NoCheck
<1>4. GensTrue /\ WatchTrue /\ SupTrue BY DEF IngressInit, GensTrue, WatchTrue, OfThisReader, SupTrue, NoWatch
<1>5. CheckTrue BY DEF IngressInit, CheckTrue, CheckPending, NoCheck
<1>6. SeenWhile /\ OneSubscription /\ CutoverLetsGo
 BY DEF IngressInit, SeenWhile, ChangesSeen, NoWatch, OneSubscription, CutoverLetsGo, Reconnecting
<1> QED BY <1>1, <1>2, <1>3, <1>4, <1>5, <1>6 DEF IngressCore, IngressType

\* The fence stands: a reader is started only by a supervisor or a reconnect that lifted it.
LEMMA FenceNext == ASSUME IngressInv, IngressNext PROVE FenceTrue'
<1>1. IngressType /\ SupTrue /\ CutoverLetsGo /\ FenceTrue BY DEF IngressInv, IngressCore
<1>t. /\ watch \in Watches /\ reader \in Readers /\ sup \in Sups /\ gate \in Gates /\ cut \in Cuts
 BY <1>1 DEF IngressType
<1> DEFINE Quiet ==
             /\ UNCHANGED <<sup, cut>> /\ gate'.unknown = gate.unknown /\ gate'.changed = gate.changed
             /\ \/ watch'.acked = watch.acked /\ (reader'.at = reader.at \/ reader'.at \in {"ending", "done"})
                \/ reader.at \in {"connecting", "checking", "acked"}
           Leaves ==
             /\ UNCHANGED <<sup, reader>> /\ gate'.unknown = gate.unknown /\ cut' # "stopping"
             /\ gate'.changed \in {gate.changed, TRUE} /\ watch'.acked \in {watch.acked, FALSE}
<1>2. Quiet => FenceTrue' BY <1>1 DEF FenceTrue, Fenced
<1>3. Leaves => FenceTrue' BY <1>1 DEF FenceTrue, Fenced
<1>4. CASE \/ PipeCloses \/ ReaderConnects \/ CheckAnswered \/ MemberChanges
           \/ \E by \in {"reader", "event", "loop"} : CheckBegins(by)
           \/ \E u \in Users : UserWants(u) \/ UserGated(u) \/ UserEnters(u) \/ UserLeaves(u)
 <2>1. UNCHANGED <<watch, reader, sup, cut, gate>>
  BY <1>4 DEF PipeCloses, ReaderConnects, CheckAnswered, MemberChanges, CheckBegins, UserWants, UserGated,
    UserEnters, UserLeaves, UserOnly
 <2> QED BY <1>2, <2>1
<1>5. CASE ReaderAcked \/ ReaderOpens \/ \E v, l \in BOOLEAN : ReaderCounted(v, l)
 <2>1. UNCHANGED <<sup, cut>> /\ reader.at \in {"connecting", "checking", "acked"}
  BY <1>5 DEF ReaderAcked, ReaderOpens, ReaderCounted
 <2>2. gate'.unknown = gate.unknown /\ gate'.changed = gate.changed
  BY <1>t, <1>5 DEF ReaderAcked, ReaderOpens, ReaderCounted, Gates
 <2> QED BY <1>2, <2>1, <2>2
<1>6. CASE ReaderMembership \/ ReaderFails \/ ReaderEnds \/ \E w \in Workers : ReaderEvent(w)
 <2>1. UNCHANGED <<watch, sup, cut, gate>> BY <1>6 DEF ReaderMembership, ReaderFails, ReaderEnds, ReaderEvent
 <2>2. reader'.at = reader.at \/ reader'.at \in {"ending", "done"}
  BY <1>t, <1>6 DEF ReaderMembership, ReaderFails, ReaderEnds, ReaderEvent, ReadOn, Readers
 <2> QED BY <1>2, <2>1, <2>2
<1>7. CASE CheckAdopts \/ CheckFails
 <2>1. UNCHANGED <<reader, sup, cut>> BY <1>7 DEF CheckAdopts, CheckFails
 <2>2. watch'.acked = watch.acked /\ gate'.unknown = gate.unknown /\ gate'.changed = gate.changed
  BY <1>t, <1>7 DEF CheckAdopts, CheckFails, Watches, Gates
 <2> QED BY <1>2, <2>1, <2>2
<1>8. CASE \/ \E g \in 0..MaxSubGen : Admit(g)
           \/ AdmitTakes \/ CutoverNeverRuns \/ (CutoverStops /\ sup.at = "ended")
           \/ \E how \in {"observing", "failed"} : CutoverEnds(how)
 <2>1. UNCHANGED <<sup, reader>> /\ cut' \in {"none", "admitting", "created"}
  BY <1>8 DEF Admit, AdmitTakes, CutoverNeverRuns, CutoverStops, CutoverEnds
 <2>2. gate'.unknown = gate.unknown /\ gate'.changed \in {gate.changed, TRUE}
  BY <1>t, <1>8 DEF Admit, AdmitTakes, CutoverNeverRuns, CutoverStops, CutoverEnds, Released, Gates
 <2>3. watch' \in {watch, NoWatch}
  BY <1>8 DEF Admit, AdmitTakes, CutoverNeverRuns, CutoverStops, CutoverEnds, Invalidate
 <2>4. watch'.acked \in {watch.acked, FALSE}
  <3>1. PICK w : w = NoWatch OBVIOUS
  <3>2. w.acked = FALSE BY <3>1 DEF NoWatch
  <3>3. CASE watch' = watch BY <3>3
  <3>4. CASE watch' = w BY <3>2, <3>4
  <3> QED BY <2>3, <3>1, <3>3, <3>4
 <2> QED BY <1>3, <2>1, <2>2, <2>4
<1> HIDE DEF Quiet, Leaves
<1>9. CASE CutoverBegins
 <2>1. /\ UNCHANGED sup /\ ~watch'.acked /\ gate'.unknown = gate.unknown /\ gate'.changed = TRUE
       /\ reader'.at \in {"none", "ending", "done"}
  BY <1>t, <1>9 DEF CutoverBegins, Invalidate, NoWatch, ReaderLive, ReaderDone, Gates, Readers
 <2> QED BY <1>1, <2>1 DEF FenceTrue, Fenced
<1>10. CASE CutoverStops /\ sup.at # "ended"
 <2>1. UNCHANGED sup /\ ~gate'.unknown /\ cut' = "waiting" BY <1>t, <1>10 DEF CutoverStops, Gates
 <2> QED BY <1>10, <2>1 DEF FenceTrue, Fenced
<1>11. CASE CutoverStopLate
 <2>1. /\ UNCHANGED <<sup, reader>> /\ sup.at # "stopping" /\ cut = "stopping" /\ ~watch'.acked /\ gate'.changed = TRUE
  BY <1>t, <1>11 DEF CutoverStopLate, Released, Invalidate, NoWatch, Gates
 <2> QED BY <1>1, <2>1 DEF FenceTrue, Fenced
<1>12. CASE SupLoop
 <2>1. /\ UNCHANGED <<cut, gate>> /\ ~gate.unknown /\ cut # "stopping" /\ sup'.at \in {"watching", "stopping"}
  BY <1>1, <1>12 DEF SupLoop, CutoverLetsGo
 <2> QED BY <2>1 DEF FenceTrue, Fenced
<1>13. CASE SupStopped
 <2>1. /\ UNCHANGED <<watch, reader, cut>> /\ ~gate.unknown /\ gate'.unknown = gate.unknown
       /\ sup.at = "stopping" /\ sup'.at \in {"loop", "backoff"}
  BY <1>1, <1>t, <1>13 DEF SupStopped, FenceTrue, Sups, Gates
 <2> QED BY <1>1, <2>1 DEF FenceTrue, Fenced
<1>14. CASE SupStopLate
 <2>1. UNCHANGED <<reader, cut>> /\ reader.at = "done" /\ ~watch'.acked /\ sup'.at = "loop"
  BY <1>1, <1>t, <1>14 DEF SupStopLate, SupTrue, Superseded, Invalidate, NoWatch, Sups
 <2> QED BY <2>1 DEF FenceTrue, Fenced
<1>15. CASE SupBackoff \/ SupWatches
 <2>1. CASE UNCHANGED <<watch, reader, cut, gate>> /\ sup'.at = "loop" /\ sup.at # "ended"
  BY <1>1, <2>1 DEF FenceTrue, Fenced
 <2>2. CASE SupBackoff /\ ~gate.changed
  <3>1. UNCHANGED <<cut, gate>> /\ ~gate.unknown /\ cut # "stopping" /\ sup'.at = "watching"
   BY <1>1, <2>2 DEF SupBackoff, SupTrue, FenceTrue
  <3> QED BY <3>1 DEF FenceTrue, Fenced
 <2> QED BY <1>t, <1>15, <2>1, <2>2 DEF SupBackoff, SupWatches, Sups
<1>16. CASE ShutDown
 <2>1. ~watch'.acked /\ reader'.at \in {"none", "ending", "done"} /\ sup'.at = "ended"
  BY <1>t, <1>16 DEF ShutDown, Invalidate, NoWatch, ReaderLive, ReaderDone, Readers, Sups
 <2> QED BY <2>1 DEF FenceTrue, Fenced
<1> QED BY <1>4, <1>5, <1>6, <1>7, <1>8, <1>9, <1>10, <1>11, <1>12, <1>13, <1>14, <1>15, <1>16 DEF IngressNext

\* Nothing is fenced at first.
LEMMA IngressInitInv == IngressInit => IngressInv
BY IngressCoreInit DEF IngressInit, IngressInv, FenceTrue, Fenced

\* Every step of the ingress keeps the invariant.
LEMMA IngressNextInv == IngressInv /\ [IngressNext]_ingressVars => IngressInv'
<1> SUFFICES ASSUME IngressInv, [IngressNext]_ingressVars PROVE IngressInv' OBVIOUS
<1>1. IngressCore' BY IngressCoreNext DEF IngressInv
<1>2. CASE UNCHANGED ingressVars BY <1>1, <1>2 DEF IngressInv, FenceTrue, Fenced, ingressVars
<1>3. CASE IngressNext BY <1>1, <1>3, FenceNext DEF IngressInv
<1> QED BY <1>2, <1>3

\* What is trusted was acknowledged by the reader of this generation, so that reader is subscribed, or it has ended
\* and nothing holds the supervisor back.
LEMMA TrustIsSeen == IngressInv => NoSwapUnseen
<1> SUFFICES ASSUME IngressInv, watch.ok PROVE IF Subscribed THEN ChangesSeen ELSE TrustExpires BY DEF NoSwapUnseen
<1>1. IngressType /\ WatchTrue /\ SeenWhile /\ FenceTrue BY DEF IngressInv, IngressCore
<1>2. CASE Subscribed BY <1>1, <1>2 DEF SeenWhile
<1>3. CASE ~Subscribed
 <2>1. watch.acked /\ reader.gen = subGen.n /\ Begun BY <1>1 DEF WatchTrue, OfThisReader
 <2>2. reader.at \in {"ending", "done"} BY <1>1, <1>3, <2>1 DEF Begun, Subscribed, IngressType, Readers
 <2> QED BY <1>1, <1>3, <2>1, <2>2 DEF TrustExpires, Stale, FenceTrue, Fenced
<1> QED BY <1>2, <1>3

------------------------------
(* The outbox.  What a row shows is fixed when it is composed, often long before it is   *)
(* sent and by another task than the one that sends it, so the sender can decide from    *)
(* the row's owners alone only if they are the owners of every turn the row shows        *)
(* (Owned).  That stays true because a turn that ended keeps its owner (TurnsKept) and   *)
(* what the summariser, the renderer and !details have in hand has ended (WorkInv).      *)

Kinds == {"reply", "summary", "batch", "held", "card", "alert", "notice", "details", "unverified", "partfail"}
Keys == [kind : Kinds, id : OutTurns \cup Nat, part : Nat]
People == Senders \cup {Nobody}
RowStates == {"pending", "delayed", "quarantined", "suppressed", "sent", "failed"}
Rows ==
    [key : Keys, own : {"request", "unknown", "system"}, owners : SUBSET People, shows : SUBSET OutTurns,
     status : RowStates, tries : Nat, thread : BOOLEAN, upto : Nat]
Turns ==
    [status : {"none", "verbatim", "summarizing", "batched", "summarized"}, owner : People, batch : Nat]
Batches == [status : {"open", "posted"}, due : BOOLEAN, attempt : Nat, back : BOOLEAN]
Renders == [batch : Nat, attempt : Nat, turns : SUBSET OutTurns]
NoticeStates ==
    [pending : BOOLEAN, unresolved : Nat, sequence : Nat, cool : BOOLEAN, seen : Nat, told : Nat]
Commands ==
    [at : {"none", "summary", "batch", "done"}, by : People, todo : SUBSET OutTurns, shows : SUBSET OutTurns]

\* The turn has ended, and its owner is known for good.
Taken(t) == turn[t].status # "none"

\* What a row shows has ended, and belongs to its owners if they decide about it.
Owned(r, turns) ==
    /\ \A t \in r.shows : turns[t].status # "none"
    /\ r.own = "system" => r.shows = {}
    /\ r.own = "request" => \A t \in r.shows : turns[t].owner \in r.owners

\* The rows, and what the tasks have in hand.
BoxInv ==
    /\ outbox \in Seq(Rows)
    /\ sending # 0 => sending \in DOMAIN outbox
    /\ \A i \in DOMAIN outbox : Owned(outbox[i], turn)
WorkInv ==
    /\ summing \in OutTurns \cup {0} /\ rendering \in Renders /\ command \in Commands
    /\ summing # 0 => Taken(summing)
    /\ \A t \in rendering.turns \cup command.todo : Taken(t)
    /\ \A t \in command.shows : Taken(t) /\ OwnersOf(t) # {}
OutboxInv ==
    /\ turn \in [OutTurns -> Turns] /\ batches \in Seq(Batches) /\ notice \in NoticeStates
    /\ BoxInv /\ WorkInv

\* A turn keeps its owner.
TurnsKept ==
    /\ turn' \in [OutTurns -> Turns]
    /\ \A t \in OutTurns : Taken(t) => turn'[t].status # "none" /\ turn'[t].owner = turn[t].owner

SameText(r, q) == q.own = r.own /\ q.owners = r.owners /\ q.shows = r.shows

\* The rows are those there were, and rows that are owned.
Grown(box, new) ==
    /\ new \in Seq(Rows) /\ DOMAIN box \subseteq DOMAIN new
    /\ \A i \in DOMAIN new : (i \in DOMAIN box /\ SameText(box[i], new[i])) \/ Owned(new[i], turn')

\* A non-empty set of naturals has a least element.
LEMMA LeastOne ==
  ASSUME NEW S, S \subseteq Nat, S # {}
  PROVE  \E x \in S : \A y \in S : x <= y
<1>1. \A y, z \in Nat : y < z => <<y, z>> \in OpToRel(<, Nat) BY DEF OpToRel
<1>2. PICK R : IsWellFoundedOn(R, Nat) /\ \A y, z \in Nat : y < z => <<y, z>> \in R
 BY <1>1, NatLessThanWellFounded, Zenon
<1>3. PICK x \in S : \A y \in S : <<y, x>> \notin R
 <2>1. IsWellFoundedOn(R, Nat) BY <1>2
 <2> QED BY <2>1, WFMin, Zenon
<1>4. ASSUME NEW y \in S PROVE x <= y
 <2>1. x \in Nat /\ y \in Nat /\ ~(y < x) BY <1>2, <1>3
 <2> QED BY <2>1
<1> QED BY <1>4

\* A sequence with more rows behind it.
LEMMA Joins ==
  ASSUME NEW S, NEW b \in Seq(S), NEW n \in Nat, NEW f \in [1 .. n -> S]
  PROVE  /\ b \o f \in Seq(S) /\ DOMAIN b \subseteq DOMAIN (b \o f)
         /\ \A i \in DOMAIN (b \o f) :
               (i \in DOMAIN b /\ (b \o f)[i] = b[i]) \/ (\E j \in 1 .. n : (b \o f)[i] = f[j])
<1>1. f \in Seq(S) /\ Len(f) = n OBVIOUS
<1>2. b \o f \in Seq(S) /\ Len(b \o f) = Len(b) + n /\ Len(b) \in Nat BY <1>1
<1>3. DOMAIN b = 1 .. Len(b) /\ DOMAIN (b \o f) = 1 .. (Len(b) + n) BY <1>2
<1>4. ASSUME NEW i \in 1 .. (Len(b) + n)
      PROVE  (i \in DOMAIN b /\ (b \o f)[i] = b[i]) \/ (\E j \in 1 .. n : (b \o f)[i] = f[j])
 <2>1. CASE i <= Len(b) BY <1>1, <1>2, <1>3, <2>1
 <2>2. CASE i > Len(b)
  <3>1. i - Len(b) \in 1 .. n /\ (b \o f)[i] = f[i - Len(b)] BY <1>1, <1>2, <2>2
  <3> QED BY <3>1
 <2> QED BY <1>2, <2>1, <2>2
<1> QED BY <1>2, <1>3, <1>4

\* A sequence with one more row.
LEMMA AppendsOne ==
  ASSUME NEW S, NEW b \in Seq(S), NEW r \in S
  PROVE  /\ Append(b, r) \in Seq(S) /\ DOMAIN b \subseteq DOMAIN Append(b, r)
         /\ \A i \in DOMAIN Append(b, r) :
               (i \in DOMAIN b /\ Append(b, r)[i] = b[i]) \/ Append(b, r)[i] = r
OBVIOUS

\* An entry of a sequence, and a sequence with one of them changed.
LEMMA EntryOf == ASSUME NEW S, NEW b \in Seq(S), NEW i \in DOMAIN b PROVE b[i] \in S
OBVIOUS

\* The others stay.
LEMMA EntryChanges ==
  ASSUME NEW S, NEW b \in Seq(S), NEW i, NEW z, i \in DOMAIN b => z \in S
  PROVE  /\ [b EXCEPT ![i] = z] \in Seq(S) /\ DOMAIN [b EXCEPT ![i] = z] = DOMAIN b
         /\ \A j \in DOMAIN b : [b EXCEPT ![i] = z][j] = IF j = i THEN z ELSE b[j]
<1>1. PICK c : c = [b EXCEPT ![i] = z] OBVIOUS
<1>2. /\ Len(b) \in Nat /\ DOMAIN b = 1 .. Len(b)
      /\ DOMAIN c = 1 .. Len(b) /\ \A j \in DOMAIN b : c[j] = IF j = i THEN z ELSE b[j] BY <1>1
<1>3. \A j \in 1 .. Len(b) : c[j] \in S BY <1>2
<1>4. c \in [1 .. Len(b) -> S] BY <1>1, <1>2, <1>3
<1>5. c \in Seq(S) BY <1>2, <1>4
<1> QED BY <1>1, <1>2, <1>5

\* SetToSeq lists a finite set.
LEMMA Listed ==
  ASSUME NEW S, IsFiniteSet(S)
  PROVE  \E n \in Nat : SetToSeq(S) \in [1 .. n -> S]
<1>1. Cardinality(S) \in Nat /\ ExistsBijection(1 .. Cardinality(S), S) BY FS_CardinalityType
<1>2. PICK f \in Bijection(1 .. Cardinality(S), S) : TRUE BY <1>1 DEF ExistsBijection
<1>3. f \in [1 .. Cardinality(S) -> S] /\ IsInjective(f) BY <1>2 DEF Bijection, Injection, IsInjective
<1>4. SetToSeq(S) \in [1 .. Cardinality(S) -> S] BY <1>3 DEF SetToSeq
<1> QED BY <1>1, <1>4

\* A row that is made for a request.
LEMMA RequestRowIs ==
  ASSUME NEW k \in Keys, NEW own \in SUBSET People, NEW sh \in SUBSET OutTurns
  PROVE  /\ RequestRow(k, own, sh) \in Rows
         /\ RequestRow(k, own, sh).owners = own /\ RequestRow(k, own, sh).shows = sh
         /\ RequestRow(k, own, sh).own = IF own = {} THEN "unknown" ELSE "request"
         /\ RequestRow(k, own, sh).key = k
BY DEF RequestRow, Row, Rows, RowStates, Keys

\* A row of the system's own shows nothing.
LEMMA SystemRowIs ==
  ASSUME NEW k \in Keys
  PROVE  SystemRow(k) \in Rows /\ SystemRow(k).own = "system" /\ SystemRow(k).shows = {}
BY DEF SystemRow, Row, Rows, RowStates, Keys

\* It is owned if it shows what has ended, and names its owners or no one.
LEMMA RequestOwned ==
  ASSUME NEW k \in Keys, NEW own \in SUBSET People, NEW sh \in SUBSET OutTurns,
    \A t \in sh : turn'[t].status # "none", own = {} \/ \A t \in sh : turn'[t].owner \in own
  PROVE  Owned(RequestRow(k, own, sh), turn')
<1>1. PICK r : r = RequestRow(k, own, sh) OBVIOUS
<1>2. r.owners = own /\ r.shows = sh /\ r.own = IF own = {} THEN "unknown" ELSE "request" BY <1>1, RequestRowIs
<1>3. Owned(r, turn') BY <1>2 DEF Owned
<1> QED BY <1>1, <1>3

\* Enqueue adds at most that row.
LEMMA Enqueues ==
  ASSUME NEW box \in Seq(Rows), NEW r \in Rows, Owned(r, turn')
  PROVE  Grown(box, Enqueue(box, r))
<1>1. CASE HasKey(box, r.key) BY <1>1 DEF Enqueue, Grown, SameText
<1>2. CASE ~HasKey(box, r.key)
 <2>1. PICK new : new = Append(box, r) OBVIOUS
 <2>2. /\ new \in Seq(Rows) /\ DOMAIN box \subseteq DOMAIN new
       /\ \A i \in DOMAIN new : (i \in DOMAIN box /\ new[i] = box[i]) \/ new[i] = r BY <2>1, AppendsOne
 <2>3. ASSUME NEW i \in DOMAIN new
       PROVE  (i \in DOMAIN box /\ SameText(box[i], new[i])) \/ Owned(new[i], turn')
  <3>1. CASE i \in DOMAIN box /\ new[i] = box[i] BY <3>1 DEF SameText
  <3>2. CASE new[i] = r BY <3>2
  <3> QED BY <2>2, <3>1, <3>2
 <2>4. Enqueue(box, r) = new BY <1>2, <2>1 DEF Enqueue
 <2> QED BY <2>2, <2>3, <2>4 DEF Grown
<1> QED BY <1>1, <1>2

\* The invariant of the rows, from what a step does to them.
LEMMA BoxKeeps ==
  ASSUME OutboxInv, TurnsKept, Grown(outbox, outbox'), sending' \in {sending, 0} \cup DOMAIN outbox'
  PROVE  BoxInv'
<1>1. outbox' \in Seq(Rows) /\ DOMAIN outbox \subseteq DOMAIN outbox' BY DEF Grown
<1>2. sending' # 0 => sending' \in DOMAIN outbox' BY <1>1 DEF OutboxInv, BoxInv
<1>3. ASSUME NEW i \in DOMAIN outbox' PROVE Owned(outbox'[i], turn')
 <2>1. CASE i \in DOMAIN outbox /\ SameText(outbox[i], outbox'[i])
  <3>1. outbox[i] \in Rows /\ Owned(outbox[i], turn) BY <2>1 DEF OutboxInv, BoxInv
  <3>2. outbox[i].shows \subseteq OutTurns BY <3>1 DEF Rows
  <3> QED BY <2>1, <3>1, <3>2 DEF SameText, Owned, TurnsKept, Taken
 <2>2. CASE Owned(outbox'[i], turn') BY <2>2
 <2> QED BY <2>1, <2>2 DEF Grown
<1> QED BY <1>1, <1>2, <1>3 DEF BoxInv

\* The invariant of the tasks, while they go on.
LEMMA WorkKeeps ==
  ASSUME OutboxInv, TurnsKept, UNCHANGED <<summing, rendering, command>>
  PROVE  WorkInv'
<1>1. rendering.turns \cup command.todo \cup command.shows \subseteq OutTurns
 BY DEF OutboxInv, WorkInv, Renders, Commands
<1>2. \A t \in OutTurns : Taken(t) => Taken(t)' /\ OwnersOf(t)' = OwnersOf(t) BY DEF TurnsKept, Taken, OwnersOf
<1> QED BY <1>1, <1>2 DEF OutboxInv, WorkInv

\* queue_backstop joins an open batch or makes one.
LEMMA JoinedIs == ASSUME batches \in Seq(Batches) PROVE Joined \in Nat /\ BatchesWith \in Seq(Batches)
<1>1. OpenBatch \subseteq Nat /\ Len(batches) \in Nat BY DEF OpenBatch
<1>2. CASE OpenBatch = {} BY <1>1, <1>2 DEF Joined, BatchesWith, Batches
<1>3. CASE OpenBatch # {}
 <2>1. \E b \in OpenBatch : \A c \in OpenBatch : b <= c BY <1>1, <1>3, LeastOne
 <2>2. Joined \in OpenBatch BY <1>3, <2>1 DEF Joined
 <2> QED BY <1>1, <1>3, <2>2 DEF BatchesWith
<1> QED BY <1>2, <1>3

\* What is held is unchanged in what it shows.
LEMMA Holds ==
  ASSUME NEW box \in Seq(Rows), NEW g, NEW s \in RowStates
  PROVE  Grown(box, HoldGroup(box, g, s))
<1>1. PICK new : new = HoldGroup(box, g, s) OBVIOUS
<1>2. DOMAIN box = 1 .. Len(box) /\ Len(box) \in Nat /\ DOMAIN new = DOMAIN box BY <1>1 DEF HoldGroup
<1>3. ASSUME NEW i \in DOMAIN box PROVE new[i] \in Rows /\ SameText(box[i], new[i])
 <2>1. new[i] = box[i] \/ new[i] = [box[i] EXCEPT !.status = s] BY <1>1 DEF HoldGroup
 <2>2. box[i] \in Rows OBVIOUS
 <2> QED BY <2>1, <2>2 DEF Rows, SameText
<1>4. new \in Seq(Rows) BY <1>1, <1>2, <1>3 DEF HoldGroup
<1> QED BY <1>1, <1>2, <1>3, <1>4 DEF Grown

\* What waited for a retry is unchanged in what it shows.
LEMMA Undelays ==
  ASSUME NEW box \in Seq(Rows)
  PROVE  Grown(box, Undelayed(box)) /\ DOMAIN Undelayed(box) = DOMAIN box
<1>1. PICK new : new = Undelayed(box) OBVIOUS
<1>2. DOMAIN box = 1 .. Len(box) /\ Len(box) \in Nat /\ DOMAIN new = DOMAIN box BY <1>1 DEF Undelayed
<1>3. ASSUME NEW i \in DOMAIN box PROVE new[i] \in Rows /\ SameText(box[i], new[i])
 <2>1. new[i] = box[i] \/ new[i] = [box[i] EXCEPT !.status = "pending"] BY <1>1 DEF Undelayed
 <2>2. box[i] \in Rows OBVIOUS
 <2> QED BY <2>1, <2>2 DEF Rows, RowStates, SameText
<1>4. new \in Seq(Rows) BY <1>1, <1>2, <1>3 DEF Undelayed
<1> QED BY <1>1, <1>2, <1>3, <1>4 DEF Grown

\* Several rows are added.
LEMMA JoinsRows ==
  ASSUME NEW box \in Seq(Rows), NEW n \in Nat, NEW f \in [1 .. n -> Rows],
    \A j \in 1 .. n : Owned(f[j], turn')
  PROVE  Grown(box, box \o f)
<1>1. PICK new : new = box \o f OBVIOUS
<1>2. /\ new \in Seq(Rows) /\ DOMAIN box \subseteq DOMAIN new
      /\ \A i \in DOMAIN new : (i \in DOMAIN box /\ new[i] = box[i]) \/ (\E j \in 1 .. n : new[i] = f[j])
 BY <1>1, Joins
<1>3. ASSUME NEW i \in DOMAIN new
      PROVE  (i \in DOMAIN box /\ SameText(box[i], new[i])) \/ Owned(new[i], turn')
 <2>1. CASE i \in DOMAIN box /\ new[i] = box[i] BY <2>1 DEF SameText
 <2>2. CASE \E j \in 1 .. n : new[i] = f[j] BY <2>2
 <2> QED BY <1>2, <2>1, <2>2
<1> QED BY <1>1, <1>2, <1>3 DEF Grown

\* Rows may be added and held in turn.
LEMMA GrownTwice ==
  ASSUME NEW b1 \in Seq(Rows), NEW b2, NEW b3, Grown(b1, b2), Grown(b2, b3),
    \A i \in DOMAIN b2 : b2[i] \in Rows, \A i \in DOMAIN b3 : b3[i] \in Rows
  PROVE  Grown(b1, b3)
<1>1. ASSUME NEW i \in DOMAIN b3 PROVE (i \in DOMAIN b1 /\ SameText(b1[i], b3[i])) \/ Owned(b3[i], turn')
 <2>1. CASE i \in DOMAIN b2 /\ SameText(b2[i], b3[i])
  <3>1. CASE i \in DOMAIN b1 /\ SameText(b1[i], b2[i]) BY <2>1, <3>1 DEF SameText
  <3>2. CASE Owned(b2[i], turn') BY <2>1, <3>2 DEF SameText, Owned
  <3> QED BY <2>1, <3>1, <3>2 DEF Grown
 <2>2. CASE Owned(b3[i], turn') BY <2>2
 <2> QED BY <2>1, <2>2 DEF Grown
<1> QED BY <1>1 DEF Grown

\* The row of a pass is pending, and the first of these.
LEMMA NextPendingIs ==
  ASSUME NEW box \in Seq(Rows), Pending(box) # {}
  PROVE  NextPending(box) \in Pending(box) /\ \A j \in Pending(box) : Before(box, NextPending(box), j)
<1>1. Pending(box) \subseteq Nat /\ Pending(box) \subseteq DOMAIN box BY DEF Pending
<1>2. \E i \in Pending(box) : \A j \in Pending(box) : Before(box, i, j)
 <2>1. PICK F : F = {i \in Pending(box) : Lane(box[i].key.kind) = 1} OBVIOUS
 <2>2. CASE F # {}
  <3>1. F \subseteq Nat BY <1>1, <2>1
  <3>2. PICK x \in F : \A y \in F : x <= y BY <2>2, <3>1, LeastOne
  <3>3. ASSUME NEW j \in Pending(box) PROVE Before(box, x, j) BY <2>1, <3>2 DEF Before, Lane
  <3> QED BY <2>1, <3>2, <3>3
 <2>3. CASE F = {}
  <3>1. PICK x \in Pending(box) : \A y \in Pending(box) : x <= y BY <1>1, LeastOne
  <3>2. ASSUME NEW j \in Pending(box) PROVE Before(box, x, j) BY <2>1, <2>3, <3>1 DEF Before, Lane
  <3> QED BY <3>1, <3>2
 <2> QED BY <2>2, <2>3
<1> QED BY <1>2 DEF NextPending

\* hold_untrusted_turn, for some of the turns that have ended.
LEMMA HoldsTurns ==
  ASSUME OutboxInv, NEW ts \in SUBSET OutTurns, \A t \in ts : Taken(t), HoldTurns(ts)
  PROVE  TurnsKept /\ Grown(outbox, outbox')
<1>1. turn \in [OutTurns -> Turns] /\ outbox \in Seq(Rows) BY DEF OutboxInv, BoxInv
<1>2. ASSUME NEW t \in OutTurns
      PROVE  turn'[t] \in Turns /\ (Taken(t) => turn'[t].status # "none" /\ turn'[t].owner = turn[t].owner)
 <2>1. turn'[t] = turn[t] \/ turn'[t] = [turn[t] EXCEPT !.status = "summarized", !.batch = 0] BY DEF HoldTurns
 <2>2. turn[t] \in Turns BY <1>1
 <2>3. PICK z : z = [turn[t] EXCEPT !.status = "summarized", !.batch = 0] OBVIOUS
 <2>4. z \in Turns /\ z.status # "none" /\ z.owner = turn[t].owner BY <2>2, <2>3 DEF Turns
 <2> QED BY <2>1, <2>2, <2>3, <2>4 DEF Taken
<1>3. TurnsKept BY <1>2 DEF HoldTurns, TurnsKept
<1>4. PICK new : new = {t \in ts : ~HasKey(outbox, Key("held", t, 0))} OBVIOUS
<1>5. PICK q : q = SetToSeq(new) OBVIOUS
<1>6. PICK n \in Nat : q \in [1 .. n -> new]
 <2>1. new \subseteq OutTurns BY <1>4
 <2>2. IsFiniteSet(new) BY <2>1, OutboxBounds, FS_Subset
 <2> QED BY <1>5, <2>2, Listed
<1>7. PICK f : f = [i \in 1 .. n |-> HeldRow(q[i])] OBVIOUS
<1>8. outbox' = outbox \o f BY <1>4, <1>5, <1>6, <1>7 DEF HoldTurns, HeldRows
<1>9. ASSUME NEW i \in 1 .. n PROVE f[i] \in Rows /\ Owned(f[i], turn')
 <2>1. q[i] \in ts /\ q[i] \in OutTurns BY <1>4, <1>6
 <2>2. PICK t \in OutTurns : t = q[i] /\ Taken(t) BY <2>1
 <2>3. PICK r : r = RequestRow(Key("held", t, 0), OwnersOf(t), {t}) OBVIOUS
 <2>4. Key("held", t, 0) \in Keys /\ OwnersOf(t) \in SUBSET People BY <1>1, <2>2 DEF Key, Keys, Kinds, OwnersOf, Turns
 <2>5. turn'[t].status # "none" /\ turn'[t].owner = turn[t].owner BY <1>2, <2>2
 <2>6. r \in Rows BY <2>3, <2>4, RequestRowIs
 <2>7. OwnersOf(t) = {} \/ turn'[t].owner \in OwnersOf(t) BY <2>5 DEF OwnersOf
 <2>8. Owned(r, turn') BY <2>3, <2>4, <2>5, <2>7, RequestOwned
 <2>9. f[i] = [r EXCEPT !.status = HeldStatus(t)] BY <1>7, <2>2, <2>3 DEF HeldRow
 <2>10. HeldStatus(t) \in RowStates BY DEF HeldStatus, RowStates
 <2>11. f[i] \in Rows /\ SameText(r, f[i]) BY <2>6, <2>9, <2>10 DEF Rows, SameText
 <2> QED BY <2>8, <2>11 DEF SameText, Owned
<1>10. f \in [1 .. n -> Rows] BY <1>7, <1>9
<1>11. Grown(outbox, outbox') BY <1>1, <1>8, <1>9, <1>10, JoinsRows
<1> QED BY <1>3, <1>11

\* A row that is sent belongs to operators who may command.
LEMMA Passes ==
  ASSUME OutboxInv, PassSelects
  PROVE  /\ Grown(outbox, outbox') /\ notice' \in NoticeStates
         /\ sending' \in {sending, 0} \cup DOMAIN outbox'
         /\ SendsToOwners
<1>1. outbox \in Seq(Rows) /\ notice \in NoticeStates /\ turn' = turn BY DEF OutboxInv, BoxInv, PassSelects
<1>2. PICK k \in Nat : k = notice.sequence + 1 BY <1>1 DEF NoticeStates
<1>3. notice' \in NoticeStates
 <2>1. notice' = notice \/ notice' = [notice EXCEPT !.sequence = k, !.unresolved = k, !.pending = FALSE]
  BY <1>2 DEF PassSelects, Flushed
 <2> QED BY <1>1, <2>1 DEF NoticeStates
<1>4. Grown(outbox, FlushedBox) /\ FlushedBox \in Seq(Rows)
 <2>1. PICK n : n = [SystemRow(Key("notice", k, 0)) EXCEPT !.upto = notice.seen] OBVIOUS
 <2>2. Key("notice", k, 0) \in Keys BY DEF Key, Keys, Kinds
 <2>3. n \in Rows /\ n.own = "system" /\ n.shows = {}
  <3>1. PICK z : z = SystemRow(Key("notice", k, 0)) OBVIOUS
  <3>2. z \in Rows /\ z.own = "system" /\ z.shows = {} BY <2>2, <3>1, SystemRowIs
  <3>3. notice.seen \in Nat BY <1>1 DEF NoticeStates
  <3>4. n = [z EXCEPT !.upto = notice.seen] BY <2>1, <3>1
  <3> QED BY <3>2, <3>3, <3>4 DEF Rows
 <2>4. Owned(n, turn') BY <2>3 DEF Owned
 <2>5. FlushedBox = outbox \/ FlushedBox = Append(outbox, n) BY <1>2, <2>1 DEF FlushedBox
 <2>6. CASE FlushedBox = outbox BY <1>1, <2>6 DEF Grown, SameText
 <2>7. CASE FlushedBox = Append(outbox, n)
  <3>1. /\ FlushedBox \in Seq(Rows) /\ DOMAIN outbox \subseteq DOMAIN FlushedBox
        /\ \A i \in DOMAIN FlushedBox :
               (i \in DOMAIN outbox /\ FlushedBox[i] = outbox[i]) \/ FlushedBox[i] = n
   BY <1>1, <2>3, <2>7, AppendsOne
  <3> QED BY <2>4, <3>1 DEF Grown, SameText
 <2> QED BY <2>5, <2>6, <2>7
<1>5. PICK box : box = Undelayed(FlushedBox) OBVIOUS
<1>6. box \in Seq(Rows) /\ Grown(outbox, box)
 <2>1. Grown(FlushedBox, box) BY <1>4, <1>5, Undelays
 <2>2. box \in Seq(Rows) BY <2>1 DEF Grown
 <2> QED BY <1>1, <1>4, <2>1, <2>2, GrownTwice
<1>7. PICK i : i = NextPending(box) OBVIOUS
<1>8. PICK r : r = box[i] OBVIOUS
<1>9. PICK up : up = Parent(box, r) OBVIOUS
<1>10. /\ sending = 0
       /\ IF Pending(box) = {} THEN outbox' = box /\ sending' = sending
          ELSE IF HeldBack(r) # "no" THEN outbox' = HoldGroup(box, Group(r), HeldBack(r)) /\ sending' = sending
          ELSE IF i \in backoff THEN outbox' = box /\ sending' = sending
          ELSE IF r.thread /\ \E p \in up : box[p].status \in {"quarantined", "suppressed", "delayed"}
          THEN outbox' = HoldGroup(box, Group(r), box[CHOOSE p \in up : TRUE].status) /\ sending' = sending
          ELSE outbox' = [box EXCEPT ![i].thread = FALSE] /\ sending' = i BY <1>5, <1>7, <1>8, <1>9 DEF PassSelects
<1>11. HeldBack(r) # "no" => HeldBack(r) \in RowStates BY DEF HeldBack, RowStates
<1>12. up # {} => box[CHOOSE p \in up : TRUE].status \in RowStates
 <2> SUFFICES ASSUME up # {} PROVE box[CHOOSE p \in up : TRUE].status \in RowStates OBVIOUS
 <2>1. PICK p : p = CHOOSE x \in up : TRUE OBVIOUS
 <2>2. p \in up BY <2>1
 <2>3. p \in DOMAIN box BY <1>9, <2>2 DEF Parent
 <2>4. box[p] \in Rows BY <1>6, <2>3
 <2> QED BY <2>1, <2>4 DEF Rows
<1>13. \/ outbox' = box /\ sending' = 0
       \/ sending' = 0 /\ \E s \in RowStates : outbox' = HoldGroup(box, Group(r), s)
       \/ /\ Pending(box) # {} /\ HeldBack(r) = "no"
          /\ outbox' = [box EXCEPT ![i].thread = FALSE] /\ sending' = i BY <1>10, <1>11, <1>12
<1>14. CASE outbox' = box /\ sending' = 0 BY <1>3, <1>6, <1>14 DEF SendsToOwners
<1>15. CASE sending' = 0 /\ \E s \in RowStates : outbox' = HoldGroup(box, Group(r), s)
 <2>1. Grown(box, outbox') BY <1>6, <1>15, Holds
 <2>2. outbox' \in Seq(Rows) BY <2>1 DEF Grown
 <2>3. Grown(outbox, outbox') BY <1>1, <1>6, <2>1, <2>2, GrownTwice
 <2> QED BY <1>3, <1>15, <2>3 DEF SendsToOwners
<1>16. CASE /\ Pending(box) # {} /\ HeldBack(r) = "no"
            /\ outbox' = [box EXCEPT ![i].thread = FALSE] /\ sending' = i
 <2>1. i \in DOMAIN box BY <1>6, <1>7, <1>16, NextPendingIs DEF Pending
 <2>2. PICK q : q = [r EXCEPT !.thread = FALSE] OBVIOUS
 <2>3. r \in Rows BY <1>6, <1>8, <2>1
 <2>4. q \in Rows /\ SameText(r, q) BY <2>2, <2>3 DEF Rows, SameText
 <2>5. outbox' = [box EXCEPT ![i] = q] BY <1>8, <1>16, <2>2
 <2>6. outbox' \in Seq(Rows) /\ DOMAIN outbox' = DOMAIN box BY <1>6, <2>1, <2>4, <2>5
 <2>7. Grown(box, outbox')
  <3>1. \A j \in DOMAIN box : SameText(box[j], outbox'[j]) BY <1>8, <2>1, <2>4, <2>5 DEF SameText
  <3> QED BY <2>6, <3>1 DEF Grown
 <2>8. Grown(outbox, outbox') BY <1>1, <1>6, <2>6, <2>7, GrownTwice
 <2>9. Owned(r, turn)
  <3>1. CASE i \in DOMAIN outbox /\ SameText(outbox[i], box[i]) BY <1>8, <3>1 DEF OutboxInv, BoxInv, SameText, Owned
  <3>2. CASE Owned(box[i], turn') BY <1>1, <1>8, <3>2
  <3> QED BY <1>6, <2>1, <3>1, <3>2 DEF Grown
 <2>10. r.own # "unknown" /\ (r.own = "request" => r.owners \subseteq operators) BY <1>16 DEF HeldBack
 <2>11. r.own \in {"request", "unknown", "system"} BY <2>3 DEF Rows
 <2>12. \A t \in r.shows : turn[t].owner \in operators BY <2>9, <2>10, <2>11 DEF Owned
 <2>13. outbox'[sending'].shows = r.shows BY <1>16, <2>1, <2>4, <2>5, <1>6 DEF SameText
 <2> QED BY <1>3, <1>16, <2>1, <2>6, <2>8, <2>12, <2>13 DEF SendsToOwners
<1> QED BY <1>13, <1>14, <1>15, <1>16

\* A step that leaves the turns alone.
LEMMA SameTurns == ASSUME OutboxInv, turn' = turn PROVE TurnsKept
BY DEF OutboxInv, TurnsKept, Taken

\* A step that leaves the rows alone.
LEMMA SameBox == ASSUME OutboxInv, outbox' = outbox PROVE Grown(outbox, outbox')
BY DEF OutboxInv, BoxInv, Grown, SameText

\* A turn that has ended gets a new state.
LEMMA TurnMoves ==
  ASSUME OutboxInv, NEW t, NEW z \in Turns, z.status # "none", turn' = [turn EXCEPT ![t] = z],
    t \in OutTurns /\ Taken(t) => z.owner = turn[t].owner
  PROVE  TurnsKept
BY DEF OutboxInv, TurnsKept, Taken

\* on_stop.
LEMMA ReplyKeeps ==
  ASSUME OutboxInv, NEW t \in OutTurns, NEW o \in People, NEW m, Reply(t, o, m)
  PROVE  TurnsKept /\ Grown(outbox, outbox') /\ batches' \in Seq(Batches)
<1>1. ~Taken(t) /\ outbox \in Seq(Rows) /\ batches \in Seq(Batches) BY DEF Reply, Taken, OutboxInv, BoxInv
<1>2. PICK z \in Turns : z.status # "none" /\ z.owner = o /\ turn' = [turn EXCEPT ![t] = z]
 <2>1. CASE /\ m = "verbatim"
            /\ turn' = [turn EXCEPT ![t] = [NoTurn EXCEPT !.status = "verbatim", !.owner = o]]
  BY <2>1 DEF NoTurn, Turns
 <2>2. CASE /\ m = "summary"
            /\ turn' = [turn EXCEPT ![t] = [NoTurn EXCEPT !.status = "summarizing", !.owner = o]]
  BY <2>2 DEF NoTurn, Turns
 <2>3. CASE turn' = [turn EXCEPT ![t] = [status |-> "batched", owner |-> o, batch |-> Joined]]
  BY <1>1, <2>3, JoinedIs DEF Turns
 <2> QED BY <2>1, <2>2, <2>3 DEF Reply
<1>3. TurnsKept BY <1>1, <1>2, TurnMoves
<1>4. batches' \in Seq(Batches) BY <1>1, JoinedIs DEF Reply
<1>5. CASE outbox' = outbox BY <1>3, <1>4, <1>5, SameBox
<1>6. CASE \E n \in 1 .. MaxParts : outbox' = outbox \o PartRows(t, {o} \ {Nobody}, n)
 <2>1. PICK n \in 1 .. MaxParts : outbox' = outbox \o PartRows(t, {o} \ {Nobody}, n) BY <1>6
 <2>2. n \in Nat BY <2>1, OutboxBounds
 <2>3. PICK f : f = PartRows(t, {o} \ {Nobody}, n) OBVIOUS
 <2>4. turn'[t].status # "none" /\ turn'[t].owner = o BY <1>2 DEF OutboxInv
 <2>5. ASSUME NEW j \in 1 .. n PROVE f[j] \in Rows /\ Owned(f[j], turn')
  <3>1. f[j] = RequestRow(Key("reply", t, j), {o} \ {Nobody}, {t}) BY <2>3 DEF PartRows
  <3>2. Key("reply", t, j) \in Keys /\ {o} \ {Nobody} \in SUBSET People /\ {t} \in SUBSET OutTurns
   BY <2>2 DEF Key, Keys, Kinds
  <3>3. {o} \ {Nobody} = {} \/ \A x \in {t} : turn'[x].owner \in {o} \ {Nobody} BY <2>4
  <3> QED BY <2>4, <3>1, <3>2, <3>3, RequestRowIs, RequestOwned
 <2>6. f \in [1 .. n -> Rows] BY <2>3, <2>5 DEF PartRows
 <2>7. outbox' = outbox \o f BY <2>1, <2>3
 <2>8. Grown(outbox, outbox') BY <1>1, <2>2, <2>5, <2>6, <2>7, JoinsRows
 <2> QED BY <1>3, <1>4, <2>8
<1> QED BY <1>5, <1>6 DEF Reply

\* queue_backstop: the turn joins the batch.
LEMMA Backstops ==
  ASSUME OutboxInv, NEW t, QueueBackstop(t), t \in OutTurns => Taken(t)
  PROVE  TurnsKept /\ batches' \in Seq(Batches)
<1>1. batches' \in Seq(Batches) /\ Joined \in Nat BY JoinedIs DEF OutboxInv, QueueBackstop
<1>2. CASE t \in OutTurns
 <2>1. turn[t] \in Turns BY <1>2 DEF OutboxInv
 <2>2. PICK z : z = [turn[t] EXCEPT !.status = "batched", !.batch = Joined] OBVIOUS
 <2>3. z \in Turns /\ z.status # "none" /\ z.owner = turn[t].owner BY <1>1, <2>1, <2>2 DEF Turns
 <2>4. turn' = [turn EXCEPT ![t] = z] BY <1>2, <2>1, <2>2 DEF QueueBackstop, OutboxInv, Turns
 <2> QED BY <1>1, <2>3, <2>4, TurnMoves
<1>3. CASE t \notin OutTurns
 <2>1. turn' = turn BY <1>3 DEF QueueBackstop, OutboxInv
 <2> QED BY <1>1, <2>1, SameTurns
<1> QED BY <1>2, <1>3

\* The summariser's answer.
LEMMA SummaryKeeps ==
  ASSUME OutboxInv, NEW how, SummaryEnds(how)
  PROVE  TurnsKept /\ Grown(outbox, outbox') /\ batches' \in Seq(Batches)
<1>1. /\ summing \in OutTurns /\ Taken(summing) /\ outbox \in Seq(Rows) /\ turn \in [OutTurns -> Turns]
      /\ batches \in Seq(Batches) BY DEF OutboxInv, WorkInv, BoxInv, SummaryEnds
<1>2. PICK t \in OutTurns : t = summing BY <1>1
<1>3. CASE how = "good"
 <2>1. turn[t] \in Turns /\ Taken(t) BY <1>1, <1>2
 <2>2. PICK z : z = [turn[t] EXCEPT !.status = "summarized"] OBVIOUS
 <2>3. z \in Turns /\ z.status # "none" /\ z.owner = turn[t].owner BY <2>1, <2>2 DEF Turns
 <2>4. turn' = [turn EXCEPT ![t] = z] BY <1>2, <1>3, <2>2 DEF SummaryEnds
 <2>5. TurnsKept BY <2>3, <2>4, TurnMoves
 <2>6. Key("summary", t, 1) \in Keys /\ OwnersOf(t) \in SUBSET People /\ {t} \in SUBSET OutTurns
  BY <2>1 DEF Key, Keys, Kinds, OwnersOf, Turns
 <2>7. turn'[t].status # "none" /\ (OwnersOf(t) = {} \/ turn'[t].owner \in OwnersOf(t))
  BY <1>1, <2>3, <2>4 DEF OwnersOf
 <2>8. PICK r : r = RequestRow(Key("summary", t, 1), OwnersOf(t), {t}) OBVIOUS
 <2>9. r \in Rows /\ Owned(r, turn') BY <2>6, <2>7, <2>8, RequestRowIs, RequestOwned
 <2>10. outbox' = Enqueue(outbox, r) /\ batches' = batches BY <1>2, <1>3, <2>8 DEF SummaryEnds
 <2> QED BY <1>1, <2>5, <2>9, <2>10, Enqueues
<1>4. CASE how # "good"
 <2>1. QueueBackstop(summing) /\ outbox' = outbox BY <1>4 DEF SummaryEnds
 <2> QED BY <1>1, <2>1, Backstops, SameBox
<1> QED BY <1>3, <1>4

\* close_due_batches posts what was rendered, or holds what lost its operator.
LEMMA BatchKeeps ==
  ASSUME OutboxInv, BatchPosts
  PROVE  TurnsKept /\ Grown(outbox, outbox') /\ batches' \in Seq(Batches)
<1>1. /\ rendering \in Renders /\ outbox \in Seq(Rows)
      /\ turn \in [OutTurns -> Turns] /\ batches \in Seq(Batches)
      /\ \A t \in rendering.turns : Taken(t) BY DEF OutboxInv, WorkInv, BoxInv
<1>2. PICK ts \in SUBSET OutTurns : ts = rendering.turns BY <1>1 DEF Renders
<1>3. CASE \E t \in ts : Untrusted(t)
 <2>1. HoldTurns({t \in ts : Untrusted(t)}) /\ batches' = batches BY <1>2, <1>3 DEF BatchPosts
 <2>2. {t \in ts : Untrusted(t)} \in SUBSET OutTurns OBVIOUS
 <2>3. \A t \in {x \in ts : Untrusted(x)} : Taken(t) BY <1>1, <1>2
 <2> QED BY <1>1, <2>1, <2>2, <2>3, HoldsTurns
<1>4. CASE ~\E t \in ts : Untrusted(t)
 <2>1. turn' = turn BY <1>2, <1>4 DEF BatchPosts
 <2>2. TurnsKept BY <2>1, SameTurns
 <2>3. batches' = [batches EXCEPT ![rendering.batch].status = "posted"] BY <1>2, <1>4 DEF BatchPosts
 <2>4. batches' \in Seq(Batches)
  <3>1. PICK z : z = [batches[rendering.batch] EXCEPT !.status = "posted"] OBVIOUS
  <3>2. rendering.batch \in DOMAIN batches => z \in Batches
   <4> SUFFICES ASSUME rendering.batch \in DOMAIN batches PROVE z \in Batches OBVIOUS
   <4>1. batches[rendering.batch] \in Batches BY <1>1, EntryOf
   <4> QED BY <3>1, <4>1 DEF Batches
  <3>3. batches' = [batches EXCEPT ![rendering.batch] = z] BY <2>3, <3>1
  <3> QED BY <1>1, <3>2, <3>3, EntryChanges
 <2>5. PICK r : r = RequestRow(Key("batch", rendering.batch, rendering.attempt), BatchOwners(ts), ts) OBVIOUS
 <2>6. Key("batch", rendering.batch, rendering.attempt) \in Keys BY <1>1 DEF Renders, Key, Keys, Kinds
 <2>7. ASSUME NEW t \in ts
       PROVE  OwnersOf(t) \in SUBSET People /\ (OwnersOf(t) # {} => OwnersOf(t) = {turn[t].owner})
  BY <1>1 DEF OwnersOf, Turns
 <2>8. /\ BatchOwners(ts) \in SUBSET People
       /\ (BatchOwners(ts) = {} \/ \A t \in ts : turn[t].owner \in BatchOwners(ts)) BY <2>7 DEF BatchOwners
 <2>9. r \in Rows BY <2>5, <2>6, <2>8, RequestRowIs
 <2>10. Owned(r, turn')
  <3>1. \A t \in ts : turn'[t].status # "none" BY <1>1, <1>2, <2>1 DEF Taken
  <3>2. BatchOwners(ts) = {} \/ \A t \in ts : turn'[t].owner \in BatchOwners(ts) BY <2>1, <2>8
  <3> QED BY <2>5, <2>6, <2>8, <3>1, <3>2, RequestOwned
 <2>11. outbox' = outbox \/ outbox' = Enqueue(outbox, r) BY <1>2, <1>4, <2>5 DEF BatchPosts
 <2> QED BY <1>1, <2>2, <2>4, <2>9, <2>10, <2>11, Enqueues, SameBox
<1> QED BY <1>3, <1>4

\* A row that is sent, tried again or given up shows what it showed.
LEMMA RowMoves ==
  ASSUME OutboxInv, NEW i \in DOMAIN outbox, NEW q \in Rows, SameText(outbox[i], q)
  PROVE  Grown(outbox, [outbox EXCEPT ![i] = q]) /\ [outbox EXCEPT ![i] = q] \in Seq(Rows)
<1>1. outbox \in Seq(Rows) BY DEF OutboxInv, BoxInv
<1>2. PICK new : new = [outbox EXCEPT ![i] = q] OBVIOUS
<1>3. /\ new \in Seq(Rows) /\ DOMAIN new = DOMAIN outbox
      /\ \A j \in DOMAIN outbox : new[j] = IF j = i THEN q ELSE outbox[j] BY <1>1, <1>2, EntryChanges
<1>4. \A j \in DOMAIN outbox : SameText(outbox[j], new[j]) BY <1>3 DEF SameText
<1> QED BY <1>2, <1>3, <1>4 DEF Grown

\* The answers to a send.
LEMMA SendKeeps ==
  ASSUME OutboxInv, SendAnswered \/ SendRetries
  PROVE  Grown(outbox, outbox') /\ notice' \in NoticeStates
<1>1. PICK i \in DOMAIN outbox : i = sending BY DEF OutboxInv, BoxInv, SendAnswered, SendRetries
<1>2. outbox \in Seq(Rows) /\ notice \in NoticeStates BY DEF OutboxInv, BoxInv
<1>3. outbox[i] \in Rows BY <1>2, EntryOf
<1>4. CASE SendAnswered
 <2>1. PICK q : q = [outbox[i] EXCEPT !.status = "sent"] OBVIOUS
 <2>2. q \in Rows /\ SameText(outbox[i], q) BY <1>3, <2>1 DEF Rows, RowStates, SameText
 <2>3. outbox' = [outbox EXCEPT ![i] = q] BY <1>1, <1>4, <2>1 DEF SendAnswered
 <2>4. outbox[i].upto \in Nat BY <1>3 DEF Rows
 <2>5. notice' = notice \/ notice' = [notice EXCEPT !.unresolved = 0, !.cool = TRUE, !.told = outbox[i].upto]
  BY <1>1, <1>4 DEF SendAnswered
 <2>6. notice' \in NoticeStates
  <3>1. PICK z : z = [notice EXCEPT !.unresolved = 0, !.cool = TRUE, !.told = outbox[i].upto] OBVIOUS
  <3>2. z \in NoticeStates BY <1>2, <2>4, <3>1 DEF NoticeStates
  <3> QED BY <1>2, <2>5, <3>1, <3>2
 <2> QED BY <2>2, <2>3, <2>6, RowMoves
<1>5. CASE SendRetries
 <2>1. PICK k \in Nat : k = outbox[i].tries + 1 BY <1>3 DEF Rows
 <2>2. PICK q : q = [outbox[i] EXCEPT !.tries = k] OBVIOUS
 <2>3. q \in Rows /\ SameText(outbox[i], q) BY <1>3, <2>2 DEF Rows, SameText
 <2>4. outbox' = [outbox EXCEPT ![i] = q] /\ notice' = notice BY <1>1, <1>5, <2>1, <2>2 DEF SendRetries
 <2> QED BY <1>2, <2>3, <2>4, RowMoves
<1> QED BY <1>4, <1>5

\* send_failed.
LEMMA GivenUpKeeps ==
  ASSUME OutboxInv, SendGivenUp
  PROVE  TurnsKept /\ Grown(outbox, outbox') /\ batches' \in Seq(Batches) /\ notice' \in NoticeStates
<1>1. PICK i \in DOMAIN outbox : i = sending BY DEF OutboxInv, BoxInv, SendGivenUp
<1>2. /\ outbox \in Seq(Rows) /\ notice \in NoticeStates /\ batches \in Seq(Batches)
      /\ turn \in [OutTurns -> Turns] /\ Owned(outbox[i], turn) BY DEF OutboxInv, BoxInv
<1>3. PICK r \in Rows : r = outbox[i] BY <1>2, EntryOf
<1>4. TurnsKept /\ batches' \in Seq(Batches)
 <2>1. CASE FallsBack(r)
  <3>1. QueueBackstop(r.key.id) BY <1>1, <1>3, <2>1 DEF SendGivenUp
  <3>2. r.key.id \in OutTurns => Taken(r.key.id) BY <2>1 DEF FallsBack, Taken
  <3> QED BY <3>1, <3>2, Backstops
 <2>2. CASE ~FallsBack(r)
  <3>1. turn' = turn BY <1>1, <1>3, <2>2 DEF SendGivenUp
  <3>2. \/ batches' = batches
        \/ batches' = [batches EXCEPT ![r.key.id] =
                           [status |-> "open", due |-> FALSE, attempt |-> batches[r.key.id].attempt + 1,
                            back |-> FALSE]] BY <1>1, <1>3, <2>2 DEF SendGivenUp
  <3>3. PICK z : z = [status |-> "open", due |-> FALSE, attempt |-> batches[r.key.id].attempt + 1, back |-> FALSE]
   OBVIOUS
  <3>4. r.key.id \in DOMAIN batches => z \in Batches
   <4> SUFFICES ASSUME r.key.id \in DOMAIN batches PROVE z \in Batches OBVIOUS
   <4>1. batches[r.key.id] \in Batches BY <1>2, EntryOf
   <4>2. batches[r.key.id].attempt + 1 \in Nat BY <4>1 DEF Batches
   <4> QED BY <3>3, <4>2 DEF Batches
  <3>5. [batches EXCEPT ![r.key.id] = z] \in Seq(Batches) BY <1>2, <3>4, EntryChanges
  <3> QED BY <1>2, <3>1, <3>2, <3>3, <3>5, SameTurns
 <2> QED BY <2>1, <2>2
<1>5. notice' \in NoticeStates
 <2>1. notice' = notice \/ notice' = [notice EXCEPT !.unresolved = 0, !.cool = TRUE, !.pending = TRUE]
  BY DEF SendGivenUp
 <2>2. PICK z : z = [notice EXCEPT !.unresolved = 0, !.cool = TRUE, !.pending = TRUE] OBVIOUS
 <2>3. z \in NoticeStates BY <1>2, <2>2 DEF NoticeStates
 <2> QED BY <1>2, <2>1, <2>2, <2>3
<1>6. PICK k \in Nat : k = r.tries + 1 BY DEF Rows
<1>7. PICK q : q = [r EXCEPT !.status = "failed", !.tries = k] OBVIOUS
<1>8. q \in Rows /\ SameText(outbox[i], q) BY <1>3, <1>7 DEF Rows, RowStates, SameText
<1>9. PICK box : box = [outbox EXCEPT ![i] = q] OBVIOUS
<1>10. Grown(outbox, box) /\ box \in Seq(Rows) BY <1>8, <1>9, RowMoves
<1>11. PICK p : p = [r EXCEPT !.key = Key("partfail", 1, r.key.part), !.status = "pending", !.tries = 0] OBVIOUS
<1>12. p \in Rows /\ SameText(r, p)
 <2>1. Key("partfail", 1, r.key.part) \in Keys BY DEF Rows, Keys, Kinds, Key
 <2> QED BY <1>11, <2>1 DEF Rows, RowStates, SameText
<1>13. Owned(p, turn')
 <2>1. r.shows \subseteq OutTurns BY DEF Rows
 <2>2. Owned(r, turn') BY <1>2, <1>3, <1>4, <2>1 DEF Owned, TurnsKept, Taken
 <2> QED BY <1>12, <2>2 DEF SameText, Owned
<1>14. outbox' = box \/ outbox' = Enqueue(box, p)
 <2>1. outbox' = PartNote([outbox EXCEPT ![i].status = "failed", ![i].tries = @ + 1], r) BY <1>1, <1>3 DEF SendGivenUp
 <2>2. [outbox EXCEPT ![i].status = "failed", ![i].tries = @ + 1] = box BY <1>2, <1>3, <1>6, <1>7, <1>9 DEF Rows
 <2> QED BY <1>11, <2>1, <2>2 DEF PartNote
<1>15. Grown(outbox, outbox')
 <2>1. CASE outbox' = box BY <1>10, <2>1
 <2>2. CASE outbox' = Enqueue(box, p)
  <3>1. Grown(box, outbox') BY <1>10, <1>12, <1>13, <2>2, Enqueues
  <3>2. outbox' \in Seq(Rows) BY <3>1 DEF Grown
  <3> QED BY <1>2, <1>10, <3>1, <3>2, GrownTwice
 <2> QED BY <1>14, <2>1, <2>2
<1> QED BY <1>4, <1>5, <1>15

\* A command goes on with turns that have ended, and shows those that belong to someone.
LEMMA CommandMoves ==
  ASSUME OutboxInv, UNCHANGED <<turn, summing, rendering>>, command' \in Commands,
    \A t \in command'.todo : Taken(t), \A t \in command'.shows : Taken(t) /\ OwnersOf(t) # {}
  PROVE  WorkInv'
<1>1. \A t : Taken(t)' = Taken(t) /\ OwnersOf(t)' = OwnersOf(t) BY DEF Taken, OwnersOf
<1> QED BY <1>1 DEF OutboxInv, WorkInv

\* The command ends; its refusal is told to who asked.
LEMMA Denies ==
  ASSUME OutboxInv, turn' = turn, DetailsDenied
  PROVE  Grown(outbox, outbox') /\ command' \in Commands /\ command'.todo = {} /\ command'.shows = {}
<1>1. outbox \in Seq(Rows) /\ command.by \in People BY DEF OutboxInv, BoxInv, WorkInv, Commands
<1>2. PICK r : r = RequestRow(Key("unverified", 1, 0), {command.by}, {}) OBVIOUS
<1>3. Key("unverified", 1, 0) \in Keys /\ {command.by} \in SUBSET People BY <1>1 DEF Key, Keys, Kinds
<1>4. r \in Rows /\ Owned(r, turn') BY <1>2, <1>3, RequestRowIs, RequestOwned
<1>5. Grown(outbox, outbox') BY <1>1, <1>2, <1>4, Enqueues DEF DetailsDenied
<1>6. command' \in Commands /\ command'.todo = {} /\ command'.shows = {}
 BY DEF DetailsDenied, NoDetails, Commands, People
<1> QED BY <1>5, <1>6

\* !details, from the delivered row to the rows of its own.
LEMMA DetailsKeep ==
  ASSUME OutboxInv, UNCHANGED <<turn, summing, rendering>>,
    \/ \E by \in Senders, i \in DOMAIN outbox : DetailsBegins(by, i)
    \/ \E t \in OutTurns : DetailsReads(t)
    \/ DetailsPublish
  PROVE  Grown(outbox, outbox') /\ WorkInv'
<1>1. outbox \in Seq(Rows) /\ command \in Commands /\ turn \in [OutTurns -> Turns] BY DEF OutboxInv, BoxInv, WorkInv
<1>2. /\ \A t \in command.todo : Taken(t)
      /\ \A t \in command.shows : Taken(t) /\ OwnersOf(t) # {} BY DEF OutboxInv, WorkInv
<1>3. CASE \E by \in Senders, i \in DOMAIN outbox : DetailsBegins(by, i)
 <2>1. PICK by \in Senders, i \in DOMAIN outbox : DetailsBegins(by, i) BY <1>3
 <2>2. outbox[i] \in Rows /\ Owned(outbox[i], turn) BY <1>1, EntryOf DEF OutboxInv, BoxInv
 <2>3. PICK ts \in SUBSET OutTurns :
         ts = IF outbox[i].key.kind = "batch" THEN InBatch(outbox[i].key.id) ELSE outbox[i].shows
  BY <2>2 DEF Rows, InBatch
 <2>4. PICK c : c = [at |-> outbox[i].key.kind, by |-> by, todo |-> ts, shows |-> {}] OBVIOUS
 <2>5. c \in Commands /\ c.todo = ts /\ c.shows = {} BY <2>1, <2>4 DEF DetailsBegins, Commands, People
 <2>6. command' = c /\ outbox' = outbox BY <2>1, <2>3, <2>4 DEF DetailsBegins
 <2>7. \A t \in ts : Taken(t) BY <2>2, <2>3 DEF Owned, Taken, InBatch
 <2> QED BY <2>5, <2>6, <2>7, CommandMoves, SameBox
<1>4. CASE DetailsDenied
 <2>1. Grown(outbox, outbox') /\ command' \in Commands /\ command'.todo = {} /\ command'.shows = {} BY <1>4, Denies
 <2>2. WorkInv' BY <2>1, CommandMoves
 <2> QED BY <2>1, <2>2
<1>5. CASE ~DetailsDenied /\ \E t \in OutTurns : DetailsReads(t)
 <2>1. PICK t \in OutTurns : DetailsReads(t) BY <1>5
 <2>2. PICK todo \in SUBSET OutTurns, shows \in SUBSET OutTurns :
         /\ command' = [command EXCEPT !.todo = todo, !.shows = shows]
         /\ todo \subseteq command.todo
         /\ shows = command.shows \/ (shows = command.shows \cup {t} /\ ~Untrusted(t))
  <3>1. PICK x : x = command.todo \ {t} OBVIOUS
  <3>2. PICK y : y = IF Untrusted(t) \/ (command.at = "batch" /\ turn[t].status # "batched")
                     THEN command.shows ELSE command.shows \cup {t}
   OBVIOUS
  <3>3. command' = [command EXCEPT !.todo = x, !.shows = y] BY <1>5, <2>1, <3>1, <3>2 DEF DetailsReads
  <3>4. x \in SUBSET OutTurns /\ y \in SUBSET OutTurns BY <1>1, <3>1, <3>2 DEF Commands
  <3>5. y = command.shows \/ (y = command.shows \cup {t} /\ ~Untrusted(t)) BY <3>2
  <3> QED BY <3>1, <3>3, <3>4, <3>5
 <2>3. outbox' = outbox /\ t \in command.todo BY <1>5, <2>1 DEF DetailsReads
 <2>4. command' \in Commands /\ command'.todo = todo /\ command'.shows = shows BY <1>1, <2>2 DEF Commands
 <2>5. \A x \in todo : Taken(x) BY <1>2, <2>2
 <2>6. \A x \in shows : Taken(x) /\ OwnersOf(x) # {} BY <1>2, <2>2, <2>3 DEF Untrusted
 <2>7. WorkInv' BY <2>4, <2>5, <2>6, CommandMoves
 <2> QED BY <2>3, <2>7, SameBox
<1>6. CASE ~DetailsDenied /\ DetailsPublish
 <2>1. PICK own : own = {command.by} \cup UNION {OwnersOf(t) : t \in command.shows} OBVIOUS
 <2>2. PICK ts \in SUBSET OutTurns : ts = command.shows BY <1>1 DEF Commands
 <2>3. PICK r : r = RequestRow(Key("details", 1, 0), own, ts) OBVIOUS
 <2>4. command.by \in People BY <1>1 DEF Commands
 <2>5. own \in SUBSET People
  <3>1. \A t \in ts : OwnersOf(t) \in SUBSET People BY <1>1 DEF OwnersOf, Turns
  <3> QED BY <2>1, <2>2, <2>4, <3>1
 <2>6. \A t \in ts : turn'[t].status # "none" /\ turn'[t].owner \in own
  <3>1. \A t \in ts : turn'[t].status # "none" /\ OwnersOf(t) # {} BY <1>2, <2>2 DEF Taken
  <3>2. \A t \in ts : turn'[t].owner \in OwnersOf(t) BY <3>1 DEF OwnersOf
  <3> QED BY <2>1, <2>2, <3>1, <3>2
 <2>7. Key("details", 1, 0) \in Keys BY DEF Key, Keys, Kinds
 <2>8. r \in Rows BY <2>3, <2>5, <2>7, RequestRowIs
 <2>9. Owned(r, turn') BY <2>3, <2>5, <2>6, <2>7, RequestOwned
 <2>10. command' = [NoDetails EXCEPT !.at = "done"] /\ outbox' = Enqueue(outbox, r)
  BY <1>6, <2>1, <2>2, <2>3 DEF DetailsPublish
 <2>11. command' \in Commands /\ command'.todo = {} /\ command'.shows = {} BY <2>10 DEF NoDetails, Commands, People
 <2>12. WorkInv' BY <2>11, CommandMoves
 <2> QED BY <1>1, <2>8, <2>9, <2>10, <2>12, Enqueues
<1> QED BY <1>3, <1>4, <1>5, <1>6

\* The parts of the invariant, for a step that begins no send.
LEMMA Assembles ==
  ASSUME OutboxInv, TurnsKept, Grown(outbox, outbox'), batches' \in Seq(Batches), notice' \in NoticeStates,
    WorkInv', sending' \in {sending, 0}
  PROVE  OutboxInv' /\ SendsToOwners
<1>1. BoxInv' BY BoxKeeps
<1>2. SendsToOwners BY DEF SendsToOwners
<1> QED BY <1>1, <1>2 DEF OutboxInv, TurnsKept

\* Cards and alerts.
LEMMA PostsKeep ==
  ASSUME OutboxInv, turn' = turn,
    \/ \E o \in People : CardPosts(o)
    \/ \E how \in AlertTexts \cup {"skipped"} : AlertRelays(how)
  PROVE  Grown(outbox, outbox')
<1>1. outbox \in Seq(Rows) BY DEF OutboxInv, BoxInv
<1>2. CASE \E o \in People : CardPosts(o)
 <2>1. PICK o \in People : CardPosts(o) BY <1>2
 <2>2. PICK f : f = [p \in 1 .. 2 |-> IF o = Nobody THEN SystemRow(Key("card", 1, p))
                                     ELSE RequestRow(Key("card", 1, p), {o}, {})]
  OBVIOUS
 <2>3. ASSUME NEW p \in 1 .. 2 PROVE f[p] \in Rows /\ Owned(f[p], turn')
  <3>1. Key("card", 1, p) \in Keys /\ {o} \in SUBSET People /\ {} \in SUBSET OutTurns BY DEF Key, Keys, Kinds
  <3>2. CASE f[p] = SystemRow(Key("card", 1, p)) BY <3>1, <3>2, SystemRowIs DEF Owned
  <3>3. CASE f[p] = RequestRow(Key("card", 1, p), {o}, {}) BY <3>1, <3>3, RequestRowIs, RequestOwned
  <3> QED BY <2>2, <3>2, <3>3
 <2>4. f \in [1 .. 2 -> Rows] /\ 2 \in Nat BY <2>2, <2>3
 <2>5. outbox' = outbox \o f BY <2>1, <2>2 DEF CardPosts
 <2> QED BY <1>1, <2>3, <2>4, <2>5, JoinsRows
<1>3. CASE \E how \in AlertTexts \cup {"skipped"} : AlertRelays(how)
 <2>1. PICK r : r = SystemRow(Key("alert", 1, 0)) OBVIOUS
 <2>2. outbox' = outbox \/ outbox' = Enqueue(outbox, r) BY <1>3, <2>1 DEF AlertRelays
 <2>3. Key("alert", 1, 0) \in Keys BY DEF Key, Keys, Kinds
 <2>4. r \in Rows /\ Owned(r, turn') BY <2>1, <2>3, SystemRowIs DEF Owned
 <2> QED BY <1>1, <2>2, <2>4, Enqueues, SameBox
<1> QED BY <1>2, <1>3

\* A clock set back undoes windows, and marks the batch that is being rendered when it does.
LEMMA ClockMoves ==
  ASSUME batches \in Seq(Batches), NEW bs, ClockBack(bs)
  PROVE  /\ batches' \in Seq(Batches) /\ DOMAIN batches' = DOMAIN batches
         /\ \A b \in DOMAIN batches :
                /\ batches'[b].status = batches[b].status /\ batches'[b].attempt = batches[b].attempt
                /\ batches[b].back => batches'[b].back
                /\ batches'[b] = batches[b] \/ (b = rendering.batch => batches'[b].back)
<1>1. PICK n \in Nat : DOMAIN batches = 1 .. n OBVIOUS
<1>2. DOMAIN batches' = DOMAIN batches BY DEF ClockBack
<1>3. ASSUME NEW b \in DOMAIN batches
      PROVE  /\ batches'[b] \in Batches
             /\ batches'[b].status = batches[b].status /\ batches'[b].attempt = batches[b].attempt
             /\ batches[b].back => batches'[b].back
             /\ batches'[b] = batches[b] \/ (b = rendering.batch => batches'[b].back)
 <2>1. PICK k : k = (batches[b].back \/ b = rendering.batch) OBVIOUS
 <2>2. PICK z : z = [batches[b] EXCEPT !.due = FALSE, !.back = k] OBVIOUS
 <2>3. batches[b] \in Batches BY EntryOf
 <2>4. k \in BOOLEAN BY <2>1
 <2>5. z \in Batches /\ z.status = batches[b].status /\ z.attempt = batches[b].attempt /\ z.back = k
  BY <2>2, <2>3, <2>4 DEF Batches
 <2>6. batches'[b] = batches[b] \/ batches'[b] = z BY <2>1, <2>2 DEF ClockBack
 <2> QED BY <2>1, <2>3, <2>5, <2>6
<1>4. batches' \in Seq(Batches)
 <2>1. batches' \in [1 .. n -> Batches] BY <1>1, <1>2, <1>3 DEF ClockBack
 <2> QED BY <2>1
<1> QED BY <1>2, <1>3, <1>4

\* Every step keeps the invariant, and a send that begins is to operators who may command.
LEMMA OutboxNextInv ==
  OutboxInv /\ traffic \in Traffic /\ [OutboxNext]_outboxVars => OutboxInv' /\ SendsToOwners
<1> SUFFICES ASSUME OutboxInv, traffic \in Traffic, [OutboxNext]_outboxVars
             PROVE  OutboxInv' /\ SendsToOwners
 OBVIOUS
<1>t. /\ turn \in [OutTurns -> Turns] /\ batches \in Seq(Batches) /\ notice \in NoticeStates
      /\ WorkInv /\ outbox \in Seq(Rows) BY DEF OutboxInv, BoxInv
<1>1. CASE \E t \in OutTurns : \E o \in Requesters[traffic][t], m \in {"verbatim", "summary", "backstop"} :
             Reply(t, o, m)
 <2>1. PICK t \in OutTurns, m \in {"verbatim", "summary", "backstop"} : \E o \in People : Reply(t, o, m)
  <3>1. \A t \in OutTurns : Requesters[traffic][t] \subseteq People
   <4>1. Requesters \in [Traffic -> [OutTurns -> SUBSET People]] BY OutboxBounds DEF People, Nobody
   <4> QED BY <4>1
  <3> QED BY <1>1, <3>1
 <2>2. PICK o \in People : Reply(t, o, m) BY <2>1
 <2>3. TurnsKept /\ Grown(outbox, outbox') /\ batches' \in Seq(Batches) BY <2>2, ReplyKeeps
 <2>4. UNCHANGED <<summing, rendering, command, notice, sending>> BY <2>2 DEF Reply
 <2>5. WorkInv' BY <2>3, <2>4, WorkKeeps
 <2> QED BY <1>t, <2>3, <2>4, <2>5, Assembles
<1>2. CASE \E t \in OutTurns : SummaryBegins(t)
 <2>1. PICK t \in OutTurns : SummaryBegins(t) BY <1>2
 <2>2. Taken(t) /\ UNCHANGED <<batches, rendering, sending, notice, command>> BY <2>1 DEF SummaryBegins, Taken
 <2>3. CASE Untrusted(t)
  <3>1. HoldTurns({t}) /\ summing' = summing BY <2>1, <2>3 DEF SummaryBegins
  <3>2. TurnsKept /\ Grown(outbox, outbox') BY <2>2, <3>1, HoldsTurns
  <3>3. WorkInv' BY <2>2, <3>1, <3>2, WorkKeeps
  <3> QED BY <1>t, <2>2, <3>2, <3>3, Assembles
 <2>4. CASE ~Untrusted(t)
  <3>1. summing' = t /\ UNCHANGED <<outbox, turn>> BY <2>1, <2>4 DEF SummaryBegins
  <3>2. TurnsKept /\ Grown(outbox, outbox') BY <3>1, SameTurns, SameBox
  <3>3. \A x : Taken(x)' = Taken(x) /\ OwnersOf(x)' = OwnersOf(x) BY <3>1 DEF Taken, OwnersOf
  <3>4. WorkInv' BY <1>t, <2>2, <3>1, <3>3 DEF WorkInv
  <3> QED BY <1>t, <2>2, <3>2, <3>4, Assembles
 <2> QED BY <2>3, <2>4
<1>3. CASE \E how \in Summaries : SummaryEnds(how)
 <2>1. TurnsKept /\ Grown(outbox, outbox') /\ batches' \in Seq(Batches) BY <1>3, SummaryKeeps
 <2>2. summing' = 0 /\ UNCHANGED <<rendering, command, notice, sending>> BY <1>3 DEF SummaryEnds
 <2>3. rendering.turns \cup command.todo \cup command.shows \subseteq OutTurns BY <1>t DEF WorkInv, Renders, Commands
 <2>4. \A t \in OutTurns : Taken(t) => Taken(t)' /\ OwnersOf(t)' = OwnersOf(t) BY <2>1 DEF TurnsKept, Taken, OwnersOf
 <2>5. WorkInv' BY <1>t, <2>2, <2>3, <2>4 DEF WorkInv
 <2> QED BY <1>t, <2>1, <2>2, <2>5, Assembles
<1>4. CASE \E b \in DOMAIN batches : WindowPasses(b)
 <2>1. PICK b \in DOMAIN batches : WindowPasses(b) BY <1>4
 <2>2. UNCHANGED <<outbox, turn, summing, rendering, command, notice, sending>> BY <2>1 DEF WindowPasses
 <2>3. TurnsKept /\ Grown(outbox, outbox') BY <2>2, SameTurns, SameBox
 <2>4. batches' \in Seq(Batches)
  <3>1. PICK z : z = [batches[b] EXCEPT !.due = TRUE] OBVIOUS
  <3>2. batches[b] \in Batches BY <1>t, EntryOf
  <3>3. z \in Batches BY <3>1, <3>2 DEF Batches
  <3>4. batches' = [batches EXCEPT ![b] = z] BY <2>1, <3>1 DEF WindowPasses
  <3> QED BY <1>t, <3>3, <3>4, EntryChanges
 <2>5. WorkInv' BY <2>2, <2>3, WorkKeeps
 <2> QED BY <1>t, <2>2, <2>3, <2>4, <2>5, Assembles
<1>5. CASE \E b \in DOMAIN batches : BatchRenders(b)
 <2>1. PICK b \in DOMAIN batches : BatchRenders(b) BY <1>5
 <2>2. PICK ts \in SUBSET OutTurns : ts = {t \in InBatch(b) : Untrusted(t)} BY DEF InBatch
 <2>3. \A t \in InBatch(b) : Taken(t) /\ t \in OutTurns BY DEF InBatch, Taken
 <2>4. HoldTurns(ts) /\ UNCHANGED <<summing, sending, notice, command>> BY <2>1, <2>2 DEF BatchRenders
 <2>5. TurnsKept /\ Grown(outbox, outbox') BY <2>2, <2>3, <2>4, HoldsTurns
 <2>6. PICK ok \in SUBSET OutTurns : ok = {t \in InBatch(b) : ~Untrusted(t)} BY DEF InBatch
 <2>7. rendering' = [batch |-> b, attempt |-> batches[b].attempt, turns |-> ok] BY <2>1, <2>6 DEF BatchRenders
 <2>8. rendering' \in Renders /\ rendering'.turns = ok
  <3>1. batches[b] \in Batches BY <1>t, EntryOf
  <3>2. batches[b].attempt \in Nat /\ b \in Nat BY <1>t, <3>1 DEF Batches
  <3> QED BY <2>7, <3>2 DEF Renders
 <2>9. command.todo \cup command.shows \subseteq OutTurns BY <1>t DEF WorkInv, Commands
 <2>10. \A t \in OutTurns : Taken(t) => Taken(t)' /\ OwnersOf(t)' = OwnersOf(t) BY <2>5 DEF TurnsKept, Taken, OwnersOf
 <2>11. WorkInv' BY <1>t, <2>3, <2>4, <2>6, <2>8, <2>9, <2>10 DEF WorkInv
 <2>12. batches' \in Seq(Batches)
  <3>1. PICK z : z = [batches[b] EXCEPT !.back = FALSE] OBVIOUS
  <3>2. batches[b] \in Batches BY <1>t, EntryOf
  <3>3. z \in Batches BY <3>1, <3>2 DEF Batches
  <3>4. batches' = [batches EXCEPT ![b] = z] BY <2>1, <3>1 DEF BatchRenders
  <3> QED BY <1>t, <3>3, <3>4, EntryChanges
 <2> QED BY <1>t, <2>4, <2>5, <2>11, <2>12, Assembles
<1>6. CASE BatchPosts
 <2>1. TurnsKept /\ Grown(outbox, outbox') /\ batches' \in Seq(Batches) BY <1>6, BatchKeeps
 <2>2. rendering' = NoRender /\ UNCHANGED <<summing, command, notice, sending>> BY <1>6 DEF BatchPosts
 <2>3. command.todo \cup command.shows \subseteq OutTurns BY <1>t DEF WorkInv, Commands
 <2>4. \A t \in OutTurns : Taken(t) => Taken(t)' /\ OwnersOf(t)' = OwnersOf(t) BY <2>1 DEF TurnsKept, Taken, OwnersOf
 <2>5. NoRender \in Renders /\ NoRender.turns = {} BY DEF NoRender, Renders
 <2>6. WorkInv' BY <1>t, <2>2, <2>3, <2>4, <2>5 DEF WorkInv
 <2> QED BY <1>t, <2>1, <2>2, <2>6, Assembles
<1>7. CASE \/ \E o \in Senders \cup {Nobody} : CardPosts(o)
           \/ \E how \in AlertTexts \cup {"skipped"} : AlertRelays(how)
 <2>1. UNCHANGED <<turn, batches, summing, rendering, sending, notice, command>> BY <1>7 DEF CardPosts, AlertRelays
 <2>2. Grown(outbox, outbox') BY <1>7, <2>1, PostsKeep DEF People
 <2>3. TurnsKept BY <2>1, SameTurns
 <2>4. WorkInv' BY <2>1, <2>3, WorkKeeps
 <2> QED BY <1>t, <2>1, <2>2, <2>3, <2>4, Assembles
<1>8. CASE \/ Observe \/ CadencePasses \/ (\E bs \in SUBSET (DOMAIN batches) : ClockBack(bs))
           \/ (\E i \in backoff : TimerEnds(i)) \/ (\E o \in Senders : OwnersChange(o))
 <2>1. UNCHANGED <<outbox, turn, summing, rendering, sending, command>>
  BY <1>8 DEF Observe, CadencePasses, ClockBack, TimerEnds, OwnersChange
 <2>2. notice' \in NoticeStates
  <3>1. PICK k \in Nat : k = notice.seen + 1 BY <1>t DEF NoticeStates
  <3>2. \/ notice' = notice
        \/ notice' = [notice EXCEPT !.pending = TRUE, !.seen = k]
        \/ notice' = [notice EXCEPT !.cool = FALSE]
        \/ notice' = [notice EXCEPT !.cool = TRUE]
   BY <1>8, <3>1 DEF Observe, CadencePasses, ClockBack, TimerEnds, OwnersChange
  <3> QED BY <1>t, <3>2 DEF NoticeStates
 <2>3. TurnsKept /\ Grown(outbox, outbox') BY <2>1, SameTurns, SameBox
 <2>4. WorkInv' BY <2>1, <2>3, WorkKeeps
 <2>5. batches' \in Seq(Batches)
  <3>1. CASE \E bs \in SUBSET (DOMAIN batches) : ClockBack(bs) BY <1>t, <3>1, ClockMoves
  <3>2. CASE batches' = batches BY <1>t, <3>2
  <3> QED BY <1>8, <3>1, <3>2 DEF Observe, CadencePasses, TimerEnds, OwnersChange
 <2> QED BY <1>t, <2>1, <2>2, <2>3, <2>4, <2>5, Assembles
<1>9. CASE \/ \E o \in Senders, i \in DOMAIN outbox : DetailsBegins(o, i)
           \/ \E t \in OutTurns : DetailsReads(t)
           \/ DetailsPublish
 <2>1. UNCHANGED <<turn, batches, summing, rendering, sending, notice>>
  BY <1>9 DEF DetailsBegins, DetailsReads, DetailsPublish
 <2>2. Grown(outbox, outbox') /\ WorkInv' BY <1>9, <2>1, DetailsKeep
 <2>3. TurnsKept BY <2>1, SameTurns
 <2> QED BY <1>t, <2>1, <2>2, <2>3, Assembles
<1>10. CASE PassSelects
 <2>1. /\ Grown(outbox, outbox') /\ notice' \in NoticeStates
       /\ sending' \in {sending, 0} \cup DOMAIN outbox'
       /\ SendsToOwners BY <1>10, Passes
 <2>2. UNCHANGED <<turn, batches, summing, rendering, command>> BY <1>10 DEF PassSelects
 <2>3. TurnsKept BY <2>2, SameTurns
 <2>4. WorkInv' BY <2>2, <2>3, WorkKeeps
 <2>5. BoxInv' BY <2>1, <2>3, BoxKeeps
 <2> QED BY <1>t, <2>1, <2>2, <2>4, <2>5 DEF OutboxInv
<1>11. CASE SendAnswered \/ SendRetries
 <2>1. Grown(outbox, outbox') /\ notice' \in NoticeStates BY <1>11, SendKeeps
 <2>2. sending' = 0 /\ UNCHANGED <<turn, batches, summing, rendering, command>> BY <1>11 DEF SendAnswered, SendRetries
 <2>3. TurnsKept BY <2>2, SameTurns
 <2>4. WorkInv' BY <2>2, <2>3, WorkKeeps
 <2> QED BY <1>t, <2>1, <2>2, <2>3, <2>4, Assembles
<1>12. CASE SendGivenUp
 <2>1. TurnsKept /\ Grown(outbox, outbox') /\ batches' \in Seq(Batches) /\ notice' \in NoticeStates
  BY <1>12, GivenUpKeeps
 <2>2. sending' = 0 /\ UNCHANGED <<summing, rendering, command>> BY <1>12 DEF SendGivenUp
 <2>3. WorkInv' BY <2>1, <2>2, WorkKeeps
 <2> QED BY <2>1, <2>2, <2>3, Assembles
<1>13. CASE Restarts
 <2>1. /\ summing' = 0 /\ rendering' = NoRender /\ sending' = 0
       /\ UNCHANGED <<outbox, turn, batches, notice>> BY <1>13 DEF Restarts
 <2>2. TurnsKept /\ Grown(outbox, outbox') BY <2>1, SameTurns, SameBox
 <2>3. NoRender \in Renders /\ NoRender.turns = {} BY DEF NoRender, Renders
 <2>4. PICK c : c = [NoDetails EXCEPT !.at = "done"] OBVIOUS
 <2>5. c \in Commands /\ c.todo = {} /\ c.shows = {} BY <2>4 DEF NoDetails, Commands, People
 <2>6. command' = command \/ command' = c BY <1>13, <2>4 DEF Restarts
 <2>7. \A t : Taken(t)' = Taken(t) /\ OwnersOf(t)' = OwnersOf(t) BY <2>1 DEF Taken, OwnersOf
 <2>8. WorkInv' BY <1>t, <2>1, <2>3, <2>5, <2>6, <2>7 DEF WorkInv
 <2> QED BY <1>t, <2>1, <2>2, <2>8, Assembles
<1>14. CASE UNCHANGED outboxVars
 <2>1. UNCHANGED <<outbox, turn, batches, summing, rendering, sending, notice, command>> BY <1>14 DEF outboxVars
 <2>2. TurnsKept /\ Grown(outbox, outbox') BY <2>1, SameTurns, SameBox
 <2>3. WorkInv' BY <2>1, <2>2, WorkKeeps
 <2> QED BY <1>t, <2>1, <2>2, <2>3, Assembles
<1> QED BY <1>1, <1>2, <1>3, <1>4, <1>5, <1>6, <1>7, <1>8, <1>9, <1>10, <1>11, <1>12, <1>13, <1>14 DEF OutboxNext

\* The extra posts of a behaviour are settled at its start.
LEMMA TrafficStays == ASSUME [OutboxNext]_outboxVars PROVE traffic' = traffic
BY DEF OutboxNext, outboxVars, Reply, SummaryBegins, SummaryEnds, WindowPasses, BatchRenders, BatchPosts, CardPosts,
  AlertRelays, Observe, CadencePasses, DetailsBegins, DetailsDenied, DetailsReads, DetailsPublish, PassSelects,
  SendAnswered, SendRetries, SendGivenUp, TimerEnds, OwnersChange, Restarts, ClockBack

\* Nothing is queued or shown at the start.
LEMMA OutboxInitInv == OutboxInit => OutboxInv /\ traffic \in Traffic
<1> SUFFICES ASSUME OutboxInit PROVE OutboxInv /\ traffic \in Traffic OBVIOUS
<1>1. turn \in [OutTurns -> Turns] BY DEF OutboxInit, NoTurn, Turns, People
<1>2. batches \in Seq(Batches) /\ outbox \in Seq(Rows) /\ DOMAIN outbox = {} /\ sending = 0 BY DEF OutboxInit
<1>3. notice \in NoticeStates BY DEF OutboxInit, NoticeStates
<1>4. /\ rendering \in Renders /\ rendering.turns = {} /\ summing = 0
      /\ command \in Commands /\ command.todo = {} /\ command.shows = {}
 BY DEF OutboxInit, NoRender, Renders, NoDetails, Commands, People
<1>5. traffic \in Traffic BY DEF OutboxInit
<1> QED BY <1>1, <1>2, <1>3, <1>4, <1>5 DEF OutboxInv, BoxInv, WorkInv

------------------------------
(* That no reply is stranded.  A reply is looked for in several places, one after the     *)
(* other, so the invariant says where it is by the state of its turn (TurnsCarried): the  *)
(* rows of its parts or of its summary while none of them failed, the row it is held in,  *)
(* or its batch.  A batch that is closed has its reply in the row of the batch's current  *)
(* attempt, and only that row can still be sent (BatchRows), unless the clock was set     *)
(* back while it was rendered; the tasks between two awaits hold a turn, a batch or a row *)
(* that nobody moved meanwhile, but for the replies that such a batch gains (HandsTrue).  *)

Away == {"quarantined", "suppressed"}

\* What is fixed about a row, but for its batch, its notice or its card.
RowShape(r) ==
    /\ r.key.kind \in {"reply", "summary", "held"} => r.key.id \in OutTurns /\ r.shows = {r.key.id}
    /\ r.key.kind = "held" => r.status \in Away
    /\ r.status = "delayed" => r.key.kind = "notice"
    /\ r.thread => r.key.kind = "card" /\ r.key.part > 1
RowsShaped == \A i \in DOMAIN outbox : RowShape(outbox[i])

\* The rows of a batch are of its attempts, one each; the earlier ones failed.
BatchRow(r, bs) ==
    /\ r.key.id \in DOMAIN bs /\ r.key.part <= bs[r.key.id].attempt
    /\ r.key.part = bs[r.key.id].attempt => bs[r.key.id].status = "posted" /\ r.status # "failed"
    /\ r.key.part < bs[r.key.id].attempt => r.status = "failed"
BatchRows ==
    /\ \A i \in DOMAIN outbox : outbox[i].key.kind = "batch" => BatchRow(outbox[i], batches)
    /\ \A i, j \in DOMAIN outbox : outbox[i].key.kind = "batch" /\ outbox[i].key = outbox[j].key => i = j

\* Where the reply of a turn is.
Of(r, t, kind) == r.key.kind = kind /\ t \in r.shows
Carries(box, t, kind) ==
    /\ \E i \in DOMAIN box : Of(box[i], t, kind)
    /\ \A i \in DOMAIN box : Of(box[i], t, kind) => box[i].status # "failed"
Rides(box, bs, t, b) ==
    /\ b \in DOMAIN bs
    /\ \/ bs[b].status = "open" \/ bs[b].back
       \/ \E i \in DOMAIN box : Of(box[i], t, "batch") /\ box[i].key.id = b /\ box[i].key.part = bs[b].attempt
TurnKept(t) ==
    /\ turn[t].status = "verbatim" => Carries(outbox, t, "reply")
    /\ turn[t].status = "summarizing" => \A i \in DOMAIN outbox : ~Of(outbox[i], t, "summary")
    /\ turn[t].status = "summarized" =>
           (\E i \in DOMAIN outbox : Of(outbox[i], t, "held")) \/ Carries(outbox, t, "summary")
    /\ turn[t].status = "batched" => Rides(outbox, batches, t, turn[t].batch)
TurnsCarried == \A t \in OutTurns : TurnKept(t)

\* What the summariser, the sender and the renderer have in hand is as they left it.
SummingTrue == summing # 0 => turn[summing].status = "summarizing"
SendingTrue == sending # 0 => outbox[sending].status = "pending" /\ ~outbox[sending].thread
RenderingTrue ==
    rendering # NoRender =>
        /\ rendering.batch \in DOMAIN batches
        /\ batches[rendering.batch].status = "open"
        /\ batches[rendering.batch].attempt = rendering.attempt
        /\ rendering.turns \subseteq InBatch(rendering.batch)
        /\ \/ batches[rendering.batch].back
           \/ batches[rendering.batch].due /\ rendering.turns = InBatch(rendering.batch)
HandsTrue == SummingTrue /\ SendingTrue /\ RenderingTrue

\* At most one notice is on its way: the one that is unresolved, and it tells all that is not pending.
OnItsWay(r) == r.key.kind = "notice" /\ r.status \in Unsent
NoticeRow(r, n) ==
    /\ r.key.kind = "notice" => r.own = "system" /\ r.status \in {"pending", "delayed", "sent", "failed"}
    /\ OnItsWay(r) => /\ r.key.id # 0 /\ r.key.id = n.unresolved
                      /\ ~n.pending => r.upto = n.seen
NoticesTrue ==
    /\ \A i \in DOMAIN outbox : NoticeRow(outbox[i], notice)
    /\ \A i, j \in DOMAIN outbox : OnItsWay(outbox[i]) /\ OnItsWay(outbox[j]) => i = j
    /\ notice.told < notice.seen /\ ~notice.pending => \E i \in DOMAIN outbox : OnItsWay(outbox[i])

\* A later part of a card comes after its first part, and is cut loose after it.
PartOf(r, q) == r.key.kind = "card" /\ r.key.part > 1 /\ q.key = [r.key EXCEPT !.part = 1]
CardsInOrder ==
    \A i, p \in DOMAIN outbox : PartOf(outbox[i], outbox[p]) =>
        p < i /\ (~outbox[i].thread => outbox[p].status \notin Unsent)

ArriveInv == RowsShaped /\ BatchRows /\ TurnsCarried /\ HandsTrue /\ NoticesTrue /\ CardsInOrder

\* Nothing is stranded, and the parts are in order.
LEMMA ArriveInvSays == ASSUME OutboxInv, ArriveInv PROVE NothingStranded /\ PartsInOrder
<1>1. outbox \in Seq(Rows) /\ turn \in [OutTurns -> Turns] BY DEF OutboxInv, BoxInv
<1>2. ASSUME NEW i \in DOMAIN outbox PROVE outbox[i] \in Rows /\ outbox[i].status \in RowStates
 <2>1. outbox[i] \in Rows BY <1>1, EntryOf
 <2> QED BY <2>1 DEF Rows
<1>3. ASSUME NEW t \in OutTurns, turn[t].status # "none"
      PROVE  \/ turn[t].status = "summarizing"
             \/ turn[t].status = "batched" /\ batches[turn[t].batch].status = "open"
             \/ \E i \in Showing(t) : outbox[i].status \in Unsent \cup {"quarantined", "suppressed"}
             \/ \E i \in PartsOf(t, "batch") : outbox[i].status = "sent"
             \/ \E k \in {"reply", "summary"} :
                    PartsOf(t, k) # {} /\ \A i \in PartsOf(t, k) : outbox[i].status = "sent"
             \/ Overtaken(t)
 <2>1. TurnKept(t) BY DEF ArriveInv, TurnsCarried
 <2>2. ASSUME NEW i \in DOMAIN outbox, NEW k \in {"reply", "summary", "batch", "held"}, Of(outbox[i], t, k)
       PROVE  i \in Showing(t) /\ i \in PartsOf(t, k) BY <2>2 DEF Of, Showing, PartsOf
 <2>3. ASSUME NEW k \in {"reply", "summary"}, Carries(outbox, t, k)
       PROVE  \/ \E i \in Showing(t) : outbox[i].status \in Unsent \cup {"quarantined", "suppressed"}
              \/ PartsOf(t, k) # {} /\ \A i \in PartsOf(t, k) : outbox[i].status = "sent"
  <3>1. PICK j \in DOMAIN outbox : Of(outbox[j], t, k) BY <2>3 DEF Carries
  <3>2. j \in PartsOf(t, k) BY <2>2, <3>1
  <3>3. ASSUME NEW i \in PartsOf(t, k), outbox[i].status # "sent"
        PROVE  i \in Showing(t) /\ outbox[i].status \in Unsent \cup {"quarantined", "suppressed"}
   <4>1. i \in Showing(t) /\ i \in DOMAIN outbox /\ Of(outbox[i], t, k) BY DEF PartsOf, Showing, Of
   <4>2. outbox[i].status # "failed" BY <2>3, <4>1 DEF Carries
   <4> QED BY <1>2, <3>3, <4>1, <4>2 DEF RowStates, Unsent
  <3> QED BY <3>2, <3>3
 <2>4. CASE turn[t].status = "verbatim" BY <2>1, <2>3, <2>4 DEF TurnKept
 <2>5. CASE turn[t].status = "summarized"
  <3>1. CASE \E i \in DOMAIN outbox : Of(outbox[i], t, "held")
   <4>1. PICK i \in DOMAIN outbox : Of(outbox[i], t, "held") BY <3>1
   <4>2. outbox[i].status \in {"quarantined", "suppressed"} BY <4>1 DEF ArriveInv, RowsShaped, RowShape, Of, Away
   <4> QED BY <2>2, <4>1, <4>2
  <3>2. CASE Carries(outbox, t, "summary") BY <2>3, <3>2
  <3> QED BY <2>1, <2>5, <3>1, <3>2 DEF TurnKept
 <2>6. CASE turn[t].status = "batched" /\ batches[turn[t].batch].status # "open"
  <3>1. PICK b : b = turn[t].batch OBVIOUS
  <3>2. Rides(outbox, batches, t, b) /\ batches[b].status # "open" BY <2>1, <2>6, <3>1 DEF TurnKept
  <3>3. CASE \E i \in DOMAIN outbox : /\ Of(outbox[i], t, "batch") /\ outbox[i].key.id = b
                                     /\ outbox[i].key.part = batches[b].attempt
   <4>1. PICK i \in DOMAIN outbox : /\ Of(outbox[i], t, "batch") /\ outbox[i].key.id = b
                                    /\ outbox[i].key.part = batches[b].attempt BY <3>3
   <4>2. outbox[i].status # "failed" BY <4>1 DEF ArriveInv, BatchRows, BatchRow, Of
   <4>3. i \in Showing(t) /\ i \in PartsOf(t, "batch") BY <2>2, <4>1
   <4> QED BY <1>2, <4>2, <4>3 DEF RowStates, Unsent
  <3>4. CASE ~\E i \in DOMAIN outbox : /\ Of(outbox[i], t, "batch") /\ outbox[i].key.id = b
                                      /\ outbox[i].key.part = batches[b].attempt
   <4>1. b \in DOMAIN batches /\ batches[b].back BY <3>2, <3>4 DEF Rides
   <4>2. batches[b] \in Batches BY <4>1, EntryOf DEF OutboxInv
   <4>3. batches[b].status = "posted" BY <3>2, <4>2 DEF Batches
   <4>4. \A i \in Showing(t) : outbox[i].key # Key("batch", b, batches[b].attempt) BY <3>4 DEF Showing, Of, Key
   <4> QED BY <2>6, <3>1, <4>1, <4>3, <4>4 DEF Overtaken
  <3> QED BY <3>3, <3>4
 <2>7. turn[t].status \in {"none", "verbatim", "summarizing", "batched", "summarized"}
  <3>1. turn[t] \in Turns BY <1>1
  <3> QED BY <3>1 DEF Turns
 <2> QED BY <1>3, <2>4, <2>5, <2>6, <2>7
<1>4. notice.told < notice.seen =>
         \/ notice.pending
         \/ \E i \in DOMAIN outbox :
                outbox[i].key.kind = "notice" /\ outbox[i].upto = notice.seen /\ outbox[i].status \in Unsent
 BY DEF ArriveInv, NoticesTrue, NoticeRow, OnItsWay
<1>5. PartsInOrder BY DEF ArriveInv, CardsInOrder, PartOf, PartsInOrder, Parent
<1> QED BY <1>3, <1>4, <1>5 DEF NothingStranded

\* The rows R are added.
Added(box, new, R) ==
    /\ new \in Seq(Rows)
    /\ \A i \in DOMAIN box : i \in DOMAIN new /\ new[i] = box[i]
    /\ \A i \in DOMAIN new : i \in DOMAIN box \/ new[i] \in R
    /\ \A r \in R : \E i \in DOMAIN new : i \notin DOMAIN box /\ new[i] = r

\* Enqueue adds its row unless the key is known.
LEMMA EnqueueAdds ==
  ASSUME NEW box \in Seq(Rows), NEW r \in Rows
  PROVE  Added(box, Enqueue(box, r), IF HasKey(box, r.key) THEN {} ELSE {r})
<1>1. CASE HasKey(box, r.key) BY <1>1 DEF Enqueue, Added
<1>2. CASE ~HasKey(box, r.key)
 <2>1. PICK new : new = Append(box, r) OBVIOUS
 <2>2. PICK k \in Nat : k = Len(box) OBVIOUS
 <2>3. new \in Seq(Rows) /\ DOMAIN new = 1 .. (k + 1) /\ DOMAIN box = 1 .. k BY <2>1, <2>2
 <2>4. new[k + 1] = r /\ \A i \in 1 .. k : new[i] = box[i] BY <2>1, <2>2
 <2>5. \A i \in 1 .. (k + 1) : i \in 1 .. k \/ i = k + 1 OBVIOUS
 <2>6. k + 1 \in DOMAIN new /\ k + 1 \notin DOMAIN box BY <2>3
 <2>7. Added(box, new, {r}) BY <2>3, <2>4, <2>5, <2>6 DEF Added
 <2> QED BY <1>2, <2>1, <2>7 DEF Enqueue
<1> QED BY <1>1, <1>2

\* ... in one place.
LEMMA EnqueueOnce ==
  ASSUME NEW box \in Seq(Rows), NEW r \in Rows,
    NEW i \in DOMAIN Enqueue(box, r) \ DOMAIN box, NEW j \in DOMAIN Enqueue(box, r) \ DOMAIN box
  PROVE  i = j
<1>1. PICK k \in Nat : k = Len(box) /\ DOMAIN box = 1 .. k OBVIOUS
<1>2. DOMAIN Enqueue(box, r) = 1 .. k \/ DOMAIN Enqueue(box, r) = 1 .. (k + 1)
 <2>1. DOMAIN Append(box, r) = 1 .. (k + 1) BY <1>1
 <2> QED BY <1>1, <2>1 DEF Enqueue
<1>3. i = k + 1 /\ j = k + 1 BY <1>1, <1>2
<1> QED BY <1>3

\* The places of the rows that are added.
LEMMA JoinPlaces ==
  ASSUME NEW box \in Seq(Rows), NEW n \in Nat, NEW f \in [1 .. n -> Rows], NEW k \in Nat, k = Len(box)
  PROVE  /\ box \o f \in Seq(Rows) /\ DOMAIN (box \o f) = 1 .. (k + n) /\ DOMAIN box = 1 .. k
         /\ \A i \in 1 .. k : (box \o f)[i] = box[i]
         /\ \A j \in 1 .. n : (box \o f)[k + j] = f[j]
<1>1. PICK new : new = box \o f OBVIOUS
<1>2. f \in Seq(Rows) /\ Len(f) = n OBVIOUS
<1>3. new \in Seq(Rows) /\ Len(new) = k + n /\ DOMAIN box = 1 .. k
 <2>1. box \o f \in Seq(Rows) /\ Len(box \o f) = Len(box) + n /\ Len(box) \in Nat BY <1>2
 <2>2. DOMAIN box = 1 .. Len(box) OBVIOUS
 <2> QED BY <1>1, <2>1, <2>2
<1>4. DOMAIN new = 1 .. (k + n) BY <1>3
<1>5. \A i \in 1 .. k : new[i] = box[i] BY <1>1, <1>2
<1>6. ASSUME NEW j \in 1 .. n PROVE new[k + j] = f[j]
 <2>1. k + j \in 1 .. (k + n) /\ k + j \notin 1 .. k /\ (k + j) - k = j OBVIOUS
 <2> QED BY <1>1, <1>2, <2>1
<1> QED BY <1>1, <1>3, <1>4, <1>5, <1>6

\* Several rows are added.
LEMMA JoinAdds ==
  ASSUME NEW box \in Seq(Rows), NEW n \in Nat, NEW f \in [1 .. n -> Rows]
  PROVE  Added(box, box \o f, {f[j] : j \in 1 .. n})
<1>1. PICK new : new = box \o f OBVIOUS
<1>2. PICK k \in Nat : k = Len(box) OBVIOUS
<1>3. /\ new \in Seq(Rows) /\ DOMAIN new = 1 .. (k + n) /\ DOMAIN box = 1 .. k
      /\ \A i \in 1 .. k : new[i] = box[i]
      /\ \A j \in 1 .. n : new[k + j] = f[j]
 <2>1. /\ box \o f \in Seq(Rows) /\ DOMAIN (box \o f) = 1 .. (k + n) /\ DOMAIN box = 1 .. k
       /\ \A i \in 1 .. k : (box \o f)[i] = box[i]
       /\ \A j \in 1 .. n : (box \o f)[k + j] = f[j] BY <1>2, JoinPlaces
 <2> QED BY <1>1, <2>1
<1>4. \A i \in 1 .. k : i \in 1 .. (k + n) OBVIOUS
<1>5. ASSUME NEW i \in 1 .. (k + n), i \notin 1 .. k PROVE new[i] \in {f[j] : j \in 1 .. n}
 <2>1. i - k \in 1 .. n /\ k + (i - k) = i BY <1>5
 <2>2. PICK j \in 1 .. n : k + j = i BY <2>1
 <2> QED BY <1>3, <2>2
<1>6. ASSUME NEW j \in 1 .. n PROVE k + j \in 1 .. (k + n) /\ k + j \notin 1 .. k OBVIOUS
<1>7. \A i \in DOMAIN box : i \in DOMAIN new /\ new[i] = box[i] BY <1>3, <1>4
<1>8. \A i \in DOMAIN new : i \in DOMAIN box \/ new[i] \in {f[j] : j \in 1 .. n} BY <1>3, <1>5
<1>9. \A r \in {f[j] : j \in 1 .. n} : \E i \in DOMAIN new : i \notin DOMAIN box /\ new[i] = r BY <1>3, <1>6
<1>10. Added(box, new, {f[j] : j \in 1 .. n}) BY <1>3, <1>7, <1>8, <1>9 DEF Added
<1> QED BY <1>1, <1>10

\* The rows of the turn t stay as they are, and none fails.
RowsFor(t) ==
    /\ \A i \in DOMAIN outbox : /\ i \in DOMAIN outbox'
                                /\ outbox'[i].key = outbox[i].key /\ outbox'[i].shows = outbox[i].shows
    /\ \A i \in DOMAIN outbox' :
           Of(outbox'[i], t, "reply") \/ Of(outbox'[i], t, "summary") =>
               i \in DOMAIN outbox /\ (outbox'[i].status = "failed" => outbox[i].status = "failed")

\* A batch is open, or the same but for its window.
BatchFor(b) ==
    b \in DOMAIN batches =>
        /\ b \in DOMAIN batches'
        /\ \/ batches'[b].status = "open"
           \/ /\ batches'[b].status = batches[b].status /\ batches'[b].attempt = batches[b].attempt
              /\ batches[b].back => batches'[b].back

\* A turn that stays is where it was.
LEMMA TurnStays ==
  ASSUME NEW t \in OutTurns, TurnKept(t), turn'[t] = turn[t], RowsFor(t),
    turn[t].status = "batched" => BatchFor(turn[t].batch)
  PROVE  TurnKept(t)'
<1>1. ASSUME NEW k PROVE \A i \in DOMAIN outbox : Of(outbox[i], t, k) => i \in DOMAIN outbox' /\ Of(outbox'[i], t, k)
 BY DEF RowsFor, Of
<1>2. ASSUME NEW k \in {"reply", "summary"}, NEW i \in DOMAIN outbox', Of(outbox'[i], t, k)
      PROVE  /\ i \in DOMAIN outbox /\ Of(outbox[i], t, k)
             /\ outbox'[i].status = "failed" => outbox[i].status = "failed" BY <1>2 DEF RowsFor, Of
<1>3. ASSUME NEW k \in {"reply", "summary"}, Carries(outbox, t, k) PROVE Carries(outbox', t, k)
 BY <1>1, <1>2, <1>3 DEF Carries
<1>4. CASE turn[t].status = "verbatim" BY <1>3, <1>4 DEF TurnKept
<1>5. CASE turn[t].status = "summarizing" BY <1>2, <1>5 DEF TurnKept
<1>6. CASE turn[t].status = "summarized" BY <1>1, <1>3, <1>6 DEF TurnKept
<1>7. CASE turn[t].status = "batched"
 <2>1. PICK b : b = turn[t].batch OBVIOUS
 <2>2. Rides(outbox, batches, t, b) /\ BatchFor(b) BY <1>7, <2>1 DEF TurnKept
 <2>3. Rides(outbox', batches', t, b)
  <3>1. b \in DOMAIN batches /\ b \in DOMAIN batches' BY <2>2 DEF Rides, BatchFor
  <3>2. CASE batches'[b].status = "open" BY <3>1, <3>2 DEF Rides
  <3>3. CASE batches[b].back /\ batches'[b].status # "open" BY <2>2, <3>1, <3>3 DEF BatchFor, Rides
  <3>4. CASE ~batches[b].back /\ batches'[b].status # "open"
   <4>1. batches[b].status # "open" /\ batches'[b].attempt = batches[b].attempt BY <2>2, <3>1, <3>4 DEF BatchFor
   <4>2. PICK i \in DOMAIN outbox : /\ Of(outbox[i], t, "batch") /\ outbox[i].key.id = b
                                    /\ outbox[i].key.part = batches[b].attempt BY <2>2, <3>4, <4>1 DEF Rides
   <4>3. /\ i \in DOMAIN outbox' /\ Of(outbox'[i], t, "batch")
         /\ outbox'[i].key = outbox[i].key BY <1>1, <4>2 DEF RowsFor
   <4> QED BY <3>1, <4>1, <4>2, <4>3 DEF Rides
  <3> QED BY <3>2, <3>3, <3>4
 <2> QED BY <1>7, <2>1, <2>3 DEF TurnKept
<1> QED BY <1>4, <1>5, <1>6, <1>7 DEF TurnKept

\* The batches stay, but for a window that passes, a batch that opens and a new one.
BatchesStay ==
    \A b \in DOMAIN batches :
        b \in DOMAIN batches' /\ batches'[b].status = batches[b].status /\ batches'[b].attempt = batches[b].attempt

\* The rows of the batches stay.
LEMMA BatchRowsStay ==
  ASSUME BatchRows, BatchesStay,
    \A i \in DOMAIN outbox' : outbox'[i].key.kind = "batch" =>
        /\ i \in DOMAIN outbox /\ outbox'[i].key = outbox[i].key
        /\ outbox'[i].status = "failed" <=> outbox[i].status = "failed"
  PROVE  BatchRows'
<1>1. ASSUME NEW i \in DOMAIN outbox', outbox'[i].key.kind = "batch" PROVE BatchRow(outbox'[i], batches')
 <2>1. PICK k : k = outbox'[i].key OBVIOUS
 <2>2. /\ i \in DOMAIN outbox /\ outbox[i].key = k
       /\ outbox'[i].status = "failed" <=> outbox[i].status = "failed" BY <1>1, <2>1
 <2>3. BatchRow(outbox[i], batches) BY <1>1, <2>1, <2>2 DEF BatchRows
 <2> QED BY <2>1, <2>2, <2>3 DEF BatchRow, BatchesStay
<1>2. ASSUME NEW i \in DOMAIN outbox', NEW j \in DOMAIN outbox', outbox'[i].key.kind = "batch",
  outbox'[i].key = outbox'[j].key
      PROVE  i = j
 <2>1. outbox'[j].key.kind = "batch" BY <1>2
 <2>2. i \in DOMAIN outbox /\ j \in DOMAIN outbox /\ outbox'[i].key = outbox[i].key /\ outbox'[j].key = outbox[j].key
  BY <1>2, <2>1
 <2> QED BY <1>2, <2>2 DEF BatchRows
<1> QED BY <1>1, <1>2 DEF BatchRows

\* ... all of it.
LEMMA ListedAll ==
  ASSUME NEW S, IsFiniteSet(S)
  PROVE  \E n, q : n \in Nat /\ q = SetToSeq(S) /\ q \in [1 .. n -> S] /\ \A x \in S : \E i \in 1 .. n : q[i] = x
<1>1. PICK n \in Nat : n = Cardinality(S) BY FS_CardinalityType
<1>2. PICK q : q = SetToSeq(S) OBVIOUS
<1>3. ExistsBijection(1 .. n, S) BY <1>1, FS_CardinalityType
<1>4. PICK f \in Bijection(1 .. n, S) : TRUE BY <1>3 DEF ExistsBijection
<1>5. f \in [1 .. n -> S] /\ IsInjective(f) BY <1>4 DEF Bijection, Injection, IsInjective
<1>6. q \in [1 .. n -> S] /\ IsInjective(q) BY <1>1, <1>2, <1>5 DEF SetToSeq
<1>7. q \in Injection(1 .. n, S) BY <1>6 DEF Injection, IsInjective
<1>8. IsFiniteSet(1 .. n) /\ Cardinality(1 .. n) = Cardinality(S)
 <2>1. IsFiniteSet(1 .. n) /\ Cardinality(1 .. n) = IF 1 > n THEN 0 ELSE n - 1 + 1 BY FS_Interval
 <2> QED BY <1>1, <2>1
<1>9. q \in Surjection(1 .. n, S) BY <1>7, <1>8, FS_Injection
<1>10. \A x \in S : \E i \in 1 .. n : q[i] = x BY <1>9 DEF Surjection
<1> QED BY <1>2, <1>6, <1>10

\* Rows that are no notices are added.
LEMMA AddingShapes ==
  ASSUME OutboxInv, ArriveInv, NEW R, Added(outbox, outbox', R), sending' \in {sending, 0},
    \A r \in R : RowShape(r) /\ r.key.kind # "notice"
  PROVE  RowsShaped' /\ SendingTrue' /\ (notice' = notice => NoticesTrue')
<1>1. ASSUME NEW i \in DOMAIN outbox'
      PROVE  \/ i \in DOMAIN outbox /\ outbox'[i] = outbox[i]
             \/ i \notin DOMAIN outbox /\ RowShape(outbox'[i]) /\ outbox'[i].key.kind # "notice" BY DEF Added
<1>2. RowsShaped' BY <1>1 DEF ArriveInv, RowsShaped
<1>3. SendingTrue'
 <2>1. CASE sending' = 0 BY <2>1 DEF SendingTrue
 <2>2. CASE sending' = sending /\ sending # 0
  <3>1. sending \in DOMAIN outbox BY <2>2 DEF OutboxInv, BoxInv
  <3>2. outbox'[sending] = outbox[sending] BY <3>1 DEF Added
  <3> QED BY <2>2, <3>2 DEF ArriveInv, HandsTrue, SendingTrue
 <2> QED BY <2>1, <2>2
<1>5. ASSUME notice' = notice PROVE NoticesTrue'
 <2>1. NoticesTrue BY DEF ArriveInv
 <2>2. ASSUME NEW i \in DOMAIN outbox', outbox'[i].key.kind = "notice"
       PROVE  i \in DOMAIN outbox /\ outbox'[i] = outbox[i] BY <1>1, <2>2
 <2>3. ASSUME NEW i \in DOMAIN outbox' PROVE NoticeRow(outbox'[i], notice')
  <3>1. CASE outbox'[i].key.kind = "notice" BY <1>5, <2>1, <2>2, <3>1 DEF NoticesTrue
  <3>2. CASE outbox'[i].key.kind # "notice" BY <3>2 DEF NoticeRow, OnItsWay
  <3> QED BY <3>1, <3>2
 <2>4. ASSUME NEW i \in DOMAIN outbox', NEW j \in DOMAIN outbox', OnItsWay(outbox'[i]), OnItsWay(outbox'[j])
       PROVE  i = j
  <3>1. i \in DOMAIN outbox /\ outbox'[i] = outbox[i] /\ j \in DOMAIN outbox /\ outbox'[j] = outbox[j]
   BY <2>2, <2>4 DEF OnItsWay
  <3> QED BY <2>1, <2>4, <3>1 DEF NoticesTrue
 <2>5. (\E i \in DOMAIN outbox : OnItsWay(outbox[i])) => \E i \in DOMAIN outbox' : OnItsWay(outbox'[i]) BY DEF Added
 <2> QED BY <1>5, <2>1, <2>3, <2>4, <2>5 DEF NoticesTrue
<1> QED BY <1>2, <1>3, <1>5

\* Rows that are neither notices nor parts of a card are added.
LEMMA AddingKeeps ==
  ASSUME OutboxInv, ArriveInv, NEW R, Added(outbox, outbox', R), sending' \in {sending, 0},
    \A r \in R : RowShape(r) /\ r.key.kind \notin {"notice", "card"}
  PROVE  RowsShaped' /\ SendingTrue' /\ CardsInOrder' /\ (notice' = notice => NoticesTrue')
<1>1. RowsShaped' /\ SendingTrue' /\ (notice' = notice => NoticesTrue') BY AddingShapes
<1>2. ASSUME NEW i \in DOMAIN outbox', outbox'[i].key.kind = "card"
      PROVE  i \in DOMAIN outbox /\ outbox'[i] = outbox[i] BY <1>2 DEF Added
<1>3. ASSUME NEW i \in DOMAIN outbox', NEW p \in DOMAIN outbox', PartOf(outbox'[i], outbox'[p])
      PROVE  p < i /\ (~outbox'[i].thread => outbox'[p].status \notin Unsent)
 <2>1. outbox'[i].key.kind = "card" /\ outbox'[p].key.kind = "card" BY <1>3 DEF PartOf
 <2>2. i \in DOMAIN outbox /\ outbox'[i] = outbox[i] /\ p \in DOMAIN outbox /\ outbox'[p] = outbox[p] BY <1>2, <2>1
 <2> QED BY <1>3, <2>2 DEF ArriveInv, CardsInOrder
<1> QED BY <1>1, <1>3 DEF CardsInOrder

\* Nothing is added.
LEMMA AddsNone == ASSUME outbox \in Seq(Rows), outbox' = outbox PROVE Added(outbox, outbox', {})
BY DEF Added

\* The batch that a reply joins is open, and its window runs; the others stay.
LEMMA JoinedOpen ==
  ASSUME batches \in Seq(Batches)
  PROVE  /\ Joined \in DOMAIN BatchesWith /\ BatchesWith[Joined].status = "open"
         /\ Joined \in DOMAIN batches => ~batches[Joined].due
         /\ \A b \in DOMAIN batches : b \in DOMAIN BatchesWith /\ BatchesWith[b] = batches[b]
<1>1. PICK k \in Nat : k = Len(batches) /\ DOMAIN batches = 1 .. k OBVIOUS
<1>2. CASE OpenBatch = {}
 <2>1. PICK z : z = [status |-> "open", due |-> FALSE, attempt |-> 0, back |-> FALSE] OBVIOUS
 <2>2. z \in Batches /\ z.status = "open" BY <2>1 DEF Batches
 <2>3. BatchesWith = Append(batches, z) /\ Joined = k + 1 BY <1>1, <1>2, <2>1 DEF BatchesWith, Joined
 <2>4. PICK new : new = Append(batches, z) OBVIOUS
 <2>5. DOMAIN new = 1 .. (k + 1) /\ new[k + 1] = z /\ \A b \in 1 .. k : new[b] = batches[b] BY <1>1, <2>2, <2>4
 <2>6. k + 1 \in 1 .. (k + 1) /\ k + 1 \notin 1 .. k /\ \A b \in 1 .. k : b \in 1 .. (k + 1) OBVIOUS
 <2> QED BY <1>1, <2>2, <2>3, <2>4, <2>5, <2>6
<1>3. CASE OpenBatch # {}
 <2>1. OpenBatch \subseteq Nat BY <1>1 DEF OpenBatch
 <2>2. \E b \in OpenBatch : \A c \in OpenBatch : b <= c BY <1>3, <2>1, LeastOne
 <2>3. Joined \in OpenBatch /\ BatchesWith = batches BY <1>3, <2>2 DEF Joined, BatchesWith
 <2> QED BY <2>3 DEF OpenBatch
<1> QED BY <1>2, <1>3

\* What is being rendered stays while its batch does.
LEMMA RenderStays ==
  ASSUME RenderingTrue, rendering' = rendering, NEW b, b = rendering.batch,
    rendering # NoRender =>
        /\ b \in DOMAIN batches => b \in DOMAIN batches' /\ batches'[b] = batches[b]
        /\ \A t \in OutTurns : (turn'[t].status = "batched" /\ turn'[t].batch = b)
                                 <=> (turn[t].status = "batched" /\ turn[t].batch = b)
  PROVE  RenderingTrue'
<1> SUFFICES ASSUME rendering # NoRender PROVE RenderingTrue' BY DEF RenderingTrue
<1>1. InBatch(b)' = InBatch(b) BY DEF InBatch
<1>2. InBatch(rendering.batch)' = InBatch(rendering.batch) BY <1>1
<1> QED BY <1>2 DEF RenderingTrue

\* ... or gains replies, once the clock was set back.
LEMMA RenderLags ==
  ASSUME RenderingTrue, rendering' = rendering, NEW b, b = rendering.batch,
    /\ b \in DOMAIN batches' /\ batches'[b].status = "open"
    /\ batches'[b].attempt = batches[b].attempt /\ batches'[b].back,
    \A t \in OutTurns : turn[t].status = "batched" /\ turn[t].batch = b =>
        turn'[t].status = "batched" /\ turn'[t].batch = b
  PROVE  RenderingTrue'
<1> SUFFICES ASSUME rendering # NoRender PROVE RenderingTrue' BY DEF RenderingTrue
<1>1. InBatch(b) \subseteq InBatch(b)' BY DEF InBatch
<1>2. InBatch(rendering.batch)' = InBatch(b)' OBVIOUS
<1> QED BY <1>1, <1>2 DEF RenderingTrue

\* The held turns have their rows, and the others stay.
LEMMA HoldArrives ==
  ASSUME OutboxInv, ArriveInv, NEW ts \in SUBSET OutTurns, \A t \in ts : Taken(t), HoldTurns(ts),
    BatchesStay, \A b : BatchFor(b), sending' = sending, notice' = notice
  PROVE  /\ RowsShaped' /\ BatchRows' /\ TurnsCarried' /\ SendingTrue' /\ CardsInOrder' /\ NoticesTrue'
         /\ \A t \in OutTurns : turn'[t] = turn[t] \/ (t \in ts /\ turn'[t].status = "summarized")
         /\ \A t \in ts : turn'[t].status = "summarized"
<1>1. turn \in [OutTurns -> Turns] /\ outbox \in Seq(Rows) BY DEF OutboxInv, BoxInv
<1>2. ASSUME NEW t \in OutTurns
      PROVE  /\ t \notin ts => turn'[t] = turn[t]
             /\ t \in ts => turn'[t].status = "summarized"
 <2>1. turn[t] \in Turns BY <1>1
 <2>2. PICK z : z = [turn[t] EXCEPT !.status = "summarized", !.batch = 0] OBVIOUS
 <2>3. z.status = "summarized" BY <2>1, <2>2 DEF Turns
 <2>4. turn'[t] = IF t \in ts THEN z ELSE turn[t] BY <2>2 DEF HoldTurns
 <2> QED BY <2>3, <2>4
<1>4. PICK new : new = {t \in ts : ~HasKey(outbox, Key("held", t, 0))} OBVIOUS
<1>5. PICK n, q : /\ n \in Nat /\ q = SetToSeq(new) /\ q \in [1 .. n -> new]
                  /\ \A t \in new : \E i \in 1 .. n : q[i] = t
 <2>1. new \subseteq OutTurns BY <1>4
 <2>2. IsFiniteSet(new) BY <2>1, OutboxBounds, FS_Subset
 <2> QED BY <2>2, ListedAll
<1>6. PICK f : f = [i \in 1 .. n |-> HeldRow(q[i])] OBVIOUS
<1>7. outbox' = outbox \o f BY <1>4, <1>5, <1>6 DEF HoldTurns, HeldRows
<1>8. ASSUME NEW t \in ts
      PROVE  /\ HeldRow(t) \in Rows /\ HeldRow(t).key.kind = "held" /\ HeldRow(t).key.id = t
             /\ HeldRow(t).shows = {t}
             /\ HeldRow(t).status \in Away /\ ~HeldRow(t).thread
 <2>1. PICK r : r = RequestRow(Key("held", t, 0), OwnersOf(t), {t}) OBVIOUS
 <2>2. Key("held", t, 0) \in Keys /\ OwnersOf(t) \in SUBSET People /\ {t} \in SUBSET OutTurns
  BY <1>1 DEF Key, Keys, Kinds, OwnersOf, Turns
 <2>3. r \in Rows /\ r.key = Key("held", t, 0) /\ r.shows = {t} BY <2>1, <2>2, RequestRowIs
 <2>4. ~r.thread BY <2>1 DEF RequestRow, Row, Key
 <2>5. HeldRow(t) = [r EXCEPT !.status = HeldStatus(t)] /\ HeldStatus(t) \in Away /\ HeldStatus(t) \in RowStates
  BY <2>1 DEF HeldRow, HeldStatus, Away, RowStates
 <2>6. PICK z : z = HeldRow(t) OBVIOUS
 <2>7. z \in Rows /\ z.key = r.key /\ z.shows = r.shows /\ z.status = HeldStatus(t) /\ z.thread = r.thread
  BY <2>3, <2>5, <2>6 DEF Rows
 <2>8. r.key.kind = "held" /\ r.key.id = t BY <2>3 DEF Key
 <2> QED BY <2>3, <2>4, <2>5, <2>6, <2>7, <2>8
<1>9. f \in [1 .. n -> Rows] /\ \A j \in 1 .. n : q[j] \in ts /\ f[j] = HeldRow(q[j]) BY <1>4, <1>5, <1>6, <1>8
<1>10. PICK R : R = {f[j] : j \in 1 .. n} OBVIOUS
<1>11. Added(outbox, outbox', R) BY <1>1, <1>5, <1>7, <1>9, <1>10, JoinAdds
<1>12. ASSUME NEW r \in R PROVE \E t \in ts : r = HeldRow(t) BY <1>9, <1>10
<1>13. ASSUME NEW r \in R PROVE RowShape(r) /\ r.key.kind = "held"
 <2>1. PICK t \in ts : r = HeldRow(t) BY <1>12
 <2>2. r.key.kind = "held" /\ r.key.id = t /\ r.shows = {t} /\ r.status \in Away /\ ~r.thread BY <1>8, <2>1
 <2> QED BY <2>2 DEF RowShape, Away
<1>14. RowsShaped' /\ SendingTrue' /\ CardsInOrder' /\ NoticesTrue' BY <1>11, <1>13, AddingKeeps
<1>15. ASSUME NEW i \in DOMAIN outbox', outbox'[i].key.kind # "held"
       PROVE  i \in DOMAIN outbox /\ outbox'[i] = outbox[i] BY <1>11, <1>13, <1>15 DEF Added
<1>16. BatchRows' BY <1>15, BatchRowsStay DEF ArriveInv
<1>17. ASSUME NEW t \in OutTurns PROVE TurnKept(t)'
 <2>1. CASE t \notin ts
  <3>1. RowsFor(t) BY <1>11, <1>15 DEF RowsFor, Added, Of
  <3>2. TurnKept(t) /\ turn'[t] = turn[t] BY <1>2, <2>1 DEF ArriveInv, TurnsCarried
  <3> QED BY <3>1, <3>2, TurnStays
 <2>2. CASE t \in ts
  <3>1. \E i \in DOMAIN outbox' : Of(outbox'[i], t, "held")
   <4>1. CASE t \in new
    <5>1. PICK j \in 1 .. n : q[j] = t BY <1>5, <4>1
    <5>2. HeldRow(t) \in R BY <1>9, <1>10, <5>1
    <5>3. PICK i \in DOMAIN outbox' : outbox'[i] = HeldRow(t) BY <1>11, <5>2 DEF Added
    <5> QED BY <1>8, <2>2, <5>3 DEF Of
   <4>2. CASE t \notin new
    <5>1. PICK i \in DOMAIN outbox : outbox[i].key = Key("held", t, 0) BY <1>4, <2>2, <4>2 DEF HasKey
    <5>2. outbox[i].key.kind = "held" /\ outbox[i].key.id = t BY <5>1 DEF Key
    <5>3. outbox[i].shows = {t} BY <5>2 DEF ArriveInv, RowsShaped, RowShape
    <5>4. i \in DOMAIN outbox' /\ outbox'[i] = outbox[i] BY <1>11 DEF Added
    <5> QED BY <5>2, <5>3, <5>4 DEF Of
   <4> QED BY <4>1, <4>2
  <3>2. turn'[t].status = "summarized" BY <1>2, <2>2
  <3> QED BY <3>1, <3>2 DEF TurnKept
 <2> QED BY <2>1, <2>2
<1> QED BY <1>2, <1>14, <1>16, <1>17 DEF TurnsCarried

\* A turn that was in no batch joins the open one.
LEMMA BackstopArrives ==
  ASSUME OutboxInv, ArriveInv, NEW t \in OutTurns, turn[t].status # "batched",
    NEW z \in Turns, z.status = "batched", z.batch = Joined, turn' = [turn EXCEPT ![t] = z],
    batches' = BatchesWith, rendering' = rendering, \A x \in OutTurns \ {t} : RowsFor(x)
  PROVE  TurnsCarried' /\ BatchesStay /\ RenderingTrue'
<1>1. turn \in [OutTurns -> Turns] /\ batches \in Seq(Batches) BY DEF OutboxInv
<1>2. /\ Joined \in DOMAIN batches' /\ batches'[Joined].status = "open"
      /\ Joined \in DOMAIN batches => ~batches[Joined].due
      /\ \A b \in DOMAIN batches : b \in DOMAIN batches' /\ batches'[b] = batches[b] BY <1>1, JoinedOpen
<1>3. turn'[t] = z /\ \A x \in OutTurns \ {t} : turn'[x] = turn[x] BY <1>1
<1>4. BatchesStay BY <1>2 DEF BatchesStay
<1>5. ASSUME NEW x \in OutTurns PROVE TurnKept(x)'
 <2>1. CASE x # t
  <3>1. TurnKept(x) /\ turn'[x] = turn[x] /\ RowsFor(x) BY <1>3, <2>1 DEF ArriveInv, TurnsCarried
  <3>2. BatchFor(turn[x].batch) BY <1>2 DEF BatchFor
  <3> QED BY <3>1, <3>2, TurnStays
 <2>2. CASE x = t
  <3>1. turn'[x].status = "batched" /\ turn'[x].batch = Joined BY <1>3, <2>2
  <3>2. Rides(outbox', batches', x, Joined) BY <1>2 DEF Rides
  <3> QED BY <3>1, <3>2 DEF TurnKept
 <2> QED BY <2>1, <2>2
<1>6. RenderingTrue'
 <2>1. PICK b : b = rendering.batch OBVIOUS
 <2>2. RenderingTrue BY DEF ArriveInv, HandsTrue
 <2>3. rendering # NoRender => b \in DOMAIN batches /\ batches[b].status = "open" BY <2>1, <2>2 DEF RenderingTrue
 <2>4. rendering # NoRender => batches'[b] = batches[b] /\ b \in DOMAIN batches' BY <1>2, <2>3
 <2>5. CASE rendering # NoRender /\ batches[b].back
  <3>1. \A x \in OutTurns : turn[x].status = "batched" => turn'[x] = turn[x] BY <1>3
  <3> QED BY <2>1, <2>2, <2>3, <2>4, <2>5, <3>1, RenderLags
 <2>6. CASE ~(rendering # NoRender /\ batches[b].back)
  <3>1. rendering # NoRender => b # Joined BY <1>2, <2>1, <2>2, <2>3, <2>6 DEF RenderingTrue
  <3>2. ASSUME rendering # NoRender, NEW x \in OutTurns
        PROVE  (turn'[x].status = "batched" /\ turn'[x].batch = b)
                 <=> (turn[x].status = "batched" /\ turn[x].batch = b)
   <4>1. CASE x # t BY <1>3, <4>1
   <4>2. CASE x = t BY <1>3, <3>1, <3>2, <4>2
   <4> QED BY <4>1, <4>2
  <3> QED BY <2>1, <2>2, <2>4, <3>2, RenderStays
 <2> QED BY <2>5, <2>6
<1> QED BY <1>4, <1>5, <1>6 DEF TurnsCarried

\* The rows of every turn stay when nothing is added.
LEMMA SameRowsFor == ASSUME outbox' = outbox, NEW t PROVE RowsFor(t)
BY DEF RowsFor

\* A step that leaves the rows, the turns and the batches alone.
LEMMA QuietArrives ==
  ASSUME ArriveInv, UNCHANGED <<outbox, turn, batches>>
  PROVE  /\ RowsShaped' /\ BatchRows' /\ TurnsCarried' /\ CardsInOrder'
         /\ summing' \in {summing, 0} => SummingTrue'
         /\ sending' \in {sending, 0} => SendingTrue'
         /\ rendering' \in {rendering, NoRender} => RenderingTrue'
         /\ notice' = notice => NoticesTrue'
<1>1. RowsShaped' /\ BatchRows' /\ CardsInOrder' /\ (notice' = notice => NoticesTrue')
 BY DEF ArriveInv, RowsShaped, BatchRows, CardsInOrder, NoticesTrue
<1>2. \A t \in OutTurns : TurnKept(t)' BY DEF ArriveInv, TurnsCarried, TurnKept
<1>3. summing' \in {summing, 0} => SummingTrue' BY DEF ArriveInv, HandsTrue, SummingTrue
<1>4. sending' \in {sending, 0} => SendingTrue' BY DEF ArriveInv, HandsTrue, SendingTrue
<1>5. rendering' \in {rendering, NoRender} => RenderingTrue'
 <2>1. \A b : InBatch(b)' = InBatch(b) BY DEF InBatch
 <2> QED BY <2>1 DEF ArriveInv, HandsTrue, RenderingTrue
<1> QED BY <1>1, <1>2, <1>3, <1>4, <1>5 DEF TurnsCarried

\* on_stop.
LEMMA ReplyArrives ==
  ASSUME OutboxInv, ArriveInv, NEW t \in OutTurns, NEW o \in People, NEW m, Reply(t, o, m)
  PROVE  ArriveInv'
<1>1. turn \in [OutTurns -> Turns] /\ outbox \in Seq(Rows) /\ batches \in Seq(Batches) BY DEF OutboxInv, BoxInv
<1>2. turn[t].status = "none" /\ UNCHANGED <<summing, rendering, sending, notice>> BY DEF Reply
<1>3. ASSUME NEW i \in DOMAIN outbox PROVE t \notin outbox[i].shows BY <1>2 DEF OutboxInv, BoxInv, Owned
<1>4. ASSUME NEW z, turn' = [turn EXCEPT ![t] = z]
      PROVE  SummingTrue' /\ (z.status # "batched" /\ batches' = batches => RenderingTrue')
 <2>1. turn'[t] = z /\ \A x \in OutTurns \ {t} : turn'[x] = turn[x] BY <1>1, <1>4
 <2>2. SummingTrue' BY <1>2, <2>1 DEF ArriveInv, HandsTrue, SummingTrue, OutboxInv, WorkInv
 <2>3. ASSUME z.status # "batched", batches' = batches PROVE RenderingTrue'
  <3>1. PICK b : b = rendering.batch OBVIOUS
  <3>2. RenderingTrue BY DEF ArriveInv, HandsTrue
  <3>3. ASSUME NEW x \in OutTurns
        PROVE  (turn'[x].status = "batched" /\ turn'[x].batch = b)
                 <=> (turn[x].status = "batched" /\ turn[x].batch = b) BY <1>2, <2>1, <2>3
  <3> QED BY <1>2, <2>3, <3>1, <3>2, <3>3, RenderStays
 <2> QED BY <2>2, <2>3
<1>5. CASE /\ m = "verbatim"
           /\ turn' = [turn EXCEPT ![t] = [NoTurn EXCEPT !.status = "verbatim", !.owner = o]]
           /\ \E n \in 1 .. MaxParts : outbox' = outbox \o PartRows(t, {o} \ {Nobody}, n)
           /\ UNCHANGED batches
 <2>1. PICK z : z = [NoTurn EXCEPT !.status = "verbatim", !.owner = o] OBVIOUS
 <2>2. z.status = "verbatim" BY <2>1 DEF NoTurn
 <2>3. turn' = [turn EXCEPT ![t] = z] BY <1>5, <2>1
 <2>4. PICK n \in 1 .. MaxParts : outbox' = outbox \o PartRows(t, {o} \ {Nobody}, n) BY <1>5
 <2>5. n \in Nat /\ 1 \in 1 .. n BY <2>4, OutboxBounds
 <2>6. PICK f : f = PartRows(t, {o} \ {Nobody}, n) OBVIOUS
 <2>7. ASSUME NEW j \in 1 .. n
       PROVE  /\ f[j] \in Rows /\ f[j].key.kind = "reply" /\ f[j].key.id = t /\ f[j].shows = {t}
              /\ f[j].status = "pending" /\ ~f[j].thread
  <3>1. PICK k : k = Key("reply", t, j) OBVIOUS
  <3>2. k \in Keys /\ k.kind = "reply" /\ k.id = t /\ {o} \ {Nobody} \in SUBSET People /\ {t} \in SUBSET OutTurns
   BY <2>5, <3>1 DEF Key, Keys, Kinds
  <3>3. f[j] = RequestRow(k, {o} \ {Nobody}, {t}) BY <2>6, <3>1 DEF PartRows
  <3>4. RequestRow(k, {o} \ {Nobody}, {t}) \in Rows BY <3>2, RequestRowIs
  <3>5. /\ RequestRow(k, {o} \ {Nobody}, {t}).key = k /\ RequestRow(k, {o} \ {Nobody}, {t}).shows = {t}
        /\ RequestRow(k, {o} \ {Nobody}, {t}).status = "pending"
        /\ RequestRow(k, {o} \ {Nobody}, {t}).thread = (k.kind = "card" /\ k.part > 1) BY DEF RequestRow, Row
  <3> QED BY <3>2, <3>3, <3>4, <3>5
 <2>8. f \in [1 .. n -> Rows] BY <2>6, <2>7 DEF PartRows
 <2>9. PICK R : R = {f[j] : j \in 1 .. n} OBVIOUS
 <2>10. Added(outbox, outbox', R) BY <1>1, <2>4, <2>5, <2>6, <2>8, <2>9, JoinAdds
 <2>11. ASSUME NEW r \in R
        PROVE  /\ r.key.kind = "reply" /\ r.key.id = t /\ r.shows = {t} /\ r.status = "pending"
               /\ RowShape(r)
  <3>1. PICK j \in 1 .. n : r = f[j] BY <2>9
  <3> QED BY <2>7, <3>1 DEF RowShape
 <2>12. RowsShaped' /\ SendingTrue' /\ CardsInOrder' /\ NoticesTrue' BY <1>2, <2>10, <2>11, AddingKeeps
 <2>13. ASSUME NEW i \in DOMAIN outbox'
        PROVE  \/ i \in DOMAIN outbox /\ outbox'[i] = outbox[i]
               \/ outbox'[i].key.kind = "reply" /\ outbox'[i].shows = {t} /\ outbox'[i].status = "pending"
  BY <2>10, <2>11 DEF Added
 <2>14. BatchRows'
  <3>1. BatchesStay BY <1>5 DEF BatchesStay
  <3> QED BY <2>13, <3>1, BatchRowsStay DEF ArriveInv
 <2>15. ASSUME NEW x \in OutTurns PROVE TurnKept(x)'
  <3>1. CASE x # t
   <4>1. RowsFor(x) BY <2>10, <2>13, <3>1 DEF RowsFor, Added, Of
   <4>2. TurnKept(x) /\ turn'[x] = turn[x] BY <1>1, <2>3, <3>1 DEF ArriveInv, TurnsCarried
   <4>3. BatchFor(turn[x].batch) BY <1>5 DEF BatchFor
   <4> QED BY <4>1, <4>2, <4>3, TurnStays
  <3>2. CASE x = t
   <4>1. turn'[x].status = "verbatim" BY <1>1, <2>2, <2>3, <3>2
   <4>2. PICK r \in R : TRUE BY <2>5, <2>9
   <4>3. PICK i \in DOMAIN outbox' : outbox'[i] = r BY <2>10, <4>2 DEF Added
   <4>4. Of(outbox'[i], x, "reply") BY <2>11, <3>2, <4>2, <4>3 DEF Of
   <4>5. \A j \in DOMAIN outbox' : Of(outbox'[j], x, "reply") => outbox'[j].status # "failed"
    BY <1>3, <2>13, <3>2 DEF Of
   <4>6. Carries(outbox', x, "reply") BY <4>4, <4>5 DEF Carries
   <4> QED BY <4>1, <4>6 DEF TurnKept
  <3> QED BY <3>1, <3>2
 <2>16. SummingTrue' /\ RenderingTrue' BY <1>4, <1>5, <2>2, <2>3
 <2> QED BY <2>12, <2>14, <2>15, <2>16 DEF ArriveInv, TurnsCarried, HandsTrue
<1>6. CASE /\ m = "summary"
           /\ turn' = [turn EXCEPT ![t] = [NoTurn EXCEPT !.status = "summarizing", !.owner = o]]
           /\ UNCHANGED <<outbox, batches>>
 <2>1. PICK z : z = [NoTurn EXCEPT !.status = "summarizing", !.owner = o] OBVIOUS
 <2>2. z.status = "summarizing" BY <2>1 DEF NoTurn
 <2>3. turn' = [turn EXCEPT ![t] = z] BY <1>6, <2>1
 <2>4. Added(outbox, outbox', {}) BY <1>1, <1>6, AddsNone
 <2>5. RowsShaped' /\ SendingTrue' /\ CardsInOrder' /\ NoticesTrue' BY <1>2, <2>4, AddingKeeps
 <2>6. BatchRows' BY <1>6 DEF ArriveInv, BatchRows
 <2>7. ASSUME NEW x \in OutTurns PROVE TurnKept(x)'
  <3>1. CASE x # t
   <4>1. TurnKept(x) /\ turn'[x] = turn[x] BY <1>1, <2>3, <3>1 DEF ArriveInv, TurnsCarried
   <4>2. BatchFor(turn[x].batch) /\ RowsFor(x) BY <1>6, SameRowsFor DEF BatchFor
   <4> QED BY <4>1, <4>2, TurnStays
  <3>2. CASE x = t
   <4>1. turn'[x].status = "summarizing" BY <1>1, <2>2, <2>3, <3>2
   <4>2. \A i \in DOMAIN outbox' : ~Of(outbox'[i], x, "summary") BY <1>3, <1>6, <3>2 DEF Of
   <4> QED BY <4>1, <4>2 DEF TurnKept
  <3> QED BY <3>1, <3>2
 <2>8. SummingTrue' /\ RenderingTrue' BY <1>4, <1>6, <2>2, <2>3
 <2> QED BY <2>5, <2>6, <2>7, <2>8 DEF ArriveInv, TurnsCarried, HandsTrue
<1>7. CASE /\ turn' = [turn EXCEPT ![t] = [status |-> "batched", owner |-> o, batch |-> Joined]]
           /\ batches' = BatchesWith
           /\ UNCHANGED outbox
 <2>1. PICK z : z = [status |-> "batched", owner |-> o, batch |-> Joined] OBVIOUS
 <2>2. z \in Turns /\ z.status = "batched" /\ z.batch = Joined BY <1>1, <2>1, JoinedIs DEF Turns
 <2>3. turn' = [turn EXCEPT ![t] = z] /\ turn[t].status # "batched" BY <1>2, <1>7, <2>1
 <2>4. \A x \in OutTurns \ {t} : RowsFor(x) BY <1>7, SameRowsFor
 <2>5. TurnsCarried' /\ BatchesStay /\ RenderingTrue' BY <1>2, <1>7, <2>2, <2>3, <2>4, BackstopArrives
 <2>6. Added(outbox, outbox', {}) BY <1>1, <1>7, AddsNone
 <2>7. RowsShaped' /\ SendingTrue' /\ CardsInOrder' /\ NoticesTrue' BY <1>2, <2>6, AddingKeeps
 <2>8. BatchRows' BY <1>7, <2>5, BatchRowsStay DEF ArriveInv
 <2>9. SummingTrue' BY <1>4, <2>3
 <2> QED BY <2>5, <2>7, <2>8, <2>9 DEF ArriveInv, HandsTrue
<1> QED BY <1>5, <1>6, <1>7 DEF Reply

\* A turn that is in no batch moves, and joins none.
LEMMA OneTurnMoves ==
  ASSUME OutboxInv, ArriveInv, NEW t \in OutTurns, NEW z, turn' = [turn EXCEPT ![t] = z],
    turn[t].status # "batched", z.status # "batched", batches' = batches, rendering' = rendering
  PROVE  RenderingTrue'
<1>1. turn'[t] = z /\ \A x \in OutTurns \ {t} : turn'[x] = turn[x] BY DEF OutboxInv
<1>2. PICK b : b = rendering.batch OBVIOUS
<1>3. RenderingTrue BY DEF ArriveInv, HandsTrue
<1>4. ASSUME NEW x \in OutTurns
      PROVE  (turn'[x].status = "batched" /\ turn'[x].batch = b)
               <=> (turn[x].status = "batched" /\ turn[x].batch = b) BY <1>1
<1> QED BY <1>2, <1>3, <1>4, RenderStays

\* A step that holds turns leaves what is being summarised, and what is rendered if it holds none of it.
LEMMA HoldHands ==
  ASSUME OutboxInv, ArriveInv, NEW ts \in SUBSET OutTurns,
    \A t \in OutTurns : turn'[t] = turn[t] \/ (t \in ts /\ turn'[t].status = "summarized")
  PROVE  /\ (summing' = summing /\ \A t \in ts : turn[t].status # "summarizing") => SummingTrue'
         /\ (UNCHANGED <<rendering, batches>> /\ \A t \in ts : turn[t].status # "batched") => RenderingTrue'
<1>1. ASSUME summing' = summing, \A t \in ts : turn[t].status # "summarizing" PROVE SummingTrue'
 <2>1. SummingTrue /\ summing \in OutTurns \cup {0} BY DEF ArriveInv, HandsTrue, OutboxInv, WorkInv
 <2> QED BY <1>1, <2>1 DEF SummingTrue
<1>2. ASSUME UNCHANGED <<rendering, batches>>, \A t \in ts : turn[t].status # "batched" PROVE RenderingTrue'
 <2>1. PICK b : b = rendering.batch OBVIOUS
 <2>2. RenderingTrue BY DEF ArriveInv, HandsTrue
 <2>3. ASSUME NEW x \in OutTurns
       PROVE  (turn'[x].status = "batched" /\ turn'[x].batch = b)
                <=> (turn[x].status = "batched" /\ turn[x].batch = b) BY <1>2
 <2> QED BY <1>2, <2>1, <2>2, <2>3, RenderStays
<1> QED BY <1>1, <1>2

\* The summariser takes a turn, or it is held.
LEMMA SummaryBeginArrives ==
  ASSUME OutboxInv, ArriveInv, NEW t \in OutTurns, SummaryBegins(t)
  PROVE  ArriveInv'
<1>1. /\ turn[t].status = "summarizing" /\ summing = 0
      /\ UNCHANGED <<batches, rendering, sending, notice>> BY DEF SummaryBegins
<1>2. CASE Untrusted(t)
 <2>1. HoldTurns({t}) /\ summing' = summing BY <1>2 DEF SummaryBegins
 <2>2. PICK ts \in SUBSET OutTurns : ts = {t} OBVIOUS
 <2>3. \A x \in ts : Taken(x) BY <1>1, <2>2 DEF Taken
 <2>4. HoldTurns(ts) BY <2>1, <2>2
 <2>5. /\ RowsShaped' /\ BatchRows' /\ TurnsCarried' /\ SendingTrue' /\ CardsInOrder' /\ NoticesTrue'
       /\ \A x \in OutTurns : turn'[x] = turn[x] \/ (x \in ts /\ turn'[x].status = "summarized")
  <3>1. BatchesStay /\ \A c : BatchFor(c) BY <1>1 DEF BatchesStay, BatchFor
  <3> QED BY <1>1, <2>3, <2>4, <3>1, HoldArrives
 <2>6. \A x \in ts : turn[x].status # "batched" BY <1>1, <2>2
 <2>7. RenderingTrue' BY <1>1, <2>5, <2>6, HoldHands
 <2>8. SummingTrue' BY <1>1, <2>1 DEF SummingTrue
 <2> QED BY <2>5, <2>7, <2>8 DEF ArriveInv, HandsTrue
<1>3. CASE ~Untrusted(t)
 <2>1. summing' = t /\ UNCHANGED <<outbox, turn>> BY <1>3 DEF SummaryBegins
 <2>2. SummingTrue' BY <1>1, <2>1 DEF SummingTrue
 <2> QED BY <1>1, <2>1, <2>2, QuietArrives DEF ArriveInv, HandsTrue
<1> QED BY <1>2, <1>3

\* The summariser's answer.
LEMMA SummaryEndArrives ==
  ASSUME OutboxInv, ArriveInv, NEW how, SummaryEnds(how)
  PROVE  ArriveInv'
<1>1. /\ summing \in OutTurns /\ turn[summing].status = "summarizing" /\ outbox \in Seq(Rows)
      /\ turn \in [OutTurns -> Turns] /\ batches \in Seq(Batches)
 BY DEF OutboxInv, WorkInv, BoxInv, SummaryEnds, ArriveInv, HandsTrue, SummingTrue
<1>2. PICK t \in OutTurns : t = summing BY <1>1
<1>3. summing' = 0 /\ UNCHANGED <<rendering, sending, notice>> /\ turn[t].status = "summarizing"
 BY <1>1, <1>2 DEF SummaryEnds
<1>4. SummingTrue' BY <1>3 DEF SummingTrue
<1>5. turn[t] \in Turns BY <1>1
<1>6. CASE how = "good"
 <2>1. PICK z : z = [turn[t] EXCEPT !.status = "summarized"] OBVIOUS
 <2>2. z.status = "summarized" BY <1>5, <2>1 DEF Turns
 <2>3. turn' = [turn EXCEPT ![t] = z] /\ batches' = batches BY <1>2, <1>6, <2>1 DEF SummaryEnds
 <2>4. PICK k : k = Key("summary", t, 1) OBVIOUS
 <2>5. /\ k \in Keys /\ k.kind = "summary" /\ k.id = t
       /\ OwnersOf(t) \in SUBSET People /\ {t} \in SUBSET OutTurns
  BY <1>5, <2>4 DEF Key, Keys, Kinds, OwnersOf, Turns
 <2>6. PICK r : r = RequestRow(k, OwnersOf(t), {t}) OBVIOUS
 <2>7. r \in Rows /\ r.key = k /\ r.shows = {t} BY <2>5, <2>6, RequestRowIs
 <2>8. r.status = "pending" /\ ~r.thread
  <3>1. r.status = "pending" /\ r.thread = (k.kind = "card" /\ k.part > 1) BY <2>6 DEF RequestRow, Row
  <3> QED BY <2>5, <3>1
 <2>9. \A i \in DOMAIN outbox : ~Of(outbox[i], t, "summary") BY <1>3 DEF ArriveInv, TurnsCarried, TurnKept
 <2>10. ~HasKey(outbox, r.key)
  <3> SUFFICES ASSUME NEW i \in DOMAIN outbox, outbox[i].key = k PROVE FALSE BY <2>7 DEF HasKey
  <3>1. outbox[i].shows = {t} BY <2>5 DEF ArriveInv, RowsShaped, RowShape
  <3> QED BY <2>5, <2>9, <3>1 DEF Of
 <2>11. Added(outbox, outbox', {r})
  <3>1. outbox' = Enqueue(outbox, r) BY <1>2, <1>6, <2>4, <2>6 DEF SummaryEnds
  <3>2. Added(outbox, Enqueue(outbox, r), {r}) BY <1>1, <2>7, <2>10, EnqueueAdds
  <3> QED BY <3>1, <3>2
 <2>12. RowShape(r) /\ r.key.kind = "summary" BY <2>5, <2>7, <2>8 DEF RowShape
 <2>13. RowsShaped' /\ SendingTrue' /\ CardsInOrder' /\ NoticesTrue' BY <1>3, <2>11, <2>12, AddingKeeps
 <2>14. ASSUME NEW i \in DOMAIN outbox'
        PROVE  (i \in DOMAIN outbox /\ outbox'[i] = outbox[i]) \/ outbox'[i] = r BY <2>11 DEF Added
 <2>15. BatchRows'
  <3>1. BatchesStay BY <2>3 DEF BatchesStay
  <3>2. \A i \in DOMAIN outbox' : outbox'[i].key.kind = "batch" => i \in DOMAIN outbox /\ outbox'[i] = outbox[i]
   BY <2>12, <2>14
  <3> QED BY <3>1, <3>2, BatchRowsStay DEF ArriveInv
 <2>16. ASSUME NEW x \in OutTurns PROVE TurnKept(x)'
  <3>1. CASE x # t
   <4>1. RowsFor(x) BY <2>7, <2>11, <2>14, <3>1 DEF RowsFor, Added, Of
   <4>2. TurnKept(x) /\ turn'[x] = turn[x] BY <1>1, <2>3, <3>1 DEF ArriveInv, TurnsCarried
   <4>3. BatchFor(turn[x].batch) BY <2>3 DEF BatchFor
   <4> QED BY <4>1, <4>2, <4>3, TurnStays
  <3>2. CASE x = t
   <4>1. turn'[x].status = "summarized" BY <1>1, <2>2, <2>3, <3>2
   <4>2. PICK i \in DOMAIN outbox' : outbox'[i] = r BY <2>11 DEF Added
   <4>3. Of(outbox'[i], x, "summary") BY <2>7, <2>12, <3>2, <4>2 DEF Of
   <4>4. \A j \in DOMAIN outbox' : Of(outbox'[j], x, "summary") => outbox'[j].status # "failed"
    BY <2>8, <2>9, <2>14, <3>2
   <4>5. Carries(outbox', x, "summary") BY <4>3, <4>4 DEF Carries
   <4> QED BY <4>1, <4>5 DEF TurnKept
  <3> QED BY <3>1, <3>2
 <2>17. RenderingTrue' BY <1>3, <2>2, <2>3, OneTurnMoves
 <2> QED BY <1>4, <2>13, <2>15, <2>16, <2>17 DEF ArriveInv, TurnsCarried, HandsTrue
<1>7. CASE how # "good"
 <2>1. QueueBackstop(summing) /\ outbox' = outbox BY <1>7 DEF SummaryEnds
 <2>2. PICK z : z = [turn[t] EXCEPT !.status = "batched", !.batch = Joined] OBVIOUS
 <2>3. z \in Turns /\ z.status = "batched" /\ z.batch = Joined BY <1>1, <1>5, <2>2, JoinedIs DEF Turns
 <2>4. turn' = [turn EXCEPT ![t] = z] /\ batches' = BatchesWith
  BY <1>1, <1>2, <1>5, <2>1, <2>2 DEF QueueBackstop, Turns
 <2>5. \A x \in OutTurns \ {t} : RowsFor(x) BY <2>1, SameRowsFor
 <2>6. TurnsCarried' /\ BatchesStay /\ RenderingTrue' BY <1>3, <2>3, <2>4, <2>5, BackstopArrives
 <2>7. Added(outbox, outbox', {}) BY <1>1, <2>1, AddsNone
 <2>8. RowsShaped' /\ SendingTrue' /\ CardsInOrder' /\ NoticesTrue' BY <1>3, <2>7, AddingKeeps
 <2>9. BatchRows' BY <2>1, <2>6, BatchRowsStay DEF ArriveInv
 <2> QED BY <1>4, <2>6, <2>8, <2>9 DEF ArriveInv, HandsTrue
<1> QED BY <1>6, <1>7

\* A window passes, of a batch that is not being rendered unless the clock was set back.
LEMMA WindowArrives ==
  ASSUME OutboxInv, ArriveInv, NEW b \in DOMAIN batches, WindowPasses(b)
  PROVE  ArriveInv'
<1>1. UNCHANGED <<outbox, turn, summing, rendering, sending, notice>> BY DEF WindowPasses
<1>2. batches \in Seq(Batches) /\ batches[b] \in Batches /\ outbox \in Seq(Rows) BY EntryOf DEF OutboxInv, BoxInv
<1>3. PICK z : z = [batches[b] EXCEPT !.due = TRUE] OBVIOUS
<1>4. z.status = batches[b].status /\ z.attempt = batches[b].attempt /\ z.back = batches[b].back
 BY <1>2, <1>3 DEF Batches
<1>5. batches' = [batches EXCEPT ![b] = z] /\ ~batches[b].due BY <1>3 DEF WindowPasses
<1>6. DOMAIN batches' = DOMAIN batches /\ batches'[b] = z /\ \A c \in DOMAIN batches : c # b => batches'[c] = batches[c]
 BY <1>5
<1>7. BatchesStay BY <1>4, <1>6 DEF BatchesStay
<1>8. BatchRows' BY <1>1, <1>7, BatchRowsStay DEF ArriveInv
<1>9. ASSUME NEW t \in OutTurns PROVE TurnKept(t)'
 <2>1. BatchFor(turn[t].batch) /\ RowsFor(t) BY <1>1, <1>4, <1>6, SameRowsFor DEF BatchFor
 <2> QED BY <1>1, <2>1, TurnStays DEF ArriveInv, TurnsCarried
<1>10. RenderingTrue'
 <2>1. PICK c : c = rendering.batch OBVIOUS
 <2>2. RenderingTrue BY DEF ArriveInv, HandsTrue
 <2>3. CASE rendering # NoRender /\ c = b
  <3>1. batches[c].status = "open" /\ batches[c].back BY <1>5, <2>1, <2>2, <2>3 DEF RenderingTrue
  <3> QED BY <1>1, <1>4, <1>6, <2>1, <2>2, <2>3, <3>1, RenderLags
 <2>4. CASE ~(rendering # NoRender /\ c = b) BY <1>1, <1>6, <2>1, <2>2, <2>4, RenderStays
 <2> QED BY <2>3, <2>4
<1>11. Added(outbox, outbox', {}) BY <1>1, <1>2, AddsNone
<1>12. RowsShaped' /\ SendingTrue' /\ CardsInOrder' /\ NoticesTrue' BY <1>1, <1>11, AddingKeeps
<1>13. SummingTrue' BY <1>1 DEF ArriveInv, HandsTrue, SummingTrue
<1> QED BY <1>8, <1>9, <1>10, <1>12, <1>13 DEF ArriveInv, TurnsCarried, HandsTrue

\* close_due_batches up to the rendering: what lost its operator is held, and the rest is all there is.
LEMMA RenderArrives ==
  ASSUME OutboxInv, ArriveInv, NEW b \in DOMAIN batches, BatchRenders(b)
  PROVE  ArriveInv'
<1>1. PICK ts \in SUBSET OutTurns : ts = {t \in InBatch(b) : Untrusted(t)} BY DEF InBatch
<1>2. PICK ok \in SUBSET OutTurns : ok = {t \in InBatch(b) : ~Untrusted(t)} BY DEF InBatch
<1>3. /\ HoldTurns(ts) /\ UNCHANGED <<summing, sending, notice>>
      /\ rendering' = [batch |-> b, attempt |-> batches[b].attempt, turns |-> ok]
      /\ batches[b].status = "open" /\ batches[b].due
      /\ batches' = [batches EXCEPT ![b].back = FALSE] BY <1>1, <1>2 DEF BatchRenders
<1>b. /\ DOMAIN batches' = DOMAIN batches /\ \A c \in DOMAIN batches : c # b => batches'[c] = batches[c]
      /\ batches'[b].status = "open" /\ batches'[b].attempt = batches[b].attempt /\ batches'[b].due
 <2>1. PICK z : z = [batches[b] EXCEPT !.back = FALSE] OBVIOUS
 <2>2. batches[b] \in Batches BY EntryOf DEF OutboxInv
 <2>3. z.status = "open" /\ z.attempt = batches[b].attempt /\ z.due BY <1>3, <2>1, <2>2 DEF Batches
 <2>4. batches' = [batches EXCEPT ![b] = z] BY <1>3, <2>1
 <2> QED BY <2>3, <2>4
<1>c. BatchesStay /\ \A c : BatchFor(c) BY <1>3, <1>b DEF BatchesStay, BatchFor
<1>4. \A t \in ts : Taken(t) /\ turn[t].status = "batched" BY <1>1 DEF InBatch, Taken
<1>5. /\ RowsShaped' /\ BatchRows' /\ TurnsCarried' /\ SendingTrue' /\ CardsInOrder' /\ NoticesTrue'
      /\ \A t \in OutTurns : turn'[t] = turn[t] \/ (t \in ts /\ turn'[t].status = "summarized")
      /\ \A t \in ts : turn'[t].status = "summarized" BY <1>3, <1>4, <1>c, HoldArrives
<1>6. SummingTrue' BY <1>3, <1>4, <1>5, HoldHands
<1>7. InBatch(b)' = ok
 <2>1. ASSUME NEW t \in OutTurns PROVE t \in InBatch(b)' <=> t \in ok
  <3>1. CASE t \in ts BY <1>1, <1>2, <1>5, <3>1 DEF InBatch
  <3>2. CASE t \notin ts BY <1>1, <1>2, <1>5, <3>2 DEF InBatch
  <3> QED BY <3>1, <3>2
 <2>2. InBatch(b)' \subseteq OutTurns BY DEF InBatch
 <2> QED BY <2>1, <2>2
<1>8. RenderingTrue'
 <2>1. rendering'.batch = b /\ rendering'.attempt = batches[b].attempt /\ rendering'.turns = ok BY <1>3
 <2>2. InBatch(rendering.batch)' = ok BY <1>7, <2>1 DEF InBatch
 <2> QED BY <1>b, <2>1, <2>2 DEF RenderingTrue
<1> QED BY <1>5, <1>6, <1>8 DEF ArriveInv, HandsTrue

\* close_due_batches after the rendering: the batch is closed with a row that shows all of it,
\* unless the clock was set back.
LEMMA BatchPostArrives ==
  ASSUME OutboxInv, ArriveInv, BatchPosts
  PROVE  ArriveInv'
<1>1. /\ rendering \in Renders /\ outbox \in Seq(Rows)
      /\ turn \in [OutTurns -> Turns] /\ batches \in Seq(Batches)
      /\ rendering # NoRender /\ rendering' = NoRender /\ UNCHANGED <<summing, sending, notice>>
 BY DEF OutboxInv, WorkInv, BoxInv, BatchPosts
<1>2. PICK ts \in SUBSET OutTurns : ts = rendering.turns BY <1>1 DEF Renders
<1>3. PICK b : b = rendering.batch OBVIOUS
<1>4. PICK a : a = rendering.attempt OBVIOUS
<1>5. /\ b \in DOMAIN batches /\ batches[b].status = "open" /\ batches[b].attempt = a
      /\ ts \subseteq InBatch(b) /\ (batches[b].back \/ ts = InBatch(b))
 BY <1>1, <1>2, <1>3, <1>4 DEF ArriveInv, HandsTrue, RenderingTrue
<1>6. \A t \in ts : Taken(t) /\ turn[t].status = "batched" /\ turn[t].batch = b BY <1>5 DEF InBatch, Taken
<1>7. RenderingTrue' BY <1>1 DEF RenderingTrue
<1>8. CASE \E t \in ts : Untrusted(t)
 <2>1. PICK us \in SUBSET OutTurns : us = {t \in ts : Untrusted(t)} OBVIOUS
 <2>2. HoldTurns(us) /\ batches' = batches BY <1>2, <1>8, <2>1 DEF BatchPosts
 <2>3. \A t \in us : Taken(t) /\ turn[t].status = "batched" BY <1>6, <2>1
 <2>4. /\ RowsShaped' /\ BatchRows' /\ TurnsCarried' /\ SendingTrue' /\ CardsInOrder' /\ NoticesTrue'
       /\ \A t \in OutTurns : turn'[t] = turn[t] \/ (t \in us /\ turn'[t].status = "summarized")
  <3>1. BatchesStay /\ \A c : BatchFor(c) BY <2>2 DEF BatchesStay, BatchFor
  <3> QED BY <1>1, <2>2, <2>3, <3>1, HoldArrives
 <2>5. SummingTrue' BY <1>1, <2>2, <2>3, <2>4, HoldHands
 <2> QED BY <1>7, <2>4, <2>5 DEF ArriveInv, HandsTrue
<1>9. CASE ~\E t \in ts : Untrusted(t)
 <2>1. PICK z : z = [batches[b] EXCEPT !.status = "posted"] OBVIOUS
 <2>2. z.status = "posted" /\ z.attempt = a /\ z.back = batches[b].back
  <3>1. batches[b] \in Batches BY <1>1, <1>5, EntryOf
  <3> QED BY <1>5, <2>1, <3>1 DEF Batches
 <2>3. turn' = turn /\ batches' = [batches EXCEPT ![b] = z] BY <1>2, <1>3, <1>9, <2>1 DEF BatchPosts
 <2>4. DOMAIN batches' = DOMAIN batches /\ batches'[b] = z /\ \A c \in DOMAIN batches : c # b => batches'[c] = batches[c]
  BY <1>5, <2>3
 <2>5. PICK k : k = Key("batch", b, a) OBVIOUS
 <2>6. k \in Keys /\ k.kind = "batch" /\ k.id = b /\ k.part = a
  BY <1>1, <1>3, <1>4, <2>5 DEF Renders, Key, Keys, Kinds
 <2>7. PICK r : r = RequestRow(k, BatchOwners(ts), ts) OBVIOUS
 <2>8. BatchOwners(ts) \in SUBSET People
  <3>1. \A t \in ts : OwnersOf(t) \in SUBSET People BY <1>1 DEF OwnersOf, Turns
  <3> QED BY <3>1 DEF BatchOwners
 <2>9. r \in Rows /\ r.key = k /\ r.shows = ts BY <2>6, <2>7, <2>8, RequestRowIs
 <2>10. r.status = "pending" /\ ~r.thread
  <3>1. r.status = "pending" /\ r.thread = (k.kind = "card" /\ k.part > 1) BY <2>7 DEF RequestRow, Row
  <3> QED BY <2>6, <3>1
 <2>11. ASSUME NEW i \in DOMAIN outbox, outbox[i].key.kind = "batch", outbox[i].key.id = b
        PROVE  outbox[i].key.part # a
  <3>1. BatchRow(outbox[i], batches) BY <2>11 DEF ArriveInv, BatchRows
  <3> QED BY <1>5, <2>11, <3>1 DEF BatchRow
 <2>12. ~HasKey(outbox, r.key) BY <2>6, <2>9, <2>11 DEF HasKey
 <2>13. PICK R : R = IF ts = {} THEN {} ELSE {r} OBVIOUS
 <2>14. Added(outbox, outbox', R)
  <3>1. CASE ts = {}
   <4>1. outbox' = outbox BY <1>2, <1>9, <3>1 DEF BatchPosts
   <4> QED BY <1>1, <2>13, <3>1, <4>1, AddsNone
  <3>2. CASE ts # {}
   <4>1. outbox' = Enqueue(outbox, r) BY <1>2, <1>3, <1>4, <1>9, <2>5, <2>7, <3>2 DEF BatchPosts
   <4>2. Added(outbox, Enqueue(outbox, r), {r}) BY <1>1, <2>9, <2>12, EnqueueAdds
   <4> QED BY <2>13, <3>2, <4>1, <4>2
  <3> QED BY <3>1, <3>2
 <2>15. RowShape(r) /\ r.key.kind = "batch" BY <2>6, <2>9, <2>10 DEF RowShape
 <2>16. RowsShaped' /\ SendingTrue' /\ CardsInOrder' /\ NoticesTrue'
  <3>1. \A q \in R : RowShape(q) /\ q.key.kind \notin {"notice", "card"} BY <2>13, <2>15
  <3> QED BY <1>1, <2>14, <3>1, AddingKeeps
 <2>17. ASSUME NEW i \in DOMAIN outbox'
        PROVE  (i \in DOMAIN outbox /\ outbox'[i] = outbox[i]) \/ outbox'[i] = r BY <2>13, <2>14 DEF Added
 <2>18. ASSUME NEW i \in DOMAIN outbox', outbox'[i].key.kind = "batch" PROVE BatchRow(outbox'[i], batches')
  <3>1. CASE i \in DOMAIN outbox /\ outbox'[i] = outbox[i]
   <4>1. BatchRow(outbox[i], batches) BY <2>18, <3>1 DEF ArriveInv, BatchRows
   <4>2. CASE outbox[i].key.id = b
    <5>1. outbox[i].key.part # a BY <2>11, <2>18, <3>1, <4>2
    <5> QED BY <1>5, <2>2, <2>4, <3>1, <4>1, <4>2, <5>1 DEF BatchRow
   <4>3. CASE outbox[i].key.id # b BY <2>4, <3>1, <4>1, <4>3 DEF BatchRow
   <4> QED BY <4>2, <4>3
  <3>2. CASE outbox'[i] = r
   <4>1. a \in Nat BY <1>1, <1>4 DEF Renders
   <4> QED BY <1>5, <2>2, <2>4, <2>6, <2>9, <2>10, <3>2, <4>1 DEF BatchRow
  <3> QED BY <2>17, <3>1, <3>2
 <2>19. ASSUME NEW t \in OutTurns PROVE TurnKept(t)'
  <3>1. CASE turn[t].status = "batched" /\ turn[t].batch = b /\ batches[b].back
   <4>1. Rides(outbox', batches', t, b) BY <1>5, <2>2, <2>4, <3>1 DEF Rides
   <4> QED BY <2>3, <3>1, <4>1 DEF TurnKept
  <3>3. CASE turn[t].status = "batched" /\ turn[t].batch = b /\ ~batches[b].back
   <4>1. t \in ts BY <1>5, <3>3 DEF InBatch
   <4>2. PICK i \in DOMAIN outbox' : outbox'[i] = r BY <2>13, <2>14, <4>1 DEF Added
   <4>3. Of(outbox'[i], t, "batch") /\ outbox'[i].key.id = b /\ outbox'[i].key.part = batches'[b].attempt
    BY <2>2, <2>4, <2>6, <2>9, <4>1, <4>2 DEF Of
   <4>4. Rides(outbox', batches', t, b) BY <1>5, <2>4, <4>3 DEF Rides
   <4> QED BY <2>3, <3>3, <4>4 DEF TurnKept
  <3>2. CASE ~(turn[t].status = "batched" /\ turn[t].batch = b)
   <4>1. RowsFor(t) BY <2>14, <2>15, <2>17 DEF RowsFor, Added, Of
   <4>2. turn[t].status = "batched" => BatchFor(turn[t].batch) BY <2>4, <3>2 DEF BatchFor
   <4>3. TurnKept(t) /\ turn'[t] = turn[t] BY <2>3 DEF ArriveInv, TurnsCarried
   <4> QED BY <4>1, <4>2, <4>3, TurnStays
  <3> QED BY <3>1, <3>2, <3>3
 <2>20. SummingTrue' BY <1>1, <2>3 DEF ArriveInv, HandsTrue, SummingTrue
 <2>21. ASSUME NEW i \in DOMAIN outbox', NEW j \in DOMAIN outbox', outbox'[i].key.kind = "batch",
   outbox'[i].key = outbox'[j].key
        PROVE  i = j
  <3>1. ASSUME NEW x \in DOMAIN outbox, outbox[x].key = r.key PROVE FALSE BY <2>12, <3>1 DEF HasKey
  <3>2. CASE i \in DOMAIN outbox /\ j \in DOMAIN outbox
   <4>1. outbox'[i] = outbox[i] /\ outbox'[j] = outbox[j] BY <2>14, <3>2 DEF Added
   <4> QED BY <2>21, <3>2, <4>1 DEF ArriveInv, BatchRows
  <3>3. CASE i \in DOMAIN outbox /\ j \notin DOMAIN outbox
   <4>1. outbox'[i] = outbox[i] /\ outbox'[j] = r BY <2>14, <2>17, <3>3 DEF Added
   <4> QED BY <2>21, <3>1, <3>3, <4>1
  <3>4. CASE i \notin DOMAIN outbox /\ j \in DOMAIN outbox
   <4>1. outbox'[j] = outbox[j] /\ outbox'[i] = r BY <2>14, <2>17, <3>4 DEF Added
   <4> QED BY <2>21, <3>1, <3>4, <4>1
  <3>5. CASE i \notin DOMAIN outbox /\ j \notin DOMAIN outbox
   <4>1. outbox' = outbox \/ outbox' = Enqueue(outbox, r) BY <1>2, <1>3, <1>4, <1>9, <2>5, <2>7 DEF BatchPosts
   <4> QED BY <1>1, <2>9, <3>5, <4>1, EnqueueOnce
  <3> QED BY <3>2, <3>3, <3>4, <3>5
 <2> QED BY <1>7, <2>16, <2>18, <2>19, <2>20, <2>21 DEF ArriveInv, BatchRows, TurnsCarried, HandsTrue
<1> QED BY <1>8, <1>9

\* Rows are added that carry no reply.
LEMMA OtherRows ==
  ASSUME OutboxInv, ArriveInv, UNCHANGED <<turn, batches, summing, rendering, sending, notice>>,
    NEW R, Added(outbox, outbox', R),
    \A r \in R : RowShape(r) /\ r.key.kind \notin {"notice", "reply", "summary", "batch"}
  PROVE  /\ CardsInOrder' => ArriveInv'
         /\ (\A r \in R : r.key.kind # "card") => ArriveInv'
<1>1. ASSUME NEW i \in DOMAIN outbox', outbox'[i].key.kind \in {"reply", "summary", "batch"}
      PROVE  i \in DOMAIN outbox /\ outbox'[i] = outbox[i] BY <1>1 DEF Added
<1>2. RowsShaped' /\ SendingTrue' /\ NoticesTrue' BY AddingShapes
<1>3. BatchRows'
 <2>1. BatchesStay BY DEF BatchesStay
 <2> QED BY <1>1, <2>1, BatchRowsStay DEF ArriveInv
<1>4. ASSUME NEW t \in OutTurns PROVE TurnKept(t)'
 <2>1. RowsFor(t) BY <1>1 DEF RowsFor, Added, Of
 <2>2. TurnKept(t) /\ turn'[t] = turn[t] /\ BatchFor(turn[t].batch) BY DEF ArriveInv, TurnsCarried, BatchFor
 <2> QED BY <2>1, <2>2, TurnStays
<1>5. SummingTrue' /\ RenderingTrue'
 <2>1. SummingTrue' BY DEF ArriveInv, HandsTrue, SummingTrue
 <2>2. PICK b : b = rendering.batch OBVIOUS
 <2>3. RenderingTrue' BY <2>2, RenderStays DEF ArriveInv, HandsTrue
 <2> QED BY <2>1, <2>3
<1>6. (\A r \in R : r.key.kind # "card") => CardsInOrder' BY AddingKeeps
<1> QED BY <1>2, <1>3, <1>4, <1>5, <1>6 DEF ArriveInv, TurnsCarried, HandsTrue

\* A row of one of the other kinds is enqueued.
LEMMA OtherRow ==
  ASSUME OutboxInv, ArriveInv, UNCHANGED <<turn, batches, summing, rendering, sending, notice>>,
    NEW r \in Rows, r.key.kind \in {"alert", "unverified", "details"}, r.status = "pending", ~r.thread,
    outbox' = Enqueue(outbox, r)
  PROVE  ArriveInv'
<1>1. PICK R : R = IF HasKey(outbox, r.key) THEN {} ELSE {r} OBVIOUS
<1>2. outbox \in Seq(Rows) BY DEF OutboxInv, BoxInv
<1>3. Added(outbox, outbox', R) BY <1>1, <1>2, EnqueueAdds
<1>4. RowShape(r) BY DEF RowShape
<1>5. /\ \A q \in R : RowShape(q) /\ q.key.kind \notin {"notice", "reply", "summary", "batch"}
      /\ \A q \in R : q.key.kind # "card" BY <1>1, <1>4
<1> QED BY <1>3, <1>5, OtherRows

\* A row that was just made is pending.
LEMMA NewRow ==
  ASSUME NEW k, k.kind # "card"
  PROVE  /\ \A own, sh : RequestRow(k, own, sh).status = "pending" /\ ~RequestRow(k, own, sh).thread
         /\ SystemRow(k).status = "pending" /\ ~SystemRow(k).thread /\ SystemRow(k).key = k
BY DEF RequestRow, SystemRow, Row

\* Alerts, and what !details posts.
LEMMA AlertArrives ==
  ASSUME OutboxInv, ArriveInv, NEW how, AlertRelays(how)
  PROVE  ArriveInv'
<1>1. UNCHANGED <<turn, batches, summing, rendering, sending, notice>> BY DEF AlertRelays
<1>2. CASE outbox' = outbox BY <1>1, <1>2, QuietArrives DEF ArriveInv, HandsTrue
<1>3. CASE outbox' = Enqueue(outbox, SystemRow(Key("alert", 1, 0)))
 <2>1. PICK k : k = Key("alert", 1, 0) OBVIOUS
 <2>2. k \in Keys /\ k.kind = "alert" BY <2>1 DEF Key, Keys, Kinds
 <2>3. PICK r : r = SystemRow(k) OBVIOUS
 <2>4. r \in Rows BY <2>2, <2>3, SystemRowIs
 <2>5. r.status = "pending" /\ ~r.thread /\ r.key = k BY <2>2, <2>3, NewRow
 <2> QED BY <1>1, <1>3, <2>1, <2>2, <2>3, <2>4, <2>5, OtherRow
<1> QED BY <1>2, <1>3 DEF AlertRelays

\* !details.
LEMMA DetailsArrive ==
  ASSUME OutboxInv, ArriveInv,
    \/ \E by \in Senders, i \in DOMAIN outbox : DetailsBegins(by, i)
    \/ \E t \in OutTurns : DetailsReads(t)
    \/ DetailsPublish
  PROVE  ArriveInv'
<1>1. UNCHANGED <<turn, batches, summing, rendering, sending, notice>>
 BY DEF DetailsBegins, DetailsReads, DetailsPublish
<1>2. /\ command \in Commands /\ turn \in [OutTurns -> Turns]
      /\ command.by \in People /\ command.shows \in SUBSET OutTurns BY DEF OutboxInv, WorkInv, Commands
<1>3. CASE outbox' = outbox BY <1>1, <1>3, QuietArrives DEF ArriveInv, HandsTrue
<1>4. CASE DetailsDenied
 <2>1. PICK k : k = Key("unverified", 1, 0) OBVIOUS
 <2>2. k \in Keys /\ k.kind = "unverified" /\ {command.by} \in SUBSET People BY <1>2, <2>1 DEF Key, Keys, Kinds
 <2>3. PICK r : r = RequestRow(k, {command.by}, {}) OBVIOUS
 <2>4. r \in Rows /\ r.key = k BY <2>2, <2>3, RequestRowIs
 <2>5. r.status = "pending" /\ ~r.thread BY <2>2, <2>3, NewRow
 <2>6. outbox' = Enqueue(outbox, r) BY <1>4, <2>1, <2>3 DEF DetailsDenied
 <2> QED BY <1>1, <2>2, <2>4, <2>5, <2>6, OtherRow
<1>5. CASE outbox' = Enqueue(outbox, RequestRow(Key("details", 1, 0),
                         {command.by} \cup UNION {OwnersOf(t) : t \in command.shows}, command.shows))
 <2>1. PICK k : k = Key("details", 1, 0) OBVIOUS
 <2>2. PICK own : own = {command.by} \cup UNION {OwnersOf(t) : t \in command.shows} OBVIOUS
 <2>3. k \in Keys /\ k.kind = "details" BY <2>1 DEF Key, Keys, Kinds
 <2>4. own \in SUBSET People
  <3>1. \A t \in command.shows : OwnersOf(t) \in SUBSET People BY <1>2 DEF OwnersOf, Turns
  <3> QED BY <1>2, <2>2, <3>1
 <2>5. PICK r : r = RequestRow(k, own, command.shows) OBVIOUS
 <2>6. r \in Rows /\ r.key = k BY <1>2, <2>3, <2>4, <2>5, RequestRowIs
 <2>7. r.status = "pending" /\ ~r.thread BY <2>3, <2>5, NewRow
 <2> QED BY <1>1, <1>5, <2>1, <2>2, <2>3, <2>5, <2>6, <2>7, OtherRow
<1> QED BY <1>3, <1>4, <1>5 DEF DetailsBegins, DetailsReads, DetailsPublish

\* A card has two parts, in order, and hangs together.
LEMMA CardArrives ==
  ASSUME OutboxInv, ArriveInv, NEW o \in People, CardPosts(o)
  PROVE  ArriveInv'
<1>1. /\ outbox \in Seq(Rows) /\ UNCHANGED <<turn, batches, summing, rendering, sending, notice>>
      /\ \A i \in DOMAIN outbox : outbox[i].key.kind # "card" BY DEF CardPosts, OutboxInv, BoxInv
<1>2. PICK f : f = [p \in 1 .. 2 |-> IF o = Nobody THEN SystemRow(Key("card", 1, p))
                                     ELSE RequestRow(Key("card", 1, p), {o}, {})]
 OBVIOUS
<1>3. ASSUME NEW p \in 1 .. 2
      PROVE  /\ f[p] \in Rows /\ f[p].key.kind = "card" /\ f[p].key.part = p /\ f[p].status = "pending"
             /\ f[p].thread = (p > 1)
 <2>1. PICK k : k = Key("card", 1, p) OBVIOUS
 <2>2. k \in Keys /\ k.kind = "card" /\ k.part = p /\ {o} \in SUBSET People BY <2>1 DEF Key, Keys, Kinds
 <2>3. f[p] = IF o = Nobody THEN SystemRow(k) ELSE RequestRow(k, {o}, {}) BY <1>2, <2>1
 <2>4. SystemRow(k) \in Rows /\ RequestRow(k, {o}, {}) \in Rows BY <2>2, SystemRowIs, RequestRowIs
 <2>5. /\ SystemRow(k).key = k /\ SystemRow(k).status = "pending"
       /\ SystemRow(k).thread = (k.kind = "card" /\ k.part > 1)
       /\ RequestRow(k, {o}, {}).key = k /\ RequestRow(k, {o}, {}).status = "pending"
       /\ RequestRow(k, {o}, {}).thread = (k.kind = "card" /\ k.part > 1) BY DEF SystemRow, RequestRow, Row
 <2>6. CASE o = Nobody BY <2>2, <2>3, <2>4, <2>5, <2>6
 <2>7. CASE o # Nobody BY <2>2, <2>3, <2>4, <2>5, <2>7
 <2> QED BY <2>6, <2>7
<1>4. f \in [1 .. 2 -> Rows] /\ outbox' = outbox \o f BY <1>2, <1>3 DEF CardPosts
<1>5. PICK R : R = {f[j] : j \in 1 .. 2} OBVIOUS
<1>6. Added(outbox, outbox', R) BY <1>1, <1>4, <1>5, JoinAdds
<1>7. ASSUME NEW r \in R PROVE RowShape(r) /\ r.key.kind \notin {"notice", "reply", "summary", "batch"}
 <2>1. PICK p \in 1 .. 2 : r = f[p] BY <1>5
 <2> QED BY <1>3, <2>1 DEF RowShape
<1>8. PICK k \in Nat : k = Len(outbox) /\ DOMAIN outbox = 1 .. k BY <1>1
<1>9. DOMAIN outbox' = 1 .. (k + 2) /\ outbox'[k + 1] = f[1] /\ outbox'[k + 2] = f[2]
 <2>1. PICK m \in Nat : m = 2 OBVIOUS
 <2>2. f \in [1 .. m -> Rows] BY <1>4, <2>1
 <2>3. DOMAIN outbox' = 1 .. (k + m) /\ \A j \in 1 .. m : outbox'[k + j] = f[j] BY <1>1, <1>4, <1>8, <2>2, JoinPlaces
 <2>4. 1 \in 1 .. m /\ 2 \in 1 .. m BY <2>1
 <2> QED BY <2>1, <2>3, <2>4
<1>10. ASSUME NEW i \in DOMAIN outbox', outbox'[i].key.kind = "card" PROVE i = k + 1 \/ i = k + 2
 <2>1. i \notin DOMAIN outbox BY <1>1, <1>6, <1>10 DEF Added
 <2> QED BY <1>8, <1>9, <2>1
<1>11. ASSUME NEW i \in DOMAIN outbox', NEW p \in DOMAIN outbox', PartOf(outbox'[i], outbox'[p])
       PROVE  p < i /\ (~outbox'[i].thread => outbox'[p].status \notin Unsent)
 <2>0. outbox'[i].key \in Keys
  <3>1. outbox'[i] \in Rows BY <1>6, EntryOf DEF Added
  <3> QED BY <3>1 DEF Rows
 <2>1. /\ outbox'[i].key.kind = "card" /\ outbox'[p].key.kind = "card" /\ outbox'[p].key.part = 1
       /\ outbox'[i].key.part > 1 BY <1>11, <2>0 DEF PartOf, Keys
 <2>2. i = k + 2 BY <1>3, <1>9, <1>10, <2>1
 <2>3. p = k + 1 BY <1>3, <1>9, <1>10, <2>1
 <2>4. p < i BY <1>8, <2>2, <2>3
 <2>5. 2 \in 1 .. 2 /\ 2 > 1 OBVIOUS
 <2>6. outbox'[i].thread BY <1>3, <1>9, <2>2, <2>5
 <2> QED BY <2>4, <2>6
<1>12. CardsInOrder' BY <1>11 DEF CardsInOrder
<1> QED BY <1>1, <1>6, <1>7, <1>12, OtherRows

\* Steps that change neither rows nor turns nor batches.
LEMMA AsideArrives ==
  ASSUME OutboxInv, ArriveInv,
    \/ Observe \/ CadencePasses \/ Restarts
    \/ (\E i \in backoff : TimerEnds(i)) \/ (\E o \in Senders : OwnersChange(o))
  PROVE  ArriveInv'
<1>1. /\ UNCHANGED <<outbox, turn, batches>>
      /\ \/ UNCHANGED <<summing, rendering, sending>>
         \/ summing' = 0 /\ rendering' = NoRender /\ sending' = 0
 BY DEF Observe, CadencePasses, TimerEnds, OwnersChange, Restarts
<1>2. notice \in NoticeStates BY DEF OutboxInv
<1>3. PICK k \in Nat : k = notice.seen + 1 BY <1>2 DEF NoticeStates
<1>4. \/ notice' = notice
      \/ notice' = [notice EXCEPT !.pending = TRUE, !.seen = k]
      \/ notice' = [notice EXCEPT !.cool = FALSE]
 BY <1>3 DEF Observe, CadencePasses, TimerEnds, OwnersChange, Restarts
<1>5. /\ notice'.unresolved = notice.unresolved
      /\ \/ notice'.pending = TRUE
         \/ notice'.pending = notice.pending /\ notice'.seen = notice.seen /\ notice'.told = notice.told
 BY <1>2, <1>4 DEF NoticeStates
<1>6. NoticesTrue' BY <1>1, <1>5 DEF ArriveInv, NoticesTrue, NoticeRow
<1> QED BY <1>1, <1>6, QuietArrives DEF ArriveInv, HandsTrue

\* The clock is set back: windows run again, and only a batch that was being rendered may gain replies.
LEMMA ClockArrives ==
  ASSUME OutboxInv, ArriveInv, NEW bs, ClockBack(bs)
  PROVE  ArriveInv'
<1>1. UNCHANGED <<outbox, turn, summing, rendering, sending>> BY DEF ClockBack
<1>2. outbox \in Seq(Rows) /\ notice \in NoticeStates /\ batches \in Seq(Batches) BY DEF OutboxInv, BoxInv
<1>3. /\ DOMAIN batches' = DOMAIN batches
      /\ \A b \in DOMAIN batches :
             /\ batches'[b].status = batches[b].status /\ batches'[b].attempt = batches[b].attempt
             /\ batches[b].back => batches'[b].back
             /\ batches'[b] = batches[b] \/ (b = rendering.batch => batches'[b].back) BY <1>2, ClockMoves
<1>4. BatchRows'
 <2>1. BatchesStay BY <1>3 DEF BatchesStay
 <2> QED BY <1>1, <2>1, BatchRowsStay DEF ArriveInv
<1>5. ASSUME NEW t \in OutTurns PROVE TurnKept(t)'
 <2>1. BatchFor(turn[t].batch) /\ RowsFor(t) BY <1>1, <1>3, SameRowsFor DEF BatchFor
 <2> QED BY <1>1, <2>1, TurnStays DEF ArriveInv, TurnsCarried
<1>6. RenderingTrue'
 <2>1. PICK c : c = rendering.batch OBVIOUS
 <2>2. RenderingTrue BY DEF ArriveInv, HandsTrue
 <2>3. CASE rendering # NoRender /\ batches'[c] # batches[c]
  <3>1. c \in DOMAIN batches /\ batches[c].status = "open" BY <2>1, <2>2, <2>3 DEF RenderingTrue
  <3> QED BY <1>1, <1>3, <2>1, <2>2, <2>3, <3>1, RenderLags
 <2>4. CASE ~(rendering # NoRender /\ batches'[c] # batches[c]) BY <1>1, <1>3, <2>1, <2>2, <2>4, RenderStays
 <2> QED BY <2>3, <2>4
<1>7. NoticesTrue'
 <2>1. notice' = notice \/ notice' = [notice EXCEPT !.cool = TRUE] BY DEF ClockBack
 <2>2. /\ notice'.unresolved = notice.unresolved /\ notice'.pending = notice.pending
       /\ notice'.seen = notice.seen /\ notice'.told = notice.told BY <1>2, <2>1 DEF NoticeStates
 <2> QED BY <1>1, <2>2 DEF ArriveInv, NoticesTrue, NoticeRow
<1>8. Added(outbox, outbox', {}) BY <1>1, <1>2, AddsNone
<1>9. RowsShaped' /\ SendingTrue' /\ CardsInOrder' BY <1>1, <1>8, AddingKeeps
<1>10. SummingTrue' BY <1>1 DEF ArriveInv, HandsTrue, SummingTrue
<1> QED BY <1>4, <1>5, <1>6, <1>7, <1>9, <1>10 DEF ArriveInv, TurnsCarried, HandsTrue

\* A row in delivery is held, let go or sent, but fails only in send_failed.
Moved(r, q) ==
    /\ q.key = r.key /\ q.own = r.own /\ q.shows = r.shows /\ q.upto = r.upto
    /\ r.key.kind \in {"reply", "summary", "batch"} => (q.status = "failed" <=> r.status = "failed")
    /\ r.key.kind = "held" /\ r.status \in Away => q.status \in Away
    /\ q.status = "delayed" => r.status = "delayed" \/ r.key.kind = "notice"
    /\ q.thread => r.thread
    /\ r.key.kind = "card" /\ r.status \notin Unsent => q.status \notin Unsent
Told(r, q) ==
    r.key.kind = "notice" => /\ q.status \in {"pending", "delayed", "sent", "failed"}
                             /\ q.status \in Unsent <=> r.status \in Unsent

\* Rows that stay.
LEMMA MovedNot == ASSUME NEW r PROVE Moved(r, r)
BY DEF Moved

\* One move after the other.
LEMMA MovedTwice ==
  ASSUME NEW r, NEW q, NEW s, Moved(r, q), Moved(q, s)
  PROVE  Moved(r, s) /\ (Told(r, q) /\ Told(q, s) => Told(r, s))
BY DEF Moved, Told

\* The rows move, and a notice is added.
LEMMA RowsMove ==
  ASSUME ArriveInv, UNCHANGED <<turn, batches, summing, rendering>>,
    \A i \in DOMAIN outbox : i \in DOMAIN outbox' /\ Moved(outbox[i], outbox'[i]),
    \A i \in DOMAIN outbox' \ DOMAIN outbox : RowShape(outbox'[i]) /\ outbox'[i].key.kind = "notice"
  PROVE  RowsShaped' /\ BatchRows' /\ TurnsCarried' /\ SummingTrue' /\ RenderingTrue'
<1>1. ASSUME NEW i \in DOMAIN outbox, RowShape(outbox[i]) PROVE RowShape(outbox'[i])
 <2>1. Moved(outbox[i], outbox'[i]) OBVIOUS
 <2> QED BY <1>1, <2>1 DEF Moved, RowShape, Away
<1>2. RowsShaped' BY <1>1 DEF ArriveInv, RowsShaped
<1>3. ASSUME NEW i \in DOMAIN outbox', outbox'[i].key.kind \in {"reply", "summary", "batch"}
      PROVE  /\ i \in DOMAIN outbox /\ outbox'[i].key = outbox[i].key
             /\ outbox'[i].status = "failed" <=> outbox[i].status = "failed"
 <2>1. i \in DOMAIN outbox BY <1>3
 <2>2. Moved(outbox[i], outbox'[i]) BY <2>1
 <2> QED BY <1>3, <2>1, <2>2 DEF Moved
<1>4. BatchRows'
 <2>1. BatchesStay BY DEF BatchesStay
 <2> QED BY <1>3, <2>1, BatchRowsStay DEF ArriveInv
<1>5. ASSUME NEW t \in OutTurns PROVE TurnKept(t)'
 <2>1. RowsFor(t) BY <1>3 DEF RowsFor, Of, Moved
 <2>2. TurnKept(t) /\ turn'[t] = turn[t] /\ BatchFor(turn[t].batch) BY DEF ArriveInv, TurnsCarried, BatchFor
 <2> QED BY <2>1, <2>2, TurnStays
<1>6. SummingTrue' /\ RenderingTrue'
 <2>1. SummingTrue' BY DEF ArriveInv, HandsTrue, SummingTrue
 <2>2. PICK b : b = rendering.batch OBVIOUS
 <2>3. RenderingTrue' BY <2>2, RenderStays DEF ArriveInv, HandsTrue
 <2> QED BY <2>1, <2>3
<1> QED BY <1>2, <1>4, <1>5, <1>6 DEF TurnsCarried

\* What is held together is of one kind.
LEMMA SameGroup ==
  ASSUME NEW r \in Rows, NEW q \in Rows, Group(r) = Group(q)
  PROVE  r.key.kind = q.key.kind
<1>1. r.key \in Keys /\ q.key \in Keys BY DEF Rows
<1>2. Group(r).kind = r.key.kind /\ Group(q).kind = q.key.kind BY <1>1 DEF Group, Keys
<1> QED BY <1>2

\* A pass holds the group of one row.
LEMMA HeldMoves ==
  ASSUME NEW box \in Seq(Rows), NEW r \in Rows, NEW s \in RowStates,
    \/ r.key.kind = "notice" /\ s = "delayed"
    \/ r.key.kind # "notice" /\ s \in Away
    \/ r.key.kind = "card" /\ s \notin Unsent,
    NEW i \in DOMAIN box,
    box[i].key.kind = "notice" => box[i].status \in {"pending", "delayed", "sent", "failed"}
  PROVE  /\ i \in DOMAIN HoldGroup(box, Group(r), s)
         /\ Moved(box[i], HoldGroup(box, Group(r), s)[i]) /\ Told(box[i], HoldGroup(box, Group(r), s)[i])
<1>1. PICK x \in Rows : x = box[i] BY EntryOf
<1>2. PICK y : y = HoldGroup(box, Group(r), s)[i] OBVIOUS
<1>3. PICK z : z = [x EXCEPT !.status = s] OBVIOUS
<1>4. /\ z.key = x.key /\ z.own = x.own /\ z.shows = x.shows /\ z.upto = x.upto /\ z.thread = x.thread
      /\ z.status = s BY <1>3 DEF Rows
<1>5. /\ i \in DOMAIN HoldGroup(box, Group(r), s)
      /\ \/ y = x
         \/ /\ Group(x) = Group(r) /\ y = z
            /\ x.status \in {"pending", "delayed"} \/ (x.status = "quarantined" /\ s # "delayed")
 BY <1>1, <1>2, <1>3 DEF HoldGroup
<1>6. CASE y = x BY <1>1, <1>2, <1>5, <1>6 DEF Moved, Told
<1>7. CASE /\ Group(x) = Group(r) /\ y = z
           /\ x.status \in {"pending", "delayed"} \/ (x.status = "quarantined" /\ s # "delayed")
 <2>1. x.key.kind = r.key.kind BY <1>7, SameGroup
 <2>2. CASE r.key.kind = "notice" /\ s = "delayed"
  <3>1. Moved(x, z) /\ Told(x, z) BY <1>4, <1>7, <2>1, <2>2 DEF Moved, Told, Unsent
  <3> QED BY <1>1, <1>2, <1>5, <1>7, <3>1
 <2>3. CASE r.key.kind # "notice" /\ s \in Away
  <3>1. Moved(x, z) /\ Told(x, z) BY <1>4, <1>7, <2>1, <2>3 DEF Moved, Told, Unsent, Away
  <3> QED BY <1>1, <1>2, <1>5, <1>7, <3>1
 <2>4. CASE r.key.kind = "card" /\ s \notin Unsent
  <3>1. Moved(x, z) /\ Told(x, z) BY <1>4, <1>7, <2>1, <2>4 DEF Moved, Told, Unsent
  <3> QED BY <1>1, <1>2, <1>5, <1>7, <3>1
 <2> QED BY <2>2, <2>3, <2>4
<1> QED BY <1>5, <1>6, <1>7

\* What a pass finds: the rows that were there, and the notice it adds.
LEMMA PassFinds ==
  ASSUME OutboxInv, ArriveInv, NEW box, box = Undelayed(FlushedBox)
  PROVE  /\ box \in Seq(Rows)
         /\ \A i \in DOMAIN outbox : /\ i \in DOMAIN box /\ Moved(outbox[i], box[i]) /\ Told(outbox[i], box[i])
                                     /\ RowShape(box[i]) /\ box[i].thread = outbox[i].thread
         /\ \A i \in DOMAIN box \ DOMAIN outbox :
                /\ Flushes /\ RowShape(box[i]) /\ box[i].key.kind = "notice"
                /\ box[i].own = "system" /\ box[i].status = "pending"
                /\ box[i].key.id = notice.sequence + 1 /\ box[i].upto = notice.seen
         /\ \A i, j \in DOMAIN box \ DOMAIN outbox : i = j
         /\ Flushes => \E i \in DOMAIN box : i \notin DOMAIN outbox
<1>1. outbox \in Seq(Rows) /\ notice \in NoticeStates BY DEF OutboxInv, BoxInv
<1>2. PICK k \in Nat : k = notice.sequence + 1 BY <1>1 DEF NoticeStates
<1>3. PICK n : n = [SystemRow(Key("notice", k, 0)) EXCEPT !.upto = notice.seen] OBVIOUS
<1>4. /\ n \in Rows /\ n.key.kind = "notice" /\ n.key.id = k /\ n.own = "system" /\ n.shows = {}
      /\ n.status = "pending" /\ ~n.thread /\ n.upto = notice.seen
 <2>1. PICK key : key = Key("notice", k, 0) OBVIOUS
 <2>2. key \in Keys /\ key.kind = "notice" /\ key.id = k BY <2>1 DEF Key, Keys, Kinds
 <2>3. PICK z : z = SystemRow(key) OBVIOUS
 <2>4. z \in Rows /\ z.own = "system" /\ z.shows = {} BY <2>2, <2>3, SystemRowIs
 <2>5. z.status = "pending" /\ ~z.thread /\ z.key = key BY <2>2, <2>3, NewRow
 <2>6. notice.seen \in Nat /\ n = [z EXCEPT !.upto = notice.seen] BY <1>1, <1>3, <2>1, <2>3 DEF NoticeStates
 <2>7. /\ n \in Rows /\ n.key = z.key /\ n.own = z.own /\ n.shows = z.shows /\ n.status = z.status
       /\ n.thread = z.thread /\ n.upto = notice.seen BY <2>4, <2>6 DEF Rows
 <2> QED BY <2>2, <2>4, <2>5, <2>7
<1>5. PICK flu : flu = FlushedBox OBVIOUS
<1>6. flu = IF Flushes THEN Append(outbox, n) ELSE outbox BY <1>2, <1>3, <1>5 DEF FlushedBox
<1>7. PICK len \in Nat : len = Len(outbox) /\ DOMAIN outbox = 1 .. len BY <1>1
<1>8. /\ flu \in Seq(Rows) /\ \A i \in 1 .. len : i \in DOMAIN flu /\ flu[i] = outbox[i]
      /\ \A i \in DOMAIN flu : i \in 1 .. len \/ (Flushes /\ i = len + 1 /\ flu[i] = n)
      /\ Flushes => len + 1 \in DOMAIN flu /\ len + 1 \notin 1 .. len
 <2>1. CASE Flushes
  <3>1. flu = Append(outbox, n) BY <1>6, <2>1
  <3>2. flu \in Seq(Rows) /\ DOMAIN flu = 1 .. (len + 1) BY <1>1, <1>4, <1>7, <3>1
  <3>3. flu[len + 1] = n /\ \A i \in 1 .. len : flu[i] = outbox[i] BY <1>1, <1>4, <1>7, <3>1
  <3>4. \A i \in 1 .. (len + 1) : i \in 1 .. len \/ i = len + 1 OBVIOUS
  <3>5. len + 1 \in 1 .. (len + 1) /\ len + 1 \notin 1 .. len /\ \A i \in 1 .. len : i \in 1 .. (len + 1) OBVIOUS
  <3> QED BY <2>1, <3>2, <3>3, <3>4, <3>5
 <2>2. CASE ~Flushes BY <1>1, <1>6, <1>7, <2>2
 <2> QED BY <2>1, <2>2
<1>9. box \in Seq(Rows) /\ DOMAIN box = DOMAIN flu
 <2>1. Grown(flu, box) /\ DOMAIN box = DOMAIN flu BY <1>5, <1>8, Undelays
 <2> QED BY <2>1 DEF Grown
<1>10. ASSUME NEW i \in DOMAIN flu
       PROVE  \/ box[i] = flu[i]
              \/ /\ flu[i].status = "delayed" /\ box[i] = [flu[i] EXCEPT !.status = "pending"] BY <1>5 DEF Undelayed
<1>11. ASSUME NEW i \in DOMAIN outbox
       PROVE  /\ i \in DOMAIN box /\ Moved(outbox[i], box[i]) /\ Told(outbox[i], box[i])
              /\ RowShape(box[i]) /\ box[i].thread = outbox[i].thread
 <2>1. PICK x \in Rows : x = outbox[i] BY <1>1, EntryOf
 <2>2. i \in DOMAIN flu /\ flu[i] = x BY <1>7, <1>8, <2>1
 <2>3. RowShape(x) /\ NoticeRow(x, notice) BY <2>1 DEF ArriveInv, RowsShaped, NoticesTrue
 <2>4. CASE box[i] = x BY <1>9, <2>1, <2>2, <2>3, <2>4 DEF Moved, Told, NoticeRow
 <2>5. CASE x.status = "delayed" /\ box[i] = [x EXCEPT !.status = "pending"]
  <3>1. PICK y : y = [x EXCEPT !.status = "pending"] OBVIOUS
  <3>2. /\ y.key = x.key /\ y.own = x.own /\ y.shows = x.shows /\ y.upto = x.upto /\ y.thread = x.thread
        /\ y.status = "pending" BY <3>1 DEF Rows
  <3>3. Moved(x, y) /\ Told(x, y) /\ RowShape(y) BY <2>3, <2>5, <3>2 DEF Moved, Told, RowShape, Unsent
  <3> QED BY <1>9, <2>1, <2>2, <2>5, <3>1, <3>3
 <2> QED BY <1>10, <2>2, <2>4, <2>5
<1>12. ASSUME NEW i \in DOMAIN box, i \notin DOMAIN outbox
       PROVE  Flushes /\ i = len + 1 /\ box[i] = n
 <2>1. Flushes /\ i = len + 1 /\ flu[i] = n BY <1>7, <1>8, <1>9, <1>12
 <2> QED BY <1>4, <1>9, <1>10, <2>1
<1>13. RowShape(n) BY <1>4 DEF RowShape
<1>14. Flushes => \E i \in DOMAIN box : i \notin DOMAIN outbox BY <1>7, <1>8, <1>9
<1> QED BY <1>2, <1>4, <1>9, <1>11, <1>12, <1>13, <1>14

\* What a pass does to them.
LEMMA PassDoes ==
  ASSUME OutboxInv, ArriveInv, PassSelects, NEW box, box = Undelayed(FlushedBox)
  PROVE  /\ DOMAIN outbox' = DOMAIN box
         /\ \A i \in DOMAIN box : Moved(box[i], outbox'[i]) /\ Told(box[i], outbox'[i])
         /\ \/ sending' = 0
            \/ sending' \in DOMAIN box /\ outbox'[sending'].status = "pending" /\ ~outbox'[sending'].thread
         /\ \A i \in DOMAIN box : outbox'[i].thread = box[i].thread \/
                \A p \in DOMAIN box : p < i /\ box[p].key.kind = box[i].key.kind /\ box[p].status # "delayed"
                                        => box[p].status \notin Unsent
<1>1. /\ box \in Seq(Rows)
      /\ \A i \in DOMAIN outbox : /\ i \in DOMAIN box /\ Moved(outbox[i], box[i]) /\ Told(outbox[i], box[i])
                                  /\ RowShape(box[i])
      /\ \A i \in DOMAIN box \ DOMAIN outbox :
             /\ RowShape(box[i]) /\ box[i].key.kind = "notice"
             /\ box[i].own = "system" /\ box[i].status = "pending" BY PassFinds
<1>2. ASSUME NEW i \in DOMAIN box
      PROVE  /\ RowShape(box[i])
             /\ box[i].key.kind = "notice" =>
                    box[i].own = "system" /\ box[i].status \in {"pending", "delayed", "sent", "failed"}
 <2>1. CASE i \in DOMAIN outbox
  <3>1. NoticeRow(outbox[i], notice) BY <2>1 DEF ArriveInv, NoticesTrue
  <3> QED BY <1>1, <2>1, <3>1 DEF NoticeRow, Moved, Told
 <2>2. CASE i \notin DOMAIN outbox BY <1>1, <2>2
 <2> QED BY <2>1, <2>2
<1>3. PICK i : i = NextPending(box) OBVIOUS
<1>4. PICK r : r = box[i] OBVIOUS
<1>5. PICK up : up = Parent(box, r) OBVIOUS
<1>6. /\ sending = 0
      /\ IF Pending(box) = {} THEN outbox' = box /\ sending' = sending
         ELSE IF HeldBack(r) # "no" THEN outbox' = HoldGroup(box, Group(r), HeldBack(r)) /\ sending' = sending
         ELSE IF i \in backoff THEN outbox' = box /\ sending' = sending
         ELSE IF r.thread /\ \E p \in up : box[p].status \in {"quarantined", "suppressed", "delayed"}
         THEN outbox' = HoldGroup(box, Group(r), box[CHOOSE p \in up : TRUE].status) /\ sending' = sending
         ELSE outbox' = [box EXCEPT ![i].thread = FALSE] /\ sending' = i BY <1>3, <1>4, <1>5 DEF PassSelects
<1>7. ASSUME Pending(box) # {}
      PROVE  /\ i \in DOMAIN box /\ r \in Rows /\ r.status = "pending" /\ RowShape(r)
             /\ r.key.kind = "notice" => r.own = "system"
             /\ \A p \in DOMAIN box : p < i /\ box[p].key.kind = r.key.kind /\ box[p].status # "delayed"
                                        => box[p].status \notin Unsent
 <2>1. i \in Pending(box) /\ \A j \in Pending(box) : Before(box, i, j) BY <1>1, <1>3, <1>7, NextPendingIs
 <2>2. i \in DOMAIN box /\ r.status = "pending" BY <1>4, <2>1 DEF Pending
 <2>3. r \in Rows BY <1>1, <1>4, <2>2, EntryOf
 <2>4. ASSUME NEW p \in DOMAIN box, p < i, box[p].key.kind = r.key.kind, box[p].status # "delayed"
       PROVE  box[p].status \notin Unsent
  <3>1. i \in Nat /\ p \in Nat /\ Lane(r.key.kind) \in Nat BY <1>1, <2>2 DEF Lane
  <3>2. ~Before(box, i, p) BY <1>4, <2>4, <3>1 DEF Before
  <3>3. p \notin Pending(box) BY <2>1, <3>2
  <3> QED BY <2>4, <3>3 DEF Pending, Unsent
 <2> QED BY <1>2, <1>4, <2>2, <2>3, <2>4
<1>8. CASE outbox' = box /\ sending' = 0
 <2>1. \A j \in DOMAIN box : Moved(box[j], outbox'[j]) /\ Told(box[j], outbox'[j]) BY <1>2, <1>8 DEF Moved, Told
 <2> QED BY <1>8, <2>1
<1>9. ASSUME NEW s \in RowStates, Pending(box) # {}, sending' = 0, outbox' = HoldGroup(box, Group(r), s),
  \/ r.key.kind = "notice" /\ s = "delayed"
  \/ r.key.kind # "notice" /\ s \in Away
  \/ r.key.kind = "card" /\ s \notin Unsent
      PROVE  /\ DOMAIN outbox' = DOMAIN box
             /\ \A j \in DOMAIN box : Moved(box[j], outbox'[j]) /\ Told(box[j], outbox'[j])
             /\ \A j \in DOMAIN box : outbox'[j].thread = box[j].thread
 <2>1. r \in Rows BY <1>7, <1>9
 <2>2. \A j \in DOMAIN box : Moved(box[j], outbox'[j]) /\ Told(box[j], outbox'[j])
  BY <1>1, <1>2, <1>9, <2>1, HeldMoves
 <2>3. DOMAIN outbox' = DOMAIN box BY <1>9 DEF HoldGroup
 <2>4. ASSUME NEW j \in DOMAIN box PROVE outbox'[j].thread = box[j].thread
  <3>1. PICK x \in Rows : x = box[j] BY <1>1, EntryOf
  <3>2. outbox'[j] = x \/ outbox'[j] = [x EXCEPT !.status = s] BY <1>9, <3>1 DEF HoldGroup
  <3>3. [x EXCEPT !.status = s].thread = x.thread BY DEF Rows
  <3> QED BY <3>1, <3>2, <3>3
 <2> QED BY <2>2, <2>3, <2>4
<1>10. CASE Pending(box) # {} /\ HeldBack(r) # "no" /\ outbox' = HoldGroup(box, Group(r), HeldBack(r)) /\ sending' = 0
 <2>1. PICK s : s = HeldBack(r) OBVIOUS
 <2>2. /\ s \in RowStates
       /\ \/ r.key.kind = "notice" /\ s = "delayed"
          \/ r.key.kind # "notice" /\ s \in Away BY <1>7, <1>10, <2>1 DEF HeldBack, RowStates, Away
 <2>3. outbox' = HoldGroup(box, Group(r), s) BY <1>10, <2>1
 <2> QED BY <1>9, <1>10, <2>2, <2>3
<1>11. CASE /\ Pending(box) # {} /\ sending' = 0
            /\ r.thread /\ \E p \in up : box[p].status \in {"quarantined", "suppressed", "delayed"}
            /\ outbox' = HoldGroup(box, Group(r), box[CHOOSE p \in up : TRUE].status)
 <2>1. PICK p : p = CHOOSE x \in up : TRUE OBVIOUS
 <2>2. p \in up BY <1>11, <2>1
 <2>3. p \in DOMAIN box /\ box[p].key = [r.key EXCEPT !.part = 1] BY <1>5, <2>2 DEF Parent
 <2>4. box[p] \in Rows BY <1>1, <2>3, EntryOf
 <2>5. r.key.kind = "card" /\ r.key.part > 1 /\ r.key \in Keys BY <1>7, <1>11 DEF RowShape, Rows
 <2>6. box[p].key.kind = "card" BY <2>3, <2>5 DEF Keys
 <2>7. i \in DOMAIN outbox /\ p \in DOMAIN outbox BY <1>1, <1>4, <1>7, <1>11, <2>3, <2>5, <2>6
 <2>8. outbox[i].key = r.key /\ outbox[p].key = box[p].key BY <1>1, <1>4, <2>7 DEF Moved
 <2>9. PartOf(outbox[i], outbox[p]) BY <2>3, <2>5, <2>8 DEF PartOf
 <2>10. p < i BY <2>7, <2>9 DEF ArriveInv, CardsInOrder
 <2>11. box[p].status # "delayed" BY <1>2, <2>3, <2>6 DEF RowShape
 <2>12. box[p].status \notin Unsent BY <1>7, <1>11, <2>3, <2>5, <2>6, <2>10, <2>11
 <2>13. PICK s : s = box[p].status OBVIOUS
 <2>14. s \in RowStates /\ s \notin Unsent /\ outbox' = HoldGroup(box, Group(r), s)
  BY <1>11, <2>1, <2>4, <2>12, <2>13 DEF Rows
 <2> QED BY <1>9, <1>11, <2>5, <2>14
<1>12. CASE /\ Pending(box) # {} /\ outbox' = [box EXCEPT ![i].thread = FALSE] /\ sending' = i
 <2>1. i \in DOMAIN box /\ r \in Rows /\ r.status = "pending" BY <1>7, <1>12
 <2>2. PICK q : q = [r EXCEPT !.thread = FALSE] OBVIOUS
 <2>3. /\ q \in Rows /\ q.key = r.key /\ q.own = r.own /\ q.shows = r.shows /\ q.upto = r.upto
       /\ q.status = r.status /\ q.thread = FALSE BY <2>1, <2>2 DEF Rows
 <2>4. outbox' = [box EXCEPT ![i] = q] BY <1>4, <1>12, <2>2
 <2>5. DOMAIN outbox' = DOMAIN box /\ \A j \in DOMAIN box : outbox'[j] = IF j = i THEN q ELSE box[j]
  BY <1>1, <2>3, <2>4, EntryChanges
 <2>6. ASSUME NEW j \in DOMAIN box PROVE Moved(box[j], outbox'[j]) /\ Told(box[j], outbox'[j])
  <3>1. CASE j = i
   <4>1. Moved(r, q) /\ Told(r, q) BY <2>1, <2>3 DEF Moved, Told, Unsent
   <4> QED BY <1>4, <2>5, <3>1, <4>1
  <3>2. CASE j # i BY <1>2, <2>5, <3>2 DEF Moved, Told
  <3> QED BY <3>1, <3>2
 <2>7. outbox'[i] = q BY <2>1, <2>5
 <2>8. ASSUME NEW j \in DOMAIN box
       PROVE  outbox'[j].thread = box[j].thread \/
               \A p \in DOMAIN box : p < j /\ box[p].key.kind = box[j].key.kind /\ box[p].status # "delayed"
                                       => box[p].status \notin Unsent BY <1>4, <1>7, <1>12, <2>5
 <2>9. sending' \in DOMAIN box /\ outbox'[sending'].status = "pending" /\ ~outbox'[sending'].thread
  BY <1>12, <2>1, <2>3, <2>7
 <2> QED BY <2>5, <2>6, <2>8, <2>9
<1> QED BY <1>6, <1>8, <1>10, <1>11, <1>12

\* outbox_pass, up to the send.
LEMMA PassArrives == ASSUME OutboxInv, ArriveInv, PassSelects PROVE ArriveInv'
<1>1. PICK box : box = Undelayed(FlushedBox) OBVIOUS
<1>2. /\ \A i \in DOMAIN outbox : /\ i \in DOMAIN box /\ Moved(outbox[i], box[i]) /\ Told(outbox[i], box[i])
                                  /\ RowShape(box[i]) /\ box[i].thread = outbox[i].thread
      /\ \A i \in DOMAIN box \ DOMAIN outbox :
             /\ Flushes /\ RowShape(box[i]) /\ box[i].key.kind = "notice"
             /\ box[i].own = "system" /\ box[i].status = "pending"
             /\ box[i].key.id = notice.sequence + 1 /\ box[i].upto = notice.seen
      /\ \A i, j \in DOMAIN box \ DOMAIN outbox : i = j
      /\ Flushes => \E i \in DOMAIN box : i \notin DOMAIN outbox BY <1>1, PassFinds
<1>3. /\ DOMAIN outbox' = DOMAIN box
      /\ \A i \in DOMAIN box : Moved(box[i], outbox'[i]) /\ Told(box[i], outbox'[i])
      /\ \/ sending' = 0
         \/ sending' \in DOMAIN box /\ outbox'[sending'].status = "pending" /\ ~outbox'[sending'].thread
      /\ \A i \in DOMAIN box : outbox'[i].thread = box[i].thread \/
             \A p \in DOMAIN box : p < i /\ box[p].key.kind = box[i].key.kind /\ box[p].status # "delayed"
                                     => box[p].status \notin Unsent BY <1>1, PassDoes
<1>4. ASSUME NEW i \in DOMAIN outbox
      PROVE  i \in DOMAIN outbox' /\ Moved(outbox[i], outbox'[i]) /\ Told(outbox[i], outbox'[i])
 <2>1. i \in DOMAIN box /\ Moved(outbox[i], box[i]) /\ Told(outbox[i], box[i]) BY <1>2
 <2>2. Moved(box[i], outbox'[i]) /\ Told(box[i], outbox'[i]) /\ i \in DOMAIN outbox' BY <1>3, <2>1
 <2> QED BY <2>1, <2>2, MovedTwice
<1>5. ASSUME NEW i \in DOMAIN outbox', i \notin DOMAIN outbox
      PROVE  /\ Flushes /\ outbox'[i].key.kind = "notice" /\ RowShape(outbox'[i])
             /\ outbox'[i].own = "system" /\ outbox'[i].status \in {"pending", "delayed", "sent", "failed"}
             /\ outbox'[i].status \in Unsent
             /\ outbox'[i].key.id = notice.sequence + 1 /\ outbox'[i].upto = notice.seen
 <2>1. /\ i \in DOMAIN box /\ Flushes /\ RowShape(box[i]) /\ box[i].key.kind = "notice"
       /\ box[i].own = "system" /\ box[i].status = "pending"
       /\ box[i].key.id = notice.sequence + 1 /\ box[i].upto = notice.seen BY <1>2, <1>3, <1>5
 <2>2. Moved(box[i], outbox'[i]) /\ Told(box[i], outbox'[i]) BY <1>3, <2>1
 <2> QED BY <2>1, <2>2 DEF Moved, Told, Unsent, RowShape
<1>6. UNCHANGED <<turn, batches, summing, rendering>> /\ notice' = Flushed BY DEF PassSelects
<1>7. RowsShaped' /\ BatchRows' /\ TurnsCarried' /\ SummingTrue' /\ RenderingTrue' BY <1>4, <1>5, <1>6, RowsMove
<1>8. SendingTrue' BY <1>3 DEF SendingTrue
<1>9. NoticesTrue'
 <2>1. notice \in NoticeStates /\ NoticesTrue BY DEF OutboxInv, ArriveInv
 <2>2. PICK k \in Nat : k = notice.sequence + 1 /\ k # 0 BY <2>1 DEF NoticeStates
 <2>3. notice' = IF Flushes THEN [notice EXCEPT !.sequence = k, !.unresolved = k, !.pending = FALSE] ELSE notice
  BY <1>6, <2>2 DEF Flushed
 <2>4. /\ Flushes => /\ notice.unresolved = 0 /\ notice'.unresolved = k /\ notice'.seen = notice.seen
                     /\ notice'.told = notice.told /\ ~notice'.pending
       /\ ~Flushes => notice' = notice BY <2>1, <2>3 DEF Flushes, NoticeStates
 <2>5. ASSUME NEW i \in DOMAIN outbox PROVE OnItsWay(outbox'[i]) <=> OnItsWay(outbox[i])
  BY <1>4 DEF OnItsWay, Moved, Told
 <2>6. ASSUME Flushes, NEW i \in DOMAIN outbox PROVE ~OnItsWay(outbox[i])
  BY <2>1, <2>4, <2>6 DEF NoticesTrue, NoticeRow
 <2>7. ASSUME NEW i \in DOMAIN outbox' PROVE NoticeRow(outbox'[i], notice')
  <3>1. CASE i \in DOMAIN outbox
   <4>1. NoticeRow(outbox[i], notice) BY <2>1, <3>1 DEF NoticesTrue
   <4>2. Moved(outbox[i], outbox'[i]) /\ Told(outbox[i], outbox'[i]) BY <1>4, <3>1
   <4>3. OnItsWay(outbox'[i]) => OnItsWay(outbox[i]) /\ notice' = notice BY <2>4, <2>5, <2>6, <3>1
   <4> QED BY <4>1, <4>2, <4>3 DEF NoticeRow, Moved, Told
  <3>2. CASE i \notin DOMAIN outbox BY <1>5, <2>2, <2>4, <3>2 DEF NoticeRow
  <3> QED BY <3>1, <3>2
 <2>8. ASSUME NEW i \in DOMAIN outbox', NEW j \in DOMAIN outbox', OnItsWay(outbox'[i]), OnItsWay(outbox'[j])
       PROVE  i = j
  <3>1. CASE i \in DOMAIN outbox /\ j \in DOMAIN outbox BY <2>1, <2>5, <2>8, <3>1 DEF NoticesTrue
  <3>2. CASE i \notin DOMAIN outbox
   <4>1. Flushes BY <1>5, <3>2
   <4>2. j \notin DOMAIN outbox BY <2>5, <2>6, <2>8, <4>1
   <4> QED BY <1>2, <1>3, <3>2, <4>2
  <3>3. CASE j \notin DOMAIN outbox
   <4>1. Flushes BY <1>5, <3>3
   <4>2. i \notin DOMAIN outbox BY <2>5, <2>6, <2>8, <4>1
   <4> QED BY <1>2, <1>3, <3>3, <4>2
  <3> QED BY <3>1, <3>2, <3>3
 <2>9. ASSUME notice'.told < notice'.seen, ~notice'.pending PROVE \E i \in DOMAIN outbox' : OnItsWay(outbox'[i])
  <3>1. CASE Flushes
   <4>1. PICK i \in DOMAIN outbox' : i \notin DOMAIN outbox BY <1>2, <1>3, <3>1
   <4> QED BY <1>5, <4>1 DEF OnItsWay
  <3>2. CASE ~Flushes
   <4>1. PICK i \in DOMAIN outbox : OnItsWay(outbox[i]) BY <2>1, <2>4, <2>9, <3>2 DEF NoticesTrue
   <4> QED BY <1>4, <2>5, <4>1
  <3> QED BY <3>1, <3>2
 <2> QED BY <2>7, <2>8, <2>9 DEF NoticesTrue
<1>10. ASSUME NEW i \in DOMAIN outbox', NEW p \in DOMAIN outbox', PartOf(outbox'[i], outbox'[p])
       PROVE  p < i /\ (~outbox'[i].thread => outbox'[p].status \notin Unsent)
 <2>0. outbox'[i].key.kind = "card" BY <1>10 DEF PartOf
 <2>1. i \in DOMAIN outbox BY <1>5, <2>0
 <2>2. outbox[i].key = outbox'[i].key /\ outbox[i].key \in Keys
  <3>1. outbox[i] \in Rows BY <2>1, EntryOf DEF OutboxInv, BoxInv
  <3> QED BY <1>4, <2>1, <3>1 DEF Moved, Rows
 <2>3. outbox'[p].key.kind = "card" BY <1>10, <2>0, <2>2 DEF PartOf, Keys
 <2>4. p \in DOMAIN outbox BY <1>5, <2>3
 <2>5. PartOf(outbox[i], outbox[p]) BY <1>4, <1>10, <2>1, <2>4 DEF Moved, PartOf
 <2>6. p < i /\ (~outbox[i].thread => outbox[p].status \notin Unsent) BY <2>1, <2>4, <2>5 DEF ArriveInv, CardsInOrder
 <2>7. /\ Moved(outbox[i], box[i]) /\ Moved(outbox[p], box[p]) /\ Moved(box[p], outbox'[p]) /\ RowShape(box[p])
       /\ i \in DOMAIN box /\ p \in DOMAIN box BY <1>2, <1>3, <2>1, <2>4
 <2>8. /\ box[i].key.kind = "card" /\ box[p].key.kind = "card" /\ outbox[p].key.kind = "card"
       /\ box[p].status # "delayed" BY <1>4, <2>0, <2>1, <2>2, <2>3, <2>4, <2>7 DEF Moved, RowShape
 <2>9. box[p].status \notin Unsent => outbox'[p].status \notin Unsent BY <2>7, <2>8 DEF Moved
 <2>10. outbox[p].status \notin Unsent => box[p].status \notin Unsent BY <2>7, <2>8 DEF Moved
 <2>11. CASE ~outbox[i].thread BY <2>6, <2>9, <2>10, <2>11
 <2>12. CASE box[i].thread BY <1>3, <2>6, <2>7, <2>8, <2>9, <2>12
 <2>13. box[i].thread = outbox[i].thread BY <1>2, <2>1
 <2> QED BY <2>11, <2>12, <2>13
<1> QED BY <1>3, <1>7, <1>8, <1>9, <1>10 DEF ArriveInv, HandsTrue, CardsInOrder

\* The notices, while one stays on its way.
LEMMA NoticesStay ==
  ASSUME NoticesTrue, notice' = notice,
    \A i \in DOMAIN outbox :
        /\ i \in DOMAIN outbox' /\ outbox'[i].key = outbox[i].key
        /\ outbox[i].key.kind = "notice" =>
               /\ outbox'[i].own = outbox[i].own /\ outbox'[i].upto = outbox[i].upto
               /\ outbox'[i].status = outbox[i].status,
    \A i \in DOMAIN outbox' \ DOMAIN outbox : outbox'[i].key.kind # "notice"
  PROVE  NoticesTrue'
<1>1. ASSUME NEW i \in DOMAIN outbox PROVE OnItsWay(outbox'[i]) <=> OnItsWay(outbox[i]) BY DEF OnItsWay
<1>2. ASSUME NEW i \in DOMAIN outbox' PROVE NoticeRow(outbox'[i], notice')
 <2>1. CASE i \in DOMAIN outbox
  <3>1. NoticeRow(outbox[i], notice) BY <2>1 DEF NoticesTrue
  <3> QED BY <1>1, <2>1, <3>1 DEF NoticeRow, OnItsWay
 <2>2. CASE i \notin DOMAIN outbox BY <2>2 DEF NoticeRow, OnItsWay
 <2> QED BY <2>1, <2>2
<1>3. ASSUME NEW i \in DOMAIN outbox', OnItsWay(outbox'[i]) PROVE i \in DOMAIN outbox /\ OnItsWay(outbox[i])
 BY <1>1, <1>3 DEF OnItsWay
<1>4. \A i, j \in DOMAIN outbox' : OnItsWay(outbox'[i]) /\ OnItsWay(outbox'[j]) => i = j BY <1>3 DEF NoticesTrue
<1>5. (\E i \in DOMAIN outbox : OnItsWay(outbox[i])) => \E i \in DOMAIN outbox' : OnItsWay(outbox'[i]) BY <1>1
<1> QED BY <1>2, <1>4, <1>5 DEF NoticesTrue

\* The notice on its way is settled: what it told is told, or is pending again.
LEMMA NoticeSettles ==
  ASSUME NoticesTrue, NEW i \in DOMAIN outbox, OnItsWay(outbox[i]),
    \A j \in DOMAIN outbox :
        /\ j \in DOMAIN outbox' /\ outbox'[j].key = outbox[j].key
        /\ outbox[j].key.kind = "notice" => outbox'[j].own = outbox[j].own
        /\ j # i => outbox'[j].status = outbox[j].status,
    outbox'[i].status \in {"sent", "failed"},
    \A j \in DOMAIN outbox' \ DOMAIN outbox : outbox'[j].key.kind # "notice",
    ~(notice'.told < notice'.seen) \/ notice'.pending
  PROVE  NoticesTrue'
<1>1. ASSUME NEW j \in DOMAIN outbox' PROVE ~OnItsWay(outbox'[j])
 <2>1. CASE j \notin DOMAIN outbox BY <2>1 DEF OnItsWay
 <2>2. CASE j = i BY <2>2 DEF OnItsWay, Unsent
 <2>3. CASE j \in DOMAIN outbox /\ j # i
  <3>1. ~OnItsWay(outbox[j]) BY <2>3 DEF NoticesTrue
  <3> QED BY <2>3, <3>1 DEF OnItsWay
 <2> QED BY <2>1, <2>2, <2>3
<1>2. ASSUME NEW j \in DOMAIN outbox' PROVE NoticeRow(outbox'[j], notice')
 <2>1. CASE j \in DOMAIN outbox
  <3>1. NoticeRow(outbox[j], notice) BY <2>1 DEF NoticesTrue
  <3> QED BY <1>1, <2>1, <3>1 DEF NoticeRow
 <2>2. CASE j \notin DOMAIN outbox BY <1>1, <2>2 DEF NoticeRow
 <2> QED BY <2>1, <2>2
<1> QED BY <1>1, <1>2 DEF NoticesTrue

\* The cards, while no part is cut loose.
LEMMA CardsStay ==
  ASSUME CardsInOrder, outbox \in Seq(Rows),
    \A i \in DOMAIN outbox :
        /\ i \in DOMAIN outbox' /\ outbox'[i].key = outbox[i].key
        /\ outbox'[i].thread = outbox[i].thread
        /\ outbox[i].status \notin Unsent => outbox'[i].status \notin Unsent,
    \A i \in DOMAIN outbox' \ DOMAIN outbox : outbox'[i].key.kind # "card"
  PROVE  CardsInOrder'
<1>1. ASSUME NEW i \in DOMAIN outbox', NEW p \in DOMAIN outbox', PartOf(outbox'[i], outbox'[p])
      PROVE  p < i /\ (~outbox'[i].thread => outbox'[p].status \notin Unsent)
 <2>1. outbox'[i].key.kind = "card" BY <1>1 DEF PartOf
 <2>2. i \in DOMAIN outbox BY <2>1
 <2>3. outbox[i].key \in Keys /\ outbox[i].key = outbox'[i].key
  <3>1. outbox[i] \in Rows BY <2>2, EntryOf
  <3> QED BY <2>2, <3>1 DEF Rows
 <2>4. outbox'[p].key.kind = "card" BY <1>1, <2>1, <2>3 DEF PartOf, Keys
 <2>5. p \in DOMAIN outbox BY <2>4
 <2>6. PartOf(outbox[i], outbox[p]) BY <1>1, <2>2, <2>5 DEF PartOf
 <2>7. p < i /\ (~outbox[i].thread => outbox[p].status \notin Unsent) BY <2>2, <2>5, <2>6 DEF CardsInOrder
 <2> QED BY <2>2, <2>5, <2>7
<1> QED BY <1>1 DEF CardsInOrder

\* A send is answered, or will be tried again.
LEMMA SendArrives == ASSUME OutboxInv, ArriveInv, SendAnswered \/ SendRetries PROVE ArriveInv'
<1>1. PICK i \in DOMAIN outbox : i = sending BY DEF OutboxInv, BoxInv, SendAnswered, SendRetries
<1>2. /\ outbox \in Seq(Rows) /\ notice \in NoticeStates /\ NoticesTrue /\ CardsInOrder
      /\ UNCHANGED <<turn, batches, summing, rendering>> /\ sending' = 0
 BY DEF OutboxInv, BoxInv, ArriveInv, SendAnswered, SendRetries
<1>3. PICK r \in Rows : r = outbox[i] BY <1>2, EntryOf
<1>4. r.status = "pending" /\ RowShape(r)
 BY <1>1, <1>3 DEF ArriveInv, HandsTrue, SendingTrue, RowsShaped, SendAnswered, SendRetries
<1>5. SendingTrue' BY <1>2 DEF SendingTrue
<1>6. ASSUME NEW q \in Rows, q.key = r.key, q.own = r.own, q.shows = r.shows, q.upto = r.upto,
  q.thread = r.thread, q.status \in {"sent", "pending"}, outbox' = [outbox EXCEPT ![i] = q]
      PROVE  /\ RowsShaped' /\ BatchRows' /\ TurnsCarried' /\ SummingTrue' /\ RenderingTrue' /\ CardsInOrder'
             /\ DOMAIN outbox' = DOMAIN outbox
             /\ \A j \in DOMAIN outbox : outbox'[j] = IF j = i THEN q ELSE outbox[j]
 <2>1. DOMAIN outbox' = DOMAIN outbox /\ \A j \in DOMAIN outbox : outbox'[j] = IF j = i THEN q ELSE outbox[j]
  BY <1>2, <1>6, EntryChanges
 <2>2. Moved(r, q) BY <1>4, <1>6 DEF Moved, Away, Unsent
 <2>3. \A j \in DOMAIN outbox : Moved(outbox[j], outbox'[j]) BY <1>3, <2>1, <2>2, MovedNot
 <2>4. RowsShaped' /\ BatchRows' /\ TurnsCarried' /\ SummingTrue' /\ RenderingTrue' BY <1>2, <2>1, <2>3, RowsMove
 <2>5. ASSUME NEW j \in DOMAIN outbox
       PROVE  /\ outbox'[j].key = outbox[j].key /\ outbox'[j].thread = outbox[j].thread
              /\ outbox[j].status \notin Unsent => outbox'[j].status \notin Unsent
  <3>1. CASE j = i BY <1>3, <1>4, <1>6, <2>1, <3>1 DEF Unsent
  <3>2. CASE j # i BY <2>1, <3>2
  <3> QED BY <3>1, <3>2
 <2>6. CardsInOrder' BY <1>2, <2>1, <2>5, CardsStay
 <2> QED BY <2>1, <2>4, <2>6
<1>7. CASE SendAnswered
 <2>1. PICK q : q = [r EXCEPT !.status = "sent"] OBVIOUS
 <2>2. /\ q \in Rows /\ q.key = r.key /\ q.own = r.own /\ q.shows = r.shows /\ q.upto = r.upto
       /\ q.thread = r.thread /\ q.status = "sent" BY <2>1 DEF Rows, RowStates
 <2>3. outbox' = [outbox EXCEPT ![i] = q] BY <1>1, <1>3, <1>7, <2>1 DEF SendAnswered
 <2>4. /\ RowsShaped' /\ BatchRows' /\ TurnsCarried' /\ SummingTrue' /\ RenderingTrue' /\ CardsInOrder'
       /\ DOMAIN outbox' = DOMAIN outbox
       /\ \A j \in DOMAIN outbox : outbox'[j] = IF j = i THEN q ELSE outbox[j] BY <1>6, <2>2, <2>3
 <2>5. CASE r.key.kind = "notice"
  <3>1. OnItsWay(r) /\ NoticeRow(r, notice) BY <1>2, <1>3, <1>4, <2>5 DEF OnItsWay, Unsent, NoticesTrue
  <3>2. PICK u \in Nat : u = r.upto BY DEF Rows
  <3>3. notice' = [notice EXCEPT !.unresolved = 0, !.cool = TRUE, !.told = u]
   BY <1>1, <1>3, <1>7, <2>5, <3>1, <3>2 DEF SendAnswered, NoticeRow
  <3>4. /\ notice'.told = u /\ notice'.seen = notice.seen /\ notice.seen \in Nat
        /\ notice'.pending = notice.pending BY <1>2, <3>2, <3>3 DEF NoticeStates
  <3>5. ~(notice'.told < notice'.seen) \/ notice'.pending BY <3>1, <3>2, <3>4 DEF NoticeRow
  <3>6. NoticesTrue' BY <1>2, <1>3, <2>2, <2>4, <3>1, <3>5, NoticeSettles
  <3> QED BY <1>5, <2>4, <3>6 DEF ArriveInv, HandsTrue
 <2>6. CASE r.key.kind # "notice"
  <3>1. notice' = notice BY <1>1, <1>3, <1>7, <2>6 DEF SendAnswered
  <3>2. NoticesTrue' BY <1>2, <1>3, <2>2, <2>4, <2>6, <3>1, NoticesStay
  <3> QED BY <1>5, <2>4, <3>2 DEF ArriveInv, HandsTrue
 <2> QED BY <2>5, <2>6
<1>8. CASE SendRetries
 <2>1. PICK k \in Nat : k = r.tries + 1 BY DEF Rows
 <2>2. PICK q : q = [r EXCEPT !.tries = k] OBVIOUS
 <2>3. /\ q \in Rows /\ q.key = r.key /\ q.own = r.own /\ q.shows = r.shows /\ q.upto = r.upto
       /\ q.thread = r.thread /\ q.status = r.status BY <2>2 DEF Rows
 <2>4. outbox' = [outbox EXCEPT ![i] = q] /\ notice' = notice BY <1>1, <1>3, <1>8, <2>1, <2>2 DEF SendRetries
 <2>5. /\ RowsShaped' /\ BatchRows' /\ TurnsCarried' /\ SummingTrue' /\ RenderingTrue' /\ CardsInOrder'
       /\ DOMAIN outbox' = DOMAIN outbox
       /\ \A j \in DOMAIN outbox : outbox'[j] = IF j = i THEN q ELSE outbox[j] BY <1>4, <1>6, <2>3, <2>4
 <2>6. NoticesTrue' BY <1>2, <1>3, <2>3, <2>4, <2>5, NoticesStay
 <2> QED BY <1>5, <2>5, <2>6 DEF ArriveInv, HandsTrue
<1> QED BY <1>7, <1>8

\* send_failed.
LEMMA GivenUpArrives == ASSUME OutboxInv, ArriveInv, SendGivenUp PROVE ArriveInv'
<1>1. PICK i \in DOMAIN outbox : i = sending BY DEF OutboxInv, BoxInv, SendGivenUp
<1>2. /\ outbox \in Seq(Rows) /\ notice \in NoticeStates /\ NoticesTrue /\ CardsInOrder
      /\ batches \in Seq(Batches) /\ turn \in [OutTurns -> Turns]
      /\ UNCHANGED <<summing, rendering>> /\ sending' = 0 BY DEF OutboxInv, BoxInv, ArriveInv, SendGivenUp
<1>3. PICK r \in Rows : r = outbox[i] BY <1>2, EntryOf
<1>4. r.status = "pending" /\ ~r.thread /\ RowShape(r) /\ NoticeRow(r, notice) /\ sending # 0
 BY <1>1, <1>3 DEF ArriveInv, HandsTrue, SendingTrue, RowsShaped, NoticesTrue, SendGivenUp
<1>5. SendingTrue' BY <1>2 DEF SendingTrue
<1>6. PICK k \in Nat : k = r.tries + 1 BY DEF Rows
<1>7. PICK q : q = [r EXCEPT !.status = "failed", !.tries = k] OBVIOUS
<1>8. /\ q \in Rows /\ q.key = r.key /\ q.own = r.own /\ q.shows = r.shows /\ q.upto = r.upto
      /\ q.thread = r.thread /\ q.status = "failed" BY <1>7 DEF Rows, RowStates
<1>9. PICK box : box = [outbox EXCEPT ![i] = q] OBVIOUS
<1>10. /\ box \in Seq(Rows) /\ DOMAIN box = DOMAIN outbox
       /\ \A j \in DOMAIN outbox : box[j] = IF j = i THEN q ELSE outbox[j] BY <1>2, <1>8, <1>9, EntryChanges
<1>11. PICK p : p = [r EXCEPT !.key = Key("partfail", 1, r.key.part), !.status = "pending", !.tries = 0] OBVIOUS
<1>12. p \in Rows /\ p.key.kind = "partfail" /\ p.status = "pending" /\ p.thread = r.thread
 <2>1. PICK key : key = Key("partfail", 1, r.key.part) OBVIOUS
 <2>2. key \in Keys /\ key.kind = "partfail" BY <2>1 DEF Rows, Keys, Kinds, Key
 <2>3. p \in Rows /\ p.key = key /\ p.status = "pending" /\ p.thread = r.thread
  BY <1>11, <2>1, <2>2 DEF Rows, RowStates
 <2> QED BY <2>2, <2>3
<1>13. outbox' = box \/ outbox' = Enqueue(box, p)
 <2>1. outbox' = PartNote([outbox EXCEPT ![i].status = "failed", ![i].tries = @ + 1], r) BY <1>1, <1>3 DEF SendGivenUp
 <2>2. [outbox EXCEPT ![i].status = "failed", ![i].tries = @ + 1] = box BY <1>2, <1>3, <1>6, <1>7, <1>9 DEF Rows
 <2> QED BY <1>11, <2>1, <2>2 DEF PartNote
<1>14. /\ \A j \in DOMAIN box : j \in DOMAIN outbox' /\ outbox'[j] = box[j]
       /\ \A j \in DOMAIN outbox' : j \in DOMAIN box \/ outbox'[j] = p
 <2>1. CASE outbox' = box BY <2>1
 <2>2. CASE outbox' = Enqueue(box, p)
  <3>1. Added(box, outbox', IF HasKey(box, p.key) THEN {} ELSE {p}) BY <1>10, <1>12, <2>2, EnqueueAdds
  <3> QED BY <3>1 DEF Added
 <2> QED BY <1>13, <2>1, <2>2
<1>15. ASSUME NEW j \in DOMAIN outbox
       PROVE  /\ j \in DOMAIN outbox' /\ outbox'[j] = IF j = i THEN q ELSE outbox[j]
              /\ outbox'[j].key = outbox[j].key /\ outbox'[j].own = outbox[j].own
              /\ outbox'[j].shows = outbox[j].shows /\ outbox'[j].upto = outbox[j].upto
              /\ outbox'[j].thread = outbox[j].thread
              /\ j # i => outbox'[j].status = outbox[j].status
              /\ outbox'[i].status = "failed"
 <2>1. outbox'[j] = IF j = i THEN q ELSE outbox[j] BY <1>10, <1>14
 <2>2. outbox'[i] = q BY <1>10, <1>14
 <2> QED BY <1>3, <1>8, <1>10, <1>14, <2>1, <2>2
<1>16. ASSUME NEW j \in DOMAIN outbox', j \notin DOMAIN outbox PROVE outbox'[j] = p BY <1>10, <1>14, <1>16
<1>17. RowsShaped'
 <2>1. RowShape(p) BY <1>4, <1>12 DEF RowShape
 <2>2. RowShape(q) BY <1>4, <1>8 DEF RowShape, Away
 <2>3. ASSUME NEW j \in DOMAIN outbox' PROVE RowShape(outbox'[j])
  BY <1>15, <1>16, <2>1, <2>2 DEF ArriveInv, RowsShaped
 <2> QED BY <2>3 DEF RowsShaped
<1>18. CardsInOrder' BY <1>2, <1>12, <1>15, <1>16, CardsStay DEF Unsent
<1>19. NoticesTrue'
 <2>1. CASE r.key.kind = "notice"
  <3>1. OnItsWay(r) BY <1>4, <2>1 DEF OnItsWay, Unsent
  <3>2. notice' = [notice EXCEPT !.unresolved = 0, !.cool = TRUE, !.pending = TRUE]
   BY <1>1, <1>3, <1>4, <2>1, <3>1 DEF SendGivenUp, NoticeRow
  <3>3. notice'.pending BY <1>2, <3>2 DEF NoticeStates
  <3> QED BY <1>2, <1>3, <1>12, <1>15, <1>16, <3>1, <3>3, NoticeSettles
 <2>2. CASE r.key.kind # "notice"
  <3>1. notice' = notice BY <1>1, <1>3, <2>2 DEF SendGivenUp
  <3>2. \A j \in DOMAIN outbox : outbox[j].key.kind = "notice" => outbox'[j].status = outbox[j].status
   BY <1>3, <1>15, <2>2
  <3> QED BY <1>2, <1>12, <1>15, <1>16, <3>1, <3>2, NoticesStay
 <2> QED BY <2>1, <2>2
<1>20. ASSUME NEW x, r.key.kind \in {"reply", "summary"} => x \notin r.shows PROVE RowsFor(x)
 <2>1. ASSUME NEW j \in DOMAIN outbox', Of(outbox'[j], x, "reply") \/ Of(outbox'[j], x, "summary")
       PROVE  j \in DOMAIN outbox /\ (outbox'[j].status = "failed" => outbox[j].status = "failed")
  <3>1. j \in DOMAIN outbox BY <1>12, <1>16, <2>1 DEF Of
  <3>2. j # i BY <1>3, <1>15, <1>20, <2>1, <3>1 DEF Of
  <3> QED BY <1>15, <3>1, <3>2
 <2> QED BY <1>15, <2>1 DEF RowsFor
<1>21. ASSUME r.key.kind # "batch", BatchesStay PROVE BatchRows'
 <2>1. ASSUME NEW j \in DOMAIN outbox', outbox'[j].key.kind = "batch"
       PROVE  /\ j \in DOMAIN outbox /\ outbox'[j].key = outbox[j].key
              /\ outbox'[j].status = "failed" <=> outbox[j].status = "failed"
  <3>1. j \in DOMAIN outbox BY <1>12, <1>16, <2>1
  <3>2. j # i BY <1>3, <1>15, <1>21, <2>1, <3>1
  <3> QED BY <1>15, <3>1, <3>2
 <2> QED BY <1>21, <2>1, BatchRowsStay DEF ArriveInv
<1>22. CASE FallsBack(r)
 <2>1. PICK t \in OutTurns : t = r.key.id /\ r.shows = {t} BY <1>4, <1>22 DEF FallsBack, RowShape
 <2>2. r.key.kind \in {"reply", "summary"} /\ turn[t].status \in {"verbatim", "summarized"}
  BY <1>22, <2>1 DEF FallsBack
 <2>3. QueueBackstop(t) BY <1>1, <1>3, <1>22, <2>1 DEF SendGivenUp
 <2>4. PICK z : z = [turn[t] EXCEPT !.status = "batched", !.batch = Joined] OBVIOUS
 <2>5. z \in Turns /\ z.status = "batched" /\ z.batch = Joined
  <3>1. turn[t] \in Turns /\ Joined \in Nat BY <1>2, JoinedIs
  <3> QED BY <2>4, <3>1 DEF Turns
 <2>6. turn' = [turn EXCEPT ![t] = z] /\ batches' = BatchesWith BY <1>2, <2>3, <2>4 DEF QueueBackstop
 <2>7. \A x \in OutTurns \ {t} : RowsFor(x) BY <1>20, <2>1
 <2>8. TurnsCarried' /\ BatchesStay /\ RenderingTrue' BY <1>2, <2>2, <2>5, <2>6, <2>7, BackstopArrives
 <2>9. BatchRows' BY <1>21, <2>2, <2>8
 <2>10. SummingTrue'
  <3>1. summing # 0 => summing # t /\ summing \in OutTurns
   BY <2>2 DEF ArriveInv, HandsTrue, SummingTrue, OutboxInv, WorkInv
  <3> QED BY <1>2, <2>6, <3>1 DEF ArriveInv, HandsTrue, SummingTrue
 <2> QED BY <1>5, <1>17, <1>18, <1>19, <2>8, <2>9, <2>10 DEF ArriveInv, HandsTrue
<1>23. ASSUME ~FallsBack(r) PROVE turn' = turn /\ SummingTrue'
 <2>1. turn' = turn BY <1>1, <1>3, <1>23 DEF SendGivenUp
 <2> QED BY <1>2, <2>1 DEF ArriveInv, HandsTrue, SummingTrue
<1>24. CASE r.key.kind = "batch"
 <2>1. turn' = turn /\ SummingTrue' BY <1>23, <1>24 DEF FallsBack
 <2>2. PICK b : b = r.key.id OBVIOUS
 <2>3. PICK a : a = batches[b].attempt OBVIOUS
 <2>4. BatchRow(r, batches) BY <1>3, <1>24 DEF ArriveInv, BatchRows
 <2>5. b \in DOMAIN batches /\ a \in Nat /\ r.key.part \in Nat
  <3>1. b \in DOMAIN batches BY <2>2, <2>4 DEF BatchRow
  <3>2. batches[b] \in Batches BY <1>2, <3>1, EntryOf
  <3> QED BY <2>3, <3>1, <3>2 DEF Batches, Rows, Keys
 <2>6. r.key.part = a /\ batches[b].status = "posted" BY <1>4, <2>2, <2>3, <2>4, <2>5 DEF BatchRow
 <2>7. PICK n \in Nat : n = a + 1 BY <2>5
 <2>8. PICK z : z = [status |-> "open", due |-> FALSE, attempt |-> n, back |-> FALSE] OBVIOUS
 <2>9. batches' = [batches EXCEPT ![b] = z] BY <1>1, <1>3, <1>24, <2>2, <2>3, <2>7, <2>8 DEF SendGivenUp, FallsBack
 <2>10. /\ DOMAIN batches' = DOMAIN batches /\ batches'[b] = z /\ z.status = "open" /\ z.attempt = n
        /\ \A c \in DOMAIN batches : c # b => batches'[c] = batches[c] BY <2>5, <2>8, <2>9
 <2>11. ASSUME NEW j \in DOMAIN outbox', outbox'[j].key.kind = "batch" PROVE BatchRow(outbox'[j], batches')
  <3>1. j \in DOMAIN outbox BY <1>12, <1>16, <2>11
  <3>2. outbox'[j].key = outbox[j].key BY <1>15, <3>1
  <3>3. BatchRow(outbox[j], batches) BY <2>11, <3>1, <3>2 DEF ArriveInv, BatchRows
  <3>4. outbox[j].key \in Keys
   <4>1. outbox[j] \in Rows BY <1>2, <3>1, EntryOf
   <4> QED BY <4>1 DEF Rows
  <3>5. outbox[j].key.part \in Nat BY <3>4 DEF Keys
  <3>6. CASE j = i
   <4>1. outbox'[j].status = "failed" /\ outbox'[j].key.id = b /\ outbox'[j].key.part = a
    BY <1>3, <1>15, <2>2, <2>6, <3>2, <3>6
   <4>2. a < n /\ a # n /\ a <= n BY <2>5, <2>7
   <4> QED BY <2>5, <2>10, <4>1, <4>2 DEF BatchRow
  <3>7. CASE j # i /\ outbox[j].key.id # b BY <1>15, <2>10, <3>1, <3>2, <3>3, <3>7 DEF BatchRow
  <3>8. CASE j # i /\ outbox[j].key.id = b
   <4>1. outbox[j].key # r.key BY <1>3, <1>24, <3>1, <3>8 DEF ArriveInv, BatchRows
   <4>2. r.key \in Keys BY DEF Rows
   <4>3. outbox[j].key.part # a BY <1>24, <2>2, <2>6, <2>11, <3>2, <3>4, <3>8, <4>1, <4>2 DEF Keys
   <4>4. outbox[j].key.part < a /\ outbox[j].status = "failed" BY <2>3, <2>5, <3>3, <3>5, <3>8, <4>3 DEF BatchRow
   <4>5. outbox'[j].key.part < n /\ outbox'[j].key.part <= n /\ outbox'[j].key.part # n
    BY <2>5, <2>7, <3>2, <3>5, <4>4
   <4>6. outbox'[j].status = "failed" /\ outbox'[j].key.id = b BY <1>15, <3>1, <3>2, <3>8, <4>4
   <4> QED BY <2>5, <2>10, <4>5, <4>6 DEF BatchRow
  <3> QED BY <3>6, <3>7, <3>8
 <2>12. ASSUME NEW j \in DOMAIN outbox', NEW l \in DOMAIN outbox', outbox'[j].key.kind = "batch",
   outbox'[j].key = outbox'[l].key
        PROVE  j = l
  <3>1. j \in DOMAIN outbox /\ l \in DOMAIN outbox BY <1>12, <1>16, <2>12
  <3>2. outbox[j].key = outbox'[j].key /\ outbox[l].key = outbox'[l].key BY <1>15, <3>1
  <3> QED BY <2>12, <3>1, <3>2 DEF ArriveInv, BatchRows
 <2>13. BatchRows' BY <2>11, <2>12 DEF BatchRows
 <2>14. ASSUME NEW t \in OutTurns PROVE TurnKept(t)'
  <3>1. RowsFor(t) BY <1>20, <1>24
  <3>2. BatchFor(turn[t].batch) BY <2>10 DEF BatchFor
  <3>3. TurnKept(t) /\ turn'[t] = turn[t] BY <2>1 DEF ArriveInv, TurnsCarried
  <3> QED BY <3>1, <3>2, <3>3, TurnStays
 <2>15. RenderingTrue'
  <3>1. PICK c : c = rendering.batch OBVIOUS
  <3>2. RenderingTrue BY DEF ArriveInv, HandsTrue
  <3>3. rendering # NoRender => c \in DOMAIN batches /\ c # b BY <2>6, <3>1, <3>2 DEF RenderingTrue
  <3>4. rendering # NoRender => c \in DOMAIN batches' /\ batches'[c] = batches[c] BY <2>10, <3>3
  <3> QED BY <1>2, <2>1, <3>1, <3>2, <3>4, RenderStays
 <2> QED BY <1>5, <1>17, <1>18, <1>19, <2>1, <2>13, <2>14, <2>15 DEF ArriveInv, HandsTrue, TurnsCarried
<1>25. CASE ~FallsBack(r) /\ r.key.kind # "batch"
 <2>1. turn' = turn /\ SummingTrue' BY <1>23, <1>25
 <2>2. batches' = batches BY <1>1, <1>3, <1>25 DEF SendGivenUp
 <2>3. BatchRows'
  <3>1. BatchesStay BY <2>2 DEF BatchesStay
  <3> QED BY <1>21, <1>25, <3>1
 <2>4. RenderingTrue'
  <3>1. PICK c : c = rendering.batch OBVIOUS
  <3> QED BY <1>2, <2>1, <2>2, <3>1, RenderStays DEF ArriveInv, HandsTrue
 <2>5. ASSUME NEW t \in OutTurns PROVE TurnKept(t)'
  <3>0. TurnKept(t) /\ turn'[t] = turn[t] BY <2>1 DEF ArriveInv, TurnsCarried
  <3>1. CASE r.key.kind \in {"reply", "summary"} => t \notin r.shows
   <4>1. RowsFor(t) BY <1>20, <3>1
   <4>2. BatchFor(turn[t].batch) BY <2>2 DEF BatchFor
   <4> QED BY <3>0, <4>1, <4>2, TurnStays
  <3>2. CASE r.key.kind \in {"reply", "summary"} /\ t \in r.shows
   <4>1. t = r.key.id BY <1>4, <3>2 DEF RowShape
   <4>2. turn[t].status \notin {"verbatim", "summarized"} BY <1>25, <3>2, <4>1 DEF FallsBack
   <4>3. ASSUME turn[t].status = "summarizing", NEW j \in DOMAIN outbox' PROVE ~Of(outbox'[j], t, "summary")
    <5>1. CASE j \in DOMAIN outbox
     <6>1. ~Of(outbox[j], t, "summary") BY <3>0, <4>3, <5>1 DEF TurnKept
     <6> QED BY <1>15, <5>1, <6>1 DEF Of
    <5>2. CASE j \notin DOMAIN outbox BY <1>12, <1>16, <5>2 DEF Of
    <5> QED BY <5>1, <5>2
   <4>4. ASSUME turn[t].status = "batched" PROVE Rides(outbox', batches', t, turn[t].batch)
    <5>1. PICK b : b = turn[t].batch OBVIOUS
    <5>2. Rides(outbox, batches, t, b) BY <3>0, <4>4, <5>1 DEF TurnKept
    <5>3. ASSUME NEW j \in DOMAIN outbox, Of(outbox[j], t, "batch")
          PROVE  j \in DOMAIN outbox' /\ Of(outbox'[j], t, "batch") /\ outbox'[j].key = outbox[j].key
     BY <1>15, <5>3 DEF Of
    <5>4. Rides(outbox', batches', t, b) BY <2>2, <5>2, <5>3 DEF Rides
    <5> QED BY <5>1, <5>4
   <4> QED BY <3>0, <4>2, <4>3, <4>4 DEF TurnKept
  <3> QED BY <3>1, <3>2
 <2> QED BY <1>5, <1>17, <1>18, <1>19, <2>1, <2>3, <2>4, <2>5 DEF ArriveInv, HandsTrue, TurnsCarried
<1> QED BY <1>22, <1>24, <1>25

\* Every step keeps it.
LEMMA ArriveNextInv ==
  OutboxInv /\ ArriveInv /\ traffic \in Traffic /\ [OutboxNext]_outboxVars => ArriveInv'
<1> SUFFICES ASSUME OutboxInv, ArriveInv, traffic \in Traffic, [OutboxNext]_outboxVars PROVE ArriveInv' OBVIOUS
<1>1. CASE \E t \in OutTurns : \E o \in Requesters[traffic][t], m \in {"verbatim", "summary", "backstop"} :
             Reply(t, o, m)
 <2>1. PICK t \in OutTurns, m \in {"verbatim", "summary", "backstop"} : \E o \in People : Reply(t, o, m)
  <3>1. \A t \in OutTurns : Requesters[traffic][t] \subseteq People
   <4>1. Requesters \in [Traffic -> [OutTurns -> SUBSET People]] BY OutboxBounds DEF People, Nobody
   <4> QED BY <4>1
  <3> QED BY <1>1, <3>1
 <2> QED BY <2>1, ReplyArrives
<1>2. CASE \E t \in OutTurns : SummaryBegins(t) BY <1>2, SummaryBeginArrives
<1>3. CASE \E how \in Summaries : SummaryEnds(how) BY <1>3, SummaryEndArrives
<1>4. CASE \E b \in DOMAIN batches : WindowPasses(b) BY <1>4, WindowArrives
<1>5. CASE \E b \in DOMAIN batches : BatchRenders(b) BY <1>5, RenderArrives
<1>6. CASE BatchPosts BY <1>6, BatchPostArrives
<1>7. CASE \E o \in Senders \cup {Nobody} : CardPosts(o) BY <1>7, CardArrives DEF People
<1>8. CASE \E how \in AlertTexts \cup {"skipped"} : AlertRelays(how) BY <1>8, AlertArrives
<1>9. CASE \/ \E by \in Senders, i \in DOMAIN outbox : DetailsBegins(by, i)
           \/ \E t \in OutTurns : DetailsReads(t)
           \/ DetailsPublish BY <1>9, DetailsArrive
<1>10. CASE PassSelects BY <1>10, PassArrives
<1>11. CASE SendAnswered \/ SendRetries BY <1>11, SendArrives
<1>12. CASE SendGivenUp BY <1>12, GivenUpArrives
<1>13. CASE \/ Observe \/ CadencePasses \/ Restarts
            \/ (\E i \in backoff : TimerEnds(i)) \/ (\E o \in Senders : OwnersChange(o)) BY <1>13, AsideArrives
<1>14. CASE \E bs \in SUBSET (DOMAIN batches) : ClockBack(bs) BY <1>14, ClockArrives
<1>15. CASE UNCHANGED outboxVars BY <1>15, QuietArrives DEF outboxVars, ArriveInv, HandsTrue
<1> QED BY <1>1, <1>2, <1>3, <1>4, <1>5, <1>6, <1>7, <1>8, <1>9, <1>10, <1>11, <1>12, <1>13, <1>14, <1>15 DEF OutboxNext

\* There is nothing to strand at the start.
LEMMA ArriveInitInv == OutboxInit => ArriveInv
<1> SUFFICES ASSUME OutboxInit PROVE ArriveInv OBVIOUS
<1>1. DOMAIN outbox = {} /\ summing = 0 /\ sending = 0 /\ rendering = NoRender BY DEF OutboxInit
<1>2. \A t \in OutTurns : turn[t].status = "none" BY DEF OutboxInit, NoTurn
<1>3. ~(notice.told < notice.seen) BY DEF OutboxInit
<1>4. RowsShaped /\ BatchRows /\ NoticesTrue /\ CardsInOrder
 BY <1>1, <1>3 DEF RowsShaped, BatchRows, NoticesTrue, CardsInOrder
<1>5. TurnsCarried /\ HandsTrue
 BY <1>1, <1>2 DEF TurnsCarried, TurnKept, HandsTrue, SummingTrue, SendingTrue, RenderingTrue
<1> QED BY <1>4, <1>5 DEF ArriveInv

------------------------------
(* The ask cards.  Neither property is inductive.  That a key stands for one question    *)
(* needs the binding as the middle of it: an ask with a key is the one its key is bound  *)
(* to, and so is all that posters heard (KeysTrue).  That an operator can act on what it *)
(* is told needs that nothing is told of a message before the step that settles it, and  *)
(* that an answer is filed with that word and in one place (MessagesTrue, AnswersTrue).  *)

CardAnswers == [message : OperatorMessages, choice : BOOLEAN]
CardRecords ==
    [kind : {"none", "question", "merge", "approval"}, status : {"none", "open", "answered", "cancelled"},
     content : Nat, key : QuestionKeys \cup {0}, hour : BOOLEAN, quiet : BOOLEAN,
     form : {"ok", "narrow", "broken"}, fulfilled : BOOLEAN, answers : Seq(CardAnswers)]
CardBindings == [content : Nat, ask : CardAsks \cup {0}]
CardReplies == [content : Nat, ask : CardAsks]
Chunks ==
    [ask : CardAsks, what : {"card", "note", "repeat", "details", "bump", "auto"},
     ref : Nat \cup OperatorMessages, part : Nat, status : {"pending", "sent", "failed"}]
Claims ==
    [status : {"none", "received", "executing", "done", "dropped"},
     verb : {"none", "reply", "react", "answer", "details", "bump", "repeat"},
     text : {"choice", "free", "control", "empty", "none"}, ask : CardAsks \cup {0},
     what : {"none", "id", "card", "note", "repeat", "details", "bump", "auto"}]
Outcomes == {"refused", "denied", "recorded", "hint", "listed", "resend"}

\* Types of the ask cards.
CardType ==
    /\ asks \in [CardAsks -> CardRecords] /\ bindings \in [QuestionKeys -> CardBindings]
    /\ heard \in [QuestionKeys -> SUBSET CardReplies] /\ chunks \subseteq Chunks
    /\ inbound \in [OperatorMessages -> Claims] /\ toldOf \in [OperatorMessages -> SUBSET Outcomes]
    /\ scene \in Scenes /\ bumps \in Nat

\* An ask that is not there has no key and no answers.
FreshTrue == \A a \in CardAsks : asks[a].status = "none" => asks[a].key = 0 /\ asks[a].answers = <<>>

\* A key is of the ask that it is bound to, and that is the ask every poster heard of.
KeysTrue ==
    \A k \in QuestionKeys :
        /\ \A a \in CardAsks : asks[a].key = k => bindings[k].ask = a
        /\ bindings[k].ask # 0 => /\ asks[bindings[k].ask].key = k
                                  /\ asks[bindings[k].ask].content = bindings[k].content
        /\ \A h \in heard[k] : h.ask = bindings[k].ask /\ h.content = bindings[k].content

\* A message that is on a card or names an ask is about one that is there.
ClaimsTrue ==
    \A m \in OperatorMessages :
        inbound[m].what # "none" \/ inbound[m].verb = "answer" => inbound[m].ask \in CardAsks

\* No one is told of a message before it is settled, and of a settled one once; the answers are of the
\* messages that were told so, each in one place.
UntoldYet(i, m) == i[m].status \in {"none", "received", "executing"}
AnswerAt(f, a, i, m) == i \in DOMAIN f[a].answers /\ f[a].answers[i].message = m
MessagesTrue ==
    \A m \in OperatorMessages :
        /\ UntoldYet(inbound, m) => toldOf[m] = {}
        /\ \A t, u \in toldOf[m] : t = u
AnswersTrue ==
    /\ \A a \in CardAsks : Len(asks[a].answers) <= MaxAnswers
    /\ \A m \in OperatorMessages :
        /\ \A a \in CardAsks, i \in Nat : AnswerAt(asks, a, i, m) => toldOf[m] = {"recorded"}
        /\ \A a, b \in CardAsks, i, j \in Nat :
              AnswerAt(asks, a, i, m) /\ AnswerAt(asks, b, j, m) => a = b /\ i = j
        /\ toldOf[m] = {"recorded"} => \E a \in CardAsks, i \in Nat : AnswerAt(asks, a, i, m)

CardInv == CardType /\ FreshTrue /\ KeysTrue /\ ClaimsTrue /\ MessagesTrue /\ AnswersTrue

\* The asks keep what the invariant is about.
SameAsk(r, q) ==
    /\ q.key = r.key /\ q.content = r.content /\ q.answers = r.answers
    /\ q.status = "none" => r.status = "none"
AsksKept == asks' \in [CardAsks -> CardRecords] /\ \A a \in CardAsks : SameAsk(asks[a], asks'[a])

\* A message in hand is settled, and told of once at most.
MessagesMove ==
    /\ inbound' \in [OperatorMessages -> Claims] /\ toldOf' \in [OperatorMessages -> SUBSET Outcomes]
    /\ \A m \in OperatorMessages :
        /\ inbound'[m].ask = inbound[m].ask /\ inbound'[m].what = inbound[m].what
        /\ inbound'[m].verb = inbound[m].verb
        /\ UntoldYet(inbound', m) => UntoldYet(inbound, m) /\ toldOf'[m] = toldOf[m]
        /\ \/ toldOf'[m] = toldOf[m]
           \/ toldOf[m] = {} /\ \E t \in Outcomes \ {"recorded"} : toldOf'[m] = {t}

\* One ask changes in what the invariant is not about.
LEMMA OneAskChanges ==
  ASSUME CardType, NEW a, NEW z, asks' = [asks EXCEPT ![a] = z],
    a \in CardAsks => z \in CardRecords /\ SameAsk(asks[a], z)
  PROVE  AsksKept
<1>1. asks \in [CardAsks -> CardRecords] BY DEF CardType
<1>2. asks' \in [CardAsks -> CardRecords] BY <1>1
<1>3. \A b \in CardAsks : asks'[b] = IF b = a THEN z ELSE asks[b] BY <1>1
<1>4. \A b \in CardAsks : SameAsk(asks[b], asks[b]) BY DEF SameAsk
<1> QED BY <1>2, <1>3, <1>4 DEF AsksKept

\* Its clock, its form and its status are such.
LEMMA FieldChanges ==
  ASSUME NEW r \in CardRecords, NEW z,
    \/ \E q \in BOOLEAN : z = [r EXCEPT !.quiet = q]
    \/ \E h \in BOOLEAN, q \in BOOLEAN : z = [r EXCEPT !.hour = h, !.quiet = q]
    \/ \E f \in BOOLEAN : z = [r EXCEPT !.fulfilled = f]
    \/ \E f \in {"narrow", "broken"} : z = [r EXCEPT !.form = f]
    \/ \E x \in {"open", "answered", "cancelled"} : z = [r EXCEPT !.status = x]
    \/ z = r
  PROVE  z \in CardRecords /\ SameAsk(r, z)
BY DEF CardRecords, SameAsk

\* Nothing changes.
LEMMA SameAsks == ASSUME CardType, asks' = asks PROVE AsksKept
BY DEF CardType, AsksKept, SameAsk

\* The clock of one ask starts again.
LEMMA TouchedKeeps == ASSUME CardType, NEW a, asks' = Touched(a) PROVE AsksKept
<1>1. PICK z : z = [asks[a] EXCEPT !.quiet = FALSE] OBVIOUS
<1>2. asks' = [asks EXCEPT ![a] = z] BY <1>1 DEF Touched
<1>3. a \in CardAsks => asks[a] \in CardRecords BY DEF CardType
<1>4. a \in CardAsks => z \in CardRecords /\ SameAsk(asks[a], z) BY <1>1, <1>3, FieldChanges
<1> QED BY <1>2, <1>4, OneAskChanges

\* The keys, when no ask is stored.
LEMMA KeysKeep ==
  ASSUME CardType, FreshTrue, KeysTrue, AsksKept, UNCHANGED <<bindings, heard>>
  PROVE  FreshTrue' /\ KeysTrue'
<1>1. FreshTrue' BY DEF FreshTrue, AsksKept, SameAsk
<1>2. ASSUME NEW k \in QuestionKeys
      PROVE  bindings[k].ask # 0 => bindings[k].ask \in CardAsks BY DEF CardType, CardBindings
<1>3. KeysTrue' BY <1>2 DEF KeysTrue, AsksKept, SameAsk
<1> QED BY <1>1, <1>3

\* The messages, when none arrives and none is an answer.
LEMMA MessagesKeep ==
  ASSUME CardType, ClaimsTrue, MessagesTrue, AnswersTrue, AsksKept, MessagesMove
  PROVE  ClaimsTrue' /\ MessagesTrue' /\ AnswersTrue'
<1>1. ClaimsTrue' BY DEF ClaimsTrue, MessagesMove
<1>2. MessagesTrue'
 <2> SUFFICES ASSUME NEW m \in OperatorMessages
              PROVE  /\ UntoldYet(inbound', m) => toldOf'[m] = {}
                     /\ \A t, u \in toldOf'[m] : t = u BY DEF MessagesTrue, UntoldYet
 <2>1. UntoldYet(inbound', m) => toldOf'[m] = {} BY DEF MessagesTrue, MessagesMove
 <2>2. \A t, u \in toldOf'[m] : t = u BY DEF MessagesTrue, MessagesMove
 <2> QED BY <2>1, <2>2
<1>3. AnswersTrue'
 <2>1. \A a \in CardAsks : Len(asks'[a].answers) <= MaxAnswers BY DEF AnswersTrue, AsksKept, SameAsk
 <2>2. ASSUME NEW a \in CardAsks, NEW i \in Nat, NEW m \in OperatorMessages
       PROVE  AnswerAt(asks', a, i, m) = AnswerAt(asks, a, i, m) BY DEF AnswerAt, AsksKept, SameAsk
 <2>3. ASSUME NEW m \in OperatorMessages PROVE (toldOf'[m] = {"recorded"}) <=> (toldOf[m] = {"recorded"})
  BY DEF MessagesMove
 <2>4. ASSUME NEW m \in OperatorMessages
       PROVE  /\ \A a \in CardAsks, i \in Nat : AnswerAt(asks', a, i, m) => toldOf'[m] = {"recorded"}
              /\ \A a, b \in CardAsks, i, j \in Nat :
                    AnswerAt(asks', a, i, m) /\ AnswerAt(asks', b, j, m) => a = b /\ i = j
              /\ toldOf'[m] = {"recorded"} => \E a \in CardAsks, i \in Nat : AnswerAt(asks', a, i, m)
  <3>1. /\ \A a \in CardAsks, i \in Nat : AnswerAt(asks, a, i, m) => toldOf[m] = {"recorded"}
        /\ \A a, b \in CardAsks, i, j \in Nat :
              AnswerAt(asks, a, i, m) /\ AnswerAt(asks, b, j, m) => a = b /\ i = j
        /\ toldOf[m] = {"recorded"} => \E a \in CardAsks, i \in Nat : AnswerAt(asks, a, i, m) BY DEF AnswersTrue
  <3> QED BY <2>2, <2>3, <3>1
 <2> QED BY <2>1, <2>4 DEF AnswersTrue
<1> QED BY <1>1, <1>2, <1>3

\* Nothing is told.
LEMMA SameMessages == ASSUME CardType, UNCHANGED <<inbound, toldOf>> PROVE MessagesMove
BY DEF CardType, MessagesMove, UntoldYet

\* A message is settled or starts.
LEMMA StatusMoves ==
  ASSUME CardType, NEW m \in OperatorMessages, UntoldYet(inbound, m),
    NEW s \in {"executing", "done", "dropped"}, Status(m, s),
    toldOf' \in [OperatorMessages -> SUBSET Outcomes],
    \A n \in OperatorMessages : n # m => toldOf'[n] = toldOf[n],
    \/ toldOf'[m] = toldOf[m]
    \/ s # "executing" /\ toldOf[m] = {} /\ \E t \in Outcomes \ {"recorded"} : toldOf'[m] = {t}
  PROVE  MessagesMove
<1>1. PICK z : z = [inbound[m] EXCEPT !.status = s] OBVIOUS
<1>2. inbound' = [inbound EXCEPT ![m] = z] BY <1>1 DEF Status
<1>3. inbound \in [OperatorMessages -> Claims] BY DEF CardType
<1>4. /\ z \in Claims /\ z.ask = inbound[m].ask /\ z.what = inbound[m].what /\ z.verb = inbound[m].verb
      /\ z.status = s BY <1>1, <1>3 DEF Claims
<1>5. inbound' \in [OperatorMessages -> Claims] BY <1>2, <1>3, <1>4
<1>6. inbound'[m] = z /\ \A n \in OperatorMessages : n # m => inbound'[n] = inbound[n] BY <1>2, <1>3
<1> QED BY <1>4, <1>5, <1>6 DEF MessagesMove, UntoldYet

\* It is settled, and the operator told of it.
LEMMA Settles ==
  ASSUME CardType, MessagesTrue, NEW m \in OperatorMessages, UntoldYet(inbound, m),
    NEW s \in {"done", "dropped"}, Status(m, s), NEW t \in Outcomes \ {"recorded"}, TellSender(m, t)
  PROVE  MessagesMove
<1>1. toldOf[m] = {} /\ toldOf \in [OperatorMessages -> SUBSET Outcomes] BY DEF MessagesTrue, CardType
<1>2. /\ toldOf' \in [OperatorMessages -> SUBSET Outcomes] /\ toldOf'[m] = {t}
      /\ \A n \in OperatorMessages : n # m => toldOf'[n] = toldOf[n] BY <1>1 DEF TellSender
<1> QED BY <1>1, <1>2, StatusMoves

\* It is settled or starts, and nothing is told.
LEMMA StatusOnly ==
  ASSUME CardType, NEW m \in OperatorMessages, UntoldYet(inbound, m),
    NEW s \in {"executing", "done", "dropped"}, Status(m, s), toldOf' = toldOf
  PROVE  MessagesMove
<1>1. toldOf \in [OperatorMessages -> SUBSET Outcomes] BY DEF CardType
<1> QED BY <1>1, StatusMoves

\* It is denied.
LEMMA DenialMoves ==
  ASSUME CardType, MessagesTrue, NEW m \in OperatorMessages, UntoldYet(inbound, m), Deny(m)
  PROVE  MessagesMove
<1>1. Status(m, "dropped") /\ (toldOf' = toldOf \/ TellSender(m, "denied")) BY DEF Deny, TellSender
<1>2. CASE toldOf' = toldOf BY <1>1, <1>2, StatusOnly
<1>3. CASE TellSender(m, "denied") BY <1>1, <1>3, Settles DEF Outcomes
<1> QED BY <1>1, <1>2, <1>3

\* The invariant, when no ask is stored, no message arrives and none is an answer.
LEMMA CardAssembles ==
  ASSUME CardInv, AsksKept, MessagesMove, UNCHANGED <<bindings, heard, scene>>,
    chunks' \subseteq Chunks, bumps' \in Nat
  PROVE  CardInv'
<1>1. FreshTrue' /\ KeysTrue' BY KeysKeep DEF CardInv
<1>2. ClaimsTrue' /\ MessagesTrue' /\ AnswersTrue' BY MessagesKeep DEF CardInv
<1>3. CardType' BY DEF CardInv, CardType, AsksKept, MessagesMove
<1> QED BY <1>1, <1>2, <1>3 DEF CardInv

\* Parts that are queued.
LEMMA QueuedParts ==
  ASSUME NEW a \in CardAsks, NEW w \in {"card", "note", "repeat", "details", "bump", "auto"},
    NEW r \in Nat \cup OperatorMessages, NEW n \in Nat
  PROVE  PartsQueued(a, w, r, n) \subseteq Chunks
BY DEF PartsQueued, Chunks

\* An ask is stored under an id that was free.
LEMMA AskStored ==
  ASSUME CardInv, NEW a \in CardAsks, a \notin Stored,
    NEW z \in CardRecords, z.answers = <<>>, z.status # "none",
    asks' = [asks EXCEPT ![a] = z], UNCHANGED <<inbound, toldOf>>
  PROVE  ClaimsTrue' /\ MessagesTrue' /\ AnswersTrue' /\ FreshTrue'
<1>1. /\ asks \in [CardAsks -> CardRecords] /\ asks[a].status = "none"
      /\ ClaimsTrue /\ MessagesTrue /\ AnswersTrue /\ FreshTrue BY DEF CardInv, CardType, Stored
<1>2. asks'[a] = z /\ \A b \in CardAsks : b # a => asks'[b] = asks[b] BY <1>1
<1>3. ClaimsTrue' /\ MessagesTrue' BY <1>1 DEF ClaimsTrue, MessagesTrue, UntoldYet
<1>4. FreshTrue' BY <1>1, <1>2 DEF FreshTrue
<1>5. \A b \in CardAsks : asks'[b].answers = asks[b].answers BY <1>1, <1>2 DEF FreshTrue
<1>6. ASSUME NEW b \in CardAsks, NEW i \in Nat, NEW m \in OperatorMessages
      PROVE  AnswerAt(asks', b, i, m) = AnswerAt(asks, b, i, m) BY <1>5 DEF AnswerAt
<1>7. AnswersTrue' BY <1>1, <1>5, <1>6 DEF AnswersTrue, AnswerAt
<1> QED BY <1>3, <1>4, <1>7

\* The ask and the key's binding are stored together, and the poster hears of them or not.
LEMMA KeyBound ==
  ASSUME CardInv, NEW a \in CardAsks, a \notin Stored, NEW req, req.key \in QuestionKeys \cup {0},
    NEW z \in CardRecords, z.key = req.key, z.content = req.content, req.content \in Nat,
    asks' = [asks EXCEPT ![a] = z], req.key # 0 => bindings[req.key].ask = 0,
    bindings' = IF req.key = 0 THEN bindings
                ELSE [bindings EXCEPT ![req.key] = [content |-> req.content, ask |-> a]],
    Hears(req, a)
  PROVE  /\ KeysTrue' /\ bindings' \in [QuestionKeys -> CardBindings]
         /\ heard' \in [QuestionKeys -> SUBSET CardReplies]
<1>1. /\ asks \in [CardAsks -> CardRecords] /\ bindings \in [QuestionKeys -> CardBindings]
      /\ heard \in [QuestionKeys -> SUBSET CardReplies] /\ KeysTrue /\ asks[a].key = 0
 BY DEF CardInv, CardType, Stored, FreshTrue
<1>2. asks'[a] = z /\ \A b \in CardAsks : b # a => asks'[b] = asks[b] BY <1>1
<1>3. 0 \notin QuestionKeys /\ 0 \notin CardAsks BY CardScenes
<1>4. \A k \in QuestionKeys : bindings[k].ask \in CardAsks \cup {0} BY <1>1 DEF CardBindings
<1>5. \A k \in QuestionKeys : bindings[k].ask # a BY <1>1, <1>3 DEF KeysTrue
<1>6. CASE req.key = 0
 <2>1. UNCHANGED <<bindings, heard>> BY <1>6 DEF Hears
 <2>2. KeysTrue' BY <1>1, <1>2, <1>3, <1>4, <1>5, <1>6, <2>1 DEF KeysTrue
 <2> QED BY <1>1, <2>1, <2>2
<1>7. CASE req.key # 0
 <2>1. PICK b : b = [content |-> req.content, ask |-> a] OBVIOUS
 <2>2. b \in CardBindings /\ b \in CardReplies /\ b.content = req.content /\ b.ask = a
  BY <2>1 DEF CardBindings, CardReplies
 <2>3. req.key \in QuestionKeys BY <1>7
 <2>4. bindings' = [bindings EXCEPT ![req.key] = b] BY <1>7, <2>1
 <2>5. /\ bindings' \in [QuestionKeys -> CardBindings] /\ bindings'[req.key] = b
       /\ \A k \in QuestionKeys : k # req.key => bindings'[k] = bindings[k] BY <1>1, <2>2, <2>3, <2>4
 <2>6. heard[req.key] = {}
  <3>1. \A h \in heard[req.key] : h \in CardReplies /\ h.ask = 0 BY <1>1, <1>7, <2>3 DEF KeysTrue
  <3>2. \A h \in CardReplies : h.ask \in CardAsks BY DEF CardReplies
  <3> QED BY <1>3, <3>1, <3>2
 <2>7. PICK hs \in {{}, {b}} : heard' = [heard EXCEPT ![req.key] = hs]
  <3>1. heard' = heard \/ heard' = [heard EXCEPT ![req.key] = heard[req.key] \cup {b}] BY <1>7, <2>1 DEF Hears
  <3>2. heard = [heard EXCEPT ![req.key] = {}] BY <1>1, <2>3, <2>6
  <3>3. heard[req.key] \cup {b} = {b} BY <2>6
  <3>4. heard' = [heard EXCEPT ![req.key] = {}] \/ heard' = [heard EXCEPT ![req.key] = {b}] BY <3>1, <3>2, <3>3
  <3> QED BY <3>4
 <2>8. /\ heard' \in [QuestionKeys -> SUBSET CardReplies] /\ heard'[req.key] \subseteq {b}
       /\ \A k \in QuestionKeys : k # req.key => heard'[k] = heard[k] BY <1>1, <2>2, <2>3, <2>7
 <2>9. ASSUME NEW k \in QuestionKeys
       PROVE  /\ \A x \in CardAsks : asks'[x].key = k => bindings'[k].ask = x
              /\ bindings'[k].ask # 0 => /\ asks'[bindings'[k].ask].key = k
                                         /\ asks'[bindings'[k].ask].content = bindings'[k].content
              /\ \A h \in heard'[k] : h.ask = bindings'[k].ask /\ h.content = bindings'[k].content
  <3>1. CASE k = req.key
   <4>1. \A x \in CardAsks : asks[x].key # k BY <1>1, <1>3, <1>7, <3>1 DEF KeysTrue
   <4>2. \A x \in CardAsks : asks'[x].key = k => x = a BY <1>2, <4>1
   <4> QED BY <1>2, <2>2, <2>5, <2>8, <3>1, <4>2
  <3>2. CASE k # req.key
   <4>1. \A x \in CardAsks : asks'[x].key = k => x # a /\ asks[x].key = k BY <1>2, <3>2
   <4>2. bindings'[k] = bindings[k] /\ heard'[k] = heard[k] /\ bindings[k].ask # a BY <1>5, <2>5, <2>8, <3>2
   <4> QED BY <1>1, <1>2, <1>4, <4>1, <4>2 DEF KeysTrue
  <3> QED BY <3>1, <3>2
 <2>10. KeysTrue' BY <2>9 DEF KeysTrue
 <2> QED BY <2>5, <2>8, <2>10
<1> QED BY <1>6, <1>7

\* A post in the lock.
LEMMA PostsKeepCards ==
  ASSUME CardInv, NEW req \in scene.posts, PostStores(req)
  PROVE  CardInv'
<1>1. CardType /\ scene \in Scenes BY DEF CardInv, CardType
<1>2. UNCHANGED <<inbound, toldOf, bumps, scene>> BY DEF PostStores
<1>3. CASE UNCHANGED <<asks, bindings, heard, chunks>>
 <2>1. AsksKept /\ MessagesMove BY <1>1, <1>2, <1>3, SameAsks, SameMessages
 <2>2. chunks' \subseteq Chunks /\ bumps' \in Nat BY <1>1, <1>2, <1>3 DEF CardType
 <2> QED BY <1>2, <1>3, <2>1, <2>2, CardAssembles
<1>4. CASE ~UNCHANGED <<asks, bindings, heard, chunks>>
 <2>1. PICK a \in CardAsks :
         /\ FreshAsk(a)
         /\ asks' = [asks EXCEPT ![a] = [NoAsk EXCEPT !.kind = req.kind, !.status = "open", !.key = req.key,
                                         !.content = req.content, !.hour = TRUE]]
         /\ chunks' = chunks \cup PartsQueued(a, "card", 0, CardParts)
         /\ bindings' = IF req.key = 0 THEN bindings
                        ELSE [bindings EXCEPT ![req.key] = [content |-> req.content, ask |-> a]]
         /\ Hears(req, a) BY <1>4 DEF PostStores
 <2>2. /\ req.key \in QuestionKeys \cup {0} /\ req.content \in Nat /\ req.kind \in {"question", "merge"}
  BY <1>1, CardScenes
 <2>3. PICK z : z = [NoAsk EXCEPT !.kind = req.kind, !.status = "open", !.key = req.key,
                                  !.content = req.content, !.hour = TRUE]
  OBVIOUS
 <2>4. /\ z \in CardRecords /\ z.key = req.key /\ z.content = req.content /\ z.answers = <<>>
       /\ z.status # "none"
  <3>1. PICK kd \in {"question", "merge"}, ky \in QuestionKeys \cup {0}, ct \in Nat :
          kd = req.kind /\ ky = req.key /\ ct = req.content BY <2>2
  <3>2. PICK none : none = <<>> /\ none \in Seq(CardAnswers)
   <4>1. <<>> \in Seq(CardAnswers) OBVIOUS
   <4> QED BY <4>1
  <3>3. z = [kind |-> kd, status |-> "open", content |-> ct, key |-> ky, hour |-> TRUE, quiet |-> FALSE,
             form |-> "ok", fulfilled |-> FALSE, answers |-> none] BY <2>3, <3>1, <3>2 DEF NoAsk
  <3> QED BY <3>1, <3>2, <3>3 DEF CardRecords
 <2>5. a \notin Stored /\ asks' = [asks EXCEPT ![a] = z] BY <2>1, <2>3 DEF FreshAsk
 <2>6. req.key # 0 => bindings[req.key].ask = 0 BY DEF PostStores, KeyRetained
 <2>7. /\ KeysTrue' /\ bindings' \in [QuestionKeys -> CardBindings]
       /\ heard' \in [QuestionKeys -> SUBSET CardReplies] BY <2>1, <2>2, <2>4, <2>5, <2>6, KeyBound
 <2>8. ClaimsTrue' /\ MessagesTrue' /\ AnswersTrue' /\ FreshTrue' BY <1>2, <2>4, <2>5, AskStored
 <2>9. PartsQueued(a, "card", 0, CardParts) \subseteq Chunks BY QueuedParts, CardBounds
 <2>10. CardType' BY <1>1, <1>2, <2>1, <2>4, <2>5, <2>7, <2>9 DEF CardType
 <2> QED BY <2>7, <2>8, <2>10 DEF CardInv
<1> QED BY <1>3, <1>4

\* A post whose key is bound hears of the ask it is bound to.
LEMMA RetainedKeeps ==
  ASSUME CardInv, NEW req \in scene.posts, PostRetained(req)
  PROVE  CardInv'
<1>1. CardType /\ KeysTrue /\ scene \in Scenes BY DEF CardInv, CardType
<1>2. UNCHANGED <<asks, bindings, chunks, inbound, toldOf, bumps, scene>> BY DEF PostRetained
<1>3. req.key \in QuestionKeys /\ req.content \in Nat
 <2>1. req.key \in QuestionKeys \cup {0} /\ req.content \in Nat BY <1>1, CardScenes
 <2> QED BY <2>1 DEF PostRetained
<1>4. PICK b : b = [content |-> req.content, ask |-> bindings[req.key].ask] OBVIOUS
<1>5. heard' = heard \/ (/\ heard' = [heard EXCEPT ![req.key] = heard[req.key] \cup {b}]
                         /\ req.content = bindings[req.key].content) BY <1>4 DEF PostRetained, Hears
<1>6. bindings[req.key].ask \in CardAsks
 <2>1. bindings[req.key].ask \in CardAsks \cup {0} /\ bindings[req.key].ask # 0
  BY <1>1, <1>3 DEF CardType, CardBindings, PostRetained, KeyRetained
 <2> QED BY <2>1
<1>7. b \in CardReplies /\ b.content = req.content /\ b.ask = bindings[req.key].ask
 BY <1>3, <1>4, <1>6 DEF CardReplies
<1>8. heard \in [QuestionKeys -> SUBSET CardReplies] BY <1>1 DEF CardType
<1>9. /\ heard' \in [QuestionKeys -> SUBSET CardReplies]
      /\ \A k \in QuestionKeys : \A h \in heard'[k] :
            h \in heard[k] \/ (k = req.key /\ h = b /\ req.content = bindings[req.key].content)
 BY <1>3, <1>5, <1>7, <1>8
<1>10. KeysTrue' BY <1>1, <1>2, <1>7, <1>9 DEF KeysTrue
<1>11. CardType' BY <1>1, <1>2, <1>9 DEF CardType
<1>12. FreshTrue' /\ ClaimsTrue' /\ MessagesTrue' /\ AnswersTrue'
 BY <1>2 DEF CardInv, FreshTrue, ClaimsTrue, MessagesTrue, AnswersTrue, UntoldYet, AnswerAt
<1> QED BY <1>10, <1>11, <1>12 DEF CardInv

\* A message is recorded: one more answer of one ask.
LEMMA AnswerRecorded ==
  ASSUME CardInv, NEW m \in OperatorMessages, UntoldYet(inbound, m), NEW a \in CardAsks,
    ~AnswerRefused(a, inbound[m].text), Answers(m, a),
    UNCHANGED <<bindings, heard, scene, chunks, bumps>>
  PROVE  CardInv'
<1>1. /\ CardType /\ FreshTrue /\ KeysTrue /\ ClaimsTrue /\ MessagesTrue /\ AnswersTrue
      /\ asks \in [CardAsks -> CardRecords] /\ asks[a] \in CardRecords BY DEF CardInv, CardType
<1>2. PICK w : w = [message |-> m, choice |-> Choice(a, inbound[m].text)] OBVIOUS
<1>3. w \in CardAnswers /\ w.message = m BY <1>2 DEF CardAnswers, Choice
<1>4. PICK st : st = IF asks[a].kind = "approval" THEN asks[a].status ELSE "answered" OBVIOUS
<1>5. PICK z1 : z1 = [asks[a] EXCEPT !.quiet = FALSE] OBVIOUS
<1>6. z1 \in CardRecords /\ SameAsk(asks[a], z1) BY <1>1, <1>5, FieldChanges
<1>7. PICK ans : ans = Append(z1.answers, w) OBVIOUS
<1>8. PICK z2 : z2 = [z1 EXCEPT !.answers = ans] OBVIOUS
<1>9. PICK z : z = [z2 EXCEPT !.status = st] OBVIOUS
<1>10. asks' = [asks EXCEPT ![a] = z] /\ Status(m, "done") /\ TellSender(m, "recorded")
 <2>1. /\ asks' = SetAsk(AddAnswer(Touched(a), a, w), a, st) /\ Settle(m, "recorded") BY <1>2, <1>4 DEF Answers
 <2>2. Touched(a) = [asks EXCEPT ![a] = z1] BY <1>5 DEF Touched
 <2>3. PICK g : g = [asks EXCEPT ![a] = z1] OBVIOUS
 <2>4. g \in [CardAsks -> CardRecords] /\ g[a] = z1 BY <1>1, <1>6, <2>3
 <2>5. AddAnswer(g, a, w) = [g EXCEPT ![a] = z2] BY <1>7, <1>8, <2>4 DEF AddAnswer
 <2>6. PICK h : h = [g EXCEPT ![a] = z2] OBVIOUS
 <2>7. h[a] = z2 BY <2>4, <2>6
 <2>8. SetAsk(h, a, st) = [h EXCEPT ![a] = z] BY <1>9, <2>7 DEF SetAsk
 <2>9. [h EXCEPT ![a] = z] = [asks EXCEPT ![a] = z] BY <1>1, <2>3, <2>6
 <2> QED BY <2>1, <2>2, <2>3, <2>5, <2>6, <2>8, <2>9 DEF Settle
<1>11. /\ asks[a].status \in {"open", "answered"} /\ Len(asks[a].answers) < MaxAnswers
       /\ asks[a].answers \in Seq(CardAnswers)
 <2>1. Len(asks[a].answers) \in Nat /\ asks[a].answers \in Seq(CardAnswers) BY <1>1 DEF CardRecords
 <2> QED BY <2>1, CardBounds DEF AnswerRefused
<1>12. st \in {"open", "answered"} BY <1>4, <1>11
<1>13. z1.answers = asks[a].answers /\ z1.key = asks[a].key /\ z1.content = asks[a].content BY <1>6 DEF SameAsk
<1>14. ans \in Seq(CardAnswers) /\ ans = Append(asks[a].answers, w) BY <1>3, <1>7, <1>11, <1>13
<1>15. /\ z \in CardRecords /\ z.answers = ans /\ z.key = asks[a].key /\ z.content = asks[a].content
       /\ z.status = st BY <1>6, <1>8, <1>9, <1>12, <1>13, <1>14 DEF CardRecords
<1>16. /\ asks' \in [CardAsks -> CardRecords] /\ asks'[a] = z
       /\ \A b \in CardAsks : b # a => asks'[b] = asks[b] BY <1>1, <1>10, <1>15
<1>17. toldOf[m] = {} /\ toldOf \in [OperatorMessages -> SUBSET Outcomes] BY <1>1 DEF MessagesTrue, CardType
<1>18. /\ toldOf' \in [OperatorMessages -> SUBSET Outcomes] /\ toldOf'[m] = {"recorded"}
       /\ \A n \in OperatorMessages : n # m => toldOf'[n] = toldOf[n] BY <1>10, <1>17 DEF TellSender, Outcomes
<1>19. PICK c : c = [inbound[m] EXCEPT !.status = "done"] OBVIOUS
<1>20. inbound' = [inbound EXCEPT ![m] = c] /\ inbound \in [OperatorMessages -> Claims]
 BY <1>1, <1>10, <1>19 DEF Status, CardType
<1>21. /\ c \in Claims /\ c.ask = inbound[m].ask /\ c.what = inbound[m].what /\ c.verb = inbound[m].verb
       /\ c.status = "done" BY <1>19, <1>20 DEF Claims
<1>22. /\ inbound' \in [OperatorMessages -> Claims] /\ inbound'[m] = c
       /\ \A n \in OperatorMessages : n # m => inbound'[n] = inbound[n] BY <1>20, <1>21
<1>23. ClaimsTrue' BY <1>1, <1>21, <1>22 DEF ClaimsTrue
<1>24. MessagesTrue' BY <1>1, <1>18, <1>21, <1>22 DEF MessagesTrue, UntoldYet
<1>25. FreshTrue' BY <1>1, <1>12, <1>15, <1>16 DEF FreshTrue
<1>26. KeysTrue'
 <2>1. \A b \in CardAsks : asks'[b].key = asks[b].key /\ asks'[b].content = asks[b].content BY <1>15, <1>16
 <2>2. \A k \in QuestionKeys : bindings[k].ask # 0 => bindings[k].ask \in CardAsks BY <1>1 DEF CardType, CardBindings
 <2> QED BY <1>1, <2>1, <2>2 DEF KeysTrue
<1>27. AnswersTrue'
 <2>1. PICK last : last = Len(asks[a].answers) + 1 OBVIOUS
 <2>2. /\ last \in Nat /\ 1 <= last /\ last <= MaxAnswers /\ Len(ans) = last /\ ans[last] = w
       /\ DOMAIN ans = 1 .. last /\ last \notin DOMAIN asks[a].answers
       /\ DOMAIN asks[a].answers = 1 .. (last - 1)
       /\ \A i \in DOMAIN asks[a].answers : ans[i] = asks[a].answers[i]
  <3>1. PICK old \in Seq(CardAnswers) : old = asks[a].answers BY <1>11
  <3>2. PICK n \in Nat : n = Len(old) OBVIOUS
  <3>3. last = n + 1 /\ n < MaxAnswers /\ MaxAnswers \in Nat BY <1>11, <2>1, <3>1, <3>2, CardBounds
  <3>4. ans = Append(old, w) BY <1>14, <3>1
  <3>5. DOMAIN old = 1 .. n /\ DOMAIN ans = 1 .. (n + 1) /\ Len(ans) = n + 1 BY <1>3, <3>2, <3>4
  <3>6. ans[n + 1] = w /\ \A i \in 1 .. n : ans[i] = old[i] BY <1>3, <3>2, <3>4
  <3>7. last \in Nat /\ 1 <= last /\ last <= MaxAnswers /\ last - 1 = n /\ last \notin 1 .. n BY <3>3
  <3> QED BY <3>1, <3>3, <3>5, <3>6, <3>7
 <2>3. \A b \in CardAsks : Len(asks'[b].answers) <= MaxAnswers BY <1>1, <1>15, <1>16, <2>2 DEF AnswersTrue
 <2>4. \A i \in Nat, n \in OperatorMessages :
         AnswerAt(asks', a, i, n) <=> AnswerAt(asks, a, i, n) \/ (i = last /\ n = m)
  <3> SUFFICES ASSUME NEW i \in Nat, NEW n \in OperatorMessages
               PROVE  AnswerAt(asks', a, i, n) <=> AnswerAt(asks, a, i, n) \/ (i = last /\ n = m)
   OBVIOUS
  <3>1. AnswerAt(asks', a, i, n) <=> i \in DOMAIN ans /\ ans[i].message = n BY <1>15, <1>16 DEF AnswerAt
  <3>2. CASE i = last
   <4>1. last \in DOMAIN ans BY <2>2
   <4>2. ~AnswerAt(asks, a, i, n) BY <2>2, <3>2 DEF AnswerAt
   <4> QED BY <1>3, <2>2, <3>1, <3>2, <4>1, <4>2
  <3>3. CASE i # last
   <4>1. i \in DOMAIN ans <=> i \in DOMAIN asks[a].answers BY <2>2, <3>3
   <4> QED BY <2>2, <3>1, <3>3, <4>1 DEF AnswerAt
  <3> QED BY <3>2, <3>3
 <2>5. \A b \in CardAsks, i \in Nat, n \in OperatorMessages :
         AnswerAt(asks', b, i, n) <=> AnswerAt(asks, b, i, n) \/ (b = a /\ i = last /\ n = m)
  BY <1>16, <2>4 DEF AnswerAt
 <2>6. \A b \in CardAsks, i \in Nat : ~AnswerAt(asks, b, i, m) BY <1>1, <1>17 DEF AnswersTrue
 <2>7. ASSUME NEW n \in OperatorMessages
       PROVE  /\ \A b \in CardAsks, i \in Nat : AnswerAt(asks', b, i, n) => toldOf'[n] = {"recorded"}
              /\ \A b, d \in CardAsks, i, j \in Nat :
                    AnswerAt(asks', b, i, n) /\ AnswerAt(asks', d, j, n) => b = d /\ i = j
              /\ toldOf'[n] = {"recorded"} => \E b \in CardAsks, i \in Nat : AnswerAt(asks', b, i, n)
  <3>1. CASE n = m BY <1>18, <2>2, <2>5, <2>6, <3>1
  <3>2. CASE n # m
   <4>1. \A b \in CardAsks, i \in Nat : AnswerAt(asks', b, i, n) <=> AnswerAt(asks, b, i, n) BY <2>5, <3>2
   <4>2. toldOf'[n] = toldOf[n] BY <1>18, <3>2
   <4> QED BY <1>1, <4>1, <4>2 DEF AnswersTrue
  <3> QED BY <3>1, <3>2
 <2> QED BY <2>3, <2>7 DEF AnswersTrue, AnswerAt
<1>28. CardType' BY <1>1, <1>16, <1>18, <1>22 DEF CardType
<1> QED BY <1>23, <1>24, <1>25, <1>26, <1>27, <1>28 DEF CardInv

\* A message is claimed.
LEMMA ClaimKeeps ==
  ASSUME CardInv, NEW m \in OperatorMessages, NEW say \in scene.says[m], NEW c \in Targets(say.verb),
    Delivered(m, say, c)
  PROVE  CardInv'
<1>1. CardType /\ ClaimsTrue /\ MessagesTrue /\ scene \in Scenes /\ chunks \subseteq Chunks BY DEF CardInv, CardType
<1>2. /\ say.verb \in {"reply", "react", "answer", "details", "bump", "repeat"}
      /\ say.text \in {"choice", "free", "control", "empty", "none"} BY <1>1, CardScenes
<1>3. /\ c.ask \in CardAsks \cup {0}
      /\ c.what \in {"none", "id", "card", "note", "repeat", "details", "bump", "auto"}
      /\ c.what # "none" \/ say.verb = "answer" => c.ask \in CardAsks
 <2>1. CASE say.verb = "answer"
  <3>1. c \in [ask : Stored, what : {"id"}] BY <2>1 DEF Targets
  <3> QED BY <3>1 DEF Stored
 <2>2. CASE say.verb \in {"bump", "repeat"}
  <3>1. c \in [ask : {0}, what : {"none"}] BY <2>2 DEF Targets
  <3> QED BY <2>2, <3>1
 <2>3. CASE say.verb \in {"reply", "react", "details"}
  <3>1. PICK d \in chunks : c = [ask |-> d.ask, what |-> d.what] BY <2>3 DEF Targets
  <3>2. d.ask \in CardAsks /\ d.what \in {"card", "note", "repeat", "details", "bump", "auto"} BY <1>1 DEF Chunks
  <3> QED BY <3>1, <3>2
 <2> QED BY <1>2, <2>1, <2>2, <2>3
<1>4. PICK z : z = [status |-> "received", verb |-> say.verb, text |-> say.text,
                    ask |-> c.ask, what |-> c.what]
 OBVIOUS
<1>5. /\ z \in Claims /\ z.ask = c.ask /\ z.what = c.what /\ z.verb = say.verb /\ z.status = "received"
 BY <1>2, <1>3, <1>4 DEF Claims
<1>6. /\ inbound' = [inbound EXCEPT ![m] = z] /\ inbound[m].status = "none"
      /\ UNCHANGED <<asks, bindings, heard, chunks, toldOf, bumps, scene>> BY <1>4 DEF Delivered, FirstClaim
<1>7. /\ inbound' \in [OperatorMessages -> Claims] /\ inbound'[m] = z
      /\ \A n \in OperatorMessages : n # m => inbound'[n] = inbound[n] BY <1>1, <1>5, <1>6 DEF CardType
<1>8. ClaimsTrue' BY <1>1, <1>3, <1>5, <1>7 DEF ClaimsTrue
<1>9. toldOf[m] = {} BY <1>1, <1>6 DEF MessagesTrue, UntoldYet
<1>10. MessagesTrue' BY <1>1, <1>6, <1>7, <1>9 DEF MessagesTrue, UntoldYet
<1>11. FreshTrue' /\ KeysTrue' /\ AnswersTrue' BY <1>6 DEF CardInv, FreshTrue, KeysTrue, AnswersTrue, AnswerAt
<1>12. CardType' BY <1>1, <1>6, <1>7 DEF CardType
<1> QED BY <1>8, <1>10, <1>11, <1>12 DEF CardInv

\* A message starts, or is refused before it does.
LEMMA StartKeeps ==
  ASSUME CardInv, NEW m \in OperatorMessages, MessageStarts(m)
  PROVE  CardInv'
<1>1. CardType /\ MessagesTrue BY DEF CardInv
<1>2. UntoldYet(inbound, m) /\ UNCHANGED <<bindings, heard, chunks, bumps, scene>> BY DEF MessageStarts, UntoldYet
<1>3. AsksKept
 <2>1. asks' = asks \/ asks' = Touched(inbound[m].ask) BY DEF MessageStarts, Touched
 <2> QED BY <1>1, <2>1, SameAsks, TouchedKeeps
<1>4. MessagesMove
 <2>1. \/ Deny(m) \/ (Status(m, "done") /\ toldOf' = toldOf)
       \/ (Status(m, "dropped") /\ TellSender(m, "refused")) \/ (Status(m, "executing") /\ toldOf' = toldOf)
  BY DEF MessageStarts
 <2>2. CASE Deny(m) BY <1>1, <1>2, <2>2, DenialMoves
 <2>3. CASE Status(m, "done") /\ toldOf' = toldOf BY <1>1, <1>2, <2>3, StatusOnly
 <2>4. CASE Status(m, "executing") /\ toldOf' = toldOf BY <1>1, <1>2, <2>4, StatusOnly
 <2>5. CASE Status(m, "dropped") /\ TellSender(m, "refused")
  <3>1. "refused" \in Outcomes \ {"recorded"} BY DEF Outcomes
  <3> QED BY <1>1, <1>2, <2>5, <3>1, Settles
 <2> QED BY <2>1, <2>2, <2>3, <2>4, <2>5
<1>5. chunks' \subseteq Chunks /\ bumps' \in Nat BY <1>1, <1>2 DEF CardType
<1> QED BY <1>2, <1>3, <1>4, <1>5, CardAssembles

\* A reply, a reaction or an answer that names its ask.
LEMMA RepliesKeepCards ==
  ASSUME CardInv, NEW m \in OperatorMessages, Replies(m)
  PROVE  CardInv'
<1>1. CardType /\ MessagesTrue /\ ClaimsTrue BY DEF CardInv
<1>2. UntoldYet(inbound, m) /\ UNCHANGED <<bindings, heard, chunks, bumps, scene>> BY DEF Replies, UntoldYet
<1>3. PICK a : a = inbound[m].ask OBVIOUS
<1>4. \/ Deny(m) /\ asks' = asks
      \/ Settle(m, "hint") /\ asks' = asks
      \/ Status(m, "done") /\ asks' = asks /\ toldOf' = toldOf
      \/ Status(m, "done") /\ asks' = Touched(a) /\ toldOf' = toldOf
      \/ asks' = Touched(a) /\ Settle(m, "refused")
      \/ (OnCard(m) \/ Named(m)) /\ Answers(m, a) /\ ~AnswerRefused(a, inbound[m].text)
 <2>1. Answers(m, a) => \/ asks' = Touched(a) /\ Settle(m, "refused")
                        \/ ~AnswerRefused(a, inbound[m].text) BY DEF Answers
 <2> QED BY <1>3, <2>1 DEF Replies
<1>5. {"hint", "refused"} \subseteq Outcomes \ {"recorded"} BY DEF Outcomes
<1>6. chunks' \subseteq Chunks /\ bumps' \in Nat BY <1>1, <1>2 DEF CardType
<1>7. CASE Deny(m) /\ asks' = asks
 <2>1. AsksKept /\ MessagesMove BY <1>1, <1>2, <1>7, SameAsks, DenialMoves
 <2> QED BY <1>2, <1>6, <2>1, CardAssembles
<1>8. CASE Settle(m, "hint") /\ asks' = asks
 <2>1. Status(m, "done") /\ TellSender(m, "hint") BY <1>8 DEF Settle
 <2>2. AsksKept /\ MessagesMove BY <1>1, <1>2, <1>5, <1>8, <2>1, SameAsks, Settles
 <2> QED BY <1>2, <1>6, <2>2, CardAssembles
<1>9. CASE Status(m, "done") /\ asks' = asks /\ toldOf' = toldOf
 <2>1. AsksKept /\ MessagesMove BY <1>1, <1>2, <1>9, SameAsks, StatusOnly
 <2> QED BY <1>2, <1>6, <2>1, CardAssembles
<1>10. CASE asks' = Touched(a) /\ Settle(m, "refused")
 <2>1. Status(m, "done") /\ TellSender(m, "refused") BY <1>10 DEF Settle
 <2>2. AsksKept /\ MessagesMove BY <1>1, <1>2, <1>5, <1>10, <2>1, TouchedKeeps, Settles
 <2> QED BY <1>2, <1>6, <2>2, CardAssembles
<1>11. CASE (OnCard(m) \/ Named(m)) /\ Answers(m, a) /\ ~AnswerRefused(a, inbound[m].text)
 <2>1. a \in CardAsks BY <1>1, <1>3, <1>11 DEF ClaimsTrue, OnCard, Named
 <2> QED BY <1>2, <1>11, <2>1, AnswerRecorded
<1>12. CASE Status(m, "done") /\ asks' = Touched(a) /\ toldOf' = toldOf
 <2>1. AsksKept /\ MessagesMove BY <1>1, <1>2, <1>12, TouchedKeeps, StatusOnly
 <2> QED BY <1>2, <1>6, <2>1, CardAssembles
<1> QED BY <1>4, <1>7, <1>8, <1>9, <1>10, <1>11, <1>12

\* A command for the details of an ask.
LEMMA DetailsKeepCards ==
  ASSUME CardInv, NEW m \in OperatorMessages, DetailsOf(m)
  PROVE  CardInv'
<1>1. CardType /\ MessagesTrue /\ ClaimsTrue BY DEF CardInv
<1>2. UntoldYet(inbound, m) /\ UNCHANGED <<bindings, heard, bumps, scene>> BY DEF DetailsOf, UntoldYet
<1>3. PICK a : a = inbound[m].ask OBVIOUS
<1>4. AsksKept
 <2>1. asks' = asks \/ asks' = Touched(a) BY <1>3 DEF DetailsOf
 <2> QED BY <1>1, <2>1, SameAsks, TouchedKeeps
<1>5. MessagesMove
 <2>1. Deny(m) \/ Settle(m, "refused") \/ (Status(m, "done") /\ toldOf' = toldOf) BY DEF DetailsOf
 <2>2. CASE Deny(m) BY <1>1, <1>2, <2>2, DenialMoves
 <2>3. CASE Settle(m, "refused")
  <3>1. "refused" \in Outcomes \ {"recorded"} /\ Status(m, "done") /\ TellSender(m, "refused")
   BY <2>3 DEF Outcomes, Settle
  <3> QED BY <1>1, <1>2, <3>1, Settles
 <2>4. CASE Status(m, "done") /\ toldOf' = toldOf BY <1>1, <1>2, <2>4, StatusOnly
 <2> QED BY <2>1, <2>2, <2>3, <2>4
<1>6. chunks' \subseteq Chunks /\ bumps' \in Nat
 <2>1. \/ chunks' = chunks
       \/ OnCard(m) /\ chunks' = chunks \cup PartsQueued(a, "details", m, CardParts) BY <1>3 DEF DetailsOf
 <2>2. CASE chunks' = chunks BY <1>1, <1>2, <2>2 DEF CardType
 <2>3. CASE OnCard(m) /\ chunks' = chunks \cup PartsQueued(a, "details", m, CardParts)
  <3>1. a \in CardAsks BY <1>1, <1>3, <2>3 DEF ClaimsTrue, OnCard
  <3>2. PartsQueued(a, "details", m, CardParts) \subseteq Chunks BY <3>1, QueuedParts, CardBounds
  <3> QED BY <1>1, <1>2, <2>3, <3>2 DEF CardType
 <2> QED BY <2>1, <2>2, <2>3
<1> QED BY <1>2, <1>4, <1>5, <1>6, CardAssembles

\* Asks of a set that are touched all at once.
LEMMA SetKeeps ==
  ASSUME CardType, NEW D, NEW f,
    \A a \in CardAsks \cap D : f[a] \in CardRecords /\ SameAsk(asks[a], f[a]),
    asks' = [a \in CardAsks |-> IF a \in D THEN f[a] ELSE asks[a]]
  PROVE  AsksKept
<1>1. asks \in [CardAsks -> CardRecords] BY DEF CardType
<1>2. ASSUME NEW a \in CardAsks PROVE asks'[a] \in CardRecords /\ SameAsk(asks[a], asks'[a])
 <2>1. SameAsk(asks[a], asks[a]) BY DEF SameAsk
 <2>2. asks'[a] = IF a \in D THEN f[a] ELSE asks[a] OBVIOUS
 <2> QED BY <1>1, <2>1, <2>2
<1>3. asks' \in [CardAsks -> CardRecords] BY <1>2
<1> QED BY <1>2, <1>3 DEF AsksKept

\* The clocks of a set of asks start again.
LEMMA QuietEnds ==
  ASSUME CardType, NEW D,
    asks' = [a \in CardAsks |-> IF a \in D THEN [asks[a] EXCEPT !.quiet = FALSE] ELSE asks[a]]
  PROVE  AsksKept
<1>1. PICK f : f = [a \in CardAsks |-> [asks[a] EXCEPT !.quiet = FALSE]] OBVIOUS
<1>2. ASSUME NEW a \in CardAsks PROVE f[a] \in CardRecords /\ SameAsk(asks[a], f[a])
 <2>1. f[a] = [asks[a] EXCEPT !.quiet = FALSE] /\ asks[a] \in CardRecords BY <1>1 DEF CardType
 <2> QED BY <2>1, FieldChanges
<1>3. asks' = [a \in CardAsks |-> IF a \in D THEN f[a] ELSE asks[a]] BY <1>1
<1> QED BY <1>2, <1>3, SetKeeps

\* A reminder that an operator asks for.
LEMMA RemindKeeps ==
  ASSUME CardInv, NEW m \in OperatorMessages, Remind(m)
  PROVE  CardInv'
<1>1. CardType /\ MessagesTrue /\ ClaimsTrue BY DEF CardInv
<1>2. /\ UntoldYet(inbound, m) /\ UNCHANGED <<bindings, heard, bumps, scene>>
      /\ inbound[m].verb \in {"bump", "repeat"} BY DEF Remind, UntoldYet
<1>3. PICK v \in {"bump", "repeat"} : v = inbound[m].verb BY <1>2
<1>4. PICK n \in Nat : n = IF v = "bump" THEN 1 ELSE CardParts BY CardBounds
<1>5. PICK D \in SUBSET CardAsks : D = Reminded(v) BY DEF Reminded, Stored
<1>6. CASE Deny(m) /\ UNCHANGED <<asks, chunks>>
 <2>1. AsksKept /\ MessagesMove BY <1>1, <1>2, <1>6, SameAsks, DenialMoves
 <2>2. chunks' \subseteq Chunks /\ bumps' \in Nat BY <1>1, <1>2, <1>6 DEF CardType
 <2> QED BY <1>2, <2>1, <2>2, CardAssembles
<1>7. CASE ~(Deny(m) /\ UNCHANGED <<asks, chunks>>)
 <2>1. /\ asks' = [a \in CardAsks |-> IF a \in D THEN [asks[a] EXCEPT !.quiet = FALSE] ELSE asks[a]]
       /\ chunks' = chunks \cup UNION {PartsQueued(a, v, m, n) : a \in D}
       /\ Settle(m, "listed") BY <1>3, <1>4, <1>5, <1>7 DEF Remind
 <2>2. "listed" \in Outcomes \ {"recorded"} /\ Status(m, "done") /\ TellSender(m, "listed")
  BY <2>1 DEF Outcomes, Settle
 <2>3. AsksKept /\ MessagesMove BY <1>1, <1>2, <2>1, <2>2, QuietEnds, Settles
 <2>4. \A a \in D : PartsQueued(a, v, m, n) \subseteq Chunks BY QueuedParts
 <2>5. chunks' \subseteq Chunks /\ bumps' \in Nat BY <1>1, <1>2, <2>1, <2>4 DEF CardType
 <2> QED BY <1>2, <2>3, <2>5, CardAssembles
<1> QED BY <1>6, <1>7

\* The automatic reminder.
LEMMA AutobumpKeeps == ASSUME CardInv, Autobump PROVE CardInv'
<1>1. CardType BY DEF CardInv
<1>2. PICK D \in SUBSET CardAsks :
        /\ asks' = [a \in CardAsks |-> IF a \in D THEN [asks[a] EXCEPT !.quiet = FALSE] ELSE asks[a]]
        /\ chunks' = chunks \cup UNION {PartsQueued(a, "auto", bumps + 1, 1) : a \in D}
 <2>1. PICK D : D = {a \in Stored : /\ Remindable(a) /\ asks[a].quiet
                                    /\ asks[a].form # "broken" /\ ~ReminderPending(a) /\ BumpTarget(a)}
  OBVIOUS
 <2>2. D \in SUBSET CardAsks BY <2>1 DEF Stored
 <2> QED BY <2>1, <2>2 DEF Autobump
<1>3. bumps' = bumps + 1 /\ UNCHANGED <<bindings, heard, scene, inbound, toldOf>> /\ bumps \in Nat
 BY <1>1 DEF Autobump, CardType
<1>4. AsksKept /\ MessagesMove BY <1>1, <1>2, <1>3, QuietEnds, SameMessages
<1>5. \A a \in D : PartsQueued(a, "auto", bumps + 1, 1) \subseteq Chunks BY <1>3, QueuedParts
<1>6. chunks' \subseteq Chunks /\ bumps' \in Nat BY <1>1, <1>2, <1>3, <1>5 DEF CardType
<1> QED BY <1>3, <1>4, <1>6, CardAssembles

\* An ask is cancelled, fulfilled, or no longer renders.
LEMMA AskChangeKeeps ==
  ASSUME CardInv, NEW a \in CardAsks, CancelAsk(a) \/ AskChanges(a)
  PROVE  CardInv'
<1>1. CardType /\ asks[a] \in CardRecords BY DEF CardInv, CardType
<1>2. UNCHANGED <<bindings, heard, scene, inbound, toldOf, bumps>> BY DEF CancelAsk, AskChanges
<1>3. PICK z : /\ asks' = [asks EXCEPT ![a] = z]
               /\ \/ \E f \in BOOLEAN : z = [asks[a] EXCEPT !.fulfilled = f]
                  \/ \E f \in {"narrow", "broken"} : z = [asks[a] EXCEPT !.form = f]
                  \/ \E x \in {"open", "answered", "cancelled"} : z = [asks[a] EXCEPT !.status = x]
 BY DEF CancelAsk, AskChanges, SetAsk
<1>4. z \in CardRecords /\ SameAsk(asks[a], z) BY <1>1, <1>3, FieldChanges
<1>5. AsksKept /\ MessagesMove BY <1>1, <1>2, <1>3, <1>4, OneAskChanges, SameMessages
<1>6. PartsQueued(a, "note", 0, 1) \subseteq Chunks BY QueuedParts
<1>7. chunks' = chunks \/ chunks' = chunks \cup PartsQueued(a, "note", 0, 1) BY DEF CancelAsk, AskChanges
<1>8. chunks' \subseteq Chunks /\ bumps' \in Nat BY <1>1, <1>2, <1>6, <1>7 DEF CardType
<1> QED BY <1>2, <1>5, <1>8, CardAssembles

\* An hour passes.
LEMMA HourKeeps == ASSUME CardInv, HourPasses PROVE CardInv'
<1>1. CardType BY DEF CardInv
<1>2. UNCHANGED <<bindings, heard, scene, inbound, toldOf, chunks, bumps>> BY DEF HourPasses
<1>3. PICK f : f = [a \in CardAsks |-> [asks[a] EXCEPT !.hour = FALSE, !.quiet = TRUE]] OBVIOUS
<1>4. ASSUME NEW a \in CardAsks PROVE f[a] \in CardRecords /\ SameAsk(asks[a], f[a])
 <2>1. f[a] = [asks[a] EXCEPT !.hour = FALSE, !.quiet = TRUE] /\ asks[a] \in CardRecords BY <1>1, <1>3 DEF CardType
 <2> QED BY <2>1, FieldChanges
<1>5. asks' = [a \in CardAsks |-> IF a \in Stored THEN f[a] ELSE asks[a]] BY <1>3 DEF HourPasses
<1>6. AsksKept /\ MessagesMove BY <1>1, <1>2, <1>4, <1>5, SetKeeps, SameMessages
<1>7. chunks' \subseteq Chunks /\ bumps' \in Nat BY <1>1, <1>2 DEF CardType
<1> QED BY <1>2, <1>6, <1>7, CardAssembles

\* The daemon dies with messages in hand.
LEMMA RecoverKeeps == ASSUME CardInv, Recovers PROVE CardInv'
<1>1. /\ CardType /\ MessagesTrue /\ inbound \in [OperatorMessages -> Claims]
      /\ toldOf \in [OperatorMessages -> SUBSET Outcomes] BY DEF CardInv, CardType
<1>2. UNCHANGED <<asks, bindings, heard, scene, chunks, bumps>> BY DEF Recovers
<1>3. ASSUME NEW m \in OperatorMessages
      PROVE  /\ inbound'[m] \in Claims /\ toldOf'[m] \in SUBSET Outcomes
             /\ inbound'[m].ask = inbound[m].ask /\ inbound'[m].what = inbound[m].what
             /\ inbound'[m].verb = inbound[m].verb
             /\ UntoldYet(inbound', m) => UntoldYet(inbound, m) /\ toldOf'[m] = toldOf[m]
             /\ \/ toldOf'[m] = toldOf[m]
                \/ toldOf[m] = {} /\ \E t \in Outcomes \ {"recorded"} : toldOf'[m] = {t}
 <2>1. PICK z : z = [inbound[m] EXCEPT !.status = "dropped"] OBVIOUS
 <2>2. /\ z \in Claims /\ z.ask = inbound[m].ask /\ z.what = inbound[m].what /\ z.verb = inbound[m].verb
       /\ z.status = "dropped" BY <1>1, <2>1 DEF Claims
 <2>3. CASE m \in InHand
  <3>1. inbound'[m] = z /\ toldOf'[m] = toldOf[m] \cup {"resend"} BY <2>1, <2>3 DEF Recovers
  <3>2. toldOf[m] = {} BY <1>1, <2>3 DEF InHand, MessagesTrue, UntoldYet
  <3>3. toldOf'[m] = {"resend"} /\ "resend" \in Outcomes \ {"recorded"} BY <3>1, <3>2 DEF Outcomes
  <3>4. ~UntoldYet(inbound', m) BY <2>2, <3>1 DEF UntoldYet
  <3> QED BY <2>2, <3>1, <3>2, <3>3, <3>4
 <2>4. CASE m \notin InHand
  <3>1. inbound'[m] = inbound[m] /\ toldOf'[m] = toldOf[m] BY <2>4 DEF Recovers
  <3> QED BY <1>1, <3>1 DEF UntoldYet
 <2> QED BY <2>3, <2>4
<1>4. inbound' \in [OperatorMessages -> Claims] /\ toldOf' \in [OperatorMessages -> SUBSET Outcomes]
 <2>1. /\ inbound' = [m \in OperatorMessages |-> inbound'[m]]
       /\ toldOf' = [m \in OperatorMessages |-> toldOf'[m]] BY DEF Recovers
 <2> QED BY <1>3, <2>1
<1>5. MessagesMove BY <1>3, <1>4 DEF MessagesMove
<1>6. AsksKept BY <1>1, <1>2, SameAsks
<1>7. chunks' \subseteq Chunks /\ bumps' \in Nat BY <1>1, <1>2 DEF CardType
<1> QED BY <1>2, <1>5, <1>6, <1>7, CardAssembles

\* The invariant, when only parts are sent.
LEMMA OnlyPartsEnd ==
  ASSUME CardInv, UNCHANGED <<asks, bindings, heard, scene, inbound, toldOf, bumps>>, chunks' \subseteq Chunks
  PROVE  CardInv'
<1>1. CardType BY DEF CardInv
<1>2. AsksKept /\ MessagesMove BY <1>1, SameAsks, SameMessages
<1>3. bumps' \in Nat BY <1>1 DEF CardType
<1> QED BY <1>2, <1>3, CardAssembles

\* Every step keeps the invariant of the ask cards.
LEMMA CardNextInv == CardInv /\ [CardNext]_cardVars => CardInv'
<1> SUFFICES ASSUME CardInv, [CardNext]_cardVars PROVE CardInv' OBVIOUS
<1>1. chunks \subseteq Chunks BY DEF CardInv, CardType
<1>2. CASE \E r \in scene.posts : PostArrives(r)
 <2>1. UNCHANGED <<asks, bindings, heard, scene, inbound, toldOf, bumps, chunks>> BY <1>2 DEF PostArrives
 <2> QED BY <1>1, <2>1, OnlyPartsEnd
<1>3. CASE \E r \in scene.posts : PostStores(r) \/ PostRetained(r) BY <1>3, PostsKeepCards, RetainedKeeps
<1>4. CASE \E a \in CardAsks : CancelAsk(a) \/ AskChanges(a) BY <1>4, AskChangeKeeps
<1>5. CASE \/ \E n \in 1 .. scene.notices : PostNotice(n) \/ NoticeEnds(n)
           \/ GateChanges
           \/ UNCHANGED cardVars
 <2>1. UNCHANGED <<asks, bindings, heard, scene, inbound, toldOf, bumps, chunks>>
  BY <1>5 DEF PostNotice, NoticeEnds, GateChanges, cardVars
 <2> QED BY <1>1, <2>1, OnlyPartsEnd
<1>6. CASE \E c \in chunks, s \in {"sent", "failed"} : PartEnds(c, s)
 <2>1. PICK c \in chunks, s \in {"sent", "failed"} : PartEnds(c, s) BY <1>6
 <2>2. PICK z : z = [c EXCEPT !.status = s] OBVIOUS
 <2>3. c \in Chunks BY <1>1
 <2>4. z \in Chunks BY <2>2, <2>3 DEF Chunks
 <2>5. /\ chunks' = (chunks \ {c}) \cup {z}
       /\ UNCHANGED <<asks, bindings, heard, scene, inbound, toldOf, bumps>> BY <2>1, <2>2 DEF PartEnds
 <2> QED BY <1>1, <2>4, <2>5, OnlyPartsEnd
<1>7. CASE \E m \in OperatorMessages : \E say \in scene.says[m] : \E c \in Targets(say.verb) :
             Delivered(m, say, c) BY <1>7, ClaimKeeps
<1>8. CASE \E m \in OperatorMessages : MessageStarts(m) \/ Replies(m) \/ DetailsOf(m) \/ Remind(m)
 BY <1>8, StartKeeps, RepliesKeepCards, DetailsKeepCards, RemindKeeps
<1>9. CASE Autobump \/ HourPasses \/ Recovers BY <1>9, AutobumpKeeps, HourKeeps, RecoverKeeps
<1> QED BY <1>2, <1>3, <1>4, <1>5, <1>6, <1>7, <1>8, <1>9 DEF CardNext

\* Nothing is posted or told at the start.
LEMMA CardInitInv == CardInit => CardInv
<1> SUFFICES ASSUME CardInit PROVE CardInv OBVIOUS
<1>1. NoAsk \in CardRecords /\ NoAsk.key = 0 /\ NoAsk.answers = <<>>
 <2>1. PICK none : none = <<>> /\ none \in Seq(CardAnswers)
  <3>1. <<>> \in Seq(CardAnswers) OBVIOUS
  <3> QED BY <3>1
 <2> QED BY <2>1 DEF NoAsk, CardRecords
<1>2. PICK ap : ap = [NoAsk EXCEPT !.kind = "approval", !.status = "open"] OBVIOUS
<1>3. ap \in CardRecords /\ ap.key = 0 /\ ap.answers = <<>> /\ ap.status # "none" BY <1>1, <1>2 DEF CardRecords
<1>4. ASSUME NEW a \in CardAsks PROVE asks[a] \in {NoAsk, ap} BY <1>2 DEF CardInit
<1>5. asks \in [CardAsks -> CardRecords] /\ \A a \in CardAsks : asks[a].key = 0 /\ asks[a].answers = <<>>
 <2>1. asks = [a \in CardAsks |-> asks[a]] BY DEF CardInit
 <2> QED BY <1>1, <1>3, <1>4, <2>1
<1>6. /\ bindings \in [QuestionKeys -> CardBindings] /\ \A k \in QuestionKeys : bindings[k].ask = 0
      /\ heard = [k \in QuestionKeys |-> {}] BY DEF CardInit, NoBinding, CardBindings
<1>7. chunks \subseteq Chunks
 <2>1. \A p \in 1 .. CardParts :
         [ask |-> 1, what |-> "card", ref |-> 0, part |-> p, status |-> "sent"] \in Chunks
  BY CardScenes, CardBounds DEF Chunks
 <2> QED BY <2>1 DEF CardInit
<1>8. Unclaimed \in Claims /\ Unclaimed.what = "none" /\ Unclaimed.verb = "none" BY DEF Unclaimed, Claims
<1>9. /\ inbound = [m \in OperatorMessages |-> Unclaimed] /\ toldOf = [m \in OperatorMessages |-> {}]
      /\ scene \in Scenes /\ bumps = 0 BY DEF CardInit
<1>10. CardType BY <1>5, <1>6, <1>7, <1>8, <1>9 DEF CardType
<1>11. FreshTrue /\ ClaimsTrue /\ MessagesTrue BY <1>5, <1>8, <1>9 DEF FreshTrue, ClaimsTrue, MessagesTrue
<1>12. KeysTrue
 <2>1. 0 \notin QuestionKeys BY CardScenes
 <2> QED BY <1>5, <1>6, <2>1 DEF KeysTrue
<1>13. AnswersTrue
 <2>1. \A a \in CardAsks, i \in Nat, m \in OperatorMessages : ~AnswerAt(asks, a, i, m) BY <1>5 DEF AnswerAt
 <2>2. \A a \in CardAsks : Len(asks[a].answers) <= MaxAnswers BY <1>5, CardBounds
 <2>3. \A m \in OperatorMessages : toldOf[m] # {"recorded"} BY <1>9
 <2> QED BY <2>1, <2>2, <2>3 DEF AnswersTrue
<1> QED BY <1>10, <1>11, <1>12, <1>13 DEF CardInv

\* A set with at most one element.
LEMMA AtMostOneIn ==
  ASSUME NEW S, \A x, y \in S : x = y
  PROVE  Cardinality(S) <= 1
<1>1. CASE S = {} BY <1>1, FS_EmptySet
<1>2. CASE S # {}
 <2>1. PICK x : S = {x} BY <1>2
 <2> QED BY <2>1, FS_Singleton
<1> QED BY <1>1, <1>2

\* What the invariant says of the keys, and of what operators are told.
LEMMA CardInvSays == CardInv => RetriedIsSame /\ ToldTrue
<1> SUFFICES ASSUME CardInv PROVE RetriedIsSame /\ ToldTrue OBVIOUS
<1>t. CardType /\ KeysTrue /\ MessagesTrue /\ AnswersTrue BY DEF CardInv
<1>1. ASSUME NEW k \in QuestionKeys
      PROVE  /\ Cardinality({a \in Stored : asks[a].key = k}) <= 1
             /\ \A h \in heard[k] : asks[h.ask].key = k /\ asks[h.ask].content = h.content
 <2>1. \A x, y \in {a \in Stored : asks[a].key = k} : x = y BY <1>t DEF KeysTrue, Stored
 <2>2. Cardinality({a \in Stored : asks[a].key = k}) <= 1 BY <2>1, AtMostOneIn
 <2>3. ASSUME NEW h \in heard[k] PROVE asks[h.ask].key = k /\ asks[h.ask].content = h.content
  <3>1. h.ask \in CardAsks /\ 0 \notin CardAsks BY <1>t, CardScenes DEF CardType, CardReplies
  <3> QED BY <1>t, <3>1 DEF KeysTrue
 <2> QED BY <2>2, <2>3
<1>2. ASSUME NEW m \in OperatorMessages
      PROVE  /\ Cardinality(toldOf[m]) <= 1
             /\ Cardinality({n \in CardAsks \X (1 .. MaxAnswers) :
                                n[2] <= Len(asks[n[1]].answers) /\ asks[n[1]].answers[n[2]].message = m})
                  = IF toldOf[m] = {"recorded"} THEN 1 ELSE 0
 <2>1. Cardinality(toldOf[m]) <= 1
  <3>1. \A t, u \in toldOf[m] : t = u BY <1>t DEF MessagesTrue
  <3> QED BY <3>1, AtMostOneIn
 <2>2. PICK S : S = {n \in CardAsks \X (1 .. MaxAnswers) :
                       n[2] <= Len(asks[n[1]].answers) /\ asks[n[1]].answers[n[2]].message = m}
  OBVIOUS
 <2>3. ASSUME NEW a \in CardAsks
       PROVE  DOMAIN asks[a].answers = 1 .. Len(asks[a].answers) /\ Len(asks[a].answers) \in Nat
  <3>1. asks[a].answers \in Seq(CardAnswers) BY <1>t DEF CardType, CardRecords
  <3> QED BY <3>1
 <2>4. ASSUME NEW a \in CardAsks, NEW i \in Nat, AnswerAt(asks, a, i, m) PROVE <<a, i>> \in S
  <3>1. i \in 1 .. Len(asks[a].answers) /\ Len(asks[a].answers) <= MaxAnswers /\ MaxAnswers \in Nat
   BY <1>t, <2>3, <2>4, CardBounds DEF AnswerAt, AnswersTrue
  <3>2. i \in 1 .. MaxAnswers /\ i <= Len(asks[a].answers) /\ asks[a].answers[i].message = m
   BY <2>3, <2>4, <3>1 DEF AnswerAt
  <3> QED BY <2>2, <3>2
 <2>5. ASSUME NEW n \in S PROVE \E a \in CardAsks, i \in Nat : n = <<a, i>> /\ AnswerAt(asks, a, i, m)
  <3>1. PICK a \in CardAsks, i \in 1 .. MaxAnswers : n = <<a, i>> BY <2>2
  <3>2. i <= Len(asks[a].answers) /\ asks[a].answers[i].message = m BY <2>2, <3>1
  <3>3. i \in Nat /\ i \in DOMAIN asks[a].answers BY <2>3, <3>2, CardBounds
  <3> QED BY <3>1, <3>2, <3>3 DEF AnswerAt
 <2>6. CASE toldOf[m] = {"recorded"}
  <3>1. PICK a \in CardAsks, i \in Nat : AnswerAt(asks, a, i, m) BY <1>t, <2>6 DEF AnswersTrue
  <3>2. <<a, i>> \in S BY <2>4, <3>1
  <3>3. \A n \in S : n = <<a, i>> BY <1>t, <2>5, <3>1 DEF AnswersTrue
  <3>4. S = {<<a, i>>} BY <3>2, <3>3
  <3> QED BY <2>1, <2>2, <2>6, <3>4, FS_Singleton
 <2>7. CASE toldOf[m] # {"recorded"}
  <3>1. S = {} BY <1>t, <2>5, <2>7 DEF AnswersTrue
  <3> QED BY <2>1, <2>2, <2>7, <3>1, FS_EmptySet
 <2> QED BY <2>6, <2>7
<1> QED BY <1>1, <1>2 DEF RetriedIsSame, ToldTrue

------------------------------
(* The composition. *)

\* Each part keeps its invariant in the behaviours that are about it.
PartsInv ==
    /\ part = "outbox" => OutboxInv /\ ArriveInv /\ traffic \in Traffic
    /\ part = "cards" => CardInv
    /\ part = "fulfilment" => FulfillInv
    /\ part = "custody" => CustodyInv
    /\ part = "ingress" => IngressInv
    /\ part = "maintenance" => MaintInv

\* Each part begins with its invariant.
LEMMA PartsInitInv == AdmindInit => PartsInv
BY OutboxInitInv, ArriveInitInv, CardInitInv, FulfillInitInv, CustodyInitInv, IngressInitInv, MaintInitInv
  DEF AdmindInit, PartsInv

\* A step of one part is no step of another.
LEMMA PartsNextInv == PartsInv /\ [AdmindNext]_admindVars => PartsInv'
<1> SUFFICES ASSUME PartsInv, [AdmindNext]_admindVars PROVE PartsInv' OBVIOUS
<1>1. UNCHANGED part BY DEF AdmindNext, admindVars
<1>2. part = "fulfilment" => [FulfillNext]_fulfillVars BY DEF AdmindNext, admindVars
<1>3. part = "custody" => [CustodyNext]_custodyVars BY DEF AdmindNext, admindVars
<1>4. part = "maintenance" => [MaintNext]_maintVars BY DEF AdmindNext, admindVars
<1>5. part = "ingress" => [IngressNext]_ingressVars BY DEF AdmindNext, admindVars
<1>6. part = "outbox" => [OutboxNext]_outboxVars BY DEF AdmindNext, admindVars
<1>7. part = "outbox" => (OutboxInv /\ ArriveInv /\ traffic \in Traffic)'
 BY <1>6, OutboxNextInv, ArriveNextInv, TrafficStays DEF PartsInv
<1>8. part = "cards" => [CardNext]_cardVars BY DEF AdmindNext, admindVars
<1>9. part = "cards" => CardInv' BY <1>8, CardNextInv DEF PartsInv
<1> QED BY <1>1, <1>2, <1>3, <1>4, <1>5, <1>7, <1>9, FulfillNextInv, CustodyNextInv, IngressNextInv, MaintNextInv
   DEF PartsInv

\* Every part keeps its inductive invariant in the composition of admind's parts.
THEOREM PartsKeep == AdmindSpec => []PartsInv
BY PartsInitInv, PartsNextInv, PTL DEF AdmindSpec

\* ReplyOutbox: a text goes out only while everyone whose reply it shows may command, though
\* it was composed before and by another task (prepare_delivery, batch_owners, publish_details).
THEOREM RepliesAlwaysToOwners == AdmindSpec => RepliesToOwners
<1>1. PartsInv /\ [AdmindNext]_admindVars => [part = "outbox" => SendsToOwners]_admindVars
 <2> SUFFICES ASSUME PartsInv, [AdmindNext]_admindVars, part = "outbox" PROVE SendsToOwners OBVIOUS
 <2>1. [OutboxNext]_outboxVars BY DEF AdmindNext, admindVars
 <2> QED BY <2>1, OutboxNextInv DEF PartsInv
<1> QED BY <1>1, PartsKeep, PTL DEF AdmindSpec, RepliesToOwners

\* ReplyOutbox: whatever fails in whatever order, a reply is being summarised, is in a batch that
\* will be posted, in a row that will be sent or is held, or was delivered whole; a membership change
\* stays pending until it is told; and no later part of a card is cut loose from a part that still
\* arrives (send_failed, close_due_batches, flush_membership_notice, resolve_thread).
THEOREM RepliesAlwaysArrive == AdmindSpec => []RepliesArrive
<1>1. PartsInv => RepliesArrive BY ArriveInvSays DEF PartsInv, RepliesArrive
<1> QED BY <1>1, PartsKeep, PTL

\* AskCards: a question's key stands for one question, and what an operator is told about a
\* message is what became of it (post_question_once, claim_inbound, answer_ask).
THEOREM CardsAlwaysTrue == AdmindSpec => []CardsTrue
<1>1. PartsInv => CardsTrue BY CardInvSays DEF PartsInv, CardsTrue
<1> QED BY <1>1, PartsKeep, PTL

\* AskFulfillment: an ask is off the capacity only while its receipt is about the ask
\* as it is now, and work is attested once (Lifecycle.view, Lifecycle.commit).
THEOREM FulfilmentAlwaysTrue == AdmindSpec => []FulfilmentTrue
<1>1. PartsInv => FulfilmentTrue BY FulfillInvSays DEF PartsInv, FulfilmentTrue
<1> QED BY <1>1, PartsKeep, PTL

\* GatewayCustody: a refusal holds against every call under way, and the published
\* chain of permits is whole (_retain_command, _issue_permit).
THEOREM CustodyAlwaysHolds == AdmindSpec => []CustodyHolds
<1>1. PartsInv => CustodyHolds BY DEF PartsInv, CustodyHolds, CustodyInv
<1> QED BY <1>1, PartsKeep, PTL

\* IngressReconnect: no membership change goes unseen while the count is trusted, the group
\* is subscribed to once, and a reconnect leaves nothing locked (_check_group, _stop_reader,
\* _release).
THEOREM IngressAlwaysSound == AdmindSpec => []IngressSound
<1>1. PartsInv => IngressSound BY TrustIsSeen DEF PartsInv, IngressSound, IngressInv, IngressCore
<1> QED BY <1>1, PartsKeep, PTL

\* MaintenanceConsent: the operation is settled under one permit, and the files say
\* what the store committed (Service.supersede, Service.permit).
THEOREM MaintenanceAlwaysOnce == AdmindSpec => []MaintenanceOnce
<1>1. PartsInv => MaintenanceOnce BY MaintInvSays DEF PartsInv, MaintenanceOnce, MaintInv
<1> QED BY <1>1, PartsKeep, PTL
==============================
