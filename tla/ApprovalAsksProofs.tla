----------------------------- MODULE ApprovalAsksProofs -----------------------------
(***************************************************************************)
(* Theorems about ApprovalAsks, for any number of cards, decisions,        *)
(* operators and disturbances: one card of a bead can lead to a decision,  *)
(* what the operator is told is so, the card and the bead agree, and       *)
(* approve-bead never runs again for a decision that may have been issued. *)
(***************************************************************************)
EXTENDS ApprovalAsks, FiniteSetTheorems, TLAPS

Pcs  == {"free", "decide", "read", "check", "child", "hold", "back", "settle", "refresh"}
Hows == {"none", "worker", "retried", "refused", "untouched", "retry", "withdrawn", "issuing",
         "deciding", "uncertain", "retire"}
JobType  == [pc : Pcs, m : 0..MaxMsgs, r : Read, how : Hows]
PostType == [pc : {"idle", "read", "commit"}, keyed : BOOLEAN, r : Read]

AskType ==
    /\ asks \in [Asks -> Ask] /\ att \in [Msgs -> Attempt] /\ native \in Native
    /\ inbound \in [Msgs -> {"new", "executing", "done", "dropped"}] /\ told \in [Msgs -> SUBSET Said]
    /\ keyed \in BOOLEAN /\ withdrawn \in BOOLEAN /\ latched \in BOOLEAN /\ pending \in BOOLEAN
    /\ verified \in BOOLEAN /\ tool \in BOOLEAN /\ up \in BOOLEAN /\ stranded \in BOOLEAN
    /\ ops \subseteq Operators /\ unknown \subseteq Msgs /\ child \in {"none", "running", "wrote"}
    /\ snapshot \subseteq Entries /\ troubles \in 0..MaxTroubles
    /\ job \in JobType /\ post \in PostType

\* The cards: numbered as they were posted, at most one of them open or being decided; the
\* attempt of the one being decided knows it, and an approval of it was shown in full.
Undecided == {"deciding", "uncertain"}
Filled  == \E k \in 0..MaxAsks : \A i \in Asks : asks[i].status # "none" <=> i <= k
Single  == \A i, j \in Asks : asks[i].status \in {"open"} \cup Undecided
                              /\ asks[j].status \in {"open"} \cup Undecided => i = j
Linked  == /\ \A i \in Asks : asks[i].status \in Undecided <=> asks[i].attempt # 0
           /\ \A i \in Asks : asks[i].attempt # 0 => att[asks[i].attempt].ask = i
OfCards == \A m \in Msgs : att[m].ask # 0 =>
              /\ AskOf(m).status # "none"
              /\ att[m].act = "approve" => AskOf(m).sent = "all"
HeldOnes == \A i \in Asks : asks[i].hold # "none" =>
               asks[i].status = "deciding" /\ asks[i].attempt \notin unknown /\ att[asks[i].attempt].inv > 0
CardsInv == Filled /\ Single /\ Linked /\ OfCards /\ HeldOnes

\* The children: each run is counted, and each but a last one answered HOLD, which a
\* disturbance is; a proof covers only runs that did.
CountsInv ==
    \A m \in Msgs : /\ att[m].ask = 0 => att[m].inv = 0
                    /\ m \in unknown => att[m].inv > 0
                    /\ att[m].inv <= troubles + 1 /\ (m \notin unknown => att[m].inv <= troubles)
                    /\ att[m].proof <= att[m].inv
                    /\ att[m].proof > 0 /\ att[m].proof = att[m].inv => m \notin unknown

\* The attempt of m has not been closed.
Current(m) == att[m].ask # 0 /\ AskOf(m).attempt = m

\* What is on the bead is of an attempt, exactly, that has its card's status or is not closed.
BeadInv ==
    \A m \in Msgs : native.ref = m =>
        /\ ~native.open /\ att[m].ask # 0 /\ native.act = att[m].act /\ native.seen = Digest(m) /\ m \in unknown
        /\ \/ Current(m)
           \/ /\ AskOf(m).status = (IF att[m].act = "approve" THEN "approved" ELSE "denied")
              /\ inbound[m] # "executing"

\* What was told: "nothing" ends the message and its attempt.
ToldInv ==
    \A m \in Msgs :
        /\ inbound[m] = "new" => att[m].ask = 0
        /\ "nothing" \in told[m] => native.ref # m /\ inbound[m] \in {"done", "dropped"} /\ ~Current(m)
        /\ "recorded" \in told[m] => native.ref = m

SnapInv == \A e \in snapshot : att[e.m].ask = e.i

\* What the holder of work_lock may rely on, wherever it awaits.
JobRuns ==
    /\ ~up => job.pc = "free"
    /\ child # "none" => job.pc = "child"
    /\ job.pc = "decide" => job.m # 0 /\ inbound[job.m] = "executing" /\ att[job.m].ask = 0
    /\ job.pc \notin {"free", "decide"} => job.m # 0 /\ att[job.m].ask # 0
JobFirst == job.pc \in {"read", "check"} => att[job.m].inv = 0
JobChild ==
    /\ job.pc = "child" => IsCurrent(job.m, "deciding") /\ job.m \in unknown /\ job.how \in {"worker", "retried"}
    /\ child = "running" => native.ref # job.m
    /\ job.pc = "hold" => IsCurrent(job.m, "deciding") /\ job.m \notin unknown /\ att[job.m].inv > 0
JobHeld ==
    job.pc \in {"back", "settle"} /\ job.how \in {"retry", "withdrawn"} =>
        AskOf(job.m).hold # "none" /\ AskOf(job.m).attempt = job.m
JobRead ==
    /\ job.pc \in {"check", "settle", "refresh"} /\ job.r.kind = "ok" =>
          (native.ref \in Msgs \/ job.r.n.ref \in Msgs => job.r.n = native)
    /\ job.pc = "refresh" => \/ job.how = "refused" /\ att[job.m].inv = 0
                             \/ job.how = "untouched" /\ job.r.kind = "ok" /\ job.r.n.ref = 0
JobInv == JobRuns /\ JobFirst /\ JobChild /\ JobHeld /\ JobRead

AskInv == AskType /\ CardsInv /\ CountsInv /\ BeadInv /\ ToldInv /\ SnapInv /\ JobInv

------------------------------
\* The fields of a card and of an attempt.
LEMMA AskFields ==
  ASSUME NEW i \in Asks, AskType
  PROVE  /\ asks[i] \in Ask /\ asks[i].status \in Statuses /\ asks[i].digest \in Digests
         /\ asks[i].attempt \in 0..MaxMsgs /\ (asks[i].attempt # 0 => asks[i].attempt \in Msgs)
BY BoundsAssumption DEF AskType, Ask, Msgs

\* The fields of an attempt.
LEMMA AttFields ==
  ASSUME NEW m \in Msgs, AskType
  PROVE  /\ att[m] \in Attempt /\ att[m].act \in {"approve", "deny"} /\ (att[m].ask # 0 => att[m].ask \in Asks)
         /\ att[m].inv \in Nat /\ att[m].proof \in Nat /\ m \in Nat /\ m # 0
<1>1. MaxTroubles \in Nat /\ MaxMsgs \in Nat /\ MaxAsks \in Nat BY BoundsAssumption
<1>2. att[m] \in Attempt BY DEF AskType
<1>3. att[m].act \in {"approve", "deny"} /\ att[m].ask \in 0..MaxAsks BY <1>2 DEF Attempt
<1>4. att[m].inv \in 0..MaxInvocations /\ att[m].proof \in 0..MaxInvocations BY <1>2 DEF Attempt
<1> QED BY <1>1, <1>2, <1>3, <1>4 DEF Asks, Msgs, MaxInvocations

\* The fields of what the holder of work_lock is doing.
LEMMA JobFields ==
  ASSUME AskType
  PROVE  /\ job.pc \in Pcs /\ job.how \in Hows /\ job.r \in Read /\ job.m \in 0..MaxMsgs
         /\ job.m # 0 => job.m \in Msgs
         /\ job.r.n \in Native /\ job.r.kind \in {"ok", "busy", "fail"}
BY BoundsAssumption DEF AskType, JobType, Read, Msgs

\* The number of cards posted.
LEMMA PostedIs ==
  ASSUME NEW k \in 0..MaxAsks, \A i \in Asks : asks[i].status # "none" <=> i <= k
  PROVE  Posted = k
<1>1. {i \in Asks : asks[i].status # "none"} = 1..k BY BoundsAssumption DEF Asks
<1>2. Cardinality(1..k) = k BY FS_Interval, BoundsAssumption
<1> QED BY <1>1, <1>2 DEF Posted

\* The invariant says what the runs check.
LEMMA AskInvSays == AskInv => OneActive /\ AnswersTrue /\ DecisionOnRecord
<1> SUFFICES ASSUME AskInv PROVE OneActive /\ AnswersTrue /\ DecisionOnRecord OBVIOUS
<1>1. OneActive
 <2> DEFINE S == {i \in Asks : asks[i].status \in {"open", "deciding", "uncertain"}}
 <2>1. \A i, j \in S : i = j BY DEF AskInv, CardsInv, Single, Undecided
 <2>2. CASE S = {} BY <2>2, FS_EmptySet DEF OneActive
 <2>3. CASE \E i \in S : S = {i}
  <3>1. Cardinality(S) = 1 BY <2>3, FS_Singleton
  <3> QED BY <3>1 DEF OneActive
 <2> QED BY <2>1, <2>2, <2>3
<1>2. AnswersTrue BY DEF AnswersTrue, AskInv, ToldInv
<1>3. TypeOK BY DEF AskInv, AskType, TypeOK
<1>4. RecordAgrees
 <2> SUFFICES ASSUME NEW m \in Msgs, native.ref = m
              PROVE  AskOf(m).status \in {"deciding", "uncertain",
                                          IF att[m].act = "approve" THEN "approved" ELSE "denied"}
  BY DEF RecordAgrees
 <2>1. CASE Current(m) BY <2>1, AttFields DEF AskInv, CardsInv, Linked, Undecided, Current, AskOf
 <2> QED BY <2>1 DEF AskInv, BeadInv
<1>5. ApprovedWasShown BY DEF ApprovedWasShown, AskInv, BeadInv, CardsInv, OfCards
<1>6. ProofHolds BY DEF ProofHolds, AskInv, CountsInv, BeadInv
<1> QED BY <1>1, <1>2, <1>3, <1>4, <1>5, <1>6 DEF DecisionOnRecord

------------------------------
\* Steps that leave every card with its status and attempt, and every attempt with its card.
Stays(a, b) == /\ b.status = a.status /\ b.digest = a.digest /\ b.attempt = a.attempt
               /\ a.sent = "all" => b.sent = "all"
\* The bead keeps what admind recorded on it.
BeadKept == native' = native \/ (native.ref \notin Msgs /\ native'.ref \notin Msgs)
\* If no card and no attempt moves, the bead, the answers and the snapshot stay right.
LEMMA StoreStays ==
  ASSUME AskInv, AskType',
    \A i \in Asks : Stays(asks[i], asks'[i]),
    \A m \in Msgs : att'[m].ask = att[m].ask /\ att'[m].act = att[m].act,
    UNCHANGED <<inbound, told>>, BeadKept,
    \A m \in unknown : m \in unknown' \/ native.ref # m,
    snapshot' \subseteq snapshot
  PROVE  Filled' /\ Single' /\ Linked' /\ OfCards' /\ BeadInv' /\ ToldInv' /\ SnapInv'
<1>1. Filled' /\ Single' BY DEF AskInv, CardsInv, Filled, Single, Stays
<1>2. Linked' BY AskFields DEF AskInv, CardsInv, Linked, Stays
<1>3. \A m \in Msgs : att[m].ask # 0 => att[m].ask \in Asks /\ Stays(AskOf(m), AskOf(m)')
 BY AttFields DEF AskInv, AskOf
<1>4. OfCards' BY <1>3 DEF AskInv, CardsInv, OfCards, Stays
<1>5. \A m \in Msgs : Current(m)' <=> Current(m) BY <1>3 DEF Current, Stays
<1>6. BeadInv'
 <2>1. CASE native.ref \notin Msgs /\ native'.ref \notin Msgs BY <2>1 DEF BeadInv
 <2>2. CASE native' = native BY <1>3, <1>5, <2>2 DEF AskInv, BeadInv, Digest, Stays
 <2> QED BY <2>1, <2>2 DEF BeadKept
<1>7. ToldInv' BY <1>5 DEF AskInv, ToldInv, BeadKept
<1>8. SnapInv' BY DEF AskInv, AskType, SnapInv, Entries
<1> QED BY <1>1, <1>2, <1>4, <1>6, <1>7, <1>8

\* ... and every run counted as it was.
LEMMA CountsStay ==
  ASSUME AskInv, AskType', troubles' >= troubles, UNCHANGED unknown,
    \A m \in Msgs : att'[m].ask = att[m].ask /\ att'[m].inv = att[m].inv
                    /\ (att'[m].proof = att[m].proof \/ att'[m].proof = 0)
  PROVE  CountsInv'
<1>1. troubles \in Nat /\ troubles' \in Nat BY BoundsAssumption DEF AskInv, AskType
<1> SUFFICES ASSUME NEW m \in Msgs
             PROVE  /\ att'[m].ask = 0 => att'[m].inv = 0
                    /\ m \in unknown' => att'[m].inv > 0
                    /\ att'[m].inv <= troubles' + 1 /\ (m \notin unknown' => att'[m].inv <= troubles')
                    /\ att'[m].proof <= att'[m].inv
                    /\ att'[m].proof > 0 /\ att'[m].proof = att'[m].inv => m \notin unknown' BY DEF CountsInv
<1>2. att[m].inv \in Nat /\ att[m].proof \in Nat BY AttFields DEF AskInv
<1> QED BY <1>1, <1>2 DEF AskInv, CountsInv

\* What the holder of work_lock relies on is not what others change.
LEMMA JobStays ==
  ASSUME AskInv, AskType', UNCHANGED <<job, child, up, unknown, inbound>>, BeadKept,
    \A i \in Asks : asks[i].attempt # 0 =>
        Stays(asks[i], asks'[i]) /\ (asks[i].hold # "none" => asks'[i].hold # "none"),
    \A m \in Msgs : att'[m].ask = att[m].ask /\ att'[m].inv = att[m].inv
  PROVE  JobInv'
<1>1. job.m # 0 => job.m \in Msgs BY JobFields DEF AskInv
<1>2. \A m \in Msgs : Current(m) => /\ Stays(AskOf(m), AskOf(m)')
                                    /\ AskOf(m).hold # "none" => AskOf(m)'.hold # "none"
 BY AttFields DEF AskInv, AskOf, Current
<1>3. JobRuns' /\ JobFirst' BY <1>1 DEF AskInv, JobInv, JobRuns, JobFirst
<1>4. job.pc \notin {"free", "decide"} => job.m \in Msgs /\ att[job.m].ask # 0 BY <1>1 DEF AskInv, JobInv, JobRuns
<1>5. job.pc \notin {"free", "decide"} /\ AskOf(job.m).attempt = job.m =>
          /\ AskOf(job.m)'.status = AskOf(job.m).status
          /\ AskOf(job.m)'.attempt = AskOf(job.m).attempt
          /\ AskOf(job.m).hold # "none" => AskOf(job.m)'.hold # "none" BY <1>2, <1>4 DEF Stays, AskOf, Current
<1>6. JobChild'
 <2>1. job.pc \in {"child", "hold"} => (IsCurrent(job.m, "deciding") => IsCurrent(job.m, "deciding")')
  BY <1>5 DEF IsCurrent
 <2>2. child = "running" => job.pc = "child" BY DEF AskInv, JobInv, JobRuns
 <2>3. child = "running" => native'.ref # job.m BY <1>4, <2>2 DEF AskInv, JobInv, JobChild, BeadKept
 <2> QED BY <1>4, <2>1, <2>3 DEF AskInv, JobInv, JobChild
<1>7. JobHeld' BY <1>5 DEF AskInv, JobInv, JobHeld
<1>8. JobRead' BY <1>4 DEF AskInv, JobInv, JobRead, BeadKept
<1> QED BY <1>3, <1>6, <1>7, <1>8 DEF JobInv

\* The work_lock's holder moves on, or nobody does: the rest is as it was.
LEMMA QuietStep ==
  ASSUME AskInv, AskType', UNCHANGED <<asks, att, inbound, told, unknown>>, BeadKept,
    troubles' = troubles \/ troubles' = troubles + 1, snapshot' \subseteq snapshot,
    UNCHANGED <<job, child, up>> \/ JobInv'
  PROVE  AskInv'
<1>1. troubles' >= troubles BY BoundsAssumption DEF AskInv, AskType
<1>2. \A i \in Asks : Stays(asks[i], asks'[i]) /\ (asks[i].hold # "none" => asks'[i].hold # "none") BY DEF Stays
<1>3. CountsInv' BY <1>1, CountsStay
<1>4. Filled' /\ Single' /\ Linked' /\ OfCards' /\ BeadInv' /\ ToldInv' /\ SnapInv' BY <1>2, StoreStays
<1>5. HeldOnes' BY DEF AskInv, CardsInv, HeldOnes
<1>6. JobInv' BY <1>2, JobStays
<1> QED BY <1>3, <1>4, <1>5, <1>6 DEF AskInv, CardsInv

------------------------------
\* A disturbance is counted.
LEMMA TroubleCounts ==
  ASSUME AskType, NEW kind, Trouble(kind)
  PROVE  troubles' = troubles + 1 /\ troubles' \in 0..MaxTroubles
BY BoundsAssumption DEF AskType, Trouble

\* The bead's fields, and what others do to it.
LEMMA BeadFields ==
  /\ Any \in Digests
  /\ \A kind \in {"ok", "busy", "fail"} : NotRead(kind) \in Read /\ NotRead(kind).kind = kind
                                          /\ NotRead(kind).n \in Native /\ NotRead(kind).n.ref = 0
  /\ AskType => Now \in Read /\ Now.kind = "ok" /\ Now.n = native
<1>1. Any \in Digests BY BoundsAssumption DEF Any
<1>2. 0 \in 0..Host BY BoundsAssumption DEF Host
<1>3. \A kind : NotRead(kind).n \in Native /\ NotRead(kind).n.ref = 0 BY <1>1, <1>2 DEF NotRead, Native, Forms
<1>4. \A kind \in {"ok", "busy", "fail"} : NotRead(kind) \in Read /\ NotRead(kind).kind = kind
 BY <1>3 DEF NotRead, Read
<1>5. AskType => Now \in Read /\ Now.kind = "ok" /\ Now.n = native BY DEF Now, Read, AskType
<1> QED BY <1>1, <1>3, <1>4, <1>5

\* A decision made on the host, or none, is not one of an attempt.
LEMMA HostIsNobody == Host \notin Msgs /\ 0 \notin Msgs /\ Host \in 0..Host /\ 0 \in 0..Host
BY BoundsAssumption DEF Host, Msgs

\* What others do to an undecided bead is never a decision of admind.
LEMMA NativeSteps ==
  ASSUME AskType, NativeEdited \/ NativeDecided \/ NativeGated
  PROVE  native' \in Native /\ BeadKept
<1>0. native \in Native BY DEF AskType
<1>1. CASE NativeEdited
 <2>1. PICK d \in Digests : native' = [native EXCEPT !.digest = d] /\ native.ref = 0 BY <1>1 DEF NativeEdited
 <2> QED BY <1>0, <2>1, HostIsNobody DEF Native, BeadKept
<1>2. CASE NativeDecided
 <2>1. native.ref = 0 BY <1>2 DEF NativeDecided
 <2>2. CASE native' = [native EXCEPT !.open = FALSE]
  <3>1. native' \in Native /\ native'.ref = native.ref BY <1>0, <2>2 DEF Native
  <3> QED BY <2>1, <3>1, HostIsNobody DEF BeadKept
 <2>3. CASE native' = [native EXCEPT !.open = FALSE, !.ref = Host, !.seen = native.digest]
  <3>1. native' \in Native /\ native'.ref = Host BY <1>0, <2>3, HostIsNobody DEF Native
  <3> QED BY <2>1, <3>1, HostIsNobody DEF BeadKept
 <2> QED BY <1>2, <2>2, <2>3 DEF NativeDecided
<1>3. CASE NativeGated
 <2>1. PICK f \in Forms : native' = [native EXCEPT !.form = f] /\ native.ref = 0 BY <1>3 DEF NativeGated
 <2> QED BY <1>0, <2>1, HostIsNobody DEF Native, BeadKept
<1> QED BY <1>1, <1>2, <1>3

\* The queue, the policy, the group and a post that has not been committed: none of them
\* touches the cards or the holder of work_lock.
LEMMA WorldStep ==
  AskInv /\ (NativeEdited \/ NativeDecided \/ NativeGated \/ PolicyEdited \/ GroupLost \/ GroupChecked
                  \/ ChangeMembership \/ PostBegins \/ PostReads) => AskInv'
<1> SUFFICES ASSUME AskInv, NativeEdited \/ NativeDecided \/ NativeGated \/ PolicyEdited \/ GroupLost
                    \/ GroupChecked \/ ChangeMembership \/ PostBegins \/ PostReads
             PROVE  AskInv'
 OBVIOUS
<1>0. AskType BY DEF AskInv
<1>1. /\ UNCHANGED <<asks, att, inbound, told, unknown, stranded, keyed, withdrawn, snapshot, up, job, child>>
 BY DEF NativeEdited, NativeDecided, NativeGated, PolicyEdited, GroupLost, GroupChecked, ChangeMembership,
   PostBegins, PostReads, store, source, history
<1>2. troubles' \in 0..MaxTroubles /\ (troubles' = troubles \/ troubles' = troubles + 1)
 <2>1. troubles' = troubles \/ \E kind \in AllKinds : Trouble(kind)
  BY DEF NativeEdited, NativeDecided, NativeGated, PolicyEdited, GroupLost, GroupChecked, ChangeMembership,
    PostBegins, PostReads, AllKinds
 <2> QED BY <1>0, <2>1, TroubleCounts DEF AskType
<1>3. native' \in Native /\ BeadKept
 <2>1. CASE native' = native BY <1>0, <2>1 DEF AskType, BeadKept
 <2> QED BY <1>0, <2>1, NativeSteps DEF PolicyEdited, GroupLost, GroupChecked, ChangeMembership, PostBegins, PostReads
<1>4. ops' \subseteq Operators
 BY <1>0 DEF AskType, NativeEdited, NativeDecided, NativeGated, PolicyEdited, GroupLost, GroupChecked,
   ChangeMembership, PostBegins, PostReads, gate
<1>5. pending' \in BOOLEAN /\ verified' \in BOOLEAN /\ UNCHANGED <<latched, tool>>
 BY <1>0 DEF AskType, NativeEdited, NativeDecided, NativeGated, PolicyEdited, GroupLost, GroupChecked,
   ChangeMembership, PostBegins, PostReads, gate
<1>6. post' \in PostType
 <2>1. CASE post' = post BY <1>0, <2>1 DEF AskType
 <2>2. CASE PostBegins
  <3>1. PICK k \in BOOLEAN : post' = [Idle EXCEPT !.pc = "read", !.keyed = k] BY <2>2 DEF PostBegins
  <3> QED BY <3>1, BeadFields DEF Idle, PostType
 <2>3. CASE PostReads
  <3>1. Idle \in PostType BY BeadFields DEF Idle, PostType
  <3>2. CASE post' = [post EXCEPT !.pc = "commit", !.r = Now]
   <4>1. Now \in Read /\ post \in PostType BY <1>0, BeadFields DEF AskType
   <4> QED BY <3>2, <4>1 DEF PostType
  <3> QED BY <2>3, <3>1, <3>2 DEF PostReads
 <2> QED
  BY <2>1, <2>2, <2>3 DEF NativeEdited, NativeDecided, NativeGated, PolicyEdited, GroupLost, GroupChecked,
    ChangeMembership
<1>7. AskType' BY <1>0, <1>1, <1>2, <1>3, <1>4, <1>5, <1>6 DEF AskType
<1> QED BY <1>1, <1>2, <1>3, <1>7, QuietStep

\* The holder of work_lock is gone: admind died, or the store failed under it.
LEMMA FreeKnows ==
  ASSUME AskType, job' = Free, child' = "none"
  PROVE  job' \in JobType /\ JobInv'
<1>1. Free \in JobType /\ Free.pc = "free" BY BeadFields, BoundsAssumption DEF Free, At, JobType, Pcs, Hows
<1>2. job'.pc = "free" BY <1>1
<1> HIDE DEF Free
<1> QED BY <1>1, <1>2 DEF JobInv, JobRuns, JobFirst, JobChild, JobHeld, JobRead

\* A crash, and a fault of the store, leave the cards and the bead as they are.
LEMMA EndStep == AskInv /\ (Crash \/ Fault) => AskInv'
<1> SUFFICES ASSUME AskInv, Crash \/ Fault PROVE AskInv' OBVIOUS
<1>0. AskType BY DEF AskInv
<1>1. /\ UNCHANGED <<asks, att, inbound, told, native, unknown, keyed, withdrawn>>
      /\ UNCHANGED <<ops, latched, pending, verified, tool>> /\ snapshot' \subseteq snapshot
 BY DEF Crash, Fault, store, source, gate, history
<1>2. troubles' = troubles + 1 /\ troubles' \in 0..MaxTroubles BY <1>0, TroubleCounts DEF Crash, Fault
<1>3. job' = Free /\ child' = "none" BY DEF Crash, Fault, AskInv, JobInv, JobRuns
<1>4. up' \in BOOLEAN /\ stranded' \in BOOLEAN BY <1>0 DEF Crash, Fault, AskType, history
<1>5. post' \in PostType
 <2>1. Idle \in PostType BY BeadFields DEF Idle, PostType
 <2> QED BY <1>0, <2>1 DEF Crash, Fault, AskType
<1>6. AskType' BY <1>0, <1>1, <1>2, <1>3, <1>4, <1>5, FreeKnows DEF AskType
<1> QED BY <1>0, <1>1, <1>2, <1>3, <1>6, FreeKnows, QuietStep DEF BeadKept

------------------------------
\* A job that is to read the bead back, with nothing held behind it.
LEMMA BackKnows ==
  ASSUME AskType, NEW m \in Msgs, NEW how \in Hows \ {"retry", "withdrawn"},
    job' \in JobType, job'.pc = "back", job'.m = m, job'.how = how,
    att'[m].ask # 0, child' = "none", up'
  PROVE  JobInv'
<1>1. m # 0 BY AttFields
<1> QED BY <1>1 DEF JobInv, JobRuns, JobFirst, JobChild, JobHeld, JobRead

\* What a coroutine's state is made of.
LEMMA AtFields ==
  ASSUME NEW pc \in Pcs, NEW m \in 0..MaxMsgs, NEW r \in Read, NEW how \in Hows
  PROVE  /\ At(pc, m, r, how) \in JobType /\ At(pc, m, r, how).pc = pc /\ At(pc, m, r, how).m = m
         /\ At(pc, m, r, how).r = r /\ At(pc, m, r, how).how = how
BY DEF At, JobType

\* A read of the bead, under work_lock.
LEMMA ReadsStep == AskInv /\ (AttemptReads \/ BackReads) => AskInv'
<1> SUFFICES ASSUME AskInv, AttemptReads \/ BackReads PROVE AskInv' OBVIOUS
<1>0. AskType /\ job \in JobType BY DEF AskInv, AskType
<1>1. PICK r \in {Now, NotRead("busy"), NotRead("fail")}, pc \in {"check", "settle"} :
          /\ Reads(r) /\ job' = At(pc, job.m, r, job.how)
          /\ (job.pc = "read" /\ pc = "check") \/ (job.pc = "back" /\ pc = "settle") BY DEF AttemptReads, BackReads
<1>2. r \in Read /\ (r.kind = "ok" => r = Now /\ r.n = native) BY <1>0, BeadFields
<1>3. /\ UNCHANGED <<asks, att, inbound, told, native, unknown, keyed, withdrawn, stranded, up, post, child, snapshot>>
      /\ UNCHANGED <<ops, latched, pending, verified, tool>>
 BY DEF AttemptReads, BackReads, store, source, gate, history
<1>4. troubles' \in 0..MaxTroubles /\ (troubles' = troubles \/ troubles' = troubles + 1)
 <2>1. troubles' = troubles \/ Trouble("read") BY <1>1 DEF Reads
 <2> QED BY <1>0, <2>1, TroubleCounts DEF AskType
<1>5. job' \in JobType /\ job'.pc = pc /\ job'.r = r /\ job'.m = job.m /\ job'.how = job.how
 <2>1. pc \in Pcs BY DEF Pcs
 <2> QED BY <1>0, <1>1, <1>2, <2>1, JobFields, AtFields
<1>6. AskType' BY <1>0, <1>3, <1>4, <1>5 DEF AskType
<1>7. JobInv'
 <2>1. JobRuns' /\ JobFirst' BY <1>1, <1>3, <1>5 DEF AskInv, JobInv, JobRuns, JobFirst
 <2>2. JobChild' BY <1>1, <1>3, <1>5 DEF AskInv, JobInv, JobRuns, JobChild
 <2>3. JobHeld' BY <1>1, <1>3, <1>5 DEF AskInv, JobInv, JobHeld, AskOf
 <2>4. JobRead' BY <1>1, <1>2, <1>3, <1>5 DEF JobRead
 <2> QED BY <2>1, <2>2, <2>3, <2>4 DEF JobInv
<1> QED BY <1>3, <1>4, <1>6, <1>7, QuietStep DEF BeadKept

\* The card is found stale, before the decision or after it; the child ends.
LEMMA MovesOnStep ==
  ASSUME AskInv, \/ CheckStale \/ ChildExits
                 \/ AttemptSettles /\ Back = "untouched" /\ job.r.n.digest # Digest(job.m)
  PROVE  AskInv'
<1>0. AskType /\ job \in JobType BY DEF AskInv, AskType
<1>1. /\ UNCHANGED <<asks, att, inbound, told, native, unknown, keyed, withdrawn, stranded, up, post, snapshot>>
      /\ UNCHANGED <<ops, latched, pending, verified, tool, troubles>>
 BY DEF CheckStale, ChildExits, AttemptSettles, store, source, gate, history
<1>2. \/ /\ job.pc = "check" /\ job' = At("refresh", job.m, job.r, "refused") /\ child' = child
      \/ /\ job.pc = "settle" /\ job' = At("refresh", job.m, job.r, "untouched") /\ child' = child
         /\ Back = "untouched"
      \/ /\ job.pc = "child" /\ job' = At("back", job.m, job.r, job.how) /\ child' = "none"
 BY DEF CheckStale, ChildExits, AttemptSettles
<1> DEFINE Moved == /\ job' \in JobType /\ job'.m = job.m /\ job'.r = job.r
                    /\ \/ job.pc = "check" /\ job'.pc = "refresh" /\ job'.how = "refused"
                       \/ job.pc = "settle" /\ job'.pc = "refresh" /\ job'.how = "untouched" /\ Back = "untouched"
                       \/ job.pc = "child" /\ job'.pc = "back" /\ job'.how = job.how
<1>3. Moved
 <2>0. /\ "refresh" \in Pcs /\ "back" \in Pcs /\ "refused" \in Hows /\ "untouched" \in Hows BY DEF Pcs, Hows
 <2>1. CASE job.pc = "check" /\ job' = At("refresh", job.m, job.r, "refused") BY <1>0, <2>0, <2>1, JobFields, AtFields
 <2>2. CASE job.pc = "settle" /\ job' = At("refresh", job.m, job.r, "untouched") /\ Back = "untouched"
  BY <1>0, <2>0, <2>2, JobFields, AtFields
 <2>3. CASE job.pc = "child" /\ job' = At("back", job.m, job.r, job.how) BY <1>0, <2>0, <2>3, JobFields, AtFields
 <2> QED BY <1>2, <2>1, <2>2, <2>3
<1>4. child' = "none" BY <1>2 DEF AskInv, JobInv, JobRuns
<1>5. AskType' BY <1>0, <1>1, <1>3, <1>4 DEF AskType
<1>6. Moved BY <1>3
<1>7. JobInv'
 <2>1. JobRuns' /\ JobFirst' /\ JobChild' /\ JobHeld'
  BY <1>1, <1>3, <1>4, <1>6 DEF AskInv, JobInv, JobRuns, JobFirst, JobChild, JobHeld
 <2>2. Back = "untouched" => job.r.kind = "ok" /\ job.r.n.ref = 0 BY DEF Back, Settled
 <2>3. JobRead' BY <1>1, <1>3, <1>6, <2>2 DEF AskInv, JobInv, JobFirst, JobRead
 <2> QED BY <2>1, <2>3 DEF JobInv
<1> QED BY <1>1, <1>5, <1>7, QuietStep DEF BeadKept

------------------------------
\* What a step does to a card: it is left, an open one is taken back, a new one posted, or
\* its attempt is closed, or left to be settled again.
Moves(a, b) ==
    \/ Stays(a, b) /\ b.hold \in {a.hold, "none"}
    \/ /\ a.status = "open" /\ b.status \in {"superseded", "cancelled"}
       /\ b.digest = a.digest /\ b.attempt = a.attempt /\ b.sent = a.sent /\ b.hold = a.hold
    \/ a.status = "none" /\ b.status = "open" /\ b.attempt = 0 /\ b.hold = "none"
    \/ /\ a.attempt # 0 /\ b.digest = a.digest /\ b.sent = a.sent /\ b.hold = "none"
       /\ \/ b.status = "uncertain" /\ b.attempt = a.attempt
          \/ b.status \notin {"none", "deciding", "uncertain"} /\ b.attempt = 0
\* What a step says of a message: nothing, or an answer that is so.
Answered(m) ==
    \/ told'[m] = told[m] /\ inbound'[m] = inbound[m]
    \/ \E w \in Said : /\ told'[m] = told[m] \cup {w} /\ inbound'[m] \in {"done", "dropped"}
                       /\ w = "nothing" => native.ref # m /\ ~Current(m)'
                       /\ w = "recorded" => native.ref = m
\* Cards that move so, with answers that are so, stay linked to their attempts and to the bead.
LEMMA CardsMoveOn ==
  ASSUME AskInv, AskType', Filled', Single', UNCHANGED <<native, unknown>>,
    \A i \in Asks : Moves(asks[i], asks'[i]),
    \A m \in Msgs : /\ att'[m].ask = att[m].ask /\ att'[m].act = att[m].act /\ att'[m].inv >= att[m].inv
                    /\ Answered(m)
                    /\ native.ref = m /\ Current(m) =>
                          \/ Current(m)'
                          \/ /\ AskOf(m)'.status = (IF att[m].act = "approve" THEN "approved" ELSE "denied")
                             /\ inbound'[m] # "executing"
  PROVE  CardsInv' /\ BeadInv' /\ ToldInv'
<1>0. \A m \in Msgs : att[m].ask # 0 => att[m].ask \in Asks /\ Moves(AskOf(m), AskOf(m)')
 BY AttFields DEF AskInv, AskOf
<1>1. \A i \in Asks : /\ asks'[i].attempt \in {asks[i].attempt, 0}
                      /\ asks[i].status # "none" => /\ asks'[i].status # "none" /\ asks'[i].digest = asks[i].digest
                                                    /\ asks[i].sent = "all" => asks'[i].sent = "all"
                      /\ asks[i].status \in {"approved", "denied"} => asks'[i].status = asks[i].status
 <2> SUFFICES ASSUME NEW i \in Asks
              PROVE  /\ asks'[i].attempt \in {asks[i].attempt, 0}
                     /\ asks[i].status # "none" => /\ asks'[i].status # "none" /\ asks'[i].digest = asks[i].digest
                                                   /\ asks[i].sent = "all" => asks'[i].sent = "all"
                     /\ asks[i].status \in {"approved", "denied"} => asks'[i].status = asks[i].status
  OBVIOUS
 <2>1. asks'[i] \in Ask /\ asks[i] \in Ask BY DEF AskInv, AskType
 <2>2. asks[i].attempt # 0 => asks[i].status \in Undecided BY DEF AskInv, CardsInv, Linked
 <2> QED BY <2>1, <2>2 DEF Moves, Stays, Ask, Undecided
<1>2. Linked' BY <1>1, AskFields DEF AskInv, CardsInv, Linked, Moves, Stays, Undecided
<1>3. \A m \in Msgs : att[m].ask # 0 =>
          /\ AskOf(m)'.attempt \in {AskOf(m).attempt, 0}
          /\ AskOf(m).status # "none" => /\ AskOf(m)'.status # "none" /\ AskOf(m)'.digest = AskOf(m).digest
                                         /\ AskOf(m).sent = "all" => AskOf(m)'.sent = "all"
          /\ AskOf(m).status \in {"approved", "denied"} => AskOf(m)'.status = AskOf(m).status
 BY <1>0, <1>1 DEF AskOf
<1>4. OfCards' BY <1>3 DEF AskInv, CardsInv, OfCards
<1>5. HeldOnes'
 <2> SUFFICES ASSUME NEW i \in Asks, asks'[i].hold # "none"
              PROVE  /\ asks'[i].status = "deciding" /\ asks'[i].attempt \notin unknown'
                     /\ att'[asks'[i].attempt].inv > 0 BY DEF HeldOnes
 <2>1. asks[i].hold # "none" => /\ asks[i].status = "deciding" /\ asks[i].attempt \notin unknown
                                /\ att[asks[i].attempt].inv > 0 BY DEF AskInv, CardsInv, HeldOnes
 <2>2. asks[i].hold # "none" /\ asks'[i].status = asks[i].status /\ asks'[i].attempt = asks[i].attempt
  BY <2>1 DEF Moves, Stays
 <2>3. asks[i].attempt \in Msgs BY <2>1, <2>2, AskFields DEF AskInv, CardsInv, Linked, Undecided
 <2>4. att[asks[i].attempt].inv \in Nat /\ att'[asks[i].attempt].inv \in Nat
  BY <2>3, AttFields, BoundsAssumption DEF AskInv, AskType, Attempt, MaxInvocations
 <2> QED BY <2>1, <2>2, <2>3, <2>4
<1>6. \A m \in Msgs : Current(m)' => Current(m) BY <1>3, AttFields DEF Current, AskInv
<1>7. BeadInv'
 <2> SUFFICES ASSUME NEW m \in Msgs, native.ref = m
              PROVE  /\ ~native.open /\ att'[m].ask # 0 /\ native.act = att'[m].act
                     /\ native.seen = Digest(m)' /\ m \in unknown
                     /\ \/ Current(m)'
                        \/ /\ AskOf(m)'.status = (IF att'[m].act = "approve" THEN "approved" ELSE "denied")
                           /\ inbound'[m] # "executing" BY DEF BeadInv
 <2>1. /\ ~native.open /\ att[m].ask # 0 /\ native.act = att[m].act /\ native.seen = Digest(m) /\ m \in unknown
       /\ \/ Current(m)
          \/ /\ AskOf(m).status = (IF att[m].act = "approve" THEN "approved" ELSE "denied")
             /\ inbound[m] # "executing" BY DEF AskInv, BeadInv
 <2>2. Digest(m)' = Digest(m) BY <1>3, <2>1 DEF Digest, AskInv, CardsInv, OfCards
 <2>3. inbound[m] # "executing" => inbound'[m] # "executing" BY DEF Answered
 <2> QED BY <1>3, <2>1, <2>2, <2>3
<1>8. ToldInv'
 <2> SUFFICES ASSUME NEW m \in Msgs
              PROVE  /\ inbound'[m] = "new" => att'[m].ask = 0
                     /\ "nothing" \in told'[m] => native.ref # m /\ inbound'[m] \in {"done", "dropped"} /\ ~Current(m)'
                     /\ "recorded" \in told'[m] => native.ref = m BY DEF ToldInv
 <2>1. Answered(m) OBVIOUS
 <2>2. CASE told'[m] = told[m] /\ inbound'[m] = inbound[m] BY <1>6, <2>2 DEF AskInv, ToldInv
 <2>3. CASE \E w \in Said : /\ told'[m] = told[m] \cup {w} /\ inbound'[m] \in {"done", "dropped"}
                            /\ w = "nothing" => native.ref # m /\ ~Current(m)'
                            /\ w = "recorded" => native.ref = m BY <1>6, <2>3 DEF AskInv, ToldInv
 <2> QED BY <2>1, <2>2, <2>3 DEF Answered
<1> QED BY <1>2, <1>4, <1>5, <1>7, <1>8 DEF CardsInv

\* ... and the snapshot of the reconcile still names attempts of their cards.
LEMMA CardsMove ==
  ASSUME AskInv, AskType', Filled', Single', UNCHANGED <<native, unknown, snapshot>>,
    \A i \in Asks : Moves(asks[i], asks'[i]),
    \A m \in Msgs : /\ att'[m].ask = att[m].ask /\ att'[m].act = att[m].act /\ att'[m].inv >= att[m].inv
                    /\ Answered(m)
                    /\ native.ref = m /\ Current(m) =>
                          \/ Current(m)'
                          \/ /\ AskOf(m)'.status = (IF att[m].act = "approve" THEN "approved" ELSE "denied")
                             /\ inbound'[m] # "executing"
  PROVE  CardsInv' /\ BeadInv' /\ ToldInv' /\ SnapInv'
<1>1. CardsInv' /\ BeadInv' /\ ToldInv' BY CardsMoveOn
<1>2. SnapInv' BY DEF AskInv, AskType, SnapInv, Entries
<1> QED BY <1>1, <1>2

Settlements == {"refused", "recorded", "untouched", "blocked", "uncertain"}

\* What close_attempt makes of the card and of the attempt.
LEMMA ClosedFields ==
  ASSUME AskType, NEW m \in Msgs, att[m].ask # 0, AskOf(m).attempt = m, NEW settled \in Settlements, NEW new \in Statuses,
    settled = "uncertain" => new = "uncertain",
    settled # "uncertain" => new \notin {"none", "deciding", "uncertain"}
  PROVE  /\ Closed(m, settled, new) \in Ask /\ Moves(AskOf(m), Closed(m, settled, new))
         /\ Closed(m, settled, new).attempt = (IF settled = "uncertain" THEN m ELSE 0)
         /\ settled \notin {"untouched", "refused"} => Closed(m, settled, new).status = new
         /\ Closed(m, settled, new).status \in {new, "cancelled"} /\ Closed(m, settled, new).status # "none"
         /\ ClosedAttempt(m, settled) \in Attempt /\ ClosedAttempt(m, settled).ask = att[m].ask
         /\ ClosedAttempt(m, settled).act = att[m].act /\ ClosedAttempt(m, settled).inv = att[m].inv
         /\ \/ ClosedAttempt(m, settled).proof = att[m].proof
            \/ ClosedAttempt(m, settled).proof = 0
<1> DEFINE c == Closed(m, settled, new)
           t == ClosedAttempt(m, settled)
<1>1. AskOf(m) \in Ask /\ att[m] \in Attempt /\ m \in 0..MaxMsgs /\ m # 0 /\ 0 \in 0..MaxMsgs
 BY AttFields, BoundsAssumption DEF AskType, AskOf, Msgs
<1>2. /\ c.attempt = (IF settled = "uncertain" THEN m ELSE 0) /\ c.hold = "none"
      /\ c.digest = AskOf(m).digest /\ c.sent = AskOf(m).sent
      /\ settled \notin {"untouched", "refused"} => c.status = new
      /\ c.status \in {new, "cancelled"} BY DEF Closed, Digest
<1>3. c \in Ask
 <2>1. c.status \in Statuses /\ c.attempt \in 0..MaxMsgs /\ c.digest \in Digests /\ c.sent \in {"none", "part", "all"}
  BY <1>1, <1>2 DEF Ask, Statuses
 <2>2. c = [status |-> c.status, digest |-> c.digest, outcome |-> "text", attempt |-> c.attempt,
            sent |-> c.sent, hold |-> "none"] BY DEF Closed
 <2> HIDE DEF c
 <2> QED BY <2>1, <2>2 DEF Ask, Outcomes
<1>4. Moves(AskOf(m), c) /\ c.status # "none"
 <2>1. settled = "uncertain" => c.status = "uncertain" /\ c.attempt = AskOf(m).attempt BY <1>2
 <2>2. settled # "uncertain" => c.status \notin {"none", "deciding", "uncertain"} /\ c.attempt = 0 BY <1>2
 <2> HIDE DEF c
 <2> QED BY <1>1, <1>2, <2>1, <2>2 DEF Moves
<1>5. /\ t.ask = att[m].ask /\ t.act = att[m].act /\ t.inv = att[m].inv
      /\ t.proof = att[m].proof \/ t.proof = 0 BY DEF ClosedAttempt
<1>6. t \in Attempt
 <2>1. /\ att[m].ask \in 0..MaxAsks /\ att[m].act \in {"approve", "deny"} /\ att[m].op \in Operators
       /\ att[m].inv \in 0..MaxInvocations /\ att[m].proof \in 0..MaxInvocations
       /\ att[m].notice \in 0..MaxInvocations /\ att[m].shown \in 0..MaxInvocations BY <1>1 DEF Attempt
 <2>2. 0 \in 0..MaxInvocations BY BoundsAssumption DEF MaxInvocations
 <2> QED BY <2>1, <2>2 DEF ClosedAttempt, Attempt, Settlements
<1> HIDE DEF c, t
<1>7. /\ c \in Ask /\ Moves(AskOf(m), c) /\ c.attempt = (IF settled = "uncertain" THEN m ELSE 0)
      /\ settled \notin {"untouched", "refused"} => c.status = new
      /\ c.status \in {new, "cancelled"} /\ c.status # "none" BY <1>2, <1>3, <1>4
<1>8. /\ t \in Attempt /\ t.ask = att[m].ask /\ t.act = att[m].act /\ t.inv = att[m].inv
      /\ t.proof = att[m].proof \/ t.proof = 0 BY <1>5, <1>6
<1> QED BY <1>7, <1>8 DEF c, t

\* The cards with one of them closed are filled and single as before.
LEMMA CloseKeepsOne ==
  ASSUME AskInv, NEW i \in Asks, asks[i].attempt # 0, asks'[i].status # "none",
    \A j \in Asks \ {i} : asks'[j] = asks[j]
  PROVE  Filled' /\ Single'
<1>1. asks[i].status \in Undecided BY DEF AskInv, CardsInv, Linked
<1>2. Single' BY <1>1 DEF AskInv, CardsInv, Single
<1>3. \A j \in Asks : asks'[j].status # "none" <=> asks[j].status # "none" BY <1>1 DEF Undecided
<1>4. Filled' BY <1>3 DEF AskInv, CardsInv, Filled
<1> QED BY <1>2, <1>4

\* close_attempt and finish, for a settlement that is so.
LEMMA CloseStep ==
  ASSUME AskInv, NEW m \in Msgs, att[m].ask # 0, NEW expect, NEW settled \in Settlements, NEW new \in Statuses,
    NEW status \in {"done", "dropped"}, CloseAttempt(m, expect, settled, new, status),
    settled = "uncertain" => new = "uncertain",
    settled # "uncertain" => new \notin {"none", "deciding", "uncertain"},
    settled = "recorded" => native.ref = m,
    native.ref = m => \/ settled = "uncertain"
                      \/ settled = "recorded" /\ new = (IF att[m].act = "approve" THEN "approved" ELSE "denied"),
    job' = Free, child = "none",
    UNCHANGED <<native, source, gate, post, child, snapshot, up, history, troubles>>
  PROVE  AskInv'
<1>0. AskType /\ m # 0 BY AttFields DEF AskInv
<1>1. /\ UNCHANGED <<native, keyed, withdrawn, ops, latched, pending, verified, tool, post, child, snapshot, up>>
      /\ UNCHANGED <<unknown, stranded, troubles>> BY DEF source, gate, history
<1>2. job' \in JobType /\ JobInv' BY <1>0, <1>1, FreeKnows
<1>3. CASE ~IsCurrent(m, expect)
 <2>1. UNCHANGED <<asks, att, inbound, told>> BY <1>3 DEF CloseAttempt, store
 <2>2. AskType' BY <1>0, <1>1, <1>2, <2>1 DEF AskType
 <2> QED BY <1>1, <1>2, <2>1, <2>2, QuietStep DEF BeadKept
<1>4. CASE IsCurrent(m, expect)
 <2> DEFINE i == att[m].ask
            c == Closed(m, settled, new)
            t == ClosedAttempt(m, settled)
            w == Means(settled)
 <2>1. i \in Asks /\ AskOf(m).attempt = m /\ AskOf(m) = asks[i] BY <1>0, <1>4, AttFields DEF IsCurrent, AskOf
 <2>2. /\ asks' = [asks EXCEPT ![i] = c] /\ att' = [att EXCEPT ![m] = t]
       /\ inbound' = [inbound EXCEPT ![m] = status] /\ told' = [told EXCEPT ![m] = told[m] \cup {w}]
  BY <1>4 DEF CloseAttempt, Answer
 <2>3. /\ c \in Ask /\ Moves(asks[i], c) /\ c.attempt = (IF settled = "uncertain" THEN m ELSE 0)
       /\ settled \notin {"untouched", "refused"} => c.status = new
       /\ c.status # "none" BY <1>0, <2>1, ClosedFields
 <2>4. /\ t \in Attempt /\ t.ask = i /\ t.act = att[m].act /\ t.inv = att[m].inv
       /\ t.proof = att[m].proof \/ t.proof = 0 BY <1>0, <2>1, ClosedFields
 <2>5. /\ w \in Said /\ (w = "nothing" => settled \in {"untouched", "refused"})
       /\ w = "recorded" => settled = "recorded" BY DEF Means, Said, Settlements
 <2> HIDE DEF c, t, w, i
 <2>6. /\ asks' \in [Asks -> Ask] /\ asks'[i] = c /\ \A j \in Asks \ {i} : asks'[j] = asks[j]
  BY <1>0, <2>1, <2>2, <2>3 DEF AskType
 <2>7. /\ att' \in [Msgs -> Attempt] /\ att'[m] = t /\ \A k \in Msgs \ {m} : att'[k] = att[k]
  BY <1>0, <2>2, <2>4 DEF AskType
 <2>8. /\ inbound' \in [Msgs -> {"new", "executing", "done", "dropped"}] /\ told' \in [Msgs -> SUBSET Said]
       /\ inbound'[m] = status /\ told'[m] = told[m] \cup {w}
       /\ \A k \in Msgs \ {m} : inbound'[k] = inbound[k] /\ told'[k] = told[k] BY <1>0, <2>2, <2>5 DEF AskType
 <2>9. AskType' BY <1>0, <1>1, <1>2, <2>6, <2>7, <2>8 DEF AskType
 <2>10. Filled' /\ Single' BY <1>0, <2>1, <2>3, <2>6, CloseKeepsOne
 <2>11. \A j \in Asks : Moves(asks[j], asks'[j]) BY <2>3, <2>6 DEF Moves, Stays
 <2>12. \A k \in Msgs : att'[k].ask = att[k].ask /\ att'[k].act = att[k].act /\ att'[k].inv = att[k].inv
                        /\ (att'[k].proof = att[k].proof \/ att'[k].proof = 0) BY <2>4, <2>7 DEF i
 <2>13. AskOf(m)' = c BY <2>4, <2>6, <2>7 DEF AskOf
 <2>14. \A k \in Msgs : Answered(k)
  <3>1. settled \in {"untouched", "refused"} => native.ref # m /\ ~Current(m)' BY <1>0, <2>3, <2>13 DEF Current
  <3>2. Answered(m) BY <2>5, <2>8, <3>1 DEF Answered
  <3> QED BY <2>8, <3>2 DEF Answered
 <2>15. \A k \in Msgs : native.ref = k /\ Current(k) =>
              \/ Current(k)'
              \/ /\ AskOf(k)'.status = (IF att[k].act = "approve" THEN "approved" ELSE "denied")
                 /\ inbound'[k] # "executing"
  <3> SUFFICES ASSUME NEW k \in Msgs, native.ref = k, Current(k)
               PROVE  \/ Current(k)'
                      \/ /\ AskOf(k)'.status = (IF att[k].act = "approve" THEN "approved" ELSE "denied")
                         /\ inbound'[k] # "executing"
   OBVIOUS
  <3>1. CASE k = m BY <2>3, <2>8, <2>12, <2>13, <3>1 DEF Current
  <3>2. CASE k # m
   <4>1. att[k].ask \in Asks /\ att[k].ask # i BY <1>0, <2>1, <3>2, AttFields DEF Current, AskOf
   <4>2. AskOf(k)' = AskOf(k) BY <2>6, <2>7, <3>2, <4>1 DEF AskOf
   <4> QED BY <2>7, <3>2, <4>2 DEF Current
  <3> QED BY <3>1, <3>2
 <2>16. \A k \in Msgs : att'[k].inv >= att[k].inv BY <1>0, <2>12, AttFields
 <2>17. troubles' >= troubles BY <1>0, <1>1, BoundsAssumption DEF AskType
 <2>18. CardsInv' /\ BeadInv' /\ ToldInv' /\ SnapInv'
  BY <1>1, <2>9, <2>10, <2>11, <2>12, <2>14, <2>15, <2>16, CardsMove
 <2>19. CountsInv' BY <1>1, <2>9, <2>12, <2>17, CountsStay
 <2> QED BY <1>2, <2>9, <2>18, <2>19 DEF AskInv
<1> QED BY <1>3, <1>4

------------------------------
\* A read-back tells the truth although it is old: what admind records it records under
\* work_lock, by a child that has ended.
LEMMA BackSays ==
  ASSUME AskInv, job.pc = "settle"
  PROVE  /\ job.m \in Msgs /\ att[job.m].ask # 0 /\ child = "none"
         /\ Back \in Settlements
         /\ Back = "recorded" => native.ref = job.m
         /\ native.ref = job.m => Back \in {"recorded", "uncertain"}
         /\ NewStatus(Back, job.m) \in Statuses
         /\ Back = "uncertain" => NewStatus(Back, job.m) = "uncertain"
         /\ Back \in Settlements \ {"uncertain", "refused"} =>
               NewStatus(Back, job.m) \notin {"none", "deciding", "uncertain"}
         /\ Back = "recorded" => NewStatus(Back, job.m) = (IF att[job.m].act = "approve" THEN "approved" ELSE "denied")
         /\ Back # "refused"
<1>0. AskType BY DEF AskInv
<1>1. job.m \in Msgs /\ att[job.m].ask # 0 /\ child = "none" BY <1>0, JobFields DEF AskInv, JobInv, JobRuns
<1>2. Back \in Settlements \ {"refused"} BY DEF Back, Settled, Settlements
<1>3. job.r.kind = "ok" => (native.ref \in Msgs \/ job.r.n.ref \in Msgs => job.r.n = native)
 BY DEF AskInv, JobInv, JobRead
<1>4. Back = "recorded" => native.ref = job.m BY <1>1, <1>3 DEF Back, Settled
<1>5. native.ref = job.m => Back \in {"recorded", "uncertain"}
 <2> SUFFICES ASSUME native.ref = job.m, job.r.kind = "ok" PROVE Back = "recorded" BY DEF Back, Settled
 <2>1. job.r.n = native BY <1>1, <1>3
 <2>2. ~native.open /\ native.act = att[job.m].act /\ native.seen = Digest(job.m) BY <1>1 DEF AskInv, BeadInv
 <2> QED BY <2>1, <2>2 DEF Back, Settled
<1>6. /\ NewStatus(Back, job.m) \in Statuses
      /\ Back = "uncertain" => NewStatus(Back, job.m) = "uncertain"
      /\ Back \in Settlements \ {"uncertain", "refused"} =>
            NewStatus(Back, job.m) \notin {"none", "deciding", "uncertain"}
      /\ Back = "recorded" => NewStatus(Back, job.m) = (IF att[job.m].act = "approve" THEN "approved" ELSE "denied")
 BY <1>2 DEF NewStatus, Statuses, Settlements
<1> QED BY <1>1, <1>2, <1>4, <1>5, <1>6

\* Nothing was launched, so nothing is on the bead.
LEMMA CheckSays ==
  ASSUME AskInv, job.pc \in {"read", "check"}
  PROVE  job.m \in Msgs /\ att[job.m].ask # 0 /\ child = "none" /\ native.ref # job.m /\ job.m \notin unknown
         /\ att[job.m].inv = 0
<1>1. job.m \in Msgs /\ att[job.m].ask # 0 /\ child = "none" BY JobFields DEF AskInv, JobInv, JobRuns
<1>2. att[job.m].inv = 0 BY DEF AskInv, JobInv, JobFirst
<1>3. job.m \notin unknown BY <1>1, <1>2 DEF AskInv, CountsInv
<1> QED BY <1>1, <1>2, <1>3 DEF AskInv, BeadInv

\* A refusal before the decision closes the attempt, which left nothing on the bead.
LEMMA CheckClosesStep == AskInv /\ (CheckRefuses \/ CheckDenied) => AskInv'
<1> SUFFICES ASSUME AskInv, CheckRefuses \/ CheckDenied PROVE AskInv' OBVIOUS
<1>1. /\ job.pc = "check" /\ job' = Free
      /\ UNCHANGED <<native, source, gate, post, child, snapshot, up, history, troubles>>
 BY DEF CheckRefuses, CheckDenied
<1>2. job.m \in Msgs /\ att[job.m].ask # 0 /\ child = "none" /\ native.ref # job.m BY <1>1, CheckSays
<1>3. PICK new \in {"open", "blocked", "cancelled"}, status \in {"done", "dropped"} :
          CloseAttempt(job.m, "deciding", "refused", new, status) BY DEF CheckRefuses, CheckDenied
<1>4. PICK m \in Msgs : m = job.m BY <1>2
<1>5. "refused" \in Settlements /\ new \in Statuses /\ new \notin {"none", "deciding", "uncertain"}
 BY DEF Settlements, Statuses
<1> QED BY <1>1, <1>2, <1>3, <1>4, <1>5, CloseStep

\* Every settlement of what was read back.
LEMMA SettleStep ==
  ASSUME AskInv, job.pc = "settle", job' = Free,
    NEW settled \in Settlements, NEW new \in Statuses, NEW expect,
    CloseAttempt(job.m, expect, settled, new, "done"),
    \/ settled = Back /\ new = NewStatus(Back, job.m)
    \/ /\ settled \in {"refused", "untouched", "blocked"} /\ new \in {"cancelled", "blocked"}
       /\ Back \in {"untouched", "blocked"},
    UNCHANGED <<native, source, gate, post, child, snapshot, up, history, troubles>>
  PROVE  AskInv'
<1>1. PICK m \in Msgs : m = job.m BY BackSays
<1>2. /\ att[m].ask # 0 /\ child = "none" /\ (Back = "recorded" => native.ref = m)
      /\ native.ref = m => Back \in {"recorded", "uncertain"} BY <1>1, BackSays
<1>3. /\ settled = "uncertain" => new = "uncertain"
      /\ settled # "uncertain" => new \notin {"none", "deciding", "uncertain"} BY BackSays DEF Settlements
<1>4. /\ settled = "recorded" => native.ref = m
      /\ native.ref = m => \/ settled = "uncertain"
                           \/ settled = "recorded" /\ new = (IF att[m].act = "approve" THEN "approved" ELSE "denied")
 BY <1>1, <1>2, BackSays
<1>5. CloseAttempt(m, expect, settled, new, "done") BY <1>1
<1> QED BY <1>2, <1>3, <1>4, <1>5, CloseStep

\* The holder of work_lock ends without a change.
LEMMA StoreKept ==
  ASSUME AskInv, UNCHANGED <<store, native, source, gate, post, child, snapshot, up, history, troubles>>,
    job' = Free, child = "none"
  PROVE  AskInv'
<1>0. AskType BY DEF AskInv
<1>1. /\ UNCHANGED <<asks, att, inbound, told, native, keyed, withdrawn, ops, latched, pending, verified, tool>>
      /\ UNCHANGED <<post, child, snapshot, up, unknown, stranded, troubles>> BY DEF store, source, gate, history
<1>2. job' \in JobType /\ JobInv' BY <1>0, <1>1, FreeKnows
<1>3. AskType' BY <1>0, <1>1, <1>2 DEF AskType
<1> QED BY <1>1, <1>2, <1>3, QuietStep DEF BeadKept

\* run_attempt, recover, retry_maintenance and retire close what they read back.
LEMMA SettlesStep ==
  AskInv /\ (AttemptSettles \/ ReconcileSettles \/ IssuingHeld \/ RetryEnds \/ RetryWithdrawn \/ RetireSettles)
      => AskInv'
<1> SUFFICES ASSUME AskInv, AttemptSettles \/ ReconcileSettles \/ IssuingHeld \/ RetryEnds \/ RetryWithdrawn
                                 \/ RetireSettles
             PROVE  AskInv'
 OBVIOUS
<1>0. /\ job.pc = "settle"
      /\ UNCHANGED <<native, source, gate, post, child, snapshot, up, history, troubles>>
 BY DEF AttemptSettles, ReconcileSettles, IssuingHeld, RetryEnds, RetryWithdrawn, RetireSettles
<1>1. /\ Back \in Settlements /\ NewStatus(Back, job.m) \in Statuses /\ child = "none"
      /\ {"refused", "untouched", "blocked"} \subseteq Settlements /\ {"cancelled", "blocked"} \subseteq Statuses
 BY <1>0, BackSays DEF Settlements, Statuses
<1>2. CASE AttemptSettles /\ Back = "untouched" /\ job.r.n.digest # Digest(job.m) BY <1>2, MovesOnStep
<1>3. CASE job' = Free /\ \E expect \in Undecided : CloseAttempt(job.m, expect, Back, NewStatus(Back, job.m), "done")
 BY <1>0, <1>1, <1>3, SettleStep
<1>4. CASE job' = Free /\ UNCHANGED store BY <1>0, <1>1, <1>4, StoreKept
<1>5. CASE /\ job' = Free /\ Back \in {"untouched", "blocked"}
           /\ \E settled \in {"refused", "untouched", "blocked"}, new \in {"cancelled", "blocked"} :
                 CloseAttempt(job.m, "deciding", settled, new, "done")
 <2>1. PICK settled \in {"refused", "untouched", "blocked"}, new \in {"cancelled", "blocked"} :
          CloseAttempt(job.m, "deciding", settled, new, "done") BY <1>5
 <2>2. settled \in Settlements /\ new \in Statuses BY <1>1
 <2> QED BY <1>0, <1>5, <2>1, <2>2, SettleStep
<1>6. CASE AttemptSettles BY <1>2, <1>3, <1>6 DEF AttemptSettles, Undecided
<1>7. CASE ReconcileSettles BY <1>3, <1>7 DEF ReconcileSettles, Undecided
<1>8. CASE IssuingHeld BY <1>4, <1>8 DEF IssuingHeld, IssuingStays
<1>9. CASE RetryEnds BY <1>3, <1>5, <1>9 DEF RetryEnds, Undecided
<1>10. CASE RetryWithdrawn BY <1>5, <1>10 DEF RetryWithdrawn, Untried
<1>11. CASE RetireSettles
 <2>1. Back \in {"recorded", "untouched", "blocked", "uncertain"} BY DEF Back, Settled
 <2> QED BY <1>3, <1>4, <1>5, <1>11, <2>1 DEF RetireSettles, Undecided
<1> QED BY <1>6, <1>7, <1>8, <1>9, <1>10, <1>11

------------------------------
\* The spawn failed: the one run is counted, and the attempt closed with nothing on the bead.
LEMMA CheckNotSpawnedStep == AskInv /\ CheckNotSpawned => AskInv'
<1> SUFFICES ASSUME AskInv, CheckNotSpawned PROVE AskInv' OBVIOUS
<1>0. AskType BY DEF AskInv
<1>1. job.m \in Msgs /\ att[job.m].ask # 0 /\ child = "none" /\ native.ref # job.m /\ job.m \notin unknown
      /\ att[job.m].inv = 0 BY CheckSays DEF CheckNotSpawned
<1>2. PICK m \in Msgs : m = job.m BY <1>1
<1> DEFINE i == att[m].ask
           c == Closed(m, "refused", "open")
           t == ClosedAttempt(m, "refused")
           u == [t EXCEPT !.inv = t.inv + 1]
<1>3. /\ asks' = [asks EXCEPT ![i] = c] /\ att' = [att EXCEPT ![m] = u]
      /\ inbound' = [inbound EXCEPT ![m] = "done"] /\ told' = [told EXCEPT ![m] = told[m] \cup {"nothing"}]
      /\ job' = Free /\ Trouble("spawn") BY <1>2 DEF CheckNotSpawned, Answer, Invoked
<1>4. /\ UNCHANGED <<native, keyed, withdrawn, ops, latched, pending, verified, tool, post, child, snapshot, up>>
      /\ UNCHANGED <<unknown, stranded>> BY DEF CheckNotSpawned, source, gate, history
<1>5. i \in Asks /\ AskOf(m).attempt = m /\ AskOf(m) = asks[i] /\ m # 0
 BY <1>0, <1>1, <1>2, AttFields DEF IsCurrent, AskOf, CheckNotSpawned
<1>6. "refused" \in Settlements /\ "open" \in Statuses BY DEF Settlements, Statuses
<1>7. c \in Ask /\ Moves(asks[i], c) /\ c.attempt = 0 /\ c.status # "none"
 BY <1>0, <1>1, <1>2, <1>5, <1>6, ClosedFields
<1>8. t \in Attempt /\ t.ask = i /\ t.act = att[m].act /\ t.inv = 0 /\ (t.proof = att[m].proof \/ t.proof = 0)
 BY <1>0, <1>1, <1>2, <1>5, <1>6, ClosedFields
<1> HIDE DEF c, t, i
<1>9. u \in Attempt /\ u.ask = i /\ u.act = att[m].act /\ u.inv = 1 /\ u.proof = t.proof
 <2>1. t.inv + 1 \in 0..MaxInvocations BY <1>8, BoundsAssumption DEF MaxInvocations
 <2> QED BY <1>8, <2>1 DEF Attempt
<1> HIDE DEF u
<1>10. troubles' = troubles + 1 /\ troubles' \in 0..MaxTroubles /\ troubles \in Nat
 BY <1>0, <1>3, TroubleCounts, BoundsAssumption DEF AskType
<1>11. job' \in JobType /\ JobInv' BY <1>0, <1>1, <1>3, <1>4, FreeKnows
<1>12. /\ asks' \in [Asks -> Ask] /\ asks'[i] = c /\ \A j \in Asks \ {i} : asks'[j] = asks[j]
 BY <1>0, <1>3, <1>5, <1>7 DEF AskType
<1>13. /\ att' \in [Msgs -> Attempt] /\ att'[m] = u /\ \A k \in Msgs \ {m} : att'[k] = att[k]
 BY <1>0, <1>3, <1>9 DEF AskType
<1>14. /\ inbound' \in [Msgs -> {"new", "executing", "done", "dropped"}] /\ told' \in [Msgs -> SUBSET Said]
       /\ inbound'[m] = "done" /\ told'[m] = told[m] \cup {"nothing"}
       /\ \A k \in Msgs \ {m} : inbound'[k] = inbound[k] /\ told'[k] = told[k] BY <1>0, <1>3 DEF AskType, Said
<1>15. AskType' BY <1>0, <1>4, <1>10, <1>11, <1>12, <1>13, <1>14 DEF AskType
<1>16. Filled' /\ Single' BY <1>0, <1>5, <1>7, <1>12, CloseKeepsOne
<1>17. \A j \in Asks : Moves(asks[j], asks'[j]) BY <1>7, <1>12 DEF Moves, Stays
<1>18. \A k \in Msgs : att'[k].ask = att[k].ask /\ att'[k].act = att[k].act /\ att'[k].inv >= att[k].inv
 BY <1>0, <1>1, <1>2, <1>9, <1>13, AttFields DEF i
<1>19. \A k \in Msgs : Answered(k)
 <2>1. ~Current(m)' BY <1>5, <1>7, <1>9, <1>12, <1>13 DEF Current, AskOf
 <2>2. Answered(m) BY <1>1, <1>2, <1>14, <2>1 DEF Answered, Said
 <2> QED BY <1>14, <2>2 DEF Answered
<1>20. \A k \in Msgs : native.ref = k /\ Current(k) => Current(k)'
 <2> SUFFICES ASSUME NEW k \in Msgs, native.ref = k, Current(k) PROVE Current(k)' OBVIOUS
 <2>1. k # m /\ att[k].ask \in Asks /\ att[k].ask # i BY <1>0, <1>1, <1>2, <1>5, AttFields DEF Current, AskOf
 <2> QED BY <1>12, <1>13, <2>1 DEF Current, AskOf
<1>21. CardsInv' /\ BeadInv' /\ ToldInv' /\ SnapInv' BY <1>4, <1>15, <1>16, <1>17, <1>18, <1>19, <1>20, CardsMove
<1>22. CountsInv'
 <2> SUFFICES ASSUME NEW k \in Msgs
              PROVE  /\ att'[k].ask = 0 => att'[k].inv = 0
                     /\ k \in unknown' => att'[k].inv > 0
                     /\ att'[k].inv <= troubles' + 1 /\ (k \notin unknown' => att'[k].inv <= troubles')
                     /\ att'[k].proof <= att'[k].inv
                     /\ att'[k].proof > 0 /\ att'[k].proof = att'[k].inv => k \notin unknown' BY DEF CountsInv
 <2>1. att[k].inv \in Nat /\ att[k].proof \in Nat BY <1>0, AttFields
 <2>2. CASE k = m
  <3>1. att[m].proof <= 0 BY <1>1, <1>2 DEF AskInv, CountsInv
  <3>2. t.proof = 0 BY <1>8, <2>1, <2>2, <3>1
  <3> QED BY <1>1, <1>2, <1>4, <1>5, <1>9, <1>10, <1>13, <2>2, <3>2 DEF Asks
 <2>3. CASE k # m BY <1>4, <1>10, <1>13, <2>1, <2>3 DEF AskInv, CountsInv
 <2> QED BY <2>2, <2>3
<1> QED BY <1>11, <1>15, <1>21, <1>22 DEF AskInv

------------------------------
\* commit_approval: when nobody is deciding, the new card is the only one that can be decided.
LEMMA CommitKeepsOne ==
  ASSUME AskInv, NEW old \in [Asks -> Ask], NEW d \in Digests, asks' = Commit(old, d),
    \A j \in Asks : /\ Moves(asks[j], old[j]) /\ old[j].status \notin Undecided
                    /\ old[j].status = "none" <=> asks[j].status = "none"
                    /\ old[j].status = "open" => old[j] = asks[j]
  PROVE  /\ asks' \in [Asks -> Ask] /\ Filled' /\ Single'
         /\ \A j \in Asks : Moves(asks[j], asks'[j])
         /\ \A j \in Asks : asks'[j] = old[j] \/ asks[j].status \in {"none", "open"}
<1>1. PICK k \in 0..MaxAsks : \A i \in Asks : asks[i].status # "none" <=> i <= k BY DEF AskInv, CardsInv, Filled
<1>2. Posted = k BY <1>1, PostedIs
<1> DEFINE new == [status |-> "open", digest |-> d, outcome |-> "text", attempt |-> 0,
                   sent |-> "none", hold |-> "none"]
           over(j) == [old[j] EXCEPT !.status = "superseded"]
<1>3. new \in Ask /\ new.status = "open" /\ new.attempt = 0 /\ new.hold = "none"
 BY BoundsAssumption DEF Ask, Statuses, Outcomes
<1>4. \A j \in Asks : /\ over(j) \in Ask /\ over(j).status = "superseded" /\ over(j).digest = old[j].digest
                      /\ over(j).attempt = old[j].attempt /\ over(j).sent = old[j].sent /\ over(j).hold = old[j].hold
 BY DEF Ask, Statuses
<1>5. asks' = [j \in Asks |-> IF j = k + 1 THEN new ELSE IF old[j].status = "open" THEN over(j) ELSE old[j]]
 BY <1>2 DEF Commit
<1> HIDE DEF new, over
<1>6. asks' \in [Asks -> Ask] BY <1>3, <1>4, <1>5
<1>7. \A j \in Asks : \/ j = k + 1 /\ asks'[j] = new
                      \/ j # k + 1 /\ old[j].status = "open" /\ asks'[j] = over(j)
                      \/ j # k + 1 /\ old[j].status # "open" /\ asks'[j] = old[j] BY <1>5
<1>8. \A j \in Asks : j = k + 1 => asks[j].status = "none" BY <1>1, BoundsAssumption DEF Asks
<1>9. \A j \in Asks : Moves(asks[j], asks'[j])
 <2> SUFFICES ASSUME NEW j \in Asks PROVE Moves(asks[j], asks'[j]) OBVIOUS
 <2>1. CASE j = k + 1 /\ asks'[j] = new BY <1>3, <1>8, <2>1 DEF Moves
 <2>2. CASE old[j].status = "open" /\ asks'[j] = over(j) BY <1>4, <2>2 DEF Moves
 <2>3. CASE asks'[j] = old[j] BY <2>3
 <2> QED BY <1>7, <2>1, <2>2, <2>3
<1>10. Filled'
 <2>1. \A j \in Asks : asks'[j].status # "none" <=> (asks[j].status # "none" \/ j = k + 1) BY <1>3, <1>4, <1>7
 <2>2. \A j \in Asks : asks'[j].status # "none" <=> j <= k + 1 BY <1>1, <2>1, BoundsAssumption DEF Asks
 <2>3. CASE k + 1 <= MaxAsks
  <3>1. k + 1 \in 0..MaxAsks BY <2>3, BoundsAssumption
  <3> QED BY <2>2, <3>1 DEF Filled
 <2>4. CASE ~(k + 1 <= MaxAsks)
  <3>1. \A j \in Asks : asks'[j].status # "none" <=> j <= k BY <1>1, <2>1, <2>4, BoundsAssumption DEF Asks
  <3> QED BY <3>1 DEF Filled
 <2> QED BY <2>3, <2>4
<1>11. Single'
 <2>1. \A j \in Asks : asks'[j].status \in {"open"} \cup Undecided => j = k + 1 BY <1>4, <1>7 DEF Undecided
 <2> QED BY <2>1 DEF Single
<1>12. \A j \in Asks : asks'[j] = old[j] \/ asks[j].status \in {"none", "open"} BY <1>7, <1>8
<1> QED BY <1>6, <1>9, <1>10, <1>11, <1>12

\* Cards come and go while no attempt is touched: post, withdraw and cancel_ask.
LEMMA OpenCardsStep ==
  ASSUME AskInv, asks' \in [Asks -> Ask], Filled', Single',
    \A j \in Asks : Moves(asks[j], asks'[j]) /\ (asks[j].attempt # 0 => asks'[j] = asks[j]),
    UNCHANGED <<att, inbound, told, native, gate, job, child, snapshot, up, history>>,
    keyed' \in BOOLEAN, withdrawn' \in BOOLEAN, post' \in PostType,
    troubles' \in 0..MaxTroubles, troubles' = troubles \/ troubles' = troubles + 1
  PROVE  AskInv'
<1>0. AskType BY DEF AskInv
<1>1. UNCHANGED <<ops, latched, pending, verified, tool, unknown, stranded>> BY DEF gate, history
<1>2. AskType' BY <1>0, <1>1 DEF AskType
<1>3. \A m \in Msgs : att'[m].inv >= att[m].inv BY <1>0, AttFields
<1>4. troubles' >= troubles BY <1>0, BoundsAssumption DEF AskType
<1>5. \A m \in Msgs : Answered(m) /\ (Current(m) => Current(m)')
 <2>1. \A m \in Msgs : Current(m) => att[m].ask \in Asks /\ AskOf(m)' = AskOf(m) BY <1>0, AttFields DEF Current, AskOf
 <2> QED BY <2>1 DEF Current, Answered
<1>6. CardsInv' /\ BeadInv' /\ ToldInv' /\ SnapInv' BY <1>1, <1>2, <1>3, <1>5, CardsMove
<1>7. CountsInv' BY <1>1, <1>2, <1>4, CountsStay
<1>8. JobInv' BY <1>1, <1>2, JobStays DEF Stays, BeadKept
<1> QED BY <1>2, <1>6, <1>7, <1>8 DEF AskInv

\* An open card is cancelled.
LEMMA GoneFields ==
  ASSUME NEW a \in Ask, a.status = "open", NEW b, b = [a EXCEPT !.status = "cancelled"]
  PROVE  b \in Ask /\ b.status = "cancelled" /\ Moves(a, b)
<1>1. b \in Ask /\ b.status = "cancelled" /\ b.digest = a.digest /\ b.attempt = a.attempt /\ b.sent = a.sent /\ b.hold = a.hold
 BY DEF Ask, Statuses
<1> QED BY <1>1 DEF Moves

\* Open cards that are cancelled leave the others as they are.
LEMMA GoneStep ==
  ASSUME AskInv, asks' \in [Asks -> Ask],
    \A j \in Asks : \/ asks'[j] = asks[j]
                    \/ asks[j].status = "open" /\ asks'[j].status = "cancelled" /\ Moves(asks[j], asks'[j])
  PROVE  /\ Filled' /\ Single'
         /\ \A j \in Asks : Moves(asks[j], asks'[j]) /\ (asks[j].attempt # 0 => asks'[j] = asks[j])
<1>1. Single' BY DEF AskInv, CardsInv, Single, Undecided
<1>2. \A j \in Asks : asks'[j].status # "none" <=> asks[j].status # "none" OBVIOUS
<1>3. Filled' BY <1>2 DEF AskInv, CardsInv, Filled
<1>4. \A j \in Asks : asks[j].attempt # 0 => asks[j].status # "open" BY DEF AskInv, CardsInv, Linked, Undecided
<1>5. \A j \in Asks : Moves(asks[j], asks'[j]) BY DEF Moves, Stays
<1> QED BY <1>1, <1>3, <1>4, <1>5

\* cancel_ask takes back an open card only, so no attempt loses its card.
LEMMA CancelStep == ASSUME AskInv, NEW i \in Asks, Cancel(i) PROVE AskInv'
<1>0. AskType BY DEF AskInv
<1> DEFINE b == [asks[i] EXCEPT !.status = "cancelled"]
<1>1. /\ asks[i].status = "open" /\ asks' = [asks EXCEPT ![i] = b] /\ Trouble("cancel")
      /\ UNCHANGED <<att, inbound, told, native, source, gate, job, post, child, snapshot, up, history>>
 BY DEF Cancel
<1>2. asks \in [Asks -> Ask] /\ asks[i] \in Ask BY <1>0 DEF AskType
<1>3. b \in Ask /\ b.status = "cancelled" /\ Moves(asks[i], b) BY <1>1, <1>2, GoneFields
<1> HIDE DEF b
<1>4. asks' \in [Asks -> Ask] /\ asks'[i] = b /\ \A j \in Asks \ {i} : asks'[j] = asks[j] BY <1>1, <1>2, <1>3
<1>5. /\ Filled' /\ Single'
      /\ \A j \in Asks : Moves(asks[j], asks'[j]) /\ (asks[j].attempt # 0 => asks'[j] = asks[j])
 BY <1>1, <1>3, <1>4, GoneStep
<1>6. /\ keyed' \in BOOLEAN /\ withdrawn' \in BOOLEAN /\ post' \in PostType
      /\ troubles' \in 0..MaxTroubles /\ troubles' = troubles + 1 BY <1>0, <1>1, TroubleCounts DEF source, AskType
<1> QED BY <1>1, <1>4, <1>5, <1>6, OpenCardsStep

\* The source's withdrawal cancels the open cards, and leaves the ones being decided.
LEMMA WithdrawStep == AskInv /\ Withdraw => AskInv'
<1> SUFFICES ASSUME AskInv, Withdraw PROVE AskInv' OBVIOUS
<1>0. AskType BY DEF AskInv
<1> DEFINE b(i) == [asks[i] EXCEPT !.status = "cancelled"]
<1>1. /\ asks' = [i \in Asks |-> IF asks[i].status = "open" THEN b(i) ELSE asks[i]] /\ Trouble("withdraw")
      /\ UNCHANGED <<att, inbound, told, native, gate, job, post, child, snapshot, up, history>>
      /\ keyed' = TRUE /\ withdrawn' = TRUE BY DEF Withdraw
<1>2. asks \in [Asks -> Ask] BY <1>0 DEF AskType
<1>3. \A i \in Asks : asks[i].status = "open" => b(i) \in Ask /\ b(i).status = "cancelled" /\ Moves(asks[i], b(i))
 BY <1>2, GoneFields
<1> HIDE DEF b
<1>4. /\ asks' \in [Asks -> Ask]
      /\ \A j \in Asks : \/ asks'[j] = asks[j]
                         \/ asks[j].status = "open" /\ asks'[j].status = "cancelled" /\ Moves(asks[j], asks'[j])
 BY <1>1, <1>2, <1>3
<1>5. /\ Filled' /\ Single'
      /\ \A j \in Asks : Moves(asks[j], asks'[j]) /\ (asks[j].attempt # 0 => asks'[j] = asks[j]) BY <1>4, GoneStep
<1>6. /\ keyed' \in BOOLEAN /\ withdrawn' \in BOOLEAN /\ post' \in PostType
      /\ troubles' \in 0..MaxTroubles /\ troubles' = troubles + 1 BY <1>0, <1>1, TroubleCounts DEF AskType
<1> QED BY <1>1, <1>4, <1>5, <1>6, OpenCardsStep

\* The card is committed only if, after the read, nobody decides: commit_approval.
LEMMA PostCommitsStep == AskInv /\ PostCommits => AskInv'
<1> SUFFICES ASSUME AskInv, PostCommits PROVE AskInv' OBVIOUS
<1>0. AskType BY DEF AskInv
<1>1. /\ UNCHANGED <<att, inbound, told, native, withdrawn, gate, job, child, snapshot, up, history, troubles>>
      /\ post' = Idle /\ keyed' \in {TRUE, keyed, keyed \/ post.keyed}
      /\ \/ asks' = asks
         \/ asks' = Commit(asks, post.r.n.digest) /\ ~PostRefused({}) BY DEF PostCommits
<1>2. keyed' \in BOOLEAN /\ withdrawn' \in BOOLEAN /\ post.r.n.digest \in Digests
 BY <1>0, <1>1 DEF AskType, PostType, Read, Native
<1>3. post' \in PostType BY <1>1, BeadFields DEF Idle, PostType
<1>4. CASE asks' = asks
 <2>1. /\ Filled' /\ Single' /\ asks' \in [Asks -> Ask]
       /\ \A j \in Asks : Moves(asks[j], asks'[j]) /\ (asks[j].attempt # 0 => asks'[j] = asks[j])
  BY <1>0, <1>4, GoneStep DEF AskType
 <2>2. troubles' \in 0..MaxTroubles BY <1>0, <1>1 DEF AskType
 <2> QED BY <1>1, <1>2, <1>3, <2>1, <2>2, OpenCardsStep
<1>5. CASE asks' = Commit(asks, post.r.n.digest) /\ ~PostRefused({})
 <2>1. \A j \in Asks : asks[j].status \notin Undecided BY <1>5 DEF PostRefused, Live, Undecided
 <2>2. PICK d \in Digests : d = post.r.n.digest BY <1>2
 <2>3. PICK old \in [Asks -> Ask] : old = asks BY <1>0 DEF AskType
 <2>4. asks' = Commit(old, d) BY <1>5, <2>2, <2>3
 <2>5. \A j \in Asks : Moves(asks[j], old[j]) BY <2>3 DEF Moves, Stays
 <2>6. /\ asks' \in [Asks -> Ask] /\ Filled' /\ Single'
       /\ \A j \in Asks : Moves(asks[j], asks'[j]) BY <2>1, <2>3, <2>4, <2>5, CommitKeepsOne
 <2>7. \A j \in Asks : asks[j].attempt = 0 BY <2>1 DEF AskInv, CardsInv, Linked
 <2>8. troubles' \in 0..MaxTroubles BY <1>0, <1>1 DEF AskType
 <2> QED BY <1>1, <1>2, <1>3, <2>6, <2>7, <2>8, OpenCardsStep
<1> QED BY <1>1, <1>4, <1>5

\* Admind.refresh: the stale card is closed, nothing is on the bead, and its replacement is
\* stored unless somebody decides another card.
LEMMA RefreshStep == AskInv /\ RefreshSettles => AskInv'
<1> SUFFICES ASSUME AskInv, RefreshSettles PROVE AskInv' OBVIOUS
<1>0. AskType BY DEF AskInv
<1>1. job.m \in Msgs /\ att[job.m].ask # 0 /\ child = "none" /\ job.pc = "refresh"
 BY <1>0, JobFields DEF RefreshSettles, AskInv, JobInv, JobRuns
<1>2. job.how \in {"refused", "untouched"} /\ native.ref # job.m
 <2>1. CASE job.how = "refused" /\ att[job.m].inv = 0 BY <1>1, <2>1 DEF AskInv, BeadInv, CountsInv
 <2>2. CASE job.how = "untouched" /\ job.r.kind = "ok" /\ job.r.n.ref = 0
  <3>1. native.ref \in Msgs => job.r.n = native BY <1>1, <2>2 DEF AskInv, JobInv, JobRead
  <3> QED BY <1>1, <2>2, <3>1, HostIsNobody
 <2> QED BY <1>1, <2>1, <2>2 DEF AskInv, JobInv, JobRead
<1>3. PICK m \in Msgs, h \in {"refused", "untouched"}, n \in {"cancelled", "stale"} :
          m = job.m /\ h = job.how /\ n = (IF withdrawn THEN "cancelled" ELSE "stale") BY <1>1, <1>2
<1> DEFINE i == att[m].ask
           c == Closed(m, h, n)
           t == ClosedAttempt(m, h)
           old == [asks EXCEPT ![i] = c]
<1>4. /\ asks' = old \/ (asks' = Commit(old, job.r.n.digest) /\ ~PostRefused({i}))
      /\ att' = [att EXCEPT ![m] = t]
      /\ inbound' = [inbound EXCEPT ![m] = "done"] /\ told' = [told EXCEPT ![m] = told[m] \cup {"nothing"}]
      /\ job' = Free BY <1>3 DEF RefreshSettles, Answer
<1>5. /\ UNCHANGED <<native, keyed, withdrawn, ops, latched, pending, verified, tool, post, child, snapshot, up>>
      /\ UNCHANGED <<unknown, stranded, troubles>> BY DEF RefreshSettles, source, gate, history
<1>6. i \in Asks /\ AskOf(m).attempt = m /\ AskOf(m) = asks[i] /\ m # 0 /\ att[m].ask # 0
 BY <1>0, <1>1, <1>3, AttFields DEF IsCurrent, AskOf, RefreshSettles
<1>7. h \in Settlements /\ n \in Statuses BY DEF Settlements, Statuses
<1>8. c \in Ask /\ Moves(asks[i], c) /\ c.attempt = 0 /\ c.status \in {"cancelled", "stale"}
 BY <1>0, <1>6, <1>7, ClosedFields
<1>9. t \in Attempt /\ t.ask = i /\ t.act = att[m].act /\ t.inv = att[m].inv /\ (t.proof = att[m].proof \/ t.proof = 0)
 BY <1>0, <1>6, <1>7, ClosedFields
<1> HIDE DEF c, t, i
<1>10. /\ old \in [Asks -> Ask] /\ old[i] = c /\ \A j \in Asks \ {i} : old[j] = asks[j]
 BY <1>0, <1>6, <1>8 DEF AskType
<1> HIDE DEF old
<1>11. asks[i].status \in Undecided BY <1>6 DEF AskInv, CardsInv, Linked
<1>12. \A j \in Asks : /\ Moves(asks[j], old[j]) /\ (old[j].status = "none" <=> asks[j].status = "none")
                       /\ old[j].status = "open" => old[j] = asks[j]
 BY <1>8, <1>10, <1>11 DEF Moves, Stays, Undecided
<1>13. /\ asks' \in [Asks -> Ask] /\ Filled' /\ Single' /\ asks'[i].attempt = 0
       /\ \A j \in Asks : Moves(asks[j], asks'[j])
       /\ \A j \in Asks \ {i} : asks[j].attempt # 0 => asks'[j] = asks[j]
 <2>1. CASE asks' = old
  <3>1. Filled' /\ Single' BY <1>6, <1>8, <1>10, <2>1, CloseKeepsOne
  <3> QED BY <1>8, <1>10, <1>12, <2>1, <3>1
 <2>2. CASE asks' = Commit(old, job.r.n.digest) /\ ~PostRefused({i})
  <3>1. \A j \in Asks : old[j].status \notin Undecided BY <1>8, <1>10, <2>2 DEF PostRefused, Live, Undecided
  <3>2. PICK d \in Digests : d = job.r.n.digest BY <1>0, JobFields DEF Native
  <3>3. PICK o \in [Asks -> Ask] : o = old BY <1>10
  <3>4. asks' = Commit(o, d) BY <2>2, <3>2, <3>3
  <3>5. /\ asks' \in [Asks -> Ask] /\ Filled' /\ Single' /\ \A j \in Asks : Moves(asks[j], asks'[j])
        /\ \A j \in Asks : asks'[j] = old[j] \/ asks[j].status \in {"none", "open"}
   BY <1>12, <3>1, <3>3, <3>4, CommitKeepsOne
  <3>6. \A j \in Asks : asks[j].attempt # 0 => asks[j].status \notin {"none", "open"}
   BY DEF AskInv, CardsInv, Linked, Undecided
  <3> QED BY <1>6, <1>8, <1>10, <3>5, <3>6
 <2> QED BY <1>4, <2>1, <2>2
<1>14. job' \in JobType /\ JobInv' BY <1>0, <1>1, <1>4, <1>5, FreeKnows
<1>15. /\ att' \in [Msgs -> Attempt] /\ att'[m] = t /\ \A k \in Msgs \ {m} : att'[k] = att[k]
 BY <1>0, <1>4, <1>9 DEF AskType
<1>16. /\ inbound' \in [Msgs -> {"new", "executing", "done", "dropped"}] /\ told' \in [Msgs -> SUBSET Said]
       /\ inbound'[m] = "done" /\ told'[m] = told[m] \cup {"nothing"}
       /\ \A k \in Msgs \ {m} : inbound'[k] = inbound[k] /\ told'[k] = told[k] BY <1>0, <1>4 DEF AskType, Said
<1>17. AskType' BY <1>0, <1>5, <1>13, <1>14, <1>15, <1>16 DEF AskType
<1>18. \A k \in Msgs : att'[k].ask = att[k].ask /\ att'[k].act = att[k].act /\ att'[k].inv = att[k].inv
                       /\ (att'[k].proof = att[k].proof \/ att'[k].proof = 0) BY <1>9, <1>15 DEF i
<1>19. \A k \in Msgs : att'[k].inv >= att[k].inv BY <1>0, <1>18, AttFields
<1>20. \A k \in Msgs : Answered(k)
 <2>1. ~Current(m)' BY <1>6, <1>9, <1>13, <1>15 DEF Current, AskOf
 <2>2. Answered(m) BY <1>2, <1>3, <1>16, <2>1 DEF Answered, Said
 <2> QED BY <1>16, <2>2 DEF Answered
<1>21. \A k \in Msgs : native.ref = k /\ Current(k) => Current(k)'
 <2> SUFFICES ASSUME NEW k \in Msgs, native.ref = k, Current(k) PROVE Current(k)' OBVIOUS
 <2>1. k # m /\ k # 0 /\ att[k].ask \in Asks /\ att[k].ask # i BY <1>0, <1>2, <1>3, <1>6, AttFields DEF Current, AskOf
 <2>2. asks[att[k].ask].attempt = k BY DEF Current, AskOf
 <2> QED BY <1>13, <1>15, <2>1, <2>2 DEF Current, AskOf
<1>22. CardsInv' /\ BeadInv' /\ ToldInv' /\ SnapInv' BY <1>5, <1>13, <1>17, <1>18, <1>19, <1>20, <1>21, CardsMove
<1>23. troubles' >= troubles BY <1>0, <1>5, BoundsAssumption DEF AskType
<1>24. CountsInv' BY <1>5, <1>17, <1>18, <1>23, CountsStay
<1> QED BY <1>14, <1>17, <1>22, <1>24 DEF AskInv

------------------------------
\* A step that moves no card from its status and counts no run: a delivery, a timer, the
\* latch that suspends what is held.
LEMMA SoftStep ==
  ASSUME AskInv, AskType',
    \A i \in Asks : Stays(asks[i], asks'[i]) /\ (asks[i].hold # "none" <=> asks'[i].hold # "none"),
    \A m \in Msgs : /\ att'[m].ask = att[m].ask /\ att'[m].act = att[m].act /\ att'[m].inv = att[m].inv
                    /\ att'[m].proof = att[m].proof,
    UNCHANGED <<inbound, told, native, unknown, snapshot, job, child, up, troubles>>
  PROVE  AskInv'
<1>1. troubles' >= troubles BY BoundsAssumption DEF AskInv, AskType
<1>2. CountsInv' BY <1>1, CountsStay
<1>3. Filled' /\ Single' /\ Linked' /\ OfCards' /\ BeadInv' /\ ToldInv' /\ SnapInv' BY StoreStays DEF BeadKept
<1>4. \A i \in Asks : asks[i].hold # "none" => asks[i].attempt \in Msgs
 BY AskFields DEF AskInv, CardsInv, HeldOnes, Linked, Undecided
<1>5. HeldOnes' BY <1>4 DEF AskInv, CardsInv, HeldOnes, Stays
<1>6. JobInv' BY JobStays DEF BeadKept
<1> QED BY <1>2, <1>3, <1>5, <1>6 DEF AskInv, CardsInv

\* What a delivery, a timer, a latch and a hold change of a card.
Alike(a, b) == b \in Ask /\ b.status = a.status /\ b.digest = a.digest /\ b.attempt = a.attempt
\* A delivery.
LEMMA SentFields ==
  ASSUME NEW a \in Ask, NEW s \in {"part", "all"}, NEW b, b = [a EXCEPT !.sent = s]
  PROVE  Alike(a, b) /\ b.sent = s /\ b.hold = a.hold
BY DEF Ask, Alike

\* A retry's timer.
LEMMA HoldFields ==
  ASSUME NEW a \in Ask, NEW h \in {"wait", "due"}, NEW b, b = [a EXCEPT !.hold = h]
  PROVE  Alike(a, b) /\ b.sent = a.sent /\ b.hold = h
BY DEF Ask, Alike

\* An outcome alone.
LEMMA OutcomeFields ==
  ASSUME NEW a \in Ask, NEW o \in Outcomes, NEW b, b = [a EXCEPT !.outcome = o]
  PROVE  Alike(a, b) /\ b.sent = a.sent /\ b.hold = a.hold
BY DEF Ask, Alike

\* A delivery and a timer move no card.
LEMMA DeliverStep == ASSUME AskInv, NEW i \in Asks, Deliver(i) \/ Tick(i) PROVE AskInv'
<1>0. AskType /\ asks[i] \in Ask /\ asks \in [Asks -> Ask] BY DEF AskInv, AskType
<1>1. /\ UNCHANGED <<att, inbound, told, native, keyed, withdrawn, ops, latched, pending, verified, tool>>
      /\ UNCHANGED <<post, child, snapshot, up, unknown, stranded, troubles, job>>
 BY DEF Deliver, Tick, source, gate, history
<1>2. PICK b : asks' = [asks EXCEPT ![i] = b] /\ b \in Ask /\ Stays(asks[i], b) /\ (asks[i].hold # "none" <=> b.hold # "none")
 <2>1. CASE Deliver(i)
  <3>1. PICK s \in {"part", "all"} : asks' = [asks EXCEPT ![i] = [asks[i] EXCEPT !.sent = s]] /\ asks[i].sent # "all"
   BY <2>1 DEF Deliver
  <3>2. PICK b : b = [asks[i] EXCEPT !.sent = s] OBVIOUS
  <3>3. Alike(asks[i], b) /\ b.sent = s /\ b.hold = asks[i].hold BY <1>0, <3>2, SentFields
  <3> QED BY <3>1, <3>2, <3>3 DEF Stays, Alike
 <2>2. CASE Tick(i)
  <3>1. asks' = [asks EXCEPT ![i] = [asks[i] EXCEPT !.hold = "due"]] /\ asks[i].hold = "wait" BY <2>2 DEF Tick
  <3>2. PICK b : b = [asks[i] EXCEPT !.hold = "due"] OBVIOUS
  <3>3. Alike(asks[i], b) /\ b.sent = asks[i].sent /\ b.hold = "due" BY <1>0, <3>2, HoldFields
  <3> QED BY <3>1, <3>2, <3>3 DEF Stays, Alike
 <2> QED BY <2>1, <2>2
<1>3. /\ asks' \in [Asks -> Ask]
      /\ \A j \in Asks : Stays(asks[j], asks'[j]) /\ (asks[j].hold # "none" <=> asks'[j].hold # "none")
 BY <1>0, <1>2 DEF Stays
<1>4. AskType' BY <1>0, <1>1, <1>3 DEF AskType
<1> QED BY <1>1, <1>3, <1>4, SoftStep

\* The delivery of a recovery notice moves no attempt.
LEMMA NoticeStep == ASSUME AskInv, NEW m \in Msgs, DeliverNotice(m) PROVE AskInv'
<1>0. AskType /\ att[m] \in Attempt /\ att \in [Msgs -> Attempt] BY DEF AskInv, AskType
<1>1. /\ UNCHANGED <<asks, inbound, told, native, keyed, withdrawn, ops, latched, pending, verified, tool>>
      /\ UNCHANGED <<post, child, snapshot, up, unknown, stranded, troubles, job>>
 BY DEF DeliverNotice, source, gate, history
<1> DEFINE t == [att[m] EXCEPT !.shown = att[m].notice]
<1>2. att' = [att EXCEPT ![m] = t] BY DEF DeliverNotice
<1>3. t \in Attempt /\ t.ask = att[m].ask /\ t.act = att[m].act /\ t.inv = att[m].inv /\ t.proof = att[m].proof
 BY <1>0 DEF Attempt
<1> HIDE DEF t
<1>4. /\ att' \in [Msgs -> Attempt]
      /\ \A k \in Msgs : /\ att'[k].ask = att[k].ask /\ att'[k].act = att[k].act /\ att'[k].inv = att[k].inv
                         /\ att'[k].proof = att[k].proof BY <1>0, <1>2, <1>3
<1>5. AskType' BY <1>0, <1>1, <1>4 DEF AskType
<1> QED BY <1>1, <1>4, <1>5, SoftStep DEF Stays

\* The latch suspends every held attempt, and moves none.
LEMMA FencedFields ==
  ASSUME AskType, asks' = Fenced \/ asks' = asks
  PROVE  /\ asks' \in [Asks -> Ask]
         /\ \A i \in Asks : Stays(asks[i], asks'[i]) /\ asks'[i].hold = asks[i].hold
<1> DEFINE b(i) == [asks[i] EXCEPT !.outcome = "held"]
<1>1. \A i \in Asks : Alike(asks[i], b(i)) /\ b(i).sent = asks[i].sent /\ b(i).hold = asks[i].hold
 BY OutcomeFields DEF AskType, Outcomes
<1>2. CASE asks' = [i \in Asks |-> IF asks[i].hold # "none" THEN b(i) ELSE asks[i]]
 <2> HIDE DEF b
 <2> QED BY <1>1, <1>2 DEF AskType, Stays, Alike
<1>3. CASE asks' = asks BY <1>3 DEF AskType, Stays
<1> QED BY <1>2, <1>3 DEF Fenced

\* Clearing the latch suspends what is held, and moves no card.
LEMMA RearmStep == AskInv /\ Rearm => AskInv'
<1> SUFFICES ASSUME AskInv, Rearm PROVE AskInv' OBVIOUS
<1>0. AskType BY DEF AskInv
<1>1. /\ UNCHANGED <<att, inbound, told, native, keyed, withdrawn, ops, verified, tool>>
      /\ UNCHANGED <<post, child, snapshot, up, unknown, stranded, troubles, job>>
      /\ latched' = FALSE /\ pending' = FALSE BY DEF Rearm, source, history
<1>2. /\ asks' \in [Asks -> Ask]
      /\ \A i \in Asks : Stays(asks[i], asks'[i]) /\ asks'[i].hold = asks[i].hold BY <1>0, FencedFields DEF Rearm
<1>3. AskType' BY <1>0, <1>1, <1>2 DEF AskType
<1> QED BY <1>1, <1>2, <1>3, SoftStep

------------------------------
\* publish_notice changes the selector, and nothing of what the attempt is.
LEMMA PublishFields ==
  ASSUME NEW a, NEW t \in Attempt, NEW refresh, NEW u, u = Publish(a, t, refresh)
  PROVE  /\ u \in Attempt /\ u.ask = t.ask /\ u.act = t.act /\ u.inv = t.inv /\ u.proof = t.proof
<1>1. CASE u = t BY <1>1
<1>2. CASE u = [t EXCEPT !.notice = t.proof] BY <1>2 DEF Attempt
<1> QED BY <1>1, <1>2 DEF Publish

\* hold_maintenance: a current attempt whose last run is known not to have been issued is
\* kept, its card with its status.
LEMMA HoldStep ==
  ASSUME AskInv, NEW m \in Msgs, att[m].ask # 0, IsCurrent(m, "deciding"), m \notin unknown,
    NEW outcome \in Outcomes, NEW t \in Attempt, HoldAs(m, outcome, t),
    t.ask = att[m].ask, t.act = att[m].act, t.inv > 0, t.proof <= t.inv, t.inv <= troubles',
    troubles' \in 0..MaxTroubles, troubles' = troubles \/ troubles' = troubles + 1,
    job' = Free, child = "none",
    UNCHANGED <<native, source, gate, post, child, snapshot, up, history>>
  PROVE  AskInv'
<1>0. AskType BY DEF AskInv
<1>1. /\ UNCHANGED <<inbound, told, native, keyed, withdrawn, ops, latched, pending, verified, tool, post, child>>
      /\ UNCHANGED <<snapshot, up, unknown, stranded>> BY DEF source, gate, history, HoldAs
<1>2. job' \in JobType /\ JobInv' BY <1>0, <1>1, FreeKnows
<1>3. PICK i \in Asks : i = att[m].ask BY <1>0, AttFields
<1>4. asks[i] \in Ask /\ asks[i] = AskOf(m) /\ asks[i].status = "deciding" /\ asks[i].attempt = m
 BY <1>0, <1>3 DEF AskType, AskOf, IsCurrent
<1>5. PICK a, u : /\ a = [asks[i] EXCEPT !.outcome = outcome, !.hold = "wait"]
                  /\ u = Publish(a, t, outcome = "held")
                  /\ asks' = [asks EXCEPT ![i] = a] /\ att' = [att EXCEPT ![m] = u] BY <1>3, <1>4 DEF HoldAs
<1>6. Alike(asks[i], a) /\ a.sent = asks[i].sent /\ a.hold = "wait"
 <2>1. a = [asks[i] EXCEPT !.outcome = outcome, !.hold = "wait"] /\ "wait" \in {"none", "wait"} BY <1>5
 <2> QED BY <1>4, <2>1 DEF Ask, Alike
<1>7. u \in Attempt /\ u.ask = t.ask /\ u.act = t.act /\ u.inv = t.inv /\ u.proof = t.proof BY <1>5, PublishFields
<1>8. /\ asks' \in [Asks -> Ask] /\ asks'[i] = a /\ \A j \in Asks \ {i} : asks'[j] = asks[j]
      /\ \A j \in Asks : Stays(asks[j], asks'[j]) BY <1>0, <1>5, <1>6 DEF AskType, Alike, Stays
<1>9. /\ att' \in [Msgs -> Attempt] /\ att'[m] = u /\ \A k \in Msgs \ {m} : att'[k] = att[k]
 BY <1>0, <1>5, <1>7 DEF AskType
<1>10. AskType' BY <1>0, <1>1, <1>2, <1>8, <1>9 DEF AskType
<1>11. Filled' /\ Single' /\ Linked' /\ OfCards' /\ BeadInv' /\ ToldInv' /\ SnapInv'
 <2>1. \A k \in Msgs : att'[k].ask = att[k].ask /\ att'[k].act = att[k].act BY <1>7, <1>9
 <2> QED BY <1>1, <1>8, <1>10, <2>1, StoreStays DEF BeadKept
<1>12. HeldOnes'
 <2> SUFFICES ASSUME NEW j \in Asks, asks'[j].hold # "none"
              PROVE  /\ asks'[j].status = "deciding" /\ asks'[j].attempt \notin unknown'
                     /\ att'[asks'[j].attempt].inv > 0 BY DEF HeldOnes
 <2>1. CASE j = i BY <1>1, <1>4, <1>6, <1>7, <1>8, <1>9, <2>1 DEF Alike
 <2>2. CASE j # i
  <3>1. /\ asks[j].status = "deciding" /\ asks[j].attempt \notin unknown /\ att[asks[j].attempt].inv > 0
        /\ asks'[j] = asks[j] BY <1>8, <2>2 DEF AskInv, CardsInv, HeldOnes
  <3>2. asks[j].attempt \in Msgs /\ asks[j].attempt # m
   BY <1>0, <1>3, <2>2, <3>1, AskFields DEF AskInv, CardsInv, Linked, Undecided
  <3> QED BY <1>1, <1>9, <3>1, <3>2
 <2> QED BY <2>1, <2>2
<1>13. CountsInv'
 <2> SUFFICES ASSUME NEW k \in Msgs
              PROVE  /\ att'[k].ask = 0 => att'[k].inv = 0
                     /\ k \in unknown' => att'[k].inv > 0
                     /\ att'[k].inv <= troubles' + 1 /\ (k \notin unknown' => att'[k].inv <= troubles')
                     /\ att'[k].proof <= att'[k].inv
                     /\ att'[k].proof > 0 /\ att'[k].proof = att'[k].inv => k \notin unknown' BY DEF CountsInv
 <2>0. troubles \in Nat /\ troubles' \in Nat BY <1>0, BoundsAssumption DEF AskType
 <2>1. CASE k = m
  <3>1. u.inv \in Nat BY <1>7, BoundsAssumption DEF Attempt, MaxInvocations
  <3> QED BY <1>1, <1>7, <1>9, <2>0, <2>1, <3>1
 <2>2. CASE k # m
  <3>1. att[k].inv \in Nat /\ att[k].proof \in Nat BY <1>0, AttFields
  <3> QED BY <1>1, <1>9, <2>0, <2>2, <3>1 DEF AskInv, CountsInv
 <2> QED BY <2>1, <2>2
<1> QED BY <1>2, <1>10, <1>11, <1>12, <1>13 DEF AskInv, CardsInv

\* What the HOLD of the last run proves, and what a failed spawn proves.
LEMMA ProofFields ==
  ASSUME NEW t \in Attempt, NEW p \in 0..MaxInvocations, NEW u, u = [t EXCEPT !.proof = p]
  PROVE  u \in Attempt /\ u.ask = t.ask /\ u.act = t.act /\ u.inv = t.inv /\ u.proof = p
BY DEF Attempt

\* A run is counted.
LEMMA InvokedFields ==
  ASSUME NEW t \in Attempt, t.inv + 1 \in 0..MaxInvocations, NEW u, u = Invoked(t)
  PROVE  u \in Attempt /\ u.ask = t.ask /\ u.act = t.act /\ u.inv = t.inv + 1 /\ u.proof = t.proof
<1>1. u = [t EXCEPT !.inv = t.inv + 1] BY DEF Invoked
<1> QED BY <1>1 DEF Attempt

\* The HOLD is committed: the run it ended is the last one, and is not issued.
LEMMA HoldCommitsStep == AskInv /\ HoldCommits => AskInv'
<1> SUFFICES ASSUME AskInv, HoldCommits PROVE AskInv' OBVIOUS
<1>0. AskType BY DEF AskInv
<1>1. /\ job.pc = "hold" /\ job' = Free
      /\ UNCHANGED <<native, source, gate, post, child, snapshot, up, history>> BY DEF HoldCommits
<1>2. job.m \in Msgs /\ att[job.m].ask # 0 /\ child = "none" BY <1>0, <1>1, JobFields DEF AskInv, JobInv, JobRuns
<1>3. PICK m \in Msgs : m = job.m BY <1>2
<1>4. IsCurrent(m, "deciding") /\ m \notin unknown /\ att[m].inv > 0 BY <1>1, <1>3 DEF AskInv, JobInv, JobChild
<1>5. PICK same \in BOOLEAN : /\ troubles' = troubles \/ Trouble("drift")
                              /\ HoldAs(m, "pending", [att[m] EXCEPT !.proof = Proven(m, same)])
 BY <1>3 DEF HoldCommits
<1>6. troubles' \in 0..MaxTroubles /\ (troubles' = troubles \/ troubles' = troubles + 1)
 BY <1>0, <1>5, TroubleCounts DEF AskType
<1>7. att[m] \in Attempt /\ att[m].inv \in 0..MaxInvocations /\ att[m].proof \in 0..MaxInvocations
 BY <1>0, AttFields DEF Attempt
<1>8. PICK p \in 0..MaxInvocations : p = Proven(m, same) BY <1>7 DEF Proven
<1>9. p = att[m].inv \/ p = att[m].proof BY <1>8 DEF Proven
<1>10. PICK t : t = [att[m] EXCEPT !.proof = p] OBVIOUS
<1>11. t \in Attempt /\ t.ask = att[m].ask /\ t.act = att[m].act /\ t.inv = att[m].inv /\ t.proof = p
 BY <1>7, <1>10, ProofFields
<1>12. HoldAs(m, "pending", t) BY <1>5, <1>8, <1>10
<1>13. att[m].proof <= att[m].inv /\ att[m].inv <= troubles BY <1>4 DEF AskInv, CountsInv
<1>14. troubles \in Nat /\ att[m].inv \in Nat BY <1>0, AttFields, BoundsAssumption DEF AskType
<1>15. t.inv > 0 /\ t.proof <= t.inv /\ t.inv <= troubles' BY <1>4, <1>6, <1>9, <1>11, <1>13, <1>14
<1>16. "pending" \in Outcomes BY DEF Outcomes
<1> QED BY <1>1, <1>2, <1>3, <1>4, <1>6, <1>11, <1>12, <1>15, <1>16, HoldStep

\* The attempt that a card holds.
LEMMA HeldSays ==
  ASSUME AskInv, NEW i \in Asks, asks[i].hold # "none"
  PROVE  /\ asks[i].attempt \in Msgs /\ att[asks[i].attempt].ask = i /\ i # 0
         /\ IsCurrent(asks[i].attempt, "deciding") /\ asks[i].attempt \notin unknown
         /\ att[asks[i].attempt].inv > 0 /\ att[asks[i].attempt].inv <= troubles
         /\ att[asks[i].attempt].proof <= att[asks[i].attempt].inv
<1>0. AskType /\ i # 0 BY BoundsAssumption DEF AskInv, Asks
<1>1. /\ asks[i].status = "deciding" /\ asks[i].attempt \notin unknown
      /\ att[asks[i].attempt].inv > 0 BY DEF AskInv, CardsInv, HeldOnes
<1>2. asks[i].attempt \in Msgs /\ att[asks[i].attempt].ask = i
 BY <1>0, <1>1, AskFields DEF AskInv, CardsInv, Linked, Undecided
<1>3. IsCurrent(asks[i].attempt, "deciding") BY <1>1, <1>2 DEF IsCurrent, AskOf
<1>4. /\ att[asks[i].attempt].inv <= troubles /\ att[asks[i].attempt].proof <= att[asks[i].attempt].inv
 BY <1>1, <1>2 DEF AskInv, CountsInv
<1> QED BY <1>0, <1>1, <1>2, <1>3, <1>4

\* A retry that cannot go on holds the attempt again.
LEMMA HoldAgain ==
  ASSUME AskInv, NEW i \in Asks, asks[i].hold # "none", NEW m, m = asks[i].attempt, NEW outcome \in Outcomes,
    HoldAs(m, outcome, att[m]), job' = Free, child = "none",
    UNCHANGED <<native, source, gate, post, child, snapshot, up, history, troubles>>
  PROVE  AskInv'
<1>0. AskType BY DEF AskInv
<1>1. /\ m \in Msgs /\ att[m].ask # 0 /\ IsCurrent(m, "deciding") /\ m \notin unknown
      /\ att[m].inv > 0 /\ att[m].proof <= att[m].inv /\ att[m].inv <= troubles BY HeldSays
<1>2. PICK t \in Attempt : t = att[m] BY <1>0, <1>1 DEF AskType
<1>3. HoldAs(m, outcome, t) BY <1>2
<1>4. troubles' \in 0..MaxTroubles BY <1>0 DEF AskType
<1>5. /\ t.ask = att[m].ask /\ t.act = att[m].act /\ t.inv > 0 /\ t.proof <= t.inv /\ t.inv <= troubles' BY <1>1, <1>2
<1> HIDE DEF HoldAs
<1> QED BY <1>1, <1>3, <1>4, <1>5, HoldStep

\* The attempt that a retry is about is still held.
LEMMA RetrySays ==
  ASSUME AskInv, job.pc = "settle", job.how \in {"retry", "withdrawn"}
  PROVE  \E i \in Asks : asks[i].hold # "none" /\ job.m = asks[i].attempt /\ att[job.m].ask = i
<1>1. job.m \in Msgs /\ att[job.m].ask \in Asks BY JobFields, AttFields DEF AskInv, JobInv, JobRuns
<1> QED BY <1>1 DEF AskInv, JobInv, JobHeld, AskOf

\* A retry that may not run holds its attempt again.
LEMMA RetryHoldsStep == AskInv /\ RetryHolds => AskInv'
<1> SUFFICES ASSUME AskInv, RetryHolds PROVE AskInv' OBVIOUS
<1>0. /\ job.pc = "settle" /\ job.how \in {"retry", "withdrawn"} /\ job' = Free
      /\ UNCHANGED <<native, source, gate, post, child, snapshot, up, history, troubles>> BY DEF RetryHolds
<1>1. PICK i \in Asks : asks[i].hold # "none" /\ job.m = asks[i].attempt BY <1>0, RetrySays
<1>2. PICK outcome : /\ outcome = (IF Untried THEN Authority(job.m) ELSE HoldReason(job.r))
                     /\ HoldAs(job.m, outcome, att[job.m]) BY DEF RetryHolds
<1>3. outcome \in Outcomes
 <2>1. Authority(job.m) \in {"pending", "held", "go"} /\ HoldReason(job.r) \in {"pending", "held"}
  BY DEF Authority, HoldReason
 <2>2. Untried => Authority(job.m) # "go" BY DEF RetryHolds, Untried
 <2> QED BY <1>2, <2>1, <2>2 DEF Outcomes
<1>4. child = "none" BY <1>0 DEF AskInv, JobInv, JobRuns
<1>5. PICK m : m = job.m OBVIOUS
<1>6. HoldAs(m, outcome, att[m]) /\ m = asks[i].attempt BY <1>1, <1>2, <1>5
<1> QED BY <1>0, <1>1, <1>3, <1>4, <1>6, HoldAgain

\* Nothing was spawned for the retry: the run is counted, and proven if those before it are.
LEMMA RetryNotSpawnedStep == AskInv /\ RetryNotSpawned => AskInv'
<1> SUFFICES ASSUME AskInv, RetryNotSpawned PROVE AskInv' OBVIOUS
<1>a. AskType BY DEF AskInv
<1>0. /\ job.pc = "settle" /\ job.how = "retry" /\ job' = Free /\ Trouble("spawn")
      /\ UNCHANGED <<native, source, gate, post, child, snapshot, up, history>> BY DEF RetryNotSpawned, RetryReady
<1>1. PICK i \in Asks : asks[i].hold # "none" /\ job.m = asks[i].attempt BY <1>0, RetrySays
<1>2. PICK m \in Msgs : m = job.m BY <1>1, HeldSays
<1>3. /\ att[m].ask # 0 /\ IsCurrent(m, "deciding") /\ m \notin unknown
      /\ att[m].inv > 0 /\ att[m].proof <= att[m].inv /\ att[m].inv <= troubles BY <1>1, <1>2, HeldSays
<1>4. troubles' = troubles + 1 /\ troubles' \in 0..MaxTroubles /\ troubles \in Nat
 BY <1>a, <1>0, TroubleCounts, BoundsAssumption DEF AskType
<1>5. att[m] \in Attempt /\ att[m].inv \in Nat /\ att[m].proof \in Nat BY <1>a, AttFields
<1>6. att[m].inv + 1 \in 0..MaxInvocations BY <1>3, <1>4, <1>5, BoundsAssumption DEF MaxInvocations
<1>7. PICK s : s = Invoked(att[m]) OBVIOUS
<1>8. s \in Attempt /\ s.ask = att[m].ask /\ s.act = att[m].act /\ s.inv = att[m].inv + 1 /\ s.proof = att[m].proof
 BY <1>5, <1>6, <1>7, InvokedFields
<1>9. PICK p \in 0..MaxInvocations : p = IF s.proof > 0 /\ s.proof = att[m].inv THEN s.proof + 1 ELSE s.proof
 <2>1. (IF s.proof > 0 /\ s.proof = att[m].inv THEN s.proof + 1 ELSE s.proof) \in 0..MaxInvocations
  BY <1>3, <1>5, <1>6, <1>8, BoundsAssumption DEF MaxInvocations
 <2> QED BY <2>1
<1>10. p <= att[m].inv + 1 BY <1>3, <1>5, <1>8, <1>9
<1>11. PICK t : t = [s EXCEPT !.proof = p] OBVIOUS
<1>12. t \in Attempt /\ t.ask = s.ask /\ t.act = s.act /\ t.inv = s.inv /\ t.proof = p BY <1>8, <1>11, ProofFields
<1>13. HoldAs(m, "pending", t) BY <1>2, <1>7, <1>9, <1>11 DEF RetryNotSpawned
<1>14. t.ask = att[m].ask /\ t.act = att[m].act /\ t.inv > 0 /\ t.proof <= t.inv /\ t.inv <= troubles'
 BY <1>3, <1>4, <1>5, <1>8, <1>10, <1>12
<1>15. child = "none" /\ "pending" \in Outcomes BY <1>0 DEF AskInv, JobInv, JobRuns, Outcomes
<1> QED BY <1>0, <1>3, <1>4, <1>12, <1>13, <1>14, <1>15, HoldStep

\* A job that starts: nothing was touched but it.
LEMMA RetireBeginsStep == ASSUME AskInv, NEW m \in Msgs, RetireBegins(m) PROVE AskInv'
<1>0. AskType BY DEF AskInv
<1>1. /\ UNCHANGED <<asks, att, inbound, told, native, keyed, withdrawn, ops, latched, pending, verified, tool>>
      /\ UNCHANGED <<post, child, snapshot, up, unknown, stranded, troubles>>
      /\ up /\ job = Free /\ att[m].ask # 0 /\ job' = At("back", m, NotRead("fail"), "retire")
 BY DEF RetireBegins, Selectable, store, source, gate, history
<1>2. "back" \in Pcs /\ "retire" \in Hows \ {"retry", "withdrawn"} /\ m \in 0..MaxMsgs /\ NotRead("fail") \in Read
 BY BeadFields, BoundsAssumption DEF Pcs, Hows, Msgs
<1>3. job' \in JobType /\ job'.pc = "back" /\ job'.m = m /\ job'.how = "retire" BY <1>1, <1>2, AtFields
<1>4. child = "none" BY <1>1 DEF AskInv, JobInv, JobRuns, Free, At
<1>5. AskType' BY <1>0, <1>1, <1>3 DEF AskType
<1>6. JobInv' BY <1>0, <1>1, <1>2, <1>3, <1>4, BackKnows
<1> QED BY <1>1, <1>5, <1>6, QuietStep DEF BeadKept

\* The retry begins: its timer starts again, and the bead is to be read back.
LEMMA RetryBeginsStep == ASSUME AskInv, NEW i \in Asks, RetryBegins(i) PROVE AskInv'
<1>0. AskType /\ asks[i] \in Ask /\ asks \in [Asks -> Ask] BY DEF AskInv, AskType
<1>1. /\ UNCHANGED <<native, source, gate, post, child, snapshot, up, history, troubles>>
      /\ up /\ job = Free /\ asks[i].hold = "due" BY DEF RetryBegins
<1>2. child = "none" BY <1>1 DEF AskInv, JobInv, JobRuns, Free, At
<1>3. PICK m \in Msgs : m = asks[i].attempt BY <1>1, HeldSays
<1>4. /\ att[m].ask = i /\ i # 0 /\ IsCurrent(m, "deciding") /\ m \notin unknown
      /\ att[m].inv > 0 BY <1>1, <1>3, HeldSays
<1>5. CASE ~(withdrawn \/ Authority(m) = "go")
 <2>1. PICK outcome : outcome = Authority(m) /\ HoldAs(m, outcome, att[m]) /\ job' = Free
  BY <1>3, <1>5 DEF RetryBegins
 <2>2. outcome \in Outcomes BY <1>5, <2>1 DEF Authority, Outcomes
 <2> QED BY <1>1, <1>2, <1>3, <2>1, <2>2, HoldAgain
<1>6. CASE withdrawn \/ Authority(m) = "go"
 <2>0. PICK how \in {"withdrawn", "retry"} : how = IF withdrawn THEN "withdrawn" ELSE "retry" OBVIOUS
 <2>1. PICK b : /\ b = [asks[i] EXCEPT !.hold = "wait"] /\ asks' = [asks EXCEPT ![i] = b]
                /\ job' = At("back", m, NotRead("fail"), how) /\ UNCHANGED <<att, inbound, told>>
  BY <1>3, <1>6, <2>0 DEF RetryBegins
 <2>2. Alike(asks[i], b) /\ b.sent = asks[i].sent /\ b.hold = "wait"
  <3>1. b = [asks[i] EXCEPT !.hold = "wait"] BY <2>1
  <3> QED BY <1>0, <3>1, HoldFields
 <2>3. /\ UNCHANGED <<att, inbound, told, native, keyed, withdrawn, ops, latched, pending, verified, tool>>
       /\ UNCHANGED <<post, child, snapshot, up, unknown, stranded, troubles>>
  BY <1>1, <2>1 DEF source, gate, history
 <2>4. /\ asks' \in [Asks -> Ask] /\ asks'[i] = b
       /\ \A j \in Asks : Stays(asks[j], asks'[j]) /\ (asks[j].hold # "none" <=> asks'[j].hold # "none")
  BY <1>0, <1>1, <2>1, <2>2 DEF Stays, Alike
 <2>5. "back" \in Pcs /\ how \in Hows /\ m \in 0..MaxMsgs /\ NotRead("fail") \in Read
  BY BeadFields, BoundsAssumption DEF Pcs, Hows, Msgs
 <2>6. job' \in JobType /\ job'.pc = "back" /\ job'.m = m /\ job'.how = how BY <2>1, <2>5, AtFields
 <2>7. AskType' BY <1>0, <2>3, <2>4, <2>6 DEF AskType
 <2>8. troubles' >= troubles BY <1>0, <2>3, BoundsAssumption DEF AskType
 <2>9. CountsInv' BY <2>3, <2>7, <2>8, CountsStay
 <2>10. Filled' /\ Single' /\ Linked' /\ OfCards' /\ BeadInv' /\ ToldInv' /\ SnapInv'
  BY <2>3, <2>4, <2>7, StoreStays DEF BeadKept
 <2>11. HeldOnes' BY <2>3, <2>4 DEF AskInv, CardsInv, HeldOnes, Stays
 <2>12. AskOf(m)' = b /\ b.attempt = m BY <1>3, <1>4, <2>2, <2>3, <2>4 DEF AskOf, Alike
 <2>13. JobInv'
  BY <1>1, <1>2, <1>4, <2>2, <2>3, <2>6, <2>12, HostIsNobody DEF JobInv, JobRuns, JobFirst, JobChild, JobHeld, JobRead
 <2> QED BY <2>7, <2>9, <2>10, <2>11, <2>13 DEF AskInv, CardsInv
<1> QED BY <1>5, <1>6

\* A reply is taken up: the message had not been looked at, so it has no attempt.
LEMMA ReceiveStep == ASSUME AskInv, NEW m \in Msgs, Receive(m) PROVE AskInv'
<1>0. AskType /\ m # 0 BY HostIsNobody DEF AskInv
<1>1. /\ UNCHANGED <<asks, att, told, native, keyed, withdrawn, ops, latched, pending, verified, tool>>
      /\ UNCHANGED <<post, child, snapshot, up, unknown, stranded, troubles>>
      /\ up /\ job = Free /\ inbound[m] = "new" /\ job' = At("decide", m, NotRead("fail"), "none")
      /\ inbound' = [inbound EXCEPT ![m] = "executing"] BY DEF Receive, source, gate, history
<1>2. "decide" \in Pcs /\ "none" \in Hows /\ m \in 0..MaxMsgs /\ NotRead("fail") \in Read
 BY BeadFields, BoundsAssumption DEF Pcs, Hows, Msgs
<1>3. job' \in JobType /\ job'.pc = "decide" /\ job'.m = m BY <1>1, <1>2, AtFields
<1>4. child = "none" BY <1>1 DEF AskInv, JobInv, JobRuns, Free, At
<1>5. /\ inbound' \in [Msgs -> {"new", "executing", "done", "dropped"}] /\ inbound'[m] = "executing"
      /\ \A k \in Msgs \ {m} : inbound'[k] = inbound[k] BY <1>0, <1>1 DEF AskType
<1>6. AskType' BY <1>0, <1>1, <1>3, <1>5 DEF AskType
<1>7. att[m].ask = 0 BY <1>1 DEF AskInv, ToldInv
<1>8. JobInv' BY <1>0, <1>1, <1>3, <1>4, <1>5, <1>7 DEF JobInv, JobRuns, JobFirst, JobChild, JobHeld, JobRead
<1>9. BeadInv' BY <1>1, <1>5, <1>7 DEF AskInv, BeadInv, Current, AskOf, Digest
<1>10. ToldInv' BY <1>1, <1>5, <1>7 DEF AskInv, ToldInv, Current, AskOf
<1>11. CardsInv' /\ CountsInv' /\ SnapInv'
 BY <1>1 DEF AskInv, CardsInv, Filled, Single, Linked, OfCards, HeldOnes, AskOf, CountsInv, SnapInv
<1> QED BY <1>6, <1>8, <1>9, <1>10, <1>11 DEF AskInv

------------------------------
\* A row of ask_attempts as begin_attempt inserts it.
LEMMA NewAttemptFields ==
  ASSUME NEW i \in 0..MaxAsks, NEW act \in {"approve", "deny"}, NEW o \in Operators, NEW t, t = NewAttempt(i, act, o)
  PROVE  t \in Attempt /\ t.ask = i /\ t.act = act /\ t.inv = 0 /\ t.proof = 0
<1>1. 0 \in 0..MaxInvocations BY BoundsAssumption DEF MaxInvocations
<1> QED BY <1>1 DEF NewAttempt, Attempt

\* begin_attempt: an open card, of which a message without an attempt is a decision.
LEMMA BeginStep ==
  ASSUME AskInv, NEW m \in Msgs, NEW i \in Asks, NEW act \in {"approve", "deny"}, NEW o \in Operators,
    job.pc = "decide", m = job.m, Decidable(i, act), Begin(m, i, act, o),
    UNCHANGED <<native, source, gate, post, child, snapshot, up, history, troubles>>
  PROVE  AskInv'
<1>0. AskType /\ m # 0 /\ asks[i] \in Ask /\ asks \in [Asks -> Ask] /\ i # 0 /\ i \in 0..MaxAsks
 BY HostIsNobody, BoundsAssumption DEF AskInv, AskType, Asks
<1>1. inbound[m] = "executing" /\ att[m].ask = 0 /\ child = "none" /\ up BY DEF AskInv, JobInv, JobRuns
<1>2. /\ UNCHANGED <<inbound, told, native, keyed, withdrawn, ops, latched, pending, verified, tool>>
      /\ UNCHANGED <<post, child, snapshot, up, unknown, stranded, troubles>> BY DEF Begin, source, gate, history
<1>3. PICK b, t : /\ b = [asks[i] EXCEPT !.status = "deciding", !.attempt = m] /\ t = NewAttempt(i, act, o)
                  /\ asks' = [asks EXCEPT ![i] = b] /\ att' = [att EXCEPT ![m] = t]
                  /\ job' = At("read", m, NotRead("fail"), "worker") BY DEF Begin
<1>4. b \in Ask /\ b.status = "deciding" /\ b.attempt = m /\ b.digest = asks[i].digest /\ b.sent = asks[i].sent
      /\ b.hold = asks[i].hold
 <2>1. b = [asks[i] EXCEPT !.status = "deciding", !.attempt = m] BY <1>3
 <2>2. m \in 0..MaxMsgs BY BoundsAssumption DEF Msgs
 <2> QED BY <1>0, <2>1, <2>2 DEF Ask, Statuses
<1>5. t \in Attempt /\ t.ask = i /\ t.act = act /\ t.inv = 0 /\ t.proof = 0 BY <1>0, <1>3, NewAttemptFields
<1>6. /\ asks' \in [Asks -> Ask] /\ asks'[i] = b /\ \A j \in Asks \ {i} : asks'[j] = asks[j] BY <1>0, <1>3, <1>4
<1>7. /\ att' \in [Msgs -> Attempt] /\ att'[m] = t /\ \A k \in Msgs \ {m} : att'[k] = att[k]
 BY <1>0, <1>3, <1>5 DEF AskType
<1>8. "read" \in Pcs /\ "worker" \in Hows /\ m \in 0..MaxMsgs /\ NotRead("fail") \in Read
 BY BeadFields, BoundsAssumption DEF Pcs, Hows, Msgs
<1>9. job' \in JobType /\ job'.pc = "read" /\ job'.m = m /\ job'.how = "worker" BY <1>3, <1>8, AtFields
<1>10. AskType' BY <1>0, <1>2, <1>6, <1>7, <1>9 DEF AskType
<1>11. /\ asks[i].status = "open" /\ asks[i].attempt = 0 /\ asks[i].hold = "none" /\ (act = "approve" => asks[i].sent = "all")
 BY DEF Decidable, Shown, AskInv, CardsInv, Linked, HeldOnes, Undecided
<1>12. \A k \in Msgs \ {m} : att[k].ask # 0 => /\ att[k].ask \in Asks /\ att'[k] = att[k]
                                               /\ \/ att[k].ask # i /\ AskOf(k)' = AskOf(k)
                                                  \/ att[k].ask = i /\ AskOf(k)' = b /\ AskOf(k) = asks[i]
 BY <1>0, <1>6, <1>7, AttFields DEF AskOf
<1>13. AskOf(m)' = b BY <1>5, <1>6, <1>7 DEF AskOf
<1>14. Filled'
 <2>1. \A j \in Asks : asks'[j].status # "none" <=> asks[j].status # "none" BY <1>4, <1>6, <1>11
 <2> QED BY <2>1 DEF AskInv, CardsInv, Filled
<1>15. Single' BY <1>4, <1>6, <1>11 DEF AskInv, CardsInv, Single, Undecided
<1>16. \A j \in Asks : asks[j].attempt # 0 => asks[j].attempt \in Msgs \ {m} /\ j # i
 <2> SUFFICES ASSUME NEW j \in Asks, asks[j].attempt # 0 PROVE asks[j].attempt \in Msgs \ {m} /\ j # i OBVIOUS
 <2>1. asks[j].attempt \in Msgs /\ att[asks[j].attempt].ask = j /\ j # 0
  BY <1>0, AskFields, BoundsAssumption DEF AskInv, CardsInv, Linked, Asks
 <2> QED BY <1>1, <1>11, <2>1
<1>17. Linked'
 <2>1. \A j \in Asks : asks'[j].status \in Undecided <=> asks'[j].attempt # 0
  BY <1>0, <1>4, <1>6 DEF AskInv, CardsInv, Linked, Undecided
 <2>2. \A j \in Asks : asks'[j].attempt # 0 => att'[asks'[j].attempt].ask = j
  BY <1>4, <1>5, <1>6, <1>7, <1>16 DEF AskInv, CardsInv, Linked
 <2> QED BY <2>1, <2>2 DEF Linked
<1>18. OfCards'
 <2> SUFFICES ASSUME NEW k \in Msgs, att'[k].ask # 0
              PROVE  AskOf(k)'.status # "none" /\ (att'[k].act = "approve" => AskOf(k)'.sent = "all") BY DEF OfCards
 <2>1. CASE k = m BY <1>4, <1>5, <1>7, <1>11, <1>13, <2>1
 <2>2. CASE k # m
  <3>1. att'[k] = att[k] /\ att[k].ask # 0 BY <1>7, <2>2
  <3>2. AskOf(k).status # "none" /\ (att[k].act = "approve" => AskOf(k).sent = "all")
   BY <3>1 DEF AskInv, CardsInv, OfCards
  <3> QED BY <1>4, <1>12, <2>2, <3>1, <3>2
 <2> QED BY <2>1, <2>2
<1>19. HeldOnes'
 <2> SUFFICES ASSUME NEW j \in Asks, asks'[j].hold # "none"
              PROVE  /\ asks'[j].status = "deciding" /\ asks'[j].attempt \notin unknown'
                     /\ att'[asks'[j].attempt].inv > 0 BY DEF HeldOnes
 <2>1. j # i /\ asks'[j] = asks[j] /\ asks[j].hold # "none" BY <1>4, <1>6, <1>11
 <2>2. asks[j].attempt \in Msgs \ {m} BY <1>16, <2>1, HeldSays, HostIsNobody
 <2> QED BY <1>2, <1>7, <2>1, <2>2 DEF AskInv, CardsInv, HeldOnes
<1>20. CountsInv'
 <2>1. m \notin unknown BY <1>1 DEF AskInv, CountsInv
 <2>2. troubles \in Nat BY <1>0, BoundsAssumption DEF AskType
 <2> QED BY <1>0, <1>2, <1>5, <1>7, <2>1, <2>2 DEF AskInv, CountsInv
<1>21. BeadInv'
 <2> SUFFICES ASSUME NEW k \in Msgs, native.ref = k
              PROVE  /\ ~native.open /\ att'[k].ask # 0 /\ native.act = att'[k].act
                     /\ native.seen = Digest(k)' /\ k \in unknown
                     /\ \/ Current(k)'
                        \/ /\ AskOf(k)'.status = (IF att'[k].act = "approve" THEN "approved" ELSE "denied")
                           /\ inbound'[k] # "executing" BY <1>2 DEF BeadInv
 <2>1. /\ ~native.open /\ att[k].ask # 0 /\ native.act = att[k].act /\ native.seen = Digest(k) /\ k \in unknown
       /\ \/ Current(k)
          \/ /\ AskOf(k).status = (IF att[k].act = "approve" THEN "approved" ELSE "denied")
             /\ inbound[k] # "executing" BY DEF AskInv, BeadInv
 <2>2. k # m /\ k # 0 BY <1>1, <2>1, HostIsNobody
 <2>3. att[k].ask # i BY <1>11, <1>12, <2>1, <2>2 DEF Current
 <2>4. AskOf(k)' = AskOf(k) /\ att'[k] = att[k] BY <1>12, <2>1, <2>2, <2>3
 <2> QED BY <1>2, <2>1, <2>4 DEF Digest, Current
<1>22. ToldInv'
 <2> SUFFICES ASSUME NEW k \in Msgs
              PROVE  /\ inbound[k] = "new" => att'[k].ask = 0
                     /\ "nothing" \in told[k] => native.ref # k /\ inbound[k] \in {"done", "dropped"} /\ ~Current(k)'
                     /\ "recorded" \in told[k] => native.ref = k BY <1>2 DEF ToldInv
 <2>1. /\ inbound[k] = "new" => att[k].ask = 0
       /\ "nothing" \in told[k] => native.ref # k /\ inbound[k] \in {"done", "dropped"} /\ ~Current(k)
       /\ "recorded" \in told[k] => native.ref = k BY DEF AskInv, ToldInv
 <2>2. CASE k = m BY <1>1, <2>1, <2>2
 <2>3. CASE k # m
  <3>1. Current(k)' => Current(k) BY <1>4, <1>7, <1>12, <2>3 DEF Current
  <3> QED BY <1>7, <2>1, <2>3, <3>1
 <2> QED BY <2>2, <2>3
<1>23. SnapInv'
 <2> SUFFICES ASSUME NEW e \in snapshot PROVE att'[e.m].ask = e.i BY <1>2 DEF SnapInv
 <2>1. e.m \in Msgs /\ e.i \in Asks /\ att[e.m].ask = e.i BY <1>0 DEF AskInv, AskType, SnapInv, Entries
 <2>2. e.m # m BY <1>1, <2>1, BoundsAssumption DEF Asks
 <2> QED BY <1>7, <2>1, <2>2
<1>24. JobInv' BY <1>0, <1>1, <1>2, <1>5, <1>7, <1>9 DEF JobInv, JobRuns, JobFirst, JobChild, JobHeld, JobRead
<1> QED BY <1>10, <1>14, <1>15, <1>17, <1>18, <1>19, <1>20, <1>21, <1>22, <1>23, <1>24 DEF AskInv, CardsInv

\* A decision that is not taken up is answered, and has no attempt.
LEMMA AnswerStep ==
  ASSUME AskInv, NEW m \in Msgs, NEW status \in {"done", "dropped"},
    job.pc = "decide", m = job.m, Answer(m, status, "nothing"), job' = Free, UNCHANGED <<asks, att>>,
    UNCHANGED <<native, source, gate, post, child, snapshot, up, history, troubles>>
  PROVE  AskInv'
<1>0. AskType BY DEF AskInv
<1>1. inbound[m] = "executing" /\ att[m].ask = 0 /\ child = "none" /\ up BY DEF AskInv, JobInv, JobRuns
<1>2. /\ UNCHANGED <<asks, att, native, keyed, withdrawn, ops, latched, pending, verified, tool>>
      /\ UNCHANGED <<post, child, snapshot, up, unknown, stranded, troubles>> BY DEF source, gate, history
<1>3. job' \in JobType /\ JobInv' BY <1>0, <1>1, <1>2, FreeKnows
<1>4. /\ inbound' \in [Msgs -> {"new", "executing", "done", "dropped"}] /\ told' \in [Msgs -> SUBSET Said]
      /\ inbound'[m] = status /\ told'[m] = told[m] \cup {"nothing"}
      /\ \A k \in Msgs \ {m} : inbound'[k] = inbound[k] /\ told'[k] = told[k] BY <1>0 DEF AskType, Said, Answer
<1>5. AskType' BY <1>0, <1>2, <1>3, <1>4 DEF AskType
<1>6. native.ref # m /\ ~Current(m)' BY <1>1, <1>2 DEF AskInv, BeadInv, Current
<1>7. \A k \in Msgs : Answered(k) /\ (Current(k) => Current(k)')
 BY <1>2, <1>4, <1>6 DEF Answered, Said, Current, AskOf
<1>8. \A k \in Msgs : att'[k].inv >= att[k].inv BY <1>0, <1>2, AttFields
<1>9. Filled' /\ Single' /\ \A i \in Asks : Moves(asks[i], asks'[i])
 BY <1>2 DEF AskInv, CardsInv, Filled, Single, Moves, Stays
<1>10. CardsInv' /\ BeadInv' /\ ToldInv' /\ SnapInv' BY <1>2, <1>5, <1>7, <1>8, <1>9, CardsMove
<1>11. CountsInv' BY <1>2 DEF AskInv, CountsInv
<1> QED BY <1>3, <1>5, <1>10, <1>11 DEF AskInv

\* A reply begins an attempt, or is answered without one.
LEMMA DecideStep == AskInv /\ Decide => AskInv'
<1> SUFFICES ASSUME AskInv, Decide PROVE AskInv' OBVIOUS
<1>1. /\ job.pc = "decide"
      /\ UNCHANGED <<native, source, gate, post, child, snapshot, up, history, troubles>> BY DEF Decide
<1>2. PICK m \in Msgs : m = job.m BY <1>1, JobFields DEF AskInv, JobInv, JobRuns
<1>3. PICK i \in Asks, act \in {"approve", "deny"}, o \in Operators :
          \/ Decidable(i, act) /\ Begin(m, i, act, o)
          \/ \E status \in {"done", "dropped"} :
                Answer(m, status, "nothing") /\ job' = Free /\ UNCHANGED <<asks, att>> BY <1>2 DEF Decide
<1> QED BY <1>1, <1>2, <1>3, BeginStep, AnswerStep

------------------------------
\* issue_decision: every run before this one answered HOLD, so nothing is on the bead.
LEMMA IssueStep ==
  ASSUME AskInv, NEW m \in Msgs, att[m].ask # 0, IsCurrent(m, "deciding"), m \notin unknown, up,
    NEW outcome \in Outcomes, NEW how \in {"worker", "retried"}, Issue(m, outcome, how),
    UNCHANGED <<native, source, gate, post, snapshot, up, stranded, troubles>>
  PROVE  AskInv'
<1>0. AskType /\ m # 0 BY HostIsNobody DEF AskInv
<1>1. /\ UNCHANGED <<inbound, told, native, keyed, withdrawn, ops, latched, pending, verified, tool, post>>
      /\ UNCHANGED <<snapshot, up, stranded, troubles>> /\ unknown' = unknown \cup {m} /\ child' = "running"
 BY DEF source, gate, Issue
<1>2. PICK i \in Asks : i = att[m].ask BY <1>0, AttFields
<1>3. asks[i] \in Ask /\ asks[i] = AskOf(m) /\ asks[i].status = "deciding" /\ asks[i].attempt = m
 BY <1>0, <1>2 DEF AskType, AskOf, IsCurrent
<1>4. PICK a, u : /\ a = [asks[i] EXCEPT !.outcome = outcome, !.hold = "none"] /\ u = Invoked(att[m])
                  /\ asks' = [asks EXCEPT ![i] = a] /\ att' = [att EXCEPT ![m] = u]
                  /\ job' = At("child", m, NotRead("fail"), how) BY <1>2, <1>3 DEF Issue
<1>5. Alike(asks[i], a) /\ a.sent = asks[i].sent /\ a.hold = "none"
 <2>1. a = [asks[i] EXCEPT !.outcome = outcome, !.hold = "none"] BY <1>4
 <2> QED BY <1>3, <2>1 DEF Ask, Alike
<1>6. att[m] \in Attempt /\ att[m].inv \in Nat /\ att[m].proof \in Nat /\ troubles \in 0..MaxTroubles /\ troubles \in Nat
 BY <1>0, AttFields, BoundsAssumption DEF AskType
<1>7. att[m].inv <= troubles /\ att[m].proof <= att[m].inv BY DEF AskInv, CountsInv
<1>8. att[m].inv + 1 \in 0..MaxInvocations BY <1>6, <1>7, BoundsAssumption DEF MaxInvocations
<1>9. u \in Attempt /\ u.ask = att[m].ask /\ u.act = att[m].act /\ u.inv = att[m].inv + 1 /\ u.proof = att[m].proof
 BY <1>4, <1>6, <1>8, InvokedFields
<1>10. /\ asks' \in [Asks -> Ask] /\ asks'[i] = a /\ \A j \in Asks \ {i} : asks'[j] = asks[j]
       /\ \A j \in Asks : Stays(asks[j], asks'[j]) BY <1>0, <1>4, <1>5 DEF AskType, Alike, Stays
<1>11. /\ att' \in [Msgs -> Attempt] /\ att'[m] = u /\ \A k \in Msgs \ {m} : att'[k] = att[k]
 BY <1>0, <1>4, <1>9 DEF AskType
<1>12. "child" \in Pcs /\ how \in Hows /\ m \in 0..MaxMsgs /\ NotRead("fail") \in Read
 BY BeadFields, BoundsAssumption DEF Pcs, Hows, Msgs
<1>13. job' \in JobType /\ job'.pc = "child" /\ job'.m = m /\ job'.how = how BY <1>4, <1>12, AtFields
<1>14. AskType' BY <1>0, <1>1, <1>10, <1>11, <1>13 DEF AskType
<1>15. Filled' /\ Single' /\ Linked' /\ OfCards' /\ BeadInv' /\ ToldInv' /\ SnapInv'
 <2>1. \A k \in Msgs : att'[k].ask = att[k].ask /\ att'[k].act = att[k].act BY <1>9, <1>11
 <2> QED BY <1>1, <1>10, <1>14, <2>1, StoreStays DEF BeadKept
<1>16. HeldOnes'
 <2> SUFFICES ASSUME NEW j \in Asks, asks'[j].hold # "none"
              PROVE  /\ asks'[j].status = "deciding" /\ asks'[j].attempt \notin unknown'
                     /\ att'[asks'[j].attempt].inv > 0 BY DEF HeldOnes
 <2>1. j # i /\ asks'[j] = asks[j] /\ asks[j].hold # "none" BY <1>5, <1>10
 <2>2. asks[j].attempt \in Msgs /\ asks[j].attempt # m BY <1>2, <2>1, HeldSays
 <2> QED BY <1>1, <1>11, <2>1, <2>2 DEF AskInv, CardsInv, HeldOnes
<1>17. CountsInv'
 <2> SUFFICES ASSUME NEW k \in Msgs
              PROVE  /\ att'[k].ask = 0 => att'[k].inv = 0
                     /\ k \in unknown' => att'[k].inv > 0
                     /\ att'[k].inv <= troubles' + 1 /\ (k \notin unknown' => att'[k].inv <= troubles')
                     /\ att'[k].proof <= att'[k].inv
                     /\ att'[k].proof > 0 /\ att'[k].proof = att'[k].inv => k \notin unknown' BY DEF CountsInv
 <2>1. CASE k = m BY <1>1, <1>6, <1>7, <1>9, <1>11, <2>1
 <2>2. CASE k # m BY <1>1, <1>11, <2>2 DEF AskInv, CountsInv
 <2> QED BY <2>1, <2>2
<1>18. JobInv'
 <2>1. native.ref # m BY DEF AskInv, BeadInv
 <2>2. IsCurrent(m, "deciding")' BY <1>2, <1>3, <1>5, <1>9, <1>10, <1>11 DEF IsCurrent, AskOf, Alike
 <2>3. att'[m].ask # 0 BY <1>9, <1>11
 <2> QED BY <1>0, <1>1, <1>13, <2>1, <2>2, <2>3 DEF JobInv, JobRuns, JobFirst, JobChild, JobHeld, JobRead
<1> QED BY <1>14, <1>15, <1>16, <1>17, <1>18 DEF AskInv, CardsInv

\* The first run, and a retry, are both of attempts with no run in doubt.
LEMMA IssuesStep == AskInv /\ (CheckIssues \/ RetryIssues) => AskInv'
<1> SUFFICES ASSUME AskInv, CheckIssues \/ RetryIssues PROVE AskInv' OBVIOUS
<1>0. {"decision-issuing", "maintenance-issuing"} \subseteq Outcomes BY DEF Outcomes
<1>1. job.m \in Msgs /\ att[job.m].ask # 0 /\ IsCurrent(job.m, "deciding") /\ job.m \notin unknown
 <2>1. CASE CheckIssues BY <2>1, CheckSays DEF CheckIssues
 <2>2. CASE RetryIssues
  <3>1. job.pc = "settle" /\ job.how = "retry" BY <2>2 DEF RetryIssues, RetryReady
  <3>2. PICK i \in Asks : asks[i].hold # "none" /\ job.m = asks[i].attempt /\ att[job.m].ask = i BY <3>1, RetrySays
  <3> QED BY <3>2, HeldSays
 <2> QED BY <2>1, <2>2
<1>2. PICK m \in Msgs : m = job.m BY <1>1
<1>3. up BY DEF CheckIssues, RetryIssues, RetryReady, AskInv, AskType, JobInv, JobRuns
<1>4. /\ UNCHANGED <<native, source, gate, post, snapshot, up, stranded, troubles>>
      /\ \E outcome \in Outcomes, how \in {"worker", "retried"} : Issue(m, outcome, how)
 BY <1>0, <1>2 DEF CheckIssues, RetryIssues
<1> QED BY <1>1, <1>2, <1>3, <1>4, IssueStep

\* approve-bead writes the decision of the attempt that is being decided, on an undecided bead.
LEMMA ChildWritesStep == AskInv /\ ChildWrites => AskInv'
<1> SUFFICES ASSUME AskInv, ChildWrites PROVE AskInv' OBVIOUS
<1>0. AskType BY DEF AskInv
<1>1. /\ child = "running" /\ job.pc = "child" /\ job.m \in Msgs /\ att[job.m].ask # 0
      /\ job.how \in {"worker", "retried"} /\ IsCurrent(job.m, "deciding") /\ job.m \in unknown
 BY <1>0, JobFields DEF ChildWrites, AskInv, JobInv, JobRuns, JobChild
<1>2. PICK m \in Msgs : m = job.m BY <1>1
<1>3. PICK act \in {"approve", "deny"}, d \in Digests : act = att[m].act /\ d = Digest(m)
 BY <1>0, <1>1, <1>2, AttFields, AskFields DEF Digest, AskOf
<1>4. PICK b : b = [native EXCEPT !.open = FALSE, !.ref = m, !.act = act, !.seen = d] /\ native' = b
 BY <1>2, <1>3 DEF ChildWrites
<1>5. b \in Native /\ ~b.open /\ b.ref = m /\ b.act = act /\ b.seen = d
 <2>1. b = [native EXCEPT !.open = FALSE, !.ref = m, !.act = act, !.seen = d] /\ native \in Native
  BY <1>0, <1>4 DEF AskType
 <2>2. m \in 0..Host BY BoundsAssumption DEF Msgs, Host
 <2> QED BY <2>1, <2>2 DEF Native
<1>6. /\ UNCHANGED <<asks, att, inbound, told, keyed, withdrawn, ops, latched, pending, verified, tool>>
      /\ UNCHANGED <<post, snapshot, up, unknown, stranded, troubles, job>> /\ child' = "wrote"
 BY DEF ChildWrites, store, source, gate, history
<1>7. AskType' BY <1>0, <1>4, <1>5, <1>6 DEF AskType
<1>8. CardsInv' /\ CountsInv' /\ SnapInv'
 BY <1>6 DEF AskInv, CardsInv, Filled, Single, Linked, OfCards, HeldOnes, AskOf, CountsInv, SnapInv
<1>9. Current(m)' /\ Current(m) BY <1>1, <1>2, <1>6 DEF Current, IsCurrent, AskOf
<1>10. BeadInv'
 <2>1. Digest(m)' = d /\ att'[m].act = act /\ att'[m].ask # 0 /\ m \in unknown'
  BY <1>1, <1>2, <1>3, <1>6 DEF Digest, AskOf
 <2> QED BY <1>4, <1>5, <1>9, <2>1 DEF BeadInv
<1>11. ToldInv'
 <2>1. \A k \in Msgs : "recorded" \notin told[k] BY HostIsNobody DEF AskInv, ToldInv, ChildWrites
 <2>2. \A k \in Msgs : Current(k)' <=> Current(k) BY <1>6 DEF Current, AskOf
 <2> QED BY <1>4, <1>5, <1>6, <1>9, <2>1, <2>2 DEF AskInv, ToldInv
<1>12. JobInv' BY <1>1, <1>6 DEF AskInv, JobInv, JobRuns, JobFirst, JobChild, JobHeld, JobRead, IsCurrent, AskOf
<1> QED BY <1>7, <1>8, <1>10, <1>11, <1>12 DEF AskInv

\* The HOLD: the child has written nothing.
LEMMA ChildHoldsStep == AskInv /\ ChildHolds => AskInv'
<1> SUFFICES ASSUME AskInv, ChildHolds PROVE AskInv' OBVIOUS
<1>0. AskType BY DEF AskInv
<1>1. /\ child = "running" /\ job.pc = "child" /\ job.m \in Msgs /\ att[job.m].ask # 0
      /\ job.how \in {"worker", "retried"} /\ IsCurrent(job.m, "deciding") /\ job.m \in unknown /\ native.ref # job.m
 BY <1>0, JobFields DEF ChildHolds, AskInv, JobInv, JobRuns, JobChild
<1>2. PICK m \in Msgs : m = job.m BY <1>1
<1>3. PICK i \in Asks : i = att[m].ask BY <1>0, <1>1, <1>2, AttFields
<1>4. asks[i] \in Ask /\ asks[i] = AskOf(m) /\ asks[i].status = "deciding" /\ asks[i].attempt = m
 BY <1>0, <1>1, <1>2, <1>3 DEF AskType, AskOf, IsCurrent
<1>5. PICK a : a = [asks[i] EXCEPT !.outcome = "maintenance-issuing"] /\ asks' = [asks EXCEPT ![i] = a]
 BY <1>2, <1>3, <1>4 DEF ChildHolds
<1>6. Alike(asks[i], a) /\ a.sent = asks[i].sent /\ a.hold = asks[i].hold
 <2>1. a = [asks[i] EXCEPT !.outcome = "maintenance-issuing"] /\ "maintenance-issuing" \in Outcomes
  BY <1>5 DEF Outcomes
 <2> QED BY <1>4, <2>1 DEF Ask, Alike
<1>7. /\ UNCHANGED <<att, inbound, told, native, keyed, withdrawn, ops, latched, pending, verified, tool>>
      /\ UNCHANGED <<post, snapshot, up, stranded>> /\ child' = "none" /\ unknown' = unknown \ {m}
      /\ job' = At("hold", m, job.r, job.how) /\ Trouble("hold") BY <1>2 DEF ChildHolds, source, gate
<1>8. /\ asks' \in [Asks -> Ask] /\ asks'[i] = a
      /\ \A j \in Asks : Stays(asks[j], asks'[j]) /\ asks'[j].hold = asks[j].hold
 BY <1>0, <1>5, <1>6 DEF AskType, Alike, Stays
<1>9. "hold" \in Pcs /\ job.how \in Hows /\ m \in 0..MaxMsgs /\ job.r \in Read
 BY <1>0, JobFields, BoundsAssumption DEF Pcs, Msgs
<1>10. job' \in JobType /\ job'.pc = "hold" /\ job'.m = m BY <1>7, <1>9, AtFields
<1>11. troubles' = troubles + 1 /\ troubles' \in 0..MaxTroubles /\ troubles \in Nat
 BY <1>0, <1>7, TroubleCounts, BoundsAssumption DEF AskType
<1>12. AskType' BY <1>0, <1>7, <1>8, <1>10, <1>11 DEF AskType
<1>13. Filled' /\ Single' /\ Linked' /\ OfCards' /\ BeadInv' /\ ToldInv' /\ SnapInv'
 BY <1>1, <1>2, <1>7, <1>8, <1>12, StoreStays DEF BeadKept
<1>14. HeldOnes' BY <1>7, <1>8 DEF AskInv, CardsInv, HeldOnes, Stays
<1>15. CountsInv'
 <2> SUFFICES ASSUME NEW k \in Msgs
              PROVE  /\ att[k].ask = 0 => att[k].inv = 0
                     /\ k \in unknown' => att[k].inv > 0
                     /\ att[k].inv <= troubles' + 1 /\ (k \notin unknown' => att[k].inv <= troubles')
                     /\ att[k].proof <= att[k].inv
                     /\ att[k].proof > 0 /\ att[k].proof = att[k].inv => k \notin unknown' BY <1>7 DEF CountsInv
 <2>1. att[k].inv \in Nat /\ att[k].proof \in Nat BY <1>0, AttFields
 <2> QED BY <1>7, <1>11, <2>1 DEF AskInv, CountsInv
<1>16. JobInv'
 <2>1. IsCurrent(m, "deciding")' BY <1>3, <1>4, <1>6, <1>7, <1>8 DEF IsCurrent, AskOf, Alike
 <2>2. m # 0 /\ att[m].inv > 0 /\ up BY <1>1, <1>2, HostIsNobody DEF AskInv, CountsInv, JobInv, JobRuns
 <2> QED BY <1>1, <1>2, <1>7, <1>10, <2>1, <2>2 DEF JobInv, JobRuns, JobFirst, JobChild, JobHeld, JobRead
<1> QED BY <1>12, <1>13, <1>14, <1>15, <1>16 DEF AskInv, CardsInv

------------------------------
\* The snapshot of a recovery names the attempts that are not closed, all of them.
LEMMA SnapshotSays ==
  ASSUME AskInv
  PROVE  /\ \A e \in RecoverySnapshot : /\ e \in Entries /\ att[e.m].ask = e.i
                                        /\ asks[e.i].attempt = e.m /\ asks[e.i].status = e.status
         /\ \A m \in Msgs : Current(m) => \E e \in RecoverySnapshot : e.m = m
<1>0. AskType BY DEF AskInv
<1>1. \A i \in Live : /\ i \in Asks /\ asks[i].status \in {"deciding", "uncertain"}
                      /\ asks[i].attempt \in Msgs /\ att[asks[i].attempt].ask = i
 BY <1>0, AskFields DEF Live, AskInv, CardsInv, Linked, Undecided
<1>2. ASSUME NEW e \in RecoverySnapshot
      PROVE  e \in Entries /\ att[e.m].ask = e.i /\ asks[e.i].attempt = e.m /\ asks[e.i].status = e.status
 <2>1. PICK i \in Live : e = [i |-> i, m |-> asks[i].attempt, status |-> asks[i].status] BY DEF RecoverySnapshot
 <2> QED BY <1>1, <2>1 DEF Entries
<1>3. ASSUME NEW m \in Msgs, Current(m)
      PROVE  \E e \in RecoverySnapshot : e.m = m
 <2>1. PICK i \in Asks : i = att[m].ask /\ asks[i].attempt = m /\ m # 0 BY <1>0, <1>3, AttFields DEF Current, AskOf
 <2>2. i \in Live BY <2>1 DEF AskInv, CardsInv, Linked, Undecided, Live
 <2>3. [i |-> i, m |-> asks[i].attempt, status |-> asks[i].status] \in RecoverySnapshot BY <2>2 DEF RecoverySnapshot
 <2> QED BY <2>1, <2>3
<1> QED BY <1>2, <1>3

\* A restart: what was taken up and has no open attempt is told that nothing was recorded.
LEMMA StartStep == AskInv /\ Start => AskInv'
<1> SUFFICES ASSUME AskInv, Start PROVE AskInv' OBVIOUS
<1>0. AskType BY DEF AskInv
<1>1. /\ UNCHANGED <<att, native, keyed, withdrawn, ops, pending, verified, job, post, child, unknown, stranded>>
      /\ ~up /\ up' = TRUE /\ tool' \in BOOLEAN /\ snapshot' = RecoverySnapshot
      /\ troubles' = troubles \/ Trouble("unconfigured")
      /\ asks' = Fenced \/ asks' = asks BY DEF Start, source, history
<1>2. latched' \in BOOLEAN BY <1>0 DEF Start, AskType
<1>3. troubles' \in 0..MaxTroubles /\ (troubles' = troubles \/ troubles' = troubles + 1)
 BY <1>0, <1>1, TroubleCounts DEF AskType
<1>4. /\ asks' \in [Asks -> Ask]
      /\ \A i \in Asks : Stays(asks[i], asks'[i]) /\ asks'[i].hold = asks[i].hold BY <1>0, <1>1, FencedFields
<1> DEFINE lost == {m \in Msgs : inbound[m] = "executing" /\ \A e \in RecoverySnapshot : e.m # m}
<1>5. /\ inbound' = [m \in Msgs |-> IF m \in lost THEN "dropped" ELSE inbound[m]]
      /\ told' = [m \in Msgs |-> IF m \in lost THEN told[m] \cup {"nothing"} ELSE told[m]] BY DEF Start
<1>6. \A m \in lost : m \in Msgs /\ inbound[m] = "executing" /\ ~Current(m) BY SnapshotSays
<1> HIDE DEF lost
<1>7. /\ inbound' \in [Msgs -> {"new", "executing", "done", "dropped"}] /\ told' \in [Msgs -> SUBSET Said]
      /\ \A m \in lost : inbound'[m] = "dropped" /\ told'[m] = told[m] \cup {"nothing"}
      /\ \A m \in Msgs \ lost : inbound'[m] = inbound[m] /\ told'[m] = told[m] BY <1>0, <1>5, <1>6 DEF AskType, Said
<1>8. snapshot' \subseteq Entries /\ \A e \in snapshot' : att[e.m].ask = e.i BY <1>1, SnapshotSays
<1>9. AskType' BY <1>0, <1>1, <1>2, <1>3, <1>4, <1>7, <1>8 DEF AskType
<1>10. \A m \in Msgs : Current(m)' <=> Current(m) BY <1>0, <1>1, <1>4, AttFields DEF Current, AskOf, Stays
<1>11. \A m \in Msgs : Answered(m)
 <2> SUFFICES ASSUME NEW m \in Msgs PROVE Answered(m) OBVIOUS
 <2>1. CASE m \notin lost BY <1>7, <2>1 DEF Answered
 <2>2. CASE m \in lost
  <3>1. native.ref # m BY <1>6, <2>2 DEF AskInv, BeadInv
  <3> QED BY <1>6, <1>7, <1>10, <2>2, <3>1 DEF Answered, Said
 <2> QED BY <2>1, <2>2
<1>12. \A m \in Msgs : att'[m].inv >= att[m].inv BY <1>0, <1>1, AttFields
<1>13. Filled' /\ Single' /\ \A i \in Asks : Moves(asks[i], asks'[i])
 BY <1>4 DEF AskInv, CardsInv, Filled, Single, Moves, Stays
<1>14. CardsInv' /\ BeadInv' /\ ToldInv' BY <1>1, <1>9, <1>10, <1>11, <1>12, <1>13, CardsMoveOn
<1>15. troubles' >= troubles BY <1>0, <1>3, BoundsAssumption DEF AskType
<1>16. CountsInv' BY <1>1, <1>9, <1>15, CountsStay
<1>17. SnapInv' BY <1>1, <1>8 DEF SnapInv
<1>18. JobInv' BY <1>1 DEF AskInv, JobInv, JobRuns, JobFirst, JobChild, JobHeld, JobRead
<1> QED BY <1>9, <1>14, <1>16, <1>17, <1>18 DEF AskInv

\* reconcile_one reads back, leaves it, or says that the outcome is unknown.
LEMMA ReconcileOneStep ==
  ASSUME AskInv, up, job = Free, NEW e \in Entries, att[e.m].ask = e.i, ReconcileOne(e),
    snapshot' \subseteq snapshot, att' \in [Msgs -> Attempt],
    \A k \in Msgs : /\ att'[k].ask = att[k].ask /\ att'[k].act = att[k].act /\ att'[k].inv = att[k].inv
                    /\ att'[k].proof = att[k].proof,
    UNCHANGED <<asks, native, source, gate, post, child, up, history, troubles>>
  PROVE  AskInv'
<1>0. AskType BY DEF AskInv
<1>1. UNCHANGED <<keyed, withdrawn, ops, latched, pending, verified, tool, unknown, stranded>>
 BY DEF source, gate, history
<1>2. child = "none" BY DEF AskInv, JobInv, JobRuns, Free, At
<1>3. e.i \in Asks /\ e.m \in Msgs /\ e.status \in {"deciding", "uncertain"} /\ e.i # 0
 BY BoundsAssumption DEF Entries, Asks
<1>4. PICK m \in Msgs : m = e.m /\ att[m].ask # 0 BY <1>3
<1>5. job' \in JobType /\ JobInv'
 <2>1. CASE job' = job BY <1>0, <1>2, <2>1, FreeKnows
 <2>2. CASE \E how \in {"issuing", "deciding", "uncertain"} : job' = At("back", m, NotRead("fail"), how)
  <3>1. PICK how \in {"issuing", "deciding", "uncertain"} : job' = At("back", m, NotRead("fail"), how) BY <2>2
  <3>2. "back" \in Pcs /\ how \in Hows \ {"retry", "withdrawn"} /\ m \in 0..MaxMsgs /\ NotRead("fail") \in Read
   BY BeadFields, BoundsAssumption DEF Pcs, Hows, Msgs
  <3>3. job' \in JobType /\ job'.pc = "back" /\ job'.m = m /\ job'.how = how BY <3>1, <3>2, AtFields
  <3> QED BY <1>0, <1>2, <1>4, <3>2, <3>3, BackKnows
 <2> QED BY <1>3, <1>4, <2>1, <2>2 DEF ReconcileOne
<1>6. \/ UNCHANGED <<inbound, told>>
      \/ /\ inbound' = [inbound EXCEPT ![m] = "done"] /\ told' = [told EXCEPT ![m] = told[m] \cup {"unknown"}]
 BY <1>4 DEF ReconcileOne, Answer
<1>7. /\ inbound' \in [Msgs -> {"new", "executing", "done", "dropped"}] /\ told' \in [Msgs -> SUBSET Said]
      /\ \A k \in Msgs : Answered(k)
 <2>1. CASE UNCHANGED <<inbound, told>> BY <1>0, <2>1 DEF AskType, Answered
 <2>2. CASE /\ inbound' = [inbound EXCEPT ![m] = "done"] /\ told' = [told EXCEPT ![m] = told[m] \cup {"unknown"}]
  BY <1>0, <2>2 DEF AskType, Answered, Said
 <2> QED BY <1>6, <2>1, <2>2
<1>8. AskType' BY <1>0, <1>1, <1>5, <1>7 DEF AskType
<1>9. \A k \in Msgs : Current(k)' <=> Current(k) BY DEF Current, AskOf
<1>10. \A k \in Msgs : att'[k].inv >= att[k].inv BY <1>0, AttFields
<1>11. Filled' /\ Single' /\ \A i \in Asks : Moves(asks[i], asks'[i])
 BY DEF AskInv, CardsInv, Filled, Single, Moves, Stays
<1>12. CardsInv' /\ BeadInv' /\ ToldInv' BY <1>1, <1>7, <1>8, <1>9, <1>10, <1>11, CardsMoveOn
<1>13. troubles' >= troubles BY <1>0, BoundsAssumption DEF AskType
<1>14. CountsInv' BY <1>1, <1>8, <1>13, CountsStay
<1>15. SnapInv' BY <1>0 DEF AskInv, AskType, SnapInv, Entries
<1> QED BY <1>5, <1>8, <1>12, <1>14, <1>15 DEF AskInv

\* The reconcile after a restart, and the one of `!asks'.
LEMMA ReconcileStep == ASSUME AskInv, NEW e \in Entries, Reconcile(e) \/ ListAsks(e) PROVE AskInv'
<1>0. AskType BY DEF AskInv
<1>1. /\ up /\ job = Free /\ ReconcileOne(e) /\ snapshot' \subseteq snapshot
      /\ UNCHANGED <<asks, native, source, gate, post, child, up, history, troubles>> BY DEF Reconcile, ListAsks
<1>2. att[e.m].ask = e.i /\ e.m \in Msgs BY SnapshotSays DEF Reconcile, ListAsks, AskInv, SnapInv, Entries
<1>3. PICK m \in Msgs : m = e.m BY <1>2
<1>4. PICK u : u = Publish(asks[e.i], att[m], TRUE) OBVIOUS
<1>5. att' = att \/ att' = [att EXCEPT ![m] = u] BY <1>3, <1>4 DEF Reconcile, ListAsks
<1>6. u \in Attempt /\ u.ask = att[m].ask /\ u.act = att[m].act /\ u.inv = att[m].inv /\ u.proof = att[m].proof
 <2>1. PICK t, a : t \in Attempt /\ t = att[m] /\ a = asks[e.i] BY <1>0 DEF AskType
 <2>2. u = Publish(a, t, TRUE) BY <1>4, <2>1
 <2>3. u \in Attempt /\ u.ask = t.ask /\ u.act = t.act /\ u.inv = t.inv /\ u.proof = t.proof
  <3>1. CASE u = t BY <2>1, <3>1
  <3>2. CASE u = [t EXCEPT !.notice = t.proof] BY <2>1, <3>2 DEF Attempt
  <3> QED BY <2>2, <3>1, <3>2 DEF Publish
 <2> QED BY <2>1, <2>3
<1>7. /\ att' \in [Msgs -> Attempt]
      /\ \A k \in Msgs : /\ att'[k].ask = att[k].ask /\ att'[k].act = att[k].act /\ att'[k].inv = att[k].inv
                         /\ att'[k].proof = att[k].proof BY <1>0, <1>5, <1>6 DEF AskType
<1> QED BY <1>1, <1>2, <1>7, ReconcileOneStep

------------------------------
\* The invariant holds with no card posted.
LEMMA ApprovalInitInv == Init => AskInv
<1> SUFFICES ASSUME Init PROVE AskInv OBVIOUS
<1>1. PICK a : a = [status |-> "none", digest |-> Any, outcome |-> "text", attempt |-> 0, sent |-> "none", hold |-> "none"]
 OBVIOUS
<1>2. a \in Ask /\ a.status = "none" /\ a.attempt = 0 /\ a.hold = "none"
 BY <1>1, BeadFields, BoundsAssumption DEF Ask, Statuses, Outcomes
<1>3. PICK o \in Operators : o = CHOOSE x \in Operators : TRUE BY BoundsAssumption
<1>4. PICK t : t = NewAttempt(0, "approve", o) OBVIOUS
<1>5. t \in Attempt /\ t.ask = 0 /\ t.inv = 0 /\ t.proof = 0
 <2>1. 0 \in 0..MaxAsks BY BoundsAssumption
 <2> QED BY <1>4, <2>1, NewAttemptFields
<1>6. asks = [i \in Asks |-> a] /\ att = [m \in Msgs |-> t] BY <1>1, <1>3, <1>4 DEF Init
<1>7. native \in Native /\ native.ref = 0 BY BeadFields DEF Init
<1>8. inbound \in [Msgs -> {"new", "executing", "done", "dropped"}] /\ told \in [Msgs -> SUBSET Said]
 BY DEF Init, Said
<1>9. job \in JobType /\ job.pc = "free" /\ post \in PostType
 BY BeadFields, BoundsAssumption DEF Init, Free, Idle, At, JobType, PostType, Pcs, Hows
<1>10. asks \in [Asks -> Ask] /\ att \in [Msgs -> Attempt] /\ troubles \in 0..MaxTroubles
 BY <1>2, <1>5, <1>6, BoundsAssumption DEF Init
<1>11. AskType BY <1>7, <1>8, <1>9, <1>10 DEF AskType, Init
<1>12. \A i \in Asks : asks[i].status = "none" /\ asks[i].attempt = 0 /\ asks[i].hold = "none" /\ ~(i <= 0)
 BY <1>2, <1>6, BoundsAssumption DEF Asks
<1>13. \A m \in Msgs : att[m].ask = 0 /\ att[m].inv = 0 /\ att[m].proof = 0 BY <1>5, <1>6
<1>14. Filled
 <2>1. 0 \in 0..MaxAsks BY BoundsAssumption
 <2> QED BY <1>12, <2>1 DEF Filled
<1>15. CardsInv BY <1>12, <1>13, <1>14 DEF CardsInv, Single, Linked, OfCards, HeldOnes, Undecided
<1>16. CountsInv BY <1>13, BoundsAssumption DEF CountsInv, Init
<1>17. BeadInv BY <1>7, HostIsNobody DEF BeadInv
<1>18. ToldInv /\ SnapInv BY <1>13 DEF ToldInv, SnapInv, Init
<1>19. JobInv BY <1>9 DEF JobInv, JobRuns, JobFirst, JobChild, JobHeld, JobRead, Init
<1> QED BY <1>11, <1>15, <1>16, <1>17, <1>18, <1>19 DEF AskInv

\* Nothing happens.
LEMMA ApprovalStutter == AskInv /\ UNCHANGED vars => AskInv'
<1> SUFFICES ASSUME AskInv, UNCHANGED vars PROVE AskInv' OBVIOUS
<1>0. AskType BY DEF AskInv
<1>1. /\ UNCHANGED <<asks, att, inbound, told, native, keyed, withdrawn, ops, latched, pending, verified, tool>>
      /\ UNCHANGED <<job, post, child, snapshot, up, unknown, stranded, troubles>>
 BY DEF vars, store, source, gate, history
<1>2. AskType' BY <1>0, <1>1 DEF AskType
<1> QED BY <1>1, <1>2, QuietStep DEF BeadKept

\* Every step keeps the invariant.
LEMMA ApprovalNextInv == AskInv /\ [Next]_vars => AskInv'
<1> SUFFICES ASSUME AskInv, [Next]_vars PROVE AskInv' OBVIOUS
<1>1. CASE Posting BY <1>1, WorldStep, PostCommitsStep DEF Posting
<1>2. CASE Deciding BY <1>2, DecideStep, ReadsStep, CheckClosesStep, MovesOnStep, IssuesStep DEF Deciding
<1>3. CASE ChildWrites \/ ChildExits \/ ChildHolds BY <1>3, ChildWritesStep, MovesOnStep, ChildHoldsStep
<1>4. CASE Settling BY <1>4, HoldCommitsStep, ReadsStep, SettlesStep, RetryHoldsStep, IssuesStep DEF Settling
<1>5. CASE RefreshSettles \/ Start \/ GroupChecked BY <1>5, RefreshStep, StartStep, WorldStep
<1>6. CASE World
 BY <1>6, EndStep, WorldStep, RearmStep, CheckNotSpawnedStep, RetryNotSpawnedStep, WithdrawStep DEF World
<1>7. CASE \E i \in Asks : Cancel(i) \/ Deliver(i) \/ RetryBegins(i) \/ Tick(i)
 BY <1>7, CancelStep, DeliverStep, RetryBeginsStep
<1>8. CASE \E m \in Msgs : DeliverNotice(m) \/ Receive(m) \/ RetireBegins(m)
 BY <1>8, NoticeStep, ReceiveStep, RetireBeginsStep
<1>9. CASE \E e \in Entries : Reconcile(e) \/ ListAsks(e) BY <1>9, ReconcileStep
<1>10. CASE UNCHANGED vars BY <1>10, ApprovalStutter
<1> QED BY <1>1, <1>2, <1>3, <1>4, <1>5, <1>6, <1>7, <1>8, <1>9, <1>10 DEF Next

\* The invariant holds of every behaviour.
LEMMA ApprovalAlways == Spec => []AskInv
BY ApprovalInitInv, ApprovalNextInv, PTL DEF Spec

\* At most one card of a bead can still lead to a decision, however many are posted, refreshed
\* and withdrawn: post_approval and refresh look for a decision in flight again after their reads.
THEOREM OneCardActive == Spec => []OneActive
BY ApprovalAlways, AskInvSays, PTL

\* Whatever crashed, failed or was delayed, "nothing was recorded" is said only of a decision
\* that is not and will not be on the bead, and "recorded" only of one that is.
THEOREM AnswersAlwaysTrue == Spec => []AnswersTrue
BY ApprovalAlways, AskInvSays, PTL

\* The card and the bead agree: a decision on the bead is being settled or has its card's
\* status, an approval was shown in full, a proof of non-issuance is right (settle, R8, record_hold).
THEOREM DecisionsOnRecord == Spec => []DecisionOnRecord
BY ApprovalAlways, AskInvSays, PTL

------------------------------
\* A step that changes one attempt at most, and counts a run of it only if none is in doubt.
RunsKnown == \A k \in Msgs : att'[k].inv > att[k].inv => k \notin unknown
\* One attempt is changed, and its runs counted only if none is in doubt.
LEMMA OneAttempt ==
  ASSUME AskType, NEW m \in Msgs, NEW t, att' = [att EXCEPT ![m] = t], t.inv = att[m].inv \/ m \notin unknown
  PROVE  RunsKnown
<1>1. \A k \in Msgs : att[k].inv \in Nat /\ (k # m => att'[k] = att[k]) /\ att'[m] = t BY AttFields DEF AskType
<1> QED BY <1>1 DEF RunsKnown

\* No attempt is changed.
LEMMA NoAttempt == ASSUME AskType, att' = att PROVE RunsKnown
<1>1. \A k \in Msgs : att[k].inv \in Nat BY AttFields
<1> QED BY <1>1 DEF RunsKnown

\* close_attempt counts no run.
LEMMA CloseCounts ==
  ASSUME AskType, NEW m \in Msgs, NEW expect, NEW settled, NEW new, NEW status,
    CloseAttempt(m, expect, settled, new, status)
  PROVE  RunsKnown
<1>1. CASE att' = att BY <1>1, NoAttempt
<1>2. CASE att' = [att EXCEPT ![m] = ClosedAttempt(m, settled)]
 <2>1. PICK t : t = ClosedAttempt(m, settled) OBVIOUS
 <2>2. t.inv = att[m].inv BY <2>1 DEF ClosedAttempt
 <2> QED BY <1>2, <2>1, <2>2, OneAttempt
<1> QED BY <1>1, <1>2 DEF CloseAttempt, store

\* hold_maintenance counts no run but the one that was not spawned.
LEMMA HoldCounts ==
  ASSUME AskType, NEW m \in Msgs, NEW outcome, NEW t \in Attempt, HoldAs(m, outcome, t),
    t.inv = att[m].inv \/ m \notin unknown
  PROVE  RunsKnown
<1>1. PICK a, u : u = Publish(a, t, outcome = "held") /\ att' = [att EXCEPT ![m] = u] BY DEF HoldAs
<1>2. u.inv = t.inv BY <1>1, PublishFields
<1> QED BY <1>1, <1>2, OneAttempt

\* Every step counts a run of approve-bead only for a decision whose earlier runs all answered HOLD.
LEMMA RunsCounted == AskInv /\ [Next]_vars => RunsKnown
<1> SUFFICES ASSUME AskInv, [Next]_vars PROVE RunsKnown OBVIOUS
<1>0. AskType BY DEF AskInv
<1>m. job.pc \notin {"free"} => job.m \in Msgs BY <1>0, JobFields DEF AskInv, JobInv, JobRuns
<1>1. CASE att' = att BY <1>0, <1>1, NoAttempt
<1>2. CASE CheckIssues \/ RetryIssues \/ CheckNotSpawned \/ RetryNotSpawned
 <2>1. job.m \in Msgs /\ job.m \notin unknown
  <3>1. CASE CheckIssues \/ CheckNotSpawned BY <3>1, CheckSays DEF CheckIssues, CheckNotSpawned
  <3>2. CASE RetryIssues \/ RetryNotSpawned
   <4>1. job.pc = "settle" /\ job.how = "retry" BY <3>2 DEF RetryIssues, RetryNotSpawned, RetryReady
   <4>2. PICK i \in Asks : asks[i].hold # "none" /\ job.m = asks[i].attempt BY <4>1, RetrySays
   <4> QED BY <4>2, HeldSays
  <3> QED BY <1>2, <3>1, <3>2
 <2>2. PICK m \in Msgs : m = job.m BY <2>1
 <2>3. \E t : att' = [att EXCEPT ![m] = t]
  BY <1>2, <2>2 DEF CheckIssues, RetryIssues, CheckNotSpawned, RetryNotSpawned, Issue, HoldAs
 <2> QED BY <1>0, <2>1, <2>2, <2>3, OneAttempt
<1>3. CASE /\ job.pc # "free"
           /\ \E expect, settled, new, status : CloseAttempt(job.m, expect, settled, new, status)
 <2>1. PICK m \in Msgs : m = job.m BY <1>3, <1>m
 <2>2. PICK expect, settled, new, status : CloseAttempt(m, expect, settled, new, status) BY <1>3, <2>1
 <2> QED BY <1>0, <2>2, CloseCounts
<1>4. CASE RefreshSettles
 <2>1. PICK m \in Msgs, h \in Hows : m = job.m /\ h = job.how BY <1>0, <1>4, <1>m, JobFields DEF RefreshSettles
 <2>2. PICK t : t = ClosedAttempt(m, h) /\ att' = [att EXCEPT ![m] = t] BY <1>4, <2>1 DEF RefreshSettles
 <2>3. t.inv = att[m].inv BY <2>2 DEF ClosedAttempt
 <2> QED BY <1>0, <2>2, <2>3, OneAttempt
<1>5. CASE Decide
 <2>1. PICK m \in Msgs : m = job.m /\ att[m].ask = 0 BY <1>5, <1>m DEF Decide, AskInv, JobInv, JobRuns
 <2>2. att[m].inv = 0 BY <2>1 DEF AskInv, CountsInv
 <2>3. att' = att \/ \E i \in Asks, act \in {"approve", "deny"}, o \in Operators : att' = [att EXCEPT ![m] = NewAttempt(i, act, o)]
  BY <1>5, <2>1 DEF Decide, Begin
 <2>4. \A i, act, o : NewAttempt(i, act, o).inv = 0 BY DEF NewAttempt
 <2> QED BY <1>0, <1>1, <2>2, <2>3, <2>4, OneAttempt
<1>6. CASE RetryHolds
 <2>1. PICK m \in Msgs, t \in Attempt : m = job.m /\ t = att[m] BY <1>0, <1>6, <1>m DEF RetryHolds, AskType
 <2>2. PICK outcome : HoldAs(m, outcome, t) BY <1>6, <2>1 DEF RetryHolds
 <2> QED BY <1>0, <2>1, <2>2, HoldCounts
<1>7. CASE HoldCommits
 <2>1. PICK m \in Msgs : m = job.m /\ m \notin unknown BY <1>7, <1>m DEF HoldCommits, AskInv, JobInv, JobChild
 <2>2. \E t : att' = [att EXCEPT ![m] = t] BY <1>7, <2>1 DEF HoldCommits, HoldAs
 <2> QED BY <1>0, <2>1, <2>2, OneAttempt
<1>8. CASE \E i \in Asks : RetryBegins(i)
 <2>1. PICK i \in Asks : RetryBegins(i) BY <1>8
 <2>2. PICK m \in Msgs : m = asks[i].attempt /\ m \notin unknown BY <2>1, HeldSays DEF RetryBegins
 <2>3. att' = att \/ \E t : att' = [att EXCEPT ![m] = t] BY <2>1, <2>2 DEF RetryBegins, HoldAs
 <2> QED BY <1>0, <1>1, <2>2, <2>3, OneAttempt
<1>9. CASE \E m \in Msgs : DeliverNotice(m)
 <2>1. PICK m \in Msgs : DeliverNotice(m) BY <1>9
 <2>2. PICK t : t = [att[m] EXCEPT !.shown = att[m].notice] /\ att' = [att EXCEPT ![m] = t] BY <2>1 DEF DeliverNotice
 <2>3. t.inv = att[m].inv
  <3>1. t = [att[m] EXCEPT !.shown = att[m].notice] /\ att[m] \in Attempt BY <1>0, <2>2, AttFields
  <3> QED BY <3>1 DEF Attempt
 <2> QED BY <1>0, <2>2, <2>3, OneAttempt
<1>10. CASE \E e \in Entries : ListAsks(e)
 <2>1. PICK e \in Entries : ListAsks(e) BY <1>10
 <2>2. PICK m, t, a : m \in Msgs /\ t \in Attempt /\ m = e.m /\ t = att[m] /\ a = asks[e.i]
  BY <1>0 DEF Entries, AskType
 <2>3. att' = att \/ att' = [att EXCEPT ![m] = Publish(a, t, TRUE)] BY <2>1, <2>2 DEF ListAsks
 <2>4. PICK u : u = Publish(a, t, TRUE) OBVIOUS
 <2>5. u.inv = t.inv
  <3>1. CASE u = t BY <3>1
  <3>2. CASE u = [t EXCEPT !.notice = t.proof] BY <3>2 DEF Attempt
  <3> QED BY <2>4, <3>1, <3>2 DEF Publish
 <2> QED BY <1>0, <1>1, <2>2, <2>3, <2>4, <2>5, OneAttempt
<1>11. CASE CheckRefuses \/ CheckDenied \/ ReconcileSettles \/ RetryEnds \/ RetryWithdrawn
 BY <1>3, <1>11 DEF CheckRefuses, CheckDenied, ReconcileSettles, RetryEnds, RetryWithdrawn, Undecided
<1>12. CASE AttemptSettles \/ RetireSettles \/ IssuingHeld
 BY <1>1, <1>3, <1>12 DEF AttemptSettles, RetireSettles, IssuingHeld, IssuingStays, store, Undecided
<1>13. CASE Posting \/ World \/ Start \/ GroupChecked
 <2>1. CASE Posting
  <3>1. CASE PostBegins \/ PostReads BY <1>1, <3>1 DEF PostBegins, PostReads, store
  <3>2. CASE PostCommits BY <1>1, <3>2 DEF PostCommits
  <3> QED BY <2>1, <3>1, <3>2 DEF Posting
 <2>2. CASE Start \/ GroupChecked BY <1>1, <2>2 DEF Start, GroupChecked, store
 <2>3. CASE Crash \/ Fault \/ NativeEdited \/ NativeDecided \/ NativeGated
  BY <1>1, <2>3 DEF Crash, Fault, NativeEdited, NativeDecided, NativeGated, store
 <2>4. CASE PolicyEdited \/ GroupLost \/ ChangeMembership \/ Rearm \/ Withdraw
  BY <1>1, <2>4 DEF PolicyEdited, GroupLost, ChangeMembership, Rearm, Withdraw, store
 <2> QED BY <1>2, <1>13, <2>1, <2>2, <2>3, <2>4 DEF World
<1>14. CASE Deciding BY <1>1, <1>2, <1>5, <1>11, <1>14 DEF Deciding, AttemptReads, CheckStale, store
<1>15. CASE ChildWrites \/ ChildExits \/ ChildHolds BY <1>1, <1>15 DEF ChildWrites, ChildExits, ChildHolds, store
<1>16. CASE Settling BY <1>1, <1>2, <1>6, <1>7, <1>11, <1>12, <1>16 DEF Settling, BackReads, store
<1>17. CASE \E i \in Asks : Cancel(i) \/ Deliver(i) \/ RetryBegins(i) \/ Tick(i)
 BY <1>1, <1>8, <1>17 DEF Cancel, Deliver, Tick
<1>18. CASE \E m \in Msgs : DeliverNotice(m) \/ Receive(m) \/ RetireBegins(m)
 BY <1>1, <1>9, <1>18 DEF Receive, RetireBegins, store
<1>19. CASE \E e \in Entries : Reconcile(e) \/ ListAsks(e) BY <1>1, <1>10, <1>19 DEF Reconcile
<1>20. CASE UNCHANGED vars BY <1>1, <1>20 DEF vars, store
<1> QED BY <1>4, <1>13, <1>14, <1>15, <1>16, <1>17, <1>18, <1>19, <1>20 DEF Next

\* approve-bead runs again for a decision only if every run before it answered HOLD: no crash,
\* failed write, restart or read-back grants a second run (issue_decision, mark_maintenance_issuing).
THEOREM RunsNeverReplay == Spec => NoReplay
<1>1. AskInv /\ [Next]_vars => [\A m \in Msgs : att'[m].inv > att[m].inv => m \notin unknown]_vars
 BY RunsCounted DEF RunsKnown
<1> QED BY <1>1, ApprovalAlways, PTL DEF Spec, NoReplay

\* The child is launched only with the authority and consent of that moment: whoever launches it
\* has looked at both after its last await (run_attempt, retry_maintenance).
THEOREM ChildOnAuthority == Spec => IssuedOnAuthority
<1>1. ASSUME [Next]_vars, child = "none", child' = "running"
      PROVE  Authorised(att[job.m].op) /\ ~withdrawn
 <2>1. CheckIssues \/ RetryIssues
  BY <1>1 DEF Next, Posting, World, Deciding, Settling, PostBegins, PostReads, PostCommits, Start, GroupChecked,
    Crash, Fault, NativeEdited, NativeDecided, NativeGated, PolicyEdited, GroupLost, ChangeMembership, Rearm,
    Withdraw, Decide, AttemptReads, CheckRefuses, CheckStale, CheckDenied, CheckNotSpawned, ChildWrites, ChildExits,
    ChildHolds, HoldCommits, BackReads, AttemptSettles, ReconcileSettles, IssuingHeld, RetryEnds, RetryHolds,
    RetryWithdrawn, RetireSettles, RefreshSettles, RetryNotSpawned, Cancel, Deliver, RetryBegins, Tick,
    DeliverNotice, Receive, RetireBegins, Reconcile, ListAsks, vars
 <2> QED BY <2>1 DEF CheckIssues, RetryIssues, RetryReady, Authority, Authorised
<1>2. [Next]_vars => [child = "none" /\ child' = "running" => Authorised(att[job.m].op) /\ ~withdrawn]_vars BY <1>1
<1> QED BY <1>2, PTL DEF Spec, IssuedOnAuthority
==============================
