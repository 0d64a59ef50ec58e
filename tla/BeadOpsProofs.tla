--------------------------- MODULE BeadOpsProofs ---------------------------
(***************************************************************************)
(* Theorems about BeadOps, for any limits and any number of deferrals and  *)
(* disturbances: rows, operations and records agree through every crash, a *)
(* bead that waits has no session, and no bead of ours is forgotten.       *)
(***************************************************************************)
EXTENDS BeadOps, TLAPS

Deferring == op.step \in DeferSteps

\* The steps of each kind of operation, besides the ones of a defer within it.
OpShape ==
    /\ op.kind = "none" => op = NoOp
    /\ op.kind = "escalate" => op.step = "intent"
    /\ op.kind = "pickup" => Deferring \/ op.step \in {"intent", "claimed", "placed", "worktree"}
    /\ op.kind = "park" => Deferring \/ op.step \in {"intent", "stopped", "committed", "blocked", "labelled"}
    /\ op.kind = "resume" => Deferring \/ op.step \in {"intent", "unlabelled"}
    /\ op.kind = "undefer" => Deferring \/ op.step \in {"intent", "gated", "unlabelled"}
    /\ op.kind = "release" => Deferring \/ op.step \in {"intent", "unlabelled", "regate"}

\* The row while an operation is open.
RowOfOp ==
    /\ Parking => row = "PARKING"
    /\ ~Deferring =>
        /\ op.kind \in {"resume", "undefer"} => row = "RESUMING"
        /\ op.kind = "escalate" => row = "STUCK"
        /\ op.kind = "pickup" => row = (IF op.step \in {"intent", "claimed"} THEN "CLAIMING" ELSE "STARTING")
        /\ op.kind = "release" => IF op.step = "regate" THEN row = "DEFERRED" ELSE row \in Keep
    /\ op.kind = "none" => row \notin {"CLAIMING", "STARTING", "PARKING", "RESUMING"}

\* wsd works only on an open operation, in a pass or a call, and remembers an effect only while it works; a
\* report stays in the queue while it is handled.
ControlKnows ==
    /\ busy => op.kind # "none" /\ pc \notin {"down", "idle"}
    /\ busy /\ pc = "signals" => signals # <<>>
    /\ ~busy => did = "no" \/ (did = "done" /\ pc \in {"sweep", "resweep"} /\ op.kind = "none")

\* What defers or ends a deferral has its record.
Recorded == (Deferring \/ op.kind = "undefer" => defers # <<>>) /\ DeferredOnRecord

\* Only a claim that was read back in vain is uncertain.
HoldKnows == chold => op.kind = "pickup" /\ op.step = "intent" /\ did # "call"

\* The operation is at the launch guard's step.
Launching == \/ op.kind = "pickup" /\ op.step = "worktree"
             \/ op.kind \in {"resume", "undefer"} /\ op.step = "unlabelled"

\* Where the operation has seen the session stopped, and the work committed.
SessionGone ==
    \/ op.kind = "park" /\ op.step \notin {"intent", "d.recorded"}
    \/ Deferring /\ op.step # "d.recorded"
    \/ StopStep /\ did = "done"
    \/ op.kind = "resume" /\ op.step = "intent"
    \/ op.kind = "undefer" /\ op.step \in {"intent", "gated"}
    \/ op.kind = "release" /\ op.step = "regate" /\ ~touched
    \/ Launching /\ did = "done"
WorkKept ==
    \/ op.step \in {"committed", "blocked", "labelled", "d.committed", "d.confirmed", "d.labelled"}
    \/ CommitStep /\ did = "done"
Stops == (SessionGone => ~sess) /\ (WorkKept => work = "clean")

\* Where `v2:deferred' is off.
NotDeferred ==
    \/ op.kind = "none" /\ row \in {"PARKED", "WAITING_INPUT", "RUNNING"}
    \/ op.kind \in {"pickup", "park", "resume"} /\ ~Deferring
    \/ op.kind = "undefer" /\ op.step = "unlabelled"
    \/ op.kind = "undefer" /\ op.step = "gated" /\ did = "done"

\* What the bead's labels and claim say as long as only wsd changes them.
BeadKnown ==
    ~touched =>
        /\ claim \in {"free", "ours"} /\ (claim = "free" => labels = {})
        /\ sess => "parked" \notin labels /\ "deferred" \notin labels
        /\ NotDeferred => "deferred" \notin labels
        /\ Launching /\ did = "call" => "parked" \notin labels
        /\ op.kind = "escalate" /\ did = "done" => "human" \in labels
        /\ op.kind = "pickup" /\ op.step = "intent" /\ did = "call" => claim = "free"
        /\ row = "STUCK" /\ why \in Unlisted => claim = "free"

BeadInv ==
    /\ TypeOK /\ OperationsLegal /\ OpShape /\ RowOfOp /\ ControlKnows /\ Recorded /\ HoldKnows /\ Stops
    /\ BeadKnown /\ WaitingIsQuiet /\ NoOrphanClaim /\ StuckAsksHuman

------------------------------
\* Facts about the tables and the operations.
LEMMA AfterIs ==
  /\ DOMAIN After = {"recover", "resweep", "signals", "sweep", "replay", "cands", "ready", "call"}
  /\ \A p \in DOMAIN After : After[p] \in {"resweep", "idle", "signals", "replay", "cands", "ready"}
BY DEF After

LEMMA Allowed ==
  /\ \A s \in {"CLAIMING", "STARTING", "PARKING", "RESUMING", "HELD", "STUCK", "DEFERRED"} : allowed(s, "STUCK")
  /\ \A s \in {"STARTING", "PARKING", "RESUMING", "HELD", "STUCK"}, t \in Waiting : allowed(s, t)
  /\ \A s \in {"STARTING", "RUNNING", "PARKED", "RESUMING", "DEFERRED"} : allowed(s, "PARKING")
  /\ \A s \in {"STARTING", "RESUMING"} : allowed(s, "RUNNING")
  /\ \A s \in {"HELD", "STUCK", "PARKING", "RESUMING", "DEFERRED"} : allowed(s, "DEFERRED")
  /\ \A s \in {"HELD", "STUCK", "RUNNING", "PARKED", "WAITING_INPUT", "DEFERRED"} : allowed(s, "RESUMING")
  /\ allowed("CLAIMING", "DROPPED") /\ allowed("CLAIMING", "STARTING")
  /\ \A s \in BeadStates : allowed(s, s)
BY DEF allowed, ALLOWED, Waiting, ParkedLike, BeadStates

LEMMA NewOpIs ==
  ASSUME NEW kind \in Kinds, NEW step \in Steps
  PROVE  /\ NewOp(kind, step) \in Op /\ NewOp(kind, step).kind = kind /\ NewOp(kind, step).step = step
BY LimitsAssumption, BoundsAssumption DEF NewOp, Op

LEMMA NoOpIs == NoOp \in Op /\ NoOp.kind = "none" /\ NoOp.step = "intent"
BY NewOpIs DEF NoOp, Kinds, Steps

\* The type of the state, one variable at a time.
Flags ==
    /\ op \in Op /\ row \in BeadStates /\ why \in Whys
    /\ defers \in Seq({"quota", "account"}) /\ Len(defers) <= MaxDefers
    /\ over \in BOOLEAN /\ rhold \in BOOLEAN /\ chold \in BOOLEAN /\ limbo \in BOOLEAN /\ routed \in BOOLEAN
    /\ sess \in BOOLEAN /\ up \in BOOLEAN /\ due \in BOOLEAN /\ busy \in BOOLEAN /\ touched \in BOOLEAN
    /\ illegal \subseteq {"operation", "report"}
    /\ labels \subseteq Labels /\ blockers \subseteq Blockers /\ claim \in Claims
    /\ work \in {"clean", "dirty"} /\ did \in {"no", "done", "call", "asked", "rcpt"}
    /\ pc \in {"recover", "resweep", "signals", "sweep", "replay", "cands", "ready", "call", "down", "idle"}
    /\ signals \in Seq({"taint", "limit"})

LEMMA TypeFlags == (TypeOK <=> Flags) /\ (TypeOK' <=> Flags')
BY AfterIs DEF TypeOK, Flags

USE DEF Waiting, Keep, Unlisted, DeferSteps, Deferring, journal, records, holds, bead, world, control, history

\* Parker._finish.
LEMMA FinishKept ==
  ASSUME BeadInv, NEW state \in BeadStates, NEW reason \in Whys, Finish(state, reason), busy, ~chold,
    allowed(row, state), state \notin {"CLAIMING", "STARTING", "PARKING", "RESUMING"},
    state = "DEFERRED" => defers # <<>> /\ reason = Current,
    state \in Waiting \cup {"DEFERRED"} /\ ~touched => ~sess,
    state \in {"PARKED", "WAITING_INPUT", "RUNNING"} /\ ~touched => "deferred" \notin labels,
    state \in {"NONE", "DROPPED", "CLOSED"} /\ ~touched => claim # "ours",
    state = "STUCK" /\ claim = "ours" /\ ~touched => "human" \in labels,
    state = "STUCK" /\ reason \in Unlisted /\ ~touched => claim = "free"
  PROVE  BeadInv'
<1>1. /\ op' = NoOp /\ row' = state /\ why' = reason /\ illegal' = illegal
      /\ busy' = FALSE /\ did' = "no" /\ pc' = After[pc]
      /\ UNCHANGED <<defers, over, rhold, chold, limbo, labels, blockers, claim, routed, sess, work, up, due, touched,
                     troubles>> BY DEF Finish, SetState, Yield, records, holds, bead, world
<1>2. pc \in DOMAIN After BY AfterIs DEF BeadInv, TypeOK, ControlKnows
<1>3. pc' \in DOMAIN After \cup {"down", "idle"} BY <1>1, <1>2, AfterIs
<1>4. signals' \in Seq({"taint", "limit"}) BY DEF Finish, Yield, BeadInv, TypeOK, ControlKnows
<1>5. TypeOK' BY <1>1, <1>3, <1>4, NoOpIs DEF BeadInv, TypeOK
<1>6. (OperationsLegal /\ OpShape /\ RowOfOp /\ ControlKnows /\ HoldKnows)'
 BY <1>1, NoOpIs DEF BeadInv, OperationsLegal, OpShape, RowOfOp, ControlKnows, HoldKnows, Deferring, Parking
<1>7. Recorded' BY <1>1, NoOpIs DEF Recorded, Deferring, DeferredOnRecord, Current
<1>8. Stops' BY <1>1, NoOpIs DEF Stops, SessionGone, WorkKept, Deferring, StopStep, CommitStep, Launching
<1>9. BeadKnown' BY <1>1, NoOpIs DEF BeadInv, BeadKnown, NotDeferred, Launching, Deferring
<1>10. (WaitingIsQuiet /\ NoOrphanClaim /\ StuckAsksHuman)'
 BY <1>1, NoOpIs DEF BeadInv, WaitingIsQuiet, NoOrphanClaim, StuckAsksHuman
<1> QED BY <1>5, <1>6, <1>7, <1>8, <1>9, <1>10 DEF BeadInv

\* Parker._stuck, whatever it does to the claim and the session.
LEMMA StuckKept ==
  ASSUME BeadInv, StuckFrom, busy, ~chold, UNCHANGED <<records, holds, routed, blockers, up, due, touched>>,
    sess' \in BOOLEAN, work' \in {"clean", "dirty"}, limbo' \in BOOLEAN, claim' \in Claims,
    labels' = labels, claim # claim' => claim = "free" /\ claim' = "ours",
    sess' = sess \/ (Launching /\ did = "call")
  PROVE  BeadInv'
<1>1. op' \in Op /\ op'.kind = "escalate" /\ op'.step = "intent" BY NewOpIs DEF StuckFrom, Kinds, Steps
<1>2. /\ row' = "STUCK" /\ why' = "none" /\ illegal' = illegal /\ did' = "no"
      /\ UNCHANGED <<pc, busy, signals, defers, over, rhold, chold, routed, blockers, up, due, touched, labels>>
 <2>1. op.kind # "none" BY DEF BeadInv, ControlKnows
 <2>2. row \in {"CLAIMING", "STARTING", "PARKING", "RESUMING", "HELD", "STUCK", "DEFERRED"}
  BY <2>1 DEF BeadInv, RowOfOp, OpShape, TypeOK, Op, Kinds, Parking, Deferring
 <2>3. allowed(row, "STUCK") BY <2>2, Allowed
 <2> QED BY <2>3 DEF StuckFrom, SetState, GoOn, records, holds
<1>3. TypeOK' BY <1>1, <1>2 DEF BeadInv, TypeOK, BeadStates, Whys
<1>4. (OperationsLegal /\ OpShape /\ RowOfOp /\ ControlKnows /\ HoldKnows)'
 BY <1>1, <1>2 DEF BeadInv, OperationsLegal, OpShape, RowOfOp, ControlKnows, HoldKnows, Deferring, Parking, TypeOK
<1>5. (Recorded /\ Stops)'
 BY <1>1, <1>2, NoOpIs DEF Recorded, Deferring, DeferredOnRecord, Stops, SessionGone, WorkKept, StopStep,
   CommitStep, Launching
<1>6. BeadKnown' BY <1>1, <1>2 DEF BeadInv, BeadKnown, NotDeferred, Launching, Deferring
<1>7. (WaitingIsQuiet /\ NoOrphanClaim /\ StuckAsksHuman)'
 BY <1>1, <1>2 DEF WaitingIsQuiet, NoOrphanClaim, StuckAsksHuman
<1> QED BY <1>3, <1>4, <1>5, <1>6, <1>7 DEF BeadInv

LEMMA EscalateKept ==
  ASSUME BeadInv, EscalateFrom, busy, ~chold
  PROVE  BeadInv'
BY StuckKept DEF EscalateFrom, BeadInv, TypeOK, bead, world

\* Parker._spend, for an operation that is not at a deferral's read or the claim.
LEMMA SpendKept ==
  ASSUME BeadInv, busy, ~chold, NEW limit \in {ParkLimit, LaunchLimit}, Spend(limit), limbo' \in BOOLEAN
  PROVE  BeadInv'
<1>1. CASE op.attempts + 1 >= limit BY <1>1, StuckKept DEF Spend, BeadInv, TypeOK, bead, world
<1>2. CASE ~(op.attempts + 1 >= limit)
 <2>1. op \in Op /\ op.attempts \in Nat BY DEF BeadInv, TypeOK, Op
 <2>2. op' = [op EXCEPT !.attempts = @ + 1] /\ SetState(row, "none") /\ Yield BY <1>2 DEF Spend
 <2>3. op' \in Op /\ op'.kind = op.kind /\ op'.step = op.step BY <2>1, <2>2, <1>2, LimitsAssumption DEF Op
 <2>4. op.kind # "none" BY DEF BeadInv, ControlKnows
 <2>5. /\ row' = row /\ why' = "none" /\ illegal' = illegal /\ did' = "no" /\ busy' = FALSE /\ pc' = After[pc]
       /\ UNCHANGED <<defers, over, rhold, chold, routed, blockers, up, due, touched, labels, claim, sess, work>>
  BY <2>2, Allowed DEF SetState, Yield, Spend, BeadInv, TypeOK, records, holds, bead, world
 <2>6. pc' \in DOMAIN After \cup {"down", "idle"} /\ signals' \in Seq({"taint", "limit"})
  BY <2>2, AfterIs DEF Yield, BeadInv, TypeOK, ControlKnows
 <2>7. TypeOK' BY <2>3, <2>5, <2>6 DEF BeadInv, TypeOK, Whys
 <2>8. (OperationsLegal /\ OpShape /\ RowOfOp /\ ControlKnows /\ HoldKnows)'
  BY <2>3, <2>4, <2>5 DEF BeadInv, OperationsLegal, OpShape, RowOfOp, ControlKnows, HoldKnows, Deferring, Parking,
    TypeOK
 <2>9. (Recorded /\ Stops)'
  BY <2>3, <2>4, <2>5, NoOpIs DEF BeadInv, Recorded, Deferring, DeferredOnRecord, Stops, SessionGone, WorkKept,
    StopStep, CommitStep, Launching
 <2>10. BeadKnown' BY <2>3, <2>4, <2>5 DEF BeadInv, BeadKnown, NotDeferred, Launching, Deferring
 <2>11. (WaitingIsQuiet /\ NoOrphanClaim /\ StuckAsksHuman)'
  BY <2>3, <2>4, <2>5, NoOpIs DEF BeadInv, WaitingIsQuiet, NoOrphanClaim, StuckAsksHuman
 <2> QED BY <2>7, <2>8, <2>9, <2>10, <2>11 DEF BeadInv
<1> QED BY <1>1, <1>2
------------------------------
(* What the operations have in common. *)

\* Parker._record_defer: an operation goes on, or is opened, as a defer.
LEMMA RecordKept ==
  ASSUME BeadInv, NEW o \in Op, o.kind \in {"pickup", "park", "resume", "undefer", "release"},
    NEW reason \in {"quota", "account"}, RecordDefer(o, reason), ~chold,
    row \in {"STARTING", "RUNNING", "PARKED", "RESUMING", "DEFERRED"},
    busy' = TRUE, did' = "no", pc' = pc \/ pc' = "call", pc' \notin {"down", "idle"},
    signals' = signals, pc' = "signals" => signals # <<>>,
    UNCHANGED <<holds, limbo, bead, sess, work, up, touched>>
  PROVE  BeadInv'
<1>1. defers' \in Seq({"quota", "account"}) /\ defers' # <<>> /\ Len(defers') = Len(defers) + 1
 BY TypeFlags DEF RecordDefer, BeadInv, Flags
<1>2. Len(defers) \in Nat /\ Len(defers) < MaxDefers BY TypeFlags DEF RecordDefer, BeadInv, Flags
<1>3. PICK k \in 0 .. MaxDefers, b \in BOOLEAN : op' = [o EXCEPT !.step = "d.recorded", !.n = k, !.noted = b]
 <2>1. Len(defers) + 1 \in 0 .. MaxDefers BY <1>2, BoundsAssumption
 <2>2. op' = [o EXCEPT !.step = "d.recorded", !.n = Len(defers) + 1, !.noted = FALSE] BY DEF RecordDefer
 <2> QED BY <2>1, <2>2, Zenon
<1>4. op' \in Op /\ op'.kind = o.kind /\ op'.step = "d.recorded" BY <1>3 DEF Op, Steps
<1>5. row' = "PARKING" /\ why' = "none" /\ illegal' = illegal BY Allowed DEF RecordDefer, SetState
<1>6. over' \in BOOLEAN /\ due' \in BOOLEAN BY DEF RecordDefer
<1>7. TypeOK' BY <1>1, <1>2, <1>4, <1>5, <1>6, TypeFlags, BoundsAssumption DEF BeadInv, Flags, BeadStates, Whys
<1>8. (OperationsLegal /\ OpShape /\ RowOfOp /\ ControlKnows /\ Recorded /\ HoldKnows /\ Stops /\ BeadKnown)'
 BY <1>1, <1>4, <1>5, NoOpIs DEF BeadInv, OperationsLegal, OpShape, RowOfOp, ControlKnows, Recorded, HoldKnows,
   Stops, BeadKnown, Parking, DeferredOnRecord, SessionGone, WorkKept, StopStep, CommitStep, Launching, NotDeferred
<1>9. (WaitingIsQuiet /\ NoOrphanClaim /\ StuckAsksHuman)' BY <1>5 DEF WaitingIsQuiet, NoOrphanClaim, StuckAsksHuman
<1> QED BY <1>7, <1>8, <1>9 DEF BeadInv

\* Parker._defer_within.
LEMMA DeferWithinKept ==
  ASSUME BeadInv, busy, ~chold, NEW reason \in {"quota", "account"}, DeferWithin(reason),
    row \in {"STARTING", "RESUMING", "DEFERRED"}
  PROVE  BeadInv'
<1>1. op \in Op /\ op.kind \in {"pickup", "park", "resume", "undefer", "release"}
 BY TypeFlags DEF BeadInv, Flags, OpShape, RowOfOp, ControlKnows, Op, Kinds
<1>2. RecordDefer(op, reason) /\ GoOn("no") /\ UNCHANGED <<holds, limbo, bead, sess, work, up, touched>>
 BY DEF DeferWithin
<1>3. /\ busy' = TRUE /\ did' = "no" /\ pc' = pc /\ signals' = signals /\ pc \notin {"down", "idle"}
      /\ pc = "signals" => signals # <<>> BY <1>2, TypeFlags DEF GoOn, BeadInv, ControlKnows, Flags
<1> QED BY <1>1, <1>2, <1>3, RecordKept

\* Parker.open_defer.
LEMMA OpenDeferKept ==
  ASSUME BeadInv, NEW o \in Op, o.kind = "park", NEW reason \in {"quota", "account"}, NEW next,
    OpenDefer(o, reason, next), op.kind = "none", row \in {"RUNNING", "PARKED", "DEFERRED"},
    next = pc \/ next = "call", next \notin {"down", "idle"}, next = "signals" => signals # <<>>
  PROVE  BeadInv'
<1>1. RecordDefer(o, reason) /\ busy' = TRUE /\ did' = "no" /\ pc' = next /\ signals' = signals BY DEF OpenDefer
<1>2. ~chold BY DEF BeadInv, HoldKnows
<1>3. UNCHANGED <<holds, limbo, bead, sess, work, up, touched>> BY DEF OpenDefer
<1> QED BY <1>1, <1>2, <1>3, RecordKept

\* Parker.park.
LEMMA ParkKept ==
  ASSUME BeadInv, NEW blocks \in SUBSET Blockers, NEW hold \in BOOLEAN, NEW next, Park(blocks, hold, next),
    op.kind = "none", row = "RUNNING", next = pc \/ next = "call", next \notin {"down", "idle"},
    next = "signals" => signals # <<>>
  PROVE  BeadInv'
<1>1. op' = [NewOp("park", "intent") EXCEPT !.hold = hold, !.blocks = blocks] BY DEF Park
<1>2. NewOp("park", "intent") \in Op /\ NewOp("park", "intent").kind = "park" /\ NewOp("park", "intent").step = "intent"
 BY NewOpIs DEF Kinds, Steps
<1>3. op' \in Op /\ op'.kind = "park" /\ op'.step = "intent" BY <1>1, <1>2 DEF Op
<1>4. row' = "PARKING" /\ why' = "none" /\ illegal' = illegal BY Allowed DEF Park, SetState
<1>5. /\ busy' = TRUE /\ did' = "no" /\ pc' = next
      /\ UNCHANGED <<defers, over, rhold, chold, limbo, labels, blockers, claim, routed, sess, work, up, due, signals, touched>>
 BY DEF Park
<1>6. TypeOK' BY <1>3, <1>4, <1>5, TypeFlags DEF BeadInv, Flags, BeadStates, Whys
<1>7. (OperationsLegal /\ OpShape /\ RowOfOp /\ ControlKnows /\ Recorded /\ HoldKnows /\ Stops /\ BeadKnown)'
 BY <1>3, <1>4, <1>5, NoOpIs DEF BeadInv, OperationsLegal, OpShape, RowOfOp, ControlKnows, Recorded, HoldKnows,
   Stops, BeadKnown, Parking, DeferredOnRecord, SessionGone, WorkKept, StopStep, CommitStep, Launching, NotDeferred
<1>8. (WaitingIsQuiet /\ NoOrphanClaim /\ StuckAsksHuman)' BY <1>4 DEF WaitingIsQuiet, NoOrphanClaim, StuckAsksHuman
<1> QED BY <1>6, <1>7, <1>8 DEF BeadInv

\* The pass ends, the operation stays open at its step and the row where it is.
LEMMA HoldKept ==
  ASSUME BeadInv, HoldPass, op' = op, row' = row, why' = why \/ (why' = "none" /\ op.kind # "none"),
         illegal' = illegal \/ illegal' = illegal \cup {"report"},
         rhold' \in BOOLEAN, UNCHANGED <<records, chold, limbo, bead, world, touched>>
  PROVE  BeadInv'
<1>1. busy' \in BOOLEAN BY DEF HoldPass
<1>2. busy' = FALSE /\ did' = "no" /\ pc' \in {"down", "idle"} /\ signals' = signals BY DEF HoldPass
<1>3. TypeOK' BY <1>1, <1>2, TypeFlags DEF BeadInv, Flags, Whys
<1>4. (OperationsLegal /\ OpShape /\ RowOfOp /\ ControlKnows /\ Recorded /\ HoldKnows /\ Stops /\ BeadKnown)'
 BY <1>2, NoOpIs DEF BeadInv, OperationsLegal, OpShape, RowOfOp, ControlKnows, Recorded, HoldKnows, Stops,
   BeadKnown, Parking, DeferredOnRecord, Current, SessionGone, WorkKept, StopStep, CommitStep, Launching, NotDeferred
<1>5. (WaitingIsQuiet /\ NoOrphanClaim /\ StuckAsksHuman)'
 BY <1>2, NoOpIs DEF BeadInv, WaitingIsQuiet, NoOrphanClaim, StuckAsksHuman
<1> QED BY <1>3, <1>4, <1>5 DEF BeadInv

\* Parker._runtime_hold.
LEMMA RuntimeHoldKept ==
  ASSUME BeadInv, busy, RuntimeHold
  PROVE  BeadInv'
<1>1. row' = row /\ why' = "none" /\ illegal' = illegal /\ rhold' = TRUE /\ op.kind # "none"
 BY Allowed, TypeFlags DEF RuntimeHold, SetState, BeadInv, Flags, ControlKnows
<1> QED BY <1>1, HoldKept DEF RuntimeHold

\* One label changes.
LEMMA WriteKept ==
  ASSUME BeadInv, busy, NEW want \in SUBSET Labels, NEW drop \in SUBSET Labels, WriteLabel(want, drop),
    ~StopStep, ~CommitStep, Launching => ~sess,
    "parked" \in want \/ "deferred" \in want => ~sess,
    "deferred" \in want => Deferring,
    op.kind = "escalate" => want = {"human"} /\ drop = {},
    op.kind = "undefer" /\ op.step = "gated" => drop = {"deferred"} /\ want = {}
  PROVE  BeadInv'
<1>1. PICK l : l = NextLabel(want, drop) OBVIOUS
<1>2. l \in Pending(want, drop) BY <1>1 DEF NextLabel, WriteLabel
<1>3. /\ labels' = IF l \in want THEN labels \cup {l} ELSE labels \ {l}
      /\ did' \in {"no", "done"} /\ (did' = "done" => Pending(want, drop) = {l})
      /\ claim = "ours"
      /\ UNCHANGED <<pc, busy, signals, op, row, why, defers, over, rhold, chold, limbo, blockers, claim, routed, sess,
                     work, up, due, illegal, touched>> BY <1>1 DEF WriteLabel, GoOn
<1>4. l \in Labels /\ (l \in want \/ l \in drop) BY <1>2 DEF Pending
<1>5. op.kind = "escalate" => l = "human" /\ l \in want BY <1>2 DEF Pending
<1>6. op.kind = "undefer" /\ op.step = "gated" => l = "deferred" /\ l \notin want BY <1>2 DEF Pending
<1>7. TypeOK' BY <1>3, <1>4, TypeFlags DEF BeadInv, Flags
<1>8. (OperationsLegal /\ OpShape /\ RowOfOp /\ ControlKnows /\ Recorded /\ HoldKnows /\ Stops)'
 BY <1>3, NoOpIs DEF BeadInv, OperationsLegal, OpShape, RowOfOp, ControlKnows, Recorded, HoldKnows, Stops, Parking,
   DeferredOnRecord, Current, SessionGone, WorkKept, StopStep, CommitStep, Launching
<1>9. BeadKnown' BY <1>3, <1>4, <1>5, <1>6 DEF BeadInv, BeadKnown, NotDeferred, Launching, ControlKnows, OpShape
<1>10. (WaitingIsQuiet /\ NoOrphanClaim /\ StuckAsksHuman)'
 BY <1>3, NoOpIs DEF BeadInv, ControlKnows, WaitingIsQuiet, NoOrphanClaim, StuckAsksHuman
<1> QED BY <1>7, <1>8, <1>9, <1>10 DEF BeadInv

\* The handler returns and the operation waits at its step.
LEMMA YieldIs ==
  ASSUME BeadInv, busy, Yield
  PROVE  /\ busy' \in BOOLEAN /\ busy' = FALSE /\ did' = "no" /\ signals' \in Seq({"taint", "limit"})
         /\ pc' \in {"resweep", "idle", "signals", "replay", "cands", "ready"}
<1>1. busy' \in BOOLEAN /\ busy' = FALSE /\ did' = "no" BY DEF Yield
<1>2. signals' \in Seq({"taint", "limit"}) BY TypeFlags DEF Yield, BeadInv, Flags, ControlKnows
<1>3. pc' \in {"resweep", "idle", "signals", "replay", "cands", "ready"}
 BY AfterIs, TypeFlags DEF Yield, BeadInv, Flags, ControlKnows
<1> QED BY <1>1, <1>2, <1>3

------------------------------
(* Escalation, park and the defer tail. *)

\* What the proofs take from the invariant about the operation under way.
LEMMA Works ==
  ASSUME BeadInv, busy
  PROVE  /\ op \in Op /\ op.kind \in Kinds \ {"none"} /\ op.step \in Steps /\ row \in BeadStates
         /\ labels \subseteq Labels /\ claim \in Claims
BY TypeFlags DEF BeadInv, Flags, ControlKnows, Op

\* The next step of the operation is journaled.
LEMMA OpStepIs ==
  ASSUME BeadInv, NEW next \in Steps, OpStep(next)
  PROVE  op' \in Op /\ op'.kind = op.kind /\ op'.step = next
BY TypeFlags DEF OpStep, BeadInv, Flags, Op

LEMMA ParkedStateIs == parked_state \in Waiting
BY DEF parked_state

LEMMA ReplayEscalateKept ==
  ASSUME BeadInv, ReplayEscalate
  PROVE  BeadInv'
<1>1. CASE WriteLabel({"human"}, {})
 BY <1>1, WriteKept DEF ReplayEscalate, Labels, StopStep, CommitStep, Launching, BeadInv, OpShape
<1>2. CASE (Labelled({"human"}, {}) \/ NotOurs({"human"}, {})) /\ op' = NoOp /\ SameRow /\ Yield
            /\ UNCHANGED <<records, holds, limbo, bead, world, touched, troubles>>
 <2>1. ~touched /\ claim = "ours" => "human" \in labels
  BY <1>2 DEF ReplayEscalate, Labelled, NotOurs, Pending, BeadInv, BeadKnown
 <2>2. row = "STUCK" /\ ~chold /\ op.kind # "none" BY DEF ReplayEscalate, BeadInv, RowOfOp, OpShape, HoldKnows
 <2>3. row' = "STUCK" /\ why' = why /\ illegal' = illegal BY <1>2, <2>2 DEF SameRow
 <2>4. TypeOK' BY <1>2, <2>3, YieldIs, NoOpIs, TypeFlags DEF ReplayEscalate, BeadInv, Flags, BeadStates
 <2>5. (OperationsLegal /\ OpShape /\ RowOfOp /\ ControlKnows /\ Recorded /\ HoldKnows /\ Stops /\ BeadKnown)'
  BY <1>2, <2>2, <2>3, YieldIs, NoOpIs DEF ReplayEscalate, BeadInv, OperationsLegal, OpShape, RowOfOp, ControlKnows,
    Recorded, HoldKnows, Stops, BeadKnown, Parking, DeferredOnRecord, SessionGone, WorkKept, StopStep, CommitStep,
    Launching, NotDeferred
 <2>6. (WaitingIsQuiet /\ NoOrphanClaim /\ StuckAsksHuman)'
  BY <1>2, <2>1, <2>3, NoOpIs DEF WaitingIsQuiet, NoOrphanClaim, StuckAsksHuman
 <2> QED BY <2>4, <2>5, <2>6 DEF BeadInv
<1> QED BY <1>1, <1>2 DEF ReplayEscalate

\* No hold waits on an operation that parks.
LEMMA NoClaimHold ==
  ASSUME BeadInv, op.kind # "pickup" \/ op.step # "intent" \/ did = "call"
  PROVE  ~chold
BY DEF BeadInv, HoldKnows

LEMMA SpentKept ==
  ASSUME BeadInv, SpentBudget
  PROVE  BeadInv'
BY EscalateKept, NoClaimHold DEF SpentBudget, Parking

\* replay_park and defer_tail: the stop.
LEMMA StopKept ==
  ASSUME BeadInv, StopSessions
  PROVE  BeadInv'
<1>1. CASE sess' = FALSE /\ GoOn("done") /\ UNCHANGED <<journal, bead, work, up, due, history, troubles>>
 <2>1. sess' \in BOOLEAN BY <1>1
 <2>2. TypeOK' BY <1>1, <2>1, TypeFlags DEF GoOn, BeadInv, Flags
 <2>3. (OperationsLegal /\ OpShape /\ RowOfOp /\ ControlKnows /\ Recorded /\ HoldKnows /\ Stops /\ BeadKnown)'
  BY <1>1, NoOpIs DEF StopSessions, GoOn, BeadInv, OperationsLegal, OpShape, RowOfOp, ControlKnows, Recorded,
    HoldKnows, Stops, BeadKnown, Parking, DeferredOnRecord, Current, SessionGone, WorkKept, StopStep, CommitStep,
    Launching, NotDeferred
 <2>4. (WaitingIsQuiet /\ NoOrphanClaim /\ StuckAsksHuman)'
  BY <1>1 DEF BeadInv, WaitingIsQuiet, NoOrphanClaim, StuckAsksHuman
 <2> QED BY <2>2, <2>3, <2>4 DEF BeadInv
<1>2. CASE /\ rhold' = TRUE /\ SetState(row, "none") /\ HoldPass
           /\ UNCHANGED <<op, records, chold, limbo, bead, world, touched>>
 <2>1. row' = row /\ why' = "none" /\ illegal' = illegal /\ op.kind # "none"
  BY <1>2, Allowed, TypeFlags DEF StopSessions, SetState, BeadInv, Flags, ControlKnows
 <2> QED BY <1>2, <2>1, HoldKept
<1> QED BY <1>1, <1>2 DEF StopSessions

LEMMA StopUnavailableKept ==
  ASSUME BeadInv, StopUnavailable
  PROVE  BeadInv'
BY RuntimeHoldKept DEF StopUnavailable

\* The stop is journaled.
LEMMA StoppedKept ==
  ASSUME BeadInv, SessionsStopped
  PROVE  BeadInv'
<1>1. op' \in Op /\ op'.kind = op.kind /\ op'.step = (IF op.step = "d.recorded" THEN "d.stopped" ELSE "stopped")
 BY OpStepIs DEF SessionsStopped, Stopped, Steps
<1>2. TypeOK'
 BY TypeFlags, <1>1, NoOpIs, <1>1 DEF SessionsStopped, GoOn, SameRow, BeadInv, Flags, BeadStates, Whys, Claims,
   Labels, Blockers
<1>3. (OperationsLegal /\ OpShape /\ RowOfOp /\ ControlKnows /\ Recorded /\ HoldKnows /\ Stops /\ BeadKnown)'
 BY TypeFlags, <1>1, NoOpIs, <1>1 DEF SessionsStopped, GoOn, SameRow, BeadInv, OperationsLegal, OpShape, RowOfOp,
   ControlKnows, Recorded, HoldKnows, Stops, BeadKnown, Parking, DeferredOnRecord, Current, SessionGone, WorkKept,
   StopStep, CommitStep, Launching, NotDeferred
<1>4. (WaitingIsQuiet /\ NoOrphanClaim /\ StuckAsksHuman)'
 BY TypeFlags, <1>1, NoOpIs, <1>1 DEF SessionsStopped, GoOn, SameRow, BeadInv, OpShape, ControlKnows, RowOfOp,
   BeadKnown, WaitingIsQuiet, NoOrphanClaim, StuckAsksHuman
<1> QED BY <1>2, <1>3, <1>4 DEF BeadInv

\* The commit is journaled.
LEMMA CommittedKept ==
  ASSUME BeadInv, WipCommitted
  PROVE  BeadInv'
<1>1. op' \in Op /\ op'.kind = op.kind /\ op'.step = (IF op.step = "d.stopped" THEN "d.committed" ELSE "committed")
 BY OpStepIs DEF WipCommitted, Committed, Steps
<1>2. TypeOK'
 BY TypeFlags, NoOpIs, <1>1 DEF WipCommitted, GoOn, SameRow, BeadInv, Flags, BeadStates, Whys, Claims, Labels,
   Blockers
<1>3. (OperationsLegal /\ OpShape /\ RowOfOp /\ ControlKnows /\ Recorded /\ HoldKnows /\ Stops /\ BeadKnown)'
 BY TypeFlags, NoOpIs, <1>1 DEF WipCommitted, GoOn, SameRow, BeadInv, OperationsLegal, OpShape, RowOfOp,
   ControlKnows, Recorded, HoldKnows, Stops, BeadKnown, Parking, DeferredOnRecord, Current, SessionGone, WorkKept,
   StopStep, CommitStep, Launching, NotDeferred
<1>4. (WaitingIsQuiet /\ NoOrphanClaim /\ StuckAsksHuman)'
 BY TypeFlags, NoOpIs, <1>1 DEF WipCommitted, GoOn, SameRow, BeadInv, OpShape, ControlKnows, RowOfOp, BeadKnown,
   WaitingIsQuiet, NoOrphanClaim, StuckAsksHuman
<1> QED BY <1>2, <1>3, <1>4 DEF BeadInv

LEMMA CommitKept ==
  ASSUME BeadInv, CommitWip
  PROVE  BeadInv'
<1>1. busy /\ CommitStep /\ did = "no" /\ op.kind # "none" /\ ~chold /\ row = "PARKING"
 BY DEF CommitWip, BeadInv, ControlKnows, HoldKnows, CommitStep, RowOfOp, OpShape, Parking, TypeOK, Op, Kinds
<1>2. CASE claim # "ours" /\ Finish("STUCK", "none") BY <1>1, <1>2, FinishKept, Allowed DEF BeadStates, Whys
<1>3. CASE EscalateFrom BY <1>1, <1>3, EscalateKept
<1>4. CASE Spend(ParkLimit) /\ UNCHANGED limbo BY <1>1, <1>4, SpendKept, TypeFlags DEF BeadInv, Flags
<1>5. CASE /\ claim = "ours" /\ work' = "clean" /\ GoOn("done")
           /\ UNCHANGED <<journal, bead, sess, up, due, history, troubles>>
 <2>2. TypeOK' BY <1>5, TypeFlags DEF GoOn, BeadInv, Flags
 <2>3. (OperationsLegal /\ OpShape /\ RowOfOp /\ ControlKnows /\ Recorded /\ HoldKnows /\ Stops /\ BeadKnown)'
  BY <1>1, <1>5, NoOpIs DEF GoOn, BeadInv, OperationsLegal, OpShape, RowOfOp, ControlKnows, Recorded, HoldKnows,
    Stops, BeadKnown, Parking, DeferredOnRecord, Current, SessionGone, WorkKept, StopStep, CommitStep, Launching,
    NotDeferred
 <2>4. (WaitingIsQuiet /\ NoOrphanClaim /\ StuckAsksHuman)'
  BY <1>5 DEF BeadInv, WaitingIsQuiet, NoOrphanClaim, StuckAsksHuman
 <2> QED BY <2>2, <2>3, <2>4 DEF BeadInv
<1> QED BY <1>2, <1>3, <1>4, <1>5 DEF CommitWip

\* A step that only moves the operation on, past the labels that its branch has seen.
LEMMA MovesOn ==
  ASSUME BeadInv, busy, NEW next \in Steps, OpStep(next), GoOn("no"), SameRow,
    UNCHANGED <<records, holds, limbo, bead, world, touched, troubles>>,
    \/ op.kind = "park" /\ op.step = "committed" /\ next = "blocked"
    \/ op.kind = "park" /\ op.step = "blocked" /\ next = "labelled"
    \/ op.step \in {"d.committed", "d.confirmed"} /\ next \in {"d.confirmed", "d.labelled"}
    \/ op.kind = "resume" /\ op.step = "intent" /\ next = "unlabelled"
    \/ op.kind = "undefer" /\ op.step = "intent" /\ next = "gated"
    \/ op.kind = "undefer" /\ op.step = "gated" /\ next = "unlabelled" /\ (~touched => "deferred" \notin labels)
    \/ op.kind = "release" /\ op.step = "intent" /\ next = "unlabelled"
    \/ op.kind = "pickup" /\ op.step = "placed" /\ next = "worktree"
  PROVE  BeadInv'
<1>1. op' \in Op /\ op'.kind = op.kind /\ op'.step = next BY OpStepIs
<1>2. TypeOK' BY <1>1, TypeFlags DEF GoOn, SameRow, BeadInv, Flags
<1>3. (OperationsLegal /\ OpShape /\ RowOfOp /\ ControlKnows /\ Recorded /\ HoldKnows /\ Stops /\ BeadKnown)'
 BY <1>1, NoOpIs DEF GoOn, SameRow, BeadInv, OperationsLegal, OpShape, RowOfOp, ControlKnows, Recorded, HoldKnows,
   Stops, BeadKnown, Parking, DeferredOnRecord, Current, SessionGone, WorkKept, StopStep, CommitStep, Launching,
   NotDeferred
<1>4. (WaitingIsQuiet /\ NoOrphanClaim /\ StuckAsksHuman)'
 BY <1>1, NoOpIs DEF GoOn, SameRow, BeadInv, ControlKnows, OpShape, WaitingIsQuiet, NoOrphanClaim, StuckAsksHuman
<1> QED BY <1>2, <1>3, <1>4 DEF BeadInv

LEMMA AddBlockersKept ==
  ASSUME BeadInv, AddBlockers
  PROVE  BeadInv'
<1>1. busy /\ op.kind = "park" /\ op.step = "committed" /\ ~chold /\ row = "PARKING" /\ op \in Op
 BY TypeFlags DEF AddBlockers, BeadInv, Flags, HoldKnows, RowOfOp, Parking
<1>2. CASE /\ blockers' = blockers \cup op.blocks /\ GoOn("done")
           /\ UNCHANGED <<journal, labels, claim, routed, world, history, troubles>>
 <2>1. TypeOK' BY <1>1, <1>2, TypeFlags DEF GoOn, BeadInv, Flags, Op
 <2>2. (OperationsLegal /\ OpShape /\ RowOfOp /\ ControlKnows /\ Recorded /\ HoldKnows /\ Stops /\ BeadKnown)'
  BY <1>1, <1>2, NoOpIs DEF GoOn, BeadInv, OperationsLegal, OpShape, RowOfOp, ControlKnows, Recorded, HoldKnows,
    Stops, BeadKnown, Parking, DeferredOnRecord, Current, SessionGone, WorkKept, StopStep, CommitStep, Launching,
    NotDeferred
 <2>3. (WaitingIsQuiet /\ NoOrphanClaim /\ StuckAsksHuman)'
  BY <1>2 DEF BeadInv, WaitingIsQuiet, NoOrphanClaim, StuckAsksHuman
 <2> QED BY <2>1, <2>2, <2>3 DEF BeadInv
<1>3. CASE /\ OpStep("blocked") /\ GoOn("no") /\ SameRow
           /\ UNCHANGED <<records, holds, limbo, bead, world, touched, troubles>> BY <1>1, <1>3, MovesOn DEF Steps
<1>4. CASE claim \notin {"ours", "gone"} /\ Finish("STUCK", "none")
 BY <1>1, <1>4, FinishKept, Allowed DEF BeadStates, Whys
<1> QED BY <1>2, <1>3, <1>4 DEF AddBlockers

\* A label step ends STUCK, from any row that allows it, when the bead is not ours.
LEMMA NotOursKept ==
  ASSUME BeadInv, busy, ~chold, claim # "ours", Finish("STUCK", "none"), op.kind # "none"
  PROVE  BeadInv'
<1>1. row \in {"CLAIMING", "STARTING", "PARKING", "RESUMING", "HELD", "STUCK", "DEFERRED"}
 BY DEF BeadInv, RowOfOp, OpShape, TypeOK, Op, Kinds, Parking
<1> QED BY <1>1, FinishKept, Allowed DEF BeadStates, Whys

LEMMA LabelParkedKept ==
  ASSUME BeadInv, LabelParked
  PROVE  BeadInv'
<1>1. busy /\ op.kind = "park" /\ op.step = "blocked" /\ ~chold /\ ~sess
 BY DEF LabelParked, LabelStep, BeadInv, HoldKnows, Stops, SessionGone
<1>2. CASE WriteLabel(ParkLabels, {})
 <2>1. ParkLabels \in SUBSET Labels /\ "deferred" \notin ParkLabels BY DEF ParkLabels, Labels
 <2>2. ~StopStep /\ ~CommitStep BY <1>1 DEF StopStep, CommitStep
 <2> QED BY <1>1, <1>2, <2>1, <2>2, WriteKept
<1>3. CASE /\ OpStep("labelled") /\ GoOn("no") /\ SameRow
           /\ UNCHANGED <<records, holds, limbo, bead, world, touched, troubles>> BY <1>1, <1>3, MovesOn DEF Steps
<1>4. CASE NotOurs(ParkLabels, {}) /\ Finish("STUCK", "none") BY <1>1, <1>4, NotOursKept DEF NotOurs
<1> QED BY <1>2, <1>3, <1>4 DEF LabelParked, LabelStep

LEMMA CommentKept ==
  ASSUME BeadInv, CommentAndEnd
  PROVE  BeadInv'
<1>1. /\ busy /\ Parking /\ op.step \in {"labelled", "d.labelled"} /\ ~chold /\ row = "PARKING" /\ ~sess /\ op \in Op
      /\ op.kind # "none" /\ (op.step = "labelled" => op.kind = "park")
 BY TypeFlags DEF CommentAndEnd, BeadInv, Flags, ControlKnows, HoldKnows, RowOfOp, Stops, SessionGone, OpShape,
   Parking
<1>2. CASE /\ op' = [op EXCEPT !.noted = TRUE] /\ GoOn("no") /\ SameRow
           /\ UNCHANGED <<records, holds, limbo, bead, world, touched, troubles>>
 <2>1. op' \in Op /\ op'.kind = op.kind /\ op'.step = op.step BY <1>1, <1>2 DEF Op
 <2>2. TypeOK' BY <1>2, <2>1, TypeFlags DEF GoOn, SameRow, BeadInv, Flags
 <2>3. (OperationsLegal /\ OpShape /\ RowOfOp /\ ControlKnows /\ Recorded /\ HoldKnows /\ Stops /\ BeadKnown)'
  BY <1>1, <1>2, <2>1, NoOpIs DEF GoOn, SameRow, BeadInv, OperationsLegal, OpShape, RowOfOp, ControlKnows, Recorded,
    HoldKnows, Stops, BeadKnown, Parking, DeferredOnRecord, Current, SessionGone, WorkKept, StopStep, CommitStep,
    Launching, NotDeferred
 <2>4. (WaitingIsQuiet /\ NoOrphanClaim /\ StuckAsksHuman)'
  BY <1>1, <1>2, <2>1, NoOpIs DEF GoOn, SameRow, BeadInv, WaitingIsQuiet, NoOrphanClaim, StuckAsksHuman
 <2> QED BY <2>2, <2>3, <2>4 DEF BeadInv
<1>3. CASE claim # "ours" /\ Finish("STUCK", "none") BY <1>1, <1>3, NotOursKept
<1>4. CASE op.step = "labelled" /\ Finish(parked_state, "none")
 <2>1. ~touched => "deferred" \notin labels BY <1>1, <1>4 DEF BeadInv, BeadKnown, NotDeferred
 <2> QED BY <1>1, <1>4, <2>1, FinishKept, ParkedStateIs, Allowed DEF BeadStates, Whys
<1>5. CASE op.step = "d.labelled" /\ FinishDefer
 <2>1. CASE EscalateFrom BY <1>1, <2>1, EscalateKept
 <2>2. CASE "human" \in labels /\ Finish("STUCK", "none") BY <1>1, <2>2, FinishKept, Allowed DEF BeadStates, Whys
 <2>3. CASE Finish("HELD", "none") BY <1>1, <2>3, FinishKept, Allowed DEF BeadStates, Whys
 <2>4. CASE Finish("DEFERRED", Current)
  <3>1. defers # <<>> /\ Current \in Whys BY <1>5, TypeFlags DEF BeadInv, Recorded, Current, Flags, Whys
  <3> QED BY <1>1, <2>4, <3>1, FinishKept, Allowed DEF BeadStates
 <2> QED BY <1>5, <2>1, <2>2, <2>3, <2>4 DEF FinishDefer
<1> QED BY <1>2, <1>3, <1>4, <1>5 DEF CommentAndEnd

\* Parker._confirm.
LEMMA ConfirmKept ==
  ASSUME BeadInv, Confirm
  PROVE  BeadInv'
<1>1. busy /\ op.step = "d.committed" /\ op \in Op /\ op.kind # "none" /\ GoOn("no") /\ SameRow
 BY TypeFlags DEF Confirm, BeadInv, Flags, ControlKnows
<1>2. /\ UNCHANGED <<holds, limbo, bead, sess, work, up, touched, troubles>> BY DEF Confirm
<1>3. CASE OpStep("d.confirmed") /\ UNCHANGED <<records, due>> BY <1>1, <1>2, <1>3, MovesOn DEF Steps
<1>4. CASE /\ Len(defers) < MaxDefers /\ op.n = Len(defers) /\ over' = FALSE
           /\ op' = [op EXCEPT !.step = "d.confirmed", !.n = @ + 1, !.noted = FALSE]
           /\ \E reason \in {"quota", "account"} : defers' = Append(defers, reason)
           /\ due' \in IF defers'[Len(defers')] = "quota" THEN BOOLEAN ELSE {FALSE}
 <2>1. Len(defers) \in Nat /\ defers \in Seq({"quota", "account"}) BY TypeFlags DEF BeadInv, Flags
 <2>2. defers' \in Seq({"quota", "account"}) /\ defers' # <<>> /\ Len(defers') = Len(defers) + 1 BY <1>4, <2>1
 <2>3. PICK k \in 0 .. MaxDefers, b \in BOOLEAN : op' = [op EXCEPT !.step = "d.confirmed", !.n = k, !.noted = b]
  <3>1. op.n + 1 \in 0 .. MaxDefers BY <1>4, <2>1, BoundsAssumption
  <3>2. op' = [op EXCEPT !.step = "d.confirmed", !.n = op.n + 1, !.noted = FALSE] BY <1>4
  <3> QED BY <3>1, <3>2, Zenon
 <2>4. op' \in Op /\ op'.kind = op.kind /\ op'.step = "d.confirmed" BY <1>1, <2>3 DEF Op, Steps
 <2>5. over' \in BOOLEAN BY <1>4
 <2>6. due' \in BOOLEAN BY <1>4
 <2>7. TypeOK'
  BY <1>1, <1>2, <1>4, <2>1, <2>2, <2>4, <2>5, <2>6, TypeFlags, BoundsAssumption DEF GoOn, SameRow, BeadInv, Flags
 <2>8. (OperationsLegal /\ OpShape /\ RowOfOp /\ ControlKnows /\ Recorded /\ HoldKnows /\ Stops /\ BeadKnown)'
  BY <1>1, <1>2, <2>2, <2>4, NoOpIs DEF GoOn, SameRow, BeadInv, OperationsLegal, OpShape, RowOfOp, ControlKnows,
    Recorded, HoldKnows, Stops, BeadKnown, Parking, DeferredOnRecord, SessionGone, WorkKept, StopStep, CommitStep,
    Launching, NotDeferred
 <2>9. (WaitingIsQuiet /\ NoOrphanClaim /\ StuckAsksHuman)'
  BY <1>1, <1>2, <2>4, NoOpIs DEF GoOn, SameRow, BeadInv, WaitingIsQuiet, NoOrphanClaim, StuckAsksHuman
 <2> QED BY <2>7, <2>8, <2>9 DEF BeadInv
<1> QED BY <1>3, <1>4 DEF Confirm

LEMMA LabelDeferredKept ==
  ASSUME BeadInv, LabelDeferred
  PROVE  BeadInv'
<1>1. busy /\ op.step \in {"d.committed", "d.confirmed"} /\ op.kind \notin {"none", "escalate"} /\ ~chold /\ ~sess
 BY DEF LabelDeferred, LabelStep, BeadInv, ControlKnows, HoldKnows, Stops, SessionGone, OpShape
<1>2. CASE WriteLabel({"deferred"}, {})
 <2>1. ~StopStep /\ ~CommitStep /\ ~Launching BY <1>1 DEF StopStep, CommitStep, Launching
 <2> QED BY <1>1, <1>2, <2>1, WriteKept DEF Labels
<1>3. CASE /\ OpStep("d.labelled") /\ GoOn("no") /\ SameRow
           /\ UNCHANGED <<records, holds, limbo, bead, world, touched, troubles>> BY <1>1, <1>3, MovesOn DEF Steps
<1>4. CASE NotOurs({"deferred"}, {}) /\ Finish("STUCK", "none") BY <1>1, <1>4, NotOursKept DEF NotOurs
<1> QED BY <1>2, <1>3, <1>4 DEF LabelDeferred, LabelStep

------------------------------
(* The launch guard, resume, undefer and release. *)

LEMMA GuardIs ==
  ASSUME BeadInv, AtGuard
  PROVE  /\ busy /\ Launching /\ ~chold /\ op \in Op /\ ~Deferring /\ op.kind \in {"pickup", "resume", "undefer"}
         /\ row = (IF op.kind = "pickup" THEN "STARTING" ELSE "RESUMING")
         /\ ~touched => "deferred" \notin labels
         /\ did = "done" => ~sess
BY TypeFlags DEF AtGuard, BeadInv, Flags, HoldKnows, RowOfOp, BeadKnown, NotDeferred, Launching, Stops, SessionGone

LEMMA GuardWaitsKept ==
  ASSUME BeadInv, GuardWaits
  PROVE  BeadInv'
<1>1. AtGuard /\ did = "no" BY DEF GuardWaits
<1>2. CASE EscalateFrom BY <1>1, <1>2, GuardIs, EscalateKept
<1>3. CASE /\ ~Spent /\ rhold' = (rhold \/ ~up) /\ Yield /\ SameRow
           /\ UNCHANGED <<op, records, chold, limbo, bead, world, touched, troubles>>
 <2>1. rhold' \in BOOLEAN BY <1>3
 <2>2. TypeOK' BY <1>1, <1>3, <2>1, GuardIs, YieldIs, TypeFlags, NoOpIs DEF SameRow, BeadInv, Flags, BeadStates, Whys
 <2>3. (OperationsLegal /\ OpShape /\ RowOfOp /\ ControlKnows /\ Recorded /\ HoldKnows /\ Stops /\ BeadKnown)'
  BY <1>1, <1>3, <2>1, GuardIs, YieldIs, TypeFlags, NoOpIs DEF SameRow, BeadInv, Flags, OperationsLegal, OpShape,
    RowOfOp, ControlKnows, Recorded, HoldKnows, Stops, BeadKnown, Parking, DeferredOnRecord, Current, SessionGone,
    WorkKept, StopStep, CommitStep, Launching, NotDeferred
 <2>4. (WaitingIsQuiet /\ NoOrphanClaim /\ StuckAsksHuman)'
  BY <1>1, <1>3, <2>1, GuardIs, YieldIs, TypeFlags, NoOpIs DEF SameRow, BeadInv, Flags, ControlKnows, RowOfOp,
    BeadKnown, WaitingIsQuiet, NoOrphanClaim, StuckAsksHuman
 <2> QED BY <2>2, <2>3, <2>4 DEF BeadInv
<1> QED BY <1>2, <1>3 DEF GuardWaits

LEMMA GuardRefusesKept ==
  ASSUME BeadInv, GuardRefuses
  PROVE  BeadInv'
<1>1. AtGuard BY DEF GuardRefuses, GuardGoes
<1>2. CASE ("human" \in labels \/ claim # "ours") /\ Finish("STUCK", "none")
 BY <1>1, <1>2, GuardIs, FinishKept, Allowed DEF BeadStates, Whys
<1>3. CASE EscalateFrom BY <1>1, <1>3, GuardIs, EscalateKept
<1> QED BY <1>2, <1>3 DEF GuardRefuses

LEMMA GuardShelvesKept ==
  ASSUME BeadInv, GuardShelves
  PROVE  BeadInv'
<1>1. AtGuard BY DEF GuardShelves, Runnable, GuardGoes
<1>2. CASE Shelvable /\ WriteLabel({"parked"}, {})
 <2>1. ~StopStep /\ ~CommitStep BY <1>1, GuardIs DEF StopStep, CommitStep, Launching
 <2>2. op.kind = "undefer" => op.step = "unlabelled" BY <1>1 DEF AtGuard
 <2> QED BY <1>1, <1>2, <2>1, <2>2, GuardIs, WriteKept DEF Shelvable, Labels
<1>3. CASE ~sess /\ Finish(parked_state, "none")
 BY <1>1, <1>3, GuardIs, FinishKept, ParkedStateIs, Allowed DEF BeadStates, Whys
<1> QED BY <1>1, <1>2, <1>3, GuardIs DEF GuardShelves, Shelvable

LEMMA GuardSettlesKept ==
  ASSUME BeadInv, GuardSettles
  PROVE  BeadInv'
<1>1. AtGuard /\ Finish("RUNNING", "none") BY DEF GuardSettles, Runnable, GuardGoes
<1> QED BY <1>1, GuardIs, FinishKept, Allowed DEF BeadStates, Whys

LEMMA GuardPinsKept ==
  ASSUME BeadInv, GuardPins
  PROVE  BeadInv'
<1>1. AtGuard /\ "parked" \notin labels BY DEF GuardPins, Runnable, GuardGoes, Blocked
<1>2. ASSUME NEW v \in Verdicts \ {"account"}, DeferWithin(Reason(v))
      PROVE  BeadInv'
 <2>1. Reason(v) \in {"quota", "account"} BY DEF Reason
 <2> QED BY <1>1, <1>2, <2>1, GuardIs, DeferWithinKept
<1>3. CASE /\ limbo' = TRUE /\ GoOn("call") /\ SameRow
           /\ UNCHANGED <<op, records, holds, bead, world, touched, troubles>>
 <2>1. TypeOK' BY <1>1, <1>3, GuardIs, TypeFlags, NoOpIs DEF SameRow, GoOn, BeadInv, Flags, BeadStates, Whys
 <2>2. (OperationsLegal /\ OpShape /\ RowOfOp /\ ControlKnows /\ Recorded /\ HoldKnows /\ Stops /\ BeadKnown)'
  BY <1>1, <1>3, GuardIs, TypeFlags, NoOpIs DEF SameRow, GoOn, BeadInv, Flags, OperationsLegal, OpShape, RowOfOp,
    ControlKnows, Recorded, HoldKnows, Stops, BeadKnown, Parking, DeferredOnRecord, Current, SessionGone, WorkKept,
    StopStep, CommitStep, Launching, NotDeferred
 <2>3. (WaitingIsQuiet /\ NoOrphanClaim /\ StuckAsksHuman)'
  BY <1>1, <1>3, GuardIs, TypeFlags, NoOpIs DEF SameRow, GoOn, BeadInv, Flags, ControlKnows, RowOfOp, BeadKnown,
    WaitingIsQuiet, NoOrphanClaim, StuckAsksHuman
 <2> QED BY <2>1, <2>2, <2>3 DEF BeadInv
<1> QED BY <1>2, <1>3 DEF GuardPins

LEMMA GuardCallsKept ==
  ASSUME BeadInv, GuardCalls
  PROVE  BeadInv'
<1>1. AtGuard /\ did = "call" BY DEF GuardCalls
<1>2. CASE claim \notin {"ours", "gone"} /\ Finish("STUCK", "none") BY <1>1, <1>2, GuardIs, NotOursKept
<1>3. CASE /\ claim = "ours" /\ up /\ sess' = TRUE /\ work' = "dirty" /\ GoOn("asked")
           /\ UNCHANGED <<journal, bead, up, due, history, troubles>>
 <2>1. TypeOK' BY <1>1, <1>3, GuardIs, TypeFlags, NoOpIs DEF GoOn, BeadInv, Flags, BeadStates, Whys
 <2>2. (OperationsLegal /\ OpShape /\ RowOfOp /\ ControlKnows /\ Recorded /\ HoldKnows /\ Stops /\ BeadKnown)'
  BY <1>1, <1>3, GuardIs, TypeFlags, NoOpIs DEF GoOn, BeadInv, Flags, OperationsLegal, OpShape, RowOfOp,
    ControlKnows, Recorded, HoldKnows, Stops, BeadKnown, Parking, DeferredOnRecord, Current, SessionGone, WorkKept,
    StopStep, CommitStep, Launching, NotDeferred
 <2>3. (WaitingIsQuiet /\ NoOrphanClaim /\ StuckAsksHuman)'
  BY <1>1, <1>3, GuardIs, TypeFlags, NoOpIs DEF GoOn, BeadInv, Flags, ControlKnows, RowOfOp, BeadKnown,
    WaitingIsQuiet, NoOrphanClaim, StuckAsksHuman
 <2> QED BY <2>1, <2>2, <2>3 DEF BeadInv
<1>4. CASE limbo' = FALSE /\ Spend(LaunchLimit)
 <2>1. limbo' \in BOOLEAN BY <1>4
 <2> QED BY <1>1, <1>4, <2>1, GuardIs, SpendKept
<1>5. CASE /\ rhold' = TRUE /\ limbo' = FALSE /\ SetState(row, "none") /\ Yield
           /\ UNCHANGED <<op, records, chold, bead, world, touched, troubles>>
 <2>1. row' = row /\ why' = "none" /\ illegal' = illegal BY <1>5, Allowed, TypeFlags DEF SetState, BeadInv, Flags
 <2>2. limbo' \in BOOLEAN BY <1>5
 <2>3. TypeOK' BY <1>1, <1>5, <2>1, <2>2, GuardIs, YieldIs, TypeFlags, NoOpIs DEF BeadInv, Flags, BeadStates, Whys
 <2>4. (OperationsLegal /\ OpShape /\ RowOfOp /\ ControlKnows /\ Recorded /\ HoldKnows /\ Stops /\ BeadKnown)'
  BY <1>1, <1>5, <2>1, <2>2, GuardIs, YieldIs, TypeFlags, NoOpIs DEF BeadInv, Flags, OperationsLegal, OpShape,
    RowOfOp, ControlKnows, Recorded, HoldKnows, Stops, BeadKnown, Parking, DeferredOnRecord, Current, SessionGone,
    WorkKept, StopStep, CommitStep, Launching, NotDeferred
 <2>5. (WaitingIsQuiet /\ NoOrphanClaim /\ StuckAsksHuman)'
  BY <1>1, <1>5, <2>1, <2>2, GuardIs, YieldIs, TypeFlags, NoOpIs DEF BeadInv, Flags, ControlKnows, RowOfOp,
    BeadKnown, WaitingIsQuiet, NoOrphanClaim, StuckAsksHuman
 <2> QED BY <2>3, <2>4, <2>5 DEF BeadInv
<1>6. CASE /\ claim = "ours" /\ StuckFrom /\ sess' \in {sess, TRUE} /\ work' = "dirty"
           /\ UNCHANGED <<records, holds, limbo, bead, up, due, touched, troubles>>
 <2>1. sess' \in BOOLEAN /\ limbo' \in BOOLEAN /\ claim' \in Claims BY <1>6, TypeFlags DEF BeadInv, Flags
 <2> QED BY <1>1, <1>6, <2>1, GuardIs, StuckKept
<1> QED BY <1>2, <1>3, <1>4, <1>5, <1>6 DEF GuardCalls

LEMMA GuardReceivesKept ==
  ASSUME BeadInv, GuardReceives
  PROVE  BeadInv'
<1>1. AtGuard /\ did = "asked" /\ did' = "rcpt" /\ UNCHANGED <<pc, busy, signals>> BY DEF GuardReceives, GoOn
<1>2. /\ op' = [op EXCEPT !.started = TRUE] /\ SameRow
      /\ UNCHANGED <<records, holds, bead, world, touched, troubles>> BY DEF GuardReceives
<1>3. op' \in Op /\ op'.kind = op.kind /\ op'.step = op.step BY <1>1, <1>2, GuardIs DEF Op
<1>4. limbo' \in BOOLEAN BY DEF GuardReceives
<1>5. TypeOK' BY <1>1, <1>2, <1>3, <1>4, GuardIs, TypeFlags, NoOpIs DEF SameRow, BeadInv, Flags, BeadStates, Whys
<1>6. (OperationsLegal /\ OpShape /\ RowOfOp /\ ControlKnows /\ Recorded /\ HoldKnows /\ Stops /\ BeadKnown)'
 BY <1>1, <1>2, <1>3, <1>4, GuardIs, TypeFlags, NoOpIs DEF SameRow, BeadInv, Flags, OperationsLegal, OpShape,
   RowOfOp, ControlKnows, Recorded, HoldKnows, Stops, BeadKnown, Parking, DeferredOnRecord, Current, SessionGone,
   WorkKept, StopStep, CommitStep, Launching, NotDeferred
<1>7. (WaitingIsQuiet /\ NoOrphanClaim /\ StuckAsksHuman)'
 BY <1>1, <1>2, <1>3, <1>4, GuardIs, TypeFlags, NoOpIs DEF SameRow, BeadInv, Flags, ControlKnows, RowOfOp,
   BeadKnown, WaitingIsQuiet, NoOrphanClaim, StuckAsksHuman
<1> QED BY <1>5, <1>6, <1>7 DEF BeadInv

LEMMA GuardEndsKept ==
  ASSUME BeadInv, GuardEnds
  PROVE  BeadInv'
<1>1. AtGuard BY DEF GuardEnds
<1>2. CASE Finish("RUNNING", "none") BY <1>1, <1>2, GuardIs, FinishKept, Allowed DEF BeadStates, Whys
<1>3. CASE claim \notin {"ours", "gone"} /\ Finish("STUCK", "none") BY <1>1, <1>3, GuardIs, NotOursKept
<1> QED BY <1>2, <1>3 DEF GuardEnds

LEMMA ReplayResumeKept ==
  ASSUME BeadInv, ReplayResume
  PROVE  BeadInv'
<1>1. /\ busy /\ op.kind = "resume" /\ op.step = "intent" /\ ~chold /\ ~sess /\ row = "RESUMING"
      /\ ~touched => "deferred" \notin labels
 BY DEF ReplayResume, BeadInv, HoldKnows, Stops, SessionGone, RowOfOp, BeadKnown, NotDeferred
<1>2. CASE Finish(IF "human" \in labels THEN "STUCK" ELSE parked_state, "none")
 BY <1>1, <1>2, FinishKept, ParkedStateIs, Allowed DEF BeadStates, Whys
<1>3. CASE WriteLabel({}, {"parked"})
 <2>1. ~StopStep /\ ~CommitStep /\ ~Launching BY <1>1 DEF StopStep, CommitStep, Launching
 <2> QED BY <1>1, <1>3, <2>1, WriteKept DEF Labels
<1>4. CASE /\ OpStep("unlabelled") /\ GoOn("no") /\ SameRow
           /\ UNCHANGED <<records, holds, limbo, bead, world, touched, troubles>> BY <1>1, <1>4, MovesOn DEF Steps
<1>5. CASE NotOurs({}, {"parked"}) /\ Finish("STUCK", "none") BY <1>1, <1>5, NotOursKept DEF NotOurs
<1> QED BY <1>2, <1>3, <1>4, <1>5 DEF ReplayResume, LabelStep

LEMMA CurrentIs == BeadInv => /\ Current \in {"none", "quota", "account"}
                            /\ (Current = "none" <=> defers = <<>>)
BY TypeFlags DEF BeadInv, Flags, Current

LEMMA UndeferGateKept ==
  ASSUME BeadInv, UndeferGate
  PROVE  BeadInv'
<1>1. /\ busy /\ op.kind = "undefer" /\ op.step = "intent" /\ ~chold /\ ~sess /\ row = "RESUMING" /\ defers # <<>>
      /\ claim # "gone" BY DEF UndeferGate, BeadInv, HoldKnows, Stops, SessionGone, RowOfOp, Recorded
<1>2. CASE Finish("DEFERRED", Current) BY <1>1, <1>2, FinishKept, CurrentIs, Allowed DEF BeadStates, Whys
<1>3. CASE "human" \in labels /\ Finish("STUCK", "none") BY <1>1, <1>3, FinishKept, Allowed DEF BeadStates, Whys
<1>4. CASE Finish("HELD", "none") BY <1>1, <1>4, FinishKept, Allowed DEF BeadStates, Whys
<1>5. CASE EscalateFrom BY <1>1, <1>5, EscalateKept
<1>6. CASE /\ OpStep("gated") /\ GoOn("no") /\ SameRow
           /\ UNCHANGED <<records, holds, limbo, bead, world, touched, troubles>> BY <1>1, <1>6, MovesOn DEF Steps
<1>7. CASE DeferWithin("quota") \/ DeferWithin("account") BY <1>1, <1>7, DeferWithinKept
<1>8. CASE /\ Current = "account" /\ over' = FALSE /\ op' = NoOp /\ SetState("DEFERRED", "account") /\ Yield
           /\ UNCHANGED <<defers, holds, limbo, bead, world, touched, troubles>>
 <2>1. row' = "DEFERRED" /\ why' = "account" /\ illegal' = illegal BY <1>1, <1>8, Allowed DEF SetState
 <2>2. over' \in BOOLEAN BY <1>8
 <2>3. TypeOK' BY <1>1, <1>8, <2>1, <2>2, YieldIs, TypeFlags, NoOpIs DEF BeadInv, Flags, BeadStates, Whys
 <2>4. (OperationsLegal /\ OpShape /\ RowOfOp /\ ControlKnows /\ Recorded /\ HoldKnows /\ Stops /\ BeadKnown)'
  BY <1>1, <1>8, <2>1, <2>2, YieldIs, TypeFlags, NoOpIs DEF BeadInv, Flags, OperationsLegal, OpShape, RowOfOp,
    ControlKnows, Recorded, HoldKnows, Stops, BeadKnown, Parking, DeferredOnRecord, Current, SessionGone, WorkKept,
    StopStep, CommitStep, Launching, NotDeferred
 <2>5. (WaitingIsQuiet /\ NoOrphanClaim /\ StuckAsksHuman)'
  BY <1>1, <1>8, <2>1, <2>2, YieldIs, TypeFlags, NoOpIs DEF BeadInv, Flags, ControlKnows, RowOfOp, BeadKnown,
    WaitingIsQuiet, NoOrphanClaim, StuckAsksHuman
 <2> QED BY <2>3, <2>4, <2>5 DEF BeadInv
<1> QED BY <1>2, <1>3, <1>4, <1>5, <1>6, <1>7, <1>8 DEF UndeferGate

LEMMA UndeferUnlabelKept ==
  ASSUME BeadInv, UndeferUnlabel
  PROVE  BeadInv'
<1>1. busy /\ op.kind = "undefer" /\ op.step = "gated" /\ ~chold BY DEF UndeferUnlabel, LabelStep, BeadInv, HoldKnows
<1>2. CASE WriteLabel({}, {"deferred"})
 <2>1. ~StopStep /\ ~CommitStep /\ ~Launching BY <1>1 DEF StopStep, CommitStep, Launching
 <2> QED BY <1>1, <1>2, <2>1, WriteKept DEF Labels
<1>3. CASE /\ Labelled({}, {"deferred"}) /\ OpStep("unlabelled") /\ GoOn("no") /\ SameRow
           /\ UNCHANGED <<records, holds, limbo, bead, world, touched, troubles>>
 <2>1. ~touched => "deferred" \notin labels BY <1>1, <1>3 DEF Labelled, Pending, BeadInv, BeadKnown, NotDeferred
 <2> QED BY <1>1, <1>3, <2>1, MovesOn DEF Steps
<1>4. CASE NotOurs({}, {"deferred"}) /\ Finish("STUCK", "none") BY <1>1, <1>4, NotOursKept DEF NotOurs
<1> QED BY <1>2, <1>3, <1>4 DEF UndeferUnlabel, LabelStep

LEMMA UndeferParkedKept ==
  ASSUME BeadInv, UndeferParked
  PROVE  BeadInv'
<1>1. /\ busy /\ ~chold /\ row = "RESUMING" /\ (~touched => "deferred" \notin labels /\ ~sess)
      /\ Finish(parked_state, "none") BY DEF UndeferParked, BeadInv, HoldKnows, RowOfOp, BeadKnown, NotDeferred
<1> QED BY <1>1, FinishKept, ParkedStateIs, Allowed DEF BeadStates, Whys

LEMMA ReleaseUnlabelKept ==
  ASSUME BeadInv, ReleaseUnlabel
  PROVE  BeadInv'
<1>1. busy /\ op.kind = "release" /\ op.step = "intent" /\ ~chold BY DEF ReleaseUnlabel, LabelStep, BeadInv, HoldKnows
<1>2. CASE WriteLabel({}, {"held", "human"})
 <2>1. ~StopStep /\ ~CommitStep /\ ~Launching BY <1>1 DEF StopStep, CommitStep, Launching
 <2> QED BY <1>1, <1>2, <2>1, WriteKept DEF Labels
<1>3. CASE /\ OpStep("unlabelled") /\ GoOn("no") /\ SameRow
           /\ UNCHANGED <<records, holds, limbo, bead, world, touched, troubles>> BY <1>1, <1>3, MovesOn DEF Steps
<1>4. CASE NotOurs({}, {"held", "human"}) /\ Finish("STUCK", "none") BY <1>1, <1>4, NotOursKept DEF NotOurs
<1> QED BY <1>2, <1>3, <1>4 DEF ReleaseUnlabel, LabelStep

LEMMA ReleaseOnKept ==
  ASSUME BeadInv, ReleaseOn
  PROVE  BeadInv'
<1>1. busy /\ op.kind = "release" /\ op.step = "unlabelled" /\ ~chold /\ row \in {"HELD", "STUCK"}
 BY DEF ReleaseOn, BeadInv, HoldKnows, RowOfOp
<1>2. CASE EscalateFrom BY <1>1, <1>2, EscalateKept
<1>3. CASE /\ "deferred" \in labels /\ defers # <<>>
           /\ OpStep("regate") /\ SetState("DEFERRED", Current) /\ GoOn("no")
           /\ UNCHANGED <<records, holds, limbo, bead, world, touched, troubles>>
 <2>1. op' \in Op /\ op'.kind = "release" /\ op'.step = "regate" BY <1>1, <1>3, OpStepIs DEF Steps
 <2>2. row' = "DEFERRED" /\ why' = Current /\ illegal' = illegal /\ Current \in {"quota", "account"}
  BY <1>1, <1>3, Allowed, CurrentIs DEF SetState
 <2>3. TypeOK' BY <1>1, <1>3, <2>1, <2>2, TypeFlags, NoOpIs DEF GoOn, BeadInv, Flags, BeadStates, Whys
 <2>4. (OperationsLegal /\ OpShape /\ RowOfOp /\ ControlKnows /\ Recorded /\ HoldKnows /\ Stops /\ BeadKnown)'
  BY <1>1, <1>3, <2>1, <2>2, TypeFlags, NoOpIs DEF GoOn, BeadInv, Flags, OperationsLegal, OpShape, RowOfOp,
    ControlKnows, Recorded, HoldKnows, Stops, BeadKnown, Parking, DeferredOnRecord, Current, SessionGone, WorkKept,
    StopStep, CommitStep, Launching, NotDeferred
 <2>5. (WaitingIsQuiet /\ NoOrphanClaim /\ StuckAsksHuman)'
  BY <1>1, <1>3, <2>1, <2>2, TypeFlags, NoOpIs DEF GoOn, BeadInv, Flags, ControlKnows, RowOfOp, BeadKnown,
    WaitingIsQuiet, NoOrphanClaim, StuckAsksHuman
 <2> QED BY <2>3, <2>4, <2>5 DEF BeadInv
<1>4. CASE labels \cap {"deferred", "parked"} = {"parked"} /\ Finish(parked_state, "none")
 <2>1. "parked" \in labels /\ "deferred" \notin labels BY <1>4
 <2>2. ~touched => ~sess BY <2>1 DEF BeadInv, BeadKnown
 <2> QED BY <1>1, <1>4, <2>1, <2>2, FinishKept, ParkedStateIs, Allowed DEF BeadStates, Whys
<1>5. CASE RuntimeHold BY <1>1, <1>5, RuntimeHoldKept
<1>6. CASE /\ labels \cap {"deferred", "parked"} = {} /\ up
           /\ op' = NewOp("resume", "unlabelled") /\ SetState("RESUMING", "none") /\ Yield
           /\ UNCHANGED <<records, holds, limbo, bead, world, touched, troubles>>
 <2>1. op' \in Op /\ op'.kind = "resume" /\ op'.step = "unlabelled" BY <1>6, NewOpIs DEF Kinds, Steps
 <2>2. row' = "RESUMING" /\ why' = "none" /\ illegal' = illegal /\ "deferred" \notin labels
  BY <1>1, <1>6, Allowed DEF SetState
 <2>3. UNCHANGED <<records, holds, limbo, bead, world, touched>> BY <1>6
 <2>4. Yield BY <1>6
 <2>5. TypeOK' BY <1>1, <2>1, <2>2, <2>3, <2>4, YieldIs, TypeFlags, NoOpIs DEF BeadInv, Flags, BeadStates, Whys
 <2>6. (OperationsLegal /\ OpShape /\ RowOfOp /\ ControlKnows /\ Recorded /\ HoldKnows /\ Stops /\ BeadKnown)'
  BY <1>1, <2>1, <2>2, <2>3, <2>4, YieldIs, TypeFlags, NoOpIs DEF BeadInv, Flags, OperationsLegal, OpShape, RowOfOp,
    ControlKnows, Recorded, HoldKnows, Stops, BeadKnown, Parking, DeferredOnRecord, Current, SessionGone, WorkKept,
    StopStep, CommitStep, Launching, NotDeferred
 <2>7. (WaitingIsQuiet /\ NoOrphanClaim /\ StuckAsksHuman)'
  BY <1>1, <2>1, <2>2, <2>3, <2>4, YieldIs, TypeFlags, NoOpIs DEF BeadInv, Flags, ControlKnows, RowOfOp, BeadKnown,
    WaitingIsQuiet, NoOrphanClaim, StuckAsksHuman
 <2> QED BY <2>5, <2>6, <2>7 DEF BeadInv
<1> QED BY <1>2, <1>3, <1>4, <1>5, <1>6 DEF ReleaseOn

LEMMA ReleaseRegateKept ==
  ASSUME BeadInv, ReleaseRegate
  PROVE  BeadInv'
<1>1. busy /\ op.kind = "release" /\ op.step = "regate" /\ ~chold /\ row = "DEFERRED" /\ (~touched => ~sess)
 BY DEF ReleaseRegate, BeadInv, HoldKnows, RowOfOp, Stops, SessionGone
<1>2. CASE EscalateFrom BY <1>1, <1>2, EscalateKept
<1>3. CASE Current # "none" /\ Finish("DEFERRED", Current)
 BY <1>1, <1>3, FinishKept, CurrentIs, Allowed DEF BeadStates, Whys
<1>4. CASE DeferWithin("quota") BY <1>1, <1>4, DeferWithinKept
<1>5. CASE /\ Current = "account" /\ over' = TRUE /\ op' = NoOp /\ SetState("DEFERRED", "account") /\ Yield
           /\ UNCHANGED <<defers, holds, limbo, bead, world, touched, troubles>>
 <2>1. row' = "DEFERRED" /\ why' = "account" /\ illegal' = illegal BY <1>1, <1>5, Allowed DEF SetState
 <2>2. TypeOK' BY <1>1, <1>5, <2>1, YieldIs, TypeFlags, NoOpIs DEF BeadInv, Flags, BeadStates, Whys
 <2>3. (OperationsLegal /\ OpShape /\ RowOfOp /\ ControlKnows /\ Recorded /\ HoldKnows /\ Stops /\ BeadKnown)'
  BY <1>1, <1>5, <2>1, YieldIs, TypeFlags, NoOpIs DEF BeadInv, Flags, OperationsLegal, OpShape, RowOfOp,
    ControlKnows, Recorded, HoldKnows, Stops, BeadKnown, Parking, DeferredOnRecord, Current, SessionGone, WorkKept,
    StopStep, CommitStep, Launching, NotDeferred
 <2>4. (WaitingIsQuiet /\ NoOrphanClaim /\ StuckAsksHuman)'
  BY <1>1, <1>5, <2>1, YieldIs, TypeFlags, NoOpIs DEF BeadInv, Flags, ControlKnows, RowOfOp, BeadKnown,
    WaitingIsQuiet, NoOrphanClaim, StuckAsksHuman
 <2> QED BY <2>2, <2>3, <2>4 DEF BeadInv
<1> QED BY <1>2, <1>3, <1>4, <1>5 DEF ReleaseRegate

------------------------------
(* Claims. *)

LEMMA ClaimBeadKept ==
  ASSUME BeadInv, ClaimBead
  PROVE  BeadInv'
<1>1. /\ busy /\ op.kind = "pickup" /\ op.step = "intent" /\ did = "call" /\ ~chold /\ row = "CLAIMING"
      /\ ~touched => claim = "free" BY DEF ClaimBead, BeadInv, HoldKnows, RowOfOp, BeadKnown
<1>2. CASE Finish("DROPPED", "none") BY <1>1, <1>2, FinishKept, Allowed DEF BeadStates, Whys
<1>3. CASE /\ claim' \in {claim, "ours"} /\ (claim' # claim => claim = "free")
           /\ did' \in {"no", "done"} /\ UNCHANGED <<pc, busy, signals>>
           /\ UNCHANGED <<journal, labels, blockers, routed, world, history, troubles>>
 <2>1. TypeOK' BY <1>1, <1>3, TypeFlags, NoOpIs DEF BeadInv, Flags, BeadStates, Whys, Claims
 <2>2. (OperationsLegal /\ OpShape /\ RowOfOp /\ ControlKnows /\ Recorded /\ HoldKnows /\ Stops /\ BeadKnown)'
  BY <1>1, <1>3, TypeFlags, NoOpIs DEF BeadInv, Flags, OperationsLegal, OpShape, RowOfOp, ControlKnows, Recorded,
    HoldKnows, Stops, BeadKnown, Parking, DeferredOnRecord, Current, SessionGone, WorkKept, StopStep, CommitStep,
    Launching, NotDeferred
 <2>3. (WaitingIsQuiet /\ NoOrphanClaim /\ StuckAsksHuman)'
  BY <1>1, <1>3, TypeFlags, NoOpIs DEF BeadInv, Flags, ControlKnows, RowOfOp, BeadKnown, WaitingIsQuiet,
    NoOrphanClaim, StuckAsksHuman
 <2> QED BY <2>1, <2>2, <2>3 DEF BeadInv
<1>4. CASE /\ claim = "free" /\ claim' = "ours" /\ StuckFrom
           /\ UNCHANGED <<records, holds, limbo, labels, blockers, routed, world, touched, troubles>>
 <2>1. claim' \in Claims /\ sess' \in BOOLEAN /\ work' \in {"clean", "dirty"} /\ limbo' \in BOOLEAN
  BY <1>4, TypeFlags DEF BeadInv, Flags, Claims
 <2> QED BY <1>1, <1>4, <2>1, StuckKept
<1>5. CASE claim = "free" /\ Finish("STUCK", "unclaimable") BY <1>1, <1>5, FinishKept, Allowed DEF BeadStates, Whys
<1> QED BY <1>2, <1>3, <1>4, <1>5 DEF ClaimBead, GoOn

LEMMA ClaimedKept ==
  ASSUME BeadInv, busy, op.kind = "pickup", op.step = "intent", Claimed
  PROVE  BeadInv'
<1>1. op' \in Op /\ op'.kind = "pickup" /\ op'.step = "claimed" BY OpStepIs DEF Claimed, Steps
<1>2. chold' \in BOOLEAN /\ chold' = FALSE BY DEF Claimed
<1>3. SameRow /\ UNCHANGED <<records, rhold, limbo, bead, world, touched>> BY DEF Claimed
<1>4. CASE Yield
 <2>1. TypeOK' BY <1>1, <1>2, <1>3, <1>4, YieldIs, TypeFlags, NoOpIs DEF SameRow, BeadInv, Flags, BeadStates, Whys
 <2>2. (OperationsLegal /\ OpShape /\ RowOfOp /\ ControlKnows /\ Recorded /\ HoldKnows /\ Stops /\ BeadKnown)'
  BY <1>1, <1>2, <1>3, <1>4, YieldIs, TypeFlags, NoOpIs DEF SameRow, BeadInv, Flags, OperationsLegal, OpShape,
    RowOfOp, ControlKnows, Recorded, HoldKnows, Stops, BeadKnown, Parking, DeferredOnRecord, Current, SessionGone,
    WorkKept, StopStep, CommitStep, Launching, NotDeferred
 <2>3. (WaitingIsQuiet /\ NoOrphanClaim /\ StuckAsksHuman)'
  BY <1>1, <1>2, <1>3, <1>4, YieldIs, TypeFlags, NoOpIs DEF SameRow, BeadInv, Flags, ControlKnows, RowOfOp,
    BeadKnown, WaitingIsQuiet, NoOrphanClaim, StuckAsksHuman
 <2> QED BY <2>1, <2>2, <2>3 DEF BeadInv
<1>5. CASE GoOn("no")
 <2>1. TypeOK' BY <1>1, <1>2, <1>3, <1>5, TypeFlags, NoOpIs DEF SameRow, GoOn, BeadInv, Flags, BeadStates, Whys
 <2>2. (OperationsLegal /\ OpShape /\ RowOfOp /\ ControlKnows /\ Recorded /\ HoldKnows /\ Stops /\ BeadKnown)'
  BY <1>1, <1>2, <1>3, <1>5, TypeFlags, NoOpIs DEF SameRow, GoOn, BeadInv, Flags, OperationsLegal, OpShape, RowOfOp,
    ControlKnows, Recorded, HoldKnows, Stops, BeadKnown, Parking, DeferredOnRecord, Current, SessionGone, WorkKept,
    StopStep, CommitStep, Launching, NotDeferred
 <2>3. (WaitingIsQuiet /\ NoOrphanClaim /\ StuckAsksHuman)'
  BY <1>1, <1>2, <1>3, <1>5, TypeFlags, NoOpIs DEF SameRow, GoOn, BeadInv, Flags, ControlKnows, RowOfOp, BeadKnown,
    WaitingIsQuiet, NoOrphanClaim, StuckAsksHuman
 <2> QED BY <2>1, <2>2, <2>3 DEF BeadInv
<1> QED BY <1>4, <1>5 DEF Claimed

LEMMA ClaimJournaledKept ==
  ASSUME BeadInv, ClaimJournaled
  PROVE  BeadInv'
BY ClaimedKept DEF ClaimJournaled

LEMMA ResolveKept ==
  ASSUME BeadInv, ResolveClaim
  PROVE  BeadInv'
<1>1. busy /\ op.kind = "pickup" /\ op.step = "intent" /\ did = "no" /\ row = "CLAIMING"
 BY DEF ResolveClaim, BeadInv, RowOfOp
<1>2. CASE Claimed BY <1>1, <1>2, ClaimedKept
<1>3. CASE /\ claim # "ours" /\ chold' = FALSE /\ op' = NoOp /\ SetState("DROPPED", "none") /\ Yield
           /\ UNCHANGED <<records, rhold, limbo, bead, world, touched, troubles>>
 <2>1. row' = "DROPPED" /\ why' = "none" /\ illegal' = illegal BY <1>1, <1>3, Allowed DEF SetState
 <2>2. chold' \in BOOLEAN BY <1>3
 <2>3. TypeOK' BY <1>1, <1>3, <2>1, <2>2, YieldIs, TypeFlags, NoOpIs DEF BeadInv, Flags, BeadStates, Whys
 <2>4. (OperationsLegal /\ OpShape /\ RowOfOp /\ ControlKnows /\ Recorded /\ HoldKnows /\ Stops /\ BeadKnown)'
  BY <1>1, <1>3, <2>1, <2>2, YieldIs, TypeFlags, NoOpIs DEF BeadInv, Flags, OperationsLegal, OpShape, RowOfOp,
    ControlKnows, Recorded, HoldKnows, Stops, BeadKnown, Parking, DeferredOnRecord, Current, SessionGone, WorkKept,
    StopStep, CommitStep, Launching, NotDeferred
 <2>5. (WaitingIsQuiet /\ NoOrphanClaim /\ StuckAsksHuman)'
  BY <1>1, <1>3, <2>1, <2>2, YieldIs, TypeFlags, NoOpIs DEF BeadInv, Flags, ControlKnows, RowOfOp, BeadKnown,
    WaitingIsQuiet, NoOrphanClaim, StuckAsksHuman
 <2> QED BY <2>3, <2>4, <2>5 DEF BeadInv
<1>4. CASE /\ chold' = TRUE /\ SetState("CLAIMING", "none") /\ HoldPass
           /\ UNCHANGED <<op, records, rhold, limbo, bead, world, touched>>
 <2>1. row' = row /\ why' = "none" /\ illegal' = illegal BY <1>1, <1>4, Allowed DEF SetState, BeadStates
 <2>2. busy' \in BOOLEAN /\ busy' = FALSE /\ did' = "no" /\ pc' \in {"down", "idle"} /\ signals' = signals
  BY <1>4 DEF HoldPass
 <2>3. TypeOK' BY <1>1, <1>4, <2>1, <2>2, TypeFlags, NoOpIs DEF BeadInv, Flags, BeadStates, Whys
 <2>4. (OperationsLegal /\ OpShape /\ RowOfOp /\ ControlKnows /\ Recorded /\ HoldKnows /\ Stops /\ BeadKnown)'
  BY <1>1, <1>4, <2>1, <2>2, TypeFlags, NoOpIs DEF BeadInv, Flags, OperationsLegal, OpShape, RowOfOp, ControlKnows,
    Recorded, HoldKnows, Stops, BeadKnown, Parking, DeferredOnRecord, Current, SessionGone, WorkKept, StopStep,
    CommitStep, Launching, NotDeferred
 <2>5. (WaitingIsQuiet /\ NoOrphanClaim /\ StuckAsksHuman)'
  BY <1>1, <1>4, <2>1, <2>2, TypeFlags, NoOpIs DEF BeadInv, Flags, ControlKnows, RowOfOp, BeadKnown, WaitingIsQuiet,
    NoOrphanClaim, StuckAsksHuman
 <2> QED BY <2>3, <2>4, <2>5 DEF BeadInv
<1> QED BY <1>2, <1>3, <1>4 DEF ResolveClaim

LEMMA PlaceKept ==
  ASSUME BeadInv, PlaceBead
  PROVE  BeadInv'
<1>1. busy /\ op.kind = "pickup" /\ op.step = "claimed" /\ ~chold /\ row = "CLAIMING"
 BY DEF PlaceBead, BeadInv, RowOfOp, HoldKnows
<1>2. CASE EscalateFrom BY <1>1, <1>2, EscalateKept
<1>3. CASE /\ OpStep("placed") /\ SetState("STARTING", "none") /\ GoOn("no")
           /\ UNCHANGED <<records, holds, limbo, bead, world, touched, troubles>>
 <2>1. op' \in Op /\ op'.kind = "pickup" /\ op'.step = "placed" BY <1>1, <1>3, OpStepIs DEF Steps
 <2>2. row' = "STARTING" /\ why' = "none" /\ illegal' = illegal BY <1>1, <1>3, Allowed DEF SetState
 <2>3. TypeOK' BY <1>1, <1>3, <2>1, <2>2, TypeFlags, NoOpIs DEF GoOn, BeadInv, Flags, BeadStates, Whys
 <2>4. (OperationsLegal /\ OpShape /\ RowOfOp /\ ControlKnows /\ Recorded /\ HoldKnows /\ Stops /\ BeadKnown)'
  BY <1>1, <1>3, <2>1, <2>2, TypeFlags, NoOpIs DEF GoOn, BeadInv, Flags, OperationsLegal, OpShape, RowOfOp,
    ControlKnows, Recorded, HoldKnows, Stops, BeadKnown, Parking, DeferredOnRecord, Current, SessionGone, WorkKept,
    StopStep, CommitStep, Launching, NotDeferred
 <2>5. (WaitingIsQuiet /\ NoOrphanClaim /\ StuckAsksHuman)'
  BY <1>1, <1>3, <2>1, <2>2, TypeFlags, NoOpIs DEF GoOn, BeadInv, Flags, ControlKnows, RowOfOp, BeadKnown,
    WaitingIsQuiet, NoOrphanClaim, StuckAsksHuman
 <2> QED BY <2>3, <2>4, <2>5 DEF BeadInv
<1> QED BY <1>2, <1>3 DEF PlaceBead

LEMMA WorktreeKept ==
  ASSUME BeadInv, MakeWorktree
  PROVE  BeadInv'
<1>1. busy /\ op.kind = "pickup" /\ op.step = "placed" /\ ~chold BY DEF MakeWorktree, BeadInv, HoldKnows
<1>2. CASE claim # "ours" /\ Finish("STUCK", "none") BY <1>1, <1>2, NotOursKept
<1>3. CASE EscalateFrom BY <1>1, <1>3, EscalateKept
<1>4. CASE /\ OpStep("worktree") /\ GoOn("no") /\ SameRow
           /\ UNCHANGED <<records, holds, limbo, bead, world, touched, troubles>> BY <1>1, <1>4, MovesOn DEF Steps
<1> QED BY <1>2, <1>3, <1>4 DEF MakeWorktree

LEMMA VanishedKept ==
  ASSUME BeadInv, Vanished
  PROVE  BeadInv'
<1>1. busy /\ claim = "gone" /\ op.kind # "none" BY DEF Vanished, BeadInv, ControlKnows
<1>2. CASE /\ up /\ sess' = FALSE /\ op' = NoOp /\ Adopt("DROPPED", "none") /\ Yield /\ chold' = FALSE
           /\ UNCHANGED <<records, rhold, limbo, bead, work, up, due, touched, troubles>>
 <2>1. sess' \in BOOLEAN /\ chold' \in BOOLEAN BY <1>2
 <2>2. TypeOK' BY <1>1, <1>2, <2>1, YieldIs, TypeFlags, NoOpIs DEF Adopt, BeadInv, Flags, BeadStates, Whys
 <2>3. (OperationsLegal /\ OpShape /\ RowOfOp /\ ControlKnows /\ Recorded /\ HoldKnows /\ Stops /\ BeadKnown)'
  BY <1>1, <1>2, <2>1, YieldIs, TypeFlags, NoOpIs DEF Adopt, BeadInv, Flags, OperationsLegal, OpShape, RowOfOp,
    ControlKnows, Recorded, HoldKnows, Stops, BeadKnown, Parking, DeferredOnRecord, Current, SessionGone, WorkKept,
    StopStep, CommitStep, Launching, NotDeferred
 <2>4. (WaitingIsQuiet /\ NoOrphanClaim /\ StuckAsksHuman)'
  BY <1>1, <1>2, <2>1, YieldIs, TypeFlags, NoOpIs DEF Adopt, BeadInv, Flags, ControlKnows, RowOfOp, BeadKnown,
    WaitingIsQuiet, NoOrphanClaim, StuckAsksHuman
 <2> QED BY <2>2, <2>3, <2>4 DEF BeadInv
<1>3. CASE /\ rhold' = TRUE /\ HoldPass /\ SameRow
           /\ UNCHANGED <<op, records, chold, limbo, bead, world, touched, troubles>> BY <1>3, HoldKept DEF SameRow
<1> QED BY <1>2, <1>3 DEF Vanished

LEMMA ReadFailsKept ==
  ASSUME BeadInv, ReadFails
  PROVE  BeadInv'
BY HoldKept, TypeFlags DEF ReadFails, BeadInv, Flags

------------------------------
(* The sweep. *)

\* Where a sweep goes on.
LEMMA SweptIs ==
  ASSUME BeadInv, Swept, pc \notin {"down", "idle"}, ~busy
  PROVE  /\ busy' = FALSE /\ busy' \in BOOLEAN /\ did' = "no" /\ signals' = signals
         /\ pc' \in {"resweep", "idle", "signals", "replay", "cands", "ready"}
BY AfterIs, TypeFlags DEF Swept, BeadInv, Flags

LEMMA SweptAsKept ==
  ASSUME BeadInv, ~busy, op.kind = "none", pc \notin {"down", "idle"}, NEW state \in BeadStates, NEW reason \in Whys,
    SweptAs(state, reason), state \in {"STUCK", "DROPPED", "CLOSED", "PARKED", "WAITING_INPUT", "HELD"},
    state \in Waiting /\ ~touched => ~sess /\ "deferred" \notin labels,
    state \in {"DROPPED", "CLOSED"} /\ ~touched => claim # "ours",
    state = "STUCK" /\ claim = "ours" /\ ~touched => "human" \in labels,
    state = "STUCK" /\ reason \in Unlisted /\ ~touched => claim = "free"
  PROVE  BeadInv'
<1>1. row' = state /\ why' = reason /\ illegal' = illegal /\ Swept BY DEF SweptAs, Adopt
<1>2. UNCHANGED <<op, records, holds, limbo, bead, world, touched, troubles>> BY DEF SweptAs
<1>3. TypeOK' BY <1>1, <1>2, SweptIs, TypeFlags, NoOpIs DEF BeadInv, Flags, BeadStates, Whys
<1>4. (OperationsLegal /\ OpShape /\ RowOfOp /\ ControlKnows /\ Recorded /\ HoldKnows /\ Stops /\ BeadKnown)'
 BY <1>1, <1>2, SweptIs, TypeFlags, NoOpIs DEF BeadInv, Flags, OperationsLegal, OpShape, RowOfOp, ControlKnows,
   Recorded, HoldKnows, Stops, BeadKnown, Parking, DeferredOnRecord, Current, SessionGone, WorkKept, StopStep,
   CommitStep, Launching, NotDeferred
<1>5. (WaitingIsQuiet /\ NoOrphanClaim /\ StuckAsksHuman)'
 BY <1>1, <1>2, SweptIs, TypeFlags, NoOpIs DEF BeadInv, Flags, ControlKnows, RowOfOp, BeadKnown, WaitingIsQuiet,
   NoOrphanClaim, StuckAsksHuman
<1> QED BY <1>3, <1>4, <1>5 DEF BeadInv

LEMMA SweptSameKept ==
  ASSUME BeadInv, ~busy, SweptSame, pc \notin {"down", "idle"}
  PROVE  BeadInv'
<1>1. Swept /\ UNCHANGED <<journal, bead, world, history, troubles>> BY DEF SweptSame
<1>2. did # "no" => op.kind = "none" BY DEF BeadInv, ControlKnows
<1>3. busy' = FALSE /\ did' = "no" /\ signals' = signals /\ pc' \notin {"down"} BY <1>1, SweptIs
<1>4. TypeOK' BY <1>1, SweptIs, TypeFlags DEF BeadInv, Flags
<1>5. (OperationsLegal /\ OpShape /\ RowOfOp /\ ControlKnows /\ Recorded /\ HoldKnows)'
 BY <1>1, <1>2, <1>3 DEF BeadInv, OperationsLegal, OpShape, RowOfOp, ControlKnows, Recorded, HoldKnows, Parking,
   DeferredOnRecord, Current
<1>6. (Stops /\ BeadKnown)'
 BY <1>1, <1>2, <1>3 DEF BeadInv, Stops, BeadKnown, SessionGone, WorkKept, StopStep, CommitStep, Launching,
   NotDeferred
<1>7. (WaitingIsQuiet /\ NoOrphanClaim /\ StuckAsksHuman)'
 BY <1>1 DEF BeadInv, WaitingIsQuiet, NoOrphanClaim, StuckAsksHuman
<1> QED BY <1>4, <1>5, <1>6, <1>7 DEF BeadInv

LEMMA SweptHeldKept ==
  ASSUME BeadInv, ~busy, op.kind = "none", SweptHeld, pc \in {"sweep", "resweep"}
  PROVE  BeadInv'
<1>1. op' \in Op /\ op'.kind = "escalate" /\ op'.step = "intent" BY NewOpIs DEF SweptHeld, Kinds, Steps
<1>2. /\ row' = "STUCK" /\ why' = "none" /\ illegal' = illegal /\ busy' = TRUE /\ did' = "no"
      /\ UNCHANGED <<pc, signals, records, holds, limbo, bead, world, touched>> BY DEF SweptHeld, Adopt
<1>3. TypeOK' BY <1>1, <1>2, TypeFlags, NoOpIs DEF BeadInv, Flags, BeadStates, Whys
<1>4. (OperationsLegal /\ OpShape /\ RowOfOp /\ ControlKnows /\ Recorded /\ HoldKnows /\ Stops /\ BeadKnown)'
 BY <1>1, <1>2, TypeFlags, NoOpIs DEF BeadInv, Flags, OperationsLegal, OpShape, RowOfOp, ControlKnows, Recorded,
   HoldKnows, Stops, BeadKnown, Parking, DeferredOnRecord, Current, SessionGone, WorkKept, StopStep, CommitStep,
   Launching, NotDeferred
<1>5. (WaitingIsQuiet /\ NoOrphanClaim /\ StuckAsksHuman)'
 BY <1>1, <1>2, TypeFlags, NoOpIs DEF BeadInv, Flags, ControlKnows, RowOfOp, BeadKnown, WaitingIsQuiet,
   NoOrphanClaim, StuckAsksHuman
<1> QED BY <1>3, <1>4, <1>5 DEF BeadInv

LEMMA SweepSkipsKept ==
  ASSUME BeadInv, SweepSkips
  PROVE  BeadInv'
BY SweptSameKept DEF SweepSkips, Sweeping

LEMMA SweepStopsKept ==
  ASSUME BeadInv, SweepStops
  PROVE  BeadInv'
<1>1. ~busy /\ pc \in {"sweep", "resweep"} /\ op = NoOp /\ op.kind = "none" /\ claim # "ours"
 BY NoOpIs DEF SweepStops, Sweeping, Listed
<1>2. CASE up /\ sess' = FALSE /\ GoOn("done") /\ UNCHANGED <<journal, bead, work, up, due, history, troubles>>
 <2>1. sess' \in BOOLEAN BY <1>2
 <2>2. TypeOK' BY <1>1, <1>2, <2>1, TypeFlags, NoOpIs DEF GoOn, BeadInv, Flags, BeadStates, Whys
 <2>3. (OperationsLegal /\ OpShape /\ RowOfOp /\ ControlKnows /\ Recorded /\ HoldKnows /\ Stops /\ BeadKnown)'
  BY <1>1, <1>2, <2>1, TypeFlags, NoOpIs DEF GoOn, BeadInv, Flags, OperationsLegal, OpShape, RowOfOp, ControlKnows,
    Recorded, HoldKnows, Stops, BeadKnown, Parking, DeferredOnRecord, Current, SessionGone, WorkKept, StopStep,
    CommitStep, Launching, NotDeferred
 <2>4. (WaitingIsQuiet /\ NoOrphanClaim /\ StuckAsksHuman)'
  BY <1>1, <1>2, <2>1, TypeFlags, NoOpIs DEF GoOn, BeadInv, Flags, ControlKnows, RowOfOp, BeadKnown, WaitingIsQuiet,
    NoOrphanClaim, StuckAsksHuman
 <2> QED BY <2>2, <2>3, <2>4 DEF BeadInv
<1>3. CASE /\ ~up /\ Adopt("STUCK", "none") /\ HoldPass
           /\ UNCHANGED <<op, records, holds, limbo, bead, world, touched, troubles>>
 <2>1. busy' \in BOOLEAN /\ busy' = FALSE /\ did' = "no" /\ pc' \in {"down", "idle"} /\ signals' = signals
  BY <1>3 DEF HoldPass
 <2>2. TypeOK' BY <1>1, <1>3, <2>1, TypeFlags, NoOpIs DEF Adopt, BeadInv, Flags, BeadStates, Whys
 <2>3. (OperationsLegal /\ OpShape /\ RowOfOp /\ ControlKnows /\ Recorded /\ HoldKnows /\ Stops /\ BeadKnown)'
  BY <1>1, <1>3, <2>1, TypeFlags, NoOpIs DEF Adopt, BeadInv, Flags, OperationsLegal, OpShape, RowOfOp, ControlKnows,
    Recorded, HoldKnows, Stops, BeadKnown, Parking, DeferredOnRecord, Current, SessionGone, WorkKept, StopStep,
    CommitStep, Launching, NotDeferred
 <2>4. (WaitingIsQuiet /\ NoOrphanClaim /\ StuckAsksHuman)'
  BY <1>1, <1>3, <2>1, TypeFlags, NoOpIs DEF Adopt, BeadInv, Flags, ControlKnows, RowOfOp, BeadKnown,
    WaitingIsQuiet, NoOrphanClaim, StuckAsksHuman
 <2> QED BY <2>2, <2>3, <2>4 DEF BeadInv
<1>4. CASE /\ ~up /\ Adopt("STUCK", "none") /\ Swept
           /\ UNCHANGED <<op, records, holds, limbo, bead, world, touched, troubles>>
 BY <1>1, <1>4, SweptAsKept DEF SweptAs, BeadStates, Whys
<1> QED BY <1>2, <1>3, <1>4 DEF SweepStops

LEMMA SweepNotOursKept ==
  ASSUME BeadInv, SweepNotOurs
  PROVE  BeadInv'
<1>1. ~busy /\ pc \in {"sweep", "resweep"} /\ op.kind = "none" /\ claim # "ours"
 BY NoOpIs DEF SweepNotOurs, Sweeping, Listed
<1>2. CASE SweptSame BY <1>1, <1>2, SweptSameKept
<1>3. CASE SweptAs("DROPPED", "none") \/ SweptAs("CLOSED", "none") \/ SweptAs("STUCK", "none")
 BY <1>1, <1>3, SweptAsKept DEF BeadStates, Whys
<1> QED BY <1>2, <1>3 DEF SweepNotOurs

LEMMA SweepOursKept ==
  ASSUME BeadInv, SweepOurs
  PROVE  BeadInv'
<1>1. ~busy /\ pc \in {"sweep", "resweep"} /\ op = NoOp /\ op.kind = "none" /\ ~chold
 BY NoOpIs DEF SweepOurs, Sweeping, BeadInv, HoldKnows
<1>2. CASE SweptSame BY <1>1, <1>2, SweptSameKept
<1>3. CASE "human" \in labels /\ SweptAs("STUCK", "none") BY <1>1, <1>3, SweptAsKept DEF BeadStates, Whys
<1>4. CASE SweptHeld BY <1>1, <1>4, SweptHeldKept
<1>5. CASE "deferred" \notin labels /\ "parked" \in labels /\ ~Mismatch /\ SweptAs(parked_state, "none")
 <2>1. ~sess BY <1>5 DEF Mismatch
 <2> QED BY <1>1, <1>5, <2>1, SweptAsKept, ParkedStateIs DEF BeadStates, Whys
<1>6. CASE /\ ~Mismatch /\ "deferred" \notin labels /\ "parked" \notin labels /\ ~sess
           /\ op' = NewOp("resume", "unlabelled") /\ SetState("RESUMING", "none") /\ Swept
           /\ UNCHANGED <<records, holds, limbo, bead, world, touched, troubles>>
 <2>1. op' \in Op /\ op'.kind = "resume" /\ op'.step = "unlabelled" BY <1>6, NewOpIs DEF Kinds, Steps
 <2>2. row = "RUNNING" BY <1>6 DEF Mismatch
 <2>3. row' = "RESUMING" /\ why' = "none" /\ illegal' = illegal BY <1>6, <2>2, Allowed DEF SetState
 <2>4. Swept /\ UNCHANGED <<records, holds, limbo, bead, world, touched>> /\ "deferred" \notin labels BY <1>6
 <2>5. TypeOK' BY <1>1, <2>1, <2>3, <2>4, SweptIs, TypeFlags, NoOpIs DEF BeadInv, Flags, BeadStates, Whys
 <2>6. (OperationsLegal /\ OpShape /\ RowOfOp /\ ControlKnows /\ Recorded /\ HoldKnows /\ Stops /\ BeadKnown)'
  BY <1>1, <2>1, <2>3, <2>4, SweptIs, TypeFlags, NoOpIs DEF BeadInv, Flags, OperationsLegal, OpShape, RowOfOp,
    ControlKnows, Recorded, HoldKnows, Stops, BeadKnown, Parking, DeferredOnRecord, Current, SessionGone, WorkKept,
    StopStep, CommitStep, Launching, NotDeferred
 <2>7. (WaitingIsQuiet /\ NoOrphanClaim /\ StuckAsksHuman)'
  BY <1>1, <2>1, <2>3, <2>4, SweptIs, TypeFlags, NoOpIs DEF BeadInv, Flags, ControlKnows, RowOfOp, BeadKnown,
    WaitingIsQuiet, NoOrphanClaim, StuckAsksHuman
 <2> QED BY <2>5, <2>6, <2>7 DEF BeadInv
<1> QED BY <1>2, <1>3, <1>4, <1>5, <1>6 DEF SweepOurs

------------------------------
(* The passes and the calls. *)

LEMMA StartKept ==
  ASSUME BeadInv, Start
  PROVE  BeadInv'
<1>1. TypeOK'
 BY TypeFlags, AfterIs, NoOpIs DEF Start, Goto, Resting, BeadInv, Flags, BeadStates, Whys, Claims, Labels, Blockers
<1>2. (OperationsLegal /\ OpShape /\ RowOfOp /\ ControlKnows /\ Recorded /\ HoldKnows /\ Stops /\ BeadKnown)'
 BY TypeFlags, AfterIs, NoOpIs DEF Start, Goto, Resting, BeadInv, OperationsLegal, OpShape, RowOfOp, ControlKnows,
   Recorded, HoldKnows, Stops, BeadKnown, Parking, DeferredOnRecord, Current, SessionGone, WorkKept, StopStep,
   CommitStep, Launching, NotDeferred
<1>3. (WaitingIsQuiet /\ NoOrphanClaim /\ StuckAsksHuman)'
 BY TypeFlags, AfterIs, NoOpIs DEF Start, Goto, Resting, BeadInv, OpShape, ControlKnows, RowOfOp, BeadKnown,
   WaitingIsQuiet, NoOrphanClaim, StuckAsksHuman
<1> QED BY <1>1, <1>2, <1>3 DEF BeadInv

LEMMA RecoverKept ==
  ASSUME BeadInv, Recover
  PROVE  BeadInv'
<1>1. pc = "recover" /\ ~busy /\ UNCHANGED <<op, row, why, records, rhold, limbo, bead, world, history, troubles, signals>>
 BY DEF Recover, Resting, Begin, Goto
<1>2. CASE op # NoOp /\ busy' = TRUE /\ did' = "no" /\ UNCHANGED <<pc, chold>>
 <2>1. op.kind # "none" BY <1>2 DEF BeadInv, OpShape
 <2>2. TypeOK' BY <1>1, <1>2, <2>1, TypeFlags, NoOpIs DEF BeadInv, Flags, BeadStates, Whys
 <2>3. (OperationsLegal /\ OpShape /\ RowOfOp /\ ControlKnows /\ Recorded /\ HoldKnows /\ Stops /\ BeadKnown)'
  BY <1>1, <1>2, <2>1, TypeFlags, NoOpIs DEF BeadInv, Flags, OperationsLegal, OpShape, RowOfOp, ControlKnows,
    Recorded, HoldKnows, Stops, BeadKnown, Parking, DeferredOnRecord, Current, SessionGone, WorkKept, StopStep,
    CommitStep, Launching, NotDeferred
 <2>4. (WaitingIsQuiet /\ NoOrphanClaim /\ StuckAsksHuman)'
  BY <1>1, <1>2, <2>1, TypeFlags, NoOpIs DEF BeadInv, Flags, ControlKnows, RowOfOp, BeadKnown, WaitingIsQuiet,
    NoOrphanClaim, StuckAsksHuman
 <2> QED BY <2>2, <2>3, <2>4 DEF BeadInv
<1>3. CASE pc' = "resweep" /\ UNCHANGED <<busy, did>> /\ chold' = (chold /\ op # NoOp)
 <2>1. chold' \in BOOLEAN /\ (chold' => chold) BY <1>3
 <2>2. TypeOK' BY <1>1, <1>3, <2>1, TypeFlags, NoOpIs DEF BeadInv, Flags, BeadStates, Whys
 <2>3. (OperationsLegal /\ OpShape /\ RowOfOp /\ ControlKnows /\ Recorded /\ HoldKnows /\ Stops /\ BeadKnown)'
  BY <1>1, <1>3, <2>1, TypeFlags, NoOpIs DEF BeadInv, Flags, OperationsLegal, OpShape, RowOfOp, ControlKnows,
    Recorded, HoldKnows, Stops, BeadKnown, Parking, DeferredOnRecord, Current, SessionGone, WorkKept, StopStep,
    CommitStep, Launching, NotDeferred
 <2>4. (WaitingIsQuiet /\ NoOrphanClaim /\ StuckAsksHuman)'
  BY <1>1, <1>3, <2>1, TypeFlags, NoOpIs DEF BeadInv, Flags, ControlKnows, RowOfOp, BeadKnown, WaitingIsQuiet,
    NoOrphanClaim, StuckAsksHuman
 <2> QED BY <2>2, <2>3, <2>4 DEF BeadInv
<1> QED BY <1>2, <1>3 DEF Recover, Begin, Goto

LEMMA PickupKept ==
  ASSUME BeadInv, Pickup
  PROVE  BeadInv'
<1>1. TypeOK'
 BY TypeFlags, AfterIs, NoOpIs DEF Pickup, Goto, Resting, BeadInv, Flags, BeadStates, Whys, Claims, Labels, Blockers
<1>2. (OperationsLegal /\ OpShape /\ RowOfOp /\ ControlKnows /\ Recorded /\ HoldKnows /\ Stops /\ BeadKnown)'
 BY TypeFlags, AfterIs, NoOpIs DEF Pickup, Goto, Resting, BeadInv, OperationsLegal, OpShape, RowOfOp, ControlKnows,
   Recorded, HoldKnows, Stops, BeadKnown, Parking, DeferredOnRecord, Current, SessionGone, WorkKept, StopStep,
   CommitStep, Launching, NotDeferred
<1>3. (WaitingIsQuiet /\ NoOrphanClaim /\ StuckAsksHuman)'
 BY TypeFlags, AfterIs, NoOpIs DEF Pickup, Goto, Resting, BeadInv, OpShape, ControlKnows, RowOfOp, BeadKnown,
   WaitingIsQuiet, NoOrphanClaim, StuckAsksHuman
<1> QED BY <1>1, <1>2, <1>3 DEF BeadInv

LEMMA TaintKept ==
  ASSUME BeadInv, TaintSignal
  PROVE  BeadInv'
<1>1. pc = "signals" /\ ~busy /\ signals # <<>> BY DEF TaintSignal
<1>2. CASE Dequeue /\ UNCHANGED <<journal, bead, world, history, troubles>>
 <2>1. signals' \in Seq({"taint", "limit"}) BY <1>1, <1>2, TypeFlags DEF Dequeue, BeadInv, Flags
 <2>2. UNCHANGED <<pc, busy, did>> BY <1>2 DEF Dequeue
 <2>3. TypeOK' BY <1>1, <1>2, <2>1, <2>2, TypeFlags, NoOpIs DEF BeadInv, Flags, BeadStates, Whys
 <2>4. (OperationsLegal /\ OpShape /\ RowOfOp /\ ControlKnows /\ Recorded /\ HoldKnows /\ Stops /\ BeadKnown)'
  BY <1>1, <1>2, <2>1, <2>2, TypeFlags, NoOpIs DEF BeadInv, Flags, OperationsLegal, OpShape, RowOfOp, ControlKnows,
    Recorded, HoldKnows, Stops, BeadKnown, Parking, DeferredOnRecord, Current, SessionGone, WorkKept, StopStep,
    CommitStep, Launching, NotDeferred
 <2>5. (WaitingIsQuiet /\ NoOrphanClaim /\ StuckAsksHuman)'
  BY <1>1, <1>2, <2>1, <2>2, TypeFlags, NoOpIs DEF BeadInv, Flags, ControlKnows, RowOfOp, BeadKnown, WaitingIsQuiet,
    NoOrphanClaim, StuckAsksHuman
 <2> QED BY <2>3, <2>4, <2>5 DEF BeadInv
<1>3. CASE row \in {"RUNNING", "WAITING_INPUT"} /\ allowed(row, "PARKING") /\ Park({}, TRUE, "signals")
 <2>1. row = "RUNNING" BY <1>3 DEF allowed, ALLOWED, ParkedLike
 <2>2. op.kind = "none" BY <2>1, TypeFlags DEF BeadInv, Flags, RowOfOp, OpShape, Op, Kinds, Parking
 <2>3. PICK b \in BOOLEAN : b /\ Park({}, b, "signals") BY <1>3
 <2> QED BY <1>1, <2>1, <2>2, <2>3, ParkKept
<1>4. CASE illegal' = illegal \cup {"report"} /\ HoldPass /\ UNCHANGED <<journal, bead, world, touched, troubles>>
 BY <1>4, HoldKept, TypeFlags DEF BeadInv, Flags
<1> QED BY <1>2, <1>3, <1>4 DEF TaintSignal

LEMMA LimitKept ==
  ASSUME BeadInv, LimitSignal
  PROVE  BeadInv'
<1>1. pc = "signals" /\ ~busy /\ signals # <<>> BY DEF LimitSignal
<1>2. CASE Dequeue /\ UNCHANGED <<journal, bead, world, history, troubles>>
 <2>1. signals' \in Seq({"taint", "limit"}) BY <1>1, <1>2, TypeFlags DEF Dequeue, BeadInv, Flags
 <2>2. UNCHANGED <<pc, busy, did>> BY <1>2 DEF Dequeue
 <2>3. TypeOK' BY <1>1, <1>2, <2>1, <2>2, TypeFlags, NoOpIs DEF BeadInv, Flags, BeadStates, Whys
 <2>4. (OperationsLegal /\ OpShape /\ RowOfOp /\ ControlKnows /\ Recorded /\ HoldKnows /\ Stops /\ BeadKnown)'
  BY <1>1, <1>2, <2>1, <2>2, TypeFlags, NoOpIs DEF BeadInv, Flags, OperationsLegal, OpShape, RowOfOp, ControlKnows,
    Recorded, HoldKnows, Stops, BeadKnown, Parking, DeferredOnRecord, Current, SessionGone, WorkKept, StopStep,
    CommitStep, Launching, NotDeferred
 <2>5. (WaitingIsQuiet /\ NoOrphanClaim /\ StuckAsksHuman)'
  BY <1>1, <1>2, <2>1, <2>2, TypeFlags, NoOpIs DEF BeadInv, Flags, ControlKnows, RowOfOp, BeadKnown, WaitingIsQuiet,
    NoOrphanClaim, StuckAsksHuman
 <2> QED BY <2>3, <2>4, <2>5 DEF BeadInv
<1>3. CASE /\ row = "RUNNING" /\ op = NoOp
           /\ OpenDefer([NewOp("park", "intent") EXCEPT !.limit = TRUE], "quota", "signals")
 <2>1. PICK o : o = [NewOp("park", "intent") EXCEPT !.limit = TRUE] OBVIOUS
 <2>2. NewOp("park", "intent") \in Op /\ NewOp("park", "intent").kind = "park" BY NewOpIs DEF Kinds, Steps
 <2>3. o \in Op /\ o.kind = "park" BY <2>1, <2>2 DEF Op
 <2>4. OpenDefer(o, "quota", "signals") BY <1>3, <2>1
 <2> QED BY <1>1, <1>3, <2>3, <2>4, NoOpIs, OpenDeferKept
<1> QED BY <1>2, <1>3 DEF LimitSignal

LEMMA SignalsDoneKept ==
  ASSUME BeadInv, SignalsDone
  PROVE  BeadInv'
<1>1. TypeOK'
 BY TypeFlags, AfterIs, NoOpIs DEF SignalsDone, Goto, Resting, BeadInv, Flags, BeadStates, Whys, Claims, Labels,
   Blockers
<1>2. (OperationsLegal /\ OpShape /\ RowOfOp /\ ControlKnows /\ Recorded /\ HoldKnows /\ Stops /\ BeadKnown)'
 BY TypeFlags, AfterIs, NoOpIs DEF SignalsDone, Goto, Resting, BeadInv, OperationsLegal, OpShape, RowOfOp,
   ControlKnows, Recorded, HoldKnows, Stops, BeadKnown, Parking, DeferredOnRecord, Current, SessionGone, WorkKept,
   StopStep, CommitStep, Launching, NotDeferred
<1>3. (WaitingIsQuiet /\ NoOrphanClaim /\ StuckAsksHuman)'
 BY TypeFlags, AfterIs, NoOpIs DEF SignalsDone, Goto, Resting, BeadInv, OpShape, ControlKnows, RowOfOp, BeadKnown,
   WaitingIsQuiet, NoOrphanClaim, StuckAsksHuman
<1> QED BY <1>1, <1>2, <1>3 DEF BeadInv

LEMMA ReplayKept ==
  ASSUME BeadInv, Replay
  PROVE  BeadInv'
<1>1. TypeOK'
 BY TypeFlags, AfterIs, NoOpIs DEF Replay, Begin, Resting, BeadInv, Flags, BeadStates, Whys, Claims, Labels, Blockers
<1>2. (OperationsLegal /\ OpShape /\ RowOfOp /\ ControlKnows /\ Recorded /\ HoldKnows /\ Stops /\ BeadKnown)'
 BY TypeFlags, AfterIs, NoOpIs DEF Replay, Begin, Resting, BeadInv, OperationsLegal, OpShape, RowOfOp, ControlKnows,
   Recorded, HoldKnows, Stops, BeadKnown, Parking, DeferredOnRecord, Current, SessionGone, WorkKept, StopStep,
   CommitStep, Launching, NotDeferred
<1>3. (WaitingIsQuiet /\ NoOrphanClaim /\ StuckAsksHuman)'
 BY TypeFlags, AfterIs, NoOpIs DEF Replay, Begin, Resting, BeadInv, OpShape, ControlKnows, RowOfOp, BeadKnown,
   WaitingIsQuiet, NoOrphanClaim, StuckAsksHuman
<1> QED BY <1>1, <1>2, <1>3 DEF BeadInv

LEMMA ReplayDoneKept ==
  ASSUME BeadInv, ReplayDone
  PROVE  BeadInv'
<1>1. TypeOK'
 BY TypeFlags, AfterIs, NoOpIs DEF ReplayDone, Goto, Resting, BeadInv, Flags, BeadStates, Whys, Claims, Labels,
   Blockers
<1>2. (OperationsLegal /\ OpShape /\ RowOfOp /\ ControlKnows /\ Recorded /\ HoldKnows /\ Stops /\ BeadKnown)'
 BY TypeFlags, AfterIs, NoOpIs DEF ReplayDone, Goto, Resting, BeadInv, OperationsLegal, OpShape, RowOfOp,
   ControlKnows, Recorded, HoldKnows, Stops, BeadKnown, Parking, DeferredOnRecord, Current, SessionGone, WorkKept,
   StopStep, CommitStep, Launching, NotDeferred
<1>3. (WaitingIsQuiet /\ NoOrphanClaim /\ StuckAsksHuman)'
 BY TypeFlags, AfterIs, NoOpIs DEF ReplayDone, Goto, Resting, BeadInv, OpShape, ControlKnows, RowOfOp, BeadKnown,
   WaitingIsQuiet, NoOrphanClaim, StuckAsksHuman
<1> QED BY <1>1, <1>2, <1>3 DEF BeadInv

LEMMA PassHeldKept ==
  ASSUME BeadInv, PassHeld
  PROVE  BeadInv'
<1>1. TypeOK'
 BY TypeFlags, AfterIs, NoOpIs DEF PassHeld, Goto, Resting, BeadInv, Flags, BeadStates, Whys, Claims, Labels, Blockers
<1>2. (OperationsLegal /\ OpShape /\ RowOfOp /\ ControlKnows /\ Recorded /\ HoldKnows /\ Stops /\ BeadKnown)'
 BY TypeFlags, AfterIs, NoOpIs DEF PassHeld, Goto, Resting, BeadInv, OperationsLegal, OpShape, RowOfOp,
   ControlKnows, Recorded, HoldKnows, Stops, BeadKnown, Parking, DeferredOnRecord, Current, SessionGone, WorkKept,
   StopStep, CommitStep, Launching, NotDeferred
<1>3. (WaitingIsQuiet /\ NoOrphanClaim /\ StuckAsksHuman)'
 BY TypeFlags, AfterIs, NoOpIs DEF PassHeld, Goto, Resting, BeadInv, OpShape, ControlKnows, RowOfOp, BeadKnown,
   WaitingIsQuiet, NoOrphanClaim, StuckAsksHuman
<1> QED BY <1>1, <1>2, <1>3 DEF BeadInv

\* An operation that launches is opened for a bead that waits.
LEMMA ResumingKept ==
  ASSUME BeadInv, ~busy, op.kind = "none", pc = "cands", ~sess, NEW o \in Op, op' = o, o.step = "intent",
    \/ o.kind = "resume" /\ row \in {"PARKED", "WAITING_INPUT"}
    \/ o.kind = "undefer" /\ row = "DEFERRED" /\ defers # <<>>,
    SetState("RESUMING", "none"), Begin, UNCHANGED <<records, holds, limbo, bead, world, touched>>
  PROVE  BeadInv'
<1>1. row' = "RESUMING" /\ why' = "none" /\ illegal' = illegal BY Allowed DEF SetState
<1>2. busy' = TRUE /\ did' = "no" /\ UNCHANGED <<pc, signals>> BY DEF Begin
<1>3. TypeOK' BY <1>1, <1>2, TypeFlags, NoOpIs DEF BeadInv, Flags, BeadStates, Whys
<1>4. (OperationsLegal /\ OpShape /\ RowOfOp /\ ControlKnows /\ Recorded /\ HoldKnows /\ Stops /\ BeadKnown)'
 BY <1>1, <1>2, TypeFlags, NoOpIs DEF BeadInv, Flags, OperationsLegal, OpShape, RowOfOp, ControlKnows, Recorded,
   HoldKnows, Stops, BeadKnown, Parking, DeferredOnRecord, Current, SessionGone, WorkKept, StopStep, CommitStep,
   Launching, NotDeferred
<1>5. (WaitingIsQuiet /\ NoOrphanClaim /\ StuckAsksHuman)'
 BY <1>1, <1>2, TypeFlags, NoOpIs DEF BeadInv, Flags, ControlKnows, RowOfOp, BeadKnown, WaitingIsQuiet,
   NoOrphanClaim, StuckAsksHuman
<1> QED BY <1>3, <1>4, <1>5 DEF BeadInv

LEMMA UndeferKept ==
  ASSUME BeadInv, Undefer
  PROVE  BeadInv'
<1>1. /\ pc = "cands" /\ ~busy /\ op.kind = "none" /\ ~sess /\ row = "DEFERRED" /\ defers # <<>>
      /\ SetState("RESUMING", "none") /\ Begin /\ UNCHANGED <<records, holds, limbo, bead, world, touched>>
 BY NoOpIs, CurrentIs DEF Undefer, Free, CanUndefer, Over
<1>2. Len(defers) \in 0 .. MaxDefers BY TypeFlags, BoundsAssumption DEF BeadInv, Flags
<1>3. op' = [NewOp("undefer", "intent") EXCEPT !.n = Len(defers)] BY DEF Undefer
<1>4. NewOp("undefer", "intent") \in Op /\ NewOp("undefer", "intent").kind = "undefer" /\ NewOp("undefer", "intent").step = "intent"
 BY NewOpIs DEF Kinds, Steps
<1>5. op' \in Op /\ op'.kind = "undefer" /\ op'.step = "intent" BY <1>2, <1>3, <1>4 DEF Op
<1> QED BY <1>1, <1>5, ResumingKept

LEMMA ResumeKept ==
  ASSUME BeadInv, Resume
  PROVE  BeadInv'
<1>1. pc = "cands" /\ ~busy /\ op.kind = "none" /\ ~sess /\ row \in {"PARKED", "WAITING_INPUT"}
 BY NoOpIs DEF Resume, Free, CanResume
<1>2. NewOp("park", "intent") \in Op /\ NewOp("park", "intent").kind = "park" BY NewOpIs DEF Kinds, Steps
<1>3. ASSUME NEW v \in Verdicts, row = "PARKED", OpenDefer(NewOp("park", "intent"), Reason(v), "cands")
      PROVE  BeadInv'
 <2>1. Reason(v) \in {"quota", "account"} BY DEF Reason
 <2> QED BY <1>1, <1>2, <1>3, <2>1, OpenDeferKept
<1>4. CASE Goto("ready") /\ UNCHANGED journal /\ Resting
 <2>1. TypeOK' BY <1>1, <1>4, TypeFlags, NoOpIs DEF Goto, Resting, BeadInv, Flags, BeadStates, Whys
 <2>2. (OperationsLegal /\ OpShape /\ RowOfOp /\ ControlKnows /\ Recorded /\ HoldKnows /\ Stops /\ BeadKnown)'
  BY <1>1, <1>4, TypeFlags, NoOpIs DEF Goto, Resting, BeadInv, Flags, OperationsLegal, OpShape, RowOfOp,
    ControlKnows, Recorded, HoldKnows, Stops, BeadKnown, Parking, DeferredOnRecord, Current, SessionGone, WorkKept,
    StopStep, CommitStep, Launching, NotDeferred
 <2>3. (WaitingIsQuiet /\ NoOrphanClaim /\ StuckAsksHuman)'
  BY <1>1, <1>4, TypeFlags, NoOpIs DEF Goto, Resting, BeadInv, Flags, ControlKnows, RowOfOp, BeadKnown,
    WaitingIsQuiet, NoOrphanClaim, StuckAsksHuman
 <2> QED BY <2>1, <2>2, <2>3 DEF BeadInv
<1>5. CASE /\ op' = NewOp("resume", "intent") /\ SetState("RESUMING", "none") /\ Begin
           /\ UNCHANGED <<records, holds, limbo, bead, world, touched, troubles>>
 <2>1. NewOp("resume", "intent") \in Op /\ NewOp("resume", "intent").kind = "resume" /\ NewOp("resume", "intent").step = "intent"
  BY NewOpIs DEF Kinds, Steps
 <2>2. UNCHANGED <<records, holds, limbo, bead, world, touched>> BY <1>5
 <2> QED BY <1>1, <1>5, <2>1, <2>2, ResumingKept
<1> QED BY <1>3, <1>4, <1>5 DEF Resume

LEMMA NoCandidateKept ==
  ASSUME BeadInv, NoCandidate
  PROVE  BeadInv'
<1>1. TypeOK'
 BY TypeFlags, AfterIs, NoOpIs DEF NoCandidate, Goto, Resting, BeadInv, Flags, BeadStates, Whys, Claims, Labels,
   Blockers
<1>2. (OperationsLegal /\ OpShape /\ RowOfOp /\ ControlKnows /\ Recorded /\ HoldKnows /\ Stops /\ BeadKnown)'
 BY TypeFlags, AfterIs, NoOpIs DEF NoCandidate, Goto, Resting, BeadInv, OperationsLegal, OpShape, RowOfOp,
   ControlKnows, Recorded, HoldKnows, Stops, BeadKnown, Parking, DeferredOnRecord, Current, SessionGone, WorkKept,
   StopStep, CommitStep, Launching, NotDeferred
<1>3. (WaitingIsQuiet /\ NoOrphanClaim /\ StuckAsksHuman)'
 BY TypeFlags, AfterIs, NoOpIs DEF NoCandidate, Goto, Resting, BeadInv, OpShape, ControlKnows, RowOfOp, BeadKnown,
   WaitingIsQuiet, NoOrphanClaim, StuckAsksHuman
<1> QED BY <1>1, <1>2, <1>3 DEF BeadInv

LEMMA NewWorkKept ==
  ASSUME BeadInv, NewWork
  PROVE  BeadInv'
<1>1. pc = "ready" /\ ~busy /\ op.kind = "none" /\ claim = "free" /\ ~chold
 BY NoOpIs DEF NewWork, Ready, BeadInv, HoldKnows
<1>2. CASE \/ SweptAs("STUCK", "unclaimable") \/ SweptAs("STUCK", "repointed") \/ SweptAs("DROPPED", "none")
 BY <1>1, <1>2, SweptAsKept DEF BeadStates, Whys
<1>3. CASE StartNew
 <2>1. op' \in Op /\ op'.kind = "pickup" /\ op'.step = "intent" BY <1>3, NewOpIs DEF StartNew, Kinds, Steps
 <2>2. /\ row' = "CLAIMING" /\ why' = "none" /\ illegal' = illegal /\ busy' = TRUE /\ did' = "call"
       /\ UNCHANGED <<pc, signals, records, holds, limbo, bead, world, touched>> BY <1>3 DEF StartNew, Adopt
 <2>3. TypeOK' BY <1>1, <2>1, <2>2, TypeFlags, NoOpIs DEF BeadInv, Flags, BeadStates, Whys
 <2>4. (OperationsLegal /\ OpShape /\ RowOfOp /\ ControlKnows /\ Recorded /\ HoldKnows /\ Stops /\ BeadKnown)'
  BY <1>1, <2>1, <2>2, TypeFlags, NoOpIs DEF BeadInv, Flags, OperationsLegal, OpShape, RowOfOp, ControlKnows,
    Recorded, HoldKnows, Stops, BeadKnown, Parking, DeferredOnRecord, Current, SessionGone, WorkKept, StopStep,
    CommitStep, Launching, NotDeferred
 <2>5. (WaitingIsQuiet /\ NoOrphanClaim /\ StuckAsksHuman)'
  BY <1>1, <2>1, <2>2, TypeFlags, NoOpIs DEF BeadInv, Flags, ControlKnows, RowOfOp, BeadKnown, WaitingIsQuiet,
    NoOrphanClaim, StuckAsksHuman
 <2> QED BY <2>3, <2>4, <2>5 DEF BeadInv
<1> QED BY <1>2, <1>3 DEF NewWork

LEMMA NoNewWorkKept ==
  ASSUME BeadInv, NoNewWork
  PROVE  BeadInv'
<1>1. pc = "ready" /\ ~busy BY DEF NoNewWork
<1>2. CASE row = "STUCK" /\ why \in Unlisted /\ op = NoOp /\ SweptAs("DROPPED", "none")
 <2>1. ~touched => claim # "ours" BY <1>2 DEF BeadInv, BeadKnown
 <2> QED BY <1>1, <1>2, <2>1, NoOpIs, SweptAsKept DEF BeadStates, Whys
<1>3. CASE Goto("idle") /\ UNCHANGED <<journal, bead, world, history, troubles>>
 <2>1. TypeOK' BY <1>1, <1>3, TypeFlags, NoOpIs DEF Goto, BeadInv, Flags, BeadStates, Whys
 <2>2. (OperationsLegal /\ OpShape /\ RowOfOp /\ ControlKnows /\ Recorded /\ HoldKnows /\ Stops /\ BeadKnown)'
  BY <1>1, <1>3, TypeFlags, NoOpIs DEF Goto, BeadInv, Flags, OperationsLegal, OpShape, RowOfOp, ControlKnows,
    Recorded, HoldKnows, Stops, BeadKnown, Parking, DeferredOnRecord, Current, SessionGone, WorkKept, StopStep,
    CommitStep, Launching, NotDeferred
 <2>3. (WaitingIsQuiet /\ NoOrphanClaim /\ StuckAsksHuman)'
  BY <1>1, <1>3, TypeFlags, NoOpIs DEF Goto, BeadInv, Flags, ControlKnows, RowOfOp, BeadKnown, WaitingIsQuiet,
    NoOrphanClaim, StuckAsksHuman
 <2> QED BY <2>1, <2>2, <2>3 DEF BeadInv
<1> QED BY <1>2, <1>3 DEF NoNewWork

LEMMA ParkCallKept ==
  ASSUME BeadInv, ParkCall
  PROVE  BeadInv'
<1>1. pc = "idle" /\ op.kind = "none" /\ row = "RUNNING" BY NoOpIs DEF ParkCall, Call
<1>2. PICK hold \in BOOLEAN, blocks \in {{}, {"bead"}, {"input"}} : Park(blocks, hold, "call") BY DEF ParkCall
<1>3. blocks \in SUBSET Blockers BY DEF Blockers
<1> QED BY <1>1, <1>2, <1>3, ParkKept

LEMMA DeferCallKept ==
  ASSUME BeadInv, DeferCall
  PROVE  BeadInv'
<1>1. op.kind = "none" /\ row = "RUNNING" /\ OpenDefer(NewOp("park", "intent"), "quota", "call")
 BY NoOpIs DEF DeferCall, Call
<1>2. NewOp("park", "intent") \in Op /\ NewOp("park", "intent").kind = "park" BY NewOpIs DEF Kinds, Steps
<1> QED BY <1>1, <1>2, OpenDeferKept

LEMMA ReleaseCallKept ==
  ASSUME BeadInv, ReleaseCall
  PROVE  BeadInv'
<1>1. pc = "idle" /\ ~busy /\ op = NoOp /\ op.kind = "none" /\ ~chold
 BY NoOpIs DEF ReleaseCall, Call, BeadInv, HoldKnows
<1>2. /\ op' \in Op /\ op'.kind = "release"
      /\ \/ row \in {"STUCK", "HELD"} /\ op'.step = "intent"
         \/ row = "DEFERRED" /\ op'.step = "regate" BY NewOpIs DEF ReleaseCall, Kinds, Steps
<1>3. /\ busy' = TRUE /\ did' = "no" /\ pc' = "call" /\ SameRow
      /\ UNCHANGED <<records, holds, limbo, bead, world, signals, touched>> BY DEF ReleaseCall
<1>4. TypeOK' BY <1>1, <1>2, <1>3, TypeFlags, NoOpIs DEF SameRow, WaitingIsQuiet, BeadInv, Flags, BeadStates, Whys
<1>5. (OperationsLegal /\ OpShape /\ RowOfOp /\ ControlKnows /\ Recorded /\ HoldKnows /\ Stops /\ BeadKnown)'
 BY <1>1, <1>2, <1>3, TypeFlags, NoOpIs DEF SameRow, WaitingIsQuiet, BeadInv, Flags, OperationsLegal, OpShape,
   RowOfOp, ControlKnows, Recorded, HoldKnows, Stops, BeadKnown, Parking, DeferredOnRecord, Current, SessionGone,
   WorkKept, StopStep, CommitStep, Launching, NotDeferred
<1>6. (WaitingIsQuiet /\ NoOrphanClaim /\ StuckAsksHuman)'
 BY <1>1, <1>2, <1>3, TypeFlags, NoOpIs DEF SameRow, WaitingIsQuiet, BeadInv, Flags, ControlKnows, RowOfOp,
   BeadKnown, WaitingIsQuiet, NoOrphanClaim, StuckAsksHuman
<1> QED BY <1>4, <1>5, <1>6 DEF BeadInv

LEMMA RegateCallKept ==
  ASSUME BeadInv, RegateCall
  PROVE  BeadInv'
<1>1. pc = "idle" /\ ~busy /\ op.kind = "none" /\ row = "DEFERRED" BY NoOpIs DEF RegateCall, Call
<1>2. CASE /\ over' = TRUE /\ SameRow
           /\ UNCHANGED <<op, defers, holds, limbo, bead, world, control, touched>>
 <2>1. TypeOK' BY <1>1, <1>2, TypeFlags, NoOpIs DEF SameRow, BeadInv, Flags, BeadStates, Whys
 <2>2. (OperationsLegal /\ OpShape /\ RowOfOp /\ ControlKnows /\ Recorded /\ HoldKnows /\ Stops /\ BeadKnown)'
  BY <1>1, <1>2, TypeFlags, NoOpIs DEF SameRow, BeadInv, Flags, OperationsLegal, OpShape, RowOfOp, ControlKnows,
    Recorded, HoldKnows, Stops, BeadKnown, Parking, DeferredOnRecord, Current, SessionGone, WorkKept, StopStep,
    CommitStep, Launching, NotDeferred
 <2>3. (WaitingIsQuiet /\ NoOrphanClaim /\ StuckAsksHuman)'
  BY <1>1, <1>2, TypeFlags, NoOpIs DEF SameRow, BeadInv, Flags, ControlKnows, RowOfOp, BeadKnown, WaitingIsQuiet,
    NoOrphanClaim, StuckAsksHuman
 <2> QED BY <2>1, <2>2, <2>3 DEF BeadInv
<1>3. CASE OpenDefer(NewOp("park", "intent"), "quota", "call")
 <2>1. NewOp("park", "intent") \in Op /\ NewOp("park", "intent").kind = "park" BY NewOpIs DEF Kinds, Steps
 <2> QED BY <1>1, <1>3, <2>1, OpenDeferKept
<1> QED BY <1>2, <1>3 DEF RegateCall

------------------------------
(* The world between wsd's steps. *)

LEMMA InterruptKept ==
  ASSUME BeadInv, Interrupt
  PROVE  BeadInv'
BY HoldKept, TypeFlags DEF Interrupt, BeadInv, Flags

LEMMA CrashKept ==
  ASSUME BeadInv, Crash
  PROVE  BeadInv'
<1>1. busy' \in BOOLEAN BY DEF Crash
<1>2. TypeOK'
 BY TypeFlags, AfterIs, NoOpIs, <1>1 DEF Crash, BeadInv, Flags, BeadStates, Whys, Claims, Labels, Blockers
<1>3. (OperationsLegal /\ OpShape /\ RowOfOp /\ ControlKnows /\ Recorded /\ HoldKnows /\ Stops /\ BeadKnown)'
 BY TypeFlags, AfterIs, NoOpIs, <1>1 DEF Crash, BeadInv, OperationsLegal, OpShape, RowOfOp, ControlKnows, Recorded,
   HoldKnows, Stops, BeadKnown, Parking, DeferredOnRecord, Current, SessionGone, WorkKept, StopStep, CommitStep,
   Launching, NotDeferred
<1>4. (WaitingIsQuiet /\ NoOrphanClaim /\ StuckAsksHuman)'
 BY TypeFlags, AfterIs, NoOpIs, <1>1 DEF Crash, BeadInv, OpShape, ControlKnows, RowOfOp, BeadKnown, WaitingIsQuiet,
   NoOrphanClaim, StuckAsksHuman
<1> QED BY <1>2, <1>3, <1>4 DEF BeadInv

LEMMA LoseJournalKept ==
  ASSUME BeadInv, LoseJournal
  PROVE  BeadInv'
<1>1. over' \in BOOLEAN /\ rhold' \in BOOLEAN /\ chold' \in BOOLEAN /\ limbo' \in BOOLEAN BY DEF LoseJournal
<1>2. TypeOK'
 BY TypeFlags, AfterIs, NoOpIs, BoundsAssumption, <1>1 DEF LoseJournal, BeadInv, Flags, BeadStates, Whys, Claims,
   Labels, Blockers
<1>3. (OperationsLegal /\ OpShape /\ RowOfOp /\ ControlKnows /\ Recorded /\ HoldKnows /\ Stops /\ BeadKnown)'
 BY TypeFlags, AfterIs, NoOpIs, BoundsAssumption, <1>1 DEF LoseJournal, BeadInv, OperationsLegal, OpShape, RowOfOp,
   ControlKnows, Recorded, HoldKnows, Stops, BeadKnown, Parking, DeferredOnRecord, Current, SessionGone, WorkKept,
   StopStep, CommitStep, Launching, NotDeferred
<1>4. (WaitingIsQuiet /\ NoOrphanClaim /\ StuckAsksHuman)'
 BY TypeFlags, AfterIs, NoOpIs, BoundsAssumption, <1>1 DEF LoseJournal, BeadInv, OpShape, ControlKnows, RowOfOp,
   BeadKnown, WaitingIsQuiet, NoOrphanClaim, StuckAsksHuman
<1> QED BY <1>2, <1>3, <1>4 DEF BeadInv

LEMMA EditLabelKept ==
  ASSUME BeadInv, EditLabel
  PROVE  BeadInv'
<1>1. TypeOK'
 BY TypeFlags, AfterIs, NoOpIs DEF EditLabel, Edit, BeadInv, Flags, BeadStates, Whys, Claims, Labels, Blockers
<1>2. (OperationsLegal /\ OpShape /\ RowOfOp /\ ControlKnows /\ Recorded /\ HoldKnows /\ Stops /\ BeadKnown)'
 BY TypeFlags, AfterIs, NoOpIs DEF EditLabel, Edit, BeadInv, OperationsLegal, OpShape, RowOfOp, ControlKnows,
   Recorded, HoldKnows, Stops, BeadKnown, Parking, DeferredOnRecord, Current, SessionGone, WorkKept, StopStep,
   CommitStep, Launching, NotDeferred
<1>3. (WaitingIsQuiet /\ NoOrphanClaim /\ StuckAsksHuman)'
 BY TypeFlags, AfterIs, NoOpIs DEF EditLabel, Edit, BeadInv, OpShape, ControlKnows, RowOfOp, BeadKnown,
   WaitingIsQuiet, NoOrphanClaim, StuckAsksHuman
<1> QED BY <1>1, <1>2, <1>3 DEF BeadInv

LEMMA EditBlockerKept ==
  ASSUME BeadInv, EditBlocker
  PROVE  BeadInv'
<1>1. TypeOK'
 BY TypeFlags, AfterIs, NoOpIs DEF EditBlocker, Edit, BeadInv, Flags, BeadStates, Whys, Claims, Labels, Blockers
<1>2. (OperationsLegal /\ OpShape /\ RowOfOp /\ ControlKnows /\ Recorded /\ HoldKnows /\ Stops /\ BeadKnown)'
 BY TypeFlags, AfterIs, NoOpIs DEF EditBlocker, Edit, BeadInv, OperationsLegal, OpShape, RowOfOp, ControlKnows,
   Recorded, HoldKnows, Stops, BeadKnown, Parking, DeferredOnRecord, Current, SessionGone, WorkKept, StopStep,
   CommitStep, Launching, NotDeferred
<1>3. (WaitingIsQuiet /\ NoOrphanClaim /\ StuckAsksHuman)'
 BY TypeFlags, AfterIs, NoOpIs DEF EditBlocker, Edit, BeadInv, OpShape, ControlKnows, RowOfOp, BeadKnown,
   WaitingIsQuiet, NoOrphanClaim, StuckAsksHuman
<1> QED BY <1>1, <1>2, <1>3 DEF BeadInv

LEMMA EditClaimKept ==
  ASSUME BeadInv, EditClaim
  PROVE  BeadInv'
<1>1. TypeOK'
 BY TypeFlags, AfterIs, NoOpIs DEF EditClaim, Edit, BeadInv, Flags, BeadStates, Whys, Claims, Labels, Blockers
<1>2. (OperationsLegal /\ OpShape /\ RowOfOp /\ ControlKnows /\ Recorded /\ HoldKnows /\ Stops /\ BeadKnown)'
 BY TypeFlags, AfterIs, NoOpIs DEF EditClaim, Edit, BeadInv, OperationsLegal, OpShape, RowOfOp, ControlKnows,
   Recorded, HoldKnows, Stops, BeadKnown, Parking, DeferredOnRecord, Current, SessionGone, WorkKept, StopStep,
   CommitStep, Launching, NotDeferred
<1>3. (WaitingIsQuiet /\ NoOrphanClaim /\ StuckAsksHuman)'
 BY TypeFlags, AfterIs, NoOpIs DEF EditClaim, Edit, BeadInv, OpShape, ControlKnows, RowOfOp, BeadKnown,
   WaitingIsQuiet, NoOrphanClaim, StuckAsksHuman
<1> QED BY <1>1, <1>2, <1>3 DEF BeadInv

LEMMA EditRouteKept ==
  ASSUME BeadInv, EditRoute
  PROVE  BeadInv'
<1>1. TypeOK'
 BY TypeFlags, AfterIs, NoOpIs DEF EditRoute, Edit, BeadInv, Flags, BeadStates, Whys, Claims, Labels, Blockers
<1>2. (OperationsLegal /\ OpShape /\ RowOfOp /\ ControlKnows /\ Recorded /\ HoldKnows /\ Stops /\ BeadKnown)'
 BY TypeFlags, AfterIs, NoOpIs DEF EditRoute, Edit, BeadInv, OperationsLegal, OpShape, RowOfOp, ControlKnows,
   Recorded, HoldKnows, Stops, BeadKnown, Parking, DeferredOnRecord, Current, SessionGone, WorkKept, StopStep,
   CommitStep, Launching, NotDeferred
<1>3. (WaitingIsQuiet /\ NoOrphanClaim /\ StuckAsksHuman)'
 BY TypeFlags, AfterIs, NoOpIs DEF EditRoute, Edit, BeadInv, OpShape, ControlKnows, RowOfOp, BeadKnown,
   WaitingIsQuiet, NoOrphanClaim, StuckAsksHuman
<1> QED BY <1>1, <1>2, <1>3 DEF BeadInv

LEMMA CloseBlockerKept ==
  ASSUME BeadInv, CloseBlocker
  PROVE  BeadInv'
<1>1. TypeOK'
 BY TypeFlags, AfterIs, NoOpIs DEF CloseBlocker, BeadInv, Flags, BeadStates, Whys, Claims, Labels, Blockers
<1>2. (OperationsLegal /\ OpShape /\ RowOfOp /\ ControlKnows /\ Recorded /\ HoldKnows /\ Stops /\ BeadKnown)'
 BY TypeFlags, AfterIs, NoOpIs DEF CloseBlocker, BeadInv, OperationsLegal, OpShape, RowOfOp, ControlKnows, Recorded,
   HoldKnows, Stops, BeadKnown, Parking, DeferredOnRecord, Current, SessionGone, WorkKept, StopStep, CommitStep,
   Launching, NotDeferred
<1>3. (WaitingIsQuiet /\ NoOrphanClaim /\ StuckAsksHuman)'
 BY TypeFlags, AfterIs, NoOpIs DEF CloseBlocker, BeadInv, OpShape, ControlKnows, RowOfOp, BeadKnown, WaitingIsQuiet,
   NoOrphanClaim, StuckAsksHuman
<1> QED BY <1>1, <1>2, <1>3 DEF BeadInv

LEMMA SessionDiesKept ==
  ASSUME BeadInv, SessionDies
  PROVE  BeadInv'
<1>1. sess' \in BOOLEAN BY DEF SessionDies, Fault
<1>2. TypeOK'
 BY TypeFlags, AfterIs, NoOpIs, <1>1 DEF SessionDies, Fault, BeadInv, Flags, BeadStates, Whys, Claims, Labels,
   Blockers
<1>3. (OperationsLegal /\ OpShape /\ RowOfOp /\ ControlKnows /\ Recorded /\ HoldKnows /\ Stops /\ BeadKnown)'
 BY TypeFlags, AfterIs, NoOpIs, <1>1 DEF SessionDies, Fault, BeadInv, OperationsLegal, OpShape, RowOfOp,
   ControlKnows, Recorded, HoldKnows, Stops, BeadKnown, Parking, DeferredOnRecord, Current, SessionGone, WorkKept,
   StopStep, CommitStep, Launching, NotDeferred
<1>4. (WaitingIsQuiet /\ NoOrphanClaim /\ StuckAsksHuman)'
 BY TypeFlags, AfterIs, NoOpIs, <1>1 DEF SessionDies, Fault, BeadInv, OpShape, ControlKnows, RowOfOp, BeadKnown,
   WaitingIsQuiet, NoOrphanClaim, StuckAsksHuman
<1> QED BY <1>2, <1>3, <1>4 DEF BeadInv

LEMMA RuntimeDownKept ==
  ASSUME BeadInv, RuntimeDown
  PROVE  BeadInv'
<1>1. up' \in BOOLEAN BY DEF RuntimeDown, Fault
<1>2. TypeOK'
 BY TypeFlags, AfterIs, NoOpIs, <1>1 DEF RuntimeDown, Fault, BeadInv, Flags, BeadStates, Whys, Claims, Labels,
   Blockers
<1>3. (OperationsLegal /\ OpShape /\ RowOfOp /\ ControlKnows /\ Recorded /\ HoldKnows /\ Stops /\ BeadKnown)'
 BY TypeFlags, AfterIs, NoOpIs, <1>1 DEF RuntimeDown, Fault, BeadInv, OperationsLegal, OpShape, RowOfOp,
   ControlKnows, Recorded, HoldKnows, Stops, BeadKnown, Parking, DeferredOnRecord, Current, SessionGone, WorkKept,
   StopStep, CommitStep, Launching, NotDeferred
<1>4. (WaitingIsQuiet /\ NoOrphanClaim /\ StuckAsksHuman)'
 BY TypeFlags, AfterIs, NoOpIs, <1>1 DEF RuntimeDown, Fault, BeadInv, OpShape, ControlKnows, RowOfOp, BeadKnown,
   WaitingIsQuiet, NoOrphanClaim, StuckAsksHuman
<1> QED BY <1>2, <1>3, <1>4 DEF BeadInv

LEMMA RuntimeUpKept ==
  ASSUME BeadInv, RuntimeUp
  PROVE  BeadInv'
<1>1. TypeOK' BY TypeFlags, AfterIs, NoOpIs DEF RuntimeUp, BeadInv, Flags, BeadStates, Whys, Claims, Labels, Blockers
<1>2. (OperationsLegal /\ OpShape /\ RowOfOp /\ ControlKnows /\ Recorded /\ HoldKnows /\ Stops /\ BeadKnown)'
 BY TypeFlags, AfterIs, NoOpIs DEF RuntimeUp, BeadInv, OperationsLegal, OpShape, RowOfOp, ControlKnows, Recorded,
   HoldKnows, Stops, BeadKnown, Parking, DeferredOnRecord, Current, SessionGone, WorkKept, StopStep, CommitStep,
   Launching, NotDeferred
<1>3. (WaitingIsQuiet /\ NoOrphanClaim /\ StuckAsksHuman)'
 BY TypeFlags, AfterIs, NoOpIs DEF RuntimeUp, BeadInv, OpShape, ControlKnows, RowOfOp, BeadKnown, WaitingIsQuiet,
   NoOrphanClaim, StuckAsksHuman
<1> QED BY <1>1, <1>2, <1>3 DEF BeadInv

LEMMA ClockKept ==
  ASSUME BeadInv, ClockTicks
  PROVE  BeadInv'
<1>1. TypeOK' BY TypeFlags, AfterIs, NoOpIs DEF ClockTicks, BeadInv, Flags, BeadStates, Whys, Claims, Labels, Blockers
<1>2. (OperationsLegal /\ OpShape /\ RowOfOp /\ ControlKnows /\ Recorded /\ HoldKnows /\ Stops /\ BeadKnown)'
 BY TypeFlags, AfterIs, NoOpIs DEF ClockTicks, BeadInv, OperationsLegal, OpShape, RowOfOp, ControlKnows, Recorded,
   HoldKnows, Stops, BeadKnown, Parking, DeferredOnRecord, Current, SessionGone, WorkKept, StopStep, CommitStep,
   Launching, NotDeferred
<1>3. (WaitingIsQuiet /\ NoOrphanClaim /\ StuckAsksHuman)'
 BY TypeFlags, AfterIs, NoOpIs DEF ClockTicks, BeadInv, OpShape, ControlKnows, RowOfOp, BeadKnown, WaitingIsQuiet,
   NoOrphanClaim, StuckAsksHuman
<1> QED BY <1>1, <1>2, <1>3 DEF BeadInv

LEMMA ReportTaintKept ==
  ASSUME BeadInv, ReportTaint
  PROVE  BeadInv'
<1>1. TypeOK'
 BY TypeFlags, AfterIs, NoOpIs DEF ReportTaint, BeadInv, Flags, BeadStates, Whys, Claims, Labels, Blockers
<1>2. (OperationsLegal /\ OpShape /\ RowOfOp /\ ControlKnows /\ Recorded /\ HoldKnows /\ Stops /\ BeadKnown)'
 BY TypeFlags, AfterIs, NoOpIs DEF ReportTaint, BeadInv, OperationsLegal, OpShape, RowOfOp, ControlKnows, Recorded,
   HoldKnows, Stops, BeadKnown, Parking, DeferredOnRecord, Current, SessionGone, WorkKept, StopStep, CommitStep,
   Launching, NotDeferred
<1>3. (WaitingIsQuiet /\ NoOrphanClaim /\ StuckAsksHuman)'
 BY TypeFlags, AfterIs, NoOpIs DEF ReportTaint, BeadInv, OpShape, ControlKnows, RowOfOp, BeadKnown, WaitingIsQuiet,
   NoOrphanClaim, StuckAsksHuman
<1> QED BY <1>1, <1>2, <1>3 DEF BeadInv

LEMMA ReportLimitKept ==
  ASSUME BeadInv, ReportLimit
  PROVE  BeadInv'
<1>1. TypeOK'
 BY TypeFlags, AfterIs, NoOpIs DEF ReportLimit, BeadInv, Flags, BeadStates, Whys, Claims, Labels, Blockers
<1>2. (OperationsLegal /\ OpShape /\ RowOfOp /\ ControlKnows /\ Recorded /\ HoldKnows /\ Stops /\ BeadKnown)'
 BY TypeFlags, AfterIs, NoOpIs DEF ReportLimit, BeadInv, OperationsLegal, OpShape, RowOfOp, ControlKnows, Recorded,
   HoldKnows, Stops, BeadKnown, Parking, DeferredOnRecord, Current, SessionGone, WorkKept, StopStep, CommitStep,
   Launching, NotDeferred
<1>3. (WaitingIsQuiet /\ NoOrphanClaim /\ StuckAsksHuman)'
 BY TypeFlags, AfterIs, NoOpIs DEF ReportLimit, BeadInv, OpShape, ControlKnows, RowOfOp, BeadKnown, WaitingIsQuiet,
   NoOrphanClaim, StuckAsksHuman
<1> QED BY <1>1, <1>2, <1>3 DEF BeadInv

------------------------------
LEMMA BeadInvInit == Init => BeadInv
<1> SUFFICES ASSUME Init PROVE BeadInv OBVIOUS
<1>1. /\ over \in BOOLEAN /\ rhold \in BOOLEAN /\ chold \in BOOLEAN /\ limbo \in BOOLEAN /\ sess \in BOOLEAN
      /\ due \in BOOLEAN /\ busy \in BOOLEAN /\ touched \in BOOLEAN BY DEF Init
<1>2. Flags BY <1>1, NoOpIs, BoundsAssumption DEF Init, Flags, BeadStates, Whys, Claims
<1>3. TypeOK BY <1>2, TypeFlags
<1> QED
 BY <1>3, NoOpIs DEF Init, BeadInv, OperationsLegal, OpShape, RowOfOp, ControlKnows, Recorded, HoldKnows, Stops,
   BeadKnown, Parking, DeferredOnRecord, SessionGone, WorkKept, StopStep, CommitStep, Launching, NotDeferred,
   WaitingIsQuiet, NoOrphanClaim, StuckAsksHuman

\* Every step keeps the invariant.
LEMMA BeadInvStep == BeadInv /\ [Next]_vars => BeadInv'
<1> SUFFICES ASSUME BeadInv, [Next]_vars PROVE BeadInv' OBVIOUS
<1>1. CASE Operate
 BY <1>1, ReplayEscalateKept, SpentKept, StopKept, StoppedKept, StopUnavailableKept, CommitKept, CommittedKept,
   AddBlockersKept, LabelParkedKept, CommentKept, ConfirmKept, LabelDeferredKept, GuardWaitsKept, GuardRefusesKept,
   GuardShelvesKept, GuardSettlesKept, GuardPinsKept, GuardCallsKept, GuardReceivesKept, GuardEndsKept,
   ReplayResumeKept, UndeferGateKept, UndeferUnlabelKept, UndeferParkedKept, ReleaseUnlabelKept, ReleaseOnKept,
   ReleaseRegateKept, ClaimBeadKept, ClaimJournaledKept, ResolveKept, PlaceKept, WorktreeKept, VanishedKept,
   ReadFailsKept DEF Operate
<1>2. CASE Pass
 BY <1>2, StartKept, RecoverKept, PickupKept, TaintKept, LimitKept, SignalsDoneKept, SweepSkipsKept, SweepStopsKept,
   SweepNotOursKept, SweepOursKept, ReplayKept, ReplayDoneKept, PassHeldKept, UndeferKept, ResumeKept,
   NoCandidateKept, NewWorkKept, NoNewWorkKept DEF Pass
<1>3. CASE Calls BY <1>3, ParkCallKept, DeferCallKept, ReleaseCallKept, RegateCallKept DEF Calls
<1>4. CASE World
 BY <1>4, InterruptKept, CrashKept, LoseJournalKept, EditLabelKept, EditBlockerKept, EditClaimKept, EditRouteKept,
   CloseBlockerKept, SessionDiesKept, RuntimeDownKept, RuntimeUpKept, ClockKept, ReportTaintKept,
   ReportLimitKept DEF World
<1>5. CASE UNCHANGED vars
 <2>1. TypeOK' BY <1>5, TypeFlags, NoOpIs DEF vars, BeadInv, Flags, BeadStates, Whys
 <2>2. (OperationsLegal /\ OpShape /\ RowOfOp /\ ControlKnows /\ Recorded /\ HoldKnows /\ Stops /\ BeadKnown)'
  BY <1>5, TypeFlags, NoOpIs DEF vars, BeadInv, Flags, OperationsLegal, OpShape, RowOfOp, ControlKnows, Recorded,
    HoldKnows, Stops, BeadKnown, Parking, DeferredOnRecord, Current, SessionGone, WorkKept, StopStep, CommitStep,
    Launching, NotDeferred
 <2>3. (WaitingIsQuiet /\ NoOrphanClaim /\ StuckAsksHuman)'
  BY <1>5, TypeFlags, NoOpIs DEF vars, BeadInv, Flags, ControlKnows, RowOfOp, BeadKnown, WaitingIsQuiet,
    NoOrphanClaim, StuckAsksHuman
 <2> QED BY <2>1, <2>2, <2>3 DEF BeadInv
<1> QED BY <1>1, <1>2, <1>3, <1>4, <1>5 DEF Next

\* The invariant that the theorems rest on: the type of the state, what each open operation knows, and what the bead's
\* labels say as long as only wsd changes them.
THEOREM BeadInvHolds == Spec => []BeadInv
BY BeadInvInit, BeadInvStep, PTL DEF Spec

------------------------------
\* The row tells what the bead's operation and its records say, whatever crashed, was lost or was edited in
\* between, and no operation asks for a transition that states.ALLOWED refuses (Journal.set_state).
THEOREM RowsAlwaysAgree == Spec => []RowsAgree
<1>1. BeadInv => RowsAgree BY NoOpIs DEF BeadInv, RowsAgree, OpMatchesRow, RowOfOp, HoldKnows, Recorded, OpShape
<1> QED BY <1>1, BeadInvHolds, PTL

\* A bead that waits for blockers, input or a deferral has no session unless somebody else changed it: every
\* operation that leaves it waiting has stopped its session or seen that it has none (replay_park, defer_tail,
\* Parker._shelve, replay_release).
THEOREM WaitingAlwaysQuiet == Spec => []WaitingIsQuiet
<1>1. BeadInv => WaitingIsQuiet BY DEF BeadInv
<1> QED BY <1>1, BeadInvHolds, PTL

\* A claim that landed keeps a live row, and a stuck bead of ours its `needs-human', on the bead or pending
\* (ClaimGate.claim, Scheduler.resolve_claim, Parker._stuck).
THEOREM NoBeadForgotten == Spec => []NoOneForgotten
<1>1. BeadInv => NoOneForgotten BY DEF BeadInv, NoOneForgotten
<1> QED BY <1>1, BeadInvHolds, PTL

\* How an operation that parks ends: only at its last step is it left waiting, and that step changes neither the
\* session nor the work.
LEMMA ParkEnds ==
  ASSUME BeadInv, Next, Parking, op' = NoOp, row' \in Waiting \cup {"DEFERRED"}
  PROVE  work' = "clean"
<1>1. op.kind # "none" /\ op # NoOp /\ op \in Op /\ op.kind # "escalate" /\ row = "PARKING"
 BY NoOpIs, TypeFlags DEF BeadInv, OpShape, RowOfOp, Parking, Flags
<1>2. ~AtGuard /\ (op.step \in {"intent", "unlabelled", "gated", "regate", "claimed", "placed"} => op.kind = "park")
 BY <1>1 DEF AtGuard, Parking
<1>3. ASSUME NEW state, NEW reason, Finish(state, reason)
      PROVE  row' = state BY <1>3 DEF Finish, SetState
<1>4. ASSUME StuckFrom
      PROVE  FALSE BY <1>4, NewOpIs, NoOpIs DEF StuckFrom, Kinds, Steps
<1>5. ASSUME NEW step \in Steps, OpStep(step)
      PROVE  FALSE BY <1>1, <1>5, OpStepIs, NoOpIs
<1>6. ASSUME NEW want, NEW drop, WriteLabel(want, drop)
      PROVE  FALSE BY <1>1, <1>6 DEF WriteLabel
<1>7. ASSUME RuntimeHold \/ SameRow
      PROVE  FALSE BY <1>1, <1>7 DEF RuntimeHold, SameRow
<1>8. ASSUME Spend(ParkLimit)
      PROVE  FALSE
 <2>1. CASE StuckFrom BY <1>4, <2>1
 <2>2. CASE op' = [op EXCEPT !.attempts = @ + 1] BY <1>1, <2>2, NoOpIs DEF Op
 <2> QED BY <1>8, <2>1, <2>2 DEF Spend
<1>9. CASE CommentAndEnd
 <2>1. work = "clean" BY <1>9 DEF CommentAndEnd, BeadInv, Stops, WorkKept
 <2>2. work' = work BY <1>4, <1>7, <1>9 DEF CommentAndEnd, FinishDefer, Finish, EscalateFrom
 <2> QED BY <2>1, <2>2
<1>10. CASE Operate /\ ~CommentAndEnd
 <2>1. CASE ReplayEscalate \/ SpentBudget \/ StopSessions \/ SessionsStopped \/ StopUnavailable \/ WipCommitted
  BY <1>1, <1>4, <1>7, <2>1 DEF ReplayEscalate, SpentBudget, EscalateFrom, StopSessions, SetState, SessionsStopped,
    StopUnavailable, WipCommitted
 <2>2. CASE CommitWip \/ AddBlockers BY <1>1, <1>3, <1>4, <1>7, <1>8, <2>2 DEF CommitWip, EscalateFrom, AddBlockers
 <2>3. CASE LabelParked \/ LabelDeferred BY <1>3, <1>6, <1>7, <2>3 DEF LabelParked, LabelDeferred, LabelStep
 <2>4. CASE Confirm BY <1>7, <2>4 DEF Confirm
 <2>5. CASE GuardWaits \/ GuardRefuses \/ GuardShelves \/ GuardSettles \/ GuardPins \/ GuardCalls \/ GuardReceives
            \/ GuardEnds
  BY <1>2, <2>5 DEF GuardWaits, GuardRefuses, GuardShelves, GuardSettles, GuardPins, GuardCalls, GuardReceives,
    GuardEnds, Runnable, GuardGoes
 <2>6. CASE ReplayResume \/ UndeferGate \/ UndeferUnlabel \/ UndeferParked \/ ReleaseUnlabel \/ ReleaseOn
            \/ ReleaseRegate \/ ClaimBead \/ ClaimJournaled \/ ResolveClaim \/ PlaceBead \/ MakeWorktree
  BY <1>2, <2>6 DEF ReplayResume, UndeferGate, UndeferUnlabel, LabelStep, UndeferParked, ReleaseUnlabel, ReleaseOn,
    ReleaseRegate, ClaimBead, ClaimJournaled, ResolveClaim, PlaceBead, MakeWorktree
 <2>7. CASE Vanished \/ ReadFails BY <1>1, <1>7, <2>7 DEF Vanished, Adopt, ReadFails
 <2> QED BY <1>10, <2>1, <2>2, <2>3, <2>4, <2>5, <2>6, <2>7 DEF Operate
<1>11. CASE Pass
 <2>1. CASE TaintSignal BY <1>1, <2>1 DEF TaintSignal, Dequeue
 <2> QED
  BY <1>1, <1>11, <2>1 DEF Pass, Start, Recover, Pickup, LimitSignal, SignalsDone, SweepSkips, SweptSame,
    SweepStops, SweepNotOurs, SweepOurs, Replay, ReplayDone, PassHeld, Undefer, Resume, Free, NoCandidate, NewWork,
    NoNewWork, Ready, SweptAs
<1>12. CASE Calls BY <1>1, <1>12 DEF Calls, ParkCall, DeferCall, ReleaseCall, RegateCall, Call
<1>13. CASE World
 BY <1>1, <1>13 DEF World, Interrupt, Crash, LoseJournal, EditLabel, EditBlocker, EditClaim, EditRoute, Edit,
   CloseBlocker, SessionDies, RuntimeDown, Fault, RuntimeUp, ClockTicks, ReportTaint, ReportLimit
<1> QED BY <1>9, <1>10, <1>11, <1>12, <1>13 DEF Next

\* A park or a defer that leaves its bead waiting has stopped the session and then committed its work
\* (Parker.replay_park, Parker.defer_tail).
THEOREM ParksAlwaysKeepWork == Spec => ParkKeepsWork
<1>1. BeadInv /\ BeadInv' /\ [Next]_vars
      => [Parking /\ op' = NoOp /\ row' \in Waiting \cup {"DEFERRED"} /\ ~touched' => (~sess' /\ work' = "clean")]_vars
 <2> SUFFICES ASSUME BeadInv, BeadInv', Next, Parking, op' = NoOp, row' \in Waiting \cup {"DEFERRED"}, ~touched'
              PROVE  ~sess' /\ work' = "clean"
  OBVIOUS
 <2> QED BY ParkEnds DEF BeadInv, WaitingIsQuiet
<1> QED BY <1>1, BeadInvHolds, PTL DEF Spec, ParkKeepsWork

==============================
