----------------------------- MODULE IngressReconnect -----------------------------
(***************************************************************************)
(* The daemon's one subscription to the group (admind/ingress_reconnect.py *)
(* with marmot/control.py and the daemon's reader, workers and count       *)
(* check).  A supervisor replaces a reader that ended, after a backoff; an *)
(* explicit reconnect takes the work, transition and custody locks and     *)
(* replaces it at once.  Either waits for the old reader and its transport *)
(* to be closed first, and a close that is late is never taken for one.    *)
(*                                                                         *)
(* All code runs on one event loop: an action is what happens between two  *)
(* awaits.  "released" is clear exactly while "intent" is set.  A reader   *)
(* that is cancelled takes no further step of its own.  The membership     *)
(* epoch and "changing" are in ApprovalAsks.                               *)
(***************************************************************************)
EXTENDS Integers, FiniteSetsExt

CONSTANTS
    Users,         \* of the work ("normal"), custody and transition ("membership") locks
    MaxSubGen,     \* bound: generations of the subscription
    MaxChanges,    \* bound: membership changes of the group
    RetainLimit,   \* events retained at once (256, or 8 MiB, in the code)
    MaxLate        \* bound: closes that miss their deadline

ASSUME IngressBounds ==
    /\ {MaxSubGen, MaxChanges, RetainLimit, MaxLate} \subseteq Nat
    /\ Users \subseteq {"normal", "custody", "membership"}

VARIABLES
    subGen,     \* sub_gen, with _generation_reserved
    watch,      \* acked, reading, group_ok (and observing), of the daemon
    reader,     \* the reader task
    pipe,       \* its Subscription: the transport
    sup,        \* Reconnect.run
    cut,        \* admit and _cutover
    gate,       \* intent, paused, changed, teardown_unknown
    user,       \* the holders of the three locks, and what they wait for
    kept,       \* events retained for the two workers
    count,      \* the group check holding count_lock, and whether one is asked for
    group,      \* the group itself: changes so far, the one counted, events under way
    stray,      \* history: transports given up before they closed
    late        \* late closes so far

ingressVars == <<subGen, watch, reader, pipe, sup, cut, gate, user, kept, count, group, stray, late>>

Workers == Users \ {"membership"}
NoWatch == [acked |-> FALSE, reading |-> FALSE, ok |-> FALSE]
NoCheck == [at |-> "idle", gen |-> 0, acked |-> FALSE, value |-> 0, by |-> "none"]

IngressInit ==
    /\ subGen = [n |-> 0, reserved |-> FALSE]
    /\ watch = NoWatch
    /\ reader = [at |-> "none", gen |-> 0]
    /\ pipe = "none"
    /\ sup = [at |-> "loop", gen |-> 0]
    /\ cut = "none"
    /\ gate = [intent |-> FALSE, paused |-> FALSE, changed |-> FALSE, unknown |-> FALSE]
    /\ user = [u \in Users |-> "idle"]
    /\ kept = [w \in Workers |-> 0]
    /\ count = [asked |-> FALSE, check |-> NoCheck]
    /\ group = [n |-> 0, counted |-> 0, events |-> 0]
    /\ stray = 0
    /\ late = 0

Late == late < MaxLate /\ late' = late + 1

\* Observation is void and the next reader has a generation of its own.
Invalidated == IF subGen.reserved THEN subGen ELSE [n |-> subGen.n + 1, reserved |-> TRUE]
Invalidate == watch' = NoWatch /\ subGen' = Invalidated

ReaderDone == reader.at \in {"none", "done"}
ReaderLive == ~ReaderDone
Subscribed == reader.at \in {"checking", "acked", "reading"}

\* The current generation is acknowledged, read and counted.
Observed(g, w) == g = subGen.n /\ w.acked /\ w.ok /\ w.reading

------------------------------
(* The transport *)
Closing(p) == IF p = "open" THEN "closing" ELSE p

\* Nothing was opened, or the close has completed.
PipeClosed == pipe \in {"none", "closed"}

PipeCloses ==
    /\ pipe = "closing"
    /\ pipe' = "closed"
    /\ UNCHANGED <<subGen, watch, reader, sup, cut, gate, user, kept, count, group, stray, late>>

------------------------------
(* The reader *)
\* _start_reader: a transport that never closed would be forgotten here.
StartReader ==
    /\ ReaderDone
    /\ Invalidated.n < MaxSubGen
    /\ watch' = NoWatch
    /\ subGen' = [Invalidated EXCEPT !.reserved = FALSE]
    /\ reader' = [at |-> "connecting", gen |-> Invalidated.n]
    /\ pipe' = "none"
    /\ stray' = stray + (IF pipe \in {"open", "closing"} THEN 1 ELSE 0)
    /\ group' = [group EXCEPT !.events = 0]

ReaderConnects ==
    /\ reader.at = "connecting" /\ pipe = "none"
    /\ pipe' = "open"
    /\ UNCHANGED <<subGen, watch, reader, sup, cut, gate, user, kept, count, group, stray, late>>

\* Its generation was invalidated, and nobody stopped it (CutoverNeverRuns).
Stale == reader.gen # subGen.n

\* The acknowledgement is adopted, and the group is to be counted next; a stale
\* reader skips both.
ReaderAcked ==
    /\ reader.at = "connecting" /\ pipe = "open"
    /\ reader' = [reader EXCEPT !.at = IF Stale THEN "acked" ELSE "checking"]
    /\ watch' = IF Stale THEN watch ELSE [watch EXCEPT !.acked = TRUE]
    /\ UNCHANGED <<subGen, pipe, sup, cut, gate, user, kept, count, group, stray, late>>

\* The count of confirm_observing is in; without one only a latched daemon
\* that is not reconnecting goes on to read.
ReaderCounted(verified, latched) ==
    /\ reader.at = "checking"
    /\ count.check.at = "done" /\ count.check.by = "reader"
    /\ verified = watch.ok
    /\ count' = [count EXCEPT !.check = NoCheck]
    /\ IF Stale
       THEN reader' = [reader EXCEPT !.at = "acked"] /\ UNCHANGED <<watch, gate, pipe>>
       ELSE IF ~verified /\ (~latched \/ gate.intent)
       THEN /\ reader' = [reader EXCEPT !.at = "ending"]
            /\ pipe' = Closing(pipe)
            /\ UNCHANGED <<watch, gate>>
       ELSE /\ reader' = [reader EXCEPT !.at = "acked"]
            /\ watch' = [watch EXCEPT !.reading = TRUE]
            /\ gate' = [gate EXCEPT !.paused = @ /\ ~Observed(reader.gen, watch')]
            /\ UNCHANGED pipe
    /\ UNCHANGED <<subGen, sup, cut, user, kept, group, stray, late>>

ReaderOpens ==
    /\ reader.at = "acked" /\ ~gate.intent
    /\ reader' = [reader EXCEPT !.at = "reading"]
    /\ UNCHANGED <<subGen, watch, pipe, sup, cut, gate, user, kept, count, group, stray, late>>

Retained == MapThenSumSet(LAMBDA w : kept[w], Workers)

\* A stale reader ends with the first event.
ReadOn ==
    /\ reader' = IF Stale THEN [reader EXCEPT !.at = "ending"] ELSE reader
    /\ pipe' = IF Stale THEN Closing(pipe) ELSE pipe

\* A message or reaction is retained for its worker, or refused at the limit.
ReaderEvent(w) ==
    /\ reader.at = "reading"
    /\ Retained < RetainLimit
    /\ kept' = [kept EXCEPT ![w] = @ + 1]
    /\ ReadOn
    /\ UNCHANGED <<subGen, watch, sup, cut, gate, user, count, group, stray, late>>

\* A change of the membership asks for a count, unless the reader is stale.
ReaderMembership ==
    /\ reader.at = "reading" /\ group.events > 0
    /\ group' = [group EXCEPT !.events = @ - 1]
    /\ count' = [count EXCEPT !.asked = @ \/ ~Stale]
    /\ ReadOn
    /\ UNCHANGED <<subGen, watch, sup, cut, gate, user, kept, stray, late>>

\* The connection fails or the peer ends it.
ReaderFails ==
    /\ reader.at \in {"connecting", "checking", "acked", "reading"}
    /\ reader' = [reader EXCEPT !.at = "ending"]
    /\ pipe' = Closing(pipe)
    /\ count' = IF count.check.by = "reader" THEN [count EXCEPT !.check = NoCheck] ELSE count
    /\ UNCHANGED <<subGen, watch, sup, cut, gate, user, kept, group, stray, late>>

\* The reader's own close, or its two seconds, are over.
ReaderEnds ==
    /\ reader.at = "ending"
    /\ IF PipeClosed THEN UNCHANGED late ELSE Late
    /\ reader' = [reader EXCEPT !.at = "done"]
    /\ UNCHANGED <<subGen, watch, pipe, sup, cut, gate, user, kept, count, group, stray>>

------------------------------
(* The group check, one at a time under count_lock *)
CheckBegins(by) ==
    /\ count.check.at = "idle"
    /\ CASE by = "reader" -> reader.at = "checking"
         [] by = "event" -> count.asked
         [] OTHER -> TRUE
    /\ count' = [asked |-> count.asked /\ by # "event",
                 check |-> [NoCheck EXCEPT !.at = "asking", !.gen = subGen.n, !.acked = watch.acked, !.by = by]]
    /\ UNCHANGED <<subGen, watch, reader, pipe, sup, cut, gate, user, kept, group, stray, late>>

\* The peer answers with the membership of this moment.
CheckAnswered ==
    /\ count.check.at = "asking"
    /\ count' = [count EXCEPT !.check.at = "answered", !.check.value = group.n]
    /\ UNCHANGED <<subGen, watch, reader, pipe, sup, cut, gate, user, kept, group, stray, late>>

CheckEnds == IF count.check.by = "reader" THEN [count.check EXCEPT !.at = "done"] ELSE NoCheck

\* Mutant: a count asked for before the acknowledgement counts.
CheckCurrentLoose(c) == c.gen = subGen.n /\ watch.acked

\* Same generation, acknowledged when the question was asked and still now.
CheckCurrent(c) == c.gen = subGen.n /\ c.acked /\ watch.acked

CheckAdopts ==
    /\ count.check.at = "answered"
    /\ count' = [count EXCEPT !.check = CheckEnds]
    /\ IF CheckCurrent(count.check)
       THEN /\ watch' = [watch EXCEPT !.ok = TRUE]
            /\ group' = [group EXCEPT !.counted = count.check.value]
            /\ gate' = [gate EXCEPT !.paused = @ /\ ~Observed(count.check.gen, watch')]
       ELSE UNCHANGED <<watch, group, gate>>
    /\ UNCHANGED <<subGen, reader, pipe, sup, cut, user, kept, stray, late>>

\* A failed check of the current generation ends the observation.
CheckFails ==
    /\ count.check.at = "asking"
    /\ count' = [count EXCEPT !.check = CheckEnds]
    /\ watch' = [watch EXCEPT !.ok = @ /\ count.check.gen # subGen.n]
    /\ UNCHANGED <<subGen, reader, pipe, sup, cut, gate, user, kept, group, stray, late>>

\* Someone joins or leaves; a live subscription is told.
MemberChanges ==
    /\ group.n < MaxChanges
    /\ group' = [group EXCEPT !.n = @ + 1, !.events = @ + (IF Subscribed THEN 1 ELSE 0)]
    /\ UNCHANGED <<subGen, watch, reader, pipe, sup, cut, gate, user, kept, count, stray, late>>

------------------------------
(* The locks *)
Reconnecting == {"created", "stopping", "waiting"}
LockFree(u) == user[u] # "handling" /\ cut \notin Reconnecting

UserOnly(u, at) ==
    /\ user' = [user EXCEPT ![u] = at]
    /\ UNCHANGED <<subGen, watch, reader, pipe, sup, cut, gate, count, group, stray, late>>

\* A worker has an event in hand; a membership change is refused at once while
\* a reconnect is wanted.
UserWants(u) ==
    /\ user[u] = "idle"
    /\ IF u \in Workers THEN kept[u] > 0 ELSE ~gate.intent
    /\ UserOnly(u, "waiting")
    /\ UNCHANGED kept

\* Waiting for the release and, in a worker, for the renewed observation.
UserGated(u) ==
    /\ user[u] = "waiting"
    /\ ~gate.intent /\ (u \in Workers => ~gate.paused)
    /\ UserOnly(u, "gated")
    /\ UNCHANGED kept

\* The gates are looked at again under the lock, which is let go if they closed.
UserEnters(u) ==
    /\ user[u] = "gated" /\ LockFree(u)
    /\ UserOnly(u, IF gate.intent \/ (u \in Workers /\ gate.paused) THEN "waiting" ELSE "handling")
    /\ UNCHANGED kept

UserLeaves(u) ==
    /\ user[u] = "handling"
    /\ UserOnly(u, "idle")
    /\ kept' = IF u \in Workers THEN [kept EXCEPT ![u] = @ - 1] ELSE kept

------------------------------
(* The explicit reconnect *)

\* _release: locks, intent, and a wake-up for the supervisor.
Released == [gate EXCEPT !.intent = FALSE, !.changed = TRUE]

\* Another instance, generation or a repeated request id is answered from what
\* is known; otherwise the fence goes up.
Admit(gen) ==
    /\ cut = "none" /\ sup.at # "ended"
    /\ gen = subGen.n
    /\ ~gate.intent
    /\ \A u \in Users : LockFree(u)
    /\ cut' = "admitting"
    /\ gate' = [gate EXCEPT !.intent = TRUE]
    /\ UNCHANGED <<subGen, watch, reader, pipe, sup, user, kept, count, group, stray, late>>

\* The three locks are taken; the task owns them from here.
AdmitTakes ==
    /\ cut = "admitting"
    /\ IF \A u \in Users : LockFree(u)
       THEN cut' = "created" /\ UNCHANGED gate
       ELSE cut' = "none" /\ gate' = [gate EXCEPT !.intent = FALSE]
    /\ UNCHANGED <<subGen, watch, reader, pipe, sup, user, kept, count, group, stray, late>>

\* The task is cancelled before its first step: its callback cleans up.
CutoverNeverRuns ==
    /\ cut = "created"
    /\ Invalidate
    /\ cut' = "none"
    /\ gate' = [Released EXCEPT !.paused = TRUE]
    /\ UNCHANGED <<reader, pipe, sup, user, kept, count, group, stray, late>>

CutoverBegins ==
    /\ cut = "created"
    /\ cut' = "stopping"
    /\ Invalidate
    /\ gate' = [gate EXCEPT !.paused = TRUE, !.changed = TRUE]
    /\ IF ReaderLive
       THEN /\ reader' = [reader EXCEPT !.at = "ending"]
            /\ count' = IF count.check.by = "reader" THEN [count EXCEPT !.check = NoCheck] ELSE count
       ELSE UNCHANGED <<reader, count>>
    /\ pipe' = Closing(pipe)
    /\ UNCHANGED <<sup, user, kept, group, stray, late>>

Stopped == ReaderDone /\ PipeClosed

\* A new reader, unless the daemon is shutting down.
CutoverStops ==
    /\ cut = "stopping" /\ Stopped
    /\ IF sup.at = "ended"
       THEN cut' = "none" /\ gate' = Released /\ UNCHANGED <<subGen, watch, reader, pipe, group, stray>>
       ELSE cut' = "waiting" /\ gate' = [gate EXCEPT !.unknown = FALSE] /\ StartReader
    /\ UNCHANGED <<sup, user, kept, count, late>>

\* The deadline passes first; a supervisor's own, begun earlier, is over.
CutoverStopLate ==
    /\ cut = "stopping" /\ ~Stopped
    /\ sup.at # "stopping"
    /\ Late
    /\ Invalidate
    /\ cut' = "none"
    /\ gate' = [Released EXCEPT !.unknown = TRUE, !.paused = TRUE]
    /\ UNCHANGED <<reader, pipe, sup, user, kept, count, group, stray>>

\* Renewed observation, a replacement that ended, or the deadline.
CutoverEnds(how) ==
    /\ cut = "waiting"
    /\ how = "observing" => ~gate.paused /\ ReaderLive
    /\ cut' = "none"
    /\ gate' = Released
    /\ UNCHANGED <<subGen, watch, reader, pipe, sup, user, kept, count, group, stray, late>>

------------------------------
(* The supervisor *)
SupLoop ==
    /\ sup.at = "loop"
    /\ ~gate.intent /\ ~gate.unknown
    /\ \/ /\ reader.at = "none"
          /\ StartReader
          /\ sup' = [at |-> "watching", gen |-> Invalidated.n]
       \/ /\ reader.at = "done"
          /\ Invalidate
          /\ pipe' = Closing(pipe)
          /\ sup' = [at |-> "stopping", gen |-> reader.gen]
          /\ UNCHANGED <<reader, group, stray>>
       \/ /\ ReaderLive
          /\ sup' = [at |-> "watching", gen |-> reader.gen]
          /\ UNCHANGED <<subGen, watch, reader, pipe, group, stray>>
    /\ UNCHANGED <<cut, gate, user, kept, count, late>>

\* A reconnect that was accepted meanwhile has the custody now.
Superseded == gate.intent \/ reader.gen # sup.gen

SupStopped ==
    /\ sup.at = "stopping"
    /\ PipeClosed \/ Superseded
    /\ IF Superseded
       THEN sup' = [sup EXCEPT !.at = "loop"] /\ UNCHANGED gate
       ELSE sup' = [sup EXCEPT !.at = "backoff"] /\ gate' = [gate EXCEPT !.changed = FALSE]
    /\ UNCHANGED <<subGen, watch, reader, pipe, cut, user, kept, count, group, stray, late>>

SupStopLate ==
    /\ sup.at = "stopping" /\ ~PipeClosed
    /\ ~Superseded
    /\ Late
    /\ Invalidate
    /\ gate' = [gate EXCEPT !.unknown = TRUE, !.paused = TRUE]
    /\ sup' = [sup EXCEPT !.at = "loop"]
    /\ UNCHANGED <<reader, pipe, cut, user, kept, count, group, stray>>

\* The sleep is over, or a reconnect wakes it.  A reconnect that is accepted
\* but has not begun does not: the reader started here is then its to stop.
SupBackoff ==
    /\ sup.at = "backoff"
    /\ IF gate.changed
       THEN sup' = [sup EXCEPT !.at = "loop"] /\ UNCHANGED <<subGen, watch, reader, pipe, group, stray>>
       ELSE StartReader /\ sup' = [at |-> "watching", gen |-> Invalidated.n]
    /\ UNCHANGED <<cut, gate, user, kept, count, late>>

SupWatches ==
    /\ sup.at = "watching"
    /\ ReaderDone \/ reader.gen # sup.gen
    /\ sup' = [sup EXCEPT !.at = "loop"]
    /\ UNCHANGED <<subGen, watch, reader, pipe, cut, gate, user, kept, count, group, stray, late>>

\* Shutdown cancels a reconnect, which lets go of what it holds, and the reader.
ShutDown ==
    /\ sup.at # "ended"
    /\ sup' = [sup EXCEPT !.at = "ended"]
    /\ Invalidate
    /\ cut' = IF cut = "admitting" THEN cut ELSE "none"
    /\ gate' = [(IF cut \in Reconnecting THEN Released ELSE gate) EXCEPT !.paused = TRUE]
    /\ IF ReaderLive
       THEN /\ reader' = [reader EXCEPT !.at = "ending"]
            /\ count' = IF count.check.by = "reader" THEN [count EXCEPT !.check = NoCheck] ELSE count
       ELSE UNCHANGED <<reader, count>>
    /\ pipe' = Closing(pipe)
    /\ UNCHANGED <<user, kept, group, stray, late>>

IngressNext ==
    \/ PipeCloses
    \/ ReaderConnects \/ ReaderAcked \/ ReaderOpens \/ ReaderMembership \/ ReaderFails \/ ReaderEnds
    \/ \E v, l \in BOOLEAN : ReaderCounted(v, l)
    \/ \E w \in Workers : ReaderEvent(w)
    \/ \E by \in {"reader", "event", "loop"} : CheckBegins(by)
    \/ CheckAnswered \/ CheckAdopts \/ CheckFails
    \/ MemberChanges
    \/ \E u \in Users : UserWants(u) \/ UserGated(u) \/ UserEnters(u) \/ UserLeaves(u)
    \/ \E g \in 0..MaxSubGen : Admit(g)
    \/ AdmitTakes \/ CutoverNeverRuns \/ CutoverBegins \/ CutoverStops \/ CutoverStopLate
    \/ \E how \in {"observing", "failed"} : CutoverEnds(how)
    \/ SupLoop \/ SupStopped \/ SupStopLate \/ SupBackoff \/ SupWatches
    \/ ShutDown

------------------------------
(* Properties *)

\* A change of the membership is seen: the count is the group's, or the change
\* is on its way through the subscription, or a count is asked for or under way
\* that sees it.
ChangesSeen ==
    \/ group.counted = group.n
    \/ group.events > 0
    \/ count.asked
    \/ count.check.at = "asking"
    \/ count.check.at = "answered" /\ count.check.value = group.n

\* The subscription that the count was made under has just ended, and a
\* supervisor that runs and is not held back is to void the count.
TrustExpires ==
    /\ reader.at \in {"ending", "done"} /\ ~Stale
    /\ sup.at # "ended" /\ ~gate.unknown

\* While the daemon trusts its count of the group (group_ok, observing) and is
\* subscribed, no change of the membership goes unseen.  Counts of an older
\* subscription, or asked before the acknowledgement, are not adopted
\* (_check_group).  The count is trusted a little longer than the subscription
\* lives, in which time a change does go unseen: from the end of the reader of
\* this very generation, whose close may take two seconds, to the invalidation
\* by the supervisor.  No count outlives its generation, a shutdown or a close
\* of unknown outcome.
NoSwapUnseen == watch.ok => IF Subscribed THEN ChangesSeen ELSE TrustExpires

\* The group is subscribed to once: neither the supervisor nor a reconnect
\* that races with it starts a reader while another transport may be open
\* (_stop_reader, _start_reader).
OneSubscription == stray = 0

\* A reconnect leaves nothing behind: however it ends, in observation, failure,
\* shutdown or before it ran, the fence and the locks are free again, and
\* while it holds them no one handles anything (admit, _release).
CutoverLetsGo ==
    /\ gate.intent <=> cut # "none"
    /\ cut \in Reconnecting => \A u \in Users : user[u] # "handling"
==============================
