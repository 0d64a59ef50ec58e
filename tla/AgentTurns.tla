----------------------------- MODULE AgentTurns -----------------------------
(***************************************************************************)
(* How admind runs the turns of its admin agent: operators' messages wait  *)
(* in a queue, one at a time is pasted into the agent's pane, the agent    *)
(* tells of prompts and ends through hooks that connect to a socket, and   *)
(* the text of a Stop hook becomes a reply to the message that is anchored *)
(* (daemon.py, hook.py, agent.py).  Each await of the code separates two   *)
(* actions.  The agent, its hooks and the terminal it runs in are external *)
(* and modelled by what the code relies on.                                *)
(***************************************************************************)
EXTENDS Integers, Sequences, SequencesExt, FiniteSets

CONSTANTS
    Msgs,           \* operators' messages; each has a text of its own
    None,           \* no message
    MaxTurns,       \* bound: turns the agent runs
    MaxLaunches,    \* bound: launches of the agent
    MaxTroubles,    \* bound: disturbances, operator commands and terminal input
    Happens         \* the kinds that may happen

AllKinds == {"drop",       \* a hook's frame is lost after its connection was accepted
             "lost",       \* a hook never connects
             "giveup",     \* a hook's wait for its answer ends first
             "deadline",   \* the processing of a hook fails or takes too long
             "terse",      \* a Stop without the assistant's text
             "slow",       \* the transcript's size can't be read in time
             "fail",       \* tmux fails before anything reached the pane
             "uncertain",  \* tmux fails after something may have reached it
             "interrupt", "new",   \* operator commands
             "gate",       \* the group can't be verified for a while
             "revoke",     \* the sender of a message is no longer an operator
             "type", "escape",     \* someone at the agent's terminal
             "die",        \* the agent's pane dies
             "late",       \* a launch is not acknowledged in time
             "crash"}      \* admind dies

ASSUME MsgsAssumption == None \notin Msgs /\ "typed" \notin Msgs
ASSUME BoundsAssumption ==
    /\ MaxTurns \in Nat /\ MaxLaunches \in Nat \ {0} /\ MaxTroubles \in Nat
    /\ MaxTurns >= Cardinality(Msgs) + MaxTroubles /\ Happens \subseteq AllKinds

VARIABLES
    status,     \* store: what became of each inbound message
    inFlight,   \* store: the message reserved for the agent (in_flight, in_flight_text)
    anchor,     \* store: the message whose prompt the agent has confirmed
    stopped,    \* store: stopped_flight, a reservation whose turn already ended
    busy,       \* store: the busy period, 0 when idle
    seq,        \* store: turn_seq
    mark,       \* store: turn_start, the busy period and the transcript size at its prompt
    launch,     \* store: the current launch
    live,       \* admind runs
    open,       \* memory: the group is verified, observed and not changing
    revoked,    \* policy: the messages whose sender is no longer an operator
    held,       \* memory: the messages that wait
    blocked,    \* memory: dispatch_blocked
    fresh,      \* memory: `generation' has not moved since the dispatch
    ready,      \* memory: `ready', set by the current launch
    stuck,      \* memory: `stuck'
    retired,    \* memory: the sessions replaced by !new
    job,        \* memory: who holds the dispatch lock across an await, and its locals
    conns,      \* memory: accepted hook connections in order, the head being processed
    look,       \* memory: what on_stop keeps while it reads the transcript
    backlog,    \* socket: connections not yet accepted
    pane,       \* agent: the launch in the pane, 0 for none or a dead one
    phase,      \* agent: what it is doing
    input,      \* agent: prompts pasted while it was not idle
    turns,      \* agent: every turn, its prompt, whether its first hook connected and got its answer in time
    log,        \* agent: the transcript of the present session
    pastes,     \* history: how often each message reached the pane
    replies,    \* history: the replies recorded, the turn their text is from and the one whose Stop it was
    told,       \* history: the messages an operator got a notice about
    known,      \* history: the turns whose prompt admind applied
    troubles    \* history: how many disturbances there were

flight  == <<inFlight, anchor, stopped>>
period  == <<busy, seq, mark>>
store   == <<status, flight, period, launch>>
gates   == <<open, revoked>>
memory  == <<live, held, blocked, fresh, ready, stuck, retired, job>>
hooks   == <<conns, look, backlog>>
agent   == <<pane, phase, input, turns, log>>
outcome == <<pastes, replies, told, known>>
vars    == <<store, gates, memory, hooks, agent, outcome, troubles>>

Trouble(kind) ==
    kind \in Happens /\ troubles < MaxTroubles /\ troubles' = troubles + 1
Calm == UNCHANGED troubles

Sizes  == -2 .. 2 * MaxTurns
Unmeasured == -1
Unknown == -2
Event  == [kind : {"start", "prompt", "stop"}, of : 1 .. MaxLaunches, turn : 0 .. MaxTurns,
           own : BOOLEAN, at : Sizes, below : BOOLEAN, bad : BOOLEAN]
Launch == [session : 0 .. MaxLaunches, nonce : BOOLEAN, ack : BOOLEAN, hold : BOOLEAN,
           issued : BOOLEAN, replace : BOOLEAN]
NoLaunch == [session |-> 0, nonce |-> FALSE, ack |-> FALSE, hold |-> FALSE, issued |-> FALSE,
             replace |-> FALSE]
NoMark == [owner |-> 0, at |-> Unknown]
NoLook == [on |-> FALSE]
Free   == [name |-> "free"]

------------------------------
(* What the store and the gates say. *)

\* AdminAgent.startup_acknowledged, Admind.is_ready.
Acknowledged == launch.nonce /\ launch.ack /\ ~launch.hold
IsReady == ready /\ Acknowledged

\* AdminAgent.alive.
Alive == pane # 0

\* Admind.session_current, Admind.classify.
SessionCurrent(ev) == ev.of = launch.session /\ ev.of \notin retired
Classify(ev) == IF ~SessionCurrent(ev) THEN "other" ELSE IF ~launch.nonce THEN "stale" ELSE "current"

\* Admind.set_busy, set_idle, hold_now, persist_hold.
SetBusy == seq' = seq + 1 /\ busy' = seq + 1
SetIdle == busy' = 0 /\ blocked' = FALSE
HoldNow == blocked' = TRUE /\ fresh' = FALSE
PersistHold == IF busy = 0 THEN SetBusy ELSE UNCHANGED <<busy, seq>>

\* Admind.raise_floor: every hook accepted so far predates the release of the turn just ended.
RaiseFloor == conns' = [i \in DOMAIN conns |-> [conns[i] EXCEPT !.below = TRUE]]

\* The notices that answer a message (Admind.finish, reply, deny, notify_abandoned).
Tell(ms) == told' = told \cup (ms \ {None})

\* The first transaction of Admind.abandon_in_flight.
ClearFlight == inFlight' = None /\ anchor' = None /\ stopped' = None

\* Admind.abandon_in_flight: the state, then the notice.
Abandon == ClearFlight /\ Tell({inFlight})

\* Admind.turn_identity.
Identity == <<inFlight, anchor, busy, launch.session, launch.nonce>>

\* Admind.turn_span: the transcript bytes of the turn that a Stop measured at `end' ends.
Span(end) == IF busy # 0 /\ mark.owner = busy /\ Unknown < mark.at /\ mark.at <= end
             THEN <<mark.at, end>> ELSE <<Unknown, Unknown>>

\* hook.turn_records and reply_text: the first content after the span's beginning, whose turn it is.
Said(span) == LET at == {i \in span[1] + 1 .. span[2] : log[i].says}
              IN IF span[1] = Unknown \/ at = {} THEN 0
                 ELSE log[CHOOSE i \in at : \A j \in at : i <= j].turn

------------------------------
\* admind is about to start for the first time.
Init ==
    /\ status = [m \in Msgs |-> "none"]
    /\ inFlight = None /\ anchor = None /\ stopped = None /\ busy = 0 /\ seq = 0 /\ mark = NoMark
    /\ launch = NoLaunch
    /\ live = FALSE /\ open = TRUE /\ revoked = {} /\ held = <<>> /\ blocked = FALSE /\ fresh = FALSE
    /\ ready = FALSE /\ stuck = FALSE /\ retired = {} /\ job = Free
    /\ conns = <<>> /\ look = NoLook /\ backlog = <<>>
    /\ pane = 0 /\ phase = "none" /\ input = <<>> /\ turns = <<>> /\ log = <<>>
    /\ pastes = [m \in Msgs |-> 0] /\ replies = {} /\ told = {} /\ known = {}
    /\ troubles = 0

------------------------------
(* Start and launch. *)

\* A new agent in the pane.
Spawn(n) == pane' = n /\ phase' = "boot" /\ input' = <<>> /\ log' = <<>> /\ UNCHANGED turns

\* AdminAgent.ensure_running adopts the pane.
Adoptable == Alive /\ launch.session # 0 /\ launch.nonce
             /\ ~launch.hold /\ ~launch.replace /\ ~launch.issued

\* AdminAgent._refuse_launch.
Refuse == launch' = [launch EXCEPT !.hold = TRUE] /\ stuck' = TRUE

\* Admind.recover: the turn in flight and the messages that waited are answered once.
Recover ==
    /\ ~live /\ live' = TRUE /\ ClearFlight
    /\ Tell({inFlight} \cup {m \in Msgs : status[m] = "received"})
    /\ status' = [m \in Msgs |-> IF status[m] = "received" THEN "dropped" ELSE status[m]]
    /\ UNCHANGED <<mark, gates, held, retired, hooks, agent, pastes, replies, known>>

\* Admind.run up to its loops, on a pane that is still there: whether it is mid-turn can't be known, so
\* dispatch is held (hold_adopted).
StartAdopts ==
    /\ Recover /\ Adoptable /\ Calm
    /\ HoldNow /\ PersistHold /\ ready' = launch.ack
    /\ UNCHANGED <<launch, stuck, job>>

\* A store that never had an agent launches one (AdminAgent._request_startup); no loop runs before it is done.
StartLaunches ==
    /\ Recover /\ launch.session = 0 /\ Calm
    /\ launch' = [NoLaunch EXCEPT !.session = 1, !.nonce = TRUE, !.issued = TRUE]
    /\ job' = [name |-> "start", step |-> "issued"]
    /\ UNCHANGED <<busy, seq, blocked, fresh, ready, stuck>>

\* Any other is held for an operator's !new; a pane that can't be probed is left for the next start.
StartRefuses ==
    /\ Recover /\ launch.session # 0
    /\ \/ ~Adoptable /\ Refuse /\ Calm
       \/ Trouble("fail") /\ stuck' = TRUE /\ UNCHANGED launch
    /\ UNCHANGED <<busy, seq, blocked, fresh, ready, job>>

\* admind dies: its memory and the connections to it are gone.
Crash ==
    /\ live /\ Trouble("crash") /\ live' = FALSE
    /\ held' = <<>> /\ blocked' = FALSE /\ fresh' = FALSE /\ ready' = FALSE /\ stuck' = FALSE
    /\ retired' = {} /\ job' = Free /\ conns' = <<>> /\ look' = NoLook /\ backlog' = <<>>
    /\ UNCHANGED <<store, gates, agent, outcome>>

------------------------------
(* The queue. *)

\* Admind.handle: an operator's message joins the queue.
Receive(m) ==
    /\ live /\ status[m] = "none" /\ status' = [status EXCEPT ![m] = "received"]
    /\ held' = Append(held, m) /\ Calm
    /\ UNCHANGED <<flight, period, launch, gates, live, blocked, fresh, ready, stuck, retired, job,
                   hooks, agent, outcome>>

Lead == {i \in DOMAIN held : \A j \in 1 .. i : held[j] \in revoked}
Rest == SubSeq(held, Cardinality(Lead) + 1, Len(held))
Denied == {held[i] : i \in Lead}

\* A flush that gets past the gates, under the dispatch lock.
Flushing == live /\ job = Free /\ open /\ held # <<>> /\ Calm

\* Admind._flush while recovery is paused: the messages are kept and their senders told.
FlushStuck ==
    /\ Flushing /\ stuck
    /\ held' = Rest /\ Tell(ToSet(held))
    /\ status' = [m \in Msgs |-> IF m \in Denied THEN "dropped" ELSE status[m]]
    /\ UNCHANGED <<flight, period, launch, gates, live, blocked, fresh, ready, stuck, retired, job,
                   hooks, agent, pastes, replies, known>>

\* Mutant: hooks on their way are not waited for.
MayPasteAhead == IsReady /\ inFlight = None /\ busy = 0 /\ ~blocked

\* Only into an agent that is idle, with no hook on its way.
MayPaste == IsReady /\ inFlight = None /\ busy = 0 /\ ~blocked /\ conns = <<>> /\ backlog = <<>>

\* Messages whose sender was revoked while they waited leave the queue, whatever follows.
FlushDenies ==
    /\ Flushing /\ ~stuck /\ Lead # {} /\ (~MayPaste \/ Rest = <<>>)
    /\ held' = Rest /\ Tell(Denied)
    /\ status' = [m \in Msgs |-> IF m \in Denied THEN "dropped" ELSE status[m]]
    /\ UNCHANGED <<flight, period, launch, gates, live, blocked, fresh, ready, stuck, retired, job,
                   hooks, agent, pastes, replies, known>>

\* The message is reserved before the paste.
Dispatch ==
    /\ Flushing /\ ~stuck /\ MayPaste /\ Rest # <<>>
    /\ held' = Tail(Rest) /\ Tell(Denied) /\ inFlight' = Head(Rest)
    /\ status' = [m \in Msgs |-> IF m \in Denied THEN "dropped"
                                 ELSE IF m = Head(Rest) THEN "dispatched" ELSE status[m]]
    /\ SetBusy /\ fresh' = TRUE /\ job' = [name |-> "send", msg |-> Head(Rest), done |-> FALSE]
    /\ UNCHANGED <<anchor, stopped, mark, launch, gates, live, blocked, ready, stuck, retired, hooks,
                   agent, pastes, replies, known>>

\* A turn of the agent begins: its hook starts.  It is `raced' if a command that releases turns is under
\* way: admind takes its prompt for one of the released turn.
Ask(text) ==
    /\ phase' = "asking"
    /\ turns' = Append(turns, [text |-> text, hooked |-> FALSE, late |-> FALSE,
                               raced |-> job.name \in {"interrupt", "new"}])

\* The paste reaches the pane.
PasteLands ==
    /\ job.name = "send" /\ ~job.done /\ Alive /\ Calm
    /\ job' = [job EXCEPT !.done = TRUE] /\ pastes' = [pastes EXCEPT ![job.msg] = @ + 1]
    /\ IF phase = "idle" THEN Ask(job.msg) /\ UNCHANGED input
                         ELSE input' = Append(input, job.msg) /\ UNCHANGED <<phase, turns>>
    /\ UNCHANGED <<store, gates, live, held, blocked, fresh, ready, stuck, retired, hooks, pane, log,
                   replies, told, known>>

SendReturns ==
    /\ job.name = "send" /\ job.done /\ job' = Free /\ Calm
    /\ UNCHANGED <<store, gates, live, held, blocked, fresh, ready, stuck, retired, hooks, agent, outcome>>

\* TmuxError: nothing reached the pane, so the message is kept; then start_agent looks at the pane.
SendFails ==
    /\ job.name = "send" /\ ~job.done /\ (Trouble("fail") \/ (~Alive /\ Calm))
    /\ job' = [name |-> "restart"] /\ ready' = FALSE
    /\ IF inFlight = job.msg
       THEN /\ inFlight' = None /\ anchor' = (IF anchor = job.msg THEN None ELSE anchor)
            /\ status' = [status EXCEPT ![job.msg] = "received"] /\ held' = <<job.msg>> \o held
            /\ IF fresh THEN SetIdle ELSE UNCHANGED <<busy, blocked>>
       ELSE UNCHANGED <<inFlight, anchor, status, held, busy, blocked>>
    /\ UNCHANGED <<stopped, seq, mark, launch, gates, live, fresh, stuck, retired, hooks, agent, outcome>>

\* Admind.start_agent, after a failed send; a pane that can't be probed is not taken for a dead one.
Restarted ==
    /\ job.name = "restart" /\ job' = Free
    /\ \/ Adoptable /\ Calm /\ stuck' = FALSE /\ ready' = launch.ack /\ UNCHANGED launch
       \/ ~Adoptable /\ Calm /\ Refuse /\ UNCHANGED ready
       \/ Trouble("fail") /\ stuck' = TRUE /\ UNCHANGED <<launch, ready>>
    /\ UNCHANGED <<status, flight, period, gates, live, held, blocked, fresh, retired, hooks, agent,
                   outcome>>

\* Mutant: a message of unknown fate is kept for a retry.
SendUncertainRetries ==
    /\ job.name = "send" /\ Trouble("uncertain") /\ job' = Free
    /\ ClearFlight /\ RaiseFloor
    /\ status' = [status EXCEPT ![job.msg] = "received"] /\ held' = <<job.msg>> \o held
    /\ SetIdle
    /\ UNCHANGED <<seq, mark, launch, gates, live, fresh, ready, stuck, retired, look, backlog, agent,
                   outcome>>

\* TmuxPasteUncertain: the message is never pasted again and its sender told; the agent stays busy.
SendUncertain ==
    /\ job.name = "send" /\ Trouble("uncertain") /\ job' = Free
    /\ Abandon /\ RaiseFloor
    /\ UNCHANGED <<status, period, launch, gates, live, held, blocked, fresh, ready, stuck, retired,
                   look, backlog, agent, pastes, replies, known>>

------------------------------
(* Operator commands and the watch on the pane. *)

\* Admind.interrupt, if it is authorised, takes the dispatch lock and notes the turn it is about.
InterruptBegins ==
    /\ live /\ open /\ job = Free /\ Trouble("interrupt")
    /\ job' = [name |-> "interrupt", done |-> FALSE, target |-> inFlight, anchor |-> anchor, busy |-> busy]
    /\ UNCHANGED <<store, gates, live, held, blocked, fresh, ready, stuck, retired, hooks, agent, outcome>>

HookOf(kind, own) == [kind |-> kind, of |-> pane, turn |-> Len(turns), own |-> own,
                      at |-> Unmeasured, below |-> FALSE, bad |-> FALSE]

\* A hook connects to the socket, if there is one.
Connect(e) ==
    /\ backlog' = IF live THEN Append(backlog, e) ELSE backlog
    /\ turns' = IF live /\ e.kind = "prompt" THEN [turns EXCEPT ![e.turn].hooked = TRUE] ELSE turns

\* Escape ends a turn without a Stop; a hook that was starting is killed, or connects all the same.
Escape ==
    /\ phase' = IF phase \in {"asking", "prompting", "running"} THEN "idle" ELSE phase
    /\ \/ UNCHANGED <<backlog, turns>>
       \/ phase = "asking" /\ Connect(HookOf("prompt", TRUE))

EscapeLands ==
    /\ job.name = "interrupt" /\ ~job.done /\ Alive /\ Calm
    /\ job' = [job EXCEPT !.done = TRUE] /\ Escape
    /\ UNCHANGED <<store, gates, live, held, blocked, fresh, ready, stuck, retired, conns, look, pane,
                   input, log, outcome>>

\* The Escape was sent: only the turn in flight at the command is abandoned, and the agent idle unless a
\* new busy period began meanwhile.
Interrupted ==
    /\ job.name = "interrupt" /\ job.done /\ job' = Free /\ Calm /\ RaiseFloor
    /\ IF job.target # None /\ inFlight = job.target THEN Abandon
       ELSE /\ anchor' = IF job.target = None /\ anchor = job.anchor THEN None ELSE anchor
            /\ UNCHANGED <<inFlight, stopped, told>>
    /\ IF busy = job.busy THEN SetIdle ELSE UNCHANGED <<busy, blocked>>
    /\ UNCHANGED <<status, seq, mark, launch, gates, live, held, fresh, ready, stuck, retired, look,
                   backlog, agent, pastes, replies, known>>

\* A failed send is no evidence that the agent is idle.
InterruptFails ==
    /\ job.name = "interrupt" /\ (Trouble("fail") \/ (~Alive /\ ~job.done /\ Calm)) /\ job' = Free
    /\ UNCHANGED <<store, gates, live, held, blocked, fresh, ready, stuck, retired, hooks, agent, outcome>>

\* Admind.new_session: the old session is retired, everything that waited is answered, and the intent to
\* replace the pane is stored with the release of the turn.
NewBegins ==
    /\ live /\ open /\ job = Free /\ launch.session < MaxLaunches /\ Trouble("new")
    /\ job' = [name |-> "new", step |-> "begun"]
    /\ retired' = retired \cup ({launch.session} \ {0}) /\ ready' = FALSE /\ stuck' = FALSE
    /\ launch' = [launch EXCEPT !.nonce = FALSE, !.replace = TRUE]
    /\ status' = [m \in Msgs |-> IF m \notin ToSet(held) THEN status[m]
                                 ELSE IF m \in revoked THEN "dropped" ELSE "done"]
    /\ held' = <<>> /\ ClearFlight /\ Tell(ToSet(held) \cup {inFlight}) /\ SetIdle /\ RaiseFloor
    /\ UNCHANGED <<seq, mark, gates, live, fresh, look, backlog, agent, pastes, replies, known>>

\* AdminAgent._request_startup: issued durably, before anything outside happens.
NewIssued ==
    /\ job.name = "new" /\ job.step = "begun" /\ Calm /\ job' = [job EXCEPT !.step = "issued"]
    /\ launch' = [session |-> launch.session + 1, nonce |-> TRUE, ack |-> FALSE, hold |-> FALSE,
                  issued |-> TRUE, replace |-> TRUE]
    /\ UNCHANGED <<status, flight, period, gates, live, held, blocked, fresh, ready, stuck, retired,
                   hooks, agent, outcome>>

\* The old pane is killed, the new one started.
PaneSpawned ==
    /\ job.name \in {"start", "new"} /\ job.step = "issued" /\ Calm
    /\ job' = [job EXCEPT !.step = "spawned"] /\ Spawn(launch.session)
    /\ UNCHANGED <<store, gates, live, held, blocked, fresh, ready, stuck, retired, hooks, outcome>>

\* Every hook accepted until !new is done is one of the old session.
FloorOfNew == IF job.name = "new" THEN RaiseFloor ELSE UNCHANGED conns

LaunchReturns ==
    /\ job.name \in {"start", "new"} /\ job.step = "spawned" /\ job' = Free /\ Calm /\ FloorOfNew
    /\ launch' = [launch EXCEPT !.issued = FALSE, !.replace = FALSE]
    /\ UNCHANGED <<status, flight, period, gates, live, held, blocked, fresh, ready, stuck, retired,
                   look, backlog, agent, outcome>>

\* tmux fails after the launch was issued: it is held, whatever became of the panes.
LaunchFails ==
    /\ job.name \in {"start", "new"} /\ job.step \in {"issued", "spawned"} /\ Trouble("fail")
    /\ job' = Free /\ Refuse /\ FloorOfNew
    /\ \/ UNCHANGED agent
       \/ job.step = "issued" /\ pane' = 0 /\ phase' = "none" /\ UNCHANGED <<input, turns, log>>
    /\ UNCHANGED <<status, flight, period, gates, live, held, blocked, fresh, ready, retired, look,
                   backlog, outcome>>

\* Admind.check_agent: a dead pane, or a launch not acknowledged in time, is held for an operator.
CheckAgent ==
    /\ live /\ job = Free /\ ~stuck
    /\ (~Alive /\ Calm) \/ (Alive /\ ~IsReady /\ Trouble("late"))
    /\ Refuse /\ ready' = FALSE /\ RaiseFloor
    /\ UNCHANGED <<status, flight, period, gates, live, held, blocked, fresh, retired, job, look, backlog,
                   agent, outcome>>

\* The group can't be verified for a while, and an operator is removed.
Gate ==
    /\ \/ open /\ Trouble("gate") /\ open' = FALSE /\ UNCHANGED revoked
       \/ ~open /\ open' = TRUE /\ Calm /\ UNCHANGED revoked
       \/ \E m \in Msgs \ revoked : revoked' = revoked \cup {m} /\ Trouble("revoke") /\ UNCHANGED open
    /\ UNCHANGED <<store, memory, hooks, agent, outcome>>

------------------------------
(* Hooks: accepted in order, processed one at a time. *)

ev == Head(conns)

\* HookServer._on_readable.
Accept ==
    /\ live /\ backlog # <<>> /\ Calm
    /\ conns' = Append(conns, Head(backlog)) /\ backlog' = Tail(backlog)
    /\ UNCHANGED <<store, gates, memory, look, agent, outcome>>

\* HookServer._hold: a frame that was cut off, or is not one, holds dispatch at once.
FrameDropped ==
    /\ \E i \in DOMAIN conns :
          /\ ~conns[i].bad /\ conns[i].at = Unmeasured /\ conns' = [conns EXCEPT ![i].bad = TRUE]
    /\ Trouble("drop") /\ HoldNow
    /\ UNCHANGED <<store, gates, live, held, ready, stuck, retired, job, look, backlog, agent, outcome>>

\* Admind.hold_dispatch, when its turn in the order has come.
LostHolds ==
    /\ conns # <<>> /\ ev.bad /\ conns' = Tail(conns) /\ HoldNow /\ PersistHold /\ Calm
    /\ UNCHANGED <<status, flight, mark, launch, gates, live, held, ready, stuck, retired, job, look,
                   backlog, agent, outcome>>

\* Admind.hook_loop when an event fails or passes its deadline: it might have started a turn.
HookFails ==
    /\ conns # <<>> /\ ~ev.bad /\ Trouble("deadline") /\ conns' = Tail(conns) /\ look' = NoLook
    /\ IF Classify(ev) = "other" \/ (look.on /\ look.stale)
       THEN UNCHANGED <<blocked, fresh, busy, seq>>
       ELSE HoldNow /\ PersistHold
    /\ UNCHANGED <<status, flight, mark, launch, gates, live, held, ready, stuck, retired, job, backlog,
                   agent, outcome>>

\* Admind.transcript_offset, before the lock is taken.
Measure ==
    /\ conns # <<>> /\ ~ev.bad /\ ev.kind # "start" /\ ev.at = Unmeasured
    /\ \/ conns' = [conns EXCEPT ![1].at = Len(log)] /\ Calm
       \/ conns' = [conns EXCEPT ![1].at = Unknown] /\ Trouble("slow")
    /\ UNCHANGED <<store, gates, memory, look, backlog, agent, outcome>>

\* The head of the queue is ready to be applied under the turn lock.
Applying == conns # <<>> /\ ~ev.bad /\ job = Free /\ (ev.kind = "start" \/ ev.at # Unmeasured) /\ Calm

\* Another session's event, or one of a launch that is being replaced.
Ignored ==
    /\ Applying /\ ~look.on
    /\ Classify(ev) = "other" \/ (Classify(ev) = "stale" /\ ev.kind # "stop")
    /\ conns' = Tail(conns)
    /\ UNCHANGED <<store, gates, memory, look, backlog, agent, outcome>>

\* Admind.on_session_start: readiness, unless the launch is held or a turn is unfinished.
OnSessionStart ==
    /\ Applying /\ ev.kind = "start" /\ Classify(ev) = "current"
    /\ conns' = Tail(conns) /\ fresh' = FALSE
    /\ IF ~ev.own \/ launch.hold THEN Refuse /\ ready' = FALSE
       ELSE IF busy # 0 \/ inFlight # None
       THEN launch' = [launch EXCEPT !.ack = TRUE, !.hold = TRUE] /\ stuck' = TRUE /\ ready' = FALSE
       ELSE launch' = [launch EXCEPT !.ack = TRUE] /\ ready' = TRUE /\ UNCHANGED stuck
    /\ UNCHANGED <<status, flight, period, gates, live, held, blocked, retired, job, look, backlog, agent,
                   outcome>>

\* A prompt of a turn that was released, or of a reservation whose turn has ended.
PromptLate ==
    /\ Applying /\ ev.kind = "prompt" /\ Classify(ev) = "current"
    /\ \/ ev.below /\ UNCHANGED fresh
       \/ ~ev.below /\ inFlight # None /\ stopped = inFlight /\ fresh' = FALSE
    /\ conns' = Tail(conns)
    /\ UNCHANGED <<store, gates, live, held, blocked, ready, stuck, retired, job, look, backlog, agent,
                   outcome>>

\* Mutant: a prompt that is not the reservation's leaves the anchor of the turn before it.
OnPromptKeepsAnchor ==
    /\ Applying /\ ev.kind = "prompt" /\ Classify(ev) = "current"
    /\ ~ev.below /\ (inFlight = None \/ stopped # inFlight)
    /\ conns' = Tail(conns) /\ fresh' = FALSE /\ SetBusy /\ known' = known \cup {ev.turn}
    /\ mark' = IF ev.at = Unknown THEN NoMark ELSE [owner |-> seq + 1, at |-> ev.at]
    /\ anchor' = IF inFlight # None /\ anchor = None /\ turns[ev.turn].text = inFlight
                 THEN inFlight ELSE anchor
    /\ UNCHANGED <<status, inFlight, stopped, launch, gates, live, held, blocked, ready, stuck, retired,
                   job, look, backlog, agent, pastes, replies, told>>

\* Admind.on_prompt: a turn runs, whoever started it; it anchors the reservation if it has its text,
\* and shows an anchored turn to be over.
OnPrompt ==
    /\ Applying /\ ev.kind = "prompt" /\ Classify(ev) = "current"
    /\ ~ev.below /\ (inFlight = None \/ stopped # inFlight)
    /\ conns' = Tail(conns) /\ fresh' = FALSE /\ SetBusy /\ known' = known \cup {ev.turn}
    /\ mark' = IF ev.at = Unknown THEN NoMark ELSE [owner |-> seq + 1, at |-> ev.at]
    /\ IF inFlight # None /\ anchor = None /\ turns[ev.turn].text = inFlight
       THEN anchor' = inFlight /\ UNCHANGED <<inFlight, stopped, told>>
       ELSE IF anchor # None THEN Abandon
       ELSE UNCHANGED <<flight, told>>
    /\ UNCHANGED <<status, launch, gates, live, held, blocked, ready, stuck, retired, job, look, backlog,
                   agent, pastes, replies>>

\* Admind.on_stop, its first critical section: what the Stop must find again after the read.
StopBegins ==
    /\ Applying /\ ev.kind = "stop" /\ ~look.on /\ Classify(ev) # "other"
    /\ LET stale == Classify(ev) = "stale" \/ ev.below
           unanchored == inFlight # None /\ anchor = None
       IN /\ stopped' = IF unanchored /\ ~stale THEN inFlight ELSE stopped
          /\ IF (stale \/ unanchored) /\ ~ev.own
             THEN conns' = Tail(conns) /\ UNCHANGED look
             ELSE /\ look' = [on |-> TRUE, stale |-> stale, unanchored |-> unanchored, id |-> Identity,
                              span |-> Span(ev.at), fallback |-> ~stale /\ ~unanchored /\ ~ev.own]
                  /\ UNCHANGED conns
    /\ UNCHANGED <<status, inFlight, anchor, period, launch, gates, memory, backlog, agent, outcome>>

\* Its second: the turn is still the one the Stop was about.
Current == ~look.stale /\ ~look.unanchored /\ ~ev.below /\ Identity = look.id

\* A retired session, or a text read from the transcript for a turn that has changed: nothing is posted.
StopUnusable ==
    /\ Applying /\ look.on /\ (~SessionCurrent(ev) \/ (look.fallback /\ ~Current))
    /\ conns' = Tail(conns) /\ look' = NoLook
    /\ UNCHANGED <<store, gates, memory, backlog, agent, outcome>>

\* The reply is recorded and, if the Stop is current, the turn ends (Admind.end_turn).
OnStop ==
    /\ Applying /\ look.on /\ SessionCurrent(ev) /\ (look.fallback => Current)
    /\ conns' = Tail(conns) /\ look' = NoLook
    /\ replies' = replies \cup {[to |-> IF Current THEN anchor ELSE None,
                                 turn |-> IF ev.own THEN ev.turn ELSE Said(look.span), by |-> ev.turn]}
    /\ IF Current
       THEN /\ SetIdle /\ mark' = NoMark
            /\ IF anchor # None THEN anchor' = None /\ inFlight' = None ELSE UNCHANGED <<anchor, inFlight>>
       ELSE UNCHANGED <<busy, blocked, mark, anchor, inFlight>>
    /\ UNCHANGED <<status, stopped, seq, launch, gates, live, held, fresh, ready, stuck, retired, job,
                   backlog, agent, pastes, told, known>>

------------------------------
(* The agent and its terminal. *)

\* The hook the agent waits for has been processed.
Answered(kind) ==
    \A e \in ToSet(backlog) \cup ToSet(conns) : ~(e.of = pane /\ e.turn = Len(turns) /\ e.kind = kind)

\* The agent waits for its synchronous hooks, up to their timeout.
HookDone ==
    /\ \E h \in {<<"hello", "start", "idle">>, <<"prompting", "prompt", "running">>,
                 <<"stopping", "stop", "idle">>} :
          /\ phase = h[1] /\ phase' = h[3]
          /\ IF Answered(h[2]) THEN Calm ELSE Trouble("giveup")
    /\ log' = IF phase = "prompting" THEN Append(log, [turn |-> Len(turns), says |-> FALSE]) ELSE log
    /\ turns' = IF phase # "prompting" \/ Answered("prompt") THEN turns
                ELSE [turns EXCEPT ![Len(turns)].late = TRUE]
    /\ UNCHANGED <<store, gates, memory, hooks, pane, input, outcome>>

\* A hook's process has started and connects, or never does.
HookConnects ==
    /\ \E h \in {<<"boot", "start", "hello">>, <<"asking", "prompt", "prompting">>} :
          /\ phase = h[1] /\ phase' = h[3]
          /\ \/ Connect(HookOf(h[2], TRUE)) /\ Calm
             \/ UNCHANGED <<backlog, turns>> /\ Trouble("lost")
    /\ UNCHANGED <<store, gates, memory, conns, look, pane, input, log, outcome>>

\* The turn's text is in the transcript, then its Stop hook runs.
Finish ==
    /\ phase = "running" /\ phase' = "stopping"
    /\ log' = Append(log, [turn |-> Len(turns), says |-> TRUE])
    /\ \/ Connect(HookOf("stop", TRUE)) /\ Calm
       \/ Connect(HookOf("stop", FALSE)) /\ Trouble("terse")
       \/ UNCHANGED <<backlog, turns>> /\ Trouble("lost")
    /\ UNCHANGED <<store, gates, memory, conns, look, pane, input, outcome>>

\* The next prompt it was given while it was not idle.
TakeInput ==
    /\ phase = "idle" /\ input # <<>> /\ Ask(Head(input)) /\ input' = Tail(input) /\ Calm
    /\ UNCHANGED <<store, gates, memory, hooks, pane, log, outcome>>

\* Someone at the terminal types a prompt, perhaps the text of a message that waits or is in flight, starts
\* the conversation over, or presses Escape.
Terminal ==
    /\ \/ /\ phase = "idle" /\ Trouble("type")
          /\ \/ \E text \in (ToSet(held) \cup {inFlight, "typed"}) \ {None} : Ask(text) /\ UNCHANGED backlog
             \/ Connect(HookOf("start", FALSE)) /\ UNCHANGED phase
       \/ phase \in {"asking", "prompting", "running"} /\ Trouble("escape") /\ Escape
    /\ UNCHANGED <<store, gates, memory, conns, look, pane, input, log, outcome>>

PaneDies ==
    /\ Alive /\ Trouble("die") /\ pane' = 0 /\ phase' = "none" /\ input' = <<>>
    /\ UNCHANGED <<store, gates, memory, hooks, turns, log, outcome>>

------------------------------
Queue    == FlushStuck \/ FlushDenies \/ Dispatch \/ PasteLands \/ SendReturns \/ SendFails \/ Restarted
            \/ SendUncertain
Commands == InterruptBegins \/ EscapeLands \/ Interrupted \/ InterruptFails
            \/ NewBegins \/ NewIssued \/ PaneSpawned \/ LaunchReturns \/ LaunchFails \/ CheckAgent
Hooks    == Accept \/ FrameDropped \/ LostHolds \/ HookFails \/ Measure \/ Ignored \/ OnSessionStart
            \/ PromptLate \/ OnPrompt \/ StopBegins \/ StopUnusable \/ OnStop
Agent    == HookDone \/ HookConnects \/ Finish \/ TakeInput \/ Terminal \/ PaneDies
Starts   == StartAdopts \/ StartLaunches \/ StartRefuses \/ Crash

Next == Starts \/ (\E m \in Msgs : Receive(m)) \/ Queue \/ Commands \/ Gate \/ Hooks \/ Agent

Spec == Init /\ [][Next]_vars

------------------------------
\* The type of the state.
TypeOK ==
    /\ status \in [Msgs -> {"none", "received", "dispatched", "done", "dropped"}]
    /\ {inFlight, anchor, stopped} \subseteq Msgs \cup {None}
    /\ busy \in Nat /\ seq \in Nat /\ launch \in Launch
    /\ {live, open, blocked, fresh, ready, stuck} \subseteq BOOLEAN
    /\ held \in Seq(Msgs) /\ retired \subseteq 1 .. MaxLaunches
    /\ conns \in Seq(Event) /\ backlog \in Seq(Event) /\ pane \in 0 .. MaxLaunches

\* A reply in the thread of a message (Admind.on_stop) is the text of a turn that was started with that
\* message, whatever was typed, interrupted, lost or replaced meanwhile.  Left out are a turn whose prompt
\* hook never came through, which can't be told from the one before it, and a text that was read from the
\* transcript for a turn that went on before its prompt hook was answered, if at all: the bytes on_stop
\* reads are then not known to be that turn's.
ReplyIsOwn ==
    \A r \in replies : /\ r.to # None /\ r.turn \in known
                       /\ r.turn = r.by \/ (r.by \in known /\ ~turns[r.by].late)
                       => turns[r.turn].text = r.to

\* A message reaches the agent's pane at most once: _flush gives it back only after a send that reached
\* nothing, and a restart, an interrupt or a send of unknown fate never does.
PastedOnce == \A m \in Msgs : pastes[m] <= 1

\* No message ends in silence: it waits in the queue, is in flight, has its reply, or its sender was told
\* (Admind.recover, abandon_in_flight, new_session, deny); one that a crash caught waiting is still marked
\* as received for the next start to answer.
NoneForgotten ==
    \A m \in Msgs : status[m] # "none" =>
        \/ m \in ToSet(held) \/ inFlight = m \/ m \in told
        \/ \E r \in replies : r.to = m
        \/ (~live /\ status[m] = "received")

\* A message is handed over once and never lost: pasted at most once, and answered, queued or told of.
PromptsKept == PastedOnce /\ NoneForgotten

\* A prompt is dispatched only when no turn is running whose prompt hook has reached the socket: neither a
\* hook that waits to be accepted or applied, nor one that was dropped or failed, nor a restart lets the
\* queue go (the gates of Admind._flush, hold_now, hold_adopted).  Excepted is a turn begun while
\* !interrupt or !new held the lock, whose prompt the raised floor takes for one of the released turn.
PastedIntoIdle ==
    [][job = Free /\ job'.name = "send" =>
        phase \notin {"prompting", "running"} \/ ~turns[Len(turns)].hooked \/ turns[Len(turns)].raced]_vars
==============================
