--------------------------- MODULE SandboxSession ---------------------------
(***************************************************************************)
(* One session key of the sandbox runtime (sandbox/runtime.py, creates.py, *)
(* reaper.py, sessiongit.py, wsd/gitwip.py): its record, the create        *)
(* ledger, a watcher process per generation, the sandboxes at the backend, *)
(* the session's private git directory and what of it reached the bead's   *)
(* branch.                                                                 *)
(*                                                                         *)
(* wsd's operations on the key are serialised by `lifecycle_lock' (`job'   *)
(* is the one under way), but a crash can come between any two of its      *)
(* writes, and the watchers, the gateway that makes sandboxes, the agent   *)
(* and the clock go on between any two of them.                            *)
(***************************************************************************)
EXTENDS Naturals, FiniteSets, FiniteSetsExt

CONSTANTS
    MaxSessions,       \* bound on the generations of the session
    MaxTroubles,  \* bound on the disturbances
    Happens       \* the kinds of disturbance that a run allows

AllKinds == {"crash", "reboot", "fault", "arm", "backend", "refuse", "git", "die", "diverge", "damage"}

ASSUME SandboxBounds ==
    /\ {MaxSessions, MaxTroubles} \subseteq Nat /\ MaxSessions > 0 /\ Happens \subseteq AllKinds

Sessions == 1..MaxSessions

VARIABLES
    rec,       \* the SessionRecord of the key
    led,       \* the create ledger, by generation
    watch,     \* the watcher processes, by generation
    box,       \* the sandboxes that the backend lists
    out,       \* creates that were submitted and may still land
    pane,      \* the tmux pane of the session
    markers,   \* the reaper's durable markers
    receipts,  \* the deadline receipts of reconcile_session
    due,       \* where the clock stands: 0 early, 1 stop margin, 2 past the deadline, 3 past its linger
    git,       \* the session's private git directory
    fate,      \* each generation's commits: private; lost; or safe: none, landed, kept or discarded by the operator
    wip,       \* lifetime WIP commits on the branch, by generation
    intent,    \* a resolve's durable intent
    trash,     \* the session directory was moved out by a resolve
    job,       \* wsd's operation under way
    wsdUp,        \* wsd runs
    last,      \* the latest generation that was launched
    owed,      \* history: generations whose lifetime stop began
    died,      \* history, of the record's generation: it ended by itself
    confirmed, \* history: ... after their liveness was confirmed
    unmarked,  \* history, likewise: its watcher killed it without its marker
    accepted,  \* history: generations whose late create the operator accepted
    resolved,  \* history: generations whose directory a resolve removed
    troubles

store == <<rec, led, markers, receipts, intent>>
world == <<box, out, pane, due, git, fate, wip, trash>>
past == <<accepted, resolved>>
history == <<owed, died, confirmed, unmarked, past>>
sandboxVars == <<store, world, watch, job, wsdUp, last, history, troubles>>

------------------------------
(* Records. *)

Phases == {"none", "creating", "testing", "starting", "running", "stopping", "ended"}
EndCauses == {"none", "died", "stopped", "lifetime", "refused"}
Record == [gen : 0..MaxSessions, phase : Phases, started : BOOLEAN, lifetime : BOOLEAN, mark : BOOLEAN,
           unlanded : BOOLEAN, seeded : BOOLEAN, created : BOOLEAN, begun : BOOLEAN, cause : EndCauses]
NoRecord == [gen |-> 0, phase |-> "none", started |-> FALSE, lifetime |-> FALSE, mark |-> FALSE,
             unlanded |-> FALSE, seeded |-> FALSE, created |-> FALSE, begun |-> FALSE, cause |-> "none"]

\* An entry of creates.Ledger: the submission, how it settled, the deletion's evidence, the alert.
LedgerEntry == [sub : BOOLEAN, how : {"none", "returned", "never", "operator"}, gone : BOOLEAN,
          alert : {"none", "open", "closed"}]
NoEntry == [sub |-> FALSE, how |-> "none", gone |-> FALSE, alert |-> "none"]

Watcher == [pc : {"none", "wait", "mark", "look", "kill", "delete", "write"}, settled : BOOLEAN,
            deleted : BOOLEAN]
NoWatcher == [pc |-> "none", settled |-> FALSE, deleted |-> FALSE]

Steps == {"idle", "restore", "sweep", "listed", "launch", "write", "seed", "submit", "record", "arm",
          "create", "unsubmit", "await", "settle", "created", "check", "test", "run",
          "look", "stop", "pane", "delete", "gone", "land", "ended", "wip", "clear",
          "act", "imported", "move", "moved", "remove", "removed", "finish"}
Job == [pc : Steps, todo : SUBSET Sessions, then : {"idle", "listed", "launch"}, why : EndCauses,
        lifetime : BOOLEAN, proof : BOOLEAN, settled : BOOLEAN, alive : BOOLEAN, kept : BOOLEAN]
Idle == [pc |-> "idle", todo |-> {}, then |-> "idle", why |-> "none", lifetime |-> FALSE,
         proof |-> FALSE, settled |-> FALSE, alive |-> FALSE, kept |-> TRUE]
Go(pc) == job' = [job EXCEPT !.pc = pc]

Trouble(kind) == kind \in Happens /\ troubles < MaxTroubles /\ troubles' = troubles + 1
Calm == UNCHANGED troubles

------------------------------
(* What the code reads. *)

\* creates.settled and creates.gone.
Settled(e) == e.how # "none"
Gone(e) == e.how = "never" \/ (Settled(e) /\ e.gone)

\* creates.Ledger.names: every generation with a file left.
Names == {g \in Sessions : led[g].sub \/ Settled(led[g]) \/ led[g].gone}

\* creates.Ledger.put of evidence: the first writer wins, and a cleaned entry is not resurrected.
PutSettled(e, how) == IF e.how = "none" /\ e.sub THEN [e EXCEPT !.how = how] ELSE e
PutGone(e) == IF e.sub \/ Settled(e) THEN [e EXCEPT !.gone = TRUE] ELSE e

\* creates.Ledger.close_notice: an open alert is closed before the watcher retires.
CloseNotice(e) == IF e.alert = "open" THEN [e EXCEPT !.alert = "closed"] ELSE e

\* SandboxRuntime._recover_create, for the entry of generation g.
RecoverCreate(g) ==
    IF rec.phase = "none" \/ rec.gen # g THEN led[g]
    ELSE IF rec.created THEN PutSettled(led[g], "returned")
    ELSE IF ~rec.begun THEN PutSettled(led[g], "never")
    ELSE led[g]

\* SandboxRuntime._alive.
Alive == rec.gen \in box /\ pane = "live"

\* SandboxRuntime._overdue.
Overdue == rec.started /\ due[rec.gen] >= 2

\* SandboxRuntime._running: something may still write the session's directory.
SessionRunning ==
    \/ \E g \in Names : ~Gone(led[g])
    \/ pane # "none" \/ box # {}
    \/ \E g \in Sessions : watch[g].pc # "none"

\* The private git directory: its tip can be read and checked; it is a fast-forward of the landed one.
TipReadable == git \in {"clean", "ahead", "diverged"}
Landable == git \in {"clean", "ahead"}

\* Host git that refuses or fails on the pinned directories.
GitFails == Trouble("git")

\* gitwip.wip_commit: a commit that carries the mark is found again, never made twice.
WipCommitted(g) == [wip EXCEPT ![g] = 1]

\* The retained evidence of a deadline end: the reaper's marker, or the receipt made of it.
Evidence == rec.gen \in markers \cup receipts

\* Mutant: a dead session is a death, whatever the reaper recorded.
CauseUnmarked(alive, marked) ==
    IF job.why = "refused" THEN "refused"
    ELSE IF job.proof THEN "lifetime"
    ELSE IF rec.phase = "running" /\ job.why \in {"stopped", "lifetime"} /\ alive THEN job.why
    ELSE "died"

\* SandboxRuntime._cause and _reaped_live: liveness was read first, the marker after it.
Cause(alive, marked) ==
    IF job.proof THEN "lifetime"
    ELSE IF job.why = "refused" THEN "refused"
    ELSE IF rec.phase = "running" /\ job.why \in {"stopped", "lifetime"} /\ alive THEN job.why
    ELSE IF rec.phase = "running" /\ marked THEN "lifetime"
    ELSE "died"

------------------------------
(* SandboxRuntime._restore_creates: every entry protected again, finished ones cleaned up. *)

\* An operation ends, or an error leaves it: RuntimeUnavailable, LaunchFailed.
Done == job' = Idle

\* A failed step of a launch ends the generation as refused (SandboxRuntime._fail).
Fail == job' = [Idle EXCEPT !.pc = "look", !.why = "refused"]

SessionsBegin ==
    /\ wsdUp /\ job = Idle
    /\ job' = [Idle EXCEPT !.pc = "restore", !.todo = Names, !.then = "listed"]
    /\ UNCHANGED <<store, world, watch, wsdUp, last, history, troubles>>

\* The lane listed the sessions before it launches, so no resolve is unfinished.
LaunchBegin ==
    /\ wsdUp /\ job = Idle /\ last < MaxSessions /\ intent.step = "none"
    /\ job' = [Idle EXCEPT !.pc = "restore", !.todo = Names, !.then = "launch"]
    /\ UNCHANGED <<store, world, watch, wsdUp, last, history, troubles>>

RestoreDone ==
    /\ job.pc = "restore" /\ job.todo = {}
    /\ Go(job.then)
    /\ UNCHANGED <<store, world, watch, wsdUp, last, history, troubles>>

\* SandboxRuntime._cleanup_create and Ledger.cleanup, which unlinks the settlement last.
CleanUp(g, entries) ==
    IF watch[g].pc # "none" THEN led' = entries /\ UNCHANGED <<wsdUp, troubles>>
    ELSE \/ led' = [entries EXCEPT ![g] = NoEntry] /\ UNCHANGED <<wsdUp, troubles>>
         \/ /\ led' = [entries EXCEPT ![g] = [NoEntry EXCEPT !.how = entries[g].how]]
            /\ wsdUp' = FALSE /\ Trouble("crash")

\* ... the next step of a restore, unless the clean-up was interrupted.
NextEntry(g) ==
    job' = IF wsdUp' THEN [job EXCEPT !.pc = "restore", !.todo = @ \ {g}] ELSE Idle

RestoreArms ==
    /\ job.pc = "restore" /\ job.todo # {}
    /\ LET g == Min(job.todo)
           e == RecoverCreate(g)
       IN  \/ /\ Gone(e)
              /\ CleanUp(g, [led EXCEPT ![g] = CloseNotice(e)])
              /\ NextEntry(g)
              /\ UNCHANGED watch
           \/ /\ ~Gone(e)
              /\ led' = [led EXCEPT ![g] = e]
              /\ \/ /\ Calm
                    /\ watch' = IF e.sub /\ watch[g].pc = "none"
                                THEN [watch EXCEPT ![g].pc = "wait"] ELSE watch
                    /\ job' = IF rec.phase = "none" \/ rec.gen # g \/ rec.phase = "ended"
                              THEN [job EXCEPT !.pc = "sweep", !.settled = Settled(e)]
                              ELSE [job EXCEPT !.todo = @ \ {g}]
                 \/ Trouble("arm") /\ e.sub /\ watch[g].pc = "none" /\ Done /\ UNCHANGED watch
              /\ UNCHANGED wsdUp
    /\ UNCHANGED <<rec, markers, receipts, intent, world, last, history>>

\* The sandbox of an earlier generation is deleted; `before' is what the ledger said before the delete.
RestoreSweeps ==
    /\ job.pc = "sweep"
    /\ LET g == Min(job.todo)
           e == IF job.settled THEN PutGone(led[g]) ELSE led[g]
       IN  \/ /\ box' = box \ {g}
              /\ IF Gone(e) THEN CleanUp(g, [led EXCEPT ![g] = CloseNotice(e)])
                 ELSE led' = [led EXCEPT ![g] = e] /\ UNCHANGED <<wsdUp, troubles>>
              /\ NextEntry(g)
           \/ Trouble("backend") /\ Done /\ UNCHANGED <<box, led, wsdUp>>
    /\ UNCHANGED <<rec, markers, receipts, intent, out, pane, due, git, fate, wip, trash, watch, last,
                   history>>

------------------------------
(* sessions, stop, expire and reconcile_session, which end sessions. *)

End(why, lifetime, proof, then) ==
    job' = [Idle EXCEPT !.pc = "look", !.why = why, !.lifetime = lifetime, !.proof = proof, !.then = then]

\* sessions: a live session is served again; any other that has not ended is ended.
Listed ==
    /\ job.pc = "listed"
    /\ IF rec.phase \in {"none", "ended"} \/ (rec.phase = "running" /\ Alive) THEN Done
       ELSE End("died", Overdue, FALSE, "idle")
    /\ UNCHANGED <<store, world, watch, wsdUp, last, history, troubles>>

Stop ==
    /\ wsdUp /\ job = Idle /\ rec.phase \notin {"none", "ended"}
    /\ End("stopped", FALSE, FALSE, "idle")
    /\ UNCHANGED <<store, world, watch, wsdUp, last, history, troubles>>

\* A session near its deadline is stopped at a turn boundary, at its deadline in any case.
Expire ==
    /\ wsdUp /\ job = Idle /\ rec.phase # "none"
    /\ \/ rec.phase = "ended" /\ rec.mark /\ job' = [Idle EXCEPT !.pc = "wip"]
       \/ rec.phase # "ended" /\ rec.lifetime /\ End("lifetime", TRUE, FALSE, "idle")
       \/ rec.phase = "running" /\ due[rec.gen] >= 1 /\ End("lifetime", TRUE, FALSE, "idle")
    /\ UNCHANGED <<store, world, watch, wsdUp, last, history, troubles>>

\* reconcile_session: the retained marker becomes a receipt before the end that rests on it.
SandboxReconcile ==
    /\ wsdUp /\ job = Idle /\ rec.seeded /\ ~rec.unlanded /\ rec.started /\ intent.step = "none"
    /\ \/ /\ rec.phase = "running" /\ ~Alive /\ (pane = "dead" \/ (pane = "none" /\ rec.gen \in receipts))
          /\ Evidence
          /\ receipts' = receipts \cup {rec.gen}
          /\ End("lifetime", TRUE, TRUE, "idle")
       \/ /\ rec.phase = "stopping" /\ rec.gen \in receipts /\ rec.lifetime /\ rec.cause = "lifetime"
          /\ End("lifetime", TRUE, TRUE, "idle") /\ UNCHANGED receipts
       \/ /\ rec.phase = "ended" /\ rec.gen \in receipts /\ rec.mark /\ rec.cause = "lifetime" /\ ~SessionRunning
          /\ job' = [Idle EXCEPT !.pc = "wip"] /\ UNCHANGED receipts
    /\ UNCHANGED <<rec, led, markers, intent, world, watch, wsdUp, last, history, troubles>>

\* settle_sandbox: the operator accepts the risk of a late create.
SettleSandbox ==
    /\ wsdUp /\ job = Idle
    /\ \E g \in Sessions :
        /\ led[g].sub /\ ~Settled(led[g]) /\ due[g] = 3 /\ g \notin box
        /\ led' = [led EXCEPT ![g].how = "operator"]
        /\ accepted' = accepted \cup {g}
    /\ UNCHANGED <<rec, markers, receipts, intent, world, watch, job, wsdUp, last, owed, died, confirmed, unmarked,
                   resolved, troubles>>

------------------------------
(* SandboxRuntime.launch and _start. *)

\* Mutant: a launch does not settle the WIP commit that the last generation owes.
LaunchUnsettled ==
    /\ job.pc = "launch"
    /\ IF rec.phase = "none" /\ git # "none" THEN Done
       ELSE IF rec.phase = "running" /\ Alive THEN Done
       ELSE IF rec.phase \notin {"none", "ended"} THEN End("died", Overdue, FALSE, "launch")
       ELSE IF rec.unlanded THEN Done
       ELSE Go("write")
    /\ UNCHANGED <<store, world, watch, wsdUp, last, history, troubles>>

\* An earlier generation is ended and settled first; its unlanded commits or an owed commit refuse.
Launch ==
    /\ job.pc = "launch"
    /\ IF rec.phase = "none" /\ git # "none" THEN Done
       ELSE IF rec.phase = "running" /\ Alive THEN Done
       ELSE IF rec.phase \notin {"none", "ended"} THEN End("died", Overdue, FALSE, "launch")
       ELSE IF rec.unlanded THEN Done
       ELSE IF rec.mark THEN job' = [job EXCEPT !.pc = "wip", !.then = "launch"]
       ELSE Go("write")
    /\ UNCHANGED <<store, world, watch, wsdUp, last, history, troubles>>

\* What can refuse a launch: the resumable state, the verified install, the login's key and freshness.
ResumeRefused == Trouble("refuse")
InstallRefused == Trouble("refuse")
LoginRefused == Trouble("refuse")

\* The checks of login, install and branch, then the new generation's record.
LaunchWrites ==
    /\ job.pc = "write"
    /\ \/ /\ rec' = [NoRecord EXCEPT !.gen = last + 1, !.phase = "creating"]
          /\ last' = last + 1 /\ markers' = {}
          /\ died' = {} /\ confirmed' = {} /\ unmarked' = {}
          /\ Go("seed") /\ Calm
       \/ /\ ResumeRefused \/ InstallRefused \/ LoginRefused
          /\ Done /\ UNCHANGED <<rec, last, markers, died, confirmed, unmarked>>
    /\ UNCHANGED <<led, receipts, intent, world, watch, wsdUp, owed, past>>

\* The commits of every earlier generation that only the private directory held go with it.
Dropped(kind) == [g \in Sessions |-> IF fate[g] = "private" THEN kind ELSE fate[g]]

\* sessiongit.seed, after the session's server started.
Seed ==
    /\ job.pc = "seed"
    /\ \/ git' = "clean" /\ fate' = Dropped("lost") /\ Go("submit") /\ Calm
       \/ Trouble("refuse") /\ Fail /\ UNCHANGED <<git, fate>>
    /\ UNCHANGED <<store, box, out, pane, due, wip, trash, watch, wsdUp, last, history>>

\* Mutant: a submission that can't be written does not stop the launch.
SubmitAnyway ==
    /\ job.pc = "submit" /\ Go("record")
    /\ \/ led' = [led EXCEPT ![rec.gen].sub = TRUE] /\ Calm
       \/ Trouble("fault") /\ UNCHANGED led
    /\ UNCHANGED <<rec, markers, receipts, intent, world, watch, wsdUp, last, history>>

\* The submission is in the ledger before the record says that a create is possible.
Submit ==
    /\ job.pc = "submit"
    /\ \/ led' = [led EXCEPT ![rec.gen].sub = TRUE] /\ Go("record") /\ Calm
       \/ Trouble("fault") /\ Fail /\ UNCHANGED led
    /\ UNCHANGED <<rec, markers, receipts, intent, world, watch, wsdUp, last, history>>

\* A record write of the launch, which can fail.
Writes(pc, next, new) ==
    /\ job.pc = pc
    /\ \/ rec' = new /\ Go(next) /\ Calm
       \/ Trouble("fault") /\ Fail /\ UNCHANGED rec
    /\ UNCHANGED <<led, markers, receipts, intent, world, watch, wsdUp, last, history>>

RecordCreate == Writes("record", "arm", [rec EXCEPT !.seeded = TRUE, !.begun = TRUE])

\* SandboxRuntime._arm: a ready receipt and a live pane, or the launch fails.
Arm ==
    /\ job.pc = "arm"
    /\ \/ /\ watch' = IF watch[rec.gen].pc = "none" THEN [watch EXCEPT ![rec.gen].pc = "wait"] ELSE watch
          /\ Go("create") /\ Calm
       \/ Trouble("arm") /\ Fail /\ UNCHANGED watch
    /\ UNCHANGED <<store, world, wsdUp, last, history>>

\* backend.create, unless the deadline has passed: then the create is settled as never submitted.
Create ==
    /\ job.pc = "create"
    /\ IF due[rec.gen] >= 2
       THEN /\ led' = [led EXCEPT ![rec.gen] = PutSettled(@, "never")]
            /\ Go("unsubmit") /\ UNCHANGED out
       ELSE out' = out \cup {rec.gen} /\ Go("await") /\ UNCHANGED led
    /\ UNCHANGED <<rec, markers, receipts, intent, box, pane, due, git, fate, wip, trash, watch, wsdUp, last,
                   history, troubles>>

Unsubmit ==
    /\ job.pc = "unsubmit"
    /\ rec' = [rec EXCEPT !.begun = FALSE] /\ Fail
    /\ UNCHANGED <<led, markers, receipts, intent, world, watch, wsdUp, last, history, troubles>>

\* The create returns once the gateway made the sandbox; an error says nothing of what it will do.
Await ==
    /\ job.pc = "await"
    /\ \/ rec.gen \notin out /\ Go("settle") /\ Calm
       \/ Trouble("backend") /\ Fail
    /\ UNCHANGED <<store, world, watch, wsdUp, last, history>>

\* Even if this write is lost, the record's `created' repairs it on recovery.
SettleCreate ==
    /\ job.pc = "settle" /\ Go("created")
    /\ \/ led' = [led EXCEPT ![rec.gen] = PutSettled(@, "returned")] /\ Calm
       \/ Trouble("fault") /\ UNCHANGED led
    /\ UNCHANGED <<rec, markers, receipts, intent, world, watch, wsdUp, last, history>>

RecordCreated == Writes("created", "check", [rec EXCEPT !.created = TRUE])

\* A login that changed, or a sandbox that exists only past its deadline, is ended at once.
CheckCreated ==
    /\ job.pc = "check"
    /\ \/ /\ due[rec.gen] < 2 /\ rec' = [rec EXCEPT !.phase = "testing"] /\ Go("test") /\ Calm
       \/ due[rec.gen] >= 2 /\ Fail /\ UNCHANGED <<rec, troubles>>
       \/ LoginRefused /\ Fail /\ UNCHANGED rec
    /\ UNCHANGED <<led, markers, receipts, intent, world, watch, wsdUp, last, history>>

\* The self-test, then the pane of the agent.
Test ==
    /\ job.pc = "test"
    /\ \/ /\ rec' = [rec EXCEPT !.phase = "starting"]
          /\ pane' = IF rec.gen \in box THEN "live" ELSE "dead"
          /\ Go("run") /\ Calm
       \/ Trouble("refuse") /\ Fail /\ UNCHANGED <<rec, pane>>
    /\ UNCHANGED <<led, markers, receipts, intent, box, out, due, git, fate, wip, trash, watch, wsdUp, last,
                   history>>

\* The agent answered its own self-test, and a full stop margin is left.
Run ==
    /\ job.pc = "run"
    /\ \/ /\ due[rec.gen] = 0 /\ Alive
          /\ rec' = [rec EXCEPT !.phase = "running", !.started = TRUE] /\ Done /\ Calm
       \/ (due[rec.gen] > 0 \/ ~Alive) /\ Fail /\ UNCHANGED <<rec, troubles>>
       \/ Trouble("refuse") /\ Fail /\ UNCHANGED rec
    /\ UNCHANGED <<led, markers, receipts, intent, world, watch, wsdUp, last, history>>

------------------------------
(* SandboxRuntime._end. *)

\* The settlement and the session's liveness, read before anything is stopped.
EndLooks ==
    /\ job.pc = "look"
    /\ LET e == RecoverCreate(rec.gen)
       IN  /\ led' = [led EXCEPT ![rec.gen] = e]
           /\ job' = [job EXCEPT !.pc = "stop", !.settled = Settled(e), !.alive = Alive]
    /\ UNCHANGED <<rec, markers, receipts, intent, world, watch, wsdUp, last, history, troubles>>

\* One write: stopping, what a lifetime stop owes, and the cause, once.
Stopping ==
    LET life == job.lifetime \/ rec.lifetime
    IN  [rec EXCEPT !.phase = "stopping", !.lifetime = life, !.mark = @ \/ life,
            !.cause = IF @ = "none" THEN Cause(job.alive, rec.gen \in markers) ELSE @]

\* A healthy cause that can't be written stops nothing; any other end goes on without its record.
EndWrites ==
    /\ job.pc = "stop"
    /\ \/ /\ rec' = Stopping /\ Go("pane") /\ Calm
          /\ owed' = IF Stopping.mark THEN owed \cup {rec.gen} ELSE owed
       \/ /\ Trouble("fault") /\ UNCHANGED <<rec, owed>>
          /\ IF rec.cause = "none" /\ Stopping.cause \in {"stopped", "lifetime"} THEN Done
             ELSE job' = [job EXCEPT !.pc = "pane", !.kept = FALSE]
    /\ UNCHANGED <<led, markers, receipts, intent, world, watch, wsdUp, last, died, confirmed, unmarked, past>>

\* SandboxRuntime._teardown: the socket and the pane ...
EndPane ==
    /\ job.pc = "pane" /\ pane' = "none" /\ Go("delete")
    /\ UNCHANGED <<store, box, out, due, git, fate, wip, trash, watch, wsdUp, last, history, troubles>>

\* ... then every sandbox of the key that the backend lists.
EndDeletes ==
    /\ job.pc = "delete"
    /\ \/ box' = {} /\ Calm /\ IF job.kept THEN Go("gone") ELSE Done
       \/ Trouble("backend") /\ Done /\ UNCHANGED box
    /\ UNCHANGED <<store, out, pane, due, git, fate, wip, trash, watch, wsdUp, last, history>>

\* Only a create settled before the delete is gone; then its watcher may go.
EndGone ==
    /\ job.pc = "gone" /\ Go("land")
    /\ LET e == IF job.settled THEN PutGone(led[rec.gen]) ELSE led[rec.gen]
       IN  /\ led' = [led EXCEPT ![rec.gen] = IF Gone(e) THEN CloseNotice(e) ELSE e]
           /\ watch' = IF Gone(e) THEN [watch EXCEPT ![rec.gen] = NoWatcher] ELSE watch
    /\ UNCHANGED <<rec, markers, receipts, intent, world, wsdUp, last, history, troubles>>

\* sessiongit.land fast-forwards the branch, or the session is unlanded and its directory kept.
EndLands ==
    /\ job.pc = "land" /\ Go("ended")
    /\ IF rec.unlanded \/ ~rec.seeded THEN UNCHANGED <<rec, git, fate, troubles>>
       ELSE \/ /\ Landable /\ git' = "clean" /\ Calm
               /\ fate' = IF git = "ahead" THEN Dropped("safe") ELSE fate
               /\ UNCHANGED rec
            \/ /\ rec' = [rec EXCEPT !.unlanded = TRUE] /\ UNCHANGED <<git, fate>>
               /\ IF Landable THEN GitFails ELSE Calm
    /\ UNCHANGED <<led, markers, receipts, intent, box, out, pane, due, wip, trash, watch, wsdUp, last,
                   history>>

\* The record says ended; the marker goes, since its cause is in the record now.
EndEnds ==
    /\ job.pc = "ended"
    /\ \/ /\ rec' = [rec EXCEPT !.phase = "ended"] /\ markers' = markers \ {rec.gen}
          /\ Go("wip") /\ Calm
       \/ Trouble("fault") /\ Done /\ UNCHANGED <<rec, markers>>
    /\ UNCHANGED <<led, receipts, intent, world, watch, wsdUp, last, history>>

\* What follows an end: a launch goes on, if the owed commit is settled.
Follow == IF job.then = "launch" THEN Go("launch") ELSE Done

\* SandboxRuntime._settle_wip and gitwip.wip_commit: one commit for the mark, found again by a replay.
Wip ==
    /\ job.pc = "wip"
    /\ IF ~rec.mark \/ rec.phase # "ended" \/ rec.unlanded THEN Follow /\ UNCHANGED <<wip, troubles>>
       ELSE \/ wip' = WipCommitted(rec.gen) /\ Go("clear") /\ Calm
            \/ GitFails /\ Done /\ UNCHANGED wip
    /\ UNCHANGED <<store, box, out, pane, due, git, fate, trash, watch, wsdUp, last, history>>

\* A lost write keeps the mark, for the next end, expiry or launch.
WipCleared ==
    /\ job.pc = "clear"
    /\ \/ rec' = [rec EXCEPT !.mark = FALSE] /\ Follow /\ Calm
       \/ Trouble("fault") /\ Done /\ UNCHANGED rec
    /\ UNCHANGED <<led, markers, receipts, intent, world, watch, wsdUp, last, history>>

------------------------------
(* resolve_unlanded: the operator lands, keeps or discards, then the directory goes. *)

Intents == [step : {"none", "confirmed", "imported", "moved", "removed"},
            act : {"none", "land", "keep", "discard"}]
NoIntent == [step |-> "none", act |-> "none"]

\* _can_land, _can_keep: the snapshot's tip must be readable, and a land a fast-forward.
Can(act) ==
    CASE act = "land" -> Landable
      [] act = "keep" -> TipReadable
      [] OTHER -> TRUE

Resolve ==
    /\ wsdUp /\ job = Idle /\ intent.step = "none"
    /\ rec.phase = "ended" /\ rec.unlanded /\ ~SessionRunning
    /\ \E act \in {"land", "keep", "discard"} :
        Can(act) /\ intent' = [step |-> "confirmed", act |-> act]
    /\ Go("act")
    /\ UNCHANGED <<rec, led, markers, receipts, world, watch, wsdUp, last, history, troubles>>

\* The same request again: where the intent and the filesystem say the last one stopped.
ResolveAgain ==
    /\ wsdUp /\ job = Idle /\ ~SessionRunning
    /\ Go(CASE intent.step \in {"confirmed", "imported"} /\ ~trash -> "act"
            [] intent.step = "imported" /\ trash -> "moved"
            [] intent.step = "moved" -> "remove"
            [] intent.step = "removed" -> "finish"
            [] OTHER -> "idle")
    /\ intent.step # "none"
    /\ UNCHANGED <<store, world, watch, wsdUp, last, history, troubles>>

\* _act: the import, made durable before it is recorded.
Act ==
    /\ job.pc = "act"
    /\ \/ /\ fate' = IF intent.act = "discard" THEN fate ELSE Dropped("safe")
          /\ Go("imported") /\ Calm
       \/ GitFails /\ Done /\ UNCHANGED fate
    /\ UNCHANGED <<store, box, out, pane, due, git, wip, trash, watch, wsdUp, last, history>>

\* A checkpoint of the intent, which can fail.
Checkpoint(pc, step, next) ==
    /\ job.pc = pc
    /\ \/ intent' = [intent EXCEPT !.step = step] /\ Go(next) /\ Calm
       \/ Trouble("fault") /\ Done /\ UNCHANGED intent
    /\ UNCHANGED <<rec, led, markers, receipts, world, watch, wsdUp, last, history>>

Imported == Checkpoint("imported", "imported", "move")
Moved == Checkpoint("moved", "moved", "remove")
Removed == Checkpoint("removed", "removed", "finish")

\* One rename takes the session's directory, its record with it, out of sight.
Move ==
    /\ job.pc = "move" /\ Go("moved")
    /\ rec' = NoRecord /\ markers' = {} /\ receipts' = {} /\ trash' = TRUE /\ git' = "none"
    /\ resolved' = resolved \cup {rec.gen}
    /\ UNCHANGED <<led, intent, box, out, pane, due, fate, wip, watch, wsdUp, last, owed, died, confirmed, unmarked,
                   accepted, troubles>>

RemoveTrash ==
    /\ job.pc = "remove" /\ Go("removed")
    /\ trash' = FALSE /\ fate' = Dropped(IF intent.act = "discard" THEN "safe" ELSE "lost")
    /\ UNCHANGED <<store, box, out, pane, due, git, wip, watch, wsdUp, last, history, troubles>>

\* finish_resolution, once the journal holds the resolve.
SessionFinish ==
    /\ job.pc = "finish" /\ intent' = NoIntent /\ Done
    /\ UNCHANGED <<rec, led, markers, receipts, world, watch, wsdUp, last, history, troubles>>

------------------------------
(* The watcher of a generation: reaper.reap. *)

WatcherGo(g, pc) == watch' = [watch EXCEPT ![g].pc = pc]

WatcherWakes(g) ==
    /\ watch[g].pc = "wait" /\ due[g] >= 2 /\ WatcherGo(g, "mark")
    /\ UNCHANGED <<store, world, job, wsdUp, last, history, troubles>>

\* reaper.mark_live, once, before the first kill.
WatcherMarks(g) ==
    /\ watch[g].pc = "mark" /\ WatcherGo(g, "look")
    /\ LET live == rec.gen = g /\ rec.phase = "running" /\ rec.started /\ rec.cause = "none" /\ Alive
       IN  \/ markers' = (IF live THEN markers \cup {g} ELSE markers) /\ Calm
           \/ live /\ Trouble("fault") /\ UNCHANGED markers
    /\ UNCHANGED <<rec, led, receipts, intent, world, job, wsdUp, last, history>>

\* The settlement must predate the delete that `gone' rests on.
WatcherLooks(g) ==
    /\ watch[g].pc = "look"
    /\ watch' = [watch EXCEPT ![g].pc = "kill", ![g].settled = Settled(led[g])]
    /\ UNCHANGED <<store, world, job, wsdUp, last, history, troubles>>

\* The containers are killed locally, so the agent's pane dies.
WatcherKills(g) ==
    /\ watch[g].pc = "kill" /\ WatcherGo(g, "delete")
    /\ IF g \in box /\ rec.gen = g /\ pane = "live"
       THEN /\ pane' = "dead"
            /\ unmarked' = IF g \in markers THEN unmarked ELSE unmarked \cup {g}
       ELSE UNCHANGED <<pane, unmarked>>
    /\ UNCHANGED <<store, box, out, due, git, fate, wip, trash, job, wsdUp, last, owed, died, confirmed, past, troubles>>

WatcherDeletes(g) ==
    /\ watch[g].pc = "delete"
    /\ \/ box' = box \ {g} /\ Calm /\ watch' = [watch EXCEPT ![g].pc = "write", ![g].deleted = TRUE]
       \/ /\ Trouble("backend") /\ UNCHANGED box
          /\ watch' = [watch EXCEPT ![g].pc = "write", ![g].deleted = FALSE]
    /\ UNCHANGED <<store, out, pane, due, git, fate, wip, trash, job, wsdUp, last, history>>

\* Mutant: what the ledger says now, not what it said before the delete.
WatcherWritesNow(g) ==
    /\ watch[g].pc = "write"
    /\ IF due[g] = 3 /\ watch[g].deleted /\ Settled(led[g])
       THEN led' = [led EXCEPT ![g] = CloseNotice(PutGone(@))] /\ watch' = [watch EXCEPT ![g] = NoWatcher]
       ELSE UNCHANGED led /\ WatcherGo(g, "look")
    /\ UNCHANGED <<rec, markers, receipts, intent, world, job, wsdUp, last, history, troubles>>

\* After the linger: an unsettled create is escalated, a settled and deleted one is gone.
WatcherWrites(g) ==
    /\ watch[g].pc = "write"
    /\ IF due[g] = 3 /\ watch[g].deleted /\ watch[g].settled
       THEN led' = [led EXCEPT ![g] = CloseNotice(PutGone(@))] /\ watch' = [watch EXCEPT ![g] = NoWatcher]
       ELSE /\ WatcherGo(g, "look")
            /\ led' = IF due[g] = 3 /\ ~watch[g].settled /\ led[g].sub /\ led[g].alert = "none"
                      THEN [led EXCEPT ![g].alert = "open"] ELSE led
    /\ UNCHANGED <<rec, markers, receipts, intent, world, job, wsdUp, last, history, troubles>>

------------------------------
(* The rest of the world. *)

\* The gateway makes the sandbox of a submitted create, however late.
CreateLands(g) ==
    /\ g \in out /\ out' = out \ {g} /\ box' = box \cup {g}
    /\ UNCHANGED <<store, pane, due, git, fate, wip, trash, watch, job, wsdUp, last, history, troubles>>

\* The agent commits in its private git directory, rewrites its history or damages it.
AgentCommits ==
    /\ rec.phase = "running" /\ Alive /\ git \in {"clean", "ahead"}
    /\ \/ git = "clean" /\ git' = "ahead" /\ Calm
       \/ git' = "diverged" /\ Trouble("diverge")
       \/ git' = "damaged" /\ Trouble("damage")
    /\ fate' = [fate EXCEPT ![rec.gen] = "private"]
    /\ UNCHANGED <<store, box, out, pane, due, wip, trash, watch, job, wsdUp, last, history>>

\* A session's end of its own, and whether the watcher or wsd had confirmed it alive before.
DiesItself ==
    IF rec.cause # "none" THEN UNCHANGED <<died, confirmed>>
    ELSE /\ died' = died \cup {rec.gen}
         /\ confirmed' = IF rec.gen \in markers \/ (job.pc = "stop" /\ job.alive)
                         THEN confirmed \cup {rec.gen} ELSE confirmed

AgentDies ==
    /\ pane = "live" /\ pane' = "dead" /\ Trouble("die") /\ DiesItself
    /\ UNCHANGED <<store, box, out, due, git, fate, wip, trash, watch, job, wsdUp, last, owed, unmarked, past>>

\* The deadlines of the generations pass in order.
Tick(g) ==
    /\ g <= last /\ (led[g].sub \/ due[g] > 0) /\ due[g] < 3
    /\ \A h \in Sessions : h < g => due[h] > due[g]
    /\ due' = [due EXCEPT ![g] = @ + 1]
    /\ UNCHANGED <<store, box, out, pane, git, fate, wip, trash, watch, job, wsdUp, last, history, troubles>>

WsdCrash ==
    /\ wsdUp /\ Trouble("crash") /\ wsdUp' = FALSE /\ job' = Idle
    /\ UNCHANGED <<store, world, watch, last, history>>

\* The host restarts: the tmux server's panes and watchers are gone with it.
Reboot ==
    /\ wsdUp /\ Trouble("reboot") /\ wsdUp' = FALSE /\ job' = Idle
    /\ watch' = [g \in Sessions |-> NoWatcher]
    /\ pane' = "none"
    /\ IF pane = "live" THEN DiesItself ELSE UNCHANGED <<died, confirmed>>
    /\ UNCHANGED <<store, box, out, due, git, fate, wip, trash, last, owed, unmarked, past>>

Restart ==
    /\ ~wsdUp /\ wsdUp' = TRUE
    /\ UNCHANGED <<store, world, watch, job, last, history, troubles>>

------------------------------
SandboxInit ==
    /\ rec = NoRecord /\ led = [g \in Sessions |-> NoEntry] /\ markers = {} /\ receipts = {}
    /\ intent = NoIntent /\ watch = [g \in Sessions |-> NoWatcher]
    /\ box = {} /\ out = {} /\ pane = "none" /\ due = [g \in Sessions |-> 0]
    /\ git = "none" /\ fate = [g \in Sessions |-> "safe"] /\ wip = [g \in Sessions |-> 0] /\ trash = FALSE
    /\ job = Idle /\ wsdUp = TRUE /\ last = 0
    /\ owed = {} /\ died = {} /\ confirmed = {} /\ unmarked = {} /\ accepted = {} /\ resolved = {}
    /\ troubles = 0

JobSteps ==
    \/ RestoreDone \/ RestoreArms \/ RestoreSweeps \/ Listed
    \/ Launch \/ LaunchWrites \/ Seed \/ Submit \/ RecordCreate \/ Arm \/ Create \/ Unsubmit \/ Await
    \/ SettleCreate \/ RecordCreated \/ CheckCreated \/ Test \/ Run
    \/ EndLooks \/ EndWrites \/ EndPane \/ EndDeletes \/ EndGone \/ EndLands \/ EndEnds \/ Wip \/ WipCleared
    \/ Act \/ Imported \/ Move \/ Moved \/ RemoveTrash \/ Removed \/ SessionFinish
Operations ==
    SessionsBegin \/ LaunchBegin \/ Stop \/ Expire \/ SandboxReconcile \/ SettleSandbox \/ Resolve \/ ResolveAgain
WatcherSteps(g) ==
    \/ WatcherWakes(g) \/ WatcherMarks(g) \/ WatcherLooks(g) \/ WatcherKills(g) \/ WatcherDeletes(g)
    \/ WatcherWrites(g)
SessionWorld ==
    \/ \E g \in Sessions : CreateLands(g) \/ Tick(g)
    \/ AgentCommits \/ AgentDies \/ WsdCrash \/ Reboot \/ Restart
SandboxNext == JobSteps \/ Operations \/ (\E g \in Sessions : WatcherSteps(g)) \/ SessionWorld

SandboxSpec == SandboxInit /\ [][SandboxNext]_sandboxVars

------------------------------
(* Properties. *)

\* A create that the ledger calls gone has no sandbox and can't make one any more: `gone' is written only
\* from a settlement that was read before the confirmed delete (reaper.reap, _end, _restore_creates).
\* Only the operator's settlement accepts that risk.
GoneIsGone == \A g \in Sessions \ accepted : Gone(led[g]) => g \notin box \cup out

\* Every sandbox that exists or may still be made is in the create ledger, whatever crash came between
\* the submission, the record, the watcher and the create: the next restore watches it again.
NoneUntracked == \A g \in Sessions \ accepted : g \in box \cup out => led[g].sub \/ Settled(led[g])

\* The cause that SandboxRuntime._end records is what happened: a session called dead died by itself, or
\* was killed by a watcher that could not mark it; one called stopped or at its lifetime was confirmed
\* alive by wsd or the watcher.
EndCauseTrue ==
    rec.started =>
        /\ rec.cause = "died" => rec.gen \in died \cup unmarked
        /\ rec.cause \in {"stopped", "lifetime"} /\ rec.gen \in died => rec.gen \in confirmed

\* A lifetime stop's WIP commit lands before the next generation, whatever crash or failure came between
\* the end, the commit and the record; only a resolve drops it.
LifetimeWipLands == \A g \in Sessions : g \in owed /\ last > g => wip[g] = 1 \/ g \in resolved

\* Commits of a session are never removed unless they landed, were kept, or the operator discarded them:
\* neither a new generation's seed nor a resolve, interrupted anywhere, loses one.
NoCommitLost == \A g \in Sessions : fate[g] # "lost"
==============================
