---------------------------- MODULE PairedBackup ----------------------------
(***************************************************************************)
(* The paired backup of wsd: the host's own (native) backup counts a cycle *)
(* and notifies wsd once; wsd copies its two databases beside it.          *)
(*   backup_pairing.py  the counter and the native attempt                 *)
(*   daemon.py          maintenance_request, one admission at a time       *)
(*   effect_owner.py    the writer lane (FIFO, owns the store), the copier *)
(*   effects.py         the backup_cycle row                               *)
(*   backup_cycles.py   the bundle on disk, its recovery and its retention *)
(*                                                                         *)
(* `row' and `bundles' survive a crash; lane, copier, store and cache do   *)
(* not.  A bundle is scratch until its manifest is sealed.  Time is in     *)
(* ticks of the wall clock, which may be set back.                         *)
(***************************************************************************)
EXTENDS Integers, Sequences, FiniteSets

CONSTANTS
    MaxCycles,      \* bound: native cycles counted
    MaxCrashes,     \* bound: crashes of wsd
    MaxStops,       \* bound: orderly stops of wsd
    MaxFaults,      \* bound: failures of one write, copy or verification
    MaxTime,        \* bound: the wall clock
    MaxBack,        \* bound: how often the clock is set back
    MaxDelivered,   \* bound: companion requests that reach wsd
    MaxForeign,     \* bound: unknown artifacts in the bundles' directory
    Inventory,      \* the directory is full at this many entries (256)
    DayTicks,       \* ticks of a day
    DaysKept,       \* days with a daily bundle kept (7)
    WeekDays,       \* days of a week (7)
    WeekSpan        \* days covered by weekly bundles (28)

ASSUME BoundsAssumption ==
    /\ MaxCycles \in Nat /\ MaxCrashes \in Nat /\ MaxStops \in Nat /\ MaxFaults \in Nat
    /\ MaxTime \in Nat /\ MaxBack \in Nat /\ MaxDelivered \in Nat /\ MaxForeign \in Nat
ASSUME CalendarAssumption ==
    /\ Inventory \in Nat \ {0} /\ DayTicks \in Nat \ {0} /\ DaysKept \in Nat
    /\ WeekDays \in Nat \ {0} /\ WeekSpan \in Nat

VARIABLES
    counter,    \* the native owner's cycle counter file
    native,     \* the native attempt under way: its cycle, 0 unpaired, -1 none
    results,    \* history: what each cycle's native attempt ended with
    notices,    \* companion requests sent; any of them may arrive late, twice or never
    row,        \* effect store: the backup_cycle row
    bundles,    \* the bundles on disk
    foreign,    \* unknown artifacts beside them, which nothing removes
    up,         \* wsd runs
    closing,    \* EffectOwner.close has begun
    store,      \* the effect store is open
    cache,      \* EffectOwner.cache.state
    lane,       \* jobs of the writer thread, in order
    copier,     \* the job of the copy thread
    clock,      \* wall clock
    stranded,   \* history: a failed open or write of this process left a pending cycle without a worker
    queued,     \* history: the cycles answered "queued", in order
    crashes, stops, faults, back, delivered

onDisk   == <<row, bundles>>
process  == <<up, closing, store, cache, lane, copier, stranded>>
host     == <<counter, native, results, notices>>
budgets  == <<crashes, stops, faults, back, delivered>>
vars     == <<host, onDisk, process, clock, foreign, queued, budgets>>

Cycles   == 1 .. MaxCycles
Statuses == {"succeeded", "failed", "unknown"}       \* NativeStatus
NoCopy   == [kind |-> "idle"]

------------------------------
(* Retention: what `retain' keeps of the sealed bundles, read when it is *)
(* `now', while `current' is the attempt being made.                     *)
DayOf(t)   == t \div DayTicks
Monday(d)  == d - (d % WeekDays)
Sealed     == {b \in bundles : b.sealed}
IsNative(b) == b.native = "succeeded"

\* successes.sort(reverse=True): by completion, then by directory name
Newer(a, b) == a.done > b.done \/ (a.done = b.done /\ a.attempt > b.attempt)
First(S)    == {b \in S : \A a \in S \ {b} : Newer(b, a)}

\* verified bundles of the past, the one being made left alone
Verified(now, current) == {b \in Sealed : b.attempt # current /\ b.done <= now}

\* mutant of Daily: one bundle a day, native success or not
DailyMerged(S, now) ==
    UNION {First({b \in S : DayOf(b.done) = d}) : d \in {e \in 0 .. DayOf(now) : DayOf(now) - e < DaysKept}}
Daily(S, now) ==
    UNION {First({b \in S : DayOf(b.done) = d /\ IsNative(b) = n}) :
              d \in {e \in 0 .. DayOf(now) : DayOf(now) - e < DaysKept}, n \in BOOLEAN}
Weekly(S, now) ==
    UNION {First({b \in S : Monday(DayOf(b.done)) = Monday(d) /\ IsNative(b) = n}) :
              d \in {e \in 0 .. DayOf(now) : Monday(DayOf(now)) - Monday(e) < WeekSpan}, n \in BOOLEAN}
Kept(S, now) == First(S) \cup First({b \in S : IsNative(b)}) \cup Daily(S, now) \cup Weekly(S, now)

Pruned(now, current) == LET S == Verified(now, current) IN S \ Kept(S, now)

------------------------------
(* The native owner: paired_attempt and its counter. *)
\* _next_cycle: counted; or not counted because the file is locked or unreadable; or written, and the
\* write reported as failed.  Uncounted, the native attempt runs all the same, unpaired.
NativeStart ==
    /\ native = -1 /\ counter < MaxCycles
    /\ \/ counter' = counter + 1 /\ native' = counter + 1
       \/ counter' \in {counter, counter + 1} /\ native' = 0
    /\ UNCHANGED <<results, notices, onDisk, process, clock, foreign, queued, budgets>>

\* The attempt ends; an exception counts as failed.  The companion is asked once, if the cycle is counted.
NativeEnd(status) ==
    /\ native \in 0 .. MaxCycles
    /\ native' = -1
    /\ IF native = 0 THEN UNCHANGED <<results, notices>>
       ELSE /\ results' = [results EXCEPT ![native] = status]
            /\ notices' = notices \cup {[cycle |-> native, native |-> status]}
    /\ UNCHANGED <<counter, onDisk, process, clock, foreign, queued, budgets>>

\* BaseException: the owner is shut down, nothing is notified.
NativeDies ==
    /\ native \in 0 .. MaxCycles
    /\ native' = -1
    /\ UNCHANGED <<counter, results, notices, onDisk, process, clock, foreign, queued, budgets>>

------------------------------
(* The store's row. *)
Pending  == row.cycle # 0
Companion == row.state = "partial" /\ row.attempt # 0 /\ row.sha

\* mutant of Answer: only the latest cycle is remembered
AnswerReplays(c) ==
    IF Pending THEN IF row.cycle = c THEN "joined" ELSE "unresolved"
    ELSE IF c = row.high THEN IF row.state = "succeeded" \/ Companion THEN "completed" ELSE row.state
    ELSE "queued"

\* begin_backup: the answer, and the row it leaves
Answer(c) ==
    IF Pending THEN IF row.cycle = c THEN "joined" ELSE "unresolved"
    ELSE IF c < row.high THEN "result_unavailable"
    ELSE IF c = row.high THEN IF row.state = "succeeded" \/ Companion THEN "completed" ELSE row.state
    ELSE "queued"
Begun(c, n) == [high |-> row.high, cycle |-> c, native |-> n, state |-> "copying", attempt |-> 0, sha |-> FALSE]

\* finish_backup
Finished(status, attempt, sha) ==
    [high |-> row.cycle, cycle |-> 0, native |-> row.native, state |-> status, attempt |-> attempt, sha |-> sha]

------------------------------
(* The writer lane. *)
Running(job) == up /\ lane # <<>> /\ Head(lane).job = job
Fault        == faults < MaxFaults /\ faults' = faults + 1
Settle(c, status, attempt, sha) ==
    [job |-> "settle", cycle |-> c, status |-> status, attempt |-> attempt, sha |-> sha]

\* maintenance_request: refused unless wsd admits, the store is not in error and no admission is pending
Receive(m) ==
    /\ up /\ ~closing /\ cache # "error" /\ delivered < MaxDelivered
    /\ ~ \E i \in DOMAIN lane : lane[i].job \in {"admit", "attempt"}
    /\ lane' = Append(lane, [job |-> "admit", cycle |-> m.cycle, native |-> m.native])
    /\ delivered' = delivered + 1
    /\ UNCHANGED <<host, onDisk, up, closing, store, cache, copier, stranded, clock, foreign, queued,
                   crashes, stops, faults, back>>

Boot ==
    /\ ~up
    /\ up' = TRUE /\ closing' = FALSE /\ store' = FALSE /\ cache' = "unready"
    /\ lane' = <<[job |-> "open"]>> /\ copier' = NoCopy /\ stranded' = FALSE
    /\ UNCHANGED <<host, onDisk, clock, foreign, queued, budgets>>

\* EffectStore(): a cycle found pending becomes uncertain
OpenMarks ==
    /\ Running("open")
    /\ row' = IF Pending THEN [row EXCEPT !.state = "uncertain"] ELSE row
    /\ store' = TRUE /\ cache' = "ready"
    /\ lane' = [lane EXCEPT ![1] = [job |-> "recover"]]
    /\ UNCHANGED <<host, bundles, up, closing, copier, stranded, clock, foreign, queued, budgets>>

\* a store that is missing, foreign or corrupt holds effects
OpenFails ==
    /\ Running("open") /\ Fault
    /\ cache' = "error" /\ lane' = Tail(lane) /\ stranded' = TRUE
    /\ UNCHANGED <<host, onDisk, up, closing, store, copier, clock, foreign, queued,
                   crashes, stops, back, delivered>>

\* the rest of _open: verify the recorded attempt on the copy thread, or fail the cycle
OpenRecovers ==
    /\ Running("recover")
    /\ lane' = Tail(lane)
    /\ \/ /\ Pending /\ row.attempt # 0
          /\ copier' = [kind |-> "verify", cycle |-> row.cycle, native |-> row.native,
                        attempt |-> row.attempt, at |-> "begin"]
          /\ UNCHANGED <<row, cache, stranded>>
       \/ /\ Pending /\ row.attempt # 0 /\ closing      \* the copy thread is shut down already
          /\ cache' = "error" /\ stranded' = TRUE
          /\ UNCHANGED <<row, copier>>
       \/ /\ Pending /\ row.attempt = 0
          /\ row' = Finished("failed", 0, FALSE)
          /\ UNCHANGED <<copier, cache, stranded>>
       \/ /\ ~Pending
          /\ UNCHANGED <<row, copier, cache, stranded>>
    /\ UNCHANGED <<host, bundles, up, closing, store, clock, foreign, queued, budgets>>

\* EffectOwner.backup: the store answers
AdmitBegins ==
    /\ Running("admit")
    /\ LET j == Head(lane) IN
       IF store /\ Answer(j.cycle) = "queued"
       THEN /\ row' = Begun(j.cycle, j.native)
            /\ queued' = Append(queued, j.cycle)
            /\ lane' = [lane EXCEPT ![1] = [job |-> "attempt", cycle |-> j.cycle, native |-> j.native]]
            /\ UNCHANGED cache
       ELSE /\ lane' = Tail(lane)
            /\ cache' = IF store THEN "ready" ELSE cache
            /\ UNCHANGED <<row, queued>>
    /\ UNCHANGED <<host, bundles, up, closing, store, copier, stranded, clock, foreign, budgets>>

\* new_attempt: a name no earlier attempt has
Fresh == Len(queued)

\* ... and a fresh attempt is recorded and handed to the copy thread, unless that is shut down
AdmitAttempts ==
    /\ Running("attempt")
    /\ lane' = Tail(lane)
    /\ row' = [row EXCEPT !.attempt = Fresh]
    /\ \/ /\ copier' = [kind |-> "copy", cycle |-> row.cycle, native |-> row.native,
                        attempt |-> Fresh, at |-> "begin"]
          /\ cache' = "ready"
          /\ UNCHANGED stranded
       \/ closing /\ stranded' = TRUE /\ UNCHANGED <<copier, cache>>
    /\ UNCHANGED <<host, bundles, up, closing, store, clock, foreign, queued, budgets>>

AttemptFails ==
    /\ Running("attempt") /\ Fault
    /\ lane' = Tail(lane) /\ stranded' = TRUE
    /\ UNCHANGED <<host, onDisk, up, closing, store, cache, copier, clock, foreign, queued,
                   crashes, stops, back, delivered>>

\* _settle's write: finish_backup, refused when another cycle is pending
SettleWrites ==
    /\ Running("settle")
    /\ lane' = Tail(lane)
    /\ LET j == Head(lane) IN
       \/ /\ store /\ row.cycle = j.cycle
          /\ row' = Finished(j.status, j.attempt, j.sha)
          /\ cache' = "ready"
       \/ /\ store /\ row.cycle # j.cycle
          /\ cache' = "error"
          /\ UNCHANGED row
    /\ UNCHANGED <<host, bundles, up, closing, store, copier, stranded, clock, foreign, queued, budgets>>

SettleFails ==
    /\ Running("settle") /\ Fault
    /\ lane' = Tail(lane) /\ cache' = "error" /\ stranded' = TRUE
    /\ UNCHANGED <<host, onDisk, up, closing, store, copier, clock, foreign, queued,
                   crashes, stops, back, delivered>>

\* the health sample: a store that answers clears the error; without a store there is none to clear
Refresh ==
    /\ up /\ ~closing /\ lane = <<>> /\ store /\ cache = "error"
    /\ cache' = "ready"
    /\ UNCHANGED <<host, onDisk, up, closing, store, lane, copier, stranded, clock, foreign, queued, budgets>>

------------------------------
(* The copy thread: copy_bundle and verify_bundle. *)
Copying(kind, at) == up /\ copier.kind = kind /\ copier.at = at
Mine(b)           == b.attempt = copier.attempt
\* discard_incomplete: only unsealed scratch goes
Discarded         == {b \in bundles : ~(Mine(b) /\ ~b.sealed)}
\* mutant of Ends: a failed worker writes nothing
EndsQuietly(status, attempt, sha) ==
    /\ copier' = NoCopy
    /\ lane' = IF status = "failed" THEN lane ELSE Append(lane, Settle(copier.cycle, status, attempt, sha))
Ends(status, attempt, sha) ==
    /\ copier' = NoCopy
    /\ lane' = Append(lane, Settle(copier.cycle, status, attempt, sha))
\* mutant of Outcome: a complete local copy counts as success
OutcomeLocal == "succeeded"
Outcome == IF copier.native = "succeeded" THEN "succeeded" ELSE "partial"

CopyStarts ==
    /\ Copying("copy", "begin") /\ Cardinality(bundles) + foreign < Inventory
    /\ bundles' = bundles \cup {[attempt |-> copier.attempt, cycle |-> copier.cycle,
                                 native |-> copier.native, sealed |-> FALSE, done |-> 0]}
    /\ copier' = [copier EXCEPT !.at = "files"]
    /\ UNCHANGED <<host, row, up, closing, store, cache, lane, stranded, clock, foreign, queued, budgets>>

\* the inventory is held: nothing is made
CopyHeld ==
    /\ Copying("copy", "begin") /\ Cardinality(bundles) + foreign >= Inventory
    /\ Ends("failed", 0, FALSE)
    /\ UNCHANGED <<host, onDisk, up, closing, store, cache, stranded, clock, foreign, queued, budgets>>

\* both snapshots verified, the manifest written last
CopySeals ==
    /\ Copying("copy", "files")
    /\ bundles' = {IF Mine(b) THEN [attempt |-> b.attempt, cycle |-> b.cycle, native |-> b.native,
                                    sealed |-> TRUE, done |-> clock] ELSE b : b \in bundles}
    /\ copier' = [copier EXCEPT !.at = "sealed"]
    /\ UNCHANGED <<host, row, up, closing, store, cache, lane, stranded, clock, foreign, queued, budgets>>

\* a snapshot is cancelled by close or fails; cleaning up its scratch may fail too
CopyFails ==
    /\ Copying("copy", "files") \/ Copying("copy", "begin")
    /\ \/ closing /\ UNCHANGED faults
       \/ Fault
    /\ bundles' \in {bundles, Discarded}
    /\ Ends("failed", 0, FALSE)
    /\ UNCHANGED <<host, row, up, closing, store, cache, stranded, clock, foreign, queued,
                   crashes, stops, back, delivered>>

\* the sealed manifest cannot be read back: the bundle stays, the cycle fails
CopyUnread ==
    /\ Copying("copy", "sealed") /\ Fault
    /\ Ends("failed", 0, FALSE)
    /\ UNCHANGED <<host, onDisk, up, closing, store, cache, stranded, clock, foreign, queued,
                   crashes, stops, back, delivered>>

\* retain, whose failure holds what is there (any part of it pruned), and the result
CopyDone ==
    /\ Copying("copy", "sealed")
    /\ \/ bundles' = bundles \ Pruned(clock, copier.attempt) /\ UNCHANGED faults
       \/ Fault /\ \E gone \in SUBSET Pruned(clock, copier.attempt) : bundles' = bundles \ gone
    /\ Ends(Outcome, copier.attempt, TRUE)
    /\ UNCHANGED <<host, row, up, closing, store, cache, stranded, clock, foreign, queued,
                   crashes, stops, back, delivered>>

\* verify_bundle: a sealed bundle of exactly this attempt, cycle and native status
\* mutant of Verifies: the directory is there
VerifiesDirectory == \E b \in bundles : Mine(b) /\ b.cycle = copier.cycle
Verifies == \E b \in Sealed : Mine(b) /\ b.cycle = copier.cycle /\ b.native = copier.native
VerifyDone ==
    /\ Copying("verify", "begin")
    /\ \/ /\ Verifies
          /\ Ends(Outcome, copier.attempt, TRUE)
          /\ UNCHANGED <<bundles, faults>>
       \/ /\ ~Verifies
          /\ bundles' \in {bundles, Discarded}
          /\ Ends("failed", 0, FALSE)
          /\ UNCHANGED faults
       \/ /\ Fault \/ (closing /\ UNCHANGED faults)     \* unreadable this time, or cancelled before it ran
          /\ Ends("failed", 0, FALSE)
          /\ UNCHANGED bundles
    /\ UNCHANGED <<host, row, up, closing, store, cache, stranded, clock, foreign, queued,
                   crashes, stops, back, delivered>>

------------------------------
(* Stop, crash, clock. *)
\* EffectOwner.close: cancel, wait for the copy thread, then the store closes at the end of the lane
Stop ==
    /\ up /\ ~closing /\ stops < MaxStops
    /\ closing' = TRUE /\ stops' = stops + 1
    /\ UNCHANGED <<host, onDisk, up, store, cache, lane, copier, stranded, clock, foreign, queued,
                   crashes, faults, back, delivered>>
CloseQueued ==
    /\ up /\ closing /\ copier = NoCopy
    /\ \A i \in DOMAIN lane : lane[i].job # "close"
    /\ lane' = Append(lane, [job |-> "close"])
    /\ UNCHANGED <<host, onDisk, up, closing, store, cache, copier, stranded, clock, foreign, queued, budgets>>
Down == up' = FALSE /\ closing' = FALSE /\ store' = FALSE /\ cache' = "unready"
        /\ lane' = <<>> /\ copier' = NoCopy /\ stranded' = FALSE
CloseRuns ==
    /\ Running("close") /\ copier = NoCopy
    /\ Down
    /\ UNCHANGED <<host, onDisk, clock, foreign, queued, budgets>>
Crash ==
    /\ up /\ crashes < MaxCrashes
    /\ crashes' = crashes + 1
    /\ Down
    /\ UNCHANGED <<host, onDisk, clock, foreign, queued, stops, faults, back, delivered>>

Tick ==
    /\ clock < MaxTime /\ clock' = clock + 1
    /\ UNCHANGED <<host, onDisk, process, foreign, queued, budgets>>
ClockBack ==
    /\ clock > 0 /\ back < MaxBack
    /\ clock' = clock - 1 /\ back' = back + 1
    /\ UNCHANGED <<host, onDisk, process, foreign, queued, crashes, stops, faults, delivered>>

Init ==
    /\ counter = 0 /\ native = -1 /\ results = [c \in Cycles |-> "none"] /\ notices = {}
    /\ row = [high |-> 0, cycle |-> 0, native |-> "none", state |-> "none", attempt |-> 0, sha |-> FALSE]
    /\ bundles = {} /\ foreign \in 0 .. MaxForeign
    /\ up = FALSE /\ closing = FALSE /\ store = FALSE /\ cache = "unready"
    /\ lane = <<>> /\ copier = NoCopy /\ stranded = FALSE
    /\ clock = 0 /\ queued = <<>>
    /\ crashes = 0 /\ stops = 0 /\ faults = 0 /\ back = 0 /\ delivered = 0

Host   == NativeStart \/ (\E s \in Statuses : NativeEnd(s)) \/ NativeDies
Writer == \/ OpenMarks \/ OpenFails \/ OpenRecovers \/ AdmitBegins \/ AdmitAttempts \/ AttemptFails
          \/ SettleWrites \/ SettleFails \/ Refresh
Copier == CopyStarts \/ CopyHeld \/ CopySeals \/ CopyFails \/ CopyUnread \/ CopyDone \/ VerifyDone
Close  == CloseQueued \/ CloseRuns
Next ==
    \/ Host \/ (\E m \in notices : Receive(m)) \/ Boot \/ Writer \/ Copier
    \/ Stop \/ Close \/ Crash \/ Tick \/ ClockBack

------------------------------
(* Properties. *)
Attempts == 0 .. MaxCycles
Bundle   == [attempt : Attempts, cycle : Cycles, native : Statuses, sealed : BOOLEAN, done : 0 .. MaxTime]
TypeOK ==
    /\ counter \in 0 .. MaxCycles /\ native \in -1 .. MaxCycles
    /\ results \in [Cycles -> Statuses \cup {"none"}]
    /\ notices \subseteq [cycle : Cycles, native : Statuses]
    /\ row \in [high : 0 .. MaxCycles, cycle : 0 .. MaxCycles, native : Statuses \cup {"none"},
                state : {"none", "copying", "uncertain", "succeeded", "partial", "failed"},
                attempt : Attempts, sha : BOOLEAN]
    /\ bundles \subseteq Bundle
    /\ up \in BOOLEAN /\ closing \in BOOLEAN /\ store \in BOOLEAN /\ stranded \in BOOLEAN
    /\ cache \in {"unready", "ready", "error"}
    /\ \A i \in DOMAIN lane : lane[i].job \in {"open", "recover", "admit", "attempt", "settle", "close"}
    /\ copier.kind \in {"idle", "copy", "verify"}
    /\ clock \in 0 .. MaxTime /\ foreign \in 0 .. MaxForeign
    /\ \A i \in DOMAIN queued : queued[i] \in Cycles

\* A cycle wsd reports as completed has its sealed bundle on disk, whatever crashes, recoveries and
\* prunings came between (begin_backup's "completed": the row's attempt and hash name a real bundle).
CompletedIsSealed ==
    (~Pending /\ row.high # 0 /\ Answer(row.high) = "completed") =>
        \E b \in Sealed : b.attempt = row.attempt /\ b.cycle = row.high

\* No cycle is copied a second time and none after a later one, however often and in whatever order its
\* companion request arrives and wherever wsd dies: "older result compacted, never replay".
CopiedOnceInOrder == \A i, j \in DOMAIN queued : i < j => queued[i] < queued[j]

\* A local copy never upgrades the native result: "succeeded" in the row, or in a sealed manifest, is the
\* end the native attempt of that very cycle had.
NativeHonest ==
    /\ row.state = "succeeded" => results[row.high] = "succeeded"
    /\ \A b \in Sealed : b.native = results[b.cycle]

\* A pending cycle has somebody who will settle it: the copy thread, or a job of the lane.  So the answer
\* "joined" is about work that is really under way.
PendingOwned ==
    (store /\ Pending /\ ~stranded) =>
        \/ copier # NoCopy /\ copier.cycle = row.cycle
        \/ \E i \in DOMAIN lane : \/ lane[i].job \in {"recover", "attempt"}
                                  \/ lane[i].job = "settle" /\ lane[i].cycle = row.cycle

\* The row and the manifests are honest: a copy never upgrades the native result, and what is pending is
\* under way (backup_cycles, backup_pairing).
RecordsHonest == TypeOK /\ NativeHonest /\ PendingOwned

\* Retention never costs the newest verified bundle, nor the newest one paired with a native success, nor
\* the last bundle of a day or a week of the calendar, native successes and local copies counted apart.
InWindow(t) ==
    \/ clock \div DayTicks >= DayOf(t) /\ DayOf(clock) - DayOf(t) < DaysKept
    \/ Monday(DayOf(clock)) >= Monday(DayOf(t)) /\ Monday(DayOf(clock)) - Monday(DayOf(t)) < WeekSpan
SamePeriod(s, t) == IF DayOf(clock) - DayOf(t) < DaysKept THEN DayOf(s) = DayOf(t)
                                                          ELSE Monday(DayOf(s)) = Monday(DayOf(t))
RetentionKeeps ==
    [][/\ First(Sealed) \subseteq Sealed'
       /\ \A b \in Sealed : IsNative(b) => \E c \in Sealed' : IsNative(c) /\ c.done >= b.done
       /\ \A b \in Sealed : InWindow(b.done) =>
             \E c \in Sealed' : IsNative(c) = IsNative(b) /\ SamePeriod(c.done, b.done)]_vars

\* Every admitted cycle is settled, across restarts, unless a write of the store failed.
PendingEnds == Pending ~> (~Pending \/ stranded)

Spec == Init /\ [][Next]_vars
FairSpec == Spec /\ WF_vars(Boot) /\ WF_vars(Writer) /\ WF_vars(Copier) /\ WF_vars(Close)
==============================
