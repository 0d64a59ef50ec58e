----------------------------- MODULE PairedBackupProofs -----------------------------
(***************************************************************************)
(* Theorems about PairedBackup, for any number of cycles, crashes, stops,  *)
(* failures and delayed or repeated requests: what is reported completed   *)
(* has its sealed bundle, no cycle is copied twice or out of order, the    *)
(* records are honest, and retention spares what it has to keep.           *)
(***************************************************************************)
EXTENDS PairedBackup, SequenceTheorems, WellFoundedInduction, TLAPS

Ended == {"succeeded", "partial", "failed"}
RowType == [high : 0 .. MaxCycles, cycle : 0 .. MaxCycles, native : Statuses \cup {"none"},
            state : {"none", "copying", "uncertain", "succeeded", "partial", "failed"},
            attempt : Attempts, sha : BOOLEAN]
LaneJob ==
    [job : {"open", "recover", "close"}]
        \cup [job : {"admit", "attempt"}, cycle : Cycles, native : Statuses]
        \cup [job : {"settle"}, cycle : Cycles, status : Ended, attempt : Attempts, sha : BOOLEAN]
CopyJob == [kind : {"copy", "verify"}, cycle : Cycles, native : Statuses, attempt : Attempts,
            at : {"begin", "files", "sealed"}]

BackupType ==
    /\ counter \in 0 .. MaxCycles /\ native \in -1 .. MaxCycles
    /\ results \in [Cycles -> Statuses \cup {"none"}]
    /\ notices \subseteq [cycle : Cycles, native : Statuses]
    /\ row \in RowType
    /\ bundles \subseteq Bundle
    /\ up \in BOOLEAN /\ closing \in BOOLEAN /\ store \in BOOLEAN /\ stranded \in BOOLEAN
    /\ cache \in {"unready", "ready", "error"}
    /\ lane \in Seq(LaneJob)
    /\ copier \in {NoCopy} \cup CopyJob
    /\ clock \in 0 .. MaxTime /\ foreign \in 0 .. MaxForeign
    /\ queued \in Seq(Cycles)

\* One worker at a time: the copy thread, or one job of the lane that opens, admits or
\* settles; and it works on the pending cycle.
Works(j) == j.job \in {"open", "recover", "attempt", "settle"}
OneWorker ==
    \A i \in 1 .. Len(lane) : Works(lane[i]) =>
        /\ copier = NoCopy
        /\ lane[i].job # "settle" => i = 1
        /\ \A k \in 1 .. Len(lane) : Works(lane[k]) => k = i
WorkIsPending ==
    /\ copier # NoCopy => row.cycle = copier.cycle /\ row.native = copier.native
    /\ \A i \in 1 .. Len(lane) : lane[i].job \in {"attempt", "settle"} => row.cycle = lane[i].cycle

\* Whatever names a cycle and its native result names the one the native attempt ended
\* with; the attempt under way has none yet.
NativeTrue ==
    /\ \A c \in Cycles : c > counter => results[c] = "none"
    /\ native > 0 => native = counter /\ results[native] = "none"
    /\ \A m \in notices : results[m.cycle] = m.native
    /\ \A i \in 1 .. Len(lane) : lane[i].job \in {"admit", "attempt"} => results[lane[i].cycle] = lane[i].native
    /\ \A i \in 1 .. Len(lane) :
          lane[i].job = "settle" /\ lane[i].status = "succeeded" => results[lane[i].cycle] = "succeeded"
    /\ row.cycle # 0 => row.native \in Statuses /\ results[row.cycle] = row.native
    /\ row.state = "succeeded" => row.high \in Cycles /\ results[row.high] = "succeeded"
    /\ \A b \in bundles : results[b.cycle] = b.native

\* A sealed bundle of this attempt and cycle is on disk.
Backed(attempt, cycle) == \E b \in bundles : b.sealed /\ b.attempt = attempt /\ b.cycle = cycle
BundlesThere ==
    /\ copier # NoCopy /\ copier.at = "files" =>
          \E b \in bundles : b.attempt = copier.attempt /\ b.cycle = copier.cycle
    /\ copier # NoCopy /\ copier.at = "sealed" => Backed(copier.attempt, copier.cycle)
    /\ \A i \in 1 .. Len(lane) :
          lane[i].job = "settle" /\ lane[i].status # "failed" => Backed(lane[i].attempt, lane[i].cycle)
    /\ row.cycle = 0 /\ row.state \in {"succeeded", "partial"} => Backed(row.attempt, row.high)
    /\ row.cycle # 0 => row.state \in {"copying", "uncertain"}

\* The latest cycle admitted is the pending one or the row's highest.
InOrder ==
    /\ row.cycle # 0 => row.cycle > row.high
    /\ \A i \in 1 .. Len(queued) : queued[i] <= (IF row.cycle # 0 THEN row.cycle ELSE row.high) /\ queued[i] >= i
    /\ \A i, j \in 1 .. Len(queued) : i < j => queued[i] < queued[j]

Owned ==
    store /\ row.cycle # 0 /\ ~stranded =>
        copier # NoCopy \/ \E i \in 1 .. Len(lane) : lane[i].job \in {"recover", "attempt", "settle"}

BackupInv == BackupType /\ OneWorker /\ WorkIsPending /\ NativeTrue /\ BundlesThere /\ InOrder /\ Owned

------------------------------
\* Facts about the jobs and the lane.
LEMMA JobFields ==
  ASSUME NEW j \in LaneJob
  PROVE  /\ j.job \in {"open", "recover", "close", "admit", "attempt", "settle"}
         /\ j.job \in {"admit", "attempt"} => j.cycle \in Cycles /\ j.native \in Statuses
         /\ j.job = "settle" => /\ j.cycle \in Cycles /\ j.status \in Ended
                                /\ j.attempt \in Attempts /\ j.sha \in BOOLEAN
BY DEF LaneJob

\* The copy thread is idle or has a whole job.
LEMMA CopyFields ==
  ASSUME NEW c \in {NoCopy} \cup CopyJob
  PROVE  /\ (c # NoCopy) <=> (c.kind # "idle")
         /\ (c # NoCopy) <=> (c \in CopyJob)
         /\ c.kind \in {"copy", "verify"} => /\ c.cycle \in Cycles /\ c.native \in Statuses
                                             /\ c.attempt \in Attempts /\ c.at \in {"begin", "files", "sealed"}
BY DEF CopyJob, NoCopy

\* The lane is a sequence of jobs.
LEMMA LaneHas ==
  ASSUME lane \in Seq(LaneJob)
  PROVE  /\ Len(lane) \in Nat /\ DOMAIN lane = 1 .. Len(lane)
         /\ \A i \in 1 .. Len(lane) : lane[i] \in LaneJob
         /\ lane # <<>> => Head(lane) = lane[1] /\ 1 \in 1 .. Len(lane)
<1>1. Len(lane) \in Nat /\ DOMAIN lane = 1 .. Len(lane) BY LenProperties
<1>2. \A i \in 1 .. Len(lane) : lane[i] \in LaneJob BY ElementOfSeq
<1>3. lane # <<>> => Head(lane) = lane[1] /\ 1 \in 1 .. Len(lane)
 <2>1. lane # <<>> => Len(lane) # 0 BY EmptySeq
 <2> QED BY <1>1, <2>1
<1> QED BY <1>1, <1>2, <1>3

\* The lane without its head.
LEMMA LaneTail ==
  ASSUME lane \in Seq(LaneJob), lane # <<>>, lane' = Tail(lane)
  PROVE  /\ lane' \in Seq(LaneJob)
         /\ \A i \in 1 .. Len(lane') : i + 1 \in 1 .. Len(lane) /\ lane'[i] = lane[i + 1]
         /\ \A i \in 1 .. Len(lane) : i # 1 => i - 1 \in 1 .. Len(lane') /\ lane'[i - 1] = lane[i]
<1>1. /\ lane' \in Seq(LaneJob) /\ Len(lane') = Len(lane) - 1
      /\ \A i \in 1 .. Len(lane') : lane'[i] = lane[i + 1] BY HeadTailProperties
<1>2. Len(lane) \in Nat BY LaneHas
<1> QED BY <1>1, <1>2

\* The lane with one more job.
LEMMA LaneAppend ==
  ASSUME lane \in Seq(LaneJob), NEW j \in LaneJob, lane' = Append(lane, j)
  PROVE  /\ lane' \in Seq(LaneJob)
         /\ Len(lane') = Len(lane) + 1 /\ Len(lane) \in Nat
         /\ \A i \in 1 .. Len(lane) : lane'[i] = lane[i]
         /\ lane'[Len(lane) + 1] = j
BY AppendProperties, LaneHas

\* The lane with its head replaced.
LEMMA LaneHead ==
  ASSUME lane \in Seq(LaneJob), lane # <<>>, NEW j \in LaneJob, lane' = [lane EXCEPT ![1] = j]
  PROVE  /\ lane' \in Seq(LaneJob) /\ Len(lane') = Len(lane)
         /\ \A i \in 1 .. Len(lane) : lane'[i] = IF i = 1 THEN j ELSE lane[i]
<1>1. 1 \in 1 .. Len(lane) BY LaneHas
<1> QED BY <1>1, ExceptSeq

------------------------------
\* What the invariant says of the properties.
LEMMA BackupInvSays == BackupInv => CompletedIsSealed /\ CopiedOnceInOrder /\ RecordsHonest
<1> SUFFICES ASSUME BackupInv PROVE CompletedIsSealed /\ CopiedOnceInOrder /\ RecordsHonest OBVIOUS
<1>0. lane \in Seq(LaneJob) /\ queued \in Seq(Cycles) BY DEF BackupInv, BackupType
<1>1. CompletedIsSealed
 <2> SUFFICES ASSUME ~Pending, Answer(row.high) = "completed"
              PROVE  \E b \in Sealed : b.attempt = row.attempt /\ b.cycle = row.high BY DEF CompletedIsSealed
 <2>1. row.state \in {"succeeded", "partial"} BY DEF Answer, Companion, BackupInv, BackupType, RowType
 <2>2. Backed(row.attempt, row.high) BY <2>1 DEF Pending, BackupInv, BundlesThere
 <2> QED BY <2>2 DEF Backed, Sealed
<1>2. CopiedOnceInOrder
 <2>1. DOMAIN queued = 1 .. Len(queued) BY <1>0, LenProperties
 <2> QED BY <2>1 DEF CopiedOnceInOrder, BackupInv, InOrder
<1>3. TypeOK
 <2>1. \A i \in DOMAIN lane : lane[i].job \in {"open", "recover", "admit", "attempt", "settle", "close"}
  BY <1>0, LaneHas, JobFields
 <2>2. copier.kind \in {"idle", "copy", "verify"} BY DEF BackupInv, BackupType, NoCopy, CopyJob
 <2>3. \A i \in DOMAIN queued : queued[i] \in Cycles BY <1>0, LenProperties, ElementOfSeq
 <2> QED BY <2>1, <2>2, <2>3 DEF BackupInv, BackupType, TypeOK, RowType
<1>4. NativeHonest BY DEF NativeHonest, Sealed, BackupInv, NativeTrue
<1>5. PendingOwned
 <2> SUFFICES ASSUME store, Pending, ~stranded
              PROVE  \/ copier # NoCopy /\ copier.cycle = row.cycle
                     \/ \E i \in DOMAIN lane : \/ lane[i].job \in {"recover", "attempt"}
                                               \/ lane[i].job = "settle" /\ lane[i].cycle = row.cycle
  BY DEF PendingOwned
 <2>1. CASE copier # NoCopy BY <2>1 DEF BackupInv, WorkIsPending
 <2>2. CASE \E i \in 1 .. Len(lane) : lane[i].job \in {"recover", "attempt", "settle"}
  BY <1>0, <2>2, LaneHas DEF BackupInv, WorkIsPending
 <2> QED BY <2>1, <2>2 DEF Pending, BackupInv, Owned
<1> QED BY <1>1, <1>2, <1>3, <1>4, <1>5 DEF RecordsHonest

\* The invariant holds at first.
LEMMA BackupInitInv == Init => BackupInv
<1> SUFFICES ASSUME Init PROVE BackupInv OBVIOUS
<1>1. lane = <<>> /\ queued = <<>> /\ lane \in Seq(LaneJob) /\ Len(lane) = 0 /\ queued \in Seq(Cycles) /\ Len(queued) = 0
 BY EmptySeq DEF Init
<1>2. BackupType
 <2>1. counter \in 0 .. MaxCycles /\ native \in -1 .. MaxCycles /\ clock \in 0 .. MaxTime /\ foreign \in 0 .. MaxForeign
  BY BoundsAssumption DEF Init
 <2>2. results \in [Cycles -> Statuses \cup {"none"}] /\ notices \subseteq [cycle : Cycles, native : Statuses] /\ bundles \subseteq Bundle
  BY DEF Init
 <2>3. row \in RowType BY BoundsAssumption DEF Init, RowType, Attempts
 <2>4. /\ up \in BOOLEAN /\ closing \in BOOLEAN /\ store \in BOOLEAN /\ stranded \in BOOLEAN
       /\ cache \in {"unready", "ready", "error"} /\ copier \in {NoCopy} \cup CopyJob BY DEF Init
 <2> QED BY <1>1, <2>1, <2>2, <2>3, <2>4 DEF BackupType
<1>3. OneWorker /\ WorkIsPending BY <1>1 DEF OneWorker, WorkIsPending, Init
<1>4. NativeTrue /\ BundlesThere BY <1>1 DEF NativeTrue, BundlesThere, Init
<1>5. InOrder /\ Owned BY <1>1 DEF InOrder, Owned, Init
<1> QED BY <1>2, <1>3, <1>4, <1>5 DEF BackupInv

------------------------------
\* The native owner: a cycle's result is set once, before anything names it.
LEMMA HostStep == BackupInv /\ Host => BackupInv'
<1> SUFFICES ASSUME BackupInv, Host PROVE BackupInv' OBVIOUS
<1>0. UNCHANGED <<onDisk, process, clock, foreign, queued>> BY DEF Host, NativeStart, NativeEnd, NativeDies
<1>1. /\ counter \in Nat /\ counter' \in 0 .. MaxCycles /\ native' \in -1 .. MaxCycles /\ counter <= counter'
      /\ native' > 0 => native' = counter' /\ counter < counter'
 BY BoundsAssumption DEF Host, NativeStart, NativeEnd, NativeDies, BackupInv, BackupType
<1>2. /\ results' \in [Cycles -> Statuses \cup {"none"}]
      /\ notices' \subseteq [cycle : Cycles, native : Statuses]
      /\ \A c \in Cycles : results[c] # "none" => results'[c] = results[c]
      /\ \A c \in Cycles : c > counter' => results'[c] = results[c]
      /\ native' > 0 => results' = results
      /\ \A m \in notices' : results'[m.cycle] = m.native
 <2>1. CASE UNCHANGED <<results, notices>> BY <2>1 DEF BackupInv, BackupType, NativeTrue
 <2>2. CASE \E s \in Statuses : /\ native \in 1 .. MaxCycles /\ native' = -1 /\ counter' = counter
                                /\ results' = [results EXCEPT ![native] = s]
                                /\ notices' = notices \cup {[cycle |-> native, native |-> s]}
  <3>1. PICK s \in Statuses : /\ native \in 1 .. MaxCycles /\ native' = -1 /\ counter' = counter
                              /\ results' = [results EXCEPT ![native] = s]
                              /\ notices' = notices \cup {[cycle |-> native, native |-> s]} BY <2>2
  <3>2. native \in Cycles /\ results[native] = "none" /\ native = counter
   BY <3>1 DEF Cycles, BackupInv, BackupType, NativeTrue
  <3>3. results \in [Cycles -> Statuses \cup {"none"}] /\ notices \subseteq [cycle : Cycles, native : Statuses]
   BY DEF BackupInv, BackupType
  <3>4. results'[native] = s /\ \A c \in Cycles \ {native} : results'[c] = results[c] BY <3>1, <3>2, <3>3
  <3>5. \A m \in notices : m.cycle \in Cycles /\ m.native \in Statuses /\ results[m.cycle] = m.native /\ m.native # "none"
   BY <3>3 DEF BackupInv, NativeTrue, Statuses
  <3>6. \A m \in notices' : results'[m.cycle] = m.native BY <3>1, <3>2, <3>4, <3>5
  <3>7. results' \in [Cycles -> Statuses \cup {"none"}] /\ notices' \subseteq [cycle : Cycles, native : Statuses]
   BY <3>1, <3>2, <3>3
  <3>8. \A c \in Cycles : c > counter' => results'[c] = results[c] BY <1>1, <3>1, <3>2, <3>4 DEF Cycles
  <3> QED BY <3>1, <3>2, <3>4, <3>6, <3>7, <3>8
 <2> QED BY <2>1, <2>2 DEF Host, NativeStart, NativeEnd, NativeDies
<1>3. lane \in Seq(LaneJob) /\ UNCHANGED <<row, bundles, up, closing, store, cache, lane, copier, stranded, clock, foreign, queued>>
 BY <1>0 DEF onDisk, process, BackupInv, BackupType
<1>4. BackupType' BY <1>1, <1>2, <1>3 DEF BackupInv, BackupType
<1>5. OneWorker' /\ WorkIsPending' /\ BundlesThere' /\ InOrder' /\ Owned'
 BY <1>3 DEF BackupInv, OneWorker, WorkIsPending, BundlesThere, Backed, InOrder, Owned, Works
<1>6. NativeTrue'
 <2>1. \A c \in Cycles : c > counter' => results'[c] = "none" BY <1>1, <1>2 DEF BackupInv, NativeTrue, Cycles
 <2>2. native' > 0 => native' = counter' /\ results'[native'] = "none"
  BY <1>1, <1>2, BoundsAssumption DEF BackupInv, NativeTrue, Cycles
 <2>3. \A i \in 1 .. Len(lane) : lane[i].job \in {"admit", "attempt"} => results'[lane[i].cycle] = lane[i].native
  BY <1>2, <1>3, LaneHas, JobFields DEF BackupInv, NativeTrue, Statuses
 <2>4. \A i \in 1 .. Len(lane) :
         lane[i].job = "settle" /\ lane[i].status = "succeeded" => results'[lane[i].cycle] = "succeeded"
  BY <1>2, <1>3, LaneHas, JobFields DEF BackupInv, NativeTrue
 <2>5. /\ row.cycle # 0 => row.native \in Statuses /\ results'[row.cycle] = row.native
       /\ row.state = "succeeded" => row.high \in Cycles /\ results'[row.high] = "succeeded"
  BY <1>2 DEF BackupInv, BackupType, RowType, NativeTrue, Statuses, Cycles
 <2>6. \A b \in bundles : results'[b.cycle] = b.native BY <1>2 DEF BackupInv, BackupType, Bundle, NativeTrue, Statuses
 <2> QED BY <1>2, <1>3, <2>1, <2>2, <2>3, <2>4, <2>5, <2>6 DEF NativeTrue
<1> QED BY <1>4, <1>5, <1>6 DEF BackupInv

\* Steps that change only the clock, the cache or whether wsd is closing.
LEMMA BackupQuiet ==
  ASSUME BackupInv, UNCHANGED <<host, onDisk, store, lane, copier, stranded, queued, up, foreign>>,
    closing' \in BOOLEAN, cache' \in {"unready", "ready", "error"}, clock' \in 0 .. MaxTime
  PROVE  BackupInv'
<1>1. BackupType' BY DEF BackupInv, BackupType, host, onDisk
<1>2. OneWorker' /\ WorkIsPending' /\ InOrder' /\ Owned'
 BY DEF BackupInv, OneWorker, Works, WorkIsPending, InOrder, Owned, onDisk
<1>3. NativeTrue' /\ BundlesThere' BY DEF BackupInv, NativeTrue, BundlesThere, Backed, host, onDisk
<1> QED BY <1>1, <1>2, <1>3 DEF BackupInv

\* Stop, Refresh, Tick and ClockBack are such steps.
LEMMA QuietSteps == BackupInv /\ (Stop \/ Refresh \/ Tick \/ ClockBack) => BackupInv'
<1> SUFFICES ASSUME BackupInv, Stop \/ Refresh \/ Tick \/ ClockBack PROVE BackupInv' OBVIOUS
<1>1. UNCHANGED <<host, onDisk, store, lane, copier, stranded, queued, up, foreign>>
 BY DEF Stop, Refresh, Tick, ClockBack, process
<1>2. closing' \in BOOLEAN /\ cache' \in {"unready", "ready", "error"}
 BY DEF Stop, Refresh, Tick, ClockBack, process, BackupInv, BackupType
<1>3. clock' \in 0 .. MaxTime BY BoundsAssumption DEF Stop, Refresh, Tick, ClockBack, BackupInv, BackupType
<1> QED BY <1>1, <1>2, <1>3, BackupQuiet

\* wsd ends or begins: row and bundles stay, and nobody works but the opening.
LEMMA RestartStep == BackupInv /\ (Boot \/ CloseRuns \/ Crash) => BackupInv'
<1> SUFFICES ASSUME BackupInv, Boot \/ CloseRuns \/ Crash PROVE BackupInv' OBVIOUS
<1>1. /\ UNCHANGED <<counter, native, results, notices, row, bundles, clock, foreign, queued>>
      /\ store' = FALSE /\ stranded' = FALSE /\ copier' = NoCopy
      /\ up' \in BOOLEAN /\ closing' \in BOOLEAN /\ cache' = "unready"
 BY DEF Boot, CloseRuns, Crash, Down, host, onDisk
<1>2. lane' = <<>> \/ lane' = <<[job |-> "open"]>> BY DEF Boot, CloseRuns, Crash, Down
<1>3. /\ lane' \in Seq(LaneJob) /\ Len(lane') \in {0, 1}
      /\ \A i \in 1 .. Len(lane') : i = 1 /\ lane'[i].job = "open"
 <2> DEFINE j == [job |-> "open"]
 <2>1. j \in LaneJob /\ j.job = "open" BY DEF LaneJob
 <2>2. CASE lane' = <<>>
  <3>1. lane' \in Seq(LaneJob) /\ Len(lane') = 0 BY <2>2, EmptySeq
  <3> QED BY <3>1
 <2>3. CASE lane' = <<j>>
  <3> HIDE DEF j
  <3>1. lane' \in Seq(LaneJob) /\ Len(lane') = 1 /\ lane'[1] = j BY <2>1, <2>3
  <3> QED BY <2>1, <3>1
 <2> QED BY <1>2, <2>2, <2>3
<1>4. BackupType' BY <1>1, <1>3 DEF BackupInv, BackupType
<1>5. OneWorker' /\ WorkIsPending' /\ InOrder' /\ Owned'
 BY <1>1, <1>3 DEF BackupInv, OneWorker, Works, WorkIsPending, InOrder, Owned
<1>6. NativeTrue' /\ BundlesThere' BY <1>1, <1>3 DEF BackupInv, NativeTrue, BundlesThere, Backed, NoCopy
<1> QED BY <1>4, <1>5, <1>6 DEF BackupInv

\* A request is admitted to the lane, or the closing job: neither works on a cycle yet.
LEMMA QueueStep ==
  ASSUME BackupInv, NEW j \in LaneJob, ~Works(j), lane' = Append(lane, j),
    j.job = "admit" => results[j.cycle] = j.native,
    UNCHANGED <<host, onDisk, up, closing, store, cache, copier, stranded, clock, foreign, queued>>
  PROVE  BackupInv'
<1>0. lane \in Seq(LaneJob) /\ UNCHANGED <<counter, native, results, notices, row, bundles>>
 BY DEF BackupInv, BackupType, host, onDisk
<1>1. /\ lane' \in Seq(LaneJob) /\ Len(lane') = Len(lane) + 1 /\ Len(lane) \in Nat
      /\ \A i \in 1 .. Len(lane) : lane'[i] = lane[i]
      /\ lane'[Len(lane) + 1] = j BY <1>0, LaneAppend
<1>2. \A i \in 1 .. Len(lane') : (i \in 1 .. Len(lane) /\ lane'[i] = lane[i]) \/ lane'[i] = j BY <1>1
<1>3. \A i \in 1 .. Len(lane) : i \in 1 .. Len(lane') BY <1>1
<1>4. j.job \notin {"attempt", "settle", "recover"} BY DEF Works
<1>5. BackupType' BY <1>0, <1>1 DEF BackupInv, BackupType
<1>6. OneWorker' BY <1>2 DEF BackupInv, OneWorker
<1>7. WorkIsPending' /\ InOrder' BY <1>0, <1>2, <1>4 DEF BackupInv, WorkIsPending, InOrder
<1>8. Owned' BY <1>0, <1>1, <1>3 DEF BackupInv, Owned
<1>9. NativeTrue' BY <1>0, <1>2, <1>4 DEF BackupInv, NativeTrue
<1>10. BundlesThere' BY <1>0, <1>2, <1>4 DEF BackupInv, BundlesThere, Backed
<1> QED BY <1>5, <1>6, <1>7, <1>8, <1>9, <1>10 DEF BackupInv

\* A companion request is queued for admission (maintenance_request).
LEMMA ReceiveStep ==
  ASSUME BackupInv, NEW m \in notices, Receive(m)
  PROVE  BackupInv'
<1> DEFINE j == [job |-> "admit", cycle |-> m.cycle, native |-> m.native]
<1>1. m.cycle \in Cycles /\ m.native \in Statuses /\ results[m.cycle] = m.native
 BY DEF BackupInv, BackupType, NativeTrue
<1>2. j \in LaneJob /\ j.job = "admit" /\ j.cycle = m.cycle /\ j.native = m.native BY <1>1 DEF LaneJob
<1>3. /\ lane' = Append(lane, j)
      /\ UNCHANGED <<host, onDisk, up, closing, store, cache, copier, stranded, clock, foreign, queued>>
 BY DEF Receive
<1> HIDE DEF j
<1> QED BY <1>1, <1>2, <1>3, QueueStep DEF Works

\* The close of the store is queued last.
LEMMA CloseQueuedStep == BackupInv /\ CloseQueued => BackupInv'
<1> SUFFICES ASSUME BackupInv, CloseQueued PROVE BackupInv' OBVIOUS
<1> DEFINE j == [job |-> "close"]
<1>1. j \in LaneJob /\ j.job = "close" BY DEF LaneJob
<1>2. /\ lane' = Append(lane, j)
      /\ UNCHANGED <<host, onDisk, up, closing, store, cache, copier, stranded, clock, foreign, queued>>
 BY DEF CloseQueued
<1> HIDE DEF j
<1> QED BY <1>1, <1>2, QueueStep DEF Works

------------------------------
\* The job at the head leaves the lane: what is left of the lane is as it was.
LEMMA HeadLeaves ==
  ASSUME BackupInv, lane # <<>>, lane' = Tail(lane)
  PROVE  /\ lane' \in Seq(LaneJob) /\ lane[1] \in LaneJob /\ 1 \in 1 .. Len(lane) /\ Head(lane) = lane[1]
         /\ \A i \in 1 .. Len(lane') : i + 1 \in 1 .. Len(lane) /\ i + 1 # 1 /\ lane'[i] = lane[i + 1]
         /\ \A i \in 1 .. Len(lane) : i # 1 => i - 1 \in 1 .. Len(lane') /\ lane'[i - 1] = lane[i]
         /\ Works(lane[1]) => \A i \in 1 .. Len(lane') : ~Works(lane'[i])
<1>1. lane \in Seq(LaneJob) BY DEF BackupInv, BackupType
<1>2. /\ lane' \in Seq(LaneJob)
      /\ \A i \in 1 .. Len(lane') : i + 1 \in 1 .. Len(lane) /\ lane'[i] = lane[i + 1]
      /\ \A i \in 1 .. Len(lane) : i # 1 => i - 1 \in 1 .. Len(lane') /\ lane'[i - 1] = lane[i] BY <1>1, LaneTail
<1>3. lane[1] \in LaneJob /\ 1 \in 1 .. Len(lane) /\ Head(lane) = lane[1] BY <1>1, LaneHas
<1>4. Len(lane') \in Nat BY <1>2, LenProperties
<1>5. \A i \in 1 .. Len(lane') : i + 1 # 1 BY <1>4
<1>6. Works(lane[1]) => \A i \in 1 .. Len(lane') : ~Works(lane'[i]) BY <1>2, <1>3, <1>5 DEF BackupInv, OneWorker
<1> QED BY <1>2, <1>3, <1>5, <1>6

\* A worker that fails leaves the pending cycle to the next start.
LEMMA StrandStep == BackupInv /\ (OpenFails \/ AttemptFails \/ SettleFails) => BackupInv'
<1> SUFFICES ASSUME BackupInv, OpenFails \/ AttemptFails \/ SettleFails PROVE BackupInv' OBVIOUS
<1>1. /\ UNCHANGED <<counter, native, results, notices, row, bundles, up, closing, store, copier, clock, foreign, queued>>
      /\ lane # <<>> /\ lane' = Tail(lane) /\ stranded' = TRUE /\ cache' \in {cache, "error"}
      /\ Works(Head(lane)) BY DEF OpenFails, AttemptFails, SettleFails, Running, Works, host, onDisk
<1>2. /\ lane' \in Seq(LaneJob)
      /\ \A i \in 1 .. Len(lane') : i + 1 \in 1 .. Len(lane) /\ lane'[i] = lane[i + 1] /\ ~Works(lane'[i])
 BY <1>1, HeadLeaves
<1>3. BackupType' BY <1>1, <1>2 DEF BackupInv, BackupType
<1>4. OneWorker' /\ WorkIsPending' /\ InOrder' /\ Owned'
 BY <1>1, <1>2 DEF BackupInv, OneWorker, WorkIsPending, InOrder, Owned, Works
<1>5. NativeTrue' /\ BundlesThere' BY <1>1, <1>2 DEF BackupInv, NativeTrue, BundlesThere, Backed
<1> QED BY <1>3, <1>4, <1>5 DEF BackupInv

\* A cycle found pending is marked uncertain and stays pending.
LEMMA OpenMarksStep == BackupInv /\ OpenMarks => BackupInv'
<1> SUFFICES ASSUME BackupInv, OpenMarks PROVE BackupInv' OBVIOUS
<1> DEFINE j == [job |-> "recover"]
           r == [row EXCEPT !.state = "uncertain"]
<1>0. lane \in Seq(LaneJob) /\ row \in RowType BY DEF BackupInv, BackupType
<1>1. /\ UNCHANGED <<counter, native, results, notices, bundles, up, closing, copier, stranded, clock, foreign, queued>>
      /\ lane # <<>> /\ lane[1].job = "open" /\ lane' = [lane EXCEPT ![1] = j]
      /\ store' = TRUE /\ cache' = "ready"
      /\ row' = IF row.cycle # 0 THEN r ELSE row BY <1>0, LaneHas DEF OpenMarks, Running, Pending, host
<1>2. j \in LaneJob /\ j.job = "recover" BY DEF LaneJob
<1>3. /\ r \in RowType /\ r.state = "uncertain" /\ r.high = row.high /\ r.cycle = row.cycle
      /\ r.native = row.native /\ r.attempt = row.attempt BY <1>0 DEF RowType
<1> HIDE DEF j, r
<1>4. /\ lane' \in Seq(LaneJob) /\ Len(lane') = Len(lane) /\ 1 \in 1 .. Len(lane)
      /\ lane'[1] = j /\ \A i \in 1 .. Len(lane) : i # 1 => lane'[i] = lane[i]
 BY <1>0, <1>1, <1>2, LaneHead, LaneHas
<1>5. copier = NoCopy /\ \A i \in 1 .. Len(lane) : i # 1 => ~Works(lane'[i])
 BY <1>1, <1>4 DEF BackupInv, OneWorker, Works
<1>6. BackupType' BY <1>0, <1>1, <1>3, <1>4 DEF BackupInv, BackupType
<1>7. OneWorker' /\ Owned' BY <1>1, <1>2, <1>4, <1>5 DEF OneWorker, Works, Owned
<1>8. WorkIsPending' BY <1>1, <1>2, <1>4, <1>5 DEF WorkIsPending, Works
<1>9. row'.cycle = row.cycle /\ row'.high = row.high /\ row'.native = row.native /\ row'.attempt = row.attempt
 BY <1>1, <1>3
<1>10. InOrder' BY <1>1, <1>9 DEF BackupInv, InOrder
<1>11. NativeTrue'
 <2>1. row'.state = "succeeded" => row.state = "succeeded" BY <1>1, <1>3
 <2>2. \A i \in 1 .. Len(lane') : lane'[i].job \in {"admit", "attempt", "settle"} => lane'[i] = lane[i] /\ i \in 1 .. Len(lane)
  BY <1>2, <1>4
 <2> QED BY <1>1, <1>9, <2>1, <2>2 DEF BackupInv, NativeTrue
<1>12. BundlesThere'
 <2>1. /\ row'.cycle # 0 => row'.state \in {"copying", "uncertain"}
       /\ row'.cycle = 0 => row' = row BY <1>1, <1>3
 <2> QED BY <1>1, <1>2, <1>4, <1>5, <1>9, <2>1 DEF BackupInv, BundlesThere, Backed, Works
<1> QED BY <1>6, <1>7, <1>8, <1>10, <1>11, <1>12 DEF BackupInv

\* The pending cycle is settled by the job at the head.
LEMMA FinishStep ==
  ASSUME BackupInv, row.cycle # 0, NEW st \in Ended, NEW at \in Attempts, NEW sha \in BOOLEAN,
    row' = Finished(st, at, sha), lane # <<>>, Works(lane[1]), lane' = Tail(lane),
    UNCHANGED <<host, bundles, up, closing, store, copier, stranded, clock, foreign, queued>>,
    cache' \in {"unready", "ready", "error"},
    st # "failed" => Backed(at, row.cycle),
    st = "succeeded" => results[row.cycle] = "succeeded"
  PROVE  BackupInv'
<1>0. row \in RowType /\ UNCHANGED <<counter, native, results, notices>> BY DEF BackupInv, BackupType, host
<1>1. /\ lane' \in Seq(LaneJob)
      /\ \A i \in 1 .. Len(lane') : i + 1 \in 1 .. Len(lane) /\ lane'[i] = lane[i + 1] /\ ~Works(lane'[i])
 BY HeadLeaves
<1>2. copier = NoCopy
 <2>1. 1 \in 1 .. Len(lane) BY HeadLeaves
 <2> QED BY <2>1 DEF BackupInv, OneWorker
<1>3. /\ row' \in RowType /\ row'.cycle = 0 /\ row'.high = row.cycle /\ row'.state = st /\ row'.attempt = at
      /\ row.cycle \in Cycles /\ row.cycle \in Nat BY <1>0, BoundsAssumption DEF Finished, RowType, Ended, Cycles
<1>4. BackupType' BY <1>0, <1>1, <1>3 DEF BackupInv, BackupType
<1>5. OneWorker' /\ Owned' /\ WorkIsPending' BY <1>1, <1>2, <1>3 DEF OneWorker, Owned, WorkIsPending, Works
<1>6. InOrder' BY <1>3 DEF BackupInv, InOrder
<1>7. NativeTrue' BY <1>0, <1>1, <1>3 DEF BackupInv, NativeTrue, Works
<1>8. BundlesThere' BY <1>1, <1>2, <1>3 DEF BackupInv, BundlesThere, Backed, Works
<1> QED BY <1>4, <1>5, <1>6, <1>7, <1>8 DEF BackupInv

\* The pending cycle is handed from the head of the lane to the copy thread.
LEMMA HandOver ==
  ASSUME BackupInv, row.cycle # 0, NEW c \in CopyJob, c.at = "begin", copier' = c,
    c.cycle = row.cycle, c.native = row.native,
    row' \in RowType, row'.cycle = row.cycle, row'.high = row.high, row'.native = row.native,
    row'.state = row.state,
    lane # <<>>, Works(lane[1]), lane' = Tail(lane),
    UNCHANGED <<host, bundles, up, closing, store, stranded, clock, foreign, queued>>,
    cache' \in {"unready", "ready", "error"}
  PROVE  BackupInv'
<1>0. UNCHANGED <<counter, native, results, notices>> BY DEF host
<1>1. /\ lane' \in Seq(LaneJob)
      /\ \A i \in 1 .. Len(lane') : i + 1 \in 1 .. Len(lane) /\ lane'[i] = lane[i + 1] /\ ~Works(lane'[i])
 BY HeadLeaves
<1>2. c # NoCopy BY CopyFields
<1>3. BackupType' BY <1>0, <1>1 DEF BackupInv, BackupType
<1>4. OneWorker' /\ Owned' /\ WorkIsPending' BY <1>1, <1>2 DEF OneWorker, Owned, WorkIsPending, Works
<1>5. InOrder' BY DEF BackupInv, InOrder
<1>6. NativeTrue' BY <1>0, <1>1 DEF BackupInv, NativeTrue, Works
<1>7. BundlesThere' BY <1>1 DEF BackupInv, BundlesThere, Backed, Works
<1> QED BY <1>3, <1>4, <1>5, <1>6, <1>7 DEF BackupInv

\* The head leaves and hands nothing over: the cycle is settled already, or stranded,
\* or the job was no worker.
LEMMA HeadDone ==
  ASSUME BackupInv, lane # <<>>, lane' = Tail(lane),
    row' \in RowType, row'.cycle = row.cycle, row'.high = row.high, row'.native = row.native,
    row'.state = row.state, row.cycle = 0 => row' = row,
    Works(lane[1]) => row.cycle = 0 \/ stranded',
    stranded' = stranded \/ stranded' = TRUE,
    UNCHANGED <<host, bundles, up, closing, store, copier, clock, foreign, queued>>,
    cache' \in {"unready", "ready", "error"}
  PROVE  BackupInv'
<1>0. UNCHANGED <<counter, native, results, notices>> /\ stranded \in BOOLEAN BY DEF host, BackupInv, BackupType
<1>1. /\ lane' \in Seq(LaneJob)
      /\ \A i \in 1 .. Len(lane') : i + 1 \in 1 .. Len(lane) /\ i + 1 # 1 /\ lane'[i] = lane[i + 1]
      /\ \A i \in 1 .. Len(lane) : i # 1 => i - 1 \in 1 .. Len(lane') /\ lane'[i - 1] = lane[i] BY HeadLeaves
<1>2. BackupType' BY <1>0, <1>1 DEF BackupInv, BackupType
<1>3. OneWorker'
 <2> SUFFICES ASSUME NEW i \in 1 .. Len(lane'), Works(lane'[i])
              PROVE  /\ copier' = NoCopy /\ (lane'[i].job # "settle" => i = 1)
                     /\ \A k \in 1 .. Len(lane') : Works(lane'[k]) => k = i BY DEF OneWorker, Works
 <2>1. i + 1 \in 1 .. Len(lane) /\ i + 1 # 1 /\ Works(lane[i + 1]) /\ i \in Int BY <1>1
 <2>2. copier = NoCopy /\ lane[i + 1].job = "settle" /\ \A k \in 1 .. Len(lane) : Works(lane[k]) => k = i + 1
  BY <2>1 DEF BackupInv, OneWorker
 <2>3. \A k \in 1 .. Len(lane') : Works(lane'[k]) => k = i BY <1>1, <2>1, <2>2
 <2> QED BY <1>1, <2>2, <2>3
<1>4. WorkIsPending' /\ InOrder' BY <1>1 DEF BackupInv, WorkIsPending, InOrder
<1>5. Owned'
 <2>1. CASE row.cycle = 0 \/ stranded' BY <2>1 DEF Owned
 <2>2. CASE ~(row.cycle = 0 \/ stranded') /\ copier # NoCopy BY <2>2 DEF Owned
 <2>3. CASE ~(row.cycle = 0 \/ stranded') /\ copier = NoCopy
  <3>1. ~Works(lane[1]) /\ ~stranded BY <1>0, <2>3
  <3>2. store => \E i \in 1 .. Len(lane) : i # 1 /\ lane[i].job \in {"recover", "attempt", "settle"}
   BY <2>3, <3>1 DEF BackupInv, Owned, Works
  <3> QED BY <1>1, <3>2 DEF Owned
 <2> QED BY <2>1, <2>2, <2>3
<1>6. NativeTrue' BY <1>0, <1>1 DEF BackupInv, NativeTrue
<1>7. BundlesThere' BY <1>1 DEF BackupInv, BundlesThere, Backed
<1> QED BY <1>2, <1>3, <1>4, <1>5, <1>6, <1>7 DEF BackupInv

\* The rest of _open: verify the recorded attempt, or fail the cycle.
LEMMA OpenRecoversStep == BackupInv /\ OpenRecovers => BackupInv'
<1> SUFFICES ASSUME BackupInv, OpenRecovers PROVE BackupInv' OBVIOUS
<1> DEFINE c == [kind |-> "verify", cycle |-> row.cycle, native |-> row.native, attempt |-> row.attempt, at |-> "begin"]
<1>0. lane \in Seq(LaneJob) /\ row \in RowType /\ cache \in {"unready", "ready", "error"} BY DEF BackupInv, BackupType
<1>1. /\ lane # <<>> /\ lane' = Tail(lane) /\ Works(lane[1])
      /\ UNCHANGED <<host, bundles, up, closing, store, clock, foreign, queued>>
 BY <1>0, LaneHas DEF OpenRecovers, Running, Works
<1>2. \/ row.cycle # 0 /\ copier' = c /\ UNCHANGED <<row, cache, stranded>>
      \/ cache' = "error" /\ stranded' = TRUE /\ UNCHANGED <<row, copier>>
      \/ row.cycle # 0 /\ row' = Finished("failed", 0, FALSE) /\ UNCHANGED <<copier, cache, stranded>>
      \/ row.cycle = 0 /\ UNCHANGED <<row, copier, cache, stranded>> BY DEF OpenRecovers, Pending
<1>3. CASE row.cycle # 0 /\ copier' = c /\ UNCHANGED <<row, cache, stranded>>
 <2>1. row.cycle \in Cycles /\ row.native \in Statuses /\ row.attempt \in Attempts
  BY <1>0, <1>3, BoundsAssumption DEF RowType, Cycles, BackupInv, NativeTrue
 <2>2. c \in CopyJob /\ c.at = "begin" /\ c.cycle = row.cycle /\ c.native = row.native BY <2>1 DEF CopyJob
 <2> HIDE DEF c
 <2> QED BY <1>0, <1>1, <1>3, <2>2, HandOver
<1>4. CASE cache' = "error" /\ stranded' = TRUE /\ UNCHANGED <<row, copier>> BY <1>0, <1>1, <1>4, HeadDone
<1>5. CASE row.cycle # 0 /\ row' = Finished("failed", 0, FALSE) /\ UNCHANGED <<copier, cache, stranded>>
 <2>1. "failed" \in Ended /\ 0 \in Attempts /\ FALSE \in BOOLEAN BY BoundsAssumption DEF Ended, Attempts
 <2> QED BY <1>0, <1>1, <1>5, <2>1, FinishStep
<1>6. CASE row.cycle = 0 /\ UNCHANGED <<row, copier, cache, stranded>> BY <1>0, <1>1, <1>6, HeadDone
<1> QED BY <1>2, <1>3, <1>4, <1>5, <1>6

\* finish_backup settles the cycle of the job, which is the pending one.
LEMMA SettleWritesStep == BackupInv /\ SettleWrites => BackupInv'
<1> SUFFICES ASSUME BackupInv, SettleWrites PROVE BackupInv' OBVIOUS
<1>0. lane \in Seq(LaneJob) /\ row \in RowType /\ lane # <<>> BY DEF BackupInv, BackupType, SettleWrites, Running
<1>1. Head(lane) = lane[1] /\ 1 \in 1 .. Len(lane) /\ lane[1] \in LaneJob BY <1>0, LaneHas
<1>2. /\ lane' = Tail(lane) /\ lane[1].job = "settle"
      /\ UNCHANGED <<host, bundles, up, closing, store, copier, stranded, clock, foreign, queued>>
      /\ \/ row.cycle = lane[1].cycle /\ row' = Finished(lane[1].status, lane[1].attempt, lane[1].sha) /\ cache' = "ready"
         \/ row.cycle # lane[1].cycle BY <1>1 DEF SettleWrites, Running
<1>3. /\ lane[1].cycle \in Cycles /\ lane[1].status \in Ended /\ lane[1].attempt \in Attempts /\ lane[1].sha \in BOOLEAN
 BY <1>1, <1>2, JobFields
<1>4. /\ row.cycle = lane[1].cycle /\ row.cycle # 0
      /\ lane[1].status # "failed" => Backed(lane[1].attempt, row.cycle)
      /\ lane[1].status = "succeeded" => results[row.cycle] = "succeeded"
 BY <1>1, <1>2, <1>3 DEF BackupInv, WorkIsPending, BundlesThere, NativeTrue, Cycles
<1>5. Works(lane[1]) BY <1>2 DEF Works
<1> QED BY <1>0, <1>2, <1>3, <1>4, <1>5, FinishStep

------------------------------
\* Only a cycle after every earlier one is admitted, and only when none is pending.
LEMMA AdmitBeginsStep == BackupInv /\ AdmitBegins => BackupInv'
<1> SUFFICES ASSUME BackupInv, AdmitBegins PROVE BackupInv' OBVIOUS
<1>0. /\ lane \in Seq(LaneJob) /\ row \in RowType /\ lane # <<>> /\ queued \in Seq(Cycles)
      /\ cache \in {"unready", "ready", "error"} /\ Head(lane).job = "admit"
 BY DEF BackupInv, BackupType, AdmitBegins, Running
<1>1. Head(lane) = lane[1] /\ 1 \in 1 .. Len(lane) /\ lane[1] \in LaneJob /\ Len(lane) \in Nat BY <1>0, LaneHas
<1> DEFINE cy == lane[1].cycle
           na == lane[1].native
           j == [job |-> "attempt", cycle |-> cy, native |-> na]
<1>2. cy \in Cycles /\ na \in Statuses /\ results[cy] = na /\ ~Works(lane[1])
 BY <1>0, <1>1, JobFields DEF BackupInv, NativeTrue, Works
<1>3. UNCHANGED <<host, bundles, up, closing, store, copier, stranded, clock, foreign>> BY DEF AdmitBegins
<1>4. \/ /\ Answer(cy) = "queued" /\ row' = Begun(cy, na) /\ queued' = Append(queued, cy)
         /\ lane' = [lane EXCEPT ![1] = j] /\ cache' = cache
      \/ lane' = Tail(lane) /\ cache' \in {cache, "ready"} /\ UNCHANGED <<row, queued>> BY <1>1 DEF AdmitBegins
<1>5. CASE lane' = Tail(lane) /\ cache' \in {cache, "ready"} /\ UNCHANGED <<row, queued>>
 BY <1>0, <1>2, <1>3, <1>5, HeadDone
<1>6. CASE /\ Answer(cy) = "queued" /\ row' = Begun(cy, na) /\ queued' = Append(queued, cy)
           /\ lane' = [lane EXCEPT ![1] = j] /\ cache' = cache
 <2>1. row.cycle = 0 /\ cy > row.high BY <1>0, <1>2, <1>6 DEF Answer, Pending, RowType, Cycles
 <2>2. /\ j \in LaneJob /\ j.job = "attempt" /\ j.cycle = cy /\ j.native = na BY <1>2 DEF LaneJob
 <2>3. /\ row' \in RowType /\ row'.cycle = cy /\ row'.native = na /\ row'.state = "copying" /\ row'.high = row.high
  BY <1>0, <1>2, <1>6, BoundsAssumption DEF Begun, RowType, Attempts, Cycles
 <2> HIDE DEF j, cy, na
 <2>4. /\ lane' \in Seq(LaneJob) /\ Len(lane') = Len(lane)
       /\ lane'[1] = j /\ \A i \in 1 .. Len(lane) : i # 1 => lane'[i] = lane[i] BY <1>0, <1>1, <1>6, <2>2, LaneHead
 <2>5. copier = NoCopy
  <3> SUFFICES ASSUME copier # NoCopy PROVE FALSE OBVIOUS
  <3>1. copier.cycle \in Cycles BY CopyFields DEF BackupInv, BackupType, CopyJob
  <3>2. row.cycle = copier.cycle BY DEF BackupInv, WorkIsPending
  <3> QED BY <2>1, <3>1, <3>2 DEF Cycles
 <2>6. \A i \in 1 .. Len(lane) : i # 1 => ~Works(lane[i])
  <3> SUFFICES ASSUME NEW i \in 1 .. Len(lane), i # 1, Works(lane[i]) PROVE FALSE OBVIOUS
  <3>1. lane[i] \in LaneJob /\ lane[i].job = "settle" BY <1>0, LaneHas DEF BackupInv, OneWorker, Works
  <3>2. row.cycle = lane[i].cycle /\ lane[i].cycle \in Cycles BY <3>1, JobFields DEF BackupInv, WorkIsPending
  <3> QED BY <2>1, <3>2 DEF Cycles
 <2>7. /\ queued' \in Seq(Cycles) /\ Len(queued') = Len(queued) + 1 /\ Len(queued) \in Nat
       /\ \A i \in 1 .. Len(queued) : queued'[i] = queued[i] /\ queued[i] \in Cycles
       /\ queued'[Len(queued) + 1] = cy BY <1>0, <1>2, <1>6, AppendProperties, ElementOfSeq, LenProperties
 <2>8. UNCHANGED <<counter, native, results, notices>> /\ cy \in Nat /\ row.high \in Nat
  BY <1>0, <1>2, <1>3 DEF host, Cycles, RowType
 <2>9. BackupType' BY <1>3, <1>6, <2>3, <2>4, <2>7, <2>8 DEF BackupInv, BackupType
 <2>10. OneWorker' BY <1>3, <2>2, <2>4, <2>5, <2>6 DEF OneWorker, Works
 <2>11. WorkIsPending' BY <1>3, <2>2, <2>3, <2>4, <2>5, <2>6 DEF WorkIsPending, Works
 <2>12. NativeTrue'
  <3>1. cy \in Cycles /\ cy # 0 BY <1>2 DEF Cycles
  <3> QED BY <1>2, <1>3, <2>2, <2>3, <2>4, <2>8, <3>1 DEF BackupInv, NativeTrue
 <2>13. BundlesThere' BY <1>2, <1>3, <2>2, <2>3, <2>4, <2>5, <2>6 DEF BackupInv, BundlesThere, Backed, Works, Cycles
 <2>14. InOrder'
  <3>1. \A i \in 1 .. Len(queued) : queued[i] <= row.high /\ queued[i] >= i /\ queued[i] \in Nat
   BY <2>1, <2>7 DEF BackupInv, InOrder, Cycles
  <3>2. cy >= Len(queued) + 1
   <4>1. CASE Len(queued) = 0 BY <1>2, <4>1 DEF Cycles
   <4>2. CASE Len(queued) # 0 BY <2>1, <2>7, <2>8, <3>1, <4>2
   <4> QED BY <4>1, <4>2
  <3>3. \A i \in 1 .. Len(queued') : queued'[i] <= cy /\ queued'[i] >= i BY <2>1, <2>7, <2>8, <3>1, <3>2
  <3>4. \A i, k \in 1 .. Len(queued') : i < k => queued'[i] < queued'[k]
   BY <2>1, <2>7, <2>8, <3>1 DEF BackupInv, InOrder
  <3>5. row'.cycle # 0 /\ row'.cycle > row'.high BY <1>2, <2>1, <2>3 DEF Cycles
  <3> QED BY <2>3, <3>3, <3>4, <3>5 DEF InOrder
 <2>15. Owned' BY <1>1, <2>2, <2>4 DEF Owned
 <2> QED BY <2>9, <2>10, <2>11, <2>12, <2>13, <2>14, <2>15 DEF BackupInv
<1> QED BY <1>4, <1>5, <1>6

\* A fresh attempt is recorded and handed to the copy thread.
LEMMA AdmitAttemptsStep == BackupInv /\ AdmitAttempts => BackupInv'
<1> SUFFICES ASSUME BackupInv, AdmitAttempts PROVE BackupInv' OBVIOUS
<1> DEFINE n == Len(queued)
           r == [row EXCEPT !.attempt = n]
           c == [kind |-> "copy", cycle |-> row.cycle, native |-> row.native, attempt |-> n, at |-> "begin"]
<1>0. /\ lane \in Seq(LaneJob) /\ row \in RowType /\ lane # <<>> /\ queued \in Seq(Cycles)
      /\ cache \in {"unready", "ready", "error"} /\ Head(lane).job = "attempt"
 BY DEF BackupInv, BackupType, AdmitAttempts, Running
<1>1. Head(lane) = lane[1] /\ 1 \in 1 .. Len(lane) /\ lane[1] \in LaneJob BY <1>0, LaneHas
<1>2. lane[1].job = "attempt" /\ Works(lane[1]) /\ row.cycle = lane[1].cycle /\ row.cycle \in Cycles
 BY <1>0, <1>1, JobFields DEF Works, BackupInv, WorkIsPending
<1>3. row.cycle # 0 /\ row.native \in Statuses BY <1>2 DEF Cycles, BackupInv, NativeTrue
<1>4. n \in Attempts
 <2>1. n \in Nat /\ \A i \in 1 .. n : queued[i] \in Cycles /\ queued[i] >= i
  BY <1>0, LenProperties, ElementOfSeq DEF BackupInv, InOrder
 <2>2. n # 0 => queued[n] \in Cycles /\ queued[n] >= n BY <2>1
 <2> QED BY <2>1, <2>2, BoundsAssumption DEF Cycles, Attempts
<1>5. /\ UNCHANGED <<host, bundles, up, closing, store, clock, foreign, queued>>
      /\ lane' = Tail(lane) /\ row' = r
      /\ \/ copier' = c /\ cache' = "ready" /\ UNCHANGED stranded
         \/ stranded' = TRUE /\ UNCHANGED <<copier, cache>> BY DEF AdmitAttempts, Fresh
<1> HIDE DEF n
<1>6. r \in RowType /\ r.cycle = row.cycle /\ r.high = row.high /\ r.native = row.native /\ r.state = row.state
 BY <1>0, <1>4 DEF RowType
<1>7. c \in CopyJob /\ c.at = "begin" /\ c.cycle = row.cycle /\ c.native = row.native BY <1>2, <1>3, <1>4 DEF CopyJob
<1> HIDE DEF r, c
<1>8. CASE copier' = c /\ cache' = "ready" /\ UNCHANGED stranded BY <1>0, <1>2, <1>3, <1>5, <1>6, <1>7, <1>8, HandOver
<1>9. CASE stranded' = TRUE /\ UNCHANGED <<copier, cache>> BY <1>0, <1>3, <1>5, <1>6, <1>9, HeadDone
<1> QED BY <1>5, <1>8, <1>9

------------------------------
\* The copy thread ends: its job settles the cycle it worked on.
LEMMA EndsStep ==
  ASSUME BackupInv, copier # NoCopy, NEW st \in Ended, NEW at \in Attempts, NEW sha \in BOOLEAN,
    Ends(st, at, sha), bundles' \subseteq bundles,
    st # "failed" => \E b \in bundles' : b.sealed /\ b.attempt = at /\ b.cycle = copier.cycle,
    st = "succeeded" => copier.native = "succeeded",
    UNCHANGED <<host, row, up, closing, store, cache, stranded, clock, foreign, queued>>
  PROVE  BackupInv'
<1> DEFINE j == Settle(copier.cycle, st, at, sha)
<1>0. /\ lane \in Seq(LaneJob) /\ UNCHANGED <<counter, native, results, notices>>
      /\ copier \in CopyJob /\ copier.cycle \in Cycles /\ copier.native \in Statuses
 BY CopyFields DEF BackupInv, BackupType, host, CopyJob
<1>1. /\ j \in LaneJob /\ j.job = "settle" /\ j.cycle = copier.cycle /\ j.status = st /\ j.attempt = at
 BY <1>0 DEF Settle, LaneJob
<1>2. copier' = NoCopy /\ lane' = Append(lane, j) BY DEF Ends
<1> HIDE DEF j
<1>3. /\ lane' \in Seq(LaneJob) /\ Len(lane') = Len(lane) + 1 /\ Len(lane) \in Nat
      /\ \A i \in 1 .. Len(lane) : lane'[i] = lane[i]
      /\ lane'[Len(lane) + 1] = j BY <1>0, <1>1, <1>2, LaneAppend
<1>4. \A i \in 1 .. Len(lane) : ~Works(lane[i]) BY DEF BackupInv, OneWorker
<1>5. \A i \in 1 .. Len(lane') : \/ i \in 1 .. Len(lane) /\ lane'[i] = lane[i] /\ ~Works(lane'[i])
                                 \/ i = Len(lane) + 1 /\ lane'[i] = j BY <1>3, <1>4
<1>6. row.cycle = copier.cycle /\ row.native = copier.native /\ row.cycle # 0
 BY <1>0 DEF BackupInv, WorkIsPending, Cycles
<1>7. BackupType' BY <1>0, <1>2, <1>3 DEF BackupInv, BackupType
<1>8. OneWorker' BY <1>1, <1>2, <1>5 DEF OneWorker
<1>9. WorkIsPending' /\ InOrder' BY <1>1, <1>2, <1>5, <1>6 DEF BackupInv, WorkIsPending, InOrder, Works
<1>10. Owned' BY <1>1, <1>3 DEF Owned
<1>11. NativeTrue'
 <2>1. st = "succeeded" => results[j.cycle] = "succeeded" BY <1>1, <1>6 DEF BackupInv, NativeTrue
 <2> QED BY <1>0, <1>1, <1>5, <2>1 DEF BackupInv, NativeTrue, Works
<1>12. BundlesThere'
 <2>1. \A i \in 1 .. Len(lane') :
         lane'[i].job = "settle" /\ lane'[i].status # "failed" =>
            \E b \in bundles' : b.sealed /\ b.attempt = lane'[i].attempt /\ b.cycle = lane'[i].cycle
  BY <1>1, <1>5 DEF Works
 <2> QED BY <1>2, <1>6, <2>1 DEF BackupInv, BundlesThere, Backed
<1> QED BY <1>7, <1>8, <1>9, <1>10, <1>11, <1>12 DEF BackupInv

\* The copy thread goes on: what it made is there, what was sealed stays.
LEMMA CopyGoesOn ==
  ASSUME BackupInv, copier # NoCopy, NEW at \in {"files", "sealed"}, copier' = [copier EXCEPT !.at = at],
    bundles' \subseteq Bundle,
    \A b \in bundles' : results[b.cycle] = b.native,
    at = "files" => \E b \in bundles' : b.attempt = copier.attempt /\ b.cycle = copier.cycle,
    at = "sealed" => \E b \in bundles' : b.sealed /\ b.attempt = copier.attempt /\ b.cycle = copier.cycle,
    UNCHANGED <<host, row, up, closing, store, cache, lane, stranded, clock, foreign, queued>>
  PROVE  BackupInv'
<1>0. /\ UNCHANGED <<counter, native, results, notices>> /\ copier \in CopyJob
      /\ copier.cycle \in Cycles /\ copier.native \in Statuses
 BY CopyFields DEF BackupInv, BackupType, host, CopyJob
<1>1. /\ copier' \in CopyJob /\ copier'.at = at /\ copier'.cycle = copier.cycle /\ copier'.native = copier.native
      /\ copier'.attempt = copier.attempt BY <1>0 DEF CopyJob
<1>2. copier' # NoCopy BY <1>1, CopyFields
<1>3. \A i \in 1 .. Len(lane) : ~Works(lane[i]) BY DEF BackupInv, OneWorker
<1>4. BackupType' BY <1>0, <1>1 DEF BackupInv, BackupType
<1>5. OneWorker' /\ WorkIsPending' /\ Owned' /\ InOrder'
 BY <1>1, <1>2, <1>3 DEF BackupInv, OneWorker, WorkIsPending, Owned, InOrder, Works
<1>6. NativeTrue' BY <1>0 DEF BackupInv, NativeTrue
<1>7. BundlesThere'
 <2>1. row.cycle # 0 BY <1>0 DEF BackupInv, WorkIsPending, Cycles
 <2> QED BY <1>1, <1>3, <2>1 DEF BackupInv, BundlesThere, Backed, Works
<1> QED BY <1>4, <1>5, <1>6, <1>7 DEF BackupInv

\* The bundle is made as scratch, with the native result of its cycle.
LEMMA CopyStartsStep == BackupInv /\ CopyStarts => BackupInv'
<1> SUFFICES ASSUME BackupInv, CopyStarts PROVE BackupInv' OBVIOUS
<1> DEFINE n == [attempt |-> copier.attempt, cycle |-> copier.cycle,
                 native |-> copier.native, sealed |-> FALSE, done |-> 0]
<1>1. copier # NoCopy /\ copier \in CopyJob BY CopyFields DEF CopyStarts, Copying, BackupInv, BackupType
<1>2. /\ copier.cycle \in Cycles /\ copier.native \in Statuses /\ copier.attempt \in Attempts
      /\ row.cycle = copier.cycle /\ row.native = copier.native BY <1>1 DEF CopyJob, BackupInv, WorkIsPending
<1>3. n \in Bundle /\ n.attempt = copier.attempt /\ n.cycle = copier.cycle /\ n.native = copier.native
 BY <1>2, BoundsAssumption DEF Bundle
<1>4. results[n.cycle] = n.native BY <1>2, <1>3 DEF BackupInv, NativeTrue, Cycles
<1>5. /\ bundles' = bundles \cup {n} /\ copier' = [copier EXCEPT !.at = "files"]
      /\ UNCHANGED <<host, row, up, closing, store, cache, lane, stranded, clock, foreign, queued>>
 BY DEF CopyStarts
<1> HIDE DEF n
<1>6. bundles' \subseteq Bundle /\ n \in bundles' /\ \A b \in bundles' : results[b.cycle] = b.native
 BY <1>3, <1>4, <1>5 DEF BackupInv, BackupType, NativeTrue
<1> QED BY <1>1, <1>3, <1>5, <1>6, CopyGoesOn

\* The manifest seals the bundle that the job made.
LEMMA CopySealsStep == BackupInv /\ CopySeals => BackupInv'
<1> SUFFICES ASSUME BackupInv, CopySeals PROVE BackupInv' OBVIOUS
<1> DEFINE seal(b) == [attempt |-> b.attempt, cycle |-> b.cycle, native |-> b.native,
                       sealed |-> TRUE, done |-> clock]
<1>1. copier # NoCopy /\ copier.at = "files" BY CopyFields DEF CopySeals, Copying, BackupInv, BackupType
<1>2. /\ bundles' = {IF Mine(b) THEN seal(b) ELSE b : b \in bundles}
      /\ copier' = [copier EXCEPT !.at = "sealed"]
      /\ UNCHANGED <<host, row, up, closing, store, cache, lane, stranded, clock, foreign, queued>> BY DEF CopySeals
<1>3. \A b \in bundles : /\ seal(b) \in Bundle /\ seal(b).sealed /\ seal(b).attempt = b.attempt
                          /\ seal(b).cycle = b.cycle /\ seal(b).native = b.native
 BY DEF BackupInv, BackupType, Bundle
<1> HIDE DEF seal
<1>4. bundles' \subseteq Bundle /\ \A b \in bundles' : results[b.cycle] = b.native
 BY <1>2, <1>3 DEF BackupInv, BackupType, NativeTrue
<1>5. PICK b \in bundles : b.attempt = copier.attempt /\ b.cycle = copier.cycle BY <1>1 DEF BackupInv, BundlesThere
<1>6. seal(b) \in bundles' /\ seal(b).sealed /\ seal(b).attempt = copier.attempt /\ seal(b).cycle = copier.cycle
 BY <1>2, <1>3, <1>5 DEF Mine
<1> QED BY <1>1, <1>2, <1>4, <1>6, CopyGoesOn

\* The copy thread ends with nothing: no bundle is claimed, and no sealed one of another attempt goes.
LEMMA FailsStep ==
  ASSUME BackupInv, copier # NoCopy, Ends("failed", 0, FALSE), bundles' \subseteq bundles,
    UNCHANGED <<host, row, up, closing, store, cache, stranded, clock, foreign, queued>>
  PROVE  BackupInv'
<1>1. "failed" \in Ended /\ 0 \in Attempts /\ FALSE \in BOOLEAN BY BoundsAssumption DEF Ended, Attempts
<1> QED BY <1>1, EndsStep

\* The copy thread ends with its bundle sealed on disk.
LEMMA SucceedsStep ==
  ASSUME BackupInv, copier # NoCopy, Ends(Outcome, copier.attempt, TRUE), bundles' \subseteq bundles,
    \E b \in bundles' : b.sealed /\ b.attempt = copier.attempt /\ b.cycle = copier.cycle,
    UNCHANGED <<host, row, up, closing, store, cache, stranded, clock, foreign, queued>>
  PROVE  BackupInv'
<1>1. copier.attempt \in Attempts /\ TRUE \in BOOLEAN BY CopyFields DEF BackupInv, BackupType, CopyJob
<1>2. Outcome \in Ended /\ (Outcome = "succeeded" => copier.native = "succeeded") BY DEF Outcome, Ended
<1>3. PICK st \in Ended : st = Outcome BY <1>2
<1>4. PICK at \in Attempts : at = copier.attempt BY <1>1
<1> QED BY <1>1, <1>2, <1>3, <1>4, EndsStep

\* Every end of copy_bundle and verify_bundle; retention never takes the bundle just sealed.
LEMMA CopyEndsStep ==
  BackupInv /\ (CopyHeld \/ CopyFails \/ CopyUnread \/ CopyDone \/ VerifyDone) => BackupInv'
<1> SUFFICES ASSUME BackupInv, CopyHeld \/ CopyFails \/ CopyUnread \/ CopyDone \/ VerifyDone
             PROVE  BackupInv'
 OBVIOUS
<1>1. copier # NoCopy
 BY CopyFields DEF CopyHeld, CopyFails, CopyUnread, CopyDone, VerifyDone, Copying, BackupInv, BackupType
<1>2. UNCHANGED <<host, row, up, closing, store, cache, stranded, clock, foreign, queued>>
 BY DEF CopyHeld, CopyFails, CopyUnread, CopyDone, VerifyDone, onDisk
<1>3. Discarded \subseteq bundles BY DEF Discarded
<1>4. CASE CopyHeld \/ CopyFails \/ CopyUnread
 <2>1. Ends("failed", 0, FALSE) /\ bundles' \subseteq bundles
  BY <1>3, <1>4 DEF CopyHeld, CopyFails, CopyUnread, onDisk
 <2> QED BY <1>1, <1>2, <2>1, FailsStep
<1>5. CASE CopyDone
 <2>1. copier.at = "sealed" /\ Ends(Outcome, copier.attempt, TRUE) BY <1>5 DEF CopyDone, Copying
 <2>2. PICK b \in bundles : b.sealed /\ b.attempt = copier.attempt /\ b.cycle = copier.cycle
  BY <1>1, <2>1 DEF BackupInv, BundlesThere, Backed
 <2>3. b \notin Pruned(clock, copier.attempt) BY <2>2 DEF Pruned, Verified
 <2>4. bundles' \subseteq bundles /\ b \in bundles' BY <1>5, <2>3 DEF CopyDone
 <2> QED BY <1>1, <1>2, <2>1, <2>2, <2>4, SucceedsStep
<1>6. CASE VerifyDone
 <2>1. CASE Verifies /\ Ends(Outcome, copier.attempt, TRUE) /\ UNCHANGED bundles
  <3>1. \E b \in bundles' : b.sealed /\ b.attempt = copier.attempt /\ b.cycle = copier.cycle
   BY <2>1 DEF Verifies, Sealed, Mine
  <3> QED BY <1>1, <1>2, <2>1, <3>1, SucceedsStep
 <2>2. CASE Ends("failed", 0, FALSE) /\ bundles' \subseteq bundles BY <1>1, <1>2, <2>2, FailsStep
 <2> QED BY <1>3, <1>6, <2>1, <2>2 DEF VerifyDone
<1> QED BY <1>4, <1>5, <1>6

------------------------------
\* Every step keeps the invariant.
LEMMA BackupNextInv == BackupInv /\ [Next]_vars => BackupInv'
<1> SUFFICES ASSUME BackupInv, [Next]_vars PROVE BackupInv' OBVIOUS
<1>1. CASE Host BY <1>1, HostStep
<1>2. CASE \E m \in notices : Receive(m) BY <1>2, ReceiveStep
<1>3. CASE Boot \/ Crash BY <1>3, RestartStep
<1>4. CASE Close BY <1>4, RestartStep, CloseQueuedStep DEF Close
<1>5. CASE Stop \/ Tick \/ ClockBack BY <1>5, QuietSteps
<1>6. CASE Writer
 BY <1>6, OpenMarksStep, StrandStep, OpenRecoversStep, AdmitBeginsStep, AdmitAttemptsStep, SettleWritesStep,
   QuietSteps DEF Writer
<1>7. CASE Copier BY <1>7, CopyStartsStep, CopySealsStep, CopyEndsStep DEF Copier
<1>8. CASE UNCHANGED vars
 <2>1. /\ UNCHANGED <<host, onDisk, store, lane, copier, stranded, queued, up, foreign>>
       /\ UNCHANGED <<closing, cache, clock>> BY <1>8 DEF vars, process
 <2>2. closing' \in BOOLEAN /\ cache' \in {"unready", "ready", "error"} /\ clock' \in 0 .. MaxTime
  BY <2>1 DEF BackupInv, BackupType
 <2> QED BY <2>1, <2>2, BackupQuiet
<1> QED BY <1>1, <1>2, <1>3, <1>4, <1>5, <1>6, <1>7, <1>8 DEF Next

\* The inductive invariant holds of every reachable state.
LEMMA BackupAlways == Spec => []BackupInv
<1> QED BY BackupInitInv, BackupNextInv, PTL DEF Spec

\* A cycle begin_backup answers "completed" has its sealed bundle on disk, whatever crashes,
\* recoveries, failed writes and prunings came between, for any retention calendar.
THEOREM CompletedHasItsBundle == Spec => []CompletedIsSealed
<1>1. BackupInv => CompletedIsSealed BY BackupInvSays
<1> QED BY <1>1, BackupAlways, PTL

\* No cycle is copied twice and none after a later one, for any number of late and repeated
\* companion requests and of restarts of wsd.
THEOREM CopiesNeverReplay == Spec => []CopiedOnceInOrder
<1>1. BackupInv => CopiedOnceInOrder BY BackupInvSays
<1> QED BY <1>1, BackupAlways, PTL

\* The row and the sealed manifests never claim more than the native attempt of that cycle
\* ended with, and a pending cycle is being worked on unless a write of this process failed.
THEOREM RecordsAlwaysHonest == Spec => []RecordsHonest
<1>1. BackupInv => RecordsHonest BY BackupInvSays
<1> QED BY <1>1, BackupAlways, PTL

------------------------------
(* Retention. *)

\* A well-founded relation that holds a natural number below every greater one.
LEMMA Below == \E R : /\ IsWellFoundedOn(R, Nat)
                    /\ \A y, z \in Nat : y < z => <<y, z>> \in R
<1>1. \A y, z \in Nat : y < z => <<y, z>> \in OpToRel(<, Nat) BY DEF OpToRel
<1> QED BY <1>1, NatLessThanWellFounded, Zenon

\* A non-empty bounded set of naturals has a greatest element.
LEMMA Greatest ==
  ASSUME NEW n \in Nat, NEW S, S \subseteq 0 .. n, S # {}
  PROVE  \E g \in S : \A h \in S : h <= g
<1>1. PICK R : IsWellFoundedOn(R, Nat) /\ \A y, z \in Nat : y < z => <<y, z>> \in R BY Below
<1>2. PICK T : T = {n - g : g \in S} OBVIOUS
<1>3. \A h \in S : n - h \in T BY <1>2
<1>4. T \subseteq Nat /\ T # {}
 <2>1. \A t \in T : t \in Nat BY <1>2
 <2> QED BY <1>3, <2>1
<1>5. PICK x \in T : \A y \in T : <<y, x>> \notin R
 <2>1. IsWellFoundedOn(R, Nat) BY <1>1
 <2> QED BY <1>4, <2>1, WFMin, Zenon
<1>6. ASSUME NEW y \in T PROVE x <= y
 <2>1. x \in Nat /\ y \in Nat BY <1>4, <1>5
 <2>2. y < x => <<y, x>> \in R BY <1>1, <2>1
 <2>3. ~(y < x) BY <1>5, <2>2
 <2> QED BY <2>1, <2>3
<1>7. PICK g \in S : x = n - g BY <1>2, <1>5
<1>8. \A h \in S : h <= g BY <1>3, <1>6, <1>7
<1> QED BY <1>8

\* Of bundles with names of their own, one is newer than every other.
LEMMA NewestThere ==
  ASSUME BackupType, NEW S, S \subseteq bundles, S # {},
    \A a, b \in bundles : a.attempt = b.attempt => a = b
  PROVE  \E f \in First(S) : \A b \in S : f.done >= b.done
<1>1. /\ \A b \in S : b.done \in 0 .. MaxTime /\ b.attempt \in 0 .. MaxCycles
      /\ MaxTime \in Nat /\ MaxCycles \in Nat BY BoundsAssumption DEF BackupType, Bundle, Attempts
<1>2. PICK D : D = {b.done : b \in S} OBVIOUS
<1>3. D \subseteq 0 .. MaxTime /\ D # {} BY <1>1, <1>2
<1>4. PICK d \in D : \A e \in D : e <= d BY <1>1, <1>3, Greatest
<1>5. PICK A : A = {b.attempt : b \in {c \in S : c.done = d}} OBVIOUS
<1>6. A \subseteq 0 .. MaxCycles /\ A # {} BY <1>1, <1>2, <1>4, <1>5
<1>7. PICK n \in A : \A m \in A : m <= n BY <1>1, <1>6, Greatest
<1>8. PICK f \in S : f.done = d /\ f.attempt = n BY <1>5, <1>7
<1>9. \A b \in S : b.done <= d /\ (b.done = d => b.attempt <= n) BY <1>2, <1>4, <1>5, <1>7
<1>10. \A b \in S : b.attempt = n => b = f BY <1>8
<1>11. \A b \in S \ {f} : Newer(f, b) BY <1>1, <1>8, <1>9, <1>10 DEF Newer
<1> QED BY <1>1, <1>8, <1>9, <1>11 DEF First

\* A later time is not on an earlier day.
LEMMA DaysInOrder ==
  ASSUME NEW s \in Nat, NEW t \in Nat, s <= t
  PROVE  DayOf(s) \in Nat /\ DayOf(t) \in Nat /\ DayOf(s) <= DayOf(t)
<1>1. DayTicks \in Nat /\ DayTicks > 0 BY CalendarAssumption
<1>2. PICK D \in Nat : D = DayTicks BY <1>1
<1>3. PICK p : p = s \div D OBVIOUS
<1>4. PICK q : q = t \div D OBVIOUS
<1>5. p \in Nat /\ q \in Nat BY <1>1, <1>2, <1>3, <1>4
<1>6. D * p <= s /\ t < D * (q + 1) BY <1>1, <1>2, <1>3, <1>4
<1>7. p >= q + 1 => D * p >= D * (q + 1) BY <1>1, <1>2, <1>5
<1>8. D * p \in Nat /\ D * (q + 1) \in Nat BY <1>5
<1>9. p <= q BY <1>5, <1>6, <1>7, <1>8
<1> QED BY <1>2, <1>3, <1>4, <1>5, <1>9 DEF DayOf

\* An admission waits in the lane for its attempt.
Awaited == \E i \in 1 .. Len(lane) : lane[i].job = "attempt"

\* Every bundle has a name of its own, older than that of an attempt still to be made; and
\* the bundle that the copy thread is writing is not sealed before its time.
OwnNames ==
    /\ \A a, b \in bundles : a.attempt = b.attempt => a = b
    /\ \A b \in bundles : b.attempt <= Len(queued) /\ (Awaited => b.attempt < Len(queued))
    /\ copier.kind = "copy" =>
          /\ copier.attempt <= Len(queued)
          /\ \A b \in bundles : b.attempt = copier.attempt =>
                copier.at # "begin" /\ (copier.at = "files" => ~b.sealed)

\* Steps that make no name, no bundle and no copy job keep the names apart.
LEMMA NamesQuiet ==
  ASSUME OwnNames, bundles' \subseteq bundles, UNCHANGED queued, Awaited' => Awaited,
    UNCHANGED copier \/ copier'.kind # "copy"
  PROVE  OwnNames'
BY DEF OwnNames

\* The lane's changes that bring no attempt.
LEMMA NoAttemptComes ==
  ASSUME BackupInv,
    \/ UNCHANGED lane
    \/ lane' = <<>>
    \/ lane # <<>> /\ lane' = Tail(lane)
    \/ \E j \in LaneJob : /\ j.job # "attempt"
                          /\ \/ lane' = Append(lane, j)
                             \/ lane' = <<j>>
                             \/ lane # <<>> /\ lane' = [lane EXCEPT ![1] = j]
  PROVE  Awaited' => Awaited
<1>1. lane \in Seq(LaneJob) /\ Len(lane) \in Nat BY LaneHas DEF BackupInv, BackupType
<1>2. CASE UNCHANGED lane BY <1>2 DEF Awaited
<1>3. CASE lane' = <<>> BY <1>3 DEF Awaited
<1>4. CASE lane # <<>> /\ lane' = Tail(lane) BY <1>1, <1>4, LaneTail DEF Awaited
<1>5. ASSUME NEW j \in LaneJob, j.job # "attempt", lane' = Append(lane, j) PROVE Awaited' => Awaited
 <2>1. /\ Len(lane') = Len(lane) + 1 /\ \A i \in 1 .. Len(lane) : lane'[i] = lane[i]
       /\ lane'[Len(lane) + 1] = j BY <1>1, <1>5, LaneAppend
 <2>2. \A i \in 1 .. Len(lane') : i \in 1 .. Len(lane) \/ i = Len(lane) + 1 BY <1>1, <2>1
 <2> QED BY <1>5, <2>1, <2>2 DEF Awaited
<1>6. ASSUME NEW j \in LaneJob, j.job # "attempt", lane' = <<j>> PROVE Awaited' => Awaited BY <1>6 DEF Awaited
<1>7. ASSUME NEW j \in LaneJob, j.job # "attempt", lane # <<>>, lane' = [lane EXCEPT ![1] = j]
      PROVE  Awaited' => Awaited BY <1>1, <1>7, LaneHead DEF Awaited
<1> QED BY <1>2, <1>3, <1>4, <1>5, <1>6, <1>7

\* A name is made after every bundle there is, and used once.
LEMMA NamesStep == BackupInv /\ OwnNames /\ [Next]_vars => OwnNames'
<1> SUFFICES ASSUME BackupInv, OwnNames, [Next]_vars PROVE OwnNames' OBVIOUS
<1>1. /\ lane \in Seq(LaneJob) /\ copier \in {NoCopy} \cup CopyJob /\ queued \in Seq(Cycles)
      /\ bundles \subseteq Bundle /\ Len(queued) \in Nat
      /\ \A b \in bundles : b.attempt \in Nat
 BY BoundsAssumption, LenProperties DEF BackupInv, BackupType, Bundle, Attempts
<1>2. NoCopy.kind # "copy" BY DEF NoCopy
<1>3. CASE UNCHANGED <<bundles, queued, copier, lane>> BY <1>3, NamesQuiet, NoAttemptComes
<1>4. CASE Host \/ Stop \/ Tick \/ ClockBack \/ Refresh \/ UNCHANGED vars
 BY <1>3, <1>4 DEF Host, NativeStart, NativeEnd, NativeDies, Stop, Tick, ClockBack, Refresh, vars, process, onDisk
<1>5. CASE \E m \in notices : Receive(m)
 <2>1. PICK m \in notices : Receive(m) BY <1>5
 <2>2. PICK j : j = [job |-> "admit", cycle |-> m.cycle, native |-> m.native] OBVIOUS
 <2>3. j \in LaneJob /\ j.job # "attempt" /\ lane' = Append(lane, j)
  BY <2>1, <2>2 DEF Receive, LaneJob, BackupInv, BackupType
 <2> QED BY <2>1, <2>3, NamesQuiet, NoAttemptComes DEF Receive, onDisk
<1>6. CASE Boot
 <2>1. PICK j : j = [job |-> "open"] OBVIOUS
 <2>2. j \in LaneJob /\ j.job # "attempt" /\ lane' = <<j>> BY <1>6, <2>1 DEF Boot, LaneJob
 <2> QED BY <1>2, <1>6, <2>2, NamesQuiet, NoAttemptComes DEF Boot, onDisk
<1>7. CASE Crash \/ CloseRuns BY <1>2, <1>7, NamesQuiet, NoAttemptComes DEF Crash, CloseRuns, Down, onDisk
<1>8. CASE CloseQueued
 <2>1. PICK j : j = [job |-> "close"] OBVIOUS
 <2>2. j \in LaneJob /\ j.job # "attempt" /\ lane' = Append(lane, j) BY <1>8, <2>1 DEF CloseQueued, LaneJob
 <2> QED BY <1>8, <2>2, NamesQuiet, NoAttemptComes DEF CloseQueued, onDisk
<1>9. CASE OpenMarks
 <2>1. PICK j : j = [job |-> "recover"] OBVIOUS
 <2>2. j \in LaneJob /\ j.job # "attempt" /\ lane # <<>> /\ lane' = [lane EXCEPT ![1] = j]
  BY <1>9, <2>1 DEF OpenMarks, Running, LaneJob
 <2> QED BY <1>9, <2>2, NamesQuiet, NoAttemptComes DEF OpenMarks
<1>10. CASE OpenFails \/ AttemptFails \/ SettleFails \/ SettleWrites \/ OpenRecovers
 <2>1. lane # <<>> /\ lane' = Tail(lane) /\ UNCHANGED <<bundles, queued>>
  BY <1>10 DEF OpenFails, AttemptFails, SettleFails, SettleWrites, OpenRecovers, Running, onDisk
 <2>2. \/ UNCHANGED copier
       \/ copier' = [kind |-> "verify", cycle |-> row.cycle, native |-> row.native,
                     attempt |-> row.attempt, at |-> "begin"]
  BY <1>10 DEF OpenFails, AttemptFails, SettleFails, SettleWrites, OpenRecovers
 <2>3. UNCHANGED copier \/ copier'.kind # "copy" BY <2>2
 <2> QED BY <2>1, <2>3, NamesQuiet, NoAttemptComes
<1>11. CASE AdmitBegins
 <2>1. UNCHANGED <<bundles, copier>> /\ lane # <<>> BY <1>11 DEF AdmitBegins, Running
 <2>2. CASE lane' = Tail(lane) /\ UNCHANGED queued BY <2>1, <2>2, NamesQuiet, NoAttemptComes
 <2>3. CASE queued' = Append(queued, Head(lane).cycle)
  <3>1. Head(lane).cycle \in Cycles
   <4>1. Head(lane) \in LaneJob /\ Head(lane).job = "admit" BY <1>1, <1>11, <2>1, LaneHas DEF AdmitBegins, Running
   <4> QED BY <4>1, JobFields
  <3>2. Len(queued') = Len(queued) + 1 BY <1>1, <2>3, <3>1, AppendProperties
  <3>3. copier.kind = "copy" => copier.attempt \in Nat BY <1>1, CopyFields, BoundsAssumption DEF Attempts
  <3> QED BY <1>1, <2>1, <3>2, <3>3 DEF OwnNames
 <2> QED BY <1>11, <2>2, <2>3 DEF AdmitBegins
<1>12. CASE AdmitAttempts
 <2>1. lane # <<>> /\ lane' = Tail(lane) /\ UNCHANGED <<bundles, queued>> /\ Head(lane).job = "attempt"
  BY <1>12 DEF AdmitAttempts, Running
 <2>2. Awaited BY <1>1, <2>1, LaneHas DEF Awaited
 <2>3. Awaited' => Awaited BY <2>2
 <2>4. CASE UNCHANGED copier BY <2>1, <2>3, <2>4, NamesQuiet
 <2>5. CASE copier' = [kind |-> "copy", cycle |-> row.cycle, native |-> row.native,
                       attempt |-> Fresh, at |-> "begin"]
  <3>1. copier'.attempt = Len(queued) BY <2>5 DEF Fresh
  <3>2. \A b \in bundles : b.attempt # copier'.attempt BY <1>1, <2>2, <3>1 DEF OwnNames
  <3> QED BY <1>1, <2>1, <2>2, <3>1, <3>2 DEF OwnNames
 <2> QED BY <1>12, <2>4, <2>5 DEF AdmitAttempts
<1>13. CASE CopyStarts
 <2>1. PICK n : n = [attempt |-> copier.attempt, cycle |-> copier.cycle,
                     native |-> copier.native, sealed |-> FALSE, done |-> 0]
  OBVIOUS
 <2>2. n.attempt = copier.attempt /\ ~n.sealed BY <2>1
 <2>3. /\ copier.kind = "copy" /\ copier.at = "begin" /\ bundles' = bundles \cup {n}
       /\ copier' = [copier EXCEPT !.at = "files"] /\ UNCHANGED <<lane, queued>>
  BY <1>13, <2>1 DEF CopyStarts, Copying
 <2>4. copier # NoCopy /\ copier \in CopyJob BY <1>1, <1>2, <2>3
 <2>5. copier'.kind = "copy" /\ copier'.attempt = copier.attempt /\ copier'.at = "files" BY <2>3, <2>4 DEF CopyJob
 <2>6. ~Awaited BY <2>4 DEF Awaited, BackupInv, OneWorker, Works
 <2>7. ~Awaited' BY <2>3, <2>6 DEF Awaited
 <2> QED BY <2>2, <2>3, <2>5, <2>7 DEF OwnNames
<1>14. CASE CopySeals
 <2> DEFINE seal(b) == IF Mine(b) THEN [attempt |-> b.attempt, cycle |-> b.cycle, native |-> b.native,
                                        sealed |-> TRUE, done |-> clock] ELSE b
 <2>1. /\ copier.kind = "copy" /\ bundles' = {seal(b) : b \in bundles}
       /\ copier' = [copier EXCEPT !.at = "sealed"] /\ UNCHANGED <<lane, queued>> BY <1>14 DEF CopySeals, Copying
 <2>2. \A b \in bundles : seal(b).attempt = b.attempt OBVIOUS
 <2> HIDE DEF seal
 <2>3. copier'.kind = "copy" /\ copier'.attempt = copier.attempt /\ copier'.at = "sealed"
  BY <1>1, <1>2, <2>1 DEF CopyJob
 <2>4. \A a, b \in bundles' : a.attempt = b.attempt => a = b BY <2>1, <2>2 DEF OwnNames
 <2>5. \A b \in bundles' : \E c \in bundles : b.attempt = c.attempt BY <2>1, <2>2
 <2>6. Awaited' <=> Awaited BY <2>1 DEF Awaited
 <2> QED BY <2>1, <2>3, <2>4, <2>5, <2>6 DEF OwnNames
<1>15. CASE CopyHeld \/ CopyFails \/ CopyUnread \/ CopyDone \/ VerifyDone
 <2>1. bundles' \subseteq bundles /\ UNCHANGED queued
  BY <1>15 DEF CopyHeld, CopyFails, CopyUnread, CopyDone, VerifyDone, Discarded, onDisk
 <2>2. PICK st, at, sha : Ends(st, at, sha) BY <1>15 DEF CopyHeld, CopyFails, CopyUnread, CopyDone, VerifyDone
 <2>3. PICK j : j = Settle(copier.cycle, st, at, sha) OBVIOUS
 <2>4. copier' = NoCopy /\ lane' = Append(lane, j) /\ j.job # "attempt" BY <2>2, <2>3 DEF Ends, Settle
 <2>5. lane' \in Seq(LaneJob) /\ Len(lane) \in Nat BY <1>1, <1>15, CopyEndsStep, LaneHas DEF BackupInv, BackupType
 <2>6. Awaited' => Awaited
  <3>1. lane \in Seq(LaneJob \cup {j}) /\ j \in LaneJob \cup {j} BY <1>1
  <3>2. /\ Len(lane') = Len(lane) + 1 /\ \A i \in 1 .. Len(lane) : lane'[i] = lane[i]
        /\ lane'[Len(lane) + 1] = j BY <2>4, <3>1, AppendProperties
  <3>3. \A i \in 1 .. Len(lane') : i \in 1 .. Len(lane) \/ i = Len(lane) + 1 BY <2>5, <3>2
  <3> QED BY <2>4, <3>2, <3>3 DEF Awaited
 <2> QED BY <1>2, <2>1, <2>4, <2>6, NamesQuiet
<1>16. CASE Writer BY <1>4, <1>9, <1>10, <1>11, <1>12, <1>16 DEF Writer
<1> QED BY <1>4, <1>5, <1>6, <1>7, <1>8, <1>13, <1>14, <1>15, <1>16 DEF Next, Copier, Close

\* What retention takes leaves one of its kind in every set that it looks at.
LEMMA PruneSpares ==
  ASSUME BackupType, OwnNames, NEW current, NEW gone, gone \subseteq Pruned(clock, current),
    bundles' = bundles \ gone
  PROVE  /\ First(Sealed) \subseteq Sealed'
         /\ \A b \in Sealed : IsNative(b) => \E c \in Sealed' : IsNative(c) /\ c.done >= b.done
         /\ \A b \in Sealed : InWindow(b.done) =>
               \E c \in Sealed' : IsNative(c) = IsNative(b) /\ SamePeriod(c.done, b.done)
<1> DEFINE S == Verified(clock, current)
<1>1. /\ S \subseteq Sealed /\ Sealed \subseteq bundles /\ clock \in Nat
      /\ \A b \in Sealed : b.done \in Nat /\ b.native \in Statuses
      /\ \A b \in S : b.done <= clock BY BoundsAssumption DEF Verified, Sealed, BackupType, Bundle
<1>2. \A b \in Kept(S, clock) : b \notin gone BY DEF Pruned
<1>3. \A b \in Sealed : b \in Sealed' \/ b \in S BY DEF Sealed, Pruned
<1>4. \A b \in S \cap Kept(S, clock) : b \in Sealed' BY <1>1, <1>2 DEF Sealed
<1>5. \A T : First(T) \subseteq T BY DEF First
<1>6. First(Sealed) \subseteq Sealed'
 <2> SUFFICES ASSUME NEW f \in First(Sealed), f \in S PROVE f \in Sealed' BY <1>3, <1>5
 <2>1. f \in First(S) BY <1>1 DEF First
 <2> QED BY <1>4, <2>1 DEF Kept
<1>7. ASSUME NEW b \in Sealed, IsNative(b) PROVE \E c \in Sealed' : IsNative(c) /\ c.done >= b.done
 <2>1. CASE b \in Sealed' BY <1>1, <1>7, <2>1
 <2>2. CASE b \in S
  <3>1. PICK N : N = {c \in S : IsNative(c)} OBVIOUS
  <3>2. N \subseteq bundles /\ N # {} /\ b \in N BY <1>1, <1>7, <2>2, <3>1
  <3>3. PICK f \in First(N) : \A c \in N : f.done >= c.done BY <3>2, NewestThere DEF OwnNames
  <3>4. f \in N /\ f \in Kept(S, clock) BY <1>5, <3>1, <3>3 DEF Kept
  <3> QED BY <1>4, <3>1, <3>2, <3>3, <3>4
 <2> QED BY <1>3, <2>1, <2>2
<1>8. ASSUME NEW b \in Sealed, InWindow(b.done)
      PROVE  \E c \in Sealed' : IsNative(c) = IsNative(b) /\ SamePeriod(c.done, b.done)
 <2>1. CASE b \in Sealed' BY <2>1 DEF SamePeriod
 <2>2. CASE b \in S
  <3>1. PICK d : d = DayOf(b.done) OBVIOUS
  <3>2. PICK today : today = DayOf(clock) OBVIOUS
  <3>3. d \in Nat /\ today \in Nat /\ d <= today BY <1>1, <2>2, <3>1, <3>2, DaysInOrder
  <3>4. PICK n \in BOOLEAN : n = IsNative(b) BY DEF IsNative
  <3>5. d \in 0 .. today BY <3>3
  <3>6. CASE today - d < DaysKept
   <4>1. PICK N : N = {c \in S : DayOf(c.done) = d /\ IsNative(c) = n} OBVIOUS
   <4>2. N \subseteq bundles /\ N # {} BY <1>1, <2>2, <3>1, <3>4, <4>1
   <4>3. PICK f \in First(N) : TRUE BY <4>2, NewestThere DEF OwnNames
   <4>4. First(N) \subseteq Daily(S, clock)
    <5> DEFINE A == {e \in 0 .. DayOf(clock) : DayOf(clock) - e < DaysKept}
               F(e, m) == First({c \in S : DayOf(c.done) = e /\ IsNative(c) = m})
    <5>1. Daily(S, clock) = UNION {F(e, m) : e \in A, m \in BOOLEAN} BY DEF Daily
    <5>2. d \in A /\ F(d, n) = First(N) BY <3>2, <3>5, <3>6, <4>1
    <5> HIDE DEF A, F
    <5>3. F(d, n) \in {F(e, m) : e \in A, m \in BOOLEAN} BY <3>4, <5>2
    <5> QED BY <5>1, <5>2, <5>3
   <4>5. f \in Sealed' /\ f \in N BY <1>4, <1>5, <4>1, <4>3, <4>4 DEF Kept
   <4> QED BY <3>1, <3>2, <3>4, <3>6, <4>1, <4>5 DEF SamePeriod
  <3>7. CASE ~(today - d < DaysKept)
   <4>1. Monday(today) - Monday(d) < WeekSpan BY <1>8, <3>1, <3>2, <3>7 DEF InWindow
   <4>2. PICK N : N = {c \in S : Monday(DayOf(c.done)) = Monday(d) /\ IsNative(c) = n} OBVIOUS
   <4>3. N \subseteq bundles /\ N # {} BY <1>1, <2>2, <3>1, <3>4, <4>2
   <4>4. PICK f \in First(N) : TRUE BY <4>3, NewestThere DEF OwnNames
   <4>5. First(N) \subseteq Weekly(S, clock)
    <5> DEFINE A == {e \in 0 .. DayOf(clock) : Monday(DayOf(clock)) - Monday(e) < WeekSpan}
               F(e, m) == First({c \in S : Monday(DayOf(c.done)) = Monday(e) /\ IsNative(c) = m})
    <5>1. Weekly(S, clock) = UNION {F(e, m) : e \in A, m \in BOOLEAN} BY DEF Weekly
    <5>2. d \in A /\ F(d, n) = First(N) BY <3>2, <3>5, <4>1, <4>2
    <5> HIDE DEF A, F
    <5>3. F(d, n) \in {F(e, m) : e \in A, m \in BOOLEAN} BY <3>4, <5>2
    <5> QED BY <5>1, <5>2, <5>3
   <4>6. f \in Sealed' /\ f \in N BY <1>4, <1>5, <4>2, <4>4, <4>5 DEF Kept
   <4> QED BY <3>1, <3>2, <3>4, <3>7, <4>2, <4>6 DEF SamePeriod
  <3> QED BY <3>6, <3>7
 <2> QED BY <1>3, <2>1, <2>2
<1> QED BY <1>6, <1>7, <1>8

\* Every step but a pruning leaves the sealed bundles as they are.
LEMMA SealedStay ==
  ASSUME BackupInv, OwnNames, [Next]_vars, ~CopyDone
  PROVE  Sealed \subseteq Sealed'
<1>1. CASE UNCHANGED bundles BY <1>1 DEF Sealed
<1>2. CASE bundles' \in {bundles, Discarded} BY <1>2 DEF Sealed, Discarded
<1>3. CASE CopyStarts BY <1>3 DEF CopyStarts, Sealed
<1>4. CASE CopySeals
 <2>1. copier.kind = "copy" /\ copier.at = "files" BY <1>4 DEF CopySeals, Copying
 <2>2. \A b \in Sealed : b \in bundles /\ ~Mine(b) BY <2>1 DEF OwnNames, Sealed, Mine
 <2>3. \A b \in bundles : ~Mine(b) => b \in bundles' BY <1>4 DEF CopySeals
 <2> QED BY <2>2, <2>3 DEF Sealed
<1>5. CASE Copier BY <1>1, <1>2, <1>3, <1>4, <1>5 DEF Copier, CopyHeld, CopyFails, CopyUnread, VerifyDone, onDisk
<1>6. CASE Writer
 BY <1>1, <1>6 DEF Writer, OpenMarks, OpenFails, OpenRecovers, AdmitBegins, AdmitAttempts, AttemptFails,
   SettleWrites, SettleFails, Refresh, onDisk
<1> QED
 BY <1>1, <1>5, <1>6 DEF Next, Host, NativeStart, NativeEnd, NativeDies, Receive, Boot, Stop, Close, CloseQueued,
   CloseRuns, Crash, Tick, ClockBack, vars, onDisk

\* Retention never costs the newest bundle, nor the newest one paired with a native success, nor the last
\* bundle of a day or week of the calendar, for any calendar, clock and number of cycles (backup_cycles.retain).
THEOREM RetentionAlwaysKeeps == Spec => RetentionKeeps
<1>1. Init => OwnNames BY DEF Init, OwnNames, NoCopy
<1>2. BackupInv /\ OwnNames /\ [Next]_vars =>
          [/\ First(Sealed) \subseteq Sealed'
           /\ \A b \in Sealed : IsNative(b) => \E c \in Sealed' : IsNative(c) /\ c.done >= b.done
           /\ \A b \in Sealed : InWindow(b.done) =>
                 \E c \in Sealed' : IsNative(c) = IsNative(b) /\ SamePeriod(c.done, b.done)]_vars
 <2> SUFFICES ASSUME BackupInv, OwnNames, [Next]_vars
              PROVE  /\ First(Sealed) \subseteq Sealed'
                     /\ \A b \in Sealed : IsNative(b) => \E c \in Sealed' : IsNative(c) /\ c.done >= b.done
                     /\ \A b \in Sealed : InWindow(b.done) =>
                           \E c \in Sealed' : IsNative(c) = IsNative(b) /\ SamePeriod(c.done, b.done)
  OBVIOUS
 <2>1. CASE ~CopyDone
  <3>1. Sealed \subseteq Sealed' /\ \A b \in Sealed : b.done \in Nat
   BY <2>1, SealedStay DEF BackupInv, BackupType, Bundle, Sealed
  <3> QED BY <3>1 DEF First, SamePeriod
 <2>2. CASE CopyDone
  <3>1. PICK gone \in SUBSET Pruned(clock, copier.attempt) : bundles' = bundles \ gone BY <2>2 DEF CopyDone
  <3> QED BY <3>1, PruneSpares DEF BackupInv
 <2> QED BY <2>1, <2>2
<1> QED BY <1>1, <1>2, NamesStep, BackupAlways, PTL DEF Spec, RetentionKeeps
==============================
