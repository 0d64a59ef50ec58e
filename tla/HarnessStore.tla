---------------------------- MODULE HarnessStore ----------------------------
(***************************************************************************)
(* Managed installs: the store (harness/resources/store_core.py), its      *)
(* helper and client (harness/store.py), and wsd's harness operations      *)
(* (wsd/harness.py, harness/verify.py, harness/selection.py).              *)
(*                                                                         *)
(* A staging is one unpacked tree; the name of the install it would become *)
(* is given by its version and digest, so two stagings of one recipe       *)
(* compete for one name. The helper serves one request under the store     *)
(* lock (`req') and can stop between any two of its durable writes; wsd's  *)
(* operations hold its own lock (`storeOp') and await the helper's answer, *)
(* which may be lost while the helper goes on.                             *)
(***************************************************************************)
EXTENDS Naturals, FiniteSets, FiniteSetsExt, Sequences, SequencesExt

CONSTANTS
    Stagings,       \* the stagings that are made
    Installs,       \* the install names
    MaxStoreFaults, \* bound on the disturbances
    StoreFaults     \* the kinds of disturbance that a run allows

StoreFaultKinds == {"crash", "down", "lost", "seal", "tamper", "touch", "refuse", "unverified"}

ASSUME HarnessBounds ==
    /\ Stagings \subseteq Nat \ {0} /\ IsFiniteSet(Stagings) /\ MaxStoreFaults \in Nat
    /\ StoreFaults \subseteq StoreFaultKinds

NoOne == 0
NoName == "noname"

VARIABLES
    name,      \* the install name of each staging
    tree,      \* where each staging's tree is
    good,      \* its bytes are the ones of its manifest
    ver,       \* the change times of its entries
    sealed,    \* its root is 0555
    building,  \* stagings whose builder holds `.staging/<id>.lock'
    staged,    \* `.staged/<id>.json'
    irec,      \* `.publishing/<id>.record.json': the record R2 that it holds
    intended,  \* `.publishing/<id>.json'
    failed,    \* `.failed/<id>.json'
    pubReceipts, \* `.published/<id>.json'
    metaM,     \* names with a meta manifest
    metaR,     \* the meta record of each name
    aged,      \* stagings older than staging_hours
    begun,     \* stagings whose (random) ID was drawn
    req,       \* the helper's request under the store lock
    reply,     \* its answer to wsd
    install,   \* wsd's journaled installs, by staging
    asking,    \* stagings whose approval is being composed and posted
    decided,   \* the operator's decision on each approval bead
    sel,       \* the selection: the current install, then the previous ones
    opened,    \* uses that are journaled open
    tainted,   \* the taint markers
    launched,  \* names that an open launch was pinned to
    code,      \* the installs that the outstanding prune code lists
    storeOp,   \* wsd's operation under its harness lock
    wsd,       \* wsd runs
    disturbed, \* history: names whose tree was changed behind the store
    faults

storeFiles == <<name, tree, good, ver, sealed, building, staged, irec, intended, failed, pubReceipts, metaM, metaR, aged>>
harnessDesk == <<begun, install, asking, decided, sel, opened, tainted, launched, code>>
storeVars == <<storeFiles, req, reply, harnessDesk, storeOp, wsd, disturbed, faults>>

Fault(kind) == kind \in StoreFaults /\ faults < MaxStoreFaults /\ faults' = faults + 1
NoFault == UNCHANGED faults

------------------------------
(* Records, and what the store reads. *)

NoRec == [root |-> NoOne, ver |-> 0]
Recs == [root : Stagings, ver : 0..MaxStoreFaults]
NoReq == [do |-> "none", s |-> NoOne, at |-> NoOne, n |-> NoName, pc |-> "idle", todo |-> {}, ver |-> 0, back |-> "idle"]
NoStoreOp == [do |-> "none", s |-> NoOne, n |-> NoName, pc |-> "idle"]
InstallRows == {"none", "staged", "posted", "approved", "published", "failed", "denied", "expired"}

\* store_core.statx_at: any change to an entry moves its change time.
statx(s) == ver[s]

\* store_core.record: every entry's device, inode and change time, and the root's own.
RecordOf(s) == [root |-> s, ver |-> statx(s)]

\* store_core.rehash and _structure: the bytes and the shape are the manifest's.
BytesMatch(s) == good[s]

\* store_core._naming of the receipts and of the intents.
ReceiptsOf(n) == {s \in pubReceipts : name[s] = n}
IntentsOf(n) == {s \in intended : name[s] = n}

\* The tree at the install path of n.
TreeAt(n) == {s \in Stagings : tree[s] = "install" /\ name[s] = n}

\* store_core._held: anything in the store holds the name.
NameHeld(n) ==
    \/ TreeAt(n) # {} \/ n \in metaM \/ metaR[n] # NoRec \/ ReceiptsOf(n) # {} \/ IntentsOf(n) # {}

\* store_core.check_fast: the root is 0555, and every entry is the one of the record.
CheckFast(s, rec) == tree[s] # "none" /\ sealed[s] /\ rec = RecordOf(s)

\* store_core._state.
InstallState(n) ==
    IF IntentsOf(n) # {} THEN "publishing"
    ELSE IF ~NameHeld(n) THEN "absent"
    ELSE IF \E s \in pubReceipts :
            ReceiptsOf(n) = {s} /\ TreeAt(n) = {s} /\ n \in metaM /\ CheckFast(s, metaR[n]) THEN "published"
    ELSE "broken"

\* store_core._outcome of a staging.
CheckOutcome(s) ==
    CASE s \in pubReceipts -> IF InstallState(name[s]) = "published" THEN "published" ELSE "failed"
      [] s \notin pubReceipts /\ s \in failed -> "failed"
      [] s \notin pubReceipts \cup failed /\ s \in staged -> "staged"
      [] OTHER -> "unknown"

------------------------------
(* The helper's requests: decode, recover every intent, sweep, then the    *)
(* operation. wsd sends one and waits (store._Client, HelperStore._call).  *)

StoreGo(pc) == req' = [req EXCEPT !.pc = pc]

\* serve: the one reply line; nobody reads it once wsd gave up.
StoreAnswer(a) == reply' = (IF reply = "awaited" THEN a ELSE reply) /\ req' = NoReq

\* store_core.decode_request, handle: what is left to recover is fixed when the lock is taken.
StoreRequest(do, s, n) ==
    /\ req = NoReq
    /\ req' = [NoReq EXCEPT !.do = do, !.s = s, !.n = n, !.pc = "recover",
                            !.todo = {i \in Stagings : i \in intended \/ irec[i] # NoRec}]
    /\ reply' = "awaited"

\* store_core._reverify: R3 is R2 but for the root, the rehash passes, R4 is R3; the root is sealed.
Reverify(s) == RecordOf(s) = irec[s] /\ BytesMatch(s)

\* store_core._committed_agree: committed meta files are the ones that recovery would write.
CommittedAgree(s) ==
    metaR[name[s]] = NoRec \/ (name[s] \in metaM /\ metaR[name[s]] = irec[s])

\* store_core._recover_one of the least staging that is left.
RecoverOne ==
    /\ req.pc = "recover" /\ req.todo # {}
    /\ LET s == Min(req.todo)
           found == irec[s] # NoRec /\ (s \in staged \/ name[s] \in metaM)
           Then(pc) == req' = [req EXCEPT !.pc = pc, !.todo = @ \ {s}, !.back = "recover", !.at = s]
       IN  \/ /\ s \notin intended
              /\ irec' = [irec EXCEPT ![s] = NoRec]
              /\ req' = [req EXCEPT !.todo = @ \ {s}] /\ UNCHANGED sealed
           \/ /\ s \in intended /\ s \in pubReceipts /\ Then("unstage") /\ UNCHANGED <<irec, sealed>>
           \/ /\ s \in intended \cap failed /\ s \notin pubReceipts /\ Then("untree") /\ UNCHANGED <<irec, sealed>>
           \/ /\ s \in intended /\ s \notin pubReceipts \cup failed
              /\ IF found /\ tree[s] = "staging" THEN Then("unrecord") /\ UNCHANGED sealed
                 ELSE IF found /\ tree[s] = "install"
                 THEN /\ sealed' = [sealed EXCEPT ![s] = TRUE]
                      /\ Then(IF Reverify(s) /\ CommittedAgree(s) THEN "P3" ELSE "fail")
                 ELSE Then("fail") /\ UNCHANGED sealed
              /\ UNCHANGED irec
    /\ UNCHANGED <<name, tree, good, ver, building, staged, intended, failed, pubReceipts, metaM, metaR, aged,
                   reply, harnessDesk, storeOp, wsd, disturbed, faults>>

\* store_core._sweep: stagings that no intent names. A stop in it leaves a partial one, which goes next time.
Sweep ==
    /\ req.pc = "recover" /\ req.todo = {}
    /\ LET partial == {s \in Stagings : tree[s] = "staging" /\ s \notin staged \cup building \cup intended}
           old == (staged \cap aged) \ (building \cup intended)
       IN  /\ staged' = staged \ old
           /\ \/ /\ tree' = [s \in Stagings |-> IF s \in partial \cup (old \cap {i \in old : tree[i] = "staging"})
                                                THEN "none" ELSE tree[s]]
                 /\ StoreGo(req.do) /\ NoFault
              \/ Fault("crash") /\ req' = NoReq /\ UNCHANGED tree
    /\ UNCHANGED <<name, good, ver, sealed, building, irec, intended, failed, pubReceipts, metaM, metaR, aged,
                   reply, harnessDesk, storeOp, wsd, disturbed>>

StoreReads ==
    /\ req.pc \in {"recovered", "list", "state", "outcome"}
    /\ StoreAnswer(CASE req.pc = "outcome" -> CheckOutcome(req.s)
                [] req.pc \in {"state", "list"} -> InstallState(req.n)
                [] OTHER -> "ok")
    /\ UNCHANGED <<storeFiles, harnessDesk, storeOp, wsd, disturbed, faults>>

------------------------------
(* store_core.stage: the tree is built outside the store lock. *)

\* What can be wrong with what is handed to stage, at most one thing at a time.
StagingFlaws == {"none", "parts", "bytes", "git", "member", "version", "link"}
Given(f) == IF f = "none" THEN NoFault ELSE Fault("refuse")

\* _check_parts: the parts, their layout and their descriptors, before anything is made.
PartsOk(f) == f # "parts"

\* verify_checksum of a private copy (_copy, _tar), and check_git of an archive's tree and commit.
ChecksumOk(f) == f # "bytes"
GitOk(f) == f # "git"

\* _Unpacker: every member a plain directory, file or link that replaces nothing and passes through nothing.
MembersOk(f) == f # "member"

\* _version: the metadata gives a plain version, the target and an executable entry point.
VersionOk(f) == f # "version"

\* walk: two equal passes, no mount crossed, every link resolves inside.
Walks(f) == f # "link"

StageBegin(f) ==
    /\ req.pc = "stage" /\ f \in {"none", "parts"} /\ Given(f)
    /\ IF PartsOk(f)
       THEN /\ tree' = [tree EXCEPT ![req.s] = "staging"] /\ building' = building \cup {req.s}
            /\ StoreAnswer("ok")
       ELSE StoreAnswer("refused") /\ UNCHANGED <<tree, building>>
    /\ UNCHANGED <<name, good, ver, sealed, staged, irec, intended, failed, pubReceipts, metaM, metaR, aged,
                   harnessDesk, storeOp, wsd, disturbed>>

\* _unpack, _version, _seal and _commit, which waits for the store lock; a refusal discards the staging.
StageEnd(s, f) ==
    /\ s \in building /\ PartsOk(f) /\ Given(f)
    /\ building' = building \ {s}
    /\ IF ChecksumOk(f) /\ GitOk(f) /\ MembersOk(f) /\ VersionOk(f) /\ Walks(f)
       THEN /\ req = NoReq
            /\ staged' = staged \cup {s} /\ sealed' = [sealed EXCEPT ![s] = TRUE] /\ UNCHANGED tree
       ELSE tree' = [tree EXCEPT ![s] = "none"] /\ UNCHANGED <<staged, sealed>>
    /\ UNCHANGED <<name, good, ver, irec, intended, failed, pubReceipts, metaM, metaR, aged, req, reply,
                   harnessDesk, storeOp, wsd, disturbed>>

------------------------------
(* store_core._publish and _publish_tree. *)

\* A staging that is already decided, or that is not there.
PublishDecided ==
    /\ req.pc = "publish"
    /\ req.s \in pubReceipts \cup failed \/ req.s \notin staged \/ tree[req.s] # "staging"
    /\ StoreAnswer(IF req.s \in pubReceipts /\ InstallState(name[req.s]) = "published" THEN "ok" ELSE "refused")
    /\ UNCHANGED <<storeFiles, harnessDesk, storeOp, wsd, disturbed, faults>>

\* The name is free, the root sealed again, and R1 taken; a conflict fails the staging.
PublishBegin ==
    /\ req.pc = "publish"
    /\ req.s \notin pubReceipts \cup failed /\ req.s \in staged /\ tree[req.s] = "staging"
    /\ IF NameHeld(name[req.s]) THEN StoreGo("conflict") /\ UNCHANGED sealed
       ELSE /\ sealed' = [sealed EXCEPT ![req.s] = TRUE]
            /\ req' = [req EXCEPT !.pc = "rehash", !.at = req.s, !.ver = ver[req.s]]
    /\ UNCHANGED <<name, tree, good, ver, building, staged, irec, intended, failed, pubReceipts, metaM, metaR, aged,
                   reply, harnessDesk, storeOp, wsd, disturbed, faults>>

PublishRehash ==
    /\ req.pc = "rehash"
    /\ StoreGo(IF BytesMatch(req.s) THEN "R2" ELSE "discard")
    /\ UNCHANGED <<storeFiles, reply, harnessDesk, storeOp, wsd, disturbed, faults>>

\* Mutant: R2 is written without the comparison with R1.
PublishR2Only ==
    /\ req.pc = "R2"
    /\ irec' = [irec EXCEPT ![req.s] = RecordOf(req.s)] /\ StoreGo("intent")
    /\ UNCHANGED <<name, tree, good, ver, sealed, building, staged, intended, failed, pubReceipts, metaM, metaR,
                   aged, reply, harnessDesk, storeOp, wsd, disturbed, faults>>

\* R2 is R1, or the tree changed while it was read; then P1's record.
PublishR2 ==
    /\ req.pc = "R2"
    /\ IF ver[req.s] = req.ver
       THEN irec' = [irec EXCEPT ![req.s] = RecordOf(req.s)] /\ StoreGo("intent")
       ELSE StoreGo("discard") /\ UNCHANGED irec
    /\ UNCHANGED <<name, tree, good, ver, sealed, building, staged, intended, failed, pubReceipts, metaM, metaR,
                   aged, reply, harnessDesk, storeOp, wsd, disturbed, faults>>

\* store_core._fail, before the intent: the failure first, then the staging goes.
PublishFail ==
    /\ req.pc \in {"conflict", "discard"}
    /\ failed' = failed \cup {req.s}
    /\ staged' = staged \ {req.s}
    /\ tree' = [tree EXCEPT ![req.s] = "none"]
    /\ StoreAnswer(IF req.pc = "conflict" THEN "conflict" ELSE "refused")
    /\ UNCHANGED <<name, good, ver, sealed, building, irec, intended, pubReceipts, metaM, metaR, aged, harnessDesk, storeOp,
                   wsd, disturbed, faults>>

PublishIntent ==
    /\ req.pc = "intent"
    /\ intended' = intended \cup {req.s}
    /\ StoreGo("rename")
    /\ UNCHANGED <<name, tree, good, ver, sealed, building, staged, irec, failed, pubReceipts, metaM, metaR, aged,
                   reply, harnessDesk, storeOp, wsd, disturbed, faults>>

\* P2: the root is made writable and renamed without replacing anything; it is not sealed yet.
PublishRename ==
    /\ req.pc = "rename"
    /\ sealed' = [sealed EXCEPT ![req.at] = FALSE]
    /\ tree' = [tree EXCEPT ![req.at] = "install"]
    /\ req' = [req EXCEPT !.pc = "seal", !.back = "publish"]
    /\ UNCHANGED <<name, good, ver, building, staged, irec, intended, failed, pubReceipts, metaM, metaR, aged, reply,
                   harnessDesk, storeOp, wsd, disturbed, faults>>

\* _seal_root and check_fast with the root's new change time. A seal that fails leaves it to recovery.
PublishSeal ==
    /\ req.pc = "seal"
    /\ \/ /\ NoFault /\ sealed' = [sealed EXCEPT ![req.at] = TRUE]
          /\ StoreGo(IF RecordOf(req.at) = irec[req.at] THEN "P3" ELSE "fail") /\ UNCHANGED reply
       \/ Fault("seal") /\ StoreAnswer("refused") /\ UNCHANGED sealed
    /\ UNCHANGED <<name, tree, good, ver, building, staged, irec, intended, failed, pubReceipts, metaM, metaR, aged,
                   harnessDesk, storeOp, wsd, disturbed>>

\* store_core._complete: P3 the manifest, P4 the record, P5 the receipt.
CompleteP3 ==
    /\ req.pc = "P3"
    /\ metaM' = metaM \cup {name[req.at]} /\ StoreGo("P4")
    /\ UNCHANGED <<name, tree, good, ver, sealed, building, staged, irec, intended, failed, pubReceipts, metaR, aged,
                   reply, harnessDesk, storeOp, wsd, disturbed, faults>>

CompleteP4 ==
    /\ req.pc = "P4"
    /\ metaR' = [metaR EXCEPT ![name[req.at]] = irec[req.at]] /\ StoreGo("P5")
    /\ UNCHANGED <<name, tree, good, ver, sealed, building, staged, irec, intended, failed, pubReceipts, metaM, aged,
                   reply, harnessDesk, storeOp, wsd, disturbed, faults>>

CompleteP5 ==
    /\ req.pc = "P5"
    /\ pubReceipts' = pubReceipts \cup {req.at} /\ StoreGo("unstage")
    /\ UNCHANGED <<name, tree, good, ver, sealed, building, staged, irec, intended, failed, metaM, metaR, aged,
                   reply, harnessDesk, storeOp, wsd, disturbed, faults>>

\* store_core._abandon: the failure first, then the tree if its root is the intent's, then the meta files.
AbandonFail ==
    /\ req.pc = "fail"
    /\ failed' = failed \cup {req.at} /\ StoreGo("untree")
    /\ UNCHANGED <<name, tree, good, ver, sealed, building, staged, irec, intended, pubReceipts, metaM, metaR, aged,
                   reply, harnessDesk, storeOp, wsd, disturbed, faults>>

AbandonTree ==
    /\ req.pc = "untree"
    /\ tree' = [tree EXCEPT ![req.at] = "none"] /\ StoreGo("unmeta")
    /\ UNCHANGED <<name, good, ver, sealed, building, staged, irec, intended, failed, pubReceipts, metaM, metaR,
                   aged, reply, harnessDesk, storeOp, wsd, disturbed, faults>>

\* ... the meta files only if no receipt names them and this intent wrote them.
AbandonMeta ==
    /\ req.pc = "unmeta"
    /\ LET n == name[req.at] IN
       IF ReceiptsOf(n) = {}
       THEN /\ metaR' = IF metaR[n] = irec[req.at] THEN [metaR EXCEPT ![n] = NoRec] ELSE metaR
            /\ metaM' = metaM \ {n}
       ELSE UNCHANGED <<metaM, metaR>>
    /\ StoreGo("unstage")
    /\ UNCHANGED <<name, tree, good, ver, sealed, building, staged, irec, intended, failed, pubReceipts, aged, reply,
                   harnessDesk, storeOp, wsd, disturbed, faults>>

\* store_core._cleanup (P6), and the restart of a publish whose tree never left the staging.
CleanStaged ==
    /\ req.pc = "unstage"
    /\ staged' = staged \ {req.at} /\ StoreGo("unrecord")
    /\ UNCHANGED <<name, tree, good, ver, sealed, building, irec, intended, failed, pubReceipts, metaM, metaR, aged,
                   reply, harnessDesk, storeOp, wsd, disturbed, faults>>

CleanRecord ==
    /\ req.pc = "unrecord"
    /\ irec' = [irec EXCEPT ![req.at] = NoRec] /\ StoreGo("unintent")
    /\ UNCHANGED <<name, tree, good, ver, sealed, building, staged, intended, failed, pubReceipts, metaM, metaR,
                   aged, reply, harnessDesk, storeOp, wsd, disturbed, faults>>

CleanIntent ==
    /\ req.pc = "unintent"
    /\ intended' = intended \ {req.at}
    /\ IF req.back = "recover" THEN StoreGo("recover") /\ UNCHANGED reply
       ELSE StoreAnswer(IF req.at \in pubReceipts THEN "ok" ELSE "refused")
    /\ UNCHANGED <<name, tree, good, ver, sealed, building, staged, irec, failed, pubReceipts, metaM, metaR, aged,
                   harnessDesk, storeOp, wsd, disturbed, faults>>

------------------------------
(* store_core._verify and _remove_install. *)

VerifyBegin ==
    /\ req.pc = "verify"
    /\ LET s == CHOOSE s \in ReceiptsOf(req.n) : TRUE IN
       IF req.n \notin metaM THEN StoreAnswer("absent")
       ELSE IF Cardinality(ReceiptsOf(req.n)) # 1 \/ TreeAt(req.n) # ReceiptsOf(req.n) \/ ~BytesMatch(s) \/ ~sealed[s]
       THEN StoreAnswer("refused")
       ELSE req' = [req EXCEPT !.pc = "V2", !.s = s, !.ver = ver[s]] /\ UNCHANGED reply
    /\ UNCHANGED <<storeFiles, harnessDesk, storeOp, wsd, disturbed, faults>>

\* V2 is V1, and becomes the record.
VerifyEnd ==
    /\ req.pc = "V2"
    /\ IF ver[req.s] = req.ver
       THEN metaR' = [metaR EXCEPT ![req.n] = RecordOf(req.s)] /\ StoreAnswer("ok")
       ELSE StoreAnswer("refused") /\ UNCHANGED metaR
    /\ UNCHANGED <<name, tree, good, ver, sealed, building, staged, irec, intended, failed, pubReceipts, metaM, aged,
                   harnessDesk, storeOp, wsd, disturbed, faults>>

RemoveMeta ==
    /\ req.pc = "remove"
    /\ IF ~NameHeld(req.n) THEN StoreAnswer("absent") /\ UNCHANGED <<metaR>>
       ELSE IF ~(TreeAt(req.n) \subseteq ReceiptsOf(req.n) \cup IntentsOf(req.n))
       THEN StoreAnswer("refused") /\ UNCHANGED metaR
       ELSE metaR' = [metaR EXCEPT ![req.n] = NoRec] /\ StoreGo("rmmanifest") /\ UNCHANGED reply
    /\ UNCHANGED <<name, tree, good, ver, sealed, building, staged, irec, intended, failed, pubReceipts, metaM, aged,
                   harnessDesk, storeOp, wsd, disturbed, faults>>

RemoveTree ==
    /\ req.pc \in {"rmmanifest", "rmtree"}
    /\ IF req.pc = "rmmanifest" THEN metaM' = metaM \ {req.n} /\ StoreGo("rmtree") /\ UNCHANGED tree
       ELSE tree' = [s \in Stagings |-> IF s \in TreeAt(req.n) THEN "none" ELSE tree[s]] /\ StoreGo("rmreceipt")
            /\ UNCHANGED metaM
    /\ UNCHANGED <<name, good, ver, sealed, building, staged, irec, intended, failed, pubReceipts, metaR, aged,
                   reply, harnessDesk, storeOp, wsd, disturbed, faults>>

RemoveReceipt ==
    /\ req.pc = "rmreceipt"
    /\ pubReceipts' = pubReceipts \ ReceiptsOf(req.n)
    /\ StoreAnswer("ok")
    /\ UNCHANGED <<name, tree, good, ver, sealed, building, staged, irec, intended, failed, metaM, metaR, aged,
                   harnessDesk, storeOp, wsd, disturbed, faults>>

StoreHelper ==
    \/ RecoverOne \/ Sweep \/ StoreReads \/ PublishDecided \/ PublishBegin \/ PublishRehash
    \/ PublishR2 \/ PublishFail \/ PublishIntent \/ PublishRename \/ PublishSeal \/ CompleteP3 \/ CompleteP4
    \/ CompleteP5 \/ AbandonFail \/ AbandonTree \/ AbandonMeta \/ CleanStaged \/ CleanRecord \/ CleanIntent
    \/ VerifyBegin \/ VerifyEnd \/ RemoveMeta \/ RemoveTree \/ RemoveReceipt
    \/ \E f \in StagingFlaws : StageBegin(f) \/ \E s \in Stagings : StageEnd(s, f)

------------------------------
(* wsd's operations (HarnessOps). *)

OpFree == wsd /\ storeOp = NoStoreOp /\ reply = "none"
OpDone == storeOp' = NoStoreOp /\ reply' = "none"
EndRow(s, state) == install' = [install EXCEPT ![s] = state]

\* wsd waits for the helper's answer; it gives up after HELPER_TIMEOUT, and a helper that died is an answer too.
GiveUp ==
    /\ reply = "awaited"
    /\ \/ req = NoReq /\ NoFault
       \/ req # NoReq /\ Fault("lost")
    /\ reply' = "lost"
    /\ UNCHANGED <<storeFiles, req, harnessDesk, storeOp, wsd, disturbed>>

\* install: fetch, stage, then the row. Only one is made for each staging.
InstallStage(s) ==
    /\ OpFree /\ s \notin begun /\ \A t \in Stagings : t < s => t \in begun
    /\ begun' = begun \cup {s}
    /\ StoreRequest("stage", s, name[s])
    /\ storeOp' = [NoStoreOp EXCEPT !.do = "install", !.s = s, !.pc = "stage"]
    /\ UNCHANGED <<storeFiles, install, asking, decided, sel, opened, tainted, launched, code, wsd, disturbed, faults>>

InstallStaged ==
    /\ storeOp.do = "install" /\ reply \notin {"awaited", "none"} /\ storeOp.s \notin building
    /\ IF reply = "ok" /\ storeOp.s \in staged
       THEN install' = [install EXCEPT ![storeOp.s] = "staged"] /\ asking' = asking \cup {storeOp.s}
       ELSE UNCHANGED <<install, asking>>
    /\ OpDone
    /\ UNCHANGED <<storeFiles, req, begun, decided, sel, opened, tainted, launched, code, wsd, disturbed, faults>>

\* _ask: compose, scan, create, read back, post; anything amiss fails the row (_fail_open).
AskApproval(s) ==
    /\ wsd /\ s \in asking /\ storeOp = NoStoreOp
    /\ asking' = asking \ {s}
    /\ IF install[s] # "staged" THEN UNCHANGED <<install, faults>>
       ELSE \/ EndRow(s, "posted") /\ NoFault
            \/ EndRow(s, "failed") /\ Fault("refuse")
    /\ UNCHANGED <<storeFiles, req, reply, begun, decided, sel, opened, tainted, launched, code, storeOp, wsd, disturbed>>

DecideInstall(s) ==
    /\ install[s] = "posted" /\ decided[s] = "none"
    /\ \E d \in {"approved", "denied"} : decided' = [decided EXCEPT ![s] = d]
    /\ UNCHANGED <<storeFiles, req, reply, begun, install, asking, sel, opened, tainted, launched, code, storeOp, wsd, disturbed,
                   faults>>

\* approvals.verdict with _effect_ok: the readout, the bead and the staged manifest agree.
Unverified(s) == s \notin staged
VerdictFails == Fault("unverified")

\* advance, _advance and _decide of one open row.
AdvanceInstall(s) ==
    /\ OpFree
    /\ \/ /\ install[s] \in {"staged", "posted"} /\ s \in aged
          /\ EndRow(s, "expired") /\ NoFault /\ UNCHANGED storeOp
       \/ /\ install[s] = "posted" /\ s \notin aged /\ decided[s] = "denied"
          /\ EndRow(s, "denied") /\ NoFault /\ UNCHANGED storeOp
       \/ /\ install[s] = "posted" /\ s \notin aged /\ decided[s] = "approved"
          /\ IF Unverified(s) THEN EndRow(s, "failed") /\ NoFault /\ UNCHANGED storeOp
             ELSE \/ EndRow(s, "failed") /\ VerdictFails /\ UNCHANGED storeOp
                  \/ /\ EndRow(s, "approved") /\ NoFault
                     /\ storeOp' = [NoStoreOp EXCEPT !.do = "settle", !.s = s, !.n = name[s], !.pc = "outcome"]
       \/ /\ install[s] = "approved" /\ NoFault /\ UNCHANGED install
          /\ storeOp' = [NoStoreOp EXCEPT !.do = "settle", !.s = s, !.n = name[s], !.pc = "recover"]
    /\ UNCHANGED <<storeFiles, req, reply, begun, asking, decided, sel, opened, tainted, launched, code, wsd, disturbed>>

\* _recover_store and _settle: each question is a request of its own.
SettleAsk ==
    /\ storeOp.do = "settle" /\ reply = "none" /\ storeOp.pc \in {"recover", "outcome", "publish", "state"}
    /\ StoreRequest(IF storeOp.pc = "recover" THEN "recovered" ELSE storeOp.pc, storeOp.s, storeOp.n)
    /\ UNCHANGED <<storeFiles, harnessDesk, storeOp, wsd, disturbed, faults>>

\* ... a failure and a name conflict end the row; anything else leaves it approved, to be settled again.
SettleAnswer ==
    /\ storeOp.do = "settle" /\ reply \notin {"awaited", "none"}
    /\ reply' = "none"
    /\ IF storeOp.pc = "recover" THEN storeOp' = [storeOp EXCEPT !.pc = "outcome"] /\ UNCHANGED install
       ELSE IF storeOp.pc = "outcome" /\ reply = "staged" THEN storeOp' = [storeOp EXCEPT !.pc = "publish"] /\ UNCHANGED install
       ELSE IF storeOp.pc = "outcome" /\ reply = "published" THEN storeOp' = [storeOp EXCEPT !.pc = "state"] /\ UNCHANGED install
       ELSE /\ storeOp' = NoStoreOp
            /\ IF (storeOp.pc = "publish" /\ reply = "ok") \/ (storeOp.pc = "state" /\ reply = "published")
               THEN EndRow(storeOp.s, "published")
               ELSE IF (storeOp.pc = "outcome" /\ reply = "failed") \/ reply = "conflict"
               THEN EndRow(storeOp.s, "failed") ELSE UNCHANGED install
    /\ UNCHANGED <<storeFiles, req, begun, asking, decided, sel, opened, tainted, launched, code, wsd, disturbed, faults>>

\* use and rollback: the pin must be published (_pin), no publish of the adapter undecided, and verify_pin.
UseBegin(n) ==
    /\ OpFree /\ storeOp' = [NoStoreOp EXCEPT !.do = "use", !.n = n, !.pc = "list"] /\ StoreRequest("list", NoOne, n)
    /\ UNCHANGED <<storeFiles, harnessDesk, wsd, disturbed, faults>>

\* verify.verify_pin: the marker, the meta files, check_fast; a mismatch taints the install.
PinMatches(n) == n \notin tainted /\ n \in metaM /\ \E s \in TreeAt(n) : CheckFast(s, metaR[n])
TaintOf(n) == IF TreeAt(n) # {} THEN tainted \cup {n} ELSE tainted

\* _select: the use is journaled open, the selection written; then it is closed.
UseSelect ==
    /\ storeOp.do = "use" /\ storeOp.pc = "list" /\ reply \notin {"awaited", "none"}
    /\ reply' = "none"
    /\ IF reply # "published" \/ \E s \in Stagings : install[s] = "approved"
       THEN storeOp' = NoStoreOp /\ UNCHANGED <<opened, tainted>>
       ELSE IF ~PinMatches(storeOp.n)
       THEN storeOp' = NoStoreOp /\ tainted' = TaintOf(storeOp.n) /\ UNCHANGED opened
       ELSE storeOp' = [storeOp EXCEPT !.pc = "write"] /\ opened' = opened \cup {storeOp.n} /\ UNCHANGED tainted
    /\ UNCHANGED <<storeFiles, req, begun, install, asking, decided, sel, launched, code, wsd, disturbed, faults>>

\* _select writes what use or rollback composed: the pin first, then the others (a selection has each pin once).
UseWrite ==
    /\ storeOp.do = "use" /\ storeOp.pc = "write"
    /\ sel' = <<storeOp.n>> \o RemoveFirst(sel, storeOp.n)
    /\ storeOp' = [storeOp EXCEPT !.pc = "close"]
    /\ UNCHANGED <<storeFiles, req, reply, begun, install, asking, decided, opened, tainted, launched, code, wsd, disturbed,
                   faults>>

UseClose ==
    /\ storeOp.do = "use" /\ storeOp.pc = "close"
    /\ opened' = opened \ {storeOp.n} /\ storeOp' = NoStoreOp
    /\ UNCHANGED <<storeFiles, req, reply, begun, install, asking, decided, sel, tainted, launched, code, wsd, disturbed,
                   faults>>

\* Parker._pin journals the selected install, and the runtime's verify_pin accepts or taints it
\* under the same lane; the entry is settled as abandoned, or its session ends, later.
LaunchPinned ==
    /\ wsd /\ storeOp = NoStoreOp /\ sel # <<>>
    /\ IF PinMatches(Head(sel)) THEN launched' = launched \cup {Head(sel)} /\ UNCHANGED tainted
       ELSE tainted' = TaintOf(Head(sel)) /\ UNCHANGED launched
    /\ UNCHANGED <<storeFiles, req, reply, begun, install, asking, decided, sel, opened, code, storeOp, wsd, disturbed,
                   faults>>

PinnedEnds(n) ==
    /\ n \in launched
    /\ launched' = launched \ {n}
    /\ UNCHANGED <<storeFiles, req, reply, begun, install, asking, decided, sel, opened, tainted, code, storeOp, wsd, disturbed,
                   faults>>

\* Mutant: only the current selection protects an install.
InUseCurrent(n) ==
    n \in launched \/ (sel # <<>> /\ Head(sel) = n) \/ n \in opened

\* HarnessOps.in_use: launches, the selection and the one before it, open uses, open rows.
InUse(n) ==
    \/ n \in launched
    \/ \E i \in 1..Len(sel) : i <= 2 /\ sel[i] = n
    \/ n \in opened
    \/ \E s \in Stagings : install[s] = "approved" \/ (install[s] \in {"staged", "posted"} /\ name[s] = n)

\* prune without a code lists what is unused; a code is good once.
PruneList ==
    /\ OpFree /\ req = NoReq
    /\ code' = {n \in Installs : InstallState(n) = "published" /\ ~InUse(n)}
    /\ UNCHANGED <<storeFiles, req, reply, begun, install, asking, decided, sel, opened, tainted, launched, storeOp, wsd, disturbed,
                   faults>>

\* remove, and prune with its code: under every launch guard's lock, of an install that is not in use.
RemoveBegin(n) ==
    /\ OpFree /\ ~InUse(n)
    /\ \/ UNCHANGED code
       \/ n \in code /\ InstallState(n) = "published" /\ code' = {}
    /\ StoreRequest("remove", NoOne, n)
    /\ storeOp' = [NoStoreOp EXCEPT !.do = "remove", !.n = n, !.pc = "remove"]
    /\ UNCHANGED <<storeFiles, begun, install, asking, decided, sel, opened, tainted, launched, wsd, disturbed, faults>>

RemoveEnd ==
    /\ storeOp.do = "remove" /\ reply \notin {"awaited", "none"}
    /\ tainted' = (IF reply = "ok" THEN tainted \ {storeOp.n} ELSE tainted)
    /\ OpDone
    /\ UNCHANGED <<storeFiles, req, begun, install, asking, decided, sel, opened, launched, code, wsd, disturbed, faults>>

\* verify: the rehash clears the taint, a refusal other than a missing install taints it.
VerifyOp(n) ==
    /\ OpFree /\ StoreRequest("verify", NoOne, n)
    /\ storeOp' = [NoStoreOp EXCEPT !.do = "verify", !.n = n, !.pc = "verify"]
    /\ UNCHANGED <<storeFiles, harnessDesk, wsd, disturbed, faults>>

VerifyDone ==
    /\ storeOp.do = "verify" /\ reply \notin {"awaited", "none"}
    /\ tainted' = (CASE reply = "ok" -> tainted \ {storeOp.n}
                     [] reply = "absent" -> tainted
                     [] OTHER -> tainted \cup {storeOp.n})
    /\ OpDone
    /\ UNCHANGED <<storeFiles, req, begun, install, asking, decided, sel, opened, launched, code, wsd, disturbed, faults>>

HarnessOps ==
    \/ GiveUp \/ InstallStaged \/ SettleAsk \/ SettleAnswer \/ UseSelect \/ UseWrite \/ UseClose \/ LaunchPinned
    \/ PruneList \/ RemoveEnd \/ VerifyDone
    \/ \E s \in Stagings : InstallStage(s) \/ AskApproval(s) \/ DecideInstall(s) \/ AdvanceInstall(s)
    \/ \E n \in Installs : UseBegin(n) \/ PinnedEnds(n) \/ RemoveBegin(n) \/ VerifyOp(n)

------------------------------
(* Crashes, restarts, and what happens to the files behind the store. *)

\* The helper stops: the flock dies with it. A builder's staging stays as it is.
HelperDies ==
    /\ Fault("crash")
    /\ \/ req # NoReq /\ req' = NoReq /\ UNCHANGED building
       \/ \E s \in building : building' = building \ {s} /\ UNCHANGED req
    /\ UNCHANGED <<name, tree, good, ver, sealed, staged, irec, intended, failed, pubReceipts, metaM, metaR, aged,
                   reply, harnessDesk, storeOp, wsd, disturbed>>

WsdDies ==
    /\ wsd /\ Fault("down")
    /\ wsd' = FALSE /\ storeOp' = NoStoreOp /\ reply' = "none" /\ asking' = {} /\ code' = {}
    /\ UNCHANGED <<storeFiles, req, begun, install, decided, sel, opened, tainted, launched, disturbed>>

\* HarnessOps.recover: open uses are closed, rows whose worker died fail; the approved rows are settled next.
WsdStarts ==
    /\ ~wsd /\ wsd' = TRUE
    /\ opened' = {}
    /\ install' = [s \in Stagings |-> IF install[s] = "staged" THEN "failed" ELSE install[s]]
    /\ UNCHANGED <<storeFiles, req, reply, begun, asking, decided, sel, tainted, launched, code, storeOp, disturbed, faults>>

\* Another process changes the tree's bytes, or only its change times.
TreeChanges(s) ==
    /\ tree[s] # "none" /\ s \notin building
    /\ \/ Fault("tamper") /\ good' = [good EXCEPT ![s] = FALSE]
       \/ Fault("touch") /\ UNCHANGED good
    /\ ver' = [ver EXCEPT ![s] = @ + 1]
    /\ disturbed' = disturbed \cup {name[s]}
    /\ UNCHANGED <<name, tree, sealed, building, staged, irec, intended, failed, pubReceipts, metaM, metaR, aged, req,
                   reply, harnessDesk, storeOp, wsd>>

StagingAges(s) ==
    /\ tree[s] = "staging" /\ s \notin aged \cup building
    /\ aged' = aged \cup {s}
    /\ UNCHANGED <<name, tree, good, ver, sealed, building, staged, irec, intended, failed, pubReceipts, metaM, metaR,
                   req, reply, harnessDesk, storeOp, wsd, disturbed, faults>>

StoreWorld ==
    HelperDies \/ WsdDies \/ WsdStarts \/ \E s \in Stagings : TreeChanges(s) \/ StagingAges(s)

StoreInit ==
    /\ name \in [Stagings -> Installs]
    /\ tree = [s \in Stagings |-> "none"] /\ good = [s \in Stagings |-> TRUE]
    /\ ver = [s \in Stagings |-> 0] /\ sealed = [s \in Stagings |-> FALSE]
    /\ building = {} /\ staged = {} /\ irec = [s \in Stagings |-> NoRec] /\ intended = {} /\ failed = {}
    /\ pubReceipts = {} /\ metaM = {} /\ metaR = [n \in Installs |-> NoRec] /\ aged = {} /\ begun = {}
    /\ req = NoReq /\ reply = "none" /\ install = [s \in Stagings |-> "none"] /\ asking = {}
    /\ decided = [s \in Stagings |-> "none"] /\ sel = <<>> /\ opened = {} /\ tainted = {} /\ launched = {}
    /\ code = {} /\ storeOp = NoStoreOp /\ wsd = TRUE /\ disturbed = {} /\ faults = 0

StoreNext == StoreHelper \/ HarnessOps \/ StoreWorld
StoreSpec == StoreInit /\ [][StoreNext]_storeVars

------------------------------

\* What the store calls published is the tree that the operator approved, byte for byte: publish reads the
\* bytes between two equal records (R1, R2), recovery reads them again, and check_fast holds the record.
PublishedIsApproved ==
    \A n \in Installs : InstallState(n) = "published" =>
        \A s \in ReceiptsOf(n) : good[s] /\ decided[s] = "approved"

\* A row that wsd ended without a publication is never published later: an answer that was lost leaves it
\* approved, and the store's own evidence decides (_settle).
EndedUnpublished ==
    \A s \in Stagings :
        install[s] \in {"failed", "denied", "expired"} /\ name[s] \notin disturbed => s \notin pubReceipts \cup intended

\* An install that a launch is pinned to, or that is selected or next to roll back to, stays published
\* unless its tree was changed behind the store: removal looks at all of them (in_use).
InUseStays ==
    \A n \in Installs \ disturbed :
        (n \in launched \/ \E i \in 1..Len(sel) : i <= 2 /\ sel[i] = n) => InstallState(n) = "published"
==============================
