------------------------- MODULE LaunchGuardProofs -------------------------
(***************************************************************************)
(* Theorems about LaunchGuard, for any set of beads, any MAX_GENERATION    *)
(* and any limit, however often wsd dies and whatever journal it restarts. *)
(***************************************************************************)
EXTENDS LaunchGuard, TLAPS, WellFoundedInduction

\* The journal's columns, each of its type.
Columns ==
    /\ op \in [Beads -> Op] /\ row \in [Beads -> Rows]
    /\ entry \in [Beads -> [Gens -> Entry]]
    /\ rebuilt \in [Beads -> SUBSET Gens]
    /\ receipt \in [Beads -> [Gens -> Receipts]]
    /\ acc \in [Beads -> SUBSET Gens]
    /\ deaths \in [Beads -> Nat]
    /\ rhold \in BOOLEAN /\ uncertain \in Beads \cup {NoBead}

Counted == crashes \in Nat /\ losses \in Nat /\ outages \in Nat

\* A journal is typed when its columns are, and so is a copy of it.
LEMMA JournalColumns == Journal \in JournalType <=> Columns
BY DEF Journal, JournalType, Columns

\* The type invariant, with the journal taken apart into its columns.
LEMMA TypeParts ==
  TypeOK <=> /\ Columns /\ saved \in JournalType /\ BeadType /\ RuntimeType /\ GuardType
             /\ Counted
BY JournalColumns DEF TypeOK, Counted

\* The initial state is typed.
LEMMA InitTyped == Init => TypeOK
<1> SUFFICES ASSUME Init PROVE TypeOK OBVIOUS
<1>1. Columns
 <2>1. NoOp \in Op /\ Absent \in Entry /\ "none" \in Rows \cap Receipts
  BY MaxGenAssumption, FailLimitAssumption DEF NoOp, Absent, Op, Kinds, Rows, Entry, Outcomes, Receipts
 <2> QED BY <2>1 DEF Init, Columns
<1>2. saved \in JournalType BY <1>1, JournalColumns DEF Init
<1>3. BeadType /\ Counted BY DEF Init, BeadType, Counted, Absent, Entry, Outcomes
<1>4. RuntimeType BY MaxGenAssumption DEF Init, RuntimeType, Causes
<1>5. GuardType
 <2>1. "idle" \in PCs \ PinnedPCs /\ "none" \in Receipts /\ 0 \in 0 .. MaxGen
  BY MaxGenAssumption DEF PCs, PinnedPCs, Receipts
 <2> QED BY <2>1 DEF Init, GuardType
<1> QED BY <1>1, <1>2, <1>3, <1>4, <1>5, TypeParts

------------------------------
\* The helpers keep the types of what they set.
LEMMA OpTyped ==
  /\ NoOp \in Op /\ NewOp("launch") \in Op /\ NewOp("escalate") \in Op
  /\ NewOp("release") \in Op /\ Absent \in Entry /\ Pinned \in Entry
BY MaxGenAssumption, FailLimitAssumption DEF NoOp, NewOp, Absent, Pinned, Op, Kinds, Entry, Outcomes

\* An operation that ends leaves typed columns.
LEMMA FinishTyped ==
  ASSUME Columns, NEW b \in Beads, NEW state \in Rows, Finish(b, state)
  PROVE  /\ op' \in [Beads -> Op] /\ row' \in [Beads -> Rows]
         /\ uncertain' \in Beads \cup {NoBead}
BY OpTyped DEF Finish, SettleUncertain, Columns

\* So does one that ends stuck, with its escalation open.
LEMMA StuckTyped ==
  ASSUME Columns, NEW b \in Beads, Stuck(b)
  PROVE  /\ op' \in [Beads -> Op] /\ row' \in [Beads -> Rows]
         /\ uncertain' \in Beads \cup {NoBead}
BY OpTyped DEF Stuck, SettleUncertain, Columns, Rows

\* The guard that returns is idle, with no bead and no generation.
LEMMA ReturnTyped == Return => GuardType'
<1>1. "idle" \in PCs \ PinnedPCs /\ "none" \in Receipts /\ 0 \in 0 .. MaxGen
 BY MaxGenAssumption DEF PCs, PinnedPCs, Receipts
<1> QED BY <1>1 DEF Return, GuardType

\* Moving on to a step keeps the guard typed, if that step has its generation.
LEMMA GotoTyped ==
  ASSUME GuardType, pc # "idle", NEW label \in PCs \ {"idle"}, Goto(label),
    label \in PinnedPCs => Gen # 0
  PROVE  GuardType'
BY DEF Goto, GuardType, local

\* Every write of a launch entry to the bead keeps the bead's type, the
\* journal's and, with what follows it, the guard's.
LEMMA BeadWriteTyped ==
  ASSUME TypeOK, pc # "idle", NEW g, NEW goOn, BeadWrite(g, goOn)
  PROVE  /\ copy' \in [Beads -> [Gens -> Entry]]
         /\ op' \in [Beads -> Op] /\ row' \in [Beads -> Rows]
         /\ uncertain' \in Beads \cup {NoBead}
         /\ GuardType' \/ goOn
<1> USE TypeParts
<1>1. cur \in Beads BY DEF GuardType
<1>2. CASE goOn /\ copy' = [copy EXCEPT ![cur][g] = entry[cur][g]] /\ UNCHANGED <<op, row, uncertain>>
 BY <1>1, <1>2 DEF Columns, BeadType
<1>3. CASE EscalateFrom /\ UNCHANGED copy
 BY <1>1, <1>3, StuckTyped, GotoTyped DEF EscalateFrom, BeadType, PCs, PinnedPCs
<1>4. CASE Finish(cur, "stuck") /\ Return /\ UNCHANGED copy BY <1>1, <1>4, FinishTyped, ReturnTyped DEF BeadType, Rows
<1> QED BY <1>2, <1>3, <1>4 DEF BeadWrite

\* The bead.
LEMMA BeadStep ==
  ASSUME TypeOK, [Next]_vars
  PROVE  BeadType'
<1> USE TypeParts
<1>1. CASE UNCHANGED bead BY <1>1 DEF bead, BeadType
<1>2. ASSUME NEW b \in Beads, StartNew(b) \/ ClaimLost(b) \/ HumanLabel(b) PROVE BeadType'
 BY <1>2 DEF StartNew, ClaimLost, HumanLabel, BeadType
<1>3. ASSUME NEW b \in Beads, ReplayRelease(b) \/ Escalate(b) PROVE BeadType'
 BY <1>3 DEF ReplayRelease, Escalate, BeadType
<1>4. CASE PinCopy \/ AbandonCopy \/ DispatchCopy \/ OutcomeCopy \/ LiveCopy
 <2>1. PICK g, goOn : BeadWrite(g, goOn) /\ pc # "idle" /\ UNCHANGED <<claimed, human>>
  BY <1>4 DEF PinCopy, AbandonCopy, DispatchCopy, OutcomeCopy, LiveCopy
 <2> QED BY <2>1, BeadWriteTyped DEF BeadType
<1>5. CASE Reconcile BY <1>5, <1>1, BeadWriteTyped DEF Reconcile, BeadType, bead
<1>6. CASE Step
 BY <1>1, <1>4, <1>5, <1>6 DEF Step, Checks, OwnDispatch, Rebuild, Live, Account, Pin, PinHolds, Dispatch, Call,
   ReceiptPut, Outcome, FinishLaunch
<1>7. CASE Environment
 BY <1>1, <1>2, <1>7 DEF Environment, Crash, RuntimeDown, RuntimeUp, Backup, Restore, Release, LivenessChanges,
   Relisted, SessionEnds
<1>8. CASE \E b \in Beads : Caller(b) BY <1>1, <1>2, <1>3, <1>8 DEF Caller, OpenResume, SweepOurs, SweepNotOurs, Enter
<1> QED BY <1>1, <1>6, <1>7, <1>8 DEF Next, PickupBegin, vars

\* The runtime.
LEMMA RuntimeStep ==
  ASSUME TypeOK, [Next]_vars
  PROVE  RuntimeType'
<1> USE TypeParts
<1>1. CASE UNCHANGED runtime BY <1>1 DEF runtime, RuntimeType
<1>2. CASE Call
 <2>1. cur \in Beads /\ Gen \in Gens BY <1>2, MaxGenAssumption DEF Call, GuardType, PinnedPCs, Gens
 <2>2. calls' \in [Beads -> [Gens -> Nat]] /\ UNCHANGED <<ended, up, dead>> BY <1>2, <2>1 DEF Call, RuntimeType
 <2>3. CASE UNCHANGED <<sess, sessGen, started>> BY <2>2, <2>3 DEF RuntimeType
 <2>4. ASSUME NEW l \in {"live", "unknown"}, Appears(l) PROVE RuntimeType'
  BY <1>2, <2>1, <2>2, <2>4 DEF Appears, RuntimeType, Gens
 <2> QED BY <1>2, <2>3, <2>4 DEF Call
<1>3. ASSUME NEW b \in Beads, StartNew(b) \/ Release(b) \/ SweepNotOurs(b) PROVE RuntimeType'
 <2>1. CASE StartNew(b) \/ Release(b) BY <2>1 DEF StartNew, Release, RuntimeType
 <2>2. CASE SweepNotOurs(b) BY <2>2 DEF SweepNotOurs, RuntimeType, Causes
 <2> QED BY <1>3, <2>1, <2>2
<1>4. ASSUME NEW b \in Beads, NEW c \in Causes, SessionEnds(b, c) PROVE RuntimeType'
 BY <1>4 DEF SessionEnds, RuntimeType
<1>5. ASSUME NEW b \in Beads, LivenessChanges(b) \/ Relisted(b) PROVE RuntimeType'
 BY <1>5 DEF LivenessChanges, Relisted, RuntimeType
<1>6. CASE RuntimeUp \/ RuntimeDown BY <1>6 DEF RuntimeUp, RuntimeDown, RuntimeType
<1>7. CASE Step
 BY <1>1, <1>2, <1>7 DEF Step, Checks, OwnDispatch, Rebuild, Reconcile, Live, LiveCopy, Account, Pin, PinCopy,
   PinHolds, AbandonCopy, Dispatch, DispatchCopy, ReceiptPut, Outcome, OutcomeCopy, FinishLaunch
<1>8. CASE Environment
 BY <1>1, <1>3, <1>4, <1>5, <1>6, <1>8 DEF Environment, Crash, Backup, Restore, ClaimLost, HumanLabel
<1>9. CASE \E b \in Beads : Caller(b)
 BY <1>1, <1>3, <1>9 DEF Caller, OpenResume, SweepOurs, ReplayRelease, Escalate, Enter
<1> QED BY <1>1, <1>7, <1>8, <1>9 DEF Next, PickupBegin, vars

\* The guard's own variables.
LEMMA GuardStep ==
  ASSUME TypeOK, [Next]_vars
  PROVE  GuardType'
<1> USE TypeParts
<1>1. CASE UNCHANGED guard BY <1>1 DEF guard, local, GuardType
<1>2. CASE Return BY <1>2, ReturnTyped
<1>3. CASE pc # "idle" /\ \E label \in PCs \ {"idle"} :
                           Goto(label) /\ (label \in PinnedPCs => Gen # 0) BY <1>3, GotoTyped
<1>4. CASE pc # "idle" /\ EscalateFrom BY <1>4, <1>3 DEF EscalateFrom, PCs, PinnedPCs
<1>5. CASE PinCopy \/ DispatchCopy \/ OutcomeCopy
 <2>1. /\ pc # "idle" /\ Gen # 0
       /\ GuardType' \/ \E label \in {"holds", "call", "finish"} : Goto(label)
  BY <1>5, BeadWriteTyped DEF PinCopy, DispatchCopy, OutcomeCopy, GuardType, PinnedPCs
 <2> QED BY <1>3, <2>1 DEF PCs
<1>6. CASE AbandonCopy
 <2>1. GuardType' \/ (IF retried THEN Return ELSE PinAgain) BY <1>6, BeadWriteTyped DEF AbandonCopy
 <2>2. PinAgain => GuardType' BY <1>6, MaxGenAssumption DEF AbandonCopy, PinAgain, GuardType, PCs, PinnedPCs
 <2> QED BY <1>2, <2>1, <2>2
<1>7. CASE LiveCopy BY <1>7, <1>2, BeadWriteTyped DEF LiveCopy
<1>8. CASE Reconcile BY <1>8, <1>1, <1>3, <1>4, BeadWriteTyped DEF Reconcile, PCs, PinnedPCs
<1>9. CASE Checks \/ OwnDispatch \/ Rebuild \/ Live \/ Account
 BY <1>9, <1>2, <1>3, <1>4 DEF Checks, OwnDispatch, Rebuild, Live, Account, PCs, PinnedPCs
<1>10. CASE Pin BY <1>10, <1>2, <1>3, <1>4 DEF Pin, GuardType, PCs, PinnedPCs, Gens
<1>11. CASE PinHolds \/ Dispatch \/ ReceiptPut \/ Outcome \/ FinishLaunch
 <2>1. pc # "idle" /\ Gen # 0 BY <1>11 DEF PinHolds, Dispatch, ReceiptPut, Outcome, FinishLaunch, GuardType, PinnedPCs
 <2>2. \/ Return \/ EscalateFrom
       \/ \E label \in {"dispatch", "abandonCopy", "dispatchCopy", "outcome", "outcomeCopy"} :
             Goto(label) BY <1>11 DEF PinHolds, Dispatch, ReceiptPut, Outcome, FinishLaunch
 <2> QED BY <1>2, <1>3, <1>4, <2>1, <2>2 DEF PCs
<1>12. CASE Call BY <1>12, <1>4 DEF Call, GuardType, PCs, PinnedPCs
<1>13. ASSUME NEW b \in Beads, SweepOurs(b) \/ Enter(b) \/ Escalate(b) PROVE GuardType'
 BY <1>13, <1>1, <1>2, BeadsAssumption DEF SweepOurs, Enter, Escalate, GuardType, PCs, PinnedPCs, local, Columns,
   Op, RuntimeType
<1>14. CASE \E b \in Beads : Caller(b)
 BY <1>1, <1>13, <1>14 DEF Caller, StartNew, OpenResume, SweepNotOurs, ReplayRelease
<1>15. CASE Environment
 BY <1>1, <1>2, <1>15 DEF Environment, Crash, RuntimeUp, RuntimeDown, Backup, Restore, Release, LivenessChanges,
   Relisted, ClaimLost, HumanLabel, SessionEnds
<1>16. CASE Step BY <1>5, <1>6, <1>7, <1>8, <1>9, <1>10, <1>11, <1>12, <1>16 DEF Step
<1> QED BY <1>1, <1>14, <1>15, <1>16 DEF Next, PickupBegin, vars

\* The operation, the row and the uncertainty hold.
OpPart == /\ op \in [Beads -> Op] /\ row \in [Beads -> Rows]
          /\ uncertain \in Beads \cup {NoBead}

\* Forgetting or pinning a generation, or spending an attempt, keeps an operation.
LEMMA OpFields ==
  ASSUME op \in [Beads -> Op], cur \in Beads, NEW n \in 0 .. MaxGen
  PROVE  /\ [op EXCEPT ![cur].gen = n] \in [Beads -> Op]
         /\ op[cur].attempts + 1 < FailLimit
               => [op EXCEPT ![cur].gen = n, ![cur].attempts = op[cur].attempts + 1]
                      \in [Beads -> Op]
<1>1. op[cur] \in Op OBVIOUS
<1>2. [op[cur] EXCEPT !.gen = n] \in Op BY <1>1 DEF Op
<1>3. op[cur].attempts + 1 < FailLimit
          => [op[cur] EXCEPT !.gen = n, !.attempts = op[cur].attempts + 1] \in Op
 <2>1. op[cur].attempts \in 0 .. FailLimit BY <1>1 DEF Op
 <2>2. op[cur].attempts + 1 < FailLimit => op[cur].attempts + 1 \in 0 .. FailLimit BY <2>1, FailLimitAssumption
 <2> QED BY <1>1, <2>2 DEF Op
<1>4. [op EXCEPT ![cur].gen = n] = [op EXCEPT ![cur] = [op[cur] EXCEPT !.gen = n]] OBVIOUS
<1>5. [op EXCEPT ![cur].gen = n, ![cur].attempts = op[cur].attempts + 1]
        = [op EXCEPT ![cur] = [op[cur] EXCEPT !.gen = n, !.attempts = op[cur].attempts + 1]]
 OBVIOUS
<1> QED BY <1>2, <1>3, <1>4, <1>5

\* Every step keeps the operations, the rows and the uncertainty hold typed.
LEMMA OpStep ==
  ASSUME TypeOK, [Next]_vars
  PROVE  OpPart'
<1> USE TypeParts
<1>1. CASE UNCHANGED <<op, row, uncertain>> BY <1>1 DEF OpPart, Columns
<1>2. CASE pc # "idle" /\ EscalateFrom BY <1>2, StuckTyped DEF EscalateFrom, OpPart, GuardType
<1>3. CASE pc # "idle" /\ \E state \in {"stuck", "waiting", "running"} : Finish(cur, state)
 BY <1>3, FinishTyped DEF OpPart, GuardType, Rows
<1>4. CASE PinCopy \/ AbandonCopy \/ DispatchCopy \/ OutcomeCopy \/ LiveCopy
 <2>1. PICK g, goOn : BeadWrite(g, goOn) /\ pc # "idle"
  BY <1>4 DEF PinCopy, AbandonCopy, DispatchCopy, OutcomeCopy, LiveCopy
 <2> QED BY <2>1, BeadWriteTyped DEF OpPart
<1>5. CASE Reconcile BY <1>5, <1>1, <1>2, BeadWriteTyped DEF Reconcile, OpPart
<1>6. CASE Checks \/ OwnDispatch \/ Rebuild \/ Account \/ Dispatch \/ Call \/ ReceiptPut \/ Outcome
 BY <1>6, <1>1, <1>2, <1>3 DEF Checks, OwnDispatch, Rebuild, Account, Dispatch, Call, ReceiptPut, Outcome
<1>7. CASE Live
 <2>1. CASE uncertain' = cur /\ UNCHANGED <<op, row>> BY <2>1, <1>7 DEF OpPart, Columns, GuardType
 <2> QED BY <1>7, <2>1, <1>1, <1>2, <1>3 DEF Live
<1>8. CASE Pin
 <2>1. CASE /\ NextGen \in Gens /\ op' = [op EXCEPT ![cur].gen = NextGen]
            /\ UNCHANGED <<row, uncertain>>
  <3>1. op \in [Beads -> Op] /\ cur \in Beads /\ NextGen \in 0 .. MaxGen
   BY <1>8, <2>1 DEF Pin, Columns, GuardType, Gens
  <3>2. op' \in [Beads -> Op] BY <2>1, <3>1, OpFields
  <3> QED BY <2>1, <3>2 DEF OpPart, Columns
 <2> QED BY <1>8, <2>1, <1>1, <1>2, <1>3 DEF Pin
<1>9. CASE /\ pc # "idle" /\ op' = [op EXCEPT ![cur].gen = 0]
           /\ UNCHANGED <<row, uncertain>>
 <2>1. op \in [Beads -> Op] /\ cur \in Beads /\ 0 \in 0 .. MaxGen BY <1>9, MaxGenAssumption DEF Columns, GuardType
 <2>2. op' \in [Beads -> Op] BY <1>9, <2>1, OpFields
 <2> QED BY <1>9, <2>2 DEF OpPart, Columns
<1>10. CASE PinHolds BY <1>10, <1>1, <1>2, <1>9 DEF PinHolds
<1>11. CASE FinishLaunch
 <2>1. CASE /\ op[cur].attempts + 1 < FailLimit
            /\ op' = [op EXCEPT ![cur].gen = 0, ![cur].attempts = op[cur].attempts + 1]
            /\ UNCHANGED <<row, uncertain>>
  <3>1. op \in [Beads -> Op] /\ cur \in Beads /\ 0 \in 0 .. MaxGen
   BY <1>11, MaxGenAssumption DEF FinishLaunch, Columns, GuardType
  <3>2. op' \in [Beads -> Op] BY <2>1, <3>1, OpFields
  <3> QED BY <2>1, <3>2 DEF OpPart, Columns
 <2> QED BY <1>11, <2>1, <1>2, <1>3, <1>9 DEF FinishLaunch
<1>12. ASSUME NEW b \in Beads, Caller(b) PROVE OpPart'
 <2>1. CASE StartNew(b) \/ OpenResume(b) BY <2>1, OpTyped DEF StartNew, OpenResume, OpPart, Columns, Rows
 <2>2. CASE SweepOurs(b)
  <3>1. op' \in {op, [op EXCEPT ![b] = NewOp("escalate")]} BY <2>2 DEF SweepOurs
  <3> QED BY <2>2, <3>1, OpTyped DEF SweepOurs, OpPart, Columns, Rows
 <2>6. CASE SweepNotOurs(b) BY <2>6 DEF SweepNotOurs, OpPart, Columns, Rows
 <2>3. CASE ReplayRelease(b)
  <3>1. CASE op' = [op EXCEPT ![b] = NewOp("launch")] /\ row' = [row EXCEPT ![b] = "launching"]
             /\ UNCHANGED uncertain BY <3>1, OpTyped DEF OpPart, Columns, Rows
  <3>2. CASE Finish(b, "stuck") BY <3>2, FinishTyped DEF OpPart, Rows
  <3> QED BY <2>3, <1>1, <3>1, <3>2 DEF ReplayRelease
 <2>4. CASE Escalate(b) BY <2>4, OpTyped DEF Escalate, SettleUncertain, OpPart, Columns
 <2>5. CASE Enter(b) BY <2>5, <1>1, StuckTyped DEF Enter, OpPart
 <2> QED BY <1>12, <2>1, <2>2, <2>3, <2>4, <2>5, <2>6 DEF Caller
<1>13. CASE Restore BY <1>13 DEF Restore, JournalType, OpPart
<1>14. ASSUME NEW b \in Beads, Release(b) PROVE OpPart' BY <1>14, OpTyped DEF Release, OpPart, Columns
<1>15. CASE Environment
 BY <1>1, <1>13, <1>14, <1>15 DEF Environment, Crash, RuntimeUp, RuntimeDown, Backup, LivenessChanges, Relisted,
   ClaimLost, HumanLabel, SessionEnds, journal
<1>16. CASE PickupBegin BY <1>16 DEF PickupBegin, OpPart, Columns
<1>17. CASE Step BY <1>4, <1>5, <1>6, <1>7, <1>8, <1>10, <1>11, <1>17 DEF Step
<1> QED BY <1>1, <1>12, <1>15, <1>16, <1>17 DEF Next, vars, journal

\* Entries, receipts, the crash account and the runtime hold.
EntryPart == /\ entry \in [Beads -> [Gens -> Entry]]
             /\ rebuilt \in [Beads -> SUBSET Gens]
             /\ receipt \in [Beads -> [Gens -> Receipts]]
             /\ acc \in [Beads -> SUBSET Gens]
             /\ deaths \in [Beads -> Nat] /\ rhold \in BOOLEAN

\* Setting the outcome or the dispatch of one entry keeps the entries' type.
LEMMA EntryFields ==
  ASSUME entry \in [Beads -> [Gens -> Entry]], cur \in Beads, NEW g \in Gens,
    NEW o \in Outcomes
  PROVE  /\ [entry EXCEPT ![cur][g].outcome = o] \in [Beads -> [Gens -> Entry]]
         /\ [entry EXCEPT ![cur][g].dispatched = TRUE] \in [Beads -> [Gens -> Entry]]
<1>1. entry[cur] \in [Gens -> Entry] /\ entry[cur][g] \in Entry OBVIOUS
<1>2. /\ [entry[cur][g] EXCEPT !.outcome = o] \in Entry
      /\ [entry[cur][g] EXCEPT !.dispatched = TRUE] \in Entry BY <1>1 DEF Entry
<1>3. /\ [entry[cur] EXCEPT ![g].outcome = o] \in [Gens -> Entry]
      /\ [entry[cur] EXCEPT ![g].dispatched = TRUE] \in [Gens -> Entry] BY <1>1, <1>2
<1> QED BY <1>3

\* Every step keeps the launch entries typed.
LEMMA EntryStep ==
  ASSUME TypeOK, [Next]_vars
  PROVE  EntryPart'
<1> USE TypeParts
<1>1. CASE UNCHANGED <<entry, rebuilt, receipt, acc, deaths, rhold>> BY <1>1 DEF EntryPart, Columns
<1>2. CASE UNCHANGED <<entry, rebuilt, receipt, acc, deaths>> /\ rhold' \in BOOLEAN BY <1>2 DEF EntryPart, Columns
<1>3. CASE /\ entry' \in [Beads -> [Gens -> Entry]]
           /\ UNCHANGED <<rebuilt, receipt, acc, deaths, rhold>> BY <1>3 DEF EntryPart, Columns
<1>4. \A r \in Receipts : OutcomeOf(r) \in Outcomes BY DEF OutcomeOf, Outcomes
<1>5. {"none", "launched", "abandoned"} \subseteq Outcomes BY DEF Outcomes
<1>6. pc \in PinnedPCs => cur \in Beads /\ Gen \in Gens /\ receipt[cur][Gen] \in Receipts
 BY MaxGenAssumption DEF GuardType, PinnedPCs, Gens, Columns
<1>7. CASE Rebuild
 <2>1. cur \in Beads /\ entry \in [Beads -> [Gens -> Entry]] /\ copy[cur] \in [Gens -> Entry]
  BY <1>7 DEF Rebuild, GuardType, Columns, BeadType
 <2>2. entry' \in [Beads -> [Gens -> Entry]] BY <1>7, <2>1 DEF Rebuild
 <2>3. rebuilt' \in [Beads -> SUBSET Gens] BY <1>7, <2>1 DEF Rebuild, Columns
 <2> QED BY <1>7, <2>2, <2>3 DEF Rebuild, EntryPart, Columns
<1>8. CASE Reconcile
 <2>1. cur \in Beads /\ entry \in [Beads -> [Gens -> Entry]] BY <1>8 DEF Reconcile, GuardType, Columns
 <2>2. ASSUME NEW g \in Gens,
   \/ entry' = [entry EXCEPT ![cur][g].outcome = "abandoned"]
   \/ entry' = [entry EXCEPT ![cur][g].outcome = OutcomeOf(receipt[cur][g])]
       PROVE  entry' \in [Beads -> [Gens -> Entry]]
  <3>1. receipt[cur][g] \in Receipts /\ "abandoned" \in Outcomes BY <2>1, <1>5 DEF Columns
  <3>2. OutcomeOf(receipt[cur][g]) \in Outcomes BY <1>4, <3>1
  <3>3. /\ [entry EXCEPT ![cur][g].outcome = "abandoned"] \in [Beads -> [Gens -> Entry]]
        /\ [entry EXCEPT ![cur][g].dispatched = TRUE] \in [Beads -> [Gens -> Entry]] BY <2>1, <3>1, EntryFields
  <3>4. [entry EXCEPT ![cur][g].outcome = OutcomeOf(receipt[cur][g])]
            \in [Beads -> [Gens -> Entry]] BY <2>1, <3>2, EntryFields
  <3> QED BY <2>2, <3>3, <3>4
 <2>3. entry' = entry \/ \E g \in Gens :
              \/ entry' = [entry EXCEPT ![cur][g].outcome = "abandoned"]
              \/ entry' = [entry EXCEPT ![cur][g].outcome = OutcomeOf(receipt[cur][g])] BY <1>8 DEF Reconcile, Known
 <2> QED BY <1>8, <1>1, <1>3, <2>2, <2>3 DEF Reconcile
<1>9. CASE Live \/ PinHolds \/ Dispatch \/ Outcome
 <2>1. cur \in Beads /\ entry \in [Beads -> [Gens -> Entry]]
  BY <1>9 DEF Live, PinHolds, Dispatch, Outcome, GuardType, Columns
 <2>2. Gen # 0 => Gen \in Gens BY MaxGenAssumption DEF GuardType, Gens
 <2>3. ASSUME Gen \in Gens,
   \/ entry' = [entry EXCEPT ![cur][Gen].outcome = "abandoned"]
   \/ entry' = [entry EXCEPT ![cur][Gen].outcome = OutcomeOf(receipt[cur][Gen])]
   \/ entry' = [entry EXCEPT ![cur][Gen].dispatched = TRUE]
       PROVE  entry' \in [Beads -> [Gens -> Entry]]
  <3>1. receipt[cur][Gen] \in Receipts /\ "abandoned" \in Outcomes BY <2>1, <2>3, <1>5 DEF Columns
  <3>2. OutcomeOf(receipt[cur][Gen]) \in Outcomes BY <1>4, <3>1
  <3>3. /\ [entry EXCEPT ![cur][Gen].outcome = "abandoned"] \in [Beads -> [Gens -> Entry]]
        /\ [entry EXCEPT ![cur][Gen].dispatched = TRUE] \in [Beads -> [Gens -> Entry]]
   BY <2>1, <2>3, <3>1, EntryFields
  <3>4. [entry EXCEPT ![cur][Gen].outcome = OutcomeOf(receipt[cur][Gen])]
            \in [Beads -> [Gens -> Entry]] BY <2>1, <2>3, <3>2, EntryFields
  <3> QED BY <2>3, <3>3, <3>4
 <2>4. \/ entry' = entry
       \/ Gen \in Gens /\ \/ entry' = [entry EXCEPT ![cur][Gen].outcome = "abandoned"]
                          \/ entry' = [entry EXCEPT ![cur][Gen].outcome = OutcomeOf(receipt[cur][Gen])]
                          \/ entry' = [entry EXCEPT ![cur][Gen].dispatched = TRUE]
  BY <1>9, <1>6, <2>2 DEF Live, PinHolds, Dispatch, Outcome, PinnedPCs
 <2> QED BY <1>9, <1>1, <1>3, <2>3, <2>4 DEF Live, PinHolds, Dispatch, Outcome
<1>10. CASE Pin
 <2>1. entry' = entry \/ entry' = [entry EXCEPT ![cur][NextGen] = Pinned] BY <1>10 DEF Pin
 <2>2. entry' \in [Beads -> [Gens -> Entry]]
  <3>1. entry \in [Beads -> [Gens -> Entry]] /\ cur \in Beads /\ Pinned \in Entry
   BY <1>10, OpTyped DEF Pin, GuardType, Columns
  <3>2. [entry EXCEPT ![cur][NextGen] = Pinned] \in [Beads -> [Gens -> Entry]] BY <3>1
  <3> QED BY <2>1, <3>1, <3>2
 <2> QED BY <1>10, <1>3, <2>2 DEF Pin
<1>11. CASE ReceiptPut
 <2>1. receipt \in [Beads -> [Gens -> Receipts]] /\ cur \in Beads /\ answer \in Receipts
  BY <1>11 DEF ReceiptPut, GuardType, Columns
 <2>2. [receipt EXCEPT ![cur][Gen] = answer] \in [Beads -> [Gens -> Receipts]] BY <2>1
 <2>3. receipt' \in [Beads -> [Gens -> Receipts]] BY <1>11, <2>1, <2>2 DEF ReceiptPut
 <2> QED BY <1>11, <2>3 DEF ReceiptPut, Columns, EntryPart
<1>12. CASE Account
 <2>1. cur \in Beads BY <1>12 DEF Account, GuardType
 <2>2. acc' \in [Beads -> SUBSET Gens] BY <1>12, <2>1 DEF Account, Launched, Columns
 <2>3. deaths' \in [Beads -> Nat] BY <1>12, <2>1 DEF Account, Columns
 <2> QED BY <1>12, <2>2, <2>3, <1>1, <1>2 DEF Account, EntryPart, Columns
<1>13. CASE FinishLaunch BY <1>13, <1>1, <1>2 DEF FinishLaunch
<1>14. CASE \/ Checks \/ OwnDispatch \/ LiveCopy \/ PinCopy \/ AbandonCopy \/ DispatchCopy
            \/ Call \/ OutcomeCopy
 BY <1>14, <1>1 DEF Checks, OwnDispatch, LiveCopy, PinCopy, AbandonCopy, DispatchCopy, Call, OutcomeCopy
<1>15. ASSUME NEW b \in Beads, StartNew(b) \/ Release(b) PROVE EntryPart'
 <2>1. acc' \in [Beads -> SUBSET Gens]
  <3>1. Launched(b) \subseteq Gens /\ acc \in [Beads -> SUBSET Gens] BY DEF Launched, Columns
  <3>2. acc' = [acc EXCEPT ![b] = acc[b] \cup Launched(b)] BY <1>15 DEF StartNew, Release
  <3> QED BY <3>1, <3>2
 <2> QED BY <1>15, <2>1 DEF StartNew, Release, EntryPart, Columns
<1>16. ASSUME NEW b \in Beads, Caller(b) PROVE EntryPart'
 BY <1>1, <1>2, <1>15, <1>16 DEF Caller, OpenResume, SweepOurs, SweepNotOurs, ReplayRelease, Escalate, Enter
<1>17. CASE Restore BY <1>17 DEF Restore, JournalType, EntryPart
<1>18. CASE Environment
 BY <1>1, <1>15, <1>17, <1>18 DEF Environment, Crash, RuntimeUp, RuntimeDown, Backup, LivenessChanges, Relisted,
   ClaimLost, HumanLabel, SessionEnds, journal
<1>19. CASE PickupBegin BY <1>2, <1>19 DEF PickupBegin
<1>20. CASE Step BY <1>7, <1>8, <1>9, <1>10, <1>11, <1>12, <1>13, <1>14, <1>20 DEF Step
<1> QED BY <1>1, <1>16, <1>18, <1>19, <1>20 DEF Next, vars, journal

\* Every step keeps every variable typed.
LEMMA StepTyped ==
  ASSUME TypeOK, [Next]_vars
  PROVE  TypeOK'
<1>1. Columns' BY OpStep, EntryStep DEF OpPart, EntryPart, Columns
<1>2. saved' \in JournalType
 <2>1. saved' = saved \/ saved' = Journal
  BY DEF Next, PickupBegin, Step, Checks, OwnDispatch, Rebuild, Reconcile, Live, LiveCopy, Account, Pin, PinCopy,
    PinHolds, AbandonCopy, Dispatch, DispatchCopy, Call, ReceiptPut, Outcome, OutcomeCopy, FinishLaunch,
    Environment, Crash, RuntimeUp, RuntimeDown, Backup, Restore, Release, LivenessChanges, Relisted, ClaimLost,
    HumanLabel, SessionEnds, Caller, StartNew, OpenResume, SweepOurs, SweepNotOurs, ReplayRelease, Escalate, Enter,
    vars
 <2> QED BY <2>1 DEF TypeOK
<1>3. Counted'
 BY TypeParts DEF Counted, bounds, Next, PickupBegin, Step, Checks, OwnDispatch, Rebuild, Reconcile, Live, LiveCopy,
   Account, Pin, PinCopy, PinHolds, AbandonCopy, Dispatch, DispatchCopy, Call, ReceiptPut, Outcome, OutcomeCopy,
   FinishLaunch, Environment, Crash, RuntimeUp, RuntimeDown, Backup, Restore, Release, LivenessChanges, Relisted,
   ClaimLost, HumanLabel, SessionEnds, Caller, StartNew, OpenResume, SweepOurs, SweepNotOurs, ReplayRelease,
   Escalate, Enter, vars
<1>4. Journal' \in JournalType BY <1>1 DEF Journal, JournalType, Columns
<1> QED BY <1>2, <1>3, <1>4, BeadStep, RuntimeStep, GuardStep DEF TypeOK, Counted

\* Every state the guard reaches is typed; in particular an open operation never
\* carries more attempts than its limit, and the guard never works on generation 0.
THEOREM TypeCorrect == Spec => []TypeOK
<1>1. TypeOK /\ [Next]_vars => TypeOK' BY StepTyped
<1> QED BY InitTyped, <1>1, PTL DEF Spec

------------------------------
(* At most one dispatch of a generation. *)

\* A bead write merges: no dispatch on the bead is lost, and either the copy is
\* the journal's entry and the guard goes on, or the guard gives the bead up.
LEMMA BeadWriteMerges ==
  ASSUME TypeOK, Formed(entry), Formed(copy), pc # "idle", NEW g, NEW goOn,
    BeadWrite(g, goOn)
  PROVE  /\ \A b \in Beads : \A h \in Gens : copy[b][h].dispatched => copy'[b][h].dispatched
         /\ Formed(copy')
         /\ \/ pc' \in {"idle", "handoff"}
            \/ goOn /\ (g \in Gens => copy'[cur][g] = entry[cur][g])
<1> USE TypeParts
<1>1. cur \in Beads /\ copy \in [Beads -> [Gens -> Entry]] BY DEF GuardType, BeadType
<1>2. CASE /\ Mergeable(copy[cur][g], entry[cur][g]) /\ goOn
           /\ copy' = [copy EXCEPT ![cur][g] = entry[cur][g]] BY <1>1, <1>2 DEF Mergeable, Formed
<1>3. CASE UNCHANGED copy /\ pc' \in {"idle", "handoff"} BY <1>3
<1> QED BY <1>2, <1>3 DEF BeadWrite, EscalateFrom, Goto, Return

\* No step dispatches an entry that is not there.
LEMMA FormedStep ==
  ASSUME TypeOK, DispatchInv, [Next]_vars
  PROVE  Formed(entry')
<1> USE TypeParts
<1>1. CASE UNCHANGED entry BY <1>1 DEF DispatchInv
<1>2. entry \in [Beads -> [Gens -> Entry]] /\ Formed(entry) /\ Formed(copy) BY DEF DispatchInv, Columns
<1>3. CASE \E g \in Gens : \E o \in {"launched", "abandoned"} :
               entry' = [entry EXCEPT ![cur][g].outcome = o] BY <1>2, <1>3 DEF Formed, Entry
<1>4. \A r : OutcomeOf(r) \in {"launched", "abandoned"} BY DEF OutcomeOf
<1>5. pc # "idle" => cur \in Beads BY DEF GuardType
<1>6. Gen # 0 => Gen \in Gens BY MaxGenAssumption DEF GuardType, Gens
<1>7. pc \in PinnedPCs => Gen \in Gens BY <1>6 DEF GuardType
<1>8. CASE Rebuild BY <1>2, <1>5, <1>8 DEF Rebuild, Formed
<1>9. CASE Reconcile BY <1>1, <1>3, <1>4, <1>9 DEF Reconcile, Known
<1>10. CASE Live \/ PinHolds \/ Outcome BY <1>1, <1>3, <1>4, <1>6, <1>7, <1>10 DEF Live, PinHolds, Outcome, PinnedPCs
<1>11. CASE Pin BY <1>1, <1>2, <1>5, <1>11 DEF Pin, Formed, Pinned
<1>12. CASE Dispatch
 <2>1. CASE /\ entry[cur][Gen] = Pinned
            /\ entry' = [entry EXCEPT ![cur][Gen].dispatched = TRUE]
  <3>1. cur \in Beads /\ Gen \in Gens BY <1>5, <1>7, <1>12 DEF Dispatch, PinnedPCs
  <3>2. entry'[cur][Gen].outcome = "none" BY <1>2, <2>1, <3>1 DEF Pinned
  <3>3. \A b \in Beads : \A g \in Gens : b # cur \/ g # Gen => entry'[b][g] = entry[b][g] BY <1>2, <2>1, <3>1
  <3> QED BY <1>2, <3>2, <3>3 DEF Formed
 <2> QED BY <1>1, <1>12, <2>1 DEF Dispatch
<1>13. CASE Step
 BY <1>1, <1>8, <1>9, <1>10, <1>11, <1>12, <1>13 DEF Step, Checks, OwnDispatch, LiveCopy, Account, PinCopy,
   AbandonCopy, DispatchCopy, Call, ReceiptPut, OutcomeCopy, FinishLaunch
<1>14. CASE Restore BY <1>14 DEF Restore, DispatchInv
<1>15. CASE Environment
 BY <1>1, <1>14, <1>15 DEF Environment, Crash, RuntimeUp, RuntimeDown, Backup, Release, LivenessChanges, Relisted,
   ClaimLost, HumanLabel, SessionEnds, journal
<1>16. CASE \E b \in Beads : Caller(b)
 BY <1>1, <1>16 DEF Caller, StartNew, OpenResume, SweepOurs, SweepNotOurs, ReplayRelease, Escalate, Enter
<1> QED BY <1>1, <1>13, <1>15, <1>16 DEF Next, PickupBegin, vars, journal

\* What no step takes off the bead, and what only a call adds.
LEMMA CopyStep ==
  ASSUME TypeOK, DispatchInv, [Next]_vars
  PROVE  /\ \A b \in Beads : \A h \in Gens : copy[b][h].dispatched => copy'[b][h].dispatched
         /\ Formed(copy') /\ Formed(saved'.entry)
<1> USE TypeParts
<1>1. CASE UNCHANGED <<copy, saved>> BY <1>1 DEF DispatchInv
<1>2. CASE PinCopy \/ AbandonCopy \/ DispatchCopy \/ OutcomeCopy \/ LiveCopy
 <2>1. PICK g, goOn : BeadWrite(g, goOn) /\ pc # "idle" /\ UNCHANGED saved
  BY <1>2 DEF PinCopy, AbandonCopy, DispatchCopy, OutcomeCopy, LiveCopy
 <2> QED BY <2>1, BeadWriteMerges DEF DispatchInv
<1>3. CASE Reconcile BY <1>1, <1>3, BeadWriteMerges DEF Reconcile, DispatchInv
<1>4. CASE Backup
 <2>1. saved'.entry = entry BY <1>4 DEF Backup, Journal
 <2> QED BY <1>4, <2>1 DEF Backup, DispatchInv, bead
<1>5. CASE Step
 BY <1>1, <1>2, <1>3, <1>5 DEF Step, Checks, OwnDispatch, Rebuild, Live, Account, Pin, PinHolds, Dispatch, Call,
   ReceiptPut, Outcome, FinishLaunch, bead
<1>6. CASE Environment
 BY <1>1, <1>4, <1>6 DEF Environment, Crash, RuntimeUp, RuntimeDown, Restore, Release, LivenessChanges, Relisted,
   ClaimLost, HumanLabel, SessionEnds, bead
<1>7. CASE \E b \in Beads : Caller(b)
 BY <1>1, <1>7 DEF Caller, StartNew, OpenResume, SweepOurs, SweepNotOurs, ReplayRelease, Escalate, Enter, bead
<1> QED BY <1>1, <1>5, <1>6, <1>7 DEF Next, PickupBegin, vars, bead

\* A call is the first of its generation, and the bead tells of the dispatch.
LEMMA CallsStep ==
  ASSUME TypeOK, DispatchInv, [Next]_vars
  PROVE  AtMostOnce' /\ DispatchOnBeadFirst'
<1> USE TypeParts
<1>1. CASE UNCHANGED calls BY <1>1, CopyStep DEF DispatchInv, AtMostOnce, DispatchOnBeadFirst
<1>2. CASE Call
 <2>1. cur \in Beads /\ Gen \in Gens /\ calls \in [Beads -> [Gens -> Nat]]
  BY <1>2, MaxGenAssumption DEF Call, GuardType, PinnedPCs, Gens, RuntimeType
 <2>2. calls[cur][Gen] = 0 /\ copy[cur][Gen].dispatched BY <1>2 DEF Call, DispatchInv, Handover
 <2>3. \A b \in Beads : \A g \in Gens :
           calls'[b][g] = IF b = cur /\ g = Gen THEN 1 ELSE calls[b][g] BY <1>2, <2>1, <2>2 DEF Call
 <2> QED BY <2>2, <2>3, CopyStep DEF DispatchInv, AtMostOnce, DispatchOnBeadFirst
<1>3. CASE Step
 BY <1>1, <1>2, <1>3 DEF Step, Checks, OwnDispatch, Rebuild, Reconcile, Live, LiveCopy, Account, Pin, PinCopy,
   PinHolds, AbandonCopy, Dispatch, DispatchCopy, ReceiptPut, Outcome, OutcomeCopy, FinishLaunch, runtime
<1>4. CASE Environment
 BY <1>1, <1>4 DEF Environment, Crash, RuntimeUp, RuntimeDown, Backup, Restore, Release, LivenessChanges, Relisted,
   ClaimLost, HumanLabel, SessionEnds, runtime
<1>5. CASE \E b \in Beads : Caller(b)
 BY <1>1, <1>5 DEF Caller, StartNew, OpenResume, SweepOurs, SweepNotOurs, ReplayRelease, Escalate, Enter, runtime
<1> QED BY <1>1, <1>3, <1>4, <1>5 DEF Next, PickupBegin, vars, runtime

\* The guard reaches "holds" by writing the entry to the bead, "dispatch" from
\* there, "dispatchCopy" by dispatching an entry nobody has, and "call" from there.
LEMMA HandoverStep ==
  ASSUME TypeOK, DispatchInv, [Next]_vars
  PROVE  Handover'
<1> USE TypeParts
<1> DEFINE Quiet == pc' \notin {"holds", "dispatch", "dispatchCopy", "call"}
<1>1. CASE Quiet BY <1>1 DEF Handover
<1>2. CASE UNCHANGED <<pc, cur, Gen, copy, entry, calls>> BY <1>2 DEF Handover, DispatchInv
<1>3. ASSUME pc \in PinnedPCs
      PROVE  /\ cur \in Beads /\ Gen \in Gens /\ entry \in [Beads -> [Gens -> Entry]]
             /\ calls \in [Beads -> [Gens -> Nat]]
 <2>1. pc # "idle" BY <1>3 DEF PinnedPCs
 <2>2. cur \in Beads /\ Gen \in Gens BY <1>3, <2>1, MaxGenAssumption DEF GuardType, Gens
 <2> QED BY <2>2 DEF Columns, RuntimeType
<1>4. CASE PinCopy
 <2>1. \/ pc' \in {"idle", "handoff"}
       \/ Goto("holds") /\ copy'[cur][Gen] = entry[cur][Gen]
  BY <1>3, <1>4, BeadWriteMerges DEF PinCopy, PinnedPCs, DispatchInv
 <2> QED BY <1>1, <1>4, <2>1 DEF PinCopy, Goto, local, Handover
<1>5. CASE PinHolds BY <1>1, <1>5 DEF PinHolds, EscalateFrom, Goto, local, bead, Handover, DispatchInv
<1>6. CASE Dispatch
 <2>1. CASE /\ entry[cur][Gen] = Pinned /\ Goto("dispatchCopy")
            /\ entry' = [entry EXCEPT ![cur][Gen].dispatched = TRUE]
  <3>1. cur \in Beads /\ Gen \in Gens BY <1>3, <1>6 DEF Dispatch, PinnedPCs
  <3>2. ~copy[cur][Gen].dispatched BY <1>6, <2>1 DEF Dispatch, DispatchInv, Handover, Pinned
  <3>3. calls[cur][Gen] = 0 BY <1>3, <1>6, <3>1, <3>2 DEF Dispatch, PinnedPCs, DispatchInv, DispatchOnBeadFirst
  <3>4. entry'[cur][Gen].dispatched BY <1>3, <1>6, <2>1, <3>1 DEF Dispatch, PinnedPCs, Entry
  <3> QED BY <1>6, <2>1, <3>3, <3>4 DEF Dispatch, Goto, local, runtime, Handover
 <2> QED BY <1>1, <1>6, <2>1 DEF Dispatch, EscalateFrom, Goto
<1>7. CASE DispatchCopy
 <2>1. \/ pc' \in {"idle", "handoff"}
       \/ Goto("call") /\ copy'[cur][Gen] = entry[cur][Gen]
  BY <1>3, <1>7, BeadWriteMerges DEF DispatchCopy, PinnedPCs, DispatchInv
 <2>2. entry[cur][Gen].dispatched /\ calls[cur][Gen] = 0 BY <1>7 DEF DispatchCopy, DispatchInv, Handover
 <2> QED BY <1>1, <1>7, <2>1, <2>2 DEF DispatchCopy, Goto, local, runtime, Handover
<1>8. CASE AbandonCopy \/ OutcomeCopy \/ LiveCopy
 <2>1. Quiet BY <1>8, BeadWriteMerges DEF AbandonCopy, OutcomeCopy, LiveCopy, PinAgain, Return, Goto, DispatchInv
 <2> QED BY <1>1, <2>1
<1>9. CASE Reconcile BY <1>1, <1>9, BeadWriteMerges DEF Reconcile, EscalateFrom, Goto, guard, DispatchInv
<1>10. CASE Step
 BY <1>1, <1>4, <1>5, <1>6, <1>7, <1>8, <1>9, <1>10 DEF Step, Checks, OwnDispatch, Rebuild, Live, Account, Pin,
   Call, ReceiptPut, Outcome, FinishLaunch, EscalateFrom, Goto, Return
<1>11. CASE Environment
 BY <1>1, <1>2, <1>11 DEF Environment, Crash, RuntimeUp, RuntimeDown, Backup, Restore, Release, LivenessChanges,
   Relisted, ClaimLost, HumanLabel, SessionEnds, Return, journal, bead, runtime, guard, local
<1>12. CASE \E b \in Beads : Caller(b)
 BY <1>1, <1>12 DEF Caller, StartNew, OpenResume, SweepOurs, SweepNotOurs, ReplayRelease, Escalate, Enter, Return,
   guard
<1> QED BY <1>1, <1>2, <1>10, <1>11, <1>12 DEF Next, PickupBegin, vars, journal, bead, runtime, guard, local

\* The dispatch discipline holds at the start.
LEMMA InitDispatch == Init => DispatchInv
<1> SUFFICES ASSUME Init PROVE DispatchInv OBVIOUS
<1>1. Formed(entry) /\ Formed(copy) BY DEF Init, Formed, Absent
<1>2. saved.entry = entry BY DEF Init, Journal
<1>3. AtMostOnce /\ DispatchOnBeadFirst /\ Handover BY DEF Init, AtMostOnce, DispatchOnBeadFirst, Handover
<1> QED BY <1>1, <1>2, <1>3 DEF DispatchInv

\* The guard's discipline: what each step of a dispatch leaves behind is what the
\* next relies on, so DispatchInv holds however the guard is cut short.
THEOREM DispatchDiscipline == Spec => []DispatchInv
<1>1. TypeOK /\ DispatchInv /\ [Next]_vars => DispatchInv'
 BY FormedStep, CopyStep, CallsStep, HandoverStep DEF DispatchInv, Formed
<1> QED BY InitDispatch, <1>1, TypeCorrect, PTL DEF Spec

\* No generation of any bead's session is handed to the runtime twice, whatever
\* crashes, lost or restored journals (park.py, Parker.launch steps 0 and 4).
THEOREM DispatchedAtMostOnce == Spec => []AtMostOnce
<1>1. DispatchInv => AtMostOnce BY DEF DispatchInv
<1> QED BY <1>1, DispatchDiscipline, PTL

\* The bead tells of a dispatch before the runtime is asked to launch, so that a
\* journal rebuilt from the bead knows of it (Parker.launch steps 4 and 5).
THEOREM BeadKnowsFirst == Spec => []DispatchOnBeadFirst
<1>1. DispatchInv => DispatchOnBeadFirst BY DEF DispatchInv
<1> QED BY <1>1, DispatchDiscipline, PTL

------------------------------
(* One coder session per workstream. *)

\* No step gives the coder role to a second bead.
LEMMA RoleStep ==
  ASSUME TypeOK, RoleInv, [Next]_vars
  PROVE  RoleInv'
<1> USE TypeParts
<1> DEFINE Fewer == \A x \in Beads : sess'[x] # "none" => sess[x] # "none"
           Kept  == (pc' \notin {"idle", "handoff"} => pc \notin {"idle", "handoff"} /\ cur' = cur)
<1>1. CASE Fewer /\ Kept BY <1>1 DEF RoleInv, OneCoder
<1>2. CASE Call
 <2>1. cur \in Beads /\ pc = "call" /\ sess \in [Beads -> {"none", "live", "unknown"}]
  BY <1>2 DEF Call, GuardType, RuntimeType
 <2>2. \A x \in Beads \ {cur} : sess'[x] = "none" BY <1>2, <2>1 DEF Call, Appears, RoleInv
 <2>3. pc' \in {"answered", "handoff"} /\ cur' = cur BY <1>2 DEF Call, EscalateFrom, Goto
 <2> QED BY <2>1, <2>2, <2>3 DEF RoleInv, OneCoder
<1>3. ASSUME NEW b \in Beads, Enter(b) PROVE RoleInv' BY <1>1, <1>3 DEF Enter, RoleInv, OneCoder, runtime, guard
<1>4. ASSUME NEW b \in Beads, SweepNotOurs(b) \/ LivenessChanges(b) PROVE RoleInv'
 <2>1. Fewer BY <1>4 DEF SweepNotOurs, LivenessChanges, RuntimeType
 <2> QED BY <1>1, <1>4, <2>1 DEF SweepNotOurs, LivenessChanges, guard
<1>5. ASSUME NEW b \in Beads, NEW c \in Causes, SessionEnds(b, c) PROVE RoleInv'
 <2>1. Fewer BY <1>5 DEF SessionEnds, RuntimeType
 <2> QED BY <1>1, <1>5, <2>1 DEF SessionEnds, guard
<1>10. ASSUME NEW b \in Beads, Relisted(b) PROVE RoleInv' BY <1>10 DEF Relisted, RuntimeType, RoleInv, OneCoder, guard
<1>6. CASE PinCopy \/ AbandonCopy \/ DispatchCopy \/ OutcomeCopy \/ LiveCopy \/ Reconcile
 <2>1. Kept
  BY <1>6 DEF PinCopy, AbandonCopy, DispatchCopy, OutcomeCopy, LiveCopy, Reconcile, BeadWrite, PinAgain,
    EscalateFrom, Goto, Return, guard
 <2> QED BY <1>1, <1>6, <2>1 DEF PinCopy, AbandonCopy, DispatchCopy, OutcomeCopy, LiveCopy, Reconcile, runtime
<1>7. CASE Step
 BY <1>1, <1>2, <1>6, <1>7 DEF Step, Checks, OwnDispatch, Rebuild, Live, Account, Pin, PinHolds, Dispatch,
   ReceiptPut, Outcome, FinishLaunch, EscalateFrom, Goto, Return, runtime
<1>8. CASE Environment
 BY <1>1, <1>4, <1>5, <1>8, <1>10 DEF Environment, Crash, RuntimeUp, RuntimeDown, Backup, Restore, Release,
   ClaimLost, HumanLabel, Return, runtime, guard
<1>9. CASE \E b \in Beads : Caller(b)
 BY <1>1, <1>3, <1>4, <1>9 DEF Caller, StartNew, OpenResume, SweepOurs, ReplayRelease, Escalate, Return, runtime,
   guard
<1> QED BY <1>1, <1>7, <1>8, <1>9 DEF Next, PickupBegin, vars, runtime, guard

\* A workstream never has sessions of two beads, however its guard interleaves
\* with crashes, endings and sweeps (park.py:1087).
THEOREM OneCoderAlways == Spec => []OneCoder
<1>1. Init => RoleInv BY DEF Init, RoleInv, OneCoder
<1>2. TypeOK /\ RoleInv /\ [Next]_vars => RoleInv' BY RoleStep
<1>3. RoleInv => OneCoder BY DEF RoleInv
<1> QED BY <1>1, <1>2, <1>3, TypeCorrect, PTL DEF Spec

------------------------------
(* The ledger of a bead's generations. *)

\* A well-founded relation that holds a natural number below every greater one.
LEMMA Below == \E R : /\ IsWellFoundedOn(R, Nat)
                    /\ \A y, z \in Nat : y < z => <<y, z>> \in R
<1>1. \A y, z \in Nat : y < z => <<y, z>> \in OpToRel(<, Nat) BY DEF OpToRel
<1> QED BY <1>1, NatLessThanWellFounded, Zenon

\* A non-empty bounded set of naturals has a greatest element.
LEMMA Greatest ==
  ASSUME NEW n \in Nat, NEW S, S \subseteq 0 .. n, S # {}
  PROVE  \E g \in S : \A h \in S : h <= g
<1>1. PICK R : IsWellFoundedOn(R, Nat) /\ \A y, z \in Nat : y < z => <<y, z>> \in R BY Below
<1>2. PICK T : T = {n - g : g \in S} OBVIOUS
<1>3. \A h \in S : n - h \in T BY <1>2
<1>4. T \subseteq Nat /\ T # {}
 <2>1. \A t \in T : t \in Nat BY <1>2
 <2> QED BY <1>3, <2>1
<1>5. PICK x \in T : \A y \in T : <<y, x>> \notin R
 <2>1. IsWellFoundedOn(R, Nat) BY <1>1
 <2> QED BY <1>4, <2>1, WFMin, Zenon
<1>6. ASSUME NEW y \in T PROVE x <= y
 <2>1. x \in Nat /\ y \in Nat BY <1>4, <1>5
 <2>2. y < x => <<y, x>> \in R BY <1>1, <2>1
 <2>3. ~(y < x) BY <1>5, <2>2
 <2> QED BY <2>1, <2>3
<1>7. PICK g \in S : x = n - g BY <1>2, <1>5
<1>8. \A h \in S : h <= g BY <1>3, <1>6, <1>7
<1> QED BY <1>8

\* The next generation is the first one that is not journaled.
LEMMA NextIsFirst ==
  ASSUME TypeOK, EntriesTrue(entry), cur \in Beads, NextGen \in Gens
  PROVE  \A h \in Gens : entry[cur][h].outcome # "absent" <=> h < NextGen
<1>1. Known(cur) \subseteq 0 .. MaxGen /\ MaxGen \in Nat BY MaxGenAssumption DEF Known, Gens
<1>2. CASE Known(cur) = {} BY <1>2 DEF NextGen, Known, Gens
<1>3. CASE Known(cur) # {}
 <2>1. \E g \in Known(cur) : \A h \in Known(cur) : h <= g BY <1>1, <1>3, Greatest
 <2>2. PICK m \in Known(cur) : NextGen = 1 + m /\ \A h \in Known(cur) : h <= m BY <1>3, <2>1 DEF NextGen
 <2>3. \A h \in Gens : entry[cur][h].outcome # "absent" <=> h \in Known(cur) BY DEF Known
 <2>4. m \in Gens /\ entry[cur][m].outcome # "absent" BY <2>2 DEF Known
 <2>5. \A h \in Gens : h < m => entry[cur][h].outcome # "absent" BY <2>4 DEF EntriesTrue
 <2> QED BY <2>2, <2>3, <2>4, <2>5 DEF Gens
<1> QED BY <1>2, <1>3

\* The first generation that is not journaled becomes the operation's own.
PinsEntry(g) ==
    /\ entry'[cur][g] = Pinned /\ op'[cur].gen = g
    /\ \A h \in Gens : entry[cur][h].outcome # "absent" <=> h < g

\* One entry of the journal is pinned, dispatched or settled; the operation lets
\* go of its own generation when that is settled before a dispatch.
EntryMove(g) ==
    /\ cur \in Beads /\ UNCHANGED <<copy, calls, started, receipt, saved>>
    /\ \A b \in Beads : \A h \in Gens : b # cur \/ h # g => entry'[b][h] = entry[b][h]
    /\ \/ PinsEntry(g)
       \/ /\ entry[cur][g] = Pinned /\ copy[cur][g] = Pinned
          /\ entry'[cur][g] = [dispatched |-> TRUE, outcome |-> "none"]
       \/ /\ entry[cur][g].outcome # "absent"
          /\ entry'[cur][g].dispatched = entry[cur][g].dispatched
          /\ ~entry[cur][g].dispatched => op'[cur].gen # g
          /\ \/ ~entry[cur][g].dispatched /\ entry'[cur][g].outcome = "abandoned"
             \/ /\ receipt[cur][g] # "none"
                /\ entry'[cur][g].outcome = OutcomeOf(receipt[cur][g])

\* One entry of the journal is merged into the bead's copy.
CopyMove(g) ==
    /\ cur \in Beads /\ UNCHANGED <<entry, calls, started, receipt, saved>>
    /\ entry[cur][g].outcome # "absent" /\ Mergeable(copy[cur][g], entry[cur][g])
    /\ copy'[cur][g] = entry[cur][g]
    /\ \A b \in Beads : \A h \in Gens : b # cur \/ h # g => copy'[b][h] = copy[b][h]
    /\ copy[cur][g].outcome = "absent" =>
           \A h \in Gens : h < g => copy[cur][h].outcome \in Settled

\* What a settled entry looks like, for both ways in which it is written.
LEMMA OutcomeSet ==
  ASSUME TypeOK, cur \in Beads, NEW g \in Gens, NEW o,
    entry' = [entry EXCEPT ![cur][g].outcome = o]
  PROVE  /\ entry'[cur][g].dispatched = entry[cur][g].dispatched
         /\ entry'[cur][g].outcome = o
         /\ \A b \in Beads : \A h \in Gens : b # cur \/ h # g => entry'[b][h] = entry[b][h]
<1>1. entry \in [Beads -> [Gens -> Entry]] BY TypeParts DEF Columns
<1> QED BY <1>1 DEF Entry

\* Reconciliation settles one entry, copies one, or leaves both ledgers alone.
LEMMA ReconcileMoves ==
  ASSUME TypeOK, DispatchInv, LedgerInv, Reconcile
  PROVE  \/ UNCHANGED <<entry, copy, calls, started, receipt, saved>>
         \/ \E g \in Gens : EntryMove(g) \/ CopyMove(g)
<1> USE TypeParts
<1>1. cur \in Beads /\ pc = "reconcile" /\ UNCHANGED <<calls, started, receipt, saved>>
 BY DEF Reconcile, GuardType, runtime
<1> DEFINE todo == {g \in Known(cur) : Unsettled(g) \/ copy[cur][g] # entry[cur][g]}
<1>2. CASE UNCHANGED <<entry, copy>> BY <1>1, <1>2
<1>3. ASSUME NEW g \in todo, Unsettled(g), UNCHANGED <<copy, op>>,
  \/ /\ ~entry[cur][g].dispatched
     /\ entry' = [entry EXCEPT ![cur][g].outcome = "abandoned"]
  \/ /\ receipt[cur][g] # "none"
     /\ entry' = [entry EXCEPT ![cur][g].outcome = OutcomeOf(receipt[cur][g])]
      PROVE  g \in Gens /\ EntryMove(g)
 <2>1. g \in Gens /\ entry[cur][g].outcome # "absent" BY DEF Known
 <2>2. PICK o : /\ entry' = [entry EXCEPT ![cur][g].outcome = o]
                /\ \/ ~entry[cur][g].dispatched /\ o = "abandoned"
                   \/ receipt[cur][g] # "none" /\ o = OutcomeOf(receipt[cur][g]) BY <1>3
 <2>3. /\ entry'[cur][g].dispatched = entry[cur][g].dispatched
       /\ entry'[cur][g].outcome = o
       /\ \A b \in Beads : \A h \in Gens : b # cur \/ h # g => entry'[b][h] = entry[b][h]
  BY <1>1, <2>1, <2>2, OutcomeSet
 <2>4. op'[cur].gen # g BY <1>1, <1>3 DEF Unsettled, LedgerInv, GuardsOp, WorkPCs
 <2> QED BY <1>1, <1>3, <2>1, <2>2, <2>3, <2>4 DEF EntryMove
<1>4. ASSUME NEW g \in todo, \A h \in todo : g <= h, ~Unsettled(g),
  BeadWrite(g, Goto("reconcile")), UNCHANGED entry
      PROVE  UNCHANGED copy \/ (g \in Gens /\ CopyMove(g))
 <2>1. g \in Gens /\ entry[cur][g].outcome # "absent" BY DEF Known
 <2>2. CASE /\ Mergeable(copy[cur][g], entry[cur][g])
            /\ copy' = [copy EXCEPT ![cur][g] = entry[cur][g]]
  <3>1. copy \in [Beads -> [Gens -> Entry]] BY DEF BeadType
  <3>2. ASSUME NEW h \in Gens, h < g PROVE copy[cur][h].outcome \in Settled
   <4>1. entry[cur][h].outcome # "absent" BY <1>1, <2>1, <3>2 DEF LedgerInv, EntriesTrue
   <4>2. h \notin todo BY <1>4, <2>1, <3>2 DEF Gens
   <4>3. copy[cur][h] = entry[cur][h] /\ ~Unsettled(h) BY <4>1, <4>2 DEF Known
   <4>4. CASE h # Gen
    <5>1. entry[cur][h].outcome \in Outcomes BY <1>1 DEF Columns, Entry
    <5> QED BY <4>1, <4>3, <4>4, <5>1 DEF Unsettled, Settled, Outcomes
   <4>5. CASE h = Gen
    <5>1. op[cur].gen = Gen /\ Gen # 0 BY <1>1, <4>5, MaxGenAssumption DEF LedgerInv, GuardsOp, WorkPCs, Gens
    <5>2. copy[cur][Gen].outcome \in Settled BY <1>1, <2>1, <3>2, <4>5, <5>1 DEF LedgerInv, PinTrue
    <5> QED BY <4>5, <5>2
   <4> QED BY <4>4, <4>5
  <3> QED BY <1>1, <1>4, <2>1, <2>2, <3>1, <3>2 DEF CopyMove
 <2> QED BY <1>4, <2>2 DEF BeadWrite
<1> QED BY <1>1, <1>2, <1>3, <1>4 DEF Reconcile

\* The other writes to the bead: of the generation the guard works on.
LEMMA WriteMoves ==
  ASSUME TypeOK, DispatchInv, LedgerInv,
    PinCopy \/ AbandonCopy \/ DispatchCopy \/ OutcomeCopy \/ LiveCopy
  PROVE  \/ UNCHANGED <<entry, copy, calls, started, receipt, saved>>
         \/ Gen \in Gens /\ CopyMove(Gen)
<1> USE TypeParts
<1>1. /\ pc \in {"pinCopy", "abandonCopy", "dispatchCopy", "outcomeCopy", "liveCopy"}
      /\ UNCHANGED <<entry, calls, started, receipt, saved>>
      /\ \E goOn : BeadWrite(Gen, goOn) BY DEF PinCopy, AbandonCopy, DispatchCopy, OutcomeCopy, LiveCopy, runtime
<1>2. cur \in Beads /\ Gen \in Gens BY <1>1, MaxGenAssumption DEF GuardType, PinnedPCs, Gens
<1>3. entry[cur][Gen].outcome # "absent"
 <2>1. CASE pc \in {"pinCopy", "abandonCopy", "dispatchCopy", "liveCopy"} BY <2>1 DEF LedgerInv, StepsTrue, Pinned
 <2>2. CASE pc = "outcomeCopy" BY <1>2, <2>2 DEF LedgerInv, StepsTrue, DispatchInv, Formed
 <2> QED BY <1>1, <2>1, <2>2
<1>4. CASE copy[cur][Gen].outcome = "absent"
 <2>1. pc = "pinCopy"
  <3>1. pc \notin {"abandonCopy", "liveCopy"} BY <1>4 DEF LedgerInv, StepsTrue
  <3>2. entry[cur][Gen].dispatched => copy[cur][Gen].outcome # "absent" BY <1>2 DEF LedgerInv, EntriesTrue
  <3>3. pc \in {"dispatchCopy", "outcomeCopy"} => entry[cur][Gen].dispatched BY DEF LedgerInv, StepsTrue
  <3> QED BY <1>1, <1>4, <3>1, <3>2, <3>3
 <2>2. ASSUME NEW h \in Gens, h < Gen PROVE copy[cur][h].outcome \in Settled
  <3>1. entry[cur][h].outcome # "absent" BY <1>2, <1>3, <2>2 DEF LedgerInv, EntriesTrue
  <3>2. entry[cur][h] = copy[cur][h] /\ entry[cur][h].outcome # "none"
   BY <1>2, <2>1, <2>2 DEF LedgerInv, StepsTrue, OwnPCs, Gens
  <3>3. entry[cur][h].outcome \in Outcomes BY <1>2 DEF Columns, Entry
  <3> QED BY <3>1, <3>2, <3>3 DEF Settled, Outcomes
 <2> QED BY <1>1, <1>2, <1>3, <2>2 DEF BeadWrite, CopyMove, BeadType
<1>5. CASE copy[cur][Gen].outcome # "absent" BY <1>1, <1>2, <1>3, <1>5 DEF BeadWrite, CopyMove, BeadType
<1> QED BY <1>4, <1>5

\* The steps that write an entry in the journal, other than in a reconciliation.
LEMMA EntryMoves ==
  ASSUME TypeOK, DispatchInv, LedgerInv, Live \/ Pin \/ PinHolds \/ Dispatch \/ Outcome
  PROVE  \/ UNCHANGED <<entry, copy, calls, started, receipt, saved>>
         \/ \E g \in Gens : EntryMove(g)
<1> USE TypeParts
<1>1. /\ pc \in {"live", "pin", "holds", "dispatch", "outcome"}
      /\ UNCHANGED <<copy, calls, started, receipt, saved>>
 BY DEF Live, Pin, PinHolds, Dispatch, Outcome, bead, runtime
<1>2. cur \in Beads BY <1>1 DEF GuardType
<1>3. CASE UNCHANGED entry BY <1>1, <1>3
<1>4. CASE Live
 <2>1. CASE Gen # 0 /\ entry' = [entry EXCEPT ![cur][Gen].outcome = "abandoned"]
  <3>1. Gen \in Gens BY <2>1, MaxGenAssumption DEF GuardType, Gens
  <3>2. entry[cur][Gen] = Pinned BY <1>4, <2>1 DEF Live, LedgerInv, StepsTrue, AgreedPCs
  <3>3. /\ entry'[cur][Gen].dispatched = entry[cur][Gen].dispatched
        /\ entry'[cur][Gen].outcome = "abandoned"
        /\ \A b \in Beads : \A h \in Gens : b # cur \/ h # Gen => entry'[b][h] = entry[b][h]
   BY <1>2, <2>1, <3>1, OutcomeSet
  <3>4. ~entry[cur][Gen].dispatched /\ entry[cur][Gen].outcome # "absent" BY <3>2 DEF Pinned
  <3>5. op'[cur].gen # Gen
   <4>1. entry' # entry BY <3>2, <3>3 DEF Pinned
   <4>2. Finish(cur, "running") BY <1>4, <4>1 DEF Live
   <4> QED BY <1>2, <2>1, <4>2 DEF Finish, NoOp, Columns
  <3>6. EntryMove(Gen) BY <1>1, <1>2, <3>3, <3>4, <3>5 DEF EntryMove
  <3> QED BY <3>1, <3>6
 <2> QED BY <1>3, <1>4, <2>1 DEF Live
<1>5. CASE Pin
 <2>1. CASE /\ NextGen \in Gens /\ entry' = [entry EXCEPT ![cur][NextGen] = Pinned]
            /\ op' = [op EXCEPT ![cur].gen = NextGen]
  <3>1. PICK g \in Gens : g = NextGen BY <2>1
  <3>2. \A h \in Gens : entry[cur][h].outcome # "absent" <=> h < g BY <1>2, <2>1, <3>1, NextIsFirst DEF LedgerInv
  <3>3. /\ entry'[cur][g] = Pinned
        /\ \A b \in Beads : \A h \in Gens : b # cur \/ h # g => entry'[b][h] = entry[b][h]
   BY <1>2, <2>1, <3>1 DEF Columns
  <3>4. op'[cur].gen = g
   <4>1. op[cur] \in Op /\ op \in [Beads -> Op] /\ op' = [op EXCEPT ![cur].gen = g] BY <1>2, <2>1, <3>1 DEF Columns
   <4> QED BY <1>2, <4>1 DEF Op
  <3> QED BY <1>1, <1>2, <3>2, <3>3, <3>4 DEF EntryMove, PinsEntry
 <2> QED BY <1>3, <1>5, <2>1 DEF Pin
<1>6. CASE PinHolds
 <2>1. CASE entry' = [entry EXCEPT ![cur][Gen].outcome = "abandoned"]
  <3>1. Gen \in Gens /\ Gen # 0 BY <1>6, MaxGenAssumption DEF PinHolds, GuardType, PinnedPCs, Gens
  <3>2. entry[cur][Gen] = Pinned BY <1>6, <3>1 DEF PinHolds, LedgerInv, StepsTrue
  <3>3. /\ entry'[cur][Gen].dispatched = entry[cur][Gen].dispatched
        /\ entry'[cur][Gen].outcome = "abandoned"
        /\ \A b \in Beads : \A h \in Gens : b # cur \/ h # Gen => entry'[b][h] = entry[b][h]
   BY <1>2, <2>1, <3>1, OutcomeSet
  <3>4. ~entry[cur][Gen].dispatched /\ entry[cur][Gen].outcome # "absent" BY <3>2 DEF Pinned
  <3>5. op'[cur].gen # Gen
   <4>1. op[cur] \in Op /\ op \in [Beads -> Op] BY <1>2 DEF Columns
   <4>2. op' = [op EXCEPT ![cur].gen = 0] => op'[cur].gen = 0 BY <1>2, <4>1 DEF Op
   <4>3. entry' # entry BY <3>2, <3>3 DEF Pinned
   <4> QED BY <1>6, <3>1, <4>2, <4>3 DEF PinHolds
  <3>6. EntryMove(Gen) BY <1>1, <1>2, <3>3, <3>4, <3>5 DEF EntryMove
  <3> QED BY <3>1, <3>6
 <2> QED BY <1>3, <1>6, <2>1 DEF PinHolds
<1>7. CASE Dispatch
 <2>1. CASE entry[cur][Gen] = Pinned /\ entry' = [entry EXCEPT ![cur][Gen].dispatched = TRUE]
  <3>1. Gen \in Gens /\ entry \in [Beads -> [Gens -> Entry]]
   BY <1>7, MaxGenAssumption DEF Dispatch, GuardType, PinnedPCs, Gens, Columns
  <3>2. copy[cur][Gen] = Pinned BY <1>7, <2>1 DEF Dispatch, DispatchInv, Handover
  <3>3. \A b \in Beads : \A h \in Gens : b # cur \/ h # Gen => entry'[b][h] = entry[b][h] BY <1>2, <2>1, <3>1
  <3>4. entry'[cur][Gen] = [Pinned EXCEPT !.dispatched = TRUE] BY <1>2, <2>1, <3>1
  <3>5. entry'[cur][Gen] = [dispatched |-> TRUE, outcome |-> "none"] BY <3>4 DEF Pinned
  <3> QED BY <1>1, <1>2, <2>1, <3>1, <3>2, <3>3, <3>5 DEF EntryMove
 <2> QED BY <1>3, <1>7, <2>1 DEF Dispatch
<1>8. CASE Outcome
 <2>1. CASE /\ receipt[cur][Gen] # "none"
            /\ entry' = [entry EXCEPT ![cur][Gen].outcome = OutcomeOf(receipt[cur][Gen])]
  <3>1. Gen \in Gens BY <1>8, MaxGenAssumption DEF Outcome, GuardType, PinnedPCs, Gens
  <3>2. entry[cur][Gen].outcome # "absent" /\ entry[cur][Gen].dispatched
   BY <1>2, <1>8, <3>1 DEF Outcome, LedgerInv, StepsTrue, DispatchInv, Formed
  <3>3. /\ entry'[cur][Gen].dispatched = entry[cur][Gen].dispatched
        /\ entry'[cur][Gen].outcome = OutcomeOf(receipt[cur][Gen])
        /\ \A b \in Beads : \A h \in Gens : b # cur \/ h # Gen => entry'[b][h] = entry[b][h]
   BY <1>2, <2>1, <3>1, OutcomeSet
  <3> QED BY <1>1, <1>2, <2>1, <3>1, <3>2, <3>3 DEF EntryMove
 <2> QED BY <1>3, <1>8, <2>1 DEF Outcome
<1> QED BY <1>4, <1>5, <1>6, <1>7, <1>8

\* Every step leaves the ledger alone or is one of these.
LEMMA LedgerMoves ==
  ASSUME TypeOK, DispatchInv, LedgerInv, [Next]_vars
  PROVE  \/ UNCHANGED <<entry, copy, calls, started, receipt, saved>>
         \/ \E g \in Gens : EntryMove(g) \/ CopyMove(g)
         \/ Rebuild \/ Call \/ ReceiptPut \/ Backup \/ Restore
<1>1. CASE Reconcile BY <1>1, ReconcileMoves
<1>2. CASE PinCopy \/ AbandonCopy \/ DispatchCopy \/ OutcomeCopy \/ LiveCopy BY <1>2, WriteMoves
<1>3. CASE Live \/ Pin \/ PinHolds \/ Dispatch \/ Outcome BY <1>3, EntryMoves
<1>4. CASE Checks \/ OwnDispatch \/ Account \/ FinishLaunch
 BY <1>4 DEF Checks, OwnDispatch, Account, FinishLaunch, bead, runtime
<1>5. CASE Step BY <1>1, <1>2, <1>3, <1>4, <1>5 DEF Step
<1>6. CASE Environment
 BY <1>6 DEF Environment, Crash, RuntimeUp, RuntimeDown, Release, LivenessChanges, Relisted, ClaimLost, HumanLabel,
   SessionEnds, journal, bead, runtime
<1>7. CASE \E b \in Beads : Caller(b)
 BY <1>7 DEF Caller, StartNew, OpenResume, SweepOurs, SweepNotOurs, ReplayRelease, Escalate, Enter, bead, runtime
<1> QED BY <1>5, <1>6, <1>7 DEF Next, PickupBegin, vars, journal, bead, runtime

\* What no step undoes: a copy on the bead and its outcome, a call, and what came of it.
LEMMA LedgerKept ==
  ASSUME TypeOK, DispatchInv, LedgerInv, [Next]_vars
  PROVE  \A b \in Beads : \A g \in Gens :
             /\ copy[b][g].outcome # "absent" => copy'[b][g].outcome # "absent"
             /\ copy[b][g].outcome \in Settled => copy'[b][g].outcome = copy[b][g].outcome
             /\ calls[b][g] > 0 => calls'[b][g] > 0
             /\ g \in started[b] => g \in started'[b]
             /\ calls[b][g] > 0 /\ g \notin started[b] => g \notin started'[b]
<1> USE TypeParts
<1>1. CASE UNCHANGED <<copy, calls, started>> BY <1>1
<1>2. ASSUME NEW g \in Gens, CopyMove(g)
      PROVE  /\ UNCHANGED <<calls, started>>
             /\ \A b \in Beads : \A h \in Gens :
                   /\ copy[b][h].outcome # "absent" => copy'[b][h].outcome # "absent"
                   /\ copy[b][h].outcome \in Settled => copy'[b][h].outcome = copy[b][h].outcome
 BY <1>2 DEF CopyMove, Mergeable, Settled
<1>3. CASE Call
 <2>1. cur \in Beads /\ Gen \in Gens /\ calls \in [Beads -> [Gens -> Nat]]
  BY <1>3, MaxGenAssumption DEF Call, GuardType, PinnedPCs, Gens, RuntimeType
 <2>2. calls[cur][Gen] = 0 BY <1>3 DEF Call, DispatchInv, Handover
 <2>3. \A b \in Beads : \A g \in Gens :
           calls'[b][g] = IF b = cur /\ g = Gen THEN 1 ELSE calls[b][g] BY <1>3, <2>1, <2>2 DEF Call
 <2>4. UNCHANGED copy /\ started \in [Beads -> SUBSET Gens] BY <1>3 DEF Call, bead, RuntimeType
 <2>5. \A b \in Beads : \A g \in Gens :
           /\ g \in started[b] => g \in started'[b]
           /\ g \in started'[b] => g \in started[b] \/ (b = cur /\ g = Gen) BY <1>3, <2>1, <2>4 DEF Call, Appears
 <2> QED BY <2>2, <2>3, <2>4, <2>5
<1>4. CASE Rebuild \/ ReceiptPut \/ Backup \/ Restore
 BY <1>1, <1>4 DEF Rebuild, ReceiptPut, Backup, Restore, bead, runtime
<1>5. ASSUME NEW g \in Gens, EntryMove(g) PROVE UNCHANGED <<copy, calls, started>> BY <1>5 DEF EntryMove
<1> QED BY <1>1, <1>2, <1>3, <1>4, <1>5, LedgerMoves

\* A receipt is written for the call that was answered, with its answer.
LEMMA ReceiptsStep ==
  ASSUME TypeOK, DispatchInv, LedgerInv, [Next]_vars
  PROVE  ReceiptsTrue(receipt)' /\ ReceiptsTrue(saved.receipt)'
<1> USE TypeParts
<1>1. CASE UNCHANGED <<receipt, saved>> BY <1>1, LedgerKept DEF LedgerInv, ReceiptsTrue
<1>2. CASE ReceiptPut
 <2>1. /\ cur \in Beads /\ Gen \in Gens /\ receipt \in [Beads -> [Gens -> Receipts]]
       /\ UNCHANGED <<calls, started, saved>>
  BY <1>2, MaxGenAssumption DEF ReceiptPut, GuardType, PinnedPCs, Gens, Columns, runtime
 <2>2. ReceiptsTrue(saved.receipt)' BY <2>1, LedgerKept DEF LedgerInv, ReceiptsTrue
 <2>3. /\ calls[cur][Gen] > 0
       /\ answer = "started" <=> Gen \in started[cur] BY <1>2 DEF ReceiptPut, LedgerInv, StepsTrue
 <2>4. \A b \in Beads : \A g \in Gens :
           receipt'[b][g] = receipt[b][g] \/ (b = cur /\ g = Gen /\ receipt'[b][g] = answer)
  BY <1>2, <2>1 DEF ReceiptPut
 <2>5. ReceiptsTrue(receipt)' BY <2>1, <2>3, <2>4 DEF LedgerInv, ReceiptsTrue
 <2> QED BY <2>2, <2>5
<1>3. CASE Backup
 <2>1. saved'.receipt = receipt /\ UNCHANGED <<receipt, calls, started>> BY <1>3 DEF Backup, Journal, journal, runtime
 <2> QED BY <2>1 DEF LedgerInv, ReceiptsTrue
<1>4. CASE Restore
 <2>1. receipt' = saved.receipt /\ UNCHANGED <<saved, calls, started>> BY <1>4 DEF Restore, runtime
 <2> QED BY <2>1 DEF LedgerInv, ReceiptsTrue
<1>5. CASE Rebuild \/ Call \/ \E g \in Gens : EntryMove(g) \/ CopyMove(g)
 BY <1>1, <1>5 DEF Rebuild, Call, EntryMove, CopyMove
<1> QED BY <1>1, <1>2, <1>3, <1>4, <1>5, LedgerMoves

\* The copy on the bead, and with it what Accounted says of it.
LEMMA CopyTrueStep ==
  ASSUME TypeOK, DispatchInv, LedgerInv, [Next]_vars
  PROVE  CopyInOrder' /\ OutcomeTrue' /\ EntriesTrue(copy)'
<1> USE TypeParts
<1>1. CASE UNCHANGED <<copy, calls, started>> BY <1>1 DEF LedgerInv, CopyInOrder, OutcomeTrue, EntriesTrue
<1>2. ASSUME NEW g \in Gens, CopyMove(g)
      PROVE  CopyInOrder' /\ OutcomeTrue' /\ EntriesTrue(copy)'
 <2>1. /\ cur \in Beads /\ UNCHANGED <<entry, calls, started, receipt, saved>>
       /\ entry[cur][g].outcome # "absent" /\ Mergeable(copy[cur][g], entry[cur][g])
       /\ copy'[cur][g] = entry[cur][g]
       /\ \A b \in Beads : \A h \in Gens : b # cur \/ h # g => copy'[b][h] = copy[b][h] BY <1>2 DEF CopyMove
 <2>2. CopyInOrder'
  <3> SUFFICES ASSUME NEW b \in Beads, NEW h \in Gens, NEW k \in Gens,
    h < k, copy'[b][k].outcome # "absent"
               PROVE  copy'[b][h].outcome \in Settled BY DEF CopyInOrder
  <3>1. copy[b][h].outcome \in Settled
   <4>1. CASE copy[b][k].outcome # "absent" BY <4>1 DEF LedgerInv, CopyInOrder
   <4>2. CASE copy[b][k].outcome = "absent" BY <1>2, <2>1, <4>2 DEF CopyMove
   <4> QED BY <4>1, <4>2
  <3> QED BY <3>1, LedgerKept
 <2>3. EntriesTrue(copy)'
  <3> SUFFICES ASSUME NEW b \in Beads, NEW h \in Gens
               PROVE  /\ \A k \in Gens : h < k /\ copy'[b][k].outcome # "absent"
                                            => copy'[b][h].outcome # "absent"
                      /\ copy'[b][h].dispatched => copy'[b][h].outcome # "absent"
                      /\ copy'[b][h].outcome = "launched" => h \in started'[b]
                      /\ copy'[b][h].outcome = "abandoned" /\ copy'[b][h].dispatched
                            => h \notin started'[b] /\ calls'[b][h] > 0 BY DEF EntriesTrue
  <3>1. \A k \in Gens : h < k /\ copy'[b][k].outcome # "absent"
                            => copy'[b][h].outcome # "absent" BY <2>2 DEF CopyInOrder, Settled
  <3>2. CASE b = cur /\ h = g BY <2>1, <3>1, <3>2 DEF LedgerInv, EntriesTrue
  <3>3. CASE b # cur \/ h # g BY <2>1, <3>1, <3>3 DEF LedgerInv, EntriesTrue
  <3> QED BY <3>2, <3>3
 <2>4. OutcomeTrue'
  <3> SUFFICES ASSUME NEW b \in Beads, NEW h \in Gens
               PROVE  /\ copy'[b][h].outcome = "abandoned" => h \notin started[b]
                      /\ copy'[b][h].outcome = "launched"  => h \in started[b] BY <2>1 DEF OutcomeTrue
  <3>1. CASE b # cur \/ h # g BY <2>1, <3>1 DEF LedgerInv, OutcomeTrue
  <3>2. CASE b = cur /\ h = g /\ entry[cur][g].dispatched BY <2>1, <3>2 DEF LedgerInv, EntriesTrue
  <3>3. CASE b = cur /\ h = g /\ ~entry[cur][g].dispatched
   <4>1. ~copy[cur][g].dispatched BY <2>1, <3>3 DEF Mergeable, DispatchInv, Formed
   <4>2. ~(calls[cur][g] > 0) BY <2>1, <4>1 DEF DispatchInv, DispatchOnBeadFirst
   <4>3. g \notin started[cur] BY <2>1, <4>2 DEF LedgerInv, SessionsTrue
   <4> QED BY <2>1, <3>3, <4>3 DEF LedgerInv, EntriesTrue
  <3> QED BY <3>1, <3>2, <3>3
 <2> QED BY <2>2, <2>3, <2>4
<1>3. CASE Call
 <2>1. cur \in Beads /\ Gen \in Gens /\ started \in [Beads -> SUBSET Gens] /\ UNCHANGED copy
  BY <1>3, MaxGenAssumption DEF Call, GuardType, PinnedPCs, Gens, RuntimeType, bead
 <2>2. copy[cur][Gen].outcome = "none" BY <1>3 DEF Call, LedgerInv, StepsTrue
 <2>3. \A b \in Beads : \A g \in Gens :
           g \in started'[b] => g \in started[b] \/ (b = cur /\ g = Gen) BY <1>3, <2>1 DEF Call, Appears
 <2>4. OutcomeTrue' BY <2>1, <2>2, <2>3, LedgerKept DEF LedgerInv, OutcomeTrue
 <2>5. CopyInOrder' /\ EntriesTrue(copy)' BY <2>1, LedgerKept DEF LedgerInv, CopyInOrder, EntriesTrue
 <2> QED BY <2>4, <2>5
<1>4. CASE Rebuild \/ ReceiptPut \/ Backup \/ Restore \/ \E g \in Gens : EntryMove(g)
 BY <1>1, <1>4 DEF Rebuild, ReceiptPut, Backup, Restore, EntryMove, bead, runtime
<1> QED BY <1>1, <1>2, <1>3, <1>4, LedgerMoves

\* The journal's entries and those of its backup.
LEMMA EntriesTrueStep ==
  ASSUME TypeOK, DispatchInv, LedgerInv, [Next]_vars
  PROVE  EntriesTrue(entry)' /\ EntriesTrue(saved.entry)'
<1> USE TypeParts
<1>1. UNCHANGED saved => EntriesTrue(saved.entry)' BY LedgerKept DEF LedgerInv, EntriesTrue
<1>2. UNCHANGED entry => EntriesTrue(entry)' BY LedgerKept DEF LedgerInv, EntriesTrue
<1>3. ASSUME NEW g \in Gens, EntryMove(g) PROVE EntriesTrue(entry)'
 <2>1. /\ cur \in Beads /\ UNCHANGED <<copy, calls, started, receipt, saved>>
       /\ \A b \in Beads : \A h \in Gens : b # cur \/ h # g => entry'[b][h] = entry[b][h] BY <1>3 DEF EntryMove
 <2>2. \A h \in Gens : h < g /\ entry'[cur][g].outcome # "absent"
                          => entry[cur][h].outcome # "absent"
  BY <1>3, <2>1 DEF EntryMove, PinsEntry, LedgerInv, EntriesTrue, Pinned
 <2>3. entry'[cur][g].outcome # "absent" BY <1>3 DEF EntryMove, PinsEntry, Pinned, OutcomeOf
 <2>4. /\ entry'[cur][g].dispatched => copy[cur][g].outcome # "absent"
       /\ entry'[cur][g].outcome = "launched" => g \in started[cur]
       /\ entry'[cur][g].outcome = "abandoned" /\ entry'[cur][g].dispatched
             => g \notin started[cur] /\ calls[cur][g] > 0
  <3>1. CASE entry'[cur][g] = Pinned BY <3>1 DEF Pinned
  <3>2. CASE /\ copy[cur][g] = Pinned
             /\ entry'[cur][g] = [dispatched |-> TRUE, outcome |-> "none"] BY <3>2 DEF Pinned
  <3>3. CASE /\ entry'[cur][g].dispatched = entry[cur][g].dispatched
             /\ ~entry[cur][g].dispatched /\ entry'[cur][g].outcome = "abandoned" BY <3>3
  <3>4. CASE /\ entry'[cur][g].dispatched = entry[cur][g].dispatched
             /\ receipt[cur][g] # "none"
             /\ entry'[cur][g].outcome = OutcomeOf(receipt[cur][g])
   BY <2>1, <3>4 DEF LedgerInv, EntriesTrue, ReceiptsTrue, OutcomeOf
  <3> QED BY <1>3, <3>1, <3>2, <3>3, <3>4 DEF EntryMove, PinsEntry
 <2> SUFFICES ASSUME NEW b \in Beads, NEW h \in Gens
              PROVE  /\ \A k \in Gens : h < k /\ entry'[b][k].outcome # "absent"
                                           => entry'[b][h].outcome # "absent"
                     /\ entry'[b][h].dispatched => copy'[b][h].outcome # "absent"
                     /\ entry'[b][h].outcome = "launched" => h \in started'[b]
                     /\ entry'[b][h].outcome = "abandoned" /\ entry'[b][h].dispatched
                           => h \notin started'[b] /\ calls'[b][h] > 0 BY DEF EntriesTrue
 <2>5. CASE b = cur /\ h = g BY <2>1, <2>3, <2>4, <2>5
 <2>6. CASE b # cur \/ h # g
  <3>1. \A k \in Gens : h < k /\ entry'[b][k].outcome # "absent"
                           => entry'[b][h].outcome # "absent" BY <2>1, <2>2, <2>6 DEF LedgerInv, EntriesTrue
  <3> QED BY <2>1, <2>6, <3>1 DEF LedgerInv, EntriesTrue
 <2> QED BY <2>5, <2>6
<1>4. CASE Rebuild
 <2>1. cur \in Beads /\ UNCHANGED <<copy, calls, started, saved>> BY <1>4 DEF Rebuild, GuardType, bead, runtime
 <2>2. \A b \in Beads : \A h \in Gens :
           entry'[b][h] = IF b = cur /\ entry[cur][h].outcome = "absent"
                              /\ copy[cur][h].outcome # "absent"
                          THEN copy[cur][h] ELSE entry[b][h] BY <1>4, <2>1 DEF Rebuild, Known, Columns
 <2>3. EntriesTrue(entry)'
  <3> SUFFICES ASSUME NEW b \in Beads, NEW h \in Gens
               PROVE  /\ \A k \in Gens : h < k /\ entry'[b][k].outcome # "absent"
                                            => entry'[b][h].outcome # "absent"
                      /\ entry'[b][h].dispatched => copy'[b][h].outcome # "absent"
                      /\ entry'[b][h].outcome = "launched" => h \in started'[b]
                      /\ entry'[b][h].outcome = "abandoned" /\ entry'[b][h].dispatched
                            => h \notin started'[b] /\ calls'[b][h] > 0 BY DEF EntriesTrue
  <3>1. EntriesTrue(entry) /\ EntriesTrue(copy) BY DEF LedgerInv
  <3>2. ASSUME NEW k \in Gens, h < k, entry'[b][k].outcome # "absent"
        PROVE  entry'[b][h].outcome # "absent"
   <4>1. entry[b][k].outcome # "absent" \/ (b = cur /\ copy[cur][k].outcome # "absent") BY <2>2, <3>2
   <4>2. entry[b][h].outcome # "absent" \/ (b = cur /\ copy[cur][h].outcome # "absent")
    BY <2>1, <3>1, <3>2, <4>1 DEF EntriesTrue
   <4> QED BY <2>2, <4>2
  <3>3. CASE entry'[b][h] = entry[b][h] BY <2>1, <3>1, <3>2, <3>3 DEF EntriesTrue
  <3>4. CASE b = cur /\ entry'[b][h] = copy[b][h] BY <2>1, <3>1, <3>2, <3>4 DEF EntriesTrue
  <3> QED BY <2>2, <3>3, <3>4
 <2> QED BY <1>1, <2>1, <2>3
<1>5. CASE Backup
 <2>1. saved'.entry = entry /\ UNCHANGED <<entry, copy, calls, started>>
  BY <1>5 DEF Backup, Journal, journal, bead, runtime
 <2> QED BY <1>2, <2>1 DEF LedgerInv, EntriesTrue
<1>6. CASE Restore
 <2>1. entry' = saved.entry /\ UNCHANGED <<saved, copy, calls, started>> BY <1>6 DEF Restore, bead, runtime
 <2> QED BY <1>1, <2>1 DEF LedgerInv, EntriesTrue
<1>7. CASE Call \/ ReceiptPut \/ \E g \in Gens : CopyMove(g) BY <1>1, <1>2, <1>7 DEF Call, ReceiptPut, CopyMove
<1>8. CASE \E g \in Gens : EntryMove(g) BY <1>1, <1>3, <1>8 DEF EntryMove
<1> QED BY <1>1, <1>2, <1>4, <1>5, <1>6, <1>7, <1>8, LedgerMoves

\* What the guard knows when it calls: nothing later, and everything earlier settled.
LEMMA CallIsNext ==
  ASSUME TypeOK, DispatchInv, LedgerInv, pc = "call", NEW h \in Gens, calls[cur][h] > 0
  PROVE  h < Gen /\ copy[cur][h].outcome \in Settled
<1> USE TypeParts
<1>1. cur \in Beads /\ Gen \in Gens BY MaxGenAssumption DEF GuardType, PinnedPCs, Gens
<1>2. h # Gen BY DEF DispatchInv, Handover
<1>3. copy[cur][h].outcome # "absent" BY <1>1 DEF DispatchInv, DispatchOnBeadFirst, Formed
<1>4. /\ entry[cur][h] = copy[cur][h] /\ entry[cur][h].outcome # "none"
      /\ ~(h > Gen) BY <1>1, <1>2, <1>3 DEF LedgerInv, StepsTrue, OwnPCs
<1>5. copy[cur][h].outcome \in Outcomes BY <1>1 DEF BeadType, Entry
<1> QED BY <1>1, <1>2, <1>3, <1>4, <1>5 DEF Settled, Outcomes, Gens

\* A call never overtakes a generation that is not settled on the bead.
LEMMA EarlierStep ==
  ASSUME TypeOK, DispatchInv, LedgerInv, [Next]_vars
  PROVE  EarlierSettled'
<1> USE TypeParts
<1>1. CASE UNCHANGED calls BY <1>1, LedgerKept DEF LedgerInv, EarlierSettled, Settled
<1>2. CASE Call
 <2>1. cur \in Beads /\ Gen \in Gens /\ calls \in [Beads -> [Gens -> Nat]] /\ pc = "call"
  BY <1>2, MaxGenAssumption DEF Call, GuardType, PinnedPCs, Gens, RuntimeType
 <2>2. UNCHANGED copy BY <1>2 DEF Call, bead
 <2>3. \A b \in Beads : \A g \in Gens :
           calls'[b][g] > 0 => calls[b][g] > 0 \/ (b = cur /\ g = Gen) BY <1>2, <2>1 DEF Call
 <2> SUFFICES ASSUME NEW b \in Beads, NEW g \in Gens, NEW h \in Gens,
   g < h, calls'[b][g] > 0, calls'[b][h] > 0
              PROVE  copy[b][g].outcome \in {"launched", "abandoned"} BY <2>2 DEF EarlierSettled
 <2>4. CASE calls[b][g] > 0 /\ calls[b][h] > 0 BY <2>4 DEF LedgerInv, EarlierSettled
 <2>5. CASE b = cur /\ h = Gen /\ calls[b][g] > 0 BY <2>1, <2>5, CallIsNext DEF Settled
 <2>6. CASE b = cur /\ g = Gen
  <3>1. calls[cur][h] > 0 BY <2>3, <2>6 DEF Gens
  <3>2. h < Gen BY <2>1, <3>1, CallIsNext
  <3> QED BY <2>6, <3>2 DEF Gens
 <2> QED BY <2>3, <2>4, <2>5, <2>6
<1>3. CASE Rebuild \/ ReceiptPut \/ Backup \/ Restore \/ \E g \in Gens : EntryMove(g) \/ CopyMove(g)
 BY <1>1, <1>3 DEF Rebuild, ReceiptPut, Backup, Restore, EntryMove, CopyMove, runtime
<1> QED BY <1>1, <1>2, <1>3, LedgerMoves

\* The runtime's sessions.
LEMMA SessionsStep ==
  ASSUME TypeOK, DispatchInv, LedgerInv, [Next]_vars
  PROVE  SessionsTrue'
<1> USE TypeParts
<1>1. CASE UNCHANGED <<sess, sessGen, started, calls>> BY <1>1 DEF LedgerInv, SessionsTrue
<1>2. CASE Call
 <2>1. /\ cur \in Beads /\ Gen \in Gens /\ Gen # 0
       /\ calls \in [Beads -> [Gens -> Nat]] /\ started \in [Beads -> SUBSET Gens]
       /\ sess \in [Beads -> {"none", "live", "unknown"}] /\ sessGen \in [Beads -> 0 .. MaxGen]
  BY <1>2, MaxGenAssumption DEF Call, GuardType, PinnedPCs, Gens, RuntimeType
 <2>2. calls'[cur][Gen] > 0 BY <1>2, <2>1 DEF Call
 <2>3. CASE UNCHANGED <<sess, sessGen, started>> BY <2>1, <2>3, LedgerKept DEF LedgerInv, SessionsTrue
 <2>4. ASSUME NEW l, Appears(l) PROVE SessionsTrue'
  <3>1. \A b \in Beads : b # cur => /\ sess'[b] = sess[b] /\ sessGen'[b] = sessGen[b]
                                    /\ started'[b] = started[b] BY <2>1, <2>4 DEF Appears
  <3>2. sessGen'[cur] = Gen /\ started'[cur] = started[cur] \cup {Gen} BY <2>1, <2>4 DEF Appears
  <3>3. ASSUME NEW b \in Beads, NEW g \in started'[b] PROVE calls'[b][g] > 0
   BY <2>1, <2>2, <3>1, <3>2, LedgerKept DEF LedgerInv, SessionsTrue
  <3> QED BY <2>1, <3>1, <3>2, <3>3 DEF LedgerInv, SessionsTrue
 <2> QED BY <1>2, <2>3, <2>4 DEF Call
<1>3. ASSUME NEW b \in Beads, SweepNotOurs(b) \/ LivenessChanges(b) \/ Relisted(b) PROVE SessionsTrue'
 <2>1. UNCHANGED <<sessGen, started, calls>> /\ sess \in [Beads -> {"none", "live", "unknown"}]
  BY <1>3 DEF SweepNotOurs, LivenessChanges, Relisted, RuntimeType
 <2>2. \A x \in Beads : sess'[x] # "none" => sess[x] # "none" \/ sessGen[x] # 0
  BY <1>3, <2>1 DEF SweepNotOurs, LivenessChanges, Relisted
 <2> QED BY <2>1, <2>2 DEF LedgerInv, SessionsTrue
<1>4. ASSUME NEW b \in Beads, NEW c \in Causes, SessionEnds(b, c) PROVE SessionsTrue'
 BY <1>4 DEF SessionEnds, RuntimeType, LedgerInv, SessionsTrue
<1>5. CASE Step
 BY <1>1, <1>2, <1>5 DEF Step, Checks, OwnDispatch, Rebuild, Reconcile, Live, LiveCopy, Account, Pin, PinCopy,
   PinHolds, AbandonCopy, Dispatch, DispatchCopy, ReceiptPut, Outcome, OutcomeCopy, FinishLaunch, runtime
<1>6. CASE Environment
 BY <1>1, <1>3, <1>4, <1>6 DEF Environment, Crash, RuntimeUp, RuntimeDown, Backup, Restore, Release, ClaimLost,
   HumanLabel, runtime
<1>7. CASE \E b \in Beads : Caller(b)
 BY <1>1, <1>3, <1>7 DEF Caller, StartNew, OpenResume, SweepOurs, ReplayRelease, Escalate, Enter, runtime
<1> QED BY <1>1, <1>5, <1>6, <1>7 DEF Next, PickupBegin, vars, runtime

\* An operation's generation only changes when it is forgotten, or newly pinned.
LEMMA OpGens ==
  ASSUME TypeOK, DispatchInv, LedgerInv, [Next]_vars, ~Restore, NEW b \in Beads
  PROVE  \/ op'[b].gen \in {0, op[b].gen}
         \/ b = cur /\ \E g \in Gens : EntryMove(g) /\ PinsEntry(g)
<1> USE TypeParts
<1>1. CASE UNCHANGED op BY <1>1
<1>2. op \in [Beads -> Op] /\ op[b] \in Op /\ (pc # "idle" => cur \in Beads) BY DEF Columns, GuardType
<1>3. ASSUME NEW x \in Beads, \/ Stuck(x) \/ \E s : Finish(x, s)
                              \/ \E k : op' = [op EXCEPT ![x] = NewOp(k)]
                              \/ op' = [op EXCEPT ![x] = NoOp]
      PROVE  op'[b].gen \in {0, op[b].gen} BY <1>2, <1>3 DEF Stuck, Finish, NewOp, NoOp
<1>4. CASE pc # "idle" /\ (EscalateFrom \/ \E s : Finish(cur, s)) BY <1>2, <1>3, <1>4 DEF EscalateFrom
<1>5. ASSUME cur \in Beads,
  \/ op' = [op EXCEPT ![cur].gen = 0]
  \/ \E a : op' = [op EXCEPT ![cur].gen = 0, ![cur].attempts = a]
      PROVE  op'[b].gen \in {0, op[b].gen}
 <2>1. CASE b # cur BY <1>2, <1>5, <2>1
 <2>2. CASE b = cur BY <1>2, <1>5, <2>2 DEF Op
 <2> QED BY <2>1, <2>2
<1>6. CASE Pin
 <2>1. CASE entry' # entry
  <3>1. PICK g \in Gens : EntryMove(g) BY <1>6, <2>1, EntryMoves
  <3>2. NextGen \in Gens /\ op' = [op EXCEPT ![cur].gen = NextGen] BY <1>6, <2>1 DEF Pin
  <3>3. cur \in Beads BY <1>2, <1>6 DEF Pin
  <3>4. CASE b # cur BY <1>2, <3>2, <3>3, <3>4
  <3>5. CASE b = cur
   <4>1. entry' = [entry EXCEPT ![cur][NextGen] = Pinned] /\ UNCHANGED <<copy, calls, started, receipt, saved>>
    BY <1>6, <2>1 DEF Pin, bead, runtime
   <4>2. PICK n \in Gens : n = NextGen BY <3>2
   <4>3. \A h \in Gens : entry[cur][h].outcome # "absent" <=> h < n BY <3>2, <3>3, <4>2, NextIsFirst DEF LedgerInv
   <4>4. /\ entry'[cur][n] = Pinned
         /\ \A x \in Beads : \A h \in Gens : x # cur \/ h # n => entry'[x][h] = entry[x][h]
    BY <3>3, <4>1, <4>2 DEF Columns
   <4>5. op' = [op EXCEPT ![cur].gen = n] BY <3>2, <4>2
   <4>6. op'[cur].gen = n BY <1>2, <3>3, <3>5, <4>5 DEF Op
   <4> QED BY <3>3, <3>5, <4>1, <4>3, <4>4, <4>6 DEF EntryMove, PinsEntry
  <3> QED BY <3>4, <3>5
 <2>2. CASE UNCHANGED entry
  <3>1. CASE NextGen \in Gens /\ entry' = [entry EXCEPT ![cur][NextGen] = Pinned]
   <4>1. PICK n \in Gens : n = NextGen BY <3>1
   <4>2. entry'[cur][n] = Pinned /\ cur \in Beads BY <1>2, <1>6, <3>1, <4>1 DEF Columns, Pin
   <4>3. entry[cur][n].outcome = "absent" BY <3>1, <4>1, <4>2, NextIsFirst DEF LedgerInv, Gens
   <4> QED BY <2>2, <4>2, <4>3 DEF Pinned
  <3> QED BY <1>1, <1>4, <1>6, <2>2, <3>1 DEF Pin
 <2> QED BY <2>1, <2>2
<1>7. CASE PinHolds \/ FinishLaunch BY <1>1, <1>2, <1>4, <1>5, <1>7 DEF PinHolds, FinishLaunch
<1>8. CASE PinCopy \/ AbandonCopy \/ DispatchCopy \/ OutcomeCopy \/ LiveCopy \/ Reconcile
 BY <1>1, <1>4, <1>8 DEF PinCopy, AbandonCopy, DispatchCopy, OutcomeCopy, LiveCopy, Reconcile, BeadWrite
<1>9. CASE Step
 BY <1>1, <1>4, <1>6, <1>7, <1>8, <1>9 DEF Step, Checks, OwnDispatch, Rebuild, Live, Account, Dispatch, Call,
   ReceiptPut, Outcome
<1>10. CASE Environment
 BY <1>1, <1>3, <1>10 DEF Environment, Crash, RuntimeUp, RuntimeDown, Backup, Release, LivenessChanges, Relisted,
   ClaimLost, HumanLabel, SessionEnds, journal
<1>11. CASE \E x \in Beads : Caller(x)
 BY <1>1, <1>3, <1>11 DEF Caller, StartNew, OpenResume, SweepOurs, SweepNotOurs, ReplayRelease, Escalate, Enter
<1> QED BY <1>1, <1>9, <1>10, <1>11 DEF Next, PickupBegin, vars, journal

\* The operation's own generation, in the journal and in its backup.
LEMMA PinTrueStep ==
  ASSUME TypeOK, DispatchInv, LedgerInv, [Next]_vars
  PROVE  PinTrue(op, entry)' /\ PinTrue(saved.op, saved.entry)'
<1> USE TypeParts
<1>0. /\ \A b \in Beads : op[b].gen # 0 => op[b].gen \in Gens
      /\ \A b \in Beads : saved.op[b].gen # 0 => saved.op[b].gen \in Gens
 <2>1. \A x \in Op : x.gen # 0 => x.gen \in Gens BY MaxGenAssumption DEF Op, Gens
 <2>2. \A b \in Beads : op[b] \in Op /\ saved.op[b] \in Op BY DEF Columns, JournalType
 <2> QED BY <2>1, <2>2
<1>1. UNCHANGED saved => PinTrue(saved.op, saved.entry)' BY <1>0, LedgerKept DEF LedgerInv, PinTrue
<1>2. CASE Backup
 <2>1. saved'.entry = entry /\ saved'.op = op /\ UNCHANGED <<op, entry, copy>>
  BY <1>2 DEF Backup, Journal, journal, bead
 <2> QED BY <2>1 DEF LedgerInv, PinTrue
<1>3. CASE Restore
 <2>1. entry' = saved.entry /\ op' = saved.op /\ UNCHANGED <<saved, copy>> BY <1>3 DEF Restore, bead
 <2> QED BY <1>1, <2>1 DEF LedgerInv, PinTrue
<1>4. ASSUME ~Restore, NEW b \in Beads, op'[b].gen = op[b].gen, op[b].gen # 0,
  entry'[b][op[b].gen].outcome # "absent",
  entry'[b][op[b].gen].dispatched \/ entry'[b][op[b].gen].outcome = "none",
  \A h \in Gens : h > op[b].gen /\ entry'[b][h].outcome # "absent"
                     => \/ entry[b][h].outcome # "absent"
                        \/ copy[b][op[b].gen].outcome \in Settled
      PROVE  /\ entry'[b][op'[b].gen].outcome # "absent"
             /\ entry'[b][op'[b].gen].dispatched \/ entry'[b][op'[b].gen].outcome = "none"
             /\ \A h \in Gens : h > op'[b].gen /\ entry'[b][h].outcome # "absent"
                                   => copy'[b][op'[b].gen].outcome \in Settled
 <2>1. \A h \in Gens : h > op[b].gen /\ entry'[b][h].outcome # "absent"
                          => copy[b][op[b].gen].outcome \in Settled BY <1>4 DEF LedgerInv, PinTrue
 <2>2. copy[b][op[b].gen].outcome \in Settled => copy'[b][op[b].gen].outcome \in Settled BY <1>0, <1>4, LedgerKept
 <2> QED BY <1>4, <2>1, <2>2
<1>5. ASSUME ~Restore, NEW b \in Beads, op'[b].gen # 0
      PROVE  /\ entry'[b][op'[b].gen].outcome # "absent"
             /\ entry'[b][op'[b].gen].dispatched \/ entry'[b][op'[b].gen].outcome = "none"
             /\ \A h \in Gens : h > op'[b].gen /\ entry'[b][h].outcome # "absent"
                                   => copy'[b][op'[b].gen].outcome \in Settled
 <2>1. CASE b = cur /\ \E g \in Gens : EntryMove(g) /\ PinsEntry(g)
  <3>1. PICK g \in Gens : EntryMove(g) /\ PinsEntry(g) BY <2>1
  <3>2. op'[b].gen = g /\ entry'[b][g] = Pinned BY <2>1, <3>1 DEF PinsEntry
  <3>3. ASSUME NEW h \in Gens, h > g PROVE entry'[b][h].outcome = "absent"
   <4>1. entry'[b][h] = entry[b][h] BY <2>1, <3>1, <3>3 DEF EntryMove, Gens
   <4>2. ~(h < g) BY <3>3 DEF Gens
   <4> QED BY <2>1, <3>1, <4>1, <4>2 DEF PinsEntry
  <3> QED BY <3>2, <3>3 DEF Pinned
 <2>2. CASE op'[b].gen = op[b].gen
  <3> DEFINE n == op[b].gen
  <3>1. n # 0 /\ n \in Gens BY <1>0, <1>5, <2>2
  <3>2. entry[b][n].outcome # "absent" /\ (entry[b][n].dispatched \/ entry[b][n].outcome = "none")
   BY <3>1 DEF LedgerInv, PinTrue
  <3>3. CASE UNCHANGED entry BY <1>4, <1>5, <2>2, <3>1, <3>2, <3>3
  <3>4. ASSUME NEW g \in Gens, EntryMove(g)
        PROVE  /\ entry'[b][n].outcome # "absent"
               /\ entry'[b][n].dispatched \/ entry'[b][n].outcome = "none"
               /\ \A h \in Gens : h > n /\ entry'[b][h].outcome # "absent"
                                     => entry[b][h].outcome # "absent"
   <4>1. CASE b # cur BY <3>1, <3>2, <3>4, <4>1 DEF EntryMove
   <4>2. CASE b = cur /\ PinsEntry(g)
    <5>1. g = n BY <2>2, <4>2 DEF PinsEntry
    <5> QED BY <3>2, <4>2, <5>1 DEF PinsEntry, Gens
   <4>3. CASE b = cur /\ ~PinsEntry(g)
    <5>1. entry[cur][g].outcome # "absent" BY <3>4, <4>3 DEF EntryMove, Pinned
    <5>2. \A h \in Gens : h # g => entry'[cur][h] = entry[cur][h] BY <3>4 DEF EntryMove
    <5>3. g = n => /\ entry'[cur][n].outcome # "absent"
                   /\ entry'[cur][n].dispatched \/ entry'[cur][n].outcome = "none"
     BY <2>2, <3>4, <4>3 DEF EntryMove, OutcomeOf
    <5> QED BY <3>1, <3>2, <4>3, <5>1, <5>2, <5>3
   <4> QED BY <4>1, <4>2, <4>3
  <3>5. CASE \E g \in Gens : EntryMove(g) BY <1>4, <1>5, <2>2, <3>1, <3>4, <3>5
  <3>6. CASE Rebuild
   <4>1. cur \in Beads BY <3>6 DEF Rebuild, GuardType
   <4>2. \A h \in Gens :
             entry'[b][h] = IF b = cur /\ entry[cur][h].outcome = "absent"
                                /\ copy[cur][h].outcome # "absent"
                            THEN copy[cur][h] ELSE entry[b][h] BY <3>6, <4>1 DEF Rebuild, Known, Columns
   <4>3. entry'[b][n] = entry[b][n] BY <3>1, <3>2, <4>2
   <4>4. ASSUME NEW h \in Gens, h > n, entry'[b][h].outcome # "absent"
         PROVE  entry[b][h].outcome # "absent" \/ copy[b][n].outcome \in Settled
    <5>1. CASE entry[b][h].outcome = "absent"
     <6>1. copy[b][h].outcome # "absent" BY <4>2, <4>4, <5>1
     <6> QED BY <3>1, <4>4, <6>1 DEF LedgerInv, CopyInOrder, Gens
    <5> QED BY <5>1
   <4> QED BY <1>4, <1>5, <2>2, <3>1, <3>2, <4>3, <4>4
  <3>7. CASE Call \/ ReceiptPut \/ Backup \/ \E g \in Gens : CopyMove(g)
   BY <3>3, <3>7 DEF Call, ReceiptPut, Backup, CopyMove, journal
  <3> QED BY <1>5, <3>3, <3>5, <3>6, <3>7, LedgerMoves
 <2> QED BY <1>5, <2>1, <2>2, OpGens
<1>6. ~Restore => PinTrue(op, entry)' BY <1>5 DEF PinTrue
<1>7. ~Backup => UNCHANGED saved BY LedgerMoves DEF EntryMove, CopyMove, Rebuild, Call, ReceiptPut, Restore
<1>8. Backup => PinTrue(saved.op, saved.entry)' BY <1>2
<1> QED BY <1>1, <1>3, <1>6, <1>7, <1>8

\* The guard's own operation stays open while it works on it.
LEMMA GuardsOpStep ==
  ASSUME TypeOK, DispatchInv, LedgerInv, [Next]_vars
  PROVE  GuardsOp'
<1> USE TypeParts
<1> DEFINE Works == WorkPCs \cup {"answered", "outcome", "outcomeCopy", "finish"}
<1>1. CASE pc' \notin Works BY <1>1 DEF GuardsOp
<1>2. CASE UNCHANGED <<pc, cur, Gen, op>> BY <1>2 DEF LedgerInv, GuardsOp
<1>3. Return \/ EscalateFrom => pc' \notin Works BY DEF Return, EscalateFrom, Goto, WorkPCs, AgreedPCs, OwnPCs
<1>4. CASE /\ pc \in Works \ {"abandonCopy"} /\ UNCHANGED <<op, cur, Gen>>
           /\ pc' # "abandonCopy" BY <1>4 DEF LedgerInv, GuardsOp
<1>5. op \in [Beads -> Op] /\ (pc # "idle" => cur \in Beads) BY DEF Columns, GuardType
<1>6. CASE PinHolds
 <2>1. CASE op' = [op EXCEPT ![cur].gen = 0] /\ Goto("abandonCopy")
  <3>1. op[cur].kind = "launch" /\ cur \in Beads /\ op[cur] \in Op
   BY <1>5, <1>6 DEF PinHolds, LedgerInv, GuardsOp, WorkPCs, OwnPCs
  <3>2. op'[cur].kind = "launch" /\ op'[cur].gen = 0 BY <1>5, <2>1, <3>1 DEF Op
  <3> QED BY <2>1, <3>2 DEF Goto, GuardsOp
 <2>2. CASE Goto("dispatch") /\ UNCHANGED op BY <1>4, <1>6, <2>2 DEF PinHolds, Goto, local, WorkPCs, OwnPCs
 <2> QED BY <1>1, <1>3, <1>6, <2>1, <2>2 DEF PinHolds
<1>7. CASE Pin
 <2>1. CASE /\ Gen = 0 /\ NextGen \in Gens /\ op' = [op EXCEPT ![cur].gen = NextGen]
            /\ Gen' = NextGen /\ pc' = "pinCopy" /\ UNCHANGED cur
  <3>1. op[cur].kind = "launch" /\ cur \in Beads /\ op[cur] \in Op
   BY <1>5, <1>7 DEF Pin, LedgerInv, GuardsOp, WorkPCs, AgreedPCs
  <3>2. PICK n : n = NextGen OBVIOUS
  <3>3. op' = [op EXCEPT ![cur].gen = n] BY <2>1, <3>2
  <3>4. op'[cur].kind = "launch" /\ op'[cur].gen = n BY <1>5, <3>1, <3>3 DEF Op
  <3> QED BY <2>1, <3>2, <3>4 DEF GuardsOp
 <2>2. CASE Goto("pinCopy") /\ UNCHANGED op BY <1>4, <1>7, <2>2 DEF Pin, Goto, local, WorkPCs, AgreedPCs
 <2> QED BY <1>1, <1>3, <1>7, <2>1, <2>2 DEF Pin
<1>8. CASE AbandonCopy
 <2>1. CASE PinAgain /\ UNCHANGED op BY <1>8, <2>1 DEF AbandonCopy, PinAgain, LedgerInv, GuardsOp, WorkPCs, OwnPCs
 <2>2. Return \/ EscalateFrom \/ (PinAgain /\ UNCHANGED op) BY <1>8 DEF AbandonCopy, BeadWrite
 <2> QED BY <1>1, <1>3, <2>1, <2>2
<1>9. CASE LiveCopy \/ Live
 <2>1. Return \/ EscalateFrom \/ Goto("liveCopy") \/ (Goto("account") /\ UNCHANGED op)
  BY <1>9 DEF LiveCopy, Live, BeadWrite
 <2>2. CASE Goto("liveCopy") BY <1>1, <2>2 DEF Goto, WorkPCs, AgreedPCs, OwnPCs
 <2>3. CASE Goto("account") /\ UNCHANGED op
  <3>1. pc = "live" \/ pc = "liveCopy" BY <1>9 DEF LiveCopy, Live
  <3>2. pc = "liveCopy" => Return \/ EscalateFrom BY <1>9 DEF LiveCopy, Live, BeadWrite
  <3> QED BY <1>1, <1>3, <1>4, <2>3, <3>1, <3>2 DEF Goto, local, WorkPCs, AgreedPCs
 <2> QED BY <1>1, <1>3, <2>1, <2>2, <2>3
<1>10. CASE PinCopy \/ DispatchCopy \/ OutcomeCopy
 <2>1. pc \in Works \ {"abandonCopy"} BY <1>10 DEF PinCopy, DispatchCopy, OutcomeCopy, WorkPCs, OwnPCs
 <2>2. \/ Return \/ EscalateFrom
       \/ \E l \in {"holds", "call", "finish"} : Goto(l) /\ UNCHANGED op
  BY <1>10 DEF PinCopy, DispatchCopy, OutcomeCopy, BeadWrite
 <2> QED BY <1>1, <1>3, <1>4, <2>1, <2>2 DEF Goto, local
<1>11. CASE Reconcile
 <2>1. Return \/ EscalateFrom \/ (UNCHANGED <<cur, Gen, op>> /\ pc' \in {"reconcile", "live"})
  BY <1>11 DEF Reconcile, BeadWrite, Goto, guard, local
 <2> QED BY <1>1, <1>3, <1>4, <1>11, <2>1 DEF Reconcile, WorkPCs
<1>12. CASE Checks \/ OwnDispatch \/ Rebuild \/ Account \/ Dispatch \/ ReceiptPut \/ Outcome
 <2>1. pc \in Works \ {"abandonCopy"}
  BY <1>12 DEF Checks, OwnDispatch, Rebuild, Account, Dispatch, ReceiptPut, Outcome, WorkPCs, AgreedPCs, OwnPCs
 <2>2. \/ Return \/ EscalateFrom
       \/ \E l \in {"own", "outcome", "rebuild", "reconcile", "pin", "dispatchCopy", "outcomeCopy"} :
              Goto(l) /\ UNCHANGED op
  BY <1>12 DEF Checks, OwnDispatch, Rebuild, Account, Dispatch, ReceiptPut, Outcome
 <2> QED BY <1>1, <1>3, <1>4, <2>1, <2>2 DEF Goto, local
<1>13. CASE Call
 <2>1. EscalateFrom \/ (pc' = "answered" /\ UNCHANGED <<cur, Gen, op>>) BY <1>13 DEF Call
 <2> QED BY <1>1, <1>3, <1>4, <1>13, <2>1 DEF Call, WorkPCs, OwnPCs
<1>14. CASE FinishLaunch BY <1>1, <1>3, <1>14 DEF FinishLaunch
<1>15. CASE Step BY <1>6, <1>7, <1>8, <1>9, <1>10, <1>11, <1>12, <1>13, <1>14, <1>15 DEF Step
<1>16. ASSUME pc = "idle", UNCHANGED pc PROVE GuardsOp' BY <1>1, <1>16 DEF WorkPCs, AgreedPCs, OwnPCs
<1>17. CASE Environment
 BY <1>1, <1>2, <1>3, <1>16, <1>17 DEF Environment, Crash, RuntimeUp, RuntimeDown, Backup, Restore, Release,
   LivenessChanges, Relisted, ClaimLost, HumanLabel, SessionEnds, journal, guard, local
<1>18. ASSUME NEW b \in Beads, Caller(b) PROVE GuardsOp'
 <2>1. CASE Enter(b)
  <3>1. CASE pc' = "checks" /\ cur' = b /\ Gen' = op[b].gen /\ UNCHANGED op BY <2>1, <3>1 DEF Enter, GuardsOp
  <3>2. CASE pc' = "handoff" BY <1>1, <3>2 DEF WorkPCs, AgreedPCs, OwnPCs
  <3> QED BY <1>16, <2>1, <3>1, <3>2 DEF Enter, guard
 <2>2. CASE Escalate(b) \/ SweepOurs(b)
  <3>1. pc' \in {"idle", "handoff"} \/ (pc = "idle" /\ UNCHANGED pc) BY <2>2 DEF Escalate, SweepOurs, Return, guard
  <3> QED BY <1>1, <1>16, <3>1 DEF WorkPCs, AgreedPCs, OwnPCs
 <2> QED BY <1>16, <1>18, <2>1, <2>2 DEF Caller, StartNew, OpenResume, SweepNotOurs, ReplayRelease, guard
<1> QED BY <1>2, <1>15, <1>16, <1>17, <1>18 DEF Next, PickupBegin, vars, journal, guard, local

\* The session list, as the guard read it.
LEMMA SeenStep ==
  ASSUME TypeOK, DispatchInv, LedgerInv, [Next]_vars
  PROVE  SeenTrue'
<1> USE TypeParts
<1> DEFINE Gone == sess[cur] = "none" => sess'[cur] = "none"
<1>1. CASE pc' \notin WorkPCs BY <1>1 DEF SeenTrue, WorkPCs, AgreedPCs
<1>2. CASE /\ UNCHANGED <<cur, seen>> /\ Gone /\ pc \in WorkPCs
           /\ pc' \in {"account", "pin"} \cup OwnPCs
                  => seen = "none" \/ pc \in {"account", "pin"} \cup OwnPCs BY <1>2 DEF LedgerInv, SeenTrue
<1>3. Return \/ EscalateFrom \/ Goto("liveCopy") => pc' \notin WorkPCs
 BY DEF Return, EscalateFrom, Goto, WorkPCs, AgreedPCs, OwnPCs
<1>4. CASE AbandonCopy \/ PinCopy \/ DispatchCopy \/ PinHolds \/ Dispatch \/ Pin
 <2>1. pc \in {"pin"} \cup OwnPCs /\ UNCHANGED sess
  BY <1>4 DEF AbandonCopy, PinCopy, DispatchCopy, PinHolds, Dispatch, Pin, OwnPCs, runtime
 <2>2. Return \/ EscalateFrom \/ UNCHANGED <<cur, seen>>
  BY <1>4 DEF AbandonCopy, PinCopy, DispatchCopy, PinHolds, Dispatch, Pin, BeadWrite, PinAgain, Goto, local
 <2> QED BY <1>1, <1>2, <1>3, <2>1, <2>2 DEF WorkPCs, AgreedPCs
<1>5. CASE Checks \/ OwnDispatch \/ Rebuild \/ Reconcile \/ Live \/ Account
 <2>1. pc \in {"checks", "own", "rebuild", "reconcile", "live", "account"} /\ UNCHANGED sess
  BY <1>5 DEF Checks, OwnDispatch, Rebuild, Reconcile, Live, Account, runtime
 <2>2. \/ Return \/ EscalateFrom \/ Goto("liveCopy")
       \/ /\ UNCHANGED <<cur, seen>>
          /\ \/ pc' \in {"own", "outcome", "rebuild", "reconcile", "live"}
             \/ pc = "live" /\ pc' = "account" /\ seen = "none"
             \/ pc = "account" /\ pc' = "pin"
  <3>1. CASE Checks \/ OwnDispatch \/ Rebuild BY <3>1 DEF Checks, OwnDispatch, Rebuild, Goto, local
  <3>2. CASE Reconcile BY <3>2 DEF Reconcile, BeadWrite, Goto, guard, local
  <3>3. CASE Live \/ Account BY <3>3 DEF Live, Account, Goto, local
  <3> QED BY <1>5, <3>1, <3>2, <3>3
 <2> QED BY <1>1, <1>2, <1>3, <2>1, <2>2 DEF WorkPCs, AgreedPCs, OwnPCs
<1>6. CASE Call \/ ReceiptPut \/ Outcome \/ OutcomeCopy \/ FinishLaunch \/ LiveCopy
 <2>1. \/ Return \/ EscalateFrom
       \/ pc' \in {"answered", "outcome", "outcomeCopy", "finish"}
  BY <1>6 DEF Call, ReceiptPut, Outcome, OutcomeCopy, FinishLaunch, LiveCopy, BeadWrite, Goto
 <2> QED BY <1>1, <1>3, <2>1 DEF WorkPCs, AgreedPCs, OwnPCs
<1>7. CASE Step BY <1>4, <1>5, <1>6, <1>7 DEF Step
<1>8. CASE UNCHANGED guard /\ \A b \in Beads : sess[b] = "none" => sess'[b] = "none"
 <2>1. pc \in WorkPCs => cur \in Beads BY DEF GuardType, WorkPCs, AgreedPCs, OwnPCs
 <2> QED BY <1>1, <1>2, <1>8, <2>1 DEF guard, local
<1>9. CASE pc = "idle" /\ UNCHANGED pc BY <1>1, <1>9 DEF WorkPCs, AgreedPCs, OwnPCs
<1>10. ASSUME NEW b \in Beads, LivenessChanges(b) \/ \E c \in Causes : SessionEnds(b, c)
       PROVE  SeenTrue'
 <2>1. UNCHANGED guard /\ \A x \in Beads : sess[x] = "none" => sess'[x] = "none"
  BY <1>10 DEF LivenessChanges, SessionEnds, RuntimeType
 <2> QED BY <1>8, <2>1
<1>11. CASE Environment
 BY <1>1, <1>3, <1>8, <1>9, <1>10, <1>11 DEF Environment, Crash, RuntimeUp, RuntimeDown, Backup, Restore, Release,
   Relisted, ClaimLost, HumanLabel, runtime, guard
<1>12. ASSUME NEW b \in Beads, Caller(b) PROVE SeenTrue'
 <2>1. CASE Enter(b)
  <3>1. CASE pc' = "checks" /\ cur' = b /\ seen' = sess[b] /\ UNCHANGED sess BY <3>1 DEF SeenTrue, OwnPCs
  <3>2. CASE pc' = "handoff" BY <1>1, <3>2 DEF WorkPCs, AgreedPCs, OwnPCs
  <3> QED BY <1>9, <2>1, <3>1, <3>2 DEF Enter, guard, runtime
 <2>2. CASE Escalate(b) \/ SweepOurs(b)
  <3>1. pc' \in {"idle", "handoff"} \/ (pc = "idle" /\ UNCHANGED pc) BY <2>2 DEF Escalate, SweepOurs, Return, guard
  <3> QED BY <1>1, <1>9, <3>1 DEF WorkPCs, AgreedPCs, OwnPCs
 <2> QED BY <1>9, <1>12, <2>1, <2>2 DEF Caller, StartNew, OpenResume, SweepNotOurs, ReplayRelease, guard
<1> QED BY <1>7, <1>8, <1>9, <1>11, <1>12 DEF Next, PickupBegin, vars, runtime, guard

\* A typed entry with neither a dispatch nor an outcome is a pinned one.
LEMMA PinnedEntry ==
  ASSUME NEW e \in Entry, ~e.dispatched, e.outcome = "none"
  PROVE  e = Pinned
BY DEF Entry, Pinned

\* The guard on its way to the point where bead and journal agree.
LEMMA AgreeingStep ==
  ASSUME TypeOK, DispatchInv, LedgerInv, OwnDispatch \/ Rebuild \/ Reconcile \/ Account
  PROVE  StepsTrue'
<1> USE TypeParts
<1>1. cur \in Beads /\ entry \in [Beads -> [Gens -> Entry]] /\ (Gen # 0 => Gen \in Gens)
 BY MaxGenAssumption DEF OwnDispatch, Rebuild, Reconcile, Account, GuardType, Columns, Gens
<1>2. CASE pc' \in {"idle", "handoff"} BY <1>2 DEF StepsTrue, AgreedPCs, OwnPCs
<1>3. Return \/ EscalateFrom => pc' \in {"idle", "handoff"} BY DEF Return, EscalateFrom, Goto
<1>4. CASE OwnDispatch
 <2>1. UNCHANGED entry BY <1>4 DEF OwnDispatch
 <2>2. CASE Goto("rebuild") /\ Gen = 0 BY <2>2 DEF Goto, local, StepsTrue, AgreedPCs, OwnPCs
 <2>3. CASE Gen # 0 /\ Goto("outcome") /\ entry[cur][Gen].dispatched
  BY <2>1, <2>3 DEF Goto, local, StepsTrue, AgreedPCs, OwnPCs
 <2>4. CASE Gen # 0 /\ Goto("rebuild") /\ ~entry[cur][Gen].dispatched
  <3>1. op[cur].gen = Gen BY <1>4 DEF OwnDispatch, LedgerInv, GuardsOp, WorkPCs
  <3>2. entry[cur][Gen] = Pinned BY <1>1, <2>4, <3>1, PinnedEntry DEF LedgerInv, PinTrue
  <3> QED BY <2>1, <2>4, <3>2 DEF Goto, local, StepsTrue, AgreedPCs, OwnPCs
 <2> QED BY <1>2, <1>3, <1>4, <2>2, <2>3, <2>4 DEF OwnDispatch
<1>5. CASE Rebuild
 <2>1. pc = "rebuild" /\ pc' = "reconcile" /\ UNCHANGED <<cur, Gen, copy>> BY <1>5 DEF Rebuild, Goto, local, bead
 <2>2. \A h \in Gens :
           entry'[cur][h] = IF entry[cur][h].outcome = "absent" /\ copy[cur][h].outcome # "absent"
                            THEN copy[cur][h] ELSE entry[cur][h] BY <1>1, <1>5 DEF Rebuild, Known
 <2>3. Gen # 0 => entry'[cur][Gen] = Pinned BY <1>1, <2>1, <2>2 DEF LedgerInv, StepsTrue, Pinned
 <2>4. \A h \in Gens : copy[cur][h].outcome # "absent" => entry'[cur][h].outcome # "absent" BY <2>2
 <2> QED BY <2>1, <2>3, <2>4 DEF StepsTrue, AgreedPCs, OwnPCs
<1>6. CASE Reconcile
 <2>1. pc = "reconcile" BY <1>6 DEF Reconcile
 <2>2. CASE UNCHANGED <<entry, copy>> /\ Goto("live")
  <3>1. \A g \in Known(cur) : ~Unsettled(g) /\ copy[cur][g] = entry[cur][g]
   <4>1. pc' = "live" BY <2>2 DEF Goto
   <4>2. \A g : ~BeadWrite(g, Goto("reconcile")) /\ ~EscalateFrom /\ ~UNCHANGED guard
    BY <2>1, <4>1 DEF BeadWrite, Goto, EscalateFrom, Return, guard
   <4>3. {g \in Known(cur) : Unsettled(g) \/ copy[cur][g] # entry[cur][g]} = {} BY <1>6, <4>2 DEF Reconcile
   <4> QED BY <4>3
  <3>2. ASSUME NEW g \in Gens PROVE entry[cur][g] = copy[cur][g]
   <4>1. CASE g \in Known(cur) BY <3>1, <4>1
   <4>2. CASE g \notin Known(cur)
    <5>1. entry[cur][g].outcome = "absent" /\ copy[cur][g].outcome = "absent"
     BY <2>1, <4>2 DEF Known, LedgerInv, StepsTrue
    <5>2. /\ entry[cur][g] \in Entry /\ copy[cur][g] \in Entry
          /\ ~entry[cur][g].dispatched /\ ~copy[cur][g].dispatched BY <1>1, <5>1 DEF BeadType, DispatchInv, Formed
    <5> QED BY <5>1, <5>2 DEF Entry
   <4> QED BY <4>1, <4>2
  <3>3. \A g \in Gens : g # Gen => entry[cur][g].outcome # "none" BY <3>1 DEF Known, Unsettled
  <3>4. Gen # 0 => entry[cur][Gen] = Pinned BY <2>1 DEF LedgerInv, StepsTrue
  <3> QED BY <2>2, <3>2, <3>3, <3>4 DEF Goto, local, StepsTrue, AgreedPCs, OwnPCs
 <2>3. CASE \E g \in Gens : /\ UNCHANGED <<copy, guard>> /\ Unsettled(g)
                            /\ \E o \in Settled : entry' = [entry EXCEPT ![cur][g].outcome = o]
  <3>1. PICK g \in Gens : \E o \in Settled :
             /\ UNCHANGED <<copy, guard>> /\ Unsettled(g)
             /\ entry' = [entry EXCEPT ![cur][g].outcome = o] BY <2>3
  <3>2. PICK o \in Settled : entry' = [entry EXCEPT ![cur][g].outcome = o] BY <3>1
  <3>3. /\ entry'[cur][g].outcome = o
        /\ \A h \in Gens : h # g => entry'[cur][h] = entry[cur][h] BY <1>1, <3>2, OutcomeSet
  <3>4. Gen # 0 => entry'[cur][Gen] = Pinned BY <1>1, <2>1, <3>1, <3>3 DEF Unsettled, LedgerInv, StepsTrue
  <3>5. \A h \in Gens : copy[cur][h].outcome # "absent" => entry'[cur][h].outcome # "absent"
   BY <2>1, <3>3 DEF LedgerInv, StepsTrue, Settled
  <3> QED BY <2>1, <3>1, <3>4, <3>5 DEF guard, local, StepsTrue, AgreedPCs, OwnPCs
 <2>4. CASE \E g \in Known(cur) : UNCHANGED entry /\ BeadWrite(g, Goto("reconcile"))
  <3>1. PICK g \in Known(cur) : UNCHANGED entry /\ BeadWrite(g, Goto("reconcile")) BY <2>4
  <3>2. CASE Goto("reconcile") /\ copy' = [copy EXCEPT ![cur][g] = entry[cur][g]]
   <4>1. g \in Gens /\ entry[cur][g].outcome # "absent" BY DEF Known
   <4>2. \A h \in Gens : copy'[cur][h] = IF h = g THEN entry[cur][g] ELSE copy[cur][h]
    BY <1>1, <3>2, <4>1 DEF BeadType
   <4>3. \A h \in Gens : copy'[cur][h].outcome # "absent" => entry[cur][h].outcome # "absent"
    BY <2>1, <4>1, <4>2 DEF LedgerInv, StepsTrue
   <4>4. Gen # 0 => entry[cur][Gen] = Pinned BY <2>1 DEF LedgerInv, StepsTrue
   <4> QED BY <2>1, <3>1, <3>2, <4>3, <4>4 DEF Goto, local, StepsTrue, AgreedPCs, OwnPCs
  <3> QED BY <1>2, <1>3, <3>1, <3>2 DEF BeadWrite
 <2>5. \A r : OutcomeOf(r) \in Settled /\ "abandoned" \in Settled BY DEF OutcomeOf, Settled
 <2>6. Known(cur) \subseteq Gens BY DEF Known
 <2> QED BY <1>2, <1>3, <1>6, <2>2, <2>3, <2>4, <2>5, <2>6 DEF Reconcile
<1>7. CASE Account
 <2>1. pc = "account" /\ UNCHANGED <<entry, copy>> BY <1>7 DEF Account, bead
 <2>2. CASE Goto("pin") BY <2>1, <2>2 DEF Goto, local, LedgerInv, StepsTrue, AgreedPCs, OwnPCs
 <2> QED BY <1>2, <1>3, <1>7, <2>2 DEF Account
<1> QED BY <1>4, <1>5, <1>6, <1>7

\* The guard at work on its own generation, up to the call.
LEMMA PinningStep ==
  ASSUME TypeOK, DispatchInv, LedgerInv, Live \/ Pin \/ PinCopy \/ PinHolds \/ AbandonCopy
  PROVE  StepsTrue'
<1> USE TypeParts
<1>1. /\ cur \in Beads /\ entry \in [Beads -> [Gens -> Entry]] /\ (Gen # 0 => Gen \in Gens)
      /\ copy \in [Beads -> [Gens -> Entry]]
 BY MaxGenAssumption DEF Live, Pin, PinCopy, PinHolds, AbandonCopy, GuardType, Columns, Gens, BeadType
<1>2. CASE pc' \in {"idle", "handoff"} BY <1>2 DEF StepsTrue, AgreedPCs, OwnPCs
<1>3. Return \/ EscalateFrom => pc' \in {"idle", "handoff"} BY DEF Return, EscalateFrom, Goto
<1>4. CASE Live
 <2>1. pc = "live" /\ UNCHANGED copy BY <1>4 DEF Live, bead
 <2>2. CASE Goto("account") /\ UNCHANGED entry BY <2>1, <2>2 DEF Goto, local, LedgerInv, StepsTrue, AgreedPCs, OwnPCs
 <2>3. CASE /\ Gen # 0 /\ Goto("liveCopy")
            /\ entry' = [entry EXCEPT ![cur][Gen].outcome = "abandoned"]
  <3>1. entry'[cur][Gen].outcome = "abandoned" BY <1>1, <2>3, OutcomeSet
  <3>2. copy[cur][Gen] = Pinned BY <1>1, <2>1, <2>3 DEF LedgerInv, StepsTrue, AgreedPCs
  <3> QED BY <2>1, <2>3, <3>1, <3>2 DEF Goto, local, StepsTrue, AgreedPCs, OwnPCs, Pinned
 <2> QED BY <1>2, <1>3, <1>4, <2>2, <2>3 DEF Live
<1>5. CASE Pin
 <2>1. pc = "pin" /\ UNCHANGED copy BY <1>5 DEF Pin, bead
 <2>2. \A g \in Gens : /\ entry[cur][g] = copy[cur][g]
                       /\ g # Gen => entry[cur][g].outcome # "none" BY <2>1 DEF LedgerInv, StepsTrue, AgreedPCs
 <2>3. CASE Gen # 0 /\ Goto("pinCopy") /\ UNCHANGED entry
  <3>1. entry[cur][Gen] = Pinned /\ op[cur].gen = Gen
   BY <2>1, <2>3 DEF LedgerInv, StepsTrue, AgreedPCs, GuardsOp, WorkPCs
  <3>2. copy[cur][Gen].outcome \notin Settled BY <1>1, <2>2, <2>3, <3>1 DEF Pinned, Settled
  <3>3. \A g \in Gens : g > Gen => entry[cur][g].outcome = "absent" BY <1>1, <2>3, <3>1, <3>2 DEF LedgerInv, PinTrue
  <3> QED BY <2>1, <2>2, <2>3, <3>1, <3>3 DEF Goto, local, StepsTrue, AgreedPCs, OwnPCs
 <2>4. CASE /\ Gen = 0 /\ NextGen \in Gens /\ pc' = "pinCopy" /\ Gen' = NextGen /\ UNCHANGED cur
            /\ entry' = [entry EXCEPT ![cur][NextGen] = Pinned]
  <3>1. PICK n \in Gens : n = NextGen BY <2>4
  <3>2. \A h \in Gens : entry[cur][h].outcome # "absent" <=> h < n BY <1>1, <2>4, <3>1, NextIsFirst DEF LedgerInv
  <3>3. entry'[cur][n] = Pinned /\ \A h \in Gens : h # n => entry'[cur][h] = entry[cur][h] BY <1>1, <2>4, <3>1
  <3>4. \A g \in Gens : g # n => entry'[cur][g] = copy[cur][g] /\ entry'[cur][g].outcome # "none"
   BY <2>2, <2>4, <3>3 DEF Gens
  <3>5. \A g \in Gens : g > n => entry'[cur][g].outcome = "absent" BY <3>2, <3>3 DEF Gens
  <3> QED BY <2>1, <2>4, <3>1, <3>3, <3>4, <3>5 DEF StepsTrue, AgreedPCs, OwnPCs
 <2> QED BY <1>2, <1>3, <1>5, <2>3, <2>4 DEF Pin
<1>6. CASE PinCopy
 <2>1. pc = "pinCopy" /\ UNCHANGED entry /\ Gen \in Gens BY <1>1, <1>6 DEF PinCopy, GuardType, PinnedPCs
 <2>2. CASE Goto("holds") /\ copy' = [copy EXCEPT ![cur][Gen] = entry[cur][Gen]]
  <3>1. \A h \in Gens : copy'[cur][h] = IF h = Gen THEN entry[cur][Gen] ELSE copy[cur][h] BY <1>1, <2>1, <2>2
  <3> QED BY <2>1, <2>2, <3>1 DEF Goto, local, LedgerInv, StepsTrue, AgreedPCs, OwnPCs
 <2> QED BY <1>2, <1>3, <1>6, <2>2 DEF PinCopy, BeadWrite
<1>7. CASE PinHolds
 <2>1. pc = "holds" /\ UNCHANGED copy /\ Gen \in Gens /\ Gen # 0
  BY <1>1, <1>7 DEF PinHolds, GuardType, PinnedPCs, bead
 <2>2. CASE Goto("dispatch") /\ UNCHANGED entry BY <2>1, <2>2 DEF Goto, local, LedgerInv, StepsTrue, AgreedPCs, OwnPCs
 <2>3. CASE Goto("abandonCopy") /\ entry' = [entry EXCEPT ![cur][Gen].outcome = "abandoned"]
  <3>1. /\ entry'[cur][Gen].outcome = "abandoned"
        /\ \A h \in Gens : h # Gen => entry'[cur][h] = entry[cur][h] BY <1>1, <2>1, <2>3, OutcomeSet
  <3>2. copy[cur][Gen] = Pinned BY <2>1 DEF DispatchInv, Handover, LedgerInv, StepsTrue
  <3>3. \A g \in Gens : /\ g # Gen => /\ entry[cur][g] = copy[cur][g]
                                      /\ entry[cur][g].outcome # "none"
                        /\ g > Gen => entry[cur][g].outcome = "absent" BY <2>1 DEF LedgerInv, StepsTrue, OwnPCs
  <3>4. \A g \in Gens : /\ g # Gen => /\ entry'[cur][g] = copy[cur][g]
                                      /\ entry'[cur][g].outcome # "none"
                        /\ g > Gen => entry'[cur][g].outcome = "absent" BY <2>1, <3>1, <3>3 DEF Gens
  <3> QED BY <2>1, <2>3, <3>1, <3>2, <3>4 DEF Goto, local, StepsTrue, AgreedPCs, OwnPCs, Pinned
 <2> QED BY <1>2, <1>3, <1>7, <2>2, <2>3 DEF PinHolds
<1>8. CASE AbandonCopy
 <2>1. pc = "abandonCopy" /\ UNCHANGED entry /\ Gen \in Gens BY <1>1, <1>8 DEF AbandonCopy, GuardType, PinnedPCs
 <2>2. CASE PinAgain /\ copy' = [copy EXCEPT ![cur][Gen] = entry[cur][Gen]]
  <3>1. \A h \in Gens : copy'[cur][h] = IF h = Gen THEN entry[cur][Gen] ELSE copy[cur][h] BY <1>1, <2>1, <2>2
  <3>2. \A h \in Gens : entry[cur][h] = copy'[cur][h] /\ entry[cur][h].outcome # "none"
   BY <2>1, <3>1 DEF LedgerInv, StepsTrue, OwnPCs
  <3> QED BY <2>1, <2>2, <3>2 DEF PinAgain, StepsTrue, AgreedPCs, OwnPCs
 <2> QED BY <1>2, <1>3, <1>8, <2>2 DEF AbandonCopy, BeadWrite
<1> QED BY <1>4, <1>5, <1>6, <1>7, <1>8

\* The dispatch, the call and what follows it.
LEMMA DispatchingStep ==
  ASSUME TypeOK, DispatchInv, LedgerInv,
    Dispatch \/ DispatchCopy \/ Call \/ ReceiptPut \/ Outcome \/ OutcomeCopy
  PROVE  StepsTrue'
<1> USE TypeParts
<1>1. /\ cur \in Beads /\ entry \in [Beads -> [Gens -> Entry]] /\ Gen \in Gens
      /\ copy \in [Beads -> [Gens -> Entry]]
 BY MaxGenAssumption DEF Dispatch, DispatchCopy, Call, ReceiptPut, Outcome, OutcomeCopy, GuardType, PinnedPCs,
   Columns, Gens, BeadType
<1>2. CASE pc' \in {"idle", "handoff"} BY <1>2 DEF StepsTrue, AgreedPCs, OwnPCs
<1>3. Return \/ EscalateFrom => pc' \in {"idle", "handoff"} BY DEF Return, EscalateFrom, Goto
<1>4. CASE Dispatch
 <2>1. pc = "dispatch" /\ UNCHANGED copy BY <1>4 DEF Dispatch, bead
 <2>2. CASE /\ entry[cur][Gen] = Pinned /\ Goto("dispatchCopy")
            /\ entry' = [entry EXCEPT ![cur][Gen].dispatched = TRUE]
  <3>1. \A h \in Gens : h # Gen => entry'[cur][h] = entry[cur][h] BY <1>1, <2>2
  <3>2. entry'[cur][Gen] = [Pinned EXCEPT !.dispatched = TRUE] BY <1>1, <2>2
  <3>3. entry'[cur][Gen] = [dispatched |-> TRUE, outcome |-> "none"] BY <3>2 DEF Pinned
  <3>4. \A g \in Gens : /\ g # Gen => /\ entry[cur][g] = copy[cur][g]
                                      /\ entry[cur][g].outcome # "none"
                        /\ g > Gen => entry[cur][g].outcome = "absent" BY <2>1 DEF LedgerInv, StepsTrue, OwnPCs
  <3>5. \A g \in Gens : /\ g # Gen => /\ entry'[cur][g] = copy[cur][g]
                                      /\ entry'[cur][g].outcome # "none"
                        /\ g > Gen => entry'[cur][g].outcome = "absent" BY <1>1, <3>1, <3>4 DEF Gens
  <3> QED BY <2>1, <2>2, <3>3, <3>5 DEF Goto, local, StepsTrue, AgreedPCs, OwnPCs
 <2> QED BY <1>2, <1>3, <1>4, <2>2 DEF Dispatch
<1>5. CASE DispatchCopy
 <2>1. pc = "dispatchCopy" /\ UNCHANGED entry BY <1>5 DEF DispatchCopy
 <2>2. CASE Goto("call") /\ copy' = [copy EXCEPT ![cur][Gen] = entry[cur][Gen]]
  <3>1. \A h \in Gens : copy'[cur][h] = IF h = Gen THEN entry[cur][Gen] ELSE copy[cur][h] BY <1>1, <2>1, <2>2
  <3> QED BY <1>1, <2>1, <2>2, <3>1 DEF Goto, local, LedgerInv, StepsTrue, AgreedPCs, OwnPCs
 <2> QED BY <1>2, <1>3, <1>5, <2>2 DEF DispatchCopy, BeadWrite
<1>6. CASE Call
 <2>1. pc = "call" /\ UNCHANGED <<entry, copy>> BY <1>6 DEF Call, bead
 <2>2. CASE pc' = "answered"
  <3>1. PICK r \in Receipts \ {"none"} :
             /\ answer' = r /\ UNCHANGED <<cur, Gen>>
             /\ IF r = "started" THEN Appears("live") ELSE UNCHANGED started
   BY <1>6, <2>2 DEF Call, EscalateFrom, Goto
  <3>2. calls \in [Beads -> [Gens -> Nat]] /\ started \in [Beads -> SUBSET Gens] BY DEF RuntimeType
  <3>3. calls'[cur][Gen] > 0 BY <1>1, <1>6, <3>2 DEF Call
  <3>4. Gen \notin started[cur] BY <1>1, <2>1 DEF LedgerInv, SessionsTrue, DispatchInv, Handover
  <3>5. answer' = "started" <=> Gen \in started'[cur] BY <1>1, <3>1, <3>2, <3>4 DEF Appears
  <3>6. entry[cur][Gen].dispatched BY <2>1 DEF LedgerInv, StepsTrue
  <3> QED BY <2>1, <2>2, <3>1, <3>3, <3>5, <3>6 DEF StepsTrue, AgreedPCs, OwnPCs
 <2> QED BY <1>2, <1>3, <1>6, <2>2 DEF Call
<1>7. CASE ReceiptPut \/ OutcomeCopy
 <2>1. pc \in {"answered", "outcomeCopy"} /\ UNCHANGED entry BY <1>7 DEF ReceiptPut, OutcomeCopy
 <2>2. CASE Goto("outcome") \/ Goto("finish") BY <2>1, <2>2 DEF Goto, local, LedgerInv, StepsTrue, AgreedPCs, OwnPCs
 <2> QED BY <1>2, <1>3, <1>7, <2>2 DEF ReceiptPut, OutcomeCopy, BeadWrite
<1>8. CASE Outcome
 <2>1. entry[cur][Gen].dispatched BY <1>8 DEF Outcome, LedgerInv, StepsTrue
 <2>2. CASE /\ Goto("outcomeCopy")
            /\ entry' = [entry EXCEPT ![cur][Gen].outcome = OutcomeOf(receipt[cur][Gen])]
  <3>1. entry'[cur][Gen].dispatched BY <1>1, <2>1, <2>2, OutcomeSet
  <3> QED BY <2>2, <3>1 DEF Goto, local, StepsTrue, AgreedPCs, OwnPCs
 <2> QED BY <1>2, <1>3, <1>8, <2>2 DEF Outcome
<1> QED BY <1>4, <1>5, <1>6, <1>7, <1>8

\* Each step makes sure of what the next ones rely on.
LEMMA StepsStep ==
  ASSUME TypeOK, DispatchInv, LedgerInv, [Next]_vars
  PROVE  StepsTrue'
<1> USE TypeParts
<1>1. CASE pc' \in {"idle", "handoff", "checks", "own"} BY <1>1 DEF StepsTrue, AgreedPCs, OwnPCs
<1>2. CASE UNCHANGED <<guard, entry, copy, calls, started>> BY <1>2 DEF LedgerInv, StepsTrue, guard, local
<1>3. CASE OwnDispatch \/ Rebuild \/ Reconcile \/ Account BY <1>3, AgreeingStep
<1>4. CASE Live \/ Pin \/ PinCopy \/ PinHolds \/ AbandonCopy BY <1>4, PinningStep
<1>5. CASE Dispatch \/ DispatchCopy \/ Call \/ ReceiptPut \/ Outcome \/ OutcomeCopy BY <1>5, DispatchingStep
<1>6. CASE Checks \/ LiveCopy \/ FinishLaunch
 <2>1. pc' \in {"idle", "handoff", "own"}
  BY <1>6 DEF Checks, LiveCopy, FinishLaunch, BeadWrite, EscalateFrom, Return, Goto
 <2> QED BY <1>1, <2>1
<1>7. CASE Step BY <1>3, <1>4, <1>5, <1>6, <1>7 DEF Step
<1>8. CASE pc = "idle" /\ UNCHANGED pc BY <1>1, <1>8
<1>9. CASE Environment
 BY <1>1, <1>2, <1>8, <1>9 DEF Environment, Crash, RuntimeUp, RuntimeDown, Backup, Restore, Release,
   LivenessChanges, Relisted, ClaimLost, HumanLabel, SessionEnds, Return, journal, bead, runtime, guard
<1>10. CASE \E b \in Beads : Caller(b)
 BY <1>1, <1>8, <1>10 DEF Caller, StartNew, OpenResume, SweepOurs, SweepNotOurs, ReplayRelease, Escalate, Enter,
   Return, guard
<1> QED BY <1>2, <1>7, <1>8, <1>9, <1>10 DEF Next, PickupBegin, vars, journal, bead, runtime, guard

\* The ledger is right at the start, when it is empty.
LEMMA InitLedger == Init => LedgerInv
<1> SUFFICES ASSUME Init PROVE LedgerInv OBVIOUS
<1>1. saved.entry = entry /\ saved.op = op /\ saved.receipt = receipt BY DEF Init, Journal
<1>2. PinTrue(op, entry) /\ EntriesTrue(entry) /\ EntriesTrue(copy) /\ ReceiptsTrue(receipt)
 BY DEF Init, PinTrue, EntriesTrue, ReceiptsTrue, NoOp, Absent
<1>3. CopyInOrder /\ SessionsTrue /\ EarlierSettled /\ OutcomeTrue
 BY DEF Init, CopyInOrder, SessionsTrue, EarlierSettled, OutcomeTrue, Absent
<1>4. GuardsOp /\ StepsTrue /\ SeenTrue BY DEF Init, GuardsOp, StepsTrue, SeenTrue, WorkPCs, AgreedPCs, OwnPCs
<1> QED BY <1>1, <1>2, <1>3, <1>4 DEF LedgerInv, PinTrue, EntriesTrue, ReceiptsTrue

\* The journal, its backup, the bead's copy and the runtime agree on every
\* generation, between any two steps of the guard and across lost journals.
THEOREM LedgerAgrees == Spec => []LedgerInv
<1>1. TypeOK /\ DispatchInv /\ LedgerInv /\ [Next]_vars => LedgerInv'
 <2> SUFFICES ASSUME TypeOK, DispatchInv, LedgerInv, [Next]_vars PROVE LedgerInv' OBVIOUS
 <2>1. PinTrue(op, entry)' /\ PinTrue(saved.op, saved.entry)' BY PinTrueStep
 <2>2. EntriesTrue(entry)' /\ EntriesTrue(saved.entry)' BY EntriesTrueStep
 <2>3. CopyInOrder' /\ OutcomeTrue' /\ EntriesTrue(copy)' BY CopyTrueStep
 <2>4. ReceiptsTrue(receipt)' /\ ReceiptsTrue(saved.receipt)' BY ReceiptsStep
 <2>5. SessionsTrue' /\ EarlierSettled' BY SessionsStep, EarlierStep
 <2>6. GuardsOp' /\ StepsTrue' /\ SeenTrue' BY GuardsOpStep, StepsStep, SeenStep
 <2> QED BY <2>1, <2>2, <2>3, <2>4, <2>5, <2>6 DEF LedgerInv
<1> QED BY InitLedger, <1>1, TypeCorrect, DispatchDiscipline, PTL DEF Spec

\* What the bead records of a generation is what happened to it, and a generation
\* is called only when every earlier one is settled (Parker._reconcile, _settle).
THEOREM LedgerTrue == Spec => [](EarlierSettled /\ OutcomeTrue)
<1>1. LedgerInv => EarlierSettled /\ OutcomeTrue BY DEF LedgerInv
<1> QED BY <1>1, LedgerAgrees, PTL

------------------------------
(* The crash loop. *)

\* A session that started has its launch in the journal, once the guard is past
\* the point where journal and bead agree.
LEMMA StartedIsLaunched ==
  ASSUME TypeOK, DispatchInv, LedgerInv, NEW g \in started[cur],
    pc \in {"account", "call"}
  PROVE  g \in Launched(cur) /\ g \in Gens
<1> USE TypeParts
<1>1. cur \in Beads /\ started \in [Beads -> SUBSET Gens] BY DEF GuardType, RuntimeType, AgreedPCs
<1>2. g \in Gens /\ calls[cur][g] > 0 BY <1>1 DEF LedgerInv, SessionsTrue
<1>3. copy[cur][g].dispatched /\ copy[cur][g].outcome # "absent"
 BY <1>1, <1>2 DEF DispatchInv, DispatchOnBeadFirst, Formed
<1>4. g # Gen
 <2>1. CASE pc = "account"
  <3>1. entry[cur][g] = copy[cur][g] BY <1>2, <2>1 DEF LedgerInv, StepsTrue, AgreedPCs
  <3>2. Gen # 0 => entry[cur][Gen] = Pinned BY <2>1 DEF LedgerInv, StepsTrue, AgreedPCs
  <3> QED BY <1>2, <1>3, <3>1, <3>2 DEF Pinned, Gens
 <2>2. CASE pc = "call" BY <1>2, <2>2 DEF DispatchInv, Handover
 <2> QED BY <2>1, <2>2
<1>5. entry[cur][g] = copy[cur][g] /\ entry[cur][g].outcome # "none"
 BY <1>2, <1>4 DEF LedgerInv, StepsTrue, AgreedPCs, OwnPCs
<1>6. copy[cur][g].outcome # "abandoned" BY <1>1, <1>2 DEF LedgerInv, OutcomeTrue
<1>7. entry[cur][g].outcome \in Outcomes BY <1>1, <1>2 DEF Columns, Entry
<1> QED BY <1>2, <1>3, <1>5, <1>6, <1>7 DEF Launched, Outcomes

\* With a whole journal, an entry stays and nothing is rebuilt.
LEMMA WholeStep ==
  ASSUME TypeOK, DispatchInv, LedgerInv, CrashInv, [Next]_vars, losses' = 0, NEW b \in Beads
  PROVE  losses = 0 /\ ~Restore /\ JournalWhole(b)'
<1> USE TypeParts
<1>1. losses = 0 /\ ~Restore
 <2>1. losses \in Nat BY DEF Counted
 <2>2. CASE UNCHANGED losses BY <2>1, <2>2 DEF Restore
 <2>3. losses' = losses \/ losses' = losses + 1
  BY DEF Next, PickupBegin, Step, Checks, OwnDispatch, Rebuild, Reconcile, Live, LiveCopy, Account, Pin, PinCopy,
    PinHolds, AbandonCopy, Dispatch, DispatchCopy, Call, ReceiptPut, Outcome, OutcomeCopy, FinishLaunch,
    Environment, Crash, RuntimeUp, RuntimeDown, Backup, Restore, Release, LivenessChanges, Relisted, ClaimLost,
    HumanLabel, SessionEnds, Caller, StartNew, OpenResume, SweepOurs, SweepNotOurs, ReplayRelease, Escalate, Enter,
    vars, bounds
 <2> QED BY <2>1, <2>2, <2>3
<1>2. JournalWhole(b) BY <1>1 DEF CrashInv
<1>3. UNCHANGED rebuilt => JournalWhole(b)'
 <2>1. CASE UNCHANGED <<entry, copy>> BY <1>2, <2>1 DEF JournalWhole
 <2>2. ASSUME NEW g \in Gens, EntryMove(g)
       PROVE  \A h \in Gens : copy'[b][h].outcome # "absent" => entry'[b][h].outcome # "absent"
  BY <1>2, <2>2 DEF JournalWhole, EntryMove, PinsEntry, Pinned, OutcomeOf
 <2>3. ASSUME NEW g \in Gens, CopyMove(g)
       PROVE  \A h \in Gens : copy'[b][h].outcome # "absent" => entry'[b][h].outcome # "absent"
  BY <1>2, <2>3 DEF JournalWhole, CopyMove
 <2>4. CASE Rebuild
  <3>1. cur \in Beads /\ UNCHANGED copy BY <2>4 DEF Rebuild, GuardType, bead
  <3>2. \A h \in Gens : entry[b][h].outcome # "absent" => entry'[b][h] = entry[b][h]
   BY <2>4, <3>1 DEF Rebuild, Known, Columns
  <3> QED BY <1>2, <3>1, <3>2 DEF JournalWhole
 <2>5. CASE Call \/ ReceiptPut \/ Backup BY <2>1, <2>5 DEF Call, ReceiptPut, Backup, journal, bead
 <2> QED BY <1>1, <1>2, <2>1, <2>2, <2>3, <2>4, <2>5, LedgerMoves DEF JournalWhole
<1>4. CASE Rebuild
 <2>1. cur \in Beads /\ rebuilt \in [Beads -> SUBSET Gens] BY <1>4 DEF Rebuild, GuardType, Columns
 <2>2. {g \in Gens : copy[cur][g].outcome # "absent"} \ Known(cur) = {}
  BY <1>1, <2>1 DEF CrashInv, JournalWhole, Known
 <2>3. rebuilt' = [rebuilt EXCEPT ![cur] = rebuilt[cur] \cup {}] BY <1>4, <2>2 DEF Rebuild
 <2> QED
  <3>1. rebuilt[cur] \cup {} = rebuilt[cur] OBVIOUS
  <3>2. rebuilt' = [rebuilt EXCEPT ![cur] = rebuilt[cur]] BY <2>3, <3>1
  <3>3. UNCHANGED rebuilt BY <2>1, <3>2
  <3> QED BY <1>1, <1>3, <3>3
<1>5. ~Rebuild => UNCHANGED rebuilt
 BY <1>1 DEF Next, PickupBegin, Step, Checks, OwnDispatch, Reconcile, Live, LiveCopy, Account, Pin, PinCopy,
   PinHolds, AbandonCopy, Dispatch, DispatchCopy, Call, ReceiptPut, Outcome, OutcomeCopy, FinishLaunch, Environment,
   Crash, RuntimeUp, RuntimeDown, Backup, Release, LivenessChanges, Relisted, ClaimLost, HumanLabel, SessionEnds,
   Caller, StartNew, OpenResume, SweepOurs, SweepNotOurs, ReplayRelease, Escalate, Enter, vars, journal
<1> QED BY <1>1, <1>3, <1>4, <1>5

\* The account is complete whenever the guard is about to pin a generation.
LEMMA PinAccountedStep ==
  ASSUME TypeOK, DispatchInv, LedgerInv, CrashInv, [Next]_vars
  PROVE  PinAccounted'
<1> USE TypeParts
<1> DEFINE Pins == {"pin"} \cup OwnPCs
<1>1. CASE pc' \notin Pins BY <1>1 DEF PinAccounted
<1>2. CASE /\ pc \in Pins /\ UNCHANGED <<cur, acc>>
           /\ \A g \in Gens : entry'[cur][g].outcome = "launched" => entry[cur][g].outcome = "launched"
 BY <1>2 DEF CrashInv, PinAccounted, Launched
<1>3. Return \/ EscalateFrom => pc' \notin Pins BY DEF Return, EscalateFrom, Goto, OwnPCs
<1>4. CASE Account
 <2>1. cur \in Beads /\ acc \in [Beads -> SUBSET Gens] /\ UNCHANGED entry BY <1>4 DEF Account, GuardType, Columns
 <2>2. CASE Goto("pin") /\ Launched(cur) \ acc[cur] = {} /\ UNCHANGED acc
  BY <2>1, <2>2 DEF Goto, PinAccounted, Launched
 <2>3. CASE Goto("pin") /\ acc' = [acc EXCEPT ![cur] = @ \cup (Launched(cur) \ acc[cur])]
  <3>1. acc'[cur] = acc[cur] \cup (Launched(cur) \ acc[cur]) BY <2>1, <2>3
  <3> QED BY <2>1, <2>3, <3>1 DEF Goto, PinAccounted, Launched
 <2> QED BY <1>1, <1>3, <1>4, <2>2, <2>3 DEF Account
<1>5. CASE Pin \/ PinHolds \/ Dispatch
 <2>1. pc \in Pins /\ cur \in Beads /\ UNCHANGED acc BY <1>5 DEF Pin, PinHolds, Dispatch, OwnPCs, GuardType
 <2>2. Return \/ EscalateFrom \/ UNCHANGED cur BY <1>5 DEF Pin, PinHolds, Dispatch, Goto
 <2>3. pc # "outcome" /\ pc # "live" BY <1>5 DEF Pin, PinHolds, Dispatch
 <2>4. \A g \in Gens : entry'[cur][g].outcome = "launched" => entry[cur][g].outcome = "launched"
  <3>1. CASE UNCHANGED entry BY <3>1
  <3>2. CASE Pin BY <2>1, <3>1, <3>2 DEF Pin, Columns, Pinned
  <3>3. CASE PinHolds
   <4>1. CASE entry' = [entry EXCEPT ![cur][Gen].outcome = "abandoned"]
    <5>1. Gen \in Gens BY <3>3, MaxGenAssumption DEF PinHolds, GuardType, PinnedPCs, Gens
    <5>2. /\ entry'[cur][Gen].outcome = "abandoned"
          /\ \A h \in Gens : h # Gen => entry'[cur][h] = entry[cur][h]
     <6>1. cur \in Beads BY <2>1
     <6>2. PICK g \in Gens : g = Gen BY <5>1
     <6>3. /\ entry'[cur][g].outcome = "abandoned"
           /\ \A b \in Beads : \A h \in Gens : b # cur \/ h # g => entry'[b][h] = entry[b][h]
      BY <4>1, <6>1, <6>2, OutcomeSet
     <6> QED BY <6>1, <6>2, <6>3
    <5> QED BY <5>2
   <4> QED BY <3>1, <3>3, <4>1 DEF PinHolds
  <3>4. CASE Dispatch
   <4>1. CASE entry' = [entry EXCEPT ![cur][Gen].dispatched = TRUE] BY <2>1, <4>1 DEF Columns, Entry
   <4> QED BY <3>1, <3>4, <4>1 DEF Dispatch
  <3> QED BY <1>5, <3>2, <3>3, <3>4
 <2> QED BY <1>1, <1>2, <1>3, <2>1, <2>2, <2>4
<1>6. CASE PinCopy \/ DispatchCopy \/ AbandonCopy
 <2>1. pc \in Pins /\ UNCHANGED <<entry, acc>> BY <1>6 DEF PinCopy, DispatchCopy, AbandonCopy, OwnPCs
 <2>2. Return \/ EscalateFrom \/ UNCHANGED cur
  BY <1>6 DEF PinCopy, DispatchCopy, AbandonCopy, BeadWrite, PinAgain, Goto
 <2> QED BY <1>1, <1>2, <1>3, <2>1, <2>2
<1>7. CASE \/ Checks \/ OwnDispatch \/ Rebuild \/ Reconcile \/ Live \/ LiveCopy
           \/ Call \/ ReceiptPut \/ Outcome \/ OutcomeCopy \/ FinishLaunch
 <2>1. \/ Return \/ EscalateFrom
       \/ pc' \in {"own", "rebuild", "reconcile", "live", "liveCopy", "account", "answered",
                   "outcome", "outcomeCopy", "finish"}
  <3>1. CASE Checks \/ OwnDispatch \/ Rebuild \/ Live \/ Call \/ ReceiptPut \/ Outcome \/ FinishLaunch
   BY <3>1 DEF Checks, OwnDispatch, Rebuild, Live, Call, ReceiptPut, Outcome, FinishLaunch, Goto
  <3>2. CASE Reconcile \/ LiveCopy \/ OutcomeCopy BY <3>2 DEF Reconcile, LiveCopy, OutcomeCopy, BeadWrite, Goto, guard
  <3> QED BY <1>7, <3>1, <3>2
 <2> QED BY <1>1, <1>3, <2>1 DEF OwnPCs
<1>8. CASE Step BY <1>4, <1>5, <1>6, <1>7, <1>8 DEF Step
<1>9. CASE UNCHANGED <<guard, entry, acc>> BY <1>9 DEF CrashInv, PinAccounted, Launched, guard
<1>10. CASE pc' \in {"idle", "handoff", "checks"} BY <1>1, <1>10 DEF OwnPCs
<1>11. CASE pc = "idle" /\ UNCHANGED pc BY <1>10, <1>11
<1>12. CASE Environment
 BY <1>9, <1>10, <1>11, <1>12 DEF Environment, Crash, RuntimeUp, RuntimeDown, Backup, Restore, Release,
   LivenessChanges, Relisted, ClaimLost, HumanLabel, SessionEnds, Return, journal, guard
<1>13. CASE \E b \in Beads : Caller(b)
 BY <1>10, <1>11, <1>13 DEF Caller, StartNew, OpenResume, SweepOurs, SweepNotOurs, ReplayRelease, Escalate, Enter,
   Return, guard
<1> QED BY <1>8, <1>9, <1>11, <1>12, <1>13 DEF Next, PickupBegin, vars, journal, guard

\* With a whole journal, the account of the last session is all that is open, and
\* it counts what the runtime recorded of its end.
LEMMA AccountCounts ==
  ASSUME TypeOK, DispatchInv, LedgerInv, CrashInv, losses = 0, Account
  PROVE  /\ acc \in [Beads -> SUBSET Gens] /\ acc[cur] \subseteq acc'[cur]
         /\ \A x \in Beads : x # cur => acc'[x] = acc[x] /\ deaths'[x] = deaths[x]
         /\ deaths'[cur] >= FailLimit /\ deaths' # deaths => EscalateFrom
         /\ UNCHANGED <<acc, deaths>> \/ (dead[cur] <= deaths'[cur] /\ deaths'[cur] \in Nat)
<1> USE TypeParts
<1>1. /\ cur \in Beads /\ acc \in [Beads -> SUBSET Gens] /\ deaths \in [Beads -> Nat]
      /\ started \in [Beads -> SUBSET Gens] /\ sessGen[cur] \in 0 .. MaxGen /\ dead[cur] \in Nat
      /\ pc = "account" /\ MaxGen \in Nat /\ ended[cur].cause \in Causes
 BY MaxGenAssumption DEF Account, GuardType, Columns, RuntimeType
<1>2. sess[cur] = "none" BY <1>1 DEF LedgerInv, SeenTrue, WorkPCs, AgreedPCs
<1> DEFINE todo  == Launched(cur) \ acc[cur]
           count == IF \E g \in todo : EndClass(g) = "died" THEN deaths[cur] + 1
                    ELSE IF \E g \in todo : EndClass(g) = "lifetime" THEN 0
                    ELSE deaths[cur]
<1>3. CASE UNCHANGED <<acc, deaths>> BY <1>1, <1>3
<1>4. CASE /\ todo # {} /\ acc' = [acc EXCEPT ![cur] = @ \cup todo]
           /\ deaths' = [deaths EXCEPT ![cur] = count]
           /\ count >= FailLimit => EscalateFrom
 <2>1. \A g \in todo : g = sessGen[cur] /\ g # 0
  <3>1. \A g \in Launched(cur) : g \in Gens /\ g \in started[cur] BY <1>1 DEF Launched, LedgerInv, EntriesTrue
  <3>2. EndsTrue(cur) BY <1>1 DEF CrashInv
  <3> QED BY <3>1, <3>2 DEF EndsTrue, Gens
 <2>2. PICK s \in todo : s = sessGen[cur] BY <1>4, <2>1
 <2>3. todo = {s} BY <2>1, <2>2
 <2>4. EndClass(s) = ended[cur].cause
  <3>1. rebuilt[cur] = {} /\ ended[cur].gen = s BY <1>1, <1>2, <2>1, <2>2 DEF CrashInv, JournalWhole, EndsTrue
  <3>2. ~(s > s) BY <1>1, <2>2
  <3>3. ~\E h \in todo : h > s BY <2>3, <3>2
  <3> QED BY <3>1, <3>3 DEF EndClass
 <2>5. dead[cur] <= deaths[cur] + (IF DeathPending(cur) THEN 1 ELSE 0) BY <1>1 DEF CrashInv, DeathsCounted
 <2>6. DeathPending(cur) <=> ended[cur].cause = "died" BY <1>2, <2>1, <2>2 DEF DeathPending
 <2>7. ended[cur].cause = "lifetime" => dead[cur] = 0 BY <1>1, <1>2, <2>1, <2>2 DEF CrashInv, EndsTrue
 <2>8. PICK c : c = count OBVIOUS
 <2>9. c = IF ended[cur].cause = "died" THEN deaths[cur] + 1
           ELSE IF ended[cur].cause = "lifetime" THEN 0 ELSE deaths[cur] BY <2>3, <2>4, <2>8
 <2>10. dead[cur] <= c /\ c \in Nat
  <3>1. deaths[cur] \in Nat BY <1>1
  <3> QED BY <1>1, <2>5, <2>6, <2>7, <2>9, <3>1 DEF Causes
 <2>11. deaths' = [deaths EXCEPT ![cur] = c] /\ (c >= FailLimit => EscalateFrom) BY <1>4, <2>8
 <2>12. PICK T : acc' = [acc EXCEPT ![cur] = acc[cur] \cup T] BY <1>4
 <2> QED BY <1>1, <2>10, <2>11, <2>12
<1> QED BY <1>3, <1>4 DEF Account

\* Which steps touch the runtime's sessions, the account and the counts.
LEMMA CrashMoves ==
  ASSUME TypeOK, [Next]_vars, losses' = losses, ~Restore
  PROVE  \/ UNCHANGED <<sess, sessGen, ended, started, dead, acc, deaths>>
         \/ Call \/ Account
         \/ \E b \in Beads : \/ StartNew(b) \/ Release(b) \/ SweepNotOurs(b) \/ LivenessChanges(b)
                             \/ \E c \in Causes : SessionEnds(b, c)
<1> USE TypeParts
<1>1. CASE Step
 BY <1>1 DEF Step, Checks, OwnDispatch, Rebuild, Reconcile, Live, LiveCopy, Pin, PinCopy, PinHolds, AbandonCopy,
   Dispatch, DispatchCopy, ReceiptPut, Outcome, OutcomeCopy, FinishLaunch, runtime
<1>2. \A b \in Beads : ~Relisted(b) BY DEF Relisted, Counted
<1>3. CASE Environment
 BY <1>2, <1>3 DEF Environment, Crash, RuntimeUp, RuntimeDown, Backup, ClaimLost, HumanLabel, runtime, journal
<1>4. CASE \E b \in Beads : Caller(b)
 BY <1>4 DEF Caller, OpenResume, SweepOurs, ReplayRelease, Escalate, Enter, runtime
<1> QED BY <1>1, <1>3, <1>4 DEF Next, PickupBegin, vars, journal, runtime

\* With a whole journal, only the last session is ever left to account.
LEMMA EndsStep ==
  ASSUME TypeOK, DispatchInv, LedgerInv, CrashInv, [Next]_vars, losses' = 0, NEW b \in Beads
  PROVE  EndsTrue(b)'
<1> USE TypeParts
<1>1. losses = 0 /\ ~Restore /\ EndsTrue(b) BY WholeStep DEF CrashInv
<1>2. /\ acc \in [Beads -> SUBSET Gens] /\ started \in [Beads -> SUBSET Gens]
      /\ sess \in [Beads -> {"none", "live", "unknown"}] /\ sessGen \in [Beads -> 0 .. MaxGen]
      /\ ended \in [Beads -> [gen : 0 .. MaxGen, cause : Causes]] /\ dead \in [Beads -> Nat]
 BY DEF Columns, RuntimeType
<1>3. CASE UNCHANGED <<sess, sessGen, ended, started, dead, acc>> BY <1>1, <1>3 DEF EndsTrue
<1>4. ASSUME NEW x \in Beads, StartNew(x) \/ Release(x) PROVE EndsTrue(b)'
 <2>1. /\ UNCHANGED <<sess, sessGen, ended, started>> /\ acc[b] \subseteq acc'[b]
       /\ dead'[b] \in {0, dead[b]} BY <1>2, <1>4 DEF StartNew, Release
 <2> QED BY <1>1, <2>1 DEF EndsTrue
<1>5. CASE Account
 <2>1. UNCHANGED <<sess, sessGen, ended, started, dead>> /\ acc[b] \subseteq acc'[b]
  BY <1>1, <1>5, AccountCounts DEF Account, runtime
 <2> QED BY <1>1, <2>1 DEF EndsTrue
<1>6. ASSUME NEW x \in Beads, SweepNotOurs(x) PROVE EndsTrue(b)'
 <2>1. UNCHANGED <<sessGen, started, dead, acc>> BY <1>6 DEF SweepNotOurs
 <2>2. CASE b # x \/ sess[x] = "none"
  <3>1. sess'[b] = sess[b] /\ ended'[b] = ended[b] BY <1>2, <1>6, <2>2 DEF SweepNotOurs
  <3> QED BY <1>1, <2>1, <3>1 DEF EndsTrue
 <2>3. CASE b = x /\ sess[x] # "none"
  <3>1. ended'[b] = [gen |-> sessGen[b], cause |-> "stopped"] BY <1>2, <1>6, <2>3 DEF SweepNotOurs
  <3> QED BY <1>1, <2>1, <3>1 DEF EndsTrue
 <2> QED BY <2>2, <2>3
<1>7. ASSUME NEW x \in Beads, LivenessChanges(x) PROVE EndsTrue(b)'
 <2>1. UNCHANGED <<sessGen, ended, started, dead, acc>> /\ (sess'[b] = "none" => sess[b] = "none")
  BY <1>2, <1>7 DEF LivenessChanges, journal
 <2> QED BY <1>1, <2>1 DEF EndsTrue
<1>8. ASSUME NEW x \in Beads, NEW c \in Causes, SessionEnds(x, c) PROVE EndsTrue(b)'
 <2>1. UNCHANGED <<sessGen, started, acc>> BY <1>8 DEF SessionEnds, journal
 <2>2. CASE b # x
  <3>1. sess'[b] = sess[b] /\ ended'[b] = ended[b] /\ dead'[b] = dead[b] BY <1>2, <1>8, <2>2 DEF SessionEnds
  <3> QED BY <1>1, <2>1, <3>1 DEF EndsTrue
 <2>3. CASE b = x
  <3>1. ended'[b] = [gen |-> sessGen[b], cause |-> c] BY <1>2, <1>8, <2>3 DEF SessionEnds
  <3>2. c = "lifetime" => dead'[b] = 0 BY <1>2, <1>8, <2>3 DEF SessionEnds
  <3> QED BY <1>1, <2>1, <3>1, <3>2 DEF EndsTrue
 <2> QED BY <2>2, <2>3
<1>9. CASE Call
 <2>1. UNCHANGED <<ended, dead, acc>> /\ pc = "call" /\ cur \in Beads BY <1>9 DEF Call, GuardType
 <2>2. CASE UNCHANGED <<sess, sessGen, started>> BY <1>3, <2>1, <2>2
 <2>3. ASSUME NEW l \in {"live", "unknown"}, Appears(l) PROVE EndsTrue(b)'
  <3>1. CASE b # cur
   <4>1. sess'[b] = sess[b] /\ sessGen'[b] = sessGen[b] /\ started'[b] = started[b]
    BY <1>2, <2>1, <2>3, <3>1 DEF Appears
   <4> QED BY <1>1, <2>1, <4>1 DEF EndsTrue
  <3>2. CASE b = cur
   <4>1. sess'[b] = l /\ sessGen'[b] = Gen /\ started'[b] = started[b] \cup {Gen}
    BY <1>2, <2>1, <2>3, <3>2 DEF Appears
   <4>2. \A g \in started[b] : g \in acc[b] BY <2>1, <3>2, StartedIsLaunched DEF CrashInv, PinAccounted, OwnPCs
   <4> QED BY <2>1, <4>1, <4>2 DEF EndsTrue
  <3> QED BY <3>1, <3>2
 <2> QED BY <1>9, <2>2, <2>3 DEF Call
<1> QED BY <1>1, <1>3, <1>4, <1>5, <1>6, <1>7, <1>8, <1>9, CrashMoves

\* No death goes uncounted but the last one, until the guard accounts it.
LEMMA DeathsStep ==
  ASSUME TypeOK, DispatchInv, LedgerInv, CrashInv, [Next]_vars, losses' = 0, NEW b \in Beads
  PROVE  DeathsCounted(b)'
<1> USE TypeParts
<1>1. losses = 0 /\ ~Restore /\ DeathsCounted(b) BY WholeStep DEF CrashInv
<1>2. /\ acc \in [Beads -> SUBSET Gens] /\ started \in [Beads -> SUBSET Gens]
      /\ sess \in [Beads -> {"none", "live", "unknown"}] /\ sessGen \in [Beads -> 0 .. MaxGen]
      /\ ended \in [Beads -> [gen : 0 .. MaxGen, cause : Causes]] /\ dead \in [Beads -> Nat]
      /\ deaths \in [Beads -> Nat] BY DEF Columns, RuntimeType
<1>3. dead[b] \in Nat /\ deaths[b] \in Nat /\ (~DeathPending(b) => dead[b] <= deaths[b])
 BY <1>1, <1>2 DEF DeathsCounted
<1>4. CASE /\ sess'[b] = sess[b] /\ sessGen'[b] = sessGen[b] /\ ended'[b] = ended[b]
           /\ acc'[b] = acc[b] /\ dead'[b] = dead[b] /\ deaths'[b] = deaths[b]
 BY <1>1, <1>4 DEF DeathsCounted, DeathPending
<1>5. CASE dead'[b] <= deaths'[b] /\ dead'[b] \in Nat /\ deaths'[b] \in Nat BY <1>5 DEF DeathsCounted
<1>6. ASSUME NEW x \in Beads, StartNew(x) \/ Release(x) PROVE DeathsCounted(b)'
 <2>1. UNCHANGED <<sess, sessGen, ended>> BY <1>6 DEF StartNew, Release
 <2>2. CASE b = x
  <3>1. dead'[b] = 0 /\ deaths'[b] = 0 BY <1>2, <1>6, <2>2 DEF StartNew, Release
  <3> QED BY <1>5, <3>1
 <2>3. CASE b # x
  <3>1. dead'[b] = dead[b] /\ deaths'[b] = deaths[b] /\ acc'[b] = acc[b] BY <1>2, <1>6, <2>3 DEF StartNew, Release
  <3> QED BY <1>4, <2>1, <3>1
 <2> QED BY <2>2, <2>3
<1>7. CASE Account
 <2>1. UNCHANGED <<sess, sessGen, ended, dead>> BY <1>7 DEF Account, runtime
 <2>2. b # cur => acc'[b] = acc[b] /\ deaths'[b] = deaths[b] BY <1>1, <1>7, AccountCounts
 <2>3. UNCHANGED <<acc, deaths>> \/ (dead[cur] <= deaths'[cur] /\ deaths'[cur] \in Nat) BY <1>1, <1>7, AccountCounts
 <2> QED BY <1>3, <1>4, <1>5, <2>1, <2>2, <2>3
<1>8. ASSUME NEW x \in Beads, SweepNotOurs(x) PROVE DeathsCounted(b)'
 <2>1. UNCHANGED <<sessGen, dead, acc, deaths>> BY <1>8 DEF SweepNotOurs
 <2>2. CASE b # x \/ sess[x] = "none"
  <3>1. sess'[b] = sess[b] /\ ended'[b] = ended[b] BY <1>2, <1>8, <2>2 DEF SweepNotOurs
  <3> QED BY <1>4, <2>1, <3>1
 <2>3. CASE b = x /\ sess[x] # "none" BY <1>3, <1>5, <2>1, <2>3 DEF DeathPending
 <2> QED BY <2>2, <2>3
<1>9. ASSUME NEW x \in Beads, LivenessChanges(x) PROVE DeathsCounted(b)'
 <2>1. UNCHANGED <<sessGen, ended, dead, acc, deaths>> BY <1>9 DEF LivenessChanges, journal
 <2>2. sess'[b] = sess[b] \/ sess[b] # "none" BY <1>2, <1>9 DEF LivenessChanges
 <2> QED BY <1>3, <1>4, <1>5, <2>1, <2>2 DEF DeathPending
<1>10. ASSUME NEW x \in Beads, NEW c \in Causes, SessionEnds(x, c) PROVE DeathsCounted(b)'
 <2>1. UNCHANGED <<sessGen, acc, deaths>> BY <1>10 DEF SessionEnds, journal
 <2>2. CASE b # x
  <3>1. sess'[b] = sess[b] /\ ended'[b] = ended[b] /\ dead'[b] = dead[b] BY <1>2, <1>10, <2>2 DEF SessionEnds
  <3> QED BY <1>4, <2>1, <3>1
 <2>3. CASE b = x
  <3>1. sess[b] # "none" /\ sess'[b] = "none" /\ ended'[b] = [gen |-> sessGen[b], cause |-> c]
   BY <1>2, <1>10, <2>3 DEF SessionEnds
  <3>2. dead'[b] = IF c = "lifetime" THEN 0
                   ELSE IF c = "died" /\ sessGen[b] \notin acc[b] /\ dead[b] < FailLimit
                   THEN dead[b] + 1 ELSE dead[b] BY <1>2, <1>10, <2>3 DEF SessionEnds
  <3>3. dead[b] <= deaths[b] /\ sessGen[b] # 0 BY <1>3, <3>1 DEF DeathPending, LedgerInv, SessionsTrue
  <3>4. CASE c = "died" /\ sessGen[b] \notin acc[b]
   <4>1. DeathPending(b)' BY <2>1, <3>1, <3>3, <3>4 DEF DeathPending
   <4>2. dead'[b] <= deaths[b] + 1 BY <1>3, <3>2, <3>3, <3>4
   <4> QED BY <1>3, <2>1, <4>1, <4>2 DEF DeathsCounted
  <3>5. CASE ~(c = "died" /\ sessGen[b] \notin acc[b])
   <4>1. dead'[b] \in {0, dead[b]} BY <3>2, <3>5
   <4> QED BY <1>3, <1>5, <2>1, <3>3, <4>1
  <3> QED BY <3>4, <3>5
 <2> QED BY <2>2, <2>3
<1>11. CASE Call
 <2>1. UNCHANGED <<ended, dead, acc, deaths>> /\ pc = "call" /\ cur \in Beads BY <1>11 DEF Call, GuardType
 <2>2. CASE b # cur
  <3>1. sess'[b] = sess[b] /\ sessGen'[b] = sessGen[b] BY <1>2, <1>11, <2>1, <2>2 DEF Call, Appears
  <3> QED BY <1>4, <2>1, <3>1
 <2>3. CASE b = cur
  <3>1. sessGen[b] # 0 => sessGen[b] \in started[b] BY DEF LedgerInv, SessionsTrue
  <3>2. sessGen[b] # 0 => sessGen[b] \in acc[b]
   BY <2>1, <2>3, <3>1, StartedIsLaunched DEF CrashInv, PinAccounted, OwnPCs
  <3> QED BY <1>3, <1>5, <2>1, <3>2 DEF DeathPending
 <2> QED BY <2>2, <2>3
<1> QED BY <1>1, <1>4, <1>6, <1>7, <1>8, <1>9, <1>10, <1>11, CrashMoves

\* A step of the guard leaves the operations and rows of other beads alone.
LEMMA GuardOwnRow ==
  ASSUME TypeOK, Step, NEW b \in Beads, b # cur
  PROVE  op'[b] = op[b] /\ row'[b] = row[b]
<1> USE TypeParts
<1>1. op \in [Beads -> Op] /\ row \in [Beads -> Rows] BY DEF Columns
<1>2. CASE UNCHANGED <<op, row>> BY <1>2
<1>3. ASSUME NEW s, Finish(cur, s) PROVE op'[b] = op[b] /\ row'[b] = row[b] BY <1>1, <1>3 DEF Finish
<1>4. CASE EscalateFrom BY <1>1, <1>4 DEF EscalateFrom, Stuck
<1>5. CASE UNCHANGED row /\ \E r : op' = [op EXCEPT ![cur] = r] BY <1>1, <1>5
<1>6. CASE Reconcile \/ LiveCopy \/ PinCopy \/ AbandonCopy \/ DispatchCopy \/ OutcomeCopy
 BY <1>2, <1>3, <1>4, <1>6 DEF Reconcile, LiveCopy, PinCopy, AbandonCopy, DispatchCopy, OutcomeCopy, BeadWrite
<1>7. CASE Pin \/ PinHolds BY <1>1, <1>2, <1>3, <1>4, <1>7 DEF Pin, PinHolds
<1>8. CASE FinishLaunch BY <1>1, <1>2, <1>3, <1>4, <1>8 DEF FinishLaunch
<1>9. CASE Checks \/ OwnDispatch \/ Rebuild \/ Live \/ Account
 BY <1>2, <1>3, <1>4, <1>9 DEF Checks, OwnDispatch, Rebuild, Live, Account
<1>10. CASE Dispatch \/ Call \/ ReceiptPut \/ Outcome
 BY <1>2, <1>3, <1>4, <1>10 DEF Dispatch, Call, ReceiptPut, Outcome
<1> QED BY <1>6, <1>7, <1>8, <1>9, <1>10 DEF Step

\* A bead at the limit is with a human, or on its way there.
LEMMA LimitStep ==
  ASSUME TypeOK, DispatchInv, LedgerInv, CrashInv, [Next]_vars, losses' = 0, NEW b \in Beads
  PROVE  LimitHeld(b)'
<1> USE TypeParts
<1>1. losses = 0 /\ ~Restore /\ LimitHeld(b) BY WholeStep DEF CrashInv
<1>2. op \in [Beads -> Op] /\ row \in [Beads -> Rows] /\ deaths \in [Beads -> Nat] /\ FailLimit \in Nat \ {0}
 BY FailLimitAssumption DEF Columns
<1> DEFINE Rests == op'[b].kind \in {"none", "escalate"} /\ row'[b] \in {"none", "stuck"}
<1>3. CASE Rests BY <1>3 DEF LimitHeld
<1>4. CASE deaths'[b] = deaths[b] /\ op'[b] = op[b] /\ row'[b] = row[b] BY <1>1, <1>4 DEF LimitHeld
<1>5. CASE deaths'[b] = deaths[b] /\ (op[b].kind \in {"launch", "release"} \/ row[b] \in {"waiting", "running"})
 BY <1>1, <1>5 DEF LimitHeld
<1>6. EscalateFrom /\ b = cur => Rests BY <1>2 DEF EscalateFrom, Stuck, NewOp
<1>7. CASE Step
 <2>1. ~Account => UNCHANGED deaths
  BY <1>7 DEF Step, Checks, OwnDispatch, Rebuild, Reconcile, Live, LiveCopy, Pin, PinCopy, PinHolds, AbandonCopy,
    Dispatch, DispatchCopy, Call, ReceiptPut, Outcome, OutcomeCopy, FinishLaunch
 <2>2. CASE b # cur
  <3>1. deaths'[b] = deaths[b] BY <1>1, <2>1, <2>2, AccountCounts
  <3>2. op'[b] = op[b] /\ row'[b] = row[b] BY <1>7, <2>2, GuardOwnRow
  <3> QED BY <1>4, <3>1, <3>2
 <2>3. CASE b = cur /\ LiveCopy
  <3>1. UNCHANGED <<op, row>> \/ EscalateFrom \/ Finish(cur, "stuck") BY <2>3 DEF LiveCopy, BeadWrite
  <3>2. Finish(cur, "stuck") => Rests BY <1>2, <2>3 DEF Finish, NoOp
  <3>3. UNCHANGED deaths BY <2>3 DEF LiveCopy
  <3> QED BY <1>3, <1>4, <1>6, <2>3, <3>1, <3>2, <3>3
 <2>4. CASE b = cur /\ Account
  <3>1. op[cur].kind = "launch" BY <2>4 DEF Account, LedgerInv, GuardsOp, WorkPCs, AgreedPCs
  <3>2. deaths'[cur] >= FailLimit /\ deaths' # deaths => EscalateFrom BY <1>1, <2>4, AccountCounts
  <3>3. CASE deaths' = deaths BY <1>5, <2>4, <3>1, <3>3
  <3>4. CASE EscalateFrom BY <1>3, <1>6, <2>4, <3>4
  <3> QED BY <2>4, <3>2, <3>3, <3>4 DEF LimitHeld
 <2>5. CASE b = cur /\ ~LiveCopy /\ ~Account
  <3>1. pc \in WorkPCs \cup {"answered", "outcome", "outcomeCopy", "finish"}
   BY <1>7, <2>5 DEF Step, Checks, OwnDispatch, Rebuild, Reconcile, Live, Pin, PinCopy, PinHolds, AbandonCopy,
     Dispatch, DispatchCopy, Call, ReceiptPut, Outcome, OutcomeCopy, FinishLaunch, WorkPCs, AgreedPCs, OwnPCs
  <3>2. op[cur].kind = "launch" BY <3>1 DEF LedgerInv, GuardsOp
  <3> QED BY <1>5, <2>1, <2>5, <3>2
 <2> QED BY <2>2, <2>3, <2>4, <2>5
<1>8. CASE UNCHANGED <<op, row, deaths>> BY <1>4, <1>8
<1>9. ASSUME NEW x \in Beads, StartNew(x) \/ Release(x) PROVE LimitHeld(b)'
 <2>1. CASE b = x
  <3>1. deaths'[b] = 0 BY <1>2, <1>9, <2>1 DEF StartNew, Release
  <3> QED BY <1>2, <3>1 DEF LimitHeld
 <2>2. CASE b # x
  <3>1. deaths'[b] = deaths[b] /\ op'[b] = op[b] /\ row'[b] = row[b] BY <1>2, <1>9, <2>2 DEF StartNew, Release
  <3> QED BY <1>4, <3>1
 <2> QED BY <2>1, <2>2
<1>10. ASSUME NEW x \in Beads, OpenResume(x) \/ ReplayRelease(x) \/ Enter(x) PROVE LimitHeld(b)'
 <2>1. UNCHANGED deaths BY <1>10 DEF OpenResume, ReplayRelease, Enter
 <2>2. op[x].kind \in {"launch", "release"} \/ row[x] \in {"waiting", "running"}
  BY <1>10 DEF OpenResume, ReplayRelease, Enter
 <2>3. b # x => op'[b] = op[b] /\ row'[b] = row[b] BY <1>2, <1>10 DEF OpenResume, ReplayRelease, Enter, Finish, Stuck
 <2> QED BY <1>4, <1>5, <2>1, <2>2, <2>3
<1>11. ASSUME NEW x \in Beads, SweepOurs(x) \/ SweepNotOurs(x) \/ Escalate(x) PROVE LimitHeld(b)'
 <2>1. UNCHANGED deaths BY <1>11 DEF SweepOurs, SweepNotOurs, Escalate
 <2>2. b # x => op'[b] = op[b] /\ row'[b] = row[b] BY <1>2, <1>11 DEF SweepOurs, SweepNotOurs, Escalate
 <2>3. op'[x] = op[x] \/ op'[x].kind \in {"none", "escalate"}
  BY <1>2, <1>11 DEF SweepOurs, SweepNotOurs, Escalate, NewOp, NoOp
 <2>4. row'[x] = row[x] \/ row'[x] \in {"none", "stuck"} BY <1>2, <1>11 DEF SweepOurs, SweepNotOurs, Escalate
 <2> QED BY <1>1, <2>1, <2>2, <2>3, <2>4 DEF LimitHeld
<1>12. CASE Environment
 BY <1>1, <1>8, <1>9, <1>12 DEF Environment, Crash, RuntimeUp, RuntimeDown, Backup, LivenessChanges, Relisted,
   ClaimLost, HumanLabel, SessionEnds, journal
<1>13. CASE \E x \in Beads : Caller(x) BY <1>8, <1>9, <1>10, <1>11, <1>13 DEF Caller
<1> QED BY <1>7, <1>8, <1>12, <1>13 DEF Next, PickupBegin, vars, journal

\* A journal that was never lost counts every death of a bead's session before
\* the bead can be launched again.
THEOREM CrashesCounted == Spec => []CrashInv
<1>1. Init => CrashInv
 <2> SUFFICES ASSUME Init PROVE CrashInv OBVIOUS
 <2>1. PinAccounted BY DEF Init, PinAccounted, OwnPCs
 <2>2. ASSUME NEW b \in Beads PROVE JournalWhole(b) /\ EndsTrue(b) BY DEF Init, JournalWhole, EndsTrue, Absent
 <2>3. ASSUME NEW b \in Beads PROVE DeathsCounted(b) /\ LimitHeld(b)
  BY FailLimitAssumption DEF Init, DeathsCounted, DeathPending, LimitHeld, NoOp
 <2> QED BY <2>1, <2>2, <2>3 DEF CrashInv
<1>2. TypeOK /\ DispatchInv /\ LedgerInv /\ CrashInv /\ [Next]_vars => CrashInv'
 <2> SUFFICES ASSUME TypeOK, DispatchInv, LedgerInv, CrashInv, [Next]_vars PROVE CrashInv' OBVIOUS
 <2>1. PinAccounted' BY PinAccountedStep
 <2>2. ASSUME losses' = 0, NEW b \in Beads
       PROVE  JournalWhole(b)' /\ EndsTrue(b)' /\ DeathsCounted(b)' /\ LimitHeld(b)'
  BY <2>2, WholeStep, EndsStep, DeathsStep, LimitStep
 <2> QED BY <2>1, <2>2 DEF CrashInv
<1> QED BY <1>1, <1>2, TypeCorrect, DispatchDiscipline, LedgerAgrees, PTL DEF Spec

\* The ledger of a bead's launches is right for any number of beads, generations,
\* crashes and lost journals, and with its journal intact wsd never launches a bead
\* whose sessions died FailLimit times in a row (Parker._reconcile, _settle, _account).
THEOREM LaunchesAccounted == Spec => []Accounted
<1>1. TypeOK /\ DispatchInv /\ LedgerInv /\ CrashInv => CrashLoopStops
 <2> SUFFICES ASSUME TypeOK, DispatchInv, LedgerInv, CrashInv, pc = "call", losses = 0
              PROVE  dead[cur] < FailLimit BY DEF CrashLoopStops
 <2> USE TypeParts
 <2>1. cur \in Beads /\ dead[cur] \in Nat /\ deaths[cur] \in Nat /\ FailLimit \in Nat
  BY FailLimitAssumption DEF GuardType, RuntimeType, Columns
 <2>2. op[cur].kind = "launch" BY DEF LedgerInv, GuardsOp, WorkPCs, OwnPCs
 <2>3. deaths[cur] < FailLimit BY <2>1, <2>2 DEF CrashInv, LimitHeld
 <2>4. ~DeathPending(cur)
  <3>1. sessGen[cur] # 0 => sessGen[cur] \in started[cur] BY <2>1 DEF LedgerInv, SessionsTrue
  <3>2. sessGen[cur] # 0 => sessGen[cur] \in acc[cur] BY <3>1, StartedIsLaunched DEF CrashInv, PinAccounted, OwnPCs
  <3> QED BY <3>2 DEF DeathPending
 <2> QED BY <2>1, <2>3, <2>4 DEF CrashInv, DeathsCounted
<1>2. LedgerInv /\ CrashLoopStops => Accounted BY DEF LedgerInv, Accounted
<1> QED BY <1>1, <1>2, TypeCorrect, DispatchDiscipline, LedgerAgrees, CrashesCounted, PTL

------------------------------
(* The guard implements its promise. *)

\* While the guard works on a bead no other bead has a session, in any state.
LEMMA RoleAlways == Spec => []RoleInv
<1>1. Init => RoleInv BY DEF Init, RoleInv, OneCoder
<1> QED BY <1>1, RoleStep, TypeCorrect, PTL DEF Spec

\* The call is the promise's launch: no session may be running, and every
\* generation called before is a smaller one.
LEMMA CallLaunches ==
  ASSUME TypeOK, DispatchInv, RoleInv, LedgerInv, Call
  PROVE  Promise!Launch(cur, Gen) /\ cur \in Beads /\ Gen \in 1 .. MaxGen
<1> USE TypeParts
<1>1. /\ pc = "call" /\ cur \in Beads /\ Gen \in Gens /\ Gens = 1 .. MaxGen
      /\ calls \in [Beads -> [Gens -> Nat]] /\ sess \in [Beads -> {"none", "live", "unknown"}]
 BY MaxGenAssumption DEF Call, GuardType, RuntimeType, PinnedPCs, Gens
<1>2. Running = {}
 <2>1. sess[cur] = "none" BY <1>1 DEF LedgerInv, SeenTrue, WorkPCs, OwnPCs
 <2>2. \A x \in Beads \ {cur} : sess[x] = "none" BY <1>1 DEF RoleInv
 <2> QED BY <2>1, <2>2 DEF Running
<1>3. \A h \in Called[cur] : h < Gen BY <1>1, CallIsNext DEF Called
<1>4. Called' = [Called EXCEPT ![cur] = @ \cup {Gen}]
 <2>1. PICK n \in Gens : n = Gen BY <1>1
 <2>2. calls' = [calls EXCEPT ![cur][n] = @ + 1] BY <2>1 DEF Call
 <2>3. \A x \in Beads : x # cur => calls'[x] = calls[x] BY <1>1, <2>2
 <2>4. calls'[cur] = [calls[cur] EXCEPT ![n] = @ + 1] BY <1>1, <2>2
 <2>5. calls[cur] \in [Gens -> Nat] BY <1>1
 <2>6. \A g \in Gens : calls'[cur][g] > 0 <=> (calls[cur][g] > 0 \/ g = n) BY <2>1, <2>4, <2>5
 <2>7. {g \in Gens : calls'[cur][g] > 0} = {g \in Gens : calls[cur][g] > 0} \cup {n} BY <2>6
 <2>8. [b \in Beads |-> {g \in Gens : calls'[b][g] > 0}]
         = [[b \in Beads |-> {g \in Gens : calls[b][g] > 0}] EXCEPT ![cur] = @ \cup {n}] BY <1>1, <2>3, <2>7
 <2> QED BY <2>1, <2>8 DEF Called
<1>5. Running' \in {{}, {cur}}
 <2>1. \A x \in Beads : x # cur => sess'[x] = "none"
  <3>1. \A x \in Beads : x # cur => sess[x] = "none" BY <1>1 DEF RoleInv
  <3> QED BY <1>1, <3>1 DEF Call, Appears
 <2> QED BY <1>1, <2>1 DEF Running
<1> QED BY <1>1, <1>2, <1>3, <1>4, <1>5 DEF Promise!Launch

\* Every step of the guard, its callers and the runtime is a step of the promise,
\* or changes nothing that the promise tells.
LEMMA PromiseStep ==
  ASSUME TypeOK, DispatchInv, RoleInv, LedgerInv, [Next]_vars
  PROVE  [Promise!Next]_<<Called, Running>>
<1> USE TypeParts
<1>1. sess \in [Beads -> {"none", "live", "unknown"}] BY DEF RuntimeType
<1>2. UNCHANGED calls => UNCHANGED Called BY DEF Called
<1>3. CASE UNCHANGED <<calls, sess>> BY <1>3 DEF Called, Running
<1>4. CASE Call BY <1>4, CallLaunches DEF Promise!Next
<1>5. ASSUME NEW b \in Beads, UNCHANGED calls, sess' = [sess EXCEPT ![b] = "none"]
      PROVE  [Promise!Next]_<<Called, Running>>
 <2>1. Running' = Running \ {b} BY <1>1, <1>5 DEF Running
 <2>2. CASE b \in Running BY <1>2, <1>5, <2>1, <2>2 DEF Promise!Next, Promise!End
 <2>3. CASE b \notin Running BY <1>2, <1>5, <2>1, <2>3
 <2> QED BY <2>2, <2>3
<1>6. ASSUME NEW b \in Beads, LivenessChanges(b) PROVE [Promise!Next]_<<Called, Running>>
 <2>1. Running' = Running BY <1>1, <1>6 DEF LivenessChanges, Running
 <2> QED BY <1>2, <1>6, <2>1 DEF LivenessChanges
<1>7. ASSUME NEW b \in Beads, Relisted(b) PROVE [Promise!Next]_<<Called, Running>>
 <2>1. Running = {} /\ Running' = {b} BY <1>1, <1>7 DEF Relisted, Running
 <2>2. Called[b] # {}
  <3>1. sessGen[b] \in started[b] /\ started[b] \subseteq Gens
   BY <1>7 DEF Relisted, LedgerInv, SessionsTrue, RuntimeType
  <3>2. calls[b][sessGen[b]] > 0 BY <3>1 DEF LedgerInv, SessionsTrue
  <3> QED BY <3>1, <3>2 DEF Called
 <2> QED BY <1>2, <1>7, <2>1, <2>2 DEF Relisted, Promise!Next, Promise!Back
<1>8. CASE Step
 BY <1>3, <1>4, <1>8 DEF Step, Checks, OwnDispatch, Rebuild, Reconcile, Live, LiveCopy, Account, Pin, PinCopy,
   PinHolds, AbandonCopy, Dispatch, DispatchCopy, ReceiptPut, Outcome, OutcomeCopy, FinishLaunch, runtime
<1>9. CASE Environment
 BY <1>3, <1>5, <1>6, <1>7, <1>9 DEF Environment, Crash, RuntimeUp, RuntimeDown, Backup, Restore, Release,
   ClaimLost, HumanLabel, SessionEnds, runtime
<1>10. CASE \E b \in Beads : Caller(b)
 BY <1>3, <1>5, <1>10 DEF Caller, StartNew, OpenResume, SweepOurs, SweepNotOurs, ReplayRelease, Escalate, Enter,
   runtime
<1> QED BY <1>3, <1>8, <1>9, <1>10 DEF Next, PickupBegin, vars, runtime

\* The launch guard implements LaunchPromise: a generation is handed to the runtime
\* once, generations only go up, and one coder session runs (park.py, Parker.launch).
THEOREM PromiseKept == Spec => KeepsPromise
<1>1. Init => Promise!Init BY DEF Init, Promise!Init, Called, Running
<1>2. TypeOK /\ DispatchInv /\ RoleInv /\ LedgerInv /\ [Next]_vars => [Promise!Next]_<<Called, Running>>
 BY PromiseStep
<1> QED
 BY <1>1, <1>2, TypeCorrect, DispatchDiscipline, RoleAlways, LedgerAgrees, PTL DEF Spec, KeepsPromise, Promise!Spec
==============================
