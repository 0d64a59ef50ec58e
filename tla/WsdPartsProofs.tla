------------------------------- MODULE WsdPartsProofs -------------------------------
(***************************************************************************)
(* Theorems about the parts of wsd, for the specification that TLC checks  *)
(* and any limits and number of faults: the action journal, the sandbox    *)
(* session with its create ledger, its watchers and its git, and the       *)
(* harness store with its helper and wsd's operations on it.               *)
(***************************************************************************)
EXTENDS MCWsdParts, TLAPS, NaturalsInduction, WellFoundedInduction, FiniteSetTheorems

------------------------------
(* The records of a request, one by one. *)

Deciding == [id : Nat, v : {"none", "approve", "deny"}]
RequestRec ==
    [phase : {"none", "allocation-intent", "allocation-unknown", "allocated", "blocker-pending", "parked",
              "landed", "ask-pinned", "sufficient", "filed"} \cup Terminal,
     ident : Idents \cup {"none"}, rev : Nat, grooms : Nat, lookups : Nat,
     effect : {"none", "succeeded", "absent"}]
DecisionRec ==
    [phase : {"none", "pending", "write-issued", "native-written", "native-closed", "pins-finished",
              "committed", "invalid"},
     ev : Deciding, rev : Nat, observed : Deciding, tried : SUBSET Deciding]
DispatchRec ==
    [state : {"none", "preparing", "ready", "executing", "held", "uncertain", "succeeded", "failed"},
     claimed : BOOLEAN, launches : Nat, lookups : Nat, evidence : BOOLEAN, settled : BOOLEAN, recovered : BOOLEAN]
KidRec ==
    [n : Nat, state : {"none", "up", "read"}, effect : {"unknown", "succeeded", "absent"}, clean : BOOLEAN]
OutsideRec ==
    [made : Nat, creating : BOOLEAN, native : Deciding, writes : Nat, writing : BOOLEAN,
     proc : {"none", "up", "claimed", "finished", "gone"}, done : Nat, late : BOOLEAN, skew : BOOLEAN]

ActionType ==
    /\ request \in [Requests -> RequestRec] /\ decision \in [Requests -> DecisionRec]
    /\ dispatch \in [Requests -> DispatchRec] /\ kid \in [Requests -> KidRec]
    /\ outside \in [Requests -> OutsideRec]

\* The decision and what stands natively: nothing is written before the write is issued, an event read
\* natively stays, and what is past the write is what stands.
Written == {"native-written", "native-closed", "pins-finished", "committed"}
DecisionTrue(d, w) ==
    /\ w.writes <= 1
    /\ d.phase # "none" => d.ev.v # "none"
    /\ d.phase \in {"none", "pending"} \/ (d.phase = "invalid" /\ d.observed = NoEvent)
           => w.writes = 0 /\ ~w.writing
    /\ d.observed # NoEvent => w.native = d.observed
    /\ d.phase \in Written => w.native = d.ev

\* The dispatch and the process: a launcher that may be started again has done nothing, and a settled
\* dispatch has no process and says whether the effect happened.
DispatchTrue(p, w) ==
    /\ w.done <= 1 /\ (w.proc = "claimed" => w.done = 0)
    /\ p.state \in {"none", "preparing", "ready", "held"} => w.done = 0 /\ w.proc \notin {"claimed", "finished"}
    /\ p.state = "none" => w.proc # "up" /\ ~p.settled
    /\ p.settled => /\ w.proc = "gone" /\ p.state \in {"succeeded", "failed"}
                    /\ w.done = IF p.state = "succeeded" THEN 1 ELSE 0

\* A reconciliation child read what is so, and no launcher is started again while there is one.
KidTrue(p, k, w) ==
    k.state # "none" =>
        /\ p.state \in {"uncertain", "succeeded", "failed"}
        /\ k.state = "read" => (k.clean => w.proc = "gone") /\ (k.effect = "succeeded" => w.done = 1)

\* A dispatch is of a filed request with a committed approval, and the end of a request is of a settled one.
EndsTrue(q, d, p) ==
    /\ p.state # "none" => q.phase \in {"filed", "completed"} /\ d.phase = "committed" /\ d.ev.v = "approve"
    /\ q.phase # "completed" => q.effect = "none"
    /\ q.phase = "completed" => p.settled /\ (q.effect = "succeeded" <=> p.state = "succeeded")

RecordsTrue(q, d, p, k, w) ==
    DecisionTrue(d, w) /\ DispatchTrue(p, w) /\ KidTrue(p, k, w) /\ EndsTrue(q, d, p)

\* The inductive invariant: the records of each request agree, and one request at most holds the resource.
ActionInv ==
    /\ ActionType
    /\ \A r \in Requests : RecordsTrue(request[r], decision[r], dispatch[r], kid[r], outside[r])
    /\ \A r, s \in Requests : Held(r) /\ Held(s) => r = s

------------------------------
(* Every step of the journal or of the world changes the records of one request. *)

\* A step that leaves one request's records true, and takes the resource only when nobody has it, keeps
\* the invariant.
LEMMA OneRequest ==
  ASSUME ActionInv, NEW r \in Requests,
    NEW q \in RequestRec, NEW d \in DecisionRec, NEW p \in DispatchRec, NEW k \in KidRec, NEW w \in OutsideRec,
    request' = [request EXCEPT ![r] = q], decision' = [decision EXCEPT ![r] = d],
    dispatch' = [dispatch EXCEPT ![r] = p], kid' = [kid EXCEPT ![r] = k],
    outside' = [outside EXCEPT ![r] = w],
    RecordsTrue(q, d, p, k, w),
    (p.state # "none" /\ ~p.settled) => (Held(r) \/ \A s \in Requests : ~Held(s))
  PROVE  ActionInv'
<1>1. ActionType' BY DEF ActionInv, ActionType
<1>2. /\ request'[r] = q /\ decision'[r] = d /\ dispatch'[r] = p /\ kid'[r] = k /\ outside'[r] = w
      /\ \A s \in Requests : s # r => /\ request'[s] = request[s] /\ decision'[s] = decision[s]
                                      /\ dispatch'[s] = dispatch[s] /\ kid'[s] = kid[s] /\ outside'[s] = outside[s]
 BY DEF ActionInv, ActionType
<1>3. \A s \in Requests : RecordsTrue(request[s], decision[s], dispatch[s], kid[s], outside[s])'
 <2>1. TAKE s \in Requests
 <2>2. CASE s = r BY <1>2, <2>2
 <2>3. CASE s # r BY <1>2, <2>3 DEF ActionInv
 <2> QED BY <2>2, <2>3
<1>4. \A s, t \in Requests : Held(s)' /\ Held(t)' => s = t BY <1>2 DEF ActionInv, Held
<1> QED BY <1>1, <1>3, <1>4 DEF ActionInv

\* A record that a step leaves alone is the one the request has.
LEMMA Same ==
  ASSUME ActionType, NEW r \in Requests
  PROVE  /\ request[r] \in RequestRec /\ decision[r] \in DecisionRec /\ dispatch[r] \in DispatchRec
         /\ kid[r] \in KidRec /\ outside[r] \in OutsideRec
         /\ request = [request EXCEPT ![r] = request[r]] /\ decision = [decision EXCEPT ![r] = decision[r]]
         /\ dispatch = [dispatch EXCEPT ![r] = dispatch[r]] /\ kid = [kid EXCEPT ![r] = kid[r]]
         /\ outside = [outside EXCEPT ![r] = outside[r]]
BY DEF ActionType

\* A step of the request and the world.
LEMMA RequestStep ==
  ASSUME ActionInv, NEW r \in Requests, NEW q \in RequestRec, NEW w \in OutsideRec,
    request' = [request EXCEPT ![r] = q], outside' = [outside EXCEPT ![r] = w],
    UNCHANGED <<decision, dispatch, kid>>,
    RecordsTrue(q, decision[r], dispatch[r], kid[r], w)
  PROVE  ActionInv'
<1>1. ActionType BY DEF ActionInv
<1>2. (dispatch[r].state # "none" /\ ~dispatch[r].settled) => Held(r) BY DEF Held
<1>3. decision[r] \in DecisionRec /\ dispatch[r] \in DispatchRec /\ kid[r] \in KidRec BY <1>1, Same
<1>4. /\ decision' = [decision EXCEPT ![r] = decision[r]]
      /\ dispatch' = [dispatch EXCEPT ![r] = dispatch[r]]
      /\ kid' = [kid EXCEPT ![r] = kid[r]] BY <1>1, Same
<1> QED BY <1>2, <1>3, <1>4, OneRequest

\* A step of the decision and the world.
LEMMA DecisionStep ==
  ASSUME ActionInv, NEW r \in Requests, NEW d \in DecisionRec, NEW w \in OutsideRec,
    decision' = [decision EXCEPT ![r] = d], outside' = [outside EXCEPT ![r] = w],
    UNCHANGED <<request, dispatch, kid>>,
    RecordsTrue(request[r], d, dispatch[r], kid[r], w)
  PROVE  ActionInv'
<1>1. ActionType BY DEF ActionInv
<1>2. (dispatch[r].state # "none" /\ ~dispatch[r].settled) => Held(r) BY DEF Held
<1>3. request[r] \in RequestRec /\ dispatch[r] \in DispatchRec /\ kid[r] \in KidRec BY <1>1, Same
<1>4. /\ request' = [request EXCEPT ![r] = request[r]]
      /\ dispatch' = [dispatch EXCEPT ![r] = dispatch[r]]
      /\ kid' = [kid EXCEPT ![r] = kid[r]] BY <1>1, Same
<1> QED BY <1>2, <1>3, <1>4, OneRequest

\* A step of the dispatch, its children and the world.
LEMMA DispatchStep ==
  ASSUME ActionInv, NEW r \in Requests, NEW p \in DispatchRec, NEW k \in KidRec, NEW w \in OutsideRec,
    dispatch' = [dispatch EXCEPT ![r] = p], kid' = [kid EXCEPT ![r] = k],
    outside' = [outside EXCEPT ![r] = w],
    UNCHANGED <<request, decision>>,
    RecordsTrue(request[r], decision[r], p, k, w),
    (p.state # "none" /\ ~p.settled) => (Held(r) \/ \A s \in Requests : ~Held(s))
  PROVE  ActionInv'
<1>1. ActionType BY DEF ActionInv
<1> QED BY <1>1, Same, OneRequest

------------------------------
(* The records of one request, whatever the others are. *)

\* A request that is neither filed nor completed has no dispatch, so that any move of it short of
\* completion, or into filing, leaves its records true.
LEMMA RequestMoves ==
  ASSUME NEW q \in RequestRec, NEW d \in DecisionRec, NEW p \in DispatchRec, NEW k \in KidRec, NEW w \in OutsideRec,
    RecordsTrue(q, d, p, k, w), q.phase \notin {"filed", "completed"},
    NEW z \in RequestRec, z.phase # "completed", z.effect = q.effect
  PROVE  RecordsTrue(z, d, p, k, w)
BY DEF RecordsTrue, EndsTrue, RequestRec

\* The shells of the queue are no part of what the records say.
LEMMA ShellsMove ==
  ASSUME NEW q \in RequestRec, NEW d \in DecisionRec, NEW p \in DispatchRec, NEW k \in KidRec, NEW w \in OutsideRec,
    RecordsTrue(q, d, p, k, w), NEW x \in OutsideRec,
    x.native = w.native, x.writes = w.writes, x.writing = w.writing, x.proc = w.proc, x.done = w.done
  PROVE  RecordsTrue(q, d, p, k, x)
BY DEF RecordsTrue, DecisionTrue, DispatchTrue, KidTrue

\* The records of a request in a state of the invariant.
LEMMA RecordsOf ==
  ASSUME ActionInv, NEW r \in Requests
  PROVE  RecordsTrue(request[r], decision[r], dispatch[r], kid[r], outside[r])
BY DEF ActionInv

------------------------------
(* The steps of the request. *)

\* A move of a request that has no dispatch yet, with what it does to the queue's shells.
LEMMA RequestMove ==
  ASSUME ActionInv, NEW r \in Requests, NEW z \in RequestRec, NEW x \in OutsideRec,
    request' = [request EXCEPT ![r] = z], outside' = [outside EXCEPT ![r] = x],
    UNCHANGED <<decision, dispatch, kid>>,
    request[r].phase \notin {"filed", "completed"}, z.phase # "completed", z.effect = request[r].effect,
    x.native = outside[r].native, x.writes = outside[r].writes, x.writing = outside[r].writing,
    x.proc = outside[r].proc, x.done = outside[r].done
  PROVE  ActionInv'
<1>1. ActionType BY DEF ActionInv
<1>2. /\ request[r] \in RequestRec /\ decision[r] \in DecisionRec /\ dispatch[r] \in DispatchRec
      /\ kid[r] \in KidRec /\ outside[r] \in OutsideRec BY <1>1, Same
<1>3. RecordsTrue(request[r], decision[r], dispatch[r], kid[r], outside[r]) BY RecordsOf
<1>4. RecordsTrue(z, decision[r], dispatch[r], kid[r], outside[r]) BY <1>2, <1>3, RequestMoves
<1>5. RecordsTrue(z, decision[r], dispatch[r], kid[r], x) BY <1>2, <1>4, ShellsMove
<1> QED BY <1>5, RequestStep

\* The same where the world is left alone.
LEMMA RequestAlone ==
  ASSUME ActionInv, NEW r \in Requests, NEW z, RequestOnly(r, z), z \in RequestRec, UNCHANGED outside,
    request[r].phase \notin {"filed", "completed"}, z.phase # "completed", z.effect = request[r].effect
  PROVE  ActionInv'
<1>1. ActionType BY DEF ActionInv
<1>2. outside' = [outside EXCEPT ![r] = outside[r]] /\ outside[r] \in OutsideRec BY <1>1, Same
<1>3. request' = [request EXCEPT ![r] = z] /\ UNCHANGED <<decision, dispatch, kid>> BY DEF RequestOnly
<1> QED BY <1>2, <1>3, RequestMove

\* Filing a request, up to its pinned and judged ask, keeps the invariant.
LEMMA FilingSteps ==
  ASSUME ActionInv, NEW r \in Requests,
    \/ \E i \in Idents, f \in InputFlaws : AddRequest(r, i, f)
    \/ IssueAllocation(r)
    \/ \E n \in 0..1 : ObserveAllocation(r, n)
    \/ RecoverAllocation(r)
    \/ ObserveStage(r)
    \/ ObserveSufficient(r)
    \/ ObserveFiled(r)
    \/ \E i \in Idents : Groom(r, i)
  PROVE  ActionInv'
<1>1. ActionType BY DEF ActionInv
<1>2. request[r] \in RequestRec /\ outside[r] \in OutsideRec BY <1>1, Same
<1>3. request[r].phase # "completed" => request[r].effect = "none" BY RecordsOf DEF RecordsTrue, EndsTrue
<1>a. CASE \E i \in Idents, f \in InputFlaws : AddRequest(r, i, f)
 <2>1. PICK i \in Idents, f \in InputFlaws : AddRequest(r, i, f) BY <1>a
 <2>2. PICK z : z = [NoRequest EXCEPT !.phase = "allocation-intent", !.ident = i] OBVIOUS
 <2>3. z \in RequestRec /\ z.phase # "completed" /\ z.effect = "none" BY <2>2 DEF NoRequest, RequestRec
 <2>4. RequestOnly(r, z) /\ UNCHANGED outside /\ request[r].phase = "none" BY <2>1, <2>2 DEF AddRequest, RequestAt
 <2> QED BY <2>3, <2>4, <1>3, RequestAlone
<1>b. CASE IssueAllocation(r)
 <2>1. PICK z : z = [request[r] EXCEPT !.phase = "allocation-unknown"] OBVIOUS
 <2>2. PICK x : x = [outside[r] EXCEPT !.creating = TRUE] OBVIOUS
 <2>3. z \in RequestRec /\ z.phase # "completed" /\ z.effect = request[r].effect BY <1>2, <2>1 DEF RequestRec
 <2>4. /\ x \in OutsideRec /\ x.native = outside[r].native /\ x.writes = outside[r].writes
       /\ x.writing = outside[r].writing /\ x.proc = outside[r].proc /\ x.done = outside[r].done
  BY <1>2, <2>2 DEF OutsideRec
 <2>5. /\ request' = [request EXCEPT ![r] = z] /\ outside' = [outside EXCEPT ![r] = x]
       /\ UNCHANGED <<decision, dispatch, kid>> /\ request[r].phase = "allocation-intent"
  BY <1>b, <2>1, <2>2 DEF IssueAllocation, RequestOnly, RequestAt
 <2> QED BY <2>3, <2>4, <2>5, RequestMove
<1>c. CASE \E n \in 0..1 : ObserveAllocation(r, n)
 <2>1. PICK n \in 0..1 : ObserveAllocation(r, n) BY <1>c
 <2>2. PICK p : p = IF n = 1 THEN "allocated" ELSE request[r].phase OBVIOUS
 <2>3. PICK l \in Nat : l = request[r].lookups + 1 BY <1>2 DEF RequestRec
 <2>4. PICK z : z = [request[r] EXCEPT !.lookups = l, !.phase = p] OBVIOUS
 <2>5. request[r].phase = "allocation-unknown" /\ RequestOnly(r, z) /\ UNCHANGED outside
  BY <1>2, <2>1, <2>2, <2>3, <2>4 DEF ObserveAllocation, RequestAt, RequestRec
 <2>6. z \in RequestRec /\ z.phase # "completed" /\ z.effect = request[r].effect
  BY <1>2, <2>2, <2>4, <2>5 DEF RequestRec
 <2> QED BY <2>5, <2>6, RequestAlone
<1>d. CASE RecoverAllocation(r)
 <2>1. PICK z : z = [request[r] EXCEPT !.phase = "allocated"] OBVIOUS
 <2>2. PICK x : x = [outside[r] EXCEPT !.made = 1] OBVIOUS
 <2>3. z \in RequestRec /\ z.phase # "completed" /\ z.effect = request[r].effect BY <1>2, <2>1 DEF RequestRec
 <2>4. /\ x \in OutsideRec /\ x.native = outside[r].native /\ x.writes = outside[r].writes
       /\ x.writing = outside[r].writing /\ x.proc = outside[r].proc /\ x.done = outside[r].done
  BY <1>2, <2>2 DEF OutsideRec
 <2>5. /\ request' = [request EXCEPT ![r] = z] /\ outside' = [outside EXCEPT ![r] = x]
       /\ UNCHANGED <<decision, dispatch, kid>> /\ request[r].phase = "allocation-unknown"
  BY <1>d, <2>1, <2>2 DEF RecoverAllocation, RequestOnly, RequestAt
 <2> QED BY <2>3, <2>4, <2>5, RequestMove
<1>e. CASE ObserveStage(r)
 <2>1. PICK z : z = [request[r] EXCEPT !.phase = Stage[@]] OBVIOUS
 <2>2. request[r].phase \in {"allocated", "blocker-pending", "parked", "landed"}
  BY <1>e DEF ObserveStage, RequestAt, Stage
 <2>3. Stage[request[r].phase] \in {"blocker-pending", "parked", "landed", "ask-pinned"} BY <2>2 DEF Stage
 <2>4. z \in RequestRec /\ z.phase # "completed" /\ z.effect = request[r].effect BY <1>2, <2>1, <2>3 DEF RequestRec
 <2>5. RequestOnly(r, z) /\ UNCHANGED outside BY <1>e, <2>1 DEF ObserveStage
 <2> QED BY <2>2, <2>4, <2>5, RequestAlone
<1>f. CASE ObserveSufficient(r)
 <2>1. PICK z : z = [request[r] EXCEPT !.phase = "sufficient"] OBVIOUS
 <2>2. z \in RequestRec /\ z.phase # "completed" /\ z.effect = request[r].effect BY <1>2, <2>1 DEF RequestRec
 <2>3. RequestOnly(r, z) /\ UNCHANGED outside /\ request[r].phase = "ask-pinned"
  BY <1>f, <2>1 DEF ObserveSufficient, RequestAt
 <2> QED BY <2>2, <2>3, RequestAlone
<1>g. CASE ObserveFiled(r)
 <2>1. PICK z : z = [request[r] EXCEPT !.phase = "filed"] OBVIOUS
 <2>2. z \in RequestRec /\ z.phase # "completed" /\ z.effect = request[r].effect BY <1>2, <2>1 DEF RequestRec
 <2>3. RequestOnly(r, z) /\ UNCHANGED outside /\ request[r].phase = "sufficient"
  BY <1>g, <2>1 DEF ObserveFiled, RequestAt
 <2> QED BY <2>2, <2>3, RequestAlone
<1>h. CASE \E i \in Idents : Groom(r, i)
 <2>1. PICK i \in Idents : Groom(r, i) BY <1>h
 <2>2. PICK z : z = [request[r] EXCEPT !.phase = "blocker-pending", !.ident = i, !.rev = @ + 1, !.grooms = @ + 1]
  OBVIOUS
 <2>a. PICK m, g \in Nat : m = request[r].rev + 1 /\ g = request[r].grooms + 1 BY <1>2 DEF RequestRec
 <2>b. z = [request[r] EXCEPT !.phase = "blocker-pending", !.ident = i, !.rev = m, !.grooms = g]
  BY <1>2, <2>2, <2>a DEF RequestRec
 <2>3. z \in RequestRec /\ z.phase # "completed" /\ z.effect = request[r].effect BY <1>2, <2>b DEF RequestRec
 <2>4. RequestOnly(r, z) /\ UNCHANGED outside /\ request[r].phase \in {"ask-pinned", "sufficient"}
  BY <2>1, <2>2 DEF Groom, RequestAt
 <2> QED BY <2>3, <2>4, RequestAlone
<1>i. QED BY <1>a, <1>b, <1>c, <1>d, <1>e, <1>f, <1>g, <1>h

------------------------------
(* The steps of the decision. *)

\* A move of a decision that is not committed: the request has no dispatch yet, so that only what the
\* decision says of the native one counts.
LEMMA DecisionMove ==
  ASSUME ActionInv, NEW r \in Requests, NEW z \in DecisionRec, NEW x \in OutsideRec,
    decision' = [decision EXCEPT ![r] = z], outside' = [outside EXCEPT ![r] = x],
    UNCHANGED <<request, dispatch, kid>>,
    decision[r].phase # "committed", DecisionTrue(z, x), x.proc = outside[r].proc, x.done = outside[r].done
  PROVE  ActionInv'
<1>1. RecordsTrue(request[r], decision[r], dispatch[r], kid[r], outside[r]) BY RecordsOf
<1>2. dispatch[r].state = "none" BY <1>1 DEF RecordsTrue, EndsTrue
<1>3. DispatchTrue(dispatch[r], x) /\ KidTrue(dispatch[r], kid[r], x) BY <1>1 DEF RecordsTrue, DispatchTrue, KidTrue
<1>4. EndsTrue(request[r], z, dispatch[r]) BY <1>1, <1>2 DEF RecordsTrue, EndsTrue
<1>5. RecordsTrue(request[r], z, dispatch[r], kid[r], x) BY <1>3, <1>4 DEF RecordsTrue
<1> QED BY <1>5, DecisionStep

\* The same where the world is left alone.
LEMMA DecisionAlone ==
  ASSUME ActionInv, NEW r \in Requests, NEW z, DecisionOnly(r, z), z \in DecisionRec, UNCHANGED outside,
    decision[r].phase # "committed", DecisionTrue(z, outside[r])
  PROVE  ActionInv'
<1>1. ActionType BY DEF ActionInv
<1>2. outside' = [outside EXCEPT ![r] = outside[r]] /\ outside[r] \in OutsideRec BY <1>1, Same
<1>3. decision' = [decision EXCEPT ![r] = z] /\ UNCHANGED <<request, dispatch, kid>> BY DEF DecisionOnly
<1> QED BY <1>2, <1>3, DecisionMove

\* Deciding about a request, from the event to the commit, keeps the invariant.
LEMMA DecisionSteps ==
  ASSUME ActionInv, NEW r \in Requests,
    \/ \E v \in {"approve", "deny"}, i \in EventIds(r) : BeginDecision(r, [id |-> i, v |-> v])
    \/ IssueDecision(r)
    \/ ReadDecision(r)
    \/ FinalizeDecision(r)
    \/ InvalidateDecision(r)
  PROVE  ActionInv'
<1>1. ActionType BY DEF ActionInv
<1>2. /\ request[r] \in RequestRec /\ decision[r] \in DecisionRec /\ outside[r] \in OutsideRec
      /\ request[r].rev \in Nat BY <1>1, Same DEF RequestRec
<1>3. DecisionTrue(decision[r], outside[r]) BY RecordsOf DEF RecordsTrue
<1>a. CASE \E v \in {"approve", "deny"}, i \in EventIds(r) : BeginDecision(r, [id |-> i, v |-> v])
 <2>1. PICK v \in {"approve", "deny"}, i \in EventIds(r) : BeginDecision(r, [id |-> i, v |-> v]) BY <1>a
 <2>2. PICK e : e = [id |-> i, v |-> v] OBVIOUS
 <2>3. i \in {1, 2} BY DEF EventIds
 <2>4. e \in Deciding /\ e.v # "none" BY <2>2, <2>3 DEF Deciding
 <2>5. PICK old : old = decision[r] OBVIOUS
 <2>6. PICK n : n = request[r].rev OBVIOUS
 <2>7. PICK fresh : fresh = [old EXCEPT !.phase = "pending", !.ev = e, !.rev = n] OBVIOUS
 <2>8. /\ fresh \in DecisionRec /\ fresh.phase = "pending" /\ fresh.ev = e /\ fresh.observed = old.observed
  BY <1>2, <2>4, <2>5, <2>6, <2>7 DEF DecisionRec
 <2>9. /\ UNCHANGED outside
       /\ \/ old.phase = "none" /\ DecisionOnly(r, fresh)
          \/ old.phase = "invalid" /\ old.observed = NoEvent /\ DecisionOnly(r, fresh)
          \/ old.phase = "invalid" /\ old.observed = e /\ DecisionOnly(r, [fresh EXCEPT !.phase = "native-written"])
  BY <2>1, <2>2, <2>5, <2>6, <2>7 DEF BeginDecision
 <2>10. CASE (old.phase = "none" \/ (old.phase = "invalid" /\ old.observed = NoEvent)) /\ DecisionOnly(r, fresh)
  <3>1. DecisionTrue(fresh, outside[r]) BY <1>3, <2>4, <2>5, <2>8, <2>10 DEF DecisionTrue, Written
  <3> QED BY <3>1, <2>5, <2>8, <2>9, <2>10, DecisionAlone
 <2>11. CASE old.phase = "invalid" /\ old.observed = e /\ DecisionOnly(r, [fresh EXCEPT !.phase = "native-written"])
  <3>1. PICK z : z = [fresh EXCEPT !.phase = "native-written"] OBVIOUS
  <3>2. z \in DecisionRec /\ z.phase = "native-written" /\ z.ev = e /\ z.observed = e
   BY <3>1, <2>8, <2>11 DEF DecisionRec
  <3>3. e # NoEvent BY <2>4 DEF NoEvent
  <3>4. DecisionTrue(z, outside[r]) BY <1>3, <2>4, <2>5, <2>11, <3>2, <3>3 DEF DecisionTrue, Written
  <3> QED BY <3>1, <3>2, <3>4, <2>5, <2>9, <2>11, DecisionAlone
 <2> QED BY <2>9, <2>10, <2>11
<1>b. CASE IssueDecision(r)
 <2>1. PICK z : z = [decision[r] EXCEPT !.phase = "write-issued"] OBVIOUS
 <2>2. decision[r].phase = "pending" BY <1>b DEF IssueDecision
 <2>3. outside[r].writes = 0 BY <1>3, <2>2 DEF DecisionTrue
 <2>4. PICK x : x = [outside[r] EXCEPT !.writes = 1, !.writing = TRUE] OBVIOUS
 <2>5. /\ decision' = [decision EXCEPT ![r] = z] /\ UNCHANGED <<request, dispatch, kid>>
  BY <1>b, <2>1 DEF IssueDecision, DecisionOnly
 <2>6. outside' = [outside EXCEPT ![r] = x]
  <3>1. outside' = [outside EXCEPT ![r].writes = @ + 1, ![r].writing = TRUE] BY <1>b DEF IssueDecision
  <3>2. PICK o \in [Requests -> OutsideRec] : o = outside BY <1>1 DEF ActionType
  <3>3. outside' = [o EXCEPT ![r].writes = @ + 1, ![r].writing = TRUE] /\ o[r].writes + 1 = 1 BY <3>1, <3>2, <2>3
  <3>4. x = [o[r] EXCEPT !.writes = o[r].writes + 1, !.writing = TRUE] BY <2>4, <3>2, <3>3
  <3> QED BY <3>2, <3>3, <3>4 DEF OutsideRec
 <2>7. /\ z \in DecisionRec /\ z.phase = "write-issued" /\ z.ev = decision[r].ev
       /\ z.observed = decision[r].observed BY <1>2, <2>1 DEF DecisionRec
 <2>8. /\ x \in OutsideRec /\ x.native = outside[r].native /\ x.writes = 1
       /\ x.proc = outside[r].proc /\ x.done = outside[r].done BY <1>2, <2>4 DEF OutsideRec
 <2>9. DecisionTrue(z, x) BY <1>3, <2>2, <2>7, <2>8 DEF DecisionTrue, Written
 <2> QED BY <2>2, <2>5, <2>6, <2>7, <2>8, <2>9, DecisionMove
<1>c. CASE ReadDecision(r)
 <2>1. PICK z : z = [decision[r] EXCEPT !.phase = "native-written"] OBVIOUS
 <2>2. /\ z \in DecisionRec /\ z.phase = "native-written" /\ z.ev = decision[r].ev
       /\ z.observed = decision[r].observed BY <1>2, <2>1 DEF DecisionRec
 <2>3. /\ decision[r].phase = "write-issued" /\ outside[r].native = decision[r].ev
       /\ DecisionOnly(r, z) /\ UNCHANGED outside BY <1>c, <2>1 DEF ReadDecision
 <2>4. DecisionTrue(z, outside[r]) BY <1>3, <2>2, <2>3 DEF DecisionTrue, Written
 <2> QED BY <2>2, <2>3, <2>4, DecisionAlone
<1>d. CASE FinalizeDecision(r)
 <2>1. PICK z : z = [decision[r] EXCEPT !.phase = Finalize[@]] OBVIOUS
 <2>2. decision[r].phase \in {"native-written", "native-closed", "pins-finished"}
  BY <1>d DEF FinalizeDecision, Finalize
 <2>3. Finalize[decision[r].phase] \in {"native-closed", "pins-finished", "committed"} BY <2>2 DEF Finalize
 <2>4. /\ z \in DecisionRec /\ z.phase \in {"native-closed", "pins-finished", "committed"}
       /\ z.ev = decision[r].ev /\ z.observed = decision[r].observed BY <1>2, <2>1, <2>3 DEF DecisionRec
 <2>5. outside[r].native = decision[r].ev /\ DecisionOnly(r, z) /\ UNCHANGED outside
  BY <1>d, <2>1 DEF FinalizeDecision
 <2>6. DecisionTrue(z, outside[r]) BY <1>3, <2>2, <2>4, <2>5 DEF DecisionTrue, Written
 <2> QED BY <2>2, <2>4, <2>5, <2>6, DecisionAlone
<1>e. CASE InvalidateDecision(r)
 <2>1. PICK t : t = decision[r].tried \union {decision[r].ev} OBVIOUS
 <2>2. t \in SUBSET Deciding BY <1>2, <2>1 DEF DecisionRec
 <2>3. PICK b : b = outside[r].native OBVIOUS
 <2>4. b \in Deciding BY <1>2, <2>3 DEF OutsideRec
 <2>5. PICK y : y = [decision[r] EXCEPT !.phase = "invalid", !.tried = t] OBVIOUS
 <2>6. PICK z : z = [decision[r] EXCEPT !.phase = "invalid", !.observed = b, !.tried = t] OBVIOUS
 <2>7. /\ y \in DecisionRec /\ y.phase = "invalid" /\ y.ev = decision[r].ev /\ y.observed = decision[r].observed
  BY <1>2, <2>2, <2>5 DEF DecisionRec
 <2>8. /\ z \in DecisionRec /\ z.phase = "invalid" /\ z.ev = decision[r].ev /\ z.observed = b
  BY <1>2, <2>2, <2>4, <2>6 DEF DecisionRec
 <2>9. /\ UNCHANGED outside
       /\ \/ decision[r].phase = "pending" /\ DecisionOnly(r, y)
          \/ decision[r].phase = "write-issued" /\ b # NoEvent /\ DecisionOnly(r, z)
  BY <1>e, <1>2, <2>1, <2>3, <2>5, <2>6 DEF InvalidateDecision, DecisionRec
 <2>10. CASE decision[r].phase = "pending" /\ DecisionOnly(r, y)
  <3>1. DecisionTrue(y, outside[r]) BY <1>3, <2>7, <2>10 DEF DecisionTrue, Written
  <3> QED BY <3>1, <2>7, <2>9, <2>10, DecisionAlone
 <2>11. CASE decision[r].phase = "write-issued" /\ b # NoEvent /\ DecisionOnly(r, z)
  <3>1. DecisionTrue(z, outside[r]) BY <1>3, <2>3, <2>8, <2>11 DEF DecisionTrue, Written
  <3> QED BY <3>1, <2>8, <2>9, <2>11, DecisionAlone
 <2> QED BY <2>9, <2>10, <2>11
<1>f. QED BY <1>a, <1>b, <1>c, <1>d, <1>e

------------------------------
(* The steps of the dispatch and its children. *)

\* A move of a dispatch that holds the resource: its request is filed and its approval is committed.
LEMMA DispatchMove ==
  ASSUME ActionInv, NEW r \in Requests, NEW p \in DispatchRec, NEW k \in KidRec, NEW x \in OutsideRec,
    dispatch' = [dispatch EXCEPT ![r] = p], kid' = [kid EXCEPT ![r] = k],
    outside' = [outside EXCEPT ![r] = x], UNCHANGED <<request, decision>>,
    x.native = outside[r].native, x.writes = outside[r].writes, x.writing = outside[r].writing,
    dispatch[r].state # "none", ~dispatch[r].settled, p.state # "none",
    DispatchTrue(p, x), KidTrue(p, k, x)
  PROVE  ActionInv'
<1>1. RecordsTrue(request[r], decision[r], dispatch[r], kid[r], outside[r]) BY RecordsOf
<1>2. DecisionTrue(decision[r], x) BY <1>1 DEF RecordsTrue, DecisionTrue
<1>3. EndsTrue(request[r], decision[r], p) BY <1>1 DEF RecordsTrue, EndsTrue
<1>4. RecordsTrue(request[r], decision[r], p, k, x) BY <1>2, <1>3 DEF RecordsTrue
<1>5. Held(r) BY DEF Held
<1> QED BY <1>4, <1>5, DispatchStep

\* The same where the children and the world are left alone.
LEMMA DispatchAlone ==
  ASSUME ActionInv, NEW r \in Requests, NEW p, DispatchOnly(r, p), p \in DispatchRec, UNCHANGED <<kid, outside>>,
    dispatch[r].state # "none", ~dispatch[r].settled, p.state # "none",
    DispatchTrue(p, outside[r]), KidTrue(p, kid[r], outside[r])
  PROVE  ActionInv'
<1>1. ActionType BY DEF ActionInv
<1>2. /\ outside' = [outside EXCEPT ![r] = outside[r]] /\ outside[r] \in OutsideRec
      /\ kid' = [kid EXCEPT ![r] = kid[r]] /\ kid[r] \in KidRec BY <1>1, Same
<1>3. dispatch' = [dispatch EXCEPT ![r] = p] /\ UNCHANGED <<request, decision>> BY DEF DispatchOnly
<1> QED BY <1>2, <1>3, DispatchMove

\* A move of a child.
LEMMA KidMove ==
  ASSUME ActionInv, NEW r \in Requests, NEW k \in KidRec, kid' = [kid EXCEPT ![r] = k],
    UNCHANGED <<request, decision, dispatch, outside>>, KidTrue(dispatch[r], k, outside[r])
  PROVE  ActionInv'
<1>1. ActionType BY DEF ActionInv
<1>2. /\ outside' = [outside EXCEPT ![r] = outside[r]] /\ outside[r] \in OutsideRec
      /\ dispatch' = [dispatch EXCEPT ![r] = dispatch[r]] /\ dispatch[r] \in DispatchRec BY <1>1, Same
<1>3. RecordsTrue(request[r], decision[r], dispatch[r], k, outside[r]) BY RecordsOf DEF RecordsTrue
<1>4. dispatch[r].state # "none" /\ ~dispatch[r].settled => Held(r) BY DEF Held
<1> QED BY <1>2, <1>3, <1>4, DispatchStep

\* Taking the resource: nobody holds it, and nothing of the new dispatch has run.
LEMMA AddDispatchStep ==
  ASSUME ActionInv, NEW r \in Requests, AddDispatch(r)
  PROVE  ActionInv'
<1>1. ActionType BY DEF ActionInv
<1>2. kid[r] \in KidRec /\ outside[r] \in OutsideRec /\ kid' = [kid EXCEPT ![r] = kid[r]]
 BY <1>1, Same DEF AddDispatch
<1>3. RecordsTrue(request[r], decision[r], dispatch[r], kid[r], outside[r]) BY RecordsOf
<1>4. PICK p : p = [NoDispatch EXCEPT !.state = "preparing", !.launches = 1] OBVIOUS
<1>5. PICK x : x = [outside[r] EXCEPT !.proc = "up", !.late = FALSE] OBVIOUS
<1>6. p \in DispatchRec /\ p.state = "preparing" /\ p.settled = FALSE BY <1>4 DEF NoDispatch, DispatchRec
<1>7. /\ x \in OutsideRec /\ x.native = outside[r].native /\ x.writes = outside[r].writes
      /\ x.writing = outside[r].writing /\ x.done = outside[r].done /\ x.proc = "up" BY <1>2, <1>5 DEF OutsideRec
<1>8. /\ dispatch[r].state = "none" /\ request[r].phase = "filed"
      /\ decision[r].phase = "committed" /\ decision[r].ev.v = "approve" /\ \A s \in Requests : ~Held(s)
      /\ dispatch' = [dispatch EXCEPT ![r] = p] /\ UNCHANGED <<request, decision>>
 BY <1>4 DEF AddDispatch, DispatchOnly, RequestAt
<1>9. outside' = [outside EXCEPT ![r] = x] BY <1>1, <1>5 DEF AddDispatch, ActionType, OutsideRec
<1>10. DecisionTrue(decision[r], x) /\ DispatchTrue(p, x) /\ KidTrue(p, kid[r], x)
 BY <1>3, <1>6, <1>7, <1>8 DEF RecordsTrue, DecisionTrue, DispatchTrue, KidTrue
<1>11. EndsTrue(request[r], decision[r], p) BY <1>3, <1>6, <1>8 DEF RecordsTrue, EndsTrue
<1>12. RecordsTrue(request[r], decision[r], p, kid[r], x) BY <1>10, <1>11 DEF RecordsTrue
<1> QED BY <1>2, <1>6, <1>7, <1>8, <1>9, <1>12, DispatchStep

\* Launching, claiming, retiring and starting again keep the invariant.
LEMMA LaunchSteps ==
  ASSUME ActionInv, NEW r \in Requests,
    \/ Ready(r)
    \/ \E h \in BOOLEAN : ConsumeClaim(r, h)
    \/ RetireLauncher(r)
    \/ RestartPreparation(r)
    \/ MarkUncertain(r)
  PROVE  ActionInv'
<1>1. ActionType BY DEF ActionInv
<1>2. /\ dispatch[r] \in DispatchRec /\ kid[r] \in KidRec /\ outside[r] \in OutsideRec
      /\ kid = [kid EXCEPT ![r] = kid[r]] BY <1>1, Same
<1>3. DispatchTrue(dispatch[r], outside[r]) /\ KidTrue(dispatch[r], kid[r], outside[r]) BY RecordsOf DEF RecordsTrue
<1>a. CASE Ready(r)
 <2>1. PICK p : p = [dispatch[r] EXCEPT !.state = "ready"] OBVIOUS
 <2>2. p \in DispatchRec /\ p.state = "ready" /\ p.settled = dispatch[r].settled BY <1>2, <2>1 DEF DispatchRec
 <2>3. /\ dispatch[r].state = "preparing" /\ DispatchOnly(r, p) /\ UNCHANGED <<kid, outside>> BY <1>a, <2>1 DEF Ready
 <2>4. ~dispatch[r].settled BY <1>3, <2>3 DEF DispatchTrue
 <2>5. DispatchTrue(p, outside[r]) /\ KidTrue(p, kid[r], outside[r])
  BY <1>3, <2>2, <2>3, <2>4 DEF DispatchTrue, KidTrue
 <2> QED BY <2>2, <2>3, <2>4, <2>5, DispatchAlone
<1>b. CASE \E h \in BOOLEAN : ConsumeClaim(r, h)
 <2>1. PICK h \in BOOLEAN : ConsumeClaim(r, h) BY <1>b
 <2>2. PICK p : p = [dispatch[r] EXCEPT !.state = "executing", !.claimed = TRUE] OBVIOUS
 <2>3. p \in DispatchRec /\ p.state = "executing" /\ p.settled = dispatch[r].settled BY <1>2, <2>2 DEF DispatchRec
 <2>4. /\ dispatch[r].state = "ready" /\ outside[r].proc = "up" /\ DispatchOnly(r, p) /\ UNCHANGED kid
       /\ outside' = IF h THEN [outside EXCEPT ![r].proc = "claimed"] ELSE outside BY <2>1, <2>2 DEF ConsumeClaim
 <2>5. ~dispatch[r].settled BY <1>3, <2>4 DEF DispatchTrue
 <2>6. CASE h
  <3>1. PICK x : x = [outside[r] EXCEPT !.proc = "claimed"] OBVIOUS
  <3>2. outside' = [outside EXCEPT ![r] = x] BY <2>4, <2>6, <3>1
  <3>3. /\ x \in OutsideRec /\ x.native = outside[r].native /\ x.writes = outside[r].writes
        /\ x.writing = outside[r].writing /\ x.done = outside[r].done /\ x.proc = "claimed"
   BY <1>2, <3>1 DEF OutsideRec
  <3>4. DispatchTrue(p, x) /\ KidTrue(p, kid[r], x) BY <1>3, <2>3, <2>4, <2>5, <3>3 DEF DispatchTrue, KidTrue
  <3>5. dispatch' = [dispatch EXCEPT ![r] = p] /\ UNCHANGED <<request, decision>> BY <2>4 DEF DispatchOnly
  <3> QED BY <1>2, <2>3, <2>4, <2>5, <3>2, <3>3, <3>4, <3>5, DispatchMove
 <2>7. CASE ~h
  <3>1. UNCHANGED <<kid, outside>> BY <2>4, <2>7
  <3>2. DispatchTrue(p, outside[r]) /\ KidTrue(p, kid[r], outside[r])
   BY <1>3, <2>3, <2>4, <2>5 DEF DispatchTrue, KidTrue
  <3> QED BY <2>3, <2>4, <2>5, <3>1, <3>2, DispatchAlone
 <2> QED BY <2>6, <2>7
<1>c. CASE RetireLauncher(r)
 <2>1. PICK p : p = [dispatch[r] EXCEPT !.state = "held"] OBVIOUS
 <2>2. p \in DispatchRec /\ p.state = "held" /\ p.settled = dispatch[r].settled BY <1>2, <2>1 DEF DispatchRec
 <2>3. /\ dispatch[r].state \in {"preparing", "ready"} /\ DispatchOnly(r, p) /\ UNCHANGED <<kid, outside>>
  BY <1>c, <2>1 DEF RetireLauncher
 <2>4. ~dispatch[r].settled BY <1>3, <2>3 DEF DispatchTrue
 <2>5. DispatchTrue(p, outside[r]) /\ KidTrue(p, kid[r], outside[r])
  BY <1>3, <2>2, <2>3, <2>4 DEF DispatchTrue, KidTrue
 <2> QED BY <2>2, <2>3, <2>4, <2>5, DispatchAlone
<1>d. CASE RestartPreparation(r)
 <2>1. PICK n \in Nat : n = dispatch[r].launches + 1 BY <1>2 DEF DispatchRec
 <2>2. PICK p : p = [dispatch[r] EXCEPT !.state = "preparing", !.launches = n] OBVIOUS
 <2>3. p \in DispatchRec /\ p.state = "preparing" /\ p.settled = dispatch[r].settled BY <1>2, <2>2 DEF DispatchRec
 <2>4. PICK x : x = [outside[r] EXCEPT !.proc = "up"] OBVIOUS
 <2>5. /\ x \in OutsideRec /\ x.native = outside[r].native /\ x.writes = outside[r].writes
       /\ x.writing = outside[r].writing /\ x.done = outside[r].done /\ x.proc = "up" BY <1>2, <2>4 DEF OutsideRec
 <2>6. /\ dispatch[r].state = "held" /\ ~dispatch[r].settled /\ UNCHANGED <<request, decision, kid>>
       /\ dispatch' = [dispatch EXCEPT ![r] = [dispatch[r] EXCEPT !.state = "preparing", !.launches = @ + 1]]
       /\ outside' = [outside EXCEPT ![r].proc = "up"] BY <1>d DEF RestartPreparation, DispatchOnly
 <2>7. dispatch' = [dispatch EXCEPT ![r] = p] /\ outside' = [outside EXCEPT ![r] = x]
  BY <1>2, <2>1, <2>2, <2>4, <2>6 DEF DispatchRec
 <2>8. DispatchTrue(p, x) /\ KidTrue(p, kid[r], x) BY <1>3, <2>3, <2>5, <2>6 DEF DispatchTrue, KidTrue
 <2> QED BY <1>2, <2>3, <2>5, <2>6, <2>7, <2>8, DispatchMove
<1>e. CASE MarkUncertain(r)
 <2>1. PICK p : p = [dispatch[r] EXCEPT !.state = "uncertain"] OBVIOUS
 <2>2. p \in DispatchRec /\ p.state = "uncertain" /\ p.settled = dispatch[r].settled BY <1>2, <2>1 DEF DispatchRec
 <2>3. /\ dispatch[r].state \in {"ready", "executing"} /\ ~dispatch[r].settled
       /\ DispatchOnly(r, p) /\ UNCHANGED <<kid, outside>> BY <1>e, <2>1 DEF MarkUncertain
 <2>4. DispatchTrue(p, outside[r]) /\ KidTrue(p, kid[r], outside[r]) BY <1>3, <2>2, <2>3 DEF DispatchTrue, KidTrue
 <2> QED BY <2>2, <2>3, <2>4, DispatchAlone
<1>f. QED BY <1>a, <1>b, <1>c, <1>d, <1>e

\* A report settles only what succeeded and is gone, whatever a child is reading.
LEMMA ReportStep ==
  ASSUME ActionInv, NEW r \in Requests, NEW e \in {"succeeded", "absent", "unknown"}, NEW v \in BOOLEAN,
    Report(r, e, v)
  PROVE  ActionInv'
<1>1. ActionType BY DEF ActionInv
<1>2. dispatch[r] \in DispatchRec /\ kid[r] \in KidRec /\ outside[r] \in OutsideRec BY <1>1, Same
<1>3. DispatchTrue(dispatch[r], outside[r]) /\ KidTrue(dispatch[r], kid[r], outside[r]) BY RecordsOf DEF RecordsTrue
<1>4. PICK d : d = [dispatch[r] EXCEPT !.evidence = v] OBVIOUS
<1>5. d \in DispatchRec /\ d.state = dispatch[r].state /\ d.settled = dispatch[r].settled
 BY <1>2, <1>4 DEF DispatchRec
<1>6. /\ ~dispatch[r].settled /\ dispatch[r].state \in {"executing", "uncertain"} /\ Sees(r, e)
      /\ UNCHANGED <<kid, outside>> BY DEF Report
<1>7. \/ e = "succeeded" /\ v /\ Clean(r) /\ DispatchOnly(r, [d EXCEPT !.state = "succeeded", !.settled = TRUE])
      \/ DispatchOnly(r, [d EXCEPT !.state = "failed"])
      \/ DispatchOnly(r, [d EXCEPT !.state = "uncertain"]) BY <1>4 DEF Report
<1>8. CASE e = "succeeded" /\ v /\ Clean(r) /\ DispatchOnly(r, [d EXCEPT !.state = "succeeded", !.settled = TRUE])
 <2>1. PICK p : p = [d EXCEPT !.state = "succeeded", !.settled = TRUE] OBVIOUS
 <2>2. p \in DispatchRec /\ p.state = "succeeded" /\ p.settled = TRUE BY <1>5, <2>1 DEF DispatchRec
 <2>3. outside[r].proc = "gone" /\ outside[r].done = 1 BY <1>6, <1>8 DEF Sees, Clean
 <2>4. DispatchTrue(p, outside[r]) /\ KidTrue(p, kid[r], outside[r]) BY <1>3, <2>2, <2>3 DEF DispatchTrue, KidTrue
 <2> QED BY <1>6, <1>8, <2>1, <2>2, <2>4, DispatchAlone
<1>9. CASE DispatchOnly(r, [d EXCEPT !.state = "failed"])
 <2>1. PICK p : p = [d EXCEPT !.state = "failed"] OBVIOUS
 <2>2. p \in DispatchRec /\ p.state = "failed" /\ p.settled = dispatch[r].settled BY <1>5, <2>1 DEF DispatchRec
 <2>3. DispatchTrue(p, outside[r]) /\ KidTrue(p, kid[r], outside[r]) BY <1>3, <1>6, <2>2 DEF DispatchTrue, KidTrue
 <2> QED BY <1>6, <1>9, <2>1, <2>2, <2>3, DispatchAlone
<1>10. CASE DispatchOnly(r, [d EXCEPT !.state = "uncertain"])
 <2>1. PICK p : p = [d EXCEPT !.state = "uncertain"] OBVIOUS
 <2>2. p \in DispatchRec /\ p.state = "uncertain" /\ p.settled = dispatch[r].settled BY <1>5, <2>1 DEF DispatchRec
 <2>3. DispatchTrue(p, outside[r]) /\ KidTrue(p, kid[r], outside[r]) BY <1>3, <1>6, <2>2 DEF DispatchTrue, KidTrue
 <2> QED BY <1>6, <1>10, <2>1, <2>2, <2>3, DispatchAlone
<1> QED BY <1>7, <1>8, <1>9, <1>10

\* A child is started where no launcher can be started again, and reads what is so.
LEMMA ChildSteps ==
  ASSUME ActionInv, NEW r \in Requests,
    \/ AddReconciliation(r)
    \/ \E e \in {"succeeded", "absent", "unknown"} : FinishReconciliation(r, e)
  PROVE  ActionInv'
<1>1. ActionType BY DEF ActionInv
<1>2. kid[r] \in KidRec /\ kid[r].n \in Nat /\ kid[r].n + 1 \in Nat BY <1>1, Same DEF KidRec
<1>3. KidTrue(dispatch[r], kid[r], outside[r]) BY RecordsOf DEF RecordsTrue
<1>a. CASE AddReconciliation(r)
 <2>1. PICK n \in Nat : n = kid[r].n + 1 BY <1>2
 <2>2. PICK k : k = [NoKid EXCEPT !.n = n, !.state = "up"] OBVIOUS
 <2>3. k \in KidRec /\ k.state = "up" BY <2>2 DEF NoKid, KidRec
 <2>4. /\ kid' = [kid EXCEPT ![r] = k] /\ UNCHANGED <<request, decision, dispatch, outside>>
       /\ dispatch[r].state \in {"uncertain", "failed"} BY <1>a, <2>1, <2>2 DEF AddReconciliation
 <2>5. KidTrue(dispatch[r], k, outside[r]) BY <2>3, <2>4 DEF KidTrue
 <2> QED BY <2>3, <2>4, <2>5, KidMove
<1>b. CASE \E e \in {"succeeded", "absent", "unknown"} : FinishReconciliation(r, e)
 <2>1. PICK e \in {"succeeded", "absent", "unknown"} : FinishReconciliation(r, e) BY <1>b
 <2>2. PICK c \in BOOLEAN : c = Clean(r) BY DEF Clean
 <2>3. PICK k : k = [kid[r] EXCEPT !.state = "read", !.effect = e, !.clean = c] OBVIOUS
 <2>4. k \in KidRec /\ k.state = "read" /\ k.effect = e /\ k.clean = c BY <1>2, <2>3 DEF KidRec
 <2>5. /\ kid' = [kid EXCEPT ![r].state = "read", ![r].effect = e, ![r].clean = c]
       /\ UNCHANGED <<request, decision, dispatch, outside>> /\ kid[r].state = "up" /\ Sees(r, e)
  BY <2>1, <2>2 DEF FinishReconciliation
 <2>6. kid' = [kid EXCEPT ![r] = k] BY <1>1, <2>3, <2>5 DEF ActionType, KidRec
 <2>7. KidTrue(dispatch[r], k, outside[r]) BY <1>3, <2>2, <2>4, <2>5 DEF KidTrue, Sees, Clean
 <2> QED BY <2>4, <2>5, <2>6, <2>7, KidMove
<1>c. QED BY <1>a, <1>b

\* A child's reading settles only a success whose process is gone.
LEMMA LookupStep ==
  ASSUME ActionInv, NEW r \in Requests, ReconcileLookup(r)
  PROVE  ActionInv'
<1>1. ActionType BY DEF ActionInv
<1>2. /\ dispatch[r] \in DispatchRec /\ kid[r] \in KidRec /\ outside[r] \in OutsideRec
      /\ outside = [outside EXCEPT ![r] = outside[r]] BY <1>1, Same
<1>3. DispatchTrue(dispatch[r], outside[r]) /\ KidTrue(dispatch[r], kid[r], outside[r]) BY RecordsOf DEF RecordsTrue
<1>4. PICK n \in Nat : n = dispatch[r].lookups + 1 BY <1>2 DEF DispatchRec
<1>5. PICK d : d = [dispatch[r] EXCEPT !.lookups = n] OBVIOUS
<1>6. d \in DispatchRec /\ d.state = dispatch[r].state /\ d.settled = dispatch[r].settled
 BY <1>2, <1>5 DEF DispatchRec
<1>7. PICK k : k = [kid[r] EXCEPT !.state = "none"] OBVIOUS
<1>8. k \in KidRec /\ k.state = "none" BY <1>2, <1>7 DEF KidRec
<1>9. /\ kid[r].state = "read" /\ dispatch[r].state \in {"uncertain", "failed"} /\ ~dispatch[r].settled
      /\ kid' = [kid EXCEPT ![r] = k] /\ UNCHANGED <<request, decision, outside>> BY <1>7 DEF ReconcileLookup
<1>a. PICK u : u = [d EXCEPT !.state = "succeeded", !.settled = TRUE, !.evidence = TRUE] OBVIOUS
<1>b. PICK f : f = [d EXCEPT !.state = "failed", !.evidence = TRUE] OBVIOUS
<1>c. PICK g : g = [d EXCEPT !.evidence = TRUE] OBVIOUS
<1>d. dispatch' = [dispatch EXCEPT ![r] =
          IF kid[r].effect = "succeeded" /\ ~d.claimed THEN d
          ELSE IF kid[r].effect = "succeeded" /\ kid[r].clean THEN u
          ELSE IF d.state = "failed" THEN d
          ELSE IF kid[r].effect = "absent" /\ kid[r].clean THEN f
          ELSE g] BY <1>4, <1>5, <1>a, <1>b, <1>c DEF ReconcileLookup
<1>e. PICK p : p = IF kid[r].effect = "succeeded" /\ ~d.claimed THEN d
                     ELSE IF kid[r].effect = "succeeded" /\ kid[r].clean THEN u
                     ELSE IF d.state = "failed" THEN d
                     ELSE IF kid[r].effect = "absent" /\ kid[r].clean THEN f
                     ELSE g
 OBVIOUS
<1>10. /\ dispatch' = [dispatch EXCEPT ![r] = p]
       /\ \/ p = d \/ p = f \/ p = g
          \/ p = u /\ kid[r].effect = "succeeded" /\ kid[r].clean BY <1>d, <1>e
<1>11. /\ p \in DispatchRec
       /\ \/ p.state \in {"uncertain", "failed"} /\ p.settled = dispatch[r].settled
          \/ p.state = "succeeded" /\ p.settled = TRUE /\ kid[r].effect = "succeeded" /\ kid[r].clean
 BY <1>6, <1>9, <1>10, <1>a, <1>b, <1>c DEF DispatchRec
<1>12. DispatchTrue(p, outside[r])
 <2>1. CASE p.state \in {"uncertain", "failed"} /\ p.settled = dispatch[r].settled
  BY <1>3, <1>9, <2>1 DEF DispatchTrue
 <2>2. CASE p.state = "succeeded" /\ p.settled = TRUE /\ kid[r].effect = "succeeded" /\ kid[r].clean
  BY <1>3, <1>9, <2>2 DEF DispatchTrue, KidTrue
 <2> QED BY <1>11, <2>1, <2>2
<1>13. KidTrue(p, k, outside[r]) /\ p.state # "none" /\ dispatch[r].state # "none" BY <1>8, <1>9, <1>11 DEF KidTrue
<1> QED BY <1>2, <1>8, <1>9, <1>10, <1>11, <1>12, <1>13, DispatchMove

\* The operator's attestation is of a process that is gone.
LEMMA AttestStep ==
  ASSUME ActionInv, NEW r \in Requests, SettleDispatch(r)
  PROVE  ActionInv'
<1>1. ActionType BY DEF ActionInv
<1>2. dispatch[r] \in DispatchRec /\ outside[r] \in OutsideRec /\ outside[r].done \in Nat BY <1>1, Same DEF OutsideRec
<1>3. DispatchTrue(dispatch[r], outside[r]) /\ KidTrue(dispatch[r], kid[r], outside[r]) BY RecordsOf DEF RecordsTrue
<1>4. PICK s : s = IF outside[r].done = 1 THEN "succeeded" ELSE "failed" OBVIOUS
<1>5. PICK p : p = [dispatch[r] EXCEPT !.state = s, !.settled = TRUE, !.recovered = TRUE] OBVIOUS
<1>6. p \in DispatchRec /\ p.state = s /\ p.settled = TRUE BY <1>2, <1>4, <1>5 DEF DispatchRec
<1>7. /\ Held(r) /\ outside[r].proc = "gone" /\ DispatchOnly(r, p) /\ UNCHANGED <<kid, outside>>
 BY <1>4, <1>5 DEF SettleDispatch, Clean
<1>8. outside[r].done \in {0, 1} BY <1>2, <1>3 DEF DispatchTrue
<1>9. DispatchTrue(p, outside[r]) BY <1>3, <1>4, <1>6, <1>7, <1>8 DEF DispatchTrue
<1>10. KidTrue(p, kid[r], outside[r]) /\ p.state # "none" BY <1>3, <1>4, <1>6 DEF KidTrue
<1> QED BY <1>6, <1>7, <1>9, <1>10, DispatchAlone DEF Held

------------------------------
(* The end of a request, and the world. *)

\* A request completes on its settled dispatch, and ends otherwise only where there is none.
LEMMA EndStep ==
  ASSUME ActionInv, NEW r \in Requests, NEW t \in Terminal, SettleRequest(r, t)
  PROVE  ActionInv'
<1>1. ActionType BY DEF ActionInv
<1>2. /\ request[r] \in RequestRec /\ dispatch[r] \in DispatchRec /\ outside[r] \in OutsideRec
      /\ outside = [outside EXCEPT ![r] = outside[r]] BY <1>1, Same
<1>3. RecordsTrue(request[r], decision[r], dispatch[r], kid[r], outside[r]) BY RecordsOf
<1>4. PICK f : f = IF t # "completed" THEN request[r].effect
                   ELSE IF dispatch[r].state = "succeeded" THEN "succeeded" ELSE "absent"
 OBVIOUS
<1>5. PICK z : z = [request[r] EXCEPT !.phase = t, !.effect = f] OBVIOUS
<1>6. z \in RequestRec /\ z.phase = t /\ z.effect = f BY <1>2, <1>4, <1>5 DEF RequestRec, Terminal
<1>7. request' = [request EXCEPT ![r] = z] /\ UNCHANGED <<decision, dispatch, kid, outside>>
 BY <1>4, <1>5 DEF SettleRequest, RequestOnly
<1>8. EndsTrue(z, decision[r], dispatch[r])
 <2>1. CASE t = "completed"
  <3>1. dispatch[r].settled /\ request[r].phase = "filed" BY <2>1 DEF SettleRequest, CompletedFit, RequestAt
  <3> QED BY <1>3, <1>4, <1>6, <2>1, <3>1 DEF RecordsTrue, EndsTrue
 <2>2. CASE t = "denied"
  <3>1. decision[r].ev.v = "deny" /\ request[r].phase # "completed" BY <2>2 DEF SettleRequest, DeniedFit, RequestAt
  <3> QED BY <1>3, <1>4, <1>6, <2>2, <3>1 DEF RecordsTrue, EndsTrue
 <2>3. CASE t = "cancelled"
  <3>1. dispatch[r].state = "none" /\ request[r].phase # "completed"
   BY <2>3 DEF SettleRequest, CancelledFit, RequestAt, Stage
  <3> QED BY <1>3, <1>4, <1>6, <2>3, <3>1 DEF RecordsTrue, EndsTrue
 <2>4. CASE t = "reconciled-abandoned"
  <3>1. request[r].phase = "allocation-unknown" BY <2>4 DEF SettleRequest, AbandonedFit, RequestAt
  <3> QED BY <1>3, <1>4, <1>6, <2>4, <3>1 DEF RecordsTrue, EndsTrue
 <2> QED BY <2>1, <2>2, <2>3, <2>4 DEF Terminal
<1>9. RecordsTrue(z, decision[r], dispatch[r], kid[r], outside[r]) BY <1>3, <1>8 DEF RecordsTrue
<1> QED BY <1>2, <1>6, <1>7, <1>9, RequestStep

\* A step of the world leaves the journal alone.
LEMMA WorldMove ==
  ASSUME ActionInv, NEW r \in Requests, NEW x, World(r, x), x \in OutsideRec,
    DecisionTrue(decision[r], x), DispatchTrue(dispatch[r], x), KidTrue(dispatch[r], kid[r], x)
  PROVE  ActionInv'
<1>1. ActionType BY DEF ActionInv
<1>2. request[r] \in RequestRec /\ request = [request EXCEPT ![r] = request[r]] BY <1>1, Same
<1>3. RecordsTrue(request[r], decision[r], dispatch[r], kid[r], x) BY RecordsOf DEF RecordsTrue
<1>4. outside' = [outside EXCEPT ![r] = x] /\ UNCHANGED <<request, decision, dispatch, kid>> BY DEF World
<1> QED BY <1>2, <1>3, <1>4, RequestStep

\* What happens outside the journal keeps the invariant.
LEMMA WorldSteps ==
  ASSUME ActionInv, NEW r \in Requests,
    \/ BeadCreateLands(r)
    \/ NativeLands(r)
    \/ \E v \in {"approve", "deny"} : NativeOther(r, v)
    \/ Effect(r)
    \/ ProcEnds(r)
    \/ DeadlinePasses(r)
    \/ ClockBreaks(r)
  PROVE  ActionInv'
<1>1. ActionType BY DEF ActionInv
<1>2. decision[r] \in DecisionRec /\ outside[r] \in OutsideRec BY <1>1, Same
<1>3. /\ DecisionTrue(decision[r], outside[r]) /\ DispatchTrue(dispatch[r], outside[r])
      /\ KidTrue(dispatch[r], kid[r], outside[r]) BY RecordsOf DEF RecordsTrue
<1>4. ASSUME NEW x \in OutsideRec, World(r, x),
  x.native = outside[r].native, x.writes = outside[r].writes, x.writing = outside[r].writing,
  x.proc = outside[r].proc, x.done = outside[r].done
      PROVE  ActionInv'
 <2>1. DecisionTrue(decision[r], x) /\ DispatchTrue(dispatch[r], x) /\ KidTrue(dispatch[r], kid[r], x)
  BY <1>3, <1>4 DEF DecisionTrue, DispatchTrue, KidTrue
 <2> QED BY <1>4, <2>1, WorldMove
<1>5. ASSUME NEW x \in OutsideRec, World(r, x), x.proc = outside[r].proc, x.done = outside[r].done,
  DecisionTrue(decision[r], x)
      PROVE  ActionInv'
 <2>1. DispatchTrue(dispatch[r], x) /\ KidTrue(dispatch[r], kid[r], x) BY <1>3, <1>5 DEF DispatchTrue, KidTrue
 <2> QED BY <1>5, <2>1, WorldMove
<1>a. CASE BeadCreateLands(r)
 <2>1. PICK n : n \in Nat /\ World(r, [outside[r] EXCEPT !.creating = FALSE, !.made = n])
  <3>1. outside[r].made \in Nat /\ outside[r].made + 1 \in Nat BY <1>2 DEF OutsideRec
  <3>2. CASE World(r, [outside[r] EXCEPT !.creating = FALSE, !.made = @ + 1])
   <4>1. PICK n \in Nat : n = outside[r].made + 1 BY <3>1
   <4>2. [outside[r] EXCEPT !.creating = FALSE, !.made = @ + 1] = [outside[r] EXCEPT !.creating = FALSE, !.made = n]
    BY <1>2, <4>1 DEF OutsideRec
   <4> QED BY <3>2, <4>2
  <3>3. CASE World(r, [outside[r] EXCEPT !.creating = FALSE, !.made = 2]) BY <3>3
  <3>4. CASE World(r, [outside[r] EXCEPT !.creating = FALSE])
   <4>1. PICK n \in Nat : n = outside[r].made BY <3>1
   <4>2. [outside[r] EXCEPT !.creating = FALSE] = [outside[r] EXCEPT !.creating = FALSE, !.made = n]
    BY <1>2, <4>1 DEF OutsideRec
   <4> QED BY <3>4, <4>2
  <3> QED BY <1>a, <3>2, <3>3, <3>4 DEF BeadCreateLands
 <2>2. PICK x : x = [outside[r] EXCEPT !.creating = FALSE, !.made = n] OBVIOUS
 <2>3. /\ x \in OutsideRec /\ x.native = outside[r].native /\ x.writes = outside[r].writes
       /\ x.writing = outside[r].writing /\ x.proc = outside[r].proc /\ x.done = outside[r].done
  BY <1>2, <2>1, <2>2 DEF OutsideRec
 <2> QED BY <1>4, <2>1, <2>2, <2>3
<1>b. CASE NativeLands(r)
 <2>1. PICK m : m = IF outside[r].native = NoEvent THEN decision[r].ev ELSE outside[r].native OBVIOUS
 <2>2. m \in Deciding /\ outside[r].native \in Deciding BY <1>2, <2>1 DEF OutsideRec, DecisionRec
 <2>3. PICK b \in {m, outside[r].native} : World(r, [outside[r] EXCEPT !.writing = FALSE, !.native = b])
  <3>1. CASE World(r, [outside[r] EXCEPT !.writing = FALSE, !.native = IF @ = NoEvent THEN decision[r].ev ELSE @])
   BY <1>2, <2>1, <3>1 DEF OutsideRec
  <3>2. CASE World(r, [outside[r] EXCEPT !.writing = FALSE])
   <4>1. PICK b : b = outside[r].native OBVIOUS
   <4>2. [outside[r] EXCEPT !.writing = FALSE] = [outside[r] EXCEPT !.writing = FALSE, !.native = b]
    BY <1>2, <4>1 DEF OutsideRec
   <4> QED BY <3>2, <4>1, <4>2
  <3> QED BY <1>b, <3>1, <3>2 DEF NativeLands
 <2>4. PICK x : x = [outside[r] EXCEPT !.writing = FALSE, !.native = b] OBVIOUS
 <2>5. /\ x \in OutsideRec /\ x.native = b /\ x.writes = outside[r].writes /\ x.writing = FALSE
       /\ x.proc = outside[r].proc /\ x.done = outside[r].done BY <1>2, <2>2, <2>3, <2>4 DEF OutsideRec
 <2>6. b = outside[r].native \/ (outside[r].native = NoEvent /\ b = decision[r].ev) BY <2>1, <2>3
 <2>7. decision[r].phase \notin {"none", "pending"} /\ NoEvent.v = "none"
  BY <1>b, <1>3 DEF NativeLands, DecisionTrue, NoEvent
 <2>8. DecisionTrue(decision[r], x) BY <1>3, <2>5, <2>6, <2>7 DEF DecisionTrue, Written
 <2> QED BY <1>5, <2>3, <2>4, <2>5, <2>8
<1>c. CASE \E v \in {"approve", "deny"} : NativeOther(r, v)
 <2>1. PICK v \in {"approve", "deny"} : NativeOther(r, v) BY <1>c
 <2>2. PICK b \in Deciding : b = [id |-> 2, v |-> v] BY DEF Deciding
 <2>3. PICK x : x = [outside[r] EXCEPT !.native = b] OBVIOUS
 <2>4. /\ x \in OutsideRec /\ x.native = b /\ x.writes = outside[r].writes /\ x.writing = outside[r].writing
       /\ x.proc = outside[r].proc /\ x.done = outside[r].done BY <1>2, <2>2, <2>3 DEF OutsideRec
 <2>5. World(r, x) /\ outside[r].native = NoEvent /\ NoEvent.v = "none" BY <2>1, <2>2, <2>3 DEF NativeOther, NoEvent
 <2>6. DecisionTrue(decision[r], x) BY <1>3, <2>4, <2>5 DEF DecisionTrue, Written
 <2> QED BY <1>5, <2>4, <2>5, <2>6
<1>d. CASE Effect(r)
 <2>1. outside[r].proc = "claimed" /\ outside[r].done = 0 BY <1>d, <1>3 DEF Effect, DispatchTrue
 <2>2. PICK x : x = [outside[r] EXCEPT !.proc = "finished", !.done = 1] OBVIOUS
 <2>3. /\ x \in OutsideRec /\ x.native = outside[r].native /\ x.writes = outside[r].writes
       /\ x.writing = outside[r].writing /\ x.proc = "finished" /\ x.done = 1 BY <1>2, <2>2 DEF OutsideRec
 <2>4. World(r, [outside[r] EXCEPT !.proc = "finished", !.done = @ + 1]) BY <1>d DEF Effect
 <2>5. [outside[r] EXCEPT !.proc = "finished", !.done = @ + 1] = x BY <1>2, <2>1, <2>2 DEF OutsideRec
 <2>6. DecisionTrue(decision[r], x) /\ DispatchTrue(dispatch[r], x) /\ KidTrue(dispatch[r], kid[r], x)
  BY <1>3, <2>1, <2>3 DEF DecisionTrue, DispatchTrue, KidTrue
 <2> QED BY <2>3, <2>4, <2>5, <2>6, WorldMove
<1>e. CASE ProcEnds(r)
 <2>1. PICK x : x = [outside[r] EXCEPT !.proc = "gone"] OBVIOUS
 <2>2. /\ x \in OutsideRec /\ x.native = outside[r].native /\ x.writes = outside[r].writes
       /\ x.writing = outside[r].writing /\ x.proc = "gone" /\ x.done = outside[r].done BY <1>2, <2>1 DEF OutsideRec
 <2>3. World(r, x) BY <1>e, <2>1 DEF ProcEnds
 <2>4. DecisionTrue(decision[r], x) /\ DispatchTrue(dispatch[r], x) /\ KidTrue(dispatch[r], kid[r], x)
  BY <1>3, <2>2 DEF DecisionTrue, DispatchTrue, KidTrue
 <2> QED BY <2>2, <2>3, <2>4, WorldMove
<1>f. CASE DeadlinePasses(r)
 <2>1. PICK x : x = [outside[r] EXCEPT !.late = TRUE] OBVIOUS
 <2>2. /\ x \in OutsideRec /\ x.native = outside[r].native /\ x.writes = outside[r].writes
       /\ x.writing = outside[r].writing /\ x.proc = outside[r].proc /\ x.done = outside[r].done
  BY <1>2, <2>1 DEF OutsideRec
 <2>3. World(r, x) BY <1>f, <2>1 DEF DeadlinePasses
 <2> QED BY <1>4, <2>2, <2>3
<1>g. CASE ClockBreaks(r)
 <2>1. PICK x : x = [outside[r] EXCEPT !.skew = TRUE] OBVIOUS
 <2>2. /\ x \in OutsideRec /\ x.native = outside[r].native /\ x.writes = outside[r].writes
       /\ x.writing = outside[r].writing /\ x.proc = outside[r].proc /\ x.done = outside[r].done
  BY <1>2, <2>1 DEF OutsideRec
 <2>3. World(r, x) BY <1>g, <2>1 DEF ClockBreaks
 <2> QED BY <1>4, <2>2, <2>3
<1>h. QED BY <1>a, <1>b, <1>c, <1>d, <1>e, <1>f, <1>g

\* Steps that touch none of the five records.
LEMMA ActionStutter ==
  ASSUME ActionInv, UNCHANGED <<request, decision, dispatch, kid, outside>>
  PROVE  ActionInv'
<1>1. ActionType' BY DEF ActionInv, ActionType
<1>2. \A r \in Requests : RecordsTrue(request[r], decision[r], dispatch[r], kid[r], outside[r])' BY DEF ActionInv
<1>3. \A r, s \in Requests : Held(r)' /\ Held(s)' => r = s BY DEF ActionInv, Held
<1> QED BY <1>1, <1>2, <1>3 DEF ActionInv

\* Every step of the action journal keeps the invariant.
LEMMA ActionInvKept ==
  ASSUME ActionInv, [ActionNext]_actionVars
  PROVE  ActionInv'
<1>1. CASE UNCHANGED actionVars BY <1>1, ActionStutter DEF actionVars
<1>2. CASE AuthorityChanges BY <1>2, ActionStutter DEF AuthorityChanges
<1>3. ASSUME NEW r \in Requests,
  Assess(r) \/ RecordGroom(r) \/ \E v \in {"groom", "enrich", "none"} : AssessReply(r, v)
      PROVE  ActionInv' BY <1>3, ActionStutter DEF Assess, RecordGroom, AssessReply
<1>4. ASSUME NEW r \in Requests, \E e \in {"succeeded", "absent", "unknown"}, v \in BOOLEAN : Report(r, e, v)
      PROVE  ActionInv' BY <1>4, ReportStep
<1>5. ASSUME NEW r \in Requests, \E t \in Terminal : SettleRequest(r, t)
      PROVE  ActionInv' BY <1>5, EndStep
<1> QED
 BY <1>1, <1>2, <1>3, <1>4, <1>5, FilingSteps, DecisionSteps, AddDispatchStep, LaunchSteps, ChildSteps, LookupStep,
   AttestStep, WorldSteps DEF ActionNext

\* The invariant says what the properties say.
LEMMA ActionInvSays ==
  ASSUME ActionInv
  PROVE  ResourceExclusive /\ OneDecision /\ EndTrue
<1>1. ASSUME NEW r \in Requests
      PROVE  /\ outside[r].proc \in {"up", "claimed", "finished"} => Held(r)
             /\ outside[r].writes <= 1
             /\ decision[r].phase = "committed" => outside[r].native = decision[r].ev
             /\ outside[r].done <= 1
             /\ request[r].phase \in Terminal =>
                    outside[r].done = (IF request[r].effect = "succeeded" THEN 1 ELSE 0)
 <2>1. RecordsTrue(request[r], decision[r], dispatch[r], kid[r], outside[r]) BY RecordsOf
 <2>2. outside[r].proc \in {"up", "claimed", "finished"} => Held(r) BY <2>1 DEF RecordsTrue, DispatchTrue, Held
 <2>3. outside[r].writes <= 1 /\ (decision[r].phase = "committed" => outside[r].native = decision[r].ev)
  BY <2>1 DEF RecordsTrue, DecisionTrue, Written
 <2>4. outside[r].done <= 1 BY <2>1 DEF RecordsTrue, DispatchTrue
 <2>5. request[r].phase \in Terminal => outside[r].done = (IF request[r].effect = "succeeded" THEN 1 ELSE 0)
  BY <2>1 DEF RecordsTrue, DispatchTrue, EndsTrue, Terminal
 <2> QED BY <2>2, <2>3, <2>4, <2>5
<1>2. ResourceExclusive BY <1>1 DEF ActionInv, ResourceExclusive
<1>3. OneDecision /\ EndTrue BY <1>1 DEF OneDecision, EndTrue
<1> QED BY <1>2, <1>3

\* For any number of requests from an empty journal: two requests never have live processes on the one
\* resource, an approval has one native decision, and the end of a request is true of its effect, however
\* reports, lookups, attestations, restarts and lost answers interleave (actions/journal.py, transitions.py).
THEOREM ActionsSound == ActionInit /\ [][ActionNext]_actionVars => [](ResourceExclusive /\ OneDecision /\ EndTrue)
<1>1. ActionInit => ActionInv
 <2>1. SUFFICES ASSUME ActionInit PROVE ActionInv OBVIOUS
 <2>2. /\ NoRequest \in RequestRec /\ NoDecision \in DecisionRec /\ NoDispatch \in DispatchRec
       /\ NoKid \in KidRec /\ NoWorld \in OutsideRec
  BY DEF NoRequest, NoDecision, NoDispatch, NoKid, NoWorld, NoEvent, RequestRec, DecisionRec, DispatchRec, KidRec,
    OutsideRec, Deciding
 <2>3. ActionType BY <2>1, <2>2 DEF ActionInit, ActionType
 <2>4. RecordsTrue(NoRequest, NoDecision, NoDispatch, NoKid, NoWorld)
  BY DEF RecordsTrue, DecisionTrue, DispatchTrue, KidTrue, EndsTrue, Written, NoRequest, NoDecision, NoDispatch,
    NoKid, NoWorld
 <2>5. \A r \in Requests : RecordsTrue(request[r], decision[r], dispatch[r], kid[r], outside[r]) /\ ~Held(r)
  BY <2>1, <2>4 DEF ActionInit, Held, NoDispatch
 <2> QED BY <2>3, <2>5 DEF ActionInv
<1>2. ActionInv /\ [ActionNext]_actionVars => ActionInv' BY ActionInvKept
<1>3. ActionInv => ResourceExclusive /\ OneDecision /\ EndTrue BY ActionInvSays
<1> QED BY <1>1, <1>2, <1>3, PTL

------------------------------
(* The specification that TLC checks: what it begins with, and the other parts. *)

\* Two records make a function of the two requests.
LEMMA TwoRecords ==
  ASSUME NEW S, NEW a \in S, NEW b \in S
  PROVE  <<a, b>> \in [Requests -> S] /\ <<a, b>>[1] = a /\ <<a, b>>[2] = b
BY TwoRequests

\* The records that the runs begin with have their types.
LEMMA BeginTypes ==
  /\ NoRequest \in RequestRec /\ Filed \in RequestRec /\ [Filed EXCEPT !.phase = "denied"] \in RequestRec
  /\ [Filed EXCEPT !.ident = "j"] \in RequestRec
  /\ NoDecision \in DecisionRec /\ Approved \in DecisionRec /\ Denied \in DecisionRec
  /\ NoDispatch \in DispatchRec /\ Launched \in DispatchRec /\ NoKid \in KidRec
  /\ NoWorld \in OutsideRec /\ Made(Approved.ev) \in OutsideRec /\ Made(Denied.ev) \in OutsideRec
  /\ [Made(Approved.ev) EXCEPT !.proc = "up"] \in OutsideRec
<1>1. /\ NoRequest \in RequestRec /\ Filed \in RequestRec /\ [Filed EXCEPT !.phase = "denied"] \in RequestRec
      /\ [Filed EXCEPT !.ident = "j"] \in RequestRec BY TwoRequests DEF NoRequest, Filed, RequestRec, Terminal
<1>2. NoDecision \in DecisionRec /\ Approved \in DecisionRec /\ Denied \in DecisionRec
 BY DEF NoDecision, Approved, Denied, NoEvent, DecisionRec, Deciding
<1>3. NoDispatch \in DispatchRec /\ Launched \in DispatchRec /\ NoKid \in KidRec
 BY DEF NoDispatch, Launched, NoKid, DispatchRec, KidRec
<1>4. Approved.ev \in Deciding /\ Denied.ev \in Deciding BY <1>2 DEF DecisionRec
<1>5. NoWorld \in OutsideRec BY DEF NoWorld, NoEvent, OutsideRec, Deciding
<1>6. ASSUME NEW e \in Deciding PROVE Made(e) \in OutsideRec /\ [Made(e) EXCEPT !.proc = "up"] \in OutsideRec
 BY <1>5 DEF Made, OutsideRec
<1> QED BY <1>1, <1>2, <1>3, <1>4, <1>5, <1>6

\* The records that the runs begin with are true.
LEMMA BeginTrue ==
  /\ RecordsTrue(NoRequest, NoDecision, NoDispatch, NoKid, NoWorld)
  /\ RecordsTrue([Filed EXCEPT !.phase = "denied"], Denied, NoDispatch, NoKid, Made(Denied.ev))
  /\ RecordsTrue(Filed, Approved, Launched, NoKid, [Made(Approved.ev) EXCEPT !.proc = "up"])
  /\ RecordsTrue(Filed, Approved, NoDispatch, NoKid, Made(Approved.ev))
  /\ RecordsTrue([Filed EXCEPT !.ident = "j"], Approved, NoDispatch, NoKid, Made(Approved.ev))
BY DEF RecordsTrue, DecisionTrue, DispatchTrue, KidTrue, EndsTrue, Written, NoRequest, NoDecision, NoDispatch,
  NoKid, NoWorld, Filed, Approved, Denied, Launched, Made, NoEvent

\* Two requests with true records, one of them at most holding the resource, are a state of the invariant.
LEMMA TwoTrue ==
  ASSUME NEW q1 \in RequestRec, NEW q2 \in RequestRec, NEW d1 \in DecisionRec, NEW d2 \in DecisionRec,
    NEW p1 \in DispatchRec, NEW k1 \in KidRec, NEW k2 \in KidRec,
    NEW w1 \in OutsideRec, NEW w2 \in OutsideRec,
    request = <<q1, q2>>, decision = <<d1, d2>>, dispatch = <<p1, NoDispatch>>, kid = <<k1, k2>>,
    outside = <<w1, w2>>,
    RecordsTrue(q1, d1, p1, k1, w1), RecordsTrue(q2, d2, NoDispatch, k2, w2)
  PROVE  ActionInv
<1>1. NoDispatch \in DispatchRec BY BeginTypes
<1>2. ActionType BY <1>1, TwoRecords DEF ActionType
<1>3. \A r \in Requests : RecordsTrue(request[r], decision[r], dispatch[r], kid[r], outside[r])
 <2>1. RecordsTrue(request[1], decision[1], dispatch[1], kid[1], outside[1]) OBVIOUS
 <2>2. RecordsTrue(request[2], decision[2], dispatch[2], kid[2], outside[2]) OBVIOUS
 <2> QED BY <2>1, <2>2, TwoRequests
<1>4. ~Held(2) BY DEF Held, NoDispatch
<1> QED BY <1>2, <1>3, <1>4, TwoRequests DEF ActionInv

\* The runs begin in states of the invariant.
LEMMA BeginInv ==
  ASSUME PartsInit, part \in {"filing", "dispatch"}
  PROVE  ActionInv
<1>1. kid = <<NoKid, NoKid>> /\ (FilingBegins \/ DispatchBegins) BY DEF PartsInit
<1>2. CASE FilingBegins BY <1>1, <1>2, BeginTypes, BeginTrue, TwoTrue DEF FilingBegins
<1>3. CASE DispatchBegins
 <2>1. CASE /\ request = <<Filed, Filed>> /\ decision = <<Approved, Approved>>
            /\ outside = <<[Made(Approved.ev) EXCEPT !.proc = "up"], Made(Approved.ev)>>
            /\ dispatch = <<Launched, NoDispatch>> BY <1>1, <2>1, BeginTypes, BeginTrue, TwoTrue
 <2>2. CASE /\ request = <<[Filed EXCEPT !.ident = "j"], [Filed EXCEPT !.phase = "denied"]>>
            /\ decision = <<Approved, Denied>> /\ outside = <<Made(Approved.ev), Made(Denied.ev)>>
            /\ dispatch = <<NoDispatch, NoDispatch>> BY <1>1, <2>2, BeginTypes, BeginTrue, TwoTrue
 <2> QED BY <1>3, <2>1, <2>2 DEF DispatchBegins
<1> QED BY <1>1, <1>2, <1>3

\* The inductive invariant of the parts that are about the action journal.
ActionsInv == part \in {"filing", "dispatch"} => ActionInv

\* It holds in every behaviour of the specification that TLC checks.
LEMMA ActionsInvariant == PartsSpec => []ActionsInv
<1>1. PartsInit => ActionsInv BY BeginInv DEF ActionsInv
<1>2. ActionsInv /\ [PartsNext]_<<part, sandboxVars, storeVars, actionVars>> => ActionsInv'
 <2>1. SUFFICES ASSUME ActionsInv, [PartsNext]_<<part, sandboxVars, storeVars, actionVars>>,
   part' \in {"filing", "dispatch"}
                PROVE  ActionInv' BY DEF ActionsInv
 <2>2. part' = part /\ [ActionNext]_actionVars BY <2>1 DEF PartsNext
 <2>3. ActionInv BY <2>1, <2>2 DEF ActionsInv
 <2> QED BY <2>2, <2>3, ActionInvKept
<1> QED BY <1>1, <1>2, PTL DEF PartsSpec

\* Two requests never have live processes on the one resource: a dispatch is added while none is held
\* (add_dispatch), and a resource is let go only with the process gone (the reducers' cleanup proofs).
THEOREM ResourceNeverShared == PartsSpec => []ActionsExclusive
<1>1. ActionsInv => ActionsExclusive BY ActionInvSays DEF ActionsInv, ActionsExclusive
<1> QED BY <1>1, ActionsInvariant, PTL

\* An approval has one native decision, never written twice, and the end of a request is true of its effect
\* (issue, read, invalidate_decision, and the reducers that settle).
THEOREM DecisionsAndEndsTrue == PartsSpec => []ActionsDecided
<1>1. ActionsInv => ActionsDecided BY ActionInvSays DEF ActionsInv, ActionsDecided
<1> QED BY <1>1, ActionsInvariant, PTL

------------------------------
(* The sandbox session: its invariant, generation by generation. *)

SessionRecords ==
    [gen : Nat, phase : Phases, started : BOOLEAN, lifetime : BOOLEAN, mark : BOOLEAN,
     unlanded : BOOLEAN, seeded : BOOLEAN, created : BOOLEAN, begun : BOOLEAN, cause : EndCauses]

\* The steps of a launch up to the create, those after it, and those of an end that rest on the
\* settlement it read.
BeforeCreate == {"seed", "submit", "record", "arm", "create"}
AfterCreate == {"settle", "created", "check", "test", "run"}
EndSteps == {"stop", "pane", "delete", "gone"}
QuietSteps == Steps \ (BeforeCreate \cup AfterCreate \cup EndSteps \cup {"unsubmit", "sweep"})

SandboxType ==
    /\ rec \in SessionRecords /\ led \in [Sessions -> LedgerEntry] /\ watch \in [Sessions -> Watcher]
    /\ job \in Job /\ last \in Nat /\ rec.gen <= last

\* The sandbox of g does not exist and none is on its way; the launch of g can't submit one any more.
Nowhere(g) == g \notin box /\ g \notin out
CreateOver(g) == g \notin out /\ ~(rec.gen = g /\ job.pc \in BeforeCreate)

\* A generation that was not launched has nothing.
UnlaunchedTrue(g) == g > last => led[g] = NoEntry /\ Nowhere(g) /\ ~watch[g].settled

\* An entry is settled only once its create is over, and gone only once there is no sandbox either.
EntryFits(e, g) ==
    /\ Settled(e) => CreateOver(g)
    /\ e.how = "never" => g \notin box
    /\ e.gone => CreateOver(g) /\ g \notin box
    /\ g \in box \/ g \in out => e.sub \/ Settled(e)
EntryTrue(g) == g \notin accepted => EntryFits(led[g], g)

\* What a watcher read before its delete, and what it deleted.
WatcherTrue(g) ==
    g \notin accepted =>
        /\ watch[g].settled => CreateOver(g)
        /\ watch[g].pc = "write" /\ watch[g].settled /\ watch[g].deleted => g \notin box

\* What the record says of its create.
RecordTrue(g) ==
    g = rec.gen /\ g \notin accepted => (rec.created => CreateOver(g)) /\ (~rec.begun => Nowhere(g))

\* What a launch, an end and a sweep of wsd have made sure of at each step.
LaunchTrue(g) ==
    g = rec.gen =>
        /\ job.pc \in BeforeCreate =>
              Nowhere(g) /\ ~Settled(led[g]) /\ ~led[g].gone /\ ~rec.created /\ ~watch[g].settled
        /\ job.pc \in {"record", "arm", "create"} => led[g].sub
        /\ job.pc \in {"arm", "create"} => rec.begun
        /\ job.pc = "unsubmit" => Nowhere(g)
        /\ job.pc \in AfterCreate => g \notin out
EndingTrue(g) ==
    g = rec.gen /\ g \notin accepted /\ job.settled =>
        /\ job.pc \in EndSteps => g \notin out
        /\ job.pc = "gone" => g \notin box
SweepTrue(g) == g = Min(job.todo) /\ g \notin accepted /\ job.pc = "sweep" /\ job.settled => g \notin out

SessionTrue(g) ==
    /\ UnlaunchedTrue(g) /\ EntryTrue(g) /\ WatcherTrue(g)
    /\ RecordTrue(g) /\ LaunchTrue(g) /\ EndingTrue(g) /\ SweepTrue(g)

\* The inductive invariant of the sandbox session.
SandboxInv == SandboxType /\ \A g \in Sessions : SessionTrue(g)

\* It says that what is gone is gone, and that every sandbox is in the ledger.
LEMMA SandboxInvSays == SandboxInv => GoneIsGone /\ NoneUntracked
<1>1. SUFFICES ASSUME SandboxInv, NEW g \in Sessions \ accepted
               PROVE  /\ Gone(led[g]) => g \notin box \cup out
                      /\ g \in box \cup out => led[g].sub \/ Settled(led[g]) BY DEF GoneIsGone, NoneUntracked
<1>2. EntryTrue(g) BY <1>1 DEF SandboxInv, SessionTrue
<1> QED BY <1>1, <1>2 DEF EntryTrue, EntryFits, Gone, Settled, CreateOver

LEMMA SandboxBegins == SandboxInit => SandboxInv
<1>1. SUFFICES ASSUME SandboxInit PROVE SandboxInv OBVIOUS
<1>2. NoRecord \in SessionRecords /\ NoEntry \in LedgerEntry /\ NoWatcher \in Watcher /\ Idle \in Job
 BY DEF NoRecord, SessionRecords, Phases, EndCauses, NoEntry, LedgerEntry, NoWatcher, Watcher, Idle, Job, Steps
<1>3. SandboxType BY <1>1, <1>2 DEF SandboxInit, SandboxType, NoRecord
<1>4. ASSUME NEW g \in Sessions PROVE SessionTrue(g)
 <2>1. /\ led[g] = NoEntry /\ watch[g] = NoWatcher /\ rec.gen = 0 /\ g # 0 /\ job.pc = "idle"
       /\ Nowhere(g) BY <1>1, SandboxBounds DEF SandboxInit, NoRecord, Idle, Sessions, Nowhere
 <2> QED
  BY <2>1 DEF SessionTrue, UnlaunchedTrue, EntryTrue, EntryFits, WatcherTrue, RecordTrue, LaunchTrue, EndingTrue,
    SweepTrue, NoEntry, NoWatcher, Settled, Nowhere, CreateOver, BeforeCreate
<1> QED BY <1>3, <1>4 DEF SandboxInv

------------------------------
(* The steps of wsd that neither look at creates nor rest on what was read of them. *)

\* What Go does to the operation under way.
LEMMA GoSays ==
  ASSUME NEW j \in Job, NEW k \in Job, NEW p \in Steps, k = [j EXCEPT !.pc = p]
  PROVE  /\ k.pc = p /\ k.todo = j.todo /\ k.then = j.then /\ k.settled = j.settled /\ k.kept = j.kept
BY DEF Job

LEMMA GoTypes ==
  ASSUME NEW j \in Job, NEW p \in Steps
  PROVE  [j EXCEPT !.pc = p] \in Job
BY DEF Job

\* The operation that an error leaves, and the end that a failed launch begins.
LEMMA DoneAndFail ==
  /\ Idle \in Job /\ Idle.pc \in QuietSteps
  /\ [Idle EXCEPT !.pc = "look", !.why = "refused"] \in Job
  /\ [Idle EXCEPT !.pc = "look", !.why = "refused"].pc \in QuietSteps
BY DEF Idle, Job, Steps, QuietSteps, BeforeCreate, AfterCreate, EndSteps, EndCauses

\* A step to a quiet one that leaves what is known of creates as it was keeps the invariant.
LEMMA QuietStep ==
  ASSUME SandboxInv, rec' \in SessionRecords, job' \in Job, job'.pc \in QuietSteps,
    UNCHANGED <<led, box, out, watch, accepted, last>>,
    rec'.gen = rec.gen, rec'.created = rec.created, rec'.begun = rec.begun
  PROVE  SandboxInv'
<1>1. SandboxType' BY DEF SandboxInv, SandboxType
<1>2. ASSUME NEW g \in Sessions PROVE SessionTrue(g)'
 <2>1. SessionTrue(g) BY DEF SandboxInv
 <2>2. /\ job'.pc \notin BeforeCreate /\ job'.pc \notin AfterCreate /\ job'.pc \notin EndSteps
       /\ job'.pc \notin {"record", "arm", "create", "unsubmit", "sweep"} BY DEF QuietSteps, BeforeCreate
 <2> QED
  BY <2>1, <2>2 DEF SessionTrue, UnlaunchedTrue, EntryTrue, EntryFits, WatcherTrue, RecordTrue, LaunchTrue,
    EndingTrue, SweepTrue, Nowhere, CreateOver, EndSteps
<1> QED BY <1>1, <1>2 DEF SandboxInv

\* A step that leaves the operation and all that is known of creates as it was.
LEMMA StillStep ==
  ASSUME SandboxInv, UNCHANGED <<rec, job, led, box, out, watch, accepted, last>>
  PROVE  SandboxInv'
BY DEF SandboxInv, SandboxType, SessionTrue, UnlaunchedTrue, EntryTrue, EntryFits, WatcherTrue, RecordTrue,
  LaunchTrue, EndingTrue, SweepTrue, Nowhere, CreateOver

\* The operations that begin an end, a restore or a commit are quiet.
LEMMA EndTypes ==
  ASSUME NEW why \in EndCauses, NEW lifetime \in BOOLEAN, NEW proof \in BOOLEAN,
    NEW then \in {"idle", "listed", "launch"}, End(why, lifetime, proof, then)
  PROVE  job' \in Job /\ job'.pc \in QuietSteps
<1>1. job' = [pc |-> "look", todo |-> {}, then |-> then, why |-> why, lifetime |-> lifetime,
              proof |-> proof, settled |-> FALSE, alive |-> FALSE, kept |-> TRUE] BY DEF End, Idle
<1> QED BY <1>1 DEF Job, Steps, QuietSteps, BeforeCreate, AfterCreate, EndSteps

LEMMA GoQuiet ==
  ASSUME job \in Job, NEW p \in QuietSteps, job' = [job EXCEPT !.pc = p]
  PROVE  job' \in Job /\ job'.pc \in QuietSteps
<1>1. p \in Steps BY DEF QuietSteps
<1>2. job' \in Job BY <1>1, GoTypes
<1> QED BY <1>1, <1>2, GoSays

\* The quiet steps, by name.
LEMMA QuietNames ==
  {"idle", "restore", "listed", "launch", "write", "await", "look", "land", "ended", "wip", "clear",
   "act", "imported", "move", "moved", "remove", "removed", "finish"} \subseteq QuietSteps
BY DEF QuietSteps, Steps, BeforeCreate, AfterCreate, EndSteps

\* The steps that begin an operation, or list or resolve, leave the record and the creates alone.
LEMMA OperationStep ==
  ASSUME SandboxInv,
    \/ SessionsBegin \/ LaunchBegin \/ RestoreDone \/ Listed \/ Launch \/ Stop \/ Expire
    \/ SandboxReconcile \/ Resolve \/ ResolveAgain \/ Act \/ Imported \/ Moved \/ RemoveTrash
    \/ Removed \/ SessionFinish \/ WsdCrash \/ Wip
  PROVE  SandboxInv'
<1>1. UNCHANGED <<rec, led, box, out, watch, accepted, last>>
 BY DEF SessionsBegin, LaunchBegin, RestoreDone, Listed, Launch, Stop, Expire, SandboxReconcile, Resolve,
   ResolveAgain, Act, Imported, Moved, RemoveTrash, Removed, SessionFinish, WsdCrash, Wip, Checkpoint, store, world,
   history, past
<1>2. rec \in SessionRecords /\ job \in Job BY DEF SandboxInv, SandboxType
<1>3. job' \in Job /\ job'.pc \in QuietSteps
 <2>1. CASE job' = Idle BY <2>1, DoneAndFail
 <2>2. ASSUME NEW p \in QuietSteps, job' = [job EXCEPT !.pc = p] PROVE job' \in Job /\ job'.pc \in QuietSteps
  BY <1>2, <2>2, GoQuiet
 <2>3. CASE SessionsBegin \/ LaunchBegin
  <3>1. PICK n \in SUBSET Sessions : n = Names BY DEF Names
  <3>2. PICK t \in {"listed", "launch"} :
            job' = [pc |-> "restore", todo |-> n, then |-> t, why |-> "none", lifetime |-> FALSE,
                    proof |-> FALSE, settled |-> FALSE, alive |-> FALSE, kept |-> TRUE]
   BY <2>3, <3>1 DEF SessionsBegin, LaunchBegin, Idle
  <3> QED BY <3>2, QuietNames DEF Job, Steps, EndCauses
 <2>4. CASE RestoreDone
  <3>1. job.then \in QuietSteps BY <1>2, QuietNames DEF Job
  <3> QED BY <2>2, <2>4, <3>1 DEF RestoreDone, Go
 <2>5. CASE Listed \/ Launch \/ Stop \/ Expire \/ SandboxReconcile
  <3>1. PICK o \in BOOLEAN : o = Overdue BY DEF Overdue
  <3>2. {"died", "stopped", "lifetime"} \subseteq EndCauses BY DEF EndCauses
  <3>3. ASSUME NEW why \in {"died", "stopped", "lifetime"}, NEW l \in BOOLEAN, NEW q \in BOOLEAN,
    NEW then \in {"idle", "launch"}, End(why, l, q, then)
        PROVE  job' \in Job /\ job'.pc \in QuietSteps BY <3>2, <3>3, EndTypes
  <3>4. CASE job' = [Idle EXCEPT !.pc = "wip"]
   <4>1. Idle \in Job /\ "wip" \in Steps /\ "wip" \in QuietSteps BY DoneAndFail, QuietNames DEF Steps
   <4>2. job' \in Job BY <3>4, <4>1, GoTypes
   <4> QED BY <3>4, <4>1, <4>2, GoSays
  <3>5. CASE job' = [job EXCEPT !.pc = "wip", !.then = "launch"] BY <1>2, <3>5, QuietNames DEF Job, Steps
  <3>6. CASE job' = [job EXCEPT !.pc = "write"] BY <2>2, <3>6, QuietNames
  <3>7. CASE Listed BY <2>1, <3>1, <3>3, <3>7 DEF Listed, Done
  <3>8. CASE Launch BY <2>1, <3>1, <3>3, <3>5, <3>6, <3>8 DEF Launch, Done, Go
  <3>9. CASE Stop BY <3>3, <3>9 DEF Stop
  <3>10. CASE Expire BY <3>3, <3>4, <3>10 DEF Expire
  <3>11. CASE SandboxReconcile BY <3>3, <3>4, <3>11 DEF SandboxReconcile
  <3> QED BY <2>5, <3>7, <3>8, <3>9, <3>10, <3>11
 <2>6. CASE Resolve \/ ResolveAgain
  <3>1. ASSUME NEW p \in {"act", "moved", "remove", "finish", "idle"}, job' = [job EXCEPT !.pc = p]
        PROVE  job' \in Job /\ job'.pc \in QuietSteps BY <2>2, <3>1, QuietNames
  <3>2. CASE Resolve BY <3>1, <3>2 DEF Resolve, Go
  <3>3. CASE ResolveAgain
   <4>1. PICK p \in {"act", "moved", "remove", "finish", "idle"} : job' = [job EXCEPT !.pc = p]
    BY <3>3 DEF ResolveAgain, Go
   <4> QED BY <3>1, <4>1
  <3> QED BY <2>6, <3>2, <3>3
 <2>7. CASE Act \/ Imported \/ Moved \/ RemoveTrash \/ Removed
  <3>1. \/ job' = Idle
        \/ \E p \in {"imported", "move", "remove", "finish", "removed"} : job' = [job EXCEPT !.pc = p]
   BY <2>7 DEF Act, Imported, Moved, RemoveTrash, Removed, Checkpoint, Go, Done
  <3> QED BY <2>1, <2>2, <3>1, QuietNames
 <2>8. CASE SessionFinish \/ WsdCrash BY <2>1, <2>8 DEF SessionFinish, WsdCrash, Done
 <2>9. CASE Wip
  <3>1. job' = Idle \/ \E p \in {"launch", "clear"} : job' = [job EXCEPT !.pc = p] BY <2>9 DEF Wip, Follow, Go, Done
  <3> QED BY <2>1, <2>2, <3>1, QuietNames
 <2> QED BY <2>3, <2>4, <2>5, <2>6, <2>7, <2>8, <2>9
<1> QED BY <1>1, <1>2, <1>3, QuietStep

\* The steps of an end after the delete, and of a launch once its sandbox answered.
LEMMA EndingStep ==
  ASSUME SandboxInv, EndLands \/ EndEnds \/ WipCleared \/ Run
  PROVE  SandboxInv'
<1>1. UNCHANGED <<led, box, out, watch, accepted, last>>
 BY DEF EndLands, EndEnds, WipCleared, Run, world, history, past
<1>2. rec \in SessionRecords /\ job \in Job BY DEF SandboxInv, SandboxType
<1>3. job' \in Job /\ job'.pc \in QuietSteps
 <2>1. \/ job' = Idle \/ job' = [Idle EXCEPT !.pc = "look", !.why = "refused"]
       \/ \E p \in {"ended", "wip", "launch"} : job' = [job EXCEPT !.pc = p]
  BY DEF EndLands, EndEnds, WipCleared, Run, Follow, Go, Done, Fail
 <2> QED BY <1>2, <2>1, DoneAndFail, GoQuiet, QuietNames
<1>4. /\ rec' \in SessionRecords /\ rec'.gen = rec.gen /\ rec'.created = rec.created /\ rec'.begun = rec.begun
 <2>1. \/ rec' = rec \/ rec' = [rec EXCEPT !.unlanded = TRUE] \/ rec' = [rec EXCEPT !.phase = "ended"]
       \/ rec' = [rec EXCEPT !.mark = FALSE] \/ rec' = [rec EXCEPT !.phase = "running", !.started = TRUE]
  BY DEF EndLands, EndEnds, WipCleared, Run
 <2> QED BY <1>2, <2>1 DEF SessionRecords, Phases
<1> QED BY <1>1, <1>2, <1>3, <1>4, QuietStep

\* The world's own steps that make no sandbox.
LEMMA WorldStep ==
  ASSUME SandboxInv, AgentCommits \/ AgentDies \/ Restart \/ \E g \in Sessions : Tick(g)
  PROVE  SandboxInv'
<1>1. UNCHANGED <<rec, job, led, box, out, watch, accepted, last>>
 BY DEF AgentCommits, AgentDies, Restart, Tick, store, world, history, past
<1> QED BY <1>1, StillStep

\* A resolve takes the record away with the directory.
LEMMA MoveStep ==
  ASSUME SandboxInv, Move
  PROVE  SandboxInv'
<1>1. /\ UNCHANGED <<led, box, out, watch, accepted, last>> /\ rec' = NoRecord
      /\ job' = [job EXCEPT !.pc = "moved"] BY DEF Move, Go
<1>2. job' \in Job /\ job'.pc \in QuietSteps BY <1>1, GoQuiet, QuietNames DEF SandboxInv, SandboxType
<1>3. rec' \in SessionRecords /\ rec'.gen = 0 BY <1>1 DEF NoRecord, SessionRecords, Phases, EndCauses
<1>4. SandboxType' BY <1>1, <1>2, <1>3 DEF SandboxInv, SandboxType
<1>5. ASSUME NEW g \in Sessions PROVE SessionTrue(g)'
 <2>1. SessionTrue(g) /\ g # rec'.gen BY <1>3 DEF SandboxInv, Sessions
 <2>2. job'.pc # "sweep" BY <1>2 DEF QuietSteps
 <2> QED
  BY <1>1, <2>1, <2>2 DEF SessionTrue, UnlaunchedTrue, EntryTrue, EntryFits, WatcherTrue, RecordTrue, LaunchTrue,
    EndingTrue, SweepTrue, Nowhere, CreateOver
<1> QED BY <1>4, <1>5 DEF SandboxInv

------------------------------
(* The steps of a launch and of an end. *)

\* A step from one step of a launch or of an end to the next, that leaves the ledger and the world alone.
LEMMA AdvanceStep ==
  ASSUME SandboxInv, rec' \in SessionRecords, rec'.gen = rec.gen, job' \in Job, job'.settled = job.settled,
    UNCHANGED <<led, box, out, watch, accepted, last>>,
    job'.pc \in BeforeCreate => job.pc \in BeforeCreate /\ rec'.created = rec.created,
    job'.pc \in {"record", "arm", "create"} => job.pc \in {"record", "arm", "create"},
    job'.pc \in {"arm", "create"} => rec'.begun,
    job'.pc \in AfterCreate /\ rec.gen \in Sessions => rec.gen \notin out,
    job'.pc \in EndSteps => job.pc \in EndSteps,
    job'.pc \notin {"unsubmit", "sweep", "gone"},
    rec'.created => rec.created \/ job'.pc \in AfterCreate,
    rec.begun => rec'.begun
  PROVE  SandboxInv'
<1>1. SandboxType' BY DEF SandboxInv, SandboxType
<1>2. ASSUME NEW g \in Sessions PROVE SessionTrue(g)'
 <2>1. SessionTrue(g) BY DEF SandboxInv
 <2>2. job'.pc \in AfterCreate => job'.pc \notin BeforeCreate BY DEF AfterCreate, BeforeCreate
 <2>3. CreateOver(g) => CreateOver(g)' BY DEF CreateOver
 <2>4. UnlaunchedTrue(g)' /\ EntryTrue(g)' /\ WatcherTrue(g)'
  BY <2>1, <2>3 DEF SessionTrue, UnlaunchedTrue, EntryTrue, EntryFits, WatcherTrue, Nowhere
 <2>5. RecordTrue(g)' BY <2>1, <2>2, <2>3 DEF SessionTrue, RecordTrue, CreateOver, Nowhere
 <2>6. LaunchTrue(g)' BY <2>1 DEF SessionTrue, LaunchTrue, Nowhere
 <2>7. EndingTrue(g)' /\ SweepTrue(g)' BY <2>1 DEF SessionTrue, EndingTrue, SweepTrue
 <2> QED BY <2>4, <2>5, <2>6, <2>7 DEF SessionTrue
<1> QED BY <1>1, <1>2 DEF SandboxInv

\* The record of the new generation: nothing was there of it.
LEMMA LaunchWritesStep ==
  ASSUME SandboxInv, LaunchWrites
  PROVE  SandboxInv'
<1>1. UNCHANGED <<led, box, out, watch, accepted>> BY DEF LaunchWrites, world, past
<1>2. CASE UNCHANGED <<rec, last>> /\ Done BY <1>1, <1>2, DoneAndFail, QuietStep DEF SandboxInv, SandboxType, Done
<1>3. CASE /\ rec' = [NoRecord EXCEPT !.gen = last + 1, !.phase = "creating"] /\ last' = last + 1
           /\ Go("seed")
 <2>1. job \in Job /\ "seed" \in Steps /\ last \in Nat BY DEF SandboxInv, SandboxType, Steps
 <2>2. PICK n \in Nat : n = last + 1 BY <2>1
 <2>3. job' \in Job /\ job'.pc = "seed" BY <1>3, <2>1, GoTypes, GoSays DEF Go
 <2>4. rec' \in SessionRecords /\ rec'.gen = n /\ ~rec'.created /\ ~rec'.begun
  BY <1>3, <2>2 DEF NoRecord, SessionRecords, Phases, EndCauses
 <2>5. SandboxType' BY <1>1, <1>3, <2>2, <2>3, <2>4 DEF SandboxInv, SandboxType
 <2>6. ASSUME NEW g \in Sessions PROVE SessionTrue(g)'
  <3>1. SessionTrue(g) BY DEF SandboxInv
  <3>2. CASE g = n
   <4>1. led[g] = NoEntry /\ Nowhere(g) /\ ~watch[g].settled /\ ~(g > last')
    BY <1>3, <2>1, <2>2, <3>1, <3>2 DEF SessionTrue, UnlaunchedTrue
   <4> QED
    BY <1>1, <2>3, <2>4, <4>1 DEF SessionTrue, UnlaunchedTrue, EntryTrue, EntryFits, WatcherTrue, RecordTrue,
      LaunchTrue, EndingTrue, SweepTrue, Nowhere, CreateOver, NoEntry, Settled, AfterCreate, EndSteps
  <3>3. CASE g # n
   <4>1. (g > last') => (g > last) BY <1>3, <2>1, <2>2 DEF Sessions
   <4>2. g # rec'.gen /\ job'.pc # "sweep" BY <2>3, <2>4, <3>3
   <4> QED
    BY <1>1, <3>1, <4>1, <4>2 DEF SessionTrue, UnlaunchedTrue, EntryTrue, EntryFits, WatcherTrue, RecordTrue,
      LaunchTrue, EndingTrue, SweepTrue, Nowhere, CreateOver
  <3> QED BY <3>2, <3>3
 <2> QED BY <2>5, <2>6 DEF SandboxInv
<1> QED BY <1>2, <1>3 DEF LaunchWrites

\* A failed step of a launch, and any error: the operation is over, and nothing else changed.
LEMMA FailedStep ==
  ASSUME SandboxInv, Done \/ Fail, UNCHANGED <<rec, led, box, out, watch, accepted, last>>
  PROVE  SandboxInv'
BY DoneAndFail, QuietStep DEF SandboxInv, SandboxType, Done, Fail

\* The steps of a launch and an end that advance.
LEMMA AdvancingStep ==
  ASSUME SandboxInv,
    Seed \/ RecordCreate \/ Await \/ RecordCreated \/ CheckCreated \/ Test \/ EndWrites \/ EndPane
  PROVE  SandboxInv'
<1>1. UNCHANGED <<led, box, out, watch, accepted, last>>
 BY DEF Seed, RecordCreate, Await, RecordCreated, CheckCreated, Test, EndWrites, EndPane, Writes, store, world,
   history, past
<1>2. rec \in SessionRecords /\ job \in Job BY DEF SandboxInv, SandboxType
<1>3. CASE UNCHANGED rec /\ (Done \/ Fail) BY <1>1, <1>3, FailedStep
<1>4. ASSUME NEW p \in Steps, Go(p)
      PROVE  job' \in Job /\ job'.pc = p /\ job'.settled = job.settled BY <1>2, <1>4, GoTypes, GoSays DEF Go
<1>5. job.pc \in AfterCreate /\ rec.gen \in Sessions => rec.gen \notin out BY DEF SandboxInv, SessionTrue, LaunchTrue
<1>6. CASE Seed \/ EndPane
 <2>1. SUFFICES ASSUME ~(UNCHANGED rec /\ (Done \/ Fail)) PROVE SandboxInv' BY <1>3
 <2>2. rec' = rec /\ ((Go("submit") /\ job.pc = "seed") \/ (Go("delete") /\ job.pc = "pane"))
  BY <1>6, <2>1 DEF Seed, EndPane, store
 <2>3. PICK p \in {"submit", "delete"} :
           Go(p) /\ (p = "submit" => job.pc = "seed") /\ (p = "delete" => job.pc = "pane") BY <2>2
 <2>4. job' \in Job /\ job'.pc = p /\ job'.settled = job.settled BY <1>4, <2>3 DEF Steps
 <2> QED BY <1>1, <1>2, <2>2, <2>3, <2>4, AdvanceStep DEF BeforeCreate, AfterCreate, EndSteps
<1>7. CASE RecordCreate
 <2>1. CASE rec' = [rec EXCEPT !.seeded = TRUE, !.begun = TRUE] /\ Go("arm") /\ job.pc = "record"
  <3>1. job' \in Job /\ job'.pc = "arm" /\ job'.settled = job.settled BY <1>4, <2>1 DEF Steps
  <3>2. rec' \in SessionRecords /\ rec'.gen = rec.gen /\ rec'.created = rec.created /\ rec'.begun
   BY <1>2, <2>1 DEF SessionRecords
  <3> QED BY <1>1, <2>1, <3>1, <3>2, AdvanceStep DEF BeforeCreate, AfterCreate, EndSteps
 <2> QED BY <1>3, <1>7, <2>1 DEF RecordCreate, Writes
<1>8. CASE Await
 <2>1. CASE rec.gen \notin out /\ Go("settle") /\ rec' = rec
  <3>1. job' \in Job /\ job'.pc = "settle" /\ job'.settled = job.settled BY <1>4, <2>1 DEF Steps
  <3> QED BY <1>1, <1>2, <2>1, <3>1, AdvanceStep DEF BeforeCreate, AfterCreate, EndSteps
 <2> QED BY <1>3, <1>8, <2>1 DEF Await, store
<1>9. CASE RecordCreated \/ CheckCreated \/ Test
 <2>1. SUFFICES ASSUME ~(UNCHANGED rec /\ (Done \/ Fail)) PROVE SandboxInv' BY <1>3
 <2>2. PICK p \in {"check", "test", "run"} : Go(p) BY <1>9, <2>1 DEF RecordCreated, Writes, CheckCreated, Test
 <2>3. job.pc \in AfterCreate BY <1>9 DEF RecordCreated, Writes, CheckCreated, Test, AfterCreate
 <2>4. job' \in Job /\ job'.pc = p /\ job'.settled = job.settled BY <1>4, <2>2 DEF Steps
 <2>5. rec' \in SessionRecords /\ rec'.gen = rec.gen /\ rec'.begun = rec.begun
  <3>1. \/ rec' = [rec EXCEPT !.created = TRUE] \/ rec' = [rec EXCEPT !.phase = "testing"]
        \/ rec' = [rec EXCEPT !.phase = "starting"] BY <1>9, <2>1 DEF RecordCreated, Writes, CheckCreated, Test
  <3> QED BY <1>2, <3>1 DEF SessionRecords, Phases
 <2> QED BY <1>1, <1>5, <2>2, <2>3, <2>4, <2>5, AdvanceStep DEF BeforeCreate, AfterCreate, EndSteps
<1>10. CASE EndWrites
 <2>1. PICK l \in BOOLEAN : l = (job.lifetime \/ rec.lifetime) OBVIOUS
 <2>2. PICK c \in EndCauses : c = Cause(job.alive, rec.gen \in markers) BY <1>2 DEF Cause, Job, EndCauses
 <2>3. PICK m \in BOOLEAN : m = (rec.mark \/ l) OBVIOUS
 <2>4. PICK d \in EndCauses : d = IF rec.cause = "none" THEN c ELSE rec.cause BY <1>2 DEF SessionRecords
 <2>5. CASE rec' = Stopping /\ Go("pane")
  <3>1. rec' = [rec EXCEPT !.phase = "stopping", !.lifetime = l, !.mark = m, !.cause = d]
   BY <1>2, <2>1, <2>2, <2>3, <2>4, <2>5 DEF Stopping
  <3>2. rec' \in SessionRecords /\ rec'.gen = rec.gen /\ rec'.begun = rec.begun /\ rec'.created = rec.created
   BY <1>2, <3>1 DEF SessionRecords, Phases
  <3>3. job' \in Job /\ job'.pc = "pane" /\ job'.settled = job.settled BY <1>4, <2>5 DEF Steps
  <3> QED BY <1>1, <1>10, <3>2, <3>3, AdvanceStep DEF EndWrites, BeforeCreate, AfterCreate, EndSteps
 <2>6. CASE rec' = rec /\ job' = [job EXCEPT !.pc = "pane", !.kept = FALSE]
  <3>1. job' \in Job /\ job'.pc = "pane" /\ job'.settled = job.settled BY <1>2, <2>6 DEF Job, Steps
  <3> QED BY <1>1, <1>2, <1>10, <2>6, <3>1, AdvanceStep DEF EndWrites, BeforeCreate, AfterCreate, EndSteps
 <2> QED BY <1>3, <1>10, <2>5, <2>6 DEF EndWrites
<1> QED BY <1>6, <1>7, <1>8, <1>9, <1>10

------------------------------
(* The steps that write the ledger or the watchers. *)

\* One entry of the ledger, or one watcher, is replaced; a generation outside is nobody's.
LEMMA EntryPut ==
  ASSUME NEW f \in [Sessions -> LedgerEntry], NEW n, NEW e, n \in Sessions => e \in LedgerEntry,
    NEW h, h = [f EXCEPT ![n] = e]
  PROVE  /\ h \in [Sessions -> LedgerEntry] /\ \A g \in Sessions : h[g] = IF g = n THEN e ELSE f[g]
OBVIOUS

LEMMA WatcherPut ==
  ASSUME NEW f \in [Sessions -> Watcher], NEW n, NEW w, n \in Sessions => w \in Watcher,
    NEW h, h = [f EXCEPT ![n] = w]
  PROVE  /\ h \in [Sessions -> Watcher] /\ \A g \in Sessions : h[g] = IF g = n THEN w ELSE f[g]
OBVIOUS

\* What the writers of evidence leave of an entry.
LEMMA PutSettledSays ==
  ASSUME NEW e \in LedgerEntry, NEW how \in {"returned", "never"}
  PROVE  /\ PutSettled(e, how) \in LedgerEntry
         /\ PutSettled(e, how).sub = e.sub /\ PutSettled(e, how).gone = e.gone
         /\ PutSettled(e, how).how = IF e.how = "none" /\ e.sub THEN how ELSE e.how
         /\ ~e.sub => PutSettled(e, how) = e
BY DEF PutSettled, LedgerEntry

LEMMA PutGoneSays ==
  ASSUME NEW e \in LedgerEntry
  PROVE  /\ PutGone(e) \in LedgerEntry /\ PutGone(e).sub = e.sub /\ PutGone(e).how = e.how
         /\ ~e.sub /\ ~Settled(e) => PutGone(e) = e
BY DEF PutGone, LedgerEntry

LEMMA CloseNoticeSays ==
  ASSUME NEW e \in LedgerEntry
  PROVE  /\ CloseNotice(e) \in LedgerEntry
         /\ CloseNotice(e).sub = e.sub /\ CloseNotice(e).how = e.how /\ CloseNotice(e).gone = e.gone
         /\ e.alert = "none" => CloseNotice(e) = e
BY DEF CloseNotice, LedgerEntry

\* _recover_create reads an entry that fits, and leaves a generation that was not launched alone.
LEMMA RecoverSays ==
  ASSUME SandboxInv, NEW g \in Sessions, job.pc \in QuietSteps
  PROVE  /\ RecoverCreate(g) \in LedgerEntry
         /\ g > last => RecoverCreate(g) = NoEntry
         /\ g \notin accepted => EntryFits(RecoverCreate(g), g)
<1>1. led[g] \in LedgerEntry /\ SessionTrue(g) /\ rec \in SessionRecords /\ rec.gen <= last /\ last \in Nat
 BY DEF SandboxInv, SandboxType
<1>2. PICK e \in LedgerEntry : e = led[g] BY <1>1
<1>3. (g > last => e = NoEntry) /\ (g \notin accepted => EntryFits(e, g))
 BY <1>1, <1>2 DEF SessionTrue, UnlaunchedTrue, EntryTrue
<1>4. CASE rec.phase = "none" \/ rec.gen # g \/ (~rec.created /\ rec.begun)
 BY <1>1, <1>2, <1>3, <1>4 DEF RecoverCreate
<1>5. CASE rec.gen = g /\ rec.phase # "none" /\ (rec.created \/ ~rec.begun)
 <2>1. PICK how \in {"returned", "never"} :
          /\ RecoverCreate(g) = PutSettled(e, how)
          /\ how = "returned" => rec.created
          /\ how = "never" => ~rec.created /\ ~rec.begun BY <1>2, <1>5 DEF RecoverCreate
 <2>2. ~(g > last) BY <1>1, <1>5 DEF Sessions
 <2>3. g \notin accepted => CreateOver(g) /\ (how = "never" => g \notin box)
  BY <1>1, <1>5, <2>1 DEF SessionTrue, RecordTrue, Nowhere, CreateOver, QuietSteps
 <2>4. PICK z : z = PutSettled(e, how) OBVIOUS
 <2>5. z \in LedgerEntry /\ z.sub = e.sub /\ z.gone = e.gone /\ (z.how = how \/ z.how = e.how) BY <2>4, PutSettledSays
 <2>6. Settled(e) => Settled(z) BY <2>1, <2>4, PutSettledSays DEF Settled
 <2>7. g \notin accepted => EntryFits(z, g) BY <1>3, <2>3, <2>5, <2>6 DEF EntryFits
 <2> QED BY <2>1, <2>2, <2>4, <2>5, <2>7
<1> QED BY <1>4, <1>5

\* At a quiet step nothing is claimed of the operation under way.
LEMMA QuietClaims ==
  ASSUME job'.pc \in QuietSteps, NEW g
  PROVE  LaunchTrue(g)' /\ EndingTrue(g)' /\ SweepTrue(g)'
<1>1. /\ job'.pc \notin BeforeCreate /\ job'.pc \notin AfterCreate /\ job'.pc \notin EndSteps
      /\ job'.pc \notin {"record", "arm", "create", "unsubmit", "sweep"} BY DEF QuietSteps, BeforeCreate
<1> QED BY <1>1 DEF LaunchTrue, EndingTrue, SweepTrue, EndSteps

\* The watchers learn nothing but what the ledger says, and of no delete that did not happen.
WatchersRead ==
    \A g \in Sessions :
        /\ watch'[g].settled => watch[g].settled \/ Settled(led[g])
        /\ watch'[g].pc = "write" /\ watch'[g].settled /\ watch'[g].deleted
               => g \notin box' \/ (watch[g].pc = "write" /\ watch[g].settled /\ watch[g].deleted)

\* A step that writes one entry n of the ledger, that reads the ledger or forgets what was read, and that
\* makes no sandbox.
LEMMA EvidenceStep ==
  ASSUME SandboxInv, SandboxType', UNCHANGED <<rec, out, accepted, last>>, box' \subseteq box,
    job'.pc \in BeforeCreate => job.pc \in BeforeCreate,
    NEW n, NEW e, \A g \in Sessions : led'[g] = IF g = n THEN e ELSE led[g],
    n \in Sessions => (n > last => e = NoEntry) /\ (n \notin accepted => EntryFits(e, n)'),
    watch' = watch \/ WatchersRead,
    \A g \in Sessions : LaunchTrue(g)' /\ EndingTrue(g)' /\ SweepTrue(g)'
  PROVE  SandboxInv'
<1>1. ASSUME NEW g \in Sessions PROVE SessionTrue(g)'
 <2>1. SessionTrue(g) BY DEF SandboxInv
 <2>2. (CreateOver(g) => CreateOver(g)') /\ (Nowhere(g) => Nowhere(g)') /\ (g \notin box => g \notin box')
  BY DEF CreateOver, Nowhere
 <2>3. UnlaunchedTrue(g)'
  <3>1. SUFFICES ASSUME g > last PROVE led'[g] = NoEntry /\ Nowhere(g)' /\ ~watch'[g].settled BY DEF UnlaunchedTrue
  <3>2. led[g] = NoEntry /\ Nowhere(g) /\ ~watch[g].settled BY <2>1, <3>1 DEF SessionTrue, UnlaunchedTrue
  <3>3. ~Settled(led[g]) BY <3>2 DEF NoEntry, Settled
  <3> QED BY <2>2, <3>1, <3>2, <3>3 DEF WatchersRead
 <2>4. EntryTrue(g)'
  <3>1. CASE g = n
   <4>1. led'[g] = e BY <3>1
   <4> QED BY <3>1, <4>1 DEF EntryTrue, EntryFits
  <3>2. CASE g # n
   <4>1. led'[g] = led[g] BY <3>2
   <4> QED BY <2>1, <2>2, <4>1 DEF SessionTrue, EntryTrue, EntryFits
  <3> QED BY <3>1, <3>2
 <2>5. WatcherTrue(g)' BY <2>1, <2>2 DEF SessionTrue, WatcherTrue, EntryTrue, EntryFits, WatchersRead
 <2>6. RecordTrue(g)' BY <2>1, <2>2 DEF SessionTrue, RecordTrue
 <2> QED BY <2>3, <2>4, <2>5, <2>6 DEF SessionTrue
<1> QED BY <1>1 DEF SandboxInv

LEMMA GoFrom ==
  ASSUME job \in Job, NEW p \in Steps, Go(p)
  PROVE  /\ job' \in Job /\ job'.pc = p /\ job'.settled = job.settled /\ job'.todo = job.todo
         /\ job'.kept = job.kept /\ job'.then = job.then
BY GoTypes, GoSays DEF Go

\* The submission, written before the record says that a create is possible.
LEMMA SubmitStep ==
  ASSUME SandboxInv, Submit
  PROVE  SandboxInv'
<1>1. UNCHANGED <<rec, box, out, watch, accepted, last>> BY DEF Submit, world, history, past
<1>2. job \in Job /\ led \in [Sessions -> LedgerEntry] /\ watch \in [Sessions -> Watcher]
 BY DEF SandboxInv, SandboxType
<1>3. CASE led' = [led EXCEPT ![rec.gen].sub = TRUE] /\ Go("record") /\ job.pc = "submit"
 <2>1. job' \in Job /\ job'.pc = "record" /\ job'.settled = job.settled BY <1>2, <1>3, GoFrom DEF Steps
 <2>2. PICK n : n = rec.gen OBVIOUS
 <2>3. PICK e : e = [led[n] EXCEPT !.sub = TRUE] OBVIOUS
 <2>4. led' = [led EXCEPT ![n] = e] BY <1>3, <2>2, <2>3
 <2>5. n \in Sessions => /\ e \in LedgerEntry /\ e.sub /\ e.how = led[n].how /\ e.gone = led[n].gone
  <3>1. SUFFICES ASSUME n \in Sessions PROVE /\ e \in LedgerEntry /\ e.sub /\ e.how = led[n].how /\ e.gone = led[n].gone
   OBVIOUS
  <3>2. PICK d \in LedgerEntry : d = led[n] BY <1>2, <3>1
  <3> QED BY <2>3, <3>2 DEF LedgerEntry
 <2>6. /\ led' \in [Sessions -> LedgerEntry] /\ \A g \in Sessions : led'[g] = IF g = n THEN e ELSE led[g]
  BY <1>2, <2>4, <2>5, EntryPut
 <2>7. SandboxType' BY <1>1, <2>1, <2>6 DEF SandboxInv, SandboxType
 <2>8. n \in Sessions => /\ n <= last /\ last \in Nat /\ Nowhere(n) /\ ~Settled(e) /\ ~e.gone
                        /\ ~rec.created /\ ~watch[n].settled
  BY <1>3, <2>2, <2>5 DEF SandboxInv, SandboxType, SessionTrue, LaunchTrue, Settled, BeforeCreate
 <2>9. n \in Sessions => (n > last => e = NoEntry) /\ (n \notin accepted => EntryFits(e, n)')
  BY <1>1, <2>5, <2>8 DEF EntryFits, Nowhere, Sessions
 <2>10. ASSUME NEW g \in Sessions PROVE LaunchTrue(g)' /\ EndingTrue(g)' /\ SweepTrue(g)'
  BY <1>1, <2>1, <2>2, <2>5, <2>6, <2>8 DEF LaunchTrue, EndingTrue, SweepTrue, Nowhere, Settled, AfterCreate, EndSteps
 <2>11. box' \subseteq box /\ job.pc \in BeforeCreate BY <1>1, <1>3 DEF BeforeCreate
 <2>12. \A g \in Sessions : LaunchTrue(g)' /\ EndingTrue(g)' /\ SweepTrue(g)' BY <2>10
 <2>13. \A g \in Sessions : led'[g] = IF g = n THEN e ELSE led[g] BY <2>6
 <2> QED BY <1>1, <2>7, <2>9, <2>11, <2>12, <2>13, EvidenceStep
<1> QED BY <1>1, <1>3, FailedStep DEF Submit

\* The watcher is armed before the create.
LEMMA ArmStep ==
  ASSUME SandboxInv, Arm
  PROVE  SandboxInv'
<1>1. UNCHANGED <<rec, led, box, out, accepted, last>> BY DEF Arm, store, world, history, past
<1>2. job \in Job /\ led \in [Sessions -> LedgerEntry] /\ watch \in [Sessions -> Watcher]
 BY DEF SandboxInv, SandboxType
<1>3. CASE /\ watch' = IF watch[rec.gen].pc = "none" THEN [watch EXCEPT ![rec.gen].pc = "wait"] ELSE watch
           /\ Go("create") /\ job.pc = "arm"
 <2>1. job' \in Job /\ job'.pc = "create" /\ job'.settled = job.settled BY <1>2, <1>3, GoFrom DEF Steps
 <2>2. PICK n : n = rec.gen OBVIOUS
 <2>3. PICK w : w = IF watch[n].pc = "none" THEN [watch[n] EXCEPT !.pc = "wait"] ELSE watch[n] OBVIOUS
 <2>4. watch' = [watch EXCEPT ![n] = w] BY <1>2, <1>3, <2>2, <2>3
 <2>5. n \in Sessions => w \in Watcher /\ w.settled = watch[n].settled /\ (w.pc = "wait" \/ w = watch[n])
  <3>1. SUFFICES ASSUME n \in Sessions
                 PROVE  w \in Watcher /\ w.settled = watch[n].settled /\ (w.pc = "wait" \/ w = watch[n])
   OBVIOUS
  <3>2. PICK d \in Watcher : d = watch[n] BY <1>2, <3>1
  <3> QED BY <2>3, <3>2 DEF Watcher
 <2>6. /\ watch' \in [Sessions -> Watcher] /\ \A g \in Sessions : watch'[g] = IF g = n THEN w ELSE watch[g]
  BY <1>2, <2>4, <2>5, WatcherPut
 <2>7. SandboxType' BY <1>1, <2>1, <2>6 DEF SandboxInv, SandboxType
 <2>8. ASSUME NEW g \in Sessions PROVE LaunchTrue(g)' /\ EndingTrue(g)' /\ SweepTrue(g)'
  <3>1. LaunchTrue(g) /\ watch'[g].settled = watch[g].settled BY <2>5, <2>6 DEF SandboxInv, SessionTrue
  <3> QED
   BY <1>1, <1>3, <2>1, <3>1 DEF LaunchTrue, EndingTrue, SweepTrue, Nowhere, AfterCreate, EndSteps, BeforeCreate
 <2>9. 0 \notin Sessions /\ (\A g \in Sessions : led'[g] = IF g = 0 THEN NoEntry ELSE led[g]) BY <1>1 DEF Sessions
 <2>10. box' \subseteq box /\ job.pc \in BeforeCreate BY <1>1, <1>3 DEF BeforeCreate
 <2>11. WatchersRead BY <2>5, <2>6 DEF WatchersRead
 <2> QED BY <1>1, <2>7, <2>8, <2>9, <2>10, <2>11, EvidenceStep
<1> QED BY <1>1, <1>3, FailedStep DEF Arm

\* The create is submitted, or settled as never submitted once the deadline has passed.
LEMMA CreateStep ==
  ASSUME SandboxInv, Create
  PROVE  SandboxInv'
<1>1. UNCHANGED <<rec, box, watch, accepted, last>> /\ job.pc = "create" BY DEF Create, history, past
<1>2. job \in Job /\ led \in [Sessions -> LedgerEntry] /\ watch \in [Sessions -> Watcher]
 BY DEF SandboxInv, SandboxType
<1>3. PICK n : n = rec.gen OBVIOUS
<1>4. n \in Sessions => /\ n <= last /\ last \in Nat /\ Nowhere(n) /\ led[n].sub /\ ~Settled(led[n]) /\ ~led[n].gone
                       /\ rec.begun /\ ~rec.created /\ ~watch[n].settled
 BY <1>1, <1>3 DEF SandboxInv, SandboxType, SessionTrue, LaunchTrue, BeforeCreate
<1>5. CASE led' = [led EXCEPT ![n] = PutSettled(led[n], "never")] /\ Go("unsubmit") /\ out' = out
 <2>1. job' \in Job /\ job'.pc = "unsubmit" /\ job'.settled = job.settled BY <1>2, <1>5, GoFrom DEF Steps
 <2>2. PICK e : e = PutSettled(led[n], "never") OBVIOUS
 <2>3. n \in Sessions => e \in LedgerEntry /\ ~e.gone /\ e.sub BY <1>2, <1>4, <2>2, PutSettledSays
 <2>4. /\ led' \in [Sessions -> LedgerEntry] /\ \A g \in Sessions : led'[g] = IF g = n THEN e ELSE led[g]
  BY <1>2, <1>5, <2>2, <2>3, EntryPut
 <2>5. SandboxType' BY <1>1, <2>1, <2>4 DEF SandboxInv, SandboxType
 <2>6. n \in Sessions => (n > last => e = NoEntry) /\ (n \notin accepted => EntryFits(e, n)')
  BY <1>1, <1>4, <1>5, <2>1, <2>3 DEF EntryFits, Nowhere, Sessions, CreateOver, BeforeCreate
 <2>7. ASSUME NEW g \in Sessions PROVE LaunchTrue(g)' /\ EndingTrue(g)' /\ SweepTrue(g)'
  BY <1>1, <1>3, <1>4, <1>5, <2>1 DEF LaunchTrue, EndingTrue, SweepTrue, Nowhere, BeforeCreate, AfterCreate, EndSteps
 <2>8. box' \subseteq box /\ job.pc \in BeforeCreate BY <1>1 DEF BeforeCreate
 <2> QED BY <1>1, <1>5, <2>4, <2>5, <2>6, <2>7, <2>8, EvidenceStep
<1>6. CASE out' = out \cup {n} /\ Go("await") /\ led' = led
 <2>1. job' \in Job /\ job'.pc = "await" /\ job'.pc \in QuietSteps BY <1>2, <1>6, GoFrom, QuietNames DEF Steps
 <2>2. SandboxType' BY <1>1, <1>6, <2>1 DEF SandboxInv, SandboxType
 <2>3. ASSUME NEW g \in Sessions PROVE SessionTrue(g)'
  <3>1. SessionTrue(g) BY DEF SandboxInv
  <3>2. LaunchTrue(g)' /\ EndingTrue(g)' /\ SweepTrue(g)' BY <2>1, QuietClaims
  <3>3. CASE g = n
   <4>1. led'[g].sub /\ led'[g].how = "none" /\ ~led'[g].gone /\ ~watch'[g].settled /\ ~(g > last')
    BY <1>1, <1>4, <1>6, <3>3 DEF Settled, Sessions
   <4> QED
    BY <1>1, <1>3, <1>4, <3>2, <3>3, <4>1 DEF SessionTrue, UnlaunchedTrue, EntryTrue, EntryFits, WatcherTrue,
      RecordTrue, Settled
  <3>4. CASE g # n
   <4>1. (CreateOver(g) => CreateOver(g)') /\ (Nowhere(g) => Nowhere(g)') /\ (g \in out' => g \in out)
    BY <1>1, <1>3, <1>6, <3>4 DEF CreateOver, Nowhere
   <4> QED
    BY <1>1, <1>6, <3>1, <3>2, <4>1 DEF SessionTrue, UnlaunchedTrue, EntryTrue, EntryFits, WatcherTrue, RecordTrue
  <3> QED BY <3>3, <3>4
 <2> QED BY <2>2, <2>3 DEF SandboxInv
<1> QED BY <1>3, <1>5, <1>6 DEF Create

\* ... and the record that then says it was never submitted.
LEMMA UnsubmitStep ==
  ASSUME SandboxInv, Unsubmit
  PROVE  SandboxInv'
<1>1. /\ UNCHANGED <<led, box, out, watch, accepted, last>> /\ rec' = [rec EXCEPT !.begun = FALSE]
      /\ job.pc = "unsubmit" /\ Fail BY DEF Unsubmit, world, history, past
<1>2. job' \in Job /\ job'.pc \in QuietSteps BY <1>1, DoneAndFail DEF Fail
<1>3. rec' \in SessionRecords /\ rec'.gen = rec.gen /\ rec'.created = rec.created
 BY <1>1 DEF SandboxInv, SandboxType, SessionRecords
<1>4. SandboxType' BY <1>1, <1>2, <1>3 DEF SandboxInv, SandboxType
<1>5. ASSUME NEW g \in Sessions PROVE SessionTrue(g)'
 <2>1. SessionTrue(g) BY DEF SandboxInv
 <2>2. LaunchTrue(g)' /\ EndingTrue(g)' /\ SweepTrue(g)' BY <1>2, QuietClaims
 <2>3. (CreateOver(g) => CreateOver(g)') /\ (Nowhere(g) => Nowhere(g)')
  BY <1>1, <1>2, <1>3 DEF CreateOver, Nowhere, QuietSteps
 <2>4. RecordTrue(g)' BY <1>1, <1>3, <2>1, <2>3 DEF SessionTrue, RecordTrue, LaunchTrue
 <2> QED BY <1>1, <2>1, <2>2, <2>3, <2>4 DEF SessionTrue, UnlaunchedTrue, EntryTrue, EntryFits, WatcherTrue
<1> QED BY <1>4, <1>5 DEF SandboxInv

\* The create returned, and its settlement is written.
LEMMA SettleCreateStep ==
  ASSUME SandboxInv, SettleCreate
  PROVE  SandboxInv'
<1>1. UNCHANGED <<rec, box, out, watch, accepted, last>> /\ job.pc = "settle" /\ Go("created")
 BY DEF SettleCreate, world, history, past
<1>2. job \in Job /\ led \in [Sessions -> LedgerEntry] /\ rec \in SessionRecords BY DEF SandboxInv, SandboxType
<1>3. job' \in Job /\ job'.pc = "created" /\ job'.settled = job.settled BY <1>1, <1>2, GoFrom DEF Steps
<1>4. PICK n : n = rec.gen OBVIOUS
<1>5. n \in Sessions => n <= last /\ last \in Nat /\ n \notin out /\ (n \notin accepted => EntryFits(led[n], n))
 BY <1>1, <1>4 DEF SandboxInv, SandboxType, SessionTrue, LaunchTrue, EntryTrue, AfterCreate
<1>6. CASE led' = led BY <1>1, <1>2, <1>3, <1>4, <1>5, <1>6, AdvanceStep DEF BeforeCreate, AfterCreate, EndSteps
<1>7. CASE led' = [led EXCEPT ![n] = PutSettled(led[n], "returned")]
 <2>1. PICK e : e = PutSettled(led[n], "returned") OBVIOUS
 <2>2. n \in Sessions => /\ e \in LedgerEntry /\ e.gone = led[n].gone /\ e.sub = led[n].sub
                        /\ (e.how = led[n].how \/ (e.how = "returned" /\ e.sub)) BY <1>2, <2>1, PutSettledSays
 <2>3. /\ led' \in [Sessions -> LedgerEntry] /\ \A g \in Sessions : led'[g] = IF g = n THEN e ELSE led[g]
  BY <1>2, <1>7, <2>1, <2>2, EntryPut
 <2>4. SandboxType' BY <1>1, <1>3, <2>3 DEF SandboxInv, SandboxType
 <2>5. n \in Sessions => (n > last => e = NoEntry) /\ (n \notin accepted => EntryFits(e, n)')
  BY <1>1, <1>3, <1>5, <2>2 DEF EntryFits, Sessions, CreateOver, BeforeCreate, Settled
 <2>6. ASSUME NEW g \in Sessions PROVE LaunchTrue(g)' /\ EndingTrue(g)' /\ SweepTrue(g)'
  BY <1>1, <1>3, <1>4, <1>5 DEF LaunchTrue, EndingTrue, SweepTrue, BeforeCreate, AfterCreate, EndSteps
 <2>7. box' \subseteq box /\ job'.pc \notin BeforeCreate BY <1>1, <1>3 DEF BeforeCreate
 <2> QED BY <1>1, <2>3, <2>4, <2>5, <2>6, <2>7, EvidenceStep
<1> QED BY <1>4, <1>6, <1>7 DEF SettleCreate

\* An end reads the settlement before it deletes anything.
LEMMA EndLooksStep ==
  ASSUME SandboxInv, EndLooks
  PROVE  SandboxInv'
<1>1. UNCHANGED <<rec, box, out, watch, accepted, last>> /\ job.pc = "look" BY DEF EndLooks, world, history, past
<1>2. job \in Job /\ led \in [Sessions -> LedgerEntry] /\ job.pc \in QuietSteps
 BY <1>1, QuietNames DEF SandboxInv, SandboxType
<1>3. PICK n, e : n = rec.gen /\ e = RecoverCreate(rec.gen) OBVIOUS
<1>4. PICK b \in BOOLEAN, a \in BOOLEAN : b = Settled(e) /\ a = Alive BY DEF Settled, Alive
<1>5. led' = [led EXCEPT ![n] = e] /\ job' = [job EXCEPT !.pc = "stop", !.settled = b, !.alive = a]
 BY <1>3, <1>4 DEF EndLooks
<1>6. job' \in Job /\ job'.pc = "stop" /\ job'.settled = b BY <1>2, <1>5 DEF Job, Steps
<1>7. n \in Sessions => e \in LedgerEntry /\ (n > last => e = NoEntry) /\ (n \notin accepted => EntryFits(e, n))
 BY <1>2, <1>3, RecoverSays
<1>8. /\ led' \in [Sessions -> LedgerEntry] /\ \A g \in Sessions : led'[g] = IF g = n THEN e ELSE led[g]
 BY <1>2, <1>5, <1>7, EntryPut
<1>9. SandboxType' BY <1>1, <1>6, <1>8 DEF SandboxInv, SandboxType
<1>10. n \in Sessions => (n > last => e = NoEntry) /\ (n \notin accepted => EntryFits(e, n)')
 BY <1>1, <1>6, <1>7 DEF EntryFits, CreateOver, BeforeCreate
<1>11. ASSUME NEW g \in Sessions PROVE LaunchTrue(g)' /\ EndingTrue(g)' /\ SweepTrue(g)'
 BY <1>1, <1>3, <1>4, <1>6, <1>7 DEF LaunchTrue, EndingTrue, SweepTrue, BeforeCreate, AfterCreate, EndSteps,
   EntryFits, CreateOver
<1>12. box' \subseteq box /\ job'.pc \notin BeforeCreate BY <1>1, <1>6 DEF BeforeCreate
<1> QED BY <1>1, <1>8, <1>9, <1>10, <1>11, <1>12, EvidenceStep

\* The delete takes every sandbox that the backend lists.
LEMMA EndDeletesStep ==
  ASSUME SandboxInv, EndDeletes
  PROVE  SandboxInv'
<1>1. UNCHANGED <<rec, led, out, watch, accepted, last>> /\ job.pc = "delete" BY DEF EndDeletes, store, history, past
<1>2. job \in Job BY DEF SandboxInv, SandboxType
<1>3. CASE UNCHANGED box /\ Done BY <1>1, <1>3, FailedStep
<1>4. CASE box' = {} /\ (Go("gone") \/ Done)
 <2>1. job' \in Job /\ (job'.pc \in QuietSteps \/ (job'.pc = "gone" /\ job'.settled = job.settled))
  BY <1>2, <1>4, DoneAndFail, GoFrom DEF Done, Steps
 <2>2. SandboxType' BY <1>1, <2>1 DEF SandboxInv, SandboxType
 <2>3. 0 \notin Sessions /\ (\A g \in Sessions : led'[g] = IF g = 0 THEN NoEntry ELSE led[g]) BY <1>1 DEF Sessions
 <2>4. ASSUME NEW g \in Sessions PROVE LaunchTrue(g)' /\ EndingTrue(g)' /\ SweepTrue(g)'
  <3>1. CASE job'.pc \in QuietSteps BY <3>1, QuietClaims
  <3>2. CASE job'.pc = "gone" /\ job'.settled = job.settled
   <4>1. EndingTrue(g) BY DEF SandboxInv, SessionTrue
   <4> QED BY <1>1, <1>4, <3>2, <4>1 DEF LaunchTrue, EndingTrue, SweepTrue, BeforeCreate, AfterCreate, EndSteps
  <3> QED BY <2>1, <3>1, <3>2
 <2>5. box' \subseteq box /\ job'.pc \notin BeforeCreate BY <1>4, <2>1 DEF BeforeCreate, QuietSteps
 <2> QED BY <1>1, <2>2, <2>3, <2>4, <2>5, EvidenceStep
<1> QED BY <1>3, <1>4 DEF EndDeletes

\* Only a create settled before the delete is gone.
LEMMA EndGoneStep ==
  ASSUME SandboxInv, EndGone
  PROVE  SandboxInv'
<1>1. UNCHANGED <<rec, box, out, accepted, last>> /\ job.pc = "gone" /\ Go("land")
 BY DEF EndGone, world, history, past
<1>2. job \in Job /\ led \in [Sessions -> LedgerEntry] /\ watch \in [Sessions -> Watcher]
 BY DEF SandboxInv, SandboxType
<1>3. job' \in Job /\ job'.pc = "land" /\ job'.pc \in QuietSteps BY <1>1, <1>2, GoFrom, QuietNames DEF Steps
<1>4. PICK n, c : n = rec.gen /\ c = IF job.settled THEN PutGone(led[n]) ELSE led[n] OBVIOUS
<1>5. PICK e : e = IF Gone(c) THEN CloseNotice(c) ELSE c OBVIOUS
<1>6. /\ led' = [led EXCEPT ![n] = e]
      /\ watch' = watch \/ watch' = [watch EXCEPT ![n] = NoWatcher] BY <1>4, <1>5 DEF EndGone
<1>7. n \in Sessions =>
          /\ c \in LedgerEntry /\ c.sub = led[n].sub /\ c.how = led[n].how
          /\ (c = led[n] \/ job.settled) BY <1>2, <1>4, PutGoneSays
<1>8. n \in Sessions => e \in LedgerEntry /\ e.sub = c.sub /\ e.how = c.how /\ e.gone = c.gone
 BY <1>5, <1>7, CloseNoticeSays
<1>9. /\ led' \in [Sessions -> LedgerEntry] /\ \A g \in Sessions : led'[g] = IF g = n THEN e ELSE led[g]
 BY <1>2, <1>6, <1>8, EntryPut
<1>10. NoWatcher \in Watcher BY DEF NoWatcher, Watcher
<1>11. /\ watch' \in [Sessions -> Watcher]
       /\ \A g \in Sessions : watch'[g] = watch[g] \/ watch'[g] = NoWatcher BY <1>2, <1>6, <1>10, WatcherPut
<1>12. SandboxType' BY <1>1, <1>3, <1>9, <1>11 DEF SandboxInv, SandboxType
<1>13. ASSUME n \in Sessions PROVE (n > last => e = NoEntry) /\ (n \notin accepted => EntryFits(e, n)')
 <2>1. SessionTrue(n) /\ n <= last /\ last \in Nat BY <1>4, <1>13 DEF SandboxInv, SandboxType
 <2>2. n \notin accepted => EntryFits(led[n], n) /\ (job.settled => n \notin out /\ n \notin box)
  BY <1>1, <1>4, <2>1 DEF SessionTrue, EntryTrue, EndingTrue, EndSteps
 <2>3. ~(n > last) BY <1>13, <2>1 DEF Sessions
 <2> QED BY <1>1, <1>3, <1>7, <1>8, <1>13, <2>2, <2>3 DEF EntryFits, CreateOver, Settled, BeforeCreate
<1>14. ASSUME NEW g \in Sessions PROVE LaunchTrue(g)' /\ EndingTrue(g)' /\ SweepTrue(g)' BY <1>3, QuietClaims
<1>15. box' \subseteq box /\ job'.pc \notin BeforeCreate BY <1>1, <1>3 DEF BeforeCreate
<1>16. WatchersRead BY <1>11 DEF NoWatcher, WatchersRead
<1>17. n \in Sessions => (n > last => e = NoEntry) /\ (n \notin accepted => EntryFits(e, n)') BY <1>13
<1> QED BY <1>1, <1>9, <1>12, <1>14, <1>15, <1>16, <1>17, EvidenceStep

------------------------------
(* The restore, for the entry n = Min(job.todo) of an earlier generation or this one. *)

\* The clean-up of an entry that is gone, whole or interrupted, leaves one that fits.
LEMMA CleanUpSays ==
  ASSUME led \in [Sessions -> LedgerEntry], NEW n, NEW c, NEW f, f = [led EXCEPT ![n] = c], CleanUp(n, f),
    n \in Sessions => c \in LedgerEntry /\ Gone(c) /\ (n \notin accepted => EntryFits(c, n)')
  PROVE  \E d : /\ led' = [led EXCEPT ![n] = d]
                /\ n \in Sessions => d \in LedgerEntry /\ (n \notin accepted => EntryFits(d, n)')
<1>1. CASE led' = f BY <1>1
<1>2. CASE led' = [f EXCEPT ![n] = NoEntry]
 <2>1. led' = [led EXCEPT ![n] = NoEntry] BY <1>2
 <2>2. NoEntry \in LedgerEntry /\ NoEntry.how = "none" /\ ~NoEntry.gone BY DEF NoEntry, LedgerEntry
 <2>3. n \in Sessions /\ n \notin accepted => EntryFits(NoEntry, n)' BY <2>2 DEF EntryFits, Gone, Settled, CreateOver
 <2> QED BY <2>1, <2>2, <2>3
<1>3. CASE led' = [f EXCEPT ![n] = [NoEntry EXCEPT !.how = f[n].how]]
 <2>1. PICK d : d = [NoEntry EXCEPT !.how = f[n].how] OBVIOUS
 <2>2. led' = [led EXCEPT ![n] = d] BY <1>3, <2>1
 <2>3. n \in Sessions => d \in LedgerEntry /\ d.how = c.how /\ ~d.gone
  <3>1. SUFFICES ASSUME n \in Sessions PROVE d \in LedgerEntry /\ d.how = c.how /\ ~d.gone OBVIOUS
  <3>2. f[n] = c BY <3>1
  <3>3. PICK h \in {"none", "returned", "never", "operator"} : h = c.how BY <3>1 DEF LedgerEntry
  <3>4. d = [sub |-> FALSE, how |-> h, gone |-> FALSE, alert |-> "none"] BY <2>1, <3>2, <3>3 DEF NoEntry
  <3> QED BY <3>3, <3>4 DEF LedgerEntry
 <2>4. n \in Sessions /\ n \notin accepted => EntryFits(d, n)' BY <2>3 DEF EntryFits, Gone, Settled, CreateOver
 <2> QED BY <2>2, <2>3, <2>4
<1> QED BY <1>1, <1>2, <1>3 DEF CleanUp

\* The restore goes on to the next entry, or was interrupted: it is quiet.
LEMMA NextEntryQuiet ==
  ASSUME job \in Job, NEW n, NextEntry(n)
  PROVE  job' \in Job /\ job'.pc \in QuietSteps
<1>1. PICK t \in SUBSET Sessions : t = job.todo \ {n} BY DEF Job
<1>2. CASE job' = Idle BY <1>2, DoneAndFail
<1>3. CASE job' = [job EXCEPT !.pc = "restore", !.todo = t] BY <1>3, QuietNames DEF Job, Steps
<1> QED BY <1>1, <1>2, <1>3 DEF NextEntry

LEMMA RestoreArmsStep ==
  ASSUME SandboxInv, RestoreArms
  PROVE  SandboxInv'
<1>1. UNCHANGED <<rec, box, out, accepted, last>> /\ job.pc = "restore" BY DEF RestoreArms, world, history, past
<1>2. /\ job \in Job /\ led \in [Sessions -> LedgerEntry] /\ watch \in [Sessions -> Watcher]
      /\ job.pc \in QuietSteps BY <1>1, QuietNames DEF SandboxInv, SandboxType
<1>3. PICK n, e : n = Min(job.todo) /\ e = RecoverCreate(n) OBVIOUS
<1>4. n \in Sessions => e \in LedgerEntry /\ (n > last => e = NoEntry) /\ (n \notin accepted => EntryFits(e, n))
 BY <1>2, <1>3, RecoverSays
<1>5. box' \subseteq box BY <1>1
<1>6. CASE Gone(e) /\ CleanUp(n, [led EXCEPT ![n] = CloseNotice(e)]) /\ NextEntry(n) /\ watch' = watch
 <2>1. job' \in Job /\ job'.pc \in QuietSteps /\ job'.pc \notin BeforeCreate
  BY <1>2, <1>6, NextEntryQuiet DEF QuietSteps
 <2>2. PICK c, f : c = CloseNotice(e) /\ f = [led EXCEPT ![n] = c] OBVIOUS
 <2>3. n \in Sessions => c \in LedgerEntry /\ c.sub = e.sub /\ c.how = e.how /\ c.gone = e.gone
  BY <1>4, <2>2, CloseNoticeSays
 <2>4. n \in Sessions => c \in LedgerEntry /\ Gone(c) /\ (n \notin accepted => EntryFits(c, n)')
  BY <1>1, <1>4, <1>6, <2>1, <2>3 DEF EntryFits, Gone, Settled, CreateOver
 <2>5. CleanUp(n, f) BY <1>6, <2>2
 <2>6. PICK d : /\ led' = [led EXCEPT ![n] = d]
                /\ n \in Sessions => d \in LedgerEntry /\ (n \notin accepted => EntryFits(d, n)')
  BY <1>2, <2>2, <2>4, <2>5, CleanUpSays
 <2>7. /\ led' \in [Sessions -> LedgerEntry] /\ \A g \in Sessions : led'[g] = IF g = n THEN d ELSE led[g]
  BY <1>2, <2>6, EntryPut
 <2>8. SandboxType' BY <1>1, <1>6, <2>1, <2>7 DEF SandboxInv, SandboxType
 <2>9. n \in Sessions => (n > last => d = NoEntry) /\ (n \notin accepted => EntryFits(d, n)')
  BY <1>4, <1>6, <2>6 DEF Gone, NoEntry, Settled
 <2>10. ASSUME NEW g \in Sessions PROVE LaunchTrue(g)' /\ EndingTrue(g)' /\ SweepTrue(g)' BY <2>1, QuietClaims
 <2> QED BY <1>1, <1>5, <1>6, <2>1, <2>7, <2>8, <2>9, <2>10, EvidenceStep
<1>7. CASE /\ led' = [led EXCEPT ![n] = e]
           /\ \/ /\ watch' = IF e.sub /\ watch[n].pc = "none" THEN [watch EXCEPT ![n].pc = "wait"] ELSE watch
                 /\ job' = IF rec.phase = "none" \/ rec.gen # n \/ rec.phase = "ended"
                           THEN [job EXCEPT !.pc = "sweep", !.settled = Settled(e)]
                           ELSE [job EXCEPT !.todo = @ \ {n}]
              \/ Done /\ watch' = watch
 <2>1. /\ led' \in [Sessions -> LedgerEntry] /\ \A g \in Sessions : led'[g] = IF g = n THEN e ELSE led[g]
  BY <1>2, <1>4, <1>7, EntryPut
 <2>2. /\ watch' \in [Sessions -> Watcher]
       /\ \A g \in Sessions : \/ watch'[g] = watch[g]
                              \/ watch'[g].pc = "wait" /\ watch'[g].settled = watch[g].settled
  <3>1. PICK w : w = [watch[n] EXCEPT !.pc = "wait"] OBVIOUS
  <3>2. n \in Sessions => w \in Watcher /\ w.pc = "wait" /\ w.settled = watch[n].settled
   <4>1. SUFFICES ASSUME n \in Sessions PROVE w \in Watcher /\ w.pc = "wait" /\ w.settled = watch[n].settled OBVIOUS
   <4>2. PICK d \in Watcher : d = watch[n] BY <1>2, <4>1
   <4> QED BY <3>1, <4>2 DEF Watcher
  <3>3. watch' = watch \/ watch' = [watch EXCEPT ![n] = w] BY <1>7, <3>1
  <3> QED BY <1>2, <3>2, <3>3, WatcherPut
 <2>3. /\ job' \in Job
       /\ \/ job'.pc \in QuietSteps
          \/ job'.pc = "sweep" /\ job'.settled = Settled(e) /\ job'.todo = job.todo
  <3>1. PICK b \in BOOLEAN, t \in SUBSET Sessions : b = Settled(e) /\ t = job.todo \ {n} BY <1>2 DEF Job, Settled
  <3>2. CASE job' = Idle BY <3>2, DoneAndFail
  <3>3. CASE job' = [job EXCEPT !.pc = "sweep", !.settled = b] BY <1>2, <3>1, <3>3 DEF Job, Steps
  <3>4. CASE job' = [job EXCEPT !.todo = t] BY <1>2, <3>4 DEF Job
  <3> QED BY <1>7, <3>1, <3>2, <3>3, <3>4 DEF Done
 <2>4. job'.pc \notin BeforeCreate BY <2>3 DEF QuietSteps, BeforeCreate
 <2>5. SandboxType' BY <1>1, <2>1, <2>2, <2>3 DEF SandboxInv, SandboxType
 <2>6. n \in Sessions => (n > last => e = NoEntry) /\ (n \notin accepted => EntryFits(e, n)')
  BY <1>1, <1>4, <2>4 DEF EntryFits, CreateOver
 <2>7. ASSUME NEW g \in Sessions PROVE LaunchTrue(g)' /\ EndingTrue(g)' /\ SweepTrue(g)'
  <3>1. CASE job'.pc \in QuietSteps BY <3>1, QuietClaims
  <3>2. CASE job'.pc = "sweep" /\ job'.settled = Settled(e) /\ job'.todo = job.todo
   <4>1. Min(job'.todo) = n BY <1>3, <3>2
   <4>2. SweepTrue(g)' BY <1>1, <1>4, <3>2, <4>1 DEF SweepTrue, EntryFits, CreateOver
   <4> QED BY <3>2, <4>2 DEF LaunchTrue, EndingTrue, BeforeCreate, AfterCreate, EndSteps
  <3> QED BY <2>3, <3>1, <3>2
 <2>8. WatchersRead BY <2>2 DEF WatchersRead
 <2> QED BY <1>1, <1>5, <2>1, <2>4, <2>5, <2>6, <2>7, <2>8, EvidenceStep
<1> QED BY <1>3, <1>6, <1>7 DEF RestoreArms

\* The sweep rests on the settlement that was read before its delete.
LEMMA RestoreSweepsStep ==
  ASSUME SandboxInv, RestoreSweeps
  PROVE  SandboxInv'
<1>1. UNCHANGED <<rec, out, watch, accepted, last>> /\ job.pc = "sweep" BY DEF RestoreSweeps, history, past
<1>2. job \in Job /\ led \in [Sessions -> LedgerEntry] /\ watch \in [Sessions -> Watcher]
 BY DEF SandboxInv, SandboxType
<1>3. CASE Done /\ UNCHANGED <<box, led>> BY <1>1, <1>3, FailedStep
<1>4. PICK n, e : n = Min(job.todo) /\ e = IF job.settled THEN PutGone(led[n]) ELSE led[n] OBVIOUS
<1>5. CASE /\ box' = box \ {n} /\ NextEntry(n)
           /\ IF Gone(e) THEN CleanUp(n, [led EXCEPT ![n] = CloseNotice(e)]) ELSE led' = [led EXCEPT ![n] = e]
 <2>1. job' \in Job /\ job'.pc \in QuietSteps /\ job'.pc \notin BeforeCreate
  BY <1>2, <1>5, NextEntryQuiet DEF QuietSteps
 <2>2. n \in Sessions => e \in LedgerEntry /\ e.sub = led[n].sub /\ e.how = led[n].how /\ (e = led[n] \/ job.settled)
  BY <1>2, <1>4, PutGoneSays
 <2>3. n \in Sessions /\ n > last => e = NoEntry
  <3>1. n \in Sessions /\ n > last => led[n] = NoEntry BY DEF SandboxInv, SessionTrue, UnlaunchedTrue
  <3>2. n \in Sessions /\ n > last => ~led[n].sub /\ ~Settled(led[n]) BY <3>1 DEF NoEntry, Settled
  <3> QED BY <1>2, <1>4, <3>1, <3>2, PutGoneSays
 <2>4. n \in Sessions /\ n \notin accepted => EntryFits(e, n)'
  <3>1. SUFFICES ASSUME n \in Sessions, n \notin accepted PROVE EntryFits(e, n)' OBVIOUS
  <3>2. EntryFits(led[n], n) /\ (job.settled => n \notin out)
   BY <1>1, <1>4, <3>1 DEF SandboxInv, SessionTrue, EntryTrue, SweepTrue
  <3>3. n \notin box' BY <1>5
  <3> QED BY <1>1, <2>1, <2>2, <3>1, <3>2, <3>3 DEF EntryFits, CreateOver, Settled
 <2>5. PICK d : /\ led' = [led EXCEPT ![n] = d]
                /\ n \in Sessions => /\ d \in LedgerEntry /\ (n \notin accepted => EntryFits(d, n)')
                                     /\ (n > last => d = NoEntry)
  <3>1. CASE ~Gone(e) BY <1>5, <2>2, <2>3, <2>4, <3>1
  <3>2. CASE Gone(e)
   <4>1. PICK c, f : c = CloseNotice(e) /\ f = [led EXCEPT ![n] = c] OBVIOUS
   <4>2. n \in Sessions => c \in LedgerEntry /\ c.sub = e.sub /\ c.how = e.how /\ c.gone = e.gone
    BY <2>2, <4>1, CloseNoticeSays
   <4>3. n \in Sessions => c \in LedgerEntry /\ Gone(c) /\ (n \notin accepted => EntryFits(c, n)')
    BY <2>4, <3>2, <4>2 DEF EntryFits, Gone, Settled
   <4>4. CleanUp(n, f) BY <1>5, <3>2, <4>1
   <4>5. ~(n \in Sessions /\ n > last) BY <2>3, <3>2 DEF Gone, NoEntry, Settled
   <4> QED BY <1>2, <4>1, <4>3, <4>4, <4>5, CleanUpSays
  <3> QED BY <3>1, <3>2
 <2>6. /\ led' \in [Sessions -> LedgerEntry] /\ \A g \in Sessions : led'[g] = IF g = n THEN d ELSE led[g]
  BY <1>2, <2>5, EntryPut
 <2>7. SandboxType' BY <1>1, <2>1, <2>6 DEF SandboxInv, SandboxType
 <2>8. ASSUME NEW g \in Sessions PROVE LaunchTrue(g)' /\ EndingTrue(g)' /\ SweepTrue(g)' BY <2>1, QuietClaims
 <2>9. box' \subseteq box BY <1>5
 <2> QED BY <1>1, <2>1, <2>5, <2>6, <2>7, <2>8, <2>9, EvidenceStep
<1> QED BY <1>3, <1>4, <1>5 DEF RestoreSweeps

------------------------------
(* The watchers, the gateway, a reboot and the operator. *)

\* What is claimed of a launch, an end and a sweep stands while no sandbox is made and the ledger and
\* the watchers of a generation under launch are left alone.
LEMMA ClaimsKept ==
  ASSUME SandboxInv, NEW g \in Sessions, UNCHANGED <<rec, out, job, accepted>>, box' \subseteq box,
    LaunchTrue(g) /\ g = rec.gen /\ job.pc \in BeforeCreate =>
        /\ ~Settled(led'[g]) /\ ~led'[g].gone /\ ~watch'[g].settled
        /\ led[g].sub => led'[g].sub
  PROVE  LaunchTrue(g)' /\ EndingTrue(g)' /\ SweepTrue(g)'
<1>1. LaunchTrue(g) /\ EndingTrue(g) /\ SweepTrue(g) BY DEF SandboxInv, SessionTrue
<1>2. EndingTrue(g)' /\ SweepTrue(g)' BY <1>1 DEF EndingTrue, SweepTrue
<1>3. {"record", "arm", "create"} \subseteq BeforeCreate BY DEF BeforeCreate
<1>4. LaunchTrue(g)' BY <1>1, <1>3 DEF LaunchTrue, Nowhere
<1> QED BY <1>2, <1>4

LEMMA WatcherStep ==
  ASSUME SandboxInv, NEW n \in Sessions, WatcherSteps(n)
  PROVE  SandboxInv'
<1>1. UNCHANGED <<rec, out, job, accepted, last>> /\ box' \subseteq box
 BY DEF WatcherSteps, WatcherWakes, WatcherMarks, WatcherLooks, WatcherKills, WatcherDeletes, WatcherWrites, store,
   world, history, past
<1>2. led \in [Sessions -> LedgerEntry] /\ watch \in [Sessions -> Watcher] /\ SessionTrue(n)
 BY DEF SandboxInv, SandboxType
<1>3. PICK v \in Watcher, c \in LedgerEntry : v = watch[n] /\ c = led[n] BY <1>2
<1>4. PICK w, e :
          /\ watch' = [watch EXCEPT ![n] = w] /\ w \in Watcher /\ led' = [led EXCEPT ![n] = e] /\ e \in LedgerEntry
          /\ w.settled => v.settled \/ Settled(c)
          /\ w.pc = "write" /\ w.deleted => n \notin box'
          /\ e.sub = c.sub /\ e.how = c.how
          /\ \/ e.gone = c.gone /\ (c = NoEntry => e = c)
             \/ v.pc = "write" /\ v.settled /\ v.deleted
 <2>1. led = [led EXCEPT ![n] = c] BY <1>2, <1>3
 <2>2. CASE WatcherWakes(n) \/ WatcherMarks(n) \/ WatcherKills(n)
  <3>1. PICK p \in {"mark", "look", "delete"} : led' = led /\ watch' = [watch EXCEPT ![n].pc = p]
   BY <2>2 DEF WatcherWakes, WatcherMarks, WatcherKills, WatcherGo, store
  <3>2. PICK w : w = [v EXCEPT !.pc = p] OBVIOUS
  <3>3. w \in Watcher /\ w.pc = p /\ w.settled = v.settled BY <3>2 DEF Watcher
  <3>4. watch' = [watch EXCEPT ![n] = w] BY <1>3, <3>1, <3>2
  <3> QED BY <2>1, <3>1, <3>3, <3>4
 <2>3. CASE WatcherLooks(n)
  <3>1. PICK b \in BOOLEAN : b = Settled(c) BY DEF Settled
  <3>2. PICK w : w = [v EXCEPT !.pc = "kill", !.settled = b] OBVIOUS
  <3>3. w \in Watcher /\ w.pc = "kill" /\ w.settled = b BY <3>2 DEF Watcher
  <3>4. led' = led /\ watch' = [watch EXCEPT ![n] = w] BY <1>2, <1>3, <2>3, <3>1, <3>2 DEF WatcherLooks, store
  <3> QED BY <2>1, <3>1, <3>3, <3>4
 <2>4. CASE WatcherDeletes(n)
  <3>1. PICK y, z : y = [v EXCEPT !.pc = "write", !.deleted = TRUE] /\ z = [v EXCEPT !.pc = "write", !.deleted = FALSE]
   OBVIOUS
  <3>2. /\ y \in Watcher /\ y.settled = v.settled
        /\ z \in Watcher /\ z.settled = v.settled /\ ~z.deleted BY <3>1 DEF Watcher
  <3>3. led' = led /\ (watch' = [watch EXCEPT ![n] = y] \/ watch' = [watch EXCEPT ![n] = z])
   BY <1>2, <1>3, <2>4, <3>1 DEF WatcherDeletes, store
  <3>4. n \notin box' \/ watch' = [watch EXCEPT ![n] = z] BY <1>2, <1>3, <2>4, <3>1 DEF WatcherDeletes, store
  <3>5. CASE watch' = [watch EXCEPT ![n] = z] BY <2>1, <3>2, <3>3, <3>5
  <3>6. CASE watch' = [watch EXCEPT ![n] = y] /\ n \notin box' BY <2>1, <3>2, <3>3, <3>6
  <3> QED BY <3>3, <3>4, <3>5, <3>6
 <2>5. CASE WatcherWrites(n)
  <3>1. CASE /\ v.deleted /\ v.settled /\ led' = [led EXCEPT ![n] = CloseNotice(PutGone(c))]
             /\ watch' = [watch EXCEPT ![n] = NoWatcher]
   <4>1. PICK d, e : d = PutGone(c) /\ e = CloseNotice(d) OBVIOUS
   <4>2. d \in LedgerEntry /\ d.sub = c.sub /\ d.how = c.how BY <4>1, PutGoneSays
   <4>3. e \in LedgerEntry /\ e.sub = c.sub /\ e.how = c.how BY <4>1, <4>2, CloseNoticeSays
   <4>4. v.pc = "write" /\ NoWatcher \in Watcher /\ ~NoWatcher.settled /\ NoWatcher.pc # "write"
    BY <1>3, <2>5 DEF WatcherWrites, NoWatcher, Watcher
   <4> QED BY <3>1, <4>1, <4>3, <4>4
  <3>2. CASE /\ watch' = [watch EXCEPT ![n].pc = "look"]
             /\ led' = led \/ (led' = [led EXCEPT ![n].alert = "open"] /\ c.sub)
   <4>1. PICK w : w = [v EXCEPT !.pc = "look"] OBVIOUS
   <4>2. w \in Watcher /\ w.pc = "look" /\ w.settled = v.settled BY <4>1 DEF Watcher
   <4>3. watch' = [watch EXCEPT ![n] = w] BY <1>2, <1>3, <3>2, <4>1
   <4>4. PICK e \in LedgerEntry : /\ led' = [led EXCEPT ![n] = e] /\ e.sub = c.sub /\ e.how = c.how /\ e.gone = c.gone
                                 /\ (e = c \/ c.sub)
    <5>1. PICK d : d = [c EXCEPT !.alert = "open"] OBVIOUS
    <5>2. d \in LedgerEntry /\ d.sub = c.sub /\ d.how = c.how /\ d.gone = c.gone BY <5>1 DEF LedgerEntry
    <5>3. led' = led \/ (led' = [led EXCEPT ![n] = d] /\ c.sub) BY <1>2, <1>3, <3>2, <5>1
    <5> QED BY <2>1, <5>2, <5>3
   <4>5. c.sub => c # NoEntry BY DEF NoEntry
   <4> QED BY <4>2, <4>3, <4>4, <4>5
  <3> QED BY <1>3, <2>5, <3>1, <3>2 DEF WatcherWrites, WatcherGo
 <2> QED BY <2>2, <2>3, <2>4, <2>5 DEF WatcherSteps
<1>5. /\ led' \in [Sessions -> LedgerEntry] /\ \A g \in Sessions : led'[g] = IF g = n THEN e ELSE led[g]
 BY <1>2, <1>4, EntryPut
<1>6. /\ watch' \in [Sessions -> Watcher] /\ \A g \in Sessions : watch'[g] = IF g = n THEN w ELSE watch[g]
 BY <1>2, <1>4, WatcherPut
<1>7. SandboxType' BY <1>1, <1>5, <1>6 DEF SandboxInv, SandboxType
<1>8. WatchersRead BY <1>3, <1>4, <1>6 DEF WatchersRead
<1>9. (n > last => e = NoEntry) /\ (n \notin accepted => EntryFits(e, n)')
 <2>1. n > last => c = NoEntry /\ ~v.settled BY <1>2, <1>3 DEF SessionTrue, UnlaunchedTrue
 <2>2. n \notin accepted => /\ EntryFits(c, n) /\ (v.settled => CreateOver(n))
                           /\ (v.pc = "write" /\ v.settled /\ v.deleted => n \notin box)
  BY <1>2, <1>3 DEF SessionTrue, EntryTrue, WatcherTrue
 <2>3. CreateOver(n) => CreateOver(n)' BY <1>1 DEF CreateOver
 <2> QED BY <1>1, <1>4, <2>1, <2>2, <2>3 DEF EntryFits, Settled
<1>10. ASSUME NEW g \in Sessions PROVE LaunchTrue(g)' /\ EndingTrue(g)' /\ SweepTrue(g)'
 <2>1. CASE g = n
  <3>1. LaunchTrue(g) /\ g = rec.gen /\ job.pc \in BeforeCreate =>
            /\ ~Settled(led'[g]) /\ ~led'[g].gone /\ ~watch'[g].settled
            /\ led[g].sub => led'[g].sub BY <1>3, <1>4, <1>5, <1>6, <2>1 DEF LaunchTrue, Settled
  <3> QED BY <1>1, <3>1, ClaimsKept
 <2>2. CASE g # n
  <3>1. led'[g] = led[g] /\ watch'[g] = watch[g] BY <1>5, <1>6, <2>2
  <3>2. LaunchTrue(g) /\ g = rec.gen /\ job.pc \in BeforeCreate =>
            /\ ~Settled(led'[g]) /\ ~led'[g].gone /\ ~watch'[g].settled
            /\ led[g].sub => led'[g].sub BY <3>1 DEF LaunchTrue
  <3> QED BY <1>1, <3>2, ClaimsKept
 <2> QED BY <2>1, <2>2
<1> QED BY <1>1, <1>5, <1>7, <1>8, <1>9, <1>10, EvidenceStep

\* A late create lands: nothing that was read says that it could not.
LEMMA CreateLandsStep ==
  ASSUME SandboxInv, NEW n \in Sessions, CreateLands(n)
  PROVE  SandboxInv'
<1>1. /\ UNCHANGED <<rec, led, watch, job, accepted, last>>
      /\ n \in out /\ out' = out \ {n} /\ box' = box \cup {n} BY DEF CreateLands, store, history, past
<1>2. SandboxType' BY <1>1 DEF SandboxInv, SandboxType
<1>3. ASSUME NEW g \in Sessions PROVE SessionTrue(g)'
 <2>1. SessionTrue(g) BY DEF SandboxInv
 <2>2. CASE g = n
  <3>1. ~Nowhere(g) /\ ~CreateOver(g) /\ g \notin out' BY <1>1, <2>2 DEF Nowhere, CreateOver
  <3>2. UnlaunchedTrue(g)' /\ RecordTrue(g)' /\ SweepTrue(g)'
   BY <1>1, <2>1, <3>1 DEF SessionTrue, UnlaunchedTrue, RecordTrue, SweepTrue
  <3>3. EntryTrue(g)' /\ WatcherTrue(g)'
   BY <1>1, <2>1, <2>2, <3>1 DEF SessionTrue, EntryTrue, EntryFits, WatcherTrue, Settled
  <3>4. LaunchTrue(g)' BY <1>1, <2>1, <2>2, <3>1 DEF SessionTrue, LaunchTrue
  <3>5. EndingTrue(g)' BY <1>1, <2>1, <2>2 DEF SessionTrue, EndingTrue, EndSteps
  <3> QED BY <3>2, <3>3, <3>4, <3>5 DEF SessionTrue
 <2>3. CASE g # n
  <3>1. (g \in box' <=> g \in box) /\ (g \in out' <=> g \in out) BY <1>1, <2>3
  <3>2. (Nowhere(g) <=> Nowhere(g)') /\ (CreateOver(g) <=> CreateOver(g)') BY <1>1, <3>1 DEF Nowhere, CreateOver
  <3> QED
   BY <1>1, <2>1, <3>1, <3>2 DEF SessionTrue, UnlaunchedTrue, EntryTrue, EntryFits, WatcherTrue, RecordTrue,
     LaunchTrue, EndingTrue, SweepTrue
 <2> QED BY <2>2, <2>3
<1> QED BY <1>2, <1>3 DEF SandboxInv

\* A reboot takes the watchers, with what they read.
LEMMA RebootStep ==
  ASSUME SandboxInv, Reboot
  PROVE  SandboxInv'
<1>1. /\ UNCHANGED <<rec, led, box, out, accepted, last>> /\ job' = Idle
      /\ watch' = [g \in Sessions |-> NoWatcher] BY DEF Reboot, store, past
<1>2. job' \in Job /\ job'.pc \in QuietSteps /\ job'.pc \notin BeforeCreate BY <1>1, DoneAndFail DEF QuietSteps
<1>3. NoWatcher \in Watcher /\ ~NoWatcher.settled BY DEF NoWatcher, Watcher
<1>4. SandboxType' BY <1>1, <1>2, <1>3 DEF SandboxInv, SandboxType
<1>5. WatchersRead BY <1>1, <1>3 DEF WatchersRead
<1>6. 0 \notin Sessions /\ (\A g \in Sessions : led'[g] = IF g = 0 THEN NoEntry ELSE led[g]) BY <1>1 DEF Sessions
<1>7. ASSUME NEW g \in Sessions PROVE LaunchTrue(g)' /\ EndingTrue(g)' /\ SweepTrue(g)' BY <1>2, QuietClaims
<1>8. box' \subseteq box BY <1>1
<1> QED BY <1>1, <1>2, <1>4, <1>5, <1>6, <1>7, <1>8, EvidenceStep

\* The operator accepts the risk of a late create: nothing is claimed of it any more.
LEMMA SettleSandboxStep ==
  ASSUME SandboxInv, SettleSandbox
  PROVE  SandboxInv'
<1>1. UNCHANGED <<rec, box, out, watch, job, last>> /\ job = Idle BY DEF SettleSandbox, world
<1>2. PICK n \in Sessions : /\ led[n].sub /\ led' = [led EXCEPT ![n].how = "operator"] /\ accepted' = accepted \cup {n}
 BY DEF SettleSandbox
<1>3. led \in [Sessions -> LedgerEntry] /\ SessionTrue(n) BY DEF SandboxInv, SandboxType
<1>4. PICK c, e : c \in LedgerEntry /\ c = led[n] /\ e = [c EXCEPT !.how = "operator"] BY <1>3
<1>5. e \in LedgerEntry BY <1>4 DEF LedgerEntry
<1>6. led' = [led EXCEPT ![n] = e] BY <1>2, <1>3, <1>4
<1>7. /\ led' \in [Sessions -> LedgerEntry] /\ \A g \in Sessions : led'[g] = IF g = n THEN e ELSE led[g]
 BY <1>3, <1>5, <1>6, EntryPut
<1>8. SandboxType' /\ job'.pc \in QuietSteps BY <1>1, <1>7, DoneAndFail DEF SandboxInv, SandboxType
<1>9. ASSUME NEW g \in Sessions PROVE SessionTrue(g)'
 <2>1. SessionTrue(g) BY DEF SandboxInv
 <2>2. LaunchTrue(g)' /\ EndingTrue(g)' /\ SweepTrue(g)' BY <1>8, QuietClaims
 <2>3. CASE g = n
  <3>1. g \in accepted' /\ ~(g > last) BY <1>2, <1>3, <2>3 DEF SessionTrue, UnlaunchedTrue, NoEntry
  <3> QED BY <1>1, <2>2, <3>1 DEF SessionTrue, UnlaunchedTrue, EntryTrue, WatcherTrue, RecordTrue
 <2>4. CASE g # n
  <3>1. led'[g] = led[g] /\ (g \in accepted' <=> g \in accepted) BY <1>2, <1>7, <2>4
  <3> QED
   BY <1>1, <2>1, <2>2, <3>1 DEF SessionTrue, UnlaunchedTrue, EntryTrue, EntryFits, WatcherTrue, RecordTrue,
     Nowhere, CreateOver
 <2> QED BY <2>3, <2>4
<1> QED BY <1>8, <1>9 DEF SandboxInv

\* Every step of the sandbox session keeps the invariant.
LEMMA SandboxInvKept == SandboxInv /\ [SandboxNext]_sandboxVars => SandboxInv'
<1>1. SUFFICES ASSUME SandboxInv, [SandboxNext]_sandboxVars PROVE SandboxInv' OBVIOUS
<1>2. CASE UNCHANGED sandboxVars
 <2>1. UNCHANGED <<rec, job, led, box, out, watch, accepted, last>>
  BY <1>2 DEF sandboxVars, store, world, history, past
 <2> QED BY <1>1, <2>1, StillStep
<1>3. CASE JobSteps
 BY <1>1, <1>3, OperationStep, EndingStep, MoveStep, LaunchWritesStep, AdvancingStep, SubmitStep, ArmStep,
   CreateStep, UnsubmitStep, SettleCreateStep, EndLooksStep, EndDeletesStep, EndGoneStep, RestoreArmsStep,
   RestoreSweepsStep DEF JobSteps
<1>4. CASE Operations BY <1>1, <1>4, OperationStep, SettleSandboxStep DEF Operations
<1>5. CASE \E g \in Sessions : WatcherSteps(g) BY <1>1, <1>5, WatcherStep
<1>6. CASE SessionWorld BY <1>1, <1>6, OperationStep, WorldStep, CreateLandsStep, RebootStep DEF SessionWorld
<1> QED BY <1>1, <1>2, <1>3, <1>4, <1>5, <1>6 DEF SandboxNext

------------------------------
(* The sandbox session: its commits and its record. *)

\* The steps of a launch before and after its record says seeded, and those of an end.
UnseededSteps == {"seed", "submit", "record"}
SeededSteps == {"arm", "create", "unsubmit", "await", "settle", "created", "check", "test", "run"}
EndingSteps == {"look", "stop", "pane", "delete", "gone", "land", "ended"}
Starting == {"creating", "testing", "starting"}

WorkType ==
    /\ rec \in SessionRecords /\ job \in Job /\ last \in Nat /\ rec.gen \in {0, last} /\ intent \in Intents
    /\ fate \in [Sessions -> {"safe", "private"}] /\ wip \in [Sessions -> {0, 1}]
    /\ trash \in BOOLEAN /\ owed \subseteq Nat

\* Some commits are nowhere but in the session's directory, or where a resolve moved it.
Private == \E g \in Sessions : fate[g] = "private"

\* Private commits are in the directory of a seeded record, or the operator is discarding them.
PrivateTrue ==
    Private => \/ rec.seeded /\ git \in {"ahead", "diverged", "damaged"}
               \/ trash /\ intent.act = "discard" /\ intent.step \in {"imported", "moved"}

\* A blank record was not seeded and a running one was; an ended one with private commits
\* says that it is unlanded.
PhaseTrue ==
    /\ rec.phase = "none" => ~rec.seeded
    /\ rec.phase = "running" => rec.seeded
    /\ rec.phase = "ended" /\ Private => rec.unlanded

\* A resolve's intent, and how far the directory is.
IntentTrue ==
    /\ intent.step \in {"none", "confirmed", "removed"} => ~trash
    /\ intent.step = "confirmed" => rec.phase = "ended" /\ rec.unlanded
    /\ intent.step = "imported" /\ ~trash => rec.phase = "ended" /\ rec.unlanded
    /\ intent.step \in {"moved", "removed"} \/ trash => rec.phase = "none" /\ git = "none"
    /\ intent.step \in {"imported", "moved", "removed"} /\ Private => intent.act = "discard"
    /\ intent.step = "removed" => ~Private

\* The operation under way.
WorkLaunches ==
    /\ job.pc \in {"launch", "write"} \/ job.then = "launch" => intent.step = "none"
    /\ job.pc = "write" => rec.phase \in {"none", "ended"} /\ ~rec.mark
    /\ job.pc \in {"write", "seed"} => ~Private
    /\ job.pc \in UnseededSteps => rec.phase = "creating"
    /\ job.pc \in SeededSteps => rec.phase \in Starting /\ rec.seeded
WorkEnds ==
    /\ job.pc \in EndingSteps => rec.phase \notin {"none", "ended"}
    /\ job.pc \in {"gone", "land", "ended"} \/ (job.pc \in {"pane", "delete"} /\ job.kept) => rec.phase = "stopping"
    /\ job.pc = "ended" /\ Private => rec.unlanded
    /\ job.pc = "clear" /\ rec.gen \in Sessions => wip[rec.gen] = 1
WorkResolves ==
    /\ job.pc \in {"act", "imported"} => intent.step \in {"confirmed", "imported"} /\ ~trash
    /\ job.pc = "imported" /\ Private => intent.act = "discard"
    /\ job.pc = "move" => intent.step = "imported" /\ ~trash
    /\ job.pc = "moved" => intent.step = "imported" /\ trash
    /\ job.pc = "remove" => intent.step = "moved"
    /\ job.pc = "removed" => intent.step = "moved" /\ ~trash /\ ~Private
    /\ job.pc = "finish" => intent.step = "removed"

\* A lifetime stop's commit was made, or its directory resolved, or the record still says that it is owed.
OwedTrue == \A g \in Sessions : g \in owed => wip[g] = 1 \/ g \in resolved \/ (g = rec.gen /\ rec.mark)

WorkInv ==
    /\ WorkType /\ PrivateTrue /\ PhaseTrue /\ IntentTrue /\ WorkLaunches /\ WorkEnds /\ WorkResolves /\ OwedTrue

\* It says that no commit is lost, and that a lifetime stop's commit is made.
LEMMA WorkInvSays == WorkInv => LifetimeWipLands /\ NoCommitLost
<1>1. SUFFICES ASSUME WorkInv, NEW g \in Sessions
               PROVE  /\ g \in owed /\ last > g => wip[g] = 1 \/ g \in resolved
                      /\ fate[g] # "lost" BY DEF LifetimeWipLands, NoCommitLost
<1>2. wip[g] \in {0, 1} /\ fate[g] \in {"safe", "private"} /\ last \in Nat /\ (g = rec.gen => g = last)
 BY <1>1 DEF WorkInv, WorkType, Sessions
<1>3. g \in owed => wip[g] = 1 \/ g \in resolved \/ g = rec.gen BY <1>1 DEF WorkInv, OwedTrue
<1> QED BY <1>2, <1>3 DEF Sessions

LEMMA WorkBegins == SandboxInit => WorkInv
<1>1. SUFFICES ASSUME SandboxInit PROVE WorkInv OBVIOUS
<1>2. NoRecord \in SessionRecords /\ NoIntent \in Intents /\ Idle \in Job
 BY DoneAndFail DEF NoRecord, SessionRecords, Phases, EndCauses, NoIntent, Intents
<1>3. WorkType BY <1>1, <1>2 DEF SandboxInit, WorkType, NoRecord
<1>4. ~Private BY <1>1 DEF SandboxInit, Private
<1>5. /\ rec.phase = "none" /\ ~rec.seeded /\ intent.step = "none" /\ ~trash /\ job.pc = "idle" /\ job.then = "idle"
      /\ owed = {} BY <1>1 DEF SandboxInit, NoRecord, NoIntent, Idle
<1> QED
 BY <1>3, <1>4, <1>5 DEF WorkInv, PrivateTrue, PhaseTrue, IntentTrue, WorkLaunches, WorkEnds, WorkResolves,
   OwedTrue, UnseededSteps, SeededSteps, EndingSteps

workVars == <<rec, fate, git, trash, intent, wip, owed, last, resolved>>
WorkClaims == WorkLaunches /\ WorkEnds /\ WorkResolves

\* A step that leaves the commits, the record and the intent alone.
LEMMA WorkStep ==
  ASSUME WorkInv, UNCHANGED workVars, job' \in Job, WorkClaims'
  PROVE  WorkInv'
BY DEF WorkInv, WorkType, PrivateTrue, PhaseTrue, IntentTrue, OwedTrue, Private, workVars, WorkClaims

LEMMA WorkStill ==
  ASSUME WorkInv, UNCHANGED <<workVars, job>>
  PROVE  WorkInv'
BY DEF WorkInv, WorkType, PrivateTrue, PhaseTrue, IntentTrue, OwedTrue, Private, workVars, WorkLaunches, WorkEnds,
  WorkResolves

\* Steps at which nothing is claimed of the commits.
FreeSteps == {"idle", "restore", "sweep", "listed", "wip"}
LEMMA FreeClaims ==
  ASSUME job'.pc \in FreeSteps, job'.then # "launch" \/ intent'.step = "none"
  PROVE  WorkClaims'
BY DEF FreeSteps, WorkClaims, WorkLaunches, WorkEnds, WorkResolves, UnseededSteps, SeededSteps, EndingSteps

\* The end of an operation.
LEMMA DoneClaims ==
  ASSUME job' = Idle
  PROVE  job' \in Job /\ WorkClaims'
<1>1. job'.pc \in FreeSteps /\ job'.then # "launch" BY DEF Idle, FreeSteps
<1> QED BY <1>1, DoneAndFail, FreeClaims

\* The beginning of an end.
LEMMA LookClaims ==
  ASSUME job'.pc = "look", rec'.phase \notin {"none", "ended"}, job'.then # "launch" \/ intent'.step = "none"
  PROVE  WorkClaims'
BY DEF WorkClaims, WorkLaunches, WorkEnds, WorkResolves, UnseededSteps, SeededSteps

LEMMA FailClaims ==
  ASSUME Fail, rec'.phase \notin {"none", "ended"}
  PROVE  job' \in Job /\ WorkClaims'
<1>1. job' = [pc |-> "look", todo |-> {}, then |-> "idle", why |-> "refused", lifetime |-> FALSE,
              proof |-> FALSE, settled |-> FALSE, alive |-> FALSE, kept |-> TRUE] BY DEF Fail, Idle
<1>2. job'.pc = "look" /\ job'.then # "launch" BY <1>1
<1>3. job' \in Job BY DoneAndFail DEF Fail
<1> QED BY <1>2, <1>3, LookClaims

\* The world's steps, and those of the watchers and the operator's settlement.
LEMMA WorldKeepsWork ==
  ASSUME WorkInv,
    \/ AgentDies \/ Restart \/ SettleSandbox
    \/ \E g \in Sessions : WatcherSteps(g) \/ CreateLands(g) \/ Tick(g)
  PROVE  WorkInv'
<1>1. UNCHANGED <<workVars, job>>
 BY DEF AgentDies, Restart, SettleSandbox, WatcherSteps, CreateLands, Tick, WatcherWakes, WatcherMarks,
   WatcherLooks, WatcherKills, WatcherDeletes, WatcherWrites, workVars, store, world, history, past
<1> QED BY <1>1, WorkStill

\* The agent commits while its session runs.
LEMMA CommitsKeepWork ==
  ASSUME WorkInv, AgentCommits
  PROVE  WorkInv'
<1>1. /\ UNCHANGED <<rec, trash, intent, wip, owed, last, resolved, job>> /\ rec.phase = "running"
      /\ git' \in {"ahead", "diverged", "damaged"} /\ fate' = [fate EXCEPT ![rec.gen] = "private"]
 BY DEF AgentCommits, store, history, past
<1>2. WorkType' BY <1>1 DEF WorkInv, WorkType
<1>3. rec.seeded /\ intent.step = "none" /\ ~trash BY <1>1 DEF WorkInv, WorkType, PhaseTrue, IntentTrue, Intents
<1>4. PrivateTrue' /\ PhaseTrue' /\ IntentTrue' /\ OwedTrue'
 BY <1>1, <1>3 DEF WorkInv, PrivateTrue, PhaseTrue, IntentTrue, OwedTrue
<1>5. job.pc \notin {"write", "seed", "ended", "imported", "removed"}
 BY <1>1, <1>3 DEF WorkInv, WorkLaunches, WorkEnds, WorkResolves, UnseededSteps
<1>6. WorkLaunches' /\ WorkEnds' /\ WorkResolves' BY <1>1, <1>5 DEF WorkInv, WorkLaunches, WorkEnds, WorkResolves
<1> QED BY <1>2, <1>4, <1>6 DEF WorkInv

\* The steps that begin and list, and a crash: nothing is claimed yet, or a session that has not ended is ended.
LEMMA BeginsKeepWork ==
  ASSUME WorkInv,
    \/ SessionsBegin \/ LaunchBegin \/ RestoreDone \/ Listed \/ Stop \/ Expire \/ SandboxReconcile
    \/ WsdCrash \/ Reboot \/ Launch
  PROVE  WorkInv'
<1>1. UNCHANGED workVars
 BY DEF SessionsBegin, LaunchBegin, RestoreDone, Listed, Stop, Expire, SandboxReconcile, WsdCrash, Reboot, Launch,
   workVars, store, world, history, past
<1>2. job \in Job /\ intent \in Intents /\ rec \in SessionRecords BY DEF WorkInv, WorkType
<1>3. intent' = intent /\ rec' = rec BY <1>1 DEF workVars
<1>4. CASE job' = Idle BY <1>1, <1>4, DoneClaims, WorkStep
<1>5. ASSUME NEW why \in {"died", "stopped", "lifetime"}, NEW l \in BOOLEAN, NEW q \in BOOLEAN,
  NEW then \in {"idle", "launch"}, End(why, l, q, then), rec.phase \notin {"none", "ended"}
      PROVE  WorkInv'
 <2>1. why \in EndCauses BY DEF EndCauses
 <2>2. job' \in Job BY <1>5, <2>1, EndTypes
 <2>3. job' = [pc |-> "look", todo |-> {}, then |-> then, why |-> why, lifetime |-> l,
               proof |-> q, settled |-> FALSE, alive |-> FALSE, kept |-> TRUE] BY <1>5 DEF End, Idle
 <2>4. intent.step = "none" BY <1>2, <1>5 DEF WorkInv, IntentTrue, Intents
 <2>5. WorkClaims' BY <1>3, <1>5, <2>3, <2>4, LookClaims
 <2> QED BY <1>1, <2>2, <2>5, WorkStep
<1>6. PICK o \in BOOLEAN : o = Overdue BY DEF Overdue
<1>7. CASE SessionsBegin \/ LaunchBegin
 <2>1. PICK n \in SUBSET Sessions : n = Names BY DEF Names
 <2>2. PICK t \in {"listed", "launch"} :
           /\ job' = [pc |-> "restore", todo |-> n, then |-> t, why |-> "none", lifetime |-> FALSE,
                      proof |-> FALSE, settled |-> FALSE, alive |-> FALSE, kept |-> TRUE]
           /\ t = "launch" => intent.step = "none" BY <1>7, <2>1 DEF SessionsBegin, LaunchBegin, Idle
 <2>3. job' \in Job /\ job'.pc = "restore" /\ job'.then = t BY <2>2 DEF Job, Steps, EndCauses
 <2>4. WorkClaims' BY <1>3, <2>2, <2>3, FreeClaims DEF FreeSteps
 <2> QED BY <1>1, <2>3, <2>4, WorkStep
<1>8. CASE RestoreDone
 <2>1. job.then \in Steps /\ job.then \in {"idle", "listed", "launch"} BY <1>2 DEF Job, Steps
 <2>2. job' \in Job /\ job'.pc = job.then /\ job'.then = job.then
  BY <1>2, <1>8, <2>1, GoTypes, GoSays DEF RestoreDone, Go
 <2>3. job.then = "launch" => intent.step = "none" BY DEF WorkInv, WorkLaunches
 <2>4. WorkClaims'
  BY <1>3, <2>1, <2>2, <2>3 DEF WorkClaims, WorkLaunches, WorkEnds, WorkResolves, UnseededSteps, SeededSteps,
    EndingSteps
 <2> QED BY <1>1, <2>2, <2>4, WorkStep
<1>9. CASE Expire \/ SandboxReconcile
 <2>1. CASE job' = [Idle EXCEPT !.pc = "wip"]
  <3>1. Idle \in Job /\ "wip" \in Steps /\ Idle.then = "idle" BY DoneAndFail DEF Steps, Idle
  <3>2. job' \in Job BY <2>1, <3>1, GoTypes
  <3>3. job'.pc = "wip" /\ job'.then = "idle" BY <2>1, <3>1, <3>2, GoSays
  <3>4. WorkClaims' BY <3>3, FreeClaims DEF FreeSteps
  <3> QED BY <1>1, <3>2, <3>4, WorkStep
 <2>2. CASE Expire BY <1>5, <2>1, <2>2 DEF Expire
 <2>3. CASE SandboxReconcile BY <1>5, <2>1, <2>3 DEF SandboxReconcile
 <2> QED BY <1>9, <2>2, <2>3
<1>10. CASE Listed BY <1>4, <1>5, <1>6, <1>10 DEF Listed, Done
<1>11. CASE Stop BY <1>5, <1>11 DEF Stop
<1>12. CASE WsdCrash \/ Reboot BY <1>4, <1>12 DEF WsdCrash, Reboot
<1>13. CASE Launch
 <2>1. intent.step = "none" /\ ~trash BY <1>13 DEF WorkInv, WorkLaunches, IntentTrue, Launch
 <2>2. CASE job' = [job EXCEPT !.pc = "wip", !.then = "launch"]
  <3>1. job' \in Job /\ job'.pc = "wip" BY <1>2, <2>2 DEF Job, Steps
  <3>2. WorkClaims' BY <1>3, <2>1, <3>1, FreeClaims DEF FreeSteps
  <3> QED BY <1>1, <3>1, <3>2, WorkStep
 <2>3. CASE /\ job' = [job EXCEPT !.pc = "write"] /\ rec.phase \in {"none", "ended"} /\ ~rec.unlanded /\ ~rec.mark
            /\ ~(rec.phase = "none" /\ git # "none")
  <3>1. job' \in Job /\ job'.pc = "write" /\ job'.then = job.then BY <1>2, <2>3 DEF Job, Steps
  <3>2. ~Private BY <2>1, <2>3 DEF WorkInv, PrivateTrue, PhaseTrue
  <3>3. ~Private' BY <1>1, <3>2 DEF Private, workVars
  <3>4. WorkClaims'
   BY <1>3, <2>1, <2>3, <3>1, <3>3 DEF WorkClaims, WorkLaunches, WorkEnds, WorkResolves, UnseededSteps, SeededSteps,
     EndingSteps
  <3> QED BY <1>1, <3>1, <3>4, WorkStep
 <2> QED BY <1>4, <1>5, <1>6, <1>13, <2>2, <2>3 DEF Launch, Done, Go
<1> QED BY <1>7, <1>8, <1>9, <1>10, <1>11, <1>12, <1>13

\* The restore of the ledger.
LEMMA RestoreKeepsWork ==
  ASSUME WorkInv, RestoreArms \/ RestoreSweeps
  PROVE  WorkInv'
<1>1. UNCHANGED workVars BY DEF RestoreArms, RestoreSweeps, workVars, world, history, past
<1>2. job \in Job /\ job.pc \in {"restore", "sweep"} /\ (job.then = "launch" => intent.step = "none") /\ intent' = intent
 BY <1>1 DEF WorkInv, WorkType, WorkLaunches, RestoreArms, RestoreSweeps, workVars
<1>3. CASE job' = Idle BY <1>1, <1>3, DoneClaims, WorkStep
<1>4. CASE /\ job' \in Job /\ job'.then = job.then /\ job'.pc \in {"restore", "sweep"}
 <2>1. WorkClaims' BY <1>2, <1>4, FreeClaims DEF FreeSteps
 <2> QED BY <1>1, <1>4, <2>1, WorkStep
<1>5. PICK n : n = Min(job.todo) OBVIOUS
<1>6. PICK t \in SUBSET Sessions, b \in BOOLEAN : t = job.todo \ {n} /\ b = Settled(RecoverCreate(n))
 BY <1>2 DEF Job, Settled
<1>7. \/ job' = Idle \/ job' = [job EXCEPT !.pc = "restore", !.todo = t] \/ job' = [job EXCEPT !.todo = t]
      \/ job' = [job EXCEPT !.pc = "sweep", !.settled = b]
 BY <1>5, <1>6 DEF RestoreArms, RestoreSweeps, NextEntry, Done
<1>8. job' = Idle \/ (job' \in Job /\ job'.then = job.then /\ job'.pc \in {"restore", "sweep"})
 BY <1>2, <1>6, <1>7 DEF Job, Steps
<1> QED BY <1>3, <1>4, <1>8

\* A step of a launch or an end that only goes on.
LEMMA GoesOnKeepsWork ==
  ASSUME WorkInv, Submit \/ Arm \/ Create \/ Await \/ SettleCreate \/ EndLooks \/ EndPane \/ EndDeletes \/ EndGone
  PROVE  WorkInv'
<1>1. UNCHANGED workVars
 BY DEF Submit, Arm, Create, Await, SettleCreate, EndLooks, EndPane, EndDeletes, EndGone, workVars, store, world,
   history, past
<1>2. job \in Job /\ rec' = rec /\ intent' = intent /\ intent \in Intents BY <1>1 DEF WorkInv, WorkType, workVars
<1>3. rec.phase \notin {"none", "ended"}
 BY DEF WorkInv, WorkLaunches, WorkEnds, UnseededSteps, SeededSteps, EndingSteps, Starting, Submit, Arm, Create,
   Await, SettleCreate, EndLooks, EndPane, EndDeletes, EndGone
<1>4. intent.step = "none" BY <1>2, <1>3 DEF WorkInv, IntentTrue, Intents
<1>5. CASE Done BY <1>1, <1>5, DoneClaims, WorkStep DEF Done
<1>6. CASE Fail BY <1>1, <1>2, <1>3, <1>6, FailClaims, WorkStep
<1>7. ASSUME NEW p \in {"record", "create", "unsubmit", "await", "settle", "created", "stop", "delete", "gone", "land"},
  job' \in Job, job'.pc = p, job'.kept = job.kept,
  p = "record" => job.pc = "submit",
  p \in SeededSteps => job.pc \in SeededSteps,
  p = "delete" => job.pc = "pane",
  p = "gone" => job.pc = "delete" /\ job.kept,
  p = "land" => job.pc = "gone"
      PROVE  WorkInv'
 <2>1. WorkLaunches' BY <1>2, <1>4, <1>7 DEF WorkInv, WorkLaunches, UnseededSteps, SeededSteps
 <2>2. WorkEnds' BY <1>2, <1>3, <1>7 DEF WorkInv, WorkEnds
 <2>3. WorkResolves' BY <1>7 DEF WorkResolves
 <2> QED BY <1>1, <1>7, <2>1, <2>2, <2>3, WorkStep DEF WorkClaims
<1>8. CASE EndLooks
 <2>1. PICK b \in BOOLEAN, a \in BOOLEAN : b = Settled(RecoverCreate(rec.gen)) /\ a = Alive BY DEF Settled, Alive
 <2>2. job' = [job EXCEPT !.pc = "stop", !.settled = b, !.alive = a] BY <1>8, <2>1 DEF EndLooks
 <2>3. job' \in Job /\ job'.pc = "stop" /\ job'.kept = job.kept BY <1>2, <2>2 DEF Job, Steps
 <2> QED BY <1>7, <2>3 DEF SeededSteps
<1>9. CASE ~EndLooks /\ ~Done /\ ~Fail
 <2>1. PICK p \in {"record", "create", "unsubmit", "await", "settle", "created", "delete", "gone", "land"} :
           /\ Go(p)
           /\ p = "record" => job.pc = "submit"
           /\ p \in SeededSteps => job.pc \in SeededSteps
           /\ p = "delete" => job.pc = "pane"
           /\ p = "gone" => job.pc = "delete" /\ job.kept
           /\ p = "land" => job.pc = "gone"
  <3>1. CASE Submit BY <1>9, <3>1 DEF Submit, SeededSteps
  <3>2. CASE Arm BY <1>9, <3>2 DEF Arm, SeededSteps
  <3>3. CASE Create
   <4>1. job.pc = "create" /\ (Go("unsubmit") \/ Go("await")) BY <3>3 DEF Create
   <4> QED BY <4>1 DEF SeededSteps
  <3>4. CASE Await BY <1>9, <3>4 DEF Await, SeededSteps
  <3>5. CASE SettleCreate BY <3>5 DEF SettleCreate, SeededSteps
  <3>6. CASE EndPane BY <3>6 DEF EndPane, SeededSteps
  <3>7. CASE EndDeletes BY <1>9, <3>7 DEF EndDeletes, SeededSteps
  <3>8. CASE EndGone BY <3>8 DEF EndGone, SeededSteps
  <3> QED BY <1>9, <3>1, <3>2, <3>3, <3>4, <3>5, <3>6, <3>7, <3>8
 <2>2. job' \in Job /\ job'.pc = p /\ job'.kept = job.kept BY <1>2, <2>1, GoFrom DEF Steps
 <2> QED BY <1>7, <2>1, <2>2
<1> QED BY <1>5, <1>6, <1>8, <1>9

\* The new generation's record, once nothing is private and nothing is owed.
LEMMA LaunchWritesKeepsWork ==
  ASSUME WorkInv, LaunchWrites
  PROVE  WorkInv'
<1>1. UNCHANGED <<fate, git, trash, intent, wip, owed, resolved>> /\ job.pc = "write" BY DEF LaunchWrites, world, past
<1>2. CASE UNCHANGED <<rec, last>> /\ Done
 <2>1. UNCHANGED workVars BY <1>1, <1>2 DEF workVars
 <2> QED BY <1>2, <2>1, DoneClaims, WorkStep DEF Done
<1>3. CASE /\ rec' = [NoRecord EXCEPT !.gen = last + 1, !.phase = "creating"] /\ last' = last + 1
           /\ Go("seed")
 <2>1. job \in Job /\ "seed" \in Steps /\ last \in Nat BY DEF WorkInv, WorkType, Steps
 <2>2. PICK n \in Nat : n = last + 1 BY <2>1
 <2>3. job' \in Job /\ job'.pc = "seed" /\ job'.then = job.then BY <1>3, <2>1, GoFrom
 <2>4. rec' \in SessionRecords /\ rec'.gen = n /\ rec'.phase = "creating"
  BY <1>3, <2>2 DEF NoRecord, SessionRecords, Phases, EndCauses
 <2>5. WorkType' BY <1>1, <1>3, <2>2, <2>3, <2>4 DEF WorkInv, WorkType
 <2>6. ~Private /\ intent.step = "none" /\ ~trash /\ ~rec.mark BY <1>1 DEF WorkInv, WorkLaunches, IntentTrue
 <2>7. ~Private' BY <1>1, <2>6 DEF Private
 <2>8. PrivateTrue' /\ PhaseTrue' /\ IntentTrue' /\ WorkLaunches' /\ WorkEnds' /\ WorkResolves'
  BY <1>1, <2>3, <2>4, <2>6, <2>7 DEF PrivateTrue, PhaseTrue, IntentTrue, WorkLaunches, WorkEnds, WorkResolves,
    UnseededSteps, SeededSteps, EndingSteps
 <2>9. OwedTrue' BY <1>1, <2>6 DEF WorkInv, OwedTrue
 <2> QED BY <2>5, <2>8, <2>9 DEF WorkInv
<1> QED BY <1>2, <1>3 DEF LaunchWrites

\* Whatever is private is dropped by a kind.
LEMMA DroppedSays ==
  ASSUME fate \in [Sessions -> {"safe", "private"}]
  PROVE  /\ Dropped("safe") \in [Sessions -> {"safe", "private"}]
         /\ \A g \in Sessions : Dropped("safe")[g] # "private"
         /\ ~Private => Dropped("lost") = fate /\ Dropped("safe") = fate
BY DEF Dropped, Private

\* The seed takes a directory that holds nothing private.
LEMMA SeedKeepsWork ==
  ASSUME WorkInv, Seed
  PROVE  WorkInv'
<1>1. UNCHANGED <<rec, trash, intent, wip, owed, last, resolved>> /\ job.pc = "seed" BY DEF Seed, store, history, past
<1>2. rec.phase = "creating" /\ ~Private /\ job \in Job /\ intent \in Intents
 BY <1>1 DEF WorkInv, WorkType, WorkLaunches, UnseededSteps
<1>3. intent.step = "none" /\ ~trash BY <1>2 DEF WorkInv, IntentTrue, Intents
<1>4. CASE Fail /\ UNCHANGED <<git, fate>>
 <2>1. UNCHANGED workVars /\ rec'.phase \notin {"none", "ended"} BY <1>1, <1>2, <1>4 DEF workVars
 <2> QED BY <1>4, <2>1, FailClaims, WorkStep
<1>5. CASE fate' = Dropped("lost") /\ Go("submit")
 <2>1. fate' = fate /\ ~Private' BY <1>2, <1>5, DroppedSays DEF WorkInv, WorkType, Private
 <2>2. job' \in Job /\ job'.pc = "submit" /\ job'.then = job.then BY <1>2, <1>5, GoFrom DEF Steps
 <2>3. WorkType' BY <1>1, <2>1, <2>2 DEF WorkInv, WorkType
 <2>4. PrivateTrue' /\ PhaseTrue' /\ IntentTrue' /\ WorkLaunches' /\ WorkEnds' /\ WorkResolves'
  BY <1>1, <1>2, <1>3, <2>1, <2>2 DEF PrivateTrue, PhaseTrue, IntentTrue, WorkLaunches, WorkEnds, WorkResolves,
    UnseededSteps, SeededSteps, EndingSteps
 <2>5. OwedTrue' BY <1>1 DEF WorkInv, OwedTrue
 <2> QED BY <2>3, <2>4, <2>5 DEF WorkInv
<1> QED BY <1>4, <1>5 DEF Seed

\* A write of the record of a generation that has not ended.
LEMMA RecordKeepsWork ==
  ASSUME WorkInv, UNCHANGED <<fate, git, trash, intent, wip, last, resolved>>,
    rec.phase \notin {"none", "ended"}, rec' \in SessionRecords, rec'.phase \notin {"none", "ended"},
    rec'.gen = rec.gen, rec.mark => rec'.mark, rec.seeded => rec'.seeded, rec'.phase = "running" => rec'.seeded,
    \A g \in owed' : g \in owed \/ (g = rec.gen /\ rec'.mark),
    job' \in Job, WorkClaims'
  PROVE  WorkInv'
<1>1. intent.step = "none" /\ ~trash /\ rec.gen \in Nat BY DEF WorkInv, WorkType, IntentTrue, Intents, SessionRecords
<1>2. Private' <=> Private BY DEF Private
<1>3. WorkType' BY <1>1 DEF WorkInv, WorkType
<1>4. PrivateTrue' /\ PhaseTrue' /\ IntentTrue' BY <1>1, <1>2 DEF WorkInv, PrivateTrue, PhaseTrue, IntentTrue
<1>5. OwedTrue' BY DEF WorkInv, OwedTrue
<1> QED BY <1>3, <1>4, <1>5 DEF WorkInv, WorkClaims

\* The records of a launch.
LEMMA LaunchKeepsWork ==
  ASSUME WorkInv, RecordCreate \/ Unsubmit \/ RecordCreated \/ CheckCreated \/ Test \/ Run
  PROVE  WorkInv'
<1>1. UNCHANGED <<fate, git, trash, intent, wip, owed, last, resolved>>
 BY DEF RecordCreate, Unsubmit, RecordCreated, CheckCreated, Test, Run, Writes, world, history, past
<1>2. job \in Job /\ rec \in SessionRecords /\ intent \in Intents BY DEF WorkInv, WorkType
<1>3. rec.phase \in Starting /\ (~RecordCreate => rec.seeded)
 BY DEF WorkInv, WorkLaunches, UnseededSteps, SeededSteps, Starting, RecordCreate, Unsubmit, RecordCreated,
   CheckCreated, Test, Run, Writes
<1>4. rec.phase \notin {"none", "ended"} /\ intent.step = "none"
 BY <1>2, <1>3 DEF Starting, WorkInv, IntentTrue, Intents
<1>5. \/ rec' = rec \/ rec' = [rec EXCEPT !.seeded = TRUE, !.begun = TRUE] \/ rec' = [rec EXCEPT !.begun = FALSE]
      \/ rec' = [rec EXCEPT !.created = TRUE] \/ rec' = [rec EXCEPT !.phase = "testing"]
      \/ rec' = [rec EXCEPT !.phase = "starting"]
      \/ rec' = [rec EXCEPT !.phase = "running", !.started = TRUE] /\ ~RecordCreate /\ Done
 BY DEF RecordCreate, Unsubmit, RecordCreated, CheckCreated, Test, Run, Writes
<1>6. /\ rec' \in SessionRecords /\ rec'.gen = rec.gen /\ rec'.mark = rec.mark
      /\ rec'.phase \in Starting \cup {"running"} /\ (rec.seeded => rec'.seeded)
      /\ rec'.phase = "running" => rec.seeded /\ Done BY <1>2, <1>3, <1>5 DEF SessionRecords, Phases, Starting
<1>7. rec'.phase \notin {"none", "ended"} BY <1>6 DEF Starting
<1>8. job' \in Job /\ WorkClaims'
 <2>1. CASE Done BY <2>1, DoneClaims DEF Done
 <2>2. CASE Fail BY <1>7, <2>2, FailClaims
 <2>3. ASSUME NEW p \in {"arm", "check", "test", "run"}, Go(p), rec'.seeded, ~Done
       PROVE  job' \in Job /\ WorkClaims'
  <3>1. job' \in Job /\ job'.pc = p /\ job'.then = job.then BY <1>2, <2>3, GoFrom DEF Steps
  <3>2. rec'.phase \in Starting BY <1>6, <2>3
  <3>3. WorkClaims'
   BY <1>1, <1>4, <2>3, <3>1, <3>2 DEF WorkClaims, WorkLaunches, WorkEnds, WorkResolves, UnseededSteps, SeededSteps,
     EndingSteps
  <3> QED BY <3>1, <3>3
 <2>4. CASE RecordCreate
  <3>1. rec' = [rec EXCEPT !.seeded = TRUE, !.begun = TRUE] => rec'.seeded BY <1>2 DEF SessionRecords
  <3> QED BY <2>1, <2>2, <2>3, <2>4, <3>1 DEF RecordCreate, Writes
 <2>5. CASE ~RecordCreate
  <3>1. rec'.seeded BY <1>3, <1>6, <2>5
  <3>2. \/ Done \/ Fail \/ \E p \in {"check", "test", "run"} : Go(p)
   BY <2>5 DEF Unsubmit, RecordCreated, CheckCreated, Test, Run, Writes
  <3> QED BY <2>1, <2>2, <2>3, <3>1, <3>2
 <2> QED BY <2>4, <2>5
<1> QED BY <1>1, <1>4, <1>6, <1>7, <1>8, RecordKeepsWork

\* The write of the cause, and of what a lifetime stop owes.
LEMMA EndWritesKeepsWork ==
  ASSUME WorkInv, EndWrites
  PROVE  WorkInv'
<1>1. UNCHANGED <<fate, git, trash, intent, wip, last, resolved>> /\ job.pc = "stop" BY DEF EndWrites, world, past
<1>2. job \in Job /\ rec \in SessionRecords /\ intent \in Intents BY DEF WorkInv, WorkType
<1>3. rec.phase \notin {"none", "ended"} BY <1>1 DEF WorkInv, WorkEnds, EndingSteps
<1>4. intent.step = "none" BY <1>2, <1>3 DEF WorkInv, IntentTrue, Intents
<1>5. CASE /\ rec' = rec /\ owed' = owed
           /\ Done \/ job' = [job EXCEPT !.pc = "pane", !.kept = FALSE]
 <2>1. UNCHANGED workVars BY <1>1, <1>5 DEF workVars
 <2>2. CASE Done BY <2>1, <2>2, DoneClaims, WorkStep DEF Done
 <2>3. CASE job' = [job EXCEPT !.pc = "pane", !.kept = FALSE]
  <3>1. job' \in Job /\ job'.pc = "pane" /\ ~job'.kept BY <1>2, <2>3 DEF Job, Steps
  <3>2. WorkClaims'
   BY <1>1, <1>3, <1>4, <1>5, <3>1 DEF WorkClaims, WorkLaunches, WorkEnds, WorkResolves, UnseededSteps, SeededSteps
  <3> QED BY <2>1, <3>1, <3>2, WorkStep
 <2> QED BY <1>5, <2>2, <2>3
<1>6. CASE /\ rec' = Stopping /\ Go("pane") /\ owed' = IF Stopping.mark THEN owed \cup {rec.gen} ELSE owed
 <2>1. PICK l \in BOOLEAN : l = (job.lifetime \/ rec.lifetime) OBVIOUS
 <2>2. PICK c \in EndCauses : c = Cause(job.alive, rec.gen \in markers) BY <1>2 DEF Cause, Job, EndCauses
 <2>3. PICK m \in BOOLEAN : m = (rec.mark \/ l) OBVIOUS
 <2>4. PICK d \in EndCauses : d = IF rec.cause = "none" THEN c ELSE rec.cause BY <1>2 DEF SessionRecords
 <2>5. rec' = [rec EXCEPT !.phase = "stopping", !.lifetime = l, !.mark = m, !.cause = d]
  BY <1>2, <1>6, <2>1, <2>2, <2>3, <2>4 DEF Stopping
 <2>6. /\ rec' \in SessionRecords /\ rec'.gen = rec.gen /\ rec'.phase = "stopping" /\ rec'.seeded = rec.seeded
       /\ rec'.mark = m BY <1>2, <2>5 DEF SessionRecords, Phases
 <2>7. rec.mark => rec'.mark BY <2>3, <2>6
 <2>8. \A g \in owed' : g \in owed \/ (g = rec.gen /\ rec'.mark) BY <1>6
 <2>9. job' \in Job /\ job'.pc = "pane" /\ job'.then = job.then BY <1>2, <1>6, GoFrom DEF Steps
 <2>10. WorkClaims'
  BY <1>1, <1>4, <2>6, <2>9 DEF WorkClaims, WorkLaunches, WorkEnds, WorkResolves, UnseededSteps, SeededSteps
 <2> QED BY <1>1, <1>3, <2>6, <2>7, <2>8, <2>9, <2>10, RecordKeepsWork
<1> QED BY <1>5, <1>6 DEF EndWrites

\* The branch takes the commits, or the record says that they are unlanded.
LEMMA EndLandsKeepsWork ==
  ASSUME WorkInv, EndLands
  PROVE  WorkInv'
<1>1. UNCHANGED <<trash, intent, wip, owed, last, resolved>> /\ job.pc = "land" /\ Go("ended")
 BY DEF EndLands, history, past
<1>2. job \in Job /\ rec \in SessionRecords /\ intent \in Intents /\ fate \in [Sessions -> {"safe", "private"}]
 BY DEF WorkInv, WorkType
<1>3. rec.phase = "stopping" BY <1>1 DEF WorkInv, WorkEnds
<1>4. intent.step = "none" /\ ~trash BY <1>2, <1>3 DEF WorkInv, IntentTrue, Intents
<1>5. job' \in Job /\ job'.pc = "ended" /\ job'.then = job.then BY <1>1, <1>2, GoFrom DEF Steps
<1>6. Private => rec.seeded /\ git \in {"ahead", "diverged", "damaged"} BY <1>4 DEF WorkInv, PrivateTrue
<1>7. /\ rec' \in SessionRecords /\ rec'.gen = rec.gen /\ rec'.phase = "stopping" /\ rec'.mark = rec.mark
      /\ rec'.seeded = rec.seeded
 <2>1. rec' = rec \/ rec' = [rec EXCEPT !.unlanded = TRUE] BY DEF EndLands
 <2> QED BY <1>2, <1>3, <2>1 DEF SessionRecords
<1>8. /\ fate' \in [Sessions -> {"safe", "private"}]
      /\ Private' => Private /\ git' = git /\ rec'.unlanded
 <2>1. CASE (rec.unlanded \/ ~rec.seeded) /\ UNCHANGED <<rec, git, fate>> BY <1>2, <1>6, <2>1 DEF Private
 <2>2. CASE Landable /\ git = "ahead" /\ fate' = Dropped("safe") BY <1>2, <2>2, DroppedSays DEF Private
 <2>3. CASE Landable /\ git # "ahead" /\ fate' = fate BY <1>2, <1>6, <2>3 DEF Private, Landable
 <2>4. CASE rec' = [rec EXCEPT !.unlanded = TRUE] /\ UNCHANGED <<git, fate>>
  <3>1. rec'.unlanded BY <1>2, <2>4 DEF SessionRecords
  <3> QED BY <1>2, <2>4, <3>1 DEF Private
 <2> QED BY <2>1, <2>2, <2>3, <2>4 DEF EndLands
<1>9. WorkType' BY <1>1, <1>5, <1>7, <1>8 DEF WorkInv, WorkType
<1>10. PrivateTrue' /\ PhaseTrue' /\ IntentTrue' /\ WorkLaunches' /\ WorkEnds' /\ WorkResolves'
 BY <1>1, <1>4, <1>5, <1>6, <1>7, <1>8 DEF PrivateTrue, PhaseTrue, IntentTrue, WorkLaunches, WorkEnds, WorkResolves,
   UnseededSteps, SeededSteps
<1>11. OwedTrue' BY <1>1, <1>7 DEF WorkInv, OwedTrue
<1> QED BY <1>9, <1>10, <1>11 DEF WorkInv

\* The record says ended.
LEMMA EndEndsKeepsWork ==
  ASSUME WorkInv, EndEnds
  PROVE  WorkInv'
<1>1. UNCHANGED <<fate, git, trash, intent, wip, owed, last, resolved>> /\ job.pc = "ended"
 BY DEF EndEnds, world, history, past
<1>2. job \in Job /\ rec \in SessionRecords /\ intent \in Intents BY DEF WorkInv, WorkType
<1>3. CASE rec' = rec /\ Done
 <2>1. UNCHANGED workVars BY <1>1, <1>3 DEF workVars
 <2> QED BY <1>3, <2>1, DoneClaims, WorkStep DEF Done
<1>4. CASE rec' = [rec EXCEPT !.phase = "ended"] /\ Go("wip")
 <2>1. rec.phase = "stopping" /\ (Private => rec.unlanded) BY <1>1 DEF WorkInv, WorkEnds
 <2>2. intent.step = "none" /\ ~trash BY <1>2, <2>1 DEF WorkInv, IntentTrue, Intents
 <2>3. job' \in Job /\ job'.pc = "wip" BY <1>2, <1>4, GoFrom DEF Steps
 <2>4. /\ rec' \in SessionRecords /\ rec'.gen = rec.gen /\ rec'.phase = "ended" /\ rec'.mark = rec.mark
       /\ rec'.seeded = rec.seeded /\ rec'.unlanded = rec.unlanded BY <1>2, <1>4 DEF SessionRecords, Phases
 <2>5. Private' <=> Private BY <1>1 DEF Private
 <2>6. WorkType' BY <1>1, <2>3, <2>4 DEF WorkInv, WorkType
 <2>7. WorkClaims' BY <1>1, <2>2, <2>3, FreeClaims DEF FreeSteps
 <2>8. PrivateTrue' /\ PhaseTrue' /\ IntentTrue'
  BY <1>1, <2>1, <2>2, <2>4, <2>5 DEF WorkInv, PrivateTrue, PhaseTrue, IntentTrue
 <2>9. OwedTrue' BY <1>1, <2>4 DEF WorkInv, OwedTrue
 <2> QED BY <2>6, <2>7, <2>8, <2>9 DEF WorkInv, WorkClaims
<1> QED BY <1>3, <1>4 DEF EndEnds

\* The commit that a lifetime stop owes is made, and then its mark is cleared.
LEMMA WipKeepsWork ==
  ASSUME WorkInv, Wip \/ WipCleared
  PROVE  WorkInv'
<1>1. UNCHANGED <<fate, git, trash, intent, owed, last, resolved>> BY DEF Wip, WipCleared, store, world, history, past
<1>2. job \in Job /\ rec \in SessionRecords /\ intent \in Intents /\ wip \in [Sessions -> {0, 1}]
 BY DEF WorkInv, WorkType
<1>3. job.then = "launch" => intent.step = "none" BY DEF WorkInv, WorkLaunches
<1>4. Private' <=> Private BY <1>1 DEF Private
<1>5. ASSUME Follow PROVE job' \in Job /\ WorkClaims'
 <2>1. CASE job' = Idle BY <2>1, DoneClaims
 <2>2. CASE job.then = "launch" /\ Go("launch")
  <3>1. job' \in Job /\ job'.pc = "launch" BY <1>2, <2>2, GoFrom DEF Steps
  <3>2. intent'.step = "none" BY <1>1, <1>3, <2>2
  <3>3. WorkClaims'
   BY <3>1, <3>2 DEF WorkClaims, WorkLaunches, WorkEnds, WorkResolves, UnseededSteps, SeededSteps, EndingSteps
  <3> QED BY <3>1, <3>3
 <2> QED BY <1>5, <2>1, <2>2 DEF Follow, Done
<1>6. ASSUME Done PROVE job' \in Job /\ WorkClaims' BY <1>6, DoneClaims DEF Done
<1>7. CASE Wip
 <2>1. rec' = rec BY <1>7 DEF Wip, store
 <2>2. CASE wip' = wip /\ (Follow \/ Done)
  <3>1. UNCHANGED workVars BY <1>1, <2>1, <2>2 DEF workVars
  <3>2. job' \in Job /\ WorkClaims' BY <1>5, <2>2, DoneClaims DEF Done
  <3> QED BY <3>1, <3>2, WorkStep
 <2>3. CASE wip' = WipCommitted(rec.gen) /\ Go("clear")
  <3>1. PICK n : n = rec.gen OBVIOUS
  <3>2. wip' = [wip EXCEPT ![n] = 1] BY <2>3, <3>1 DEF WipCommitted
  <3>3. wip' \in [Sessions -> {0, 1}] /\ \A g \in Sessions : wip'[g] = IF g = n THEN 1 ELSE wip[g] BY <1>2, <3>2
  <3>4. job' \in Job /\ job'.pc = "clear" /\ job'.then = job.then BY <1>2, <2>3, GoFrom DEF Steps
  <3>5. WorkType' BY <1>1, <2>1, <3>3, <3>4 DEF WorkInv, WorkType
  <3>6. PrivateTrue' /\ PhaseTrue' /\ IntentTrue' BY <1>1, <1>4, <2>1 DEF WorkInv, PrivateTrue, PhaseTrue, IntentTrue
  <3>7. WorkLaunches' /\ WorkEnds' /\ WorkResolves'
   BY <1>1, <1>3, <2>1, <3>1, <3>3, <3>4 DEF WorkLaunches, WorkEnds, WorkResolves, UnseededSteps, SeededSteps,
     EndingSteps
  <3>8. OwedTrue' BY <1>1, <2>1, <3>3 DEF WorkInv, OwedTrue
  <3> QED BY <3>5, <3>6, <3>7, <3>8 DEF WorkInv
 <2> QED BY <1>7, <2>2, <2>3 DEF Wip
<1>8. CASE WipCleared
 <2>1. wip' = wip /\ job.pc = "clear" BY <1>8 DEF WipCleared, world
 <2>2. job' \in Job /\ WorkClaims' BY <1>5, <1>6, <1>8 DEF WipCleared
 <2>3. CASE rec' = rec
  <3>1. UNCHANGED workVars BY <1>1, <2>1, <2>3 DEF workVars
  <3> QED BY <2>2, <3>1, WorkStep
 <2>4. CASE rec' = [rec EXCEPT !.mark = FALSE]
  <3>1. /\ rec' \in SessionRecords /\ rec'.gen = rec.gen /\ rec'.phase = rec.phase
        /\ rec'.seeded = rec.seeded /\ rec'.unlanded = rec.unlanded BY <1>2, <2>4 DEF SessionRecords
  <3>2. WorkType' BY <1>1, <2>1, <2>2, <3>1 DEF WorkInv, WorkType
  <3>3. PrivateTrue' /\ PhaseTrue' /\ IntentTrue' BY <1>1, <1>4, <3>1 DEF WorkInv, PrivateTrue, PhaseTrue, IntentTrue
  <3>4. OwedTrue' BY <1>1, <2>1, <3>1 DEF WorkInv, OwedTrue, WorkEnds
  <3> QED BY <2>2, <3>2, <3>3, <3>4 DEF WorkInv, WorkClaims
 <2> QED BY <1>8, <2>3, <2>4 DEF WipCleared
<1> QED BY <1>7, <1>8

------------------------------
(* The resolve of an unlanded session. *)

\* A checkpoint of the intent.
LEMMA IntentSteps ==
  ASSUME NEW i \in Intents, NEW p \in {"imported", "moved", "removed"}
  PROVE  /\ [i EXCEPT !.step = p] \in Intents
         /\ [i EXCEPT !.step = p].step = p /\ [i EXCEPT !.step = p].act = i.act
BY DEF Intents

\* The operator chooses, once or again.
LEMMA ResolveKeepsWork ==
  ASSUME WorkInv, Resolve \/ ResolveAgain
  PROVE  WorkInv'
<1>1. UNCHANGED <<rec, fate, git, trash, wip, owed, last, resolved>> /\ job = Idle
 BY DEF Resolve, ResolveAgain, store, world, history, past
<1>2. job \in Job /\ job.then = "idle" /\ intent \in Intents BY <1>1, DoneAndFail DEF WorkInv, WorkType, Idle
<1>3. Private' <=> Private BY <1>1 DEF Private
<1>4. CASE Resolve
 <2>1. PICK a \in {"land", "keep", "discard"} : intent' = [step |-> "confirmed", act |-> a] BY <1>4 DEF Resolve
 <2>2. intent' \in Intents /\ intent'.step = "confirmed" BY <2>1 DEF Intents
 <2>3. job' \in Job /\ job'.pc = "act" /\ job'.then = "idle" BY <1>2, <1>4, GoFrom DEF Resolve, Steps
 <2>4. rec.phase = "ended" /\ rec.unlanded /\ intent.step = "none" BY <1>4 DEF Resolve
 <2>5. ~trash BY <2>4 DEF WorkInv, IntentTrue
 <2>6. WorkType' BY <1>1, <2>2, <2>3 DEF WorkInv, WorkType
 <2>7. PrivateTrue' /\ PhaseTrue' /\ IntentTrue'
  BY <1>1, <1>3, <2>2, <2>4, <2>5 DEF WorkInv, PrivateTrue, PhaseTrue, IntentTrue
 <2>8. WorkLaunches' /\ WorkEnds' /\ WorkResolves'
  BY <1>1, <2>2, <2>3, <2>5 DEF WorkLaunches, WorkEnds, WorkResolves, UnseededSteps, SeededSteps, EndingSteps
 <2>9. OwedTrue' BY <1>1 DEF WorkInv, OwedTrue
 <2> QED BY <2>6, <2>7, <2>8, <2>9 DEF WorkInv
<1>5. CASE ResolveAgain
 <2>1. UNCHANGED workVars /\ intent' = intent BY <1>1, <1>5 DEF ResolveAgain, workVars, store
 <2>2. PICK p \in {"act", "moved", "remove", "finish", "idle"} :
           /\ Go(p)
           /\ p = "act" => intent.step \in {"confirmed", "imported"} /\ ~trash
           /\ p = "moved" => intent.step = "imported" /\ trash
           /\ p = "remove" => intent.step = "moved"
           /\ p = "finish" => intent.step = "removed" BY <1>5 DEF ResolveAgain
 <2>3. job' \in Job /\ job'.pc = p /\ job'.then = "idle" BY <1>2, <2>2, GoFrom DEF Steps
 <2>4. WorkLaunches' /\ WorkEnds' /\ WorkResolves'
  BY <1>1, <2>1, <2>2, <2>3 DEF WorkLaunches, WorkEnds, WorkResolves, UnseededSteps, SeededSteps, EndingSteps
 <2> QED BY <2>1, <2>3, <2>4, WorkStep DEF WorkClaims
<1> QED BY <1>4, <1>5

\* The import, and its checkpoint.
LEMMA ImportKeepsWork ==
  ASSUME WorkInv, Act \/ Imported
  PROVE  WorkInv'
<1>1. UNCHANGED <<rec, git, trash, wip, owed, last, resolved>> /\ job.pc \in {"act", "imported"}
 BY DEF Act, Imported, Checkpoint, store, world, history, past
<1>2. job \in Job /\ intent \in Intents /\ fate \in [Sessions -> {"safe", "private"}] BY DEF WorkInv, WorkType
<1>3. intent.step \in {"confirmed", "imported"} /\ ~trash /\ job.then # "launch"
 BY <1>1 DEF WorkInv, WorkResolves, WorkLaunches
<1>4. rec.phase = "ended" /\ rec.unlanded BY <1>3 DEF WorkInv, IntentTrue
<1>5. CASE Done /\ UNCHANGED <<fate, intent>>
 <2>1. UNCHANGED workVars BY <1>1, <1>5 DEF workVars
 <2> QED BY <1>5, <2>1, DoneClaims, WorkStep DEF Done
<1>6. CASE /\ intent' = intent /\ Go("imported")
           /\ fate' = IF intent.act = "discard" THEN fate ELSE Dropped("safe")
 <2>1. /\ intent' = intent /\ Go("imported")
       /\ fate' = IF intent.act = "discard" THEN fate ELSE Dropped("safe") BY <1>6
 <2>2. /\ fate' \in [Sessions -> {"safe", "private"}] /\ (Private' => Private /\ intent.act = "discard")
  BY <1>2, <2>1, DroppedSays DEF Private
 <2>3. job' \in Job /\ job'.pc = "imported" /\ job'.then = job.then BY <1>2, <2>1, GoFrom DEF Steps
 <2>4. WorkType' BY <1>1, <2>1, <2>2, <2>3 DEF WorkInv, WorkType
 <2>5. PrivateTrue' /\ PhaseTrue' /\ IntentTrue' BY <1>1, <2>1, <2>2 DEF WorkInv, PrivateTrue, PhaseTrue, IntentTrue
 <2>6. WorkLaunches' /\ WorkEnds' /\ WorkResolves'
  BY <1>1, <1>3, <2>1, <2>2, <2>3 DEF WorkLaunches, WorkEnds, WorkResolves, UnseededSteps, SeededSteps, EndingSteps
 <2>7. OwedTrue' BY <1>1 DEF WorkInv, OwedTrue
 <2> QED BY <2>4, <2>5, <2>6, <2>7 DEF WorkInv
<1>7. CASE /\ fate' = fate /\ Go("move") /\ intent' = [intent EXCEPT !.step = "imported"] /\ job.pc = "imported"
 <2>1. /\ fate' = fate /\ Go("move") /\ intent' = [intent EXCEPT !.step = "imported"] /\ job.pc = "imported" BY <1>7
 <2>2. intent' \in Intents /\ intent'.step = "imported" /\ intent'.act = intent.act BY <1>2, <2>1, IntentSteps
 <2>3. job' \in Job /\ job'.pc = "move" /\ job'.then = job.then BY <1>2, <2>1, GoFrom DEF Steps
 <2>4. (Private' <=> Private) /\ (Private => intent.act = "discard") BY <2>1 DEF Private, WorkInv, WorkResolves
 <2>5. WorkType' BY <1>1, <2>1, <2>2, <2>3 DEF WorkInv, WorkType
 <2>6. PrivateTrue' /\ PhaseTrue' /\ IntentTrue'
  BY <1>1, <1>3, <1>4, <2>2, <2>4 DEF WorkInv, PrivateTrue, PhaseTrue, IntentTrue
 <2>7. WorkLaunches' /\ WorkEnds' /\ WorkResolves'
  BY <1>1, <1>3, <2>2, <2>3 DEF WorkLaunches, WorkEnds, WorkResolves, UnseededSteps, SeededSteps, EndingSteps
 <2>8. OwedTrue' BY <1>1 DEF WorkInv, OwedTrue
 <2> QED BY <2>5, <2>6, <2>7, <2>8 DEF WorkInv
<1> QED BY <1>5, <1>6, <1>7 DEF Act, Imported, Checkpoint, store, world

\* One rename takes the directory and its record out of sight.
LEMMA MoveKeepsWork ==
  ASSUME WorkInv, Move
  PROVE  WorkInv'
<1>1. /\ UNCHANGED <<fate, wip, owed, last, intent>> /\ job.pc = "move" /\ Go("moved")
      /\ rec' = NoRecord /\ trash' = TRUE /\ git' = "none" /\ resolved' = resolved \cup {rec.gen} BY DEF Move
<1>2. job \in Job /\ intent.step = "imported" /\ job.then # "launch"
 BY <1>1 DEF WorkInv, WorkType, WorkResolves, WorkLaunches
<1>3. job' \in Job /\ job'.pc = "moved" /\ job'.then = job.then BY <1>1, <1>2, GoFrom DEF Steps
<1>4. rec' \in SessionRecords /\ rec'.gen = 0 /\ rec'.phase = "none" /\ ~rec'.seeded
 BY <1>1 DEF NoRecord, SessionRecords, Phases, EndCauses
<1>5. (Private' <=> Private) /\ (Private => intent.act = "discard") BY <1>1, <1>2 DEF Private, WorkInv, IntentTrue
<1>6. WorkType' BY <1>1, <1>3, <1>4 DEF WorkInv, WorkType
<1>7. PrivateTrue' /\ PhaseTrue' /\ IntentTrue' BY <1>1, <1>2, <1>4, <1>5 DEF PrivateTrue, PhaseTrue, IntentTrue
<1>8. WorkLaunches' /\ WorkEnds' /\ WorkResolves'
 BY <1>1, <1>2, <1>3 DEF WorkLaunches, WorkEnds, WorkResolves, UnseededSteps, SeededSteps, EndingSteps
<1>9. OwedTrue' BY <1>1 DEF WorkInv, OwedTrue
<1> QED BY <1>6, <1>7, <1>8, <1>9 DEF WorkInv

\* The last checkpoints, and the removal of what was moved.
LEMMA RemoveKeepsWork ==
  ASSUME WorkInv, Moved \/ RemoveTrash \/ Removed \/ SessionFinish
  PROVE  WorkInv'
<1>1. UNCHANGED <<rec, git, wip, owed, last, resolved>> /\ job.pc \in {"moved", "remove", "removed", "finish"}
 BY DEF Moved, RemoveTrash, Removed, SessionFinish, Checkpoint, store, world, history, past
<1>2. job \in Job /\ intent \in Intents /\ fate \in [Sessions -> {"safe", "private"}] /\ trash \in BOOLEAN
 BY DEF WorkInv, WorkType
<1>3. OwedTrue' BY <1>1 DEF WorkInv, OwedTrue
<1>4. /\ intent.step = CASE job.pc = "moved" -> "imported"
                         [] job.pc \in {"remove", "removed"} -> "moved"
                         [] job.pc = "finish" -> "removed"
      /\ job.pc = "moved" => trash BY <1>1 DEF WorkInv, WorkResolves
<1>5. job.then # "launch" BY <1>1, <1>4 DEF WorkInv, WorkLaunches
<1>6. rec.phase = "none" /\ git = "none" BY <1>1, <1>4 DEF WorkInv, IntentTrue
<1>7. CASE Done /\ UNCHANGED <<fate, trash, intent>>
 <2>1. UNCHANGED workVars BY <1>1, <1>7 DEF workVars
 <2> QED BY <1>7, <2>1, DoneClaims, WorkStep DEF Done
<1>8. CASE /\ job.pc = "moved" /\ UNCHANGED <<fate, trash>> /\ intent' = [intent EXCEPT !.step = "moved"] /\ Go("remove")
 <2>1. intent' \in Intents /\ intent'.step = "moved" /\ intent'.act = intent.act BY <1>2, <1>8, IntentSteps
 <2>2. job' \in Job /\ job'.pc = "remove" /\ job'.then = job.then BY <1>2, <1>8, GoFrom DEF Steps
 <2>3. (Private' <=> Private) BY <1>8 DEF Private
 <2>4. WorkType' BY <1>1, <1>8, <2>1, <2>2 DEF WorkInv, WorkType
 <2>5. PrivateTrue' /\ PhaseTrue' /\ IntentTrue'
  BY <1>1, <1>4, <1>6, <1>8, <2>1, <2>3 DEF WorkInv, PrivateTrue, PhaseTrue, IntentTrue
 <2>6. WorkLaunches' /\ WorkEnds' /\ WorkResolves'
  BY <1>5, <2>1, <2>2 DEF WorkLaunches, WorkEnds, WorkResolves, UnseededSteps, SeededSteps, EndingSteps
 <2> QED BY <1>3, <2>4, <2>5, <2>6 DEF WorkInv
<1>9. CASE RemoveTrash
 <2>1. /\ job.pc = "remove" /\ trash' = FALSE /\ intent' = intent /\ Go("removed")
       /\ fate' = Dropped(IF intent.act = "discard" THEN "safe" ELSE "lost") BY <1>9 DEF RemoveTrash, store
 <2>2. Private => intent.act = "discard" BY <1>4, <2>1 DEF WorkInv, IntentTrue
 <2>3. fate' \in [Sessions -> {"safe", "private"}] /\ ~Private' BY <1>2, <2>1, <2>2, DroppedSays DEF Private
 <2>4. job' \in Job /\ job'.pc = "removed" /\ job'.then = job.then BY <1>2, <2>1, GoFrom DEF Steps
 <2>5. WorkType' BY <1>1, <2>1, <2>3, <2>4 DEF WorkInv, WorkType
 <2>6. PrivateTrue' /\ PhaseTrue' /\ IntentTrue'
  BY <1>1, <1>4, <1>6, <2>1, <2>3 DEF WorkInv, PrivateTrue, PhaseTrue, IntentTrue
 <2>7. WorkLaunches' /\ WorkEnds' /\ WorkResolves'
  BY <1>4, <1>5, <2>1, <2>3, <2>4 DEF WorkLaunches, WorkEnds, WorkResolves, UnseededSteps, SeededSteps, EndingSteps
 <2> QED BY <1>3, <2>5, <2>6, <2>7 DEF WorkInv
<1>10. CASE /\ job.pc = "removed" /\ UNCHANGED <<fate, trash>> /\ intent' = [intent EXCEPT !.step = "removed"] /\ Go("finish")
 <2>1. intent' \in Intents /\ intent'.step = "removed" /\ intent'.act = intent.act BY <1>2, <1>10, IntentSteps
 <2>2. job' \in Job /\ job'.pc = "finish" /\ job'.then = job.then BY <1>2, <1>10, GoFrom DEF Steps
 <2>3. ~trash /\ ~Private /\ ~Private' BY <1>10 DEF Private, WorkInv, WorkResolves
 <2>4. WorkType' BY <1>1, <1>10, <2>1, <2>2 DEF WorkInv, WorkType
 <2>5. PrivateTrue' /\ PhaseTrue' /\ IntentTrue'
  BY <1>1, <1>6, <1>10, <2>1, <2>3 DEF WorkInv, PrivateTrue, PhaseTrue, IntentTrue
 <2>6. WorkLaunches' /\ WorkEnds' /\ WorkResolves'
  BY <1>5, <2>1, <2>2 DEF WorkLaunches, WorkEnds, WorkResolves, UnseededSteps, SeededSteps, EndingSteps
 <2> QED BY <1>3, <2>4, <2>5, <2>6 DEF WorkInv
<1>11. CASE SessionFinish
 <2>1. job.pc = "finish" /\ intent' = NoIntent /\ Done /\ UNCHANGED <<fate, trash>> BY <1>11 DEF SessionFinish, world
 <2>2. intent' \in Intents /\ intent'.step = "none" BY <2>1 DEF NoIntent, Intents
 <2>3. ~trash /\ ~Private /\ ~Private' BY <1>4, <2>1 DEF Private, WorkInv, IntentTrue
 <2>4. job' \in Job /\ WorkClaims' BY <2>1, DoneClaims DEF Done
 <2>5. WorkType' BY <1>1, <2>1, <2>2, <2>4 DEF WorkInv, WorkType
 <2>6. PrivateTrue' /\ PhaseTrue' /\ IntentTrue'
  BY <1>1, <1>6, <2>1, <2>2, <2>3 DEF WorkInv, PrivateTrue, PhaseTrue, IntentTrue
 <2> QED BY <1>3, <2>4, <2>5, <2>6 DEF WorkInv, WorkClaims
<1>12. CASE Moved BY <1>7, <1>8, <1>12 DEF Moved, Checkpoint, world
<1>13. CASE Removed BY <1>7, <1>10, <1>13 DEF Removed, Checkpoint, world
<1> QED BY <1>9, <1>11, <1>12, <1>13

\* Every step of the sandbox session keeps its commits.
LEMMA WorkInvKept == WorkInv /\ [SandboxNext]_sandboxVars => WorkInv'
<1>1. SUFFICES ASSUME WorkInv, [SandboxNext]_sandboxVars PROVE WorkInv' OBVIOUS
<1>2. CASE UNCHANGED sandboxVars
 <2>1. UNCHANGED <<workVars, job>> BY <1>2 DEF sandboxVars, workVars, store, world, history, past
 <2> QED BY <1>1, <2>1, WorkStill
<1>3. CASE JobSteps
 BY <1>1, <1>3, BeginsKeepWork, RestoreKeepsWork, GoesOnKeepsWork, LaunchWritesKeepsWork, SeedKeepsWork,
   LaunchKeepsWork, EndWritesKeepsWork, EndLandsKeepsWork, EndEndsKeepsWork, WipKeepsWork, ImportKeepsWork,
   MoveKeepsWork, RemoveKeepsWork DEF JobSteps
<1>4. CASE Operations BY <1>1, <1>4, BeginsKeepWork, WorldKeepsWork, ResolveKeepsWork DEF Operations
<1>5. CASE \E g \in Sessions : WatcherSteps(g) BY <1>1, <1>5, WorldKeepsWork
<1>6. CASE SessionWorld BY <1>1, <1>6, BeginsKeepWork, WorldKeepsWork, CommitsKeepWork DEF SessionWorld
<1> QED BY <1>1, <1>2, <1>3, <1>4, <1>5, <1>6 DEF SandboxNext

------------------------------
(* The sandbox session: the cause of its end. *)

StartingSteps == UnseededSteps \cup SeededSteps

CauseType ==
    /\ pane \in {"none", "live", "dead"} /\ due \in [Sessions -> Nat]
    /\ \A g \in receipts : g \in Nat /\ g <= last

\* The pane lives with its sandbox, never after a death, and neither under an ended record nor a receipt; a
\* watcher is past its wait only after the deadline, and past its kill no pane lives.
PaneTrue ==
    /\ rec.phase \in {"none", "ended"} => pane # "live"
    /\ pane = "live" => rec.gen \notin died /\ rec.gen \notin receipts
    /\ rec.started /\ pane = "live" => rec.gen \in box
WatchTrue ==
    \A g \in Sessions :
        /\ watch[g].pc \notin {"none", "wait"} => due[g] >= 2
        /\ g = rec.gen /\ rec.started /\ pane = "live" => watch[g].pc # "delete"

\* A session that started and has no cause yet is running; if its pane is not live, that was its own end, or
\* its watcher's, which marked it if it could.
StartedTrue ==
    /\ rec.phase = "running" <=> rec.started /\ rec.cause = "none"
    /\ rec.phase = "running" /\ pane # "live" => rec.gen \in died \cup unmarked \cup markers
    /\ rec.gen \in died /\ rec.gen \in markers \cup receipts => rec.gen \in confirmed
    /\ rec.gen \in receipts => rec.started

\* The operation under way.
CauseLaunches ==
    /\ job.pc \in StartingSteps => ~rec.started /\ rec.cause = "none"
    /\ job.pc \in StartingSteps \ {"run"} => pane # "live" /\ rec.gen \notin died
    /\ job.pc = "sweep" /\ Min(job.todo) = rec.gen => rec.phase \in {"none", "ended"}
CauseEnds ==
    /\ job.pc \in {"look", "stop"} =>
          /\ job.why # "none" /\ (job.why = "refused" => ~rec.started)
          /\ rec.phase = "running" /\ job.why = "died" => pane # "live"
          /\ rec.phase = "running" /\ job.proof => rec.gen \in markers \cup receipts
    /\ job.pc = "stop" /\ rec.phase = "running" =>
          IF job.alive THEN rec.gen \in died => rec.gen \in confirmed ELSE pane # "live"
    /\ job.pc = "pane" /\ rec.phase = "running" => rec.gen \in died \cup unmarked
    /\ job.pc \in {"delete", "gone", "land", "ended"} => pane # "live"
    /\ job.pc \in {"gone", "land", "ended"} \/ (job.pc \in {"pane", "delete"} /\ job.kept) => rec.cause # "none"

CauseInv == CauseType /\ PaneTrue /\ WatchTrue /\ StartedTrue /\ CauseLaunches /\ CauseEnds /\ EndCauseTrue

LEMMA CauseBegins == SandboxInit => CauseInv
<1>1. SUFFICES ASSUME SandboxInit PROVE CauseInv OBVIOUS
<1>2. /\ rec.phase = "none" /\ ~rec.started /\ job.pc = "idle" /\ pane = "none" /\ receipts = {} /\ markers = {}
      /\ \A g \in Sessions : watch[g].pc = "none" BY <1>1 DEF SandboxInit, NoRecord, Idle, NoWatcher
<1>3. due \in [Sessions -> Nat] BY <1>1 DEF SandboxInit
<1> QED
 BY <1>2, <1>3 DEF CauseInv, CauseType, PaneTrue, WatchTrue, StartedTrue, CauseLaunches, CauseEnds, EndCauseTrue,
   StartingSteps, UnseededSteps, SeededSteps

causeVars == <<rec, pane, markers, receipts, died, confirmed, unmarked, last>>
sightVars == <<box, due, watch>>
CauseClaims == CauseLaunches /\ CauseEnds

\* A step that leaves the record, the pane and the history alone.
LEMMA CauseStep ==
  ASSUME CauseInv, UNCHANGED <<causeVars, sightVars>>, CauseClaims'
  PROVE  CauseInv'
BY DEF CauseInv, CauseType, PaneTrue, WatchTrue, StartedTrue, EndCauseTrue, causeVars, sightVars, CauseClaims

LEMMA CauseSight ==
  ASSUME CauseInv, UNCHANGED causeVars, due' \in [Sessions -> Nat], WatchTrue',
    rec.started /\ pane = "live" /\ rec.gen \in box => rec.gen \in box', CauseClaims'
  PROVE  CauseInv'
BY DEF CauseInv, CauseType, PaneTrue, StartedTrue, EndCauseTrue, causeVars, CauseClaims

LEMMA ClaimsStill ==
  ASSUME CauseInv, UNCHANGED <<causeVars, job>>
  PROVE  CauseClaims'
BY DEF CauseInv, CauseLaunches, CauseEnds, causeVars, CauseClaims

LEMMA FreeCause ==
  ASSUME job'.pc \notin StartingSteps \cup EndingSteps \cup {"sweep"}
  PROVE  CauseClaims'
BY DEF EndingSteps, CauseLaunches, CauseEnds, CauseClaims

LEMMA IdleCause ==
  ASSUME job' = Idle
  PROVE  CauseClaims'
<1>1. job'.pc = "idle" BY DEF Idle
<1> QED BY <1>1, FreeCause DEF StartingSteps, UnseededSteps, SeededSteps, EndingSteps

\* The beginning of an end.
LEMMA LookCause ==
  ASSUME job'.pc = "look", job'.why # "none", job'.why = "refused" => ~rec'.started,
    rec'.phase = "running" /\ job'.why = "died" => pane' # "live",
    rec'.phase = "running" /\ job'.proof => rec'.gen \in markers' \cup receipts'
  PROVE  CauseClaims'
BY DEF CauseLaunches, CauseEnds, CauseClaims, StartingSteps, UnseededSteps, SeededSteps

LEMMA FailCause ==
  ASSUME Fail, ~rec'.started
  PROVE  CauseClaims'
<1>1. job' = [pc |-> "look", todo |-> {}, then |-> "idle", why |-> "refused", lifetime |-> FALSE,
              proof |-> FALSE, settled |-> FALSE, alive |-> FALSE, kept |-> TRUE] BY DEF Fail, Idle
<1>2. job'.pc = "look" /\ job'.why = "refused" /\ ~job'.proof BY <1>1
<1> QED BY <1>2, LookCause

LEMMA LaunchCause ==
  ASSUME job'.pc \in StartingSteps, ~rec'.started, rec'.cause = "none",
    job'.pc # "run" => pane' # "live" /\ rec'.gen \notin died'
  PROVE  CauseClaims'
BY DEF CauseLaunches, CauseEnds, CauseClaims, StartingSteps, UnseededSteps, SeededSteps

\* Steps that neither the record's cause nor the pane is about.
LEMMA OthersKeepCause ==
  ASSUME CauseInv, Restart \/ SettleSandbox \/ AgentCommits
  PROVE  CauseInv'
<1>1. UNCHANGED <<causeVars, sightVars, job>>
 BY DEF Restart, SettleSandbox, AgentCommits, causeVars, sightVars, store, world, history, past
<1> QED BY <1>1, ClaimsStill, CauseStep

\* The watchers, the gateway and the clock.
LEMMA WatchersKeepCause ==
  ASSUME CauseInv, WorkInv, SandboxInv, SandboxInv', NEW g \in Sessions,
    \/ WatcherWakes(g) \/ WatcherLooks(g) \/ WatcherWrites(g) \/ WatcherDeletes(g) \/ CreateLands(g) \/ Tick(g)
  PROVE  CauseInv'
<1>1. UNCHANGED <<causeVars, job>>
 BY DEF WatcherWakes, WatcherLooks, WatcherWrites, WatcherDeletes, CreateLands, Tick, causeVars, store, world,
   history, past
<1>2. /\ watch \in [Sessions -> Watcher] /\ watch' \in [Sessions -> Watcher] /\ due \in [Sessions -> Nat]
      /\ rec' = rec /\ pane' = pane BY <1>1 DEF SandboxInv, SandboxType, CauseInv, CauseType, causeVars
<1>3. CauseClaims' BY <1>1, ClaimsStill
<1>4. WatchTrue BY DEF CauseInv
<1>5. CASE CreateLands(g)
 <2>1. UNCHANGED <<due, watch>> /\ box \subseteq box' BY <1>5 DEF CreateLands
 <2>2. WatchTrue' BY <1>2, <1>4, <2>1 DEF WatchTrue
 <2> QED BY <1>1, <1>2, <1>3, <2>1, <2>2, CauseSight
<1>6. CASE Tick(g)
 <2>1. UNCHANGED <<box, watch>> /\ due' = [due EXCEPT ![g] = due[g] + 1] BY <1>6 DEF Tick
 <2>2. due' \in [Sessions -> Nat] /\ \A h \in Sessions : due[h] >= 2 => due'[h] >= 2 BY <1>2, <2>1
 <2>3. WatchTrue' BY <1>2, <1>4, <2>1, <2>2 DEF WatchTrue
 <2> QED BY <1>1, <1>2, <1>3, <2>1, <2>2, <2>3, CauseSight
<1>7. CASE ~CreateLands(g) /\ ~Tick(g)
 <2>1. due' = due BY <1>7 DEF WatcherWakes, WatcherLooks, WatcherWrites, WatcherDeletes, world
 <2>2. /\ \A h \in Sessions \ {g} : watch'[h] = watch[h]
       /\ \/ watch[g].pc = "wait" /\ due[g] >= 2 /\ watch'[g].pc = "mark"
          \/ watch[g].pc \in {"look", "delete", "write"} /\ watch'[g].pc \in {"kill", "write", "look", "none"}
  BY <1>2, <1>7 DEF WatcherWakes, WatcherLooks, WatcherWrites, WatcherDeletes, WatcherGo, Watcher, NoWatcher
 <2>3. WatchTrue' BY <1>2, <1>4, <2>1, <2>2 DEF WatchTrue
 <2>4. rec.started /\ pane = "live" /\ rec.gen \in box => rec.gen \in box'
  <3>1. CASE WatcherDeletes(g)
   <4>1. watch[g].pc = "delete" /\ box \ {g} \subseteq box' BY <3>1 DEF WatcherDeletes
   <4>2. ~(g = rec.gen /\ rec.started /\ pane = "live") BY <1>4, <4>1 DEF WatchTrue
   <4> QED BY <4>1, <4>2
  <3>2. CASE ~WatcherDeletes(g) BY <1>7, <3>2 DEF WatcherWakes, WatcherLooks, WatcherWrites, world
  <3> QED BY <3>1, <3>2
 <2> QED BY <1>1, <1>2, <1>3, <2>1, <2>3, <2>4, CauseSight
<1> QED BY <1>5, <1>6, <1>7

\* A watcher marks a session that it saw alive, and so one that has not died.
LEMMA MarksKeepCause ==
  ASSUME CauseInv, SandboxInv, SandboxInv', NEW g \in Sessions, WatcherMarks(g)
  PROVE  CauseInv'
<1>1. /\ UNCHANGED <<rec, pane, receipts, died, confirmed, unmarked, last, box, due, job>>
      /\ watch[g].pc = "mark" /\ watch' = [watch EXCEPT ![g].pc = "look"]
 BY DEF WatcherMarks, WatcherGo, world, history, past
<1>2. watch \in [Sessions -> Watcher] /\ watch' \in [Sessions -> Watcher] BY DEF SandboxInv, SandboxType
<1>3. /\ markers \subseteq markers' /\ markers' \subseteq markers \cup {g}
      /\ rec.gen \in markers' => rec.gen \in markers \/ (rec.phase = "running" /\ pane = "live")
 BY DEF WatcherMarks, Alive
<1>4. WatchTrue'
 <2>1. watch'[g].pc = "look" /\ \A h \in Sessions \ {g} : watch'[h] = watch[h] BY <1>1, <1>2 DEF Watcher
 <2> QED BY <1>1, <2>1 DEF CauseInv, WatchTrue
<1>5. CauseType' /\ PaneTrue' /\ EndCauseTrue' BY <1>1 DEF CauseInv, CauseType, PaneTrue, EndCauseTrue
<1>6. StartedTrue' BY <1>1, <1>3 DEF CauseInv, StartedTrue, PaneTrue
<1>7. CauseLaunches' /\ CauseEnds' BY <1>1, <1>3 DEF CauseInv, CauseLaunches, CauseEnds
<1> QED BY <1>4, <1>5, <1>6, <1>7 DEF CauseInv

LEMMA KillsKeepCause ==
  ASSUME CauseInv, SandboxInv, SandboxInv', NEW g \in Sessions, WatcherKills(g)
  PROVE  CauseInv'
<1>1. /\ UNCHANGED <<rec, markers, receipts, died, confirmed, last, box, due, job>>
      /\ watch[g].pc = "kill" /\ watch' = [watch EXCEPT ![g].pc = "delete"]
 BY DEF WatcherKills, WatcherGo, store, world, history, past
<1>2. watch \in [Sessions -> Watcher] /\ watch' \in [Sessions -> Watcher] BY DEF SandboxInv, SandboxType
<1>3. /\ unmarked \subseteq unmarked'
      /\ pane' = pane \/ (pane' = "dead" /\ (rec.gen \in markers \/ rec.gen \in unmarked'))
      /\ g = rec.gen /\ g \in box => pane' # "live" BY DEF WatcherKills
<1>4. PaneTrue' /\ CauseType' /\ EndCauseTrue' /\ StartedTrue'
 BY <1>1, <1>3 DEF CauseInv, CauseType, PaneTrue, EndCauseTrue, StartedTrue
<1>5. WatchTrue'
 <2>1. watch'[g].pc = "delete" /\ \A h \in Sessions \ {g} : watch'[h] = watch[h] BY <1>1, <1>2 DEF Watcher
 <2>2. due'[g] >= 2 BY <1>1 DEF CauseInv, WatchTrue
 <2>3. ~(g = rec'.gen /\ rec'.started /\ pane' = "live") BY <1>1, <1>3, <1>4 DEF PaneTrue
 <2> QED BY <1>1, <1>3, <2>1, <2>2, <2>3 DEF CauseInv, WatchTrue
<1>6. CauseLaunches' /\ CauseEnds' BY <1>1, <1>3 DEF CauseInv, CauseLaunches, CauseEnds
<1> QED BY <1>4, <1>5, <1>6 DEF CauseInv

\* The session ends by itself, or with the host.
LEMMA DeathsKeepCause ==
  ASSUME CauseInv, SandboxInv, AgentDies \/ Reboot
  PROVE  CauseInv'
<1>1. /\ UNCHANGED <<rec, markers, receipts, unmarked, last, box, due>> /\ pane' \in {"none", "dead"}
      /\ job' = job \/ job' = Idle BY DEF AgentDies, Reboot, store, world, history, past
<1>2. /\ died \subseteq died' /\ died' \subseteq died \cup {rec.gen} /\ confirmed \subseteq confirmed'
      /\ rec.cause # "none" => died' = died
      /\ pane = "live" /\ rec.cause = "none" => rec.gen \in died'
      /\ pane # "live" => died' = died
      /\ pane = "live" /\ rec.cause = "none" /\ (rec.gen \in markers \/ (job.pc = "stop" /\ job.alive)) => rec.gen \in confirmed'
 BY DEF AgentDies, Reboot, DiesItself
<1>3. CauseType' /\ PaneTrue' BY <1>1 DEF CauseInv, CauseType, PaneTrue
<1>4. WatchTrue'
 <2>1. \A h \in Sessions : watch'[h] = watch[h] \/ watch'[h].pc = "none" BY DEF AgentDies, Reboot, NoWatcher
 <2> QED BY <1>1, <2>1 DEF CauseInv, WatchTrue
<1>5. StartedTrue' /\ EndCauseTrue' BY <1>1, <1>2 DEF CauseInv, PaneTrue, StartedTrue, EndCauseTrue
<1>6. CauseLaunches' /\ CauseEnds'
 <2>1. CASE job' = Idle BY <2>1, IdleCause DEF CauseClaims
 <2>2. CASE job' = job
  <3>1. CauseLaunches' BY <1>1, <1>2, <2>2 DEF CauseInv, CauseLaunches
  <3>2. CauseEnds' BY <1>1, <1>2, <2>2 DEF CauseInv, CauseEnds, StartedTrue
  <3> QED BY <3>1, <3>2
 <2> QED BY <1>1, <2>1, <2>2
<1> QED BY <1>3, <1>4, <1>5, <1>6 DEF CauseInv

\* The steps that begin and list: an operation that claims nothing yet, or an end for a reason that is true.
LEMMA BeginsKeepCause ==
  ASSUME CauseInv, WorkInv, SessionsBegin \/ LaunchBegin \/ RestoreDone \/ Listed \/ Stop \/ Expire \/ WsdCrash \/ Launch
  PROVE  CauseInv'
<1>1. UNCHANGED <<causeVars, sightVars>>
 BY DEF SessionsBegin, LaunchBegin, RestoreDone, Listed, Stop, Expire, WsdCrash, Launch, causeVars, sightVars,
   store, world, history, past
<1>2. job \in Job /\ rec' = rec /\ pane' = pane BY <1>1 DEF WorkInv, WorkType, causeVars
<1>3. CASE job' = Idle BY <1>1, <1>3, IdleCause, CauseStep
<1>4. CASE job'.pc \in {"restore", "idle", "listed", "launch", "wip", "write"}
 <2>1. CauseClaims' BY <1>4, FreeCause DEF StartingSteps, UnseededSteps, SeededSteps, EndingSteps
 <2> QED BY <1>1, <2>1, CauseStep
<1>5. rec.phase = "running" /\ ~Alive => pane # "live" BY DEF CauseInv, StartedTrue, PaneTrue, Alive
<1>6. ASSUME NEW why \in {"died", "stopped", "lifetime"}, NEW l \in BOOLEAN,
  NEW then \in {"idle", "launch"}, End(why, l, FALSE, then), why = "died" => ~(rec.phase = "running" /\ Alive)
      PROVE  CauseInv'
 <2>1. job' = [pc |-> "look", todo |-> {}, then |-> then, why |-> why, lifetime |-> l,
               proof |-> FALSE, settled |-> FALSE, alive |-> FALSE, kept |-> TRUE] BY <1>6 DEF End, Idle
 <2>2. job'.pc = "look" /\ job'.why = why /\ ~job'.proof BY <2>1
 <2>3. CauseClaims' BY <1>2, <1>5, <1>6, <2>2, LookCause
 <2> QED BY <1>1, <2>3, CauseStep
<1>7. PICK o \in BOOLEAN : o = Overdue BY DEF Overdue
<1>8. CASE SessionsBegin \/ LaunchBegin
 <2>1. PICK n \in SUBSET Sessions : n = Names BY DEF Names
 <2>2. PICK t \in {"listed", "launch"} :
           job' = [pc |-> "restore", todo |-> n, then |-> t, why |-> "none", lifetime |-> FALSE,
                      proof |-> FALSE, settled |-> FALSE, alive |-> FALSE, kept |-> TRUE]
  BY <1>8, <2>1 DEF SessionsBegin, LaunchBegin, Idle
 <2> QED BY <1>4, <2>2
<1>9. CASE RestoreDone
 <2>1. job.then \in Steps /\ job.then \in {"idle", "listed", "launch"} BY <1>2 DEF Job, Steps
 <2>2. job'.pc = job.then BY <1>2, <1>9, <2>1, GoTypes, GoSays DEF RestoreDone, Go
 <2> QED BY <1>4, <2>1, <2>2
<1>10. CASE Expire
 <2>1. CASE job' = [Idle EXCEPT !.pc = "wip"]
  <3>1. Idle \in Job /\ "wip" \in Steps BY DoneAndFail DEF Steps
  <3>2. job' \in Job BY <2>1, <3>1, GoTypes
  <3>3. job'.pc = "wip" BY <2>1, <3>1, <3>2, GoSays
  <3> QED BY <1>4, <3>3
 <2> QED BY <1>6, <1>10, <2>1 DEF Expire
<1>11. CASE Listed BY <1>3, <1>6, <1>7, <1>11 DEF Listed, Done
<1>12. CASE Stop BY <1>6, <1>12 DEF Stop
<1>13. CASE WsdCrash BY <1>3, <1>13 DEF WsdCrash
<1>14. CASE Launch
 <2>1. CASE job' = [job EXCEPT !.pc = "wip", !.then = "launch"]
  <3>1. job'.pc = "wip" BY <1>2, <2>1 DEF Job
  <3> QED BY <1>4, <3>1
 <2>2. CASE Go("write") BY <1>2, <1>4, <2>2, GoFrom DEF Steps
 <2>3. \/ job' = Idle
       \/ End("died", o, FALSE, "launch") /\ ~(rec.phase = "running" /\ Alive)
       \/ job' = [job EXCEPT !.pc = "wip", !.then = "launch"]
       \/ Go("write")
  <3>1. CASE rec.phase = "running" /\ Alive BY <1>14, <3>1 DEF Launch, Done
  <3>2. CASE rec.phase \notin {"none", "ended"} /\ ~(rec.phase = "running" /\ Alive) BY <1>7, <1>14, <3>2 DEF Launch
  <3>3. CASE rec.phase \in {"none", "ended"} BY <1>14, <3>3 DEF Launch, Done
  <3> QED BY <3>1, <3>2, <3>3
 <2> QED BY <1>3, <1>6, <2>1, <2>2, <2>3
<1> QED BY <1>8, <1>9, <1>10, <1>11, <1>12, <1>13, <1>14

\* reconcile_session ends a session whose deadline end is on record, and keeps that as a receipt.
LEMMA ReconcileKeepsCause ==
  ASSUME CauseInv, WorkInv, SandboxReconcile
  PROVE  CauseInv'
<1>1. UNCHANGED <<rec, pane, markers, died, confirmed, unmarked, last, box, due, watch>> /\ rec.started
 BY DEF SandboxReconcile, world, history, past
<1>2. rec.gen \in Nat /\ rec.gen <= last BY DEF WorkInv, WorkType, SessionRecords
<1>3. \/ receipts' = receipts
      \/ receipts' = receipts \cup {rec.gen} /\ pane = "dead" /\ rec.gen \in markers \cup receipts
 <2>1. rec.gen \in receipts => receipts \cup {rec.gen} = receipts OBVIOUS
 <2> QED BY <2>1 DEF SandboxReconcile, Evidence
<1>4. CauseType' /\ PaneTrue' /\ WatchTrue' /\ StartedTrue' /\ EndCauseTrue'
 BY <1>1, <1>2, <1>3 DEF CauseInv, CauseType, PaneTrue, WatchTrue, StartedTrue, EndCauseTrue
<1>5. CASE job' = [Idle EXCEPT !.pc = "wip"]
 <2>1. Idle \in Job /\ "wip" \in Steps BY DoneAndFail DEF Steps
 <2>2. job' \in Job BY <1>5, <2>1, GoTypes
 <2>3. job'.pc = "wip" BY <1>5, <2>1, <2>2, GoSays
 <2> QED BY <1>4, <2>3, FreeCause DEF CauseInv, CauseClaims, StartingSteps, UnseededSteps, SeededSteps, EndingSteps
<1>6. CASE End("lifetime", TRUE, TRUE, "idle") /\ (rec.phase = "running" => rec.gen \in receipts')
 <2>1. job' = [pc |-> "look", todo |-> {}, then |-> "idle", why |-> "lifetime", lifetime |-> TRUE,
               proof |-> TRUE, settled |-> FALSE, alive |-> FALSE, kept |-> TRUE] BY <1>6 DEF End, Idle
 <2>2. job'.pc = "look" /\ job'.why = "lifetime" BY <2>1
 <2>3. CauseClaims' BY <1>1, <1>6, <2>2, LookCause
 <2> QED BY <1>4, <2>3 DEF CauseInv, CauseClaims
<1> QED BY <1>5, <1>6 DEF SandboxReconcile

\* The restore: it sweeps the sandbox of the record's generation only if that has ended.
LEMMA RestoreKeepsCause ==
  ASSUME CauseInv, WorkInv, SandboxInv, SandboxInv', RestoreArms \/ RestoreSweeps
  PROVE  CauseInv'
<1>1. UNCHANGED causeVars /\ due' = due BY DEF RestoreArms, RestoreSweeps, causeVars, world, history, past
<1>2. job \in Job /\ watch \in [Sessions -> Watcher] /\ watch' \in [Sessions -> Watcher] /\ rec' = rec /\ pane' = pane
 BY <1>1 DEF WorkInv, WorkType, SandboxInv, SandboxType, causeVars
<1>3. \A h \in Sessions : watch'[h] = watch[h] \/ watch'[h].pc = "wait"
 BY <1>2 DEF RestoreArms, RestoreSweeps, Watcher
<1>4. WatchTrue' /\ due' \in [Sessions -> Nat] BY <1>1, <1>2, <1>3 DEF CauseInv, CauseType, WatchTrue
<1>5. PICK n : n = Min(job.todo) OBVIOUS
<1>6. rec.started /\ pane = "live" /\ rec.gen \in box => rec.gen \in box'
 <2>1. CASE RestoreArms BY <2>1 DEF RestoreArms, world
 <2>2. CASE RestoreSweeps
  <3>1. job.pc = "sweep" /\ box \ {n} \subseteq box' BY <1>5, <2>2 DEF RestoreSweeps
  <3>2. rec.gen = n => pane # "live" BY <1>5, <3>1 DEF CauseInv, CauseLaunches, PaneTrue
  <3> QED BY <3>1, <3>2
 <2> QED BY <2>1, <2>2
<1>7. PICK t \in SUBSET Sessions, b \in BOOLEAN : t = job.todo \ {n} /\ b = Settled(RecoverCreate(n))
 BY <1>2 DEF Job, Settled
<1>8. \/ job' = Idle \/ job' = [job EXCEPT !.pc = "restore", !.todo = t]
      \/ job' = [job EXCEPT !.todo = t] /\ job.pc = "restore"
      \/ job' = [job EXCEPT !.pc = "sweep", !.settled = b] /\ (rec.phase = "none" \/ rec.gen # n \/ rec.phase = "ended")
 BY <1>5, <1>7 DEF RestoreArms, RestoreSweeps, NextEntry, Done
<1>9. CASE job' = Idle BY <1>1, <1>4, <1>6, <1>9, IdleCause, CauseSight
<1>10. CASE job' = [job EXCEPT !.pc = "restore", !.todo = t] \/ (job' = [job EXCEPT !.todo = t] /\ job.pc = "restore")
 <2>1. job'.pc = "restore" BY <1>2, <1>10 DEF Job
 <2>2. CauseClaims' BY <2>1, FreeCause DEF StartingSteps, UnseededSteps, SeededSteps, EndingSteps
 <2> QED BY <1>1, <1>4, <1>6, <2>2, CauseSight
<1>11. CASE job' = [job EXCEPT !.pc = "sweep", !.settled = b] /\ (rec.phase = "none" \/ rec.gen # n \/ rec.phase = "ended")
 <2>1. job'.pc = "sweep" /\ job'.todo = job.todo BY <1>2, <1>11 DEF Job
 <2>2. Min(job'.todo) = rec'.gen => rec'.phase \in {"none", "ended"} BY <1>2, <1>5, <1>11, <2>1
 <2>3. CauseClaims' BY <2>1, <2>2 DEF CauseClaims, CauseLaunches, CauseEnds, StartingSteps, UnseededSteps, SeededSteps
 <2> QED BY <1>1, <1>4, <1>6, <2>3, CauseSight
<1> QED BY <1>8, <1>9, <1>10, <1>11

\* The new generation's record, once the one before it has ended.
LEMMA LaunchWritesKeepsCause ==
  ASSUME CauseInv, WorkInv, LaunchWrites
  PROVE  CauseInv'
<1>1. UNCHANGED <<receipts, pane, box, due, watch>> /\ job.pc = "write" BY DEF LaunchWrites, world
<1>2. CASE UNCHANGED <<rec, last, markers, died, confirmed, unmarked>> /\ Done
 <2>1. UNCHANGED <<causeVars, sightVars>> BY <1>1, <1>2 DEF causeVars, sightVars
 <2> QED BY <1>2, <2>1, IdleCause, CauseStep DEF Done
<1>3. CASE /\ rec' = [NoRecord EXCEPT !.gen = last + 1, !.phase = "creating"] /\ last' = last + 1
           /\ markers' = {} /\ died' = {} /\ Go("seed")
 <2>1. job \in Job /\ "seed" \in Steps /\ last \in Nat BY DEF WorkInv, WorkType, Steps
 <2>2. PICK n \in Nat : n = last + 1 /\ n > last BY <2>1
 <2>3. job'.pc = "seed" BY <1>3, <2>1, GoFrom
 <2>4. rec'.gen = n /\ rec'.phase = "creating" /\ ~rec'.started /\ rec'.cause = "none" BY <1>3, <2>2 DEF NoRecord
 <2>5. pane # "live" BY <1>1 DEF WorkInv, WorkLaunches, CauseInv, PaneTrue
 <2>6. CauseType' /\ n \notin receipts BY <1>1, <1>3, <2>1, <2>2 DEF CauseInv, CauseType
 <2>7. PaneTrue' /\ WatchTrue' /\ StartedTrue' /\ EndCauseTrue'
  BY <1>1, <1>3, <2>4, <2>5, <2>6 DEF CauseInv, PaneTrue, WatchTrue, StartedTrue, EndCauseTrue
 <2>8. CauseClaims' BY <1>1, <1>3, <2>3, <2>4, <2>5, LaunchCause DEF StartingSteps, UnseededSteps
 <2> QED BY <2>6, <2>7, <2>8 DEF CauseInv, CauseClaims
<1> QED BY <1>2, <1>3 DEF LaunchWrites

\* What a step of the launch does to the record.
SameStart == rec'.gen = rec.gen /\ rec'.started = rec.started /\ rec'.cause = rec.cause

\* The steps of a launch up to the pane.
LEMMA LaunchKeepsCause ==
  ASSUME CauseInv, WorkInv, SandboxInv, SandboxInv',
    \/ Seed \/ Submit \/ RecordCreate \/ Arm \/ Create \/ Unsubmit \/ Await \/ SettleCreate \/ RecordCreated
    \/ CheckCreated
  PROVE  CauseInv'
<1>1. UNCHANGED <<pane, markers, receipts, died, confirmed, unmarked, last, box, due>>
 BY DEF Seed, Submit, RecordCreate, Arm, Create, Unsubmit, Await, SettleCreate, RecordCreated, CheckCreated, Writes,
   store, world, history, past
<1>2. job.pc \in StartingSteps \ {"run"}
 BY DEF Seed, Submit, RecordCreate, Arm, Create, Unsubmit, Await, SettleCreate, RecordCreated, CheckCreated, Writes,
   StartingSteps, UnseededSteps, SeededSteps
<1>3. pane # "live" /\ rec.gen \notin died /\ ~rec.started /\ rec.cause = "none" BY <1>2 DEF CauseInv, CauseLaunches
<1>4. job \in Job /\ rec \in SessionRecords /\ rec.phase \in Starting
 BY <1>2 DEF WorkInv, WorkType, WorkLaunches, StartingSteps, UnseededSteps, Starting
<1>5. SameStart /\ rec'.phase \in Starting
 <2>1. CASE UNCHANGED rec BY <1>4, <2>1 DEF SameStart
 <2>2. CASE \/ rec' = [rec EXCEPT !.seeded = TRUE, !.begun = TRUE] \/ rec' = [rec EXCEPT !.begun = FALSE]
            \/ rec' = [rec EXCEPT !.created = TRUE] \/ rec' = [rec EXCEPT !.phase = "testing"]
  BY <1>4, <2>2 DEF SameStart, SessionRecords, Starting
 <2> QED
  BY <2>1, <2>2 DEF Seed, Submit, RecordCreate, Arm, Create, Unsubmit, Await, SettleCreate, RecordCreated,
    CheckCreated, Writes, store
<1>6. WatchTrue'
 <2>1. watch \in [Sessions -> Watcher] /\ watch' \in [Sessions -> Watcher] BY DEF SandboxInv, SandboxType
 <2>2. watch' = watch \/ watch' = [watch EXCEPT ![rec.gen].pc = "wait"]
  BY DEF Seed, Submit, RecordCreate, Arm, Create, Unsubmit, Await, SettleCreate, RecordCreated, CheckCreated, Writes
 <2>3. \A h \in Sessions : watch'[h] = watch[h] \/ watch'[h].pc = "wait" BY <2>1, <2>2 DEF Watcher
 <2> QED BY <1>1, <1>3, <2>3 DEF CauseInv, WatchTrue
<1>7. CauseType' /\ PaneTrue' /\ StartedTrue' /\ EndCauseTrue'
 BY <1>1, <1>3, <1>4, <1>5 DEF CauseInv, CauseType, PaneTrue, StartedTrue, EndCauseTrue, SameStart, Starting
<1>8. CauseClaims'
 <2>1. CASE Fail BY <1>3, <1>5, <2>1, FailCause DEF SameStart
 <2>2. ASSUME NEW p \in StartingSteps \ {"run"}, Go(p)
       PROVE  CauseClaims'
  <3>1. p \in Steps BY DEF StartingSteps, UnseededSteps, SeededSteps, Steps
  <3>2. job'.pc = p BY <1>4, <2>2, <3>1, GoFrom
  <3> QED BY <1>1, <1>3, <1>5, <2>2, <3>2, LaunchCause DEF SameStart
 <2>3. Fail \/ \E p \in {"submit", "record", "arm", "create", "unsubmit", "await", "settle", "created", "check", "test"} : Go(p)
  BY DEF Seed, Submit, RecordCreate, Arm, Create, Unsubmit, Await, SettleCreate, RecordCreated, CheckCreated, Writes
 <2> QED BY <2>1, <2>2, <2>3 DEF StartingSteps, UnseededSteps, SeededSteps
<1> QED BY <1>6, <1>7, <1>8 DEF CauseInv, CauseClaims

\* The pane comes up in its sandbox, and the session runs once the agent answered in it.
LEMMA TestKeepsCause ==
  ASSUME CauseInv, WorkInv, Test
  PROVE  CauseInv'
<1>1. UNCHANGED <<markers, receipts, died, confirmed, unmarked, last, box, due, watch>> /\ job.pc = "test"
 BY DEF Test, history, past
<1>2. pane # "live" /\ rec.gen \notin died /\ ~rec.started /\ rec.cause = "none" /\ rec.gen \notin receipts
 BY <1>1 DEF CauseInv, CauseLaunches, StartedTrue, StartingSteps, SeededSteps
<1>3. job \in Job /\ rec \in SessionRecords BY DEF WorkInv, WorkType
<1>4. CASE UNCHANGED <<rec, pane>> /\ Fail
 <2>1. UNCHANGED <<causeVars, sightVars>> BY <1>1, <1>4 DEF causeVars, sightVars
 <2>2. CauseClaims' BY <1>2, <1>4, FailCause
 <2> QED BY <2>1, <2>2, CauseStep
<1>5. CASE rec' = [rec EXCEPT !.phase = "starting"] /\ pane' \in {"live", "dead"} /\ Go("run")
 <2>1. rec'.gen = rec.gen /\ rec'.phase = "starting" /\ ~rec'.started /\ rec'.cause = "none"
  BY <1>2, <1>3, <1>5 DEF SessionRecords
 <2>2. job'.pc = "run" BY <1>3, <1>5, GoFrom DEF Steps
 <2>3. CauseClaims' BY <2>1, <2>2, LaunchCause DEF StartingSteps, SeededSteps
 <2>4. CauseType' /\ PaneTrue' /\ WatchTrue' /\ StartedTrue' /\ EndCauseTrue'
  BY <1>1, <1>2, <1>5, <2>1 DEF CauseInv, CauseType, PaneTrue, WatchTrue, StartedTrue, EndCauseTrue
 <2> QED BY <2>3, <2>4 DEF CauseInv, CauseClaims
<1> QED BY <1>4, <1>5 DEF Test

LEMMA RunKeepsCause ==
  ASSUME CauseInv, WorkInv, Run
  PROVE  CauseInv'
<1>1. UNCHANGED <<pane, markers, receipts, died, confirmed, unmarked, last, box, due, watch>> /\ job.pc = "run"
 BY DEF Run, world, history, past
<1>2. ~rec.started /\ rec.cause = "none" /\ rec \in SessionRecords
 BY <1>1 DEF CauseInv, CauseLaunches, StartingSteps, SeededSteps, WorkInv, WorkType
<1>3. CASE UNCHANGED rec /\ Fail
 <2>1. UNCHANGED <<causeVars, sightVars>> BY <1>1, <1>3 DEF causeVars, sightVars
 <2>2. CauseClaims' BY <1>2, <1>3, FailCause
 <2> QED BY <2>1, <2>2, CauseStep
<1>4. CASE /\ due[rec.gen] = 0 /\ Alive /\ rec' = [rec EXCEPT !.phase = "running", !.started = TRUE] /\ Done
 <2>1. rec'.gen = rec.gen /\ rec'.phase = "running" /\ rec'.started /\ rec'.cause = "none"
  BY <1>2, <1>4 DEF SessionRecords
 <2>2. pane = "live" /\ rec.gen \in box BY <1>4 DEF Alive
 <2>3. \A g \in Sessions : g = rec.gen => watch[g].pc \in {"none", "wait"} BY <1>4 DEF CauseInv, WatchTrue
 <2>4. CauseType' /\ PaneTrue' /\ StartedTrue' /\ EndCauseTrue'
  BY <1>1, <2>1, <2>2 DEF CauseInv, CauseType, PaneTrue, StartedTrue, EndCauseTrue
 <2>5. WatchTrue' BY <1>1, <2>1, <2>3 DEF CauseInv, WatchTrue
 <2>6. CauseClaims' BY <1>4, IdleCause DEF Done
 <2> QED BY <2>4, <2>5, <2>6 DEF CauseInv, CauseClaims
<1> QED BY <1>3, <1>4 DEF Run

\* An end reads the session's liveness.
LEMMA LooksKeepsCause ==
  ASSUME CauseInv, WorkInv, EndLooks
  PROVE  CauseInv'
<1>1. UNCHANGED <<causeVars, sightVars>> /\ job.pc = "look"
 BY DEF EndLooks, causeVars, sightVars, world, history, past
<1>2. job \in Job /\ rec' = rec /\ pane' = pane /\ markers' = markers /\ receipts' = receipts /\ died' = died
 BY <1>1 DEF WorkInv, WorkType, causeVars
<1>3. PICK b \in BOOLEAN, a \in BOOLEAN : b = Settled(RecoverCreate(rec.gen)) /\ a = Alive BY DEF Settled, Alive
<1>4. job' = [job EXCEPT !.pc = "stop", !.settled = b, !.alive = a] BY <1>3 DEF EndLooks
<1>5. job'.pc = "stop" /\ job'.why = job.why /\ job'.proof = job.proof /\ job'.alive = a BY <1>2, <1>4 DEF Job
<1>6. rec.phase = "running" => IF a THEN rec.gen \notin died ELSE pane # "live"
 BY <1>3 DEF CauseInv, PaneTrue, StartedTrue, Alive
<1>7. CauseClaims'
 BY <1>1, <1>2, <1>5, <1>6 DEF CauseInv, CauseClaims, CauseLaunches, CauseEnds, StartingSteps, UnseededSteps,
   SeededSteps
<1> QED BY <1>1, <1>7, CauseStep

\* The cause that an end gives a session that runs.
LEMMA CauseSays ==
  ASSUME CauseInv, job \in Job, job.pc = "stop", NEW c, c = Cause(job.alive, rec.gen \in markers)
  PROVE  /\ c # "none"
         /\ rec.phase = "running" => /\ c # "refused"
                                     /\ c = "died" => rec.gen \in died \cup unmarked
                                     /\ rec.gen \in died /\ c # "died" => rec.gen \in confirmed
<1>1. /\ job.why # "none" /\ (job.why = "refused" => ~rec.started)
      /\ rec.phase = "running" /\ job.why = "died" => pane # "live"
      /\ rec.phase = "running" /\ job.proof => rec.gen \in markers \cup receipts
      /\ rec.phase = "running" => IF job.alive THEN rec.gen \in died => rec.gen \in confirmed ELSE pane # "live"
 BY DEF CauseInv, CauseEnds
<1>2. /\ rec.phase = "running" => rec.started
      /\ rec.phase = "running" /\ pane # "live" => rec.gen \in died \cup unmarked \cup markers
      /\ rec.gen \in died /\ rec.gen \in markers \cup receipts => rec.gen \in confirmed BY DEF CauseInv, StartedTrue
<1>3. CASE job.proof
 <2>1. c = "lifetime" BY <1>3 DEF Cause
 <2> QED BY <1>1, <1>2, <1>3, <2>1
<1>4. CASE ~job.proof /\ job.why = "refused"
 <2>1. c = "refused" BY <1>4 DEF Cause
 <2> QED BY <1>1, <1>2, <1>4, <2>1
<1>5. CASE ~job.proof /\ rec.phase = "running" /\ job.why \in {"stopped", "lifetime"} /\ job.alive
 <2>1. c = job.why BY <1>5 DEF Cause
 <2> QED BY <1>1, <1>5, <2>1
<1>6. CASE /\ ~job.proof /\ job.why # "refused" /\ rec.phase = "running" /\ rec.gen \in markers
           /\ ~(job.why \in {"stopped", "lifetime"} /\ job.alive)
 <2>1. c = "lifetime" BY <1>6 DEF Cause
 <2> QED BY <1>2, <1>6, <2>1
<1>7. CASE /\ ~job.proof /\ job.why # "refused" /\ rec.phase = "running" /\ rec.gen \notin markers
           /\ ~(job.why \in {"stopped", "lifetime"} /\ job.alive)
 <2>1. c = "died" BY <1>7 DEF Cause
 <2>2. job.why \in EndCauses BY DEF Job
 <2>3. job.alive => job.why = "died" BY <1>1, <1>7, <2>2 DEF EndCauses
 <2> QED BY <1>1, <1>2, <1>7, <2>1, <2>3
<1>8. CASE ~job.proof /\ job.why # "refused" /\ rec.phase # "running"
 <2>1. c = "died" BY <1>8 DEF Cause
 <2> QED BY <1>8, <2>1
<1> QED BY <1>3, <1>4, <1>5, <1>6, <1>7, <1>8

\* An end writes the cause, or goes on without it for a session that is dead.
LEMMA EndWritesKeepsCause ==
  ASSUME CauseInv, WorkInv, EndWrites
  PROVE  CauseInv'
<1>1. UNCHANGED <<pane, markers, receipts, died, confirmed, unmarked, last, box, due, watch>> /\ job.pc = "stop"
 BY DEF EndWrites, world, history, past
<1>2. job \in Job /\ rec \in SessionRecords /\ rec.phase \notin {"none", "ended"}
 BY <1>1 DEF WorkInv, WorkType, WorkEnds, EndingSteps
<1>3. PICK c : c = Cause(job.alive, rec.gen \in markers) OBVIOUS
<1>4. /\ c # "none"
      /\ rec.phase = "running" => /\ c # "refused"
                                  /\ c = "died" => rec.gen \in died \cup unmarked
                                  /\ rec.gen \in died /\ c # "died" => rec.gen \in confirmed
 BY <1>1, <1>2, <1>3, CauseSays
<1>5. PICK l, m, d : /\ l = (job.lifetime \/ rec.lifetime) /\ m = (rec.mark \/ l)
                     /\ d = IF rec.cause = "none" THEN c ELSE rec.cause
 OBVIOUS
<1>6. Stopping = [rec EXCEPT !.phase = "stopping", !.lifetime = l, !.mark = m, !.cause = d] BY <1>3, <1>5 DEF Stopping
<1>7. CASE rec' = Stopping /\ Go("pane")
 <2>1. rec'.gen = rec.gen /\ rec'.phase = "stopping" /\ rec'.started = rec.started /\ rec'.cause = d
  BY <1>2, <1>6, <1>7 DEF SessionRecords
 <2>2. job'.pc = "pane" BY <1>2, <1>7, GoFrom DEF Steps
 <2>3. d # "none" BY <1>4, <1>5
 <2>4. CauseType' /\ PaneTrue' /\ WatchTrue' /\ StartedTrue'
  BY <1>1, <1>2, <2>1, <2>3 DEF CauseInv, CauseType, PaneTrue, WatchTrue, StartedTrue
 <2>5. EndCauseTrue'
  <3>1. CASE rec.cause # "none" BY <1>1, <1>5, <2>1, <3>1 DEF CauseInv, EndCauseTrue
  <3>2. CASE rec.cause = "none"
   <4>1. d = c /\ (rec.started => rec.phase = "running") BY <1>5, <3>2 DEF CauseInv, StartedTrue
   <4> QED BY <1>1, <1>4, <2>1, <4>1 DEF EndCauseTrue
  <3> QED BY <3>1, <3>2
 <2>6. CauseClaims'
  BY <2>1, <2>2, <2>3 DEF CauseClaims, CauseLaunches, CauseEnds, StartingSteps, UnseededSteps, SeededSteps
 <2> QED BY <2>4, <2>5, <2>6 DEF CauseInv, CauseClaims
<1>8. CASE rec' = rec /\ Done
 <2>1. UNCHANGED <<causeVars, sightVars>> BY <1>1, <1>8 DEF causeVars, sightVars
 <2> QED BY <1>8, <2>1, IdleCause, CauseStep DEF Done
<1>9. CASE /\ rec' = rec /\ job' = [job EXCEPT !.pc = "pane", !.kept = FALSE]
           /\ ~(rec.cause = "none" /\ Stopping.cause \in {"stopped", "lifetime"})
 <2>1. UNCHANGED <<causeVars, sightVars>> BY <1>1, <1>9 DEF causeVars, sightVars
 <2>2. job'.pc = "pane" /\ ~job'.kept BY <1>2, <1>9 DEF Job
 <2>3. Stopping.cause = d BY <1>2, <1>6 DEF SessionRecords
 <2>4. rec.phase = "running" => rec.cause = "none" /\ d = c BY <1>5 DEF CauseInv, StartedTrue
 <2>5. c \in {"lifetime", "refused", "died", job.why} BY <1>3 DEF Cause
 <2>6. job.why \in EndCauses BY <1>2 DEF Job
 <2>7. rec.phase = "running" => rec.gen \in died \cup unmarked BY <1>4, <1>9, <2>3, <2>4, <2>5, <2>6 DEF EndCauses
 <2>8. CauseClaims'
  BY <1>1, <1>9, <2>2, <2>7 DEF CauseClaims, CauseLaunches, CauseEnds, StartingSteps, UnseededSteps, SeededSteps
 <2> QED BY <2>1, <2>8, CauseStep
<1> QED BY <1>7, <1>8, <1>9 DEF EndWrites

\* The pane and the sandboxes go.
LEMMA EndPaneKeepsCause ==
  ASSUME CauseInv, WorkInv, EndPane
  PROVE  CauseInv'
<1>1. UNCHANGED <<rec, markers, receipts, died, confirmed, unmarked, last, box, due, watch>> /\ pane' = "none" /\ job.pc = "pane"
 BY DEF EndPane, store, history, past
<1>2. job'.pc = "delete" /\ job'.kept = job.kept BY GoFrom DEF EndPane, Steps, WorkInv, WorkType
<1>3. CauseType' /\ PaneTrue' /\ WatchTrue' /\ StartedTrue' /\ EndCauseTrue'
 BY <1>1 DEF CauseInv, CauseType, PaneTrue, WatchTrue, StartedTrue, CauseEnds, EndCauseTrue
<1>4. CauseLaunches' /\ CauseEnds'
 BY <1>1, <1>2 DEF CauseInv, CauseLaunches, CauseEnds, StartingSteps, UnseededSteps, SeededSteps
<1> QED BY <1>3, <1>4 DEF CauseInv

LEMMA EndDeletesKeepsCause ==
  ASSUME CauseInv, WorkInv, SandboxInv, SandboxInv', EndDeletes \/ EndGone
  PROVE  CauseInv'
<1>1. UNCHANGED causeVars /\ due' = due /\ job.pc \in {"delete", "gone"}
 BY DEF EndDeletes, EndGone, causeVars, store, world, history, past
<1>2. job \in Job /\ rec' = rec /\ pane' = pane BY <1>1 DEF WorkInv, WorkType, causeVars
<1>3. pane # "live" BY <1>1 DEF CauseInv, CauseEnds
<1>4. \A h \in Sessions : watch'[h] = watch[h] \/ watch'[h].pc = "none"
 <2>1. watch \in [Sessions -> Watcher] /\ watch' \in [Sessions -> Watcher] BY DEF SandboxInv, SandboxType
 <2>2. watch' = watch \/ watch' = [watch EXCEPT ![rec.gen] = NoWatcher] BY DEF EndDeletes, EndGone
 <2>3. NoWatcher.pc = "none" BY DEF NoWatcher
 <2> QED BY <2>1, <2>2, <2>3
<1>5. WatchTrue' /\ due' \in [Sessions -> Nat] BY <1>1, <1>2, <1>4 DEF CauseInv, CauseType, WatchTrue
<1>6. CauseClaims'
 <2>1. CASE Done BY <2>1, IdleCause DEF Done
 <2>2. CASE (job.pc = "delete" /\ job.kept /\ Go("gone")) \/ (job.pc = "gone" /\ Go("land"))
  <3>1. job'.pc \in {"gone", "land"} BY <1>2, <2>2, GoFrom DEF Steps
  <3>2. rec.cause # "none" BY <2>2 DEF CauseInv, CauseEnds
  <3> QED
   BY <1>2, <1>3, <3>1, <3>2 DEF CauseClaims, CauseLaunches, CauseEnds, StartingSteps, UnseededSteps, SeededSteps
 <2> QED BY <2>1, <2>2 DEF EndDeletes, EndGone
<1> QED BY <1>1, <1>3, <1>5, <1>6, CauseSight

\* The commits land and the record says ended.
LEMMA EndEndsKeepsCause ==
  ASSUME CauseInv, WorkInv, EndLands \/ EndEnds
  PROVE  CauseInv'
<1>1. UNCHANGED <<pane, receipts, died, confirmed, unmarked, last, box, due, watch>> /\ job.pc \in {"land", "ended"}
 BY DEF EndLands, EndEnds, world, history, past
<1>2. job \in Job /\ rec \in SessionRecords /\ rec.phase = "stopping" BY <1>1 DEF WorkInv, WorkType, WorkEnds
<1>3. pane # "live" /\ rec.cause # "none" BY <1>1 DEF CauseInv, CauseEnds
<1>4. SameStart /\ rec'.phase \in {"stopping", "ended"} /\ markers' \subseteq markers
 <2>1. CASE rec' = rec BY <1>2, <2>1 DEF SameStart, EndLands, EndEnds
 <2>2. CASE rec' = [rec EXCEPT !.unlanded = TRUE] \/ rec' = [rec EXCEPT !.phase = "ended"]
  BY <1>2, <2>2 DEF SameStart, SessionRecords, EndLands, EndEnds
 <2> QED BY <2>1, <2>2 DEF EndLands, EndEnds
<1>5. CauseType' /\ PaneTrue' /\ WatchTrue' /\ StartedTrue' /\ EndCauseTrue'
 BY <1>1, <1>3, <1>4 DEF CauseInv, CauseType, PaneTrue, WatchTrue, StartedTrue, EndCauseTrue, SameStart
<1>6. CauseClaims'
 <2>1. CASE Done BY <2>1, IdleCause DEF Done
 <2>2. CASE Go("ended")
  <3>1. job'.pc = "ended" BY <1>2, <2>2, GoFrom DEF Steps
  <3> QED
   BY <1>1, <1>3, <1>4, <3>1 DEF SameStart, CauseClaims, CauseLaunches, CauseEnds, StartingSteps, UnseededSteps,
     SeededSteps
 <2>3. CASE Go("wip")
  <3>1. job'.pc = "wip" BY <1>2, <2>3, GoFrom DEF Steps
  <3> QED BY <3>1, FreeCause DEF StartingSteps, UnseededSteps, SeededSteps, EndingSteps
 <2> QED BY <2>1, <2>2, <2>3 DEF EndLands, EndEnds
<1> QED BY <1>5, <1>6 DEF CauseInv, CauseClaims

\* What follows an end, and a resolve, but for the move.
LEMMA AfterKeepsCause ==
  ASSUME CauseInv, WorkInv,
    Wip \/ WipCleared \/ Act \/ Imported \/ Moved \/ Removed \/ RemoveTrash \/ SessionFinish \/ Resolve \/ ResolveAgain
  PROVE  CauseInv'
<1>1. UNCHANGED <<pane, markers, receipts, died, confirmed, unmarked, last, box, due, watch>>
 BY DEF Wip, WipCleared, Act, Imported, Moved, Removed, RemoveTrash, SessionFinish, Resolve, ResolveAgain,
   Checkpoint, store, world, history, past
<1>2. job \in Job /\ rec \in SessionRecords BY DEF WorkInv, WorkType
<1>3. SameStart /\ rec'.phase = rec.phase
 <2>1. CASE rec' = rec BY <2>1 DEF SameStart
 <2>2. CASE rec' = [rec EXCEPT !.mark = FALSE] BY <1>2, <2>2 DEF SameStart, SessionRecords
 <2> QED
  BY <2>1, <2>2 DEF Wip, WipCleared, Act, Imported, Moved, Removed, RemoveTrash, SessionFinish, Resolve,
    ResolveAgain, Checkpoint, store
<1>4. CauseType' /\ PaneTrue' /\ WatchTrue' /\ StartedTrue' /\ EndCauseTrue'
 BY <1>1, <1>3 DEF CauseInv, CauseType, PaneTrue, WatchTrue, StartedTrue, EndCauseTrue, SameStart
<1>5. CauseClaims'
 <2>1. CASE Done BY <2>1, IdleCause DEF Done
 <2>2. ASSUME NEW p \in {"launch", "clear", "imported", "move", "remove", "finish", "removed", "act", "moved", "idle"}, Go(p)
       PROVE  CauseClaims'
  <3>1. p \in Steps BY DEF Steps
  <3>2. job'.pc = p BY <1>2, <2>2, <3>1, GoFrom
  <3> QED BY <2>2, <3>2, FreeCause DEF StartingSteps, UnseededSteps, SeededSteps, EndingSteps
 <2>3. CASE Wip \/ WipCleared BY <2>1, <2>2, <2>3 DEF Wip, WipCleared, Follow
 <2>4. CASE Act \/ Imported \/ Moved \/ Removed \/ RemoveTrash \/ SessionFinish \/ Resolve
  BY <2>1, <2>2, <2>4 DEF Act, Imported, Moved, Removed, Checkpoint, RemoveTrash, SessionFinish, Resolve
 <2>5. CASE ResolveAgain
  <3>1. PICK p \in {"act", "moved", "remove", "finish", "idle"} : Go(p) BY <2>5 DEF ResolveAgain
  <3> QED BY <2>2, <3>1
 <2> QED BY <2>3, <2>4, <2>5
<1> QED BY <1>4, <1>5 DEF CauseInv, CauseClaims

\* A resolve moves the directory of an ended session away.
LEMMA MoveKeepsCause ==
  ASSUME CauseInv, WorkInv, Move
  PROVE  CauseInv'
<1>1. /\ UNCHANGED <<pane, died, confirmed, unmarked, last, box, due, watch>> /\ job.pc = "move"
      /\ rec' = NoRecord /\ markers' = {} /\ receipts' = {} BY DEF Move, past
<1>2. rec'.phase = "none" /\ ~rec'.started BY <1>1 DEF NoRecord
<1>3. pane # "live" BY <1>1 DEF WorkInv, WorkResolves, IntentTrue, CauseInv, PaneTrue
<1>4. CauseType' /\ PaneTrue' /\ WatchTrue' /\ StartedTrue' /\ EndCauseTrue'
 BY <1>1, <1>2, <1>3 DEF CauseInv, CauseType, PaneTrue, WatchTrue, StartedTrue, EndCauseTrue
<1>5. job'.pc = "moved" BY GoFrom DEF Move, Steps, WorkInv, WorkType
<1>6. CauseClaims' BY <1>5, FreeCause DEF StartingSteps, UnseededSteps, SeededSteps, EndingSteps
<1> QED BY <1>4, <1>6 DEF CauseInv, CauseClaims

LEMMA CauseInvKept == SandboxInv /\ WorkInv /\ CauseInv /\ [SandboxNext]_sandboxVars => CauseInv'
<1>1. SUFFICES ASSUME SandboxInv, WorkInv, CauseInv, [SandboxNext]_sandboxVars PROVE CauseInv' OBVIOUS
<1>2. SandboxInv' BY <1>1, SandboxInvKept
<1>3. CASE UNCHANGED sandboxVars
 <2>1. UNCHANGED <<causeVars, sightVars, job>> BY <1>3 DEF sandboxVars, causeVars, sightVars, store, world, history
 <2> QED BY <1>1, <2>1, ClaimsStill, CauseStep
<1>4. CASE JobSteps
 BY <1>1, <1>2, <1>4, BeginsKeepCause, RestoreKeepsCause, LaunchWritesKeepsCause, LaunchKeepsCause, TestKeepsCause,
   RunKeepsCause, LooksKeepsCause, EndWritesKeepsCause, EndPaneKeepsCause, EndDeletesKeepsCause, EndEndsKeepsCause,
   AfterKeepsCause, MoveKeepsCause DEF JobSteps
<1>5. CASE Operations
 BY <1>1, <1>5, BeginsKeepCause, ReconcileKeepsCause, OthersKeepCause, AfterKeepsCause DEF Operations
<1>6. CASE \E g \in Sessions : WatcherSteps(g)
 BY <1>1, <1>2, <1>6, WatchersKeepCause, MarksKeepCause, KillsKeepCause DEF WatcherSteps
<1>7. CASE SessionWorld
 BY <1>1, <1>2, <1>7, WatchersKeepCause, OthersKeepCause, DeathsKeepCause, BeginsKeepCause DEF SessionWorld
<1> QED BY <1>1, <1>3, <1>4, <1>5, <1>6, <1>7 DEF SandboxNext

------------------------------
(* The sandbox session in the specification that TLC checks. *)

SessionsInv == part = "sandbox" => SandboxInv /\ WorkInv /\ CauseInv

LEMMA SessionsInvariant == PartsSpec => []SessionsInv
<1>1. PartsInit => SessionsInv BY SandboxBegins, WorkBegins, CauseBegins DEF PartsInit, SessionsInv
<1>2. SessionsInv /\ [PartsNext]_<<part, sandboxVars, storeVars, actionVars>> => SessionsInv'
 <2>1. SUFFICES ASSUME SessionsInv, [PartsNext]_<<part, sandboxVars, storeVars, actionVars>>, part' = "sandbox"
                PROVE  SandboxInv' /\ WorkInv' /\ CauseInv' BY DEF SessionsInv
 <2>2. part = "sandbox" /\ [SandboxNext]_sandboxVars BY <2>1 DEF PartsNext
 <2> QED BY <2>1, <2>2, SandboxInvKept, WorkInvKept, CauseInvKept DEF SessionsInv
<1> QED BY <1>1, <1>2, PTL DEF PartsSpec

\* A create that the ledger calls gone has no sandbox and can't make one any more, through any crash, reboot,
\* late create and order of wsd and the watchers (reaper.reap, SandboxRuntime._end, _restore_creates).
THEOREM GoneStaysGone == PartsSpec => []SessionsGone
<1>1. SessionsInv => SessionsGone BY SandboxInvSays DEF SessionsInv, SessionsGone
<1> QED BY <1>1, SessionsInvariant, PTL

\* Every sandbox that exists or may still be made is in the create ledger, so that the next restore
\* watches it again (SandboxRuntime.launch, _recover_create, Ledger.cleanup).
THEOREM SandboxesAlwaysTracked == PartsSpec => []SessionsTracked
<1>1. SessionsInv => SessionsTracked BY SandboxInvSays DEF SessionsInv, SessionsTracked
<1> QED BY <1>1, SessionsInvariant, PTL

\* A session saves its uncommitted work at most once, and no commit that is only in its directory is ever
\* lost, but for those the operator discards, through any crash between two steps of a launch, an end or a
\* resolve (SandboxRuntime._settle_wip, _land, resolve and _remove).
THEOREM SessionWorkAlwaysKept == PartsSpec => []SessionWorkKept
<1>1. SessionsInv => SessionWorkKept BY WorkInvSays DEF SessionsInv, SessionWorkKept
<1> QED BY <1>1, SessionsInvariant, PTL

\* The cause in an ended session's record is what happened to it: one that is called dead died by itself, or its
\* watcher killed it without a marker, and one that died and is called stopped or at its lifetime had been
\* confirmed alive, in any order of the end, the watcher's mark and kill, and the agent's own death
\* (SandboxRuntime._end, _cause and reconcile_session, reaper.mark_live).
THEOREM EndCausesAlwaysTrue == PartsSpec => []SessionCausesTrue
<1>1. SessionsInv => SessionCausesTrue BY DEF SessionsInv, SessionCausesTrue, CauseInv
<1> QED BY <1>1, SessionsInvariant, PTL
------------------------------
(* The harness store: the helper's request, step by step, and what it leaves. *)

StoreRecs == [root : Nat, ver : Nat]
ReadPcs == {"recovered", "list", "state", "outcome"}
PrePcs == {"rehash", "R2", "intent"}
MidPcs == {"seal", "P3", "P4", "P5", "fail", "untree", "unmeta", "unstage", "unrecord", "unintent"}
RemovePcs == {"remove", "rmmanifest", "rmtree", "rmreceipt"}
StoreDos == ReadPcs \cup {"stage", "publish", "verify", "remove"}
StorePcs == {"idle", "recover", "conflict", "discard", "rename",
  "V2"} \cup StoreDos \cup PrePcs \cup MidPcs \cup RemovePcs
StoreReqs ==
    [do : StoreDos \cup {"none"}, s : Stagings \cup {NoOne}, at : Stagings \cup {NoOne}, n : Installs \cup {NoName},
     pc : StorePcs, todo : SUBSET Stagings, ver : Nat, back : {"idle", "recover", "publish"}]
StoreOps ==
    [do : {"none", "install", "settle", "use", "remove", "verify"}, s : Stagings \cup {NoOne},
     n : Installs \cup {NoName},
     pc : {"idle", "stage", "recover", "outcome", "publish", "state", "list", "write", "close", "remove", "verify"}]
Answers ==
    {"ok", "refused", "conflict", "absent", "published", "publishing", "broken", "failed", "staged", "unknown"}

StoreTypes ==
    /\ name \in [Stagings -> Installs] /\ tree \in [Stagings -> {"none", "staging", "install"}]
    /\ good \in [Stagings -> BOOLEAN] /\ ver \in [Stagings -> Nat] /\ sealed \in [Stagings -> BOOLEAN]
    /\ building \subseteq Stagings /\ staged \subseteq Stagings /\ irec \in [Stagings -> StoreRecs]
    /\ intended \subseteq Stagings /\ pubReceipts \subseteq Stagings
    /\ metaM \subseteq Installs /\ metaR \in [Installs -> StoreRecs] /\ begun \subseteq Stagings
    /\ req \in StoreReqs /\ reply \in Answers \cup {"none", "awaited", "lost"}
    /\ install \in [Stagings -> InstallRows] /\ decided \in [Stagings -> {"none", "approved", "denied"}]
    /\ sel \in Seq(Installs) /\ launched \subseteq Installs /\ storeOp \in StoreOps /\ disturbed \subseteq Installs

\* The helper is where its request leads it.
StorePlaces ==
    /\ req.do = "none" => req = NoReq
    /\ req.pc = "idle" => req = NoReq
    /\ req.do \in {"stage", "publish", "outcome"} => req.s \in Stagings
    /\ req.do # "none" => req.n \in Installs
    /\ req.pc \in StoreDos => req.do = req.pc
    /\ req.pc \in PrePcs \cup {"conflict", "discard", "rename"} => req.do = "publish"
    /\ req.pc = "V2" => req.do = "verify" /\ req.s \in Stagings
    /\ req.pc \in RemovePcs => req.do = "remove"
    /\ req.pc \in PrePcs \cup {"rename"} => req.at = req.s
    /\ req.pc \in MidPcs => req.back \in {"recover", "publish"} /\ (req.back = "publish" => req.do = "publish" /\
         req.at = req.s)
    /\ reply \in Answers => req = NoReq
    /\ storeOp.do \in {"settle", "use"} => storeOp.n \in Installs

\* What is intended is what the helper is at, or still has to recover.
StoreIntents ==
    /\ \A s, t \in intended : s = t
    /\ req.pc \in MidPcs \cup {"rename"} => req.at \in intended
    /\ req.pc = "recover" => intended \subseteq req.todo
    /\ req.pc \in MidPcs /\ req.back = "recover" => intended \subseteq req.todo \cup {req.at}
    /\ req.pc \notin MidPcs \cup {"rename", "recover", "idle"} => intended = {}

\* A record was of bytes that had been read, and a record of the present change time is of the present bytes.
RecGood(r) == r # NoRec => r.root \in Stagings /\ r.ver <= ver[r.root] /\ (r.ver = ver[r.root] => good[r.root])
StoreRecords ==
    /\ \A s \in Stagings : RecGood(irec[s]) /\ (irec[s] # NoRec => irec[s].root = s)
    /\ \A n \in Installs : RecGood(metaR[n])
    /\ req.pc \in {"rehash", "R2", "V2"} => req.ver <= ver[req.s]
    /\ req.pc \in {"R2", "V2"} => (req.ver = ver[req.s] => good[req.s])

\* Only a row that the operator approved is published.
StoreApproved ==
    /\ \A s \in Stagings : install[s] = "approved" => decided[s] = "approved"
    /\ \A s \in pubReceipts \cup intended : decided[s] = "approved"
    /\ \A s \in pubReceipts \cup intended : install[s] \in {"approved", "published"} \/ name[s] \in disturbed
    /\ req.do = "publish" => install[req.s] = "approved"
    /\ storeOp.do = "settle" => storeOp.s \in Stagings /\ install[storeOp.s] = "approved"
    /\ \A s \in Stagings \ begun : install[s] = "none"
    /\ storeOp.do = "install" => storeOp.s \in begun /\ install[storeOp.s] = "none"

\* A staging that was not built yet is nowhere else.
StoreFresh ==
    /\ \A s \in Stagings : s \notin begun \/ s \in building \/ (req.do = "stage" /\ req.s = s) =>
            s \notin staged \cup intended \cup pubReceipts /\ tree[s] # "install"
    /\ \A s \in building : tree[s] = "staging" /\ s \in begun
    /\ req.do = "stage" => req.s \in begun
    /\ req.pc \in PrePcs \cup {"conflict", "discard", "rename"} => req.s \notin building

\* The trees and the receipts of the name n are those of s, if there are any.
OnlyOf(n, s) == \A t \in Stagings : name[t] = n /\ (tree[t] = "install" \/ t \in pubReceipts) => t = s

\* Nothing in the store has the name n, but perhaps an intent.
Untaken(n) ==
    /\ \A t \in Stagings : name[t] = n => tree[t] # "install" /\ t \notin pubReceipts
    /\ n \notin metaM /\ metaR[n] = NoRec

\* What is intended has its name alone.
OwnNames == \A s \in intended : OnlyOf(name[s], s)

\* The name that is being published is free until the rename, and the trees and records are where the helper is.
StoreNames ==
    /\ req.pc \in PrePcs \cup {"rename"} => Untaken(name[req.s])
    /\ req.pc \in PrePcs \cup {"conflict", "discard", "rename"} => tree[req.s] = "staging" /\ req.s \notin pubReceipts
    /\ req.pc \in {"seal", "P3", "P4", "P5", "fail", "untree", "unmeta"} => req.at \notin pubReceipts
    /\ req.pc \in {"seal", "P3", "P4", "P5"} => tree[req.at] = "install"
    /\ req.pc \in {"P3", "P4", "P5"} => sealed[req.at] /\ (name[req.at] \in disturbed \/ irec[req.at] = RecordOf(req.at))
    /\ req.pc \in {"P4", "P5"} => name[req.at] \in metaM
    /\ req.pc = "P5" => metaR[name[req.at]] = irec[req.at]
    /\ req.pc = "V2" => req.s \in pubReceipts /\ name[req.s] = req.n

\* An install is whole: its one receipt, its tree and its meta files agree.
WholeBy(n, s) ==
    /\ s \in pubReceipts /\ name[s] = n /\ tree[s] = "install" /\ sealed[s] /\ OnlyOf(n, s)
    /\ n \in metaM /\ metaR[n] = RecordOf(s)
Whole(n) == \E s \in Stagings : WholeBy(n, s)

\* It is used, or `use' was told that it is published.
Picked(n) ==
    storeOp.do = "use" /\ storeOp.n = n /\ ((storeOp.pc = "list" /\ reply = "published") \/ storeOp.pc = "write")
UsedNow(n) == n \in launched \/ (\E i \in 1 .. Len(sel) : i <= 2 /\ sel[i] = n) \/ Picked(n)

\* What is used is whole, and so is what was published and is not recorded yet.
OwedRow(s) == install[s] = "approved" /\ s \in pubReceipts \cup intended

WholeUses ==
    /\ \A n \in Installs \ disturbed : UsedNow(n) => Whole(n) /\ (\A s \in intended : name[s] # n)
    /\ \A s \in pubReceipts : install[s] = "approved" /\ name[s] \notin disturbed => Whole(name[s])

\* ... and nothing that is used is being removed, nor what was approved and is to be settled.
StoreUses ==
    /\ WholeUses
    /\ storeOp.do = "use" /\ req # NoReq => storeOp.pc = "list" /\ req.do = "list" /\ req.n = storeOp.n
    /\ req.do = "remove" => req.n \in disturbed \/ ~UsedNow(req.n)
    /\ req.do = "remove" => \A s \in Stagings : OwedRow(s) => name[s] \in disturbed
    /\ storeOp.do = "settle" /\ reply = "awaited" /\ req # NoReq =>
            req.s = storeOp.s /\ req.do \in {"recovered", "outcome", "publish", "state"}
    /\ storeOp.do = "settle" /\ reply \in {"failed", "conflict"} =>
            storeOp.s \notin pubReceipts \cup intended \/ name[storeOp.s] \in disturbed

StoreInv ==
    /\ StoreTypes /\ StorePlaces /\ StoreIntents /\ StoreRecords /\ StoreApproved /\ StoreFresh /\ OwnNames
    /\ StoreNames /\ StoreUses

\* The helper goes on to p with its request as it is.
Moves(p) ==
    /\ req' \in StoreReqs /\ req'.do = req.do /\ req'.s = req.s /\ req'.at = req.at /\ req'.n = req.n
    /\ req'.pc = p /\ req'.todo = req.todo /\ req'.ver = req.ver /\ req'.back = req.back

LEMMA GoMoves ==
  ASSUME req \in StoreReqs, NEW p \in StorePcs, StoreGo(p) PROVE Moves(p)
BY DEF StoreGo, Moves, StoreReqs

LEMMA IdleReq ==
  /\ NoReq \in StoreReqs /\ NoReq.do = "none" /\ NoReq.s = NoOne /\ NoReq.at = NoOne /\ NoReq.n = NoName
  /\ NoReq.pc = "idle" /\ NoReq.todo = {} /\ NoReq.ver = 0 /\ NoReq.back = "idle"
BY DEF NoReq, StoreReqs, StorePcs

\* A request starts with the recovery.
Starts(d, s, n) ==
    /\ req' \in StoreReqs /\ req'.do = d /\ req'.s = s /\ req'.n = n /\ req'.pc = "recover"
    /\ intended \subseteq req'.todo
    /\ reply' = "awaited" /\ req = NoReq

LEMMA RequestStarts ==
  ASSUME NEW d \in StoreDos, NEW s \in Stagings \cup {NoOne}, NEW n \in Installs \cup {NoName},
    intended \subseteq Stagings, StoreRequest(d, s, n)
  PROVE  Starts(d, s, n)
<1>1. PICK T : T = {i \in Stagings : i \in intended \/ irec[i] # NoRec} OBVIOUS
<1>2. req' = [do |-> d, s |-> s, at |-> NoOne, n |-> n, pc |-> "recover", todo |-> T, ver |-> 0, back |-> "idle"]
 BY <1>1 DEF StoreRequest, NoReq
<1>3. T \subseteq Stagings /\ intended \subseteq T BY <1>1
<1>4. req = NoReq /\ reply' = "awaited" BY DEF StoreRequest
<1>5. "recover" \in StorePcs BY DEF StorePcs
<1> QED BY <1>2, <1>3, <1>4, <1>5 DEF Starts, StoreReqs

deskKept == UNCHANGED <<begun, install, decided, sel, launched, storeOp, disturbed>>
filesKept == UNCHANGED <<name, tree, good, ver, sealed, building, staged, irec, intended, pubReceipts, metaM, metaR>>

------------------------------
(* What the helper's steps do. *)

LEMMA ReadsDo ==
  ASSUME StoreTypes, StoreReads
  PROVE  /\ req.pc \in ReadPcs /\ req' = NoReq /\ filesKept /\ deskKept
         /\ reply # "awaited" => reply' = reply
         /\ reply = "awaited" /\ req.pc = "outcome" => reply' = CheckOutcome(req.s)
         /\ reply = "awaited" /\ req.pc \in {"state", "list"} => reply' = InstallState(req.n)
         /\ reply = "awaited" /\ req.pc = "recovered" => reply' = "ok"
BY DEF StoreReads, StoreAnswer, ReadPcs, storeFiles, harnessDesk, deskKept, filesKept

LEMMA DecidedDoes ==
  ASSUME StoreTypes, PublishDecided
  PROVE  /\ req.pc = "publish" /\ req' = NoReq /\ filesKept /\ deskKept
         /\ reply' = reply \/ reply' \in {"ok", "refused"}
BY DEF PublishDecided, StoreAnswer, storeFiles, harnessDesk, deskKept, filesKept

LEMMA BeginDoes ==
  ASSUME StoreTypes, StorePlaces, PublishBegin
  PROVE  /\ req.pc = "publish" /\ req.s \in staged /\ req.s \notin pubReceipts /\ tree[req.s] = "staging"
         /\ deskKept /\ UNCHANGED reply
         /\ UNCHANGED <<name, tree, good, ver, building, staged, irec, intended, pubReceipts, metaM, metaR>>
         /\ \/ Moves("conflict") /\ UNCHANGED sealed
            \/ /\ ~NameHeld(name[req.s]) /\ sealed' = [sealed EXCEPT ![req.s] = TRUE]
               /\ req' \in StoreReqs /\ req'.do = req.do /\ req'.s = req.s /\ req'.at = req.s /\ req'.n = req.n
               /\ req'.pc = "rehash" /\ req'.ver = ver[req.s]
<1>0. req.s \in Stagings BY DEF PublishBegin, StorePlaces, StoreDos
<1>1. /\ req.pc = "publish" /\ req.s \in staged /\ req.s \notin pubReceipts /\ tree[req.s] = "staging"
      /\ deskKept /\ UNCHANGED reply
      /\ UNCHANGED <<name, tree, good, ver, building, staged, irec, intended, pubReceipts, metaM, metaR>>
 BY DEF PublishBegin, harnessDesk, deskKept
<1>2. CASE NameHeld(name[req.s]) BY <1>1, <1>2, GoMoves DEF PublishBegin, StoreTypes, StorePcs
<1>3. CASE ~NameHeld(name[req.s])
 <2>1. PICK v \in Nat : v = ver[req.s] BY <1>0 DEF StoreTypes
 <2>2. req' = [req EXCEPT !.pc = "rehash", !.at = req.s, !.ver = v] /\ sealed' = [sealed EXCEPT ![req.s] = TRUE]
  BY <1>3, <2>1 DEF PublishBegin
 <2>3. /\ req' \in StoreReqs /\ req'.do = req.do /\ req'.s = req.s /\ req'.at = req.s /\ req'.n = req.n
       /\ req'.pc = "rehash" /\ req'.ver = v BY <1>0, <2>2 DEF StoreReqs, StoreTypes, StorePcs, PrePcs
 <2> QED BY <1>1, <1>3, <2>1, <2>2, <2>3
<1> QED BY <1>2, <1>3

LEMMA RehashDoes ==
  ASSUME StoreTypes, PublishRehash
  PROVE  /\ req.pc = "rehash" /\ filesKept /\ deskKept /\ UNCHANGED reply
         /\ (Moves("R2") /\ good[req.s]) \/ Moves("discard")
BY GoMoves DEF PublishRehash, BytesMatch, StoreTypes, storeFiles, harnessDesk, deskKept, filesKept, StorePcs, PrePcs

LEMMA R2Does ==
  ASSUME StoreTypes, PublishR2
  PROVE  /\ req.pc = "R2" /\ deskKept /\ UNCHANGED reply
         /\ UNCHANGED <<name, tree, good, ver, sealed, building, staged, intended, pubReceipts, metaM, metaR>>
         /\ \/ Moves("intent") /\ ver[req.s] = req.ver /\ irec' = [irec EXCEPT ![req.s] = RecordOf(req.s)]
            \/ Moves("discard") /\ UNCHANGED irec
BY GoMoves DEF PublishR2, StoreTypes, harnessDesk, deskKept, StorePcs, PrePcs

LEMMA FailDoes ==
  ASSUME StoreTypes, PublishFail
  PROVE  /\ req.pc \in {"conflict", "discard"} /\ req' = NoReq /\ deskKept
         /\ UNCHANGED <<name, good, ver, sealed, building, irec, intended, pubReceipts, metaM, metaR>>
         /\ staged' \subseteq staged /\ tree' = [tree EXCEPT ![req.s] = "none"]
         /\ reply' = reply \/ (reply = "awaited" /\ reply' \in {"conflict", "refused"})
BY DEF PublishFail, StoreAnswer, harnessDesk, deskKept

LEMMA IntentDoes ==
  ASSUME StoreTypes, PublishIntent
  PROVE  /\ req.pc = "intent" /\ Moves("rename") /\ deskKept /\ UNCHANGED reply
         /\ UNCHANGED <<name, tree, good, ver, sealed, building, staged, irec, pubReceipts, metaM, metaR>>
         /\ intended' = intended \cup {req.s}
BY GoMoves DEF PublishIntent, StoreTypes, harnessDesk, deskKept, StorePcs, PrePcs

LEMMA RenameDoes ==
  ASSUME StoreTypes, PublishRename
  PROVE  /\ req.pc = "rename" /\ deskKept /\ UNCHANGED reply
         /\ UNCHANGED <<name, good, ver, building, staged, irec, intended, pubReceipts, metaM, metaR>>
         /\ sealed' = [sealed EXCEPT ![req.at] = FALSE] /\ tree' = [tree EXCEPT ![req.at] = "install"]
         /\ req' \in StoreReqs /\ req'.do = req.do /\ req'.s = req.s /\ req'.at = req.at /\ req'.n = req.n
         /\ req'.pc = "seal" /\ req'.back = "publish"
<1>1. req' = [req EXCEPT !.pc = "seal", !.back = "publish"] /\ req \in StoreReqs BY DEF PublishRename, StoreTypes
<1>2. /\ req' \in StoreReqs /\ req'.do = req.do /\ req'.s = req.s /\ req'.at = req.at /\ req'.n = req.n
      /\ req'.pc = "seal" /\ req'.back = "publish" BY <1>1 DEF StoreReqs, StorePcs, MidPcs
<1> QED BY <1>2 DEF PublishRename, harnessDesk, deskKept

LEMMA SealDoes ==
  ASSUME StoreTypes, PublishSeal
  PROVE  /\ req.pc = "seal" /\ deskKept
         /\ UNCHANGED <<name, tree, good, ver, building, staged, irec, intended, pubReceipts, metaM, metaR>>
         /\ \/ /\ UNCHANGED reply /\ sealed' = [sealed EXCEPT ![req.at] = TRUE]
               /\ \/ Moves("P3") /\ irec[req.at] = RecordOf(req.at)
                  \/ Moves("fail")
            \/ UNCHANGED sealed /\ req' = NoReq /\ (reply' = reply \/ reply' = "refused")
BY GoMoves DEF PublishSeal, StoreAnswer, StoreTypes, harnessDesk, deskKept, StorePcs, MidPcs

LEMMA P3Does ==
  ASSUME StoreTypes, CompleteP3
  PROVE  /\ req.pc = "P3" /\ Moves("P4") /\ deskKept /\ UNCHANGED reply
         /\ UNCHANGED <<name, tree, good, ver, sealed, building, staged, irec, intended, pubReceipts, metaR>>
         /\ metaM' = metaM \cup {name[req.at]}
BY GoMoves DEF CompleteP3, StoreTypes, harnessDesk, deskKept, StorePcs, MidPcs

LEMMA P4Does ==
  ASSUME StoreTypes, CompleteP4
  PROVE  /\ req.pc = "P4" /\ Moves("P5") /\ deskKept /\ UNCHANGED reply
         /\ UNCHANGED <<name, tree, good, ver, sealed, building, staged, irec, intended, pubReceipts, metaM>>
         /\ metaR' = [metaR EXCEPT ![name[req.at]] = irec[req.at]]
BY GoMoves DEF CompleteP4, StoreTypes, harnessDesk, deskKept, StorePcs, MidPcs

LEMMA P5Does ==
  ASSUME StoreTypes, CompleteP5
  PROVE  /\ req.pc = "P5" /\ Moves("unstage") /\ deskKept /\ UNCHANGED reply
         /\ UNCHANGED <<name, tree, good, ver, sealed, building, staged, irec, intended, metaM, metaR>>
         /\ pubReceipts' = pubReceipts \cup {req.at}
BY GoMoves DEF CompleteP5, StoreTypes, harnessDesk, deskKept, StorePcs, MidPcs

LEMMA AbandonFailDoes ==
  ASSUME StoreTypes, AbandonFail
  PROVE  req.pc = "fail" /\ Moves("untree") /\ deskKept /\ UNCHANGED reply /\ filesKept
BY GoMoves DEF AbandonFail, StoreTypes, harnessDesk, deskKept, filesKept, StorePcs, MidPcs

LEMMA AbandonTreeDoes ==
  ASSUME StoreTypes, AbandonTree
  PROVE  /\ req.pc = "untree" /\ Moves("unmeta") /\ deskKept /\ UNCHANGED reply
         /\ UNCHANGED <<name, good, ver, sealed, building, staged, irec, intended, pubReceipts, metaM, metaR>>
         /\ tree' = [tree EXCEPT ![req.at] = "none"]
BY GoMoves DEF AbandonTree, StoreTypes, harnessDesk, deskKept, StorePcs, MidPcs

LEMMA AbandonMetaDoes ==
  ASSUME StoreTypes, AbandonMeta
  PROVE  /\ req.pc = "unmeta" /\ Moves("unstage") /\ deskKept /\ UNCHANGED reply
         /\ UNCHANGED <<name, tree, good, ver, sealed, building, staged, irec, intended, pubReceipts>>
         /\ \/ UNCHANGED <<metaM, metaR>>
            \/ /\ \A s \in pubReceipts : name[s] # name[req.at]
               /\ metaM' = metaM \ {name[req.at]}
               /\ metaR' = metaR \/ metaR' = [metaR EXCEPT ![name[req.at]] = NoRec]
BY GoMoves DEF AbandonMeta, ReceiptsOf, StoreTypes, harnessDesk, deskKept, StorePcs, MidPcs

LEMMA CleanStagedDoes ==
  ASSUME StoreTypes, CleanStaged
  PROVE  /\ req.pc = "unstage" /\ Moves("unrecord") /\ deskKept /\ UNCHANGED reply
         /\ UNCHANGED <<name, tree, good, ver, sealed, building, irec, intended, pubReceipts, metaM, metaR>>
         /\ staged' \subseteq staged
BY GoMoves DEF CleanStaged, StoreTypes, harnessDesk, deskKept, StorePcs, MidPcs

LEMMA CleanRecordDoes ==
  ASSUME StoreTypes, CleanRecord
  PROVE  /\ req.pc = "unrecord" /\ Moves("unintent") /\ deskKept /\ UNCHANGED reply
         /\ UNCHANGED <<name, tree, good, ver, sealed, building, staged, intended, pubReceipts, metaM, metaR>>
         /\ irec' = [irec EXCEPT ![req.at] = NoRec]
BY GoMoves DEF CleanRecord, StoreTypes, harnessDesk, deskKept, StorePcs, MidPcs

LEMMA CleanIntentDoes ==
  ASSUME StoreTypes, CleanIntent
  PROVE  /\ req.pc = "unintent" /\ deskKept
         /\ UNCHANGED <<name, tree, good, ver, sealed, building, staged, irec, pubReceipts, metaM, metaR>>
         /\ intended' = intended \ {req.at}
         /\ \/ req.back = "recover" /\ Moves("recover") /\ UNCHANGED reply
            \/ req' = NoReq /\ (reply' = reply \/ reply' \in {"ok", "refused"})
BY GoMoves DEF CleanIntent, StoreAnswer, StoreTypes, harnessDesk, deskKept, StorePcs, MidPcs

\* The least of the stagings that are left to recover is one of them.
LEMMA LeastStaging ==
  ASSUME NEW S, S \subseteq Nat, S # {}
  PROVE  Min(S) \in S
<1>1. \A y, z \in Nat : y < z => <<y, z>> \in OpToRel(<, Nat) BY DEF OpToRel
<1>2. PICK R : IsWellFoundedOn(R, Nat) /\ \A y, z \in Nat : y < z => <<y, z>> \in R
 BY <1>1, NatLessThanWellFounded, Zenon
<1>3. PICK x \in S : \A y \in S : <<y, x>> \notin R
 <2>1. IsWellFoundedOn(R, Nat) BY <1>2
 <2> QED BY <2>1, WFMin, Zenon
<1>4. ASSUME NEW y \in S PROVE x =< y
 <2>1. x \in Nat /\ y \in Nat /\ ~(y < x) BY <1>2, <1>3
 <2> QED BY <2>1
<1>5. \E m \in S : \A y \in S : m =< y BY <1>4
<1> QED BY <1>5 DEF Min

\* The recovery takes up a staging that is left: it drops the record of one that no intent names, cleans up after
\* a publication that was done, abandons one that failed or can't be completed, and completes the others.
RecoveryOf(s) ==
    /\ s \in req.todo /\ s \in Stagings /\ req' \in StoreReqs
    /\ req'.do = req.do /\ req'.s = req.s /\ req'.n = req.n /\ req'.todo = req.todo \ {s}
    /\ \/ /\ s \notin intended /\ irec' = [irec EXCEPT ![s] = NoRec] /\ req'.pc = "recover" /\ UNCHANGED sealed
       \/ /\ s \in intended /\ irec' = irec /\ req'.back = "recover" /\ req'.at = s
          /\ \/ req'.pc = "unstage" /\ s \in pubReceipts /\ UNCHANGED sealed
             \/ /\ req'.pc \in {"untree", "unrecord", "fail"} /\ s \notin pubReceipts
                /\ sealed' = sealed \/ sealed' = [sealed EXCEPT ![s] = TRUE]
             \/ /\ req'.pc = "P3" /\ s \notin pubReceipts /\ tree[s] = "install" /\ irec[s] = RecordOf(s)
                /\ sealed' = [sealed EXCEPT ![s] = TRUE]

LEMMA RecoverDoes ==
  ASSUME StoreTypes, RecoverOne
  PROVE  /\ req.pc = "recover" /\ deskKept /\ UNCHANGED reply
         /\ UNCHANGED <<name, tree, good, ver, building, staged, intended, pubReceipts, metaM, metaR>>
         /\ \E s \in Stagings : RecoveryOf(s)
<1>1. /\ req.pc = "recover" /\ req.todo # {} /\ deskKept /\ UNCHANGED reply
      /\ UNCHANGED <<name, tree, good, ver, building, staged, intended, pubReceipts, metaM, metaR>>
 BY DEF RecoverOne, harnessDesk, deskKept
<1>2. req \in StoreReqs /\ req.todo \in SUBSET Stagings BY DEF StoreTypes, StoreReqs
<1>3. PICK s \in req.todo : s = Min(req.todo) /\ s \in Stagings BY <1>1, <1>2, HarnessBounds, LeastStaging
<1>4. ASSUME NEW p \in StorePcs, req' = [req EXCEPT !.pc = p, !.todo = @ \ {s}, !.back = "recover", !.at = s]
      PROVE  /\ req' \in StoreReqs /\ req'.do = req.do /\ req'.s = req.s /\ req'.n = req.n
             /\ req'.todo = req.todo \ {s} /\ req'.back = "recover" /\ req'.at = s /\ req'.pc = p
 <2>1. PICK T \in SUBSET Stagings : T = req.todo \ {s} BY <1>2
 <2>2. req' = [req EXCEPT !.pc = p, !.todo = T, !.back = "recover", !.at = s] BY <1>4, <2>1
 <2>3. /\ req' \in StoreReqs /\ req'.do = req.do /\ req'.s = req.s /\ req'.n = req.n
       /\ req'.todo = T /\ req'.back = "recover" /\ req'.at = s /\ req'.pc = p BY <1>2, <1>3, <2>2 DEF StoreReqs
 <2> QED BY <2>1, <2>3
<1>5. {"unstage", "untree", "unrecord", "fail", "P3"} \subseteq StorePcs BY DEF StorePcs, MidPcs
<1>6. CASE s \notin intended
 <2>1. irec' = [irec EXCEPT ![s] = NoRec] /\ req' = [req EXCEPT !.todo = @ \ {s}] /\ UNCHANGED sealed
  BY <1>3, <1>6 DEF RecoverOne
 <2>2. PICK T \in SUBSET Stagings : T = req.todo \ {s} BY <1>2
 <2>3. req' = [req EXCEPT !.todo = T] BY <2>1, <2>2
 <2>4. /\ req' \in StoreReqs /\ req'.do = req.do /\ req'.s = req.s /\ req'.n = req.n /\ req'.todo = T
       /\ req'.pc = req.pc BY <1>2, <2>3 DEF StoreReqs
 <2>5. RecoveryOf(s) BY <1>1, <1>3, <1>6, <2>1, <2>2, <2>4 DEF RecoveryOf
 <2> QED BY <1>1, <1>3, <2>5
<1>7. CASE s \in intended /\ s \in pubReceipts
 <2>1. req' = [req EXCEPT !.pc = "unstage", !.todo = @ \ {s}, !.back = "recover", !.at = s] /\
         UNCHANGED <<irec, sealed>> BY <1>3, <1>7 DEF RecoverOne
 <2>2. RecoveryOf(s) BY <1>3, <1>4, <1>5, <1>7, <2>1 DEF RecoveryOf
 <2> QED BY <1>1, <1>3, <2>2
<1>8. CASE s \in intended /\ s \in failed /\ s \notin pubReceipts
 <2>1. req' = [req EXCEPT !.pc = "untree", !.todo = @ \ {s}, !.back = "recover", !.at = s] /\
         UNCHANGED <<irec, sealed>> BY <1>3, <1>8 DEF RecoverOne
 <2>2. RecoveryOf(s) BY <1>3, <1>4, <1>5, <1>8, <2>1 DEF RecoveryOf
 <2> QED BY <1>1, <1>3, <2>2
<1>9. CASE s \in intended /\ s \notin pubReceipts /\ s \notin failed
 <2>1. /\ UNCHANGED irec
       /\ \/ /\ req' = [req EXCEPT !.pc = "unrecord", !.todo = @ \ {s}, !.back = "recover", !.at = s]
             /\ UNCHANGED sealed
          \/ /\ req' = [req EXCEPT !.pc = "fail", !.todo = @ \ {s}, !.back = "recover", !.at = s]
             /\ sealed' = sealed \/ sealed' = [sealed EXCEPT ![s] = TRUE]
          \/ /\ req' = [req EXCEPT !.pc = "P3", !.todo = @ \ {s}, !.back = "recover", !.at = s]
             /\ sealed' = [sealed EXCEPT ![s] = TRUE] /\ tree[s] = "install" /\ irec[s] = RecordOf(s)
  BY <1>3, <1>9 DEF RecoverOne, Reverify
 <2>2. RecoveryOf(s) BY <1>3, <1>4, <1>5, <1>9, <2>1 DEF RecoveryOf
 <2> QED BY <1>1, <1>3, <2>2
<1> QED BY <1>6, <1>7, <1>8, <1>9

LEMMA SweepDoes ==
  ASSUME StoreTypes, StorePlaces, Sweep
  PROVE  /\ req.pc = "recover" /\ req.todo = {} /\ deskKept /\ UNCHANGED reply
         /\ UNCHANGED <<name, good, ver, sealed, building, irec, intended, pubReceipts, metaM, metaR>>
         /\ staged' \subseteq staged /\ tree' \in [Stagings -> {"none", "staging", "install"}]
         /\ \A s \in Stagings : tree'[s] = tree[s] \/ (tree[s] = "staging" /\ s \notin building /\ tree'[s] = "none")
         /\ req' = NoReq \/ (Moves(req.do) /\ req.do \in StoreDos)
<1>0. req.do \in StoreDos BY IdleReq DEF Sweep, StorePlaces, StoreTypes, StoreReqs
<1>1. req.pc = "recover" /\ req.todo = {} /\ deskKept /\ UNCHANGED reply /\
        UNCHANGED <<name, good, ver, sealed, building, irec, intended, pubReceipts, metaM, metaR>> /\
        staged' \subseteq staged BY DEF Sweep, harnessDesk, deskKept
<1>2. req' = NoReq \/ Moves(req.do) BY <1>0, GoMoves DEF Sweep, StoreTypes, StorePcs
<1>3. /\ tree' \in [Stagings -> {"none", "staging", "install"}]
      /\ \A s \in Stagings : tree'[s] = tree[s] \/ (tree[s] = "staging" /\ s \notin building /\ tree'[s] = "none")
 BY DEF Sweep, StoreTypes
<1> QED BY <1>0, <1>1, <1>2, <1>3

LEMMA StageBeginDoes ==
  ASSUME StoreTypes, NEW f, StageBegin(f)
  PROVE  /\ req.pc = "stage" /\ req' = NoReq /\ deskKept
         /\ UNCHANGED <<name, good, ver, sealed, staged, irec, intended, pubReceipts, metaM, metaR>>
         /\ reply' = reply \/ reply' \in {"ok", "refused"}
         /\ \/ UNCHANGED <<tree, building>>
            \/ tree' = [tree EXCEPT ![req.s] = "staging"] /\ building' = building \cup {req.s}
BY DEF StageBegin, StoreAnswer, harnessDesk, deskKept

LEMMA StageEndDoes ==
  ASSUME StoreTypes, NEW f, NEW s \in Stagings, StageEnd(s, f)
  PROVE  /\ s \in building /\ building' = building \ {s} /\ UNCHANGED <<req, reply>> /\ deskKept
         /\ UNCHANGED <<name, good, ver, irec, intended, pubReceipts, metaM, metaR>>
         /\ \/ req = NoReq /\ staged' = staged \cup {s} /\ sealed' = [sealed EXCEPT ![s] = TRUE] /\ UNCHANGED tree
            \/ tree' = [tree EXCEPT ![s] = "none"] /\ UNCHANGED <<staged, sealed>>
BY DEF StageEnd, harnessDesk, deskKept

LEMMA VerifyBeginDoes ==
  ASSUME StoreTypes, VerifyBegin
  PROVE  /\ req.pc = "verify" /\ filesKept /\ deskKept
         /\ \/ req' = NoReq /\ (reply' = reply \/ reply' \in {"absent", "refused"})
            \/ /\ UNCHANGED reply /\ req' \in StoreReqs /\ req'.do = req.do /\ req'.n = req.n /\ req'.pc = "V2"
               /\ req'.s \in Stagings /\ req'.s \in pubReceipts /\ name[req'.s] = req.n /\ good[req'.s]
               /\ req'.ver = ver[req'.s]
<1>1. req.pc = "verify" /\ filesKept /\ deskKept BY DEF VerifyBegin, storeFiles, harnessDesk, deskKept, filesKept
<1>2. PICK s : s = CHOOSE t \in ReceiptsOf(req.n) : TRUE OBVIOUS
<1>3. CASE StoreAnswer("absent") \/ StoreAnswer("refused") BY <1>1, <1>3 DEF StoreAnswer
<1>4. CASE ~(StoreAnswer("absent") \/ StoreAnswer("refused"))
 <2>1. /\ Cardinality(ReceiptsOf(req.n)) = 1 /\ BytesMatch(s)
       /\ req' = [req EXCEPT !.pc = "V2", !.s = s, !.ver = ver[s]] /\ UNCHANGED reply BY <1>2, <1>4 DEF VerifyBegin
 <2>2. ReceiptsOf(req.n) # {} BY <2>1, FS_EmptySet
 <2>3. s \in ReceiptsOf(req.n) BY <1>2, <2>2
 <2>4. s \in Stagings /\ s \in pubReceipts /\ name[s] = req.n /\ good[s]
  BY <2>1, <2>3 DEF ReceiptsOf, BytesMatch, StoreTypes
 <2>5. PICK v \in Nat : v = ver[s] BY <2>4 DEF StoreTypes
 <2>6. req' = [req EXCEPT !.pc = "V2", !.s = s, !.ver = v] /\ req \in StoreReqs BY <2>1, <2>5 DEF StoreTypes
 <2>7. req' \in StoreReqs /\ req'.do = req.do /\ req'.n = req.n /\ req'.pc = "V2" /\ req'.s = s /\ req'.ver = v
  BY <2>4, <2>6 DEF StoreReqs, StorePcs
 <2> QED BY <1>1, <2>1, <2>4, <2>5, <2>7
<1> QED BY <1>3, <1>4

LEMMA VerifyEndDoes ==
  ASSUME StoreTypes, VerifyEnd
  PROVE  /\ req.pc = "V2" /\ req' = NoReq /\ deskKept /\
              UNCHANGED <<name, tree, good, ver, sealed, building, staged, irec, intended, pubReceipts, metaM>> /\
              (reply' = reply \/ reply' \in {"ok", "refused"})
         /\ \/ UNCHANGED metaR
            \/ ver[req.s] = req.ver /\ metaR' = [metaR EXCEPT ![req.n] = RecordOf(req.s)]
BY DEF VerifyEnd, StoreAnswer, harnessDesk, deskKept

LEMMA RemoveMetaDoes ==
  ASSUME StoreTypes, RemoveMeta
  PROVE  /\ req.pc = "remove" /\ deskKept
         /\ UNCHANGED <<name, tree, good, ver, sealed, building, staged, irec, intended, pubReceipts, metaM>>
         /\ \/ UNCHANGED metaR /\ req' = NoReq /\ (reply' = reply \/ reply' \in {"absent", "refused"})
            \/ metaR' = [metaR EXCEPT ![req.n] = NoRec] /\ Moves("rmmanifest") /\ UNCHANGED reply
BY GoMoves DEF RemoveMeta, StoreAnswer, StoreTypes, harnessDesk, deskKept, StorePcs, RemovePcs

LEMMA RemoveTreeDoes ==
  ASSUME StoreTypes, RemoveTree
  PROVE  /\ req.pc \in {"rmmanifest", "rmtree"} /\ deskKept /\ UNCHANGED reply
         /\ UNCHANGED <<name, good, ver, sealed, building, staged, irec, intended, pubReceipts, metaR>>
         /\ \/ metaM' = metaM \ {req.n} /\ Moves("rmtree") /\ UNCHANGED tree
            \/ /\ Moves("rmreceipt") /\ UNCHANGED metaM /\ tree' \in [Stagings -> {"none", "staging", "install"}]
               /\ \A s \in Stagings : tree'[s] = tree[s] \/ (tree[s] = "install" /\ name[s] = req.n /\
                    tree'[s] = "none")
<1>1. req.pc \in {"rmmanifest", "rmtree"} /\ deskKept /\ UNCHANGED reply /\
        UNCHANGED <<name, good, ver, sealed, building, staged, irec, intended, pubReceipts, metaR>>
 BY DEF RemoveTree, harnessDesk, deskKept
<1>2. CASE req.pc = "rmmanifest" BY <1>1, <1>2, GoMoves DEF RemoveTree, StoreTypes, StorePcs, RemovePcs
<1>3. CASE req.pc = "rmtree"
 <2>1. Moves("rmreceipt") /\ UNCHANGED metaM BY <1>3, GoMoves DEF RemoveTree, StoreTypes, StorePcs, RemovePcs
 <2>2. tree' = [s \in Stagings |-> IF s \in TreeAt(req.n) THEN "none" ELSE tree[s]] BY <1>3 DEF RemoveTree
 <2>3. /\ tree' \in [Stagings -> {"none", "staging", "install"}]
       /\ \A s \in Stagings : tree'[s] = tree[s] \/ (tree[s] = "install" /\ name[s] = req.n /\ tree'[s] = "none")
  BY <2>2 DEF TreeAt, StoreTypes
 <2> QED BY <1>1, <2>1, <2>3
<1> QED BY <1>1, <1>2, <1>3

LEMMA RemoveReceiptDoes ==
  ASSUME StoreTypes, RemoveReceipt
  PROVE  /\ req.pc = "rmreceipt" /\ req' = NoReq /\ deskKept /\
              UNCHANGED <<name, tree, good, ver, sealed, building, staged, irec, intended, metaM, metaR>> /\
              (reply' = reply \/ reply' = "ok")
         /\ pubReceipts' \subseteq pubReceipts /\ \A s \in pubReceipts \ pubReceipts' : name[s] = req.n
BY DEF RemoveReceipt, ReceiptsOf, StoreAnswer, harnessDesk, deskKept

------------------------------
(* What wsd's operations do. *)

\* The operation of wsd is now d, of the staging s and the install n, at p.
OpIs(d, s, n, p) ==
    storeOp' \in StoreOps /\ storeOp'.do = d /\ storeOp'.s = s /\ storeOp'.n = n /\ storeOp'.pc = p

LEMMA IdleOp ==
  NoStoreOp \in StoreOps /\ NoStoreOp.do = "none" /\ NoStoreOp.s = NoOne /\ NoStoreOp.n = NoName /\
    NoStoreOp.pc = "idle"
BY DEF NoStoreOp, StoreOps

OpPcs == {"idle", "stage", "recover", "outcome", "publish", "state", "list", "write", "close", "remove", "verify"}

LEMMA OpBegins ==
  ASSUME NEW d \in {"install", "settle", "use", "remove", "verify"}, NEW s \in Stagings \cup {NoOne},
    NEW n \in Installs \cup {NoName}, NEW p \in OpPcs,
    storeOp' = [do |-> d, s |-> s, n |-> n, pc |-> p]
  PROVE  OpIs(d, s, n, p)
BY DEF OpIs, StoreOps, OpPcs

LEMMA OpMoves ==
  ASSUME storeOp \in StoreOps, NEW p \in OpPcs, storeOp' = [storeOp EXCEPT !.pc = p]
  PROVE  OpIs(storeOp.do, storeOp.s, storeOp.n, p)
BY DEF OpIs, StoreOps, OpPcs

LEMMA GiveUpDoes ==
  ASSUME StoreTypes, GiveUp
  PROVE  reply = "awaited" /\ reply' = "lost" /\ UNCHANGED req /\ filesKept /\ deskKept
BY DEF GiveUp, storeFiles, harnessDesk, deskKept, filesKept

LEMMA InstallStageDoes ==
  ASSUME StoreTypes, NEW s \in Stagings, InstallStage(s)
  PROVE  /\ s \notin begun /\ begun' = begun \cup {s} /\ Starts("stage", s, name[s])
         /\ storeOp = NoStoreOp /\ OpIs("install", s, NoName, "stage") /\ name[s] \in Installs
         /\ filesKept /\ UNCHANGED <<install, decided, sel, launched, disturbed>>
<1>1. /\ s \notin begun /\ begun' = begun \cup {s} /\ StoreRequest("stage", s, name[s]) /\ storeOp = NoStoreOp
      /\ storeOp' = [NoStoreOp EXCEPT !.do = "install", !.s = s, !.pc = "stage"]
      /\ filesKept /\ UNCHANGED <<install, decided, sel, launched, disturbed>>
 BY DEF InstallStage, OpFree, storeFiles, filesKept
<1>2. Starts("stage", s, name[s]) BY <1>1, RequestStarts DEF StoreTypes, StoreDos
<1>3. storeOp' = [do |-> "install", s |-> s, n |-> NoName, pc |-> "stage"] BY <1>1 DEF NoStoreOp
<1>4. OpIs("install", s, NoName, "stage") BY <1>3, OpBegins DEF OpPcs
<1> QED BY <1>1, <1>2, <1>4 DEF StoreTypes

LEMMA InstallStagedDoes ==
  ASSUME StoreTypes, InstallStaged
  PROVE  /\ storeOp.do = "install" /\ storeOp' = NoStoreOp /\ reply' = "none" /\ UNCHANGED req
         /\ filesKept /\ UNCHANGED <<begun, decided, sel, launched, disturbed>>
         /\ install' = install \/ install' = [install EXCEPT ![storeOp.s] = "staged"]
BY DEF InstallStaged, OpDone, storeFiles, filesKept

LEMMA AskDoes ==
  ASSUME StoreTypes, NEW s \in Stagings, AskApproval(s)
  PROVE  /\ UNCHANGED <<req, reply, storeOp, begun, decided, sel, launched, disturbed>> /\ filesKept
         /\ storeOp = NoStoreOp
         /\ \/ install' = install
            \/ install[s] = "staged" /\ \E x \in {"posted", "failed"} : install' = [install EXCEPT ![s] = x]
BY DEF AskApproval, EndRow, storeFiles, filesKept

LEMMA DecideDoes ==
  ASSUME StoreTypes, NEW s \in Stagings, DecideInstall(s)
  PROVE  /\ UNCHANGED <<req, reply, storeOp, begun, install, sel, launched, disturbed>> /\ filesKept
         /\ decided[s] = "none" /\ \E d \in {"approved", "denied"} : decided' = [decided EXCEPT ![s] = d]
BY DEF DecideInstall, storeFiles, filesKept

LEMMA AdvanceDoes ==
  ASSUME StoreTypes, NEW s \in Stagings, AdvanceInstall(s)
  PROVE  /\ UNCHANGED <<req, reply, begun, decided, sel, launched, disturbed>> /\ filesKept
         /\ storeOp = NoStoreOp /\ reply = "none" /\ name[s] \in Installs
         /\ \/ /\ install[s] \in {"staged", "posted"} /\ UNCHANGED storeOp
               /\ \E x \in {"expired", "denied", "failed"} : install' = [install EXCEPT ![s] = x]
            \/ /\ install[s] = "posted" /\ decided[s] = "approved" /\ install' = [install EXCEPT ![s] = "approved"]
               /\ \E p \in OpPcs : OpIs("settle", s, name[s], p)
            \/ install[s] = "approved" /\ UNCHANGED install /\ \E p \in OpPcs : OpIs("settle", s, name[s], p)
<1>1. UNCHANGED <<req, reply, begun, decided, sel, launched, disturbed>> /\ filesKept /\ storeOp = NoStoreOp /\
        reply = "none" BY DEF AdvanceInstall, OpFree, storeFiles, filesKept
<1>2. ASSUME NEW p \in {"outcome", "recover"}, storeOp' = [NoStoreOp EXCEPT !.do = "settle", !.s = s,
    !.n = name[s], !.pc = p]
      PROVE  \E q \in OpPcs : OpIs("settle", s, name[s], q)
 <2>1. PICK n \in Installs : n = name[s] BY DEF StoreTypes
 <2>2. storeOp' = [do |-> "settle", s |-> s, n |-> n, pc |-> p] /\ p \in OpPcs BY <1>2, <2>1 DEF NoStoreOp, OpPcs
 <2> QED BY <2>1, <2>2, OpBegins
<1>3. \/ /\ install[s] \in {"staged", "posted"} /\ UNCHANGED storeOp
         /\ \E x \in {"expired", "denied", "failed"} : install' = [install EXCEPT ![s] = x]
      \/ /\ install[s] = "posted" /\ decided[s] = "approved" /\ install' = [install EXCEPT ![s] = "approved"]
         /\ storeOp' = [NoStoreOp EXCEPT !.do = "settle", !.s = s, !.n = name[s], !.pc = "outcome"]
      \/ /\ install[s] = "approved" /\ UNCHANGED install
         /\ storeOp' = [NoStoreOp EXCEPT !.do = "settle", !.s = s, !.n = name[s], !.pc = "recover"]
 BY DEF AdvanceInstall, EndRow
<1>4. name[s] \in Installs BY DEF StoreTypes
<1> QED BY <1>1, <1>2, <1>3, <1>4

LEMMA SettleAskDoes ==
  ASSUME StoreTypes, StorePlaces, StoreApproved, SettleAsk
  PROVE  /\ storeOp.do = "settle" /\ storeOp.s \in Stagings /\ storeOp.n \in Installs /\ filesKept /\ deskKept
         /\ \E d \in {"recovered", "outcome", "publish", "state"} : Starts(d, storeOp.s, storeOp.n)
<1>0. storeOp.s \in Stagings /\ storeOp.n \in Installs BY DEF SettleAsk, StorePlaces, StoreApproved
<1>1. PICK d \in {"recovered", "outcome", "publish", "state"} : StoreRequest(d, storeOp.s, storeOp.n) BY DEF SettleAsk
<1>2. Starts(d, storeOp.s, storeOp.n) BY <1>0, <1>1, RequestStarts DEF StoreTypes, StoreDos, ReadPcs
<1> QED BY <1>0, <1>2 DEF SettleAsk, storeFiles, harnessDesk, deskKept, filesKept

LEMMA SettleAnswerDoes ==
  ASSUME StoreTypes, SettleAnswer
  PROVE  /\ storeOp.do = "settle" /\ reply' = "none" /\ UNCHANGED req /\ filesKept
         /\ UNCHANGED <<begun, decided, sel, launched, disturbed>>
         /\ \/ UNCHANGED install /\ \E p \in OpPcs : OpIs("settle", storeOp.s, storeOp.n, p)
            \/ /\ storeOp' = NoStoreOp
               /\ \/ UNCHANGED install
                  \/ reply \in Answers /\ install' = [install EXCEPT ![storeOp.s] = "published"]
                  \/ reply \in {"failed", "conflict"} /\ install' = [install EXCEPT ![storeOp.s] = "failed"]
<1>1. /\ storeOp.do = "settle" /\ reply' = "none" /\ UNCHANGED req /\ filesKept
      /\ UNCHANGED <<begun, decided, sel, launched, disturbed>> BY DEF SettleAnswer, storeFiles, filesKept
<1>2. \/ UNCHANGED install /\ \E p \in {"outcome", "publish", "state"} : storeOp' = [storeOp EXCEPT !.pc = p]
      \/ /\ storeOp' = NoStoreOp
         /\ \/ UNCHANGED install
            \/ reply \in Answers /\ install' = [install EXCEPT ![storeOp.s] = "published"]
            \/ reply \in {"failed", "conflict"} /\ install' = [install EXCEPT ![storeOp.s] = "failed"]
 BY DEF SettleAnswer, EndRow, Answers
<1>3. ASSUME NEW p \in {"outcome", "publish", "state"}, storeOp' = [storeOp EXCEPT !.pc = p]
      PROVE  \E q \in OpPcs : OpIs("settle", storeOp.s, storeOp.n, q)
 <2>1. p \in OpPcs /\ storeOp \in StoreOps BY <1>3 DEF OpPcs, StoreTypes
 <2> QED BY <1>1, <1>3, <2>1, OpMoves
<1> QED BY <1>1, <1>2, <1>3

LEMMA UseBeginDoes ==
  ASSUME StoreTypes, NEW n \in Installs, UseBegin(n)
  PROVE  /\ storeOp = NoStoreOp /\ OpIs("use", NoOne, n, "list") /\ Starts("list", NoOne, n) /\ filesKept
         /\ UNCHANGED <<begun, install, decided, sel, launched, disturbed>>
<1>1. /\ storeOp = NoStoreOp /\ storeOp' = [NoStoreOp EXCEPT !.do = "use", !.n = n, !.pc = "list"]
      /\ StoreRequest("list", NoOne, n) /\ filesKept /\ UNCHANGED <<begun, install, decided, sel, launched, disturbed>>
 BY DEF UseBegin, OpFree, storeFiles, harnessDesk, filesKept
<1>2. Starts("list", NoOne, n) BY <1>1, RequestStarts DEF StoreTypes, StoreDos, ReadPcs
<1>3. storeOp' = [do |-> "use", s |-> NoOne, n |-> n, pc |-> "list"] BY <1>1 DEF NoStoreOp
<1>4. OpIs("use", NoOne, n, "list") BY <1>3, OpBegins DEF OpPcs
<1> QED BY <1>1, <1>2, <1>4

LEMMA UseSelectDoes ==
  ASSUME StoreTypes, UseSelect
  PROVE  /\ storeOp.do = "use" /\ storeOp.pc = "list" /\ reply' = "none" /\ UNCHANGED req /\ filesKept
         /\ UNCHANGED <<begun, install, decided, sel, launched, disturbed>>
         /\ storeOp' = NoStoreOp \/ (reply = "published" /\ OpIs("use", storeOp.s, storeOp.n, "write"))
<1>1. /\ storeOp.do = "use" /\ storeOp.pc = "list" /\ reply' = "none" /\ UNCHANGED req /\ filesKept
      /\ UNCHANGED <<begun, install, decided, sel, launched, disturbed>>
      /\ storeOp' = NoStoreOp \/ (reply = "published" /\ storeOp' = [storeOp EXCEPT !.pc = "write"])
 BY DEF UseSelect, storeFiles, filesKept
<1>2. storeOp' = [storeOp EXCEPT !.pc = "write"] => OpIs("use", storeOp.s, storeOp.n, "write")
 BY <1>1, OpMoves DEF OpPcs, StoreTypes
<1> QED BY <1>1, <1>2

LEMMA UseCloseDoes ==
  ASSUME StoreTypes, UseClose
  PROVE  /\ storeOp' = NoStoreOp /\ UNCHANGED <<req, reply>> /\ filesKept
         /\ UNCHANGED <<begun, install, decided, sel, launched, disturbed>>
BY DEF UseClose, storeFiles, filesKept

LEMMA OthersEndDo ==
  ASSUME StoreTypes, RemoveEnd \/ VerifyDone \/ WsdDies
  PROVE  /\ storeOp' = NoStoreOp /\ reply' = "none" /\ UNCHANGED req /\ filesKept
         /\ UNCHANGED <<begun, install, decided, sel, launched, disturbed>>
BY DEF RemoveEnd, VerifyDone, WsdDies, OpDone, storeFiles, filesKept

LEMMA LaunchPinnedDoes ==
  ASSUME StoreTypes, LaunchPinned
  PROVE  /\ UNCHANGED <<req, reply, begun, install, decided, sel, storeOp, disturbed>> /\ filesKept
         /\ launched' \subseteq launched \cup {sel[1]} /\ 1 \in 1 .. Len(sel) /\ sel[1] \in Installs
<1>1. /\ UNCHANGED <<req, reply, begun, install, decided, sel, storeOp, disturbed>> /\ filesKept
      /\ sel # <<>> /\ launched' \subseteq launched \cup {Head(sel)} BY DEF LaunchPinned, storeFiles, filesKept
<1>2. Head(sel) = sel[1] /\ Len(sel) \in Nat /\ Len(sel) # 0 /\ sel[1] \in Installs BY <1>1 DEF StoreTypes
<1> QED BY <1>1, <1>2

LEMMA PinnedEndsDoes ==
  ASSUME StoreTypes, NEW n, PinnedEnds(n)
  PROVE  /\ UNCHANGED <<req, reply, begun, install, decided, sel, storeOp, disturbed>> /\ filesKept
         /\ launched' \subseteq launched
BY DEF PinnedEnds, storeFiles, filesKept

LEMMA IdlesDo ==
  ASSUME StoreTypes, PruneList \/ UNCHANGED storeVars \/ \E s \in Stagings : StagingAges(s)
  PROVE  UNCHANGED <<req, reply>> /\ filesKept /\ deskKept
BY DEF PruneList, StagingAges, storeVars, storeFiles, harnessDesk, filesKept, deskKept

LEMMA RemoveBeginDoes ==
  ASSUME StoreTypes, NEW n \in Installs, RemoveBegin(n)
  PROVE  /\ storeOp = NoStoreOp /\ ~InUse(n) /\ OpIs("remove", NoOne, n, "remove") /\ Starts("remove", NoOne, n)
         /\ filesKept /\ UNCHANGED <<begun, install, decided, sel, launched, disturbed>>
<1>1. /\ storeOp = NoStoreOp /\ storeOp' = [NoStoreOp EXCEPT !.do = "remove", !.n = n, !.pc = "remove"] /\ ~InUse(n)
      /\ StoreRequest("remove", NoOne, n) /\ filesKept
      /\ UNCHANGED <<begun, install, decided, sel, launched, disturbed>>
 BY DEF RemoveBegin, OpFree, storeFiles, filesKept
<1>2. Starts("remove", NoOne, n) BY <1>1, RequestStarts DEF StoreTypes, StoreDos
<1>3. storeOp' = [do |-> "remove", s |-> NoOne, n |-> n, pc |-> "remove"] BY <1>1 DEF NoStoreOp
<1>4. OpIs("remove", NoOne, n, "remove") BY <1>3, OpBegins DEF OpPcs
<1> QED BY <1>1, <1>2, <1>4

LEMMA VerifyOpDoes ==
  ASSUME StoreTypes, NEW n \in Installs, VerifyOp(n)
  PROVE  /\ storeOp = NoStoreOp /\ OpIs("verify", NoOne, n, "verify") /\ Starts("verify", NoOne, n)
         /\ filesKept /\ UNCHANGED <<begun, install, decided, sel, launched, disturbed>>
<1>1. /\ storeOp = NoStoreOp /\ storeOp' = [NoStoreOp EXCEPT !.do = "verify", !.n = n, !.pc = "verify"]
      /\ StoreRequest("verify", NoOne, n) /\ filesKept
      /\ UNCHANGED <<begun, install, decided, sel, launched, disturbed>>
 BY DEF VerifyOp, OpFree, storeFiles, harnessDesk, filesKept
<1>2. Starts("verify", NoOne, n) BY <1>1, RequestStarts DEF StoreTypes, StoreDos
<1>3. storeOp' = [do |-> "verify", s |-> NoOne, n |-> n, pc |-> "verify"] BY <1>1 DEF NoStoreOp
<1>4. OpIs("verify", NoOne, n, "verify") BY <1>3, OpBegins DEF OpPcs
<1> QED BY <1>1, <1>2, <1>4

\* The write puts the install first: the two that count are it and one of the two that counted.
LEMMA UseWriteDoes ==
  ASSUME StoreTypes, StorePlaces, UseWrite
  PROVE  /\ storeOp.n \in Installs /\ storeOp.do = "use" /\ storeOp.pc = "write"
         /\ OpIs("use", storeOp.s, storeOp.n, "close")
         /\ UNCHANGED <<req, reply, begun, install, decided, launched, disturbed>> /\ filesKept
         /\ sel' \in Seq(Installs)
         /\ \A i \in 1 .. Len(sel') : i <= 2 => sel'[i] = storeOp.n \/ \E j \in 1 .. Len(sel) : j <= 2 /\
              sel'[i] = sel[j]
<1>1. /\ storeOp.do = "use" /\ storeOp.pc = "write" /\ storeOp' = [storeOp EXCEPT !.pc = "close"]
      /\ sel' = <<storeOp.n>> \o RemoveFirst(sel, storeOp.n)
      /\ UNCHANGED <<req, reply, begun, install, decided, launched, disturbed>> /\ filesKept
 BY DEF UseWrite, storeFiles, filesKept
<1>2. OpIs("use", storeOp.s, storeOp.n, "close") BY <1>1, OpMoves DEF OpPcs, StoreTypes
<1>3. PICK n \in Installs : n = storeOp.n BY <1>1 DEF StorePlaces
<1>4. PICK r : r = RemoveFirst(sel, n) OBVIOUS
<1>5. r \in Seq(Installs) /\ (Len(r) >= 1 => \E j \in 1 .. Len(sel) : j <= 2 /\ r[1] = sel[j])
 <2>1. sel \in Seq(Installs) /\ Len(sel) \in Nat BY DEF StoreTypes
 <2>2. CASE ~\E i \in 1 .. Len(sel) : sel[i] = n
  <3>1. r = sel BY <1>4, <2>2 DEF RemoveFirst
  <3> QED BY <2>1, <3>1
 <2>3. CASE \E i \in 1 .. Len(sel) : sel[i] = n
  <3>1. PICK I : I = {i \in 1 .. Len(sel) : sel[i] = n} OBVIOUS
  <3>2. I # {} /\ I \subseteq Nat BY <2>1, <2>3, <3>1
  <3>3. SelectInSeq(sel, LAMBDA v : v = n) = Min(I) BY <3>1, <3>2 DEF SelectInSeq
  <3>4. PICK k \in 1 .. Len(sel) : k = Min(I) BY <3>1, <3>2, LeastStaging
  <3>5. r = SubSeq(sel, 1, k - 1) \o SubSeq(sel, k + 1, Len(sel)) BY <1>4, <2>3, <3>3, <3>4 DEF RemoveFirst, RemoveAt
  <3>6. PICK m \in Nat : m = Len(sel) BY <2>1
  <3>7. PICK a, b : a = SubSeq(sel, 1, k - 1) /\ b = SubSeq(sel, k + 1, m) OBVIOUS
  <3>8. a \in Seq(Installs) /\ Len(a) = k - 1 /\ \A i \in 1 .. k - 1 : a[i] = sel[i] BY <2>1, <3>4, <3>6, <3>7
  <3>9. b \in Seq(Installs) /\ Len(b) = m - k /\ \A i \in 1 .. m - k : b[i] = sel[k + i] BY <2>1, <3>4, <3>6, <3>7
  <3>10. r = a \o b BY <3>5, <3>6, <3>7
  <3>11. a \o b \in Seq(Installs) /\ Len(a \o b) = m - 1 /\ (k > 1 => (a \o b)[1] = a[1]) /\ (k = 1 /\
           m > 1 => (a \o b)[1] = b[1]) BY <3>4, <3>6, <3>8, <3>9
  <3>12. CASE k > 1 BY <2>1, <3>4, <3>6, <3>8, <3>10, <3>11, <3>12
  <3>13. CASE k = 1
   <4>1. m > 1 => b[1] = sel[2] /\ 2 \in 1 .. m BY <3>9, <3>13
   <4> QED BY <3>6, <3>10, <3>11, <3>13, <4>1
  <3> QED BY <3>4, <3>12, <3>13
 <2> QED BY <2>2, <2>3
<1>6. sel' = <<n>> \o r BY <1>1, <1>3, <1>4
<1>7. <<n>> \in Seq(Installs) /\ Len(<<n>>) = 1 /\ <<n>>[1] = n OBVIOUS
<1>8. PICK m \in Nat : m = Len(r) BY <1>5
<1>9. <<n>> \o r \in Seq(Installs) /\ Len(<<n>> \o r) = m + 1 /\ (<<n>> \o r)[1] = n /\
        (m >= 1 => (<<n>> \o r)[2] = r[1]) BY <1>5, <1>7, <1>8
<1>10. ASSUME NEW i \in 1 .. Len(sel'), i <= 2
       PROVE  sel'[i] = n \/ \E j \in 1 .. Len(sel) : j <= 2 /\ sel'[i] = sel[j]
 <2>1. i = 1 \/ (i = 2 /\ m >= 1) BY <1>6, <1>9, <1>10
 <2>2. CASE i = 1 BY <1>6, <1>9, <2>2
 <2>3. CASE i = 2 /\ m >= 1
  <3>1. sel'[i] = r[1] BY <1>6, <1>9, <2>3
  <3> QED BY <1>5, <1>8, <2>3, <3>1
 <2> QED BY <2>1, <2>2, <2>3
<1> QED BY <1>1, <1>2, <1>3, <1>6, <1>9, <1>10

LEMMA HelperDiesDoes ==
  ASSUME StoreTypes, HelperDies
  PROVE  /\ deskKept /\ UNCHANGED reply
         /\ UNCHANGED <<name, tree, good, ver, sealed, staged, irec, intended, pubReceipts, metaM, metaR>>
         /\ building' \subseteq building
         /\ req' = NoReq \/ UNCHANGED req
BY DEF HelperDies, harnessDesk, deskKept

LEMMA WsdStartsDoes ==
  ASSUME StoreTypes, WsdStarts
  PROVE  /\ UNCHANGED <<req, reply, begun, decided, sel, launched, storeOp, disturbed>> /\ filesKept
         /\ install' \in [Stagings -> InstallRows]
         /\ \A s \in Stagings : install'[s] = install[s] \/ (install[s] = "staged" /\ install'[s] = "failed")
BY DEF WsdStarts, StoreTypes, InstallRows, storeFiles, filesKept

LEMMA TreeChangesDoes ==
  ASSUME StoreTypes, NEW s \in Stagings, TreeChanges(s)
  PROVE  /\ UNCHANGED <<req, reply, begun, install, decided, sel, launched, storeOp>>
         /\ UNCHANGED <<name, tree, sealed, building, staged, irec, intended, pubReceipts, metaM, metaR>>
         /\ ver' = [ver EXCEPT ![s] = @ + 1] /\ disturbed' = disturbed \cup {name[s]}
         /\ good' = good \/ good' = [good EXCEPT ![s] = FALSE]
BY DEF TreeChanges, harnessDesk

\* Every step keeps the helper where its request leads it.
LEMMA PlacesKept ==
  ASSUME StoreInv, StoreNext \/ UNCHANGED storeVars
  PROVE  StorePlaces'
<1>1. StoreTypes /\ StorePlaces /\ StoreApproved BY DEF StoreInv
<1> USE <1>1, IdleReq, IdleOp DEF StorePlaces, Moves, Starts, OpIs, StoreDos, ReadPcs, PrePcs, MidPcs, RemovePcs,
     Answers, deskKept, filesKept, RecoveryOf
<1>2. CASE StoreReads BY <1>2, ReadsDo
<1>3. CASE PublishDecided BY <1>3, DecidedDoes
<1>4. CASE PublishBegin BY <1>4, BeginDoes
<1>5. CASE PublishRehash BY <1>5, RehashDoes
<1>6. CASE PublishR2 BY <1>6, R2Does
<1>7. CASE PublishFail BY <1>7, FailDoes
<1>8. CASE PublishIntent BY <1>8, IntentDoes
<1>9. CASE PublishRename BY <1>9, RenameDoes
<1>10. CASE PublishSeal BY <1>10, SealDoes
<1>11. CASE CompleteP3 BY <1>11, P3Does
<1>12. CASE CompleteP4 BY <1>12, P4Does
<1>13. CASE CompleteP5 BY <1>13, P5Does
<1>14. CASE AbandonFail BY <1>14, AbandonFailDoes
<1>15. CASE AbandonTree BY <1>15, AbandonTreeDoes
<1>16. CASE AbandonMeta BY <1>16, AbandonMetaDoes
<1>17. CASE CleanStaged BY <1>17, CleanStagedDoes
<1>18. CASE CleanRecord BY <1>18, CleanRecordDoes
<1>19. CASE CleanIntent BY <1>19, CleanIntentDoes
<1>20. CASE RecoverOne BY <1>20, RecoverDoes
<1>21. CASE Sweep BY <1>21, SweepDoes
<1>22. CASE \E f \in StagingFlaws : StageBegin(f) BY <1>22, StageBeginDoes
<1>23. CASE \E f \in StagingFlaws : \E s \in Stagings : StageEnd(s, f) BY <1>23, StageEndDoes
<1>24. CASE VerifyBegin BY <1>24, VerifyBeginDoes
<1>25. CASE VerifyEnd BY <1>25, VerifyEndDoes
<1>26. CASE RemoveMeta BY <1>26, RemoveMetaDoes
<1>27. CASE RemoveTree BY <1>27, RemoveTreeDoes
<1>28. CASE RemoveReceipt BY <1>28, RemoveReceiptDoes
<1>29. CASE HelperDies BY <1>29, HelperDiesDoes
<1>30. CASE \E s \in Stagings : TreeChanges(s) BY <1>30, TreeChangesDoes
<1>31. CASE GiveUp BY <1>31, GiveUpDoes
<1>32. CASE InstallStaged BY <1>32, InstallStagedDoes
<1>33. CASE SettleAsk BY <1>33, SettleAskDoes
<1>34. CASE SettleAnswer BY <1>34, SettleAnswerDoes
<1>35. CASE UseSelect BY <1>35, UseSelectDoes
<1>36. CASE UseWrite BY <1>36, UseWriteDoes
<1>37. CASE UseClose BY <1>37, UseCloseDoes
<1>38. CASE LaunchPinned BY <1>38, LaunchPinnedDoes
<1>39. CASE RemoveEnd \/ VerifyDone \/ WsdDies BY <1>39, OthersEndDo
<1>40. CASE PruneList \/ UNCHANGED storeVars \/ \E s \in Stagings : StagingAges(s) BY <1>40, IdlesDo
<1>41. CASE \E s \in Stagings : InstallStage(s) BY <1>41, InstallStageDoes
<1>42. CASE \E s \in Stagings : AskApproval(s) BY <1>42, AskDoes
<1>43. CASE \E s \in Stagings : DecideInstall(s) BY <1>43, DecideDoes
<1>44. CASE \E s \in Stagings : AdvanceInstall(s) BY <1>44, AdvanceDoes
<1>45. CASE \E n \in Installs : UseBegin(n) BY <1>45, UseBeginDoes
<1>46. CASE \E n \in Installs : PinnedEnds(n) BY <1>46, PinnedEndsDoes
<1>47. CASE \E n \in Installs : RemoveBegin(n) BY <1>47, RemoveBeginDoes
<1>48. CASE \E n \in Installs : VerifyOp(n) BY <1>48, VerifyOpDoes
<1>49. CASE WsdStarts BY <1>49, WsdStartsDoes
<1> QED
 BY <1>2, <1>3, <1>4, <1>5, <1>6, <1>7, <1>8, <1>9, <1>10, <1>11, <1>12, <1>13, <1>14, <1>15, <1>16, <1>17, <1>18,
   <1>19, <1>20, <1>21, <1>22, <1>23, <1>24, <1>25, <1>26, <1>27, <1>28, <1>29, <1>30, <1>31, <1>32, <1>33, <1>34,
   <1>35, <1>36, <1>37, <1>38, <1>39, <1>40, <1>41, <1>42, <1>43, <1>44, <1>45, <1>46, <1>47, <1>48, <1>49
   DEF StoreNext, StoreHelper, HarnessOps, StoreWorld

\* What the request names exists.
LEMMA ReqHolds ==
  ASSUME StoreTypes, StorePlaces, StoreIntents
  PROVE  /\ req.pc \in {"rename", "seal", "P3", "P4", "P5", "fail", "untree", "unmeta", "unstage", "unrecord",
              "unintent"}
              => req.at \in Stagings
         /\ req.pc \in {"stage", "publish", "outcome", "rehash", "R2", "intent", "conflict", "discard", "rename", "V2"}
              => req.s \in Stagings
         /\ req.pc \in {"list", "state", "verify", "V2", "remove", "rmmanifest", "rmtree", "rmreceipt"}
              => req.n \in Installs
<1>1. req.pc \in {"rename", "seal", "P3", "P4", "P5", "fail", "untree", "unmeta", "unstage", "unrecord", "unintent"}
          => req.at \in Stagings BY DEF StoreTypes, StoreIntents, MidPcs
<1>2. /\ req.pc \in {"stage", "publish", "outcome", "rehash", "R2", "intent", "conflict", "discard", "rename", "V2"}
              => req.s \in Stagings
      /\ req.pc \in {"list", "state", "verify", "V2", "remove", "rmmanifest", "rmtree",
           "rmreceipt"} => req.n \in Installs BY DEF StorePlaces, StoreDos, ReadPcs, PrePcs, RemovePcs
<1> QED BY <1>1, <1>2

LEMMA RecTypes ==
  ASSUME StoreTypes
  PROVE  NoRec \in StoreRecs /\ \A s \in Stagings : RecordOf(s) \in StoreRecs
BY HarnessBounds DEF NoRec, NoOne, StoreRecs, RecordOf, statx, StoreTypes

LEMMA AnswerTypes ==
  ASSUME NEW s, NEW n PROVE CheckOutcome(s) \in Answers /\ InstallState(n) \in Answers
<1>1. InstallState(n) \in Answers BY DEF InstallState, Answers
<1>2. CheckOutcome(s) \in {"published", "failed", "staged", "unknown"} BY DEF CheckOutcome
<1> QED BY <1>1, <1>2 DEF Answers

\* Every step keeps the types.
LEMMA TypesKept ==
  ASSUME StoreInv, StoreNext \/ UNCHANGED storeVars
  PROVE  StoreTypes'
<1>1. StoreTypes /\ StorePlaces /\ StoreApproved /\ StoreIntents BY DEF StoreInv
<1>2. CASE StoreReads
 BY <1>1, <1>2, ReadsDo, AnswerTypes, IdleReq DEF StoreTypes, deskKept, filesKept, ReadPcs, Answers
<1>3. CASE PublishDecided
 BY <1>1, <1>3, DecidedDoes, ReqHolds, RecTypes, IdleReq DEF StoreTypes, deskKept, filesKept, Moves, Answers
<1>4. CASE PublishFail
 BY <1>1, <1>4, FailDoes, ReqHolds, RecTypes, IdleReq DEF StoreTypes, deskKept, filesKept, Moves, Answers
<1>5. CASE PublishSeal
 BY <1>1, <1>5, SealDoes, ReqHolds, RecTypes, IdleReq DEF StoreTypes, deskKept, filesKept, Moves, Answers
<1>6. CASE CleanIntent
 BY <1>1, <1>6, CleanIntentDoes, ReqHolds, RecTypes, IdleReq DEF StoreTypes, deskKept, filesKept, Moves, Answers
<1>7. CASE RecoverOne BY <1>1, <1>7, RecoverDoes, RecTypes DEF StoreTypes, deskKept, filesKept, RecoveryOf
<1>8. CASE Sweep BY <1>1, <1>8, SweepDoes, IdleReq DEF StoreTypes, deskKept, filesKept, Moves
<1>9. CASE \E f \in StagingFlaws : StageBegin(f)
 BY <1>1, <1>9, StageBeginDoes, ReqHolds, RecTypes, IdleReq DEF StoreTypes, deskKept, filesKept, Moves, Answers
<1>10. CASE \E f \in StagingFlaws : \E s \in Stagings : StageEnd(s, f)
 <2>1. PICK f \in StagingFlaws, s \in Stagings : StageEnd(s, f) BY <1>10
 <2>2. /\ tree' \in [Stagings -> {"none", "staging", "install"}] /\ building' \subseteq Stagings
       /\ staged' \subseteq Stagings /\ sealed' \in [Stagings -> BOOLEAN]
  <3>1. /\ tree \in [Stagings -> {"none", "staging", "install"}] /\ building \subseteq Stagings
        /\ staged \subseteq Stagings /\ sealed \in [Stagings -> BOOLEAN] BY <1>1 DEF StoreTypes
  <3>2. building' = building \ {s} /\ (staged' = staged \/ staged' = staged \cup {s}) BY <1>1, <2>1, StageEndDoes
  <3>3. tree' = tree \/ tree' = [tree EXCEPT ![s] = "none"] BY <1>1, <2>1, StageEndDoes
  <3>4. sealed' = sealed \/ sealed' = [sealed EXCEPT ![s] = TRUE] BY <1>1, <2>1, StageEndDoes
  <3> QED BY <3>1, <3>2, <3>3, <3>4
 <2> QED BY <1>1, <2>1, <2>2, StageEndDoes DEF StoreTypes, deskKept
<1>11. CASE VerifyBegin
 BY <1>1, <1>11, VerifyBeginDoes, ReqHolds, RecTypes, IdleReq DEF StoreTypes, deskKept, filesKept, Moves, Answers
<1>12. CASE VerifyEnd
 BY <1>1, <1>12, VerifyEndDoes, ReqHolds, RecTypes, IdleReq DEF StoreTypes, deskKept, filesKept, Moves, Answers
<1>13. CASE RemoveMeta
 BY <1>1, <1>13, RemoveMetaDoes, ReqHolds, RecTypes, IdleReq DEF StoreTypes, deskKept, filesKept, Moves, Answers
<1>14. CASE RemoveReceipt
 BY <1>1, <1>14, RemoveReceiptDoes, ReqHolds, RecTypes, IdleReq DEF StoreTypes, deskKept, filesKept, Moves, Answers
<1>15. CASE HelperDies BY <1>1, <1>15, HelperDiesDoes, IdleReq DEF StoreTypes, deskKept, filesKept, Moves
<1>16. CASE \E s \in Stagings : TreeChanges(s)
 <2>1. PICK s \in Stagings : TreeChanges(s) BY <1>16
 <2>2. /\ ver' = [ver EXCEPT ![s] = @ + 1] /\ disturbed' = disturbed \cup {name[s]}
       /\ good' = good \/ good' = [good EXCEPT ![s] = FALSE] BY <1>1, <2>1, TreeChangesDoes
 <2>3. ver \in [Stagings -> Nat] /\ good \in [Stagings -> BOOLEAN] /\ name[s] \in Installs /\
         disturbed \subseteq Installs BY <1>1 DEF StoreTypes
 <2>4. ver' \in [Stagings -> Nat] BY <2>2, <2>3
 <2>5. good' \in [Stagings -> BOOLEAN] BY <2>2, <2>3
 <2>6. disturbed' \subseteq Installs BY <2>2, <2>3
 <2> QED BY <1>1, <2>1, <2>4, <2>5, <2>6, TreeChangesDoes DEF StoreTypes
<1>17. CASE GiveUp BY <1>1, <1>17, GiveUpDoes, IdleOp DEF StoreTypes, deskKept, filesKept
<1>18. CASE InstallStaged
 BY <1>1, <1>18, InstallStagedDoes, IdleReq, IdleOp DEF StoreTypes, deskKept, filesKept, Starts, OpIs, InstallRows
<1>19. CASE SettleAsk
 BY <1>1, <1>19, SettleAskDoes, IdleReq, IdleOp DEF StoreTypes, deskKept, filesKept, Starts, OpIs, InstallRows
<1>20. CASE SettleAnswer
 BY <1>1, <1>20, SettleAnswerDoes, IdleReq, IdleOp DEF StoreTypes, deskKept, filesKept, Starts, OpIs, InstallRows
<1>21. CASE UseSelect
 BY <1>1, <1>21, UseSelectDoes, IdleReq, IdleOp DEF StoreTypes, deskKept, filesKept, Starts, OpIs, InstallRows
<1>22. CASE UseWrite
 BY <1>1, <1>22, UseWriteDoes, IdleReq, IdleOp DEF StoreTypes, deskKept, filesKept, Starts, OpIs, InstallRows
<1>23. CASE UseClose BY <1>1, <1>23, UseCloseDoes, IdleOp DEF StoreTypes, deskKept, filesKept
<1>24. CASE LaunchPinned BY <1>1, <1>24, LaunchPinnedDoes, IdleOp DEF StoreTypes, deskKept, filesKept
<1>25. CASE RemoveEnd \/ VerifyDone \/ WsdDies BY <1>1, <1>25, OthersEndDo, IdleOp DEF StoreTypes, deskKept, filesKept
<1>26. CASE PruneList \/ UNCHANGED storeVars \/ \E s \in Stagings : StagingAges(s)
 BY <1>1, <1>26, IdlesDo, IdleOp DEF StoreTypes, deskKept, filesKept
<1>27. CASE \E s \in Stagings : InstallStage(s)
 BY <1>1, <1>27, InstallStageDoes, IdleReq, IdleOp DEF StoreTypes, deskKept, filesKept, Starts, OpIs, InstallRows
<1>28. CASE \E s \in Stagings : AskApproval(s)
 <2>1. PICK s \in Stagings : AskApproval(s) BY <1>28
 <2>2. install' \in [Stagings -> InstallRows] BY <1>1, <2>1, AskDoes DEF StoreTypes, InstallRows
 <2> QED BY <1>1, <2>1, <2>2, AskDoes DEF StoreTypes, filesKept
<1>29. CASE \E s \in Stagings : DecideInstall(s)
 <2>1. PICK s \in Stagings : DecideInstall(s) BY <1>29
 <2>2. decided' \in [Stagings -> {"none", "approved", "denied"}] BY <1>1, <2>1, DecideDoes DEF StoreTypes
 <2> QED BY <1>1, <2>1, <2>2, DecideDoes DEF StoreTypes, filesKept
<1>30. CASE \E s \in Stagings : AdvanceInstall(s)
 <2>1. PICK s \in Stagings : AdvanceInstall(s) BY <1>30
 <2>2. /\ install \in [Stagings -> InstallRows] /\ storeOp \in StoreOps
       /\ install' = install \/ \E x \in InstallRows : install' = [install EXCEPT ![s] = x]
       /\ storeOp' = storeOp \/ storeOp' \in StoreOps
  <3>1. install \in [Stagings -> InstallRows] /\ storeOp \in StoreOps BY <1>1 DEF StoreTypes
  <3>2. {"expired", "denied", "failed", "approved"} \subseteq InstallRows BY DEF InstallRows
  <3> QED BY <1>1, <2>1, <3>1, <3>2, AdvanceDoes DEF OpIs
 <2>3. install' \in [Stagings -> InstallRows] /\ storeOp' \in StoreOps BY <2>2
 <2> QED BY <1>1, <2>1, <2>3, AdvanceDoes DEF StoreTypes, filesKept
<1>31. CASE \E n \in Installs : UseBegin(n)
 BY <1>1, <1>31, UseBeginDoes, IdleReq, IdleOp DEF StoreTypes, deskKept, filesKept, Starts, OpIs, InstallRows
<1>32. CASE \E n \in Installs : PinnedEnds(n)
 BY <1>1, <1>32, PinnedEndsDoes, IdleOp DEF StoreTypes, deskKept, filesKept
<1>33. CASE \E n \in Installs : RemoveBegin(n)
 BY <1>1, <1>33, RemoveBeginDoes, IdleReq, IdleOp DEF StoreTypes, deskKept, filesKept, Starts, OpIs, InstallRows
<1>34. CASE \E n \in Installs : VerifyOp(n)
 BY <1>1, <1>34, VerifyOpDoes, IdleReq, IdleOp DEF StoreTypes, deskKept, filesKept, Starts, OpIs, InstallRows
<1>35. CASE WsdStarts BY <1>1, <1>35, WsdStartsDoes, IdleOp DEF StoreTypes, deskKept, filesKept
<1> USE <1>1, ReqHolds, RecTypes, IdleReq DEF StoreTypes, deskKept, filesKept, Moves
<1>36. CASE PublishBegin BY <1>36, BeginDoes
<1>37. CASE PublishRehash BY <1>37, RehashDoes
<1>38. CASE PublishR2 BY <1>38, R2Does
<1>39. CASE PublishIntent BY <1>39, IntentDoes
<1>40. CASE PublishRename BY <1>40, RenameDoes
<1>41. CASE CompleteP3 BY <1>41, P3Does
<1>42. CASE CompleteP4 BY <1>42, P4Does
<1>43. CASE CompleteP5 BY <1>43, P5Does
<1>44. CASE AbandonFail BY <1>44, AbandonFailDoes
<1>45. CASE AbandonTree BY <1>45, AbandonTreeDoes
<1>46. CASE AbandonMeta BY <1>46, AbandonMetaDoes
<1>47. CASE CleanStaged BY <1>47, CleanStagedDoes
<1>48. CASE CleanRecord BY <1>48, CleanRecordDoes
<1>49. CASE RemoveTree BY <1>49, RemoveTreeDoes
<1> QED
 BY <1>2, <1>3, <1>4, <1>5, <1>6, <1>7, <1>8, <1>9, <1>10, <1>11, <1>12, <1>13, <1>14, <1>15, <1>16, <1>17, <1>18,
   <1>19, <1>20, <1>21, <1>22, <1>23, <1>24, <1>25, <1>26, <1>27, <1>28, <1>29, <1>30, <1>31, <1>32, <1>33, <1>34,
   <1>35, <1>36, <1>37, <1>38, <1>39, <1>40, <1>41, <1>42, <1>43, <1>44, <1>45, <1>46, <1>47, <1>48, <1>49
   DEF StoreNext, StoreHelper, HarnessOps, StoreWorld

\* Every step of wsd's leaves the files, and the helper's request or its lack.
LEMMA DeskSteps ==
  ASSUME StoreInv, \/ HarnessOps \/ WsdDies \/ WsdStarts \/ UNCHANGED storeVars
                   \/ \E s \in Stagings : StagingAges(s)
  PROVE  /\ filesKept /\ disturbed' = disturbed
         /\ UNCHANGED req \/ \E d \in StoreDos, s \in Stagings \cup {NoOne}, n \in Installs : Starts(d, s, n)
<1>1. StoreTypes /\ StorePlaces /\ StoreApproved BY DEF StoreInv
<1>2. CASE GiveUp BY <1>1, <1>2, GiveUpDoes DEF deskKept
<1>3. CASE InstallStaged BY <1>1, <1>3, InstallStagedDoes DEF deskKept
<1>4. CASE SettleAsk BY <1>1, <1>4, SettleAskDoes DEF deskKept, StoreDos, ReadPcs
<1>5. CASE SettleAnswer BY <1>1, <1>5, SettleAnswerDoes DEF deskKept
<1>6. CASE UseSelect BY <1>1, <1>6, UseSelectDoes DEF deskKept
<1>7. CASE UseWrite BY <1>1, <1>7, UseWriteDoes DEF deskKept
<1>8. CASE UseClose BY <1>1, <1>8, UseCloseDoes DEF deskKept
<1>9. CASE LaunchPinned BY <1>1, <1>9, LaunchPinnedDoes DEF deskKept
<1>10. CASE RemoveEnd \/ VerifyDone \/ WsdDies BY <1>1, <1>10, OthersEndDo DEF deskKept
<1>11. CASE PruneList \/ UNCHANGED storeVars \/ \E s \in Stagings : StagingAges(s)
 BY <1>1, <1>11, IdlesDo DEF deskKept
<1>12. CASE \E s \in Stagings : InstallStage(s) BY <1>1, <1>12, InstallStageDoes DEF deskKept, StoreDos, ReadPcs
<1>13. CASE \E s \in Stagings : AskApproval(s) BY <1>1, <1>13, AskDoes DEF deskKept
<1>14. CASE \E s \in Stagings : DecideInstall(s) BY <1>1, <1>14, DecideDoes DEF deskKept
<1>15. CASE \E s \in Stagings : AdvanceInstall(s) BY <1>1, <1>15, AdvanceDoes DEF deskKept
<1>16. CASE \E n \in Installs : UseBegin(n) BY <1>1, <1>16, UseBeginDoes DEF deskKept, StoreDos, ReadPcs
<1>17. CASE \E n \in Installs : PinnedEnds(n) BY <1>1, <1>17, PinnedEndsDoes DEF deskKept
<1>18. CASE \E n \in Installs : RemoveBegin(n) BY <1>1, <1>18, RemoveBeginDoes DEF deskKept, StoreDos, ReadPcs
<1>19. CASE \E n \in Installs : VerifyOp(n) BY <1>1, <1>19, VerifyOpDoes DEF deskKept, StoreDos, ReadPcs
<1>20. CASE WsdStarts BY <1>1, <1>20, WsdStartsDoes DEF deskKept
<1> QED
 BY <1>2, <1>3, <1>4, <1>5, <1>6, <1>7, <1>8, <1>9, <1>10, <1>11, <1>12, <1>13, <1>14, <1>15, <1>16, <1>17, <1>18,
   <1>19, <1>20 DEF HarnessOps

\* Every step keeps the intents with the helper's place.
LEMMA IntentsKept ==
  ASSUME StoreInv, StoreNext \/ UNCHANGED storeVars
  PROVE  StoreIntents'
<1>1. StoreTypes /\ StorePlaces /\ StoreIntents BY DEF StoreInv
<1>2. CASE PublishIntent
 <2>1. /\ intended = {} /\ req.at = req.s /\ intended' = intended \cup {req.s} /\ req'.pc = "rename"
       /\ req'.at = req.at BY <1>1, <1>2, IntentDoes DEF StoreIntents, StorePlaces, Moves, PrePcs, MidPcs
 <2>2. intended' = {req'.at} BY <2>1
 <2> QED BY <2>1, <2>2 DEF StoreIntents, MidPcs
<1>3. CASE RecoverOne
 BY <1>1, <1>3, RecoverDoes DEF StoreIntents, RecoveryOf, StoreDos, ReadPcs, PrePcs, MidPcs, RemovePcs
<1>4. CASE HarnessOps \/ WsdDies \/ WsdStarts \/ UNCHANGED storeVars \/ \E s \in Stagings : StagingAges(s)
 BY <1>1, <1>4, DeskSteps DEF StoreIntents, Starts, filesKept, StoreDos, ReadPcs, PrePcs, MidPcs, RemovePcs
<1> USE <1>1, IdleReq DEF StoreIntents, Moves, deskKept, filesKept, StoreDos, ReadPcs, PrePcs, MidPcs, RemovePcs
<1>5. CASE StoreReads BY <1>5, ReadsDo
<1>6. CASE PublishDecided BY <1>6, DecidedDoes
<1>7. CASE PublishBegin BY <1>7, BeginDoes
<1>8. CASE PublishRehash BY <1>8, RehashDoes
<1>9. CASE PublishR2 BY <1>9, R2Does
<1>10. CASE PublishFail BY <1>10, FailDoes
<1>11. CASE PublishRename BY <1>11, RenameDoes
<1>12. CASE PublishSeal BY <1>12, SealDoes
<1>13. CASE CompleteP3 BY <1>13, P3Does
<1>14. CASE CompleteP4 BY <1>14, P4Does
<1>15. CASE CompleteP5 BY <1>15, P5Does
<1>16. CASE AbandonFail BY <1>16, AbandonFailDoes
<1>17. CASE AbandonTree BY <1>17, AbandonTreeDoes
<1>18. CASE AbandonMeta BY <1>18, AbandonMetaDoes
<1>19. CASE CleanStaged BY <1>19, CleanStagedDoes
<1>20. CASE CleanRecord BY <1>20, CleanRecordDoes
<1>21. CASE CleanIntent BY <1>21, CleanIntentDoes
<1>22. CASE Sweep BY <1>22, SweepDoes
<1>23. CASE \E f \in StagingFlaws : StageBegin(f) BY <1>23, StageBeginDoes
<1>24. CASE \E f \in StagingFlaws : \E s \in Stagings : StageEnd(s, f) BY <1>24, StageEndDoes
<1>25. CASE VerifyBegin BY <1>25, VerifyBeginDoes
<1>26. CASE VerifyEnd BY <1>26, VerifyEndDoes
<1>27. CASE RemoveMeta BY <1>27, RemoveMetaDoes
<1>28. CASE RemoveTree BY <1>28, RemoveTreeDoes
<1>29. CASE RemoveReceipt BY <1>29, RemoveReceiptDoes
<1>30. CASE HelperDies BY <1>30, HelperDiesDoes
<1>31. CASE \E s \in Stagings : TreeChanges(s) BY <1>31, TreeChangesDoes
<1> QED
 BY <1>2, <1>3, <1>4, <1>5, <1>6, <1>7, <1>8, <1>9, <1>10, <1>11, <1>12, <1>13, <1>14, <1>15, <1>16, <1>17, <1>18,
   <1>19, <1>20, <1>21, <1>22, <1>23, <1>24, <1>25, <1>26, <1>27, <1>28, <1>29, <1>30, <1>31 DEF StoreNext,
   StoreHelper, StoreWorld

\* Where no record, no change time and no bytes change, only a new R1 or V1 matters.
LEMMA RecordsFrame ==
  ASSUME StoreRecords, UNCHANGED <<good, ver, irec, metaR>>,
    req'.pc \notin {"rehash", "R2", "V2"} \/ UNCHANGED req
  PROVE  StoreRecords'
BY DEF StoreRecords, RecGood

\* What a step may write to a record of R2: nothing, or the record of a good tree.
IrecMoves ==
    \A s \in Stagings : irec'[s] = irec[s] \/ irec'[s] = NoRec \/ (irec'[s] = RecordOf(s) /\ good[s])

\* What a step may write to a published record: nothing, a record of R2, or the record of a good tree.
MetaMoves ==
    \A n \in Installs :
        \/ metaR'[n] = metaR[n] \/ metaR'[n] = NoRec
        \/ \E s \in Stagings : metaR'[n] = irec[s] \/ (metaR'[n] = RecordOf(s) /\ good[s])

\* A record that is dropped, copied, or made of bytes that match is good.
LEMMA RecordsSet ==
  ASSUME StoreTypes, StoreRecords, UNCHANGED <<good, ver>>, req'.pc \notin {"rehash", "R2", "V2"},
    IrecMoves, MetaMoves
  PROVE  StoreRecords'
<1>1. ASSUME NEW s \in Stagings, good[s] PROVE RecGood(RecordOf(s)) /\ RecordOf(s).root = s
 BY <1>1 DEF RecGood, RecordOf, statx, StoreTypes
<1>2. \A s \in Stagings : RecGood(irec'[s]) /\ (irec'[s] # NoRec => irec'[s].root = s)
 BY <1>1 DEF StoreRecords, RecGood, IrecMoves, MetaMoves
<1>3. \A n \in Installs : RecGood(metaR'[n]) BY <1>1 DEF StoreRecords, RecGood, IrecMoves, MetaMoves
<1> QED BY <1>2, <1>3 DEF StoreRecords, RecGood, IrecMoves, MetaMoves

\* Every step keeps the records true.
LEMMA RecordsKept ==
  ASSUME StoreInv, StoreNext \/ UNCHANGED storeVars
  PROVE  StoreRecords'
<1>1. StoreTypes /\ StorePlaces /\ StoreIntents /\ StoreRecords BY DEF StoreInv
<1>2. CASE PublishBegin
 <2>1. CASE Moves("conflict") BY <1>1, <1>2, <2>1, BeginDoes, RecordsFrame DEF Moves
 <2>2. CASE ~Moves("conflict")
  <3>1. UNCHANGED <<good, ver, irec, metaR>> /\ req'.pc = "rehash" /\ req'.s = req.s /\ req'.ver = ver[req.s]
   BY <1>1, <1>2, <2>2, BeginDoes
  <3>2. ver[req.s] \in Nat BY <1>1, <1>2, BeginDoes DEF StoreTypes
  <3> QED BY <1>1, <3>1, <3>2 DEF StoreRecords, RecGood
 <2> QED BY <2>1, <2>2
<1>3. CASE PublishRehash BY <1>1, <1>3, RehashDoes DEF StoreRecords, RecGood, Moves, filesKept
<1>4. CASE PublishR2
 <2>1. UNCHANGED <<good, ver>> /\ req'.pc \notin {"rehash", "R2", "V2"} BY <1>1, <1>4, R2Does, IdleReq DEF Moves
 <2>2. IrecMoves BY <1>1, <1>4, R2Does, ReqHolds DEF IrecMoves, Moves, StoreTypes, StoreRecords
 <2>3. MetaMoves BY <1>1, <1>4, R2Does, ReqHolds DEF MetaMoves, Moves, StoreTypes, StoreRecords
 <2> QED BY <1>1, <2>1, <2>2, <2>3, RecordsSet
<1>5. CASE CompleteP4
 <2>1. UNCHANGED <<good, ver>> /\ req'.pc \notin {"rehash", "R2", "V2"} BY <1>1, <1>5, P4Does, IdleReq DEF Moves
 <2>2. IrecMoves BY <1>1, <1>5, P4Does, ReqHolds DEF IrecMoves, Moves, StoreTypes, StoreRecords
 <2>3. MetaMoves BY <1>1, <1>5, P4Does, ReqHolds DEF MetaMoves, Moves, StoreTypes, StoreRecords
 <2> QED BY <1>1, <2>1, <2>2, <2>3, RecordsSet
<1>6. CASE AbandonMeta
 <2>1. UNCHANGED <<good, ver>> /\ req'.pc \notin {"rehash", "R2", "V2"}
  BY <1>1, <1>6, AbandonMetaDoes, IdleReq DEF Moves
 <2>2. IrecMoves BY <1>1, <1>6, AbandonMetaDoes, ReqHolds DEF IrecMoves, Moves, StoreTypes, StoreRecords
 <2>3. MetaMoves BY <1>1, <1>6, AbandonMetaDoes, ReqHolds DEF MetaMoves, Moves, StoreTypes, StoreRecords
 <2> QED BY <1>1, <2>1, <2>2, <2>3, RecordsSet
<1>7. CASE CleanRecord
 <2>1. UNCHANGED <<good, ver>> /\ req'.pc \notin {"rehash", "R2", "V2"}
  BY <1>1, <1>7, CleanRecordDoes, IdleReq DEF Moves
 <2>2. IrecMoves BY <1>1, <1>7, CleanRecordDoes, ReqHolds DEF IrecMoves, Moves, StoreTypes, StoreRecords
 <2>3. MetaMoves BY <1>1, <1>7, CleanRecordDoes, ReqHolds DEF MetaMoves, Moves, StoreTypes, StoreRecords
 <2> QED BY <1>1, <2>1, <2>2, <2>3, RecordsSet
<1>8. CASE RecoverOne
 <2>1. UNCHANGED <<good, ver>> /\ req'.pc \notin {"rehash", "R2", "V2"}
  BY <1>1, <1>8, RecoverDoes, IdleReq DEF RecoveryOf
 <2>2. IrecMoves BY <1>1, <1>8, RecoverDoes, ReqHolds DEF IrecMoves, RecoveryOf, StoreTypes, StoreRecords
 <2>3. MetaMoves BY <1>1, <1>8, RecoverDoes, ReqHolds DEF MetaMoves, RecoveryOf, StoreTypes, StoreRecords
 <2> QED BY <1>1, <2>1, <2>2, <2>3, RecordsSet
<1>9. CASE Sweep BY <1>1, <1>9, SweepDoes, IdleReq, RecordsFrame DEF Moves, StoreDos, ReadPcs
<1>10. CASE VerifyBegin
 <2>1. CASE req' = NoReq BY <1>1, <1>10, <2>1, VerifyBeginDoes, IdleReq, RecordsFrame DEF filesKept
 <2>2. CASE req' # NoReq
  <3>1. /\ filesKept /\ req'.pc = "V2" /\ req'.s \in Stagings /\ good[req'.s] /\ req'.ver = ver[req'.s]
   BY <1>1, <1>10, <2>2, VerifyBeginDoes
  <3>2. ver[req'.s] \in Nat BY <1>1, <3>1 DEF StoreTypes
  <3> QED BY <1>1, <3>1, <3>2 DEF StoreRecords, RecGood, filesKept
 <2> QED BY <2>1, <2>2
<1>11. CASE VerifyEnd
 <2>1. UNCHANGED <<good, ver>> /\ req'.pc \notin {"rehash", "R2", "V2"}
  BY <1>1, <1>11, VerifyEndDoes, IdleReq DEF Moves
 <2>2. IrecMoves BY <1>1, <1>11, VerifyEndDoes, ReqHolds DEF IrecMoves, Moves, StoreTypes, StoreRecords
 <2>3. MetaMoves BY <1>1, <1>11, VerifyEndDoes, ReqHolds DEF MetaMoves, Moves, StoreTypes, StoreRecords
 <2> QED BY <1>1, <2>1, <2>2, <2>3, RecordsSet
<1>12. CASE RemoveMeta
 <2>1. UNCHANGED <<good, ver>> /\ req'.pc \notin {"rehash", "R2", "V2"}
  BY <1>1, <1>12, RemoveMetaDoes, IdleReq DEF Moves
 <2>2. IrecMoves BY <1>1, <1>12, RemoveMetaDoes, ReqHolds DEF IrecMoves, Moves, StoreTypes, StoreRecords
 <2>3. MetaMoves BY <1>1, <1>12, RemoveMetaDoes, ReqHolds DEF MetaMoves, Moves, StoreTypes, StoreRecords
 <2> QED BY <1>1, <2>1, <2>2, <2>3, RecordsSet
<1>13. CASE \E s \in Stagings : TreeChanges(s)
 <2>1. PICK t \in Stagings : TreeChanges(t) BY <1>13
 <2>2. /\ UNCHANGED <<req, irec, metaR>> /\ ver' = [ver EXCEPT ![t] = @ + 1]
       /\ good' = good \/ good' = [good EXCEPT ![t] = FALSE] BY <1>1, <2>1, TreeChangesDoes
 <2>3. ver \in [Stagings -> Nat] /\ good \in [Stagings -> BOOLEAN] BY <1>1 DEF StoreTypes
 <2>4. ASSUME NEW s \in Stagings, NEW v \in Nat, v <= ver[s], v = ver[s] => good[s]
       PROVE  v <= ver'[s] /\ (v = ver'[s] => good'[s])
  <3>1. ver[s] \in Nat BY <2>3
  <3>2. CASE s = t BY <2>2, <2>3, <2>4, <3>1, <3>2
  <3>3. CASE s # t BY <2>2, <2>3, <2>4, <3>3
  <3> QED BY <3>2, <3>3
 <2>5. ASSUME NEW s \in Stagings, NEW v \in Nat, v <= ver[s] PROVE v <= ver'[s]
  <3>1. ver[s] \in Nat /\ (ver'[s] = ver[s] \/ ver'[s] = ver[s] + 1) BY <2>2, <2>3
  <3> QED BY <2>5, <3>1
 <2>6. ASSUME NEW r \in StoreRecs, RecGood(r) PROVE r # NoRec => r.root \in Stagings /\ r.ver <= ver'[r.root] /\
                (r.ver = ver'[r.root] => good'[r.root])
  <3>1. r.ver \in Nat BY DEF StoreRecs
  <3> QED BY <2>4, <2>6, <3>1 DEF RecGood
 <2>7. ASSUME NEW s \in Stagings PROVE (RecGood(irec[s]))' /\ (irec'[s] # NoRec => irec'[s].root = s)
  <3>1. irec[s] \in StoreRecs /\ irec'[s] = irec[s] /\ RecGood(irec[s]) /\ (irec[s] # NoRec => irec[s].root = s)
   BY <1>1, <2>2 DEF StoreTypes, StoreRecords
  <3> QED BY <2>6, <3>1 DEF RecGood
 <2>8. ASSUME NEW n \in Installs PROVE (RecGood(metaR[n]))'
  <3>1. metaR[n] \in StoreRecs /\ metaR'[n] = metaR[n] /\ RecGood(metaR[n]) BY <1>1, <2>2 DEF StoreTypes, StoreRecords
  <3> QED BY <2>6, <3>1 DEF RecGood
 <2>9. req.pc \in {"rehash", "R2", "V2"} => req.s \in Stagings /\ req.ver \in Nat
  BY <1>1, ReqHolds DEF StoreTypes, StoreReqs
 <2>10. /\ req'.pc \in {"rehash", "R2", "V2"} => req'.ver <= ver'[req'.s]
        /\ req'.pc \in {"R2", "V2"} => (req'.ver = ver'[req'.s] => good'[req'.s])
  BY <1>1, <2>2, <2>4, <2>5, <2>9 DEF StoreRecords
 <2> QED BY <2>7, <2>8, <2>10 DEF StoreRecords
<1>14. CASE HarnessOps \/ WsdDies \/ WsdStarts \/ UNCHANGED storeVars \/ \E s \in Stagings : StagingAges(s)
 BY <1>1, <1>14, DeskSteps, RecordsFrame DEF Starts, filesKept
<1> USE <1>1, IdleReq, RecordsFrame DEF Moves, filesKept
<1>15. CASE StoreReads BY <1>15, ReadsDo
<1>16. CASE PublishDecided BY <1>16, DecidedDoes
<1>17. CASE PublishFail BY <1>17, FailDoes
<1>18. CASE PublishIntent BY <1>18, IntentDoes
<1>19. CASE PublishRename BY <1>19, RenameDoes
<1>20. CASE PublishSeal BY <1>20, SealDoes
<1>21. CASE CompleteP3 BY <1>21, P3Does
<1>22. CASE CompleteP5 BY <1>22, P5Does
<1>23. CASE AbandonFail BY <1>23, AbandonFailDoes
<1>24. CASE AbandonTree BY <1>24, AbandonTreeDoes
<1>25. CASE CleanStaged BY <1>25, CleanStagedDoes
<1>26. CASE CleanIntent BY <1>26, CleanIntentDoes
<1>27. CASE \E f \in StagingFlaws : StageBegin(f) BY <1>27, StageBeginDoes
<1>28. CASE \E f \in StagingFlaws : \E s \in Stagings : StageEnd(s, f) BY <1>28, StageEndDoes
<1>29. CASE RemoveTree BY <1>29, RemoveTreeDoes
<1>30. CASE RemoveReceipt BY <1>30, RemoveReceiptDoes
<1>31. CASE HelperDies BY <1>31, HelperDiesDoes
<1> QED
 BY <1>2, <1>3, <1>4, <1>5, <1>6, <1>7, <1>8, <1>9, <1>10, <1>11, <1>12, <1>13, <1>14, <1>15, <1>16, <1>17, <1>18,
   <1>19, <1>20, <1>21, <1>22, <1>23, <1>24, <1>25, <1>26, <1>27, <1>28, <1>29, <1>30, <1>31 DEF MetaMoves,
   IrecMoves, StoreNext, StoreHelper, StoreWorld

\* The approvals are kept where nothing is intended or published anew, and no publish begins.
LEMMA ApprovedFrame ==
  ASSUME StoreApproved, UNCHANGED <<name, install, decided, storeOp, disturbed, begun>>,
    pubReceipts' \cup intended' \subseteq pubReceipts \cup intended,
    req'.do = "publish" => req.do = "publish" /\ req'.s = req.s
  PROVE  StoreApproved'
BY DEF StoreApproved

\* Every step keeps what is published and intended approved.
LEMMA ApprovedKept ==
  ASSUME StoreInv, StoreNext \/ UNCHANGED storeVars
  PROVE  StoreApproved'
<1>1. StoreTypes /\ StorePlaces /\ StoreIntents /\ StoreApproved /\ StoreUses BY DEF StoreInv
<1>2. CASE PublishIntent
 <2>1. install[req.s] = "approved" /\ decided[req.s] = "approved" /\ req.s \in Stagings
  BY <1>1, <1>2, IntentDoes, ReqHolds DEF StoreApproved, StorePlaces, PrePcs
 <2> QED BY <1>1, <1>2, <2>1, IntentDoes DEF StoreApproved, Moves, deskKept
<1>3. CASE CompleteP5
 <2>1. req.at \in intended /\ pubReceipts' \cup intended' \subseteq pubReceipts \cup intended
  BY <1>1, <1>3, P5Does DEF StoreIntents, MidPcs
 <2> QED BY <1>1, <1>3, <2>1, P5Does, ApprovedFrame DEF Moves, deskKept
<1>4. CASE RecoverOne BY <1>1, <1>4, RecoverDoes, ApprovedFrame DEF RecoveryOf, deskKept
<1>5. CASE VerifyBegin
 BY <1>1, <1>5, VerifyBeginDoes, IdleReq, ApprovedFrame DEF StorePlaces, StoreDos, filesKept, deskKept
<1>6. CASE \E s \in Stagings : TreeChanges(s) BY <1>1, <1>6, TreeChangesDoes DEF StoreApproved
<1>7. CASE GiveUp BY <1>1, <1>7, GiveUpDoes, IdleOp DEF StoreApproved, filesKept, deskKept
<1>8. CASE InstallStaged
 <2>1. /\ install \in [Stagings -> InstallRows] /\ pubReceipts \subseteq Stagings /\ intended \subseteq Stagings
       /\ begun \subseteq Stagings BY <1>1 DEF StoreTypes
 <2>2. req.do = "publish" => req.s \in Stagings BY <1>1 DEF StorePlaces
 <2> QED BY <1>1, <1>8, <2>1, <2>2, InstallStagedDoes, IdleOp DEF StoreApproved, filesKept
<1>9. CASE SettleAsk BY <1>1, <1>9, SettleAskDoes, IdleReq DEF StoreApproved, filesKept, OpIs, Starts, deskKept
<1>10. CASE SettleAnswer
 <2>1. /\ UNCHANGED <<req, begun, decided, disturbed>> /\ filesKept
       /\ storeOp.s \in Stagings /\ install[storeOp.s] = "approved" /\ storeOp.do = "settle"
  BY <1>1, <1>10, SettleAnswerDoes DEF StoreApproved
 <2>2. install \in [Stagings -> InstallRows] /\ pubReceipts \subseteq Stagings /\ intended \subseteq Stagings
  BY <1>1 DEF StoreTypes
 <2>3. req.do = "publish" => req.s \in Stagings BY <1>1 DEF StorePlaces
 <2>4. CASE UNCHANGED install BY <1>1, <1>10, <2>1, <2>4, SettleAnswerDoes, IdleOp DEF StoreApproved, filesKept, OpIs
 <2>5. CASE reply \in Answers /\ install' = [install EXCEPT ![storeOp.s] = "published"] /\ storeOp' = NoStoreOp
  <3>1. req = NoReq BY <1>1, <2>5 DEF StorePlaces
  <3> QED BY <1>1, <2>1, <2>2, <2>5, <3>1, IdleOp, IdleReq DEF StoreApproved, filesKept
 <2>6. CASE /\ reply \in {"failed", "conflict"} /\ install' = [install EXCEPT ![storeOp.s] = "failed"]
            /\ storeOp' = NoStoreOp
  <3>1. req = NoReq BY <1>1, <2>6 DEF StorePlaces, Answers
  <3>2. storeOp.s \notin pubReceipts \cup intended \/ name[storeOp.s] \in disturbed BY <1>1, <2>1, <2>6 DEF StoreUses
  <3> QED BY <1>1, <2>1, <2>2, <2>6, <3>1, <3>2, IdleOp, IdleReq DEF StoreApproved, filesKept
 <2> QED BY <1>1, <1>10, <2>4, <2>5, <2>6, SettleAnswerDoes
<1>11. CASE UseSelect BY <1>1, <1>11, UseSelectDoes, IdleOp DEF StoreApproved, filesKept, OpIs
<1>12. CASE UseWrite BY <1>1, <1>12, UseWriteDoes, IdleOp DEF StoreApproved, filesKept, OpIs
<1>13. CASE UseClose BY <1>1, <1>13, UseCloseDoes, IdleOp DEF StoreApproved, filesKept, deskKept
<1>14. CASE LaunchPinned BY <1>1, <1>14, LaunchPinnedDoes, IdleOp DEF StoreApproved, filesKept, deskKept
<1>15. CASE RemoveEnd \/ VerifyDone \/ WsdDies
 BY <1>1, <1>15, OthersEndDo, IdleOp DEF StoreApproved, filesKept, deskKept
<1>16. CASE PruneList \/ UNCHANGED storeVars \/ \E s \in Stagings : StagingAges(s)
 BY <1>1, <1>16, IdlesDo, IdleOp DEF StoreApproved, filesKept, deskKept
<1>17. CASE \E s \in Stagings : InstallStage(s)
 BY <1>1, <1>17, InstallStageDoes, IdleReq DEF StoreApproved, filesKept, OpIs, Starts, deskKept
<1>18. CASE \E s \in Stagings : AskApproval(s)
 <2>1. PICK s \in Stagings : AskApproval(s) BY <1>18
 <2>2. /\ install \in [Stagings -> InstallRows] /\ decided \in [Stagings -> {"none", "approved", "denied"}]
       /\ pubReceipts \subseteq Stagings /\ intended \subseteq Stagings BY <1>1 DEF StoreTypes
 <2>3. req.do = "publish" => req.s \in Stagings BY <1>1 DEF StorePlaces
 <2> QED BY <1>1, <2>1, <2>2, <2>3, AskDoes, IdleOp DEF StoreApproved, filesKept
<1>19. CASE \E s \in Stagings : DecideInstall(s)
 <2>1. PICK s \in Stagings : DecideInstall(s) BY <1>19
 <2>2. /\ install \in [Stagings -> InstallRows] /\ decided \in [Stagings -> {"none", "approved", "denied"}]
       /\ pubReceipts \subseteq Stagings /\ intended \subseteq Stagings BY <1>1 DEF StoreTypes
 <2>3. req.do = "publish" => req.s \in Stagings BY <1>1 DEF StorePlaces
 <2> QED BY <1>1, <2>1, <2>2, <2>3, DecideDoes, IdleOp DEF StoreApproved, filesKept
<1>20. CASE \E s \in Stagings : AdvanceInstall(s)
 <2>1. PICK s \in Stagings : AdvanceInstall(s) BY <1>20
 <2>2. /\ UNCHANGED <<req, begun, decided, disturbed>> /\ filesKept /\ storeOp = NoStoreOp BY <1>1, <2>1, AdvanceDoes
 <2>3. install \in [Stagings -> InstallRows] /\ pubReceipts \subseteq Stagings /\ intended \subseteq Stagings
  BY <1>1 DEF StoreTypes
 <2>4. req.do = "publish" => req.s \in Stagings BY <1>1 DEF StorePlaces
 <2>5. CASE install[s] \in {"staged", "posted"} /\ UNCHANGED storeOp
  <3>1. PICK x \in {"expired", "denied", "failed", "approved"} :
           install' = [install EXCEPT ![s] = x] /\ (x = "approved" => decided[s] = "approved")
   BY <1>1, <2>1, <2>5, AdvanceDoes
  <3> QED BY <1>1, <2>2, <2>3, <2>4, <2>5, <3>1, IdleOp DEF StoreApproved, filesKept
 <2>6. CASE /\ install[s] = "posted" /\ decided[s] = "approved" /\ install' = [install EXCEPT ![s] = "approved"]
            /\ \E p \in OpPcs : OpIs("settle", s, name[s], p)
  BY <1>1, <2>2, <2>3, <2>4, <2>6 DEF StoreApproved, filesKept, OpIs
 <2>7. CASE install[s] = "approved" /\ UNCHANGED install /\ \E p \in OpPcs : OpIs("settle", s, name[s], p)
  BY <1>1, <2>2, <2>3, <2>4, <2>7 DEF StoreApproved, filesKept, OpIs
 <2> QED BY <1>1, <2>1, <2>5, <2>6, <2>7, AdvanceDoes
<1>21. CASE \E n \in Installs : UseBegin(n)
 BY <1>1, <1>21, UseBeginDoes, IdleReq DEF StoreApproved, filesKept, OpIs, Starts, deskKept
<1>22. CASE \E n \in Installs : PinnedEnds(n)
 BY <1>1, <1>22, PinnedEndsDoes, IdleOp DEF StoreApproved, filesKept, deskKept
<1>23. CASE \E n \in Installs : RemoveBegin(n)
 BY <1>1, <1>23, RemoveBeginDoes, IdleReq DEF StoreApproved, filesKept, OpIs, Starts, deskKept
<1>24. CASE \E n \in Installs : VerifyOp(n)
 BY <1>1, <1>24, VerifyOpDoes, IdleReq DEF StoreApproved, filesKept, OpIs, Starts, deskKept
<1>25. CASE WsdStarts
 <2>1. /\ pubReceipts \subseteq Stagings /\ intended \subseteq Stagings /\ begun \subseteq Stagings
  BY <1>1 DEF StoreTypes
 <2>2. req.do = "publish" => req.s \in Stagings BY <1>1 DEF StorePlaces
 <2> QED BY <1>1, <1>25, <2>1, <2>2, WsdStartsDoes DEF StoreApproved, filesKept
<1> USE <1>1, IdleReq, ApprovedFrame DEF Moves, filesKept, deskKept
<1>26. CASE StoreReads BY <1>26, ReadsDo
<1>27. CASE PublishDecided BY <1>27, DecidedDoes
<1>28. CASE PublishBegin BY <1>28, BeginDoes
<1>29. CASE PublishRehash BY <1>29, RehashDoes
<1>30. CASE PublishR2 BY <1>30, R2Does
<1>31. CASE PublishFail BY <1>31, FailDoes
<1>32. CASE PublishRename BY <1>32, RenameDoes
<1>33. CASE PublishSeal BY <1>33, SealDoes
<1>34. CASE CompleteP3 BY <1>34, P3Does
<1>35. CASE CompleteP4 BY <1>35, P4Does
<1>36. CASE AbandonFail BY <1>36, AbandonFailDoes
<1>37. CASE AbandonTree BY <1>37, AbandonTreeDoes
<1>38. CASE AbandonMeta BY <1>38, AbandonMetaDoes
<1>39. CASE CleanStaged BY <1>39, CleanStagedDoes
<1>40. CASE CleanRecord BY <1>40, CleanRecordDoes
<1>41. CASE CleanIntent BY <1>41, CleanIntentDoes
<1>42. CASE Sweep BY <1>42, SweepDoes
<1>43. CASE \E f \in StagingFlaws : StageBegin(f) BY <1>43, StageBeginDoes
<1>44. CASE \E f \in StagingFlaws : \E s \in Stagings : StageEnd(s, f) BY <1>44, StageEndDoes
<1>45. CASE VerifyEnd BY <1>45, VerifyEndDoes
<1>46. CASE RemoveMeta BY <1>46, RemoveMetaDoes
<1>47. CASE RemoveTree BY <1>47, RemoveTreeDoes
<1>48. CASE RemoveReceipt BY <1>48, RemoveReceiptDoes
<1>49. CASE HelperDies BY <1>49, HelperDiesDoes
<1> QED
 BY <1>2, <1>3, <1>4, <1>5, <1>6, <1>7, <1>8, <1>9, <1>10, <1>11, <1>12, <1>13, <1>14, <1>15, <1>16, <1>17, <1>18,
   <1>19, <1>20, <1>21, <1>22, <1>23, <1>24, <1>25, <1>26, <1>27, <1>28, <1>29, <1>30, <1>31, <1>32, <1>33, <1>34,
   <1>35, <1>36, <1>37, <1>38, <1>39, <1>40, <1>41, <1>42, <1>43, <1>44, <1>45, <1>46, <1>47, <1>48, <1>49
   DEF StoreNext, StoreHelper, HarnessOps, StoreWorld

\* A staging stays where it is, or its tree goes.
LEMMA FreshFrame ==
  ASSUME StoreFresh, UNCHANGED begun, building' \subseteq building, building \subseteq Stagings,
      staged' \subseteq staged,
    intended' \subseteq intended, pubReceipts' \subseteq pubReceipts,
    \A s \in Stagings : tree'[s] = tree[s] \/ (s \notin building' /\ tree'[s] # "install"),
    req'.do = "stage" => req.do = "stage" /\ req'.s = req.s,
    req'.pc \in PrePcs \cup {"conflict", "discard", "rename"} =>
       req.pc \in PrePcs \cup {"conflict", "discard", "rename"} /\ req'.s = req.s
  PROVE  StoreFresh'
BY DEF StoreFresh

\* Every step keeps a staging that was not built yet out of the store.
LEMMA FreshKept ==
  ASSUME StoreInv, StoreNext \/ UNCHANGED storeVars
  PROVE  StoreFresh'
<1>1. StoreTypes /\ StorePlaces /\ StoreIntents /\ StoreApproved /\ StoreFresh /\ StoreNames BY DEF StoreInv
<1>2. CASE PublishBegin
 <2>1. req.s \notin building /\ req'.s = req.s /\ req'.do = req.do /\ req.do = "publish"
  BY <1>1, <1>2, BeginDoes DEF StoreFresh, Moves, StoreTypes, StorePlaces, StoreDos
 <2> QED BY <1>1, <1>2, <2>1, BeginDoes DEF StoreFresh, deskKept
<1>3. CASE PublishFail
 <2>1. req.s \notin building /\ req.s \in Stagings BY <1>1, <1>3, FailDoes, ReqHolds DEF StoreFresh
 <2> QED BY <1>1, <1>3, <2>1, FailDoes, IdleReq, FreshFrame DEF deskKept, StoreTypes, PrePcs
<1>4. CASE PublishIntent
 <2>1. req.do = "publish" /\ req.s \notin building /\ req.s \in begun /\ tree[req.s] # "install" /\ req.s \in Stagings
  BY <1>1, <1>4, IntentDoes, ReqHolds DEF StorePlaces, StoreFresh, StoreApproved, StoreNames, PrePcs
 <2> QED BY <1>1, <1>4, <2>1, IntentDoes DEF StoreFresh, Moves, deskKept, PrePcs
<1>5. CASE PublishRename
 <2>1. req.do = "publish" /\ req.at \in intended /\ req.at \in Stagings /\
         tree \in [Stagings -> {"none", "staging", "install"}]
  BY <1>1, <1>5, RenameDoes, ReqHolds DEF StorePlaces, StoreIntents, StoreTypes
 <2>2. req.at \in begun /\ req.at \notin building BY <1>1, <2>1 DEF StoreFresh
 <2> QED
  <3>1. \A s \in Stagings : s # req.at => tree'[s] = tree[s] BY <1>1, <1>5, <2>1, RenameDoes
  <3>2. UNCHANGED <<begun, building, staged, intended, pubReceipts>> /\ req'.do = req.do /\ req'.pc = "seal"
   BY <1>1, <1>5, RenameDoes DEF deskKept
  <3>3. \A s \in building : s \in Stagings BY <1>1 DEF StoreTypes
  <3> QED BY <1>1, <2>1, <2>2, <3>1, <3>2, <3>3 DEF StoreFresh, PrePcs
<1>6. CASE CompleteP5
 <2>1. req.at \in intended /\ req.at \in Stagings BY <1>1, <1>6, P5Does, ReqHolds DEF StoreIntents, MidPcs
 <2>2. req.at \in begun /\ req.at \notin building /\ ~(req.do = "stage" /\ req.s = req.at)
  BY <1>1, <2>1 DEF StoreFresh
 <2> QED BY <1>1, <1>6, <2>1, <2>2, P5Does DEF StoreFresh, Moves, deskKept, PrePcs
<1>7. CASE AbandonTree
 <2>1. req.at \in intended /\ req.at \in Stagings /\ tree \in [Stagings -> {"none", "staging", "install"}]
  BY <1>1, <1>7, AbandonTreeDoes, ReqHolds DEF StoreIntents, MidPcs, StoreTypes
 <2>2. req.at \notin building BY <1>1, <2>1 DEF StoreFresh
 <2> QED BY <1>1, <1>7, <2>1, <2>2, AbandonTreeDoes, FreshFrame DEF Moves, deskKept, StoreTypes, PrePcs
<1>8. CASE RecoverOne BY <1>1, <1>8, RecoverDoes, FreshFrame DEF RecoveryOf, deskKept, StoreTypes, PrePcs
<1>9. CASE Sweep
 BY <1>1, <1>9, SweepDoes, IdleReq, FreshFrame DEF Moves, deskKept, StoreTypes, PrePcs, StoreDos, ReadPcs
<1>10. CASE \E f \in StagingFlaws : StageBegin(f)
 <2>1. PICK f \in StagingFlaws : StageBegin(f) BY <1>10
 <2>2. req.do = "stage" /\ req.s \in Stagings /\ req.s \in begun /\
         tree \in [Stagings -> {"none", "staging", "install"}]
  BY <1>1, <2>1, StageBeginDoes, ReqHolds DEF StorePlaces, StoreDos, StoreFresh, StoreTypes
 <2>3. UNCHANGED <<begun, staged, intended, pubReceipts>> /\ req' = NoReq BY <1>1, <2>1, StageBeginDoes DEF deskKept
 <2>4. CASE UNCHANGED <<tree, building>> BY <1>1, <2>3, <2>4, IdleReq DEF StoreFresh, PrePcs
 <2>5. CASE tree' = [tree EXCEPT ![req.s] = "staging"] /\ building' = building \cup {req.s}
  <3>1. tree'[req.s] = "staging" /\ \A s \in Stagings : s # req.s => tree'[s] = tree[s] BY <2>2, <2>5
  <3>2. \A s \in building : s \in Stagings BY <1>1 DEF StoreTypes
  <3> QED BY <1>1, <2>2, <2>3, <2>5, <3>1, <3>2, IdleReq DEF StoreFresh, PrePcs
 <2> QED BY <1>1, <2>1, <2>4, <2>5, StageBeginDoes
<1>11. CASE \E f \in StagingFlaws : \E s \in Stagings : StageEnd(s, f)
 <2>1. PICK f \in StagingFlaws, t \in Stagings : StageEnd(t, f) BY <1>11
 <2>2. t \in building /\ building' = building \ {t} /\ UNCHANGED <<req, begun, intended, pubReceipts>>
  BY <1>1, <2>1, StageEndDoes DEF deskKept
 <2>3. tree \in [Stagings -> {"none", "staging", "install"}] /\ building \subseteq Stagings BY <1>1 DEF StoreTypes
 <2>4. CASE req = NoReq /\ staged' = staged \cup {t} /\ UNCHANGED tree
  BY <1>1, <2>2, <2>4, IdleReq DEF StoreFresh, PrePcs
 <2>5. CASE tree' = [tree EXCEPT ![t] = "none"] /\ UNCHANGED staged BY <1>1, <2>2, <2>3, <2>5, FreshFrame
 <2> QED BY <1>1, <2>1, <2>4, <2>5, StageEndDoes
<1>12. CASE VerifyBegin
 BY <1>1, <1>12, VerifyBeginDoes, IdleReq, FreshFrame DEF filesKept, deskKept, StoreTypes, PrePcs, StorePlaces,
   StoreDos
<1>13. CASE RemoveTree
 <2>1. \A s \in Stagings : tree[s] = "install" => s \notin building BY <1>1 DEF StoreFresh
 <2>2. \A s \in Stagings : tree'[s] = tree[s] \/ (s \notin building' /\ tree'[s] # "install")
  BY <1>1, <1>13, <2>1, RemoveTreeDoes
 <2> QED BY <1>1, <1>13, <2>2, RemoveTreeDoes, FreshFrame DEF Moves, deskKept, StoreTypes, PrePcs
<1>14. CASE HelperDies BY <1>1, <1>14, HelperDiesDoes, IdleReq, FreshFrame DEF deskKept, StoreTypes, PrePcs
<1>15. CASE \E s \in Stagings : TreeChanges(s) BY <1>1, <1>15, TreeChangesDoes, FreshFrame DEF StoreTypes
<1>16. CASE GiveUp BY <1>1, <1>16, GiveUpDoes, FreshFrame DEF StoreTypes, filesKept, deskKept
<1>17. CASE InstallStaged BY <1>1, <1>17, InstallStagedDoes, FreshFrame DEF StoreTypes, filesKept, deskKept
<1>18. CASE SettleAsk
 BY <1>1, <1>18, SettleAskDoes, IdleReq, FreshFrame DEF StoreTypes, filesKept, deskKept, Starts, PrePcs
<1>19. CASE SettleAnswer BY <1>1, <1>19, SettleAnswerDoes, FreshFrame DEF StoreTypes, filesKept, deskKept
<1>20. CASE UseSelect BY <1>1, <1>20, UseSelectDoes, FreshFrame DEF StoreTypes, filesKept, deskKept
<1>21. CASE UseWrite BY <1>1, <1>21, UseWriteDoes, FreshFrame DEF StoreTypes, filesKept, deskKept
<1>22. CASE UseClose BY <1>1, <1>22, UseCloseDoes, FreshFrame DEF StoreTypes, filesKept, deskKept
<1>23. CASE LaunchPinned BY <1>1, <1>23, LaunchPinnedDoes, FreshFrame DEF StoreTypes, filesKept, deskKept
<1>24. CASE RemoveEnd \/ VerifyDone \/ WsdDies
 BY <1>1, <1>24, OthersEndDo, FreshFrame DEF StoreTypes, filesKept, deskKept
<1>25. CASE PruneList \/ UNCHANGED storeVars \/ \E s \in Stagings : StagingAges(s)
 BY <1>1, <1>25, IdlesDo, FreshFrame DEF StoreTypes, filesKept, deskKept
<1>26. CASE \E s \in Stagings : InstallStage(s)
 <2>1. PICK s \in Stagings : InstallStage(s) BY <1>26
 <2>2. /\ s \notin begun /\ begun' = begun \cup {s} /\ req'.do = "stage" /\ req'.s = s /\ req'.pc = "recover"
       /\ req = NoReq
       /\ UNCHANGED <<staged, intended, pubReceipts, tree, building>>
  BY <1>1, <2>1, InstallStageDoes DEF Starts, filesKept
 <2> QED BY <1>1, <2>2, IdleReq DEF StoreFresh, PrePcs
<1>27. CASE \E s \in Stagings : AskApproval(s) BY <1>1, <1>27, AskDoes, FreshFrame DEF StoreTypes, filesKept, deskKept
<1>28. CASE \E s \in Stagings : DecideInstall(s)
 BY <1>1, <1>28, DecideDoes, FreshFrame DEF StoreTypes, filesKept, deskKept
<1>29. CASE \E s \in Stagings : AdvanceInstall(s)
 BY <1>1, <1>29, AdvanceDoes, FreshFrame DEF StoreTypes, filesKept, deskKept
<1>30. CASE \E n \in Installs : UseBegin(n)
 BY <1>1, <1>30, UseBeginDoes, IdleReq, FreshFrame DEF StoreTypes, filesKept, deskKept, Starts, PrePcs
<1>31. CASE \E n \in Installs : PinnedEnds(n)
 BY <1>1, <1>31, PinnedEndsDoes, FreshFrame DEF StoreTypes, filesKept, deskKept
<1>32. CASE \E n \in Installs : RemoveBegin(n)
 BY <1>1, <1>32, RemoveBeginDoes, IdleReq, FreshFrame DEF StoreTypes, filesKept, deskKept, Starts, PrePcs
<1>33. CASE \E n \in Installs : VerifyOp(n)
 BY <1>1, <1>33, VerifyOpDoes, IdleReq, FreshFrame DEF StoreTypes, filesKept, deskKept, Starts, PrePcs
<1>34. CASE WsdStarts BY <1>1, <1>34, WsdStartsDoes, FreshFrame DEF StoreTypes, filesKept, deskKept
<1> USE <1>1, IdleReq, FreshFrame DEF Moves, filesKept, deskKept, StoreTypes, PrePcs
<1>35. CASE StoreReads BY <1>35, ReadsDo
<1>36. CASE PublishDecided BY <1>36, DecidedDoes
<1>37. CASE PublishRehash BY <1>37, RehashDoes
<1>38. CASE PublishR2 BY <1>38, R2Does
<1>39. CASE PublishSeal BY <1>39, SealDoes
<1>40. CASE CompleteP3 BY <1>40, P3Does
<1>41. CASE CompleteP4 BY <1>41, P4Does
<1>42. CASE AbandonFail BY <1>42, AbandonFailDoes
<1>43. CASE AbandonMeta BY <1>43, AbandonMetaDoes
<1>44. CASE CleanStaged BY <1>44, CleanStagedDoes
<1>45. CASE CleanRecord BY <1>45, CleanRecordDoes
<1>46. CASE CleanIntent BY <1>46, CleanIntentDoes
<1>47. CASE VerifyEnd BY <1>47, VerifyEndDoes
<1>48. CASE RemoveMeta BY <1>48, RemoveMetaDoes
<1>49. CASE RemoveReceipt BY <1>49, RemoveReceiptDoes
<1> QED
 BY <1>2, <1>3, <1>4, <1>5, <1>6, <1>7, <1>8, <1>9, <1>10, <1>11, <1>12, <1>13, <1>14, <1>15, <1>16, <1>17, <1>18,
   <1>19, <1>20, <1>21, <1>22, <1>23, <1>24, <1>25, <1>26, <1>27, <1>28, <1>29, <1>30, <1>31, <1>32, <1>33, <1>34,
   <1>35, <1>36, <1>37, <1>38, <1>39, <1>40, <1>41, <1>42, <1>43, <1>44, <1>45, <1>46, <1>47, <1>48, <1>49
   DEF StoreNext, StoreHelper, HarnessOps, StoreWorld

\* A name stays the intent's alone where no tree and no receipt comes.
LEMMA OwnFrame ==
  ASSUME OwnNames, UNCHANGED name, intended' \subseteq intended, pubReceipts' \subseteq pubReceipts,
    \A t \in Stagings : tree'[t] = "install" => tree[t] = "install"
  PROVE  OwnNames'
BY DEF OwnNames, OnlyOf

\* Every step keeps the intent's name its own.
LEMMA OwnNamesKept ==
  ASSUME StoreInv, StoreNext \/ UNCHANGED storeVars
  PROVE  OwnNames'
<1>1. StoreTypes /\ StorePlaces /\ StoreIntents /\ StoreNames /\ OwnNames BY DEF StoreInv
<1>2. CASE PublishFail BY <1>1, <1>2, FailDoes, ReqHolds, OwnFrame DEF StoreTypes
<1>3. CASE PublishIntent
 <2>1. intended = {} /\ intended' = intended \cup {req.s} /\ UNCHANGED <<name, tree, pubReceipts>> /\
         Untaken(name[req.s]) BY <1>1, <1>3, IntentDoes DEF StoreIntents, StoreNames, PrePcs, MidPcs
 <2> QED BY <2>1 DEF OwnNames, OnlyOf, Untaken
<1>4. CASE PublishRename
 <2>1. /\ req.at \in intended /\ req.at \in Stagings /\ \A s \in intended : s = req.at
       /\ UNCHANGED <<name, intended, pubReceipts>> BY <1>1, <1>4, RenameDoes, ReqHolds DEF StoreIntents
 <2>2. \A t \in Stagings : t # req.at => tree'[t] = tree[t] BY <1>1, <1>4, <2>1, RenameDoes DEF StoreTypes
 <2> QED BY <1>1, <2>1, <2>2 DEF OwnNames, OnlyOf
<1>5. CASE CompleteP5
 <2>1. /\ req.at \in intended /\ \A s \in intended : s = req.at
       /\ UNCHANGED <<name, intended, tree>> /\ pubReceipts' = pubReceipts \cup {req.at}
  BY <1>1, <1>5, P5Does DEF StoreIntents, MidPcs
 <2> QED BY <1>1, <2>1 DEF OwnNames, OnlyOf
<1>6. CASE AbandonTree BY <1>1, <1>6, AbandonTreeDoes, ReqHolds, OwnFrame DEF StoreTypes
<1>7. CASE RecoverOne BY <1>1, <1>7, RecoverDoes, OwnFrame DEF RecoveryOf
<1>8. CASE Sweep BY <1>1, <1>8, SweepDoes, ReqHolds, OwnFrame DEF StoreTypes
<1>9. CASE \E f \in StagingFlaws : StageBegin(f) BY <1>1, <1>9, StageBeginDoes, ReqHolds, OwnFrame DEF StoreTypes
<1>10. CASE \E f \in StagingFlaws : \E s \in Stagings : StageEnd(s, f)
 BY <1>1, <1>10, StageEndDoes, ReqHolds, OwnFrame DEF StoreTypes
<1>11. CASE RemoveTree BY <1>1, <1>11, RemoveTreeDoes, ReqHolds, OwnFrame DEF StoreTypes
<1> USE <1>1, OwnFrame DEF filesKept
<1>12. CASE StoreReads BY <1>12, ReadsDo
<1>13. CASE PublishDecided BY <1>13, DecidedDoes
<1>14. CASE PublishBegin BY <1>14, BeginDoes
<1>15. CASE PublishRehash BY <1>15, RehashDoes
<1>16. CASE PublishR2 BY <1>16, R2Does
<1>17. CASE PublishSeal BY <1>17, SealDoes
<1>18. CASE CompleteP3 BY <1>18, P3Does
<1>19. CASE CompleteP4 BY <1>19, P4Does
<1>20. CASE AbandonFail BY <1>20, AbandonFailDoes
<1>21. CASE AbandonMeta BY <1>21, AbandonMetaDoes
<1>22. CASE CleanStaged BY <1>22, CleanStagedDoes
<1>23. CASE CleanRecord BY <1>23, CleanRecordDoes
<1>24. CASE CleanIntent BY <1>24, CleanIntentDoes
<1>25. CASE VerifyBegin BY <1>25, VerifyBeginDoes
<1>26. CASE VerifyEnd BY <1>26, VerifyEndDoes
<1>27. CASE RemoveMeta BY <1>27, RemoveMetaDoes
<1>28. CASE RemoveReceipt BY <1>28, RemoveReceiptDoes
<1>29. CASE HelperDies BY <1>29, HelperDiesDoes
<1>30. CASE \E s \in Stagings : TreeChanges(s) BY <1>30, TreeChangesDoes
<1>31. CASE HarnessOps \/ WsdDies \/ WsdStarts \/ UNCHANGED storeVars \/ \E s \in Stagings : StagingAges(s)
 BY <1>31, DeskSteps
<1> QED
 BY <1>2, <1>3, <1>4, <1>5, <1>6, <1>7, <1>8, <1>9, <1>10, <1>11, <1>12, <1>13, <1>14, <1>15, <1>16, <1>17, <1>18,
   <1>19, <1>20, <1>21, <1>22, <1>23, <1>24, <1>25, <1>26, <1>27, <1>28, <1>29, <1>30, <1>31 DEF StoreNext,
   StoreHelper, StoreWorld

NamePcs == {"conflict", "discard", "rename", "seal", "P3", "P4", "P5", "fail", "untree", "unmeta", "V2"} \cup PrePcs

LEMMA NamesIdle ==
  ASSUME req'.pc \notin NamePcs PROVE StoreNames'
BY DEF StoreNames, NamePcs

\* Every step keeps the names with the helper's place.
LEMMA NamesKept ==
  ASSUME StoreInv, StoreNext \/ UNCHANGED storeVars
  PROVE  StoreNames'
<1>1. StoreTypes /\ StorePlaces /\ StoreIntents /\ StoreFresh /\ StoreNames BY DEF StoreInv
<1>2. CASE PublishBegin
 <2>1. /\ UNCHANGED <<name, tree, pubReceipts, metaM, metaR>> /\ req'.s = req.s /\ req.s \in Stagings
       /\ tree[req.s] = "staging" /\ req.s \notin pubReceipts BY <1>1, <1>2, BeginDoes DEF Moves, StoreTypes
 <2>2. CASE req'.pc = "conflict" BY <2>1, <2>2 DEF StoreNames, PrePcs
 <2>3. CASE req'.pc = "rehash"
  <3>1. ~NameHeld(name[req.s]) BY <1>1, <1>2, <2>3, BeginDoes DEF Moves
  <3>2. Untaken(name[req.s]) BY <1>1, <3>1 DEF NameHeld, Untaken, TreeAt, ReceiptsOf, StoreTypes
  <3> QED BY <2>1, <2>3, <3>2 DEF StoreNames, PrePcs, Untaken
 <2> QED BY <1>1, <1>2, <2>2, <2>3, BeginDoes DEF Moves
<1>3. CASE PublishRehash
 <2>1. filesKept /\ req'.s = req.s /\ req'.pc \in {"R2", "discard"} /\ req.pc = "rehash"
  BY <1>1, <1>3, RehashDoes DEF Moves
 <2> QED BY <1>1, <2>1 DEF StoreNames, filesKept, PrePcs, Untaken
<1>4. CASE PublishR2
 <2>1. UNCHANGED <<name, tree, pubReceipts, metaM, metaR>> /\ req'.s = req.s /\
         req'.pc \in {"intent", "discard"} /\ req.pc = "R2" BY <1>1, <1>4, R2Does DEF Moves
 <2> QED BY <1>1, <2>1 DEF StoreNames, PrePcs, Untaken
<1>5. CASE PublishIntent
 <2>1. UNCHANGED <<name, tree, pubReceipts, metaM, metaR>> /\ req'.s = req.s /\ req'.pc = "rename" /\ req.pc = "intent"
  BY <1>1, <1>5, IntentDoes DEF Moves
 <2> QED BY <1>1, <2>1 DEF StoreNames, PrePcs, Untaken
<1>6. CASE PublishRename
 <2>1. /\ UNCHANGED pubReceipts /\ req'.at = req.at /\ req'.pc = "seal" /\ req.at = req.s /\ req.pc = "rename"
       /\ tree' = [tree EXCEPT ![req.at] = "install"] /\ req.at \in Stagings
  BY <1>1, <1>6, RenameDoes, ReqHolds DEF StorePlaces
 <2>2. tree'[req.at] = "install" BY <1>1, <2>1 DEF StoreTypes
 <2> QED BY <1>1, <2>1, <2>2 DEF StoreNames, PrePcs
<1>7. CASE PublishSeal
 <2>1. CASE req' = NoReq BY <2>1, IdleReq, NamesIdle DEF NamePcs, PrePcs
 <2>2. CASE req' # NoReq
  <3>1. /\ UNCHANGED <<name, tree, good, ver, building, staged, irec, intended, pubReceipts, metaM, metaR>>
        /\ disturbed' = disturbed /\ req.pc = "seal" /\ req'.at = req.at
        /\ sealed' = [sealed EXCEPT ![req.at] = TRUE] /\ req'.pc \in {"P3", "fail"} /\ req.at \in Stagings
        /\ req'.pc = "P3" => irec[req.at] = RecordOf(req.at)
   BY <1>1, <1>7, <2>2, SealDoes, ReqHolds DEF Moves, deskKept
  <3>2. sealed'[req.at] BY <1>1, <3>1 DEF StoreTypes
  <3>3. RecordOf(req.at)' = RecordOf(req.at) BY <3>1 DEF RecordOf, statx
  <3> QED BY <1>1, <3>1, <3>2, <3>3 DEF StoreNames, PrePcs, RecordOf, statx
 <2> QED BY <2>1, <2>2
<1>8. CASE CompleteP3
 <2>1. /\ UNCHANGED <<name, tree, good, ver, sealed, building, staged, irec, intended, pubReceipts, metaR>>
       /\ disturbed' = disturbed /\ req.pc = "P3" /\ req'.pc = "P4" /\ req'.at = req.at
       /\ metaM' = metaM \cup {name[req.at]} BY <1>1, <1>8, P3Does DEF Moves, deskKept
 <2> QED BY <1>1, <2>1 DEF StoreNames, PrePcs, RecordOf, statx
<1>9. CASE CompleteP4
 <2>1. /\ UNCHANGED <<name, tree, good, ver, sealed, building, staged, irec, intended, pubReceipts, metaM>>
       /\ disturbed' = disturbed /\ req.pc = "P4" /\ req'.pc = "P5" /\ req'.at = req.at
       /\ metaR' = [metaR EXCEPT ![name[req.at]] = irec[req.at]] /\ req.at \in Stagings
  BY <1>1, <1>9, P4Does, ReqHolds DEF Moves, deskKept
 <2>2. metaR'[name[req.at]] = irec[req.at] BY <1>1, <2>1 DEF StoreTypes
 <2> QED BY <1>1, <2>1, <2>2 DEF StoreNames, PrePcs, RecordOf, statx
<1>10. CASE AbandonFail
 <2>1. filesKept /\ req.pc = "fail" /\ req'.pc = "untree" /\ req'.at = req.at
  BY <1>1, <1>10, AbandonFailDoes DEF Moves
 <2> QED BY <1>1, <2>1 DEF StoreNames, PrePcs, filesKept
<1>11. CASE AbandonTree
 <2>1. UNCHANGED pubReceipts /\ req.pc = "untree" /\ req'.pc = "unmeta" /\ req'.at = req.at
  BY <1>1, <1>11, AbandonTreeDoes DEF Moves
 <2> QED BY <1>1, <2>1 DEF StoreNames, PrePcs
<1>12. CASE RecoverOne
 <2>1. PICK s \in Stagings : RecoveryOf(s) BY <1>1, <1>12, RecoverDoes
 <2>2. UNCHANGED <<name, tree, good, ver, building, staged, intended, pubReceipts, metaM, metaR>> /\
         disturbed' = disturbed BY <1>1, <1>12, RecoverDoes DEF deskKept
 <2>3. CASE req'.pc \in {"recover", "unstage", "unrecord"} BY <2>3, NamesIdle DEF NamePcs, PrePcs
 <2>4. CASE req'.pc \in {"untree", "fail"}
  <3>1. req'.at = s /\ s \notin pubReceipts BY <2>1, <2>4 DEF RecoveryOf
  <3> QED BY <2>2, <2>4, <3>1 DEF StoreNames, PrePcs
 <2>5. CASE req'.pc = "P3"
  <3>1. /\ req'.at = s /\ s \notin pubReceipts /\ tree[s] = "install" /\ irec[s] = RecordOf(s) /\ irec' = irec
        /\ sealed' = [sealed EXCEPT ![s] = TRUE] BY <2>1, <2>5 DEF RecoveryOf
  <3>2. sealed'[s] BY <1>1, <3>1 DEF StoreTypes
  <3> QED BY <2>2, <2>5, <3>1, <3>2 DEF StoreNames, PrePcs, RecordOf, statx
 <2> QED BY <2>1, <2>3, <2>4, <2>5 DEF RecoveryOf
<1>13. CASE Sweep BY <1>1, <1>13, SweepDoes, IdleReq, NamesIdle DEF NamePcs, PrePcs, Moves, StoreDos, ReadPcs
<1>14. CASE \E f \in StagingFlaws : \E s \in Stagings : StageEnd(s, f)
 <2>1. PICK f \in StagingFlaws, b \in Stagings : StageEnd(b, f) BY <1>14
 <2>2. CASE req = NoReq BY <1>1, <2>1, <2>2, StageEndDoes, IdleReq, NamesIdle DEF NamePcs, PrePcs
 <2>3. CASE req # NoReq
  <3>1. b \in building /\ UNCHANGED req /\
          UNCHANGED <<name, good, ver, sealed, staged, irec, intended, pubReceipts, metaM, metaR>> /\
          disturbed' = disturbed /\ tree' = [tree EXCEPT ![b] = "none"]
   BY <1>1, <2>1, <2>3, StageEndDoes DEF deskKept
  <3>2. /\ tree'[b] = "none" /\ tree[b] = "staging" /\ \A t \in Stagings : t # b => tree'[t] = tree[t]
        /\ \A t \in Stagings : t \in intended => t # b BY <1>1, <3>1 DEF StoreTypes, StoreFresh
  <3>3. req.pc \in PrePcs \cup {"conflict", "discard", "rename"} => req.s # b /\ req.s \in Stagings
   BY <1>1, <3>1, ReqHolds DEF StoreFresh, PrePcs
  <3>4. req.pc \in {"seal", "P3", "P4", "P5"} => req.at # b /\ req.at \in Stagings
   BY <1>1, <3>2, ReqHolds DEF StoreIntents, MidPcs
  <3> QED BY <1>1, <3>1, <3>2, <3>3, <3>4 DEF StoreNames, Untaken, RecordOf, statx
 <2> QED BY <2>2, <2>3
<1>15. CASE VerifyBegin
 <2>1. CASE req' = NoReq BY <2>1, IdleReq, NamesIdle DEF NamePcs, PrePcs
 <2>2. CASE req' # NoReq
  <3>1. filesKept /\ req'.pc = "V2" /\ req'.s \in pubReceipts /\ name[req'.s] = req'.n
   BY <1>1, <1>15, <2>2, VerifyBeginDoes
  <3> QED BY <3>1 DEF StoreNames, PrePcs, filesKept
 <2> QED BY <2>1, <2>2
<1>16. CASE HelperDies
 <2>1. UNCHANGED <<name, tree, good, ver, sealed, staged, irec, intended, pubReceipts, metaM, metaR>> /\
         disturbed' = disturbed /\ (req' = NoReq \/ req' = req) BY <1>1, <1>16, HelperDiesDoes DEF deskKept
 <2>2. CASE req' = NoReq BY <2>2, IdleReq, NamesIdle DEF NamePcs, PrePcs
 <2>3. CASE req' = req BY <1>1, <2>1, <2>3 DEF StoreNames, Untaken, RecordOf, statx
 <2> QED BY <2>1, <2>2, <2>3
<1>17. CASE \E s \in Stagings : TreeChanges(s)
 <2>1. PICK c \in Stagings : TreeChanges(c) BY <1>17
 <2>2. /\ UNCHANGED req
       /\ UNCHANGED <<name, tree, sealed, building, staged, irec, intended, pubReceipts, metaM, metaR>>
       /\ ver' = [ver EXCEPT ![c] = @ + 1] /\ disturbed' = disturbed \cup {name[c]} BY <1>1, <2>1, TreeChangesDoes
 <2>3. \A t \in Stagings : name[t] \in disturbed' \/ RecordOf(t)' = RecordOf(t)
  BY <1>1, <2>2 DEF StoreTypes, RecordOf, statx
 <2>4. req.pc \in {"P3", "P4", "P5"} => req.at \in Stagings BY <1>1, ReqHolds
 <2>5. req.pc \in {"P3", "P4", "P5"} => name[req.at] \in disturbed' \/ irec[req.at] = RecordOf(req.at)'
  BY <1>1, <2>2, <2>3, <2>4 DEF StoreNames
 <2> QED BY <1>1, <2>2, <2>5 DEF StoreNames, Untaken
<1>18. CASE HarnessOps \/ WsdDies \/ WsdStarts \/ UNCHANGED storeVars \/ \E s \in Stagings : StagingAges(s)
 <2>1. filesKept /\ disturbed' = disturbed BY <1>18, DeskSteps
 <2>2. CASE UNCHANGED req BY <1>1, <2>1, <2>2 DEF StoreNames, filesKept, Untaken, RecordOf, statx
 <2>3. CASE ~UNCHANGED req BY <1>18, <2>3, DeskSteps, NamesIdle DEF Starts, NamePcs, PrePcs
 <2> QED BY <2>2, <2>3
<1> USE <1>1, IdleReq, NamesIdle DEF NamePcs, PrePcs, Moves
<1>19. CASE StoreReads BY <1>19, ReadsDo
<1>20. CASE PublishDecided BY <1>20, DecidedDoes
<1>21. CASE PublishFail BY <1>21, FailDoes
<1>22. CASE CompleteP5 BY <1>22, P5Does
<1>23. CASE AbandonMeta BY <1>23, AbandonMetaDoes
<1>24. CASE CleanStaged BY <1>24, CleanStagedDoes
<1>25. CASE CleanRecord BY <1>25, CleanRecordDoes
<1>26. CASE CleanIntent BY <1>26, CleanIntentDoes
<1>27. CASE \E f \in StagingFlaws : StageBegin(f) BY <1>27, StageBeginDoes
<1>28. CASE VerifyEnd BY <1>28, VerifyEndDoes
<1>29. CASE RemoveMeta BY <1>29, RemoveMetaDoes
<1>30. CASE RemoveTree BY <1>30, RemoveTreeDoes
<1>31. CASE RemoveReceipt BY <1>31, RemoveReceiptDoes
<1> QED
 BY <1>2, <1>3, <1>4, <1>5, <1>6, <1>7, <1>8, <1>9, <1>10, <1>11, <1>12, <1>13, <1>14, <1>15, <1>16, <1>17, <1>18,
   <1>19, <1>20, <1>21, <1>22, <1>23, <1>24, <1>25, <1>26, <1>27, <1>28, <1>29, <1>30, <1>31 DEF StoreNext,
   StoreHelper, StoreWorld

------------------------------
(* An install that is whole stays whole until it is removed. *)

LEMMA WholeFrame ==
  ASSUME NEW n, NEW s \in Stagings, WholeBy(n, s), UNCHANGED name, s \in pubReceipts', tree'[s] = tree[s],
    sealed'[s] = sealed[s] \/ sealed'[s] = TRUE, ver'[s] = ver[s], n \in metaM', metaR'[n] = metaR[n],
    \A t \in Stagings : name[t] = n => (tree'[t] = "install" => tree[t] = "install" \/ t = s)
                                  /\ (t \in pubReceipts' => t \in pubReceipts \/ t = s)
  PROVE  WholeBy(n, s)'
<1>1. RecordOf(s)' = RecordOf(s) BY DEF RecordOf, statx
<1>2. OnlyOf(n, s)' BY DEF WholeBy, OnlyOf
<1> QED BY <1>1, <1>2 DEF WholeBy

\* Every step keeps a whole install whole, unless it removes it or its tree is changed.
LEMMA WholeKept ==
  ASSUME StoreInv, StoreNext \/ UNCHANGED storeVars, NEW n \in Installs, n \notin disturbed',
         NEW s \in Stagings, WholeBy(n, s), ~(req.pc \in RemovePcs /\ req.n = n)
  PROVE  WholeBy(n, s)'
<1>1. StoreTypes /\ StorePlaces /\ StoreIntents /\ StoreFresh /\ OwnNames /\ StoreNames BY DEF StoreInv
<1>2. /\ s \in pubReceipts /\ name[s] = n /\ tree[s] = "install" /\ sealed[s] /\ n \in metaM /\ metaR[n] # NoRec
      /\ metaR[n] = RecordOf(s) /\ \A t \in Stagings : name[t] = n /\
           (tree[t] = "install" \/ t \in pubReceipts) => t = s
 BY HarnessBounds DEF WholeBy, OnlyOf, RecordOf, NoRec, NoOne
<1>3. /\ tree \in [Stagings -> {"none", "staging", "install"}] /\ sealed \in [Stagings -> BOOLEAN]
      /\ metaR \in [Installs -> StoreRecs] /\ pubReceipts \subseteq Stagings /\ name \in [Stagings -> Installs]
 BY <1>1 DEF StoreTypes
<1>4. req.pc \in {"seal", "P3", "P4", "P5", "fail", "untree", "unmeta"} =>
          req.at \in Stagings /\ req.at # s /\ name[req.at] # n
 <2>1. req.pc \in {"seal", "P3", "P4", "P5", "fail", "untree", "unmeta"} =>
         req.at \in Stagings /\ req.at \in intended /\ req.at \notin pubReceipts
  BY <1>1, ReqHolds DEF StoreIntents, StoreNames, MidPcs
 <2> QED BY <1>1, <1>2, <2>1 DEF OwnNames, OnlyOf
<1>5. req.pc \in PrePcs \cup {"rename"} => req.s \in Stagings /\ req.s # s /\ name[req.s] # n /\ req.at = req.s
 BY <1>1, <1>2, ReqHolds DEF StoreNames, StorePlaces, Untaken, PrePcs
<1>6. CASE PublishBegin
 <2>1. UNCHANGED <<name, tree, good, ver, building, staged, irec, intended, pubReceipts, metaM, metaR>> /\
         (sealed' = sealed \/ sealed' = [sealed EXCEPT ![req.s] = TRUE]) BY <1>1, <1>6, BeginDoes
 <2>2. sealed'[s] = sealed[s] \/ sealed'[s] = TRUE BY <1>3, <2>1
 <2> QED BY <1>2, <2>1, <2>2, WholeFrame
<1>7. CASE PublishFail BY <1>1, <1>2, <1>3, <1>4, <1>5, <1>7, FailDoes, ReqHolds, WholeFrame DEF StoreNames
<1>8. CASE PublishRename
 <2>1. /\ UNCHANGED <<name, good, ver, building, staged, irec, intended, pubReceipts, metaM, metaR>>
       /\ req.at \in Stagings /\ req.at # s /\ name[req.at] # n
       /\ sealed' = [sealed EXCEPT ![req.at] = FALSE] /\ tree' = [tree EXCEPT ![req.at] = "install"]
  BY <1>1, <1>5, <1>8, RenameDoes
 <2>2. sealed'[s] = sealed[s] /\ \A t \in Stagings : t # req.at => tree'[t] = tree[t] BY <1>3, <2>1
 <2>3. tree'[s] = tree[s] /\ \A t \in Stagings : name[t] = n => tree'[t] = tree[t] BY <2>1, <2>2
 <2>4. s \in pubReceipts' /\ name' = name /\ ver'[s] = ver[s] /\ n \in metaM' /\ metaR'[n] = metaR[n] BY <1>2, <2>1
 <2>5. \A t \in Stagings : name[t] = n => (tree'[t] = "install" => tree[t] = "install" \/ t = s)
                                     /\ (t \in pubReceipts' => t \in pubReceipts \/ t = s) BY <2>1, <2>3
 <2> QED BY <2>2, <2>3, <2>4, <2>5, WholeFrame
<1>9. CASE PublishSeal
 <2>1. UNCHANGED <<name, tree, good, ver, building, staged, irec, intended, pubReceipts, metaM, metaR>> /\
         (sealed' = sealed \/ sealed' = [sealed EXCEPT ![req.at] = TRUE]) BY <1>1, <1>9, SealDoes
 <2>2. sealed'[s] = sealed[s] \/ sealed'[s] = TRUE BY <1>3, <2>1
 <2> QED BY <1>2, <2>1, <2>2, WholeFrame
<1>10. CASE RecoverOne
 <2>1. UNCHANGED <<name, tree, good, ver, building, staged, intended, pubReceipts, metaM, metaR>> /\
         \E r \in Stagings : sealed' = sealed \/ sealed' = [sealed EXCEPT ![r] = TRUE]
  BY <1>1, <1>10, RecoverDoes DEF RecoveryOf
 <2>2. sealed'[s] = sealed[s] \/ sealed'[s] = TRUE BY <1>3, <2>1
 <2> QED BY <1>2, <2>1, <2>2, WholeFrame
<1>11. CASE \E f \in StagingFlaws : StageBegin(f)
 <2>1. PICK f \in StagingFlaws : StageBegin(f) BY <1>11
 <2>2. UNCHANGED <<name, good, ver, sealed, staged, irec, intended, pubReceipts, metaM, metaR>> /\
         (tree' = tree \/ tree' = [tree EXCEPT ![req.s] = "staging"]) /\ req.do = "stage" /\ req.s \in Stagings
  BY <1>1, <2>1, StageBeginDoes, ReqHolds DEF StorePlaces, StoreDos
 <2>3. req.s # s BY <1>1, <1>2, <2>2 DEF StoreFresh
 <2>4. tree'[s] = tree[s] /\ \A t \in Stagings : tree'[t] = "install" => tree[t] = "install" BY <1>3, <2>2, <2>3
 <2> QED BY <1>2, <2>2, <2>4, WholeFrame
<1>12. CASE \E f \in StagingFlaws : \E b \in Stagings : StageEnd(b, f)
 <2>1. PICK f \in StagingFlaws, b \in Stagings : StageEnd(b, f) BY <1>12
 <2>2. /\ UNCHANGED <<name, good, ver, irec, intended, pubReceipts, metaM, metaR>> /\ b \in building
       /\ tree' = tree \/ tree' = [tree EXCEPT ![b] = "none"]
       /\ sealed' = sealed \/ sealed' = [sealed EXCEPT ![b] = TRUE] BY <1>1, <2>1, StageEndDoes
 <2>3. b # s BY <1>1, <1>2, <2>2 DEF StoreFresh
 <2>4. tree'[s] = tree[s] /\ sealed'[s] = sealed[s] /\ \A t \in Stagings : tree'[t] = "install" => tree[t] = "install"
  BY <1>3, <2>2, <2>3
 <2> QED BY <1>2, <2>2, <2>4, WholeFrame
<1>13. CASE VerifyEnd
 <2>1. req.s \in pubReceipts /\ req.s \in Stagings /\ name[req.s] = req.n /\ req.n \in Installs
  BY <1>1, <1>3, <1>13, VerifyEndDoes, ReqHolds DEF StoreNames
 <2>2. UNCHANGED <<name, tree, good, ver, sealed, building, staged, irec, intended, pubReceipts, metaM>> /\
         (metaR' = metaR \/ metaR' = [metaR EXCEPT ![req.n] = RecordOf(req.s)]) BY <1>1, <1>13, VerifyEndDoes
 <2>3. CASE req.n = n
  <3>1. req.s = s BY <1>2, <2>1, <2>3
  <3>2. metaR'[n] = metaR[n] BY <1>2, <1>3, <2>2, <2>3, <3>1
  <3> QED BY <1>2, <2>2, <3>2, WholeFrame
 <2>4. CASE req.n # n
  <3>1. metaR'[n] = metaR[n] BY <1>3, <2>1, <2>2, <2>4
  <3> QED BY <1>2, <2>2, <3>1, WholeFrame
 <2> QED BY <2>3, <2>4
<1>14. CASE RemoveMeta BY <1>1, <1>2, <1>3, <1>4, <1>5, <1>14, RemoveMetaDoes, ReqHolds, WholeFrame DEF RemovePcs
<1>15. CASE RemoveTree BY <1>1, <1>2, <1>3, <1>4, <1>5, <1>15, RemoveTreeDoes, WholeFrame DEF RemovePcs
<1>16. CASE RemoveReceipt BY <1>1, <1>2, <1>3, <1>4, <1>5, <1>16, RemoveReceiptDoes, WholeFrame DEF RemovePcs
<1>17. CASE \E c \in Stagings : TreeChanges(c)
 <2>1. PICK c \in Stagings : TreeChanges(c) BY <1>17
 <2>2. UNCHANGED <<name, tree, sealed, building, staged, irec, intended, pubReceipts, metaM, metaR>> /\
         ver' = [ver EXCEPT ![c] = @ + 1] /\ disturbed' = disturbed \cup {name[c]} BY <1>1, <2>1, TreeChangesDoes
 <2>3. c # s /\ ver \in [Stagings -> Nat] BY <1>1, <1>2, <2>2 DEF StoreTypes
 <2> QED BY <1>2, <2>2, <2>3, WholeFrame
<1> USE <1>1, <1>2, <1>3, <1>4, <1>5, WholeFrame DEF filesKept
<1>18. CASE StoreReads BY <1>18, ReadsDo
<1>19. CASE PublishDecided BY <1>19, DecidedDoes
<1>20. CASE PublishRehash BY <1>20, RehashDoes
<1>21. CASE PublishR2 BY <1>21, R2Does
<1>22. CASE PublishIntent BY <1>22, IntentDoes
<1>23. CASE CompleteP3 BY <1>23, P3Does
<1>24. CASE CompleteP4 BY <1>24, P4Does
<1>25. CASE CompleteP5 BY <1>25, P5Does
<1>26. CASE AbandonFail BY <1>26, AbandonFailDoes
<1>27. CASE AbandonTree BY <1>27, AbandonTreeDoes
<1>28. CASE AbandonMeta BY <1>28, AbandonMetaDoes
<1>29. CASE CleanStaged BY <1>29, CleanStagedDoes
<1>30. CASE CleanRecord BY <1>30, CleanRecordDoes
<1>31. CASE CleanIntent BY <1>31, CleanIntentDoes
<1>32. CASE Sweep BY <1>32, SweepDoes
<1>33. CASE VerifyBegin BY <1>33, VerifyBeginDoes
<1>34. CASE HelperDies BY <1>34, HelperDiesDoes
<1>35. CASE HarnessOps \/ WsdDies \/ WsdStarts \/ UNCHANGED storeVars \/ \E a \in Stagings : StagingAges(a)
 BY <1>35, DeskSteps
<1> QED
 BY <1>6, <1>7, <1>8, <1>9, <1>10, <1>11, <1>12, <1>13, <1>14, <1>15, <1>16, <1>17, <1>18, <1>19, <1>20, <1>21,
   <1>22, <1>23, <1>24, <1>25, <1>26, <1>27, <1>28, <1>29, <1>30, <1>31, <1>32, <1>33, <1>34, <1>35 DEF StoreNext,
   StoreHelper, StoreWorld

LEMMA PublishedIsWhole ==
  ASSUME StoreTypes, NEW n \in Installs, InstallState(n) = "published"
  PROVE  Whole(n) /\ (\A s \in intended : name[s] # n)
<1>1. IntentsOf(n) = {} BY DEF InstallState
<1>2. PICK s \in pubReceipts : ReceiptsOf(n) = {s} /\ TreeAt(n) = {s} /\ n \in metaM /\ CheckFast(s, metaR[n])
 BY DEF InstallState
<1>3. s \in Stagings /\ name[s] = n /\ tree[s] = "install" BY <1>2 DEF ReceiptsOf, TreeAt, StoreTypes
<1>4. OnlyOf(n, s) BY <1>2 DEF OnlyOf, ReceiptsOf, TreeAt
<1>5. WholeBy(n, s) BY <1>2, <1>3, <1>4 DEF WholeBy, CheckFast
<1> QED BY <1>1, <1>3, <1>5 DEF Whole, IntentsOf

LEMMA WholeIsPublished ==
  ASSUME StoreTypes, NEW n \in Installs, Whole(n), \A s \in intended : name[s] # n
  PROVE  InstallState(n) = "published"
<1>1. PICK s \in Stagings : WholeBy(n, s) BY DEF Whole
<1>2. IntentsOf(n) = {} BY DEF IntentsOf
<1>3. ReceiptsOf(n) = {s} /\ TreeAt(n) = {s} BY <1>1 DEF WholeBy, OnlyOf, ReceiptsOf, TreeAt, StoreTypes
<1>4. NameHeld(n) BY <1>1 DEF NameHeld, WholeBy
<1>5. s \in pubReceipts /\ n \in metaM /\ CheckFast(s, metaR[n]) BY <1>1 DEF WholeBy, CheckFast
<1> QED BY <1>2, <1>3, <1>4, <1>5 DEF InstallState

\* A step under which nothing more is used, published, intended or asked for keeps the uses.
LEMMA UsesFrame ==
  ASSUME StoreInv, StoreNext \/ UNCHANGED storeVars, disturbed \subseteq disturbed', UNCHANGED <<name, storeOp>>,
         \A n \in Installs : n \notin disturbed' /\ UsedNow(n)' =>
              UsedNow(n) \/ (req.do # "remove" /\ Whole(n) /\ (\A s \in intended : name[s] # n)),
         intended' \subseteq intended, pubReceipts' \subseteq pubReceipts \cup intended,
         \A s \in pubReceipts' : s \in pubReceipts \/ name[s] \in disturbed \/ Whole(name[s])',
         \A s \in Stagings : install'[s] = "approved" => install[s] = "approved",
         req' = NoReq \/ (req # NoReq /\ req'.do = req.do /\ req'.n = req.n /\ (req'.s = req.s \/ req.do = "verify")),
         \/ reply' = reply
         \/ /\ reply' # "awaited"
            /\ storeOp.do = "settle" /\ reply' \in {"failed", "conflict"} =>
                  storeOp.s \notin pubReceipts \cup intended \/ name[storeOp.s] \in disturbed
  PROVE  StoreUses'
<1>1. StoreTypes /\ StorePlaces /\ StoreUses BY DEF StoreInv
<1>2. pubReceipts \subseteq Stagings /\ intended \subseteq Stagings /\ name \in [Stagings -> Installs]
 BY <1>1 DEF StoreTypes
<1>3. req.pc \in RemovePcs => req.do = "remove" BY <1>1 DEF StorePlaces
<1>4. ASSUME NEW n \in Installs, n \notin disturbed', UsedNow(n)'
      PROVE  Whole(n)' /\ (\A s \in intended' : name'[s] # n)
 <2>1. (UsedNow(n) \/ req.do # "remove") /\ Whole(n) /\ (\A s \in intended : name[s] # n)
  BY <1>1, <1>4 DEF StoreUses, WholeUses
 <2>2. ~(req.pc \in RemovePcs /\ req.n = n) BY <1>1, <1>3, <1>4, <2>1 DEF StoreUses
 <2>3. PICK s \in Stagings : WholeBy(n, s) BY <2>1 DEF Whole
 <2>4. WholeBy(n, s)' BY <1>4, <2>2, <2>3, WholeKept
 <2> QED BY <2>1, <2>4 DEF Whole
<1>5. ASSUME NEW s \in pubReceipts', install'[s] = "approved", name'[s] \notin disturbed'
      PROVE  Whole(name[s])'
 <2>0. SUFFICES ASSUME s \in pubReceipts PROVE Whole(name[s])' BY <1>5
 <2>1. s \in pubReceipts /\ s \in Stagings /\ install[s] = "approved" /\ name[s] \notin disturbed' /\
         name[s] \in Installs BY <1>2, <1>5, <2>0
 <2>2. Whole(name[s]) BY <1>1, <2>1 DEF StoreUses, WholeUses
 <2>3. ~(req.pc \in RemovePcs /\ req.n = name[s]) BY <1>1, <1>3, <2>1 DEF StoreUses, OwedRow
 <2>4. PICK n \in Installs : n = name[s] BY <2>1
 <2>5. PICK t \in Stagings : WholeBy(n, t) BY <2>2, <2>4 DEF Whole
 <2>6. WholeBy(n, t)' BY <2>1, <2>3, <2>4, <2>5, WholeKept
 <2>7. name'[s] = n BY <2>4
 <2> QED BY <2>6, <2>7 DEF Whole
<1>6. storeOp'.do = "use" /\ req' # NoReq => storeOp'.pc = "list" /\ req'.do = "list" /\ req'.n = storeOp'.n
 BY <1>1 DEF StoreUses
<1>7. req'.do = "remove" => req'.n \in disturbed' \/ ~UsedNow(req.n)' BY <1>1, IdleReq DEF StoreUses, StorePlaces
<1>8. req'.do = "remove" => \A s \in Stagings : OwedRow(s)' => name'[s] \in disturbed'
 BY <1>1, IdleReq DEF StoreUses, OwedRow
<1>9. storeOp'.do = "settle" /\ reply' = "awaited" /\ req' # NoReq =>
          req'.s = storeOp'.s /\ req'.do \in {"recovered", "outcome", "publish", "state"} BY <1>1 DEF StoreUses
<1>10. storeOp'.do = "settle" /\ reply' \in {"failed", "conflict"} =>
          storeOp'.s \notin pubReceipts' \cup intended' \/ name'[storeOp'.s] \in disturbed' BY <1>1 DEF StoreUses
<1>11. req'.do = "remove" => req'.n = req.n BY IdleReq
<1> QED BY <1>4, <1>5, <1>6, <1>7, <1>8, <1>9, <1>10, <1>11 DEF StoreUses, WholeUses

LEMMA UsedSame ==
  ASSUME UNCHANGED <<sel, launched, storeOp>>, reply' = "published" => reply = "published", NEW n, UsedNow(n)'
  PROVE  UsedNow(n)
BY DEF UsedNow, Picked

\* A step of the helper that publishes, intends and answers nothing of note keeps the uses.
LEMMA HelperUses ==
  ASSUME StoreInv, StoreNext \/ UNCHANGED storeVars, deskKept, UNCHANGED name, intended' \subseteq intended,
           pubReceipts' \subseteq pubReceipts,
         req' = NoReq \/ (req # NoReq /\ req'.do = req.do /\ req'.n = req.n /\ (req'.s = req.s \/ req.do = "verify")),
         reply' = reply \/ reply' \in {"ok", "refused", "absent"}
  PROVE  StoreUses'
<1>1. \A n \in Installs : UsedNow(n)' => UsedNow(n) BY UsedSame DEF deskKept
<1> QED BY <1>1, UsesFrame DEF deskKept

\* A step of wsd's under which nothing more is used, and no row that the store has is approved, keeps what is whole.
LEMMA DeskWhole ==
  ASSUME StoreInv, filesKept, disturbed' = disturbed, \A n \in Installs : UsedNow(n)' => UsedNow(n),
    \A s \in Stagings : OwedRow(s)' => OwedRow(s) \/ name[s] \in disturbed
  PROVE  WholeUses'
<1>1. StoreTypes /\ WholeUses BY DEF StoreInv, StoreUses
<1>2. pubReceipts \subseteq Stagings /\ name \in [Stagings -> Installs] BY <1>1 DEF StoreTypes
<1>3. ASSUME NEW n PROVE Whole(n)' = Whole(n) BY DEF Whole, WholeBy, OnlyOf, RecordOf, statx, filesKept
<1>4. \A n \in Installs \ disturbed' : UsedNow(n)' => Whole(n)' /\ (\A s \in intended' : name'[s] # n)
 BY <1>1, <1>3 DEF WholeUses, filesKept
<1>5. ASSUME NEW s \in pubReceipts', install'[s] = "approved", name'[s] \notin disturbed'
      PROVE  Whole(name[s])'
 <2>1. s \in pubReceipts /\ s \in Stagings /\ name'[s] = name[s] /\ name[s] \notin disturbed
  BY <1>2, <1>5 DEF filesKept
 <2>2. OwedRow(s)' BY <1>5 DEF OwedRow
 <2>3. OwedRow(s) BY <2>1, <2>2
 <2>4. Whole(name[s]) BY <1>1, <2>1, <2>3 DEF WholeUses, OwedRow
 <2>5. PICK n : n = name[s] /\ n = name'[s] BY <2>1
 <2> QED BY <1>3, <2>4, <2>5
<1> QED BY <1>4, <1>5 DEF WholeUses

\* ... and where its operation ends or stays, the uses.
LEMMA DeskUses ==
  ASSUME StoreInv, filesKept, disturbed' = disturbed, \A n \in Installs : UsedNow(n)' => UsedNow(n),
    \A s \in Stagings : OwedRow(s)' => OwedRow(s) \/ name[s] \in disturbed,
    UNCHANGED req, storeOp' = NoStoreOp \/ storeOp' = storeOp, reply' = reply \/ reply' \in {"none", "lost"}
  PROVE  StoreUses'
<1>1. StorePlaces /\ StoreUses BY DEF StoreInv
<1>2. WholeUses' BY DeskWhole
<1>3. req.do = "remove" => req.n \in Installs BY <1>1 DEF StorePlaces
<1>4. req'.do = "remove" => req'.n \in disturbed' \/ ~UsedNow(req.n)'
 <2>1. PICK n : n = req.n /\ n = req'.n OBVIOUS
 <2>2. req.do = "remove" => n \in disturbed \/ ~UsedNow(n) BY <1>1, <2>1 DEF StoreUses
 <2>3. req.do = "remove" => n \in disturbed' \/ ~UsedNow(n)' BY <1>3, <2>1, <2>2
 <2> QED BY <2>1, <2>3
<1>5. req'.do = "remove" => \A s \in Stagings : OwedRow(s)' => name'[s] \in disturbed'
 BY <1>1 DEF StoreUses, filesKept
<1>6. /\ storeOp'.do = "use" /\ req' # NoReq => storeOp'.pc = "list" /\ req'.do = "list" /\ req'.n = storeOp'.n
      /\ storeOp'.do = "settle" /\ reply' = "awaited" /\ req' # NoReq =>
          req'.s = storeOp'.s /\ req'.do \in {"recovered", "outcome", "publish", "state"}
      /\ storeOp'.do = "settle" /\ reply' \in {"failed", "conflict"} =>
          storeOp'.s \notin pubReceipts' \cup intended' \/ name'[storeOp'.s] \in disturbed'
 BY <1>1, IdleOp DEF StoreUses, filesKept
<1> QED BY <1>2, <1>4, <1>5, <1>6 DEF StoreUses

\* The row of a staging is owed as before where rows and files are as before.
LEMMA SameUses ==
  ASSUME UNCHANGED <<sel, launched>>, storeOp' = NoStoreOp \/ storeOp' = storeOp, reply' # "published" \/ reply' = reply
  PROVE  \A n \in Installs : UsedNow(n)' => UsedNow(n)
BY IdleOp DEF UsedNow, Picked

LEMMA SameOwed ==
  ASSUME filesKept, \A s \in Stagings : install'[s] = "approved" => install[s] = "approved"
  PROVE  \A s \in Stagings : OwedRow(s)' => OwedRow(s)
BY DEF OwedRow, filesKept

LEMMA QuietUses ==
  ASSUME StoreInv, filesKept, UNCHANGED <<sel, launched, disturbed, req>>, storeOp' = NoStoreOp \/ storeOp' = storeOp,
         reply' = reply \/ reply' \in {"none", "lost"},
         \A s \in Stagings : install'[s] = "approved" => install[s] = "approved"
  PROVE  StoreUses'
<1>1. \A n \in Installs : UsedNow(n)' => UsedNow(n) BY SameUses
<1>2. \A s \in Stagings : OwedRow(s)' => OwedRow(s) BY SameOwed
<1> QED BY <1>1, <1>2, DeskUses

\* A request of wsd's own, made while the helper was idle, keeps the uses unless it removes what is used.
LEMMA AskingUses ==
  ASSUME StoreInv, filesKept, UNCHANGED <<install, sel, launched, disturbed>>, req = NoReq,
    req'.do # "remove" \/ (~UsedNow(req'.n) /\ \A s \in Stagings : install[s] # "approved"),
    storeOp' = storeOp \/ storeOp'.do \in {"install", "use", "remove", "verify"}, reply' = "awaited",
    storeOp'.do = "use" => storeOp'.pc = "list" /\ req'.do = "list" /\ req'.n = storeOp'.n,
    storeOp'.do = "settle" => req'.s = storeOp'.s /\ req'.do \in {"recovered", "outcome", "publish", "state"}
  PROVE  StoreUses'
<1>1. \A n : UsedNow(n)' => UsedNow(n) BY DEF UsedNow, Picked
<1>2. \A s \in Stagings : OwedRow(s)' => OwedRow(s) BY SameOwed
<1>3. WholeUses' BY <1>1, <1>2, DeskWhole
<1>4. req'.do = "remove" => req'.n \in disturbed' \/ ~UsedNow(req.n)'
 <2>1. PICK n : n = req'.n OBVIOUS
 <2>2. req'.do = "remove" => ~UsedNow(n)' BY <1>1, <2>1
 <2> QED BY <2>1, <2>2
<1>5. req'.do = "remove" => \A s \in Stagings : OwedRow(s)' => name'[s] \in disturbed' BY DEF OwedRow
<1> QED BY <1>3, <1>4, <1>5 DEF StoreUses

\* A step of wsd's that goes on with its operation asks nothing of the helper and keeps the uses.
LEMMA WaitingUses ==
  ASSUME StoreInv, filesKept, disturbed' = disturbed, \A n \in Installs : UsedNow(n)' => UsedNow(n),
    \A s \in Stagings : OwedRow(s)' => OwedRow(s) \/ name[s] \in disturbed,
    UNCHANGED req, (storeOp'.do = "settle" /\ reply' = "none") \/ (storeOp'.do = "use" /\ req = NoReq)
  PROVE  StoreUses'
<1>1. StorePlaces /\ StoreUses BY DEF StoreInv
<1>2. WholeUses' BY DeskWhole
<1>3. req.do = "remove" => req.n \in Installs BY <1>1 DEF StorePlaces
<1>4. req'.do = "remove" => req'.n \in disturbed' \/ ~UsedNow(req.n)'
 <2>1. PICK n : n = req.n /\ n = req'.n OBVIOUS
 <2>2. req.do = "remove" => n \in disturbed \/ ~UsedNow(n) BY <1>1, <2>1 DEF StoreUses
 <2>3. req.do = "remove" => n \in disturbed' \/ ~UsedNow(n)' BY <1>3, <2>1, <2>2
 <2> QED BY <2>1, <2>3
<1>5. req'.do = "remove" => \A s \in Stagings : OwedRow(s)' => name'[s] \in disturbed'
 BY <1>1 DEF StoreUses, filesKept
<1> QED BY <1>2, <1>4, <1>5 DEF StoreUses

\* Every step keeps what is used whole.
LEMMA UsesKept ==
  ASSUME StoreInv, StoreNext \/ UNCHANGED storeVars
  PROVE  StoreUses'
<1>1. StoreTypes /\ StorePlaces /\ StoreIntents /\ StoreApproved /\ OwnNames /\ StoreNames /\ StoreUses
 BY DEF StoreInv
<1>2. CASE StoreReads
 <2>1. /\ req.pc \in ReadPcs /\ req' = NoReq /\ filesKept /\ deskKept /\ req.do = req.pc /\ req # NoReq
       /\ reply # "awaited" => reply' = reply
       /\ reply = "awaited" /\ req.pc = "outcome" => reply' = CheckOutcome(req.s)
       /\ reply = "awaited" /\ req.pc \in {"state", "list"} => reply' = InstallState(req.n)
       /\ reply = "awaited" /\ req.pc = "recovered" => reply' = "ok"
  BY <1>1, <1>2, ReadsDo, IdleReq DEF StorePlaces, StoreDos, ReadPcs
 <2>2. InstallState(req.n) \in {"absent", "publishing", "published", "broken"} BY DEF InstallState
 <2>3. ASSUME NEW n \in Installs, UsedNow(n)'
       PROVE  UsedNow(n) \/ (req.do # "remove" /\ Whole(n) /\ (\A s \in intended : name[s] # n))
  <3>1. UsedNow(n) \/ (storeOp.do = "use" /\ storeOp.n = n /\ reply' = "published" /\ reply = "awaited")
   BY <2>1, <2>3 DEF UsedNow, Picked, deskKept
  <3>2. CASE storeOp.do = "use" /\ storeOp.n = n /\ reply' = "published" /\ reply = "awaited"
   <4>1. req.do = "list" /\ req.n = n BY <1>1, <2>1, <3>2 DEF StoreUses
   <4>2. InstallState(n) = "published" BY <2>1, <3>2, <4>1
   <4> QED BY <1>1, <4>1, <4>2, PublishedIsWhole
  <3> QED BY <3>1, <3>2
 <2>4. ASSUME storeOp.do = "settle", reply = "awaited", reply' \in {"failed", "conflict"}
       PROVE  storeOp.s \notin pubReceipts \cup intended \/ name[storeOp.s] \in disturbed
  <3>1. req.pc = "outcome" /\ reply' = CheckOutcome(req.s) /\ req.s = storeOp.s
   BY <1>1, <2>1, <2>2, <2>4 DEF StoreUses, ReadPcs
  <3>2. intended = {} /\ install[req.s] = "approved" /\ req.s \in Stagings /\ name[req.s] \in Installs
   BY <1>1, <2>4, <3>1 DEF StoreIntents, MidPcs, StoreApproved, StoreTypes
  <3>3. CASE req.s \in pubReceipts /\ name[req.s] \notin disturbed
   <4>1. Whole(name[req.s]) BY <1>1, <3>2, <3>3 DEF StoreUses, WholeUses
   <4>2. InstallState(name[req.s]) = "published" BY <1>1, <3>2, <4>1, WholeIsPublished
   <4>3. CheckOutcome(req.s) = "published" BY <3>3, <4>2 DEF CheckOutcome
   <4> QED BY <2>4, <3>1, <4>3
  <3> QED BY <3>1, <3>2, <3>3
 <2>5. \/ reply' = reply
       \/ /\ reply' # "awaited"
          /\ storeOp.do = "settle" /\ reply' \in {"failed", "conflict"} =>
                 storeOp.s \notin pubReceipts \cup intended \/ name[storeOp.s] \in disturbed
  BY <2>1, <2>2, <2>4, AnswerTypes DEF ReadPcs, Answers
 <2> QED BY <1>1, <2>1, <2>3, <2>5, UsesFrame DEF filesKept, deskKept
<1>3. CASE PublishFail
 <2>1. /\ req.pc \in {"conflict", "discard"} /\ req' = NoReq /\ deskKept
       /\ UNCHANGED <<name, good, ver, sealed, building, irec, intended, pubReceipts, metaM, metaR>> /\ req # NoReq
       /\ reply' = reply \/ (reply = "awaited" /\ reply' \in {"conflict", "refused"})
  BY <1>1, <1>3, FailDoes, IdleReq
 <2>2. ASSUME storeOp.do = "settle", reply = "awaited"
       PROVE  storeOp.s \notin pubReceipts \cup intended
  <3>1. req.s = storeOp.s BY <1>1, <2>1, <2>2 DEF StoreUses
  <3>2. intended = {} /\ req.s \notin pubReceipts BY <1>1, <2>1 DEF StoreIntents, MidPcs, StoreNames
  <3> QED BY <3>1, <3>2
 <2>3. \A n \in Installs : UsedNow(n)' => UsedNow(n) BY <2>1, UsedSame DEF deskKept
 <2> QED BY <2>1, <2>2, <2>3, UsesFrame DEF deskKept
<1>4. CASE PublishIntent
 <2>1. /\ req.pc = "intent" /\ Moves("rename") /\ deskKept /\ reply' = reply
       /\ UNCHANGED <<name, tree, good, ver, sealed, building, staged, irec, pubReceipts, metaM, metaR>>
       /\ intended' = intended \cup {req.s} BY <1>1, <1>4, IntentDoes
 <2>2. /\ req.s \in Stagings /\ req.do = "publish" /\ Untaken(name[req.s]) /\ req # NoReq /\ reply \notin Answers
       /\ req'.do = req.do /\ req'.s = req.s /\ req'.n = req.n
  BY <1>1, <2>1, IdleReq, ReqHolds DEF StorePlaces, PrePcs, StoreNames, Moves
 <2>3. ASSUME NEW n \in Installs, n \notin disturbed, Whole(n)
       PROVE  Whole(n)' /\ name[req.s] # n
  <3>1. PICK s \in Stagings : WholeBy(n, s) BY <2>3 DEF Whole
  <3>2. WholeBy(n, s)' BY <2>1, <2>3, <3>1, WholeKept DEF deskKept, RemovePcs
  <3> QED BY <2>2, <3>1, <3>2 DEF Whole, WholeBy, Untaken
 <2>4. ASSUME NEW n, UsedNow(n)' PROVE UsedNow(n) BY <2>1, <2>4, UsedSame DEF deskKept
 <2>5. \A n \in Installs \ disturbed' : UsedNow(n)' => Whole(n)' /\ (\A s \in intended' : name'[s] # n)
  BY <1>1, <2>1, <2>3, <2>4 DEF StoreUses, WholeUses, deskKept
 <2>6. ASSUME NEW s \in pubReceipts', install'[s] = "approved", name'[s] \notin disturbed'
       PROVE  Whole(name[s])'
  <3>1. s \in pubReceipts /\ install[s] = "approved" /\ name[s] \notin disturbed /\ name[s] \in Installs
   BY <1>1, <2>1, <2>6 DEF deskKept, StoreTypes
  <3>2. Whole(name[s]) BY <1>1, <3>1 DEF StoreUses, WholeUses
  <3>3. PICK n \in Installs : n = name[s] /\ n = name'[s] BY <2>1, <3>1
  <3> QED BY <2>3, <3>1, <3>2, <3>3
 <2>7. WholeUses' BY <2>5, <2>6 DEF WholeUses
 <2> QED BY <1>1, <2>1, <2>2, <2>7 DEF StoreUses, deskKept, Answers
<1>5. CASE CompleteP5
 <2>1. /\ req.pc = "P5" /\ Moves("unstage") /\ deskKept /\ reply' = reply
       /\ UNCHANGED <<name, tree, good, ver, sealed, building, staged, irec, intended, metaM, metaR>>
       /\ pubReceipts' = pubReceipts \cup {req.at} BY <1>1, <1>5, P5Does
 <2>2. PICK at \in Stagings : at = req.at /\ at \in intended BY <1>1, <2>1, ReqHolds DEF StoreIntents, MidPcs
 <2>3. PICK n \in Installs : n = name[at] BY <1>1 DEF StoreTypes
 <2>4. n \in disturbed \/ WholeBy(n, at)'
  <3>1. SUFFICES ASSUME n \notin disturbed PROVE WholeBy(n, at)' OBVIOUS
  <3>2. tree[at] = "install" /\ sealed[at] /\ irec[at] = RecordOf(at) /\ n \in metaM /\ metaR[n] = irec[at]
   BY <1>1, <2>1, <2>2, <2>3, <3>1 DEF StoreNames
  <3>3. RecordOf(at)' = RecordOf(at) BY <2>1 DEF RecordOf, statx
  <3>4. OnlyOf(n, at) BY <1>1, <2>2, <2>3 DEF OwnNames
  <3>5. OnlyOf(n, at)' BY <2>1, <2>2, <3>4 DEF OnlyOf
  <3> QED BY <2>1, <2>2, <2>3, <3>2, <3>3, <3>5 DEF WholeBy
 <2>5. ASSUME NEW s \in pubReceipts'
       PROVE  s \in pubReceipts \/ name[s] \in disturbed \/ Whole(name[s])'
  <3>1. CASE s = at
   <4>1. name'[s] = n /\ name[s] = n BY <2>1, <2>3, <3>1
   <4> QED BY <2>4, <4>1 DEF Whole
  <3> QED BY <2>1, <2>2, <3>1
 <2>6. \A m \in Installs : UsedNow(m)' => UsedNow(m) BY <2>1, UsedSame DEF deskKept
 <2>7. req # NoReq /\ req'.do = req.do /\ req'.n = req.n /\ req'.s = req.s BY <2>1, IdleReq DEF Moves
 <2> QED BY <2>1, <2>2, <2>5, <2>6, <2>7, UsesFrame DEF deskKept
<1>6. CASE RecoverOne BY <1>1, <1>6, RecoverDoes, IdleReq, HelperUses DEF RecoveryOf
<1>7. CASE VerifyBegin
 <2>1. filesKept /\ deskKept /\ req.pc = "verify" /\ req.do = "verify" /\ req # NoReq
  BY <1>1, <1>7, VerifyBeginDoes, IdleReq DEF StorePlaces, StoreDos
 <2>2. req' = NoReq \/ (req'.do = req.do /\ req'.n = req.n) BY <1>1, <1>7, VerifyBeginDoes
 <2>3. reply' = reply \/ reply' \in {"ok", "refused", "absent"} BY <1>1, <1>7, VerifyBeginDoes
 <2> QED BY <2>1, <2>2, <2>3, HelperUses DEF filesKept
<1>8. CASE \E s \in Stagings : TreeChanges(s)
 <2>1. PICK c \in Stagings : TreeChanges(c) BY <1>8
 <2>2. /\ UNCHANGED <<req, reply, install, sel, launched, storeOp>>
       /\ UNCHANGED <<name, tree, sealed, building, staged, irec, intended, pubReceipts, metaM, metaR>>
       /\ disturbed \subseteq disturbed' BY <1>1, <2>1, TreeChangesDoes
 <2>3. \A n \in Installs : UsedNow(n)' => UsedNow(n) BY <2>2, UsedSame
 <2> QED BY <2>2, <2>3, UsesFrame
<1>9. CASE GiveUp BY <1>1, <1>9, GiveUpDoes, QuietUses DEF deskKept
<1>10. CASE InstallStaged BY <1>1, <1>10, InstallStagedDoes, QuietUses DEF StoreTypes
<1>11. CASE SettleAsk
 <2>1. /\ storeOp.do = "settle" /\ filesKept /\ deskKept
       /\ \E d \in {"recovered", "outcome", "publish", "state"} : Starts(d, storeOp.s, storeOp.n)
  BY <1>1, <1>11, SettleAskDoes
 <2>2. /\ req'.s = storeOp.s /\ req'.do \in {"recovered", "outcome", "publish", "state"} /\ req = NoReq
       /\ reply' = "awaited" BY <2>1 DEF Starts
 <2> QED BY <2>1, <2>2, AskingUses DEF deskKept
<1>12. CASE SettleAnswer
 <2>1. /\ storeOp.do = "settle" /\ reply' = "none" /\ UNCHANGED req /\ filesKept
       /\ UNCHANGED <<sel, launched, disturbed>>
       /\ \A s \in Stagings : install'[s] = "approved" => install[s] = "approved"
       /\ storeOp' = NoStoreOp \/ storeOp'.do = "settle" BY <1>1, <1>12, SettleAnswerDoes DEF OpIs, StoreTypes
 <2>2. \A n \in Installs : UsedNow(n)' => UsedNow(n) BY <2>1, IdleOp DEF UsedNow, Picked
 <2>3. \A s \in Stagings : OwedRow(s)' => OwedRow(s) BY <2>1, SameOwed
 <2>4. CASE storeOp' = NoStoreOp BY <2>1, <2>2, <2>3, <2>4, DeskUses
 <2>5. CASE storeOp'.do = "settle" BY <1>1, <2>1, <2>2, <2>3, <2>5, WaitingUses
 <2> QED BY <2>1, <2>4, <2>5
<1>13. CASE UseSelect
 <2>1. /\ storeOp.do = "use" /\ storeOp.pc = "list" /\ reply' = "none" /\ UNCHANGED req /\ filesKept
       /\ UNCHANGED <<install, sel, launched, disturbed>>
       /\ storeOp' = NoStoreOp \/ (reply = "published" /\ OpIs("use", storeOp.s, storeOp.n, "write"))
  BY <1>1, <1>13, UseSelectDoes
 <2>2. \A n \in Installs : UsedNow(n)' => UsedNow(n) BY <2>1, IdleOp DEF UsedNow, Picked, OpIs
 <2>3. \A s \in Stagings : OwedRow(s)' => OwedRow(s) BY <2>1, SameOwed
 <2>4. CASE storeOp' = NoStoreOp BY <2>1, <2>2, <2>3, <2>4, DeskUses
 <2>5. CASE reply = "published" /\ OpIs("use", storeOp.s, storeOp.n, "write")
  <3>1. req = NoReq BY <1>1, <2>5 DEF StorePlaces, Answers
  <3> QED BY <2>1, <2>2, <2>3, <2>5, <3>1, WaitingUses DEF OpIs
 <2> QED BY <2>1, <2>4, <2>5
<1>14. CASE UseWrite
 <2>1. /\ storeOp.n \in Installs /\ storeOp.do = "use" /\ storeOp.pc = "write"
       /\ storeOp'.do = "use" /\ storeOp'.pc = "close" /\ storeOp'.n = storeOp.n
       /\ UNCHANGED <<req, reply, install, launched, disturbed>> /\ filesKept
       /\ \A i \in 1 .. Len(sel') : i <= 2 => sel'[i] = storeOp.n \/ \E j \in 1 .. Len(sel) : j <= 2 /\
            sel'[i] = sel[j] BY <1>1, <1>14, UseWriteDoes DEF OpIs
 <2>2. req = NoReq BY <1>1, <2>1 DEF StoreUses
 <2>3. ASSUME NEW n \in Installs, UsedNow(n)' PROVE UsedNow(n)
  <3>1. n \in launched \/ (\E i \in 1 .. Len(sel') : i <= 2 /\ sel'[i] = n) BY <2>1, <2>3 DEF UsedNow, Picked
  <3>2. n \in launched \/ n = storeOp.n \/ (\E j \in 1 .. Len(sel) : j <= 2 /\ sel[j] = n) BY <2>1, <3>1
  <3> QED BY <2>1, <3>2 DEF UsedNow, Picked
 <2>4. \A s \in Stagings : OwedRow(s)' => OwedRow(s) BY <2>1, SameOwed
 <2> QED BY <2>1, <2>2, <2>3, <2>4, WaitingUses
<1>15. CASE UseClose BY <1>1, <1>15, UseCloseDoes, QuietUses DEF deskKept
<1>16. CASE LaunchPinned
 <2>1. /\ UNCHANGED <<req, reply, install, sel, storeOp, disturbed>> /\ filesKept
       /\ launched' \subseteq launched \cup {sel[1]} /\ 1 \in 1 .. Len(sel) BY <1>1, <1>16, LaunchPinnedDoes
 <2>2. \A n \in Installs : UsedNow(n)' => UsedNow(n) BY <2>1 DEF UsedNow, Picked
 <2>3. \A s \in Stagings : OwedRow(s)' => OwedRow(s) BY <2>1, SameOwed
 <2> QED BY <2>1, <2>2, <2>3, DeskUses
<1>17. CASE RemoveEnd \/ VerifyDone \/ WsdDies BY <1>1, <1>17, OthersEndDo, QuietUses DEF deskKept
<1>18. CASE PruneList \/ UNCHANGED storeVars \/ \E s \in Stagings : StagingAges(s)
 BY <1>1, <1>18, IdlesDo, QuietUses DEF deskKept
<1>19. CASE \E s \in Stagings : InstallStage(s)
 <2>1. /\ filesKept /\ UNCHANGED <<install, sel, launched, disturbed>> /\ req = NoReq /\ reply' = "awaited"
       /\ req'.do = "stage" /\ storeOp'.do = "install" BY <1>1, <1>19, InstallStageDoes DEF Starts, OpIs
 <2> QED BY <2>1, AskingUses
<1>20. CASE \E s \in Stagings : AskApproval(s) BY <1>1, <1>20, AskDoes, QuietUses DEF StoreTypes
<1>21. CASE \E s \in Stagings : DecideInstall(s) BY <1>1, <1>21, DecideDoes, QuietUses DEF deskKept
<1>22. CASE \E s \in Stagings : AdvanceInstall(s)
 <2>1. PICK s \in Stagings : AdvanceInstall(s) BY <1>22
 <2>2. /\ UNCHANGED <<req, reply, sel, launched, disturbed>> /\ filesKept /\ reply = "none" /\ storeOp = NoStoreOp
       /\ storeOp' = storeOp \/ storeOp'.do = "settle"
       /\ \/ install[s] = "posted" /\ install' = [install EXCEPT ![s] = "approved"]
          \/ install' = install
          \/ \E x \in {"expired", "denied", "failed"} : install' = [install EXCEPT ![s] = x]
  BY <1>1, <2>1, AdvanceDoes DEF OpIs
 <2>3. \A n \in Installs : UsedNow(n)' => UsedNow(n) BY <2>2, IdleOp DEF UsedNow, Picked
 <2>4. ASSUME NEW t \in Stagings, OwedRow(t)'
       PROVE  OwedRow(t) \/ name[t] \in disturbed
  <3>1. install \in [Stagings -> InstallRows] BY <1>1 DEF StoreTypes
  <3>2. install'[t] = "approved" /\ t \in pubReceipts \cup intended BY <2>2, <2>4 DEF OwedRow, filesKept
  <3>3. install[t] = "approved" \/ (t = s /\ install[t] = "posted") BY <2>2, <3>1, <3>2
  <3>4. install[t] \in {"approved", "published"} \/ name[t] \in disturbed BY <1>1, <3>2 DEF StoreApproved
  <3> QED BY <3>2, <3>3, <3>4 DEF OwedRow
 <2>5. CASE storeOp' = storeOp BY <2>2, <2>3, <2>4, <2>5, DeskUses
 <2>6. CASE storeOp'.do = "settle" BY <2>2, <2>3, <2>4, <2>6, WaitingUses
 <2> QED BY <2>2, <2>5, <2>6
<1>23. CASE \E n \in Installs : UseBegin(n)
 <2>1. /\ filesKept /\ UNCHANGED <<install, sel, launched, disturbed>> /\ req = NoReq /\ reply' = "awaited"
       /\ req'.do = "list" /\ storeOp'.do = "use" /\ storeOp'.pc = "list" /\ req'.n = storeOp'.n
  BY <1>1, <1>23, UseBeginDoes DEF Starts, OpIs
 <2> QED BY <2>1, AskingUses
<1>24. CASE \E n \in Installs : PinnedEnds(n)
 <2>1. UNCHANGED <<req, reply, install, sel, storeOp, disturbed>> /\ filesKept /\ launched' \subseteq launched
  BY <1>1, <1>24, PinnedEndsDoes
 <2>2. \A n \in Installs : UsedNow(n)' => UsedNow(n) BY <2>1 DEF UsedNow, Picked
 <2>3. \A s \in Stagings : OwedRow(s)' => OwedRow(s) BY <2>1, SameOwed
 <2> QED BY <2>1, <2>2, <2>3, DeskUses
<1>25. CASE \E n \in Installs : RemoveBegin(n)
 <2>1. PICK n \in Installs : RemoveBegin(n) BY <1>25
 <2>2. /\ filesKept /\ UNCHANGED <<install, sel, launched, disturbed>> /\ req = NoReq /\ reply' = "awaited"
       /\ req'.do = "remove" /\ req'.n = n /\ storeOp'.do = "remove" /\ storeOp = NoStoreOp /\ ~InUse(n)
  BY <1>1, <2>1, RemoveBeginDoes DEF Starts, OpIs
 <2>3. ~UsedNow(n) /\ \A s \in Stagings : install[s] # "approved" BY <2>2, IdleOp DEF InUse, UsedNow, Picked
 <2> QED BY <2>2, <2>3, AskingUses
<1>26. CASE \E n \in Installs : VerifyOp(n)
 <2>1. /\ filesKept /\ UNCHANGED <<install, sel, launched, disturbed>> /\ req = NoReq /\ reply' = "awaited"
       /\ req'.do = "verify" /\ storeOp'.do = "verify" BY <1>1, <1>26, VerifyOpDoes DEF Starts, OpIs
 <2> QED BY <2>1, AskingUses
<1>27. CASE WsdStarts BY <1>1, <1>27, WsdStartsDoes, QuietUses DEF deskKept
<1> USE <1>1, IdleReq, HelperUses DEF Moves, filesKept
<1>28. CASE PublishDecided BY <1>28, DecidedDoes
<1>29. CASE PublishBegin BY <1>29, BeginDoes
<1>30. CASE PublishRehash BY <1>30, RehashDoes
<1>31. CASE PublishR2 BY <1>31, R2Does
<1>32. CASE PublishRename BY <1>32, RenameDoes
<1>33. CASE PublishSeal BY <1>33, SealDoes
<1>34. CASE CompleteP3 BY <1>34, P3Does
<1>35. CASE CompleteP4 BY <1>35, P4Does
<1>36. CASE AbandonFail BY <1>36, AbandonFailDoes
<1>37. CASE AbandonTree BY <1>37, AbandonTreeDoes
<1>38. CASE AbandonMeta BY <1>38, AbandonMetaDoes
<1>39. CASE CleanStaged BY <1>39, CleanStagedDoes
<1>40. CASE CleanRecord BY <1>40, CleanRecordDoes
<1>41. CASE CleanIntent BY <1>41, CleanIntentDoes
<1>42. CASE Sweep BY <1>42, SweepDoes
<1>43. CASE \E f \in StagingFlaws : StageBegin(f) BY <1>43, StageBeginDoes
<1>44. CASE \E f \in StagingFlaws : \E s \in Stagings : StageEnd(s, f) BY <1>44, StageEndDoes
<1>45. CASE VerifyEnd BY <1>45, VerifyEndDoes
<1>46. CASE RemoveMeta BY <1>46, RemoveMetaDoes
<1>47. CASE RemoveTree BY <1>47, RemoveTreeDoes
<1>48. CASE RemoveReceipt BY <1>48, RemoveReceiptDoes
<1>49. CASE HelperDies BY <1>49, HelperDiesDoes
<1> QED
 BY <1>2, <1>3, <1>4, <1>5, <1>6, <1>7, <1>8, <1>9, <1>10, <1>11, <1>12, <1>13, <1>14, <1>15, <1>16, <1>17, <1>18,
   <1>19, <1>20, <1>21, <1>22, <1>23, <1>24, <1>25, <1>26, <1>27, <1>28, <1>29, <1>30, <1>31, <1>32, <1>33, <1>34,
   <1>35, <1>36, <1>37, <1>38, <1>39, <1>40, <1>41, <1>42, <1>43, <1>44, <1>45, <1>46, <1>47, <1>48, <1>49
   DEF StoreNext, StoreHelper, HarnessOps, StoreWorld

------------------------------
(* The invariant of the store. *)

LEMMA StoreBegins == StoreInit => StoreInv
<1> SUFFICES ASSUME StoreInit PROVE StoreInv OBVIOUS
<1>1. /\ name \in [Stagings -> Installs] /\ tree = [s \in Stagings |-> "none"] /\ good = [s \in Stagings |-> TRUE]
      /\ ver = [s \in Stagings |-> 0] /\ sealed = [s \in Stagings |-> FALSE]
      /\ building = {} /\ staged = {} /\ irec = [s \in Stagings |-> NoRec] /\ intended = {}
      /\ pubReceipts = {} /\ metaM = {} /\ metaR = [n \in Installs |-> NoRec] /\ begun = {}
      /\ req = NoReq /\ reply = "none" /\ install = [s \in Stagings |-> "none"]
      /\ decided = [s \in Stagings |-> "none"] /\ sel = <<>> /\ launched = {} /\ storeOp = NoStoreOp /\ disturbed = {}
 BY DEF StoreInit
<1>2. NoRec \in StoreRecs /\ "none" \in InstallRows BY DEF NoRec, NoOne, StoreRecs, InstallRows
<1>3. StoreTypes
 <2>1. /\ tree \in [Stagings -> {"none", "staging", "install"}] /\ good \in [Stagings -> BOOLEAN]
       /\ ver \in [Stagings -> Nat] /\ sealed \in [Stagings -> BOOLEAN] /\ irec \in [Stagings -> StoreRecs]
       /\ metaR \in [Installs -> StoreRecs] /\ install \in [Stagings -> InstallRows]
       /\ decided \in [Stagings -> {"none", "approved", "denied"}] BY <1>1, <1>2
 <2>2. req \in StoreReqs /\ storeOp \in StoreOps /\ sel \in Seq(Installs) BY <1>1, IdleReq, IdleOp
 <2> QED BY <1>1, <2>1, <2>2 DEF StoreTypes
<1>4. StorePlaces BY <1>1, IdleReq, IdleOp DEF StorePlaces, StoreDos, ReadPcs, PrePcs, MidPcs, RemovePcs, Answers
<1>5. StoreIntents BY <1>1, IdleReq DEF StoreIntents, MidPcs
<1>6. StoreRecords BY <1>1, IdleReq DEF StoreRecords, RecGood
<1>7. StoreApproved /\ StoreFresh BY <1>1, IdleReq, IdleOp DEF StoreApproved, StoreFresh, PrePcs
<1>8. OwnNames /\ StoreNames BY <1>1, IdleReq DEF OwnNames, StoreNames, PrePcs
<1>9. \A n : ~UsedNow(n)
 <2>1. Len(sel) = 0 BY <1>1
 <2>2. 1 .. Len(sel) = {} BY <2>1
 <2> QED BY <1>1, <2>2, IdleOp DEF UsedNow, Picked
<1>10. StoreUses BY <1>1, <1>9, IdleReq, IdleOp DEF StoreUses, WholeUses
<1> QED BY <1>3, <1>4, <1>5, <1>6, <1>7, <1>8, <1>10 DEF StoreInv

LEMMA StoreInvKept == StoreInv /\ [StoreNext]_storeVars => StoreInv'
BY TypesKept, PlacesKept, IntentsKept, RecordsKept, ApprovedKept, FreshKept, OwnNamesKept, NamesKept,
  UsesKept DEF StoreInv

LEMMA StoreInvSays == StoreInv => PublishedIsApproved /\ EndedUnpublished /\ InUseStays
<1> SUFFICES ASSUME StoreInv PROVE PublishedIsApproved /\ EndedUnpublished /\ InUseStays OBVIOUS
<1>1. StoreTypes /\ StoreRecords /\ StoreApproved /\ WholeUses BY DEF StoreInv, StoreUses
<1>2. ASSUME NEW n \in Installs, InstallState(n) = "published", NEW s \in ReceiptsOf(n)
      PROVE  good[s] /\ decided[s] = "approved"
 <2>1. s \in pubReceipts /\ s \in Stagings /\ name[s] = n BY <1>1 DEF ReceiptsOf, StoreTypes
 <2>2. PICK t \in Stagings : WholeBy(n, t) BY <1>1, <1>2, PublishedIsWhole DEF Whole
 <2>3. t = s /\ metaR[n] = RecordOf(s) BY <2>1, <2>2 DEF WholeBy, OnlyOf
 <2>4. RecordOf(s) # NoRec /\ RecordOf(s).root = s /\ RecordOf(s).ver = ver[s]
  BY <2>1, HarnessBounds DEF RecordOf, statx, NoRec, NoOne
 <2>5. good[s] BY <1>1, <2>3, <2>4 DEF StoreRecords, RecGood
 <2> QED BY <1>1, <2>1, <2>5 DEF StoreApproved
<1>3. PublishedIsApproved BY <1>2 DEF PublishedIsApproved
<1>4. EndedUnpublished BY <1>1 DEF EndedUnpublished, StoreApproved
<1>5. InUseStays BY <1>1, WholeIsPublished DEF InUseStays, WholeUses, UsedNow
<1> QED BY <1>3, <1>4, <1>5

\* What the store calls published is the approved tree, an ended row isn't published later, and what is used
\* stays published, whatever the stagings and their names (store_core.py, HarnessOps).
THEOREM StoreSound == StoreSpec => [](PublishedIsApproved /\ EndedUnpublished /\ InUseStays)
<1> QED BY StoreBegins, StoreInvKept, StoreInvSays, PTL DEF StoreSpec

------------------------------
(* The store in the specification that TLC checks. *)

StoresInv == part = "store" => StoreInv

LEMMA StoresInvariant == PartsSpec => []StoresInv
<1>1. PartsInit => StoresInv BY StoreBegins DEF PartsInit, StoresInv
<1>2. StoresInv /\ [PartsNext]_<<part, sandboxVars, storeVars, actionVars>> => StoresInv'
 <2>1. SUFFICES ASSUME StoresInv, [PartsNext]_<<part, sandboxVars, storeVars, actionVars>>, part' = "store"
                PROVE  StoreInv' BY DEF StoresInv
 <2>2. part = "store" /\ [StoreNext]_storeVars BY <2>1 DEF PartsNext
 <2> QED BY <2>1, <2>2, StoreInvKept DEF StoresInv
<1> QED BY <1>1, <1>2, PTL DEF PartsSpec

\* What the store calls published is, byte for byte, the tree that the operator approved, and a row that wsd ended
\* without a publication is never published later, unless its tree was changed behind the store: through any crash
\* of the helper between two of its writes, any lost answer and any restart of wsd (_publish_tree's records R1
\* and R2, _recover_one, HarnessOps._settle).
THEOREM InstallsAlwaysApproved == PartsSpec => []StorePublishes
<1>1. StoresInv => StorePublishes BY StoreInvSays DEF StoresInv, StorePublishes
<1> QED BY <1>1, StoresInvariant, PTL

\* An install that a launch is pinned to, or that is selected or next to roll back to, stays published unless its
\* tree was changed behind the store, whatever is removed, recovered or published meanwhile (HarnessOps.in_use,
\* _remove_install, _abandon).
THEOREM InstallsInUseStay == PartsSpec => []StoreKeepsInUse
<1>1. StoresInv => StoreKeepsInUse BY StoreInvSays DEF StoresInv, StoreKeepsInUse
<1> QED BY <1>1, StoresInvariant, PTL
==============================
