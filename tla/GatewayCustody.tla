------------------------------ MODULE GatewayCustody ------------------------------
(***************************************************************************)
(* Gateway custody (admind/gateway_custody.py): a proposal is registered   *)
(* with one notice, an operator's command in the notice's thread consents  *)
(* or refuses, and a consented proposal is given permits, one generation   *)
(* after the other, that are retained in the store before their files.     *)
(*                                                                         *)
(* One command and one permit call may run at the same time, each in its   *)
(* own thread, as the service's own lock and row comparison allow for; the *)
(* daemon's custody lock is a second fence that is not relied on here.     *)
(* The state "terminal" is never written by the code.  The queue that      *)
(* consumes permits is external.                                           *)
(***************************************************************************)
EXTENDS Integers, FiniteSets

CONSTANTS
    Resolutions,      \* hashes of the proposals
    CommandIds,       \* account, group and message id of a command
    MaxPermits,       \* permit generations of one proposal (3 in the code)
    MaxCommands,      \* commands and conflicts that fit a bundle (8 KiB in the code)
    CustodyFaults,    \* the disturbances allowed
    MaxCustodyFaults  \* bound: how many of them

ASSUME CustodyBounds ==
    MaxPermits \in Nat \ {0} /\ MaxCommands \in Nat \ {0} /\ MaxCustodyFaults \in Nat

VARIABLES
    bundle,     \* gateway_custody_proposals: state and bundle of each proposal
    delivery,   \* outbox: the status of each proposal's notice
    cfiles,     \* generations/<hash>/, its tombstones, and permits/<hash>.json
    consumer,   \* the queue's files per proposal (external)
    authorityOf,\* what custody_authority observes (0: no authority)
    cmdCall,    \* Service.message in flight
    issCall,    \* Service.issue_permit in flight
    refusedAt,  \* history: permits retained when a contrary command was taken (-1: none)
    cfaults     \* disturbances so far

custodyVars == <<bundle, delivery, cfiles, consumer, authorityOf, cmdCall, issCall, refusedAt, cfaults>>

NoCommand == [act |-> "none", out |-> "none"]
NoBundle == [state |-> "none", policy |-> 0, commands |-> [c \in CommandIds |-> NoCommand],
             conflicts |-> {}, permits |-> 0]
NoCmdCall == [at |-> "idle", p |-> 0, mid |-> 0, act |-> "none", mapped |-> FALSE, seen |-> NoBundle, policy |-> 0]
NoIssCall == [at |-> "idle", p |-> 0, gen |-> 0, complete |-> FALSE, seen |-> NoBundle, policy |-> 0]

CustodyInit ==
    /\ bundle = [p \in Resolutions |-> NoBundle]
    /\ delivery = [p \in Resolutions |-> "none"]
    /\ cfiles = [p \in Resolutions |-> [gens |-> {}, tombs |-> {}, cur |-> 0]]
    /\ consumer = [p \in Resolutions |-> [used |-> {}, certs |-> {}]]
    /\ authorityOf = 1
    /\ cmdCall = NoCmdCall
    /\ issCall = NoIssCall
    /\ refusedAt = [p \in Resolutions |-> -1]
    /\ cfaults = 0

CustodyFault(kind) == kind \in CustodyFaults /\ cfaults < MaxCustodyFaults /\ cfaults' = cfaults + 1

------------------------------
(* Registration *)
\* What is wrong with a registration, if anything.
CustodyFlaws == {"none", "grammar", "fields", "observation", "notice", "collision", "room", "rate"}
GrammarOk(flaw) == flaw # "grammar"          \* closed JSON grammar and canonical encoding
FieldsOk(flaw) == flaw # "fields"            \* uuids, hashes, generation, exact 24 h window
ObservationOk(flaw) == flaw # "observation"  \* the source reads back this very descriptor
NoticeOk(flaw) == flaw # "notice"            \* the whole notice fits and redacts to itself
RoomOk(flaw) == flaw \notin {"collision", "room", "rate"}  \* token, rows, bytes, notices per hour

\* Row and notice in one transaction; a repeated registration changes nothing,
\* and a notice of unknown delivery is never sent again.
RegisterResolution(p, flaw) ==
    /\ bundle[p].state = "none"
    /\ GrammarOk(flaw) /\ FieldsOk(flaw) /\ ObservationOk(flaw) /\ NoticeOk(flaw) /\ RoomOk(flaw)
    /\ bundle' = [bundle EXCEPT ![p].state = "awaiting-consent"]
    /\ delivery' = [delivery EXCEPT ![p] = "pending"]
    /\ UNCHANGED <<cfiles, consumer, authorityOf, cmdCall, issCall, refusedAt, cfaults>>

\* The outbox delivers the notice, or never learns whether it did.
NoticeDelivered(p, how) ==
    /\ delivery[p] = "pending"
    /\ how = "sent" \/ (how = "unknown" /\ CustodyFault("notice"))
    /\ how = "sent" => UNCHANGED cfaults
    /\ delivery' = [delivery EXCEPT ![p] = how]
    /\ UNCHANGED <<bundle, cfiles, consumer, authorityOf, cmdCall, issCall, refusedAt>>

------------------------------
(* Commands: the row is read, authority is read twice around the source *)
(* observation, and one transaction retains the command.                *)
Acts == {"settle", "decline", "revoke"}

\* The custody loop hands over one command at a time.
CommandIdle == cmdCall.at = "idle"

\* An exact duplicate is answered from the row and goes no further.
CommandReads(p, mid, act, mapped) ==
    /\ CommandIdle
    /\ bundle[p].state # "none"
    /\ bundle[p].commands[mid].act # act
    /\ authorityOf # 0
    /\ cmdCall' = [at |-> "observe", p |-> p, mid |-> mid, act |-> act, mapped |-> mapped,
                   seen |-> bundle[p], policy |-> authorityOf]
    /\ UNCHANGED <<bundle, delivery, cfiles, consumer, authorityOf, issCall, refusedAt, cfaults>>

\* Only a settle needs the source to confirm its proposal.
CommandChecks(sourceOk) ==
    /\ cmdCall.at = "observe"
    /\ cmdCall.act # "settle" => sourceOk
    /\ cmdCall' = IF sourceOk /\ authorityOf = cmdCall.policy
                  THEN [cmdCall EXCEPT !.at = "retain"] ELSE NoCmdCall
    /\ UNCHANGED <<bundle, delivery, cfiles, consumer, authorityOf, issCall, refusedAt, cfaults>>

PublicationFree == issCall.at \notin {"tomb", "generation", "pointer"}

\* The state after the command, and what the sender is told.
After(row, call) ==
    LET old == row.commands[call.mid]
        conflict == old.act # "none" /\ old.act # call.act
    IN CASE conflict -> [state |-> "revoked", out |-> "revoked", conflict |-> TRUE]
         [] ~conflict /\ row.state \in {"awaiting-consent", "consented"} /\ call.act = "settle"
              -> [state |-> "consented", out |-> "consented", conflict |-> FALSE]
         [] ~conflict /\ row.state \in {"awaiting-consent", "consented"} /\ call.act # "settle"
              -> [state |-> "revoked", out |-> "revoked", conflict |-> FALSE]
         [] OTHER -> [state |-> row.state, out |-> "held", conflict |-> FALSE]

RecordCommand(row, call) ==
    LET a == After(row, call) IN
    [state |-> a.state,
     policy |-> IF row.state = "awaiting-consent" /\ a.state = "consented" THEN call.policy ELSE row.policy,
     commands |-> IF a.conflict THEN row.commands
                  ELSE [row.commands EXCEPT ![call.mid] = [act |-> call.act, out |-> a.out]],
     conflicts |-> IF a.conflict THEN row.conflicts \union {call.act} ELSE row.conflicts,
     permits |-> row.permits]

Fits(row) ==
    Cardinality({c \in CommandIds : row.commands[c] # NoCommand}) + Cardinality(row.conflicts) <= MaxCommands

Contrary(row, call) == call.act # "settle" \/ After(row, call).conflict

\* Mutant: without room for the receipt the row stays as it was.
HeldStateKept(row, call) == row

\* Without room for the receipt, a contrary command still ends the consent.
HeldState(row, call) ==
    [row EXCEPT !.state = IF Contrary(row, call) /\ @ \in {"awaiting-consent", "consented"}
                          THEN "revoked" ELSE @]

\* A row that moved on refuses a settle; a contrary command is applied to the
\* row as it is now.
CommandRetains ==
    /\ cmdCall.at = "retain"
    /\ PublicationFree
    /\ LET p == cmdCall.p
           row == bundle[p]
           new == RecordCommand(row, cmdCall)
           taken == /\ row = cmdCall.seen \/ cmdCall.act # "settle"
                    /\ cmdCall.mapped /\ delivery[p] = "sent"
       IN IF taken
          THEN /\ bundle' = [bundle EXCEPT ![p] = IF Fits(new) THEN new ELSE HeldState(row, cmdCall)]
               /\ refusedAt' = IF Contrary(row, cmdCall) /\ refusedAt[p] = -1
                               THEN [refusedAt EXCEPT ![p] = row.permits] ELSE refusedAt
          ELSE UNCHANGED <<bundle, refusedAt>>
    /\ cmdCall' = NoCmdCall
    /\ UNCHANGED <<delivery, cfiles, consumer, authorityOf, issCall, cfaults>>

------------------------------
(* Permits *)
\* A permit call runs to its end in its own thread, even when its caller leaves.
IssueIdle == issCall.at = "idle"

\* The files of the newest retained generation are all there.
Complete(p, g) ==
    /\ g \in cfiles[p].gens /\ cfiles[p].cur = g
    /\ g > 1 => g - 1 \in cfiles[p].tombs

Unconsumed(p) == consumer[p].used = {}

\* The queue's certificate and tombstone for generation g, equal and in time.
Renewal(p, g) == g \in consumer[p].certs

PermitCertificate(p, g) == Unconsumed(p) /\ (g > 0 => Renewal(p, g))

\* A request without a new certificate repairs the retained generation; with
\* one it asks for the next.
IssueReads(p, renew, sourceOk) ==
    /\ IssueIdle
    /\ bundle[p].state = "consented"
    /\ sourceOk
    /\ authorityOf # 0 /\ authorityOf = bundle[p].policy
    /\ LET g == bundle[p].permits
           retry == g > 0 /\ ~renew
           done == retry /\ Complete(p, g)
       IN /\ IF retry
             THEN IF g = 1 THEN Unconsumed(p) /\ ~Renewal(p, 1)
                  ELSE done \/ PermitCertificate(p, g - 1)
             ELSE (renew <=> g > 0) /\ g < MaxPermits /\ PermitCertificate(p, g)
          /\ issCall' = [at |-> "commit", p |-> p, gen |-> IF retry THEN g ELSE g + 1, complete |-> done,
                         seen |-> bundle[p], policy |-> authorityOf]
    /\ UNCHANGED <<bundle, delivery, cfiles, consumer, authorityOf, cmdCall, refusedAt, cfaults>>

\* Publication, source and authority are read again before the lock; a row
\* that changed since it was read refuses the call.
IssueCommits ==
    /\ issCall.at = "commit"
    /\ LET p == issCall.p
           ok == authorityOf = issCall.policy /\ bundle[p] = issCall.seen
       IN /\ bundle' = IF ok THEN [bundle EXCEPT ![p].permits = issCall.gen] ELSE bundle
          /\ issCall' = IF ok /\ ~issCall.complete THEN [issCall EXCEPT !.at = "tomb"] ELSE NoIssCall
    /\ UNCHANGED <<delivery, cfiles, consumer, authorityOf, cmdCall, refusedAt, cfaults>>

IssueEntombs ==
    /\ issCall.at = "tomb"
    /\ cfiles' = IF issCall.gen > 1 THEN [cfiles EXCEPT ![issCall.p].tombs = @ \union {issCall.gen - 1}] ELSE cfiles
    /\ issCall' = [issCall EXCEPT !.at = "generation"]
    /\ UNCHANGED <<bundle, delivery, consumer, authorityOf, cmdCall, refusedAt, cfaults>>

IssuePublishes ==
    /\ issCall.at = "generation"
    /\ cfiles' = [cfiles EXCEPT ![issCall.p].gens = @ \union {issCall.gen}]
    /\ issCall' = [issCall EXCEPT !.at = "pointer"]
    /\ UNCHANGED <<bundle, delivery, consumer, authorityOf, cmdCall, refusedAt, cfaults>>

IssuePoints ==
    /\ issCall.at = "pointer"
    /\ cfiles' = [cfiles EXCEPT ![issCall.p].cur = issCall.gen]
    /\ issCall' = NoIssCall
    /\ UNCHANGED <<bundle, delivery, consumer, authorityOf, cmdCall, refusedAt, cfaults>>

------------------------------
(* The queue: it uses the permit that the pointer names, or certifies that *)
(* it has not and never will.                                              *)
Consume(p) ==
    /\ cfiles[p].cur # 0 /\ cfiles[p].cur \notin consumer[p].certs /\ Unconsumed(p)
    /\ consumer' = [consumer EXCEPT ![p].used = {cfiles[p].cur}]
    /\ UNCHANGED <<bundle, delivery, cfiles, authorityOf, cmdCall, issCall, refusedAt, cfaults>>

Certify(p) ==
    /\ cfiles[p].cur # 0 /\ Unconsumed(p)
    /\ consumer' = [consumer EXCEPT ![p].certs = @ \union {cfiles[p].cur}]
    /\ UNCHANGED <<bundle, delivery, cfiles, authorityOf, cmdCall, issCall, refusedAt, cfaults>>

------------------------------
(* Disturbances *)
CustodyPolicyChanges(new) ==
    /\ new # authorityOf
    /\ CustodyFault("policy")
    /\ authorityOf' = new
    /\ UNCHANGED <<bundle, delivery, cfiles, consumer, cmdCall, issCall, refusedAt>>

\* The daemon dies: rows and files stay.
CustodyCrash ==
    /\ cmdCall.at # "idle" \/ issCall.at # "idle"
    /\ CustodyFault("crash")
    /\ cmdCall' = NoCmdCall
    /\ issCall' = NoIssCall
    /\ UNCHANGED <<bundle, delivery, cfiles, consumer, authorityOf, refusedAt>>

CustodyNext ==
    \/ \E p \in Resolutions :
          \/ \E f \in CustodyFlaws : RegisterResolution(p, f)
          \/ \E how \in {"sent", "unknown"} : NoticeDelivered(p, how)
          \/ \E m \in CommandIds, a \in Acts, t \in BOOLEAN : CommandReads(p, m, a, t)
          \/ \E r, s \in BOOLEAN : IssueReads(p, r, s)
          \/ Consume(p)
          \/ Certify(p)
    \/ \E s \in BOOLEAN : CommandChecks(s)
    \/ CommandRetains
    \/ IssueCommits
    \/ IssueEntombs
    \/ IssuePublishes
    \/ IssuePoints
    \/ \E n \in 0..2 : CustodyPolicyChanges(n)
    \/ CustodyCrash

CustodySpec == CustodyInit /\ [][CustodyNext]_custodyVars

------------------------------
(* Properties *)

\* A refusal holds: once an operator's decline, revoke or contradiction was
\* taken (_retain_command), also one whose receipt no longer fitted, no permit
\* generation is added and the proposal never counts as consented again,
\* whatever settle or permit call was under way.
RefusalHolds ==
    \A p \in Resolutions :
        refusedAt[p] # -1 => bundle[p].permits = refusedAt[p] /\ bundle[p].state = "revoked"

\* The published chain is whole: the pointer names a generation that is there
\* and retained in the store, with every earlier one and its tombstone, and a
\* tombstone stands only on the queue's certificate (_issue_permit), through
\* any crash between commit and publication and any repair.
ChainWhole ==
    \A p \in Resolutions :
        LET f == cfiles[p] IN
        /\ f.gens \subseteq 1..bundle[p].permits
        /\ f.cur # 0 => 1..f.cur \subseteq f.gens
        /\ \A g \in f.gens : g > 1 => g - 1 \in f.tombs
        /\ f.tombs \subseteq consumer[p].certs
==============================
