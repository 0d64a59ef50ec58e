---------------------------- MODULE LaunchPromise ----------------------------
(***************************************************************************)
(* What the launch guard promises, with nothing of how it keeps it: each   *)
(* generation of a bead's session is handed to the runtime at most once,   *)
(* generations only go up, and a workstream has one coder session at most. *)
(***************************************************************************)
EXTENDS Naturals

CONSTANTS Beads, MaxGen

VARIABLES
    called,     \* the generations of each bead handed to the runtime
    running     \* the beads with a session that may be running

Init == called = [b \in Beads |-> {}] /\ running = {}

\* Generation g of bead b goes to the runtime while no session may be running.
Launch(b, g) ==
    /\ running = {}
    /\ \A h \in called[b] : h < g
    /\ called' = [called EXCEPT ![b] = @ \cup {g}]
    /\ running' \in {{}, {b}}

End(b) == b \in running /\ running' = running \ {b} /\ UNCHANGED called

\* A session taken for ended is listed again: no launch, and never beside another.
Back(b) == running = {} /\ called[b] # {} /\ running' = {b} /\ UNCHANGED called

Next == \E b \in Beads : End(b) \/ Back(b) \/ \E g \in 1 .. MaxGen : Launch(b, g)

Spec == Init /\ [][Next]_<<called, running>>
==============================
