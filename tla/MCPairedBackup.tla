-------------------------- MODULE MCPairedBackup --------------------------
(* Instances of PairedBackup for TLC. *)
EXTENDS PairedBackup

\* The retention run: the native owner begins its next cycle when the last one is settled.
OneAtATime ==
    /\ native # -1 => ~Pending /\ lane = <<>>
    /\ counter = Cardinality(notices) + (IF native = -1 THEN 0 ELSE 1)
    /\ Cardinality(notices) \in {delivered, delivered + 1}
==============================
