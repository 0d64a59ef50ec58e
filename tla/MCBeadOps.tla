----------------------------- MODULE MCBeadOps -----------------------------
(* Instances of BeadOps for TLC. *)
EXTENDS BeadOps
==============================
