--------------------------- MODULE MCApprovalAsks ---------------------------
(* The instance of ApprovalAsks for TLC. *)
EXTENDS ApprovalAsks
==============================
