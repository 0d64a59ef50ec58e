---------------------------- MODULE MCAgentTurns ----------------------------
(* AgentTurns for model checking: two messages, which are interchangeable. *)
EXTENDS AgentTurns, TLC

CONSTANTS m1, m2

MCMsgs == {m1, m2}
MCSymmetry == Permutations(MCMsgs)
==============================
