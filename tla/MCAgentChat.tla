----------------------------- MODULE MCAgentChat ----------------------------
(* Three turns, each by a process of its own or not, and a wrong key.  The  *)
(* others are at the first message.                                         *)
EXTENDS AgentChat

CONSTANTS secret, wrong

MCDisturbed == {[role |-> "user", turn |-> 1]}
=============================================================================
