--------------------------- MODULE MCAgentUpgrade ---------------------------
(* Two hosts, which the barrier between tasks ties together, and two lines, which
   is what a half disabled configuration takes. *)
EXTENDS AgentUpgrade
=============================================================================
