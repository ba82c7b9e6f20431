--------------------------- MODULE MCAgentWakeups ----------------------------
(* Values of AgentWakeups's constants for model checking.                  *)
EXTENDS AgentWakeups

CONSTANTS b1

OneSquad == [t \in Tasks |-> b1]
=============================================================================
