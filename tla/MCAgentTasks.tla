---------------------------- MODULE MCAgentTasks -----------------------------
(* Values of AgentTasks's constants for model checking.                    *)
EXTENDS AgentTasks, TLC

CONSTANTS b1, b2, a1

\* The squad's tasks all go to the same sub-agent, so that task_done may take one for another.
OneSquad == [t \in Tasks |-> b1]
OneAgent == [t \in Tasks |-> a1]

\* An earlier squad had the same label, and as many tasks.
OneLabel == [q \in Squads |-> a1]
Earlier == {[squad |-> b2, all |-> 2]}

Symmetry == Permutations(Tasks) \cup Permutations(Pollers) \cup Permutations(Slots)
=============================================================================
