------------------------------ MODULE TaskBoard -------------------------------
(***************************************************************************)
(* What the rows of agent_tasks promise to the agent that dispatched them, *)
(* whatever the task worker does in between: a task appears while its      *)
(* dispatch_squad call is under way, is open until it has ended, and then  *)
(* stays ended.  Only an edit by hand may change that.  AgentTasks         *)
(* implements this; AgentWakeups, which waits for its tasks, builds on it. *)
(***************************************************************************)
CONSTANTS Tasks, Squads,
          SquadOf    \* batch_id: the squad of each task

ASSUME SquadsAssumption == SquadOf \in [Tasks -> Squads]

VARIABLES
  child,      \* where each task stands
  dispatch,   \* the dispatch_squad call of each squad
  edited      \* somebody has set a status by hand

boardVars == <<child, dispatch, edited>>

BoardTypeOK ==
  /\ child \in [Tasks -> {"none", "open", "ended"}]
  /\ dispatch \in [Squads -> {"no", "inserting", "over"}]
  /\ edited \in BOOLEAN

BoardInit ==
  /\ child = [t \in Tasks |-> "none"]
  /\ dispatch = [q \in Squads |-> "no"]
  /\ edited = FALSE

StartDispatch(q) ==
  /\ dispatch[q] = "no"
  /\ dispatch' = [dispatch EXCEPT ![q] = "inserting"]
  /\ UNCHANGED <<child, edited>>

AddChild(t) ==
  /\ dispatch[SquadOf[t]] = "inserting" /\ child[t] = "none"
  /\ child' = [child EXCEPT ![t] = "open"]
  /\ UNCHANGED <<dispatch, edited>>

\* Tasks whose INSERT failed are never added.
EndDispatch(q) ==
  /\ dispatch[q] = "inserting"
  /\ dispatch' = [dispatch EXCEPT ![q] = "over"]
  /\ UNCHANGED <<child, edited>>

\* The process stops, and its calls with it.
StopDispatches ==
  /\ dispatch' = [q \in Squads |-> IF dispatch[q] = "inserting" THEN "over" ELSE dispatch[q]]
  /\ UNCHANGED <<child, edited>>

EndChild(t) ==
  /\ child[t] = "open"
  /\ child' = [child EXCEPT ![t] = "ended"]
  /\ UNCHANGED <<dispatch, edited>>

EditChild(t, c) ==
  /\ child[t] # "none" /\ c \in {"open", "ended"}
  /\ child' = [child EXCEPT ![t] = c]
  /\ edited' = TRUE
  /\ UNCHANGED dispatch

BoardStep ==
  \/ \E t \in Tasks : AddChild(t) \/ EndChild(t) \/ EditChild(t, "open") \/ EditChild(t, "ended")
  \/ \E q \in Squads : EndDispatch(q)

BoardNext == (\E q \in Squads : StartDispatch(q)) \/ BoardStep \/ StopDispatches
BoardSpec == BoardInit /\ [][BoardNext]_boardVars
=============================================================================
