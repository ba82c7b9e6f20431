------------------------------ MODULE AgentTasks ------------------------------
(***************************************************************************)
(* The task worker: server/task-worker/ with the rows of agent_tasks       *)
(* (server/memory/tasks/crud.js) and the tools that create and end them    *)
(* (server/tools/handlers/dispatch.js).  An agent dispatches a squad: one  *)
(* row per task, inserted one after the other.  The worker polls for       *)
(* queued rows, runs each with its sub-agent, and when the last task of a  *)
(* squad ends it mails the parent that the squad is complete.              *)
(*                                                                         *)
(* A step is what happens between two awaits of the code.  Polls overlap   *)
(* when one takes longer than the interval; the start of the worker and    *)
(* each poll may run the recovery of what an earlier process left behind.  *)
(*                                                                         *)
(* Not here: priorities (any queued row may be the next), the mail about   *)
(* each single task, receipts, and tasks outside a squad.                  *)
(***************************************************************************)
EXTENDS Naturals, FiniteSets

CONSTANTS
  Tasks, Squads,
  SquadOf,        \* batch_id: the squad of each task
  LabelOf,        \* parent and batch_label of each squad: what its reports are headed
  AssigneeOf,     \* the sub-agent of each task
  Pollers,        \* polls that may be under way together
  Boot,           \* the recovery that startTaskWorker starts and does not await
  Slots,          \* bounds how many tasks run at once
  MAX_CONCURRENT,
  NoTask,
  EarlierMail,    \* reports of earlier squads that the parents may have just got
  MaxUpsets       \* bound: crashes, database errors, edits and removed sub-agents

\* A report of the worker: the squad it is of, and how many tasks of it had ended.
Reports == [squad : Squads, all : Nat]

\* It gives label and counts, no batch_id, and the parent mails itself: these may say the
\* same.  (How many failed is left open.  task_done words its own mail otherwise.)
SameWords(m, n) == LabelOf[m.squad] = LabelOf[n.squad] /\ m.all = n.all

ASSUME TasksAssumption ==
  /\ SquadOf \in [Tasks -> Squads] /\ DOMAIN LabelOf = Squads /\ DOMAIN AssigneeOf = Tasks
  /\ Boot \notin Pollers /\ NoTask \notin Tasks
  /\ IsFiniteSet(Tasks) /\ EarlierMail \subseteq Reports
  /\ MAX_CONCURRENT \in Nat \ {0} /\ MaxUpsets \in Nat

VARIABLES
  task,          \* agent_tasks.status, "none" before the INSERT
  dispatch,      \* the dispatch_squad call of each squad
  caller,        \* each poll, and the recovery at the start
  requeued,      \* requeuedStuckTasks
  runner,        \* runTaskWithLifecycle; activeCount is the number that are not free
  mail,          \* the worker's reports that agent_messages holds
  lateRequeue,   \* history: a recovery requeued a task that this process was running
  upsets         \* history: how often each kind of trouble came

taskVars == <<task, dispatch, caller, requeued, runner, mail, lateRequeue, upsets>>

Callers == Pollers \cup {Boot}
Ended == {"completed", "failed"}
Terminal == Ended \cup {"cancelled"}
Statuses == {"queued", "in_progress", "blocked"} \cup Terminal
Trouble == {"crash", "error", "edit", "gone"}
TasksOf(q) == {t \in Tasks : SquadOf[t] = q}
Rows(q) == {t \in TasksOf(q) : task[t] # "none"}

Idle == [pc |-> "idle", task |-> NoTask]
\* on is the task task_done has found, or the runner's own; rows what the batch check saw.
Free == [pc |-> "free", task |-> NoTask, on |-> NoTask, told |-> FALSE, rows |-> {}]
RunnerPCs == {"free", "work", "mark", "toldcheck", "toldreport", "check", "report"}

TasksTypeOK ==
  /\ task \in [Tasks -> Statuses \cup {"none"}]
  /\ dispatch \in [Squads -> {"no", "inserting", "over"}]
  /\ caller \in [Callers -> [pc : {"idle", "recover", "recovered", "claim", "claimed"},
                             task : Tasks \cup {NoTask}]]
  /\ requeued \in BOOLEAN
  /\ runner \in [Slots -> [pc : RunnerPCs, task : Tasks \cup {NoTask}, on : Tasks \cup {NoTask},
                           told : BOOLEAN, rows : SUBSET Tasks]]
  /\ mail \subseteq Reports
  /\ lateRequeue \in BOOLEAN
  /\ upsets \in [Trouble -> Nat]

\* The process has just started: startTaskWorker has sent its requeue.
Booting == [c \in Callers |-> IF c = Boot THEN [Idle EXCEPT !.pc = "recover"] ELSE Idle]

TasksInit ==
  /\ task = [t \in Tasks |-> "none"]
  /\ dispatch = [q \in Squads |-> "no"]
  /\ caller = Booting
  /\ requeued = FALSE
  /\ runner = [r \in Slots |-> Free]
  /\ mail \in SUBSET EarlierMail
  /\ lateRequeue = FALSE
  /\ upsets = [k \in Trouble |-> 0]

-----------------------------------------------------------------------------
Active == Cardinality({r \in Slots : runner[r].pc # "free"})
Upset(k) ==
  /\ upsets["crash"] + upsets["error"] + upsets["edit"] + upsets["gone"] < MaxUpsets
  /\ upsets' = [upsets EXCEPT ![k] = @ + 1]
Quiet == upsets = [k \in Trouble |-> 0]

CallerHas(c, t) == caller[c].pc = "claimed" /\ caller[c].task = t
RunnerHas(r, t) == runner[r].pc # "free" /\ runner[r].task = t
\* Who in this process runs the task, or is about to.
Held(t) == (\E c \in Callers : CallerHas(c, t)) \/ (\E r \in Slots : RunnerHas(r, t))

-----------------------------------------------------------------------------
(* dispatch_squad                                                          *)

\* An empty list of tasks is refused.
DispatchSquad(q) ==
  /\ dispatch[q] = "no" /\ TasksOf(q) # {}
  /\ dispatch' = [dispatch EXCEPT ![q] = "inserting"]
  /\ UNCHANGED <<task, caller, requeued, runner, mail, lateRequeue, upsets>>

InsertTask(t) ==
  /\ dispatch[SquadOf[t]] = "inserting" /\ task[t] = "none"
  /\ task' = [task EXCEPT ![t] = "queued"]
  /\ UNCHANGED <<dispatch, caller, requeued, runner, mail, lateRequeue, upsets>>

\* The call returns; a task whose INSERT failed is only a line of its answer.
DispatchReturns(q) ==
  /\ dispatch[q] = "inserting"
  /\ IF Rows(q) = TasksOf(q) THEN UNCHANGED upsets ELSE Upset("error")
  /\ dispatch' = [dispatch EXCEPT ![q] = "over"]
  /\ UNCHANGED <<task, caller, requeued, runner, mail, lateRequeue>>

-----------------------------------------------------------------------------
(* poll and the recovery                                                   *)

\* Mutant: the flag is set before the rows are requeued.
PollStartsFlagFirst(c) ==
  /\ c # Boot /\ caller[c].pc = "idle" /\ Active < MAX_CONCURRENT
  /\ caller' = [caller EXCEPT ![c].pc = IF requeued THEN "claim" ELSE "recover"]
  /\ requeued' = TRUE
  /\ UNCHANGED <<task, dispatch, runner, mail, lateRequeue, upsets>>

PollStarts(c) ==
  /\ c # Boot /\ caller[c].pc = "idle" /\ Active < MAX_CONCURRENT
  /\ caller' = [caller EXCEPT ![c].pc = IF requeued THEN "claim" ELSE "recover"]
  /\ UNCHANGED <<task, dispatch, requeued, runner, mail, lateRequeue, upsets>>

\* Mutant: every task that is not completed is queued again.
RequeueUnfinished(c) ==
  /\ caller[c].pc = "recover"
  /\ task' = [t \in Tasks |-> IF task[t] \in {"none", "completed"} THEN task[t] ELSE "queued"]
  /\ caller' = [caller EXCEPT ![c].pc = "recovered"]
  /\ UNCHANGED <<dispatch, requeued, runner, mail, lateRequeue, upsets>>

\* requeueInProgressAgentTasks commits.
Requeue(c) ==
  /\ caller[c].pc = "recover"
  /\ task' = [t \in Tasks |-> IF task[t] = "in_progress" THEN "queued" ELSE task[t]]
  /\ lateRequeue' = (lateRequeue \/ \E t \in Tasks : task[t] = "in_progress" /\ Held(t))
  /\ caller' = [caller EXCEPT ![c].pc = "recovered"]
  /\ UNCHANGED <<dispatch, requeued, runner, mail, upsets>>

AfterRecovery(c) == IF c = Boot THEN "idle" ELSE "claim"

Recovered(c) ==
  /\ caller[c].pc = "recovered"
  /\ requeued' = TRUE
  /\ caller' = [caller EXCEPT ![c].pc = AfterRecovery(c)]
  /\ UNCHANGED <<task, dispatch, runner, mail, lateRequeue, upsets>>

\* The error is logged and the poll goes on to claim.
RecoveryFails(c) ==
  /\ caller[c].pc = "recover" /\ Upset("error")
  /\ caller' = [caller EXCEPT ![c].pc = AfterRecovery(c)]
  /\ UNCHANGED <<task, dispatch, requeued, runner, mail, lateRequeue>>

\* Mutant: without FOR UPDATE two polls may read the same queued row.
ClaimUnlocked(c, t) ==
  /\ caller[c].pc = "claim"
  /\ task[t] = "queued" \/ \E d \in Callers : CallerHas(d, t)
  /\ task' = [task EXCEPT ![t] = "in_progress"]
  /\ caller' = [caller EXCEPT ![c] = [pc |-> "claimed", task |-> t]]
  /\ UNCHANGED <<dispatch, requeued, runner, mail, lateRequeue, upsets>>

\* Mutant: a status the column does not take.
ClaimRunning(c, t) ==
  /\ caller[c].pc = "claim" /\ task[t] = "queued"
  /\ task' = [task EXCEPT ![t] = "running"]
  /\ caller' = [caller EXCEPT ![c] = [pc |-> "claimed", task |-> t]]
  /\ UNCHANGED <<dispatch, requeued, runner, mail, lateRequeue, upsets>>

\* claimTask's transaction.
Claim(c, t) ==
  /\ caller[c].pc = "claim" /\ task[t] = "queued"
  /\ task' = [task EXCEPT ![t] = "in_progress"]
  /\ caller' = [caller EXCEPT ![c] = [pc |-> "claimed", task |-> t]]
  /\ UNCHANGED <<dispatch, requeued, runner, mail, lateRequeue, upsets>>

NothingToClaim(c) ==
  /\ caller[c].pc = "claim" /\ \A t \in Tasks : task[t] # "queued"
  /\ caller' = [caller EXCEPT ![c] = Idle]
  /\ UNCHANGED <<task, dispatch, requeued, runner, mail, lateRequeue, upsets>>

\* The row is read back and its run starts; the poll does not wait for it.
StartRunner(c, r) ==
  /\ caller[c].pc = "claimed" /\ runner[r].pc = "free"
  /\ runner' = [runner EXCEPT ![r] = [Free EXCEPT !.pc = "work", !.task = caller[c].task]]
  /\ caller' = [caller EXCEPT ![c] = Idle]
  /\ UNCHANGED <<task, dispatch, requeued, mail, lateRequeue, upsets>>

\* The claim, or reading back what was claimed, fails; a row claimed by then stays as it is.
ClaimFails(c) ==
  /\ caller[c].pc \in {"claim", "claimed"} /\ Upset("error")
  /\ caller' = [caller EXCEPT ![c] = Idle]
  /\ UNCHANGED <<task, dispatch, requeued, runner, mail, lateRequeue>>

-----------------------------------------------------------------------------
(* runTask, with the task_done tool its agent may call                     *)

\* The sub-agent has been removed: the task fails and nobody is told.
AgentGone(r) ==
  /\ runner[r].pc = "work" /\ ~runner[r].told /\ Upset("gone")
  /\ task' = [task EXCEPT ![runner[r].task] = "failed"]
  /\ runner' = [runner EXCEPT ![r] = Free]
  /\ UNCHANGED <<dispatch, caller, requeued, mail, lateRequeue>>

\* Mutant: the squad is checked before the row is updated.
EndTaskLate(r, end) ==
  /\ runner[r].pc = "work"
  /\ task' = [task EXCEPT ![runner[r].task] = end]
  /\ runner' = [runner EXCEPT ![r] =
       IF \A t \in Rows(SquadOf[runner[r].task]) : task[t] \in Ended
         THEN [@ EXCEPT !.pc = "check", !.on = runner[r].task] ELSE Free]
  /\ UNCHANGED <<dispatch, caller, requeued, mail, lateRequeue, upsets>>

\* The agent's last answer, or the error that ended its turns.
EndTask(r, end) ==
  /\ runner[r].pc = "work"
  /\ task' = [task EXCEPT ![runner[r].task] = end]
  /\ runner' = [runner EXCEPT ![r].pc = "check", ![r].on = runner[r].task]
  /\ UNCHANGED <<dispatch, caller, requeued, mail, lateRequeue, upsets>>

\* task_done looks for the assignee's latest task in progress, which may be another one.
FindTask(r, t) ==
  /\ runner[r].pc = "work" /\ ~runner[r].told
  /\ task[t] = "in_progress" /\ AssigneeOf[t] = AssigneeOf[runner[r].task]
  /\ runner' = [runner EXCEPT ![r].pc = "mark", ![r].on = t, ![r].told = TRUE]
  /\ UNCHANGED <<task, dispatch, caller, requeued, mail, lateRequeue, upsets>>

MarkDone(r) ==
  /\ runner[r].pc = "mark"
  /\ task' = [task EXCEPT ![runner[r].on] = "completed"]
  /\ runner' = [runner EXCEPT ![r].pc = "toldcheck"]
  /\ UNCHANGED <<dispatch, caller, requeued, mail, lateRequeue, upsets>>

\* Where the batch check goes on: the task's own ends its run, the tool's the tool call.
AfterCheck(r) ==
  IF runner[r].pc \in {"toldcheck", "toldreport"}
    THEN [runner[r] EXCEPT !.pc = "work", !.on = NoTask]
    ELSE Free

\* checkBatchCompletion, and the same check in task_done: cancelled does not count as done.
CheckBatch(r) ==
  /\ runner[r].pc \in {"toldcheck", "check"}
  /\ LET rows == Rows(SquadOf[runner[r].on])
         seen == IF runner[r].pc = "check" THEN [runner[r] EXCEPT !.pc = "report", !.rows = rows]
                                           ELSE [runner[r] EXCEPT !.pc = "toldreport"]
     IN runner' = [runner EXCEPT ![r] =
          IF \A t \in rows : task[t] \in Ended THEN seen ELSE AfterCheck(r)]
  /\ UNCHANGED <<task, dispatch, caller, requeued, mail, lateRequeue, upsets>>

ReportOf(r) == [squad |-> SquadOf[runner[r].on], all |-> Cardinality(runner[r].rows)]

\* sendAgentMessage stores the mail, unless it stored the same words within five minutes.
Report(r) ==
  /\ runner[r].pc \in {"toldreport", "report"}
  /\ \/ runner[r].pc = "report" /\ mail' = mail \cup {ReportOf(r)}
     \/ runner[r].pc = "report" /\ (\E m \in mail : SameWords(m, ReportOf(r))) /\ UNCHANGED mail
     \/ runner[r].pc = "toldreport" /\ UNCHANGED mail
  /\ runner' = [runner EXCEPT ![r] = AfterCheck(r)]
  /\ UNCHANGED <<task, dispatch, caller, requeued, lateRequeue, upsets>>

\* An error of the check or of its mail is logged and forgotten.
CheckFails(r) ==
  /\ runner[r].pc \in {"toldcheck", "toldreport", "check", "report"} /\ Upset("error")
  /\ runner' = [runner EXCEPT ![r] = AfterCheck(r)]
  /\ UNCHANGED <<task, dispatch, caller, requeued, mail, lateRequeue>>

-----------------------------------------------------------------------------
\* PUT /agent-tasks/:id writes any status over any other.
Edit(t, s) ==
  /\ task[t] # "none" /\ Upset("edit")
  /\ task' = [task EXCEPT ![t] = s]
  /\ UNCHANGED <<dispatch, caller, requeued, runner, mail, lateRequeue>>

\* The process stops and starts again, also when a run rejects outside its own catch.
TasksCrash ==
  /\ Upset("crash")
  /\ dispatch' = [q \in Squads |-> IF dispatch[q] = "inserting" THEN "over" ELSE dispatch[q]]
  /\ caller' = Booting
  /\ requeued' = FALSE
  /\ runner' = [r \in Slots |-> Free]
  /\ UNCHANGED <<task, mail, lateRequeue>>

Call(c) ==
  \/ PollStarts(c) \/ Requeue(c) \/ Recovered(c) \/ NothingToClaim(c)
  \/ \E t \in Tasks : Claim(c, t)
  \/ \E r \in Slots : StartRunner(c, r)

Run(r) ==
  \/ \E end \in Ended : EndTask(r, end)
  \/ \E t \in Tasks : FindTask(r, t)
  \/ MarkDone(r) \/ CheckBatch(r) \/ Report(r)

Dispatching(q) == (\E t \in TasksOf(q) : InsertTask(t)) \/ DispatchReturns(q)

\* What goes wrong without stopping the process.
TasksTrouble ==
  \/ \E c \in Callers : RecoveryFails(c) \/ ClaimFails(c)
  \/ \E r \in Slots : AgentGone(r) \/ CheckFails(r)
  \/ \E t \in Tasks, s \in Statuses : Edit(t, s)

TasksStep ==
  \/ \E q \in Squads : Dispatching(q)
  \/ \E c \in Callers : Call(c)
  \/ \E r \in Slots : Run(r)
  \/ TasksTrouble

TasksNext == (\E q \in Squads : DispatchSquad(q)) \/ TasksStep \/ TasksCrash
TasksSpec == TasksInit /\ [][TasksNext]_taskVars

-----------------------------------------------------------------------------
(* Properties.                                                             *)

\* No task is run twice at the same time, however polls overlap, unless a late
\* recovery took it from under its runner or somebody set its status by hand.
OneRunner ==
  ~lateRequeue /\ upsets["edit"] = 0 =>
    \A t \in Tasks :
      /\ \A c \in Callers, r \in Slots : ~(CallerHas(c, t) /\ RunnerHas(r, t))
      /\ \A c, d \in Callers : CallerHas(c, t) /\ CallerHas(d, t) => c = d
      /\ \A r, s \in Slots : RunnerHas(r, t) /\ RunnerHas(s, t) => r = s

\* Once an earlier process's tasks have been requeued, a task in progress is one that
\* somebody here runs: none is left behind, unless reading back a claim failed.
NoOrphans ==
  requeued /\ upsets["edit"] = 0 /\ upsets["error"] = 0 =>
    \A t \in Tasks : task[t] = "in_progress" => Held(t)

\* "You will receive a message when all tasks complete" (dispatch_squad): once the call is
\* over and nobody has a task of the squad in hands, and all have ended, the parent holds
\* a report that so many tasks under the squad's label have, whichever of them ended last
\* and however task_done was used.  That is its own report, except that five minutes of
\* another squad with its label and number of tasks may stand for it (SameWords).
\* (A crash, an error, an edit or a removed sub-agent can swallow the report.)
SquadReported ==
  Quiet => \A q \in Squads :
    dispatch[q] = "over" /\ (\A t \in TasksOf(q) : task[t] \in Ended /\ ~Held(t)) =>
      \E m \in mail : SameWords(m, [squad |-> q, all |-> Cardinality(TasksOf(q))])

\* An agent that waits for its tasks sees only this of the worker: what has ended
\* stays ended, through polls, recoveries, restarts and task_done.
Standing == [t \in Tasks |-> IF task[t] = "none" THEN "none"
                             ELSE IF task[t] \in Terminal THEN "ended" ELSE "open"]
Board == INSTANCE TaskBoard WITH child <- Standing, edited <- upsets["edit"] > 0
ImplementsBoard == Board!BoardSpec
=============================================================================
