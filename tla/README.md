# CensaiOS in TLA+

CensaiOS is a collaborative canvas on which people and AI agents work together: an
Express server (`src/server`) over Postgres, a React front end (`src/src`), a Yjs
document per workspace for the live canvas, and a set of workers that run agents in
the background. This directory holds TLA+ models of the parts of the server whose
correctness depends on the order in which things happen, the TLC configurations that
check them, and TLAPS proofs of their main properties.

Eight of them are modelled: the **approval boundary** in front of agents' write tools, the
**update log** under the shared canvas, the **plan runner** of Censai, the orchestrator,
the **task worker** that runs dispatched squads, the **wake-ups** by which agents write to
each other, the **agent-card runs** and the **scheduler** that queues some of them, and the
**workflows** on the canvas with their triggers. The inventory says what each promises and
what is hard about it; `PROJECT.json` lists the hazards line by line.

## 1. Inventory

### Tool approvals — `approvals/`, `capabilities/`, `routes/approvals.js`

An agent is equipped with add-on modules; some of their tools write, and each call of
such a tool needs a person's yes.

* *State*: `workspace_tool_package_installs`, `workspace_agent_capabilities`,
  `workspace_tool_approvals` (status, revision, request hash), all in Postgres.
* *Operations*: ask (`requestToolApprovalIfRequired`), decide (`decideToolApproval`),
  run and record (`assertApprovedToolExecution`, `finishToolApproval`), save an agent's
  selection of modules, install and remove a package.
* *Interaction*: only through the tables, advisory locks (package, request hash,
  agent) and row locks. A decision hands the claimed row on to the route, which runs
  the tool outside any transaction.
* *Hard*: every operation spans several statements; a grant is looked up before and
  after a lock; a crash leaves a row executing.
* *Correct when*: a permission is given once and used at most once, a decision is
  final and its revision shows it, a package never disappears under an action that may
  still run, two equal requests are one, and nobody waits for ever.

### Canvas update log — `collab/yUpdateLog.js`, `collab/yStore.js`, `collab/yPersistence.js`

* *State*: per process a batch and a promise chain of batches; in Postgres the rows of
  `workspace_yjs_updates` and the compacted base with `compacted_seq`.
* *Operations*: append, flush, the INSERTs of the chain, compact (read base, read rows,
  write base, delete rows), load, rebuild, entries (the history).
* *Interaction*: Hocuspocus hooks (`onChange`, `onStoreDocument`, `onLoadDocument`,
  unload) call them; several processes may share a room through Redis.
* *Hard*: nothing is awaited by the person who edits; compaction deletes rows; queries
  of different jobs interleave; an INSERT can fail, a process can stop.
* *Correct when*: what was committed is never lost, rows keep the order of arrival and
  their author, the base never goes back, a rebuild is the board of that moment.

### Censai plans — `censaiOrchestrator/`

* *State*: `censai_plans` (status, jobs with checklists) in Postgres; in memory
  `running`, `waiting`, the plan each run works on, a chain of saves per run,
  `recovering`.
* *Operations*: hand out a plan, run it job by job (hand-off, up to two tries, a check
  of every item after each), stop it, pick up plans after a restart.
* *Interaction*: agents through the run engine, the project's tests, a model that reads
  answers over; the person stops and reads plans through routes and tools.
* *Hard*: a stop lands during any wait; saves may fail and are not checked; a restart
  at any point, whose recovery lists 50 open rows at most; a queue for two places.
* *Correct when*: "done" means every item was checked, nothing is built on unchecked
  work, a finished plan stays as it is, work cut off is neither repeated nor vouched
  for, a stopped plan's agents stop, every plan ends.

### Task worker — `task-worker/`, `memory/tasks/`, `tools/handlers/dispatch.js`

* *State*: `agent_tasks` (status, batch, wake-up) in Postgres; in memory `activeCount`,
  `requeuedStuckTasks`.
* *Operations*: `dispatch_squad` inserts the tasks one after the other; a poll claims and
  starts one; a run ends its task, `task_done` ends it from inside the turn; the last task
  of a squad is reported to the parent; a restart requeues what was in progress.
* *Interaction*: a woken agent dispatches, and its wake-up waits for the rows.
* *Hard*: polls overlap and read `activeCount` before two awaits; the recovery is started
  twice and not awaited; statuses are written without looking; the batch check of one task
  runs beside the end of another; its mail names no batch and may be taken for a repetition.
* *Correct when*: one runner per task, nothing in progress that nobody runs, a squad that
  has ended is reported whole, and what has ended stays ended.

### Agent wake-ups — `agent-wakeups/`, `memory/core/messaging.js`

* *State*: messages with idempotency keys and `agent_wakeups` (status, phase, its run) in
  Postgres; in memory the active runs and whether the recovery is over.
* *Operations*: `sendAgentMessage` with the guards of a thread, claim, run a turn, wait for
  the tasks the turn dispatched, look at them again, answer the sender, recover, retry.
* *Interaction*: builds on the task worker through the rows of `agent_tasks`; an answer may
  wake its reader.
* *Hard*: children end while the parent is stored as waiting; the process stops between
  answer, receipt and row; the recovery of the start is not awaited and polls recover too;
  counts are read before the INSERT they limit.
* *Correct when*: a wake-up whose run succeeded is not run again, an agent reports after
  its tasks have ended, a thread stays within its cap and dies on its own.

### Agent-card runs and scheduler — `agent-card-runs/`, `schedulerWorker.js`, `scheduler/`, `wakeUps/`

* *State*: `runs` and `schedules` (status, `next_run_at`, `last_run_id`) in Postgres; in
  memory the active count and `tickBusy`.
* *Operations*: queue, claim, execute by kind (a built-in agent's turn; a call of an agent
  elsewhere, perhaps over a relay that holds it), recover; a tick settles the schedules
  whose run is over, claims a due one, asks the gate of agents' own wake-ups, queues a run;
  the owner pauses, activates, deletes.
* *Interaction*: the scheduler and its worker share the rows of `runs`.
* *Hard*: the outcome of a call that a crash cut off is unknown; a claimed schedule keeps
  the link to an older run; edits do not look at a run under way.
* *Correct when*: a call goes out once, a due time leads to one run, what has been queued
  is settled in the end.

### Workflows — `workflows/`, `routes/workflows.js`, `src/lib/workflow/graph.js`

* *State*: `board_workflow_runs` and `board_workflow_triggers` in Postgres, the run a window
  shows on the canvas; in memory `active`, the run objects under way.
* *Operations*: start, walk the graph step by step and publish after each (window, then
  row), pause at a review, answer it, stop; a tick of the trigger reads the board, starts a
  run for what is new, and writes down what it saw.
* *Hard*: a start has three awaits before the run is tracked, so two can pass the check;
  an answer makes a new run object from the row; stop, delete and restart land anywhere;
  windows land and leave while a tick waits for its start, and the next tick does not wait.
* *Correct when*: steps follow the graph, nothing passes a review nobody approved, what
  says running is run, and each new window is handed to a run, and to no second one but
  after a restart, an error or an overlap.

### Not modelled

| Component | What it is | Why not |
|---|---|---|
| Workspace state (`state/clientStateStore.js`, `collaboration/workspaceMutations.js`) | revisioned JSON: set, merge, delete; events after the commit | next in the plan: compare-and-set against merges, as a register with a log of events |
| Workspace hub (`collaboration/workspaceHub.js`) | rooms and members in memory | next after it: capacities and joins undone by leaves; synchronous code, little to interleave |
| Document hooks (`collab/yPersistence.js`), in part | migration from the old snapshot, backup copy | both end in the Yjs library's own merge |
| Sync server and writers (`hocuspocus.js`, `liveDoc.js`, `serverWriter.js`, ...) | whole-window writes into a live document | one read and one write each; what they overwrite is decided by Yjs |
| CLI tasks, todo dispatch (`cli-agents/`, `operational-intelligence/`) | rows with a status and a worker | the shape of `AgentTasks` and `CardRuns` again, in code of its own |
| Jules queue and sync | calls to an external service, a table of its states | external outcomes decide everything |
| Share links | rows looked up at each request | no steps to interleave but the live guest's last requests |
| Terminals, sandboxes | processes and containers | I/O |
| Run engine, providers, AI gateway | calls of models | external services |
| Front-end board sync | browser state over Yjs | the library's merge |

The views of the front end, games, marketplace pages, prompts and mails are data or display
and have no state of the kind modelled here. They are most of the repository's lines, which
is why the modelled share of it stays small.

## 2. Modules

| Module | What it is |
|---|---|
| `OneShotPermission` | the abstract promise: a ticket is asked for, granted once, used once, closed |
| `ToolApprovals` | the approval tables with every transaction as separate statements |
| `YUpdateLog` | batches, INSERT chain, compaction and reads of one workspace |
| `PlanRunner` | the run of plans, stops, the queue, hand-outs and recovery |
| `TaskBoard` | the abstract promise of `agent_tasks`: open until ended, then ended |
| `AgentTasks` | dispatch, polls, recovery, runs and the squad report; implements `TaskBoard` |
| `AgentWakeups` | mail, wake-ups and their runs on top of `TaskBoard` |
| `CardRuns` | the queue of runs, its worker, its recovery and the calls it sends |
| `Schedules` | the scheduler, composed with `CardRuns` |
| `WorkflowGraph` | the order of a graph and what is live in it, as functions |
| `WorkflowRuns` | the runs of one workflow window |
| `WorkflowTriggers` | starts by windows that land, composed with `WorkflowRuns` |
| `MC...` | instances of these for TLC |
| `...Proofs` | theorems about `ToolApprovals`, `YUpdateLog`, `PlanRunner`, `AgentTasks`, `AgentWakeups`, `CardRuns`, `Schedules`, and (`WorkflowRunsProofs`) both workflow modules |

A definition whose comment begins with *Mutant* is a plausible bug in the code next to
which it stands. It is used by no specification; putting it in the place of the
definition it varies must make a named property fail (`PROJECT.json`, "mutants").

### ToolApprovals

A *handler* is one request or one tool call; `job[h]` holds its program point and what it
read. Each SQL statement that another transaction can come before is one action, locks
are held in `lock` until `Release`, and what a transaction writes becomes visible in its
last action. `request.*` points are `requestToolApprovalIfRequired`, `decide.*`
`decideToolApproval`, `execute.*` the route after the claim, `replace.*` and `remove.*`
the capability functions. `Abandon` is any error or crash: it rolls back, and an already
committed claim stays. Abstracted: roles, arguments (a member of `Requests` stands for a
hash), trust mode (writes no row).

`ReplaceCommit` and `RemoveCommit` wait until the rows they will cancel are unlocked, as
their UPDATEs do in Postgres.

### YUpdateLog

A change is a record of its arrival number, actor and process; merging Yjs updates is the
union of sets of changes, which is what Yjs guarantees (commutative, idempotent). `chain`
is the promise chain, `InsertStart` draws the BIGSERIAL value, `InsertCommit` makes the
row visible: between the two another process may commit a higher one. `Fold` chooses the
prefix to compact: beyond the newest `MaxRows`, on as far as rows are old (any prefix from
there, as age is not modelled). Jobs abandon at any query (`JobFail`).

### PlanRunner

`entry[p]` is the run of a plan in memory: `plan` what it knows, `saving` what the save in
flight writes, `pc` the await it stands at. A step is what `runPlan`, `runJob` or `checkAnswer`
does between two awaits, and requires that the save before it has settled and that nobody
stopped the run (`Alive`); a stopped run only leaves (`StoppedEnd`). `SaveSettles` writes the
row if it is still open (`savePlan`) or fails and is ignored (`saveEntry`). A stop is three
steps: read the row, mark run or row, save. `Crash` clears everything that is in memory. Items
that are checked the same way form one entry of a list, and a list is a function of the kinds,
`"none"` where it has no such item. `RecoverList` takes one of the `Listings`: all open rows,
or `RecoverLimit` of them, as `LIMIT 50` does for all persons together (the code takes the
oldest; which those are is left open). `missed` remembers the open plans it left out, and
`MAX_OPEN_PLANS` counts for each `Owner`. `claimReport` (one guarded UPDATE on a finished row)
and the mails between agents are left out: neither changes what a plan does.

### TaskBoard and AgentTasks

`caller[c]` is a poll or the recovery that the start of the worker does not await, and
`runner[r]` one `runTaskWithLifecycle`; a program point is where it awaits. Any queued row may
be claimed (priorities are left out). The recovery is one UPDATE over all rows in progress, and
`lateRequeue` remembers that it took one from under a runner, which the code allows and
`OneRunner` exempts. Removing a sub-agent is a soft delete: its queued tasks fail when they are
run. `mail` is the set of the worker's reports in `agent_messages`. A report has label and
counts and no batch, and `sendAgentMessage` stores none that says the same as one of the last
five minutes: `Report` stores it, or not if some mail says the same (`SameWords`), as time is
not modelled; `EarlierMail` are reports of squads before the behaviour begins. Mail about each
single task, receipts and the run ledger are left out: no code here reads them. `TaskBoard` has
what a waiting agent sees; `Standing` maps a status to none, open or ended.

### AgentWakeups

One thread of two agents. `wake[w]` is a row with its message and its run, `worker[s]` one
`runAgentWakeup`. `BeginWake` merges loading, the transaction that begins the run, and the
first look at the children: the rows they touch belong to the claimed wake-up. The guards'
cooldown and velocity windows and bare acknowledgements may suppress any wake, so each send may
enqueue or not. Tasks are those of `TaskBoard`, and any step of it may come between two of a
wake-up. `caller` is the poll, and the recovery that `startAgentWakeupWorker` sends, if the
database is ready, without awaiting it. Each recovers on its own in three UPDATEs
(`SettleByRun`, `RequeueWakes`), so that of the start may end after the poll's claims; an
UPDATE that sets the status of a wake-up which a worker here has is counted as an upset,
`"late"`. Left out: other threads, escalation and the inbox, the self-check after a restart,
and polls of this worker that overlap.

### CardRuns and Schedules

`executor[e]` is one `executeAgentCardRun`; awaits that read the same row one after the
other are one step. Which free slot is taken makes no difference, so it is chosen. A claim
may take any pending run, also past one that was deferred. `posted` counts how often a call
was sent. Time is only whether `next_run_at` has passed. The gate's read and the update
that follows are one step; runs of schedules are of built-in agents, as the scheduler queues
no others. `ServerCrash` is counted once for both modules. What the code leaves open is in
the model: a schedule deleted after its claim still fires once; a process that stops between
the claim and the queueing leaves the schedule running (hazards); a late recovery can have
a turn run twice, which `CompletedHasRun` exempts.

### WorkflowGraph, WorkflowRuns and WorkflowTriggers

`RunOrder` is Kahn's algorithm of `graph.js`: `Take` is one turn of its loop, `Freed` the edges
that bring the count of a node to zero, and `Taken` the turns, as a recursive function. Edges
that lost an end are left out: `runOrder` ignores them and nothing comes over them. A run
object `run[w]` stands at a place of that order with the results so far; `Walk` is the loop of
`walk` from one await to the next, so a node nothing live reaches is skipped in the same
step. `publish` is a write of the window and a write of the row; what follows the row's
write (tracking, stepping, leaving `active`) happens in the same step, since nothing awaits
between. `answerReview` reads row and `active` in one step: its read of the window for
the title changes nothing. In row and window the three ways to end are one, "over". One
stop is under way at a time. `hidden` remembers objects that were pushed out of `active`
by another start.

A tick of the trigger is one program (`tick[t].pc`): list, read the board, wait for the start
it asked for, save. `RunMoves` ties the awaited start to its tick. The timer does not wait for
the tick before, so any number of `Ticks` may be under way; one that begins beside another is
counted as an upset, `"overlap"`. Windows land (`AddDoc`), leave (`RemoveDoc`, also when they
lose their kind) and come back under their id (`RestoreDoc`); `landed` counts how often each
landed, and `crowded` remembers whether there were more at once than `MAX_SEEN`. Starts by
schedule are left out, and so are graphs that `graphProblem` refuses, who may run a workflow,
what steps compute and the cards they leave.

## 3. Runs

| Run | Instance | Shows |
|---|---|---|
| `approvals` | 2 handlers, 1 row, 2 agents, 2 modules, every initial equipment, fair | all safety properties, that the rows implement `OneShotPermission`, and that no handler waits for ever |
| `ylog` | 1 process, 1 compaction at a time, 1 reader, 3 changes by 2 actors | durability, order, authorship, exact rebuilds, complete history |
| `ylog_overlap` | 1 process, 2 compactions | *violated*: a committed change is lost (finding 1) |
| `ylog_load` | 1 process, 1 compaction, 1 load | *violated*: a load misses stored rows (finding 2) |
| `plans` | 1 plan of 2 jobs, 2 tries, 2 kinds of items, 1 restart, 1 failed read or save | what a plan says is true, stays, and cut-off work is not repeated |
| `plans_two` | 2 plans of 2 persons, of 1 job, for 1 place, 1 restart that lists 1 row, fair | no open plan that is listed is forgotten, each of them ends |
| `plans_stop` | 1 plan of 1 job, 1 restart | *violated*: agents work on a stopped plan (finding 3) |
| `tasks` | a squad of 2 tasks for one sub-agent, an earlier report in the same words, 2 polls and the recovery, 2 places, 1 upset | one runner, none left behind, the squad reported, the rows implement `TaskBoard` |
| `family` | cap of 2 wake-ups, 2 workers, the poll and the recovery of the start, 1 task, 1 upset, fair | the cap, answers once and after the work, the thread dies |
| `schedules` | 1 schedule that fires twice, 1 call elsewhere, 1 poll and the recovery, 2 places, 1 upset, fair | a call goes out once, a due time leads to one run, what fired is settled |
| `workflows` | a check and a review, 2 run objects, 2 rows, 3 presses of Run or Stop, 1 upset | steps follow the graph, no unapproved review is passed, running is real |
| `workflow_triggers` | 1 step, 2 windows that land up to twice each, 2 ticks, 2 run objects, 4 rows, no press of Run, 2 upsets, fair | types, a window is handed once per landing and once more at most per crash, error, edit and overlap, every window is handed |

An *upset* is a crash, a failed query, an edit, retry or removal by hand, a recovery that comes
late, or a tick that overlaps another; each run with upsets meets each of its kinds, as many in
one behaviour as the table says. `MCWorkflowRuns` also evaluates the assumption
`RunOrderSorts`: over every graph of three nodes, with each line drawn once or twice,
`RunOrder` lists each node once and after all that feed it, or, when the graph loops, not all
of them.

*Why these bounds.* The races of the approvals need two parties that overtake each other's
statements; a second agent makes two selections that lock add-ons in different orders, and the
proofs cover any number. In the log, loss, disorder and inexact rebuilds show with one row kept
(`MaxRows = 1`) and three changes: one folded, one kept, one arriving meanwhile. For plans, two
jobs separate "this one" from "later ones", two tries are the code's `MAX_ATTEMPTS`, two kinds
of items allow one to be ticked while the other fails, one restart is one recovery, and two
plans for one place make one of them wait. Two tasks of one squad for one sub-agent let
`task_done` end the wrong one and let two ends race to the report. A cap of two wake-ups with
`MaxWakes = 4` leaves room for one more than the guards may let through, so that bound never
cuts a behaviour off. A late recovery is explored with `MaxLateWakes = 1` row: it needs the one
wake-up that is under way, and with a second wake-up the run takes longer than it may, so that
a late recovery beside two wake-ups, or together with a crash, is left to the proofs, and
`ThreadDies` is not checked there. A
recovery that lists one of two open plans (`RecoverLimit = 1`) leaves one out; one earlier
report of the same words (`EarlierMail`) can stand for the squad's. Two firings of one schedule
give it a link to an older run. Two run objects are one that a start or a stop overtakes; the
graph has its last node listed before the review that may feed it, so order and listing differ;
two windows are one that lands before and one that lands after a tick has read the board,
landing twice (`MaxLandings`) is leaving and coming back, two `Ticks` are one that the next
overtakes, and two upsets are an overlap or a restart with a window that leaves. Bounds on
counters: `MaxLives` (restarts), `MaxFaults` (failed queries), `MaxUpdates` (changes),
`MaxUpsets`, `MaxAsks` (presses), `MaxRuns`, `MaxWakes` and `MaxLateWakes` (rows),
`MaxLandings`; the sizes of `Plans`, `Approvals`, `Firings` and `Docs` bound how many are ever
asked for.

`CHECK_DEADLOCK FALSE`: when every plan, task, wake-up or run is settled and nothing more is
asked for, nothing is to be done, and a finite instance stops there. `approvals`, the three
log runs and `schedules` are checked for deadlock.

*Exemptions in the properties.* `NotRunTwice`, `NoPlanForgotten` and `CutOffHasNoTicks` speak
of behaviours without failed saves (`faults = 0`): the code logs a failed save and goes on.
`NoPlanForgotten` and `PlansEnd` exempt plans beyond the rows that the recovery listed
(`missed`): with more than 50 open plans at a restart, nobody takes the others up before the
next one. `OneRunner` exempts a task that a late recovery took or a person set by hand,
`NoOrphans` certain errors; `SucceededIsNotRerun` and `ReportsWhenChildrenEnded` exempt a
wake-up that a late recovery of the start took from under its worker, which puts it into two
hands, and certain errors. `SquadReported` speaks of a quiet system and lets an earlier report
of the same label and counts stand for the squad's own, since the code stores no second one.
`HandedOnce` allows one more run of a window for each crash, failed query, edit and overlapping
tick, and none when nothing of this happens; it exempts boards with more windows than the
trigger remembers. `RunningIsReal` (its second half) speaks of a quiet system. Each exemption
is a behaviour of the code that the model has and that nothing in the code promises to prevent.

*Deadlocks.* A handler of `approvals` that waits for a lock in the model waits for ever where
Postgres would find the cycle and abort one transaction: `HandlersEnd` says that there is no
cycle, not what becomes of one.

*Fairness.* `approvals` assumes strong fairness of each handler's next step: awaited queries
answer, and Postgres hands a contended lock to its waiters in turn, so a step that is enabled
again and again happens. Starting a handler is never assumed. `plans_two` assumes weak fairness
of each run's next step or save (turns, test runs and model calls have time limits), of the
start after an INSERT and the rest of a stop (plain continuations), and of the recovery:
`recoverOnce` is called by the first request for plans, so this last one is the person's part.
`family`: the timers fire, the recovery of the start goes on, queries and model calls return,
the calls that insert tasks return, and tasks end, which is the task worker's part.
`schedules`: the same for ticks, polls and executions; and a pending run of a schedule is
claimed in the end (strong fairness), because the queue is claimed oldest first and a deferred
call is not looked at again for a while. `workflow_triggers`: some run goes on if one can, and
so does each tick. Stops, answers, edits, restarts and errors are never assumed to happen.

## 4. Proofs

All theorems hold for every value of the constants, from the named assumptions of the
modules (`ModulesAssumption`, `RequestsAssumption`, `NoneAssumption`, `BoundsAssumption`,
`JobsAssumption`, `ChecklistsAssumption`, `TasksAssumption`, `SquadsAssumption`,
`WakesAssumption`, `CardsAssumption`, `SchedulesAssumption`, `TriggersAssumption`), which
only say what kind of thing a constant is. `WorkflowAssumption` also says that ids are unique,
that edges join nodes, and that the graph may run: `runOrder` lists as many nodes as there are,
which is what `graphProblem` checks before a start.

*ToolApprovals.* Type correctness and the properties above follow from one inductive
invariant. The properties alone are not inductive: a handler between two statements acts
on what it read, so the invariant says for each program point what the handler still
knows and which locks protect that knowledge (the package lock from the lookup of a
request to its INSERT, the row lock from the staleness check to the claim, the claimed
revision from the claim to the receipt). The proof has one lemma per direction: a
handler's own step brings it to the knowledge of its next point, and no step of another
handler takes knowledge away. From there: `RunsAtMostOnce`, `InstalledWhileUsed`,
`InsertNeverConflicts`, `ReceiptNeverStale`, `DecisionsAreFinal`, that one handler at most
executes a row, and the refinement of `OneShotPermission` (each step maps to a step of the
tickets or to a stutter).

*YUpdateLog.* Order and authorship follow from an invariant on batch and chain: what a
process still has to write arrived in chain order and after everything it has written,
and a row's seq is below the next one. `BaseMonotone` is the guard of `writeBase` for any
number of compactions. `Durability` has the hypotheses "one process" and "no two
compactions" in its statement, because without the second it is false (finding 1); its
invariant says that no row yet to come falls into the part being folded, and that the
fold holds all of that part. `ReadsSeeTheBoard` has the same hypotheses and adds `Faithful` to
that invariant: a written change is in one place, in the base or in one row after it (`Kept`),
and a compaction about to write holds no row after its cut (`Folded`), so a base never has more
than the rows it stands for; once its flush is over, what a read awaited is written or has
failed (`Awaited`); every seq was drawn for a batch of its own (`Drawn`), so the bound on
changes is also one on seqs and a read up to it is a read to now; and from its first query on, a
read that no compaction overtook has the base, then the rows after it (`Reading`).

*PlanRunner.* `FinishedPlansStay` needs that a plan not inserted yet has no row; all other
writes look at the row first. `DoneIsChecked` follows every copy of a plan (row, run, save in
flight, stop, recovery list): each copy that says "done" has everything ticked, and a run that
can still change its plan does not say "done" yet. `PlanInv` adds types and that all these
copies are in order (`OrderInv`): jobs before one that has begun are done, what is settled has
nothing open, and a run knows at each await which job it is at and that later items of the
round come up later. From it follow `PlanTypes` and `JobsSettle`, failed saves or not. The
other three properties hold as long as no save fails, and need `FaultlessInv`: which of the
copies of a plan are ahead of its row and which behind it. A plan is in one place (the queue, a
run, the call of its start, the recovery list, `Places`), an open row is in the server's hands
unless the recovery left it out (`missed`), and a run is ahead of it only by the save in flight
or by the job it is handing off (`Held`, `Ahead`), a stop in flight agrees with the row on what
has ended (`Stopping`), and a job that waits has had no turn, while the one a run is at had
turns in this life only (`Turned`).

*AgentTasks.* `TasksInv` says who holds what: whoever is at work has a task that exists
(`HandsKnown`); without a late requeue, a queued task is in nobody's hands and any other in one
pair (`AloneInv`); a runner lets go only of a task that has ended (`OrphanInv`); and when all
tasks of a squad have ended, some mail has the words of its report or some runner is about to
look at the batch or to report all of it (`ReportInv`). The last is why the report cannot fall
between two ends that race: the later of the two still has its look before it. The refinement
of `TaskBoard` uses that a runner marks with nothing but the two ways to end, and that a
recovery and a claim look at the status in their UPDATE.

*AgentWakeups.* Beside types and who works on what, `FamilyInv` counts the workers that are
past the guard but before their INSERT into the cap (`CapInv`), gives a wake-up in progress one
pair of hands and makes a succeeded run wait only for its mark, by its worker or by a recovery
that has not passed its first UPDATE (`DoneInv`), has nobody at work before some recovery is
through (`RecoveryInv`), lets one worker be in an agent's turn, also with errors, as long as
nobody retries (`TurnInv`), ties a squad being inserted to the turn that waits for it
(`SquadInv`), and has everything ended once the answer is on its way (`ChildrenInv`).

*CardRuns and Schedules.* `CardsInv`: a call that waits was not sent unless the relay has it,
and is in one pair of hands. Its lemmas speak of single steps and are used again in the
composition, where `SchedulesInv` adds that a link is to a run of the present due time
(`LinkInv`), that whatever may still fire has a setting to active left for it (`FireInv`), and
that what a tick takes for a success is one (`DoneInv`).

*Workflows.* `IInv`: every run object is sound (`AllSound`: without a row it has done nothing,
what follows its publishing fits its status, it is never about to run a review, and only the
node it stands at waits), every settled review in an object or in a row that waits was approved
for that row, in which one review waits (`ReviewsInv`), what Stop reaches is under way
(`InReach`), and what says running belongs to an object on its way (`GhostInv`). That `Walk`
stops at the first review needs that a nonempty set of places has a least element, which the
library's theorem on well-founded relations gives. `BalanceInv` counts for `HandedOnce`: each
tick under way has a role towards a window (`Roles`: nothing to do with it; `"calm"`, knows it
but would save a list without it if it left now; `"harm"`, will count it as unseen; `"hand"`,
starts a run for it; `"safe"`, will save it). The runs that a window was handed to, the starts
under way for it and an arming of the trigger that does not know it come to no more than its
landings and the upsets; while it is on the board, so do they together with the ticks that harm
it, or with one more when only the trigger does not know it; and all of these with the calm
ones come to one more at most, as a landing is counted when it is back. Each step takes a tick
from one role to another for no more than it adds (`TickTurns`, `OthersTurn`). An object that a
tick waits for is moved by nothing else (`WaitInv`), and short of a crowd no list is cut off
(`SizeInv`).

`RunsFollowTheirGraph` adds `PathInv` to `IInv`: the nodes before the place of a run object are
settled, and skipped exactly when nothing live reached them; those behind it are untouched; a
check has a way and nothing else has one (`Ways`); and a row that waits does so at one review, so
that an answer takes the run up where it stood. That a step waits for all that feeds it rests on
the order: `RunOrderIsRight` proves of `runOrder`, for every graph, that it lists a node once and
after everything that feeds it, and that it leaves out nodes only where no such order exists. Its
invariant `Taking` says that what is listed or ready is exactly what misses nothing but listed
nodes. `Taken` and `Picked` are recursive functions, and the library's induction cannot be used
(its theorems take operators); `TakenExists` and `PickedExists` prove that they are defined, and
all three inductions go by the least number at which something would fail (`HasLeast`).

*Only model-checked.* Liveness (`HandlersEnd`, `PlansEnd`, `ThreadDies`, `ScheduleSettles`,
`EveryDocHanded`), which is out of this prover's reach, and the violated properties. Every
invariant and action property of the passing runs is also a theorem; those about the log with
one process have that as a hypothesis.

## 5. Findings

1. **Overlapping compactions lose rows** (`ylog_overlap`, `yUpdateLog.js:151`). The guard of
   `writeBase` compares sequence numbers only. A compaction that read the old base, but
   the rows only after another one replaced the base and deleted its prefix, passes the
   guard and writes a base without that prefix.
2. **A load can miss stored rows** (`ylog_load`, `yUpdateLog.js:103`). Base and rows are two
   queries; a compaction between them moves rows from one to the other.
3. **A stopped plan can run on** (`plans_stop`, `runner.js:148`). A stop that finds the plan
   neither run nor queued saves it as stopped, but does not keep it from being started by
   `createPlan` or the recovery while that save is in flight. The run's own saves are then
   refused without its noticing.

## 6. Plan

Done: `ToolApprovals`, `YUpdateLog`, `PlanRunner`, `AgentTasks` and `AgentWakeups` with
`TaskBoard` between them, `CardRuns` and `Schedules`, `WorkflowRuns` and `WorkflowTriggers`,
each with an instance and proofs.

Left, in this order:

1. `WorkspaceState` (compare-and-set, merge, delete) refining an atomic register with a log of
   events; the hazard of a revision that starts over belongs there. Then `WorkspaceHub`.
2. `YPersistence`: the migration and failed loads on top of `YUpdateLog`, and two processes
   with a slow INSERT.
3. Starts of workflows by schedule; polls of the wake-up worker that overlap.
4. CLI tasks and todo dispatch, as further instances of a queue with a worker; the Jules
   decision table; share links.
