--------------------------- MODULE AgentTasksProofs ---------------------------
(***************************************************************************)
(* Proofs about AgentTasks: types, that no task is run twice, that none is *)
(* left behind, that a squad is reported, and that the rows behave as      *)
(* TaskBoard says.                                                         *)
(***************************************************************************)
EXTENDS AgentTasks, FiniteSetTheorems, TLAPS

CallerRow == [pc : {"idle", "recover", "recovered", "claim", "claimed"}, task : Tasks \cup {NoTask}]
RunnerRow == [pc : RunnerPCs, task : Tasks \cup {NoTask}, on : Tasks \cup {NoTask},
              told : BOOLEAN, rows : SUBSET Tasks]

\* Whoever is at work has a task that exists; a squad that is dispatched has tasks.
HandsKnown ==
  /\ \A c \in Callers : caller[c].pc = "claimed" => caller[c].task \in Tasks /\ task[caller[c].task] # "none"
  /\ \A r \in Slots : runner[r].pc # "free" => runner[r].task \in Tasks /\ task[runner[r].task] # "none"
  /\ \A r \in Slots : runner[r].pc \notin {"free", "work"} => runner[r].on \in Tasks /\ task[runner[r].on] # "none"
  /\ \A r \in Slots : runner[r].pc \in {"check", "report"} => runner[r].on = runner[r].task
  /\ \A q \in Squads : dispatch[q] # "no" => TasksOf(q) # {}

TasksTyping == TasksTypeOK /\ HandsKnown

Alone(t) ==
  /\ \A c \in Callers, r \in Slots : ~(CallerHas(c, t) /\ RunnerHas(r, t))
  /\ \A c, d \in Callers : CallerHas(c, t) /\ CallerHas(d, t) => c = d
  /\ \A r, s \in Slots : RunnerHas(r, t) /\ RunnerHas(s, t) => r = s

\* What waits is in nobody's hands, and what runs in one pair.
AloneInv ==
  ~lateRequeue /\ upsets["edit"] = 0 =>
    \A t \in Tasks : Alone(t) /\ (task[t] \in {"none", "queued"} => ~Held(t))

\* A runner lets go of a task that has ended; what a recovery left in progress is held.
OrphanInv ==
  upsets["edit"] = 0 =>
    /\ \A r \in Slots : runner[r].pc \in {"check", "report"} => task[runner[r].task] \in Ended
    /\ upsets["error"] = 0 /\ (requeued \/ \E c \in Callers : caller[c].pc = "recovered")
         => \A t \in Tasks : task[t] = "in_progress" => Held(t)

\* While nothing goes wrong, what is in progress, and what task_done found so, is held.
HandInv ==
  Quiet =>
    /\ \A t \in Tasks : task[t] = "in_progress" => Held(t)
    /\ \A r \in Slots : runner[r].pc = "mark" => task[runner[r].on] \in Ended \/ Held(runner[r].on)

\* Who holds a task of the squad reports it, once all have ended: only a runner that saw the
\* squad before its last task was there does not.
Reporting(t) ==
  \/ \E c \in Callers : CallerHas(c, t)
  \/ \E r \in Slots : RunnerHas(r, t) /\ (runner[r].pc = "report" => runner[r].rows = TasksOf(SquadOf[t]))
Said(q) == \E m \in mail : SameWords(m, [squad |-> q, all |-> Cardinality(TasksOf(q))])
AllEnded(q) == TasksOf(q) # {} /\ \A t \in TasksOf(q) : task[t] \in Ended
ReportInv == Quiet => \A q \in Squads : AllEnded(q) => Said(q) \/ \E t \in TasksOf(q) : Reporting(t)

TasksInv == TasksTyping /\ AloneInv /\ OrphanInv /\ HandInv /\ ReportInv

-----------------------------------------------------------------------------
LEMMA BootingTyping ==
  /\ Booting \in [Callers -> CallerRow]
  /\ \A c \in Callers : Booting[c].pc \notin {"claimed", "recovered"}
<1>1. \A c \in Callers : Booting[c] = Idle \/ Booting[c] = [pc |-> "recover", task |-> NoTask]
  BY DEF Booting, Idle
<1> QED BY <1>1 DEF Booting, Idle, CallerRow

LEMMA UpsetCounts ==
  ASSUME upsets \in [Trouble -> Nat], NEW k \in Trouble, Upset(k)
  PROVE  /\ upsets' \in [Trouble -> Nat]
         /\ upsets'[k] # 0 /\ ~Quiet'
         /\ \A j \in Trouble : j # k => upsets'[j] = upsets[j]
<1>1. upsets' = [upsets EXCEPT ![k] = upsets[k] + 1] /\ upsets[k] \in Nat
  BY DEF Upset
<1>2. upsets'[k] = upsets[k] + 1
  BY <1>1
<1>3. upsets'[k] # 0
  BY <1>1, <1>2
<1>4. ~Quiet'
  BY <1>3 DEF Quiet
<1> QED BY <1>1, <1>3, <1>4

LEMMA TasksInitInv == TasksInit => TasksInv
<1> SUFFICES ASSUME TasksInit PROVE TasksInv
  OBVIOUS
<1>1. TasksTypeOK
  BY BootingTyping, TasksAssumption DEF TasksInit, TasksTypeOK, CallerRow, Free, RunnerPCs, Statuses
<1>2. HandsKnown
  BY BootingTyping DEF TasksInit, HandsKnown, Free
<1>3. AloneInv
  BY BootingTyping DEF TasksInit, AloneInv, Alone, Held, CallerHas, RunnerHas, Free
<1>4. OrphanInv
  BY BootingTyping DEF TasksInit, OrphanInv, Free
<1>5. HandInv
  BY DEF TasksInit, HandInv, Free
<1>6. ReportInv
  BY DEF TasksInit, ReportInv, AllEnded, Ended, TasksOf
<1> QED BY <1>1, <1>2, <1>3, <1>4, <1>5, <1>6 DEF TasksInv, TasksTyping

-----------------------------------------------------------------------------
\* No task disappears.
LEMMA TasksStay ==
  ASSUME TasksTyping, TasksNext
  PROVE  \A t \in Tasks : task[t] # "none" => task'[t] # "none"
<1> DEFINE Stays == \A t \in Tasks : task[t] # "none" => task'[t] # "none"
<1> USE DEF TasksTyping, TasksTypeOK
<1>1. ASSUME NEW t \in Tasks, InsertTask(t) PROVE Stays
  BY <1>1 DEF InsertTask
<1>2. ASSUME NEW c \in Callers, Requeue(c) PROVE Stays
  BY <1>2 DEF Requeue
<1>3. ASSUME NEW c \in Callers, NEW t \in Tasks, Claim(c, t) PROVE Stays
  BY <1>3 DEF Claim
<1>4. ASSUME NEW r \in Slots, AgentGone(r) PROVE Stays
  BY <1>4 DEF AgentGone
<1>5. ASSUME NEW r \in Slots, NEW end \in Ended, EndTask(r, end) PROVE Stays
  BY <1>5 DEF EndTask, Ended
<1>6. ASSUME NEW r \in Slots, MarkDone(r) PROVE Stays
  BY <1>6 DEF MarkDone
<1>7. ASSUME NEW t \in Tasks, NEW s \in Statuses, Edit(t, s) PROVE Stays
  BY <1>7 DEF Edit, Statuses, Terminal, Ended
<1>8. CASE UNCHANGED task
  BY <1>8
<1> QED
  BY <1>1, <1>2, <1>3, <1>4, <1>5, <1>6, <1>7, <1>8
  DEF TasksNext, TasksStep, TasksTrouble, Call, Run, Dispatching, TasksCrash, DispatchSquad, DispatchReturns,
      PollStarts, Recovered, NothingToClaim, StartRunner, FindTask, CheckBatch, Report, RecoveryFails,
      ClaimFails, CheckFails, TasksOf

RunnerKnown(row, rows) ==
  /\ row \in RunnerRow
  /\ row.pc # "free" => row.task \in Tasks /\ rows[row.task] # "none"
  /\ row.pc \notin {"free", "work"} => row.on \in Tasks /\ rows[row.on] # "none"
  /\ row.pc \in {"check", "report"} => row.on = row.task

CallerKnown(row, rows) ==
  /\ row \in CallerRow
  /\ row.pc = "claimed" => row.task \in Tasks /\ rows[row.task] # "none"

Others ==
  /\ dispatch \in [Squads -> {"no", "inserting", "over"}]
  /\ requeued \in BOOLEAN
  /\ mail \subseteq Reports
  /\ \A q \in Squads : dispatch[q] # "no" => TasksOf(q) # {}
  /\ lateRequeue \in BOOLEAN
  /\ upsets \in [Trouble -> Nat]

LEMMA TasksTypingParts ==
  TasksTyping <=> /\ task \in [Tasks -> Statuses \cup {"none"}]
                  /\ caller \in [Callers -> CallerRow] /\ \A c \in Callers : CallerKnown(caller[c], task)
                  /\ runner \in [Slots -> RunnerRow] /\ \A r \in Slots : RunnerKnown(runner[r], task)
                  /\ Others
  BY DEF TasksTyping, TasksTypeOK, HandsKnown, CallerRow, RunnerRow, CallerKnown, RunnerKnown, Others

LEMMA TasksTypingPartsNext ==
  TasksTyping' <=> /\ task' \in [Tasks -> Statuses \cup {"none"}]
                   /\ caller' \in [Callers -> CallerRow] /\ \A c \in Callers : CallerKnown(caller'[c], task')
                   /\ runner' \in [Slots -> RunnerRow] /\ \A r \in Slots : RunnerKnown(runner'[r], task')
                   /\ Others'
  BY DEF TasksTyping, TasksTypeOK, HandsKnown, CallerRow, RunnerRow, CallerKnown, RunnerKnown, Others,
         TasksOf

\* Rows for the callers and runners that a step leaves alone, or gives a new row.
LEMMA CallersTyped ==
  ASSUME TasksTyping, \A t \in Tasks : task[t] # "none" => task'[t] # "none",
         \/ UNCHANGED caller
         \/ caller' = Booting
         \/ \E c \in Callers, row \in CallerRow :
              CallerKnown(row, task') /\ caller' = [caller EXCEPT ![c] = row]
  PROVE  caller' \in [Callers -> CallerRow] /\ \A c \in Callers : CallerKnown(caller'[c], task')
<1>1. caller \in [Callers -> CallerRow] /\ \A c \in Callers : CallerKnown(caller[c], task')
  BY TasksTypingParts DEF CallerKnown
<1>2. CASE caller' = Booting
  BY <1>2, BootingTyping DEF CallerKnown
<1>3. ASSUME NEW d \in Callers, NEW row \in CallerRow,
             CallerKnown(row, task'), caller' = [caller EXCEPT ![d] = row]
      PROVE  caller' \in [Callers -> CallerRow] /\ \A c \in Callers : CallerKnown(caller'[c], task')
  BY <1>1, <1>3
<1> QED BY <1>1, <1>2, <1>3

LEMMA RunnersTyped ==
  ASSUME TasksTyping, \A t \in Tasks : task[t] # "none" => task'[t] # "none",
         \/ UNCHANGED runner
         \/ runner' = [r \in Slots |-> Free]
         \/ \E r \in Slots, row \in RunnerRow :
              RunnerKnown(row, task') /\ runner' = [runner EXCEPT ![r] = row]
  PROVE  runner' \in [Slots -> RunnerRow] /\ \A r \in Slots : RunnerKnown(runner'[r], task')
<1>1. runner \in [Slots -> RunnerRow] /\ \A r \in Slots : RunnerKnown(runner[r], task')
  BY TasksTypingParts DEF RunnerKnown
<1>2. CASE runner' = [r \in Slots |-> Free]
  BY <1>2 DEF RunnerKnown, Free, RunnerRow, RunnerPCs
<1>3. ASSUME NEW s \in Slots, NEW row \in RunnerRow,
             RunnerKnown(row, task'), runner' = [runner EXCEPT ![s] = row]
      PROVE  runner' \in [Slots -> RunnerRow] /\ \A r \in Slots : RunnerKnown(runner'[r], task')
  BY <1>1, <1>3
<1> QED BY <1>1, <1>2, <1>3

\* The step of a caller.
LEMMA CallerMoves ==
  ASSUME TasksTyping, \A t \in Tasks : task[t] # "none" => task'[t] # "none",
         NEW c \in Callers,
         \/ PollStarts(c) \/ Requeue(c) \/ Recovered(c) \/ NothingToClaim(c) \/ RecoveryFails(c)
         \/ ClaimFails(c)
         \/ \E t \in Tasks : Claim(c, t)
         \/ \E r \in Slots : StartRunner(c, r)
  PROVE  caller' \in [Callers -> CallerRow] /\ \A d \in Callers : CallerKnown(caller'[d], task')
<1>1. caller \in [Callers -> CallerRow] /\ caller[c] \in CallerRow
  BY TasksTypingParts
<1>2. ASSUME NEW pc \in {"recover", "recovered", "claim", "idle"},
             caller' = [caller EXCEPT ![c].pc = pc]
      PROVE  caller' \in [Callers -> CallerRow] /\ \A d \in Callers : CallerKnown(caller'[d], task')
  <2> DEFINE row == [caller[c] EXCEPT !.pc = pc]
  <2>1. row \in CallerRow /\ row.pc # "claimed"
    BY <1>1 DEF CallerRow
  <2>2. CallerKnown(row, task') /\ caller' = [caller EXCEPT ![c] = row]
    BY <1>2, <2>1 DEF CallerKnown
  <2> QED BY <2>1, <2>2, CallersTyped
<1>3. ASSUME caller' = [caller EXCEPT ![c] = Idle]
      PROVE  caller' \in [Callers -> CallerRow] /\ \A d \in Callers : CallerKnown(caller'[d], task')
  <2>1. Idle \in CallerRow /\ CallerKnown(Idle, task')
    BY DEF Idle, CallerRow, CallerKnown
  <2> QED BY <1>3, <2>1, CallersTyped
<1>4. ASSUME NEW t \in Tasks, Claim(c, t)
      PROVE  caller' \in [Callers -> CallerRow] /\ \A d \in Callers : CallerKnown(caller'[d], task')
  <2> DEFINE row == [pc |-> "claimed", task |-> t]
  <2>1. task'[t] # "none"
    BY <1>4 DEF Claim
  <2>2. row \in CallerRow /\ CallerKnown(row, task') /\ caller' = [caller EXCEPT ![c] = row]
    BY <1>4, <2>1 DEF Claim, CallerRow, CallerKnown
  <2> QED BY <2>2, CallersTyped
<1>5. PollStarts(c) \/ Requeue(c) \/ Recovered(c) \/ RecoveryFails(c) =>
        \E pc \in {"recover", "recovered", "claim", "idle"} : caller' = [caller EXCEPT ![c].pc = pc]
  BY DEF PollStarts, Requeue, Recovered, RecoveryFails, AfterRecovery
<1> QED BY <1>2, <1>3, <1>4, <1>5 DEF NothingToClaim, ClaimFails, StartRunner

\* The step of a runner.
LEMMA RunnerMoves ==
  ASSUME TasksTyping, \A t \in Tasks : task[t] # "none" => task'[t] # "none",
         NEW r \in Slots,
         \/ MarkDone(r) \/ CheckBatch(r) \/ Report(r) \/ AgentGone(r) \/ CheckFails(r)
         \/ \E end \in Ended : EndTask(r, end)
         \/ \E t \in Tasks : FindTask(r, t)
         \/ \E c \in Callers : StartRunner(c, r)
  PROVE  runner' \in [Slots -> RunnerRow] /\ \A s \in Slots : RunnerKnown(runner'[s], task')
<1> DEFINE Goal == runner' \in [Slots -> RunnerRow] /\ \A s \in Slots : RunnerKnown(runner'[s], task')
           GoesTo(row) == runner' = [runner EXCEPT ![r] = row]
<1>0. runner \in [Slots -> RunnerRow] /\ runner[r] \in RunnerRow /\ RunnerKnown(runner[r], task)
  BY TasksTypingParts
<1>1. Free \in RunnerRow /\ RunnerKnown(Free, task')
  BY DEF Free, RunnerRow, RunnerPCs, RunnerKnown
<1>2. ASSUME runner[r].pc \in {"check", "toldcheck", "report", "toldreport"}, GoesTo(AfterCheck(r)) PROVE Goal
  <2>1. AfterCheck(r) \in RunnerRow /\ RunnerKnown(AfterCheck(r), task')
    <3>1. CASE runner[r].pc \in {"toldcheck", "toldreport"}
      <4>1. AfterCheck(r) = [runner[r] EXCEPT !.pc = "work", !.on = NoTask]
        BY <3>1 DEF AfterCheck
      <4> QED BY <1>0, <3>1, <4>1 DEF RunnerRow, RunnerPCs, RunnerKnown
    <3>2. CASE runner[r].pc \notin {"toldcheck", "toldreport"}
      BY <1>1, <3>2 DEF AfterCheck
    <3> QED BY <3>1, <3>2
  <2> QED BY <1>2, <2>1, RunnersTyped
<1>3. ASSUME NEW end \in Ended, EndTask(r, end) PROVE Goal
  <2> DEFINE row == [runner[r] EXCEPT !.pc = "check", !.on = runner[r].task]
  <2>1. row \in RunnerRow /\ RunnerKnown(row, task')
    BY <1>0, <1>3 DEF EndTask, RunnerRow, RunnerPCs, RunnerKnown
  <2>2. GoesTo(row)
    BY <1>0, <1>3 DEF EndTask
  <2> QED BY <2>1, <2>2, RunnersTyped
<1>4. ASSUME NEW t \in Tasks, FindTask(r, t) PROVE Goal
  <2> DEFINE row == [runner[r] EXCEPT !.pc = "mark", !.on = t, !.told = TRUE]
  <2>1. row \in RunnerRow /\ RunnerKnown(row, task')
    BY <1>0, <1>4 DEF FindTask, RunnerRow, RunnerPCs, RunnerKnown
  <2>2. GoesTo(row)
    BY <1>0, <1>4 DEF FindTask
  <2> QED BY <2>1, <2>2, RunnersTyped
<1>5. ASSUME MarkDone(r) PROVE Goal
  <2> DEFINE row == [runner[r] EXCEPT !.pc = "toldcheck"]
  <2>1. row \in RunnerRow /\ RunnerKnown(row, task')
    BY <1>0, <1>5 DEF MarkDone, RunnerRow, RunnerPCs, RunnerKnown
  <2>2. GoesTo(row)
    BY <1>0, <1>5 DEF MarkDone
  <2> QED BY <2>1, <2>2, RunnersTyped
<1>6. ASSUME CheckBatch(r) PROVE Goal
  <2> DEFINE seen == Rows(SquadOf[runner[r].on])
             row == IF runner[r].pc = "check" THEN [runner[r] EXCEPT !.pc = "report", !.rows = seen]
                                              ELSE [runner[r] EXCEPT !.pc = "toldreport"]
  <2>1. GoesTo(row) \/ GoesTo(AfterCheck(r))
    <3>1. GoesTo(IF \A t \in seen : task[t] \in Ended THEN row ELSE AfterCheck(r))
      BY <1>6 DEF CheckBatch
    <3> QED BY <3>1
  <2>2. seen \subseteq Tasks
    BY DEF Rows, TasksOf
  <2>3. row \in RunnerRow /\ RunnerKnown(row, task')
    BY <1>0, <1>6, <2>2 DEF CheckBatch, RunnerRow, RunnerPCs, RunnerKnown
  <2>4. GoesTo(row) => Goal
    BY <2>3, RunnersTyped
  <2>5. GoesTo(AfterCheck(r)) => Goal
    BY <1>2, <1>6 DEF CheckBatch
  <2> QED BY <2>1, <2>4, <2>5
<1>7. ASSUME NEW c \in Callers, StartRunner(c, r) PROVE Goal
  <2> DEFINE row == [Free EXCEPT !.pc = "work", !.task = caller[c].task]
  <2>1. caller[c].task \in Tasks /\ task'[caller[c].task] # "none"
    BY <1>7, TasksTypingParts DEF StartRunner, CallerKnown
  <2>2. row \in RunnerRow /\ RunnerKnown(row, task')
    BY <2>1 DEF Free, RunnerRow, RunnerPCs, RunnerKnown
  <2> QED BY <1>7, <2>2, RunnersTyped DEF StartRunner
<1>8. ASSUME AgentGone(r) PROVE Goal
  BY <1>1, <1>8, RunnersTyped DEF AgentGone
<1> QED BY <1>2, <1>3, <1>4, <1>5, <1>6, <1>7, <1>8 DEF Report, CheckFails

LEMMA TaskTyped ==
  ASSUME TasksTyping, TasksNext
  PROVE  task' \in [Tasks -> Statuses \cup {"none"}]
<1> USE DEF TasksTyping, TasksTypeOK
<1>1. ASSUME NEW t \in Tasks, NEW s \in Statuses, task' = [task EXCEPT ![t] = s]
      PROVE  task' \in [Tasks -> Statuses \cup {"none"}]
  BY <1>1
<1>2. ASSUME NEW c \in Callers, Requeue(c) PROVE task' \in [Tasks -> Statuses \cup {"none"}]
  BY <1>2 DEF Requeue, Statuses
<1>3. ASSUME NEW t \in Tasks, InsertTask(t) \/ \E c \in Callers : Claim(c, t)
      PROVE  task' \in [Tasks -> Statuses \cup {"none"}]
  BY <1>1, <1>3 DEF InsertTask, Claim, Statuses
<1>4. ASSUME NEW r \in Slots, AgentGone(r) \/ MarkDone(r) \/ \E end \in Ended : EndTask(r, end)
      PROVE  task' \in [Tasks -> Statuses \cup {"none"}]
  BY <1>1, <1>4 DEF AgentGone, MarkDone, EndTask, Statuses, Terminal, Ended, HandsKnown
<1>5. ASSUME NEW t \in Tasks, NEW s \in Statuses, Edit(t, s)
      PROVE  task' \in [Tasks -> Statuses \cup {"none"}]
  BY <1>1, <1>5 DEF Edit
<1>6. CASE UNCHANGED task
  BY <1>6
<1> QED
  BY <1>2, <1>3, <1>4, <1>5, <1>6
  DEF TasksNext, TasksStep, TasksTrouble, Call, Run, Dispatching, TasksCrash, DispatchSquad, DispatchReturns,
      PollStarts, Recovered, NothingToClaim, StartRunner, FindTask, CheckBatch, Report, RecoveryFails,
      ClaimFails, CheckFails, TasksOf

LEMMA OthersTyped ==
  ASSUME TasksTyping, TasksNext
  PROVE  Others'
<1>1. upsets' \in [Trouble -> Nat]
  <2>1. UNCHANGED upsets \/ \E k \in Trouble : Upset(k)
    BY DEF TasksNext, TasksStep, TasksTrouble, Call, Run, Dispatching, TasksCrash, DispatchSquad,
           DispatchReturns, InsertTask, PollStarts, Recovered, Requeue, Claim, NothingToClaim, StartRunner,
           FindTask, EndTask, MarkDone, CheckBatch, Report, RecoveryFails, ClaimFails, CheckFails, AgentGone,
           Edit, Trouble
  <2> QED BY <2>1, UpsetCounts, TasksTypingParts DEF Others
<1>2. dispatch' \in [Squads -> {"no", "inserting", "over"}] /\ requeued' \in BOOLEAN /\ lateRequeue' \in BOOLEAN
  BY TasksTypingParts
  DEF Others, TasksNext, TasksStep, TasksTrouble, Call, Run, Dispatching, TasksCrash, DispatchSquad,
      DispatchReturns, InsertTask, PollStarts, Recovered, Requeue, Claim, NothingToClaim, StartRunner,
      FindTask, EndTask, MarkDone, CheckBatch, Report, RecoveryFails, ClaimFails, CheckFails, AgentGone, Edit
<1>3. mail' \subseteq Reports
  <2>1. ASSUME NEW r \in Slots, Report(r) PROVE mail' \subseteq Reports
    <3>1. CASE runner[r].pc = "toldreport" \/ UNCHANGED mail
      BY <2>1, <3>1, TasksTypingParts DEF Report, Others
    <3>2. CASE runner[r].pc = "report"
      <4>1. runner[r].rows \subseteq Tasks /\ runner[r].on \in Tasks
        BY <3>2, TasksTypingParts DEF RunnerKnown, RunnerRow
      <4>2. IsFiniteSet(runner[r].rows) /\ SquadOf[runner[r].on] \in Squads
        BY <4>1, TasksAssumption, FS_Subset
      <4>3. Cardinality(runner[r].rows) \in Nat
        BY <4>2, FS_CardinalityType
      <4>4. ReportOf(r) \in Reports
        BY <4>2, <4>3 DEF ReportOf, Reports
      <4> QED BY <2>1, <4>4, TasksTypingParts DEF Report, Others
    <3> QED BY <2>1, <3>1, <3>2 DEF Report
  <2>2. (\E r \in Slots : Report(r)) \/ UNCHANGED mail
    BY DEF TasksNext, TasksStep, TasksTrouble, Call, Run, Dispatching, TasksCrash, DispatchSquad,
           DispatchReturns, InsertTask, PollStarts, Recovered, Requeue, Claim, NothingToClaim, StartRunner,
           FindTask, EndTask, MarkDone, CheckBatch, RecoveryFails, ClaimFails, CheckFails, AgentGone, Edit
  <2> QED BY <2>1, <2>2, TasksTypingParts DEF Others
<1>4. \A q \in Squads : dispatch'[q] # "no" => TasksOf(q) # {}
  <2>1. \A q \in Squads : dispatch'[q] # "no" => dispatch[q] # "no" \/ DispatchSquad(q)
    BY TasksTypingParts
    DEF Others, TasksNext, TasksStep, TasksTrouble, Call, Run, Dispatching, TasksCrash, DispatchSquad,
        DispatchReturns, InsertTask, PollStarts, Recovered, Requeue, Claim, NothingToClaim, StartRunner,
        FindTask, EndTask, MarkDone, CheckBatch, Report, RecoveryFails, ClaimFails, CheckFails, AgentGone, Edit
  <2> QED BY <2>1, TasksTypingParts DEF Others, DispatchSquad
<1> QED BY <1>1, <1>2, <1>3, <1>4 DEF Others, TasksOf

\* Every step keeps the types.
LEMMA TasksStepTyping == TasksTyping /\ TasksNext => TasksTyping'
<1> SUFFICES ASSUME TasksTyping, TasksNext PROVE TasksTyping'
  OBVIOUS
<1>0. \A t \in Tasks : task[t] # "none" => task'[t] # "none"
  BY TasksStay
<1>1. caller' \in [Callers -> CallerRow] /\ \A c \in Callers : CallerKnown(caller'[c], task')
  <2>1. (\E c \in Callers : \/ PollStarts(c) \/ Requeue(c) \/ Recovered(c) \/ NothingToClaim(c)
                            \/ RecoveryFails(c) \/ ClaimFails(c)
                            \/ \E t \in Tasks : Claim(c, t)
                            \/ \E r \in Slots : StartRunner(c, r))
        \/ UNCHANGED caller \/ caller' = Booting
    BY DEF TasksNext, TasksStep, TasksTrouble, Call, Run, Dispatching, TasksCrash, DispatchSquad,
           DispatchReturns, InsertTask, FindTask, EndTask, MarkDone, CheckBatch, Report, CheckFails,
           AgentGone, Edit
  <2> QED BY <1>0, <2>1, CallerMoves, CallersTyped
<1>2. runner' \in [Slots -> RunnerRow] /\ \A r \in Slots : RunnerKnown(runner'[r], task')
  <2>1. (\E r \in Slots : \/ MarkDone(r) \/ CheckBatch(r) \/ Report(r) \/ AgentGone(r) \/ CheckFails(r)
                          \/ \E end \in Ended : EndTask(r, end)
                          \/ \E t \in Tasks : FindTask(r, t)
                          \/ \E c \in Callers : StartRunner(c, r))
        \/ UNCHANGED runner \/ runner' = [r \in Slots |-> Free]
    BY DEF TasksNext, TasksStep, TasksTrouble, Call, Run, Dispatching, TasksCrash, DispatchSquad,
           DispatchReturns, InsertTask, PollStarts, Recovered, Requeue, Claim, NothingToClaim,
           RecoveryFails, ClaimFails, Edit
  <2> QED BY <1>0, <2>1, RunnerMoves, RunnersTyped
<1> QED BY <1>1, <1>2, TaskTyped, OthersTyped, TasksTypingPartsNext

-----------------------------------------------------------------------------
(* No task is run twice at the same time.                                  *)

\* A step that puts no task into new hands.
LetsGo ==
  /\ \A c \in Callers, t \in Tasks : CallerHas(c, t)' => CallerHas(c, t)
  /\ \A r \in Slots, t \in Tasks : RunnerHas(r, t)' => RunnerHas(r, t)
  /\ \A t \in Tasks : task'[t] \in {"none", "queued"} => task[t] \in {"none", "queued"}
  /\ UNCHANGED lateRequeue
  /\ upsets'["edit"] = 0 => upsets["edit"] = 0

LEMMA LetsGoAlone == ASSUME AloneInv, LetsGo PROVE AloneInv'
<1>1. \A t \in Tasks : Held(t)' => Held(t)
  BY DEF LetsGo, Held
<1>2. \A t \in Tasks : Alone(t) => Alone(t)'
  BY DEF LetsGo, Alone
<1> QED BY <1>1, <1>2 DEF AloneInv, LetsGo

\* Callers and runners keep what they have, or let it go.
LEMMA CallerLets ==
  ASSUME TasksTyping, NEW c \in Callers, NEW row, row.pc # "claimed", caller' = [caller EXCEPT ![c] = row]
  PROVE  \A d \in Callers, t \in Tasks : CallerHas(d, t)' => CallerHas(d, t)
  BY DEF CallerHas, TasksTyping, TasksTypeOK

LEMMA RunnerLets ==
  ASSUME TasksTyping, NEW r \in Slots, NEW row, runner' = [runner EXCEPT ![r] = row],
         row.pc = "free" \/ (runner[r].pc # "free" /\ row.task = runner[r].task)
  PROVE  \A s \in Slots, t \in Tasks : RunnerHas(s, t)' => RunnerHas(s, t)
  BY DEF RunnerHas, TasksTyping, TasksTypeOK

\* What a runner does with the task in its hands.
RunnerActs(r) ==
  \/ MarkDone(r) \/ CheckBatch(r) \/ Report(r) \/ AgentGone(r) \/ CheckFails(r)
  \/ \E end \in Ended : EndTask(r, end)
  \/ \E t \in Tasks : FindTask(r, t)

LEMMA RunnerActsLets ==
  ASSUME TasksTyping, NEW r \in Slots, RunnerActs(r)
  PROVE  \A s \in Slots, t \in Tasks : RunnerHas(s, t)' => RunnerHas(s, t)
<1>0. runner \in [Slots -> RunnerRow] /\ runner[r] \in RunnerRow
  BY TasksTypingParts
<1> DEFINE Keeps(row) == row.pc = "free" \/ (runner[r].pc # "free" /\ row.task = runner[r].task)
           Lets == \A s \in Slots, t \in Tasks : RunnerHas(s, t)' => RunnerHas(s, t)
<1>1. ASSUME NEW row, Keeps(row), runner' = [runner EXCEPT ![r] = row] PROVE Lets
  BY <1>1, RunnerLets
<1>2. Free.pc = "free" /\ (AfterCheck(r).pc = "free" \/ AfterCheck(r).task = runner[r].task)
  BY <1>0 DEF AfterCheck, RunnerRow, Free
<1>3. ASSUME MarkDone(r) PROVE Lets
  <2> DEFINE row == [runner[r] EXCEPT !.pc = "toldcheck"]
  <2>1. Keeps(row) /\ runner' = [runner EXCEPT ![r] = row]
    BY <1>0, <1>3 DEF MarkDone, RunnerRow
  <2> QED BY <1>1, <2>1
<1>4. ASSUME CheckBatch(r) PROVE Lets
  <2> DEFINE seen == Rows(SquadOf[runner[r].on])
             row == IF runner[r].pc = "check" THEN [runner[r] EXCEPT !.pc = "report", !.rows = seen]
                                              ELSE [runner[r] EXCEPT !.pc = "toldreport"]
             next == IF \A t \in seen : task[t] \in Ended THEN row ELSE AfterCheck(r)
  <2>1. runner' = [runner EXCEPT ![r] = next] /\ runner[r].pc # "free"
    BY <1>4 DEF CheckBatch
  <2>2. Keeps(row)
    BY <1>0, <2>1 DEF RunnerRow
  <2>3. Keeps(next)
    BY <1>2, <2>1, <2>2
  <2> HIDE DEF next
  <2> QED BY <1>1, <2>1, <2>3
<1>5. ASSUME Report(r) \/ CheckFails(r) \/ AgentGone(r) PROVE Lets
  <2>1. /\ runner[r].pc # "free"
        /\ runner' = [runner EXCEPT ![r] = AfterCheck(r)] \/ runner' = [runner EXCEPT ![r] = Free]
    BY <1>5 DEF Report, CheckFails, AgentGone
  <2> QED BY <1>1, <1>2, <2>1
<1>6. ASSUME NEW end \in Ended, EndTask(r, end) PROVE Lets
  <2> DEFINE row == [runner[r] EXCEPT !.pc = "check", !.on = runner[r].task]
  <2>1. Keeps(row) /\ runner' = [runner EXCEPT ![r] = row]
    BY <1>0, <1>6 DEF EndTask, RunnerRow
  <2> QED BY <1>1, <2>1
<1>7. ASSUME NEW t \in Tasks, FindTask(r, t) PROVE Lets
  <2> DEFINE row == [runner[r] EXCEPT !.pc = "mark", !.on = t, !.told = TRUE]
  <2>1. Keeps(row) /\ runner' = [runner EXCEPT ![r] = row]
    BY <1>0, <1>7 DEF FindTask, RunnerRow
  <2> QED BY <1>1, <2>1
<1> QED BY <1>3, <1>4, <1>5, <1>6, <1>7 DEF RunnerActs

LEMMA ClaimAlone ==
  ASSUME TasksTyping, AloneInv, NEW c \in Callers, NEW q \in Tasks, Claim(c, q)
  PROVE  AloneInv'
<1> USE DEF TasksTyping, TasksTypeOK
<1>1. \A d \in Callers, t \in Tasks : CallerHas(d, t)' <=> IF d = c THEN t = q ELSE CallerHas(d, t)
  BY DEF Claim, CallerHas
<1>2. \A r \in Slots, t \in Tasks : RunnerHas(r, t)' <=> RunnerHas(r, t)
  BY DEF Claim, RunnerHas
<1>3. \A t \in Tasks : task'[t] = IF t = q THEN "in_progress" ELSE task[t]
  BY DEF Claim
<1>4. \A t \in Tasks : t # q => (Held(t)' => Held(t)) /\ (Alone(t) => Alone(t)')
  BY <1>1, <1>2 DEF Held, Alone
<1>5. ~Held(q) => Alone(q)'
  BY <1>1, <1>2 DEF Held, Alone
<1>6. task[q] = "queued" /\ UNCHANGED <<lateRequeue, upsets>>
  BY DEF Claim
<1> QED BY <1>3, <1>4, <1>5, <1>6 DEF AloneInv

LEMMA StartRunnerAlone ==
  ASSUME TasksTyping, AloneInv, NEW c \in Callers, NEW r \in Slots, StartRunner(c, r)
  PROVE  AloneInv'
<1> USE DEF TasksTyping, TasksTypeOK
<1>0. PICK q \in Tasks : q = caller[c].task /\ CallerHas(c, q)
  BY DEF StartRunner, HandsKnown, CallerHas
<1>1. \A d \in Callers, t \in Tasks : CallerHas(d, t)' <=> d # c /\ CallerHas(d, t)
  BY DEF StartRunner, CallerHas, Idle
<1>2. \A s \in Slots, t \in Tasks : RunnerHas(s, t)' <=> IF s = r THEN t = q ELSE RunnerHas(s, t)
  BY <1>0 DEF StartRunner, RunnerHas, Free
<1>3. \A t \in Tasks : (Held(t)' => Held(t)) /\ (Alone(t) => Alone(t)')
  BY <1>0, <1>1, <1>2 DEF Held, Alone
<1> QED BY <1>3 DEF AloneInv, StartRunner

LEMMA RequeueAlone ==
  ASSUME TasksTyping, AloneInv, NEW c \in Callers, Requeue(c)
  PROVE  AloneInv'
<1> USE DEF TasksTyping, TasksTypeOK
<1>1. \A d \in Callers, t \in Tasks : CallerHas(d, t)' => CallerHas(d, t)
  BY DEF Requeue, CallerHas
<1>2. \A r \in Slots, t \in Tasks : RunnerHas(r, t)' <=> RunnerHas(r, t)
  BY DEF Requeue, RunnerHas
<1>3. \A t \in Tasks : (Held(t)' => Held(t)) /\ (Alone(t) => Alone(t)')
  BY <1>1, <1>2 DEF Held, Alone
<1> SUFFICES ASSUME ~lateRequeue', upsets'["edit"] = 0, NEW t \in Tasks
             PROVE  Alone(t)' /\ (task[t] \in {"none", "queued"} => ~Held(t))'
  BY DEF AloneInv
<1>4. ~lateRequeue /\ upsets["edit"] = 0 /\ ~(task[t] = "in_progress" /\ Held(t))
  BY DEF Requeue
<1>5. task'[t] = IF task[t] = "in_progress" THEN "queued" ELSE task[t]
  BY DEF Requeue
<1> QED BY <1>3, <1>4, <1>5 DEF AloneInv

LEMMA TasksStepAlone == ASSUME TasksTyping, AloneInv, TasksNext PROVE AloneInv'
<1> USE DEF TasksTyping, TasksTypeOK
<1>1. ASSUME NEW k \in Trouble, Upset(k) PROVE upsets'["edit"] = 0 => upsets["edit"] = 0
  BY <1>1, UpsetCounts DEF Trouble
<1>2. ASSUME NEW r \in Slots, RunnerActs(r) PROVE AloneInv'
  <2>1. \A s \in Slots, t \in Tasks : RunnerHas(s, t)' => RunnerHas(s, t)
    BY <1>2, RunnerActsLets
  <2>2. UNCHANGED <<caller, lateRequeue>> /\ (UNCHANGED upsets \/ \E k \in Trouble : Upset(k))
    BY <1>2 DEF RunnerActs, MarkDone, CheckBatch, Report, AgentGone, CheckFails, EndTask, FindTask, Trouble
  <2>3. \A t \in Tasks : task'[t] \in {"none", "queued"} => task[t] \in {"none", "queued"}
    BY <1>2 DEF RunnerActs, MarkDone, CheckBatch, Report, AgentGone, CheckFails, EndTask, FindTask, Ended
  <2> QED BY <1>1, <2>1, <2>2, <2>3, LetsGoAlone DEF LetsGo, CallerHas
<1>3. ASSUME NEW c \in Callers,
             PollStarts(c) \/ Recovered(c) \/ NothingToClaim(c) \/ RecoveryFails(c) \/ ClaimFails(c)
      PROVE  AloneInv'
  <2>1. \A d \in Callers, t \in Tasks : CallerHas(d, t)' => CallerHas(d, t)
    BY <1>3 DEF PollStarts, Recovered, NothingToClaim, RecoveryFails, ClaimFails, AfterRecovery, CallerHas,
                Idle
  <2>2. UNCHANGED <<runner, task, lateRequeue>> /\ (UNCHANGED upsets \/ \E k \in Trouble : Upset(k))
    BY <1>3 DEF PollStarts, Recovered, NothingToClaim, RecoveryFails, ClaimFails, Trouble
  <2> QED BY <1>1, <2>1, <2>2, LetsGoAlone DEF LetsGo, RunnerHas
<1>4. ASSUME NEW q \in Squads, DispatchSquad(q) \/ Dispatching(q) PROVE AloneInv'
  <2>1. UNCHANGED <<runner, caller, lateRequeue>> /\ (UNCHANGED upsets \/ \E k \in Trouble : Upset(k))
    BY <1>4 DEF DispatchSquad, Dispatching, InsertTask, DispatchReturns, Trouble
  <2>2. \A t \in Tasks : task'[t] \in {"none", "queued"} => task[t] \in {"none", "queued"}
    BY <1>4 DEF DispatchSquad, Dispatching, InsertTask, DispatchReturns, TasksOf
  <2> QED BY <1>1, <2>1, <2>2, LetsGoAlone DEF LetsGo, RunnerHas, CallerHas
<1>5. ASSUME NEW t \in Tasks, NEW s \in Statuses, Edit(t, s) PROVE AloneInv'
  BY <1>5, UpsetCounts DEF Edit, AloneInv, Trouble
<1>6. CASE TasksCrash
  <2>1. \A t \in Tasks : ~Held(t)' /\ Alone(t)'
    BY <1>6, BootingTyping DEF TasksCrash, Held, Alone, CallerHas, RunnerHas, Free
  <2> QED BY <2>1 DEF AloneInv
<1> QED
  BY <1>2, <1>3, <1>4, <1>5, <1>6, ClaimAlone, StartRunnerAlone, RequeueAlone
  DEF TasksNext, TasksStep, TasksTrouble, Call, Run, RunnerActs

-----------------------------------------------------------------------------
(* No task is left behind.                                                 *)

LEMMA RunnerActsOn ==
  ASSUME TasksTyping, NEW r \in Slots, RunnerActs(r)
  PROVE  /\ \A s \in Slots : s # r => runner'[s] = runner[s]
         /\ runner[r].pc # "free"
         /\ runner'[r].pc # "free" => runner'[r].task = runner[r].task
         /\ runner'[r].pc = "free" => runner[r].pc \in {"check", "report"} \/ AgentGone(r)
         /\ runner'[r].pc \in {"check", "report"}
              => runner[r].pc = "check" \/ \E end \in Ended : EndTask(r, end)
<1> DEFINE Goal(row) == /\ row.pc # "free" => row.task = runner[r].task
                        /\ row.pc = "free" => runner[r].pc \in {"check", "report"} \/ AgentGone(r)
                        /\ row.pc \in {"check", "report"}
                             => runner[r].pc = "check" \/ \E end \in Ended : EndTask(r, end)
<1>0. runner \in [Slots -> RunnerRow] /\ runner[r] \in RunnerRow
  BY TasksTypingParts
<1>1. runner[r].pc # "free" /\ \A s \in Slots : s # r => runner'[s] = runner[s]
  BY <1>0 DEF RunnerActs, MarkDone, CheckBatch, Report, AgentGone, CheckFails, EndTask, FindTask
<1>2. ASSUME MarkDone(r) PROVE Goal(runner'[r])
  BY <1>0, <1>2 DEF MarkDone, RunnerRow
<1>3. ASSUME NEW pc \in {"check", "toldcheck", "report", "toldreport"}, runner[r].pc = pc,
             runner' = [runner EXCEPT ![r] = AfterCheck(r)]
      PROVE  Goal(runner'[r])
  BY <1>0, <1>3 DEF AfterCheck, RunnerRow, Free
<1>4. ASSUME CheckBatch(r) PROVE Goal(runner'[r])
  <2> DEFINE seen == Rows(SquadOf[runner[r].on])
             row == IF runner[r].pc = "check" THEN [runner[r] EXCEPT !.pc = "report", !.rows = seen]
                                              ELSE [runner[r] EXCEPT !.pc = "toldreport"]
  <2>1. runner' = [runner EXCEPT ![r] = IF \A t \in seen : task[t] \in Ended THEN row ELSE AfterCheck(r)]
        /\ runner[r].pc \in {"check", "toldcheck"}
    BY <1>4 DEF CheckBatch
  <2>2. Goal(row)
    BY <1>0, <2>1 DEF RunnerRow
  <2>3. runner' = [runner EXCEPT ![r] = row] \/ runner' = [runner EXCEPT ![r] = AfterCheck(r)]
    BY <2>1
  <2>4. runner' = [runner EXCEPT ![r] = row] => runner'[r] = row
    BY <1>0
  <2> HIDE DEF row, Goal
  <2> QED BY <1>3, <2>1, <2>2, <2>3, <2>4
<1>5. ASSUME Report(r) \/ CheckFails(r) PROVE Goal(runner'[r])
  BY <1>3, <1>5 DEF Report, CheckFails
<1>6. ASSUME AgentGone(r) PROVE Goal(runner'[r])
  BY <1>0, <1>6 DEF AgentGone, Free
<1>7. ASSUME NEW end \in Ended, EndTask(r, end) PROVE Goal(runner'[r])
  BY <1>0, <1>7 DEF EndTask, RunnerRow
<1>8. ASSUME NEW t \in Tasks, FindTask(r, t) PROVE Goal(runner'[r])
  BY <1>0, <1>8 DEF FindTask, RunnerRow
<1>9. Goal(runner'[r])
  BY <1>2, <1>4, <1>5, <1>6, <1>7, <1>8 DEF RunnerActs
<1> QED BY <1>1, <1>9

\* What has ended stays so, and only a claim makes a task run, unless there is an edit.
LEMMA EndedStays ==
  ASSUME TasksTyping, TasksNext, upsets'["edit"] = 0
  PROVE  /\ upsets["edit"] = 0 /\ upsets'["error"] = 0 => upsets["error"] = 0
         /\ upsets["edit"] = 0
         /\ \A t \in Tasks : task[t] \in Ended => task'[t] \in Ended
         /\ \A t \in Tasks : task'[t] = "in_progress"
              => task[t] = "in_progress" \/ \E c \in Callers : Claim(c, t)
<1> USE DEF TasksTyping, TasksTypeOK, Ended
<1>1. UNCHANGED upsets \/ \E k \in Trouble : Upset(k)
  BY DEF TasksNext, TasksStep, TasksTrouble, Call, Run, Dispatching, TasksCrash, DispatchSquad,
         DispatchReturns, InsertTask, PollStarts, Recovered, Requeue, Claim, NothingToClaim, StartRunner,
         FindTask, EndTask, MarkDone, CheckBatch, Report, RecoveryFails, ClaimFails, CheckFails, AgentGone,
         Edit, Trouble
<1>2. upsets["edit"] = 0 /\ (upsets'["error"] = 0 => upsets["error"] = 0)
  BY <1>1, UpsetCounts DEF Trouble
<1>3. ~\E t \in Tasks, s \in Statuses : Edit(t, s)
  BY UpsetCounts DEF Edit, Trouble
<1> DEFINE Goal == \A t \in Tasks : /\ task[t] \in Ended => task'[t] \in Ended
                                    /\ task'[t] = "in_progress"
                                         => task[t] = "in_progress" \/ \E c \in Callers : Claim(c, t)
<1>4. ASSUME NEW t \in Tasks, InsertTask(t) PROVE Goal
  BY <1>4 DEF InsertTask
<1>5. ASSUME NEW c \in Callers, Requeue(c) PROVE Goal
  BY <1>5 DEF Requeue
<1>6. ASSUME NEW c \in Callers, NEW t \in Tasks, Claim(c, t) PROVE Goal
  <2>1. \A u \in Tasks : task'[u] = IF u = t THEN "in_progress" ELSE task[u]
    BY <1>6 DEF Claim
  <2>2. task[t] = "queued"
    BY <1>6 DEF Claim
  <2> QED BY <1>6, <2>1, <2>2
<1>7. ASSUME NEW r \in Slots, AgentGone(r) PROVE Goal
  BY <1>7 DEF AgentGone
<1>8. ASSUME NEW r \in Slots, NEW end \in Ended, EndTask(r, end) PROVE Goal
  BY <1>8 DEF EndTask
<1>9. ASSUME NEW r \in Slots, MarkDone(r) PROVE Goal
  BY <1>9 DEF MarkDone
<1>10. CASE UNCHANGED task
  <2>1. Goal
    BY <1>10
  <2> QED BY <1>2, <2>1
<1>11. Goal \/ UNCHANGED task
  BY <1>3, <1>4, <1>5, <1>6, <1>7, <1>8, <1>9
  DEF TasksNext, TasksStep, TasksTrouble, Call, Run, Dispatching, TasksCrash, DispatchSquad, DispatchReturns,
      PollStarts, Recovered, NothingToClaim, StartRunner, FindTask, CheckBatch, Report, RecoveryFails,
      ClaimFails, CheckFails, TasksOf
<1> QED BY <1>2, <1>10, <1>11

LEMMA ChecksKept ==
  ASSUME TasksTyping, OrphanInv, TasksNext, upsets'["edit"] = 0, NEW r \in Slots,
         runner'[r].pc \in {"check", "report"}
  PROVE  task'[runner'[r].task] \in Ended
<1>1. upsets["edit"] = 0 /\ \A t \in Tasks : task[t] \in Ended => task'[t] \in Ended
  BY EndedStays
<1>2. runner[r].pc \in {"check", "report"} =>
        runner[r].task \in Tasks /\ task[runner[r].task] \in Ended
  BY <1>1 DEF OrphanInv, TasksTyping, HandsKnown
<1>3. CASE runner'[r] = runner[r]
  BY <1>1, <1>2, <1>3
<1>4. ASSUME NEW s \in Slots, RunnerActs(s) PROVE task'[runner'[r].task] \in Ended
  <2>1. CASE s # r
    BY <1>3, <1>4, <2>1, RunnerActsOn
  <2>2. CASE s = r
    <3>1. runner'[r].task = runner[r].task
          /\ (runner[r].pc = "check" \/ \E end \in Ended : EndTask(r, end))
      BY <1>4, <2>2, RunnerActsOn
    <3>2. ASSUME NEW end \in Ended, EndTask(r, end) PROVE task'[runner[r].task] \in Ended
      BY <3>2, TasksTypingParts DEF EndTask, RunnerKnown
    <3> QED BY <1>1, <1>2, <3>1, <3>2
  <2> QED BY <2>1, <2>2
<1>5. ASSUME NEW c \in Callers, NEW s \in Slots, StartRunner(c, s) PROVE runner'[r] = runner[r]
  BY <1>5 DEF StartRunner, Free, TasksTyping, TasksTypeOK
<1>6. ~TasksCrash
  BY DEF TasksCrash, Free
<1>7. (\E s \in Slots : RunnerActs(s)) \/ (\E c \in Callers, s \in Slots : StartRunner(c, s))
      \/ UNCHANGED runner
  BY <1>6 DEF TasksNext, TasksStep, TasksTrouble, Call, Run, Dispatching, DispatchSquad, DispatchReturns,
      InsertTask, PollStarts, Recovered, Requeue, Claim, NothingToClaim, RecoveryFails, ClaimFails, Edit,
      RunnerActs
<1> QED BY <1>3, <1>4, <1>5, <1>7

LEMMA HeldStays ==
  ASSUME TasksTyping, OrphanInv, TasksNext, upsets'["edit"] = 0, upsets'["error"] = 0,
         requeued' \/ \E c \in Callers : caller'[c].pc = "recovered",
         NEW t \in Tasks, task'[t] = "in_progress"
  PROVE  Held(t)'
<1> USE DEF TasksTyping, TasksTypeOK
<1> DEFINE Before == /\ requeued \/ \E c \in Callers : caller[c].pc = "recovered"
                     /\ task[t] = "in_progress"
<1>0. upsets["edit"] = 0 /\ upsets["error"] = 0
  BY EndedStays
<1>1. Before => Held(t)
  BY <1>0 DEF OrphanInv
<1>2. ~Upset("error") /\ ~Upset("edit")
  BY UpsetCounts DEF Trouble
<1>3. ASSUME NEW r \in Slots, RunnerActs(r) PROVE Held(t)'
  <2>1. UNCHANGED <<caller, requeued>>
    BY <1>3 DEF RunnerActs, MarkDone, CheckBatch, Report, AgentGone, CheckFails, EndTask, FindTask
  <2>2. task[t] = "in_progress"
    BY <1>3 DEF RunnerActs, MarkDone, CheckBatch, Report, AgentGone, CheckFails, EndTask, FindTask, Ended
  <2>3. Held(t)
    BY <1>1, <2>1, <2>2
  <2>4. ASSUME NEW c \in Callers, CallerHas(c, t) PROVE Held(t)'
    BY <2>1, <2>4 DEF Held, CallerHas
  <2>5. ASSUME NEW s \in Slots, RunnerHas(s, t) PROVE RunnerHas(s, t)'
    <3>1. CASE s # r
      BY <1>3, <2>5, <3>1, RunnerActsOn DEF RunnerHas
    <3>2. CASE s = r
      <4>1. runner'[r].pc # "free"
        <5>1. runner[r].pc \in {"check", "report"} => task[t] \in Ended
          BY <1>0, <2>5, <3>2 DEF OrphanInv, RunnerHas
        <5>2. ~AgentGone(r)
          BY <2>5, <3>2 DEF AgentGone, RunnerHas
        <5> QED BY <1>3, <2>2, <5>1, <5>2, RunnerActsOn DEF Ended
      <4> QED BY <1>3, <2>5, <3>2, <4>1, RunnerActsOn DEF RunnerHas
    <3> QED BY <3>1, <3>2
  <2> QED BY <2>3, <2>4, <2>5 DEF Held
<1>4. ASSUME NEW c \in Callers, NEW u \in Tasks, Claim(c, u) PROVE Held(t)'
  <2>1. CASE t = u
    BY <1>4, <2>1 DEF Claim, Held, CallerHas
  <2>2. CASE t # u
    <3>1. Before
      BY <1>4, <2>2 DEF Claim
    <3>2. \A d \in Callers : CallerHas(d, t) => CallerHas(d, t)'
      BY <1>4 DEF Claim, CallerHas
    <3>3. \A s \in Slots : RunnerHas(s, t) => RunnerHas(s, t)'
      BY <1>4 DEF Claim, RunnerHas
    <3> QED BY <1>1, <3>1, <3>2, <3>3 DEF Held
  <2> QED BY <2>1, <2>2
<1>5. ASSUME NEW c \in Callers, NEW r \in Slots, StartRunner(c, r) PROVE Held(t)'
  <2>1. Before
    BY <1>5 DEF StartRunner, Idle
  <2>2. \A d \in Callers : CallerHas(d, t) => CallerHas(d, t)' \/ RunnerHas(r, t)'
    BY <1>5 DEF StartRunner, CallerHas, RunnerHas, Free
  <2>3. \A s \in Slots : RunnerHas(s, t) => RunnerHas(s, t)'
    BY <1>5 DEF StartRunner, RunnerHas
  <2> QED BY <1>1, <2>1, <2>2, <2>3 DEF Held
<1>6. ASSUME NEW c \in Callers, PollStarts(c) \/ Recovered(c) \/ NothingToClaim(c) PROVE Held(t)'
  <2>1. Before
    <3>1. task[t] = "in_progress"
      BY <1>6 DEF PollStarts, Recovered, NothingToClaim
    <3>2. CASE Recovered(c)
      BY <3>1, <3>2 DEF Recovered
    <3>3. CASE PollStarts(c) \/ NothingToClaim(c)
      <4>1. UNCHANGED requeued
        BY <3>3 DEF PollStarts, NothingToClaim
      <4>2. \A d \in Callers : caller'[d].pc = "recovered" => caller[d].pc = "recovered"
        <5>1. \A d \in Callers : d # c => caller'[d] = caller[d]
          BY <3>3 DEF PollStarts, NothingToClaim
        <5>2. caller'[c].pc \in {"claim", "recover", "idle"}
          BY <3>3 DEF PollStarts, NothingToClaim, Idle
        <5> QED BY <5>1, <5>2
      <4> QED BY <3>1, <4>1, <4>2
    <3> QED BY <1>6, <3>2, <3>3
  <2>2. \A d \in Callers : CallerHas(d, t) => CallerHas(d, t)'
    BY <1>6 DEF PollStarts, Recovered, NothingToClaim, CallerHas
  <2>3. \A s \in Slots : RunnerHas(s, t) => RunnerHas(s, t)'
    BY <1>6 DEF PollStarts, Recovered, NothingToClaim, RunnerHas
  <2> QED BY <1>1, <2>1, <2>2, <2>3 DEF Held
<1>7. ASSUME NEW q \in Squads, DispatchSquad(q) \/ Dispatching(q) PROVE Held(t)'
  <2>1. UNCHANGED <<caller, runner, requeued>> /\ task[t] = "in_progress"
    BY <1>7 DEF DispatchSquad, Dispatching, InsertTask, DispatchReturns, TasksOf
  <2> QED BY <1>1, <2>1 DEF Held, CallerHas, RunnerHas
<1>8. ~\E c \in Callers : Requeue(c)
  BY DEF Requeue
<1>9. ~TasksCrash
  BY BootingTyping DEF TasksCrash
<1> QED
  BY <1>2, <1>3, <1>4, <1>5, <1>6, <1>7, <1>8, <1>9
  DEF TasksNext, TasksStep, TasksTrouble, Call, Run, RunnerActs, RecoveryFails, ClaimFails, Edit

LEMMA TasksStepOrphan == ASSUME TasksTyping, OrphanInv, TasksNext PROVE OrphanInv'
  BY ChecksKept, HeldStays DEF OrphanInv

-----------------------------------------------------------------------------
(* A squad is reported.                                                    *)

\* In a step after which nothing has gone wrong, nothing went wrong.
LEMMA QuietStep ==
  ASSUME TasksTyping, TasksNext, Quiet'
  PROVE  /\ Quiet /\ upsets'["edit"] = 0 /\ upsets["edit"] = 0
         /\ \A k \in Trouble : ~Upset(k)
         /\ ~TasksCrash /\ ~TasksTrouble
<1>1. \A k \in Trouble : ~Upset(k)
  BY UpsetCounts DEF TasksTyping, TasksTypeOK
<1>2. UNCHANGED upsets
  BY <1>1 DEF TasksNext, TasksStep, TasksTrouble, Call, Run, Dispatching, TasksCrash, DispatchSquad,
     DispatchReturns, InsertTask, PollStarts, Recovered, Requeue, Claim, NothingToClaim, StartRunner,
     FindTask, EndTask, MarkDone, CheckBatch, Report, RecoveryFails, ClaimFails, CheckFails, AgentGone,
     Edit, Trouble
<1> QED BY <1>1, <1>2 DEF Quiet, Trouble, TasksCrash, TasksTrouble, RecoveryFails, ClaimFails, CheckFails,
           AgentGone, Edit

\* A caller hands its task to a runner, which keeps it until the task has ended.
LEMMA CallerHandsOn ==
  ASSUME TasksTyping, TasksNext, Quiet', NEW c \in Callers, NEW t \in Tasks, CallerHas(c, t)
  PROVE  CallerHas(c, t)' \/ \E r \in Slots : RunnerHas(r, t)' /\ runner'[r].pc = "work"
<1> USE DEF TasksTyping, TasksTypeOK
<1>1. CASE caller'[c] = caller[c]
  BY <1>1 DEF CallerHas
<1>2. ASSUME NEW d \in Callers, NEW r \in Slots, StartRunner(d, r), d = c
      PROVE  RunnerHas(r, t)' /\ runner'[r].pc = "work"
  BY <1>2 DEF StartRunner, RunnerHas, CallerHas, Free
<1>3. ASSUME NEW d \in Callers, d # c, Call(d) PROVE caller'[c] = caller[c]
  BY <1>3 DEF Call, PollStarts, Requeue, Recovered, NothingToClaim, Claim, StartRunner
<1>4. Call(c) => \E r \in Slots : StartRunner(c, r)
  BY DEF Call, CallerHas, PollStarts, Requeue, Recovered, NothingToClaim, Claim
<1>5. (\E d \in Callers : Call(d)) \/ UNCHANGED caller
  BY QuietStep DEF TasksNext, TasksStep, Run, Dispatching, DispatchSquad, DispatchReturns, InsertTask,
     FindTask, EndTask, MarkDone, CheckBatch, Report
<1> QED BY <1>1, <1>2, <1>3, <1>4, <1>5

\* What a step does to one runner that has a task.
LEMMA RunnerSteps ==
  ASSUME TasksTyping, TasksNext, Quiet', NEW r \in Slots, runner[r].pc # "free"
  PROVE  runner'[r] = runner[r] \/ (RunnerActs(r) /\ ~AgentGone(r) /\ ~CheckFails(r))
<1> USE DEF TasksTyping, TasksTypeOK
<1>1. ASSUME NEW s \in Slots, RunnerActs(s), s # r PROVE runner'[r] = runner[r]
  BY <1>1, RunnerActsOn
<1>2. ASSUME NEW c \in Callers, NEW s \in Slots, StartRunner(c, s) PROVE runner'[r] = runner[r]
  BY <1>2 DEF StartRunner
<1>3. (\E s \in Slots : RunnerActs(s)) \/ (\E c \in Callers, s \in Slots : StartRunner(c, s))
      \/ UNCHANGED runner
  BY QuietStep DEF TasksNext, TasksStep, Call, Run, Dispatching, DispatchSquad, DispatchReturns,
      InsertTask, PollStarts, Recovered, Requeue, Claim, NothingToClaim, RunnerActs
<1>4. ~AgentGone(r) /\ ~CheckFails(r)
  BY QuietStep DEF AgentGone, CheckFails, Trouble
<1> QED BY <1>1, <1>2, <1>3, <1>4

LEMMA HeldKept ==
  ASSUME TasksTyping, OrphanInv, TasksNext, Quiet', NEW t \in Tasks, Held(t)
  PROVE  Held(t)' \/ task[t] \in Ended
<1>1. ASSUME NEW c \in Callers, CallerHas(c, t) PROVE Held(t)'
  BY <1>1, CallerHandsOn DEF Held
<1>2. ASSUME NEW r \in Slots, RunnerHas(r, t) PROVE Held(t)' \/ task[t] \in Ended
  <2>1. runner[r].pc # "free" /\ runner[r].task = t
    BY <1>2 DEF RunnerHas
  <2>2. runner[r].pc \in {"check", "report"} => task[t] \in Ended
    BY <2>1, QuietStep DEF OrphanInv
  <2>3. runner'[r].pc # "free" => RunnerHas(r, t)'
    BY <2>1, RunnerSteps, RunnerActsOn DEF RunnerHas
  <2>4. runner'[r].pc = "free" => runner[r].pc \in {"check", "report"}
    BY <2>1, RunnerSteps, RunnerActsOn
  <2> QED BY <2>2, <2>3, <2>4 DEF Held
<1> QED BY <1>1, <1>2 DEF Held

LEMMA TasksStepHand == ASSUME TasksTyping, OrphanInv, HandInv, TasksNext PROVE HandInv'
<1> SUFFICES ASSUME Quiet'
             PROVE  /\ \A t \in Tasks : task'[t] = "in_progress" => Held(t)'
                    /\ \A r \in Slots, t \in Tasks : runner'[r].pc = "mark" /\ runner'[r].on = t
                         => task'[t] \in Ended \/ Held(t)'
  BY TasksStepTyping DEF HandInv, Held, CallerHas, RunnerHas, TasksTyping, HandsKnown
<1> USE DEF TasksTyping, TasksTypeOK
<1>0. Quiet /\ upsets'["edit"] = 0
  BY QuietStep
<1>1. \A t \in Tasks : task[t] \in Ended => task'[t] \in Ended
  BY <1>0, EndedStays
<1>2. \A t \in Tasks : Held(t) => Held(t)' \/ task'[t] \in Ended
  BY <1>1, HeldKept
<1>3. ASSUME NEW t \in Tasks, task'[t] = "in_progress" PROVE Held(t)'
  <2>1. task[t] = "in_progress" \/ \E c \in Callers : Claim(c, t)
    BY <1>0, <1>3, EndedStays
  <2>2. CASE task[t] = "in_progress"
    BY <1>0, <1>2, <1>3, <2>2 DEF HandInv, Ended
  <2>3. ASSUME NEW c \in Callers, Claim(c, t) PROVE Held(t)'
    BY <2>3 DEF Claim, Held, CallerHas
  <2> QED BY <2>1, <2>2, <2>3
<1>4. ASSUME NEW r \in Slots, NEW u \in Tasks, runner'[r].pc = "mark", runner'[r].on = u
      PROVE  task'[u] \in Ended \/ Held(u)'
  <2>1. CASE runner'[r] = runner[r]
    <3>1. task[u] \in Ended \/ Held(u)
      BY <1>0, <1>4, <2>1 DEF HandInv
    <3> QED BY <1>1, <1>2, <3>1
  <2>2. ASSUME NEW t \in Tasks, FindTask(r, t) PROVE Held(u)'
    <3>1. runner'[r].on = t /\ task[t] = "in_progress" /\ task'[t] = "in_progress"
      BY <2>2 DEF FindTask
    <3> QED BY <1>3, <1>4, <3>1
  <2>3. runner'[r] = runner[r] \/ \E t \in Tasks : FindTask(r, t)
    <3>1. CASE runner[r].pc = "free"
      <4>1. ASSUME NEW c \in Callers, NEW s \in Slots, StartRunner(c, s) PROVE runner'[r] = runner[r]
        BY <1>4, <4>1 DEF StartRunner, Free
      <4>2. ASSUME NEW s \in Slots, RunnerActs(s) PROVE runner'[r] = runner[r]
        BY <3>1, <4>2, RunnerActsOn
      <4> QED BY <4>1, <4>2, QuietStep DEF TasksNext, TasksStep, Call, Run, Dispatching, DispatchSquad,
        DispatchReturns, InsertTask, PollStarts, Recovered, Requeue, Claim, NothingToClaim, RunnerActs
    <3>2. CASE runner[r].pc # "free"
      <4>1. RunnerActs(r) => \E t \in Tasks : FindTask(r, t)
        <5>1. ~MarkDone(r)
          BY <1>4 DEF MarkDone
        <5>2. ~AgentGone(r) /\ ~CheckFails(r)
          BY QuietStep DEF AgentGone, CheckFails, Trouble
        <5>3. ~CheckBatch(r) /\ ~Report(r)
          <6>1. runner[r] \in RunnerRow /\ AfterCheck(r).pc # "mark"
            BY TasksTypingParts DEF AfterCheck, RunnerRow, Free
          <6>2. CASE Report(r)
            BY <1>4, <6>1, <6>2 DEF Report
          <6>3. CASE CheckBatch(r)
            <7> DEFINE seen == IF runner[r].pc = "check"
                                 THEN [runner[r] EXCEPT !.pc = "report", !.rows = Rows(SquadOf[runner[r].on])]
                                 ELSE [runner[r] EXCEPT !.pc = "toldreport"]
            <7>1. seen.pc # "mark"
              BY <6>1 DEF RunnerRow
            <7>2. runner'[r] = seen \/ runner'[r] = AfterCheck(r)
              BY <6>3 DEF CheckBatch
            <7> QED BY <1>4, <6>1, <7>1, <7>2
          <6> QED BY <6>2, <6>3
        <5>4. \A end \in Ended : ~EndTask(r, end)
          BY <1>4 DEF EndTask
        <5> QED BY <5>1, <5>2, <5>3, <5>4 DEF RunnerActs
      <4> QED BY <3>2, <4>1, RunnerSteps
    <3> QED BY <3>1, <3>2
  <2> QED BY <2>1, <2>2, <2>3
<1> QED BY <1>3, <1>4

\* When the last task of a squad ends somebody holds it who goes on to check the squad.
LEMMA LastOneChecks ==
  ASSUME TasksTyping, OrphanInv, HandInv, TasksNext, Quiet', NEW q \in Squads, AllEnded(q)', ~AllEnded(q)
  PROVE  \E t \in TasksOf(q) : Reporting(t)'
<1> USE DEF TasksTyping, TasksTypeOK
<1>1. PICK t \in TasksOf(q) : task[t] \notin Ended /\ task'[t] \in Ended
  BY DEF AllEnded, TasksOf
<1>2. t \in Tasks /\ SquadOf[t] = q
  BY DEF TasksOf
<1>3. ASSUME NEW r \in Slots, NEW end \in Ended, EndTask(r, end) PROVE Reporting(t)'
  <2>1. runner[r].task = t
    BY <1>1, <1>2, <1>3 DEF EndTask
  <2>2. runner'[r].task = t /\ runner'[r].pc = "check"
    BY <1>3, <2>1 DEF EndTask
  <2> QED BY <2>2 DEF Reporting, RunnerHas
<1>4. ASSUME NEW r \in Slots, MarkDone(r) PROVE Reporting(t)'
  <2>1. runner[r].on = t
    BY <1>1, <1>2, <1>4 DEF MarkDone
  <2>2. Held(t)
    BY <1>1, <1>4, <2>1, QuietStep DEF HandInv, MarkDone
  <2>3. ASSUME NEW c \in Callers, CallerHas(c, t) PROVE CallerHas(c, t)'
    BY <1>4, <2>3 DEF MarkDone, CallerHas
  <2>4. ASSUME NEW s \in Slots, RunnerHas(s, t) PROVE RunnerHas(s, t)' /\ runner'[s].pc # "report"
    <3>1. runner[s].pc \notin {"check", "report"}
      BY <1>1, <2>4, QuietStep DEF OrphanInv, RunnerHas
    <3>2. runner'[s].pc \notin {"free", "report"} /\ runner'[s].task = runner[s].task
      BY <1>4, <2>4, <3>1 DEF MarkDone, RunnerHas
    <3> QED BY <2>4, <3>2 DEF RunnerHas
  <2> QED BY <2>2, <2>3, <2>4 DEF Held, Reporting
<1>5. ~\E c \in Callers : Requeue(c) \/ \E u \in Tasks : Claim(c, u)
  BY <1>1, <1>2 DEF Requeue, Claim, Ended
<1>6. ~\E u \in Tasks : InsertTask(u)
  BY <1>1, <1>2 DEF InsertTask, Ended
<1>7. task' # task
  BY <1>1
<1>8. (\E r \in Slots : MarkDone(r) \/ \E end \in Ended : EndTask(r, end))
  BY <1>5, <1>6, <1>7, QuietStep
  DEF TasksNext, TasksStep, Call, Run, Dispatching, DispatchSquad, DispatchReturns, TasksOf,
      PollStarts, Recovered, NothingToClaim, StartRunner, FindTask, CheckBatch, Report
<1> QED BY <1>3, <1>4, <1>8

\* A runner that holds a task of a squad that has ended goes on until the squad is reported.
LEMMA RunnerReports ==
  ASSUME TasksTyping, TasksNext, Quiet', NEW q \in Squads, AllEnded(q), NEW t \in TasksOf(q),
         NEW r \in Slots, RunnerHas(r, t), runner[r].pc = "report" => runner[r].rows = TasksOf(q)
  PROVE  \/ Said(q)'
         \/ RunnerHas(r, t)' /\ (runner'[r].pc = "report" => runner'[r].rows = TasksOf(q))
<1> USE DEF TasksTyping, TasksTypeOK
<1> DEFINE Goal == \/ Said(q)'
                   \/ RunnerHas(r, t)' /\ (runner'[r].pc = "report" => runner'[r].rows = TasksOf(q))
<1>0. /\ t \in Tasks /\ SquadOf[t] = q
      /\ runner[r].pc # "free" /\ runner[r].task = t /\ runner[r] \in RunnerRow
      /\ runner \in [Slots -> RunnerRow]
  BY TasksTypingParts DEF TasksOf, RunnerHas
<1>1. CASE runner'[r] = runner[r]
  BY <1>1 DEF RunnerHas
<1>2. CASE MarkDone(r) \/ (\E end \in Ended : EndTask(r, end)) \/ \E u \in Tasks : FindTask(r, u)
  <2>1. runner'[r].task = runner[r].task /\ runner'[r].pc \in {"toldcheck", "check", "mark"}
    <3>1. CASE MarkDone(r)
      BY <1>0, <3>1 DEF MarkDone, RunnerRow
    <3>2. ASSUME NEW end \in Ended, EndTask(r, end)
          PROVE  runner'[r].task = runner[r].task /\ runner'[r].pc = "check"
      BY <1>0, <3>2 DEF EndTask, RunnerRow
    <3>3. ASSUME NEW u \in Tasks, FindTask(r, u)
          PROVE  runner'[r].task = runner[r].task /\ runner'[r].pc = "mark"
      BY <1>0, <3>3 DEF FindTask, RunnerRow
    <3> QED BY <1>2, <3>1, <3>2, <3>3
  <2> QED BY <1>0, <2>1 DEF RunnerHas
<1>3. CASE runner[r].pc \in {"toldcheck", "toldreport"} /\ (CheckBatch(r) \/ Report(r))
  <2>1. \/ runner' = [runner EXCEPT ![r] = [runner[r] EXCEPT !.pc = "toldreport"]]
        \/ runner' = [runner EXCEPT ![r] = [runner[r] EXCEPT !.pc = "work", !.on = NoTask]]
    BY <1>3 DEF CheckBatch, Report, AfterCheck
  <2>2. runner'[r].task = runner[r].task /\ runner'[r].pc \in {"toldreport", "work"}
    <3> DEFINE row(pc, on) == [runner[r] EXCEPT !.pc = pc, !.on = on]
    <3>1. \A pc, on : row(pc, on).task = runner[r].task /\ row(pc, on).pc = pc
      BY <1>0 DEF RunnerRow
    <3>2. row("toldreport", runner[r].on) = [runner[r] EXCEPT !.pc = "toldreport"]
      BY <1>0 DEF RunnerRow
    <3>3. runner'[r] = row("toldreport", runner[r].on) \/ runner'[r] = row("work", NoTask)
      BY <1>0, <2>1, <3>2
    <3> HIDE DEF row
    <3> QED BY <3>1, <3>3
  <2> QED BY <1>0, <2>2 DEF RunnerHas
<1>4. CASE runner[r].pc = "check" /\ CheckBatch(r)
  <2>1. Rows(q) = TasksOf(q) /\ \A u \in Rows(q) : task[u] \in Ended
    BY DEF AllEnded, Rows, TasksOf, Ended
  <2>2. SquadOf[runner[r].on] = q
    BY <1>0, <1>4 DEF HandsKnown
  <2>3. runner' = [runner EXCEPT ![r] =
          IF \A u \in Rows(SquadOf[runner[r].on]) : task[u] \in Ended
            THEN [runner[r] EXCEPT !.pc = "report", !.rows = Rows(SquadOf[runner[r].on])]
            ELSE AfterCheck(r)]
    BY <1>4 DEF CheckBatch
  <2>4. runner' = [runner EXCEPT ![r] = [runner[r] EXCEPT !.pc = "report", !.rows = TasksOf(q)]]
    BY <2>1, <2>2, <2>3
  <2>5. runner'[r].pc = "report" /\ runner'[r].task = runner[r].task /\ runner'[r].rows = TasksOf(q)
    BY <1>0, <2>4 DEF RunnerRow
  <2> QED BY <1>0, <2>5 DEF RunnerHas
<1>5. CASE runner[r].pc = "report" /\ Report(r)
  <2>1. SquadOf[runner[r].on] = q
    BY <1>0, <1>5 DEF HandsKnown
  <2>2. ReportOf(r) = [squad |-> q, all |-> Cardinality(TasksOf(q))]
    BY <1>5, <2>1 DEF ReportOf
  <2>3. \E m \in mail' : SameWords(m, ReportOf(r))
    BY <1>5 DEF Report, SameWords
  <2> QED BY <2>2, <2>3 DEF Said
<1>6. RunnerActs(r) /\ ~AgentGone(r) /\ ~CheckFails(r) => Goal
  BY <1>2, <1>3, <1>4, <1>5 DEF RunnerActs, CheckBatch, Report
<1> QED BY <1>0, <1>1, <1>6, RunnerSteps

LEMMA SaidStays == ASSUME TasksNext, NEW q \in Squads, Said(q) PROVE Said(q)'
<1>1. (\E r \in Slots : Report(r)) \/ UNCHANGED mail
  BY DEF TasksNext, TasksStep, TasksTrouble, Call, Run, Dispatching, TasksCrash, DispatchSquad,
         DispatchReturns, InsertTask, PollStarts, Recovered, Requeue, Claim, NothingToClaim,
         StartRunner, FindTask, EndTask, MarkDone, CheckBatch, RecoveryFails, ClaimFails,
         CheckFails, AgentGone, Edit
<1>2. mail \subseteq mail'
  BY <1>1 DEF Report
<1> QED BY <1>2 DEF Said, TasksOf, SameWords

LEMMA TasksStepReport == ASSUME TasksTyping, OrphanInv, HandInv, ReportInv, TasksNext PROVE ReportInv'
<1> SUFFICES ASSUME Quiet', NEW q \in Squads, AllEnded(q)'
             PROVE  Said(q)' \/ \E t \in TasksOf(q) : Reporting(t)'
  BY DEF ReportInv, TasksOf
<1>1. CASE ~AllEnded(q)
  BY <1>1, LastOneChecks
<1>2. CASE AllEnded(q) /\ Said(q)
  BY <1>2, SaidStays
<1>3. ASSUME AllEnded(q), NEW t \in TasksOf(q), Reporting(t) PROVE Said(q)' \/ Reporting(t)'
  <2>0. t \in Tasks /\ SquadOf[t] = q
    BY DEF TasksOf
  <2>1. ASSUME NEW c \in Callers, CallerHas(c, t) PROVE Reporting(t)'
    <3>1. CallerHas(c, t)' \/ \E r \in Slots : RunnerHas(r, t)' /\ runner'[r].pc = "work"
      BY <2>0, <2>1, CallerHandsOn
    <3> QED BY <3>1 DEF Reporting
  <2>2. ASSUME NEW r \in Slots, RunnerHas(r, t), runner[r].pc = "report" => runner[r].rows = TasksOf(q)
        PROVE  Said(q)' \/ Reporting(t)'
    <3>1. \/ Said(q)'
          \/ RunnerHas(r, t)' /\ (runner'[r].pc = "report" => runner'[r].rows = TasksOf(q))
      BY <1>3, <2>2, RunnerReports
    <3> QED BY <2>0, <3>1 DEF Reporting, TasksOf
  <2> QED BY <1>3, <2>0, <2>1, <2>2 DEF Reporting
<1> QED BY <1>1, <1>2, <1>3, QuietStep DEF ReportInv

-----------------------------------------------------------------------------
LEMMA TasksStepInv == TasksInv /\ [TasksNext]_taskVars => TasksInv'
<1>1. TasksInv /\ TasksNext => TasksInv'
  BY TasksStepTyping, TasksStepAlone, TasksStepOrphan, TasksStepHand, TasksStepReport DEF TasksInv
<1>2. ASSUME TasksInv, UNCHANGED taskVars PROVE TasksInv'
  <2>1. TasksTyping'
    BY <1>2 DEF taskVars, TasksInv, TasksTyping, TasksTypeOK, HandsKnown, TasksOf
  <2>2. AloneInv'
    BY <1>2 DEF taskVars, TasksInv, AloneInv, Alone, Held, CallerHas, RunnerHas
  <2>3. OrphanInv'
    BY <1>2 DEF taskVars, TasksInv, OrphanInv, Held, CallerHas, RunnerHas
  <2>4. HandInv'
    BY <1>2 DEF taskVars, TasksInv, HandInv, Held, CallerHas, RunnerHas, Quiet
  <2>5. ReportInv'
    BY <1>2 DEF taskVars, TasksInv, ReportInv, AllEnded, Reporting, Said, CallerHas, RunnerHas, Quiet, TasksOf
  <2> QED BY <2>1, <2>2, <2>3, <2>4, <2>5 DEF TasksInv
<1> QED BY <1>1, <1>2

LEMMA TasksInvariant == TasksSpec => []TasksInv
  BY TasksInitInv, TasksStepInv, PTL DEF TasksSpec

\* The rows, polls and runs stay what the declarations say.
THEOREM TasksTypeCorrect == TasksSpec => []TasksTypeOK
<1>1. TasksInv => TasksTypeOK
  BY DEF TasksInv, TasksTyping
<1> QED BY <1>1, TasksInvariant, PTL

\* No task is run twice at the same time, for any number of tasks, polls and places to run.
THEOREM OneRunnerEach == TasksSpec => []OneRunner
<1>1. TasksInv => OneRunner
  BY DEF TasksInv, AloneInv, Alone, OneRunner
<1> QED BY <1>1, TasksInvariant, PTL

\* What is in progress after the recovery is what this process runs.
THEOREM NoneLeftBehind == TasksSpec => []NoOrphans
<1>1. TasksInv => NoOrphans
  BY DEF TasksInv, OrphanInv, NoOrphans
<1> QED BY <1>1, TasksInvariant, PTL

\* A squad that has ended, and that nobody works on any more, has been reported whole, or
\* another report with the same words stands for it.
THEOREM SquadsReported == TasksSpec => []SquadReported
<1>1. ASSUME TasksInv, Quiet, NEW q \in Squads, dispatch[q] = "over",
             \A t \in TasksOf(q) : task[t] \in Ended /\ ~Held(t)
      PROVE  Said(q)
  <2>1. AllEnded(q)
    BY <1>1 DEF TasksInv, TasksTyping, HandsKnown, AllEnded
  <2>2. ~\E t \in TasksOf(q) : Reporting(t)
    BY <1>1 DEF Reporting, Held
  <2> QED BY <1>1, <2>1, <2>2 DEF TasksInv, ReportInv
<1>2. TasksInv => SquadReported
  BY <1>1 DEF SquadReported, Said
<1> QED BY <1>2, TasksInvariant, PTL

-----------------------------------------------------------------------------
(* AgentTasks implements TaskBoard.                                        *)

LEMMA BoardInitially == TasksInit => Board!BoardInit
  BY DEF TasksInit, Board!BoardInit, Standing, Trouble

\* What a new status of one task means on the board.
LEMMA BoardMark ==
  ASSUME TasksTyping, NEW t \in Tasks, NEW s \in Statuses, task[t] # "none",
         task' = [task EXCEPT ![t] = s]
  PROVE  /\ Standing' = [Standing EXCEPT ![t] = IF s \in Terminal THEN "ended" ELSE "open"]
         /\ Standing[t] \in {"open", "ended"}
<1>1. "none" \notin Statuses
  BY DEF Statuses, Terminal, Ended
<1> QED BY <1>1 DEF Standing, TasksTyping, TasksTypeOK

LEMMA BoardStays ==
  ASSUME UNCHANGED <<dispatch, upsets>>, Standing' = Standing
  PROVE  UNCHANGED Board!boardVars
  BY DEF Board!boardVars

\* Every step of the worker is a step of the board, or none.
LEMMA BoardSteps ==
  ASSUME TasksTyping, TasksNext
  PROVE  [Board!BoardNext]_(Board!boardVars)
<1> DEFINE Step == [Board!BoardNext]_(Board!boardVars)
<1> USE DEF TasksTyping, TasksTypeOK
<1>0. ASSUME NEW k \in Trouble, k # "edit", Upset(k) PROVE upsets'["edit"] = upsets["edit"]
  BY <1>0, UpsetCounts DEF Trouble
<1>1. ASSUME UNCHANGED <<dispatch, task>>, UNCHANGED upsets \/ upsets'["edit"] = upsets["edit"] PROVE Step
  BY <1>1 DEF Board!boardVars, Standing
<1>2. ASSUME NEW q \in Squads, DispatchSquad(q) PROVE Step
  <2>1. Board!StartDispatch(q)
    BY <1>2 DEF DispatchSquad, Board!StartDispatch, Standing
  <2> QED BY <2>1 DEF Board!BoardNext
<1>3. ASSUME NEW t \in Tasks, InsertTask(t) PROVE Step
  <2>1. Standing' = [Standing EXCEPT ![t] = "open"] /\ Standing[t] = "none"
    BY <1>3 DEF InsertTask, Standing, Terminal, Ended
  <2>2. Board!AddChild(t)
    BY <1>3, <2>1 DEF InsertTask, Board!AddChild
  <2> QED BY <2>2 DEF Board!BoardNext, Board!BoardStep
<1>4. ASSUME NEW q \in Squads, DispatchReturns(q) PROVE Step
  <2>1. upsets'["edit"] = upsets["edit"]
    BY <1>0, <1>4 DEF DispatchReturns, Trouble
  <2>2. Board!EndDispatch(q)
    BY <1>4, <2>1 DEF DispatchReturns, Board!EndDispatch, Standing
  <2> QED BY <2>2 DEF Board!BoardNext, Board!BoardStep
<1>5. ASSUME NEW c \in Callers, Requeue(c) PROVE Step
  <2>1. Standing' = Standing
    BY <1>5 DEF Requeue, Standing, Terminal, Ended
  <2> QED BY <1>5, <2>1, BoardStays DEF Requeue
<1>6. ASSUME NEW c \in Callers, NEW t \in Tasks, Claim(c, t) PROVE Step
  <2>1. Standing' = Standing
    BY <1>6 DEF Claim, Standing, Terminal, Ended
  <2> QED BY <1>6, <2>1, BoardStays DEF Claim
<1>7. ASSUME NEW t \in Tasks, NEW s \in Ended, task[t] # "none", task' = [task EXCEPT ![t] = s],
             UNCHANGED dispatch, upsets'["edit"] = upsets["edit"]
      PROVE  Step
  <2>1. Standing' = [Standing EXCEPT ![t] = "ended"] /\ Standing[t] \in {"open", "ended"}
    BY <1>7, BoardMark DEF Statuses, Terminal
  <2>2. CASE Standing[t] = "open"
    <3>1. Board!EndChild(t)
      BY <1>7, <2>1, <2>2 DEF Board!EndChild
    <3> QED BY <3>1 DEF Board!BoardNext, Board!BoardStep
  <2>3. CASE Standing[t] = "ended"
    <3>1. Standing' = Standing
      BY <2>1, <2>3 DEF Standing
    <3> QED BY <1>7, <3>1 DEF Board!boardVars
  <2> QED BY <2>1, <2>2, <2>3
<1>8. ASSUME NEW r \in Slots, AgentGone(r) PROVE Step
  BY <1>0, <1>7, <1>8 DEF AgentGone, HandsKnown, Trouble, Ended
<1>9. ASSUME NEW r \in Slots, NEW end \in Ended, EndTask(r, end) PROVE Step
  BY <1>7, <1>9 DEF EndTask, HandsKnown
<1>10. ASSUME NEW r \in Slots, MarkDone(r) PROVE Step
  BY <1>7, <1>10 DEF MarkDone, HandsKnown, Ended
<1>11. ASSUME NEW t \in Tasks, NEW s \in Statuses, Edit(t, s) PROVE Step
  <2> DEFINE new == IF s \in Terminal THEN "ended" ELSE "open"
  <2>1. Standing' = [Standing EXCEPT ![t] = new] /\ Standing[t] \in {"open", "ended"}
    BY <1>11, BoardMark DEF Edit
  <2>2. upsets'["edit"] > 0
    BY <1>11, UpsetCounts DEF Edit, Trouble
  <2>3. Board!EditChild(t, new)
    BY <1>11, <2>1, <2>2 DEF Edit, Board!EditChild
  <2> QED BY <2>3 DEF Board!BoardNext, Board!BoardStep
<1>12. CASE TasksCrash
  <2>1. upsets'["edit"] = upsets["edit"]
    BY <1>0, <1>12 DEF TasksCrash, Trouble
  <2>2. Board!StopDispatches
    BY <1>12, <2>1 DEF TasksCrash, Board!StopDispatches, Standing
  <2> QED BY <2>2 DEF Board!BoardNext
<1>13. ASSUME NEW c \in Callers, RecoveryFails(c) \/ ClaimFails(c) PROVE Step
  BY <1>0, <1>1, <1>13 DEF RecoveryFails, ClaimFails, Trouble
<1>14. ASSUME NEW r \in Slots, CheckFails(r) PROVE Step
  BY <1>0, <1>1, <1>14 DEF CheckFails, Trouble
<1>15. CASE UNCHANGED <<dispatch, task, upsets>>
  BY <1>1, <1>15
<1> QED
  BY <1>2, <1>3, <1>4, <1>5, <1>6, <1>8, <1>9, <1>10, <1>11, <1>12, <1>13, <1>14, <1>15
  DEF TasksNext, TasksStep, TasksTrouble, Call, Run, Dispatching, PollStarts, Recovered, NothingToClaim,
      StartRunner, FindTask, CheckBatch, Report, TasksOf

\* What has ended stays ended: the rows behave as TaskBoard says, through polls,
\* recoveries, restarts and task_done.
THEOREM TasksImplementBoard == TasksSpec => ImplementsBoard
<1>1. TasksInv /\ [TasksNext]_taskVars => [Board!BoardNext]_(Board!boardVars)
  <2>1. TasksInv /\ TasksNext => [Board!BoardNext]_(Board!boardVars)
    BY BoardSteps DEF TasksInv
  <2>2. UNCHANGED taskVars => UNCHANGED Board!boardVars
    BY DEF taskVars, Board!boardVars, Standing
  <2> QED BY <2>1, <2>2
<1> QED BY <1>1, BoardInitially, TasksInvariant, PTL DEF TasksSpec, ImplementsBoard, Board!BoardSpec
=============================================================================
