------------------------------ MODULE Schedules -------------------------------
(***************************************************************************)
(* The scheduler: server/schedulerWorker.js and server/scheduler/ with the *)
(* rows of schedules, composed with CardRuns, which executes what it       *)
(* queues.  A tick first settles the schedules whose run is over, then     *)
(* claims one that is due, asks the gate of agents' own wake-ups           *)
(* (server/wakeUps/store.js) and queues a run for it.  A run takes longer  *)
(* than a tick; its owner may pause, activate or delete the schedule at    *)
(* any time.                                                               *)
(*                                                                         *)
(* Time is only whether next_run_at has passed.  Owners, the times of the  *)
(* repeats and the answers on the card are left out.                       *)
(***************************************************************************)
EXTENDS CardRuns

CONSTANTS
  Plans,       \* the rows of schedules
  ByAgent,     \* those with set_by_agent
  NoPlan

ASSUME SchedulesAssumption == ByAgent \subseteq Plans /\ NoPlan \notin Plans

VARIABLES
  schedule,    \* schedules: status, repeat_enabled, next_run_at has passed, last_run_id
  tick,        \* tickScheduler; tickBusy is tick.pc # "idle"
  fired,       \* history: the runs queued for the schedule's present due time
  activated    \* history: how often somebody set it active since that time came

scheduleVars == <<schedule, tick, fired, activated>>
allVars == <<cardVars, scheduleVars>>

NoTick == [pc |-> "idle", on |-> NoPlan, seen |-> [s \in Plans |-> "none"]]
NoSchedule == [status |-> "none", repeat |-> FALSE, due |-> FALSE, link |-> NoRun]

SchedulesTypeOK ==
  /\ CardsTypeOK
  /\ schedule \in [Plans -> [status : {"none", "active", "running", "completed", "inactive",
                                       "failed", "deleted"},
                             repeat : BOOLEAN, due : BOOLEAN, link : Firings \cup {NoRun}]]
  /\ tick \in [pc : {"idle", "settle", "gate", "enqueue", "failing"}, on : Plans \cup {NoPlan},
               seen : [Plans -> {"none"} \cup Over]]
  /\ fired \in [Plans -> SUBSET Firings]
  /\ activated \in [Plans -> Nat]

SchedulesInit ==
  /\ CardsInit
  /\ schedule = [s \in Plans |-> NoSchedule]
  /\ tick = NoTick
  /\ fired = [s \in Plans |-> {}]
  /\ activated = [s \in Plans |-> 0]

Exists(s) == schedule[s].status \notin {"none", "deleted"}
\* updateSchedule: by id alone, and no row of a deleted schedule.
Patched(s, row) == [schedule EXCEPT ![s] = IF Exists(s) THEN row ELSE @]

-----------------------------------------------------------------------------
(* The owner, or an agent with its own wake-ups                            *)

CreateSchedule(s, repeat) ==
  /\ schedule[s].status = "none"
  /\ schedule' = [schedule EXCEPT ![s].status = "active", ![s].repeat = repeat]
  /\ UNCHANGED <<cardVars, tick, fired, activated>>

\* updateOwnedSchedule looks neither at the status nor at a run under way.
SetStatus(s, status) ==
  /\ Exists(s) /\ Upset("edit")
  /\ schedule' = [schedule EXCEPT ![s].status = status]
  /\ activated' = [activated EXCEPT ![s] = IF status = "active" THEN @ + 1 ELSE @]
  /\ UNCHANGED <<run, relay, posted, cardPoll, cardRecovered, executor, lateRecovery, tick, fired>>

DeleteSchedule(s) ==
  /\ Exists(s) /\ Upset("edit")
  /\ schedule' = [schedule EXCEPT ![s] = [NoSchedule EXCEPT !.status = "deleted"]]
  /\ UNCHANGED <<run, relay, posted, cardPoll, cardRecovered, executor, lateRecovery,
                 tick, fired, activated>>

ComesDue(s) ==
  /\ Exists(s) /\ ~schedule[s].due
  /\ schedule' = [schedule EXCEPT ![s].due = TRUE]
  /\ UNCHANGED <<cardVars, tick, fired, activated>>

-----------------------------------------------------------------------------
(* tickScheduler                                                           *)

\* getRunningScheduleRuns reads which runs are over; the rows are settled later.
TickStarts ==
  /\ tick.pc = "idle"
  /\ tick' = [NoTick EXCEPT !.pc = "settle", !.seen = [s \in Plans |->
       IF schedule[s].status = "running" /\ schedule[s].link # NoRun /\ run[schedule[s].link] \in Over
         THEN run[schedule[s].link] ELSE "none"]]
  /\ UNCHANGED <<cardVars, schedule, fired, activated>>

\* Mutant: a repeating schedule keeps the link to the run that is over.
RepeatsLinked(s) ==
  /\ tick.seen[s] = "succeeded" /\ schedule[s].repeat
  /\ schedule' = Patched(s, [schedule[s] EXCEPT !.status = "active", !.due = FALSE])
  /\ fired' = [fired EXCEPT ![s] = {}]
  /\ activated' = [activated EXCEPT ![s] = 0]

\* completeOrRepeatSchedule: the next time is ahead of now, the link is cleared.
Repeats(s) ==
  /\ tick.seen[s] = "succeeded" /\ schedule[s].repeat
  /\ schedule' = Patched(s, [schedule[s] EXCEPT !.status = "active", !.due = FALSE, !.link = NoRun])
  /\ fired' = [fired EXCEPT ![s] = {}]
  /\ activated' = [activated EXCEPT ![s] = 0]

\* ... or the only time is over, or failSchedule.
Finishes(s) ==
  /\ tick.seen[s] = "failed" \/ (tick.seen[s] = "succeeded" /\ ~schedule[s].repeat)
  /\ schedule' = Patched(s, [schedule[s] EXCEPT
                   !.status = IF tick.seen[s] = "failed" THEN "failed" ELSE "completed"])
  /\ UNCHANGED <<fired, activated>>

Settle(s) ==
  /\ tick.pc = "settle"
  /\ Repeats(s) \/ Finishes(s)
  /\ tick' = [tick EXCEPT !.seen[s] = "none"]
  /\ UNCHANGED cardVars

NothingSeen == tick.pc = "settle" /\ \A s \in Plans : tick.seen[s] = "none"
IsDue(s) == schedule[s].status = "active" /\ schedule[s].due
\* Bound: only while a row is left for another run.
RoomToFire == \E f \in Firings : run[f] = "none"

\* claimNextDueSchedule leaves last_run_id as it is.
ClaimDue(s) ==
  /\ NothingSeen /\ IsDue(s) /\ RoomToFire
  /\ schedule' = [schedule EXCEPT ![s].status = "running"]
  /\ tick' = [NoTick EXCEPT !.pc = IF s \in ByAgent THEN "gate" ELSE "enqueue", !.on = s]
  /\ UNCHANGED <<cardVars, fired, activated>>

NothingDue ==
  /\ NothingSeen /\ \A s \in Plans : ~(IsDue(s) /\ RoomToFire)
  /\ tick' = NoTick
  /\ UNCHANGED <<cardVars, schedule, fired, activated>>

GateOpens ==
  /\ tick.pc = "gate"
  /\ tick' = [tick EXCEPT !.pc = "enqueue"]
  /\ UNCHANGED <<cardVars, schedule, fired, activated>>

\* gateAgentWakeUp: wake-ups are switched off, or the day has had its RUNS_PER_DAY.
GateHolds ==
  /\ tick.pc = "gate"
  /\ LET s == tick.on IN
     \/ schedule' = Patched(s, [schedule[s] EXCEPT !.status = "inactive"])
     \/ schedule' = Patched(s, [schedule[s] EXCEPT !.status = "active", !.due = FALSE])
  /\ tick' = NoTick
  /\ UNCHANGED <<cardVars, fired, activated>>

\* enqueueCoreScheduleRun: the run and the link are one transaction; a COMMIT whose answer
\* is lost counts as an error.  Ids of runs are only names: the next one unused is taken.
EnqueueRun(f) ==
  /\ tick.pc = "enqueue" /\ run[f] = "none" /\ f = CHOOSE g \in Firings : run[g] = "none"
  /\ run' = [run EXCEPT ![f] = "pending"]
  /\ schedule' = Patched(tick.on, [schedule[tick.on] EXCEPT !.link = f])
  /\ fired' = [fired EXCEPT ![tick.on] = @ \cup {f}]
  /\ \/ tick' = NoTick /\ UNCHANGED upsets
     \/ tick' = [tick EXCEPT !.pc = "failing"] /\ Upset("error")
  /\ UNCHANGED <<relay, posted, cardPoll, cardRecovered, executor, lateRecovery, activated>>

\* An error before a schedule is claimed only ends the tick; later it fails the schedule.
TickThrows ==
  /\ tick.pc \in {"settle", "gate", "enqueue"} /\ Upset("error")
  /\ tick' = IF tick.pc = "settle" THEN NoTick ELSE [tick EXCEPT !.pc = "failing"]
  /\ UNCHANGED <<run, relay, posted, cardPoll, cardRecovered, executor, lateRecovery,
                 schedule, fired, activated>>

\* failSchedule, whose own error is swallowed.
FailSchedule ==
  /\ tick.pc = "failing"
  /\ \/ /\ schedule' = Patched(tick.on, [schedule[tick.on] EXCEPT !.status = "failed"])
        /\ UNCHANGED upsets
     \/ Upset("error") /\ UNCHANGED schedule
  /\ tick' = NoTick
  /\ UNCHANGED <<run, relay, posted, cardPoll, cardRecovered, executor, lateRecovery, fired, activated>>

ServerCrash ==
  /\ CardsCrash /\ Upset("crash")
  /\ tick' = NoTick
  /\ UNCHANGED <<schedule, fired, activated>>

-----------------------------------------------------------------------------
Tick ==
  \/ TickStarts \/ NothingDue \/ GateOpens \/ GateHolds \/ FailSchedule
  \/ \E s \in Plans : Settle(s) \/ ClaimDue(s)
  \/ \E f \in Firings : EnqueueRun(f)

SchedulesNext ==
  \/ CardsStep /\ UNCHANGED scheduleVars
  \/ Tick \/ TickThrows
  \/ \E s \in Plans, repeat \in BOOLEAN : CreateSchedule(s, repeat)
  \/ \E s \in Plans, status \in {"active", "inactive"} : SetStatus(s, status)
  \/ \E s \in Plans : DeleteSchedule(s) \/ ComesDue(s)
  \/ ServerCrash

\* The timers fire, turns and calls end.  Calls that are deferred over and over
\* do not keep a turn from being claimed: they are not looked at again for a while.
SchedulesFairness ==
  /\ WF_allVars(Tick)
  /\ \A c \in CardPolls : WF_allVars(CardCall(c) /\ UNCHANGED scheduleVars)
  /\ \A e \in CardSlots : WF_allVars(Execute(e) /\ UNCHANGED scheduleVars)
  /\ SF_allVars(\E c \in CardPolls, f \in Firings : ClaimRun(c, f) /\ UNCHANGED scheduleVars)

SchedulesSpec == SchedulesInit /\ [][SchedulesNext]_allVars /\ SchedulesFairness

-----------------------------------------------------------------------------
(* Properties.                                                             *)

\* What a schedule waits for is the run of its present due time, not one of an earlier time:
\* reconcileCoreScheduleRuns settles by last_run_id, which a claim does not clear.
WaitsForItsRun ==
  \A s \in Plans : schedule[s].status = "running" /\ schedule[s].link # NoRun
    => schedule[s].link \in fired[s]

\* A due time fires once, and once more for each time that somebody sets the schedule active,
\* through ticks, crashes, errors and deletions.
FiresOnce == \A s \in Plans : Cardinality(fired[s]) <= 1 + activated[s]

\* A completed schedule has run for its present due time and that run has succeeded, unless
\* a late recovery let a run execute twice.  (One that was set active again while it ran
\* may be completed by the run before.)
CompletedHasRun ==
  ~lateRecovery => \A s \in Plans : schedule[s].status = "completed"
    => \E f \in fired[s] : schedule[s].link = f /\ run[f] = "succeeded"

\* One due time, one run: the three above.
OneRunPerDueTime == WaitsForItsRun /\ FiresOnce /\ CompletedHasRun

\* A schedule that has queued its run is settled in the end, also when the process stops
\* while the run executes; a database error can leave the run, and so the schedule, running.
ScheduleSettles ==
  \A s \in Plans :
    schedule[s].status = "running" /\ schedule[s].link # NoRun
      ~> schedule[s].status # "running" \/ upsets["error"] > 0
=============================================================================
