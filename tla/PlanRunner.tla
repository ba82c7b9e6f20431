------------------------------ MODULE PlanRunner ------------------------------
(***************************************************************************)
(* Censai's plans: server/censaiOrchestrator/.  A plan is a list of jobs,  *)
(* each handed to a family agent and checked against its checklist before  *)
(* the next one starts.  The server runs a plan from memory (an entry of   *)
(* runner.js) and saves it as it goes to its row of censai_plans.          *)
(*                                                                         *)
(* What one run does between two awaits is a step.  The person may stop a  *)
(* plan, ask for others and look at them meanwhile; the server may restart *)
(* and then picks up the open rows (recoverOnce).                          *)
(*                                                                         *)
(* Not here: the mails between Censai and the agents (sent "quietly", a    *)
(* failure changes nothing), step lines, answers, evidence and summaries.  *)
(* Items checked the same way go through their check together.             *)
(***************************************************************************)
EXTENDS Naturals, Sequences, FiniteSets

CONSTANTS
  Plans,         \* plan ids (bounds how many are asked for)
  Owner,         \* the person whose plan it is, for each
  NJobs,         \* jobs of a plan
  CheckOrder,    \* the kinds of items, in the order checkAnswer takes them
  Checklists,    \* kinds a job's list may start with: subsets of the kinds
  MAX_ATTEMPTS,
  MAX_RUNNING,
  MAX_OPEN_PLANS,
  RecoverLimit,  \* the LIMIT of listUnfinished: rows one recovery takes up
  MaxLives,      \* bound: how often the server starts
  MaxFaults      \* bound: how many reads and saves fail while the server lives

Jobs == 1 .. NJobs
Kinds == {CheckOrder[i] : i \in DOMAIN CheckOrder}

ASSUME BoundsAssumption ==
  /\ NJobs \in Nat \ {0} /\ MAX_ATTEMPTS \in Nat \ {0} /\ MAX_RUNNING \in Nat \ {0}
  /\ MAX_OPEN_PLANS \in Nat \ {0} /\ RecoverLimit \in Nat \ {0}
  /\ MaxLives \in Nat \ {0} /\ MaxFaults \in Nat
ASSUME ChecklistsAssumption ==
  CheckOrder \in Seq({"file", "tests", "answer"}) /\ Checklists \subseteq (SUBSET Kinds) \ {{}}

VARIABLES
  row,       \* censai_plans, as committed
  entry,     \* running: the run of each plan in this server
  waiting,   \* plans that wait for a free place
  stop,      \* a stopPlan call in flight, per plan (one at a time)
  asked,     \* the handOff call that makes each plan
  recovery,  \* recoverOnce
  left,      \* rows recover has listed and not looked at yet
  missed,    \* history: open plans the last recovery of this life did not list
  life,      \* history: how often the server has started
  faults,    \* history: how many reads and saves have failed
  turns      \* history: the lives in which an agent worked on a job

vars == <<row, entry, waiting, stop, asked, recovery, left, missed, life, faults, turns>>

Open == {"queued", "running"}
FinalPlan == {"done", "stuck", "stopped"}
FinalJob == {"done", "stuck", "stopped", "skipped"}
ItemStates == {"none", "open", "checking", "ticked", "failed", "unknown"}

JobRecords == [status : {"waiting", "working", "checking"} \cup FinalJob,
               list : [Kinds -> ItemStates]]
Contents == [status : {"none"} \cup Open \cup FinalPlan, jobs : [Jobs -> JobRecords]]
Blank == [status |-> "none",
          jobs |-> [j \in Jobs |-> [status |-> "waiting", list |-> [k \in Kinds |-> "none"]]]]

PCs == {"off", "loading", "pick", "handoff", "attempt", "agent", "turn",
        "check", "checked", "jobend", "report", "end"}

\* saving is what the run's save in flight holds, Blank when there is none.
Entries == [pc : PCs, plan : Contents, saving : Contents, stopped : BOOLEAN,
            attempt : 0 .. MAX_ATTEMPTS, kind : 0 .. Len(CheckOrder) + 1]
Off == [pc |-> "off", plan |-> Blank, saving |-> Blank, stopped |-> FALSE,
        attempt |-> 0, kind |-> 0]
NoStop == [pc |-> "none", plan |-> Blank]

TypeOK ==
  /\ row \in [Plans -> Contents]
  /\ entry \in [Plans -> Entries]
  /\ waiting \in Seq(Plans)
  /\ stop \in [Plans -> [pc : {"none", "mark", "save"}, plan : Contents]]
  /\ asked \in [Plans -> {"no", "counted", "inserted", "answered"}]
  /\ recovery \in {"none", "running", "done", "failed"}
  /\ left \in [Plans -> Contents]
  /\ missed \subseteq Plans
  /\ life \in 1 .. MaxLives
  /\ faults \in 0 .. MaxFaults
  /\ turns \in [Plans -> [Jobs -> SUBSET (1 .. MaxLives)]]

Init ==
  /\ row = [p \in Plans |-> Blank]
  /\ entry = [p \in Plans |-> Off]
  /\ waiting = << >>
  /\ stop = [p \in Plans |-> NoStop]
  /\ asked = [p \in Plans |-> "no"]
  /\ recovery = "none"
  /\ left = [p \in Plans |-> Blank]
  /\ missed = {}
  /\ life = 1
  /\ faults = 0
  /\ turns = [p \in Plans |-> [j \in Jobs |-> {}]]

-----------------------------------------------------------------------------
(* checklist.js and planState.js.                                          *)

First(S) == CHOOSE j \in S : \A i \in S : j <= i
Present(l) == {k \in Kinds : l[k] # "none"}
AllTicked(l) == Present(l) # {} /\ \A k \in Present(l) : l[k] = "ticked"

Reopen(l) == [k \in Kinds |-> IF l[k] = "none" THEN "none" ELSE "open"]
Close(l) == [k \in Kinds |-> IF l[k] \in {"open", "checking"} THEN "unknown" ELSE l[k]]

\* Mutant: parts that did not start keep their items open.
SkipRestOpen(plan) ==
  [plan EXCEPT !.jobs = [j \in Jobs |->
     IF @[j].status = "waiting" THEN [@[j] EXCEPT !.status = "skipped"] ELSE @[j]]]

SkipRest(plan) ==
  [plan EXCEPT !.jobs = [j \in Jobs |->
     IF @[j].status = "waiting" THEN [status |-> "skipped", list |-> Close(@[j].list)] ELSE @[j]]]

\* Mutant: what was checked on the try before still counts.
CutOffKeepTicks(job, status) == [status |-> status, list |-> Close(job.list)]

\* Earlier ticks do not stand for work the agent was redoing.
CutOff(job, status) ==
  [status |-> status, list |-> Close(IF job.status = "working" THEN Reopen(job.list) ELSE job.list)]

MarkStopped(plan) ==
  SkipRest([status |-> "stopped", jobs |-> [j \in Jobs |->
    IF plan.jobs[j].status \in {"working", "checking"}
      THEN CutOff(plan.jobs[j], "stopped") ELSE plan.jobs[j]]])

\* The job in S that cannot carry on, if there is one, takes the plan with it.
StickJob(plan, S) ==
  SkipRest([status |-> "stuck", jobs |-> [j \in Jobs |->
    IF S # {} /\ j = First(S) THEN CutOff(plan.jobs[j], "stuck") ELSE plan.jobs[j]]])

\* Mutant: a plan is done when its run came to the end.
FinishAnyway(plan) == [plan EXCEPT !.status = "done"]

Finish(plan) ==
  LET gaps == {j \in Jobs : plan.jobs[j].status # "done" \/ ~AllTicked(plan.jobs[j].list)} IN
  IF gaps = {}
    THEN [plan EXCEPT !.status = "done"]
    ELSE SkipRest([status |-> "stuck", jobs |-> [plan.jobs EXCEPT ![First(gaps)] =
                     [status |-> "stuck", list |-> Close(@.list)]]])

-----------------------------------------------------------------------------
(* store.js and the queue of runner.js.                                    *)

\* Mutant: a save writes over a finished plan.
SaveRowAlways(p, plan) == row' = [row EXCEPT ![p] = plan]

\* savePlan: a finished plan is never written over.
SaveRow(p, plan) ==
  row' = IF row[p].status \in Open THEN [row EXCEPT ![p] = plan] ELSE row

Fault == faults < MaxFaults /\ faults' = faults + 1

SaveOrFail(p, plan) == \/ SaveRow(p, plan) /\ UNCHANGED faults
                       \/ Fault /\ UNCHANGED row

Running == {p \in Plans : entry[p].pc # "off"}
IsQueued(p) == p \in Running \/ \E i \in DOMAIN waiting : waiting[i] = p

Loading == [Off EXCEPT !.pc = "loading"]

\* startPlan and pump.
StartPlan(p) ==
  IF IsQueued(p) THEN UNCHANGED <<entry, waiting>>
  ELSE IF Cardinality(Running) < MAX_RUNNING
    THEN entry' = [entry EXCEPT ![p] = Loading] /\ UNCHANGED waiting
    ELSE waiting' = Append(waiting, p) /\ UNCHANGED entry

\* Mutant: a run that ends does not pump.
LeaveQuietly(p) == entry' = [entry EXCEPT ![p] = Off] /\ UNCHANGED waiting

\* The run of p ends, and its place goes to the plan that waits longest.
Leave(p) ==
  IF waiting = << >>
    THEN entry' = [entry EXCEPT ![p] = Off] /\ UNCHANGED waiting
    ELSE /\ entry' = [entry EXCEPT ![p] = Off, ![Head(waiting)] = Loading]
         /\ waiting' = Tail(waiting)

\* The queue without p (findIndex and splice).
Unqueued(p) ==
  IF \E i \in DOMAIN waiting : waiting[i] = p
    THEN LET i == First({k \in DOMAIN waiting : waiting[k] = p})
         IN  SubSeq(waiting, 1, i - 1) \o SubSeq(waiting, i + 1, Len(waiting))
    ELSE waiting

\* The run stands at pc: its save has settled and nobody has stopped it.
Alive(p, pc) == entry[p].pc = pc /\ entry[p].saving = Blank /\ ~entry[p].stopped

Plan(p) == entry[p].plan
Job(p) == First({j \in Jobs : Plan(p).jobs[j].status # "done"})
List(p) == Plan(p).jobs[Job(p)].list
PlanWith(p, status, list) ==
  [Plan(p) EXCEPT !.jobs[Job(p)] = [status |-> status, list |-> list]]

\* Changes what the run knows and saves it, to go on at pc.
SaveAndGo(p, plan, pc) ==
  entry' = [entry EXCEPT ![p].plan = plan, ![p].saving = plan, ![p].pc = pc]

others == <<stop, asked, recovery, left, missed, life>>

-----------------------------------------------------------------------------
(* runPlan.                                                                *)

\* The save in flight is written, or fails and is only logged (saveEntry).
SaveSettles(p) ==
  /\ entry[p].saving # Blank
  /\ SaveOrFail(p, entry[p].saving)
  /\ entry' = [entry EXCEPT ![p].saving = Blank]
  /\ UNCHANGED <<others, waiting, turns>>

Load(p) ==
  /\ Alive(p, "loading")
  /\ \/ /\ row[p].status \in Open
        /\ SaveAndGo(p, [row[p] EXCEPT !.status = "running"], "pick")
        /\ UNCHANGED <<waiting, faults>>
     \/ row[p].status \notin Open /\ Leave(p) /\ UNCHANGED faults
     \/ Fault /\ Leave(p)
  /\ UNCHANGED <<others, row, turns>>

\* Mutant: the loop skips whatever is final, as it skips what is done.
PickPastStuck(p) ==
  LET rest == {j \in Jobs : Plan(p).jobs[j].status \notin FinalJob} IN
  /\ Alive(p, "pick")
  /\ IF rest = {}
       THEN entry' = [entry EXCEPT ![p].plan = Finish(@), ![p].pc = "report"]
       ELSE entry' = [entry EXCEPT ![p].plan.jobs[First(rest)].status = "working",
                                   ![p].attempt = 0, ![p].pc = "handoff"]
  /\ UNCHANGED <<others, row, waiting, faults, turns>>

\* The first job that is not done starts; one that ended otherwise, or none,
\* ends the plan.
Pick(p) ==
  LET rest == {j \in Jobs : Plan(p).jobs[j].status # "done"} IN
  /\ Alive(p, "pick")
  /\ IF rest = {} \/ Plan(p).jobs[First(rest)].status \in FinalJob
       THEN entry' = [entry EXCEPT ![p].plan = Finish(@), ![p].pc = "report"]
       ELSE entry' = [entry EXCEPT ![p].plan.jobs[First(rest)].status = "working",
                                   ![p].attempt = 0, ![p].pc = "handoff"]
  /\ UNCHANGED <<others, row, waiting, faults, turns>>

JobEnd(p) ==
  /\ Alive(p, "jobend")
  /\ entry' = [entry EXCEPT ![p].plan = SkipRest([@ EXCEPT !.status = "stuck"]), ![p].pc = "report"]
  /\ UNCHANGED <<others, row, waiting, faults, turns>>

\* The result line is written before the end of the plan is saved.
Report(p) ==
  /\ Alive(p, "report")
  /\ SaveAndGo(p, Plan(p), "end")
  /\ UNCHANGED <<others, row, waiting, faults, turns>>

End(p) ==
  /\ Alive(p, "end")
  /\ Leave(p)
  /\ UNCHANGED <<others, row, faults, turns>>

\* After any wait of a run that was stopped meanwhile (PlanStopped).
StoppedEnd(p) ==
  /\ entry[p].stopped
  /\ entry[p].saving = Blank
  /\ Leave(p)
  /\ UNCHANGED <<others, row, faults, turns>>

-----------------------------------------------------------------------------
(* runJob and checkAnswer.                                                 *)

HandedOff(p) ==
  /\ Alive(p, "handoff")
  /\ SaveAndGo(p, Plan(p), "attempt")
  /\ UNCHANGED <<others, row, waiting, faults, turns>>

Attempt(p) ==
  /\ Alive(p, "attempt")
  /\ LET plan == PlanWith(p, "working", List(p)) IN
       entry' = [entry EXCEPT ![p].plan = plan, ![p].saving = plan, ![p].pc = "agent",
                              ![p].attempt = @ + 1]
  /\ UNCHANGED <<others, row, waiting, faults, turns>>

\* runAgent; with the signal of a stopped plan it would end at once.
TurnStarts(p) ==
  /\ Alive(p, "agent")
  /\ entry' = [entry EXCEPT ![p].pc = "turn"]
  /\ turns' = [turns EXCEPT ![p][Job(p)] = @ \cup {life}]
  /\ UNCHANGED <<others, row, waiting, faults>>

\* It throws or runs out of time: nothing was checked, no earlier tick stands.
TurnFails(p) ==
  /\ Alive(p, "turn")
  /\ SaveAndGo(p, PlanWith(p, "stuck", Close(Reopen(List(p)))), "jobend")
  /\ UNCHANGED <<others, row, waiting, faults, turns>>

\* A fresh round of checks; work that changed files brings the tests along.
TurnAnswers(p) ==
  /\ Alive(p, "turn")
  /\ \E add \in SUBSET ({"tests"} \cap Kinds) :
       LET list == [k \in Kinds |-> IF k \in add THEN "open" ELSE Reopen(List(p))[k]]
           plan == PlanWith(p, "checking", list)
       IN entry' = [entry EXCEPT ![p].plan = plan, ![p].saving = plan, ![p].pc = "check",
                                 ![p].kind = 1]
  /\ UNCHANGED <<others, row, waiting, faults, turns>>

\* The kinds of items of the current job not checked yet in this round.
Unchecked(p) ==
  {i \in DOMAIN CheckOrder : i >= entry[p].kind /\ CheckOrder[i] \in Present(List(p))}

SetItem(p, k, state) == PlanWith(p, "checking", [List(p) EXCEPT ![k] = state])

CheckItem(p) ==
  /\ Alive(p, "check")
  /\ Unchecked(p) # {}
  /\ LET i == First(Unchecked(p))
         plan == SetItem(p, CheckOrder[i], "checking")
     IN entry' = [entry EXCEPT ![p].plan = plan, ![p].saving = plan, ![p].pc = "checked",
                               ![p].kind = i]
  /\ UNCHANGED <<others, row, waiting, faults, turns>>

ItemChecked(p) ==
  /\ Alive(p, "checked")
  /\ \E state \in {"ticked", "failed", "unknown"} :
       LET plan == SetItem(p, CheckOrder[entry[p].kind], state) IN
       entry' = [entry EXCEPT ![p].plan = plan, ![p].saving = plan, ![p].pc = "check",
                              ![p].kind = @ + 1]
  /\ UNCHANGED <<others, row, waiting, faults, turns>>

\* Looking for a file or running the tests throws: runPlan's catch.
CheckThrows(p) ==
  /\ Alive(p, "checked")
  /\ CheckOrder[entry[p].kind] # "answer"
  /\ SaveAndGo(p, StickJob(Plan(p), {j \in Jobs : Plan(p).jobs[j].status \notin FinalJob}), "end")
  /\ UNCHANGED <<others, row, waiting, faults, turns>>

\* Mutant: one try too many.
VerdictOneMore(p) ==
  /\ Alive(p, "check")
  /\ Unchecked(p) = {}
  /\ IF AllTicked(List(p))
       THEN SaveAndGo(p, PlanWith(p, "done", List(p)), "pick")
       ELSE IF \/ \E k \in Present(List(p)) : List(p)[k] \notin {"ticked", "failed"}
               \/ entry[p].attempt > MAX_ATTEMPTS
         THEN SaveAndGo(p, PlanWith(p, "stuck", List(p)), "jobend")
         ELSE SaveAndGo(p, Plan(p), "attempt")
  /\ UNCHANGED <<others, row, waiting, faults, turns>>

\* Done, stuck on what could not be checked, or sent back once to be fixed.
Verdict(p) ==
  /\ Alive(p, "check")
  /\ Unchecked(p) = {}
  /\ IF AllTicked(List(p))
       THEN SaveAndGo(p, PlanWith(p, "done", List(p)), "pick")
       ELSE IF \/ \E k \in Present(List(p)) : List(p)[k] \notin {"ticked", "failed"}
               \/ entry[p].attempt >= MAX_ATTEMPTS
         THEN SaveAndGo(p, PlanWith(p, "stuck", List(p)), "jobend")
         ELSE SaveAndGo(p, Plan(p), "attempt")
  /\ UNCHANGED <<others, row, waiting, faults, turns>>

-----------------------------------------------------------------------------
(* stopPlan: reads the row, marks the plan, saves it.                      *)

StopRead(p) ==
  /\ stop[p] = NoStop
  /\ row[p].status \in Open
  /\ stop' = [stop EXCEPT ![p] = [pc |-> "mark", plan |-> row[p]]]
  /\ UNCHANGED <<row, entry, waiting, asked, recovery, left, missed, life, faults, turns>>

\* A run that has loaded its plan stops with it; one that has not, and a plan
\* in the queue, are stopped as the row was read.
StopMark(p) ==
  /\ stop[p].pc = "mark"
  /\ LET loaded == entry[p].pc \notin {"off", "loading"}
         plan == MarkStopped(IF loaded THEN Plan(p) ELSE stop[p].plan)
     IN /\ entry' = IF p \in Running
                       THEN [entry EXCEPT ![p].stopped = TRUE, ![p].plan = IF loaded THEN plan ELSE @]
                       ELSE entry
        /\ stop' = [stop EXCEPT ![p] = [pc |-> "save", plan |-> plan]]
  /\ waiting' = Unqueued(p)
  /\ UNCHANGED <<row, asked, recovery, left, missed, life, faults, turns>>

\* After the save in flight of a run it stopped.
StopSave(p) ==
  /\ stop[p].pc = "save"
  /\ entry[p].stopped => entry[p].saving = Blank
  /\ SaveOrFail(p, stop[p].plan)
  /\ stop' = [stop EXCEPT ![p] = NoStop]
  /\ UNCHANGED <<entry, waiting, asked, recovery, left, missed, life, turns>>

-----------------------------------------------------------------------------
(* hand_off_jobs: counts the open plans, inserts the row, starts the run.  *)

AskCount(p) ==
  /\ asked[p] = "no"
  /\ recovery \in {"done", "failed"}
  /\ Cardinality({q \in Plans : Owner[q] = Owner[p] /\ row[q].status \in Open}) < MAX_OPEN_PLANS
  /\ asked' = [asked EXCEPT ![p] = "counted"]
  /\ UNCHANGED <<row, entry, waiting, stop, recovery, left, missed, life, faults, turns>>

Insert(p) ==
  /\ asked[p] = "counted"
  /\ \E lists \in [Jobs -> Checklists] :
       row' = [row EXCEPT ![p] = [status |-> "queued", jobs |-> [j \in Jobs |->
         [status |-> "waiting",
          list |-> [k \in Kinds |-> IF k \in lists[j] THEN "open" ELSE "none"]]]]]
  /\ asked' = [asked EXCEPT ![p] = "inserted"]
  /\ UNCHANGED <<entry, waiting, stop, recovery, left, missed, life, faults, turns>>

Start(p) ==
  /\ asked[p] = "inserted"
  /\ asked' = [asked EXCEPT ![p] = "answered"]
  /\ StartPlan(p)
  /\ UNCHANGED <<row, stop, recovery, left, missed, life, faults, turns>>

-----------------------------------------------------------------------------
(* recoverOnce, and the restart it is for.                                 *)

Unfinished == {p \in Plans : row[p].status \in Open}

\* What a listing of open rows may hold: all of them, or as many as the limit
\* allows.  The code takes the oldest; which those are is left open.
Listings == {S \in SUBSET Unfinished :
               Cardinality(S) = RecoverLimit \/ (S = Unfinished /\ Cardinality(S) <= RecoverLimit)}

\* By the first request for plans; again when it failed.
RecoverList ==
  /\ recovery \in {"none", "failed"}
  /\ recovery' = "running"
  /\ \E S \in Listings :
       /\ left' = [p \in Plans |-> IF p \in S THEN row[p] ELSE Blank]
       /\ missed' = Unfinished \ S
  /\ UNCHANGED <<row, entry, waiting, stop, asked, life, faults, turns>>

\* Mutant: a job that was being checked is not seen as cut off.
RecoverPlanCheckingCarriesOn(p) ==
  LET cut == {j \in Jobs : left[p].jobs[j].status = "working"} IN
  /\ recovery = "running"
  /\ left[p] # Blank
  /\ left' = [left EXCEPT ![p] = Blank]
  /\ IF ~IsQueued(p) /\ cut # {}
       THEN SaveRow(p, StickJob(left[p], cut)) /\ UNCHANGED <<entry, waiting>>
       ELSE StartPlan(p) /\ UNCHANGED row
  /\ UNCHANGED <<stop, asked, recovery, missed, life, faults, turns>>

\* Mutant: a plan that was between jobs is taken for one that runs.
RecoverPlanQueuedOnly(p) ==
  LET cut == {j \in Jobs : left[p].jobs[j].status \in {"working", "checking"}} IN
  /\ recovery = "running"
  /\ left[p] # Blank
  /\ left' = [left EXCEPT ![p] = Blank]
  /\ IF ~IsQueued(p) /\ cut # {}
       THEN SaveRow(p, StickJob(left[p], cut)) /\ UNCHANGED <<entry, waiting>>
       ELSE /\ IF left[p].status = "queued" THEN StartPlan(p) ELSE UNCHANGED <<entry, waiting>>
            /\ UNCHANGED row
  /\ UNCHANGED <<stop, asked, recovery, missed, life, faults, turns>>

\* A job cut off midway is stuck; a plan between jobs carries on.
RecoverPlan(p) ==
  LET cut == {j \in Jobs : left[p].jobs[j].status \in {"working", "checking"}} IN
  /\ recovery = "running"
  /\ left[p] # Blank
  /\ left' = [left EXCEPT ![p] = Blank]
  /\ IF ~IsQueued(p) /\ cut # {}
       THEN SaveRow(p, StickJob(left[p], cut)) /\ UNCHANGED <<entry, waiting>>
       ELSE StartPlan(p) /\ UNCHANGED row
  /\ UNCHANGED <<stop, asked, recovery, missed, life, faults, turns>>

RecoverDone ==
  /\ recovery = "running"
  /\ \A p \in Plans : left[p] = Blank
  /\ recovery' = "done"
  /\ UNCHANGED <<row, entry, waiting, stop, asked, left, missed, life, faults, turns>>

RecoverFails ==
  /\ Fault
  /\ recovery = "running"
  /\ recovery' = "failed"
  /\ left' = [p \in Plans |-> Blank]
  /\ UNCHANGED <<row, entry, waiting, stop, asked, missed, life, turns>>

Crash ==
  /\ life < MaxLives
  /\ life' = life + 1
  /\ entry' = [p \in Plans |-> Off]
  /\ waiting' = << >>
  /\ stop' = [p \in Plans |-> NoStop]
  /\ asked' = [p \in Plans |-> CASE asked[p] = "counted" -> "no"
                                 [] asked[p] = "inserted" -> "answered"
                                 [] OTHER -> asked[p]]
  /\ recovery' = "none"
  /\ left' = [p \in Plans |-> Blank]
  /\ missed' = {}
  /\ UNCHANGED <<row, faults, turns>>

-----------------------------------------------------------------------------
RunStep(p) ==
  \/ Load(p) \/ Pick(p) \/ JobEnd(p) \/ Report(p) \/ End(p) \/ StoppedEnd(p)
  \/ HandedOff(p) \/ Attempt(p) \/ TurnStarts(p) \/ TurnFails(p) \/ TurnAnswers(p)
  \/ CheckItem(p) \/ ItemChecked(p) \/ CheckThrows(p) \/ Verdict(p)

Recover == RecoverList \/ (\E p \in Plans : RecoverPlan(p)) \/ RecoverDone \/ RecoverFails

Next ==
  \/ \E p \in Plans :
       \/ RunStep(p) \/ SaveSettles(p)
       \/ StopRead(p) \/ StopMark(p) \/ StopSave(p)
       \/ AskCount(p) \/ Insert(p) \/ Start(p)
  \/ Recover
  \/ Crash

Spec == Init /\ [][Next]_vars

\* Turns, test runs and model calls have time limits, saves settle, and someone
\* opens the plans again after a restart (recoverOnce waits for that).
FairSpec ==
  /\ Spec
  /\ \A p \in Plans :
       /\ WF_vars(RunStep(p) \/ SaveSettles(p))
       /\ WF_vars(Start(p)) /\ WF_vars(StopMark(p) \/ StopSave(p))
  /\ WF_vars(Recover)

-----------------------------------------------------------------------------
(* Properties.                                                             *)

JobIsDone(job) == job.status = "done" /\ AllTicked(job.list)

\* "Done and checked" is what the person reads: every job of a done plan is done
\* and every item on its list was checked off, whatever restarts and failed saves
\* there were on the way (finish, runPlan, recover).
DoneMeansChecked ==
  \A p \in Plans : row[p].status = "done" => \A j \in Jobs : JobIsDone(row[p].jobs[j])

\* No job is worked on while an earlier one is not done and checked off: not even
\* when the server restarted after that one got stuck and before the plan did.
NeverBuiltOnUnchecked ==
  \A p \in Plans : \A jobs \in {row[p].jobs, Plan(p).jobs} : \A j \in Jobs :
    jobs[j].status \in {"working", "checking"} => \A i \in 1 .. j - 1 : JobIsDone(jobs[i])

\* However a plan ends, no job of it still waits or runs and no item is left open:
\* a check that never ran is said.
NothingLeftOpen ==
  \A p \in Plans : row[p].status \in FinalPlan => \A j \in Jobs :
    /\ row[p].jobs[j].status \in FinalJob
    /\ \A k \in Kinds : row[p].jobs[j].list[k] \notin {"open", "checking"}

\* Jobs settle one after another: none begins on one that failed, and none is left behind
\* when the plan ends, however it ends.
JobsSettleInOrder == NeverBuiltOnUnchecked /\ NothingLeftOpen

\* A finished plan is never written over: not by a late save of a stopped run, a
\* stop that read the row before it finished, nor the recovery.
FinalStays ==
  [][\A p \in Plans : row[p].status \in FinalPlan => row'[p] = row[p]]_vars

\* A job cut off while its agent was redoing it keeps no tick of the try before,
\* whether a stop, a restart or a failed turn cut it off.
CutOffHasNoTicks ==
  [][\A p \in Plans, j \in Jobs :
       /\ faults' = 0
       /\ row[p].jobs[j].status = "working"
       /\ row'[p].jobs[j].status \in {"stuck", "stopped"}
       => \A k \in Kinds : row'[p].jobs[j].list[k] # "ticked"]_vars

\* "Cut-off parts are not run twice": the agent's turns on one job are all of one
\* life of the server.  Needs saves that do not fail: saveEntry goes on when the
\* two saves of "working" failed, and the next recovery then starts the job again.
NotRunTwice ==
  faults = 0 => \A p \in Plans, j \in Jobs : Cardinality(turns[p][j]) <= 1

\* Once the server has picked up the plans of earlier lives, and as long as saves
\* do not fail, each open plan is in its hands: run, in the queue, or being stopped.
\* All but those beyond the rows one recovery lists: nobody has them in this life.
NoPlanForgotten ==
  faults = 0 /\ recovery = "done" => \A p \in Plans \ missed : row[p].status \in Open =>
    IsQueued(p) \/ asked[p] = "inserted" \/ stop[p].pc = "save"

\* Every plan ends, and its person is not left with one that says "Working", unless
\* a restart found more open plans than it lists; the plans of a later restart that
\* does list them end after all.
PlansEnd ==
  \A p \in Plans : row[p].status \in Open ~> row[p].status \in FinalPlan \/ p \in missed

\* stop_jobs: "The job in progress stops and the rest do not start."  No turn
\* starts for a plan that is stopped in the database.
NoTurnAfterStop ==
  [][\A p \in Plans : turns'[p] # turns[p] => row[p].status # "stopped"]_vars

=============================================================================
