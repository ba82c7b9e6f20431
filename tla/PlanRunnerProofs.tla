--------------------------- MODULE PlanRunnerProofs ---------------------------
(* What holds of the plans of PlanRunner for any number of plans, jobs,    *)
(* kinds of items, tries, stops, restarts and failed saves, and what holds *)
(* for any number of all but the last.  In this order:                     *)
(*                                                                         *)
(*   - a finished plan is never written over (FinishedPlansStay): a save   *)
(*     looks at the row first, and an INSERT finds no row (RowInv);        *)
(*   - done means checked (DoneIsChecked): of every copy of a plan (DoneInv);*)
(*   - jobs settle one after another (JobsSettle): every copy of a plan is *)
(*     in order, and a run stands where its plan allows it (PlanInv);      *)
(*   - as long as no read or save fails, what each copy may be ahead of the*)
(*     row with, and who has the plan in hand (Faultless): no cut-off part *)
(*     is run twice, no plan forgotten, no tick kept of work cut off.      *)
EXTENDS PlanRunner, FiniteSetTheorems, WellFoundedInduction, TLAPS

\* row and asked are functions on Plans; what they hold matters below only.
IsRows == row = [p \in Plans |-> row[p]]
IsAsked == asked = [p \in Plans |-> asked[p]]

\* A plan that is not inserted yet has no row.
NewPlansHaveNoRow == \A p \in Plans : asked[p] \in {"no", "counted"} => row[p].status = "none"

RowInv == IsRows /\ IsAsked /\ NewPlansHaveNoRow

\* What a step may do to the rows: nothing, save one, or insert one.
Inserts(p) == asked[p] = "counted" /\ asked' = [asked EXCEPT ![p] = "inserted"]
                /\ \E new : row' = [row EXCEPT ![p] = new]
Saves(p) == row[p].status \in Open /\ (\E new : row' = [row EXCEPT ![p] = new]) /\ UNCHANGED asked
Asks == /\ UNCHANGED row
        /\ asked' = [p \in Plans |-> asked'[p]]
        /\ \A p \in Plans : asked'[p] \in {"no", "counted"} => asked[p] \in {"no", "counted"}

LEMMA SaveRowSteps ==
  ASSUME NEW p \in Plans, NEW plan, SaveRow(p, plan), UNCHANGED asked
  PROVE  Saves(p) \/ (UNCHANGED row /\ UNCHANGED asked)
BY DEF SaveRow, Saves

\* Steps of a run other than its saves leave the rows alone.
LEMMA RunStepsKeepRows ==
  ASSUME NEW p \in Plans, RunStep(p)
  PROVE  UNCHANGED row /\ UNCHANGED asked
BY DEF RunStep, Load, Pick, JobEnd, Report, End, StoppedEnd, HandedOff, Attempt, TurnStarts,
       TurnFails, TurnAnswers, CheckItem, ItemChecked, CheckThrows, Verdict, others

LEMMA StepsOnRows ==
  ASSUME RowInv, [Next]_vars
  PROVE  Asks \/ \E p \in Plans : Saves(p) \/ Inserts(p)
<1>0. SUFFICES ASSUME ~ \E p \in Plans : Saves(p) \/ Inserts(p) PROVE Asks
  OBVIOUS
<1>1. UNCHANGED row /\ UNCHANGED asked => Asks
  BY DEF Asks, RowInv, IsAsked
<1>2. ASSUME NEW p \in Plans, RunStep(p) PROVE Asks
  BY <1>1, <1>2, RunStepsKeepRows
<1>3. ASSUME NEW p \in Plans, SaveSettles(p) PROVE Asks
  BY <1>0, <1>1, <1>3, SaveRowSteps DEF SaveSettles, SaveOrFail, others
<1>4. ASSUME NEW p \in Plans, StopRead(p) \/ StopMark(p) PROVE Asks
  BY <1>1, <1>4 DEF StopRead, StopMark
<1>5. ASSUME NEW p \in Plans, StopSave(p) PROVE Asks
  BY <1>0, <1>1, <1>5, SaveRowSteps DEF StopSave, SaveOrFail
<1>6. ASSUME NEW p \in Plans, AskCount(p) PROVE Asks
  BY <1>6 DEF AskCount, Asks, RowInv, IsAsked
<1>7. ASSUME NEW p \in Plans, Insert(p) PROVE Asks
  BY <1>0, <1>7 DEF Insert, Inserts
<1>8. ASSUME NEW p \in Plans, Start(p) PROVE Asks
  BY <1>8 DEF Start, Asks, RowInv, IsAsked
<1>9. ASSUME NEW p \in Plans, RecoverPlan(p) PROVE Asks
  BY <1>0, <1>1, <1>9, SaveRowSteps DEF RecoverPlan
<1>10. ASSUME RecoverList \/ RecoverDone \/ RecoverFails PROVE Asks
  BY <1>1, <1>10 DEF RecoverList, RecoverDone, RecoverFails
<1>11. ASSUME Crash PROVE Asks
  BY <1>11 DEF Crash, Asks, RowInv, IsAsked
<1>12. CASE UNCHANGED vars
  BY <1>1, <1>12 DEF vars
<1>. QED
  BY <1>2, <1>3, <1>4, <1>5, <1>6, <1>7, <1>8, <1>9, <1>10, <1>11, <1>12 DEF Next, Recover

LEMMA RowInvInitially == Init => RowInv
BY DEF Init, RowInv, IsRows, IsAsked, NewPlansHaveNoRow, Blank

LEMMA RowInvStep == RowInv /\ [Next]_vars => RowInv'
<1>. SUFFICES ASSUME RowInv, [Next]_vars PROVE RowInv'
  OBVIOUS
<1>1. CASE Asks
  BY <1>1 DEF Asks, RowInv, IsRows, IsAsked, NewPlansHaveNoRow
<1>2. ASSUME NEW p \in Plans, Saves(p) PROVE RowInv'
  BY <1>2 DEF Saves, RowInv, IsRows, IsAsked, NewPlansHaveNoRow, Open
<1>3. ASSUME NEW p \in Plans, Inserts(p) PROVE RowInv'
  BY <1>3 DEF Inserts, RowInv, IsRows, IsAsked, NewPlansHaveNoRow
<1>. QED
  BY <1>1, <1>2, <1>3, StepsOnRows

LEMMA FinalRowsStay ==
  RowInv /\ [Next]_vars => [\A p \in Plans : row[p].status \in FinalPlan => row'[p] = row[p]]_vars
<1>. SUFFICES ASSUME RowInv, [Next]_vars, NEW p \in Plans, row[p].status \in FinalPlan
              PROVE  row'[p] = row[p]
  OBVIOUS
<1>1. CASE Asks
  BY <1>1 DEF Asks
<1>2. ASSUME NEW q \in Plans, Saves(q) PROVE row'[p] = row[p]
  <2>. q # p
    BY <1>2 DEF Saves, Open, FinalPlan
  <2>. QED
    BY <1>2 DEF Saves, RowInv, IsRows
<1>3. ASSUME NEW q \in Plans, Inserts(q) PROVE row'[p] = row[p]
  <2>. q # p
    BY <1>3 DEF Inserts, RowInv, NewPlansHaveNoRow, FinalPlan
  <2>. QED
    BY <1>3 DEF Inserts, RowInv, IsRows
<1>. QED
  BY <1>1, <1>2, <1>3, StepsOnRows

\* A finished plan is never written over, by whatever saves, stops, recoveries and
\* new lives of the server come after (savePlan, insertPlan).
THEOREM FinishedPlansStay == Spec => FinalStays
<1>1. Spec => []RowInv
  BY RowInvInitially, RowInvStep, PTL DEF Spec
<1>. QED
  BY <1>1, FinalRowsStay, PTL DEF Spec, FinalStays

-----------------------------------------------------------------------------
(* A plan that says "done" is done and checked.  Only Finish writes "done",*)
(* and only after it looked at every item; what has to be shown is that no *)
(* step changes a plan after that: a run whose plan is finished is past    *)
(* its last job.                                                           *)

Lists == [Kinds -> ItemStates]
Checked(plan) == plan.status = "done" => \A j \in Jobs : JobIsDone(plan.jobs[j])

\* Where a run may still change its plan.
Busy == {"pick", "handoff", "attempt", "agent", "turn", "check", "checked", "jobend"}

EntryOK(e) ==
  /\ e \in [pc : PCs, plan : Contents, saving : Contents, stopped : BOOLEAN,
             attempt : {e.attempt}, kind : {e.kind}]
  /\ Checked(e.plan) /\ Checked(e.saving)
  /\ e.pc \in Busy => e.plan.status # "done"

StopOK(s) == /\ s \in [pc : {s.pc}, plan : Contents]
             /\ s.plan.status # "done"

RowsOK == row = [p \in Plans |-> row[p]]
            /\ \A p \in Plans : row[p] \in Contents /\ Checked(row[p])
EntriesOK == entry = [p \in Plans |-> entry[p]] /\ \A p \in Plans : EntryOK(entry[p])
StopsOK == stop = [p \in Plans |-> stop[p]] /\ \A p \in Plans : StopOK(stop[p])
LeftOK == left = [p \in Plans |-> left[p]] /\ \A p \in Plans : left[p] \in Contents

DoneInv == RowsOK /\ EntriesOK /\ StopsOK /\ LeftOK

LEMMA CloseType == ASSUME NEW l \in Lists PROVE Close(l) \in Lists /\ Reopen(l) \in Lists
BY DEF Lists, Close, Reopen, ItemStates

LEMMA BlankType == Blank \in Contents /\ Checked(Blank) /\ Blank.status = "none"
BY DEF Blank, Contents, JobRecords, ItemStates, Checked

LEMMA SkipRestType ==
  ASSUME NEW plan \in Contents
  PROVE  SkipRest(plan) \in Contents /\ SkipRest(plan).status = plan.status
<1>1. \A j \in Jobs : plan.jobs[j] \in JobRecords /\ plan.jobs[j].list \in Lists
  BY DEF Contents, JobRecords, Lists
<1>2. \A j \in Jobs : [status |-> "skipped", list |-> Close(plan.jobs[j].list)] \in JobRecords
  BY <1>1, CloseType DEF JobRecords, Lists, FinalJob
<1>. QED
  BY <1>1, <1>2 DEF SkipRest, Contents

LEMMA CutOffType ==
  ASSUME NEW job \in JobRecords, NEW status \in FinalJob
  PROVE  CutOff(job, status) \in JobRecords
<1>1. job.list \in Lists
  BY DEF JobRecords, Lists
<1>2. Close(job.list) \in Lists /\ Close(Reopen(job.list)) \in Lists
  BY <1>1, CloseType
<1>. QED
  BY <1>2 DEF CutOff, JobRecords, Lists

LEMMA MarkStoppedType ==
  ASSUME NEW plan \in Contents
  PROVE  MarkStopped(plan) \in Contents /\ MarkStopped(plan).status = "stopped"
<1>. DEFINE marked == [status |-> "stopped", jobs |-> [j \in Jobs |->
              IF plan.jobs[j].status \in {"working", "checking"}
                THEN CutOff(plan.jobs[j], "stopped") ELSE plan.jobs[j]]]
<1>1. \A j \in Jobs : plan.jobs[j] \in JobRecords /\ CutOff(plan.jobs[j], "stopped") \in JobRecords
  BY CutOffType DEF Contents, FinalJob
<1>2. marked \in Contents
  BY <1>1 DEF Contents, FinalPlan
<1>. QED
  BY <1>2, SkipRestType DEF MarkStopped

LEMMA StickJobType ==
  ASSUME NEW plan \in Contents, NEW S
  PROVE  StickJob(plan, S) \in Contents /\ StickJob(plan, S).status = "stuck"
<1>. DEFINE marked == [status |-> "stuck", jobs |-> [j \in Jobs |->
              IF S # {} /\ j = First(S) THEN CutOff(plan.jobs[j], "stuck") ELSE plan.jobs[j]]]
<1>1. \A j \in Jobs : plan.jobs[j] \in JobRecords /\ CutOff(plan.jobs[j], "stuck") \in JobRecords
  BY CutOffType DEF Contents, FinalJob
<1>2. marked \in Contents
  BY <1>1 DEF Contents, FinalPlan
<1>. QED
  BY <1>2, SkipRestType DEF StickJob

\* A change of one job's status and list, whichever job First takes.
LEMMA PlanWithType ==
  ASSUME NEW plan \in Contents, NEW i, NEW status \in {"waiting", "working", "checking"} \cup FinalJob,
         NEW list, i \in Jobs => list \in Lists
  PROVE  LET new == [plan EXCEPT !.jobs[i] = [status |-> status, list |-> list]]
         IN  new \in Contents /\ new.status = plan.status
<1>1. i \in Jobs => [status |-> status, list |-> list] \in JobRecords
  BY DEF JobRecords, Lists
<1>2. plan.jobs \in [Jobs -> JobRecords]
  BY DEF Contents
<1>3. [plan.jobs EXCEPT ![i] = [status |-> status, list |-> list]] \in [Jobs -> JobRecords]
  BY <1>1, <1>2
<1>. QED
  BY <1>3 DEF Contents

LEMMA ListType ==
  ASSUME NEW plan \in Contents, NEW i, i \in Jobs
  PROVE  plan.jobs[i].list \in Lists
BY DEF Contents, JobRecords, Lists

LEMMA FinishType ==
  ASSUME NEW plan \in Contents
  PROVE  Finish(plan) \in Contents /\ Checked(Finish(plan))
<1>. DEFINE gaps == {j \in Jobs : plan.jobs[j].status # "done" \/ ~AllTicked(plan.jobs[j].list)}
            i == First(gaps)
            stuck == [status |-> "stuck", jobs |-> [plan.jobs EXCEPT ![i] =
                        [status |-> "stuck", list |-> Close(@.list)]]]
<1>1. CASE gaps = {}
  <2>1. Finish(plan) = [plan EXCEPT !.status = "done"]
    BY <1>1 DEF Finish
  <2>2. [plan EXCEPT !.status = "done"] \in Contents
        /\ [plan EXCEPT !.status = "done"].jobs = plan.jobs
    BY DEF Contents, FinalPlan
  <2>3. \A j \in Jobs : JobIsDone(plan.jobs[j])
    BY <1>1 DEF JobIsDone
  <2>. QED
    BY <2>1, <2>2, <2>3 DEF Checked
<1>2. CASE gaps # {}
  <2>1. i \in Jobs => Close(plan.jobs[i].list) \in Lists
    BY ListType, CloseType
  <2>2. i \in Jobs => [status |-> "stuck", list |-> Close(plan.jobs[i].list)] \in JobRecords
    BY <2>1 DEF JobRecords, Lists, FinalJob
  <2>3. plan.jobs \in [Jobs -> JobRecords]
    BY DEF Contents
  <2>4. [plan.jobs EXCEPT ![i] = [status |-> "stuck", list |-> Close(@.list)]] \in [Jobs -> JobRecords]
    BY <2>2, <2>3
  <2>5. stuck \in Contents
    BY <2>4 DEF Contents, FinalPlan
  <2>6. Finish(plan) = SkipRest(stuck)
    BY <1>2 DEF Finish
  <2>. QED
    BY <2>5, <2>6, SkipRestType DEF Checked
<1>. QED
  BY <1>1, <1>2

LEMMA FreshEntries == EntryOK(Off) /\ EntryOK(Loading)
BY BlankType DEF EntryOK, Off, Loading, PCs, Busy

LEMMA EntryChanges ==
  ASSUME EntriesOK, NEW p \in Plans, NEW e, EntryOK(e), entry' = [entry EXCEPT ![p] = e]
  PROVE  EntriesOK'
BY DEF EntriesOK

LEMMA PlacesChange ==
  ASSUME EntriesOK, NEW p \in Plans, Leave(p) \/ StartPlan(p)
  PROVE  EntriesOK'
BY FreshEntries DEF EntriesOK, Leave, StartPlan

LEMMA SavedRows ==
  ASSUME RowsOK, NEW p \in Plans, NEW plan \in Contents, Checked(plan), SaveRow(p, plan)
  PROVE  RowsOK'
BY DEF RowsOK, SaveRow

LEMMA SaveAndGoKeeps ==
  ASSUME EntriesOK, NEW p \in Plans, NEW plan \in Contents, Checked(plan), NEW pc \in PCs,
         pc \in Busy => plan.status # "done", SaveAndGo(p, plan, pc)
  PROVE  EntriesOK'
<1>. DEFINE e == [entry[p] EXCEPT !.plan = plan, !.saving = plan, !.pc = pc]
<1>1. entry' = [entry EXCEPT ![p] = e]
  BY DEF SaveAndGo, EntriesOK
<1>2. EntryOK(e)
  BY DEF EntriesOK, EntryOK
<1>. QED
  BY <1>1, <1>2, EntryChanges

\* A change of the current job, saved or not yet, in a run that is not finished.
LEMMA JobChangeKeeps ==
  ASSUME EntriesOK, NEW p \in Plans, entry[p].pc \in Busy,
         NEW status \in {"waiting", "working", "checking"} \cup FinalJob,
         NEW list, Job(p) \in Jobs => list \in Lists
  PROVE  /\ PlanWith(p, status, list) \in Contents
         /\ PlanWith(p, status, list).status # "done"
         /\ Checked(PlanWith(p, status, list))
<1>1. Plan(p) \in Contents /\ Plan(p).status # "done"
  BY DEF EntriesOK, EntryOK, Plan
<1>2. PlanWith(p, status, list) \in Contents /\ PlanWith(p, status, list).status = Plan(p).status
  BY <1>1, PlanWithType DEF PlanWith
<1>. QED
  BY <1>1, <1>2 DEF Checked

LEMMA RunStepsKeepEntries ==
  ASSUME RowsOK, EntriesOK, NEW p \in Plans, RunStep(p)
  PROVE  EntriesOK'
<1>1. entry[p].plan \in Contents /\ EntryOK(entry[p]) /\ row[p] \in Contents
  BY DEF EntriesOK, EntryOK, RowsOK
<1>2. Job(p) \in Jobs => List(p) \in Lists /\ Close(Reopen(List(p))) \in Lists
  BY <1>1, ListType, CloseType DEF List, Plan
<1>. USE DEF Alive
<1>3. CASE Load(p)
  <2>1. CASE row[p].status \in Open /\ SaveAndGo(p, [row[p] EXCEPT !.status = "running"], "pick")
    <3>1. [row[p] EXCEPT !.status = "running"] \in Contents
          /\ [row[p] EXCEPT !.status = "running"].status = "running"
      BY <1>1 DEF Contents, Open
    <3>. QED
      BY <2>1, <3>1, SaveAndGoKeeps DEF Checked, PCs
  <2>. QED
    BY <1>3, <2>1, PlacesChange DEF Load
<1>4. CASE Pick(p)
  <2>. DEFINE rest == {j \in Jobs : Plan(p).jobs[j].status # "done"}
              finished == [entry[p] EXCEPT !.plan = Finish(@), !.pc = "report"]
              picked == [entry[p] EXCEPT !.plan.jobs[First(rest)].status = "working",
                                         !.attempt = 0, !.pc = "handoff"]
  <2>1. EntryOK(finished)
    BY <1>1, FinishType DEF EntryOK, Busy, PCs
  <2>2. EntryOK(picked)
    <3>1. [entry[p].plan EXCEPT !.jobs[First(rest)].status = "working"] \in Contents
          /\ [entry[p].plan EXCEPT !.jobs[First(rest)].status = "working"].status # "done"
      <4>1. entry[p].plan.status # "done"
        BY <1>4, <1>1 DEF Pick, EntryOK, Busy
      <4>2. [entry[p].plan.jobs EXCEPT ![First(rest)].status = "working"] \in [Jobs -> JobRecords]
        BY <1>1 DEF Contents, JobRecords
      <4>. QED
        BY <1>1, <4>1, <4>2 DEF Contents
    <3>. QED
      BY <1>1, <3>1 DEF EntryOK, Busy, PCs, Checked
  <2>3. CASE entry' = [entry EXCEPT ![p].plan = Finish(@), ![p].pc = "report"]
    <3>1. entry' = [entry EXCEPT ![p] = finished]
      BY <2>3 DEF EntriesOK
    <3>. QED
      BY <2>1, <3>1, EntryChanges
  <2>4. CASE entry' = [entry EXCEPT ![p].plan.jobs[First(rest)].status = "working",
                                    ![p].attempt = 0, ![p].pc = "handoff"]
    <3>1. entry' = [entry EXCEPT ![p] = picked]
      BY <2>4 DEF EntriesOK
    <3>. QED
      BY <2>2, <3>1, EntryChanges
  <2>. QED
    BY <1>4, <2>3, <2>4 DEF Pick
<1>5. CASE JobEnd(p)
  <2>. DEFINE stuck == [entry[p].plan EXCEPT !.status = "stuck"]
              e == [entry[p] EXCEPT !.plan = SkipRest(stuck), !.pc = "report"]
  <2>1. stuck \in Contents /\ stuck.status = "stuck"
    BY <1>1 DEF Contents, FinalPlan
  <2>2. SkipRest(stuck) \in Contents /\ Checked(SkipRest(stuck))
    BY <2>1, SkipRestType DEF Checked
  <2>3. EntryOK(e)
    BY <1>1, <2>2 DEF EntryOK, Busy, PCs
  <2>4. entry' = [entry EXCEPT ![p] = e]
    BY <1>5 DEF JobEnd, EntriesOK
  <2>. QED
    BY <2>3, <2>4, EntryChanges
<1>6. CASE Report(p)
  BY <1>1, <1>6, SaveAndGoKeeps DEF Report, Plan, EntryOK, PCs, Busy
<1>7. CASE End(p) \/ StoppedEnd(p)
  BY <1>7, PlacesChange DEF End, StoppedEnd
<1>8. CASE HandedOff(p)
  BY <1>1, <1>8, SaveAndGoKeeps DEF HandedOff, Plan, EntryOK, PCs, Busy
<1>9. CASE Attempt(p)
  <2>. DEFINE plan == PlanWith(p, "working", List(p))
              e == [entry[p] EXCEPT !.plan = plan, !.saving = plan, !.pc = "agent", !.attempt = @ + 1]
  <2>1. plan \in Contents /\ plan.status # "done" /\ Checked(plan)
    BY <1>2, <1>9, JobChangeKeeps DEF Attempt, Busy
  <2>2. EntryOK(e)
    BY <1>1, <2>1 DEF EntryOK, PCs
  <2>3. entry' = [entry EXCEPT ![p] = e]
    BY <1>9 DEF Attempt, EntriesOK
  <2>. QED
    BY <2>2, <2>3, EntryChanges
<1>10. CASE TurnStarts(p)
  <2>. DEFINE e == [entry[p] EXCEPT !.pc = "turn"]
  <2>1. EntryOK(e)
    BY <1>1, <1>10 DEF TurnStarts, EntryOK, PCs, Busy
  <2>2. entry' = [entry EXCEPT ![p] = e]
    BY <1>10 DEF TurnStarts, EntriesOK
  <2>. QED
    BY <2>1, <2>2, EntryChanges
<1>11. CASE TurnFails(p)
  <2>1. /\ PlanWith(p, "stuck", Close(Reopen(List(p)))) \in Contents
        /\ PlanWith(p, "stuck", Close(Reopen(List(p)))).status # "done"
        /\ Checked(PlanWith(p, "stuck", Close(Reopen(List(p)))))
    BY <1>2, <1>11, JobChangeKeeps DEF TurnFails, Busy, FinalJob
  <2>. QED
    BY <1>11, <2>1, SaveAndGoKeeps DEF TurnFails, PCs
<1>12. CASE TurnAnswers(p)
  <2>1. PICK add \in SUBSET ({"tests"} \cap Kinds) :
          LET list == [k \in Kinds |-> IF k \in add THEN "open" ELSE Reopen(List(p))[k]]
              plan == PlanWith(p, "checking", list)
          IN entry' = [entry EXCEPT ![p].plan = plan, ![p].saving = plan, ![p].pc = "check",
                                    ![p].kind = 1]
    BY <1>12 DEF TurnAnswers
  <2>. DEFINE list == [k \in Kinds |-> IF k \in add THEN "open" ELSE Reopen(List(p))[k]]
              plan == PlanWith(p, "checking", list)
              e == [entry[p] EXCEPT !.plan = plan, !.saving = plan, !.pc = "check", !.kind = 1]
  <2>2. Job(p) \in Jobs => Reopen(List(p)) \in Lists
    BY <1>2, CloseType
  <2>3. Job(p) \in Jobs => list \in Lists
    BY <2>2 DEF Lists, ItemStates
  <2>4. plan \in Contents /\ plan.status # "done" /\ Checked(plan)
    BY <2>3, <1>12, JobChangeKeeps DEF TurnAnswers, Busy
  <2>5. EntryOK(e)
    BY <1>1, <2>4 DEF EntryOK, PCs
  <2>6. entry' = [entry EXCEPT ![p] = e]
    BY <2>1 DEF EntriesOK
  <2>. QED
    BY <2>5, <2>6, EntryChanges
<1>13. ASSUME NEW i, NEW state \in ItemStates, entry[p].pc \in Busy
       PROVE  LET plan == SetItem(p, i, state)
              IN  plan \in Contents /\ plan.status # "done" /\ Checked(plan)
  <2>1. Job(p) \in Jobs => [List(p) EXCEPT ![i] = state] \in Lists
    BY <1>2 DEF Lists
  <2>. QED
    BY <1>13, <2>1, JobChangeKeeps DEF SetItem
<1>14. CASE CheckItem(p)
  <2>. DEFINE i == First(Unchecked(p))
              plan == SetItem(p, CheckOrder[i], "checking")
              e == [entry[p] EXCEPT !.plan = plan, !.saving = plan, !.pc = "checked", !.kind = i]
  <2>1. plan \in Contents /\ plan.status # "done" /\ Checked(plan)
    BY <1>13, <1>14 DEF CheckItem, Busy, ItemStates
  <2>2. EntryOK(e)
    BY <1>1, <2>1 DEF EntryOK, PCs
  <2>3. entry' = [entry EXCEPT ![p] = e]
    BY <1>14 DEF CheckItem, EntriesOK
  <2>. QED
    BY <2>2, <2>3, EntryChanges
<1>15. CASE ItemChecked(p)
  <2>1. PICK state \in {"ticked", "failed", "unknown"} :
          LET plan == SetItem(p, CheckOrder[entry[p].kind], state) IN
          entry' = [entry EXCEPT ![p].plan = plan, ![p].saving = plan, ![p].pc = "check",
                                 ![p].kind = @ + 1]
    BY <1>15 DEF ItemChecked
  <2>. DEFINE plan == SetItem(p, CheckOrder[entry[p].kind], state)
              e == [entry[p] EXCEPT !.plan = plan, !.saving = plan, !.pc = "check", !.kind = @ + 1]
  <2>2. plan \in Contents /\ plan.status # "done" /\ Checked(plan)
    BY <1>13, <1>15 DEF ItemChecked, Busy, ItemStates
  <2>3. EntryOK(e)
    BY <1>1, <2>2 DEF EntryOK, PCs
  <2>4. entry' = [entry EXCEPT ![p] = e]
    BY <2>1 DEF EntriesOK
  <2>. QED
    BY <2>3, <2>4, EntryChanges
<1>16. CASE CheckThrows(p)
  <2>. DEFINE plan == StickJob(Plan(p), {j \in Jobs : Plan(p).jobs[j].status \notin FinalJob})
  <2>1. plan \in Contents /\ plan.status = "stuck"
    BY <1>1, StickJobType DEF Plan
  <2>. QED
    BY <1>16, <2>1, SaveAndGoKeeps DEF CheckThrows, Checked, PCs
<1>17. CASE Verdict(p)
  <2>1. ASSUME NEW status \in {"done", "stuck"}
        PROVE  /\ PlanWith(p, status, List(p)) \in Contents
               /\ PlanWith(p, status, List(p)).status # "done"
               /\ Checked(PlanWith(p, status, List(p)))
    BY <1>2, <1>17, JobChangeKeeps DEF Verdict, Busy, FinalJob
  <2>2. Plan(p) \in Contents /\ Checked(Plan(p)) /\ Plan(p).status # "done"
    BY <1>1, <1>17 DEF Verdict, Plan, EntryOK, Busy
  <2>3. \/ SaveAndGo(p, PlanWith(p, "done", List(p)), "pick")
        \/ SaveAndGo(p, PlanWith(p, "stuck", List(p)), "jobend")
        \/ SaveAndGo(p, Plan(p), "attempt")
    BY <1>17 DEF Verdict
  <2>. QED
    BY <2>1, <2>2, <2>3, SaveAndGoKeeps DEF PCs
<1>. QED
  BY <1>3, <1>4, <1>5, <1>6, <1>7, <1>8, <1>9, <1>10, <1>11, <1>12, <1>14, <1>15, <1>16, <1>17
  DEF RunStep

LEMMA RunStepsKeepRest ==
  ASSUME NEW p \in Plans, RunStep(p)
  PROVE  UNCHANGED <<stop, left>>
BY DEF RunStep, Load, Pick, JobEnd, Report, End, StoppedEnd, HandedOff, Attempt, TurnStarts,
       TurnFails, TurnAnswers, CheckItem, ItemChecked, CheckThrows, Verdict, others

LEMMA SavedOrFailed ==
  ASSUME RowsOK, NEW p \in Plans, NEW plan \in Contents, Checked(plan), SaveOrFail(p, plan)
  PROVE  RowsOK'
BY SavedRows DEF SaveOrFail, RowsOK

LEMMA UnchangedParts ==
  /\ RowsOK /\ UNCHANGED row => RowsOK'
  /\ EntriesOK /\ UNCHANGED entry => EntriesOK'
  /\ StopsOK /\ UNCHANGED stop => StopsOK'
  /\ LeftOK /\ UNCHANGED left => LeftOK'
BY DEF RowsOK, EntriesOK, StopsOK, LeftOK

LEMMA StopsKeep ==
  ASSUME DoneInv, NEW p \in Plans, StopRead(p) \/ StopMark(p) \/ StopSave(p)
  PROVE  DoneInv'
<1>. USE DEF DoneInv
<1>1. row[p] \in Contents /\ EntryOK(entry[p]) /\ StopOK(stop[p]) /\ entry[p].plan \in Contents
  BY DEF RowsOK, EntriesOK, StopsOK, EntryOK
<1>2. CASE StopRead(p)
  <2>1. StopsOK'
    BY <1>1, <1>2 DEF StopRead, StopsOK, StopOK, Open
  <2>. QED
    BY <1>2, <2>1, UnchangedParts DEF StopRead
<1>3. CASE StopMark(p)
  <2>. DEFINE loaded == entry[p].pc \notin {"off", "loading"}
              plan == MarkStopped(IF loaded THEN Plan(p) ELSE stop[p].plan)
              e == [entry[p] EXCEPT !.stopped = TRUE, !.plan = IF loaded THEN plan ELSE @]
  <2>1. plan \in Contents /\ plan.status = "stopped"
    BY <1>1, MarkStoppedType DEF StopOK, Plan
  <2>2. StopsOK'
    <3>1. stop' = [stop EXCEPT ![p] = [pc |-> "save", plan |-> plan]]
      BY <1>3 DEF StopMark
    <3>. HIDE DEF plan
    <3>. QED
      BY <2>1, <3>1 DEF StopsOK, StopOK
  <2>3. EntryOK(e)
    BY <1>1, <2>1 DEF EntryOK, Checked
  <2>4. entry' = [entry EXCEPT ![p] = e] \/ UNCHANGED entry
    BY <1>3 DEF StopMark, EntriesOK
  <2>5. EntriesOK'
    BY <2>3, <2>4, EntryChanges, UnchangedParts
  <2>. QED
    BY <1>3, <2>2, <2>5, UnchangedParts DEF StopMark
<1>4. CASE StopSave(p)
  <2>1. RowsOK'
    BY <1>1, <1>4, SavedOrFailed DEF StopSave, StopOK, Checked
  <2>2. StopsOK'
    BY <1>4, BlankType DEF StopSave, StopsOK, StopOK, NoStop
  <2>. QED
    BY <1>4, <2>1, <2>2, UnchangedParts DEF StopSave
<1>. QED
  BY <1>2, <1>3, <1>4

LEMMA AsksKeep ==
  ASSUME DoneInv, NEW p \in Plans, AskCount(p) \/ Insert(p) \/ Start(p)
  PROVE  DoneInv'
<1>. USE DEF DoneInv
<1>1. CASE AskCount(p)
  BY <1>1, UnchangedParts DEF AskCount
<1>2. CASE Insert(p)
  <2>1. PICK lists \in [Jobs -> Checklists] :
          row' = [row EXCEPT ![p] = [status |-> "queued", jobs |-> [j \in Jobs |->
            [status |-> "waiting",
             list |-> [k \in Kinds |-> IF k \in lists[j] THEN "open" ELSE "none"]]]]]
    BY <1>2 DEF Insert
  <2>. DEFINE new == [status |-> "queued", jobs |-> [j \in Jobs |->
                [status |-> "waiting",
                 list |-> [k \in Kinds |-> IF k \in lists[j] THEN "open" ELSE "none"]]]]
  <2>2. new \in Contents /\ Checked(new)
    BY DEF Contents, JobRecords, ItemStates, Open, Checked
  <2>. HIDE DEF new
  <2>3. RowsOK'
    BY <2>1, <2>2 DEF RowsOK, new
  <2>. QED
    BY <1>2, <2>3, UnchangedParts DEF Insert
<1>3. CASE Start(p)
  BY <1>3, PlacesChange, UnchangedParts DEF Start
<1>. QED
  BY <1>1, <1>2, <1>3

LEMMA RecoveriesKeep == ASSUME DoneInv, Recover PROVE DoneInv'
<1>. USE DEF DoneInv
<1>1. CASE RecoverList
  <2>1. LeftOK'
    BY <1>1, BlankType DEF RecoverList, LeftOK, RowsOK
  <2>. QED
    BY <1>1, <2>1, UnchangedParts DEF RecoverList
<1>2. ASSUME NEW p \in Plans, RecoverPlan(p) PROVE DoneInv'
  <2>. DEFINE cut == {j \in Jobs : left[p].jobs[j].status \in {"working", "checking"}}
  <2>1. LeftOK'
    BY <1>2, BlankType DEF RecoverPlan, LeftOK
  <2>2. CASE SaveRow(p, StickJob(left[p], cut)) /\ UNCHANGED <<entry, waiting>>
    <3>1. StickJob(left[p], cut) \in Contents /\ Checked(StickJob(left[p], cut))
      BY StickJobType DEF LeftOK, Checked
    <3>2. RowsOK'
      BY <2>2, <3>1, SavedRows
    <3>. QED
      BY <1>2, <2>1, <2>2, <3>2, UnchangedParts DEF RecoverPlan
  <2>3. CASE StartPlan(p) /\ UNCHANGED row
    BY <1>2, <2>1, <2>3, PlacesChange, UnchangedParts DEF RecoverPlan
  <2>. QED
    BY <1>2, <2>2, <2>3 DEF RecoverPlan
<1>3. CASE RecoverDone
  BY <1>3, UnchangedParts DEF RecoverDone
<1>4. CASE RecoverFails
  <2>1. LeftOK'
    BY <1>4, BlankType DEF RecoverFails, LeftOK
  <2>. QED
    BY <1>4, <2>1, UnchangedParts DEF RecoverFails
<1>. QED
  BY <1>1, <1>2, <1>3, <1>4 DEF Recover

LEMMA DoneInvInitially == Init => DoneInv
BY BlankType, FreshEntries
DEF Init, DoneInv, RowsOK, EntriesOK, StopsOK, LeftOK, StopOK, NoStop

LEMMA DoneInvStep == DoneInv /\ [Next]_vars => DoneInv'
<1>. SUFFICES ASSUME DoneInv, [Next]_vars PROVE DoneInv'
  OBVIOUS
<1>1. ASSUME NEW p \in Plans, RunStep(p) PROVE DoneInv'
  BY <1>1, RunStepsKeepRows, RunStepsKeepEntries, RunStepsKeepRest, UnchangedParts DEF DoneInv
<1>2. ASSUME NEW p \in Plans, SaveSettles(p) PROVE DoneInv'
  <2>1. EntryOK(entry[p]) /\ entry[p].saving \in Contents /\ Checked(entry[p].saving)
    BY DEF DoneInv, EntriesOK, EntryOK
  <2>2. RowsOK'
    BY <1>2, <2>1, SavedOrFailed DEF SaveSettles, DoneInv
  <2>. DEFINE e == [entry[p] EXCEPT !.saving = Blank]
  <2>3. EntryOK(e)
    BY <2>1, BlankType DEF EntryOK
  <2>4. entry' = [entry EXCEPT ![p] = e]
    BY <1>2 DEF SaveSettles, DoneInv, EntriesOK
  <2>. QED
    BY <1>2, <2>2, <2>3, <2>4, EntryChanges, UnchangedParts DEF SaveSettles, DoneInv, others
<1>3. ASSUME NEW p \in Plans, StopRead(p) \/ StopMark(p) \/ StopSave(p) PROVE DoneInv'
  BY <1>3, StopsKeep
<1>4. ASSUME NEW p \in Plans, AskCount(p) \/ Insert(p) \/ Start(p) PROVE DoneInv'
  BY <1>4, AsksKeep
<1>5. CASE Recover
  BY <1>5, RecoveriesKeep
<1>6. CASE Crash
  <2>1. EntriesOK' /\ StopsOK' /\ LeftOK'
    BY <1>6, FreshEntries, BlankType DEF Crash, EntriesOK, StopsOK, StopOK, NoStop, LeftOK
  <2>. QED
    BY <1>6, <2>1, UnchangedParts DEF Crash, DoneInv
<1>7. CASE UNCHANGED vars
  BY <1>7, UnchangedParts DEF vars, DoneInv
<1>. QED
  BY <1>1, <1>2, <1>3, <1>4, <1>5, <1>6, <1>7 DEF Next

\* "Done and checked" is true of every plan that says so, for any number of jobs,
\* tries, kinds of items, restarts, failed saves and plans running at once.
THEOREM DoneIsChecked == Spec => []DoneMeansChecked
<1>1. Spec => []DoneInv
  BY DoneInvInitially, DoneInvStep, PTL DEF Spec
<1>2. DoneInv => DoneMeansChecked
  BY DEF DoneInv, RowsOK, Checked, DoneMeansChecked
<1>. QED
  BY <1>1, <1>2, PTL

-----------------------------------------------------------------------------
(* The first of some jobs.                                                 *)

Less == OpToRel(<, Nat)

LEMMA LessIsWellFounded == IsWellFoundedOn(Less, Nat)
BY NatLessThanWellFounded, Zenon DEF Less

LEMMA HasFirst ==
  ASSUME NEW S \in SUBSET Nat, S # {}
  PROVE  First(S) \in S /\ \A i \in S : First(S) <= i
<1>1. \A x, y \in Nat : <<x, y>> \in Less <=> x < y
  BY DEF Less, OpToRel
<1>2. PICK k \in S : \A l \in S : ~(<<l, k>> \in Less)
  BY LessIsWellFounded, WFMin, Zenon
<1>3. \A l \in S : ~(l < k)
  BY <1>1, <1>2
<1>4. \A l \in S : k <= l
  BY <1>3
<1>. QED
  BY <1>4 DEF First

LEMMA JobsAreNumbers ==
  Jobs \in SUBSET Nat /\ \A j \in Jobs : 1 .. j - 1 \subseteq Jobs
BY BoundsAssumption DEF Jobs

LEMMA FirstJob ==
  ASSUME NEW S \in SUBSET Jobs, S # {}
  PROVE  First(S) \in S /\ First(S) \in Jobs /\ \A i \in S : First(S) <= i
BY HasFirst, JobsAreNumbers

-----------------------------------------------------------------------------
(* A plan whose jobs settle one after another.  Every copy of a plan is in *)
(* order: the row, what a run and a stop hold in memory, the save in       *)
(* flight, and what recover has read.                                      *)

Begun == {"working", "checking", "done", "stuck", "stopped"}
Cut == {"working", "checking"}
Ended == {"stuck", "stopped"}
NoOpen(list) == \A k \in Kinds : list[k] \notin {"open", "checking"}
NoTick(list) == \A k \in Kinds : list[k] # "ticked"

\* Jobs before one that has begun are done; what is settled has nothing open.
InOrder(plan) ==
  \A j \in Jobs :
    /\ plan.jobs[j].status \in Begun => \A i \in 1 .. j - 1 : JobIsDone(plan.jobs[i])
    /\ plan.jobs[j].status = "done" => AllTicked(plan.jobs[j].list)
    /\ plan.jobs[j].status \in FinalJob => NoOpen(plan.jobs[j].list)

Closed(plan) == \A j \in Jobs : plan.jobs[j].status \in FinalJob
Orderly(plan) == InOrder(plan) /\ (plan.status \in FinalPlan => Closed(plan))
Has(plan, S) == \E j \in Jobs : plan.jobs[j].status \in S

LEMMA TickedNotOpen ==
  ASSUME NEW list, AllTicked(list)
  PROVE  NoOpen(list)
BY DEF AllTicked, NoOpen, Present

LEMMA ClosedLists ==
  ASSUME NEW list \in Lists
  PROVE  /\ NoOpen(Close(list))
         /\ NoOpen(Close(Reopen(list))) /\ NoTick(Close(Reopen(list))) /\ NoTick(Reopen(list))
BY DEF Lists, Close, Reopen, NoOpen, NoTick, ItemStates

LEMMA CutOffLists ==
  ASSUME NEW job \in JobRecords, NEW status
  PROVE  /\ CutOff(job, status).status = status
         /\ NoOpen(CutOff(job, status).list)
         /\ job.status = "working" => NoTick(CutOff(job, status).list)
         /\ NoTick(job.list) => NoTick(CutOff(job, status).list)
<1>1. job.list \in Lists
  BY DEF JobRecords, Lists
<1>2. NoTick(job.list) => NoTick(Close(job.list))
  BY DEF NoTick, Close
<1>. QED
  BY <1>1, <1>2, ClosedLists DEF CutOff

LEMMA JobTyped ==
  ASSUME NEW plan \in Contents, NEW j \in Jobs
  PROVE  plan.jobs[j] \in JobRecords /\ plan.jobs[j].list \in Lists
         /\ plan.jobs[j].status \in {"waiting"} \cup Cut \cup FinalJob
BY DEF Contents, JobRecords, Lists, Cut

\* What skipRest does to each job.
LEMMA SkipRestJobs ==
  ASSUME NEW plan \in Contents
  PROVE  /\ SkipRest(plan).status = plan.status
         /\ \A j \in Jobs :
              IF plan.jobs[j].status = "waiting"
                THEN /\ SkipRest(plan).jobs[j].status = "skipped"
                     /\ NoOpen(SkipRest(plan).jobs[j].list)
                ELSE SkipRest(plan).jobs[j] = plan.jobs[j]
<1>1. plan.jobs \in [Jobs -> JobRecords]
  BY DEF Contents
<1>2. SkipRest(plan).jobs = [j \in Jobs |->
        IF plan.jobs[j].status = "waiting"
          THEN [status |-> "skipped", list |-> Close(plan.jobs[j].list)] ELSE plan.jobs[j]]
  BY DEF SkipRest, Contents
<1>3. SkipRest(plan).status = plan.status
  BY SkipRestType
<1>. QED
  BY <1>2, <1>3, JobTyped, ClosedLists

\* A plan none of whose jobs is worked on is closed by skipping the rest.
LEMMA SkipRestCloses ==
  ASSUME NEW plan \in Contents, InOrder(plan), ~Has(plan, Cut)
  PROVE  Orderly(SkipRest(plan))
<1>. DEFINE new == SkipRest(plan)
<1>1. ASSUME NEW j \in Jobs
      PROVE  /\ new.jobs[j].status \in FinalJob
             /\ new.jobs[j].status \in Begun => new.jobs[j] = plan.jobs[j]
                /\ plan.jobs[j].status \in Begun
             /\ new.jobs[j].status \notin Begun => NoOpen(new.jobs[j].list)
                /\ new.jobs[j].status = "skipped"
             /\ JobIsDone(plan.jobs[j]) => new.jobs[j] = plan.jobs[j]
  BY SkipRestJobs, JobTyped DEF Has, InOrder, FinalJob, Begun, Cut, JobIsDone
<1>2. \A j \in Jobs : 1 .. j - 1 \subseteq Jobs
  BY JobsAreNumbers
<1>3. InOrder(new)
  <2>. SUFFICES ASSUME NEW j \in Jobs
                PROVE  /\ new.jobs[j].status \in Begun => \A i \in 1 .. j - 1 : JobIsDone(new.jobs[i])
                       /\ new.jobs[j].status = "done" => AllTicked(new.jobs[j].list)
                       /\ new.jobs[j].status \in FinalJob => NoOpen(new.jobs[j].list)
    BY DEF InOrder
  <2>. HIDE DEF new
  <2>1. CASE new.jobs[j].status \in Begun
    BY <1>1, <1>2, <2>1 DEF InOrder
  <2>2. CASE new.jobs[j].status \notin Begun
    BY <1>1, <2>2 DEF Begun
  <2>. QED
    BY <2>1, <2>2
<1>. QED
  BY <1>1, <1>3 DEF Orderly, Closed

\* The job that has begun and is not done is the last one that began.
LEMMA OneAtATime ==
  ASSUME NEW plan, InOrder(plan), NEW i \in Jobs, plan.jobs[i].status \in Begun,
         NEW j \in Jobs, plan.jobs[j].status \in Begun, plan.jobs[i].status # "done",
         plan.jobs[j].status # "done"
  PROVE  i = j
<1>1. i < j => JobIsDone(plan.jobs[i])
  BY DEF InOrder, Jobs
<1>2. j < i => JobIsDone(plan.jobs[j])
  BY DEF InOrder, Jobs
<1>. QED
  BY <1>1, <1>2 DEF JobIsDone, Jobs

Current(plan) == First({j \in Jobs : plan.jobs[j].status # "done"})

LEMMA CurrentJob ==
  ASSUME NEW plan, \E j \in Jobs : plan.jobs[j].status # "done"
  PROVE  /\ Current(plan) \in Jobs /\ plan.jobs[Current(plan)].status # "done"
         /\ \A i \in 1 .. Current(plan) - 1 : i \in Jobs /\ plan.jobs[i].status = "done"
<1>. DEFINE S == {j \in Jobs : plan.jobs[j].status # "done"}
<1>1. First(S) \in S /\ First(S) \in Jobs /\ \A i \in S : First(S) <= i
  BY FirstJob
<1>2. First(S) \in Nat /\ 1 .. First(S) - 1 \subseteq Jobs
  BY <1>1, JobsAreNumbers
<1>3. \A i \in 1 .. First(S) - 1 : ~(First(S) <= i)
  BY <1>2
<1>. QED
  BY <1>1, <1>2, <1>3 DEF Current

\* Whoever is worked on, or stuck, is the current job.
LEMMA CurrentIs ==
  ASSUME NEW plan, InOrder(plan), NEW j \in Jobs, plan.jobs[j].status \in Begun \ {"done"}
  PROVE  Current(plan) = j
<1>1. Current(plan) \in Jobs /\ plan.jobs[Current(plan)].status # "done"
      /\ \A i \in 1 .. Current(plan) - 1 : i \in Jobs /\ plan.jobs[i].status = "done"
  BY CurrentJob
<1>2. j < Current(plan) => plan.jobs[j].status = "done"
  BY <1>1 DEF Jobs
<1>3. Current(plan) < j => JobIsDone(plan.jobs[Current(plan)])
  BY <1>1 DEF InOrder, Jobs
<1>. QED
  BY <1>1, <1>2, <1>3 DEF JobIsDone, Jobs

\* After the current job nothing has begun.
LEMMA NothingAfterCurrent ==
  ASSUME NEW plan, InOrder(plan), NEW j \in Jobs, plan.jobs[j].status \in Begun,
         \E i \in Jobs : plan.jobs[i].status # "done"
  PROVE  j <= Current(plan)
<1>1. Current(plan) \in Jobs /\ plan.jobs[Current(plan)].status # "done"
  BY CurrentJob
<1>2. Current(plan) < j => JobIsDone(plan.jobs[Current(plan)])
  BY <1>1 DEF InOrder, Jobs
<1>. QED
  BY <1>1, <1>2 DEF JobIsDone, Jobs

-----------------------------------------------------------------------------
(* What the code does to the jobs of a plan, one job at a time or all.     *)

SetJob(plan, i, job) == [plan EXCEPT !.jobs[i] = job]
SetStatus(plan, i, status) == [plan EXCEPT !.jobs[i].status = status]

\* What a write of one job changes.
LEMMA WithJob ==
  ASSUME NEW plan \in Contents, NEW i \in Jobs, NEW job \in JobRecords
  PROVE  /\ SetJob(plan, i, job) \in Contents /\ SetJob(plan, i, job).status = plan.status
         /\ SetJob(plan, i, job).jobs[i] = job
         /\ \A j \in Jobs \ {i} : SetJob(plan, i, job).jobs[j] = plan.jobs[j]
<1>. DEFINE new == [plan EXCEPT !.jobs[i] = job]
<1>1. plan.jobs \in [Jobs -> JobRecords]
  BY DEF Contents
<1>2. new.jobs = [plan.jobs EXCEPT ![i] = job] /\ new.status = plan.status /\ new \in Contents
  BY <1>1 DEF Contents
<1>3. SetJob(plan, i, job) = new
  BY DEF SetJob
<1>. HIDE DEF new
<1>. QED
  BY <1>1, <1>2, <1>3

\* A change of the current job keeps the order, when it settles it properly.
LEMMA ChangeCurrent ==
  ASSUME NEW plan, InOrder(plan), \E j \in Jobs : plan.jobs[j].status # "done",
         NEW new, \A j \in Jobs \ {Current(plan)} : new.jobs[j] = plan.jobs[j],
         new.jobs[Current(plan)].status = "done" => AllTicked(new.jobs[Current(plan)].list),
         new.jobs[Current(plan)].status \in FinalJob => NoOpen(new.jobs[Current(plan)].list)
  PROVE  InOrder(new)
<1>. DEFINE c == Current(plan)
<1>1. c \in Jobs /\ plan.jobs[c].status # "done"
      /\ \A i \in 1 .. c - 1 : i \in Jobs /\ plan.jobs[i].status = "done"
  BY CurrentJob
<1>. HIDE DEF c
<1>2. ASSUME NEW j \in Jobs, new.jobs[j].status \in Begun
      PROVE  \A i \in 1 .. j - 1 : JobIsDone(new.jobs[i])
  <2>1. CASE j = c
    <3>1. \A i \in 1 .. c - 1 : i \in Jobs \ {c} /\ AllTicked(plan.jobs[i].list)
      BY <1>1, JobsAreNumbers DEF InOrder
    <3>. QED
      BY <1>1, <2>1, <3>1 DEF JobIsDone, c
  <2>2. CASE j # c
    <3>1. plan.jobs[j].status \in Begun /\ j <= c
      BY <1>1, <1>2, <2>2, NothingAfterCurrent DEF c
    <3>2. \A i \in 1 .. j - 1 : i \in Jobs \ {c} /\ JobIsDone(plan.jobs[i])
      BY <1>1, <3>1, JobsAreNumbers DEF InOrder
    <3>. QED
      BY <3>2 DEF c
  <2>. QED
    BY <2>1, <2>2
<1>. QED
  BY <1>2 DEF InOrder, c

\* The same when only the status is written.
LEMMA OnlyStatus ==
  ASSUME NEW plan \in Contents, NEW i \in Jobs, NEW status
  PROVE  SetStatus(plan, i, status)
           = SetJob(plan, i, [status |-> status, list |-> plan.jobs[i].list])
<1>1. plan.jobs \in [Jobs -> JobRecords]
  BY DEF Contents
<1>2. plan.jobs[i] \in JobRecords
  BY <1>1
<1>3. [plan.jobs[i] EXCEPT !.status = status] = [status |-> status, list |-> plan.jobs[i].list]
  BY <1>2 DEF JobRecords
<1>. QED
  BY <1>3 DEF SetStatus, SetJob

LEMMA StickJobJobs ==
  ASSUME NEW plan \in Contents, InOrder(plan), NEW S \in SUBSET Jobs, S # {},
         plan.jobs[First(S)].status \in Cut
  PROVE  /\ StickJob(plan, S) \in Contents /\ StickJob(plan, S).status = "stuck"
         /\ Orderly(StickJob(plan, S))
         /\ StickJob(plan, S).jobs[First(S)] = CutOff(plan.jobs[First(S)], "stuck")
         /\ \A j \in Jobs \ {First(S)} :
              IF plan.jobs[j].status = "waiting"
                THEN StickJob(plan, S).jobs[j].status = "skipped"
                ELSE StickJob(plan, S).jobs[j] = plan.jobs[j]
<1>. DEFINE f == First(S)
            job == CutOff(plan.jobs[f], "stuck")
            marked == [status |-> "stuck", jobs |-> [j \in Jobs |->
              IF S # {} /\ j = f THEN CutOff(plan.jobs[j], "stuck") ELSE plan.jobs[j]]]
<1>1. f \in Jobs
  BY FirstJob
<1>. HIDE DEF f
<1>2. /\ marked.status = "stuck"
      /\ marked.jobs[f] = job /\ \A j \in Jobs \ {f} : marked.jobs[j] = plan.jobs[j]
  BY <1>1
<1>3. job \in JobRecords /\ job.status = "stuck" /\ NoOpen(job.list)
  BY <1>1, JobTyped, CutOffType, CutOffLists DEF FinalJob
<1>4. marked \in Contents
  <2>1. \A j \in Jobs : marked.jobs[j] \in JobRecords
    BY <1>2, <1>3, JobTyped
  <2>2. marked.jobs \in [Jobs -> JobRecords]
    BY <2>1
  <2>. QED
    BY <2>2 DEF Contents, FinalPlan
<1>. HIDE DEF marked, job
<1>5. \A j \in Jobs : j # f /\ plan.jobs[j].status \in Begun => plan.jobs[j].status = "done"
      /\ j <= f
  <2>1. Current(plan) = f
    BY <1>1, CurrentIs DEF Begun, Cut, f
  <2>2. \A j \in Jobs : plan.jobs[j].status \in Begun \ {"done"} => Current(plan) = j
    BY CurrentIs
  <2>3. \E i \in Jobs : plan.jobs[i].status # "done"
    BY <1>1 DEF Cut, f
  <2>. QED
    BY <2>1, <2>2, <2>3, NothingAfterCurrent
<1>6. \A i \in 1 .. f - 1 : i \in Jobs \ {f} /\ JobIsDone(plan.jobs[i])
  <2>1. \A i \in 1 .. f - 1 : JobIsDone(plan.jobs[i])
    BY <1>1 DEF InOrder, Begun, Cut, f
  <2>. QED
    BY <1>1, <2>1, JobsAreNumbers
<1>7. ASSUME NEW j \in Jobs, marked.jobs[j].status \in Begun
      PROVE  \A i \in 1 .. j - 1 : JobIsDone(marked.jobs[i])
  <2>1. CASE j = f
    BY <1>2, <1>6, <2>1
  <2>2. CASE j # f
    <3>1. plan.jobs[j].status \in Begun /\ j <= f
      BY <1>2, <1>5, <1>7, <2>2
    <3>2. \A i \in 1 .. j - 1 : i \in Jobs \ {f} /\ JobIsDone(plan.jobs[i])
      BY <1>1, <2>2, <3>1, JobsAreNumbers DEF InOrder
    <3>. QED
      BY <1>2, <3>2
  <2>. QED
    BY <2>1, <2>2
<1>8. InOrder(marked)
  BY <1>2, <1>3, <1>7 DEF InOrder
<1>9. ~Has(marked, Cut)
  BY <1>2, <1>3, <1>5 DEF Has, Cut, Begun
<1>10. StickJob(plan, S) = SkipRest(marked)
  BY DEF StickJob, marked, f
<1>11. Orderly(SkipRest(marked)) /\ SkipRest(marked) \in Contents
       /\ SkipRest(marked).status = "stuck"
  BY <1>2, <1>4, <1>8, <1>9, SkipRestCloses, SkipRestType
<1>12. SkipRest(marked).jobs[f] = job
  BY <1>1, <1>2, <1>3, <1>4, SkipRestJobs
<1>13. \A j \in Jobs \ {f} :
              IF plan.jobs[j].status = "waiting"
                THEN SkipRest(marked).jobs[j].status = "skipped"
                ELSE SkipRest(marked).jobs[j] = plan.jobs[j]
  BY <1>2, <1>4, SkipRestJobs
<1>. QED
  BY <1>10, <1>11, <1>12, <1>13 DEF f, job

LEMMA MarkStoppedJobs ==
  ASSUME NEW plan \in Contents, InOrder(plan)
  PROVE  /\ Orderly(MarkStopped(plan))
         /\ \A j \in Jobs :
              /\ plan.jobs[j].status \in Cut => MarkStopped(plan).jobs[j] = CutOff(plan.jobs[j], "stopped")
              /\ plan.jobs[j].status = "waiting" => MarkStopped(plan).jobs[j].status = "skipped"
              /\ plan.jobs[j].status \in FinalJob => MarkStopped(plan).jobs[j] = plan.jobs[j]
<1>. DEFINE marked == [status |-> "stopped", jobs |-> [j \in Jobs |->
              IF plan.jobs[j].status \in {"working", "checking"}
                THEN CutOff(plan.jobs[j], "stopped") ELSE plan.jobs[j]]]
<1>1. \A j \in Jobs :
        /\ plan.jobs[j].status \in Cut => marked.jobs[j] = CutOff(plan.jobs[j], "stopped")
        /\ plan.jobs[j].status \notin Cut => marked.jobs[j] = plan.jobs[j]
  BY DEF Cut
<1>2. \A j \in Jobs : /\ CutOff(plan.jobs[j], "stopped") \in JobRecords
                      /\ CutOff(plan.jobs[j], "stopped").status = "stopped"
                      /\ NoOpen(CutOff(plan.jobs[j], "stopped").list)
  BY JobTyped, CutOffType, CutOffLists DEF FinalJob
<1>3. marked \in Contents
  <2>1. \A j \in Jobs : marked.jobs[j] \in JobRecords
    BY <1>1, <1>2, JobTyped
  <2>2. marked.jobs \in [Jobs -> JobRecords]
    BY <2>1
  <2>. QED
    BY <2>2 DEF Contents, FinalPlan
<1>4. MarkStopped(plan) = SkipRest(marked)
  BY DEF MarkStopped
<1>. HIDE DEF marked
<1>5. \A j \in Jobs : 1 .. j - 1 \subseteq Jobs
  BY JobsAreNumbers
<1>6. \A j \in Jobs : JobIsDone(plan.jobs[j]) => JobIsDone(marked.jobs[j])
  BY <1>1 DEF JobIsDone, Cut
<1>7. \A j \in Jobs : marked.jobs[j].status \in Begun => plan.jobs[j].status \in Begun
  BY <1>1 DEF Begun, Cut
<1>8. \A j \in Jobs :
        /\ marked.jobs[j].status = "done" => AllTicked(marked.jobs[j].list)
        /\ marked.jobs[j].status \in FinalJob => NoOpen(marked.jobs[j].list)
  BY <1>1, <1>2 DEF InOrder
<1>9. InOrder(marked)
  BY <1>5, <1>6, <1>7, <1>8 DEF InOrder
<1>10. ~Has(marked, Cut)
  BY <1>1, <1>2 DEF Has, Cut
<1>11. Orderly(SkipRest(marked))
  BY <1>3, <1>9, <1>10, SkipRestCloses
<1>12. \A j \in Jobs :
              /\ plan.jobs[j].status \in Cut => SkipRest(marked).jobs[j] = CutOff(plan.jobs[j], "stopped")
              /\ plan.jobs[j].status = "waiting" => SkipRest(marked).jobs[j].status = "skipped"
              /\ plan.jobs[j].status \in FinalJob => SkipRest(marked).jobs[j] = plan.jobs[j]
  <2>. TAKE j \in Jobs
  <2>1. CASE plan.jobs[j].status \in Cut
    BY <1>1, <1>2, <1>3, <2>1, SkipRestJobs DEF Cut, FinalJob
  <2>2. CASE plan.jobs[j].status \notin Cut
    BY <1>1, <1>3, <2>2, SkipRestJobs DEF FinalJob
  <2>. QED
    BY <2>1, <2>2
<1>. QED
  BY <1>4, <1>11, <1>12

\* finish, at the end of a plan whose current job, if there is one, is settled.
LEMMA FinishJobs ==
  ASSUME NEW plan \in Contents, InOrder(plan),
         \A j \in Jobs : plan.jobs[j].status # "done" => plan.jobs[Current(plan)].status \in FinalJob
  PROVE  /\ Finish(plan).status \in FinalPlan
         /\ Orderly(Finish(plan))
         /\ ~Has(plan, Cut)
         /\ \A j \in Jobs : plan.jobs[j].status \in Ended => Finish(plan).jobs[j].status \in Ended
<1>. DEFINE gaps == {j \in Jobs : plan.jobs[j].status # "done" \/ ~AllTicked(plan.jobs[j].list)}
            rest == {j \in Jobs : plan.jobs[j].status # "done"}
            c == Current(plan)
<1>1. gaps = rest
  BY DEF InOrder
<1>2. ~Has(plan, Cut)
  <2>1. \A j \in Jobs : plan.jobs[j].status \in Cut => c = j
    BY CurrentIs DEF Begun, Cut
  <2>. QED
    BY <2>1 DEF Has, Cut, FinalJob
<1>3. CASE rest = {}
  <2>1. Finish(plan) = [plan EXCEPT !.status = "done"]
    BY <1>1, <1>3 DEF Finish
  <2>2. Finish(plan).jobs = plan.jobs /\ Finish(plan).status = "done"
    BY <2>1 DEF Contents
  <2>. QED
    BY <1>2, <1>3, <2>2 DEF Orderly, InOrder, Closed, FinalPlan, FinalJob
<1>4. CASE rest # {}
  <2>. DEFINE job == [status |-> "stuck", list |-> Close(plan.jobs[c].list)]
              stuck == [status |-> "stuck", jobs |-> [plan.jobs EXCEPT ![c] = job]]
  <2>1. c \in Jobs /\ plan.jobs[c].status \in FinalJob
    BY <1>4, CurrentJob
  <2>2. Finish(plan) = SkipRest(stuck)
    BY <1>1, <1>4 DEF Finish, Current
  <2>3. job \in JobRecords /\ NoOpen(job.list)
    <3>1. Close(plan.jobs[c].list) \in Lists /\ NoOpen(Close(plan.jobs[c].list))
      BY <2>1, JobTyped, CloseType, ClosedLists
    <3>. QED
      BY <3>1 DEF JobRecords, Lists, FinalJob
  <2>. HIDE DEF c
  <2>4. job.status = "stuck"
    OBVIOUS
  <2>. HIDE DEF job
  <2>5. plan.jobs \in [Jobs -> JobRecords]
    BY DEF Contents
  <2>6. stuck \in Contents /\ stuck.status = "stuck" /\ stuck.jobs[c] = job
        /\ \A j \in Jobs \ {c} : stuck.jobs[j] = plan.jobs[j]
    <3>1. [plan.jobs EXCEPT ![c] = job] \in [Jobs -> JobRecords]
      BY <2>3, <2>5
    <3>. QED
      BY <2>1, <2>5, <3>1 DEF Contents, FinalPlan
  <2>. HIDE DEF stuck
  <2>7. ~Has(stuck, Cut)
    BY <1>2, <2>1, <2>4, <2>6 DEF Has, Cut
  <2>8. InOrder(stuck)
    BY <1>4, <2>3, <2>4, <2>6, ChangeCurrent DEF c
  <2>9. Orderly(SkipRest(stuck)) /\ SkipRest(stuck).status = "stuck"
    BY <2>6, <2>7, <2>8, SkipRestCloses, SkipRestType
  <2>10. \A j \in Jobs : plan.jobs[j].status \in Ended => SkipRest(stuck).jobs[j].status \in Ended
    BY <2>4, <2>6, SkipRestJobs DEF Ended
  <2>. QED
    BY <1>2, <2>2, <2>9, <2>10 DEF FinalPlan
<1>. QED
  BY <1>3, <1>4

\* What a run never takes back: a job that ended stays so, one that was begun never
\* waits again, and ticks are dropped before a job that was worked on goes further.
Advances(old, new) ==
  \A j \in Jobs :
    /\ old.jobs[j].status \in Ended => new.jobs[j].status \in Ended
    /\ new.jobs[j].status = "waiting" => old.jobs[j].status = "waiting"
    /\ old.jobs[j].status = "working" => new.jobs[j].status = "working" \/ NoTick(new.jobs[j].list)

NoNewWork(old, new) == \A j \in Jobs : new.jobs[j].status \in Cut => old.jobs[j].status \in Cut

LEMMA JobAtWork ==
  ASSUME NEW plan, InOrder(plan), NEW S \in SUBSET (Begun \ {"done"}), Has(plan, S)
  PROVE  /\ Current(plan) \in Jobs /\ plan.jobs[Current(plan)].status \in S
         /\ \E j \in Jobs : plan.jobs[j].status # "done"
         /\ \A j \in Jobs : plan.jobs[j].status \in Begun \ {"done"} => j = Current(plan)
BY CurrentIs DEF Has

\* What the run writes about the job it is at.
LEMMA WorkChange ==
  ASSUME NEW plan \in Contents, Orderly(plan), plan.status \notin FinalPlan, Has(plan, Cut),
         NEW status \in {"working", "checking", "done", "stuck"}, NEW list \in Lists,
         status = "done" => AllTicked(list), status = "stuck" => NoOpen(list),
         Has(plan, {"working"}) => status = "working" \/ NoTick(list)
  PROVE  LET new == SetJob(plan, Current(plan), [status |-> status, list |-> list]) IN
         /\ new \in Contents /\ new.status = plan.status /\ Orderly(new)
         /\ Advances(plan, new) /\ NoNewWork(plan, new)
         /\ Has(new, {status})
         /\ status \in {"done", "stuck"} => ~Has(new, Cut)
         /\ \A j \in Jobs : new.jobs[j].status \in Cut => new.jobs[j].list = list
<1>. DEFINE c == Current(plan)
            job == [status |-> status, list |-> list]
            new == SetJob(plan, Current(plan), [status |-> status, list |-> list])
<1>1. c \in Jobs /\ plan.jobs[c].status \in Cut
      /\ (\E j \in Jobs : plan.jobs[j].status # "done")
      /\ \A j \in Jobs : plan.jobs[j].status \in Begun \ {"done"} => j = c
  BY JobAtWork DEF Orderly, Begun, Cut
<1>2. job \in JobRecords
  BY DEF JobRecords, Lists, FinalJob
<1>3. new = SetJob(plan, c, job)
  OBVIOUS
<1>. HIDE DEF c
<1>4. job.status = status /\ job.list = list
  OBVIOUS
<1>. HIDE DEF job, new
<1>5. /\ new \in Contents /\ new.status = plan.status /\ new.jobs[c] = job
      /\ \A j \in Jobs \ {c} : new.jobs[j] = plan.jobs[j]
  <2>1. /\ SetJob(plan, c, job) \in Contents /\ SetJob(plan, c, job).status = plan.status
        /\ SetJob(plan, c, job).jobs[c] = job
        /\ \A j \in Jobs \ {c} : SetJob(plan, c, job).jobs[j] = plan.jobs[j]
    BY <1>1, <1>2, WithJob
  <2>. QED
    BY <1>3, <2>1
<1>6. job.status = "done" => AllTicked(job.list)
  BY <1>4
<1>7. job.status \in FinalJob => NoOpen(job.list)
  BY <1>4, <1>6, TickedNotOpen DEF FinalJob
<1>8. InOrder(new)
  BY <1>1, <1>5, <1>6, <1>7, ChangeCurrent DEF c, Orderly
<1>9. Orderly(new)
  BY <1>5, <1>8 DEF Orderly
<1>10. \A j \in Jobs \ {c} : plan.jobs[j].status \notin Cut
  BY <1>1 DEF Begun, Cut
<1>11. Advances(plan, new)
  <2>1. plan.jobs[c].status = "working" => Has(plan, {"working"})
    BY <1>1 DEF Has
  <2>. QED
    BY <1>1, <1>4, <1>5, <1>10, <2>1 DEF Advances, Cut, Ended
<1>12. NoNewWork(plan, new)
  BY <1>1, <1>5 DEF NoNewWork
<1>13. Has(new, {status})
  BY <1>1, <1>4, <1>5 DEF Has
<1>14. status \in {"done", "stuck"} => ~Has(new, Cut)
  BY <1>4, <1>5, <1>10 DEF Has, Cut
<1>15. \A j \in Jobs : new.jobs[j].status \in Cut => new.jobs[j].list = list
  BY <1>4, <1>5, <1>10
<1>. QED
  BY <1>5, <1>9, <1>11, <1>12, <1>13, <1>14, <1>15 DEF new

-----------------------------------------------------------------------------
(* What a run knows at each of its steps.                                  *)

AtWork == {"handoff", "attempt", "agent", "turn", "check", "checked"}
Loaded(e) == e.pc \notin {"off", "loading"}

\* Items of the job being checked that are still open come up later in the round.
OpenLater(plan, i) ==
  \A j \in Jobs : plan.jobs[j].status \in Cut => \A k \in Kinds :
    plan.jobs[j].list[k] \in {"open", "checking"} => \E n \in DOMAIN CheckOrder : n >= i
      /\ CheckOrder[n] = k

Goes(e) ==
  /\ e.pc \in AtWork => Has(e.plan, Cut)
  /\ e.pc \in {"handoff", "agent", "turn"} => Has(e.plan, {"working"})
  /\ e.pc \in {"check", "checked"} => Has(e.plan, {"checking"}) /\ OpenLater(e.plan, e.kind)
  /\ e.pc = "jobend" => Has(e.plan, {"stuck"})
  /\ e.pc \in Busy => e.plan.status \notin FinalPlan
  /\ e.pc \in {"report", "end"} => e.plan.status \in FinalPlan

Counts(e) ==
  /\ e.attempt \in 0 .. MAX_ATTEMPTS /\ e.kind \in 0 .. Len(CheckOrder) + 1
  /\ e.pc \in {"handoff", "attempt"} => e.attempt < MAX_ATTEMPTS
  /\ e.pc = "checked" => e.kind \in DOMAIN CheckOrder
  /\ e.pc = "check" => e.kind > 0

RunOK(e) == /\ Orderly(e.plan) /\ Orderly(e.saving)
            /\ Loaded(e) => e.plan.status # "none"
            /\ Counts(e)
            /\ ~e.stopped => Goes(e)

\* What a step that does not end the run does, for the parts below.
Steps(old, new) ==
  /\ old.saving = Blank /\ ~old.stopped /\ ~new.stopped /\ Loaded(old) /\ Loaded(new)
  /\ Advances(old.plan, new.plan)
  /\ \/ /\ old.pc = "pick" /\ new.pc = "handoff" /\ new.saving = Blank
        /\ \A j \in Jobs : \/ new.plan.jobs[j] = old.plan.jobs[j]
                           \/ /\ old.plan.jobs[j].status \in {"waiting"} \cup Cut
                              /\ new.plan.jobs[j].status = "working"
     \/ /\ old.pc \in {"pick", "jobend"} /\ new.pc = "report" /\ new.saving = Blank
        /\ ~Has(old.plan, Cut)
     \/ /\ old.pc \in AtWork \cup {"report"} /\ new.saving = new.plan
        /\ new.pc \in {"attempt", "agent", "check", "checked", "jobend", "pick", "end"}
        /\ NoNewWork(old.plan, new.plan)
        /\ new.pc \in AtWork => old.pc \in AtWork
        /\ new.pc \in {"pick", "jobend"} => ~Has(new.plan, Cut)
     \/ old.pc = "agent" /\ new.pc = "turn" /\ new.plan = old.plan /\ new.saving = Blank

LEMMA SameAdvances == \A plan : Advances(plan, plan) /\ NoNewWork(plan, plan)
BY DEF Advances, NoNewWork

LEMMA CheckOrderTyped ==
  /\ DOMAIN CheckOrder = 1 .. Len(CheckOrder) /\ Len(CheckOrder) \in Nat
  /\ \A i \in DOMAIN CheckOrder : CheckOrder[i] \in Kinds
  /\ \A k \in Kinds : \E i \in DOMAIN CheckOrder : CheckOrder[i] = k
BY ChecklistsAssumption DEF Kinds

LEMMA EntryFacts ==
  ASSUME EntriesOK, NEW p \in Plans
  PROVE  entry[p] \in [pc : PCs, plan : Contents, saving : Contents, stopped : BOOLEAN,
                       attempt : {entry[p].attempt}, kind : {entry[p].kind}]
BY DEF EntriesOK, EntryOK

\* A step of the run of p that goes on, from entry[p] to e.
GoesTo(p, e) == entry' = [entry EXCEPT ![p] = e] /\ RunOK(e) /\ Steps(entry[p], e)

LEMMA PickGoes ==
  ASSUME EntriesOK, NEW p \in Plans, RunOK(entry[p]), Pick(p)
  PROVE  \E e : GoesTo(p, e)
<1>. DEFINE plan == entry[p].plan
            rest == {j \in Jobs : plan.jobs[j].status # "done"}
            c == Current(plan)
            finished == [entry[p] EXCEPT !.plan = Finish(@), !.pc = "report"]
            new == SetStatus(plan, c, "working")
            picked == [entry[p] EXCEPT !.plan = new, !.attempt = 0, !.pc = "handoff"]
<1>1. plan \in Contents /\ Orderly(plan) /\ plan.status \notin FinalPlan /\ plan.status # "none"
  BY EntryFacts DEF Pick, Alive, RunOK, Goes, Busy, Loaded
<1>2. entry[p].pc = "pick" /\ entry[p].saving = Blank /\ entry[p].stopped = FALSE
  BY EntryFacts DEF Pick, Alive
<1>3. CASE rest = {} \/ plan.jobs[c].status \in FinalJob
  <2>1. entry' = [entry EXCEPT ![p] = finished]
    BY <1>3 DEF Pick, Plan, Current, EntriesOK
  <2>2. /\ Finish(plan).status \in FinalPlan /\ Orderly(Finish(plan)) /\ ~Has(plan, Cut)
        /\ \A j \in Jobs : plan.jobs[j].status \in Ended => Finish(plan).jobs[j].status \in Ended
    BY <1>1, <1>3, FinishJobs DEF Orderly
  <2>3. /\ finished.pc = "report" /\ finished.plan = Finish(plan) /\ finished.saving = Blank
        /\ finished.stopped = FALSE /\ finished.attempt = entry[p].attempt
        /\ finished.kind = entry[p].kind
    BY <1>2, EntryFacts
  <2>. HIDE DEF finished
  <2>4. Advances(plan, Finish(plan))
    <3>1. \A j \in Jobs : plan.jobs[j].status # "working"
      BY <2>2 DEF Has, Cut
    <3>2. \A j \in Jobs : Finish(plan).jobs[j].status # "waiting"
      BY <2>2 DEF Orderly, Closed, FinalJob
    <3>. QED
      BY <2>2, <3>1, <3>2 DEF Advances
  <2>5. Finish(plan).status # "none"
    BY <2>2 DEF FinalPlan
  <2>6. RunOK(finished)
    BY <1>2, <2>2, <2>3, <2>5 DEF RunOK, Goes, Counts, Busy, AtWork, Loaded
  <2>7. Steps(entry[p], finished)
    BY <1>2, <2>2, <2>3, <2>4 DEF Steps, Loaded
  <2>. QED
    BY <2>1, <2>6, <2>7 DEF GoesTo
<1>4. CASE ~(rest = {} \/ plan.jobs[c].status \in FinalJob)
  <2>1. c \in Jobs /\ plan.jobs[c].status # "done"
    BY <1>4, CurrentJob
  <2>2. entry' = [entry EXCEPT ![p] = picked]
    <3>1. entry' = [entry EXCEPT ![p].plan.jobs[c].status = "working", ![p].attempt = 0, ![p].pc = "handoff"]
      BY <1>4 DEF Pick, Plan, Current
    <3>. QED
      BY <3>1 DEF EntriesOK, SetStatus
  <2>. DEFINE job == [status |-> "working", list |-> plan.jobs[c].list]
  <2>3. plan.jobs[c].status \in {"waiting"} \cup Cut /\ plan.jobs[c].list \in Lists
    BY <1>1, <1>4, <2>1, JobTyped
  <2>4. job \in JobRecords
    BY <2>3 DEF JobRecords, Lists
  <2>5. new = SetJob(plan, c, job)
    BY <1>1, <2>1, OnlyStatus
  <2>6. /\ picked.pc = "handoff" /\ picked.plan = new /\ picked.saving = Blank
        /\ picked.stopped = FALSE /\ picked.attempt = 0 /\ picked.kind = entry[p].kind
    BY <1>2, EntryFacts
  <2>. HIDE DEF picked, new, c, plan
  <2>7. job.status = "working"
    OBVIOUS
  <2>. HIDE DEF job
  <2>8. /\ new \in Contents /\ new.status = plan.status /\ new.jobs[c] = job
        /\ \A j \in Jobs \ {c} : new.jobs[j] = plan.jobs[j]
    BY <1>1, <2>1, <2>4, <2>5, WithJob
  <2>9. InOrder(new)
    BY <1>1, <2>1, <2>7, <2>8, ChangeCurrent DEF c, Orderly, FinalJob
  <2>10. Orderly(new) /\ Has(new, {"working"}) /\ Has(new, Cut)
    BY <1>1, <2>1, <2>7, <2>8, <2>9 DEF Orderly, Has, Cut
  <2>11. Advances(plan, new)
    BY <2>1, <2>3, <2>7, <2>8 DEF Advances, Cut, Ended
  <2>12. Counts(picked)
    BY <2>6, BoundsAssumption DEF RunOK, Counts
  <2>13. RunOK(picked)
    BY <1>1, <1>2, <2>6, <2>8, <2>10, <2>12 DEF RunOK, Goes, Busy, AtWork, Loaded
  <2>14. Steps(entry[p], picked)
    BY <1>2, <2>1, <2>3, <2>6, <2>7, <2>8, <2>11 DEF Steps, Loaded, plan
  <2>. QED
    BY <2>2, <2>13, <2>14 DEF GoesTo
<1>. QED
  BY <1>3, <1>4

-----------------------------------------------------------------------------
(* Each step of a run that goes on keeps its plan in order and is one of   *)
(* Steps.                                                                  *)

LEMMA JobEndGoes ==
  ASSUME EntriesOK, NEW p \in Plans, RunOK(entry[p]), JobEnd(p)
  PROVE  \E e : GoesTo(p, e)
<1>. DEFINE plan == entry[p].plan
            stuck == [plan EXCEPT !.status = "stuck"]
            e == [entry[p] EXCEPT !.plan = SkipRest(stuck), !.pc = "report"]
<1>1. /\ plan \in Contents /\ Orderly(plan) /\ Has(plan, {"stuck"})
      /\ entry[p].pc = "jobend" /\ entry[p].saving = Blank /\ entry[p].stopped = FALSE
  BY EntryFacts DEF JobEnd, Alive, RunOK, Goes
<1>2. stuck \in Contents /\ stuck.jobs = plan.jobs /\ stuck.status = "stuck"
  BY <1>1 DEF Contents, FinalPlan
<1>3. entry' = [entry EXCEPT ![p] = e]
  BY DEF JobEnd, EntriesOK
<1>4. /\ e.plan = SkipRest(stuck) /\ e.pc = "report" /\ e.saving = Blank /\ e.stopped = FALSE
      /\ e.attempt = entry[p].attempt /\ e.kind = entry[p].kind
  BY <1>1, EntryFacts
<1>. HIDE DEF e, stuck, plan
<1>5. ~Has(plan, Cut)
  <2>1. \A j \in Jobs : plan.jobs[j].status \in Begun \ {"done"} => plan.jobs[j].status = "stuck"
    BY <1>1, JobAtWork DEF Orderly, Begun
  <2>. QED
    BY <2>1 DEF Has, Begun, Cut
<1>6. InOrder(stuck) /\ ~Has(stuck, Cut)
  BY <1>1, <1>2, <1>5 DEF Orderly, InOrder, Has
<1>7. Orderly(SkipRest(stuck)) /\ SkipRest(stuck).status = "stuck"
  BY <1>2, <1>6, SkipRestCloses, SkipRestType
<1>8. Advances(plan, SkipRest(stuck))
  BY <1>2, <1>5, SkipRestJobs DEF Advances, Has, Cut, Ended
<1>9. RunOK(e)
  BY <1>1, <1>4, <1>7 DEF RunOK, Counts, Goes, Busy, AtWork, Loaded, FinalPlan
<1>10. Steps(entry[p], e)
  BY <1>1, <1>4, <1>5, <1>8 DEF Steps, Loaded, plan
<1>. QED
  BY <1>3, <1>9, <1>10 DEF GoesTo

Saving == {"attempt", "agent", "check", "checked", "jobend", "pick", "end"}

\* Whoever changes the plan and saves it.
LEMMA SavingGoes ==
  ASSUME EntriesOK, NEW p \in Plans, RunOK(entry[p]), NEW pc \in AtWork \cup {"report"},
         Alive(p, pc),
         NEW plan, Orderly(plan), plan.status # "none", Advances(Plan(p), plan),
           NoNewWork(Plan(p), plan),
         NEW e, entry' = [entry EXCEPT ![p] = e], e.plan = plan, e.saving = plan,
         e.stopped = entry[p].stopped, e.pc \in Saving, Counts(e), Goes(e),
         e.pc \in AtWork => pc # "report",
         e.pc \in {"pick", "jobend"} => ~Has(plan, Cut)
  PROVE  GoesTo(p, e)
<1>1. entry[p].pc = pc /\ entry[p].saving = Blank /\ ~entry[p].stopped /\ Plan(p) = entry[p].plan
  BY DEF Alive, Plan
<1>2. Loaded(e) /\ Loaded(entry[p])
  BY <1>1 DEF Loaded, Saving, AtWork
<1>3. RunOK(e)
  BY DEF RunOK
<1>4. Steps(entry[p], e)
  BY <1>1, <1>2 DEF Steps, Saving
<1>. QED
  BY <1>3, <1>4 DEF GoesTo

\* The same by SaveAndGo.
LEMMA SaveAndGoGoes ==
  ASSUME EntriesOK, NEW p \in Plans, RunOK(entry[p]), NEW pc \in AtWork \cup {"report"},
         Alive(p, pc),
         NEW plan, Orderly(plan), plan.status # "none", Advances(Plan(p), plan),
           NoNewWork(Plan(p), plan),
         NEW to \in {"attempt", "jobend", "pick", "end"}, SaveAndGo(p, plan, to),
         to \in Busy => plan.status \notin FinalPlan, to = "end" => plan.status \in FinalPlan,
         to = "attempt" => pc # "report" /\ Has(plan, Cut) /\ entry[p].attempt < MAX_ATTEMPTS,
         to = "jobend" => Has(plan, {"stuck"}),
         to \in {"pick", "jobend"} => ~Has(plan, Cut)
  PROVE  \E e : GoesTo(p, e)
<1>. DEFINE e == [entry[p] EXCEPT !.plan = plan, !.saving = plan, !.pc = to]
<1>1. entry' = [entry EXCEPT ![p] = e]
  BY DEF SaveAndGo, EntriesOK
<1>2. /\ e.plan = plan /\ e.saving = plan /\ e.pc = to /\ e.stopped = entry[p].stopped
      /\ e.attempt = entry[p].attempt /\ e.kind = entry[p].kind
  BY EntryFacts
<1>. HIDE DEF e
<1>3. Counts(e) /\ Goes(e)
  BY <1>2 DEF RunOK, Counts, Goes, AtWork
<1>4. e.pc \in Saving /\ (e.pc \in AtWork => pc # "report")
      /\ (e.pc \in {"pick", "jobend"} => ~Has(plan, Cut))
  BY <1>2 DEF Saving, AtWork
<1>5. GoesTo(p, e)
  BY <1>1, <1>2, <1>3, <1>4, SavingGoes, Zenon
<1>. QED
  BY <1>5

LEMMA HandedOffGoes ==
  ASSUME EntriesOK, NEW p \in Plans, RunOK(entry[p]), HandedOff(p)
  PROVE  \E e : GoesTo(p, e)
<1>1. /\ Orderly(Plan(p)) /\ Has(Plan(p), Cut) /\ Plan(p).status # "none"
      /\ Plan(p).status \notin FinalPlan /\ entry[p].attempt < MAX_ATTEMPTS
      /\ Alive(p, "handoff") /\ SaveAndGo(p, Plan(p), "attempt")
  BY DEF HandedOff, Alive, RunOK, Goes, Counts, AtWork, Busy, Loaded, Plan
<1>2. Advances(Plan(p), Plan(p)) /\ NoNewWork(Plan(p), Plan(p))
  BY SameAdvances
<1>. QED
  BY <1>1, <1>2, SaveAndGoGoes DEF AtWork

LEMMA ReportGoes ==
  ASSUME EntriesOK, NEW p \in Plans, RunOK(entry[p]), Report(p)
  PROVE  \E e : GoesTo(p, e)
<1>1. /\ Orderly(Plan(p)) /\ Plan(p).status # "none"
      /\ Plan(p).status \in FinalPlan /\ Alive(p, "report") /\ SaveAndGo(p, Plan(p), "end")
  BY DEF Report, Alive, RunOK, Goes, Loaded, Plan
<1>2. Advances(Plan(p), Plan(p)) /\ NoNewWork(Plan(p), Plan(p))
  BY SameAdvances
<1>. QED
  BY <1>1, <1>2, SaveAndGoGoes DEF Busy

\* The plan and the list of the job a run works on.
LEMMA AtWorkFacts ==
  ASSUME EntriesOK, NEW p \in Plans, RunOK(entry[p]), NEW pc \in AtWork, Alive(p, pc)
  PROVE  /\ Plan(p) = entry[p].plan
         /\ Plan(p) \in Contents /\ Orderly(Plan(p)) /\ Plan(p).status # "none"
         /\ Plan(p).status \notin FinalPlan /\ Has(Plan(p), Cut)
         /\ Job(p) = Current(Plan(p)) /\ Job(p) \in Jobs /\ List(p) \in Lists
         /\ Plan(p).jobs[Job(p)].status \in Cut /\ List(p) = Plan(p).jobs[Job(p)].list
         /\ \A status, list : PlanWith(p, status, list)
              = SetJob(Plan(p), Current(Plan(p)), [status |-> status, list |-> list])
<1>1. Plan(p) = entry[p].plan /\ Plan(p) \in Contents
  BY EntryFacts DEF Plan
<1>2. Orderly(Plan(p)) /\ Plan(p).status # "none" /\ Plan(p).status \notin FinalPlan
      /\ Has(Plan(p), Cut)
  BY <1>1 DEF RunOK, Goes, Alive, AtWork, Busy, Loaded
<1>3. Job(p) = Current(Plan(p))
  BY DEF Job, Current
<1>4. Job(p) \in Jobs /\ Plan(p).jobs[Job(p)].status \in Cut
  BY <1>2, <1>3, JobAtWork DEF Orderly, Begun, Cut
<1>5. List(p) \in Lists
  BY <1>1, <1>4, JobTyped DEF List
<1>6. \A status, list : PlanWith(p, status, list)
        = SetJob(Plan(p), Current(Plan(p)), [status |-> status, list |-> list])
  BY <1>3 DEF PlanWith, SetJob
<1>. QED
  BY <1>1, <1>2, <1>3, <1>4, <1>5, <1>6 DEF List

\* WorkChange, of the job a run works on.
LEMMA RunWrites ==
  ASSUME EntriesOK, NEW p \in Plans, RunOK(entry[p]), NEW pc \in AtWork, Alive(p, pc),
         NEW status \in {"working", "checking", "done", "stuck"}, NEW list \in Lists,
         status = "done" => AllTicked(list), status = "stuck" => NoOpen(list),
         Has(Plan(p), {"working"}) => status = "working" \/ NoTick(list)
  PROVE  LET new == PlanWith(p, status, list) IN
         /\ Orderly(new) /\ new.status # "none" /\ new.status \notin FinalPlan
         /\ Advances(Plan(p), new) /\ NoNewWork(Plan(p), new)
         /\ Has(new, {status})
         /\ status \in {"done", "stuck"} => ~Has(new, Cut)
         /\ \A j \in Jobs : new.jobs[j].status \in Cut => new.jobs[j].list = list
<1>. DEFINE new == PlanWith(p, status, list)
            set == SetJob(Plan(p), Current(Plan(p)), [status |-> status, list |-> list])
<1>1. new = set
  BY AtWorkFacts
<1>2. /\ Plan(p) \in Contents /\ Orderly(Plan(p)) /\ Plan(p).status # "none"
      /\ Plan(p).status \notin FinalPlan /\ Has(Plan(p), Cut)
  BY AtWorkFacts
<1>3. /\ set \in Contents /\ set.status = Plan(p).status /\ Orderly(set)
      /\ Advances(Plan(p), set) /\ NoNewWork(Plan(p), set)
      /\ Has(set, {status})
      /\ status \in {"done", "stuck"} => ~Has(set, Cut)
      /\ \A j \in Jobs : set.jobs[j].status \in Cut => set.jobs[j].list = list
  BY <1>2, WorkChange
<1>. HIDE DEF set, new
<1>. QED
  BY <1>1, <1>2, <1>3 DEF new

LEMMA AttemptGoes ==
  ASSUME EntriesOK, NEW p \in Plans, RunOK(entry[p]), Attempt(p)
  PROVE  \E e : GoesTo(p, e)
<1>. DEFINE plan == PlanWith(p, "working", List(p))
            e == [entry[p] EXCEPT !.plan = plan, !.saving = plan, !.pc = "agent", !.attempt = @ + 1]
<1>1. Alive(p, "attempt") /\ entry[p].pc = "attempt" /\ List(p) \in Lists
  BY AtWorkFacts DEF Attempt, Alive, AtWork
<1>2. /\ Orderly(plan) /\ plan.status # "none" /\ plan.status \notin FinalPlan
      /\ Advances(Plan(p), plan) /\ NoNewWork(Plan(p), plan) /\ Has(plan, {"working"})
  BY <1>1, RunWrites DEF AtWork
<1>3. entry' = [entry EXCEPT ![p] = e]
  BY DEF Attempt, EntriesOK
<1>4. /\ e.plan = plan /\ e.saving = plan /\ e.pc = "agent" /\ e.stopped = entry[p].stopped
      /\ e.attempt = entry[p].attempt + 1 /\ e.kind = entry[p].kind
  BY EntryFacts
<1>. HIDE DEF e, plan
<1>5. Counts(e)
  BY <1>1, <1>4, BoundsAssumption DEF RunOK, Counts
<1>6. Goes(e)
  BY <1>2, <1>4 DEF Goes, Busy, Has, Cut
<1>7. e.pc \in Saving /\ "attempt" # "report" /\ e.pc \notin {"pick", "jobend"}
      /\ "attempt" \in AtWork \cup {"report"}
  BY <1>4 DEF Saving, AtWork
<1>8. GoesTo(p, e)
  BY <1>1, <1>2, <1>3, <1>4, <1>5, <1>6, <1>7, SavingGoes, Zenon
<1>. QED
  BY <1>8

LEMMA TurnStartsGoes ==
  ASSUME EntriesOK, NEW p \in Plans, RunOK(entry[p]), TurnStarts(p)
  PROVE  \E e : GoesTo(p, e)
<1>. DEFINE e == [entry[p] EXCEPT !.pc = "turn"]
<1>1. entry' = [entry EXCEPT ![p] = e]
  BY DEF TurnStarts, EntriesOK
<1>2. entry[p].pc = "agent" /\ entry[p].saving = Blank /\ ~entry[p].stopped
  BY DEF TurnStarts, Alive
<1>3. /\ e.plan = entry[p].plan /\ e.saving = entry[p].saving /\ e.pc = "turn"
      /\ e.stopped = entry[p].stopped
      /\ e.attempt = entry[p].attempt /\ e.kind = entry[p].kind
  BY EntryFacts
<1>4. RunOK(e)
  BY <1>2, <1>3 DEF RunOK, Goes, Counts, AtWork, Busy, Loaded
<1>5. Steps(entry[p], e)
  BY <1>2, <1>3, SameAdvances DEF Steps, Loaded
<1>. QED
  BY <1>1, <1>4, <1>5 DEF GoesTo

LEMMA TurnFailsGoes ==
  ASSUME EntriesOK, NEW p \in Plans, RunOK(entry[p]), TurnFails(p)
  PROVE  \E e : GoesTo(p, e)
<1>. DEFINE list == Close(Reopen(List(p)))
            plan == PlanWith(p, "stuck", list)
<1>1. Alive(p, "turn") /\ List(p) \in Lists /\ SaveAndGo(p, plan, "jobend")
  BY AtWorkFacts DEF TurnFails, AtWork
<1>2. list \in Lists /\ NoOpen(list) /\ NoTick(list)
  BY <1>1, CloseType, ClosedLists
<1>. HIDE DEF list
<1>3. /\ Orderly(plan) /\ plan.status # "none" /\ plan.status \notin FinalPlan
      /\ Advances(Plan(p), plan) /\ NoNewWork(Plan(p), plan) /\ Has(plan, {"stuck"})
      /\ ~Has(plan, Cut)
  BY <1>1, <1>2, RunWrites DEF AtWork
<1>. HIDE DEF plan
<1>. QED
  BY <1>1, <1>3, SaveAndGoGoes DEF AtWork

LEMMA TurnAnswersGoes ==
  ASSUME EntriesOK, NEW p \in Plans, RunOK(entry[p]), TurnAnswers(p)
  PROVE  \E e : GoesTo(p, e)
<1>1. PICK add \in SUBSET ({"tests"} \cap Kinds) :
          LET list == [k \in Kinds |-> IF k \in add THEN "open" ELSE Reopen(List(p))[k]]
              plan == PlanWith(p, "checking", list)
          IN entry' = [entry EXCEPT ![p].plan = plan, ![p].saving = plan, ![p].pc = "check",
                                    ![p].kind = 1]
  BY DEF TurnAnswers
<1>. DEFINE list == [k \in Kinds |-> IF k \in add THEN "open" ELSE Reopen(List(p))[k]]
            plan == PlanWith(p, "checking", list)
            e == [entry[p] EXCEPT !.plan = plan, !.saving = plan, !.pc = "check", !.kind = 1]
<1>2. Alive(p, "turn") /\ List(p) \in Lists
  BY AtWorkFacts DEF TurnAnswers, AtWork
<1>3. list \in Lists /\ NoTick(list)
  BY <1>2, CloseType, ClosedLists DEF Lists, NoTick, ItemStates
<1>4. entry' = [entry EXCEPT ![p] = e]
  BY <1>1 DEF EntriesOK
<1>5. /\ e.plan = plan /\ e.saving = plan /\ e.pc = "check" /\ e.stopped = entry[p].stopped
      /\ e.attempt = entry[p].attempt /\ e.kind = 1
  BY EntryFacts
<1>. HIDE DEF list, e
<1>6. /\ Orderly(plan) /\ plan.status # "none" /\ plan.status \notin FinalPlan
      /\ Advances(Plan(p), plan) /\ NoNewWork(Plan(p), plan) /\ Has(plan, {"checking"})
  BY <1>2, <1>3, RunWrites DEF AtWork
<1>. HIDE DEF plan
<1>7. Counts(e)
  BY <1>5, CheckOrderTyped DEF RunOK, Counts
<1>8. OpenLater(e.plan, e.kind)
  BY <1>5, CheckOrderTyped DEF OpenLater
<1>9. Goes(e)
  BY <1>5, <1>6, <1>8 DEF Goes, Busy, Has, Cut
<1>10. e.pc \in Saving /\ "turn" # "report" /\ e.pc \notin {"pick", "jobend"}
      /\ "turn" \in AtWork \cup {"report"}
  BY <1>5 DEF Saving, AtWork
<1>11. GoesTo(p, e)
  BY <1>2, <1>4, <1>5, <1>6, <1>7, <1>9, <1>10, SavingGoes, Zenon
<1>. QED
  BY <1>11

\* A run in its checks: no job is "working", and what is open comes up later.
LEMMA CheckFacts ==
  ASSUME EntriesOK, NEW p \in Plans, RunOK(entry[p]), NEW pc \in {"check", "checked"}, Alive(p, pc)
  PROVE  /\ ~Has(Plan(p), {"working"})
         /\ \A k \in Kinds : List(p)[k] \in {"open", "checking"} =>
              \E n \in DOMAIN CheckOrder : n >= entry[p].kind /\ CheckOrder[n] = k
         /\ entry[p].kind \in Nat
         /\ \A k, state : SetItem(p, k, state) = PlanWith(p, "checking", [List(p) EXCEPT ![k] = state])
<1>1. /\ Plan(p) = entry[p].plan /\ Orderly(Plan(p)) /\ Job(p) = Current(Plan(p)) /\ Job(p) \in Jobs
      /\ Plan(p).jobs[Job(p)].status \in Cut /\ List(p) = Plan(p).jobs[Job(p)].list
  BY AtWorkFacts DEF AtWork
<1>2. Has(Plan(p), {"checking"}) /\ OpenLater(Plan(p), entry[p].kind)
  BY <1>1 DEF RunOK, Goes, Alive
<1>3. ~Has(Plan(p), {"working"})
  <2>1. Plan(p).jobs[Job(p)].status \in {"checking"}
    BY <1>1, <1>2, JobAtWork DEF Orderly, Begun
  <2>2. ASSUME Has(Plan(p), {"working"}) PROVE Plan(p).jobs[Job(p)].status \in {"working"}
    BY <1>1, <2>2, JobAtWork DEF Orderly, Begun
  <2>. QED
    BY <2>1, <2>2
<1>4. entry[p].kind \in Nat
  BY CheckOrderTyped DEF RunOK, Counts
<1>. QED
  BY <1>1, <1>2, <1>3, <1>4 DEF OpenLater, SetItem

LEMMA CheckItemGoes ==
  ASSUME EntriesOK, NEW p \in Plans, RunOK(entry[p]), CheckItem(p)
  PROVE  \E e : GoesTo(p, e)
<1>. DEFINE i == First(Unchecked(p))
            list == [List(p) EXCEPT ![CheckOrder[i]] = "checking"]
            plan == SetItem(p, CheckOrder[i], "checking")
            e == [entry[p] EXCEPT !.plan = plan, !.saving = plan, !.pc = "checked", !.kind = i]
<1>1. Alive(p, "check") /\ Unchecked(p) # {} /\ List(p) \in Lists
  BY AtWorkFacts DEF CheckItem, AtWork
<1>2. /\ i \in DOMAIN CheckOrder /\ CheckOrder[i] \in Kinds
      /\ \A n \in Unchecked(p) : i <= n
  <2>1. Unchecked(p) \in SUBSET Nat
    BY CheckOrderTyped DEF Unchecked
  <2>2. First(Unchecked(p)) \in Unchecked(p) /\ \A n \in Unchecked(p) : First(Unchecked(p)) <= n
    BY <1>1, <2>1, HasFirst
  <2>. QED
    BY <2>2, CheckOrderTyped DEF Unchecked
<1>3. list \in Lists
  BY <1>1 DEF Lists, ItemStates
<1>4. entry' = [entry EXCEPT ![p] = e]
  BY DEF CheckItem, EntriesOK
<1>5. /\ e.plan = plan /\ e.saving = plan /\ e.pc = "checked" /\ e.stopped = entry[p].stopped
      /\ e.attempt = entry[p].attempt /\ e.kind = i
  BY EntryFacts
<1>6. ~Has(Plan(p), {"working"}) /\ plan = PlanWith(p, "checking", list)
  BY <1>1, CheckFacts
<1>7. \A k \in Kinds : list[k] \in {"open", "checking"} =>
        \E n \in DOMAIN CheckOrder : n >= i /\ CheckOrder[n] = k
  <2>. SUFFICES ASSUME NEW k \in Kinds, list[k] \in {"open", "checking"}
                PROVE  \E n \in DOMAIN CheckOrder : n >= i /\ CheckOrder[n] = k
    OBVIOUS
  <2>1. CASE k = CheckOrder[i]
    <3>1. i >= i
      BY <1>2, CheckOrderTyped
    <3>. QED
      BY <1>2, <2>1, <3>1
  <2>2. CASE k # CheckOrder[i]
    <3>1. List(p)[k] \in {"open", "checking"}
      BY <1>1, <2>2 DEF Lists
    <3>2. PICK n \in DOMAIN CheckOrder : n >= entry[p].kind /\ CheckOrder[n] = k
      BY <1>1, <3>1, CheckFacts
    <3>3. n \in Unchecked(p)
      BY <3>1, <3>2 DEF Unchecked, Present
    <3>4. n >= i
      BY <1>2, <3>3, CheckOrderTyped
    <3>. QED
      BY <3>2, <3>4
  <2>. QED
    BY <2>1, <2>2
<1>. HIDE DEF e, i, plan, list
<1>8. /\ Orderly(plan) /\ plan.status # "none" /\ plan.status \notin FinalPlan
      /\ Advances(Plan(p), plan) /\ NoNewWork(Plan(p), plan) /\ Has(plan, {"checking"})
      /\ \A j \in Jobs : plan.jobs[j].status \in Cut => plan.jobs[j].list = list
  BY <1>1, <1>3, <1>6, RunWrites DEF AtWork
<1>9. Counts(e)
  BY <1>2, <1>5, CheckOrderTyped DEF RunOK, Counts
<1>10. OpenLater(e.plan, e.kind)
  BY <1>5, <1>7, <1>8 DEF OpenLater
<1>11. Goes(e)
  BY <1>5, <1>8, <1>10 DEF Goes, Busy, Has, Cut
<1>12. e.pc \in Saving /\ "check" # "report" /\ e.pc \notin {"pick", "jobend"}
      /\ "check" \in AtWork \cup {"report"}
  BY <1>5 DEF Saving, AtWork
<1>13. GoesTo(p, e)
  BY <1>1, <1>4, <1>5, <1>8, <1>9, <1>11, <1>12, SavingGoes, Zenon
<1>. QED
  BY <1>13

LEMMA ItemCheckedGoes ==
  ASSUME EntriesOK, NEW p \in Plans, RunOK(entry[p]), ItemChecked(p)
  PROVE  \E e : GoesTo(p, e)
<1>1. PICK state \in {"ticked", "failed", "unknown"} :
        LET plan == SetItem(p, CheckOrder[entry[p].kind], state) IN
        entry' = [entry EXCEPT ![p].plan = plan, ![p].saving = plan, ![p].pc = "check",
                               ![p].kind = @ + 1]
  BY DEF ItemChecked
<1>. DEFINE i == entry[p].kind
            list == [List(p) EXCEPT ![CheckOrder[i]] = state]
            plan == SetItem(p, CheckOrder[i], state)
            e == [entry[p] EXCEPT !.plan = plan, !.saving = plan, !.pc = "check", !.kind = @ + 1]
<1>2. Alive(p, "checked") /\ List(p) \in Lists
  BY AtWorkFacts DEF ItemChecked, AtWork
<1>3. i \in DOMAIN CheckOrder /\ i \in Nat /\ i + 1 \in 0 .. Len(CheckOrder) + 1
  <2>1. i \in DOMAIN CheckOrder
    BY <1>2 DEF RunOK, Counts, Alive
  <2>. QED
    BY <2>1, CheckOrderTyped
<1>4. list \in Lists
  BY <1>2 DEF Lists, ItemStates
<1>5. entry' = [entry EXCEPT ![p] = e]
  BY <1>1 DEF EntriesOK
<1>6. /\ e.plan = plan /\ e.saving = plan /\ e.pc = "check" /\ e.stopped = entry[p].stopped
      /\ e.attempt = entry[p].attempt /\ e.kind = i + 1
  BY EntryFacts
<1>7. ~Has(Plan(p), {"working"}) /\ plan = PlanWith(p, "checking", list)
  BY <1>2, CheckFacts
<1>8. \A k \in Kinds : list[k] \in {"open", "checking"} =>
        \E n \in DOMAIN CheckOrder : n >= i + 1 /\ CheckOrder[n] = k
  <2>. SUFFICES ASSUME NEW k \in Kinds, list[k] \in {"open", "checking"}
                PROVE  \E n \in DOMAIN CheckOrder : n >= i + 1 /\ CheckOrder[n] = k
    OBVIOUS
  <2>1. k # CheckOrder[i] /\ List(p)[k] \in {"open", "checking"}
    BY <1>2 DEF Lists
  <2>2. PICK n \in DOMAIN CheckOrder : n >= i /\ CheckOrder[n] = k
    BY <1>2, <2>1, CheckFacts
  <2>3. n >= i + 1
    BY <1>3, <2>1, <2>2, CheckOrderTyped
  <2>. QED
    BY <2>2, <2>3
<1>. HIDE DEF e, i, plan, list
<1>9. /\ Orderly(plan) /\ plan.status # "none" /\ plan.status \notin FinalPlan
      /\ Advances(Plan(p), plan) /\ NoNewWork(Plan(p), plan) /\ Has(plan, {"checking"})
      /\ \A j \in Jobs : plan.jobs[j].status \in Cut => plan.jobs[j].list = list
  BY <1>2, <1>4, <1>7, RunWrites DEF AtWork
<1>10. Counts(e)
  BY <1>3, <1>6, CheckOrderTyped DEF RunOK, Counts
<1>11. OpenLater(e.plan, e.kind)
  BY <1>6, <1>8, <1>9 DEF OpenLater
<1>12. Goes(e)
  BY <1>6, <1>9, <1>11 DEF Goes, Busy, Has, Cut
<1>13. e.pc \in Saving /\ "checked" # "report" /\ e.pc \notin {"pick", "jobend"}
      /\ "checked" \in AtWork \cup {"report"}
  BY <1>6 DEF Saving, AtWork
<1>14. GoesTo(p, e)
  BY <1>2, <1>5, <1>6, <1>9, <1>10, <1>12, <1>13, SavingGoes, Zenon
<1>. QED
  BY <1>14

LEMMA CheckThrowsGoes ==
  ASSUME EntriesOK, NEW p \in Plans, RunOK(entry[p]), CheckThrows(p)
  PROVE  \E e : GoesTo(p, e)
<1>. DEFINE S == {j \in Jobs : Plan(p).jobs[j].status \notin FinalJob}
            plan == StickJob(Plan(p), S)
            f == First(S)
<1>1. Alive(p, "checked") /\ SaveAndGo(p, plan, "end")
  BY DEF CheckThrows
<1>2. /\ Plan(p) \in Contents /\ Orderly(Plan(p)) /\ Job(p) \in Jobs
      /\ Plan(p).jobs[Job(p)].status \in Cut
  BY <1>1, AtWorkFacts DEF AtWork
<1>3. Job(p) \in S
  BY <1>2 DEF Cut, FinalJob
<1>4. f = Job(p)
  <2>1. f \in S /\ f \in Jobs /\ f <= Job(p)
    BY <1>3, FirstJob
  <2>2. f < Job(p) => JobIsDone(Plan(p).jobs[f])
    <3>1. \A i \in 1 .. Job(p) - 1 : JobIsDone(Plan(p).jobs[i])
      BY <1>2 DEF Orderly, InOrder, Begun, Cut
    <3>2. f < Job(p) => f \in 1 .. Job(p) - 1
      BY <1>2, <2>1, BoundsAssumption DEF Jobs
    <3>. QED
      BY <3>1, <3>2
  <2>3. ~(f < Job(p))
    BY <2>1, <2>2 DEF JobIsDone, FinalJob
  <2>. HIDE DEF f, S
  <2>4. f \in Nat /\ Job(p) \in Nat
    BY <1>2, <2>1, JobsAreNumbers
  <2>. QED
    BY <2>1, <2>3, <2>4
<1>5. /\ plan.status = "stuck" /\ Orderly(plan)
      /\ plan.jobs[f] = CutOff(Plan(p).jobs[f], "stuck")
      /\ \A j \in Jobs \ {f} :
           IF Plan(p).jobs[j].status = "waiting" THEN plan.jobs[j].status = "skipped"
           ELSE plan.jobs[j] = Plan(p).jobs[j]
  <2>1. S \in SUBSET Jobs /\ S # {} /\ InOrder(Plan(p)) /\ Plan(p).jobs[First(S)].status \in Cut
    BY <1>2, <1>3, <1>4 DEF Orderly
  <2>. HIDE DEF S
  <2>. QED
    BY <1>2, <2>1, StickJobJobs
<1>6. plan.jobs[f].status = "stuck"
  <2>1. CutOff(Plan(p).jobs[Job(p)], "stuck").status = "stuck"
    BY <1>2, JobTyped, CutOffLists
  <2>. QED
    BY <1>4, <1>5, <2>1
<1>7. ~Has(Plan(p), {"working"})
  BY <1>1, CheckFacts
<1>. HIDE DEF plan, f
<1>8. Advances(Plan(p), plan) /\ NoNewWork(Plan(p), plan)
  BY <1>2, <1>4, <1>5, <1>6, <1>7 DEF Advances, NoNewWork, Has, Cut, Ended
<1>9. plan.status # "none"
  BY <1>5
<1>. QED
  BY <1>1, <1>5, <1>8, <1>9, SaveAndGoGoes DEF AtWork, Busy, FinalPlan

LEMMA VerdictGoes ==
  ASSUME EntriesOK, NEW p \in Plans, RunOK(entry[p]), Verdict(p)
  PROVE  \E e : GoesTo(p, e)
<1>1. Alive(p, "check") /\ Unchecked(p) = {} /\ List(p) \in Lists
  BY AtWorkFacts DEF Verdict, AtWork
<1>2. /\ Orderly(Plan(p)) /\ Plan(p).status # "none" /\ Plan(p).status \notin FinalPlan
      /\ Has(Plan(p), Cut) /\ ~Has(Plan(p), {"working"})
  BY <1>1, AtWorkFacts, CheckFacts DEF AtWork
<1>3. NoOpen(List(p))
  <2>. SUFFICES ASSUME NEW k \in Kinds, List(p)[k] \in {"open", "checking"} PROVE FALSE
    BY DEF NoOpen
  <2>1. PICK n \in DOMAIN CheckOrder : n >= entry[p].kind /\ CheckOrder[n] = k
    BY <1>1, CheckFacts
  <2>2. n \in Unchecked(p)
    BY <2>1 DEF Unchecked, Present
  <2>. QED
    BY <1>1, <2>2
<1>4. CASE AllTicked(List(p)) /\ SaveAndGo(p, PlanWith(p, "done", List(p)), "pick")
  <2>. DEFINE plan == PlanWith(p, "done", List(p))
  <2>1. /\ Orderly(plan) /\ plan.status # "none" /\ plan.status \notin FinalPlan
        /\ Advances(Plan(p), plan) /\ NoNewWork(Plan(p), plan) /\ ~Has(plan, Cut)
    BY <1>1, <1>2, <1>4, RunWrites DEF AtWork
  <2>. HIDE DEF plan
  <2>. QED
    BY <1>1, <1>4, <2>1, SaveAndGoGoes DEF AtWork, plan
<1>5. CASE SaveAndGo(p, PlanWith(p, "stuck", List(p)), "jobend")
  <2>. DEFINE plan == PlanWith(p, "stuck", List(p))
  <2>1. /\ Orderly(plan) /\ plan.status # "none" /\ plan.status \notin FinalPlan
        /\ Advances(Plan(p), plan) /\ NoNewWork(Plan(p), plan) /\ ~Has(plan, Cut)
        /\ Has(plan, {"stuck"})
    BY <1>1, <1>2, <1>3, RunWrites DEF AtWork
  <2>. HIDE DEF plan
  <2>. QED
    BY <1>1, <1>5, <2>1, SaveAndGoGoes DEF AtWork, plan
<1>6. CASE ~(entry[p].attempt >= MAX_ATTEMPTS) /\ SaveAndGo(p, Plan(p), "attempt")
  <2>1. entry[p].attempt < MAX_ATTEMPTS
    BY <1>6, BoundsAssumption DEF RunOK, Counts
  <2>2. Advances(Plan(p), Plan(p)) /\ NoNewWork(Plan(p), Plan(p))
    BY SameAdvances
  <2>. QED
    BY <1>1, <1>2, <1>6, <2>1, <2>2, SaveAndGoGoes DEF AtWork
<1>. QED
  BY <1>4, <1>5, <1>6 DEF Verdict

-----------------------------------------------------------------------------
(* A run begins, goes on and ends.                                         *)

\* The run of p takes its plan from the row.
LoadsTo(p, e) ==
  /\ entry' = [entry EXCEPT ![p] = e] /\ RunOK(e)
  /\ entry[p].pc = "loading" /\ entry[p].saving = Blank /\ ~entry[p].stopped
  /\ row[p].status \in Open
  /\ e.pc = "pick" /\ e.saving = e.plan /\ ~e.stopped
  /\ e.plan.jobs = row[p].jobs

\* The run of p is over.
EndsRun(p) ==
  /\ Leave(p)
  /\ \/ entry[p].pc = "loading" /\ (row[p].status \notin Open \/ Fault)
     \/ Alive(p, "end") \/ (entry[p].stopped /\ entry[p].saving = Blank)

LEMMA LoadGoes ==
  ASSUME RowsOK, EntriesOK, NEW p \in Plans, RunOK(entry[p]), Orderly(row[p]), Load(p)
  PROVE  EndsRun(p) \/ (UNCHANGED waiting /\ \E e : LoadsTo(p, e))
<1>1. entry[p].pc = "loading" /\ entry[p].saving = Blank /\ entry[p].stopped = FALSE
  BY EntryFacts DEF Load, Alive
<1>2. CASE row[p].status \in Open /\ SaveAndGo(p, [row[p] EXCEPT !.status = "running"], "pick")
           /\ UNCHANGED waiting
  <2>. DEFINE plan == [row[p] EXCEPT !.status = "running"]
              e == [entry[p] EXCEPT !.plan = plan, !.saving = plan, !.pc = "pick"]
  <2>1. plan.status = "running" /\ plan.jobs = row[p].jobs
    BY DEF RowsOK, Contents
  <2>2. entry' = [entry EXCEPT ![p] = e]
    BY <1>2 DEF SaveAndGo, EntriesOK
  <2>3. /\ e.plan = plan /\ e.saving = plan /\ e.pc = "pick" /\ e.stopped = FALSE
        /\ e.attempt = entry[p].attempt /\ e.kind = entry[p].kind
    BY <1>1, EntryFacts
  <2>. HIDE DEF plan, e
  <2>4. Orderly(plan)
    BY <2>1 DEF Orderly, InOrder, FinalPlan
  <2>5. RunOK(e)
    BY <2>1, <2>3, <2>4 DEF RunOK, Counts, Goes, AtWork, FinalPlan
  <2>. QED
    BY <1>1, <1>2, <2>1, <2>2, <2>3, <2>5 DEF LoadsTo
<1>. QED
  BY <1>1, <1>2 DEF Load, EndsRun

\* Every step of a run: it loads, goes on, or ends.
LEMMA RunSteps ==
  ASSUME RowsOK, EntriesOK, NEW p \in Plans, RunOK(entry[p]), Orderly(row[p]), RunStep(p)
  PROVE  /\ \/ EndsRun(p) /\ UNCHANGED turns
            \/ UNCHANGED <<waiting, turns>> /\ \E e : LoadsTo(p, e)
            \/ UNCHANGED <<waiting, turns>> /\ \E e : GoesTo(p, e)
            \/ TurnStarts(p) /\ \E e : GoesTo(p, e)
         /\ UNCHANGED <<row, others>>
<1>1. CASE Load(p)
  <2>1. UNCHANGED turns
    BY <1>1 DEF Load
  <2>2. EndsRun(p) \/ (UNCHANGED waiting /\ \E e : LoadsTo(p, e))
    BY <1>1, LoadGoes
  <2>. QED
    BY <1>1, <2>1, <2>2 DEF Load
<1>2. CASE End(p) \/ StoppedEnd(p)
  BY <1>2 DEF End, StoppedEnd, EndsRun
<1>3. CASE Pick(p)
  BY <1>3, PickGoes DEF Pick
<1>4. CASE JobEnd(p)
  BY <1>4, JobEndGoes DEF JobEnd
<1>5. CASE Report(p)
  BY <1>5, ReportGoes DEF Report
<1>6. CASE HandedOff(p)
  BY <1>6, HandedOffGoes DEF HandedOff
<1>7. CASE Attempt(p)
  BY <1>7, AttemptGoes DEF Attempt
<1>8. CASE TurnStarts(p)
  BY <1>8, TurnStartsGoes DEF TurnStarts
<1>9. CASE TurnFails(p)
  BY <1>9, TurnFailsGoes DEF TurnFails
<1>10. CASE TurnAnswers(p)
  BY <1>10, TurnAnswersGoes DEF TurnAnswers
<1>11. CASE CheckItem(p)
  BY <1>11, CheckItemGoes DEF CheckItem
<1>12. CASE ItemChecked(p)
  BY <1>12, ItemCheckedGoes DEF ItemChecked
<1>13. CASE CheckThrows(p)
  BY <1>13, CheckThrowsGoes DEF CheckThrows
<1>14. CASE Verdict(p)
  BY <1>14, VerdictGoes DEF Verdict
<1>. QED
  BY <1>1, <1>2, <1>3, <1>4, <1>5, <1>6, <1>7, <1>8, <1>9, <1>10, <1>11, <1>12, <1>13, <1>14
  DEF RunStep

-----------------------------------------------------------------------------
(* The queue, and the types of what no other part speaks of.               *)

LEMMA UnqueuedSeq ==
  ASSUME waiting \in Seq(Plans), NEW p \in Plans
  PROVE  /\ Unqueued(p) \in Seq(Plans)
         /\ \A i \in DOMAIN Unqueued(p) : \E k \in DOMAIN waiting : Unqueued(p)[i] = waiting[k]
         /\ (\A i, k \in DOMAIN waiting : waiting[i] = waiting[k] => i = k) =>
              /\ \A i, k \in DOMAIN Unqueued(p) : Unqueued(p)[i] = Unqueued(p)[k] => i = k
              /\ \A i \in DOMAIN Unqueued(p) : Unqueued(p)[i] # p
              /\ \A k \in DOMAIN waiting : waiting[k] # p =>
                   \E i \in DOMAIN Unqueued(p) : Unqueued(p)[i] = waiting[k]
<1>1. CASE ~ \E i \in DOMAIN waiting : waiting[i] = p
  BY <1>1 DEF Unqueued
<1>2. CASE \E i \in DOMAIN waiting : waiting[i] = p
  <2>. DEFINE at == {k \in DOMAIN waiting : waiting[k] = p}
              i == First(at)
              N == Len(waiting)
              new == SubSeq(waiting, 1, i - 1) \o SubSeq(waiting, i + 1, Len(waiting))
  <2>1. at \in SUBSET Nat /\ at # {}
    BY <1>2
  <2>2. i \in 1 .. N /\ waiting[i] = p /\ N \in Nat
    <3>1. First(at) \in at
      BY <2>1, HasFirst
    <3>. QED
      BY <3>1
  <2>3. Unqueued(p) = new
    BY <1>2 DEF Unqueued
  <2>. HIDE DEF at, i
  <2>4. /\ SubSeq(waiting, 1, i - 1) \in Seq(Plans) /\ Len(SubSeq(waiting, 1, i - 1)) = i - 1
        /\ \A k \in 1 .. i - 1 : SubSeq(waiting, 1, i - 1)[k] = waiting[k]
    BY <2>2
  <2>5. /\ SubSeq(waiting, i + 1, N) \in Seq(Plans) /\ Len(SubSeq(waiting, i + 1, N)) = N - i
        /\ \A k \in 1 .. N - i : SubSeq(waiting, i + 1, N)[k] = waiting[k + i]
    BY <2>2
  <2>6. /\ new \in Seq(Plans) /\ Len(new) = N - 1 /\ DOMAIN new = 1 .. N - 1
        /\ \A k \in 1 .. N - 1 : new[k] = IF k < i THEN waiting[k] ELSE waiting[k + 1]
    <3>. DEFINE s == SubSeq(waiting, 1, i - 1)
                t == SubSeq(waiting, i + 1, N)
    <3>1. s \in Seq(Plans) /\ Len(s) = i - 1 /\ \A k \in 1 .. i - 1 : s[k] = waiting[k]
      BY <2>4
    <3>2. t \in Seq(Plans) /\ Len(t) = N - i /\ \A k \in 1 .. N - i : t[k] = waiting[k + i]
      BY <2>5
    <3>. HIDE DEF s, t
    <3>3. s \o t \in Seq(Plans) /\ Len(s \o t) = N - 1 /\ DOMAIN (s \o t) = 1 .. N - 1
      BY <2>2, <3>1, <3>2
    <3>4. ASSUME NEW k \in 1 .. N - 1
          PROVE  (s \o t)[k] = IF k < i THEN waiting[k] ELSE waiting[k + 1]
      <4>1. CASE k < i
        BY <2>2, <3>1, <3>2, <4>1
      <4>2. CASE ~(k < i)
        <5>1. (s \o t)[k] = t[k - (i - 1)]
          BY <2>2, <3>1, <3>2, <4>2
        <5>2. k - (i - 1) \in 1 .. N - i /\ k - (i - 1) + i = k + 1
          BY <2>2, <4>2
        <5>. QED
          BY <2>2, <3>2, <4>2, <5>1, <5>2
      <4>. QED
        BY <4>1, <4>2
    <3>. QED
      BY <3>3, <3>4 DEF s, t
  <2>. HIDE DEF new, N
  <2>7. DOMAIN waiting = 1 .. N
    BY DEF N
  <2>8. \A k \in DOMAIN new : IF k < i THEN k \in DOMAIN waiting /\ new[k] = waiting[k] /\ k # i
                                ELSE k + 1 \in DOMAIN waiting /\ new[k] = waiting[k + 1]
                                  /\ k + 1 # i
    BY <2>2, <2>6, <2>7
  <2>9. \A k \in DOMAIN waiting : k # i => \E l \in DOMAIN new : new[l] = waiting[k]
    <3>. SUFFICES ASSUME NEW k \in DOMAIN waiting, k # i
                  PROVE  \E l \in DOMAIN new : new[l] = waiting[k]
      OBVIOUS
    <3>1. CASE k < i
      BY <2>2, <2>6, <2>7, <3>1
    <3>2. CASE k > i
      <4>1. k - 1 \in DOMAIN new /\ ~(k - 1 < i) /\ (k - 1) + 1 = k
        BY <2>2, <2>6, <2>7, <3>2
      <4>. QED
        BY <2>8, <4>1
    <3>. QED
      BY <2>2, <2>7, <3>1, <3>2
  <2>10. ASSUME \A x, y \in DOMAIN waiting : waiting[x] = waiting[y] => x = y,
                NEW x \in DOMAIN new, NEW y \in DOMAIN new, new[x] = new[y]
         PROVE  x = y
    <3>1. x \in Nat /\ y \in Nat
      BY <2>6, <2>2
    <3>2. (IF x < i THEN x ELSE x + 1) = (IF y < i THEN y ELSE y + 1)
      BY <2>8, <2>10
    <3>. QED
      BY <2>2, <3>1, <3>2
  <2>11. ASSUME \A x, y \in DOMAIN waiting : waiting[x] = waiting[y] => x = y
         PROVE  \A x \in DOMAIN new : new[x] # p
    BY <2>2, <2>7, <2>8, <2>11
  <2>. QED
    BY <2>2, <2>3, <2>6, <2>8, <2>9, <2>10, <2>11
<1>. QED
  BY <1>1, <1>2

-----------------------------------------------------------------------------
(* The invariant of the second part, kept by every step of the server.     *)

OrderInv == \A p \in Plans : Orderly(row[p]) /\ RunOK(entry[p]) /\ Orderly(stop[p].plan)
  /\ Orderly(left[p])

RestOK ==
  /\ waiting \in Seq(Plans)
  /\ \A p \in Plans : stop[p].pc \in {"none", "mark", "save"}
  /\ asked \in [Plans -> {"no", "counted", "inserted", "answered"}]
  /\ recovery \in {"none", "running", "done", "failed"}
  /\ missed \subseteq Plans
  /\ life \in 1 .. MaxLives
  /\ faults \in 0 .. MaxFaults
  /\ turns \in [Plans -> [Jobs -> SUBSET (1 .. MaxLives)]]

PlanInv == DoneInv /\ RestOK /\ OrderInv

LEMMA BlankOrderly == Orderly(Blank)
BY DEF Blank, Orderly, InOrder, Closed, Begun, FinalJob, FinalPlan

LEMMA FreshRuns ==
  /\ RunOK(Off) /\ RunOK(Loading) /\ RunOK([Off EXCEPT !.pc = "loading"])
<1>1. Counts(Off) /\ Counts(Loading)
  BY CheckOrderTyped, BoundsAssumption DEF Counts, Off, Loading
<1>. QED
  BY <1>1, BlankOrderly DEF RunOK, Goes, Off, Loading, AtWork, Busy, Loaded

LEMMA RunsChange ==
  ASSUME DoneInv, OrderInv, NEW p \in Plans, NEW e, RunOK(e), entry' = [entry EXCEPT ![p] = e]
  PROVE  \A q \in Plans : RunOK(entry'[q])
BY DEF DoneInv, EntriesOK, OrderInv

LEMMA PlacesRuns ==
  ASSUME DoneInv, OrderInv, RestOK, NEW p \in Plans, Leave(p) \/ StartPlan(p)
  PROVE  (\A q \in Plans : RunOK(entry'[q])) /\ waiting' \in Seq(Plans)
<1>1. CASE Leave(p)
  <2>1. waiting' \in Seq(Plans)
    <3>1. waiting \in Seq(Plans)
      BY DEF RestOK
    <3>2. CASE waiting = << >>
      BY <1>1, <3>1, <3>2 DEF Leave
    <3>3. CASE waiting # << >>
      <4>1. waiting' = Tail(waiting)
        BY <1>1, <3>3 DEF Leave
      <4>. QED
        BY <3>1, <3>3, <4>1
    <3>. QED
      BY <3>2, <3>3
  <2>. QED
    BY <1>1, <2>1, FreshRuns DEF Leave, DoneInv, EntriesOK, OrderInv
<1>2. CASE StartPlan(p)
  <2>1. waiting' \in Seq(Plans)
    BY <1>2 DEF StartPlan, RestOK
  <2>. QED
    BY <1>2, <2>1, FreshRuns DEF StartPlan, DoneInv, EntriesOK, OrderInv
<1>. QED
  BY <1>1, <1>2

LEMMA SavedOrder ==
  ASSUME DoneInv, OrderInv, NEW p \in Plans, NEW plan, Orderly(plan),
         SaveOrFail(p, plan) \/ SaveRow(p, plan)
  PROVE  \A q \in Plans : Orderly(row'[q])
BY DEF DoneInv, RowsOK, OrderInv, SaveOrFail, SaveRow

LEMMA FaultCounts == ASSUME RestOK PROVE Fault => faults' \in 0 .. MaxFaults
BY BoundsAssumption DEF Fault, RestOK

LEMMA InvInitially == Init => PlanInv
<1>1. Init => RestOK
  BY BoundsAssumption DEF Init, RestOK, NoStop
<1>2. Init => OrderInv
  BY BlankOrderly, FreshRuns DEF Init, OrderInv, NoStop
<1>. QED
  BY <1>1, <1>2, DoneInvInitially DEF PlanInv

LEMMA RunStepOrder ==
  ASSUME PlanInv, NEW p \in Plans, RunStep(p)
  PROVE  RestOK' /\ OrderInv'
<1>. USE DEF PlanInv
<1>1. /\ \/ EndsRun(p) /\ UNCHANGED turns
         \/ UNCHANGED <<waiting, turns>> /\ \E e : LoadsTo(p, e)
         \/ UNCHANGED <<waiting, turns>> /\ \E e : GoesTo(p, e)
         \/ TurnStarts(p) /\ \E e : GoesTo(p, e)
      /\ UNCHANGED <<row, others>>
  BY RunSteps DEF DoneInv, OrderInv
<1>2. (\A q \in Plans : RunOK(entry'[q])) /\ waiting' \in Seq(Plans)
  <2>1. CASE EndsRun(p)
    BY <2>1, PlacesRuns DEF EndsRun
  <2>2. CASE UNCHANGED waiting /\ \E e : LoadsTo(p, e)
    BY <2>2, RunsChange DEF LoadsTo, RestOK
  <2>3. CASE UNCHANGED waiting /\ \E e : GoesTo(p, e)
    BY <2>3, RunsChange DEF GoesTo, RestOK
  <2>. QED
    BY <1>1, <2>1, <2>2, <2>3 DEF TurnStarts
<1>3. turns' \in [Plans -> [Jobs -> SUBSET (1 .. MaxLives)]]
  <2>1. CASE UNCHANGED turns
    BY <2>1 DEF RestOK
  <2>2. CASE TurnStarts(p)
    <3>1. turns' = [turns EXCEPT ![p][Job(p)] = @ \cup {life}]
      BY <2>2 DEF TurnStarts
    <3>2. turns[p] \in [Jobs -> SUBSET (1 .. MaxLives)] /\ life \in 1 .. MaxLives
      BY DEF RestOK
    <3>3. [turns[p] EXCEPT ![Job(p)] = @ \cup {life}] \in [Jobs -> SUBSET (1 .. MaxLives)]
      BY <3>2
    <3>. QED
      BY <3>1, <3>3 DEF RestOK
  <2>. QED
    BY <1>1, <2>1, <2>2
<1>4. faults' \in 0 .. MaxFaults
  <2>1. UNCHANGED faults \/ Fault
    BY DEF RunStep, Load, Pick, JobEnd, Report, End, StoppedEnd, HandedOff, Attempt, TurnStarts,
       TurnFails, TurnAnswers, CheckItem, ItemChecked, CheckThrows, Verdict
  <2>. QED
    BY <2>1, FaultCounts DEF RestOK
<1>5. UNCHANGED asked
  BY RunStepsKeepRows
<1>6. RestOK'
  BY <1>1, <1>2, <1>3, <1>4, <1>5 DEF RestOK, others
<1>7. OrderInv'
  BY <1>1, <1>2 DEF OrderInv, others
<1>. QED
  BY <1>6, <1>7

LEMMA SaveSettlesOrder ==
  ASSUME PlanInv, NEW p \in Plans, SaveSettles(p)
  PROVE  RestOK' /\ OrderInv'
<1>. USE DEF PlanInv
<1>. DEFINE e == [entry[p] EXCEPT !.saving = Blank]
<1>1. RunOK(entry[p]) /\ Orderly(entry[p].saving)
  BY DEF OrderInv, RunOK
<1>2. \A q \in Plans : Orderly(row'[q])
  BY <1>1, SavedOrder DEF SaveSettles
<1>3. entry' = [entry EXCEPT ![p] = e]
  BY DEF SaveSettles, DoneInv, EntriesOK
<1>4. /\ e.plan = entry[p].plan /\ e.saving = Blank /\ e.pc = entry[p].pc
      /\ e.stopped = entry[p].stopped /\ e.attempt = entry[p].attempt /\ e.kind = entry[p].kind
  BY EntryFacts DEF DoneInv
<1>. HIDE DEF e
<1>5. RunOK(e)
  BY <1>1, <1>4, BlankOrderly DEF RunOK, Goes, Counts, Loaded
<1>6. \A q \in Plans : RunOK(entry'[q])
  BY <1>3, <1>5, RunsChange
<1>7. RestOK'
  BY FaultCounts DEF SaveSettles, SaveOrFail, RestOK, others
<1>. QED
  BY <1>2, <1>6, <1>7 DEF SaveSettles, OrderInv, others

LEMMA StopsOrder ==
  ASSUME PlanInv, NEW p \in Plans, StopRead(p) \/ StopMark(p) \/ StopSave(p)
  PROVE  RestOK' /\ OrderInv'
<1>. USE DEF PlanInv
<1>1. /\ Orderly(row[p]) /\ RunOK(entry[p]) /\ Orderly(entry[p].plan) /\ Orderly(stop[p].plan)
      /\ stop = [q \in Plans |-> stop[q]]
      /\ stop[p] \in [pc : {stop[p].pc}, plan : Contents]
      /\ entry[p].plan \in Contents
  BY EntryFacts DEF OrderInv, RunOK, DoneInv, StopsOK, StopOK
<1>2. CASE StopRead(p)
  <2>1. stop' = [stop EXCEPT ![p] = [pc |-> "mark", plan |-> row[p]]]
    BY <1>2 DEF StopRead
  <2>2. \A q \in Plans : Orderly(stop'[q].plan) /\ stop'[q].pc \in {"none", "mark", "save"}
    BY <1>1, <2>1 DEF OrderInv, RestOK
  <2>. QED
    BY <1>2, <2>2 DEF StopRead, OrderInv, RestOK
<1>3. CASE StopMark(p)
  <2>. DEFINE loaded == entry[p].pc \notin {"off", "loading"}
              old == IF loaded THEN Plan(p) ELSE stop[p].plan
              plan == MarkStopped(old)
              e == [entry[p] EXCEPT !.stopped = TRUE, !.plan = IF loaded THEN plan ELSE @]
  <2>1. old \in Contents /\ Orderly(old)
    BY <1>1 DEF Plan
  <2>. HIDE DEF old
  <2>2. Orderly(plan) /\ plan.status = "stopped"
    BY <2>1, MarkStoppedJobs, MarkStoppedType DEF Orderly
  <2>3. stop' = [stop EXCEPT ![p] = [pc |-> "save", plan |-> plan]]
    BY <1>3 DEF StopMark, old
  <2>4. entry' = [entry EXCEPT ![p] = e] \/ UNCHANGED entry
    BY <1>3 DEF StopMark, DoneInv, EntriesOK, old
  <2>. HIDE DEF plan
  <2>5. \A q \in Plans : Orderly(stop'[q].plan) /\ stop'[q].pc \in {"none", "mark", "save"}
    BY <1>1, <2>2, <2>3 DEF OrderInv, RestOK
  <2>6. RunOK(e)
    <3>1. /\ e.plan = IF loaded THEN plan ELSE entry[p].plan
          /\ e.saving = entry[p].saving /\ e.pc = entry[p].pc
          /\ e.stopped = TRUE /\ e.attempt = entry[p].attempt /\ e.kind = entry[p].kind
      BY EntryFacts DEF DoneInv
    <3>. HIDE DEF e
    <3>. QED
      BY <1>1, <2>2, <3>1 DEF RunOK, Counts, Loaded
  <2>7. \A q \in Plans : RunOK(entry'[q])
    BY <2>4, <2>6, RunsChange DEF OrderInv
  <2>8. waiting' \in Seq(Plans)
    BY <1>3, UnqueuedSeq DEF StopMark, RestOK
  <2>. QED
    BY <1>3, <2>5, <2>7, <2>8 DEF StopMark, OrderInv, RestOK
<1>4. CASE StopSave(p)
  <2>1. \A q \in Plans : Orderly(row'[q])
    BY <1>1, <1>4, SavedOrder DEF StopSave
  <2>2. stop' = [stop EXCEPT ![p] = NoStop]
    BY <1>4 DEF StopSave
  <2>3. \A q \in Plans : Orderly(stop'[q].plan) /\ stop'[q].pc \in {"none", "mark", "save"}
    BY <1>1, <2>2, BlankOrderly DEF OrderInv, RestOK, NoStop
  <2>4. faults' \in 0 .. MaxFaults
    BY <1>4, FaultCounts DEF StopSave, SaveOrFail, RestOK
  <2>. QED
    BY <1>4, <2>1, <2>3, <2>4 DEF StopSave, OrderInv, RestOK
<1>. QED
  BY <1>2, <1>3, <1>4

LEMMA AsksOrder ==
  ASSUME PlanInv, NEW p \in Plans, AskCount(p) \/ Insert(p) \/ Start(p)
  PROVE  RestOK' /\ OrderInv'
<1>. USE DEF PlanInv
<1>1. CASE AskCount(p)
  BY <1>1 DEF AskCount, RestOK, OrderInv
<1>2. CASE Insert(p)
  <2>1. PICK lists \in [Jobs -> Checklists] :
          row' = [row EXCEPT ![p] = [status |-> "queued", jobs |-> [j \in Jobs |->
            [status |-> "waiting",
             list |-> [k \in Kinds |-> IF k \in lists[j] THEN "open" ELSE "none"]]]]]
    BY <1>2 DEF Insert
  <2>. DEFINE new == [status |-> "queued", jobs |-> [j \in Jobs |->
                [status |-> "waiting",
                 list |-> [k \in Kinds |-> IF k \in lists[j] THEN "open" ELSE "none"]]]]
  <2>2. Orderly(new)
    BY DEF Orderly, InOrder, Closed, Begun, FinalJob, FinalPlan
  <2>. HIDE DEF new
  <2>3. \A q \in Plans : Orderly(row'[q])
    BY <2>1, <2>2 DEF new, OrderInv, DoneInv, RowsOK
  <2>. QED
    BY <1>2, <2>3 DEF Insert, RestOK, OrderInv
<1>3. CASE Start(p)
  BY <1>3, PlacesRuns DEF Start, RestOK, OrderInv
<1>. QED
  BY <1>1, <1>2, <1>3

LEMMA RecoveriesOrder == ASSUME PlanInv, Recover PROVE RestOK' /\ OrderInv'
<1>. USE DEF PlanInv
<1>1. CASE RecoverList
  <2>1. PICK S \in Listings : left' = [p \in Plans |-> IF p \in S THEN row[p] ELSE Blank]
                            /\ missed' = Unfinished \ S
    BY <1>1, Zenon DEF RecoverList
  <2>2. missed' \subseteq Plans /\ recovery' = "running"
        /\ UNCHANGED <<row, entry, waiting, stop, asked, life, faults, turns>>
    BY <1>1, <2>1 DEF RecoverList, Unfinished
  <2>3. \A p \in Plans : left'[p] = row[p] \/ left'[p] = Blank
    BY <2>1
  <2>. QED
    BY <2>2, <2>3, BlankOrderly DEF RestOK, OrderInv
<1>2. ASSUME NEW p \in Plans, RecoverPlan(p) PROVE RestOK' /\ OrderInv'
  <2>. DEFINE cut == {j \in Jobs : left[p].jobs[j].status \in {"working", "checking"}}
  <2>1. \A q \in Plans : Orderly(left'[q])
    BY <1>2, BlankOrderly DEF RecoverPlan, OrderInv, DoneInv, LeftOK
  <2>2. CASE cut # {} /\ SaveRow(p, StickJob(left[p], cut)) /\ UNCHANGED <<entry, waiting>>
    <3>1. left[p] \in Contents /\ Orderly(left[p])
      BY DEF OrderInv, DoneInv, LeftOK
    <3>2. First(cut) \in cut
      BY <2>2, FirstJob
    <3>3. left[p].jobs[First(cut)].status \in Cut /\ cut \in SUBSET Jobs
      BY <3>2 DEF Cut
    <3>. HIDE DEF cut
    <3>4. Orderly(StickJob(left[p], cut))
      BY <2>2, <3>1, <3>3, StickJobJobs DEF Orderly
    <3>5. \A q \in Plans : Orderly(row'[q])
      BY <2>2, <3>4, SavedOrder
    <3>. QED
      BY <1>2, <2>1, <2>2, <3>5 DEF RecoverPlan, RestOK, OrderInv
  <2>3. CASE StartPlan(p) /\ UNCHANGED row
    BY <1>2, <2>1, <2>3, PlacesRuns DEF RecoverPlan, RestOK, OrderInv
  <2>. QED
    BY <1>2, <2>2, <2>3 DEF RecoverPlan
<1>3. CASE RecoverDone
  BY <1>3 DEF RecoverDone, RestOK, OrderInv
<1>4. CASE RecoverFails
  <2>1. \A q \in Plans : Orderly(left'[q])
    BY <1>4, BlankOrderly DEF RecoverFails
  <2>2. faults' \in 0 .. MaxFaults
    BY <1>4, FaultCounts DEF RecoverFails
  <2>. QED
    BY <1>4, <2>1, <2>2 DEF RecoverFails, RestOK, OrderInv
<1>. QED
  BY <1>1, <1>2, <1>3, <1>4 DEF Recover

LEMMA CrashOrder == ASSUME PlanInv, Crash PROVE RestOK' /\ OrderInv'
<1>1. RestOK'
  <2>1. life' \in 1 .. MaxLives
    BY BoundsAssumption DEF Crash, PlanInv, RestOK
  <2>2. asked' \in [Plans -> {"no", "counted", "inserted", "answered"}]
    BY DEF Crash, PlanInv, RestOK
  <2>. QED
    BY <2>1, <2>2 DEF Crash, PlanInv, RestOK, NoStop
<1>2. OrderInv'
  BY BlankOrderly, FreshRuns DEF Crash, PlanInv, OrderInv, NoStop
<1>. QED
  BY <1>1, <1>2

LEMMA InvStep == PlanInv /\ [Next]_vars => PlanInv'
<1>. SUFFICES ASSUME PlanInv, [Next]_vars PROVE PlanInv'
  OBVIOUS
<1>1. DoneInv'
  BY DoneInvStep DEF PlanInv
<1>2. RestOK' /\ OrderInv'
  <2>1. CASE UNCHANGED vars
    BY <2>1 DEF vars, PlanInv, RestOK, OrderInv
  <2>. QED
    BY <2>1, RunStepOrder, SaveSettlesOrder, StopsOrder, AsksOrder, RecoveriesOrder,
       CrashOrder DEF Next
<1>. QED
  BY <1>1, <1>2 DEF PlanInv

LEMMA PlanInvHolds == Spec => []PlanInv
BY InvInitially, InvStep, PTL DEF Spec

\* Each part of the state stays what the code takes it for: a job is tried at most
\* MAX_ATTEMPTS times, a round of checks ends, and the queue holds plans.
THEOREM PlanTypes == Spec => []TypeOK
<1>1. PlanInv => TypeOK
  <2>. SUFFICES ASSUME PlanInv PROVE TypeOK
    OBVIOUS
  <2>1. \A p \in Plans : entry[p] \in Entries
    BY DEF PlanInv, DoneInv, EntriesOK, EntryOK, OrderInv, RunOK, Counts, Entries
  <2>2. \A p \in Plans : stop[p] \in [pc : {"none", "mark", "save"}, plan : Contents]
    BY DEF PlanInv, DoneInv, StopsOK, StopOK, RestOK
  <2>3. row \in [Plans -> Contents] /\ left \in [Plans -> Contents]
    BY DEF PlanInv, DoneInv, RowsOK, LeftOK
  <2>4. entry \in [Plans -> Entries]
    BY <2>1 DEF PlanInv, DoneInv, EntriesOK
  <2>5. stop \in [Plans -> [pc : {"none", "mark", "save"}, plan : Contents]]
    BY <2>2 DEF PlanInv, DoneInv, StopsOK
  <2>. QED
    BY <2>3, <2>4, <2>5 DEF TypeOK, PlanInv, RestOK
<1>. QED
  BY <1>1, PlanInvHolds, PTL

\* "Later jobs never build on unchecked work", and a plan that ended leaves nothing open:
\* for any number of jobs, kinds of items, tries, stops, restarts and failed saves.
THEOREM JobsSettle == Spec => []JobsSettleInOrder
<1>1. PlanInv => JobsSettleInOrder
  <2>. SUFFICES ASSUME PlanInv PROVE NeverBuiltOnUnchecked /\ NothingLeftOpen
    BY DEF JobsSettleInOrder
  <2>1. \A p \in Plans : Orderly(row[p]) /\ Orderly(Plan(p))
    BY DEF PlanInv, OrderInv, RunOK, Plan
  <2>2. NeverBuiltOnUnchecked
    BY <2>1 DEF NeverBuiltOnUnchecked, Orderly, InOrder, Begun
  <2>3. NothingLeftOpen
    BY <2>1 DEF NothingLeftOpen, Orderly, InOrder, Closed, NoOpen
  <2>. QED
    BY <2>2, <2>3
<1>. QED
  BY <1>1, PlanInvHolds, PTL

-----------------------------------------------------------------------------
(* As long as no read or save fails: which of its copies of a plan the     *)
(* server is ahead with, and which are out of date but harmless.           *)

\* A save of new over old drops the ticks of a job it no longer has at work.
Behind(old, new) ==
  \A j \in Jobs : old.jobs[j].status = "working" =>
    new.jobs[j].status = "working" \/ NoTick(new.jobs[j].list)

\* A save of new over old cuts off no job with ticks of the try before.
CutClean(old, new) ==
  \A j \in Jobs : old.jobs[j].status = "working" /\ new.jobs[j].status \in Ended =>
    NoTick(new.jobs[j].list)

\* What the stop s has as cut off had ended in c as well.
Agrees(s, c) == \A j \in Jobs : s.jobs[j].status \in Ended => c.jobs[j].status \in Ended

\* The plan is with the server, and its run has not read the row yet.
Startable(e, a, l, w) == a = "inserted" \/ w \/ e.pc = "loading" \/ l # Blank

\* The places a plan is in: its row r, run e, stop s, handOff call a, recovery
\* list l, the queue (w); rec is how far recovery is with it.
Places(r, e, s, a, l, w, rec) ==
  /\ e.pc = "off" => e = Off
  /\ e.pc # "off" => ~w
  /\ e.pc = "loading" => e.saving = Blank
  /\ e.saving # Blank => e.saving.status # "none"
  /\ s.pc = "save" => s.plan.status = "stopped"
  /\ a = "inserted" => e = Off /\ ~w /\ l = Blank /\ r.status # "none"
  /\ a \in {"no", "counted"} => r.status = "none"
  /\ rec \in {"none", "running"} => a \in {"no", "answered"}
  /\ rec \in {"none", "missed"} => e = Off /\ ~w /\ l = Blank
  /\ rec = "missed" => a = "answered"
  /\ l # Blank => rec = "running" /\ e = Off /\ ~w /\ (r.status \in Open => l = r)
  /\ r.status = "none" => e = Off /\ ~w /\ l = Blank /\ s = NoStop

\* What a run that nobody stopped knows beyond the open row.
Ahead(r, e) ==
  /\ e.saving # Blank => e.saving = e.plan /\ e.pc \notin {"handoff", "report"}
  /\ e.saving = Blank => e.pc # "end"
  /\ e.saving = Blank /\ e.pc \notin {"handoff", "report"} => r = e.plan
  /\ e.pc = "handoff" => \A j \in Jobs :
       \/ r.jobs[j] = e.plan.jobs[j]
       \/ r.jobs[j].status = "waiting" /\ e.plan.jobs[j].status = "working"
  /\ e.pc = "report" => ~Has(r, Cut)

Held(r, e, s, a, l, w, rec) ==
  /\ Loaded(e) /\ ~e.stopped => Ahead(r, e)
  /\ e.saving # Blank => Behind(r, e.saving)
  /\ e.stopped => s.pc = "save"
  /\ Startable(e, a, l, w) /\ l = Blank => ~Has(r, Cut)
  /\ s.pc = "mark" /\ ~Loaded(e) => s.plan = r
  /\ Startable(e, a, l, w) \/ e.pc # "off" \/ s.pc = "save" \/ rec \in {"none", "missed"}

Stopping(r, e, s, a, l, w, rec) == s.pc = "save" =>
  /\ CutClean(r, s.plan)
  /\ e.stopped /\ e.saving # Blank => CutClean(e.saving, s.plan)
  /\ (Startable(e, a, l, w) \/ rec \in {"none", "missed"}) /\ ~Has(r, Cut) => Agrees(s.plan, r)
  /\ Loaded(e) /\ ~e.stopped => Agrees(s.plan, r) /\ Agrees(s.plan, e.plan)

Kept(r, e, s, a, l, w, rec) ==
  /\ Places(r, e, s, a, l, w, rec)
  /\ r.status \in Open => Held(r, e, s, a, l, w, rec) /\ Stopping(r, e, s, a, l, w, rec)

\* The turns t on the jobs of a plan, in the life now.
Turned(r, e, t, now) ==
  /\ \A j \in Jobs : t[j] = {} \/ \E n \in 1 .. MaxLives : t[j] = {n}
  /\ r.status \notin FinalPlan => \A j \in Jobs :
       r.status = "none" \/ r.jobs[j].status = "waiting" => t[j] = {}
  /\ e.saving # Blank => \A j \in Jobs : e.saving.jobs[j].status = "waiting" => t[j] = {}
  /\ Loaded(e) /\ ~e.stopped =>
       /\ \A j \in Jobs : e.plan.jobs[j].status = "waiting" => t[j] = {}
       /\ e.pc \in AtWork => \A j \in Jobs : e.plan.jobs[j].status \in Cut => t[j] \subseteq {now}
       /\ e.pc \in {"pick", "jobend"} => ~Has(e.plan, Cut)

InQueue(p) == \E i \in DOMAIN waiting : waiting[i] = p
\* A plan that recovery did not list is as it was before it, for this life.
RecoveryOf(p) == IF p \in missed THEN "missed" ELSE recovery
KeptPlan(p) == Kept(row[p], entry[p], stop[p], asked[p], left[p], InQueue(p), RecoveryOf(p))
TurnedPlan(p) == Turned(row[p], entry[p], turns[p], life)

QueueOK ==
  /\ \A i \in DOMAIN waiting : entry[waiting[i]].pc = "off"
  /\ \A i, k \in DOMAIN waiting : waiting[i] = waiting[k] => i = k

\* As long as no read or save has failed.
Faultless == /\ recovery # "failed" /\ QueueOK
             /\ \A p \in Plans : KeptPlan(p) /\ TurnedPlan(p)
FaultlessInv == faults = 0 => Faultless

-----------------------------------------------------------------------------
(* What each kind of step does to one plan.                                *)

LEMMA OffFacts ==
  /\ Off.pc = "off" /\ Off.plan = Blank /\ Off.saving = Blank /\ Off.stopped = FALSE
  /\ Loading.pc = "loading" /\ Loading.plan = Blank /\ Loading.saving = Blank
     /\ Loading.stopped = FALSE
  /\ NoStop.pc = "none" /\ Blank.status = "none"
BY DEF Off, Loading, NoStop, Blank

LEMMA RunLeaves ==
  ASSUME NEW r, NEW e, NEW s, NEW a, NEW l, NEW w, NEW v, NEW rec, Kept(r, e, s, a, l, w, rec), ~v,
         \/ e.pc = "loading" /\ r.status \notin Open
         \/ e.pc = "end" /\ e.saving = Blank /\ ~e.stopped
         \/ e.pc # "off" /\ e.stopped
  PROVE  Kept(r, Off, s, a, l, v, rec)
<1>1. e.pc # "off" /\ e # Off
  BY OffFacts
<1>2. Places(r, Off, s, a, l, v, rec) /\ l = Blank /\ a # "inserted"
  BY <1>1, OffFacts DEF Kept, Places
<1>3. ASSUME r.status \in Open PROVE s.pc = "save"
  BY <1>1, <1>3 DEF Kept, Held, Ahead, Loaded
<1>4. r.status \in Open => Held(r, Off, s, a, l, v, rec)
  BY <1>2, <1>3, OffFacts DEF Held, Startable, Loaded
<1>5. r.status \in Open => Stopping(r, Off, s, a, l, v, rec)
  BY <1>1, <1>2, OffFacts DEF Kept, Places, Stopping, Startable, Loaded
<1>. QED
  BY <1>2, <1>4, <1>5 DEF Kept

\* The plan is started, or put in the queue, or leaves it.
LEMMA PlaceFound ==
  ASSUME NEW r, NEW s, NEW a, NEW l, NEW w, NEW rec, Kept(r, Off, s, a, l, w, rec),
         a = "inserted" \/ w \/ l # Blank,
         NEW b, b = a \/ (a = "inserted" /\ b = "answered"), b # "inserted",
         l # Blank /\ r.status \in Open => ~Has(l, Cut),
         NEW e, NEW v, (e = Off /\ v) \/ (e = Loading /\ ~v)
  PROVE  Kept(r, e, s, b, Blank, v, rec)
<1>1. rec # "none" /\ r.status # "none"
  BY DEF Kept, Places
<1>2. Places(r, e, s, b, Blank, v, rec)
  BY <1>1, OffFacts DEF Kept, Places
<1>3. ASSUME r.status \in Open PROVE ~Has(r, Cut)
  BY <1>3 DEF Kept, Places, Held, Startable
<1>4. r.status \in Open => Held(r, e, s, b, Blank, v, rec)
  BY <1>3, OffFacts DEF Kept, Held, Startable, Loaded
<1>5. r.status \in Open => Stopping(r, e, s, b, Blank, v, rec)
  BY <1>1, OffFacts DEF Kept, Stopping, Startable, Loaded
<1>. QED
  BY <1>2, <1>4, <1>5 DEF Kept

LEMMA RunLoads ==
  ASSUME NEW r, NEW old, NEW s, NEW a, NEW l, NEW w, NEW rec, Kept(r, old, s, a, l, w, rec),
         NEW t, NEW now, Turned(r, old, t, now),
         old.pc = "loading", old.saving = Blank, ~old.stopped, r.status \in Open,
         NEW e, RunOK(e), e.pc = "pick", e.saving = e.plan, ~e.stopped, e.plan.jobs = r.jobs
  PROVE  Kept(r, e, s, a, l, w, rec) /\ Turned(r, e, t, now)
<1>1. old # Off /\ e # Off /\ Loaded(e) /\ ~Loaded(old)
  BY OffFacts DEF Loaded
<1>2. e.saving.status # "none" /\ e.saving # Blank
  BY <1>1, OffFacts DEF RunOK
<1>3. Places(r, e, s, a, l, w, rec) /\ l = Blank /\ a # "inserted" /\ ~w
  BY <1>1, <1>2 DEF Kept, Places
<1>4. ~Has(r, Cut) /\ ~Has(e.plan, Cut)
  BY <1>3 DEF Kept, Held, Startable, Has
<1>5. Held(r, e, s, a, l, w, rec)
  BY <1>1, <1>2, <1>3 DEF Held, Ahead, Startable, Behind
<1>6. Stopping(r, e, s, a, l, w, rec)
  BY <1>1, <1>3, <1>4 DEF Kept, Stopping, Startable, Agrees
<1>7. Turned(r, e, t, now)
  BY <1>1, <1>4 DEF Turned, Open, FinalPlan, AtWork
<1>. QED
  BY <1>3, <1>5, <1>6, <1>7 DEF Kept

LEMMA AheadBehind ==
  ASSUME NEW r, NEW e, Ahead(r, e)
  PROVE  e.saving = Blank => Behind(r, e.plan)
BY DEF Ahead, Behind, Has, Cut

LEMMA RunGoes ==
  ASSUME NEW r, NEW old, NEW s, NEW a, NEW l, NEW w, NEW rec, Kept(r, old, s, a, l, w, rec),
         NEW t, NEW now, Turned(r, old, t, now), NEW new, RunOK(new), Steps(old, new)
  PROVE  Kept(r, new, s, a, l, w, rec) /\ Turned(r, new, t, now)
<1>1. /\ Loaded(old) /\ Loaded(new) /\ ~old.stopped /\ ~new.stopped /\ old.saving = Blank
      /\ new.plan.status # "none" /\ Advances(old.plan, new.plan)
      /\ new.saving = Blank \/ new.saving = new.plan
  BY DEF Steps, RunOK
<1>2. old # Off /\ new # Off /\ new.pc \notin {"off", "loading"} /\ old.pc \notin {"off", "loading"}
  BY <1>1, OffFacts DEF Loaded
<1>3. Places(r, new, s, a, l, w, rec) /\ l = Blank /\ a # "inserted" /\ ~w
  BY <1>1, <1>2 DEF Kept, Places
<1>4. new.plan # Blank
  BY <1>1, OffFacts
<1>5. ASSUME r.status \in Open PROVE Ahead(r, new) /\ (new.saving # Blank => Behind(r, new.saving))
  <2>1. Ahead(r, old)
    BY <1>1, <1>5 DEF Kept, Held
  <2>2. CASE /\ old.pc = "pick" /\ new.pc = "handoff" /\ new.saving = Blank
             /\ \A j \in Jobs : \/ new.plan.jobs[j] = old.plan.jobs[j]
                                \/ /\ old.plan.jobs[j].status \in {"waiting"} \cup Cut
                                   /\ new.plan.jobs[j].status = "working"
    <3>1. r = old.plan /\ ~Has(old.plan, Cut)
      BY <1>1, <2>1, <2>2 DEF Ahead, Turned
    <3>2. \A j \in Jobs : \/ r.jobs[j] = new.plan.jobs[j]
                          \/ r.jobs[j].status = "waiting" /\ new.plan.jobs[j].status = "working"
      BY <2>2, <3>1 DEF Has
    <3>. QED
      BY <2>2, <3>2 DEF Ahead
  <2>3. CASE /\ old.pc \in {"pick", "jobend"} /\ new.pc = "report" /\ new.saving = Blank
             /\ ~Has(old.plan, Cut)
    BY <1>1, <2>1, <2>3 DEF Ahead
  <2>4. CASE /\ new.saving = new.plan
             /\ new.pc \in {"attempt", "agent", "check", "checked", "jobend", "pick", "end"}
    <3>1. Behind(r, old.plan) /\ (old.pc # "handoff" => r = old.plan \/ ~Has(r, Cut))
      BY <1>1, <2>1, AheadBehind DEF Ahead
    <3>2. \A j \in Jobs : r.jobs[j].status = "working" => old.plan.jobs[j].status = "working"
      BY <1>1, <2>1, <3>1 DEF Ahead, Has, Cut
    <3>3. Behind(r, new.plan)
      BY <1>1, <3>2 DEF Behind, Advances
    <3>. QED
      BY <1>4, <2>4, <3>3 DEF Ahead
  <2>5. CASE old.pc = "agent" /\ new.pc = "turn" /\ new.plan = old.plan /\ new.saving = Blank
    BY <1>1, <2>1, <2>5 DEF Ahead
  <2>. QED
    BY <2>2, <2>3, <2>4, <2>5 DEF Steps
<1>6. r.status \in Open => Held(r, new, s, a, l, w, rec)
  BY <1>1, <1>2, <1>3, <1>5 DEF Kept, Held, Startable
<1>7. r.status \in Open => Stopping(r, new, s, a, l, w, rec)
  BY <1>1, <1>2, <1>3 DEF Kept, Places, Stopping, Startable, Agrees, Advances
<1>8. Turned(r, new, t, now)
  <2>1. \A j \in Jobs : new.plan.jobs[j].status = "waiting" => t[j] = {}
    BY <1>1 DEF Turned, Advances
  <2>2. ASSUME new.pc \in AtWork, NEW j \in Jobs, new.plan.jobs[j].status \in Cut
        PROVE  t[j] \subseteq {now}
    <3>1. CASE old.pc = "pick" /\ new.pc = "handoff"
      <4>1. ~Has(old.plan, Cut)
        BY <1>1, <3>1 DEF Turned
      <4>2. old.plan.jobs[j].status = "waiting"
        BY <2>2, <3>1, <4>1 DEF Steps, Has, AtWork
      <4>. QED
        BY <1>1, <4>2 DEF Turned
    <3>2. CASE old.pc \in AtWork /\ NoNewWork(old.plan, new.plan)
      BY <1>1, <2>2, <3>2 DEF Turned, NoNewWork
    <3>3. CASE old.pc = "agent" /\ new.pc = "turn" /\ new.plan = old.plan
      BY <1>1, <2>2, <3>3 DEF Turned, AtWork
    <3>. QED
      BY <2>2, <3>1, <3>2, <3>3 DEF Steps, AtWork
  <2>3. new.pc \in {"pick", "jobend"} => ~Has(new.plan, Cut)
    BY DEF Steps
  <2>. QED
    BY <1>1, <2>1, <2>2, <2>3 DEF Turned
<1>. QED
  BY <1>3, <1>6, <1>7, <1>8 DEF Kept

LEMMA TurnCounts ==
  ASSUME NEW r \in Contents, NEW e, NEW s, NEW a, NEW l, NEW w, NEW rec,
         Kept(r, e, s, a, l, w, rec),
         NEW now \in 1 .. MaxLives, NEW t \in [Jobs -> SUBSET (1 .. MaxLives)],
           Turned(r, e, t, now),
         e.pc = "turn", e.saving = Blank, ~e.stopped,
         NEW c \in Jobs, e.plan.jobs[c].status \in Cut
  PROVE  Turned(r, e, [t EXCEPT ![c] = @ \cup {now}], now)
<1>. DEFINE u == [t EXCEPT ![c] = @ \cup {now}]
<1>1. t[c] \subseteq {now}
  BY DEF Turned, Loaded, AtWork
<1>2. u[c] = {now} /\ \A j \in Jobs \ {c} : u[j] = t[j]
  BY <1>1
<1>. HIDE DEF u
<1>3. e # Off /\ r.status # "none"
  BY OffFacts DEF Kept, Places
<1>4. r.status \notin FinalPlan => r.jobs[c].status # "waiting"
  BY <1>3 DEF Kept, Held, Ahead, Loaded, Contents, Cut
<1>5. e.plan.jobs[c].status # "waiting"
  BY DEF Cut
<1>6. Turned(r, e, u, now)
  BY <1>2, <1>3, <1>4, <1>5 DEF Turned
<1>. QED
  BY <1>6 DEF u

\* What savePlan makes of the row.
Written(r, plan) == IF r.status \in Open THEN plan ELSE r

LEMMA RunSaves ==
  ASSUME NEW r, NEW old, NEW s, NEW a, NEW l, NEW w, NEW rec, Kept(r, old, s, a, l, w, rec),
         NEW t, NEW now, Turned(r, old, t, now), RunOK(old), old.saving # Blank,
         NEW e, e.pc = old.pc, e.plan = old.plan, e.saving = Blank, e.stopped = old.stopped
  PROVE  Kept(Written(r, old.saving), e, s, a, l, w, rec)
         /\ Turned(Written(r, old.saving), e, t, now)
<1>. DEFINE new == Written(r, old.saving)
<1>1. old.pc \notin {"off", "loading"} /\ Loaded(old) /\ Loaded(e) /\ r.status # "none"
      /\ old.saving.status # "none" /\ new.status # "none" /\ ~w
  BY OffFacts DEF Kept, Places, Loaded, Written
<1>2. Places(new, e, s, a, l, w, rec) /\ l = Blank /\ a # "inserted"
  BY <1>1, OffFacts DEF Kept, Places
<1>3. CASE r.status \in Open
  <2>1. new = old.saving
    BY <1>3 DEF Written
  <2>. HIDE DEF new
  <2>2. ASSUME new.status \in Open PROVE Held(new, e, s, a, l, w, rec)
               /\ Stopping(new, e, s, a, l, w, rec)
    <3>1. ~old.stopped => Ahead(new, e)
      BY <1>1, <1>3, <2>1, <2>2 DEF Kept, Held, Ahead, RunOK, Goes, Open, FinalPlan
    <3>2. Held(new, e, s, a, l, w, rec)
      BY <1>1, <1>2, <1>3, <3>1 DEF Kept, Held, Startable, Loaded
    <3>3. s.pc = "save" /\ ~old.stopped => new = old.plan /\ Agrees(s.plan, new)
      BY <1>1, <1>3, <2>1 DEF Kept, Held, Ahead, Stopping
    <3>4. s.pc = "save" => CutClean(new, s.plan)
      BY <1>3, <2>1, <3>3 DEF Kept, Stopping, CutClean, Agrees, Ended
    <3>5. Stopping(new, e, s, a, l, w, rec)
      BY <1>1, <1>2, <3>3, <3>4 DEF Kept, Places, Stopping, Startable, Loaded
    <3>. QED
      BY <3>2, <3>5
  <2>3. Turned(new, e, t, now)
    BY <1>1, <2>1 DEF Turned
  <2>. QED
    BY <1>2, <2>2, <2>3 DEF Kept, new
<1>4. CASE r.status \notin Open
  <2>1. new = r
    BY <1>4 DEF Written
  <2>2. Turned(r, e, t, now)
    BY <1>1 DEF Turned
  <2>. QED
    BY <1>2, <1>4, <2>1, <2>2 DEF Kept
<1>. QED
  BY <1>3, <1>4

LEMMA StopReads ==
  ASSUME NEW r, NEW e, NEW a, NEW l, NEW w, NEW rec, Kept(r, e, NoStop, a, l, w, rec),
         r.status \in Open, NEW s, s.pc = "mark", s.plan = r
  PROVE  Kept(r, e, s, a, l, w, rec)
<1>1. Places(r, e, s, a, l, w, rec)
  BY DEF Kept, Places, Open
<1>2. Held(r, e, s, a, l, w, rec)
  BY OffFacts DEF Kept, Held
<1>3. Stopping(r, e, s, a, l, w, rec)
  BY DEF Stopping
<1>. QED
  BY <1>1, <1>2, <1>3 DEF Kept

\* What markPlanStopped leaves of the ticks, and which jobs it ends.
LEMMA StoppedClean ==
  ASSUME NEW plan \in Contents, InOrder(plan)
  PROVE  /\ \A old : Behind(old, plan) => CutClean(old, MarkStopped(plan))
         /\ ~Has(plan, Cut) => Agrees(MarkStopped(plan), plan)
<1>1. ASSUME NEW old, Behind(old, plan), NEW j \in Jobs, old.jobs[j].status = "working",
             MarkStopped(plan).jobs[j].status \in Ended
      PROVE  NoTick(MarkStopped(plan).jobs[j].list)
  <2>1. plan.jobs[j].status = "working" \/ NoTick(plan.jobs[j].list)
    BY <1>1 DEF Behind
  <2>2. plan.jobs[j] \in JobRecords /\ plan.jobs[j].status \in {"waiting"} \cup Cut \cup FinalJob
    BY JobTyped
  <2>3. CASE plan.jobs[j].status \in Cut
    BY <2>1, <2>2, <2>3, MarkStoppedJobs, CutOffLists
  <2>4. CASE plan.jobs[j].status = "waiting"
    BY <1>1, <2>4, MarkStoppedJobs DEF Ended
  <2>5. CASE plan.jobs[j].status \in FinalJob
    BY <2>1, <2>5, MarkStoppedJobs DEF FinalJob
  <2>. QED
    BY <2>2, <2>3, <2>4, <2>5
<1>2. ASSUME ~Has(plan, Cut), NEW j \in Jobs, MarkStopped(plan).jobs[j].status \in Ended
      PROVE  plan.jobs[j].status \in Ended
  <2>1. plan.jobs[j].status \in {"waiting"} \cup Cut \cup FinalJob /\ plan.jobs[j].status \notin Cut
    BY <1>2, JobTyped DEF Has
  <2>2. CASE plan.jobs[j].status = "waiting"
    BY <1>2, <2>2, MarkStoppedJobs DEF Ended
  <2>3. CASE plan.jobs[j].status \in FinalJob
    BY <1>2, <2>3, MarkStoppedJobs
  <2>. QED
    BY <2>1, <2>2, <2>3
<1>. QED
  BY <1>1, <1>2 DEF CutClean, Agrees

LEMMA StopMarks ==
  ASSUME NEW r \in Contents, Orderly(r), NEW old, RunOK(old), old.plan \in Contents,
         NEW s, s.plan \in Contents, NEW a, NEW l, NEW w, NEW rec,
         Kept(r, old, s, a, l, w, rec), s.pc = "mark", NEW v, ~v,
         NEW new, new.pc = "save", new.plan = MarkStopped(IF Loaded(old) THEN old.plan ELSE s.plan),
         NEW e, e.pc = old.pc, e.saving = old.saving, e.stopped \/ ~Loaded(e),
         old.pc = "off" => e = old
  PROVE  Kept(r, e, new, a, l, v, rec)
<1>1. Loaded(e) <=> Loaded(old)
  BY DEF Loaded
<1>2. r.status # "none"
  BY OffFacts DEF Kept, Places
<1>3. InOrder(r) /\ InOrder(old.plan)
  BY DEF Orderly, RunOK
<1>4. new.plan.status = "stopped"
  BY MarkStoppedType
<1>5. Places(r, e, new, a, l, v, rec)
  BY <1>2, <1>4, OffFacts DEF Kept, Places
<1>6. ASSUME r.status \in Open PROVE Held(r, e, new, a, l, v, rec)
  BY <1>1, <1>6 DEF Kept, Held, Startable
<1>7. ASSUME r.status \in Open PROVE Stopping(r, e, new, a, l, v, rec)
  <2>1. CASE Loaded(old)
    <3>1. ~old.stopped /\ Ahead(r, old)
      BY <1>7, <2>1 DEF Kept, Held
    <3>2. Behind(r, old.plan) /\ (old.saving # Blank => Behind(old.saving, old.plan))
      BY <1>7, <3>1, AheadBehind DEF Kept, Held, Ahead, Behind
    <3>3. CutClean(r, new.plan) /\ (old.saving # Blank => CutClean(old.saving, new.plan))
      BY <1>3, <2>1, <3>2, StoppedClean
    <3>4. ~Startable(e, a, l, v) /\ rec \notin {"none", "missed"}
      BY <2>1, OffFacts DEF Kept, Places, Loaded, Startable
    <3>. QED
      BY <1>1, <2>1, <3>3, <3>4 DEF Stopping
  <2>2. CASE ~Loaded(old)
    <3>1. s.plan = r /\ Behind(r, r)
      BY <1>7, <2>2 DEF Kept, Held, Behind
    <3>2. CutClean(r, new.plan) /\ (~Has(r, Cut) => Agrees(new.plan, r))
      BY <1>3, <2>2, <3>1, StoppedClean
    <3>3. e.saving = Blank
      BY <2>2, OffFacts DEF Kept, Places, Loaded
    <3>. QED
      BY <1>1, <2>2, <3>2, <3>3 DEF Stopping
  <2>. QED
    BY <2>1, <2>2
<1>. QED
  BY <1>5, <1>6, <1>7 DEF Kept

LEMMA StopSaves ==
  ASSUME NEW r, NEW e, NEW s, NEW a, NEW l, NEW w, NEW rec, Kept(r, e, s, a, l, w, rec),
         s.pc = "save",
         NEW t, NEW now, Turned(r, e, t, now)
  PROVE  Kept(Written(r, s.plan), e, NoStop, a, l, w, rec) /\ Turned(Written(r, s.plan), e, t, now)
<1>1. CASE r.status \in Open
  <2>1. Written(r, s.plan) = s.plan /\ s.plan.status = "stopped"
    BY <1>1 DEF Written, Kept, Places
  <2>2. Kept(s.plan, e, NoStop, a, l, w, rec)
    BY <1>1, <2>1, OffFacts DEF Kept, Places, Open
  <2>3. Turned(s.plan, e, t, now)
    BY <2>1 DEF Turned, FinalPlan
  <2>. QED
    BY <2>1, <2>2, <2>3
<1>2. CASE r.status \notin Open
  BY <1>2, OffFacts DEF Written, Kept, Places
<1>. QED
  BY <1>1, <1>2

LEMMA PlanInserted ==
  ASSUME NEW r, NEW e, NEW s, NEW l, NEW w, NEW rec, Kept(r, e, s, "counted", l, w, rec),
         NEW t, NEW now, Turned(r, e, t, now),
         NEW new, new.status = "queued", \A j \in Jobs : new.jobs[j].status = "waiting"
  PROVE  Kept(new, e, s, "inserted", l, w, rec) /\ Turned(new, e, t, now)
<1>1. /\ r.status = "none" /\ e = Off /\ ~w /\ l = Blank /\ s = NoStop
         /\ rec \notin {"none", "running", "missed"}
  BY DEF Kept, Places
<1>2. Places(new, e, s, "inserted", l, w, rec)
  BY <1>1, OffFacts DEF Kept, Places
<1>3. Held(new, e, s, "inserted", l, w, rec) /\ Stopping(new, e, s, "inserted", l, w, rec)
  BY <1>1, OffFacts DEF Held, Stopping, Startable, Loaded, Has, Cut
<1>4. Turned(new, e, t, now)
  BY <1>1, OffFacts DEF Turned, Loaded, FinalPlan
<1>. QED
  BY <1>2, <1>3, <1>4 DEF Kept

LEMMA RecoverListed ==
  ASSUME NEW r, NEW e, NEW s, NEW a, NEW l, NEW w, NEW rec, Kept(r, e, s, a, l, w, rec),
         rec \in {"none", "missed"}, NEW m, m = IF r.status \in Open THEN r ELSE Blank
  PROVE  Kept(r, e, s, a, m, w, "running")
<1>1. e = Off /\ ~w /\ l = Blank /\ a \in {"no", "answered"}
  BY DEF Kept, Places
<1>2. Places(r, e, s, a, m, w, "running")
  BY <1>1, OffFacts DEF Kept, Places, Open
<1>3. ASSUME r.status \in Open PROVE Held(r, e, s, a, m, w, "running")
             /\ Stopping(r, e, s, a, m, w, "running")
  <2>1. m # Blank
    BY <1>3, OffFacts DEF Open
  <2>. QED
    BY <1>1, <1>3, <2>1, OffFacts DEF Kept, Held, Stopping, Startable, Loaded
<1>. QED
  BY <1>2, <1>3 DEF Kept

\* An open row beyond the limit stays as the restart left it.
LEMMA RecoverMissed ==
  ASSUME NEW r, NEW e, NEW s, NEW a, NEW l, NEW w, NEW rec, Kept(r, e, s, a, l, w, rec),
         rec \in {"none", "missed"}, r.status \in Open
  PROVE  Kept(r, e, s, a, Blank, w, "missed")
<1>1. e = Off /\ ~w /\ l = Blank /\ a = "answered"
  BY DEF Kept, Places, Open
<1>. QED
  BY <1>1 DEF Kept, Places, Held, Stopping

LEMMA RecoverEnds ==
  ASSUME NEW r, NEW e, NEW s, NEW a, NEW w, Kept(r, e, s, a, Blank, w, "running")
  PROVE  Kept(r, e, s, a, Blank, w, "done")
BY DEF Kept, Places, Held, Stopping

\* A row that recover finds cut off is stuck from then on.
LEMMA RecoverSticks ==
  ASSUME NEW r, NEW e, NEW s, NEW a, NEW l, NEW w, NEW rec, Kept(r, e, s, a, l, w, rec), l # Blank,
         NEW t, NEW now, Turned(r, e, t, now), NEW new, new.status = "stuck"
  PROVE  Kept(Written(r, new), e, s, a, Blank, w, rec) /\ Turned(Written(r, new), e, t, now)
<1>1. CASE r.status \in Open
  <2>1. Kept(new, e, s, a, Blank, w, rec)
    BY <1>1 DEF Kept, Places, Open
  <2>2. Turned(new, e, t, now)
    BY DEF Turned, FinalPlan
  <2>. QED
    BY <1>1, <2>1, <2>2 DEF Written
<1>2. CASE r.status \notin Open
  BY <1>2 DEF Written, Kept, Places
<1>. QED
  BY <1>1, <1>2

LEMMA ServerStops ==
  ASSUME NEW r, NEW e, NEW s, NEW a, NEW l, NEW w, NEW rec, Kept(r, e, s, a, l, w, rec),
         NEW t, NEW now, Turned(r, e, t, now), NEW v, ~v, NEW then,
         NEW b, b \in {"no", "answered"}, b = "no" => a \in {"no", "counted"}
  PROVE  Kept(r, Off, NoStop, b, Blank, v, "none") /\ Turned(r, Off, t, then)
<1>1. Places(r, Off, NoStop, b, Blank, v, "none")
  BY OffFacts DEF Kept, Places
<1>2. Held(r, Off, NoStop, b, Blank, v, "none") /\ Stopping(r, Off, NoStop, b, Blank, v, "none")
  BY OffFacts DEF Held, Stopping, Startable, Loaded
<1>3. Turned(r, Off, t, then)
  BY OffFacts DEF Turned, Loaded
<1>. QED
  BY <1>1, <1>2, <1>3 DEF Kept

-----------------------------------------------------------------------------
(* Plans come into the queue and leave it.                                 *)

LEMMA TailOfQueue ==
  ASSUME waiting \in Seq(Plans), waiting # << >>
  PROVE  /\ Head(waiting) = waiting[1] /\ 1 \in DOMAIN waiting /\ Head(waiting) \in Plans
         /\ Tail(waiting) \in Seq(Plans)
         /\ \A i \in DOMAIN Tail(waiting) :
              i \in Nat /\ i + 1 \in DOMAIN waiting /\ i + 1 # 1
                /\ Tail(waiting)[i] = waiting[i + 1]
         /\ \A i \in DOMAIN waiting : i # 1 => i - 1 \in DOMAIN Tail(waiting) /\ (i - 1) + 1 = i
<1>1. Len(waiting) \in Nat \ {0} /\ DOMAIN waiting = 1 .. Len(waiting)
  OBVIOUS
<1>2. Tail(waiting) \in Seq(Plans) /\ DOMAIN Tail(waiting) = 1 .. Len(waiting) - 1
  BY <1>1
<1>3. \A i \in 1 .. Len(waiting) - 1 : Tail(waiting)[i] = waiting[i + 1]
  OBVIOUS
<1>4. Head(waiting) = waiting[1] /\ waiting[1] \in Plans
  BY <1>1
<1>. QED
  BY <1>1, <1>2, <1>3, <1>4

LEMMA RunningNotQueued ==
  ASSUME QueueOK, NEW p, entry[p].pc # "off"
  PROVE  ~InQueue(p)
BY DEF QueueOK, InQueue

LEMMA LeaveMoves ==
  ASSUME waiting \in Seq(Plans), EntriesOK, QueueOK, NEW p \in Plans, entry[p].pc # "off", Leave(p)
  PROVE  /\ QueueOK'
         /\ entry'[p] = Off /\ ~InQueue(p)'
         /\ \A q \in Plans \ {p} :
              \/ entry'[q] = entry[q] /\ (InQueue(q)' <=> InQueue(q))
              \/ entry[q].pc = "off" /\ InQueue(q) /\ entry'[q] = Loading /\ ~InQueue(q)'
<1>1. \A i \in DOMAIN waiting : waiting[i] # p
  BY DEF QueueOK
<1>2. CASE waiting = << >>
  <2>1. entry' = [entry EXCEPT ![p] = Off] /\ waiting' = waiting
    BY <1>2 DEF Leave
  <2>2. entry'[p] = Off /\ \A q \in Plans \ {p} : entry'[q] = entry[q]
    BY <2>1 DEF EntriesOK
  <2>3. \A q : InQueue(q)' <=> InQueue(q)
    BY <2>1 DEF InQueue
  <2>4. QueueOK'
    BY <1>1, <2>1, <2>2 DEF QueueOK
  <2>. QED
    BY <1>1, <2>2, <2>3, <2>4 DEF InQueue
<1>3. CASE waiting # << >>
  <2>0. PICK h \in Plans : h = Head(waiting)
    BY <1>3, TailOfQueue
  <2>1. entry' = [entry EXCEPT ![p] = Off, ![h] = Loading] /\ waiting' = Tail(waiting)
    BY <1>3, <2>0 DEF Leave
  <2>2. /\ h = waiting[1] /\ 1 \in DOMAIN waiting /\ h \in Plans /\ h # p
        /\ \A i \in DOMAIN waiting' : i + 1 \in DOMAIN waiting /\ i + 1 # 1
           /\ waiting'[i] = waiting[i + 1]
        /\ \A i \in DOMAIN waiting : i # 1 => i - 1 \in DOMAIN waiting' /\ (i - 1) + 1 = i
        /\ \A i \in DOMAIN waiting' : i \in Nat
    BY <1>1, <1>3, <2>0, <2>1, TailOfQueue
  <2>3. entry'[p] = Off /\ entry'[h] = Loading /\ \A q \in Plans \ {p, h} : entry'[q] = entry[q]
    BY <2>1, <2>2 DEF EntriesOK
  <2>4. \A i \in DOMAIN waiting' : waiting'[i] \notin {p, h}
    BY <1>1, <2>2 DEF QueueOK
  <2>5. ~InQueue(p)' /\ ~InQueue(h)'
    BY <2>4 DEF InQueue
  <2>9. InQueue(h) /\ entry[h].pc = "off"
    BY <2>2 DEF InQueue, QueueOK
  <2>6. ASSUME NEW q \in Plans \ {p, h} PROVE InQueue(q)' <=> InQueue(q)
    BY <2>2 DEF InQueue
  <2>7. \A i \in DOMAIN waiting' : waiting'[i] \in Plans
    <3>1. waiting' \in Seq(Plans)
      BY <1>3, <2>1, TailOfQueue
    <3>. QED
      BY <3>1
  <2>8. QueueOK'
    <3>1. \A i \in DOMAIN waiting' : entry'[waiting'[i]].pc = "off"
      BY <2>2, <2>3, <2>4, <2>7 DEF QueueOK
    <3>2. \A i, k \in DOMAIN waiting' : waiting'[i] = waiting'[k] => i = k
      BY <2>2 DEF QueueOK
    <3>. QED
      BY <3>1, <3>2 DEF QueueOK
  <2>. QED
    BY <2>3, <2>5, <2>6, <2>8, <2>9
<1>. QED
  BY <1>2, <1>3

LEMMA StartMoves ==
  ASSUME waiting \in Seq(Plans), EntriesOK, QueueOK, NEW p \in Plans, StartPlan(p),
         entry[p] = Off, ~InQueue(p)
  PROVE  /\ QueueOK'
         /\ (entry'[p] = Loading /\ ~InQueue(p)') \/ (entry'[p] = Off /\ InQueue(p)')
         /\ \A q \in Plans \ {p} : entry'[q] = entry[q] /\ (InQueue(q)' <=> InQueue(q))
<1>1. ~IsQueued(p)
  BY OffFacts DEF IsQueued, InQueue, Running
<1>2. CASE entry' = [entry EXCEPT ![p] = Loading] /\ waiting' = waiting
  <2>1. entry'[p] = Loading /\ \A q \in Plans \ {p} : entry'[q] = entry[q]
    BY <1>2 DEF EntriesOK
  <2>2. \A i \in DOMAIN waiting : waiting[i] # p /\ waiting[i] \in Plans
    BY DEF InQueue
  <2>3. QueueOK'
    BY <1>2, <2>1, <2>2 DEF QueueOK
  <2>. QED
    BY <1>2, <2>1, <2>3 DEF InQueue
<1>3. CASE waiting' = Append(waiting, p) /\ entry' = entry
  <2>1. Len(waiting) \in Nat /\ DOMAIN waiting = 1 .. Len(waiting)
    OBVIOUS
  <2>2. /\ DOMAIN waiting' = 1 .. Len(waiting) + 1 /\ waiting'[Len(waiting) + 1] = p
        /\ \A i \in DOMAIN waiting : waiting'[i] = waiting[i]
    BY <1>3
  <2>3. InQueue(p)'
    BY <2>1, <2>2 DEF InQueue
  <2>4. ASSUME NEW q \in Plans \ {p} PROVE InQueue(q)' <=> InQueue(q)
    BY <2>1, <2>2 DEF InQueue
  <2>5. \A i \in DOMAIN waiting' : i = Len(waiting) + 1 \/ i \in DOMAIN waiting
    BY <2>1, <2>2
  <2>6. \A i \in DOMAIN waiting : waiting[i] # p
    BY DEF InQueue
  <2>7. QueueOK'
    BY <1>3, <2>2, <2>5, <2>6, OffFacts DEF QueueOK
  <2>. QED
    BY <1>3, <2>3, <2>4, <2>7
<1>. QED
  BY <1>1, <1>2, <1>3 DEF StartPlan

LEMMA UnqueuedMoves ==
  ASSUME waiting \in Seq(Plans), QueueOK, NEW p \in Plans, waiting' = Unqueued(p),
         \A q \in Plans : entry'[q].pc = entry[q].pc
  PROVE  /\ QueueOK' /\ ~InQueue(p)'
         /\ \A q \in Plans \ {p} : InQueue(q)' <=> InQueue(q)
<1>1. /\ waiting' \in Seq(Plans)
      /\ \A i \in DOMAIN waiting' : \E k \in DOMAIN waiting : waiting'[i] = waiting[k]
      /\ \A i, k \in DOMAIN waiting' : waiting'[i] = waiting'[k] => i = k
      /\ \A i \in DOMAIN waiting' : waiting'[i] # p
      /\ \A k \in DOMAIN waiting : waiting[k] # p => \E i \in DOMAIN waiting' : waiting'[i] = waiting[k]
  BY UnqueuedSeq DEF QueueOK
<1>2. \A i \in DOMAIN waiting' : waiting'[i] \in Plans
  BY <1>1
<1>3. \A i \in DOMAIN waiting' : entry'[waiting'[i]].pc = "off"
  <2>. TAKE i \in DOMAIN waiting'
  <2>1. PICK k \in DOMAIN waiting : waiting'[i] = waiting[k]
    BY <1>1
  <2>2. entry[waiting[k]].pc = "off" /\ waiting[k] \in Plans
    BY <1>2, <2>1 DEF QueueOK
  <2>. QED
    BY <2>1, <2>2
<1>4. ~InQueue(p)' /\ \A q \in Plans \ {p} : InQueue(q)' <=> InQueue(q)
  BY <1>1 DEF InQueue
<1>. QED
  BY <1>1, <1>3, <1>4 DEF QueueOK

\* Nothing but the place of the run changes, or not even that.
LEMMA PlacesStay ==
  ASSUME waiting \in Seq(Plans), QueueOK, UNCHANGED waiting,
         \A q \in Plans : entry[q].pc = "off" => entry'[q].pc = "off"
  PROVE  QueueOK' /\ \A q : InQueue(q)' <=> InQueue(q)
<1>1. \A i \in DOMAIN waiting : waiting[i] \in Plans
  OBVIOUS
<1>. QED
  BY <1>1 DEF QueueOK, InQueue

-----------------------------------------------------------------------------
(* The steps of the server, as long as no read or save fails.              *)

SameElsewhere(q) ==
  /\ row'[q] = row[q] /\ stop'[q] = stop[q] /\ asked'[q] = asked[q] /\ left'[q] = left[q]
  /\ turns'[q] = turns[q] /\ RecoveryOf(q)' = RecoveryOf(q) /\ life' = life

LEMMA Untouched ==
  ASSUME NEW q \in Plans, KeptPlan(q), TurnedPlan(q), SameElsewhere(q),
         entry'[q] = entry[q], InQueue(q)' <=> InQueue(q)
  PROVE  KeptPlan(q)' /\ TurnedPlan(q)'
BY DEF KeptPlan, TurnedPlan, SameElsewhere, Kept, Places, Held, Stopping, Startable

\* The plan that waited longest gets the place of a run that ended.
LEMMA Promoted ==
  ASSUME NEW q \in Plans, KeptPlan(q), TurnedPlan(q), SameElsewhere(q),
         entry[q].pc = "off", InQueue(q), entry'[q] = Loading, ~InQueue(q)'
  PROVE  KeptPlan(q)' /\ TurnedPlan(q)'
<1>1. /\ Kept(row[q], Off, stop[q], asked[q], left[q], InQueue(q), RecoveryOf(q))
      /\ left[q] = Blank /\ asked[q] # "inserted"
  BY DEF KeptPlan, Kept, Places
<1>2. Kept(row[q], Loading, stop[q], asked[q], Blank, InQueue(q)', RecoveryOf(q))
  BY <1>1, PlaceFound
<1>3. Turned(row[q], Loading, turns[q], life)
  BY OffFacts DEF TurnedPlan, Turned, Loaded
<1>. QED
  BY <1>1, <1>2, <1>3 DEF KeptPlan, TurnedPlan, SameElsewhere

LEMMA EndsRunKeeps ==
  ASSUME PlanInv, Faultless, ~Fault, NEW p \in Plans, EndsRun(p), UNCHANGED <<row, others, turns>>
  PROVE  Faultless'
<1>1. waiting \in Seq(Plans) /\ EntriesOK /\ QueueOK /\ KeptPlan(p) /\ TurnedPlan(p)
  BY DEF PlanInv, DoneInv, RestOK, Faultless
<1>2. \A q \in Plans : SameElsewhere(q)
  BY DEF SameElsewhere, others, RecoveryOf
<1>3. \/ entry[p].pc = "loading" /\ row[p].status \notin Open
      \/ entry[p].pc = "end" /\ entry[p].saving = Blank /\ ~entry[p].stopped
      \/ entry[p].pc # "off" /\ entry[p].stopped
  BY <1>1, OffFacts DEF EndsRun, Alive, KeptPlan, Kept, Places
<1>4. /\ QueueOK' /\ entry'[p] = Off /\ ~InQueue(p)'
      /\ \A q \in Plans \ {p} :
              \/ entry'[q] = entry[q] /\ (InQueue(q)' <=> InQueue(q))
              \/ entry[q].pc = "off" /\ InQueue(q) /\ entry'[q] = Loading /\ ~InQueue(q)'
  BY <1>1, <1>3, LeaveMoves DEF EndsRun
<1>5. KeptPlan(p)' /\ TurnedPlan(p)'
  <2>1. Kept(row[p], Off, stop[p], asked[p], left[p], InQueue(p)', RecoveryOf(p))
    BY <1>1, <1>3, <1>4, RunLeaves DEF KeptPlan
  <2>2. Turned(row[p], Off, turns[p], life)
    BY <1>1, OffFacts DEF TurnedPlan, Turned, Loaded
  <2>. QED
    BY <1>2, <1>4, <2>1, <2>2 DEF KeptPlan, TurnedPlan, SameElsewhere
<1>6. ASSUME NEW q \in Plans \ {p} PROVE KeptPlan(q)' /\ TurnedPlan(q)'
  <2>1. KeptPlan(q) /\ TurnedPlan(q)
    BY DEF Faultless
  <2>. QED
    BY <1>2, <1>4, <2>1, Untouched, Promoted
<1>. QED
  BY <1>4, <1>5, <1>6 DEF Faultless, others

\* A step of one run that changes nothing but what it knows and its turns.
LEMMA RunStays ==
  ASSUME PlanInv, Faultless, NEW p \in Plans, NEW e, entry' = [entry EXCEPT ![p] = e],
         entry[p].pc # "off", UNCHANGED <<row, others, waiting>>,
         NEW t, turns' = [turns EXCEPT ![p] = t],
         Kept(row[p], e, stop[p], asked[p], left[p], InQueue(p), RecoveryOf(p)),
         Turned(row[p], e, t, life)
  PROVE  Faultless'
<1>1. waiting \in Seq(Plans) /\ EntriesOK /\ QueueOK
      /\ turns \in [Plans -> [Jobs -> SUBSET (1 .. MaxLives)]]
  BY DEF PlanInv, DoneInv, RestOK, Faultless
<1>2. /\ entry'[p] = e /\ turns'[p] = t
      /\ \A q \in Plans \ {p} : entry'[q] = entry[q] /\ turns'[q] = turns[q]
  BY <1>1 DEF EntriesOK
<1>3. QueueOK' /\ \A q : InQueue(q)' <=> InQueue(q)
  BY <1>1, <1>2, PlacesStay
<1>4. \A q \in Plans \ {p} : SameElsewhere(q)
  BY <1>2 DEF SameElsewhere, others, RecoveryOf
<1>5. ASSUME NEW q \in Plans \ {p} PROVE KeptPlan(q)' /\ TurnedPlan(q)'
  <2>1. KeptPlan(q) /\ TurnedPlan(q)
    BY DEF Faultless
  <2>. QED
    BY <1>2, <1>3, <1>4, <2>1, Untouched
<1>6. KeptPlan(p)' /\ TurnedPlan(p)'
  <2>1. InQueue(p)' <=> InQueue(p)
    BY <1>3
  <2>2. Kept(row'[p], entry'[p], stop'[p], asked'[p], left'[p], InQueue(p)', RecoveryOf(p)')
    BY <1>2, <2>1 DEF others, Kept, Places, Held, Stopping, Startable, RecoveryOf
  <2>3. Turned(row'[p], entry'[p], turns'[p], life')
    BY <1>2 DEF others
  <2>. QED
    BY <2>2, <2>3 DEF KeptPlan, TurnedPlan
<1>. QED
  BY <1>3, <1>5, <1>6 DEF Faultless, others

LEMMA RunStepKeeps ==
  ASSUME PlanInv, Faultless, ~Fault, NEW p \in Plans, RunStep(p)
  PROVE  Faultless'
<1>1. /\ RowsOK /\ EntriesOK /\ RunOK(entry[p]) /\ Orderly(row[p]) /\ row[p] \in Contents
      /\ turns \in [Plans -> [Jobs -> SUBSET (1 .. MaxLives)]] /\ life \in 1 .. MaxLives
      /\ turns = [turns EXCEPT ![p] = turns[p]]
  BY DEF PlanInv, DoneInv, RowsOK, OrderInv, RestOK
<1>2. /\ \/ EndsRun(p) /\ UNCHANGED turns
         \/ UNCHANGED <<waiting, turns>> /\ \E e : LoadsTo(p, e)
         \/ UNCHANGED <<waiting, turns>> /\ \E e : GoesTo(p, e)
         \/ TurnStarts(p) /\ \E e : GoesTo(p, e)
      /\ UNCHANGED <<row, others>>
  BY <1>1, RunSteps
<1>3. /\ Kept(row[p], entry[p], stop[p], asked[p], left[p], InQueue(p), RecoveryOf(p))
      /\ Turned(row[p], entry[p], turns[p], life)
  BY DEF Faultless, KeptPlan, TurnedPlan
<1>4. CASE EndsRun(p) /\ UNCHANGED turns
  BY <1>2, <1>4, EndsRunKeeps
<1>5. ASSUME UNCHANGED <<waiting, turns>>, NEW e, LoadsTo(p, e) PROVE Faultless'
  <2>1. Kept(row[p], e, stop[p], asked[p], left[p], InQueue(p), RecoveryOf(p))
        /\ Turned(row[p], e, turns[p], life)
    BY <1>3, <1>5, RunLoads DEF LoadsTo
  <2>2. entry' = [entry EXCEPT ![p] = e] /\ entry[p].pc # "off"
        /\ turns' = [turns EXCEPT ![p] = turns[p]]
    BY <1>1, <1>5 DEF LoadsTo
  <2>. QED
    BY <1>2, <1>5, <2>1, <2>2, RunStays
<1>6. ASSUME NEW e, GoesTo(p, e)
      PROVE  /\ Kept(row[p], e, stop[p], asked[p], left[p], InQueue(p), RecoveryOf(p))
             /\ Turned(row[p], e, turns[p], life)
             /\ entry' = [entry EXCEPT ![p] = e] /\ entry[p].pc # "off"
  BY <1>3, <1>6, RunGoes DEF GoesTo, Steps, Loaded
<1>7. ASSUME UNCHANGED <<waiting, turns>>, NEW e, GoesTo(p, e) PROVE Faultless'
  <2>1. turns' = [turns EXCEPT ![p] = turns[p]]
    BY <1>1, <1>7
  <2>. QED
    BY <1>2, <1>6, <1>7, <2>1, RunStays
<1>8. ASSUME TurnStarts(p), NEW e, GoesTo(p, e) PROVE Faultless'
  <2>. DEFINE t == [turns[p] EXCEPT ![Job(p)] = @ \cup {life}]
  <2>1. /\ Kept(row[p], e, stop[p], asked[p], left[p], InQueue(p), RecoveryOf(p))
        /\ Turned(row[p], e, turns[p], life)
        /\ entry' = [entry EXCEPT ![p] = e] /\ entry[p].pc # "off"
    BY <1>6, <1>8
  <2>2. e.pc = "turn"
    <3>1. entry' = [entry EXCEPT ![p].pc = "turn"] /\ entry'[p] = e
      BY <1>1, <1>8, <2>1 DEF TurnStarts, EntriesOK
    <3>2. entry'[p] = [entry[p] EXCEPT !.pc = "turn"]
      BY <1>1, <3>1 DEF EntriesOK
    <3>. QED
      BY <1>1, <3>1, <3>2, EntryFacts
  <2>3. e.plan = entry[p].plan /\ e.saving = Blank /\ ~e.stopped
    BY <1>8, <2>2 DEF GoesTo, Steps
  <2>4. Job(p) \in Jobs /\ e.plan.jobs[Job(p)].status \in Cut
    BY <1>1, <1>8, <2>3, AtWorkFacts DEF TurnStarts, AtWork
  <2>5. turns[p] \in [Jobs -> SUBSET (1 .. MaxLives)]
    BY <1>1
  <2>6. Turned(row[p], e, t, life)
    BY <1>1, <2>1, <2>2, <2>3, <2>4, <2>5, TurnCounts
  <2>7. turns' = [turns EXCEPT ![p] = t] /\ UNCHANGED waiting
    BY <1>1, <1>8 DEF TurnStarts
  <2>. HIDE DEF t
  <2>. QED
    BY <1>2, <2>1, <2>6, <2>7, RunStays
<1>. QED
  BY <1>2, <1>4, <1>5, <1>7, <1>8

\* A step about one plan only.
LEMMA OnePlanChanges ==
  ASSUME Faultless, NEW p \in Plans, QueueOK', UNCHANGED <<recovery, missed, life>>,
         \A q \in Plans \ {p} : /\ row'[q] = row[q] /\ stop'[q] = stop[q] /\ asked'[q] = asked[q]
                                /\ left'[q] = left[q] /\ turns'[q] = turns[q]
                                   /\ entry'[q] = entry[q]
                                /\ InQueue(q)' <=> InQueue(q),
         KeptPlan(p)' /\ TurnedPlan(p)'
  PROVE  Faultless'
<1>1. ASSUME NEW q \in Plans \ {p} PROVE KeptPlan(q)' /\ TurnedPlan(q)'
  <2>1. KeptPlan(q) /\ TurnedPlan(q) /\ SameElsewhere(q)
    BY DEF Faultless, SameElsewhere, RecoveryOf
  <2>. QED
    BY <2>1, Untouched
<1>. QED
  BY <1>1 DEF Faultless

LEMMA PlanFacts ==
  ASSUME PlanInv, Faultless, NEW p \in Plans
  PROVE  /\ waiting \in Seq(Plans) /\ QueueOK /\ EntriesOK /\ DOMAIN entry = Plans
         /\ row = [q \in Plans |-> row[q]] /\ row[p] \in Contents /\ Orderly(row[p])
         /\ stop = [q \in Plans |-> stop[q]] /\ stop[p].plan \in Contents
         /\ left = [q \in Plans |-> left[q]] /\ left[p] \in Contents /\ Orderly(left[p])
         /\ asked = [q \in Plans |-> asked[q]]
         /\ entry[p].plan \in Contents /\ RunOK(entry[p])
         /\ Kept(row[p], entry[p], stop[p], asked[p], left[p], InQueue(p), RecoveryOf(p))
         /\ Turned(row[p], entry[p], turns[p], life)
<1>1. waiting \in Seq(Plans) /\ QueueOK /\ EntriesOK /\ entry[p].plan \in Contents
      /\ DOMAIN entry = Plans
  BY EntryFacts DEF PlanInv, DoneInv, RestOK, Faultless, EntriesOK
<1>2. /\ row = [q \in Plans |-> row[q]] /\ row[p] \in Contents /\ Orderly(row[p])
      /\ stop = [q \in Plans |-> stop[q]] /\ stop[p].plan \in Contents
      /\ left = [q \in Plans |-> left[q]] /\ left[p] \in Contents /\ Orderly(left[p])
      /\ asked = [q \in Plans |-> asked[q]] /\ RunOK(entry[p])
  BY DEF PlanInv, DoneInv, RowsOK, StopsOK, StopOK, LeftOK, OrderInv, RestOK
<1>. QED
  BY <1>1, <1>2 DEF Faultless, KeptPlan, TurnedPlan

LEMMA SavedIsWritten ==
  ASSUME row = [q \in Plans |-> row[q]], NEW p \in Plans, NEW plan, SaveRow(p, plan)
  PROVE  row'[p] = Written(row[p], plan) /\ \A q \in Plans \ {p} : row'[q] = row[q]
BY DEF SaveRow, Written

LEMMA SaveSettlesKeeps ==
  ASSUME PlanInv, Faultless, ~Fault, NEW p \in Plans, SaveSettles(p)
  PROVE  Faultless'
<1>. DEFINE e == [entry[p] EXCEPT !.saving = Blank]
<1>1. SaveRow(p, entry[p].saving) /\ entry[p].saving # Blank /\ UNCHANGED <<others, waiting, turns>>
  BY DEF SaveSettles, SaveOrFail
<1>2. entry' = [entry EXCEPT ![p] = e]
  BY PlanFacts DEF SaveSettles, EntriesOK
<1>3. e.plan = entry[p].plan /\ e.saving = Blank /\ e.pc = entry[p].pc
      /\ e.stopped = entry[p].stopped
  BY EntryFacts DEF PlanInv, DoneInv
<1>. HIDE DEF e
<1>4. row'[p] = Written(row[p], entry[p].saving) /\ \A q \in Plans \ {p} : row'[q] = row[q]
  BY <1>1, PlanFacts, SavedIsWritten
<1>5. entry'[p] = e /\ \A q \in Plans \ {p} : entry'[q] = entry[q]
  BY <1>2, PlanFacts
<1>6. QueueOK' /\ \A q : InQueue(q)' <=> InQueue(q)
  BY <1>1, <1>3, <1>5, PlanFacts, PlacesStay
<1>7. /\ Kept(row'[p], e, stop[p], asked[p], left[p], InQueue(p), RecoveryOf(p))
      /\ Turned(row'[p], e, turns[p], life)
  BY <1>1, <1>3, <1>4, PlanFacts, RunSaves
<1>8. KeptPlan(p)' /\ TurnedPlan(p)'
  <2>1. InQueue(p)' <=> InQueue(p)
    BY <1>6
  <2>2. Kept(row'[p], entry'[p], stop'[p], asked'[p], left'[p], InQueue(p)', RecoveryOf(p)')
    BY <1>1, <1>5, <1>7, <2>1 DEF others, Kept, Places, Held, Stopping, Startable, RecoveryOf
  <2>. QED
    BY <1>1, <1>5, <1>7, <2>2 DEF KeptPlan, TurnedPlan, others
<1>. QED
  BY <1>1, <1>4, <1>5, <1>6, <1>8, OnePlanChanges DEF others

LEMMA StopReadKeeps ==
  ASSUME PlanInv, Faultless, NEW p \in Plans, StopRead(p)
  PROVE  Faultless'
<1>1. stop' = [stop EXCEPT ![p] = [pc |-> "mark", plan |-> row[p]]] /\ stop[p] = NoStop
      /\ row[p].status \in Open
      /\ UNCHANGED <<row, entry, waiting, asked, recovery, left, missed, life, faults, turns>>
  BY DEF StopRead
<1>2. stop'[p].pc = "mark" /\ stop'[p].plan = row[p] /\ \A q \in Plans \ {p} : stop'[q] = stop[q]
  BY <1>1, PlanFacts
<1>3. QueueOK' /\ \A q : InQueue(q)' <=> InQueue(q)
  BY <1>1, PlanFacts, PlacesStay
<1>4. Kept(row[p], entry[p], stop'[p], asked[p], left[p], InQueue(p), RecoveryOf(p))
  BY <1>1, <1>2, PlanFacts, StopReads
<1>5. KeptPlan(p)' /\ TurnedPlan(p)'
  <2>1. InQueue(p)' <=> InQueue(p)
    BY <1>3
  <2>2. Kept(row'[p], entry'[p], stop'[p], asked'[p], left'[p], InQueue(p)', RecoveryOf(p)')
    BY <1>1, <1>4, <2>1 DEF Kept, Places, Held, Stopping, Startable, RecoveryOf
  <2>. QED
    BY <1>1, <2>2, PlanFacts DEF KeptPlan, TurnedPlan
<1>. QED
  BY <1>1, <1>2, <1>3, <1>5, OnePlanChanges

LEMMA StopMarkKeeps ==
  ASSUME PlanInv, Faultless, NEW p \in Plans, StopMark(p)
  PROVE  Faultless'
<1>. DEFINE plan == MarkStopped(IF Loaded(entry[p]) THEN Plan(p) ELSE stop[p].plan)
            new == [pc |-> "save", plan |-> plan]
            e == [entry[p] EXCEPT !.stopped = TRUE, !.plan = IF Loaded(entry[p]) THEN plan ELSE @]
<1>1. /\ stop[p].pc = "mark" /\ waiting' = Unqueued(p)
      /\ stop' = [stop EXCEPT ![p] = new]
      /\ IF entry[p].pc = "off" THEN UNCHANGED entry ELSE entry' = [entry EXCEPT ![p] = e]
      /\ UNCHANGED <<row, asked, recovery, left, missed, life, faults, turns>>
  BY PlanFacts DEF StopMark, Loaded, Running
<1>2. e.pc = entry[p].pc /\ e.saving = entry[p].saving /\ e.stopped
  BY EntryFacts DEF PlanInv, DoneInv
<1>3. new.pc = "save"
      /\ new.plan = MarkStopped(IF Loaded(entry[p]) THEN entry[p].plan ELSE stop[p].plan)
  BY DEF Plan
<1>. HIDE DEF e, new, plan
<1>4. stop'[p] = new /\ \A q \in Plans \ {p} : stop'[q] = stop[q]
  BY <1>1, PlanFacts
<1>5. /\ entry'[p].pc = entry[p].pc /\ entry'[p].saving = entry[p].saving
      /\ entry'[p].stopped \/ ~Loaded(entry'[p])
      /\ entry[p].pc = "off" => entry'[p] = entry[p]
      /\ Turned(row[p], entry'[p], turns[p], life)
      /\ \A q \in Plans \ {p} : entry'[q] = entry[q]
  <2>1. CASE entry[p].pc = "off"
    BY <1>1, <2>1, PlanFacts DEF Loaded
  <2>2. CASE entry[p].pc # "off"
    <3>1. entry'[p] = e /\ \A q \in Plans \ {p} : entry'[q] = entry[q]
      BY <1>1, <2>2, PlanFacts
    <3>2. Turned(row[p], e, turns[p], life)
      BY <1>2, PlanFacts DEF Turned
    <3>. QED
      BY <1>2, <2>2, <3>1, <3>2
  <2>. QED
    BY <2>1, <2>2
<1>6. /\ QueueOK' /\ ~InQueue(p)'
      /\ \A q \in Plans \ {p} : InQueue(q)' <=> InQueue(q)
  <2>1. \A q \in Plans : entry'[q].pc = entry[q].pc
    BY <1>5
  <2>. QED
    BY <1>1, <2>1, PlanFacts, UnqueuedMoves
<1>7. Kept(row[p], entry'[p], new, asked[p], left[p], InQueue(p)', RecoveryOf(p))
  <2>1. /\ row[p] \in Contents /\ Orderly(row[p]) /\ RunOK(entry[p]) /\ entry[p].plan \in Contents
        /\ stop[p].plan \in Contents
        /\ Kept(row[p], entry[p], stop[p], asked[p], left[p], InQueue(p), RecoveryOf(p))
    BY PlanFacts
  <2>. QED
    BY <1>1, <1>3, <1>5, <1>6, <2>1, StopMarks
<1>8. KeptPlan(p)' /\ TurnedPlan(p)'
  <2>1. RecoveryOf(p)' = RecoveryOf(p)
    BY <1>1 DEF RecoveryOf
  <2>. QED
    BY <1>1, <1>4, <1>5, <1>7, <2>1 DEF KeptPlan, TurnedPlan
<1>. QED
  BY <1>1, <1>4, <1>5, <1>6, <1>8, OnePlanChanges

LEMMA StopSaveKeeps ==
  ASSUME PlanInv, Faultless, ~Fault, NEW p \in Plans, StopSave(p)
  PROVE  Faultless'
<1>1. /\ stop[p].pc = "save" /\ SaveRow(p, stop[p].plan) /\ stop' = [stop EXCEPT ![p] = NoStop]
      /\ UNCHANGED <<entry, waiting, asked, recovery, left, missed, life, turns>>
  BY DEF StopSave, SaveOrFail
<1>2. stop'[p] = NoStop /\ \A q \in Plans \ {p} : stop'[q] = stop[q]
  BY <1>1, PlanFacts
<1>3. row'[p] = Written(row[p], stop[p].plan) /\ \A q \in Plans \ {p} : row'[q] = row[q]
  BY <1>1, PlanFacts, SavedIsWritten
<1>4. QueueOK' /\ \A q : InQueue(q)' <=> InQueue(q)
  BY <1>1, PlanFacts, PlacesStay
<1>5. /\ Kept(row'[p], entry[p], NoStop, asked[p], left[p], InQueue(p), RecoveryOf(p))
      /\ Turned(row'[p], entry[p], turns[p], life)
  BY <1>1, <1>3, PlanFacts, StopSaves
<1>6. KeptPlan(p)' /\ TurnedPlan(p)'
  <2>1. InQueue(p)' <=> InQueue(p)
    BY <1>4
  <2>2. Kept(row'[p], entry'[p], stop'[p], asked'[p], left'[p], InQueue(p)', RecoveryOf(p)')
    BY <1>1, <1>2, <1>5, <2>1 DEF Kept, Places, Held, Stopping, Startable, RecoveryOf
  <2>. QED
    BY <1>1, <1>5, <2>2 DEF KeptPlan, TurnedPlan
<1>. QED
  BY <1>1, <1>2, <1>3, <1>4, <1>6, OnePlanChanges

LEMMA AskCountKeeps ==
  ASSUME PlanInv, Faultless, NEW p \in Plans, AskCount(p)
  PROVE  Faultless'
<1>1. /\ asked[p] = "no" /\ recovery = "done" /\ asked' = [asked EXCEPT ![p] = "counted"]
      /\ UNCHANGED <<row, entry, waiting, stop, recovery, left, missed, life, faults, turns>>
  BY DEF AskCount, Faultless
<1>2. asked'[p] = "counted" /\ \A q \in Plans \ {p} : asked'[q] = asked[q]
  BY <1>1, PlanFacts
<1>3. QueueOK' /\ \A q : InQueue(q)' <=> InQueue(q)
  BY <1>1, PlanFacts, PlacesStay
<1>4. KeptPlan(p)' /\ TurnedPlan(p)'
  <2>1. InQueue(p)' <=> InQueue(p)
    BY <1>3
  <2>2. Kept(row'[p], entry'[p], stop'[p], asked'[p], left'[p], InQueue(p)', RecoveryOf(p)')
    BY <1>1, <1>2, <2>1, PlanFacts DEF Kept, Places, Held, Stopping, Startable, RecoveryOf
  <2>. QED
    BY <1>1, <2>2, PlanFacts DEF KeptPlan, TurnedPlan
<1>. QED
  BY <1>1, <1>2, <1>3, <1>4, OnePlanChanges

LEMMA InsertKeeps ==
  ASSUME PlanInv, Faultless, NEW p \in Plans, Insert(p)
  PROVE  Faultless'
<1>1. /\ asked[p] = "counted" /\ asked' = [asked EXCEPT ![p] = "inserted"]
      /\ UNCHANGED <<entry, waiting, stop, recovery, left, missed, life, faults, turns>>
  BY DEF Insert
<1>2. PICK new : /\ row' = [row EXCEPT ![p] = new] /\ new.status = "queued"
                 /\ \A j \in Jobs : new.jobs[j].status = "waiting"
  <2>1. PICK lists \in [Jobs -> Checklists] :
          row' = [row EXCEPT ![p] = [status |-> "queued", jobs |-> [j \in Jobs |->
            [status |-> "waiting",
             list |-> [k \in Kinds |-> IF k \in lists[j] THEN "open" ELSE "none"]]]]]
    BY DEF Insert
  <2>. DEFINE made == [status |-> "queued", jobs |-> [j \in Jobs |->
                [status |-> "waiting",
                 list |-> [k \in Kinds |-> IF k \in lists[j] THEN "open" ELSE "none"]]]]
  <2>2. made.status = "queued" /\ \A j \in Jobs : made.jobs[j].status = "waiting"
    OBVIOUS
  <2>. QED
    BY <2>1, <2>2
<1>3. /\ asked'[p] = "inserted" /\ row'[p] = new
      /\ \A q \in Plans \ {p} : asked'[q] = asked[q] /\ row'[q] = row[q]
  BY <1>1, <1>2, PlanFacts
<1>4. QueueOK' /\ \A q : InQueue(q)' <=> InQueue(q)
  BY <1>1, PlanFacts, PlacesStay
<1>5. /\ Kept(new, entry[p], stop[p], "inserted", left[p], InQueue(p), RecoveryOf(p))
      /\ Turned(new, entry[p], turns[p], life)
  BY <1>1, <1>2, PlanFacts, PlanInserted
<1>6. KeptPlan(p)' /\ TurnedPlan(p)'
  <2>1. InQueue(p)' <=> InQueue(p)
    BY <1>4
  <2>2. Kept(row'[p], entry'[p], stop'[p], asked'[p], left'[p], InQueue(p)', RecoveryOf(p)')
    BY <1>1, <1>3, <1>5, <2>1 DEF Kept, Places, Held, Stopping, Startable, RecoveryOf
  <2>. QED
    BY <1>1, <1>3, <1>5, <2>2 DEF KeptPlan, TurnedPlan
<1>. QED
  BY <1>1, <1>3, <1>4, <1>6, OnePlanChanges

\* handOff starts the plan it has inserted, recover one that is between jobs.
LEMMA StartKeeps ==
  ASSUME PlanInv, Faultless, NEW p \in Plans, StartPlan(p),
         asked[p] = "inserted" \/ left[p] # Blank, left[p] # Blank => ~Has(left[p], Cut),
         NEW b, asked' = [asked EXCEPT ![p] = b], b = IF asked[p] = "inserted" THEN "answered" ELSE asked[p],
         left' = [left EXCEPT ![p] = Blank],
         UNCHANGED <<row, stop, recovery, missed, life, turns>>
  PROVE  Faultless'
<1>1. Kept(row[p], entry[p], stop[p], asked[p], left[p], InQueue(p), RecoveryOf(p))
  BY PlanFacts
<1>2. entry[p] = Off /\ ~InQueue(p)
  BY <1>1 DEF Kept, Places
<1>3. /\ QueueOK'
      /\ (entry'[p] = Loading /\ ~InQueue(p)') \/ (entry'[p] = Off /\ InQueue(p)')
      /\ \A q \in Plans \ {p} : entry'[q] = entry[q] /\ (InQueue(q)' <=> InQueue(q))
  BY <1>2, PlanFacts, StartMoves
<1>4. /\ asked'[p] = b /\ left'[p] = Blank
      /\ \A q \in Plans \ {p} : asked'[q] = asked[q] /\ left'[q] = left[q]
  BY PlanFacts
<1>5. Kept(row[p], entry'[p], stop[p], b, Blank, InQueue(p)', RecoveryOf(p))
  <2>1. Kept(row[p], Off, stop[p], asked[p], left[p], InQueue(p), RecoveryOf(p))
    BY <1>1, <1>2
  <2>2. (b = asked[p] \/ (asked[p] = "inserted" /\ b = "answered")) /\ b # "inserted"
    OBVIOUS
  <2>. QED
    BY <1>3, <2>1, <2>2, PlaceFound
<1>6. Turned(row[p], entry'[p], turns[p], life)
  BY <1>3, PlanFacts, OffFacts DEF Turned, Loaded
<1>7. KeptPlan(p)' /\ TurnedPlan(p)'
  <2>1. RecoveryOf(p)' = RecoveryOf(p)
    BY DEF RecoveryOf
  <2>. QED
    BY <1>4, <1>5, <1>6, <2>1 DEF KeptPlan, TurnedPlan
<1>. QED
  BY <1>3, <1>4, <1>7, OnePlanChanges

LEMMA RecoverPlanKeeps ==
  ASSUME PlanInv, Faultless, NEW p \in Plans, RecoverPlan(p)
  PROVE  Faultless'
<1>. DEFINE cut == {j \in Jobs : left[p].jobs[j].status \in {"working", "checking"}}
<1>1. /\ left[p] # Blank /\ left' = [left EXCEPT ![p] = Blank]
      /\ UNCHANGED <<stop, asked, recovery, missed, life, faults, turns>>
  BY DEF RecoverPlan
<1>2. /\ entry[p] = Off /\ ~InQueue(p) /\ asked[p] # "inserted"
  BY <1>1, PlanFacts DEF Kept, Places
<1>3. ~IsQueued(p)
  BY <1>2, OffFacts DEF IsQueued, InQueue, Running
<1>4. CASE cut = {}
  <2>1. ~Has(left[p], Cut)
    BY <1>4 DEF Has, Cut
  <2>2. StartPlan(p) /\ UNCHANGED row
    BY <1>4 DEF RecoverPlan
  <2>3. asked' = [asked EXCEPT ![p] = asked[p]]
    BY <1>1, PlanFacts
  <2>. QED
    BY <1>1, <1>2, <2>1, <2>2, <2>3, StartKeeps
<1>5. CASE cut # {}
  <2>1. SaveRow(p, StickJob(left[p], cut)) /\ UNCHANGED <<entry, waiting>>
    BY <1>3, <1>5 DEF RecoverPlan
  <2>2. StickJob(left[p], cut).status = "stuck"
    BY PlanFacts, StickJobType
  <2>3. /\ row'[p] = Written(row[p], StickJob(left[p], cut))
        /\ \A q \in Plans \ {p} : row'[q] = row[q]
    BY <2>1, PlanFacts, SavedIsWritten
  <2>4. left'[p] = Blank /\ \A q \in Plans \ {p} : left'[q] = left[q]
    BY <1>1, PlanFacts
  <2>5. QueueOK' /\ \A q : InQueue(q)' <=> InQueue(q)
    BY <2>1, PlanFacts, PlacesStay
  <2>. HIDE DEF cut
  <2>6. /\ Kept(row'[p], entry[p], stop[p], asked[p], Blank, InQueue(p), RecoveryOf(p))
        /\ Turned(row'[p], entry[p], turns[p], life)
    BY <1>1, <2>2, <2>3, PlanFacts, RecoverSticks
  <2>7. KeptPlan(p)' /\ TurnedPlan(p)'
    <3>1. InQueue(p)' <=> InQueue(p)
      BY <2>5
    <3>2. stop'[p] = stop[p] /\ asked'[p] = asked[p] /\ entry'[p] = entry[p]
          /\ RecoveryOf(p)' = RecoveryOf(p)
      BY <1>1, <2>1 DEF RecoveryOf
    <3>3. Kept(row'[p], entry'[p], stop'[p], asked'[p], left'[p], InQueue(p)', RecoveryOf(p)')
      BY <2>4, <2>6, <3>1, <3>2 DEF Kept, Places, Held, Stopping, Startable
    <3>. QED
      BY <1>1, <2>1, <2>6, <3>3 DEF KeptPlan, TurnedPlan
  <2>. QED
    BY <1>1, <2>1, <2>3, <2>4, <2>5, <2>7, OnePlanChanges
<1>. QED
  BY <1>4, <1>5

LEMMA RecoverListKeeps == ASSUME PlanInv, Faultless, RecoverList PROVE Faultless'
<1>1. PICK S \in Listings :
        /\ left' = [p \in Plans |-> IF p \in S THEN row[p] ELSE Blank]
        /\ missed' = Unfinished \ S
  BY Zenon DEF RecoverList
<1>2. /\ recovery = "none" /\ recovery' = "running"
      /\ UNCHANGED <<row, entry, waiting, stop, asked, life, faults, turns>>
  BY DEF RecoverList, Faultless
<1>3. waiting \in Seq(Plans) /\ QueueOK
  BY DEF PlanInv, RestOK, Faultless
<1>4. QueueOK' /\ \A q : InQueue(q)' <=> InQueue(q)
  BY <1>2, <1>3, PlacesStay
<1>5. S \subseteq Unfinished
  BY DEF Listings
<1>6. ASSUME NEW p \in Plans PROVE KeptPlan(p)' /\ TurnedPlan(p)'
  <2>1. /\ Kept(row[p], entry[p], stop[p], asked[p], left[p], InQueue(p), RecoveryOf(p))
        /\ RecoveryOf(p) \in {"none", "missed"}
    BY <1>2, PlanFacts DEF RecoveryOf
  <2>4. Kept(row[p], entry[p], stop[p], asked[p], left'[p], InQueue(p), RecoveryOf(p)')
    <3>1. p \notin missed' => RecoveryOf(p)' = "running"
                             /\ left'[p] = IF row[p].status \in Open THEN row[p] ELSE Blank
      BY <1>1, <1>2, <1>5 DEF RecoveryOf, Unfinished
    <3>2. p \in missed' => RecoveryOf(p)' = "missed" /\ left'[p] = Blank /\ row[p].status \in Open
      BY <1>1 DEF RecoveryOf, Unfinished
    <3>. QED
      BY <2>1, <3>1, <3>2, RecoverListed, RecoverMissed
  <2>5. InQueue(p)' <=> InQueue(p)
    BY <1>4
  <2>6. Kept(row'[p], entry'[p], stop'[p], asked'[p], left'[p], InQueue(p)', RecoveryOf(p)')
    BY <1>2, <2>4, <2>5 DEF Kept, Places, Held, Stopping, Startable
  <2>. QED
    BY <1>2, <2>6, PlanFacts DEF KeptPlan, TurnedPlan
<1>. QED
  BY <1>2, <1>4, <1>6 DEF Faultless

LEMMA RecoverDoneKeeps == ASSUME PlanInv, Faultless, RecoverDone PROVE Faultless'
<1>1. /\ recovery = "running" /\ recovery' = "done" /\ \A p \in Plans : left[p] = Blank
      /\ UNCHANGED <<row, entry, waiting, stop, asked, left, missed, life, faults, turns>>
  BY DEF RecoverDone
<1>2. waiting \in Seq(Plans) /\ QueueOK
  BY DEF PlanInv, RestOK, Faultless
<1>3. QueueOK' /\ \A q : InQueue(q)' <=> InQueue(q)
  BY <1>1, <1>2, PlacesStay
<1>4. ASSUME NEW p \in Plans PROVE KeptPlan(p)' /\ TurnedPlan(p)'
  <2>1. Kept(row[p], entry[p], stop[p], asked[p], left[p], InQueue(p), RecoveryOf(p)')
    <3>1. Kept(row[p], entry[p], stop[p], asked[p], left[p], InQueue(p), RecoveryOf(p))
          /\ left[p] = Blank
      BY <1>1, PlanFacts
    <3>2. p \notin missed => RecoveryOf(p) = "running" /\ RecoveryOf(p)' = "done"
      BY <1>1 DEF RecoveryOf
    <3>3. p \in missed => RecoveryOf(p)' = RecoveryOf(p)
      BY <1>1 DEF RecoveryOf
    <3>. QED
      BY <3>1, <3>2, <3>3, RecoverEnds
  <2>2. InQueue(p)' <=> InQueue(p)
    BY <1>3
  <2>3. Kept(row'[p], entry'[p], stop'[p], asked'[p], left'[p], InQueue(p)', RecoveryOf(p)')
    BY <1>1, <2>1, <2>2 DEF Kept, Places, Held, Stopping, Startable, RecoveryOf
  <2>. QED
    BY <1>1, <2>3, PlanFacts DEF KeptPlan, TurnedPlan
<1>. QED
  BY <1>1, <1>3, <1>4 DEF Faultless

LEMMA CrashKeeps == ASSUME PlanInv, Faultless, Crash PROVE Faultless'
<1>1. recovery' = "none" /\ missed' = {} /\ waiting' = << >> /\ UNCHANGED <<row, turns>>
      /\ \A p \in Plans : entry'[p] = Off /\ stop'[p] = NoStop /\ left'[p] = Blank
  BY DEF Crash
<1>2. \A p : ~InQueue(p)'
  BY <1>1 DEF InQueue
<1>3. QueueOK'
  BY <1>1 DEF QueueOK
<1>4. ASSUME NEW p \in Plans PROVE KeptPlan(p)' /\ TurnedPlan(p)'
  <2>1. asked'[p] \in {"no", "answered"} /\ (asked'[p] = "no" => asked[p] \in {"no", "counted"})
    BY DEF Crash, PlanInv, RestOK
  <2>2. Kept(row[p], Off, NoStop, asked'[p], Blank, InQueue(p)', "none")
        /\ Turned(row[p], Off, turns[p], life')
    <3>1. /\ Kept(row[p], entry[p], stop[p], asked[p], left[p], InQueue(p), RecoveryOf(p))
          /\ Turned(row[p], entry[p], turns[p], life)
      BY PlanFacts
    <3>2. ~InQueue(p)'
      BY <1>2
    <3>. QED
      BY <2>1, <3>1, <3>2, ServerStops
  <2>. QED
    BY <1>1, <2>2 DEF KeptPlan, TurnedPlan, RecoveryOf
<1>. QED
  BY <1>1, <1>3, <1>4 DEF Faultless

LEMMA FaultlessInitially == Init => Faultless
<1>. SUFFICES ASSUME Init PROVE Faultless
  OBVIOUS
<1>1. QueueOK /\ recovery = "none" /\ missed = {} /\ \A p : ~InQueue(p)
  BY DEF Init, QueueOK, InQueue
<1>2. ASSUME NEW p \in Plans PROVE KeptPlan(p) /\ TurnedPlan(p)
  <2>1. row[p] = Blank /\ entry[p] = Off /\ stop[p] = NoStop /\ asked[p] = "no" /\ left[p] = Blank
        /\ \A j \in Jobs : turns[p][j] = {}
    BY <1>2 DEF Init
  <2>2. KeptPlan(p)
    BY <1>1, <2>1, OffFacts DEF KeptPlan, Kept, Places, Open, RecoveryOf
  <2>3. TurnedPlan(p)
    BY <2>1, OffFacts DEF TurnedPlan, Turned, Loaded
  <2>. QED
    BY <2>2, <2>3
<1>. QED
  BY <1>1, <1>2 DEF Faultless

LEMMA NoFault ==
  ASSUME PlanInv, [Next]_vars, faults' = 0
  PROVE  faults = 0 /\ ~Fault
<1>1. ~Fault
  BY DEF Fault, PlanInv, RestOK
<1>2. faults' = faults \/ Fault
  <2>1. ASSUME NEW p \in Plans, RunStep(p) PROVE faults' = faults \/ Fault
    BY <2>1 DEF RunStep, Load, Pick, JobEnd, Report, End, StoppedEnd, HandedOff, Attempt,
            TurnStarts,
       TurnFails, TurnAnswers, CheckItem, ItemChecked, CheckThrows, Verdict
  <2>2. ASSUME NEW p \in Plans, SaveSettles(p) \/ StopRead(p) \/ StopMark(p) \/ StopSave(p)
                                 \/ AskCount(p) \/ Insert(p) \/ Start(p)
        PROVE  faults' = faults \/ Fault
    BY <2>2 DEF SaveSettles, StopRead, StopMark, StopSave, SaveOrFail, AskCount, Insert, Start
  <2>3. Recover \/ Crash \/ UNCHANGED vars => faults' = faults \/ Fault
    BY DEF Recover, RecoverList, RecoverPlan, RecoverDone, RecoverFails, Crash, vars
  <2>. QED
    BY <2>1, <2>2, <2>3 DEF Next
<1>. QED
  BY <1>1, <1>2

LEMMA FaultlessStep ==
  ASSUME PlanInv, Faultless, ~Fault, [Next]_vars
  PROVE  Faultless'
<1>1. ASSUME NEW p \in Plans, Start(p) PROVE Faultless'
  <2>1. Kept(row[p], entry[p], stop[p], asked[p], left[p], InQueue(p), RecoveryOf(p))
        /\ asked[p] = "inserted"
    BY <1>1, PlanFacts DEF Start
  <2>2. left[p] = Blank
    BY <2>1 DEF Kept, Places
  <2>3. left' = [left EXCEPT ![p] = Blank]
    BY <1>1, <2>2, PlanFacts DEF Start
  <2>. QED
    BY <1>1, <2>1, <2>2, <2>3, StartKeeps DEF Start
<1>2. CASE UNCHANGED vars
  BY <1>2 DEF vars, Faultless, QueueOK, KeptPlan, TurnedPlan, InQueue, RecoveryOf
<1>3. CASE Recover
  BY <1>3, RecoverListKeeps, RecoverPlanKeeps, RecoverDoneKeeps DEF Recover, RecoverFails
<1>. QED
  BY <1>1, <1>2, <1>3, RunStepKeeps, SaveSettlesKeeps, StopReadKeeps, StopMarkKeeps, StopSaveKeeps,
     AskCountKeeps, InsertKeeps, CrashKeeps DEF Next

FaultsInv == PlanInv /\ FaultlessInv

LEMMA FaultsInvHolds == Spec => []FaultsInv
<1>1. Init => FaultsInv
  BY InvInitially, FaultlessInitially DEF FaultsInv, FaultlessInv
<1>2. FaultsInv /\ [Next]_vars => FaultsInv'
  BY InvStep, NoFault, FaultlessStep DEF FaultsInv, FaultlessInv
<1>. QED
  BY <1>1, <1>2, PTL DEF Spec

\* As long as saves do not fail, the turns on one job are of one life of the server: a part
\* cut off by a restart is never begun again, however many plans, stops and restarts there are.
THEOREM CutOffPartsNotRunTwice == Spec => []NotRunTwice
<1>1. FaultsInv => NotRunTwice
  <2>. SUFFICES ASSUME FaultsInv, faults = 0, NEW p \in Plans, NEW j \in Jobs
                PROVE  Cardinality(turns[p][j]) <= 1
    BY DEF NotRunTwice
  <2>1. turns[p][j] = {} \/ \E n \in 1 .. MaxLives : turns[p][j] = {n}
    BY DEF FaultsInv, FaultlessInv, Faultless, TurnedPlan, Turned
  <2>2. Cardinality({}) = 0 /\ \A n : Cardinality({n}) = 1
    BY FS_EmptySet, FS_Singleton
  <2>3. Cardinality(turns[p][j]) \in {0, 1}
    BY <2>1, <2>2, Zenon
  <2>. QED
    BY <2>3
<1>. QED
  BY <1>1, FaultsInvHolds, PTL

\* As long as saves do not fail, each open plan is run, in the queue or being stopped once
\* recover is through: no plan is left that says "Working" and nobody works on.
THEOREM OpenPlansAreHeld == Spec => []NoPlanForgotten
<1>1. FaultsInv => NoPlanForgotten
  <2>. SUFFICES ASSUME FaultsInv, faults = 0, recovery = "done", NEW p \in Plans \ missed,
                       row[p].status \in Open
                PROVE  IsQueued(p) \/ asked[p] = "inserted" \/ stop[p].pc = "save"
    BY DEF NoPlanForgotten
  <2>1. /\ Kept(row[p], entry[p], stop[p], asked[p], left[p], InQueue(p), RecoveryOf(p))
    BY DEF FaultsInv, FaultlessInv, Faultless, KeptPlan
  <2>2. InQueue(p) \/ entry[p].pc # "off" \/ asked[p] = "inserted" \/ stop[p].pc = "save"
    BY <2>1, OffFacts DEF Kept, Places, Held, Startable, RecoveryOf
  <2>. QED
    BY <2>2 DEF IsQueued, Running, InQueue
<1>. QED
  BY <1>1, FaultsInvHolds, PTL

-----------------------------------------------------------------------------
(* What a changed row has kept of the ticks.                               *)

\* A save over an open row that keeps no ticks of work it cuts off.
CleanSave(p) == row[p].status \in Open /\ CutClean(row[p], row'[p])

LEMMA BehindClean ==
  ASSUME NEW old, NEW new, Behind(old, new)
  PROVE  CutClean(old, new)
BY DEF Behind, CutClean, Ended

\* recover ends the job that was cut off with its ticks dropped.
LEMMA StickClean ==
  ASSUME NEW plan \in Contents, Orderly(plan), NEW S \in SUBSET Jobs, S # {},
         \A j \in S : plan.jobs[j].status \in Cut
  PROVE  CutClean(plan, StickJob(plan, S))
<1>. DEFINE f == First(S)
            new == StickJob(plan, S)
<1>1. f \in S /\ f \in Jobs /\ plan.jobs[f].status \in Cut
  BY FirstJob
<1>2. /\ new.jobs[f] = CutOff(plan.jobs[f], "stuck")
      /\ \A j \in Jobs \ {f} :
              IF plan.jobs[j].status = "waiting"
                THEN new.jobs[j].status = "skipped" ELSE new.jobs[j] = plan.jobs[j]
  BY <1>1, StickJobJobs DEF Orderly
<1>. HIDE DEF f, new
<1>3. plan.jobs[f].status = "working" => NoTick(new.jobs[f].list)
  BY <1>1, <1>2, JobTyped, CutOffLists
<1>4. CutClean(plan, new)
  BY <1>2, <1>3 DEF CutClean, Ended
<1>. QED
  BY <1>4 DEF new

LEMMA RowChanges ==
  ASSUME PlanInv, Faultless, ~Fault, [Next]_vars, NEW p \in Plans, row'[p] # row[p]
  PROVE  CleanSave(p) \/ \A j \in Jobs : row'[p].jobs[j].status = "waiting"
<1>0. ASSUME NEW q \in Plans, NEW plan, SaveRow(q, plan)
      PROVE  p = q /\ row[p].status \in Open /\ row'[p] = plan
  BY <1>0, PlanFacts DEF SaveRow
<1>1. ASSUME NEW q \in Plans, SaveSettles(q) PROVE CleanSave(p)
  <2>1. SaveRow(q, entry[q].saving) /\ entry[q].saving # Blank
    BY <1>1 DEF SaveSettles, SaveOrFail
  <2>2. p = q /\ row[p].status \in Open /\ row'[p] = entry[p].saving
    BY <1>0, <2>1
  <2>3. Behind(row[p], entry[p].saving)
    BY <2>1, <2>2, PlanFacts DEF Kept, Held
  <2>. QED
    BY <2>2, <2>3, BehindClean DEF CleanSave
<1>2. ASSUME NEW q \in Plans, StopSave(q) PROVE CleanSave(p)
  <2>1. SaveRow(q, stop[q].plan) /\ stop[q].pc = "save"
    BY <1>2 DEF StopSave, SaveOrFail
  <2>2. p = q /\ row[p].status \in Open /\ row'[p] = stop[p].plan
    BY <1>0, <2>1
  <2>3. CutClean(row[p], stop[p].plan)
    BY <2>1, <2>2, PlanFacts DEF Kept, Stopping
  <2>. QED
    BY <2>2, <2>3 DEF CleanSave
<1>3. ASSUME NEW q \in Plans, RecoverPlan(q) PROVE CleanSave(p)
  <2>. DEFINE cut == {j \in Jobs : left[q].jobs[j].status \in {"working", "checking"}}
  <2>1. SaveRow(q, StickJob(left[q], cut)) /\ cut # {} /\ left[q] # Blank
    BY <1>3 DEF RecoverPlan
  <2>2. cut \in SUBSET Jobs /\ \A j \in cut : left[q].jobs[j].status \in Cut
    BY DEF Cut
  <2>. HIDE DEF cut
  <2>3. p = q /\ row[p].status \in Open /\ row'[p] = StickJob(left[p], cut)
    BY <1>0, <2>1
  <2>4. left[p] = row[p]
    BY <2>1, <2>3, PlanFacts DEF Kept, Places
  <2>5. CutClean(row[p], StickJob(row[p], cut))
    BY <2>1, <2>2, <2>3, <2>4, PlanFacts, StickClean
  <2>. QED
    BY <2>3, <2>4, <2>5 DEF CleanSave
<1>4. ASSUME NEW q \in Plans, Insert(q) PROVE \A j \in Jobs : row'[p].jobs[j].status = "waiting"
  <2>1. PICK lists \in [Jobs -> Checklists] :
          row' = [row EXCEPT ![q] = [status |-> "queued", jobs |-> [j \in Jobs |->
            [status |-> "waiting",
             list |-> [k \in Kinds |-> IF k \in lists[j] THEN "open" ELSE "none"]]]]]
    BY <1>4 DEF Insert
  <2>2. p = q
    BY <2>1, PlanFacts
  <2>3. row'[p] = [status |-> "queued", jobs |-> [j \in Jobs |->
            [status |-> "waiting",
             list |-> [k \in Kinds |-> IF k \in lists[j] THEN "open" ELSE "none"]]]]
    BY <2>1, <2>2, PlanFacts
  <2>. QED
    BY <2>3
<1>5. ASSUME NEW q \in Plans, RunStep(q) PROVE FALSE
  BY <1>5, RunStepsKeepRows
<1>6. ASSUME NEW q \in Plans, StopRead(q) \/ StopMark(q) \/ AskCount(q) \/ Start(q) PROVE FALSE
  BY <1>6 DEF StopRead, StopMark, AskCount, Start
<1>7. ~(RecoverList \/ RecoverDone \/ RecoverFails \/ Crash \/ UNCHANGED vars)
  BY DEF RecoverList, RecoverDone, RecoverFails, Crash, vars
<1>. QED
  BY <1>1, <1>2, <1>3, <1>4, <1>5, <1>6, <1>7 DEF Next, Recover

LEMMA TicksAreDropped ==
  FaultsInv /\ [Next]_vars =>
    [\A p \in Plans, j \in Jobs :
       /\ faults' = 0
       /\ row[p].jobs[j].status = "working"
       /\ row'[p].jobs[j].status \in {"stuck", "stopped"}
       => \A k \in Kinds : row'[p].jobs[j].list[k] # "ticked"]_vars
<1>. SUFFICES ASSUME FaultsInv, [Next]_vars, NEW p \in Plans, NEW j \in Jobs, faults' = 0,
                     row[p].jobs[j].status = "working", row'[p].jobs[j].status \in {"stuck", "stopped"}
              PROVE  \A k \in Kinds : row'[p].jobs[j].list[k] # "ticked"
  OBVIOUS
<1>1. PlanInv /\ Faultless /\ ~Fault
  BY NoFault DEF FaultsInv, FaultlessInv
<1>2. row'[p] # row[p] /\ row'[p].jobs[j].status # "waiting"
  OBVIOUS
<1>3. CutClean(row[p], row'[p])
  BY <1>1, <1>2, RowChanges DEF CleanSave
<1>. QED
  BY <1>3 DEF CutClean, Ended, NoTick

\* A job cut off while its agent was redoing it keeps no tick of the try before, whether a
\* stop, a restart or a failed turn cut it off (as long as saves do not fail).
THEOREM CutOffTicksDropped == Spec => CutOffHasNoTicks
BY FaultsInvHolds, TicksAreDropped, PTL DEF Spec, CutOffHasNoTicks

=============================================================================
