---------------------------- MODULE SchedulesProofs ---------------------------
(***************************************************************************)
(* Proofs about Schedules, composed with the lemmas of CardRunsProofs:     *)
(* types, that calls still go out once, and that a due time leads to one   *)
(* run.                                                                    *)
(***************************************************************************)
EXTENDS Schedules, CardRunsProofs, FiniteSetTheorems

ClaimedBy(s) == tick.pc \in {"gate", "enqueue", "failing"} /\ tick.on = s

\* Only a tick that settles has seen anything, and one that has claimed knows what.
TickInv ==
  /\ tick.pc \in {"gate", "enqueue", "failing"} => tick.on \in Plans
  /\ tick.pc # "settle" => \A s \in Plans : tick.seen[s] = "none"

\* The link is to a run of the present due time, also when nobody waits for it.
LinkInv(s) ==
  /\ schedule[s].link # NoRun => schedule[s].link \in fired[s]
  /\ ~Exists(s) => schedule[s].link = NoRun
  /\ schedule[s].status = "none" => fired[s] = {}
  /\ tick.seen[s] # "none" => schedule[s].status # "none"
  /\ ClaimedBy(s) => schedule[s].status \notin {"none", "completed"}

\* A schedule that is active, or claimed and not yet fired, still may fire; one that is
\* both was set active since it was claimed.
FireInv(s) ==
  /\ IsFiniteSet(fired[s])
  /\ Cardinality(fired[s]) <= 1 + activated[s]
  /\ schedule[s].status = "active" => Cardinality(fired[s]) <= activated[s]
  /\ ClaimedBy(s) /\ tick.pc # "failing" =>
       /\ Cardinality(fired[s]) <= activated[s]
       /\ schedule[s].status = "active" => Cardinality(fired[s]) + 1 <= activated[s]

\* What a tick takes for a success is one, and so is what completed a schedule.
DoneInv(s) ==
  /\ ~lateRecovery
  /\ \/ schedule[s].status = "completed"
     \/ tick.seen[s] = "succeeded" /\ Exists(s)
  => schedule[s].link # NoRun /\ run[schedule[s].link] = "succeeded"

PlansInv == TickInv /\ \A s \in Plans : LinkInv(s) /\ FireInv(s) /\ DoneInv(s)
SchedulesInv == SchedulesTypeOK /\ CardsInv /\ PlansInv

-----------------------------------------------------------------------------
LEMMA SchedulesInitInv == SchedulesInit => SchedulesInv
<1> SUFFICES ASSUME SchedulesInit PROVE SchedulesInv
  OBVIOUS
<1>1. CardsInv
  BY CardsInitInv DEF SchedulesInit
<1>2. SchedulesTypeOK
  BY <1>1 DEF SchedulesInit, SchedulesTypeOK, CardsInv, CardsTyping, NoSchedule, NoTick
<1>3. PlansInv
  BY FS_EmptySet DEF SchedulesInit, PlansInv, TickInv, LinkInv, FireInv, DoneInv, ClaimedBy, Exists,
                     NoSchedule, NoTick
<1> QED BY <1>1, <1>2, <1>3 DEF SchedulesInv

\* What the scheduler does to the rows of runs: nothing, or it queues one.
LEMMA CardsUntouched ==
  ASSUME CardsInv, upsets' \in [Trouble -> Nat],
         UNCHANGED <<run, relay, posted, cardPoll, cardRecovered, executor, lateRecovery>>
  PROVE  CardsInv'
<1>1. CardsTyping'
  BY DEF CardsInv, CardsTyping, CardsTypeOK, HandsFull
<1>2. CallsInv'
  BY DEF CardsInv, CallsInv, InHand, OneHand, PollHas, SlotHas, SentOnce
<1>3. HandsInv'
  BY DEF CardsInv, HandsInv, InHand, OneHand, PollHas, SlotHas
<1> QED BY <1>1, <1>2, <1>3 DEF CardsInv

LEMMA FiringQueued ==
  ASSUME CardsInv, upsets' \in [Trouble -> Nat], NEW f \in Firings, run[f] = "none",
         run' = [run EXCEPT ![f] = "pending"],
         UNCHANGED <<relay, posted, cardPoll, cardRecovered, executor, lateRecovery>>
  PROVE  CardsInv'
<1>1. CardsTyping'
  BY DEF CardsInv, CardsTyping, CardsTypeOK, HandsFull
<1>2. \A r \in Runs : (InHand(r)' <=> InHand(r)) /\ (OneHand(r)' <=> OneHand(r))
  BY DEF InHand, OneHand, PollHas, SlotHas
<1>3. \A r \in Runs : r # f => run'[r] = run[r]
  BY DEF CardsInv, CardsTyping, CardsTypeOK
<1>4. \A x \in Calls : x # f /\ x \in Runs
  BY CardsAssumption DEF Runs
<1>5. CallsInv'
  <2>1. \A x \in Calls : (run[x] \in {"none", "pending"} => ~InHand(x))'
    BY <1>2, <1>3, <1>4 DEF CardsInv, CallsInv
  <2>2. \A x \in Calls : OneHand(x)'
    BY <1>2, <1>4 DEF CardsInv, CallsInv
  <2>3. \A x \in Calls : (run[x] \in {"none", "pending"} /\ x \notin relay => posted[x] = 0)'
    BY <1>3, <1>4 DEF CardsInv, CallsInv
  <2> QED BY <2>1, <2>2, <2>3 DEF CardsInv, CallsInv, SentOnce, PollHas
<1>6. HandsInv'
  BY <1>2, <1>3 DEF CardsInv, HandsInv
<1> QED BY <1>1, <1>5, <1>6 DEF CardsInv

\* A run that has succeeded has done so for good, unless a recovery came late.
LEMMA SuccessStays ==
  ASSUME CardsInv, CardsStep, ~lateRecovery'
  PROVE  ~lateRecovery /\ \A r \in Runs : run[r] = "succeeded" => run'[r] = "succeeded"
<1> DEFINE Stays == ~lateRecovery /\ \A r \in Runs : run[r] = "succeeded" => run'[r] = "succeeded"
<1>1. ASSUME NEW x \in Calls, QueueCall(x) PROVE Stays
  BY <1>1 DEF QueueCall, CardsInv, CardsTyping, CardsTypeOK
<1>2. ASSUME NEW c \in CardCallers, RecoverRuns(c) PROVE Stays
  BY <1>2 DEF RecoverRuns
<1>3. ASSUME NEW c \in CardCallers, NEW r \in Runs, ClaimRun(c, r) PROVE Stays
  BY <1>3 DEF ClaimRun, CardsInv, CardsTyping, CardsTypeOK
<1>4. ASSUME NEW e \in CardSlots, Defer(e) PROVE Stays
  BY <1>4 DEF Defer, CardsInv, CardsTyping, CardsTypeOK
<1>5. ASSUME NEW e \in CardSlots, NEW end \in Over, EndRun(e, end) PROVE Stays
  <2>1. executor[e].run \in Runs /\ InHand(executor[e].run)
    BY <1>5 DEF EndRun, InHand, CardsInv, CardsTyping, HandsFull
  <2>2. ~lateRecovery /\ run[executor[e].run] = "running"
    BY <1>5, <2>1 DEF EndRun, CardsInv, HandsInv
  <2> QED BY <1>5, <2>2 DEF EndRun, CardsInv, CardsTyping, CardsTypeOK
<1>6. ASSUME UNCHANGED <<run, lateRecovery>> PROVE Stays
  BY <1>6
<1> QED
  BY <1>1, <1>2, <1>3, <1>4, <1>5, <1>6
  DEF CardsStep, CardCall, Execute, CardPollStarts, CardsRecovered, NoRunToClaim, CardPollFails,
      StartExecutor, PostCall, FailRunThrows

-----------------------------------------------------------------------------
Row == [status : {"none", "active", "running", "completed", "inactive", "failed", "deleted"},
        repeat : BOOLEAN, due : BOOLEAN, link : Firings \cup {NoRun}]
Ticks == [pc : {"idle", "settle", "gate", "enqueue", "failing"}, on : Plans \cup {NoPlan},
          seen : [Plans -> {"none"} \cup Over]]

PlansTyping ==
  /\ schedule \in [Plans -> Row]
  /\ tick \in Ticks
  /\ fired \in [Plans -> SUBSET Firings]
  /\ activated \in [Plans -> Nat]

LEMMA SchedulesTypes == SchedulesTypeOK <=> CardsTypeOK /\ PlansTyping
  BY DEF SchedulesTypeOK, PlansTyping, Row, Ticks

LEMMA SchedulesTypesNext == SchedulesTypeOK' <=> CardsTypeOK' /\ PlansTyping'
  BY DEF SchedulesTypeOK, PlansTyping, Row, Ticks

LEMMA RowTyping ==
  ASSUME NEW row \in Row
  PROVE  /\ \A status \in {"none", "active", "running", "completed", "inactive", "failed", "deleted"} :
              [row EXCEPT !.status = status] \in Row
         /\ [row EXCEPT !.status = "active", !.due = FALSE] \in Row
         /\ [row EXCEPT !.status = "active", !.due = FALSE, !.link = NoRun] \in Row
         /\ \A repeat \in BOOLEAN : [row EXCEPT !.status = "active", !.repeat = repeat] \in Row
         /\ [row EXCEPT !.due = TRUE] \in Row
         /\ \A f \in Firings : [row EXCEPT !.link = f] \in Row
         /\ [NoSchedule EXCEPT !.status = "deleted"] \in Row
  BY DEF Row, NoSchedule

LEMMA NoTickTyping ==
  /\ NoTick \in Ticks
  /\ \A seen \in [Plans -> {"none"} \cup Over] : [NoTick EXCEPT !.pc = "settle", !.seen = seen] \in Ticks
  /\ \A s \in Plans : /\ [NoTick EXCEPT !.pc = "gate", !.on = s] \in Ticks
                      /\ [NoTick EXCEPT !.pc = "enqueue", !.on = s] \in Ticks
  /\ \A t \in Ticks, pc \in {"enqueue", "failing"} : [t EXCEPT !.pc = pc] \in Ticks
  BY DEF NoTick, Ticks

LEMMA PatchedTyping ==
  ASSUME schedule \in [Plans -> Row], NEW s \in Plans, NEW row \in Row
  PROVE  Patched(s, row) \in [Plans -> Row]
  BY DEF Patched

\* The scheduler's own variables keep their types, whatever the runs do.
LEMMA PlansStepTyping ==
  ASSUME CardsTypeOK, PlansTyping, TickInv, SchedulesNext
  PROVE  PlansTyping'
<1>1. CASE CardsStep /\ UNCHANGED scheduleVars
  BY <1>1 DEF scheduleVars, PlansTyping
<1>2. CASE TickStarts
  <2>1. [s \in Plans |->
          IF schedule[s].status = "running" /\ schedule[s].link # NoRun /\ run[schedule[s].link] \in Over
            THEN run[schedule[s].link] ELSE "none"] \in [Plans -> {"none"} \cup Over]
    OBVIOUS
  <2>2. tick' \in Ticks
    BY <1>2, <2>1, NoTickTyping DEF TickStarts
  <2> QED BY <1>2, <2>2 DEF TickStarts, PlansTyping
<1>3. CASE NothingDue \/ GateOpens \/ TickThrows
  <2>1. tick' = NoTick \/ (\E pc \in {"enqueue", "failing"} : tick' = [tick EXCEPT !.pc = pc])
    BY <1>3 DEF NothingDue, GateOpens, TickThrows
  <2>2. tick' \in Ticks
    BY <2>1, NoTickTyping DEF PlansTyping
  <2> QED BY <1>3, <2>2 DEF NothingDue, GateOpens, TickThrows, PlansTyping
<1>4. CASE GateHolds \/ FailSchedule
  <2>1. PICK s \in Plans : s = tick.on
    BY <1>4 DEF GateHolds, FailSchedule, TickInv
  <2>2. schedule[s] \in Row
    BY DEF PlansTyping
  <2>3. schedule' \in [Plans -> Row]
    <3>1. /\ [schedule[s] EXCEPT !.status = "inactive"] \in Row
          /\ [schedule[s] EXCEPT !.status = "failed"] \in Row
          /\ [schedule[s] EXCEPT !.status = "active", !.due = FALSE] \in Row
      BY <2>2, RowTyping
    <3>2. /\ Patched(s, [schedule[s] EXCEPT !.status = "inactive"]) \in [Plans -> Row]
          /\ Patched(s, [schedule[s] EXCEPT !.status = "failed"]) \in [Plans -> Row]
          /\ Patched(s, [schedule[s] EXCEPT !.status = "active", !.due = FALSE]) \in [Plans -> Row]
      BY <3>1, PatchedTyping DEF PlansTyping
    <3> QED BY <1>4, <2>1, <3>2 DEF GateHolds, FailSchedule, PlansTyping
  <2>4. tick' \in Ticks
    BY <1>4, NoTickTyping DEF GateHolds, FailSchedule
  <2> QED BY <1>4, <2>3, <2>4 DEF GateHolds, FailSchedule, PlansTyping
<1>5. ASSUME NEW s \in Plans, Settle(s) PROVE PlansTyping'
  <2>1. schedule[s] \in Row
    BY DEF PlansTyping
  <2>2. schedule' \in [Plans -> Row]
    <3>1. /\ [schedule[s] EXCEPT !.status = "active", !.due = FALSE, !.link = NoRun] \in Row
          /\ [schedule[s] EXCEPT !.status = IF tick.seen[s] = "failed" THEN "failed" ELSE "completed"]
               \in Row
      BY <2>1, RowTyping
    <3>2. /\ Patched(s, [schedule[s] EXCEPT !.status = "active", !.due = FALSE, !.link = NoRun])
               \in [Plans -> Row]
          /\ Patched(s, [schedule[s] EXCEPT
                   !.status = IF tick.seen[s] = "failed" THEN "failed" ELSE "completed"])
               \in [Plans -> Row]
      BY <3>1, PatchedTyping DEF PlansTyping
    <3> QED BY <1>5, <3>2 DEF Settle, Repeats, Finishes
  <2>3. tick' \in Ticks
    BY <1>5 DEF Settle, PlansTyping, Ticks
  <2> QED BY <1>5, <2>2, <2>3 DEF Settle, Repeats, Finishes, PlansTyping
<1>6. ASSUME NEW s \in Plans, ClaimDue(s) PROVE PlansTyping'
  <2>1. schedule' \in [Plans -> Row]
    BY <1>6, RowTyping DEF ClaimDue, PlansTyping
  <2>2. tick' \in Ticks
    BY <1>6, NoTickTyping DEF ClaimDue
  <2> QED BY <1>6, <2>1, <2>2 DEF ClaimDue, PlansTyping
<1>7. ASSUME NEW f \in Firings, EnqueueRun(f) PROVE PlansTyping'
  <2>1. PICK s \in Plans : s = tick.on
    BY <1>7 DEF EnqueueRun, TickInv
  <2>2. schedule[s] \in Row
    BY DEF PlansTyping
  <2>3. schedule' \in [Plans -> Row]
    BY <1>7, <2>1, <2>2, RowTyping, PatchedTyping DEF EnqueueRun, PlansTyping
  <2>4. tick' = NoTick \/ (\E pc \in {"failing"} : tick' = [tick EXCEPT !.pc = pc])
    BY <1>7 DEF EnqueueRun
  <2>5. tick' \in Ticks
    BY <2>4, NoTickTyping DEF PlansTyping
  <2> QED BY <1>7, <2>1, <2>3, <2>5 DEF EnqueueRun, PlansTyping
<1>8. ASSUME NEW s \in Plans, NEW repeat \in BOOLEAN, CreateSchedule(s, repeat) PROVE PlansTyping'
  BY <1>8, RowTyping DEF CreateSchedule, PlansTyping
<1>9. ASSUME NEW s \in Plans, NEW status \in {"active", "inactive"}, SetStatus(s, status)
      PROVE  PlansTyping'
  <2>1. schedule' \in [Plans -> Row]
    <3>1. [schedule[s] EXCEPT !.status = status] \in Row
      BY RowTyping DEF PlansTyping
    <3> QED BY <1>9, <3>1 DEF SetStatus, PlansTyping
  <2>2. activated' \in [Plans -> Nat]
    BY <1>9 DEF SetStatus, PlansTyping
  <2> QED BY <1>9, <2>1, <2>2 DEF SetStatus, PlansTyping
<1>10. ASSUME NEW s \in Plans, DeleteSchedule(s) PROVE PlansTyping'
  BY <1>10, RowTyping DEF DeleteSchedule, PlansTyping
<1>11. ASSUME NEW s \in Plans, ComesDue(s) PROVE PlansTyping'
  BY <1>11, RowTyping DEF ComesDue, PlansTyping
<1>12. CASE ServerCrash
  BY <1>12, NoTickTyping DEF ServerCrash, PlansTyping
<1> QED
  BY <1>1, <1>2, <1>3, <1>4, <1>5, <1>6, <1>7, <1>8, <1>9, <1>10, <1>11, <1>12
  DEF SchedulesNext, Tick

\* What the worker promises holds in the composition.
LEMMA SchedulesCardsInv == ASSUME SchedulesTypeOK, CardsInv, SchedulesNext PROVE CardsInv'
<1>1. upsets \in [Trouble -> Nat]
  BY DEF CardsInv, CardsTyping, CardsTypeOK
<1>2. CASE CardsStep
  BY <1>2, CardsStepInv
<1>3. ASSUME NEW f \in Firings, EnqueueRun(f) PROVE CardsInv'
  <2>1. upsets' \in [Trouble -> Nat]
    BY <1>1, <1>3, UpsetTyping DEF EnqueueRun, Trouble
  <2> QED BY <1>3, <2>1, FiringQueued DEF EnqueueRun
<1>4. CASE ServerCrash
  BY <1>1, <1>4, UpsetTyping, CardsCrashInv DEF ServerCrash, Trouble
<1>5. CASE UNCHANGED cardVars
  BY <1>5, CardsStutterInv
<1>6. ASSUME NEW k \in Trouble, Upset(k),
             UNCHANGED <<run, relay, posted, cardPoll, cardRecovered, executor, lateRecovery>>
      PROVE  CardsInv'
  BY <1>1, <1>6, UpsetTyping, CardsUntouched
<1>7. CASE FailSchedule
  BY <1>1, <1>7, UpsetTyping, CardsUntouched DEF FailSchedule, Trouble
<1> QED
  BY <1>2, <1>3, <1>4, <1>5, <1>6, <1>7
  DEF SchedulesNext, Tick, TickStarts, NothingDue, GateOpens, GateHolds, Settle, ClaimDue, TickThrows,
      CreateSchedule, SetStatus, DeleteSchedule, ComesDue, Trouble

-----------------------------------------------------------------------------
\* One lemma per kind of step, for what the invariant says of the schedules.
PlanInv(s) == LinkInv(s) /\ FireInv(s) /\ DoneInv(s)

\* A step that changes neither schedule nor history, after which the tick has seen and
\* claimed no more than before, and no success is gone.
LEMMA PlansKept ==
  ASSUME PlansInv, PlansTyping, UNCHANGED <<schedule, fired, activated>>,
         \A s \in Plans : tick'.seen[s] # "none" => tick'.seen[s] = tick.seen[s],
         \A s \in Plans : /\ ClaimedBy(s)' => ClaimedBy(s)
                          /\ ClaimedBy(s)' /\ tick'.pc # "failing" => tick.pc # "failing",
         ~lateRecovery' => ~lateRecovery /\
           \A s \in Plans : schedule[s].link # NoRun /\ run[schedule[s].link] = "succeeded"
             => run'[schedule[s].link] = "succeeded",
         NEW s \in Plans
  PROVE  PlanInv(s)'
<1>1. LinkInv(s)'
  BY DEF PlansInv, LinkInv, Exists
<1>2. FireInv(s)'
  BY DEF PlansInv, FireInv
<1>3. DoneInv(s)'
  BY DEF PlansInv, DoneInv, Exists
<1> QED BY <1>1, <1>2, <1>3 DEF PlanInv

LEMMA CardsStepPlans ==
  ASSUME SchedulesTypeOK, CardsInv, PlansInv, CardsStep, UNCHANGED scheduleVars
  PROVE  PlansInv'
<1>1. PlansTyping
  BY SchedulesTypes
<1>2. \A s \in Plans : schedule[s].link # NoRun => schedule[s].link \in Runs
  BY <1>1 DEF PlansTyping, Row, Runs
<1>3. ~lateRecovery' => ~lateRecovery /\
        \A s \in Plans : schedule[s].link # NoRun /\ run[schedule[s].link] = "succeeded"
          => run'[schedule[s].link] = "succeeded"
  BY <1>2, SuccessStays
<1>4. \A s \in Plans : ClaimedBy(s)' <=> ClaimedBy(s)
  BY DEF ClaimedBy, scheduleVars
<1>5. \A s \in Plans : PlanInv(s)'
  BY <1>1, <1>3, <1>4, PlansKept DEF scheduleVars
<1> QED BY <1>5 DEF PlansInv, PlanInv, TickInv, scheduleVars

LEMMA TickMovesPlans ==
  ASSUME SchedulesTypeOK, PlansInv, NothingDue \/ GateOpens \/ TickThrows \/ ServerCrash
  PROVE  PlansInv'
<1>1. PlansTyping
  BY SchedulesTypes
<1>2. UNCHANGED <<schedule, fired, activated, run, lateRecovery>>
  BY DEF NothingDue, GateOpens, TickThrows, ServerCrash, CardsCrash, cardVars
<1>3. \/ tick' = NoTick
      \/ tick.pc \in {"gate", "enqueue"} /\ tick' = [tick EXCEPT !.pc = "failing"]
      \/ tick.pc = "gate" /\ tick' = [tick EXCEPT !.pc = "enqueue"]
  BY DEF NothingDue, GateOpens, TickThrows, ServerCrash
<1>4. \A s \in Plans : /\ ClaimedBy(s)' => ClaimedBy(s)
                       /\ ClaimedBy(s)' /\ tick'.pc # "failing" => tick.pc # "failing"
                       /\ tick'.seen[s] # "none" => tick'.seen[s] = tick.seen[s]
  BY <1>1, <1>3 DEF ClaimedBy, NoTick, PlansTyping, Ticks
<1>5. \A s \in Plans : PlanInv(s)'
  BY <1>1, <1>2, <1>4, PlansKept
<1>6. TickInv'
  BY <1>1, <1>3 DEF PlansInv, TickInv, NoTick, PlansTyping, Ticks
<1> QED BY <1>5, <1>6 DEF PlansInv, PlanInv

LEMMA TickStartsPlans == ASSUME SchedulesTypeOK, PlansInv, TickStarts PROVE PlansInv'
<1>1. /\ tick'.pc = "settle"
      /\ \A s \in Plans : tick'.seen[s] # "none" => schedule[s].status = "running"
      /\ \A s \in Plans : tick'.seen[s] = "succeeded"
           => schedule[s].link # NoRun /\ run[schedule[s].link] = "succeeded"
  BY DEF TickStarts, NoTick, Over
<1>2. UNCHANGED <<schedule, fired, activated, run, lateRecovery>>
  BY DEF TickStarts, cardVars
<1>3. \A s \in Plans : ~ClaimedBy(s)'
  BY <1>1 DEF ClaimedBy
<1>4. \A s \in Plans : LinkInv(s)'
  BY <1>1, <1>2, <1>3 DEF PlansInv, LinkInv, Exists
<1>5. \A s \in Plans : FireInv(s)'
  BY <1>2, <1>3 DEF PlansInv, FireInv
<1>6. \A s \in Plans : DoneInv(s)'
  BY <1>1, <1>2 DEF PlansInv, DoneInv, Exists
<1> QED BY <1>1, <1>4, <1>5, <1>6 DEF PlansInv, TickInv

\* A step that changes one schedule only keeps the invariant of the others.
LEMMA OthersKept ==
  ASSUME PlansInv, NEW s \in Plans, NEW t \in Plans, t # s,
         schedule'[t] = schedule[t], fired'[t] = fired[t], activated'[t] = activated[t],
         tick'.seen[t] # "none" => tick'.seen[t] = tick.seen[t],
         ClaimedBy(t)' => ClaimedBy(t) /\ (tick'.pc # "failing" => tick.pc # "failing"),
         UNCHANGED lateRecovery,
         schedule[t].link # NoRun /\ run[schedule[t].link] = "succeeded"
           => run'[schedule[t].link] = "succeeded"
  PROVE  PlanInv(t)'
<1>1. LinkInv(t)'
  BY DEF PlansInv, LinkInv, Exists
<1>2. FireInv(t)'
  BY DEF PlansInv, FireInv
<1>3. DoneInv(t)'
  BY DEF PlansInv, DoneInv, Exists
<1> QED BY <1>1, <1>2, <1>3 DEF PlanInv

LEMMA OwnerPlans ==
  ASSUME SchedulesTypeOK, PlansInv, NEW s \in Plans,
         \/ \E repeat \in BOOLEAN : CreateSchedule(s, repeat)
         \/ \E status \in {"active", "inactive"} : SetStatus(s, status)
         \/ DeleteSchedule(s)
         \/ ComesDue(s)
  PROVE  PlansInv'
<1>0. PlansTyping
  BY SchedulesTypes
<1>1. UNCHANGED <<tick, fired, run, lateRecovery>>
  BY DEF CreateSchedule, SetStatus, DeleteSchedule, ComesDue, cardVars
<1>2. \A t \in Plans : t # s => schedule'[t] = schedule[t] /\ activated'[t] = activated[t]
  BY <1>0 DEF CreateSchedule, SetStatus, DeleteSchedule, ComesDue, PlansTyping
<1>3. \A t \in Plans : ClaimedBy(t)' <=> ClaimedBy(t)
  BY <1>1 DEF ClaimedBy
<1>4. \A t \in Plans : t # s => PlanInv(t)'
  BY <1>1, <1>2, <1>3, OthersKept
<1>5. activated[s] \in Nat /\ Cardinality(fired[s]) \in Nat /\ IsFiniteSet(fired[s])
  BY <1>0, FS_CardinalityType DEF PlansTyping, PlansInv, FireInv
<1>6. ASSUME NEW repeat \in BOOLEAN, CreateSchedule(s, repeat) PROVE PlanInv(s)'
  <2>1. schedule'[s].status = "active" /\ schedule'[s].link = schedule[s].link
        /\ schedule[s].status = "none" /\ activated'[s] = activated[s]
    BY <1>0, <1>6 DEF CreateSchedule, PlansTyping, Row
  <2>2. tick.seen[s] = "none" /\ schedule[s].link = NoRun /\ fired[s] = {} /\ ~ClaimedBy(s)
    BY <1>0, <2>1 DEF PlansInv, LinkInv, Exists, PlansTyping, Ticks
  <2>3. Cardinality(fired[s]) = 0
    BY <2>2, FS_EmptySet
  <2> QED BY <1>1, <1>3, <1>5, <2>1, <2>2, <2>3 DEF PlanInv, LinkInv, FireInv, DoneInv, Exists
<1>7. ASSUME NEW status \in {"active", "inactive"}, SetStatus(s, status) PROVE PlanInv(s)'
  <2>1. schedule'[s].status = status /\ schedule'[s].link = schedule[s].link /\ Exists(s)
        /\ activated'[s] = IF status = "active" THEN activated[s] + 1 ELSE activated[s]
    BY <1>0, <1>7 DEF SetStatus, PlansTyping, Row
  <2>2. LinkInv(s)'
    BY <1>1, <1>3, <2>1 DEF PlansInv, LinkInv, Exists
  <2>3. FireInv(s)'
    BY <1>1, <1>3, <1>5, <2>1 DEF PlansInv, FireInv
  <2>4. DoneInv(s)'
    BY <1>1, <2>1 DEF PlansInv, DoneInv, Exists
  <2> QED BY <2>2, <2>3, <2>4 DEF PlanInv
<1>8. ASSUME DeleteSchedule(s) PROVE PlanInv(s)'
  <2>1. schedule'[s].status = "deleted" /\ schedule'[s].link = NoRun /\ activated'[s] = activated[s]
    BY <1>0, <1>8 DEF DeleteSchedule, PlansTyping, NoSchedule
  <2> QED BY <1>1, <1>3, <2>1 DEF PlansInv, PlanInv, LinkInv, FireInv, DoneInv, Exists
<1>9. ASSUME ComesDue(s) PROVE PlanInv(s)'
  <2>1. schedule'[s].status = schedule[s].status /\ schedule'[s].link = schedule[s].link
        /\ activated'[s] = activated[s]
    BY <1>0, <1>9 DEF ComesDue, PlansTyping, Row
  <2> QED BY <1>1, <1>3, <2>1 DEF PlansInv, PlanInv, LinkInv, FireInv, DoneInv, Exists
<1>10. PlanInv(s)'
  BY <1>6, <1>7, <1>8, <1>9
<1> QED BY <1>1, <1>4, <1>10 DEF PlansInv, PlanInv, TickInv

LEMMA SettlePlans ==
  ASSUME SchedulesTypeOK, PlansInv, NEW s \in Plans, Settle(s)
  PROVE  PlansInv'
<1>0. PlansTyping
  BY SchedulesTypes
<1>1. UNCHANGED <<run, lateRecovery>> /\ tick.pc = "settle" /\ tick'.pc = "settle"
  BY <1>0 DEF Settle, cardVars, PlansTyping, Ticks
<1>2. \A t \in Plans : /\ tick'.seen[t] = IF t = s THEN "none" ELSE tick.seen[t]
                       /\ ~ClaimedBy(t) /\ ~ClaimedBy(t)'
  BY <1>0, <1>1 DEF Settle, PlansTyping, Ticks, ClaimedBy
<1>3. \A t \in Plans : t # s => /\ schedule'[t] = schedule[t]
                                /\ activated'[t] = activated[t] /\ fired'[t] = fired[t]
  BY <1>0 DEF Settle, Repeats, Finishes, Patched, PlansTyping
<1>4. \A t \in Plans : t # s => PlanInv(t)'
  BY <1>1, <1>2, <1>3, OthersKept
<1>5. tick.seen[s] # "none" /\ schedule[s].status # "none"
  BY DEF Settle, Repeats, Finishes, PlansInv, LinkInv
<1>6. ASSUME Repeats(s) PROVE PlanInv(s)'
  <2>1. /\ Exists(s) => schedule'[s].status = "active" /\ schedule'[s].link = NoRun
        /\ ~Exists(s) => schedule'[s] = schedule[s]
        /\ fired'[s] = {} /\ activated'[s] = 0
    BY <1>0, <1>6 DEF Repeats, Patched, PlansTyping, Row
  <2>2. schedule'[s].link = NoRun /\ schedule'[s].status \notin {"none", "completed"}
    BY <1>5, <2>1 DEF PlansInv, LinkInv, Exists
  <2>3. IsFiniteSet(fired'[s]) /\ Cardinality(fired'[s]) = 0
    BY <2>1, FS_EmptySet
  <2> QED BY <1>1, <1>2, <2>1, <2>2, <2>3 DEF PlanInv, LinkInv, FireInv, DoneInv
<1>7. ASSUME Finishes(s) PROVE PlanInv(s)'
  <2>1. /\ Exists(s) => /\ schedule'[s].link = schedule[s].link
                        /\ \/ schedule'[s].status = "failed"
                           \/ schedule'[s].status = "completed" /\ tick.seen[s] = "succeeded"
        /\ ~Exists(s) => schedule'[s] = schedule[s]
        /\ fired'[s] = fired[s] /\ activated'[s] = activated[s]
    BY <1>0, <1>7 DEF Finishes, Patched, PlansTyping, Row
  <2>2. LinkInv(s)'
    BY <1>2, <1>5, <2>1 DEF PlansInv, LinkInv, Exists
  <2>3. FireInv(s)'
    BY <1>2, <2>1 DEF PlansInv, FireInv, Exists
  <2>4. DoneInv(s)'
    BY <1>1, <1>2, <2>1 DEF PlansInv, DoneInv, Exists
  <2> QED BY <2>2, <2>3, <2>4 DEF PlanInv
<1>8. PlanInv(s)'
  BY <1>6, <1>7 DEF Settle
<1> QED BY <1>1, <1>4, <1>8 DEF PlansInv, PlanInv, TickInv

LEMMA ClaimDuePlans ==
  ASSUME SchedulesTypeOK, PlansInv, NEW s \in Plans, ClaimDue(s)
  PROVE  PlansInv'
<1>0. PlansTyping
  BY SchedulesTypes
<1>1. /\ UNCHANGED <<run, lateRecovery, fired, activated>>
      /\ tick.pc = "settle" /\ tick'.pc \in {"gate", "enqueue"} /\ tick'.on = s
      /\ \A t \in Plans : tick'.seen[t] = "none" /\ ~ClaimedBy(t)
      /\ schedule[s].status = "active"
  BY DEF ClaimDue, NothingSeen, IsDue, NoTick, cardVars, ClaimedBy
<1>2. \A t \in Plans : t # s => schedule'[t] = schedule[t] /\ ~ClaimedBy(t)'
  BY <1>0, <1>1 DEF ClaimDue, PlansTyping, ClaimedBy
<1>3. \A t \in Plans : t # s => PlanInv(t)'
  BY <1>1, <1>2, OthersKept
<1>4. schedule'[s].status = "running" /\ schedule'[s].link = schedule[s].link
  BY <1>0 DEF ClaimDue, PlansTyping, Row
<1>5. LinkInv(s)'
  BY <1>1, <1>4 DEF PlansInv, LinkInv, Exists
<1>6. FireInv(s)'
  BY <1>1, <1>4 DEF PlansInv, FireInv
<1>7. DoneInv(s)'
  BY <1>1, <1>4 DEF DoneInv
<1> QED BY <1>1, <1>3, <1>5, <1>6, <1>7 DEF PlansInv, PlanInv, TickInv

\* The end of a tick that marks its schedule: held by the gate, or failed.
LEMMA MarkedPlans ==
  ASSUME SchedulesTypeOK, PlansInv, GateHolds \/ FailSchedule
  PROVE  PlansInv'
<1>0. PlansTyping
  BY SchedulesTypes
<1>1. PICK s \in Plans : s = tick.on
  BY DEF GateHolds, FailSchedule, PlansInv, TickInv
<1>2. UNCHANGED <<run, lateRecovery, fired, activated>> /\ tick' = NoTick /\ ClaimedBy(s)
  BY <1>1 DEF GateHolds, FailSchedule, cardVars, ClaimedBy
<1>3. \A t \in Plans : tick'.seen[t] = "none" /\ ~ClaimedBy(t)'
  BY <1>2 DEF NoTick, ClaimedBy
<1>4. \A t \in Plans : t # s => schedule'[t] = schedule[t]
  BY <1>0, <1>1 DEF GateHolds, FailSchedule, Patched, PlansTyping
<1>5. \A t \in Plans : t # s => PlanInv(t)'
  BY <1>2, <1>3, <1>4, OthersKept
<1>6. \/ schedule'[s] = schedule[s] /\ (Exists(s) => tick.pc = "failing")
      \/ /\ Exists(s) /\ schedule'[s].link = schedule[s].link
         /\ \/ schedule'[s].status \in {"inactive", "failed"}
            \/ schedule'[s].status = "active" /\ tick.pc = "gate"
  <2>1. schedule[s] \in Row
    BY <1>0 DEF PlansTyping
  <2>3. CASE GateHolds
    <3>1. \/ ~Exists(s) /\ schedule'[s] = schedule[s]
          \/ /\ Exists(s)
             /\ \/ schedule'[s] = [schedule[s] EXCEPT !.status = "inactive"]
                \/ schedule'[s] = [schedule[s] EXCEPT !.status = "active", !.due = FALSE]
      BY <1>0, <1>1, <2>3 DEF GateHolds, Patched, PlansTyping
    <3> QED BY <2>1, <2>3, <3>1 DEF GateHolds, Row
  <2>4. CASE FailSchedule
    <3>1. schedule'[s] = schedule[s]
            \/ schedule'[s] = IF Exists(s) THEN [schedule[s] EXCEPT !.status = "failed"] ELSE schedule[s]
      BY <1>0, <1>1, <2>4 DEF FailSchedule, Patched, PlansTyping
    <3> QED BY <2>1, <2>4, <3>1 DEF FailSchedule, Row
  <2> QED BY <2>3, <2>4
<1>7. LinkInv(s)'
  BY <1>2, <1>3, <1>6 DEF PlansInv, LinkInv, Exists
<1>8. FireInv(s)'
  BY <1>2, <1>3, <1>6 DEF PlansInv, FireInv
<1>9. DoneInv(s)'
  BY <1>2, <1>3, <1>6 DEF PlansInv, DoneInv, LinkInv, Exists
<1>10. TickInv'
  BY <1>2, <1>3 DEF TickInv, NoTick
<1> QED BY <1>5, <1>7, <1>8, <1>9, <1>10 DEF PlansInv, PlanInv

LEMMA EnqueueRunPlans ==
  ASSUME SchedulesTypeOK, CardsInv, PlansInv, NEW f \in Firings, EnqueueRun(f)
  PROVE  PlansInv'
<1>0. PlansTyping
  BY SchedulesTypes
<1>1. PICK s \in Plans : s = tick.on
  BY DEF EnqueueRun, PlansInv, TickInv
<1>2. UNCHANGED <<lateRecovery, activated>> /\ tick.pc = "enqueue" /\ ClaimedBy(s)
  BY <1>1 DEF EnqueueRun, ClaimedBy
<1>3. tick' = NoTick \/ tick' = [tick EXCEPT !.pc = "failing"]
  BY DEF EnqueueRun
<1>4. /\ \A t \in Plans : tick'.seen[t] = "none" /\ tick.seen[t] = "none"
      /\ \A t \in Plans : ClaimedBy(t)' => t = s /\ tick'.pc = "failing"
  BY <1>0, <1>1, <1>2, <1>3 DEF NoTick, ClaimedBy, PlansTyping, Ticks, PlansInv, TickInv
<1>5. \A t \in Plans : t # s => schedule'[t] = schedule[t] /\ fired'[t] = fired[t]
  BY <1>0, <1>1 DEF EnqueueRun, Patched, PlansTyping
<1>6. \A t \in Plans : schedule[t].link # NoRun /\ run[schedule[t].link] = "succeeded"
        => run'[schedule[t].link] = "succeeded"
  <2>1. run \in [Runs -> {"none", "pending", "running"} \cup Over]
    BY DEF CardsInv, CardsTyping, CardsTypeOK
  <2>2. \A t \in Plans : schedule[t].link # NoRun => schedule[t].link \in Runs
    BY <1>0 DEF PlansTyping, Row, Runs
  <2> QED BY <2>1, <2>2 DEF EnqueueRun
<1>7. \A t \in Plans : t # s => PlanInv(t)'
  BY <1>2, <1>4, <1>5, <1>6, OthersKept
<1>8. /\ \/ schedule'[s] = schedule[s] /\ ~Exists(s)
         \/ Exists(s) /\ schedule'[s].link = f /\ schedule'[s].status = schedule[s].status
      /\ fired'[s] = fired[s] \cup {f}
  BY <1>0, <1>1 DEF EnqueueRun, Patched, PlansTyping, Row
<1>9. LinkInv(s)'
  BY <1>2, <1>4, <1>8 DEF PlansInv, LinkInv, Exists
<1>10. FireInv(s)'
  <2>1. /\ IsFiniteSet(fired[s]) /\ Cardinality(fired[s]) \in Nat /\ activated[s] \in Nat
        /\ IsFiniteSet(fired[s] \cup {f}) /\ Cardinality(fired[s] \cup {f}) \in Nat
        /\ Cardinality(fired[s] \cup {f}) <= Cardinality(fired[s]) + 1
    <3>1. IsFiniteSet(fired[s]) /\ activated[s] \in Nat
      BY <1>0 DEF PlansTyping, PlansInv, FireInv
    <3>2. Cardinality(fired[s]) \in Nat
      BY <3>1, FS_CardinalityType
    <3>3. /\ IsFiniteSet(fired[s] \cup {f})
          /\ \/ Cardinality(fired[s] \cup {f}) = Cardinality(fired[s])
             \/ Cardinality(fired[s] \cup {f}) = Cardinality(fired[s]) + 1
      BY <3>1, FS_AddElement
    <3> QED BY <3>1, <3>2, <3>3
  <2>2. /\ Cardinality(fired[s]) <= activated[s]
        /\ schedule[s].status = "active" => Cardinality(fired[s]) + 1 <= activated[s]
    BY <1>2 DEF PlansInv, FireInv
  <2>3. schedule'[s].status = schedule[s].status
    BY <1>8
  <2>4. /\ Cardinality(fired[s] \cup {f}) <= 1 + activated[s]
        /\ schedule[s].status = "active" => Cardinality(fired[s] \cup {f}) <= activated[s]
    BY <2>1, <2>2
  <2> QED BY <1>2, <1>4, <1>8, <2>1, <2>3, <2>4 DEF FireInv
<1>11. DoneInv(s)'
  BY <1>2, <1>4, <1>8 DEF PlansInv, LinkInv, DoneInv, Exists
<1>12. TickInv'
  BY <1>0, <1>1, <1>3, <1>4 DEF TickInv, NoTick, PlansTyping, Ticks
<1> QED BY <1>7, <1>9, <1>10, <1>11, <1>12 DEF PlansInv, PlanInv

-----------------------------------------------------------------------------
LEMMA SchedulesStutterInv == SchedulesInv /\ UNCHANGED allVars => SchedulesInv'
<1> SUFFICES ASSUME SchedulesInv, UNCHANGED allVars PROVE SchedulesInv'
  OBVIOUS
<1>1. UNCHANGED cardVars /\ UNCHANGED scheduleVars
  BY DEF allVars
<1>2. CardsInv' /\ CardsTypeOK'
  BY <1>1, CardsStutterInv DEF SchedulesInv, CardsInv, CardsTyping
<1>3. SchedulesTypeOK'
  BY <1>1, <1>2 DEF SchedulesInv, SchedulesTypeOK, scheduleVars
<1>4. PlansInv'
  BY <1>1 DEF SchedulesInv, PlansInv, TickInv, LinkInv, FireInv, DoneInv, ClaimedBy, Exists,
              scheduleVars, cardVars
<1> QED BY <1>2, <1>3, <1>4 DEF SchedulesInv

\* The invariant is inductive.
LEMMA SchedulesStepInv == SchedulesInv /\ [SchedulesNext]_allVars => SchedulesInv'
<1> SUFFICES ASSUME SchedulesInv, SchedulesNext PROVE SchedulesInv'
  BY SchedulesStutterInv
<1> USE DEF SchedulesInv
<1>1. CardsInv' /\ CardsTypeOK'
  BY SchedulesCardsInv DEF CardsInv, CardsTyping
<1>2. SchedulesTypeOK'
  BY <1>1, SchedulesTypes, SchedulesTypesNext, PlansStepTyping DEF PlansInv
<1>3. PlansInv'
  <2>1. CASE CardsStep /\ UNCHANGED scheduleVars
    BY <2>1, CardsStepPlans
  <2>2. CASE Tick \/ TickThrows \/ ServerCrash
    BY <2>2, TickStartsPlans, TickMovesPlans, MarkedPlans, SettlePlans, ClaimDuePlans, EnqueueRunPlans
    DEF Tick
  <2>3. ASSUME NEW s \in Plans,
               \/ \E repeat \in BOOLEAN : CreateSchedule(s, repeat)
               \/ \E status \in {"active", "inactive"} : SetStatus(s, status)
               \/ DeleteSchedule(s)
               \/ ComesDue(s)
        PROVE  PlansInv'
    BY <2>3, OwnerPlans
  <2> QED BY <2>1, <2>2, <2>3 DEF SchedulesNext
<1> QED BY <1>1, <1>2, <1>3

LEMMA SchedulesInvariant == SchedulesSpec => []SchedulesInv
  BY SchedulesInitInv, SchedulesStepInv, PTL DEF SchedulesSpec

\* The composed state stays what the declarations of its variables say.
THEOREM SchedulesTypeCorrect == SchedulesSpec => []SchedulesTypeOK
<1>1. SchedulesInv => SchedulesTypeOK
  BY DEF SchedulesInv
<1> QED BY <1>1, SchedulesInvariant, PTL

\* Calls go out once also when the runs of schedules compete for the same worker.
THEOREM ScheduledCallsGoOutOnce == SchedulesSpec => []SentOnce
<1>1. SchedulesInv => SentOnce
  BY DEF SchedulesInv, CardsInv, CallsInv
<1> QED BY <1>1, SchedulesInvariant, PTL

\* One due time, one run: what a schedule waits for is the run of its present due time, it
\* fires once for each time that it is set active, and completed means that its run has
\* succeeded; for any number of schedules, runs, crashes, errors and edits.
THEOREM OneRunForEachDueTime == SchedulesSpec => []OneRunPerDueTime
<1>1. SchedulesInv => OneRunPerDueTime
  BY DEF SchedulesInv, PlansInv, LinkInv, FireInv, DoneInv, OneRunPerDueTime, WaitsForItsRun,
         FiresOnce, CompletedHasRun
<1> QED BY <1>1, SchedulesInvariant, PTL
=============================================================================
