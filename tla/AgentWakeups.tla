----------------------------- MODULE AgentWakeups -----------------------------
(***************************************************************************)
(* Family mail that wakes its reader: server/agent-wakeups/ and            *)
(* sendAgentMessage (server/memory/core/messaging.js), together with tasks *)
(* that a woken agent hands to its sub-agents, as TaskBoard has them.      *)
(*                                                                         *)
(* A stored message enqueues a wake-up of its reader.  The worker claims   *)
(* it and runs the agent's turn, in which the agent may write to others    *)
(* and dispatch squads.  With unfinished tasks the wake-up waits for its   *)
(* children and is claimed again when they have ended; otherwise the       *)
(* answer goes back to the sender, whom it may wake in turn.               *)
(*                                                                         *)
(* The start of the worker may send a recovery that nobody awaits, and the *)
(* polls recover too before they first claim; polls do not overlap here.   *)
(*                                                                         *)
(* One thread of two agents is modelled.  A message that wakes nobody      *)
(* leaves no trace but the key that recognises it again.  The time windows *)
(* of the loop guards (cooldown, velocity) and bare acknowledgements may   *)
(* suppress any wake-up.                                                   *)
(***************************************************************************)
EXTENDS TaskBoard, Naturals, FiniteSets

CONSTANTS
  MaxWakes,          \* bound: rows of agent_wakeups, more than the guards let through
  MAX_THREAD_WAKES,
  MaxLateWakes,      \* bound: rows of it while the recovery of the start is out, or has come late
  WakeSlots,         \* as many as agent-wakeups/worker.js runs at once
  MaxUpsets          \* bound: crashes, database errors, edits, retries and late recoveries

Wakes == 1 .. MaxWakes
NoWake == 0

ASSUME WakesAssumption ==
  /\ MaxWakes \in Nat \ {0} /\ MAX_THREAD_WAKES \in Nat \ {0} /\ MaxLateWakes \in Nat
  /\ IsFiniteSet(WakeSlots) /\ WakeSlots # {}
  /\ MaxUpsets \in Nat

VARIABLES
  wake,         \* agent_wakeups, each with its message and its run
  owner,        \* agent_tasks.wake_id, per squad
  caller,       \* pollAgentWakeups, and the recovery that startAgentWakeupWorker sends
  recovered,    \* state.recovered
  worker,       \* runAgentWakeup
  upsets        \* history: how often each kind of trouble came

wakeVars == <<wake, owner, caller, recovered, worker, upsets>>
vars == <<boardVars, wakeVars>>

Callers == {"poll", "boot"}
\* late: a recovery sets the status of a wake-up that a worker here has.
Trouble == {"crash", "error", "edit", "retry", "late"}

NoRow == [status |-> "none", phase |-> "direct", run |-> "none", type |-> "none", sent |-> {}]
NewRow(type) == [NoRow EXCEPT !.status = "queued", !.type = type]
NoWork == [pc |-> "free", wake |-> NoWake, phase |-> "direct", squad |-> "none", back |-> "none",
           said |-> FALSE]
WorkerPCs == {"free", "begin", "turn", "squad", "linked", "ack", "phase", "insert", "count",
              "enqueue", "complete", "update", "failing", "failed"}

FamilyTypeOK ==
  /\ BoardTypeOK
  /\ upsets \in [Trouble -> 0 .. MaxUpsets]
  /\ wake \in [Wakes -> [status : {"none", "queued", "in_progress", "waiting_children",
                                   "completed", "failed"},
                         phase : {"direct", "review"},
                         run : {"none", "running", "succeeded", "failed"},
                         type : {"none", "request", "report"}, sent : SUBSET {"reply", "report"}]]
  /\ owner \in [Squads -> Wakes \cup {NoWake}]
  /\ caller \in [Callers -> {"idle", "completed", "failed", "queued", "recovered", "claim"}]
  /\ recovered \in BOOLEAN
  /\ worker \in [WakeSlots -> [pc : WorkerPCs, wake : Wakes \cup {NoWake},
                               phase : {"direct", "review"}, squad : Squads \cup {"none"},
                               back : {"none", "turn", "complete"}, said : BOOLEAN]]

\* The process has just started: with the database ready, a recovery is on its way.
Booting == {[c \in Callers |-> "idle"], [c \in Callers |-> IF c = "boot" THEN "completed" ELSE "idle"]}

FamilyInit ==
  /\ BoardInit
  /\ upsets = [k \in Trouble |-> 0]
  /\ wake = [w \in Wakes |-> IF w = 1 THEN NewRow("request") ELSE NoRow]
  /\ owner = [q \in Squads |-> NoWake]
  /\ caller \in Booting
  /\ recovered = FALSE
  /\ worker = [s \in WakeSlots |-> NoWork]

-----------------------------------------------------------------------------
Upset(k) ==
  /\ upsets["crash"] + upsets["error"] + upsets["edit"] + upsets["retry"] + upsets["late"]
       < MaxUpsets
  /\ upsets' = [upsets EXCEPT ![k] = @ + 1]

Children(w) == {t \in Tasks : owner[SquadOf[t]] = w /\ child[t] # "none"}
WakeCount == Cardinality({w \in Wakes : wake[w].status # "none"})
At(s, pc) == worker[s].pc = pc
Goes(s, pc) == worker' = [worker EXCEPT ![s].pc = pc]
Leaves(s) == worker' = [worker EXCEPT ![s] = NoWork]
Row(s) == wake[worker[s].wake]
SetRow(s, status, run) ==
  wake' = [wake EXCEPT ![worker[s].wake].status = status, ![worker[s].wake].run = run]

-----------------------------------------------------------------------------
(* worker.js and the statements of store.js                                *)

WakePollStarts ==
  /\ caller["poll"] = "idle" /\ \E s \in WakeSlots : At(s, "free")
  /\ caller' = [caller EXCEPT !["poll"] = IF recovered THEN "claim" ELSE "completed"]
  /\ UNCHANGED <<boardVars, wake, owner, recovered, worker, upsets>>

InHands(w) == \E s \in WakeSlots : ~At(s, "free") /\ worker[s].wake = w

\* A statement of the recovery sets the status of these wake-ups.
Recovers(c, ws, status, then) ==
  /\ wake' = [w \in Wakes |-> IF w \in ws THEN [wake[w] EXCEPT !.status = status] ELSE wake[w]]
  /\ IF \E w \in ws : InHands(w) THEN Upset("late") ELSE UNCHANGED upsets
  /\ caller' = [caller EXCEPT ![c] = then]
  /\ UNCHANGED <<boardVars, owner, recovered, worker>>

InProgress == {w \in Wakes : wake[w].status = "in_progress"}

\* Mutant: every wake-up in progress is queued again, whatever its run says.
SettleNothing(c) ==
  /\ caller[c] = "completed"
  /\ caller' = [caller EXCEPT ![c] = "queued"]
  /\ UNCHANGED <<boardVars, wake, owner, recovered, worker, upsets>>

\* requeueInProgressAgentWakeups settles first what its run has decided.
SettleByRun(c) ==
  \/ /\ caller[c] = "completed"
     /\ Recovers(c, {w \in InProgress : wake[w].run = "succeeded"}, "completed", "failed")
  \/ /\ caller[c] = "failed"
     /\ Recovers(c, {w \in InProgress : wake[w].run = "failed"}, "failed", "queued")

\* Mutant: only what already has a run is queued again.
RequeueStartedWakes(c) ==
  /\ caller[c] = "queued"
  /\ Recovers(c, {w \in InProgress : wake[w].run # "none"}, "queued", "recovered")

RequeueWakes(c) ==
  /\ caller[c] = "queued"
  /\ Recovers(c, InProgress, "queued", "recovered")

AfterRecovery(c) == IF c = "poll" THEN "claim" ELSE "idle"

WakesRecovered(c) ==
  /\ caller[c] = "recovered"
  /\ recovered' = TRUE
  /\ caller' = [caller EXCEPT ![c] = AfterRecovery(c)]
  /\ UNCHANGED <<boardVars, wake, owner, worker, upsets>>

Claimable(w) ==
  \/ wake[w].status = "queued"
  \/ wake[w].status = "waiting_children" /\ \A t \in Children(w) : child[t] = "ended"

ClaimWake(w, s) ==
  /\ caller["poll"] = "claim" /\ Claimable(w) /\ At(s, "free")
  /\ wake' = [wake EXCEPT ![w].status = "in_progress"]
  /\ worker' = [worker EXCEPT ![s] = [NoWork EXCEPT !.pc = "begin", !.wake = w]]
  /\ caller' = [caller EXCEPT !["poll"] = "idle"]
  /\ UNCHANGED <<boardVars, owner, recovered, upsets>>

NoWakeToClaim ==
  /\ caller["poll"] = "claim" /\ \A w \in Wakes : ~Claimable(w)
  /\ caller' = [caller EXCEPT !["poll"] = "idle"]
  /\ UNCHANGED <<boardVars, wake, owner, recovered, worker, upsets>>

\* A database error ends the recovery, and the poll that awaits it; the next one tries again.
WakeCallFails(c) ==
  /\ caller[c] \notin {"idle", "recovered"} /\ Upset("error")
  /\ caller' = [caller EXCEPT ![c] = "idle"]
  /\ UNCHANGED <<boardVars, wake, owner, recovered, worker>>

-----------------------------------------------------------------------------
(* sendAgentMessage, from a tool of the turn or with the final answer      *)

Kind(s) == IF worker[s].back = "turn" THEN "reply" ELSE "report"
\* Back to the turn, or on to the receipt of the run.
SendReturns(s) ==
  worker' = [worker EXCEPT ![s].pc = worker[s].back, ![s].back = "none"]

\* Stored, unless the same words were stored a short while ago (idempotency_key).
StoreMessage(s) ==
  /\ At(s, "insert")
  /\ \/ /\ Kind(s) \in Row(s).sent
        /\ SendReturns(s) /\ UNCHANGED wake
     \/ /\ wake' = [wake EXCEPT ![worker[s].wake].sent = @ \cup {Kind(s)}]
        /\ Goes(s, "count")
  /\ UNCHANGED <<boardVars, owner, caller, recovered, upsets>>

\* Where there may be one more row (the other guards may suppress any).
Roomy == WakeCount < MaxLateWakes \/ (caller["boot"] = "idle" /\ upsets["late"] = 0)

\* Mutant: the cap of the thread is not looked at.
DecideWakeUncapped(s) ==
  /\ At(s, "count")
  /\ SendReturns(s) \/ (WakeCount < MaxWakes /\ Roomy /\ Goes(s, "enqueue"))
  /\ UNCHANGED <<boardVars, wake, owner, caller, recovered, upsets>>

\* getThreadStats and decideThreadWake.
DecideWake(s) ==
  /\ At(s, "count")
  /\ SendReturns(s) \/ (WakeCount < MAX_THREAD_WAKES /\ Roomy /\ Goes(s, "enqueue"))
  /\ UNCHANGED <<boardVars, wake, owner, caller, recovered, upsets>>

EnqueueWake(s) ==
  /\ At(s, "enqueue")
  /\ wake' = [wake EXCEPT ![WakeCount + 1] =
                NewRow(IF worker[s].back = "turn" THEN "request" ELSE "report")]
  /\ SendReturns(s)
  /\ UNCHANGED <<boardVars, owner, caller, recovered, upsets>>

-----------------------------------------------------------------------------
(* runAgentWakeup                                                          *)

\* loadWakeupContext, beginWakeupRun and the first look at the children.
BeginWake(s) ==
  /\ At(s, "begin")
  /\ LET ended == Children(worker[s].wake) # {} /\ \A t \in Children(worker[s].wake) : child[t] = "ended" IN
     worker' = [worker EXCEPT ![s].pc = "turn", ![s].phase = IF ended THEN "review" ELSE Row(s).phase]
  /\ SetRow(s, Row(s).status, "running")
  /\ UNCHANGED <<boardVars, owner, caller, recovered, upsets>>

\* The model calls dispatch_squad, and goes on when the call returns.
TurnDispatches(s, q) ==
  /\ At(s, "turn") /\ StartDispatch(q)
  /\ owner' = [owner EXCEPT ![q] = worker[s].wake]
  /\ worker' = [worker EXCEPT ![s].pc = "squad", ![s].squad = q]
  /\ UNCHANGED <<wake, caller, recovered, upsets>>

SquadDispatched(s) ==
  /\ At(s, "squad") /\ dispatch[worker[s].squad] = "over"
  /\ worker' = [worker EXCEPT ![s].pc = "turn"]
  /\ UNCHANGED <<boardVars, wake, owner, caller, recovered, upsets>>

\* The model writes into the thread (bound: once in a turn).
TurnWrites(s) ==
  /\ At(s, "turn") /\ ~worker[s].said
  /\ worker' = [worker EXCEPT ![s].pc = "insert", ![s].back = "turn", ![s].said = TRUE]
  /\ UNCHANGED <<boardVars, wake, owner, caller, recovered, upsets>>

TurnEnds(s, pc) ==
  /\ At(s, "turn") /\ pc \in {"linked", "failing"}
  /\ Goes(s, pc)
  /\ UNCHANGED <<boardVars, wake, owner, caller, recovered, upsets>>

ReportDue(s) == Row(s).type # "report" \/ worker[s].phase = "review"

\* Mutant: only what this very turn has dispatched is waited for.
LookAgainThisTurn(s) ==
  /\ At(s, "linked")
  /\ IF worker[s].squad # "none" /\ \E t \in Children(worker[s].wake) : child[t] # "ended"
       THEN Goes(s, "ack")
       ELSE \/ Goes(s, "complete")
            \/ /\ ReportDue(s)
               /\ worker' = [worker EXCEPT ![s].pc = "insert", ![s].back = "complete"]
  /\ UNCHANGED <<boardVars, wake, owner, caller, recovered, upsets>>

\* The second look at the children decides whether the work is over; without an
\* answer in words there is nothing to report.
LookAgain(s) ==
  /\ At(s, "linked")
  /\ IF \E t \in Children(worker[s].wake) : child[t] # "ended"
       THEN Goes(s, "ack")
       ELSE \/ Goes(s, "complete")
            \/ /\ ReportDue(s)
               /\ worker' = [worker EXCEPT ![s].pc = "insert", ![s].back = "complete"]
  /\ UNCHANGED <<boardVars, wake, owner, caller, recovered, upsets>>

\* Mutant: a status the column does not take.
WaitForChildrenUnknown(s) ==
  /\ At(s, "ack")
  /\ wake' = [wake EXCEPT ![worker[s].wake].status = "delegated",
                          ![worker[s].wake].phase = "review"]
  /\ Goes(s, "phase")
  /\ UNCHANGED <<boardVars, owner, caller, recovered, upsets>>

\* The acknowledgement never wakes anybody.
WaitForChildren(s) ==
  /\ At(s, "ack")
  /\ wake' = [wake EXCEPT ![worker[s].wake].status = "waiting_children",
                          ![worker[s].wake].phase = "review"]
  /\ Goes(s, "phase")
  /\ UNCHANGED <<boardVars, owner, caller, recovered, upsets>>

PhaseRecorded(s) ==
  /\ At(s, "phase") /\ Leaves(s)
  /\ UNCHANGED <<boardVars, wake, owner, caller, recovered, upsets>>

CompleteRun(s) ==
  /\ At(s, "complete")
  /\ SetRow(s, Row(s).status, "succeeded")
  /\ Goes(s, "update")
  /\ UNCHANGED <<boardVars, owner, caller, recovered, upsets>>

CompleteWake(s) ==
  /\ At(s, "update")
  /\ SetRow(s, "completed", Row(s).run)
  /\ Leaves(s)
  /\ UNCHANGED <<boardVars, owner, caller, recovered, upsets>>

FailRun(s) ==
  /\ At(s, "failing")
  /\ SetRow(s, Row(s).status, IF Row(s).run = "none" THEN "none" ELSE "failed")
  /\ Goes(s, "failed")
  /\ UNCHANGED <<boardVars, owner, caller, recovered, upsets>>

FailWake(s) ==
  /\ At(s, "failed")
  /\ SetRow(s, "failed", Row(s).run)
  /\ Leaves(s)
  /\ UNCHANGED <<boardVars, owner, caller, recovered, upsets>>

\* An error: the first read is outside the try block and leaves the row in progress, as does
\* one in the catch block when the row is marked; the run's own is swallowed there.
WakeThrows(s) ==
  /\ Upset("error")
  /\ \/ At(s, "begin") /\ (Leaves(s) \/ Goes(s, "failing"))
     \/ At(s, "failing") /\ Goes(s, "failed")
     \/ At(s, "failed") /\ Leaves(s)
     \/ worker[s].pc \in {"linked", "ack", "phase", "complete", "update"} /\ Goes(s, "failing")
     \/ /\ worker[s].pc \in {"insert", "count", "enqueue"}
        /\ IF worker[s].back = "turn" THEN SendReturns(s) ELSE Goes(s, "failing")
  /\ UNCHANGED <<boardVars, wake, owner, caller, recovered>>

-----------------------------------------------------------------------------
\* POST /agent-wakeups/:id/retry: the run stays the same.
Retry(w) ==
  /\ wake[w].status = "failed" /\ Upset("retry")
  /\ wake' = [wake EXCEPT ![w].status = "queued"]
  /\ UNCHANGED <<boardVars, owner, caller, recovered, worker>>

FamilyCrash ==
  /\ Upset("crash") /\ StopDispatches
  /\ caller' \in Booting
  /\ recovered' = FALSE
  /\ worker' = [s \in WakeSlots |-> NoWork]
  /\ UNCHANGED <<wake, owner>>

\* The squad's calls and tasks go their way.
BoardMoves ==
  /\ (\E t \in Tasks : AddChild(t) \/ EndChild(t)) \/ (\E q \in Squads : EndDispatch(q))
  /\ UNCHANGED wakeVars

SomebodyEdits(t, c) ==
  /\ Upset("edit") /\ EditChild(t, c)
  /\ UNCHANGED <<wake, owner, caller, recovered, worker>>

Recovery(c) == SettleByRun(c) \/ RequeueWakes(c) \/ WakesRecovered(c)

Poll ==
  \/ WakePollStarts \/ Recovery("poll") \/ NoWakeToClaim
  \/ \E w \in Wakes, s \in WakeSlots : ClaimWake(w, s)

Work(s) ==
  \/ BeginWake(s) \/ SquadDispatched(s) \/ TurnWrites(s)
  \/ \E q \in Squads : TurnDispatches(s, q)
  \/ TurnEnds(s, "linked") \/ TurnEnds(s, "failing")
  \/ StoreMessage(s) \/ DecideWake(s) \/ EnqueueWake(s)
  \/ LookAgain(s) \/ WaitForChildren(s) \/ PhaseRecorded(s)
  \/ CompleteRun(s) \/ CompleteWake(s) \/ FailRun(s) \/ FailWake(s)

FamilyNext ==
  \/ BoardMoves
  \/ \E t \in Tasks, c \in {"open", "ended"} : SomebodyEdits(t, c)
  \/ Poll \/ Recovery("boot")
  \/ \E c \in Callers : WakeCallFails(c)
  \/ \E s \in WakeSlots : Work(s) \/ WakeThrows(s)
  \/ \E w \in Wakes : Retry(w)
  \/ FamilyCrash

\* The timers fire, queries and model calls return: every poll and every run goes on,
\* and the task worker ends the tasks.
FamilyFairness ==
  /\ \A q \in Squads : WF_vars(EndDispatch(q) /\ UNCHANGED wakeVars)
  /\ \A t \in Tasks : WF_vars(EndChild(t) /\ UNCHANGED wakeVars)
  /\ WF_vars(Poll) /\ WF_vars(Recovery("boot"))
  /\ \A s \in WakeSlots : WF_vars(Work(s))

FamilySpec == FamilyInit /\ [][FamilyNext]_vars /\ FamilyFairness

-----------------------------------------------------------------------------
(* Properties.                                                             *)

\* A wake-up whose run has succeeded is never run again, even when the process stops
\* before the row is marked (requeueInProgressAgentWakeups), so its answer is not given twice.
\* (A database error, or a recovery that sets its status while a worker here has it, can
\* have it run again.)
SucceededIsNotRerun ==
  [][upsets'["error"] = 0 /\ upsets'["late"] = 0 =>
       \A w \in Wakes : wake[w].run = "succeeded" => wake'[w].run = "succeeded"]_vars

\* An agent reports only when every task it has dispatched for the wake-up has ended.  (An
\* error after it has begun to wait, and then a retry, or a recovery that sets its status
\* while a worker here has it, can put one wake-up into two hands.)
ReportsWhenChildrenEnded ==
  [][~edited' /\ upsets'["late"] = 0 /\ (upsets'["error"] = 0 \/ upsets'["retry"] = 0) =>
       \A w \in Wakes :
         "report" \in wake'[w].sent \ wake[w].sent => \A t \in Children(w) : child[t] = "ended"]_vars

\* The cap of a thread is read before the wake-up is enqueued (sendAgentMessage), so
\* writers that overlap may each pass it, but no more than one for each that can overlap.
WakesCapped == WakeCount <= MAX_THREAD_WAKES + Cardinality(WakeSlots) - 1

\* Threads "die on their own instead of looping forever" (threadGuards.js), however the
\* agents answer and across restarts: in the end every wake-up is settled, also one that
\* waits and is woken "again when all linked tasks finish" (prompt.js).  A database error
\* at the wrong place, or a task that is set to blocked by hand, can leave one open.
Settled == \A w \in Wakes : wake[w].status \in {"none", "completed", "failed"}
ThreadDies == <>[](Settled \/ upsets["error"] > 0 \/ edited)
=============================================================================
