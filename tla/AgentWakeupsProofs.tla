-------------------------- MODULE AgentWakeupsProofs --------------------------
(***************************************************************************)
(* Proofs about AgentWakeups: types, the cap of a thread, that a wake-up   *)
(* whose run has succeeded is not run again, and that an agent reports     *)
(* only when its tasks have ended.                                         *)
(***************************************************************************)
EXTENDS AgentWakeups, TLAPS, FiniteSetTheorems

WakeRow == [status : {"none", "queued", "in_progress", "waiting_children", "completed", "failed"},
            phase : {"direct", "review"},
            run : {"none", "running", "succeeded", "failed"},
            type : {"none", "request", "report"}, sent : SUBSET {"reply", "report"}]
WorkRow == [pc : WorkerPCs, wake : Wakes \cup {NoWake}, phase : {"direct", "review"},
            squad : Squads \cup {"none"}, back : {"none", "turn", "complete"}, said : BOOLEAN]

CallerPCs == {"idle", "completed", "failed", "queued", "recovered", "claim"}

\* The rows in use are the first ones.
Used == {w \in Wakes : wake[w].status # "none"}
PrefixInv == \E n \in 0 .. MaxWakes : Used = 1 .. n

\* A worker has a wake-up that exists; what it sends goes back to where it came from.
WorkKnown(row, rows) ==
  /\ row.pc # "free" => row.wake \in Wakes /\ rows[row.wake].status # "none"
  /\ row.pc \in {"insert", "count", "enqueue"} => row.back \in {"turn", "complete"}
  /\ row.pc = "squad" => row.squad \in Squads

\* Nobody works before a recovery is over, nor while the poll recovers.
RecoveryInv ==
  /\ ~recovered => caller["poll"] # "claim" /\ \A s \in WakeSlots : worker[s].pc = "free"
  /\ caller["poll"] \in {"completed", "failed", "queued", "recovered"} =>
       \A s \in WakeSlots : worker[s].pc = "free"

FamilyTyping ==
  /\ FamilyTypeOK
  /\ \A s \in WakeSlots : WorkKnown(worker[s], wake)
  /\ PrefixInv
  /\ RecoveryInv

\* No row is cleared, and the workers that may enqueue one more are few.
Enqueuing == {s \in WakeSlots : worker[s].pc = "enqueue"}
CapInv == WakeCount + Cardinality(Enqueuing) <= MAX_THREAD_WAKES + Cardinality(WakeSlots) - 1

\* Without an error or a late recovery, a wake-up that somebody works on is in progress and
\* in one pair of hands, and one whose run has succeeded waits only for its mark: from the
\* worker who has it, or from the first statement of a recovery.
Busy(s) == worker[s].pc \notin {"free", "phase"}
DoneInHands ==
  \A w \in Wakes : wake[w].status = "in_progress" /\ wake[w].run = "succeeded" =>
    \E s \in WakeSlots : Busy(s) /\ worker[s].wake = w
DoneInv ==
  upsets["error"] = 0 /\ upsets["late"] = 0 =>
    /\ \A s \in WakeSlots : Busy(s) =>
         /\ Row(s).status = "in_progress"
         /\ Row(s).run = "succeeded" => worker[s].pc = "update"
    /\ \A s, r \in WakeSlots : Busy(s) /\ Busy(r) /\ worker[s].wake = worker[r].wake => s = r
    /\ \A w \in Wakes : wake[w].run = "succeeded" => wake[w].status \in {"in_progress", "completed"}
    /\ \A c \in Callers : caller[c] \in {"failed", "queued", "recovered"} => DoneInHands

\* Also with errors, as long as nobody retries, one worker at a time is in the agent's turn.
Turning(s) == worker[s].pc \notin {"free", "phase", "failing", "failed"}
TurnInv ==
  upsets["late"] = 0 /\ (upsets["error"] = 0 \/ upsets["retry"] = 0) =>
    /\ \A s, r \in WakeSlots : Turning(s) /\ Turning(r) /\ worker[s].wake = worker[r].wake => s = r
    /\ \A s \in WakeSlots : Turning(s) => Row(s).status \notin {"queued", "waiting_children"}

\* A squad is being inserted while its worker waits for the call; a report that is being
\* stored is one for ended tasks.
SquadInv ==
  \A q \in Squads :
    /\ dispatch[q] = "inserting" =>
         \E s \in WakeSlots : worker[s].pc = "squad" /\ worker[s].squad = q /\ worker[s].wake = owner[q]
    /\ dispatch[q] = "no" => \A t \in Tasks : SquadOf[t] = q => child[t] = "none"
ChildrenInv ==
  ~edited /\ upsets["late"] = 0 /\ (upsets["error"] = 0 \/ upsets["retry"] = 0) =>
    \A s \in WakeSlots : worker[s].pc = "insert" /\ worker[s].back = "complete" =>
      \A t \in Children(worker[s].wake) : child[t] = "ended"

FamilyInv == FamilyTyping /\ CapInv /\ DoneInv /\ TurnInv /\ SquadInv /\ ChildrenInv

-----------------------------------------------------------------------------
(* Types.                                                                  *)

LEMMA UpsetCounts ==
  ASSUME upsets \in [Trouble -> 0 .. MaxUpsets], NEW k \in Trouble, Upset(k)
  PROVE  /\ upsets' \in [Trouble -> 0 .. MaxUpsets]
         /\ upsets'[k] # 0
         /\ \A j \in Trouble : j # k => upsets'[j] = upsets[j]
<1>1. /\ upsets["crash"] \in 0 .. MaxUpsets /\ upsets["error"] \in 0 .. MaxUpsets
      /\ upsets["edit"] \in 0 .. MaxUpsets /\ upsets["retry"] \in 0 .. MaxUpsets
      /\ upsets["late"] \in 0 .. MaxUpsets
      /\ upsets["crash"] + upsets["error"] + upsets["edit"] + upsets["retry"] + upsets["late"] < MaxUpsets
      /\ upsets' = [upsets EXCEPT ![k] = upsets[k] + 1]
  BY DEF Upset, Trouble
<1>2. MaxUpsets \in Nat
  BY WakesAssumption
<1>3. upsets[k] + 1 \in 0 .. MaxUpsets /\ upsets[k] + 1 # 0
  BY <1>1, <1>2 DEF Trouble
<1> QED BY <1>1, <1>3

LEMMA NoWorkTyped == NoWork \in WorkRow /\ \A rows : WorkKnown(NoWork, rows)
  BY DEF NoWork, WorkRow, WorkerPCs, WorkKnown

LEMMA NewRowTyped ==
  \A type \in {"request", "report"} :
    NewRow(type) \in WakeRow /\ NewRow(type).status = "queued" /\ NewRow(type).run = "none"
    /\ NewRow(type).sent = {}
  BY DEF NewRow, NoRow, WakeRow

LEMMA NoRowTyped == NoRow \in WakeRow /\ NoRow.status = "none" /\ NoRow.run = "none"
  BY DEF NoRow, WakeRow

\* Where a worker may go.
LEMMA WorkRows ==
  ASSUME NEW old \in WorkRow, NEW rows, WorkKnown(old, rows), old.pc # "free"
  PROVE  /\ \A pc \in WorkerPCs \ {"insert", "count", "enqueue", "squad"} :
              [old EXCEPT !.pc = pc] \in WorkRow /\ WorkKnown([old EXCEPT !.pc = pc], rows)
         /\ \A pc \in {"count", "enqueue"} : old.pc \in {"insert", "count"} =>
              [old EXCEPT !.pc = pc] \in WorkRow /\ WorkKnown([old EXCEPT !.pc = pc], rows)
         /\ old.pc \in {"insert", "count", "enqueue"} =>
              /\ [old EXCEPT !.pc = old.back, !.back = "none"] \in WorkRow
              /\ WorkKnown([old EXCEPT !.pc = old.back, !.back = "none"], rows)
         /\ \A phase \in {"direct", "review"} :
              /\ [old EXCEPT !.pc = "turn", !.phase = phase] \in WorkRow
              /\ WorkKnown([old EXCEPT !.pc = "turn", !.phase = phase], rows)
         /\ \A q \in Squads :
              /\ [old EXCEPT !.pc = "squad", !.squad = q] \in WorkRow
              /\ WorkKnown([old EXCEPT !.pc = "squad", !.squad = q], rows)
         /\ /\ [old EXCEPT !.pc = "insert", !.back = "turn", !.said = TRUE] \in WorkRow
            /\ WorkKnown([old EXCEPT !.pc = "insert", !.back = "turn", !.said = TRUE], rows)
         /\ /\ [old EXCEPT !.pc = "insert", !.back = "complete"] \in WorkRow
            /\ WorkKnown([old EXCEPT !.pc = "insert", !.back = "complete"], rows)
<1>1. \A pc \in WorkerPCs \ {"insert", "count", "enqueue", "squad"} :
        [old EXCEPT !.pc = pc] \in WorkRow /\ WorkKnown([old EXCEPT !.pc = pc], rows)
  BY DEF WorkRow, WorkKnown
<1>2. \A pc \in {"count", "enqueue"} : old.pc \in {"insert", "count"} =>
        [old EXCEPT !.pc = pc] \in WorkRow /\ WorkKnown([old EXCEPT !.pc = pc], rows)
  BY DEF WorkRow, WorkerPCs, WorkKnown
<1>3. old.pc \in {"insert", "count", "enqueue"} =>
        /\ [old EXCEPT !.pc = old.back, !.back = "none"] \in WorkRow
        /\ WorkKnown([old EXCEPT !.pc = old.back, !.back = "none"], rows)
  BY DEF WorkRow, WorkerPCs, WorkKnown
<1>4. \A phase \in {"direct", "review"} :
        /\ [old EXCEPT !.pc = "turn", !.phase = phase] \in WorkRow
        /\ WorkKnown([old EXCEPT !.pc = "turn", !.phase = phase], rows)
  BY DEF WorkRow, WorkerPCs, WorkKnown
<1>5. \A q \in Squads :
        /\ [old EXCEPT !.pc = "squad", !.squad = q] \in WorkRow
        /\ WorkKnown([old EXCEPT !.pc = "squad", !.squad = q], rows)
  BY DEF WorkRow, WorkerPCs, WorkKnown
<1>6. /\ [old EXCEPT !.pc = "insert", !.back = "turn", !.said = TRUE] \in WorkRow
      /\ WorkKnown([old EXCEPT !.pc = "insert", !.back = "turn", !.said = TRUE], rows)
  BY DEF WorkRow, WorkerPCs, WorkKnown
<1>7. /\ [old EXCEPT !.pc = "insert", !.back = "complete"] \in WorkRow
      /\ WorkKnown([old EXCEPT !.pc = "insert", !.back = "complete"], rows)
  BY DEF WorkRow, WorkerPCs, WorkKnown
<1> QED BY <1>1, <1>2, <1>3, <1>4, <1>5, <1>6, <1>7

WorkTyping == worker \in [WakeSlots -> WorkRow] /\ \A s \in WakeSlots : WorkKnown(worker[s], wake)

LEMMA FamilyTypes ==
  FamilyTypeOK <=> /\ BoardTypeOK
                   /\ upsets \in [Trouble -> 0 .. MaxUpsets]
                   /\ wake \in [Wakes -> WakeRow]
                   /\ owner \in [Squads -> Wakes \cup {NoWake}]
                   /\ caller \in [Callers -> CallerPCs]
                   /\ recovered \in BOOLEAN
                   /\ worker \in [WakeSlots -> WorkRow]
  BY DEF FamilyTypeOK, WakeRow, WorkRow, CallerPCs

\* What one worker does with its row.
LEMMA WorkerTyped ==
  ASSUME WorkTyping, NEW s \in WakeSlots, NEW row \in WorkRow, WorkKnown(row, wake),
         worker' = [worker EXCEPT ![s] = row],
         \A w \in Wakes : wake[w].status # "none" => wake'[w].status # "none"
  PROVE  WorkTyping'
<1>1. \A r \in WakeSlots : worker'[r] \in WorkRow /\ WorkKnown(worker'[r], wake)
  BY DEF WorkTyping
<1>2. \A r \in WakeSlots : WorkKnown(worker'[r], wake')
  BY <1>1 DEF WorkKnown
<1> QED BY <1>2 DEF WorkTyping, WorkKnown

\* A statement of a recovery sets one status; nobody has such a wake-up unless it is late.
Sets(ws, status) ==
  /\ wake' = [w \in Wakes |-> IF w \in ws THEN [wake[w] EXCEPT !.status = status] ELSE wake[w]]
  /\ IF \E w \in ws : InHands(w) THEN Upset("late") ELSE UNCHANGED upsets

LEMMA RecoveryStep ==
  ASSUME FamilyTypeOK, NEW c \in Callers, Recovery(c)
  PROVE  /\ UNCHANGED <<boardVars, owner, worker>>
         /\ \E ws \in SUBSET InProgress, status \in {"completed", "failed", "queued"} : Sets(ws, status)
<1>1. \A ws, status, then :
        Recovers(c, ws, status, then) => UNCHANGED <<boardVars, owner, worker>> /\ Sets(ws, status)
  BY DEF Recovers, Sets
<1>2. CASE SettleByRun(c)
  <2> DEFINE succeeded == {w \in InProgress : wake[w].run = "succeeded"}
             failed == {w \in InProgress : wake[w].run = "failed"}
  <2>1. succeeded \in SUBSET InProgress /\ failed \in SUBSET InProgress
    OBVIOUS
  <2>2. Recovers(c, succeeded, "completed", "failed") \/ Recovers(c, failed, "failed", "queued")
    BY <1>2 DEF SettleByRun
  <2> HIDE DEF succeeded, failed
  <2>3. UNCHANGED <<boardVars, owner, worker>> /\ (Sets(succeeded, "completed") \/ Sets(failed, "failed"))
    BY <1>1, <2>2
  <2> QED BY <2>1, <2>3
<1>3. CASE RequeueWakes(c)
  <2>1. UNCHANGED <<boardVars, owner, worker>> /\ Sets(InProgress, "queued")
    BY <1>1, <1>3 DEF RequeueWakes
  <2>2. InProgress \in SUBSET InProgress
    OBVIOUS
  <2> QED BY <2>1, <2>2
<1>4. CASE WakesRecovered(c)
  <2>1. wake' = wake /\ wake \in [Wakes -> WakeRow] /\ UNCHANGED <<boardVars, owner, worker, upsets>>
    BY <1>4, FamilyTypes DEF WakesRecovered
  <2>2. Sets({}, "failed")
    BY <2>1 DEF Sets
  <2>3. {} \in SUBSET InProgress
    OBVIOUS
  <2> QED BY <2>1, <2>2, <2>3
<1> QED BY <1>2, <1>3, <1>4 DEF Recovery

LEMMA WakeTyped ==
  ASSUME FamilyTyping, FamilyNext
  PROVE  /\ wake' \in [Wakes -> WakeRow]
         /\ \A w \in Wakes : wake[w].status # "none" => wake'[w].status # "none"
<1> DEFINE Goal == /\ wake' \in [Wakes -> WakeRow]
                   /\ \A w \in Wakes : wake[w].status # "none" => wake'[w].status # "none"
<1>0. wake \in [Wakes -> WakeRow] /\ worker \in [WakeSlots -> WorkRow]
  BY FamilyTypes DEF FamilyTyping
<1>1. ASSUME NEW w \in Wakes, NEW row \in WakeRow, row.status # "none", wake' = [wake EXCEPT ![w] = row]
      PROVE  Goal
  BY <1>0, <1>1
<1>2. CASE UNCHANGED wake
  BY <1>0, <1>2
<1>3. CASE \E c \in Callers : Recovery(c)
  <2>1. \A w \in Wakes, status \in {"completed", "failed", "queued"} :
          [wake[w] EXCEPT !.status = status] \in WakeRow
          /\ [wake[w] EXCEPT !.status = status].status # "none"
    BY <1>0 DEF WakeRow
  <2>3. PICK W \in SUBSET InProgress, status \in {"completed", "failed", "queued"} :
          wake' = [w \in Wakes |-> IF w \in W THEN [wake[w] EXCEPT !.status = status] ELSE wake[w]]
    <3>1. \E ws \in SUBSET InProgress, status \in {"completed", "failed", "queued"} : Sets(ws, status)
      BY <1>3, RecoveryStep DEF FamilyTyping
    <3> QED BY <3>1 DEF Sets
  <2>4. wake' \in [Wakes -> WakeRow]
    BY <1>0, <2>1, <2>3
  <2>5. \A w \in Wakes : wake[w].status # "none" => wake'[w].status # "none"
    <3>2. ASSUME NEW w \in Wakes, wake[w].status # "none" PROVE wake'[w].status # "none"
      <4>1. wake'[w] = IF w \in W THEN [wake[w] EXCEPT !.status = status] ELSE wake[w]
        BY <2>3
      <4>2. [wake[w] EXCEPT !.status = status].status # "none"
        BY <2>1
      <4> QED BY <3>2, <4>1, <4>2
    <3> QED BY <3>2
  <2> QED BY <2>4, <2>5
<1>4. ASSUME NEW w \in Wakes, NEW s \in WakeSlots, ClaimWake(w, s) PROVE Goal
  BY <1>0, <1>4 DEF ClaimWake, WakeRow
<1>5. ASSUME NEW w \in Wakes, Retry(w) PROVE Goal
  BY <1>0, <1>5 DEF Retry, WakeRow
<1>6. ASSUME NEW s \in WakeSlots, Work(s) PROVE Goal
  <2>1. CASE EnqueueWake(s)
    <3>1. \E type \in {"request", "report"} : wake' = [wake EXCEPT ![WakeCount + 1] = NewRow(type)]
      BY <2>1 DEF EnqueueWake
    <3> QED BY <1>0, <3>1, NewRowTyped
  <2>2. CASE UNCHANGED wake
    BY <1>2, <2>2
  <2> DEFINE w == worker[s].wake
  <2>3. worker[s].pc # "free" => w \in Wakes /\ wake[w] \in WakeRow /\ wake[w].status # "none"
    BY <1>0 DEF FamilyTyping, WorkKnown
  <2>4. CASE StoreMessage(s)
    <3>1. \/ UNCHANGED wake
          \/ \E kind \in {"reply", "report"} :
               wake' = [wake EXCEPT ![w] = [wake[w] EXCEPT !.sent = @ \cup {kind}]]
      BY <1>0, <2>3, <2>4 DEF StoreMessage, At, Kind
    <3>2. \A kind \in {"reply", "report"} :
            worker[s].pc # "free" => [wake[w] EXCEPT !.sent = @ \cup {kind}] \in WakeRow
               /\ [wake[w] EXCEPT !.sent = @ \cup {kind}].status # "none"
      BY <2>3 DEF WakeRow
    <3>3. worker[s].pc # "free"
      BY <2>4 DEF StoreMessage, At
    <3> QED BY <1>0, <1>1, <2>3, <3>1, <3>2, <3>3
  <2>5. CASE BeginWake(s) \/ CompleteRun(s) \/ CompleteWake(s) \/ FailRun(s) \/ FailWake(s)
    <3>1. worker[s].pc # "free" /\
          \E status \in {wake[w].status, "completed", "failed"}, run \in {"running", "succeeded", "failed", wake[w].run} :
            wake' = [wake EXCEPT ![w].status = status, ![w].run = run]
      <4>1. \A status, run : SetRow(s, status, run) <=> wake' = [wake EXCEPT ![w].status = status, ![w].run = run]
        BY DEF SetRow
      <4>2. worker[s].pc # "free"
        BY <2>5 DEF BeginWake, CompleteRun, CompleteWake, FailRun, FailWake, At
      <4>3. \E status \in {wake[w].status, "completed", "failed"}, run \in {"running", "succeeded", "failed", wake[w].run} :
              SetRow(s, status, run)
        BY <2>5 DEF BeginWake, CompleteRun, CompleteWake, FailRun, FailWake, Row
      <4>4. PICK status \in {wake[w].status, "completed", "failed"}, run \in {"running", "succeeded", "failed", wake[w].run} :
              SetRow(s, status, run)
        BY <4>3
      <4>5. wake' = [wake EXCEPT ![w].status = status, ![w].run = run]
        BY <4>1, <4>4
      <4> QED BY <4>2, <4>5
    <3> QED BY <1>0, <2>3, <3>1 DEF WakeRow
  <2>6. CASE WaitForChildren(s)
    <3>1. worker[s].pc # "free"
      BY <2>6 DEF WaitForChildren, At
    <3> QED BY <1>0, <2>3, <2>6, <3>1 DEF WaitForChildren, WakeRow
  <2> QED
    BY <1>6, <2>1, <2>2, <2>4, <2>5, <2>6
    DEF Work, SquadDispatched, TurnWrites, TurnDispatches, TurnEnds, DecideWake, LookAgain, PhaseRecorded
<1> QED
  BY <1>2, <1>3, <1>4, <1>5, <1>6
  DEF FamilyNext, BoardMoves, SomebodyEdits, Callers, Poll, WakeCallFails, WakeThrows, FamilyCrash,
      WakePollStarts, NoWakeToClaim, wakeVars

LEMMA WorkTyped ==
  ASSUME FamilyTyping, FamilyNext
  PROVE  WorkTyping'
<1>0. WorkTyping /\ wake \in [Wakes -> WakeRow]
  BY FamilyTypes DEF FamilyTyping, WorkTyping
<1>1. \A w \in Wakes : wake[w].status # "none" => wake'[w].status # "none"
  BY WakeTyped
<1>2. ASSUME UNCHANGED worker PROVE WorkTyping'
  BY <1>0, <1>1, <1>2 DEF WorkTyping, WorkKnown
<1>3. ASSUME NEW s \in WakeSlots, NEW row \in WorkRow, WorkKnown(row, wake),
             worker' = [worker EXCEPT ![s] = row]
      PROVE  WorkTyping'
  BY <1>0, <1>1, <1>3, WorkerTyped
<1>4. ASSUME NEW s \in WakeSlots, worker[s].pc # "free",
             NEW pc \in WorkerPCs \ {"insert", "count", "enqueue", "squad"}, Goes(s, pc)
      PROVE  WorkTyping'
  <2>1. worker[s] \in WorkRow /\ WorkKnown(worker[s], wake)
    BY <1>0 DEF WorkTyping
  <2>2. worker' = [worker EXCEPT ![s] = [worker[s] EXCEPT !.pc = pc]]
    BY <1>4 DEF Goes
  <2>3. [worker[s] EXCEPT !.pc = pc] \in WorkRow /\ WorkKnown([worker[s] EXCEPT !.pc = pc], wake)
    BY <1>4, <2>1, WorkRows
  <2> QED BY <1>3, <2>2, <2>3
<1>5. ASSUME NEW s \in WakeSlots, worker[s].pc \in {"insert", "count"},
             NEW pc \in {"count", "enqueue"}, Goes(s, pc)
      PROVE  WorkTyping'
  <2>1. worker[s] \in WorkRow /\ WorkKnown(worker[s], wake) /\ worker[s].pc # "free"
    BY <1>0, <1>5 DEF WorkTyping
  <2>2. worker' = [worker EXCEPT ![s] = [worker[s] EXCEPT !.pc = pc]]
    BY <1>5 DEF Goes
  <2>3. [worker[s] EXCEPT !.pc = pc] \in WorkRow /\ WorkKnown([worker[s] EXCEPT !.pc = pc], wake)
    BY <1>5, <2>1, WorkRows
  <2> QED BY <1>3, <2>2, <2>3
<1>6. ASSUME NEW s \in WakeSlots, worker[s].pc \in {"insert", "count", "enqueue"}, SendReturns(s)
      PROVE  WorkTyping'
  <2>1. worker[s] \in WorkRow /\ WorkKnown(worker[s], wake) /\ worker[s].pc # "free"
    BY <1>0, <1>6 DEF WorkTyping
  <2> DEFINE row == [worker[s] EXCEPT !.pc = worker[s].back, !.back = "none"]
  <2>2. worker' = [worker EXCEPT ![s] = row]
    BY <1>6, <1>0 DEF SendReturns, WorkTyping, WorkRow
  <2>3. row \in WorkRow /\ WorkKnown(row, wake)
    BY <1>6, <2>1, WorkRows
  <2> HIDE DEF row
  <2> QED BY <1>3, <2>2, <2>3
<1>7. ASSUME NEW s \in WakeSlots, Leaves(s) PROVE WorkTyping'
  BY <1>3, <1>7, NoWorkTyped DEF Leaves
<1>8. ASSUME NEW s \in WakeSlots, Work(s) PROVE WorkTyping'
  <2>1. worker[s] \in WorkRow /\ WorkKnown(worker[s], wake)
    BY <1>0 DEF WorkTyping
  <2>2. CASE BeginWake(s)
    <3>1. PICK phase \in {"direct", "review"} : worker' = [worker EXCEPT ![s].pc = "turn", ![s].phase = phase]
      <4>1. worker[s].wake \in Wakes
        BY <2>1, <2>2 DEF BeginWake, At, WorkKnown
      <4>2. Row(s).phase \in {"direct", "review"}
        BY <1>0, <4>1 DEF Row, WakeRow
      <4> QED BY <2>2, <4>2 DEF BeginWake
    <3>2. worker' = [worker EXCEPT ![s] = [worker[s] EXCEPT !.pc = "turn", !.phase = phase]]
      BY <1>0, <3>1 DEF WorkTyping, WorkRow
    <3>3. worker[s].pc # "free"
      BY <2>2 DEF BeginWake, At
    <3> QED BY <1>3, <2>1, <3>2, <3>3, WorkRows
  <2>3. ASSUME NEW q \in Squads, TurnDispatches(s, q) PROVE WorkTyping'
    <3>1. worker' = [worker EXCEPT ![s] = [worker[s] EXCEPT !.pc = "squad", !.squad = q]]
      BY <1>0, <2>3 DEF TurnDispatches, WorkTyping, WorkRow
    <3>2. worker[s].pc # "free"
      BY <2>3 DEF TurnDispatches, At
    <3> QED BY <1>3, <2>1, <3>1, <3>2, WorkRows
  <2>4. CASE TurnWrites(s)
    <3>1. worker' = [worker EXCEPT ![s] = [worker[s] EXCEPT !.pc = "insert", !.back = "turn", !.said = TRUE]]
      BY <1>0, <2>4 DEF TurnWrites, WorkTyping, WorkRow
    <3>2. worker[s].pc # "free"
      BY <2>4 DEF TurnWrites, At
    <3> QED BY <1>3, <2>1, <3>1, <3>2, WorkRows
  <2>5. CASE LookAgain(s)
    <3>1. CASE Goes(s, "ack") \/ Goes(s, "complete")
      BY <1>4, <2>5, <3>1 DEF LookAgain, At, WorkerPCs
    <3>2. CASE worker' = [worker EXCEPT ![s].pc = "insert", ![s].back = "complete"]
      <4>1. worker' = [worker EXCEPT ![s] = [worker[s] EXCEPT !.pc = "insert", !.back = "complete"]]
        BY <1>0, <3>2 DEF WorkTyping, WorkRow
      <4>2. worker[s].pc # "free"
        BY <2>5 DEF LookAgain, At
      <4> QED BY <1>3, <2>1, <4>1, <4>2, WorkRows
    <3> QED BY <2>5, <3>1, <3>2 DEF LookAgain
  <2>6. CASE StoreMessage(s)
    BY <1>5, <1>6, <2>6 DEF StoreMessage, At
  <2>7. CASE DecideWake(s)
    BY <1>5, <1>6, <2>7 DEF DecideWake, At
  <2>8. CASE EnqueueWake(s)
    BY <1>6, <2>8 DEF EnqueueWake, At
  <2>9. CASE PhaseRecorded(s) \/ CompleteWake(s) \/ FailWake(s)
    BY <1>7, <2>9 DEF PhaseRecorded, CompleteWake, FailWake
  <2>10. CASE WaitForChildren(s) \/ CompleteRun(s) \/ FailRun(s)
    BY <1>4, <2>10 DEF WaitForChildren, CompleteRun, FailRun, At, WorkerPCs
  <2>11. CASE SquadDispatched(s) \/ TurnEnds(s, "linked") \/ TurnEnds(s, "failing")
    BY <1>4, <2>11 DEF SquadDispatched, TurnEnds, At, Goes, WorkerPCs
  <2> QED
    BY <1>8, <2>2, <2>3, <2>4, <2>5, <2>6, <2>7, <2>8, <2>9, <2>10, <2>11 DEF Work
<1>9. ASSUME NEW s \in WakeSlots, WakeThrows(s) PROVE WorkTyping'
  <2>1. worker[s].pc # "free"
    BY <1>9 DEF WakeThrows, At
  <2>2. \/ Leaves(s) \/ Goes(s, "failing") \/ Goes(s, "failed")
        \/ worker[s].pc \in {"insert", "count", "enqueue"} /\ SendReturns(s)
    BY <1>9 DEF WakeThrows
  <2> QED BY <1>4, <1>6, <1>7, <2>1, <2>2 DEF WorkerPCs
<1>10. ASSUME NEW w \in Wakes, NEW s \in WakeSlots, ClaimWake(w, s) PROVE WorkTyping'
  <2> DEFINE row == [NoWork EXCEPT !.pc = "begin", !.wake = w]
  <2>1. row \in WorkRow /\ WorkKnown(row, wake)
    <3>1. wake[w].status # "none"
      BY <1>10 DEF ClaimWake, Claimable
    <3> QED BY <3>1 DEF NoWork, WorkRow, WorkerPCs, WorkKnown
  <2>2. worker' = [worker EXCEPT ![s] = row]
    BY <1>10 DEF ClaimWake
  <2> HIDE DEF row
  <2> QED BY <1>3, <2>1, <2>2
<1>11. CASE FamilyCrash
  BY <1>11, NoWorkTyped DEF FamilyCrash, WorkTyping
<1> QED
  BY <1>2, <1>8, <1>9, <1>10, <1>11
  DEF FamilyNext, BoardMoves, SomebodyEdits, Poll, Recovery, WakeCallFails, Retry, SettleByRun, Recovers,
      RequeueWakes, WakePollStarts, WakesRecovered, NoWakeToClaim, wakeVars

LEMMA OthersTyped ==
  ASSUME FamilyTyping, FamilyNext
  PROVE  /\ BoardTypeOK'
         /\ upsets' \in [Trouble -> 0 .. MaxUpsets]
         /\ owner' \in [Squads -> Wakes \cup {NoWake}]
         /\ caller' \in [Callers -> CallerPCs]
         /\ recovered' \in BOOLEAN
<1>0. /\ BoardTypeOK /\ upsets \in [Trouble -> 0 .. MaxUpsets]
      /\ owner \in [Squads -> Wakes \cup {NoWake}]
      /\ caller \in [Callers -> CallerPCs]
      /\ recovered \in BOOLEAN
      /\ \A s \in WakeSlots : WorkKnown(worker[s], wake)
  BY FamilyTypes DEF FamilyTyping
<1>1. BoardTypeOK'
  <2>1. CASE UNCHANGED boardVars
    BY <1>0, <2>1 DEF BoardTypeOK, boardVars
  <2>2. CASE BoardMoves
    BY <1>0, <2>2 DEF BoardMoves, AddChild, EndChild, EndDispatch, BoardTypeOK
  <2>3. ASSUME NEW s \in WakeSlots, NEW q \in Squads, TurnDispatches(s, q) PROVE BoardTypeOK'
    BY <1>0, <2>3 DEF TurnDispatches, StartDispatch, BoardTypeOK
  <2>4. ASSUME NEW t \in Tasks, NEW c \in {"open", "ended"}, SomebodyEdits(t, c) PROVE BoardTypeOK'
    BY <1>0, <2>4 DEF SomebodyEdits, EditChild, BoardTypeOK
  <2>5. CASE FamilyCrash
    BY <1>0, <2>5 DEF FamilyCrash, StopDispatches, BoardTypeOK
  <2> QED
    BY <2>1, <2>2, <2>3, <2>4, <2>5
    DEF FamilyNext, Poll, Recovery, WakeCallFails, WakeThrows, Retry, Work, BeginWake, SquadDispatched,
        TurnWrites, TurnEnds, StoreMessage, DecideWake, EnqueueWake, LookAgain, WaitForChildren,
        PhaseRecorded, CompleteRun, CompleteWake, FailRun, FailWake, WakePollStarts, SettleByRun,
        Recovers, RequeueWakes, WakesRecovered, NoWakeToClaim, ClaimWake
<1>2. upsets' \in [Trouble -> 0 .. MaxUpsets]
  <2>1. UNCHANGED upsets \/ \E k \in Trouble : Upset(k)
    BY DEF FamilyNext, Poll, Recovery, WakeCallFails, WakeThrows, Retry, Work, BeginWake, SquadDispatched,
        TurnWrites, TurnEnds, StoreMessage, DecideWake, EnqueueWake, LookAgain, WaitForChildren,
        PhaseRecorded, CompleteRun, CompleteWake, FailRun, FailWake, WakePollStarts, SettleByRun,
        Recovers, RequeueWakes, WakesRecovered, NoWakeToClaim, ClaimWake, TurnDispatches, BoardMoves,
        SomebodyEdits, FamilyCrash, wakeVars, Trouble
  <2> QED BY <1>0, <2>1, UpsetCounts
<1>3. owner' \in [Squads -> Wakes \cup {NoWake}]
  <2>1. UNCHANGED owner \/ \E s \in WakeSlots, q \in Squads : TurnDispatches(s, q)
    BY DEF FamilyNext, Poll, Recovery, WakeCallFails, WakeThrows, Retry, Work, BeginWake, SquadDispatched,
        TurnWrites, TurnEnds, StoreMessage, DecideWake, EnqueueWake, LookAgain, WaitForChildren,
        PhaseRecorded, CompleteRun, CompleteWake, FailRun, FailWake, WakePollStarts, SettleByRun,
        Recovers, RequeueWakes, WakesRecovered, NoWakeToClaim, ClaimWake, BoardMoves,
        SomebodyEdits, FamilyCrash, wakeVars
  <2>2. ASSUME NEW s \in WakeSlots, NEW q \in Squads, TurnDispatches(s, q)
        PROVE  owner' \in [Squads -> Wakes \cup {NoWake}]
    <3>1. worker[s].wake \in Wakes
      BY <1>0, <2>2 DEF TurnDispatches, At, WorkKnown
    <3> QED BY <1>0, <2>2, <3>1 DEF TurnDispatches
  <2> QED BY <1>0, <2>1, <2>2
<1>4. /\ caller' \in [Callers -> CallerPCs]
      /\ recovered' \in BOOLEAN
  <2> DEFINE Goal == /\ caller' \in [Callers -> CallerPCs]
                     /\ recovered' \in BOOLEAN
  <2>1. CASE UNCHANGED <<caller, recovered>>
    BY <1>0, <2>1
  <2>2. CASE Poll \/ Recovery("boot") \/ (\E c \in Callers : WakeCallFails(c))
    BY <1>0, <2>2
    DEF Poll, Recovery, WakeCallFails, WakePollStarts, SettleByRun, Recovers, RequeueWakes, WakesRecovered,
        AfterRecovery, NoWakeToClaim, ClaimWake, CallerPCs
  <2>3. CASE FamilyCrash
    BY <2>3 DEF FamilyCrash, Booting, CallerPCs
  <2>4. ASSUME NEW s \in WakeSlots, Work(s) \/ WakeThrows(s) PROVE UNCHANGED <<caller, recovered>>
    BY <2>4
    DEF WakeThrows, Work, BeginWake, SquadDispatched, TurnDispatches,
        TurnWrites, TurnEnds, StoreMessage, DecideWake, EnqueueWake, LookAgain, WaitForChildren,
        PhaseRecorded, CompleteRun, CompleteWake, FailRun, FailWake
  <2> QED
    BY <2>1, <2>2, <2>3, <2>4 DEF FamilyNext, BoardMoves, SomebodyEdits, Retry, wakeVars
<1> QED BY <1>1, <1>2, <1>3, <1>4

LEMMA RecoveryKept ==
  ASSUME FamilyTyping, FamilyNext
  PROVE  RecoveryInv'
<1>0. RecoveryInv /\ worker \in [WakeSlots -> WorkRow] /\ caller \in [Callers -> CallerPCs]
  BY FamilyTypes DEF FamilyTyping
<1>1. ASSUME NEW s \in WakeSlots, Work(s) \/ WakeThrows(s) PROVE RecoveryInv'
  <2>1. worker[s].pc # "free" /\ UNCHANGED <<caller, recovered>>
    BY <1>1
    DEF WakeThrows, Work, BeginWake, SquadDispatched, At, TurnDispatches,
        TurnWrites, TurnEnds, StoreMessage, DecideWake, EnqueueWake, LookAgain, WaitForChildren,
        PhaseRecorded, CompleteRun, CompleteWake, FailRun, FailWake
  <2> QED BY <1>0, <2>1 DEF RecoveryInv
<1>2. ASSUME NEW w \in Wakes, NEW s \in WakeSlots, ClaimWake(w, s) PROVE RecoveryInv'
  BY <1>0, <1>2 DEF ClaimWake, RecoveryInv
<1>3. CASE FamilyCrash
  BY <1>3 DEF FamilyCrash, Booting, Callers, RecoveryInv, NoWork
<1>4. CASE UNCHANGED <<worker, caller, recovered>>
  BY <1>0, <1>4 DEF RecoveryInv
<1>5. CASE WakePollStarts \/ NoWakeToClaim \/ \E c \in Callers : WakeCallFails(c)
  BY <1>0, <1>5 DEF WakePollStarts, NoWakeToClaim, WakeCallFails, RecoveryInv, Callers
<1>6. ASSUME NEW c \in Callers, Recovery(c) PROVE RecoveryInv'
  BY <1>0, <1>6
  DEF Recovery, SettleByRun, Recovers, RequeueWakes, WakesRecovered, AfterRecovery, RecoveryInv, Callers
<1> QED
  BY <1>1, <1>2, <1>3, <1>4, <1>5, <1>6
  DEF FamilyNext, Callers, Poll, BoardMoves, SomebodyEdits, Retry, wakeVars

\* Only EnqueueWake uses a new row.
LEMMA NoNewWakes ==
  ASSUME FamilyTyping, FamilyNext, \A s \in WakeSlots : ~EnqueueWake(s)
  PROVE  \A w \in Wakes : wake'[w].status = "none" <=> wake[w].status = "none"
<1> DEFINE Kept == \A w \in Wakes : wake[w].status = "none" => wake'[w].status = "none"
<1>0. wake \in [Wakes -> WakeRow] /\ \A s \in WakeSlots : WorkKnown(worker[s], wake)
  BY FamilyTypes DEF FamilyTyping
<1>1. ASSUME NEW u \in Wakes, wake[u].status # "none", \A w \in Wakes \ {u} : wake'[w] = wake[w]
      PROVE  Kept
  BY <1>1
<1>2. CASE UNCHANGED wake
  BY <1>2
<1>3. ASSUME NEW c \in Callers, Recovery(c) PROVE Kept
  <2>1. PICK ws, status :
          /\ ws \subseteq InProgress
          /\ wake' = [w \in Wakes |-> IF w \in ws THEN [wake[w] EXCEPT !.status = status] ELSE wake[w]]
    <3>1. \E ws \in SUBSET InProgress, status \in {"completed", "failed", "queued"} : Sets(ws, status)
      BY <1>3, RecoveryStep DEF FamilyTyping
    <3> QED BY <3>1 DEF Sets
  <2>2. \A w \in Wakes : wake[w].status = "none" => wake'[w] = wake[w]
    BY <2>1 DEF InProgress
  <2> QED BY <2>2
<1>4. ASSUME NEW w \in Wakes, NEW s \in WakeSlots, ClaimWake(w, s) PROVE Kept
  BY <1>0, <1>1, <1>4 DEF ClaimWake, Claimable
<1>5. ASSUME NEW w \in Wakes, Retry(w) PROVE Kept
  BY <1>0, <1>1, <1>5 DEF Retry
<1>6. ASSUME NEW s \in WakeSlots, Work(s) PROVE Kept
  <2>1. CASE UNCHANGED wake
    BY <1>2, <2>1
  <2>2. CASE BeginWake(s) \/ CompleteRun(s) \/ CompleteWake(s) \/ FailRun(s) \/ FailWake(s)
             \/ WaitForChildren(s) \/ StoreMessage(s)
    <3>1. worker[s].wake \in Wakes /\ wake[worker[s].wake].status # "none"
      BY <1>0, <2>2 DEF BeginWake, CompleteRun, CompleteWake, FailRun, FailWake, WaitForChildren,
                        StoreMessage, At, WorkKnown
    <3>2. \A w \in Wakes \ {worker[s].wake} : wake'[w] = wake[w]
      BY <1>0, <2>2 DEF BeginWake, CompleteRun, CompleteWake, FailRun, FailWake, WaitForChildren,
                        StoreMessage, SetRow
    <3> QED BY <1>1, <3>1, <3>2
  <2> QED
    BY <1>6, <2>1, <2>2
    DEF Work, SquadDispatched, TurnWrites, TurnDispatches, TurnEnds, DecideWake, LookAgain, PhaseRecorded
<1>7. Kept
  BY <1>2, <1>3, <1>4, <1>5, <1>6
  DEF FamilyNext, BoardMoves, SomebodyEdits, Callers, Poll, WakeCallFails, WakeThrows, FamilyCrash,
      WakePollStarts, NoWakeToClaim, wakeVars
<1> QED BY <1>7, WakeTyped

\* The rows in use stay the first ones, and one that is enqueued is the next.
LEMMA UsedCount ==
  ASSUME PrefixInv
  PROVE  /\ IsFiniteSet(Used) /\ WakeCount = Cardinality(Used)
         /\ WakeCount \in 0 .. MaxWakes /\ Used = 1 .. WakeCount
<1>1. PICK n \in 0 .. MaxWakes : Used = 1 .. n
  BY DEF PrefixInv
<1>2. n \in Nat
  BY <1>1, WakesAssumption
<1>3. IsFiniteSet(1 .. n) /\ Cardinality(1 .. n) = n
  BY <1>2, FS_Interval
<1>4. WakeCount = Cardinality(Used)
  BY DEF WakeCount, Used
<1> QED BY <1>1, <1>3, <1>4

LEMMA EnqueueUses ==
  ASSUME FamilyTyping, NEW s \in WakeSlots, EnqueueWake(s)
  PROVE  /\ Used' = IF WakeCount < MaxWakes THEN 1 .. (WakeCount + 1) ELSE Used
         /\ \A w \in Wakes : wake[w].status # "none" => wake'[w] = wake[w]
         /\ \A w \in Wakes : wake'[w] # wake[w] => wake[w].status = "none" /\ wake'[w].status = "queued"
              /\ wake'[w].run = "none" /\ wake'[w].sent = {}
<1>0. wake \in [Wakes -> WakeRow] /\ PrefixInv
  BY FamilyTypes DEF FamilyTyping
<1>1. WakeCount \in 0 .. MaxWakes /\ Used = 1 .. WakeCount /\ MaxWakes \in Nat
  BY <1>0, UsedCount, WakesAssumption
<1> DEFINE n == WakeCount
<1>2. PICK row : /\ wake' = [wake EXCEPT ![n + 1] = row]
                 /\ row.status = "queued" /\ row.run = "none" /\ row.sent = {}
  BY NewRowTyped DEF EnqueueWake
<1> HIDE DEF n
<1>3. \A w \in Wakes : w # n + 1 => wake'[w] = wake[w]
  BY <1>0, <1>2
<1>4. n + 1 \in Wakes => wake'[n + 1] = row /\ wake[n + 1].status = "none"
  BY <1>0, <1>1, <1>2 DEF Used, Wakes, n
<1>5. \A w \in Wakes : wake[w].status # "none" => wake'[w] = wake[w]
  BY <1>3, <1>4
<1>6. Used' = IF n < MaxWakes THEN 1 .. (n + 1) ELSE Used
  <2>1. Used' = {w \in Wakes : wake'[w].status # "none"}
    BY DEF Used
  <2>2. CASE n < MaxWakes
    <3>1. n + 1 \in Wakes
      BY <1>1, <2>2 DEF Wakes, n
    <3>2. \A w \in Wakes : wake'[w].status # "none" <=> w \in Used \/ w = n + 1
      BY <1>2, <1>3, <1>4, <3>1 DEF Used
    <3>3. Used \cup {n + 1} = 1 .. (n + 1)
      BY <1>1 DEF n
    <3>4. Used' = Used \cup {n + 1}
      BY <2>1, <3>1, <3>2 DEF Used
    <3> QED BY <2>2, <3>3, <3>4
  <2>3. CASE ~(n < MaxWakes)
    <3>1. n + 1 \notin Wakes
      BY <1>1, <2>3 DEF Wakes, n
    <3> QED BY <1>3, <2>1, <2>3, <3>1 DEF Used
  <2> QED BY <2>2, <2>3
<1> QED BY <1>2, <1>3, <1>4, <1>5, <1>6 DEF n

LEMMA UsedKept ==
  ASSUME FamilyTyping, FamilyNext, \A s \in WakeSlots : ~EnqueueWake(s)
  PROVE  Used' = Used
  BY NoNewWakes DEF Used

LEMMA PrefixKept ==
  ASSUME FamilyTyping, FamilyNext
  PROVE  PrefixInv'
<1>1. PrefixInv /\ WakeCount \in 0 .. MaxWakes /\ MaxWakes \in Nat /\ Used = 1 .. WakeCount
  BY UsedCount, WakesAssumption DEF FamilyTyping
<1>2. \E n \in 0 .. MaxWakes : Used' = 1 .. n
  <2>1. ASSUME NEW s \in WakeSlots, EnqueueWake(s) PROVE \E n \in 0 .. MaxWakes : Used' = 1 .. n
    <3>1. Used' = IF WakeCount < MaxWakes THEN 1 .. (WakeCount + 1) ELSE Used
      BY <2>1, EnqueueUses
    <3> QED BY <1>1, <3>1
  <2>2. CASE \A s \in WakeSlots : ~EnqueueWake(s)
    BY <1>1, <2>2, UsedKept
  <2> QED BY <2>1, <2>2
<1> QED BY <1>2 DEF PrefixInv

LEMMA TypingKept ==
  ASSUME FamilyTyping, FamilyNext
  PROVE  FamilyTyping'
<1>1. WorkTyping' /\ PrefixInv' /\ RecoveryInv'
  BY WorkTyped, PrefixKept, RecoveryKept
<1>2. FamilyTypeOK'
  BY <1>1, WakeTyped, OthersTyped DEF FamilyTypeOK, WorkTyping, WakeRow, WorkRow, CallerPCs
<1> QED BY <1>1, <1>2 DEF FamilyTyping, WorkTyping

LEMMA TypingStays ==
  ASSUME FamilyTyping, [FamilyNext]_vars
  PROVE  FamilyTyping'
<1>1. CASE UNCHANGED vars
  BY <1>1 DEF vars, boardVars, wakeVars, FamilyTyping, FamilyTypeOK, BoardTypeOK, WorkKnown, PrefixInv,
              Used, RecoveryInv
<1> QED BY <1>1, TypingKept

LEMMA TypingStarts == FamilyInit => FamilyTyping
<1> SUFFICES ASSUME FamilyInit PROVE FamilyTyping
  OBVIOUS
<1>1. 1 \in Wakes /\ 1 \in 0 .. MaxWakes
  BY WakesAssumption DEF Wakes
<1>2. wake \in [Wakes -> WakeRow]
  BY NewRowTyped, NoRowTyped DEF FamilyInit
<1>3. worker \in [WakeSlots -> WorkRow] /\ \A s \in WakeSlots : WorkKnown(worker[s], wake)
  BY NoWorkTyped DEF FamilyInit
<1>4. Used = 1 .. 1
  <2>1. \A w \in Wakes : wake[w].status # "none" <=> w = 1
    BY NewRowTyped, NoRowTyped DEF FamilyInit
  <2>2. Used = {1}
    BY <1>1, <2>1 DEF Used
  <2> QED BY <2>2
<1>5. BoardTypeOK /\ owner \in [Squads -> Wakes \cup {NoWake}]
  BY DEF FamilyInit, BoardInit, BoardTypeOK
<1>6. upsets \in [Trouble -> 0 .. MaxUpsets]
  BY WakesAssumption DEF FamilyInit
<1>7. FamilyTypeOK
  <2>1. caller \in [Callers -> CallerPCs] /\ recovered \in BOOLEAN
    BY DEF FamilyInit, Booting, CallerPCs
  <2> QED BY <1>2, <1>3, <1>5, <1>6, <2>1, FamilyTypes
<1>8. RecoveryInv
  BY DEF FamilyInit, Booting, Callers, RecoveryInv, NoWork
<1> QED BY <1>1, <1>3, <1>4, <1>7, <1>8 DEF FamilyTyping, PrefixInv

-----------------------------------------------------------------------------
(* The cap of a thread.                                                    *)

\* Whoever is about to enqueue has found the thread below its cap.
LEMMA EnqueuingGrows ==
  ASSUME FamilyTyping, FamilyNext, NEW r \in WakeSlots, worker'[r].pc = "enqueue", worker[r].pc # "enqueue"
  PROVE  WakeCount < MAX_THREAD_WAKES /\ UNCHANGED wake
<1>0. worker \in [WakeSlots -> WorkRow] /\ \A s \in WakeSlots : WorkKnown(worker[s], wake)
  BY FamilyTypes DEF FamilyTyping
<1> DEFINE Goal == WakeCount < MAX_THREAD_WAKES /\ UNCHANGED wake
<1>1. CASE UNCHANGED worker
  BY <1>1
<1>2. ASSUME NEW s \in WakeSlots, Leaves(s) PROVE FALSE
  BY <1>0, <1>2 DEF Leaves, NoWork
<1>3. ASSUME NEW s \in WakeSlots, NEW pc, pc # "enqueue", Goes(s, pc) PROVE FALSE
  BY <1>0, <1>3 DEF Goes, WorkRow
<1>4. ASSUME NEW s \in WakeSlots, worker[s].pc \in {"insert", "count", "enqueue"}, SendReturns(s) PROVE FALSE
  <2>1. worker[s].back \in {"turn", "complete"}
    BY <1>0, <1>4 DEF WorkKnown
  <2> QED BY <1>0, <1>4, <2>1 DEF SendReturns, WorkRow
<1>5. ASSUME NEW s \in WakeSlots, Work(s) PROVE Goal
  <2>1. CASE BeginWake(s) \/ TurnWrites(s)
    BY <1>0, <2>1 DEF BeginWake, TurnWrites, WorkRow
  <2>2. CASE SquadDispatched(s) \/ TurnEnds(s, "linked") \/ TurnEnds(s, "failing")
    BY <1>3, <2>2 DEF SquadDispatched, TurnEnds, Goes
  <2>3. ASSUME NEW q \in Squads, TurnDispatches(s, q) PROVE FALSE
    BY <1>0, <2>3 DEF TurnDispatches, WorkRow
  <2>4. CASE StoreMessage(s)
    BY <1>3, <1>4, <2>4 DEF StoreMessage, At
  <2>5. CASE DecideWake(s)
    BY <1>4, <2>5 DEF DecideWake, At
  <2>6. CASE EnqueueWake(s)
    BY <1>4, <2>6 DEF EnqueueWake, At
  <2>7. CASE LookAgain(s)
    <3>1. CASE Goes(s, "ack") \/ Goes(s, "complete")
      BY <1>3, <3>1
    <3>2. CASE worker' = [worker EXCEPT ![s].pc = "insert", ![s].back = "complete"]
      BY <1>0, <3>2 DEF WorkRow
    <3> QED BY <2>7, <3>1, <3>2 DEF LookAgain
  <2>8. CASE WaitForChildren(s) \/ CompleteRun(s) \/ FailRun(s)
    BY <1>3, <2>8 DEF WaitForChildren, CompleteRun, FailRun
  <2>9. CASE PhaseRecorded(s) \/ CompleteWake(s) \/ FailWake(s)
    BY <1>2, <2>9 DEF PhaseRecorded, CompleteWake, FailWake
  <2> QED BY <1>5, <2>1, <2>2, <2>3, <2>4, <2>5, <2>6, <2>7, <2>8, <2>9 DEF Work
<1>6. ASSUME NEW s \in WakeSlots, WakeThrows(s) PROVE FALSE
  <2>1. \/ Leaves(s) \/ Goes(s, "failing") \/ Goes(s, "failed")
        \/ worker[s].pc \in {"insert", "count", "enqueue"} /\ SendReturns(s)
    BY <1>6 DEF WakeThrows
  <2> QED BY <1>2, <1>3, <1>4, <2>1
<1>7. ASSUME NEW w \in Wakes, NEW s \in WakeSlots, ClaimWake(w, s) PROVE FALSE
  BY <1>0, <1>7 DEF ClaimWake, NoWork
<1>8. CASE FamilyCrash
  BY <1>8 DEF FamilyCrash, NoWork
<1> QED
  BY <1>1, <1>5, <1>6, <1>7, <1>8
  DEF FamilyNext, BoardMoves, SomebodyEdits, Poll, Recovery, WakeCallFails, Retry, SettleByRun, Recovers,
      RequeueWakes, WakePollStarts, WakesRecovered, NoWakeToClaim, wakeVars

LEMMA SlotsCount ==
  /\ IsFiniteSet(WakeSlots) /\ Cardinality(WakeSlots) \in Nat /\ Cardinality(WakeSlots) >= 1
  /\ \A S \in SUBSET WakeSlots :
       IsFiniteSet(S) /\ Cardinality(S) \in Nat /\ Cardinality(S) <= Cardinality(WakeSlots)
<1>1. IsFiniteSet(WakeSlots) /\ WakeSlots # {}
  BY WakesAssumption
<1>2. Cardinality(WakeSlots) \in Nat /\ Cardinality(WakeSlots) # 0
  BY <1>1, FS_CardinalityType, FS_EmptySet
<1>3. ASSUME NEW S \in SUBSET WakeSlots
      PROVE  IsFiniteSet(S) /\ Cardinality(S) \in Nat /\ Cardinality(S) <= Cardinality(WakeSlots)
  BY <1>1, <1>3, FS_Subset, FS_CardinalityType
<1> QED BY <1>1, <1>2, <1>3

LEMMA CapKept ==
  ASSUME FamilyTyping, FamilyNext, CapInv
  PROVE  CapInv'
<1> DEFINE n == WakeCount
           e == Cardinality(Enqueuing)
           slots == Cardinality(WakeSlots)
<1>1. /\ n \in Nat /\ e \in Nat /\ slots \in Nat /\ MAX_THREAD_WAKES \in Nat
      /\ IsFiniteSet(Enqueuing) /\ Enqueuing \in SUBSET WakeSlots
  <2>1. n \in 0 .. MaxWakes /\ MaxWakes \in Nat
    BY UsedCount, WakesAssumption DEF FamilyTyping
  <2>2. Enqueuing \in SUBSET WakeSlots
    BY DEF Enqueuing
  <2>3. MAX_THREAD_WAKES \in Nat
    BY WakesAssumption
  <2> QED BY <2>1, <2>2, <2>3, SlotsCount
<1>2. FamilyTyping'
  BY TypingKept
<1>3. Enqueuing' \in SUBSET WakeSlots /\ e' \in Nat /\ e' <= slots
  <2>1. Enqueuing' \in SUBSET WakeSlots
    BY DEF Enqueuing
  <2> QED BY <2>1, SlotsCount
<1>4. n' \in Nat /\ Used' = 1 .. n' /\ Used = 1 .. n
  <2>1. PrefixInv' /\ PrefixInv /\ MaxWakes \in Nat
    BY <1>2, WakesAssumption DEF FamilyTyping
  <2>2. \E k \in 0 .. MaxWakes : Used' = 1 .. k
    BY <2>1 DEF PrefixInv
  <2>3. PICK k \in 0 .. MaxWakes : Used' = 1 .. k
    BY <2>2
  <2>4. n' = Cardinality(Used')
    BY DEF WakeCount, Used
  <2>5. Cardinality(1 .. k) = k
    BY <2>1, FS_Interval
  <2> QED BY <2>1, <2>3, <2>4, <2>5, UsedCount
<1>5. CASE \E r \in WakeSlots : worker'[r].pc = "enqueue" /\ worker[r].pc # "enqueue"
  <2>1. n < MAX_THREAD_WAKES /\ UNCHANGED wake
    BY <1>5, EnqueuingGrows
  <2>2. n' = n
    BY <2>1 DEF WakeCount
  <2>3. n' + e' <= MAX_THREAD_WAKES + slots - 1
    BY <1>1, <1>3, <2>1, <2>2
  <2> QED BY <2>3 DEF CapInv, n, e, slots
<1>6. CASE \A r \in WakeSlots : worker'[r].pc = "enqueue" => worker[r].pc = "enqueue"
  <2>1. Enqueuing' \in SUBSET Enqueuing
    BY <1>6 DEF Enqueuing
  <2>2. CASE \A s \in WakeSlots : ~EnqueueWake(s)
    <3>1. n' = n
      BY <2>2, UsedKept, <1>2, UsedCount DEF WakeCount, Used
    <3>2. e' <= e
      BY <1>1, <2>1, FS_Subset
    <3>3. n + e <= MAX_THREAD_WAKES + slots - 1
      BY DEF CapInv
    <3>4. n' + e' <= MAX_THREAD_WAKES + slots - 1
      BY <1>1, <1>3, <3>1, <3>2, <3>3
    <3> QED BY <3>4 DEF CapInv, n, e, slots
  <2>3. ASSUME NEW s \in WakeSlots, EnqueueWake(s) PROVE CapInv'
    <3>1. s \in Enqueuing /\ s \notin Enqueuing'
      <4>1. worker[s].back \in {"turn", "complete"} /\ worker \in [WakeSlots -> WorkRow]
        BY <2>3, FamilyTypes DEF EnqueueWake, At, FamilyTyping, WorkKnown
      <4>2. worker'[s].pc # "enqueue"
        BY <2>3, <4>1 DEF EnqueueWake, SendReturns, WorkRow
      <4> QED BY <2>3, <4>2 DEF EnqueueWake, At, Enqueuing
    <3>2. IsFiniteSet(Enqueuing \ {s}) /\ Cardinality(Enqueuing \ {s}) = e - 1
      BY <1>1, <3>1, FS_RemoveElement
    <3>3. e' <= e - 1
      BY <2>1, <3>1, <3>2, FS_Subset
    <3>4. n' <= n + 1
      <4>1. Used' = IF n < MaxWakes THEN 1 .. (n + 1) ELSE Used
        BY <2>3, EnqueueUses
      <4>2. n' = n + 1 \/ n' = n
        <5>1. \A a, b \in Nat : 1 .. a = 1 .. b => a = b
          <6>1. \A a \in Nat : Cardinality(1 .. a) = a
            BY FS_Interval
          <6> QED BY <6>1
        <5> HIDE DEF n
        <5> QED BY <1>1, <1>4, <4>1, <5>1
      <4> HIDE DEF n
      <4> QED BY <1>1, <4>2
    <3>5. n + e <= MAX_THREAD_WAKES + slots - 1
      BY DEF CapInv
    <3>6. n' + e' <= MAX_THREAD_WAKES + slots - 1
      BY <1>1, <1>3, <1>4, <3>3, <3>4, <3>5
    <3> QED BY <3>6 DEF CapInv, n, e, slots
  <2> QED BY <2>2, <2>3
<1> QED BY <1>5, <1>6

LEMMA CapStarts == FamilyInit => CapInv
<1> SUFFICES ASSUME FamilyInit PROVE CapInv
  OBVIOUS
<1>1. WakeCount = 1
  <2>1. \A w \in Wakes : wake[w].status # "none" <=> w = 1
    BY NewRowTyped, NoRowTyped DEF FamilyInit
  <2>2. 1 \in Wakes
    BY WakesAssumption DEF Wakes
  <2>3. {w \in Wakes : wake[w].status # "none"} = 1 .. 1
    BY <2>1, <2>2
  <2>4. Cardinality(1 .. 1) = 1
    <3>1. \A a \in Nat : Cardinality(1 .. a) = a
      BY FS_Interval
    <3> QED BY <3>1
  <2> QED BY <2>3, <2>4 DEF WakeCount
<1>2. Cardinality(Enqueuing) = 0
  <2>1. Enqueuing = {}
    BY DEF FamilyInit, Enqueuing, NoWork
  <2> QED BY <2>1, FS_EmptySet
<1>3. MAX_THREAD_WAKES \in Nat /\ MAX_THREAD_WAKES >= 1
  BY WakesAssumption
<1> QED BY <1>1, <1>2, <1>3, SlotsCount DEF CapInv

-----------------------------------------------------------------------------
(* What a step of one worker touches.                                      *)

LEMMA Monotone ==
  ASSUME FamilyTyping, FamilyNext
  PROVE  /\ \A k \in Trouble : upsets'[k] = 0 => upsets[k] = 0
         /\ ~edited' => ~edited
<1>0. upsets \in [Trouble -> 0 .. MaxUpsets]
  BY FamilyTypes DEF FamilyTyping
<1>1. UNCHANGED upsets \/ \E k \in Trouble : Upset(k)
  BY DEF FamilyNext, Poll, Recovery, WakeCallFails, WakeThrows, Retry, Work, BeginWake, SquadDispatched,
      TurnWrites, TurnEnds, StoreMessage, DecideWake, EnqueueWake, LookAgain, WaitForChildren,
      PhaseRecorded, CompleteRun, CompleteWake, FailRun, FailWake, WakePollStarts, SettleByRun,
      Recovers, RequeueWakes, WakesRecovered, NoWakeToClaim, ClaimWake, TurnDispatches, BoardMoves,
      SomebodyEdits, FamilyCrash, wakeVars, Trouble
<1>2. \A k \in Trouble : upsets'[k] = 0 => upsets[k] = 0
  BY <1>0, <1>1, UpsetCounts
<1>3. UNCHANGED edited \/ edited' = TRUE
  BY DEF FamilyNext, Poll, Recovery, WakeCallFails, WakeThrows, Retry, Work, BeginWake, SquadDispatched,
      TurnWrites, TurnEnds, StoreMessage, DecideWake, EnqueueWake, LookAgain, WaitForChildren,
      PhaseRecorded, CompleteRun, CompleteWake, FailRun, FailWake, WakePollStarts, SettleByRun,
      Recovers, RequeueWakes, WakesRecovered, NoWakeToClaim, ClaimWake, TurnDispatches, BoardMoves,
      SomebodyEdits, EditChild, StartDispatch, AddChild, EndChild, EndDispatch, StopDispatches,
      FamilyCrash, wakeVars, boardVars
<1> QED BY <1>2, <1>3

\* Its own row in worker, and its own wake-up.
LEMMA OnlyItsOwn ==
  ASSUME FamilyTyping, NEW s \in WakeSlots, Work(s) \/ WakeThrows(s)
  PROVE  /\ worker[s].pc # "free" /\ worker[s].wake \in Wakes /\ wake[worker[s].wake].status # "none"
         /\ \A r \in WakeSlots \ {s} : worker'[r] = worker[r]
         /\ worker'[s].pc # "free" => worker'[s].wake = worker[s].wake
         /\ UNCHANGED <<caller, recovered>>
         /\ \A w \in Wakes \ {worker[s].wake} :
              wake[w].status # "none" \/ ~EnqueueWake(s) => wake'[w] = wake[w]
<1>0. /\ wake \in [Wakes -> WakeRow] /\ worker \in [WakeSlots -> WorkRow]
      /\ WorkKnown(worker[s], wake)
  BY FamilyTypes DEF FamilyTyping
<1>1. worker[s].pc # "free" /\ UNCHANGED <<caller, recovered>>
  BY DEF WakeThrows, Work, BeginWake, SquadDispatched, At, TurnDispatches,
         TurnWrites, TurnEnds, StoreMessage, DecideWake, EnqueueWake, LookAgain, WaitForChildren,
         PhaseRecorded, CompleteRun, CompleteWake, FailRun, FailWake
<1>2. worker[s].wake \in Wakes /\ wake[worker[s].wake].status # "none"
  BY <1>0, <1>1 DEF WorkKnown
<1>3. \A r \in WakeSlots \ {s} : worker'[r] = worker[r]
  BY <1>0
  DEF WakeThrows, Work, BeginWake, SquadDispatched, TurnDispatches, SendReturns, Goes, Leaves,
      TurnWrites, TurnEnds, StoreMessage, DecideWake, EnqueueWake, LookAgain, WaitForChildren,
      PhaseRecorded, CompleteRun, CompleteWake, FailRun, FailWake
<1>4. worker'[s].pc # "free" => worker'[s].wake = worker[s].wake
  BY <1>0
  DEF WakeThrows, Work, BeginWake, SquadDispatched, TurnDispatches, SendReturns, Goes, Leaves,
      TurnWrites, TurnEnds, StoreMessage, DecideWake, EnqueueWake, LookAgain, WaitForChildren,
      PhaseRecorded, CompleteRun, CompleteWake, FailRun, FailWake, NoWork, WorkRow
<1>5. ASSUME NEW w \in Wakes, w # worker[s].wake, wake[w].status # "none" \/ ~EnqueueWake(s)
      PROVE  wake'[w] = wake[w]
  <2>1. CASE EnqueueWake(s)
    BY <1>5, <2>1, EnqueueUses
  <2>2. CASE UNCHANGED wake
    BY <2>2
  <2>3. CASE BeginWake(s) \/ CompleteRun(s) \/ CompleteWake(s) \/ FailRun(s) \/ FailWake(s)
             \/ WaitForChildren(s) \/ StoreMessage(s)
    BY <1>0, <1>5, <2>3 DEF BeginWake, CompleteRun, CompleteWake, FailRun, FailWake, WaitForChildren,
                      StoreMessage, SetRow
  <2> QED
    BY <2>1, <2>2, <2>3
    DEF Work, WakeThrows, SquadDispatched, TurnWrites, TurnDispatches, TurnEnds, DecideWake, LookAgain,
        PhaseRecorded
<1> QED BY <1>1, <1>2, <1>3, <1>4, <1>5

-----------------------------------------------------------------------------
(* A wake-up whose run has succeeded is not run again.                     *)

LEMMA OwnMove ==
  ASSUME FamilyTyping, NEW s \in WakeSlots, Work(s),
         Busy(s) => Row(s).status = "in_progress" /\ (Row(s).run = "succeeded" => worker[s].pc = "update"),
         ~Busy(s) => (Row(s).run = "succeeded" => Row(s).status \in {"in_progress", "completed"}),
         NEW w \in Wakes, w = worker[s].wake
  PROVE  /\ Busy(s)' => /\ wake'[w].status = "in_progress"
                        /\ wake'[w].run = "succeeded" => worker'[s].pc = "update"
         /\ wake'[w].run = "succeeded" => wake'[w].status \in {"in_progress", "completed"}
         /\ wake[w].run = "succeeded" => wake'[w].run = "succeeded"
         /\ ~Busy(s) => UNCHANGED wake /\ ~Busy(s)'
         /\ Busy(s) /\ ~Busy(s)' => wake'[w].status # "in_progress"
<1>0. /\ wake \in [Wakes -> WakeRow] /\ worker \in [WakeSlots -> WorkRow]
      /\ WorkKnown(worker[s], wake) /\ wake[w] \in WakeRow /\ worker[s] \in WorkRow
  BY FamilyTypes DEF FamilyTyping
<1>1. CASE BeginWake(s)
  BY <1>0, <1>1 DEF BeginWake, SetRow, Row, Busy, At, WakeRow, WorkRow
<1>2. CASE \/ SquadDispatched(s) \/ TurnWrites(s) \/ TurnEnds(s, "linked") \/ TurnEnds(s, "failing")
           \/ (\E q \in Squads : TurnDispatches(s, q))
  BY <1>0, <1>2 DEF SquadDispatched, TurnWrites, TurnEnds, TurnDispatches, Goes, Row, Busy, At, WorkRow
<1>3. CASE StoreMessage(s)
  <2>1. wake'[w].status = wake[w].status /\ wake'[w].run = wake[w].run
    BY <1>0, <1>3 DEF StoreMessage, WakeRow
  <2> QED BY <1>0, <1>3, <2>1 DEF StoreMessage, SendReturns, Goes, Row, Busy, At, WorkKnown, WorkRow
<1>4. CASE DecideWake(s)
  BY <1>0, <1>4 DEF DecideWake, SendReturns, Goes, Row, Busy, At, WorkKnown, WorkRow
<1>5. CASE EnqueueWake(s)
  <2>1. wake'[w] = wake[w]
    BY <1>0, <1>5, EnqueueUses DEF EnqueueWake, At, WorkKnown
  <2> QED BY <1>0, <1>5, <2>1 DEF EnqueueWake, SendReturns, Row, Busy, At, WorkKnown, WorkRow
<1>6. CASE LookAgain(s)
  BY <1>0, <1>6 DEF LookAgain, Goes, Row, Busy, At, WorkRow
<1>7. CASE WaitForChildren(s)
  BY <1>0, <1>7 DEF WaitForChildren, Goes, Row, Busy, At, WorkRow, WakeRow
<1>8. CASE PhaseRecorded(s)
  BY <1>0, <1>8 DEF PhaseRecorded, Leaves, NoWork, Row, Busy, At, WorkRow
<1>9. CASE CompleteRun(s)
  BY <1>0, <1>9 DEF CompleteRun, SetRow, Goes, Row, Busy, At, WorkRow, WakeRow
<1>10. CASE CompleteWake(s)
  BY <1>0, <1>10 DEF CompleteWake, SetRow, Leaves, NoWork, Row, Busy, At, WorkRow, WakeRow
<1>11. CASE FailRun(s)
  BY <1>0, <1>11 DEF FailRun, SetRow, Goes, Row, Busy, At, WorkRow, WakeRow
<1>12. CASE FailWake(s)
  BY <1>0, <1>12 DEF FailWake, SetRow, Leaves, NoWork, Row, Busy, At, WorkRow, WakeRow
<1> QED
  BY <1>1, <1>2, <1>3, <1>4, <1>5, <1>6, <1>7, <1>8, <1>9, <1>10, <1>11, <1>12 DEF Work

LEMMA DoneKept ==
  ASSUME FamilyTyping, FamilyNext, DoneInv
  PROVE  /\ DoneInv'
         /\ upsets'["error"] = 0 /\ upsets'["late"] = 0 =>
              \A w \in Wakes : wake[w].run = "succeeded" => wake'[w].run = "succeeded"
<1> DEFINE Lasting == \A w \in Wakes : wake[w].run = "succeeded" => wake'[w].run = "succeeded"
<1>0. /\ wake \in [Wakes -> WakeRow] /\ worker \in [WakeSlots -> WorkRow]
      /\ upsets \in [Trouble -> 0 .. MaxUpsets] /\ caller \in [Callers -> CallerPCs]
      /\ \A s \in WakeSlots : WorkKnown(worker[s], wake)
  BY FamilyTypes DEF FamilyTyping
<1> SUFFICES ASSUME upsets'["error"] = 0, upsets'["late"] = 0 PROVE DoneInv' /\ Lasting
  BY DEF DoneInv
<1>1. upsets["error"] = 0 /\ upsets["late"] = 0
  BY Monotone DEF Trouble
<1>2. /\ \A s \in WakeSlots : Busy(s) =>
           /\ Row(s).status = "in_progress"
           /\ Row(s).run = "succeeded" => worker[s].pc = "update"
      /\ \A s, r \in WakeSlots : Busy(s) /\ Busy(r) /\ worker[s].wake = worker[r].wake => s = r
      /\ \A w \in Wakes : wake[w].run = "succeeded" => wake[w].status \in {"in_progress", "completed"}
      /\ \A c \in Callers : caller[c] \in {"failed", "queued", "recovered"} => DoneInHands
  BY <1>1 DEF DoneInv
<1>3. \A s \in WakeSlots : worker[s].pc # "free" => worker[s].wake \in Wakes /\ wake[worker[s].wake].status # "none"
  BY <1>0 DEF WorkKnown
<1>4. ASSUME NEW s \in WakeSlots, Work(s) PROVE DoneInv' /\ Lasting
  <2> DEFINE w == worker[s].wake
  <2>1. /\ worker[s].pc # "free" /\ w \in Wakes /\ wake[w].status # "none"
        /\ \A r \in WakeSlots \ {s} : worker'[r] = worker[r]
        /\ worker'[s].pc # "free" => worker'[s].wake = w
        /\ UNCHANGED <<caller, recovered>>
        /\ \A u \in Wakes \ {w} : wake[u].status # "none" \/ ~EnqueueWake(s) => wake'[u] = wake[u]
    BY <1>4, OnlyItsOwn
  <2>2. /\ Busy(s)' => /\ wake'[w].status = "in_progress"
                       /\ wake'[w].run = "succeeded" => worker'[s].pc = "update"
        /\ wake'[w].run = "succeeded" => wake'[w].status \in {"in_progress", "completed"}
        /\ wake[w].run = "succeeded" => wake'[w].run = "succeeded"
        /\ ~Busy(s) => UNCHANGED wake /\ ~Busy(s)'
        /\ Busy(s) /\ ~Busy(s)' => wake'[w].status # "in_progress"
    BY <1>2, <1>4, <2>1, OwnMove DEF Row
  <2>4. ASSUME NEW u \in Wakes, u # w
        PROVE  /\ wake'[u].run = "succeeded" => wake'[u].status \in {"in_progress", "completed"}
               /\ wake[u].run = "succeeded" => wake'[u].run = "succeeded"
    <3>1. CASE wake'[u] = wake[u]
      BY <1>2, <3>1
    <3>2. CASE wake'[u] # wake[u]
      <4>1. EnqueueWake(s) /\ wake[u].status = "none"
        BY <2>1, <2>4, <3>2
      <4>2. wake'[u].run = "none"
        BY <3>2, <4>1, EnqueueUses
      <4> QED BY <1>2, <4>1, <4>2
    <3> QED BY <3>1, <3>2
  <2>5. ASSUME NEW r \in WakeSlots, r # s, Busy(r)'
        PROVE  /\ Busy(r) /\ worker'[r] = worker[r] /\ worker[r].wake \in Wakes
               /\ wake'[worker[r].wake] = wake[worker[r].wake]
               /\ Busy(s)' => worker[r].wake # w
    <3>1. Busy(r) /\ worker'[r] = worker[r]
      BY <2>1, <2>5 DEF Busy
    <3>2. worker[r].wake \in Wakes /\ wake[worker[r].wake].status # "none"
      BY <1>3, <3>1 DEF Busy
    <3>3. CASE Busy(s)
      <4>1. worker[r].wake # w
        BY <1>2, <2>5, <3>1, <3>3
      <4> QED BY <2>1, <3>1, <3>2, <4>1
    <3>4. CASE ~Busy(s)
      BY <2>2, <3>1, <3>2, <3>4
    <3> QED BY <3>3, <3>4
  <2>10. ASSUME DoneInHands, NEW u \in Wakes, wake'[u].status = "in_progress", wake'[u].run = "succeeded"
         PROVE  \E r \in WakeSlots : Busy(r)' /\ worker'[r].wake = u
    <3>1. CASE u = w /\ Busy(s)
      <4>1. Busy(s)'
        BY <2>2, <2>10, <3>1
      <4> QED BY <2>1, <3>1, <4>1 DEF Busy
    <3>2. CASE ~(u = w /\ Busy(s))
      <4>1. wake'[u] = wake[u]
        <5>1. CASE u = w
          BY <2>2, <3>2, <5>1
        <5>2. CASE u # w
          <6>1. ASSUME wake'[u] # wake[u] PROVE FALSE
            <7>1. EnqueueWake(s)
              BY <2>1, <5>2, <6>1
            <7> QED BY <2>10, <6>1, <7>1, EnqueueUses
          <6> QED BY <6>1
        <5> QED BY <5>1, <5>2
      <4>2. PICK r \in WakeSlots : Busy(r) /\ worker[r].wake = u
        BY <2>10, <4>1 DEF DoneInHands
      <4>3. r # s
        BY <3>2, <4>2
      <4> QED BY <2>1, <4>2, <4>3 DEF Busy
    <3> QED BY <3>1, <3>2
  <2> HIDE DEF w
  <2>6. \A r \in WakeSlots : Busy(r)' =>
          /\ Row(r)'.status = "in_progress"
          /\ Row(r)'.run = "succeeded" => worker'[r].pc = "update"
    <3>1. ASSUME Busy(s)' PROVE Row(s)'.status = "in_progress" /\ (Row(s)'.run = "succeeded" => worker'[s].pc = "update")
      BY <2>1, <2>2, <3>1 DEF Row, Busy
    <3>2. ASSUME NEW r \in WakeSlots, r # s, Busy(r)'
          PROVE  Row(r)'.status = "in_progress" /\ (Row(r)'.run = "succeeded" => worker'[r].pc = "update")
      <4>1. Row(r)' = Row(r) /\ Busy(r) /\ worker'[r] = worker[r]
        BY <2>5, <3>2 DEF Row
      <4> QED BY <1>2, <4>1
    <3> QED BY <3>1, <3>2
  <2>7. \A r, q \in WakeSlots : Busy(r)' /\ Busy(q)' /\ worker'[r].wake = worker'[q].wake => r = q
    <3>1. \A r \in WakeSlots \ {s} : Busy(r)' /\ Busy(s)' => worker'[r].wake # worker'[s].wake
      BY <2>1, <2>5 DEF Busy
    <3>2. \A r, q \in WakeSlots \ {s} : Busy(r)' /\ Busy(q)' /\ worker'[r].wake = worker'[q].wake => r = q
      BY <1>2, <2>5
    <3> QED BY <3>1, <3>2
  <2>8. \A u \in Wakes : wake'[u].run = "succeeded" => wake'[u].status \in {"in_progress", "completed"}
    BY <2>2, <2>4
  <2>9. Lasting
    BY <2>2, <2>4
  <2>11. \A c \in Callers : caller'[c] \in {"failed", "queued", "recovered"} => DoneInHands'
    <3>1. DoneInHands => DoneInHands'
      BY <2>10 DEF DoneInHands
    <3> QED BY <1>2, <2>1, <3>1
  <2> QED BY <2>6, <2>7, <2>8, <2>9, <2>11 DEF DoneInv
<1>5. ASSUME NEW w \in Wakes, NEW s \in WakeSlots, ClaimWake(w, s) PROVE DoneInv' /\ Lasting
  <2>1. /\ wake[w].status \in {"queued", "waiting_children"} /\ At(s, "free")
        /\ wake' = [wake EXCEPT ![w].status = "in_progress"]
        /\ caller' = [caller EXCEPT !["poll"] = "idle"]
        /\ worker' = [worker EXCEPT ![s] = [NoWork EXCEPT !.pc = "begin", !.wake = w]]
    BY <1>5 DEF ClaimWake, Claimable
  <2>2. \A r \in WakeSlots : Busy(r) => worker[r].wake # w
    BY <1>2, <2>1 DEF Row
  <2>3. wake[w].run # "succeeded"
    BY <1>2, <2>1
  <2>4. wake'[w].status = "in_progress" /\ wake'[w].run = wake[w].run /\ \A u \in Wakes \ {w} : wake'[u] = wake[u]
    BY <1>0, <2>1 DEF WakeRow
  <2>5. worker'[s].pc = "begin" /\ worker'[s].wake = w /\ \A r \in WakeSlots \ {s} : worker'[r] = worker[r]
    BY <1>0, <2>1 DEF NoWork
  <2>6. \A r \in WakeSlots : Busy(r)' =>
          /\ Row(r)'.status = "in_progress"
          /\ Row(r)'.run = "succeeded" => worker'[r].pc = "update"
    <3>1. Row(s)'.status = "in_progress" /\ Row(s)'.run # "succeeded"
      BY <2>3, <2>4, <2>5 DEF Row
    <3>2. ASSUME NEW r \in WakeSlots, r # s, Busy(r)' PROVE Row(r)' = Row(r) /\ Busy(r) /\ worker'[r] = worker[r]
      BY <1>3, <2>2, <2>4, <2>5, <3>2 DEF Row, Busy
    <3> QED BY <1>2, <3>1, <3>2
  <2>7. \A r, q \in WakeSlots : Busy(r)' /\ Busy(q)' /\ worker'[r].wake = worker'[q].wake => r = q
    BY <1>2, <2>2, <2>5 DEF Busy
  <2>8. (\A u \in Wakes : wake'[u].run = "succeeded" => wake'[u].status \in {"in_progress", "completed"}) /\ Lasting
    BY <1>2, <2>3, <2>4
  <2>9. DoneInHands => DoneInHands'
    <3>1. ASSUME DoneInHands, NEW u \in Wakes, wake'[u].status = "in_progress", wake'[u].run = "succeeded"
          PROVE  \E r \in WakeSlots : Busy(r)' /\ worker'[r].wake = u
      <4>1. u # w /\ wake'[u] = wake[u]
        BY <2>3, <2>4, <3>1
      <4>2. PICK r \in WakeSlots : Busy(r) /\ worker[r].wake = u
        BY <3>1, <4>1 DEF DoneInHands
      <4>3. r # s
        BY <2>1, <4>2 DEF Busy, At
      <4> QED BY <2>5, <4>2, <4>3 DEF Busy
    <3> QED BY <3>1 DEF DoneInHands
  <2>10. \A c \in Callers : caller'[c] \in {"failed", "queued", "recovered"} => DoneInHands'
    BY <1>0, <1>2, <2>1, <2>9
  <2> QED BY <2>6, <2>7, <2>8, <2>10 DEF DoneInv
<1>6. ASSUME NEW c \in Callers, Recovery(c) PROVE DoneInv' /\ Lasting
  <2>1. ASSUME NEW ws \in SUBSET InProgress, NEW status, NEW then, Recovers(c, ws, status, then),
               \A u \in ws : wake[u].run = "succeeded" => (status = "completed" \/ InHands(u)),
               DoneInHands \/ \A u \in InProgress : wake[u].run = "succeeded" => (u \in ws /\ status = "completed")
        PROVE  DoneInv' /\ Lasting
    <3>1. \A u \in ws : ~InHands(u)
      <4>1. ~Upset("late")
        BY <1>0, UpsetCounts DEF Trouble
      <4> QED BY <2>1, <4>1 DEF Recovers
    <3>2. /\ UNCHANGED worker
          /\ \A u \in Wakes : wake'[u].run = wake[u].run
          /\ \A u \in ws : wake'[u].status = status
          /\ \A u \in Wakes \ ws : wake'[u] = wake[u]
      <4>1. ws \subseteq Wakes
        BY DEF InProgress
      <4> QED BY <1>0, <2>1, <4>1 DEF Recovers, WakeRow
    <3>3. \A r \in WakeSlots : Busy(r)' => Busy(r) /\ Row(r)' = Row(r) /\ worker'[r] = worker[r]
      <4>1. ASSUME NEW r \in WakeSlots, Busy(r)
            PROVE  worker[r].wake \in Wakes \ ws
        BY <1>3, <3>1, <4>1 DEF Busy, InHands, At
      <4> QED BY <3>2, <4>1 DEF Busy, Row
    <3>4. \A r, q \in WakeSlots : Busy(r)' /\ Busy(q)' /\ worker'[r].wake = worker'[q].wake => r = q
      BY <1>2, <3>3
    <3>5. \A u \in Wakes : wake'[u].run = "succeeded" => wake'[u].status \in {"in_progress", "completed"}
      BY <1>2, <2>1, <3>1, <3>2
    <3>6. DoneInHands'
      <4>1. ASSUME NEW u \in Wakes, wake'[u].status = "in_progress", wake'[u].run = "succeeded"
            PROVE  \E r \in WakeSlots : Busy(r)' /\ worker'[r].wake = u
        <5>1. u \in InProgress /\ wake[u].run = "succeeded"
          BY <2>1, <3>2, <4>1 DEF InProgress
        <5>2. DoneInHands
          BY <2>1, <3>2, <4>1, <5>1
        <5>3. PICK r \in WakeSlots : Busy(r) /\ worker[r].wake = u
          BY <5>1, <5>2 DEF DoneInHands, InProgress
        <5> QED BY <3>2, <5>3 DEF Busy
      <4> QED BY <4>1 DEF DoneInHands
    <3>7. \A r \in WakeSlots : Busy(r)' =>
            /\ Row(r)'.status = "in_progress"
            /\ Row(r)'.run = "succeeded" => worker'[r].pc = "update"
      BY <1>2, <3>3
    <3> QED BY <3>2, <3>4, <3>5, <3>6, <3>7 DEF DoneInv
  <2>2. CASE SettleByRun(c)
    <3>1. ASSUME Recovers(c, {w \in InProgress : wake[w].run = "succeeded"}, "completed", "failed")
          PROVE  DoneInv' /\ Lasting
      <4> DEFINE ws == {w \in InProgress : wake[w].run = "succeeded"}
      <4>1. /\ ws \in SUBSET InProgress
            /\ \A u \in InProgress : wake[u].run = "succeeded" => u \in ws
        OBVIOUS
      <4>2. Recovers(c, ws, "completed", "failed")
        BY <3>1
      <4> HIDE DEF ws
      <4> QED BY <2>1, <4>1, <4>2
    <3>2. ASSUME caller[c] = "failed", Recovers(c, {w \in InProgress : wake[w].run = "failed"}, "failed", "queued")
          PROVE  DoneInv' /\ Lasting
      <4> DEFINE ws == {w \in InProgress : wake[w].run = "failed"}
      <4>1. ws \in SUBSET InProgress /\ \A u \in ws : wake[u].run # "succeeded"
        OBVIOUS
      <4>2. Recovers(c, ws, "failed", "queued") /\ DoneInHands
        BY <1>2, <3>2
      <4> HIDE DEF ws
      <4> QED BY <2>1, <4>1, <4>2
    <3> QED BY <2>2, <3>1, <3>2 DEF SettleByRun
  <2>3. CASE RequeueWakes(c)
    <3>1. DoneInHands /\ Recovers(c, InProgress, "queued", "recovered")
      BY <1>2, <2>3 DEF RequeueWakes
    <3>2. \A u \in InProgress : wake[u].run = "succeeded" => InHands(u)
      <4>1. \A r \in WakeSlots : Busy(r) => ~At(r, "free")
        BY DEF Busy, At
      <4> QED BY <3>1, <4>1 DEF DoneInHands, InProgress, InHands
    <3> QED BY <2>1, <3>1, <3>2
  <2>4. CASE WakesRecovered(c)
    <3>1. /\ UNCHANGED <<wake, worker>>
          /\ \A d \in Callers : caller'[d] \in {caller[d], "claim", "idle"}
      BY <1>0, <2>4 DEF WakesRecovered, AfterRecovery
    <3>2. DoneInHands' <=> DoneInHands
      BY <3>1 DEF DoneInHands, Busy
    <3> QED BY <1>2, <3>1, <3>2 DEF DoneInv, Busy, Row
  <2> QED BY <1>6, <2>2, <2>3, <2>4 DEF Recovery
<1>8. CASE FamilyCrash
  <2>1. /\ \A s \in WakeSlots : worker'[s].pc = "free"
        /\ UNCHANGED wake
        /\ \A c \in Callers : caller'[c] \in {"idle", "completed"}
    BY <1>8 DEF FamilyCrash, NoWork, Booting
  <2> QED BY <1>2, <2>1 DEF DoneInv, Busy
<1>9. ASSUME NEW w \in Wakes, Retry(w) PROVE DoneInv' /\ Lasting
  <2>1. /\ wake[w].status = "failed" /\ wake' = [wake EXCEPT ![w].status = "queued"]
        /\ UNCHANGED <<worker, caller>>
    BY <1>9 DEF Retry
  <2>2. wake'[w].status = "queued" /\ wake'[w].run = wake[w].run /\ \A u \in Wakes \ {w} : wake'[u] = wake[u]
    BY <1>0, <2>1 DEF WakeRow
  <2>3. \A r \in WakeSlots : Busy(r) => worker[r].wake # w /\ worker[r].wake \in Wakes
    BY <1>2, <1>3, <2>1 DEF Row, Busy
  <2>4. \A r \in WakeSlots : Busy(r)' => Busy(r) /\ Row(r)' = Row(r) /\ worker'[r] = worker[r]
    BY <2>1, <2>2, <2>3 DEF Row, Busy
  <2>5. DoneInHands => DoneInHands'
    BY <2>1, <2>2 DEF DoneInHands, Busy
  <2> QED BY <1>2, <2>1, <2>2, <2>4, <2>5 DEF DoneInv
<1>10. CASE UNCHANGED <<wake, worker>> /\ \A c \in Callers : caller'[c] \in {caller[c], "claim", "completed", "idle"}
  <2>1. DoneInHands' <=> DoneInHands
    BY <1>10 DEF DoneInHands, Busy
  <2> QED BY <1>2, <1>10, <2>1 DEF DoneInv, Busy, Row
<1>11. ASSUME NEW s \in WakeSlots, WakeThrows(s) PROVE FALSE
  <2>1. Upset("error")
    BY <1>11 DEF WakeThrows
  <2> QED BY <1>0, <2>1, UpsetCounts DEF Trouble
<1> QED
  <2>1. CASE BoardMoves \/ (\E t \in Tasks, c \in {"open", "ended"} : SomebodyEdits(t, c))
    BY <1>10, <2>1 DEF BoardMoves, SomebodyEdits, wakeVars
  <2>2. CASE WakePollStarts \/ NoWakeToClaim \/ \E c \in Callers : WakeCallFails(c)
    BY <1>0, <1>10, <2>2 DEF WakePollStarts, NoWakeToClaim, WakeCallFails
  <2> QED BY <1>4, <1>5, <1>6, <1>8, <1>9, <1>11, <2>1, <2>2 DEF FamilyNext, Poll, Callers

-----------------------------------------------------------------------------
(* One wake-up is in one pair of hands.                                    *)

\* Where a worker's turn can lead its wake-up.
LEMMA OwnTurn ==
  ASSUME FamilyTyping, NEW s \in WakeSlots, Work(s) \/ WakeThrows(s),
         NEW w \in Wakes, w = worker[s].wake,
         Turning(s) => wake[w].status \notin {"queued", "waiting_children"}
  PROVE  /\ Turning(s)' => Turning(s) /\ wake'[w].status \notin {"queued", "waiting_children"}
         /\ \/ wake'[w].status = wake[w].status
            \/ wake'[w].status \notin {"queued", "waiting_children"}
            \/ Turning(s) /\ ~Turning(s)'
<1>0. /\ wake \in [Wakes -> WakeRow] /\ worker \in [WakeSlots -> WorkRow]
      /\ WorkKnown(worker[s], wake) /\ wake[w] \in WakeRow /\ worker[s] \in WorkRow
  BY FamilyTypes DEF FamilyTyping
<1>1. CASE BeginWake(s)
  BY <1>0, <1>1 DEF BeginWake, SetRow, Row, Turning, At, WakeRow, WorkRow
<1>2. CASE \/ SquadDispatched(s) \/ TurnWrites(s) \/ TurnEnds(s, "linked") \/ TurnEnds(s, "failing")
           \/ (\E q \in Squads : TurnDispatches(s, q))
  BY <1>0, <1>2 DEF SquadDispatched, TurnWrites, TurnEnds, TurnDispatches, Goes, Turning, At, WorkRow
<1>3. CASE StoreMessage(s)
  <2>1. wake'[w].status = wake[w].status
    BY <1>0, <1>3 DEF StoreMessage, WakeRow
  <2> QED BY <1>0, <1>3, <2>1 DEF StoreMessage, Turning, At
<1>4. CASE DecideWake(s)
  BY <1>0, <1>4 DEF DecideWake, Turning, At
<1>5. CASE EnqueueWake(s)
  <2>1. wake'[w] = wake[w]
    BY <1>0, <1>5, EnqueueUses DEF EnqueueWake, At, WorkKnown
  <2> QED BY <1>5, <2>1 DEF EnqueueWake, Turning, At
<1>6. CASE LookAgain(s)
  BY <1>0, <1>6 DEF LookAgain, Goes, Turning, At, WorkRow
<1>7. CASE WaitForChildren(s)
  BY <1>0, <1>7 DEF WaitForChildren, Goes, Turning, At, WorkRow, WakeRow
<1>8. CASE PhaseRecorded(s)
  BY <1>0, <1>8 DEF PhaseRecorded, Leaves, NoWork, Turning, At, WorkRow
<1>9. CASE CompleteRun(s)
  BY <1>0, <1>9 DEF CompleteRun, SetRow, Goes, Row, Turning, At, WorkRow, WakeRow
<1>10. CASE CompleteWake(s)
  BY <1>0, <1>10 DEF CompleteWake, SetRow, Leaves, NoWork, Row, Turning, At, WorkRow, WakeRow
<1>11. CASE FailRun(s)
  BY <1>0, <1>11 DEF FailRun, SetRow, Goes, Row, Turning, At, WorkRow, WakeRow
<1>12. CASE FailWake(s)
  BY <1>0, <1>12 DEF FailWake, SetRow, Leaves, NoWork, Row, Turning, At, WorkRow, WakeRow
<1>13. CASE WakeThrows(s)
  <2>1. wake' = wake
    BY <1>13 DEF WakeThrows
  <2>2. \/ worker' = [worker EXCEPT ![s] = NoWork]
        \/ worker' = [worker EXCEPT ![s].pc = "failing"] \/ worker' = [worker EXCEPT ![s].pc = "failed"]
        \/ worker[s].pc \in {"insert", "count", "enqueue"} /\ SendReturns(s)
    BY <1>13 DEF WakeThrows, Leaves, Goes
  <2>3. Turning(s)' => Turning(s)
    BY <1>0, <2>2 DEF Turning, NoWork, WorkRow
  <2> QED BY <2>1, <2>3
<1> QED
  BY <1>1, <1>2, <1>3, <1>4, <1>5, <1>6, <1>7, <1>8, <1>9, <1>10, <1>11, <1>12, <1>13 DEF Work

LEMMA TurnKept ==
  ASSUME FamilyTyping, FamilyNext, DoneInv, TurnInv
  PROVE  TurnInv'
<1>0. /\ wake \in [Wakes -> WakeRow] /\ worker \in [WakeSlots -> WorkRow]
      /\ upsets \in [Trouble -> 0 .. MaxUpsets]
      /\ \A s \in WakeSlots : WorkKnown(worker[s], wake)
  BY FamilyTypes DEF FamilyTyping
<1> SUFFICES ASSUME upsets'["late"] = 0, upsets'["error"] = 0 \/ upsets'["retry"] = 0 PROVE TurnInv'
  BY DEF TurnInv
<1>1. upsets["late"] = 0 /\ (upsets["error"] = 0 \/ upsets["retry"] = 0)
  BY Monotone DEF Trouble
<1>2. /\ \A s, r \in WakeSlots : Turning(s) /\ Turning(r) /\ worker[s].wake = worker[r].wake => s = r
      /\ \A s \in WakeSlots : Turning(s) => Row(s).status \notin {"queued", "waiting_children"}
  BY <1>1 DEF TurnInv
<1>3. \A s \in WakeSlots : worker[s].pc # "free" => worker[s].wake \in Wakes /\ wake[worker[s].wake].status # "none"
  BY <1>0 DEF WorkKnown
<1>4. ASSUME NEW s \in WakeSlots, Work(s) \/ WakeThrows(s) PROVE TurnInv'
  <2> DEFINE w == worker[s].wake
  <2>1. /\ worker[s].pc # "free" /\ w \in Wakes /\ wake[w].status # "none"
        /\ \A r \in WakeSlots \ {s} : worker'[r] = worker[r]
        /\ worker'[s].pc # "free" => worker'[s].wake = w
        /\ \A u \in Wakes \ {w} : wake[u].status # "none" \/ ~EnqueueWake(s) => wake'[u] = wake[u]
    BY <1>4, OnlyItsOwn
  <2>2. /\ Turning(s)' => Turning(s) /\ wake'[w].status \notin {"queued", "waiting_children"}
        /\ \/ wake'[w].status = wake[w].status
           \/ wake'[w].status \notin {"queued", "waiting_children"}
           \/ Turning(s) /\ ~Turning(s)'
    BY <1>2, <1>4, <2>1, OwnTurn DEF Row
  <2>3. ASSUME NEW r \in WakeSlots, r # s, Turning(r)'
        PROVE  /\ Turning(r) /\ worker'[r] = worker[r] /\ worker[r].wake \in Wakes
               /\ wake'[worker[r].wake].status \notin {"queued", "waiting_children"}
               /\ Turning(s) => worker[r].wake # w
    <3>1. Turning(r) /\ worker'[r] = worker[r]
      BY <2>1, <2>3 DEF Turning
    <3>2. worker[r].wake \in Wakes /\ wake[worker[r].wake].status # "none"
      BY <1>3, <3>1 DEF Turning
    <3>3. wake[worker[r].wake].status \notin {"queued", "waiting_children"}
      BY <1>2, <3>1 DEF Row
    <3>4. Turning(s) => worker[r].wake # w
      BY <1>2, <2>3, <3>1
    <3>5. CASE worker[r].wake # w
      BY <2>1, <3>1, <3>2, <3>3, <3>5
    <3>6. CASE worker[r].wake = w
      BY <2>2, <3>1, <3>2, <3>3, <3>4, <3>6
    <3> QED BY <3>5, <3>6
  <2> HIDE DEF w
  <2>4. \A r \in WakeSlots : Turning(r)' => Row(r)'.status \notin {"queued", "waiting_children"}
    <3>1. Turning(s)' => Row(s)'.status \notin {"queued", "waiting_children"}
      BY <2>1, <2>2 DEF Row, Turning
    <3>2. \A r \in WakeSlots \ {s} : Turning(r)' => Row(r)'.status \notin {"queued", "waiting_children"}
      BY <2>3 DEF Row
    <3> QED BY <3>1, <3>2
  <2>5. \A r, q \in WakeSlots : Turning(r)' /\ Turning(q)' /\ worker'[r].wake = worker'[q].wake => r = q
    <3>1. \A r \in WakeSlots \ {s} : Turning(r)' /\ Turning(s)' => worker'[r].wake # worker'[s].wake
      BY <2>1, <2>2, <2>3 DEF Turning
    <3>2. \A r, q \in WakeSlots \ {s} : Turning(r)' /\ Turning(q)' /\ worker'[r].wake = worker'[q].wake => r = q
      BY <1>2, <2>3
    <3> QED BY <3>1, <3>2
  <2> QED BY <2>4, <2>5 DEF TurnInv
<1>5. ASSUME NEW w \in Wakes, NEW s \in WakeSlots, ClaimWake(w, s) PROVE TurnInv'
  <2>1. /\ wake[w].status \in {"queued", "waiting_children"}
        /\ wake' = [wake EXCEPT ![w].status = "in_progress"]
        /\ worker' = [worker EXCEPT ![s] = [NoWork EXCEPT !.pc = "begin", !.wake = w]]
    BY <1>5 DEF ClaimWake, Claimable
  <2>2. \A r \in WakeSlots : Turning(r) => worker[r].wake # w
    BY <1>2, <2>1 DEF Row
  <2>3. wake'[w].status = "in_progress" /\ \A u \in Wakes \ {w} : wake'[u] = wake[u]
    BY <1>0, <2>1 DEF WakeRow
  <2>4. worker'[s].pc = "begin" /\ worker'[s].wake = w /\ \A r \in WakeSlots \ {s} : worker'[r] = worker[r]
    BY <1>0, <2>1 DEF NoWork
  <2>5. Row(s)'.status = "in_progress"
    BY <2>3, <2>4 DEF Row
  <2>6. ASSUME NEW r \in WakeSlots, r # s, Turning(r)'
        PROVE  Row(r)' = Row(r) /\ Turning(r) /\ worker'[r] = worker[r]
    <3>1. Turning(r) /\ worker'[r] = worker[r]
      BY <2>4, <2>6 DEF Turning
    <3>2. worker[r].wake \in Wakes /\ worker[r].wake # w
      BY <1>3, <2>2, <3>1 DEF Turning
    <3> QED BY <2>3, <3>1, <3>2 DEF Row
  <2>7. \A r \in WakeSlots : Turning(r)' => Row(r)'.status \notin {"queued", "waiting_children"}
    BY <1>2, <2>5, <2>6
  <2>8. \A r, q \in WakeSlots : Turning(r)' /\ Turning(q)' /\ worker'[r].wake = worker'[q].wake => r = q
    BY <1>2, <2>2, <2>4, <2>6
  <2> QED BY <2>7, <2>8 DEF TurnInv
<1>6. CASE \A s \in WakeSlots : worker'[s].pc = "free"
  BY <1>6 DEF TurnInv, Turning
<1>7. ASSUME NEW c \in Callers, Recovery(c) PROVE TurnInv'
  <2>1. PICK ws, status :
          /\ UNCHANGED worker
          /\ wake' = [w \in Wakes |-> IF w \in ws THEN [wake[w] EXCEPT !.status = status] ELSE wake[w]]
          /\ IF \E w \in ws : InHands(w) THEN Upset("late") ELSE UNCHANGED upsets
    <3>1. /\ UNCHANGED worker
          /\ \E vs \in SUBSET InProgress, st \in {"completed", "failed", "queued"} : Sets(vs, st)
      BY <1>7, RecoveryStep DEF FamilyTyping
    <3> QED BY <3>1 DEF Sets
  <2>2. \A w \in ws : ~InHands(w)
    BY <1>0, <2>1, UpsetCounts DEF Trouble
  <2>3. \A r \in WakeSlots : Turning(r)' => Turning(r) /\ Row(r)' = Row(r) /\ worker'[r] = worker[r]
    <3>1. ASSUME NEW r \in WakeSlots, Turning(r) PROVE worker[r].wake \in Wakes \ ws
      BY <1>3, <2>2, <3>1 DEF Turning, InHands, At
    <3> QED BY <2>1, <3>1 DEF Turning, Row
  <2> QED BY <1>2, <2>3 DEF TurnInv
<1>8. CASE FamilyCrash
  BY <1>6, <1>8 DEF FamilyCrash, NoWork
<1>9. ASSUME NEW w \in Wakes, Retry(w) PROVE TurnInv'
  <2>1. /\ wake[w].status = "failed" /\ wake' = [wake EXCEPT ![w].status = "queued"]
        /\ UNCHANGED worker /\ Upset("retry")
    BY <1>9 DEF Retry
  <2>2. upsets["error"] = 0
    BY <1>0, <1>1, <2>1, UpsetCounts DEF Trouble
  <2>3. \A r \in WakeSlots : Turning(r) => worker[r].wake # w /\ worker[r].wake \in Wakes
    <3>1. \A r \in WakeSlots : Turning(r) => Row(r).status = "in_progress"
      BY <1>1, <2>2 DEF DoneInv, Busy, Turning
    <3> QED BY <1>3, <2>1, <3>1 DEF Row, Turning
  <2>4. \A r \in WakeSlots : Turning(r)' => Turning(r) /\ Row(r)' = Row(r) /\ worker'[r] = worker[r]
    BY <1>0, <2>1, <2>3 DEF Row, Turning
  <2> QED BY <1>2, <2>4 DEF TurnInv
<1>10. CASE UNCHANGED <<wake, worker>>
  BY <1>2, <1>10 DEF TurnInv, Turning, Row
<1> QED
  BY <1>4, <1>5, <1>7, <1>8, <1>9, <1>10
  DEF FamilyNext, Callers, BoardMoves, SomebodyEdits, Poll, WakeCallFails, WakePollStarts, NoWakeToClaim, wakeVars

-----------------------------------------------------------------------------
(* Reports come when the children have ended.                              *)

LEMMA SquadKept ==
  ASSUME FamilyTyping, FamilyNext, SquadInv
  PROVE  SquadInv'
<1>0. /\ worker \in [WakeSlots -> WorkRow] /\ BoardTypeOK
      /\ owner \in [Squads -> Wakes \cup {NoWake}]
      /\ \A s \in WakeSlots : WorkKnown(worker[s], wake)
  BY FamilyTypes DEF FamilyTyping
<1> SUFFICES ASSUME NEW q \in Squads
             PROVE  /\ dispatch'[q] = "inserting" =>
                         \E s \in WakeSlots : worker'[s].pc = "squad" /\ worker'[s].squad = q /\ worker'[s].wake = owner'[q]
                    /\ dispatch'[q] = "no" => \A t \in Tasks : SquadOf[t] = q => child'[t] = "none"
  BY DEF SquadInv
<1> DEFINE Waited == dispatch'[q] = "inserting" =>
             \E s \in WakeSlots : worker'[s].pc = "squad" /\ worker'[s].squad = q /\ worker'[s].wake = owner'[q]
           Empty == dispatch'[q] = "no" => \A t \in Tasks : SquadOf[t] = q => child'[t] = "none"
<1>1. /\ dispatch[q] = "inserting" =>
           \E s \in WakeSlots : worker[s].pc = "squad" /\ worker[s].squad = q /\ worker[s].wake = owner[q]
      /\ dispatch[q] = "no" => \A t \in Tasks : SquadOf[t] = q => child[t] = "none"
  BY DEF SquadInv
<1>2. ASSUME NEW s \in WakeSlots, Work(s) \/ WakeThrows(s), UNCHANGED <<boardVars, owner>>
      PROVE  Waited /\ Empty
  <2>1. \A r \in WakeSlots \ {s} : worker'[r] = worker[r]
    BY <1>2, OnlyItsOwn
  <2>2. worker[s].pc = "squad" => dispatch[worker[s].squad] = "over"
    BY <1>2
    DEF Work, WakeThrows, BeginWake, SquadDispatched, TurnDispatches, At,
        TurnWrites, TurnEnds, StoreMessage, DecideWake, EnqueueWake, LookAgain, WaitForChildren,
        PhaseRecorded, CompleteRun, CompleteWake, FailRun, FailWake
  <2>3. UNCHANGED <<child, dispatch, owner>>
    BY <1>2 DEF boardVars
  <2> QED BY <1>1, <2>1, <2>2, <2>3
<1>3. ASSUME NEW s \in WakeSlots, NEW p \in Squads, TurnDispatches(s, p) PROVE Waited /\ Empty
  <2>1. /\ dispatch[p] = "no" /\ dispatch' = [dispatch EXCEPT ![p] = "inserting"] /\ child' = child
        /\ owner' = [owner EXCEPT ![p] = worker[s].wake]
        /\ worker' = [worker EXCEPT ![s].pc = "squad", ![s].squad = p]
        /\ worker[s].pc = "turn"
    BY <1>3 DEF TurnDispatches, StartDispatch, At
  <2>2. \A r \in WakeSlots \ {s} : worker'[r] = worker[r]
    BY <1>0, <2>1
  <2>3. worker'[s].pc = "squad" /\ worker'[s].squad = p /\ worker'[s].wake = worker[s].wake
    BY <1>0, <2>1 DEF WorkRow
  <2>4. CASE p = q
    BY <1>0, <2>1, <2>3, <2>4 DEF BoardTypeOK
  <2>5. CASE p # q
    <3>1. dispatch'[q] = dispatch[q] /\ owner'[q] = owner[q]
      BY <1>0, <2>1, <2>5 DEF BoardTypeOK
    <3> QED BY <1>1, <2>1, <2>2, <3>1
  <2> QED BY <2>4, <2>5
<1>4. ASSUME NEW w \in Wakes, NEW s \in WakeSlots, ClaimWake(w, s) PROVE Waited /\ Empty
  <2>1. worker[s].pc = "free" /\ UNCHANGED <<child, dispatch, owner>>
        /\ \A r \in WakeSlots \ {s} : worker'[r] = worker[r]
    BY <1>0, <1>4 DEF ClaimWake, At, boardVars
  <2> QED BY <1>1, <2>1
<1>5. CASE FamilyCrash
  <2>1. dispatch'[q] # "inserting" /\ (dispatch'[q] = "no" => dispatch[q] = "no") /\ child' = child
    BY <1>0, <1>5 DEF FamilyCrash, StopDispatches, BoardTypeOK
  <2> QED BY <1>1, <2>1
<1>6. CASE BoardMoves
  <2>1. UNCHANGED <<owner, worker>>
    BY <1>6 DEF BoardMoves, wakeVars
  <2>2. /\ dispatch'[q] = "inserting" => dispatch[q] = "inserting"
        /\ dispatch'[q] = "no" => dispatch[q] = "no"
        /\ \A t \in Tasks : child[t] = "none" => child'[t] = "none" \/ dispatch[SquadOf[t]] = "inserting"
    <3>1. ASSUME NEW t \in Tasks, AddChild(t) \/ EndChild(t) PROVE <2>2
      BY <1>0, <3>1 DEF AddChild, EndChild, BoardTypeOK
    <3>2. ASSUME NEW p \in Squads, EndDispatch(p) PROVE <2>2
      BY <1>0, <3>2 DEF EndDispatch, BoardTypeOK
    <3> QED BY <1>6, <3>1, <3>2 DEF BoardMoves
  <2> QED BY <1>1, <2>1, <2>2
<1>7. ASSUME NEW t \in Tasks, NEW c, SomebodyEdits(t, c) PROVE Waited /\ Empty
  <2>1. UNCHANGED <<owner, worker, dispatch>> /\ child[t] # "none" /\ child' = [child EXCEPT ![t] = c]
    BY <1>7 DEF SomebodyEdits, EditChild
  <2> QED BY <1>0, <1>1, <2>1 DEF BoardTypeOK
<1>8. CASE UNCHANGED <<boardVars, owner, worker>>
  BY <1>1, <1>8 DEF boardVars
<1> QED
  <2>1. \A s \in WakeSlots : Work(s) \/ WakeThrows(s) =>
          UNCHANGED <<boardVars, owner>> \/ \E p \in Squads : TurnDispatches(s, p)
    BY DEF Work, WakeThrows, BeginWake, SquadDispatched,
        TurnWrites, TurnEnds, StoreMessage, DecideWake, EnqueueWake, LookAgain, WaitForChildren,
        PhaseRecorded, CompleteRun, CompleteWake, FailRun, FailWake
  <2>2. ASSUME NEW s \in WakeSlots, Work(s) \/ WakeThrows(s) PROVE Waited /\ Empty
    BY <1>2, <1>3, <2>1, <2>2
  <2>3. CASE Poll \/ Recovery("boot") \/ (\E c \in Callers : WakeCallFails(c)) \/ \E w \in Wakes : Retry(w)
    BY <1>4, <1>8, <2>3
    DEF Poll, Recovery, WakeCallFails, Retry, WakePollStarts, SettleByRun, Recovers, RequeueWakes, WakesRecovered,
        NoWakeToClaim
  <2> QED BY <1>5, <1>6, <1>7, <2>2, <2>3 DEF FamilyNext

LEMMA ChildrenKept ==
  ASSUME FamilyTyping, FamilyNext, TurnInv, SquadInv, ChildrenInv
  PROVE  ChildrenInv'
<1>0. /\ worker \in [WakeSlots -> WorkRow] /\ BoardTypeOK
      /\ owner \in [Squads -> Wakes \cup {NoWake}]
      /\ \A s \in WakeSlots : WorkKnown(worker[s], wake)
      /\ SquadOf \in [Tasks -> Squads]
  BY FamilyTypes, SquadsAssumption DEF FamilyTyping
<1> SUFFICES ASSUME ~edited', upsets'["late"] = 0, upsets'["error"] = 0 \/ upsets'["retry"] = 0,
                    NEW s \in WakeSlots, worker'[s].pc = "insert", worker'[s].back = "complete",
                    NEW t \in Tasks, owner'[SquadOf[t]] = worker'[s].wake, child'[t] # "none"
             PROVE  child'[t] = "ended"
  BY DEF ChildrenInv, Children
<1>1. ~edited /\ upsets["late"] = 0 /\ (upsets["error"] = 0 \/ upsets["retry"] = 0)
  BY Monotone DEF Trouble
<1>2. ASSUME worker[s].pc = "insert", worker[s].back = "complete", owner[SquadOf[t]] = worker[s].wake,
             child[t] # "none"
      PROVE  child[t] = "ended"
  BY <1>1, <1>2 DEF ChildrenInv, Children
<1>3. CASE UNCHANGED <<child, owner, worker>>
  BY <1>2, <1>3
<1>4. ASSUME NEW r \in WakeSlots, Work(r) \/ WakeThrows(r), UNCHANGED <<boardVars, owner>>
      PROVE  child'[t] = "ended"
  <2>1. UNCHANGED <<child, owner>>
    BY <1>4 DEF boardVars
  <2>2. CASE r # s
    <3>1. worker'[s] = worker[s]
      BY <1>4, <2>2, OnlyItsOwn
    <3> QED BY <1>2, <2>1, <3>1
  <2>3. CASE r = s
    <3>1. worker'[s].wake = worker[s].wake
      BY <1>4, <2>3, OnlyItsOwn
    <3>2. CASE LookAgain(s)
      <4>1. \A u \in Children(worker[s].wake) : child[u] = "ended"
        BY <1>0, <3>2 DEF LookAgain, Goes, WorkRow
      <4> QED BY <2>1, <3>1, <4>1 DEF Children
    <3>3. CASE ~LookAgain(s)
      <4>1. worker[s].pc = "insert" /\ worker[s].back = "complete"
        <5>1. ASSUME worker'[s].pc = "insert" PROVE TurnWrites(s)
          <6>1. worker[s].back \in {"turn", "complete"} \/ worker[s].pc \notin {"insert", "count", "enqueue"}
            BY <1>0 DEF WorkKnown
          <6> QED
            BY <1>0, <1>4, <2>3, <3>3, <5>1, <6>1
            DEF Work, WakeThrows, BeginWake, SquadDispatched, TurnDispatches, At, Goes, Leaves, SendReturns,
                TurnEnds, StoreMessage, DecideWake, EnqueueWake, WaitForChildren,
                PhaseRecorded, CompleteRun, CompleteWake, FailRun, FailWake, NoWork, WorkRow
        <5>2. TurnWrites(s) => worker'[s].back = "turn"
          BY <1>0 DEF TurnWrites, WorkRow
        <5> QED BY <5>1, <5>2
      <4> QED BY <1>2, <2>1, <3>1, <4>1
    <3> QED BY <3>2, <3>3
  <2> QED BY <2>2, <2>3
<1>5. ASSUME NEW r \in WakeSlots, NEW p \in Squads, TurnDispatches(r, p) PROVE child'[t] = "ended"
  <2>1. /\ dispatch[p] = "no" /\ child' = child
        /\ owner' = [owner EXCEPT ![p] = worker[r].wake]
        /\ worker' = [worker EXCEPT ![r].pc = "squad", ![r].squad = p]
    BY <1>5 DEF TurnDispatches, StartDispatch
  <2>2. r # s /\ worker'[s] = worker[s]
    BY <1>0, <2>1 DEF WorkRow
  <2>3. SquadOf[t] # p
    BY <2>1 DEF SquadInv
  <2>4. owner'[SquadOf[t]] = owner[SquadOf[t]]
    BY <1>0, <2>1, <2>3
  <2> QED BY <1>2, <2>1, <2>2, <2>4
<1>6. ASSUME NEW w \in Wakes, NEW r \in WakeSlots, ClaimWake(w, r) PROVE child'[t] = "ended"
  <2>1. worker'[r].pc = "begin" /\ UNCHANGED <<child, owner>>
        /\ \A p \in WakeSlots \ {r} : worker'[p] = worker[p]
    BY <1>0, <1>6 DEF ClaimWake, NoWork, boardVars
  <2> QED BY <1>2, <2>1
<1>7. CASE FamilyCrash
  BY <1>7 DEF FamilyCrash, NoWork
<1>8. CASE BoardMoves
  <2>1. UNCHANGED <<owner, worker>>
    BY <1>8 DEF BoardMoves, wakeVars
  <2>2. ASSUME NEW u \in Tasks, AddChild(u) PROVE child'[t] = "ended"
    <3>1. dispatch[SquadOf[u]] = "inserting" /\ child' = [child EXCEPT ![u] = "open"]
      BY <2>2 DEF AddChild
    <3>2. CASE u = t
      <4>1. PICK r \in WakeSlots : worker[r].pc = "squad" /\ worker[r].wake = owner[SquadOf[t]]
        BY <1>0, <3>1, <3>2 DEF SquadInv
      <4>2. Turning(r) /\ Turning(s) /\ worker[r].wake = worker[s].wake
        BY <2>1, <4>1 DEF Turning
      <4>3. r = s
        BY <1>1, <4>2 DEF TurnInv
      <4> QED BY <2>1, <4>1, <4>3
    <3>3. CASE u # t
      <4>1. child'[t] = child[t]
        BY <1>0, <3>1, <3>3 DEF BoardTypeOK
      <4> QED BY <1>2, <2>1, <4>1
    <3> QED BY <3>2, <3>3
  <2>3. ASSUME NEW u \in Tasks, EndChild(u) PROVE child'[t] = "ended"
    <3>1. child[t] # "none" /\ (child[t] = "ended" => child'[t] = "ended")
      BY <1>0, <2>3 DEF EndChild, BoardTypeOK
    <3> QED BY <1>2, <2>1, <3>1
  <2>4. ASSUME NEW p \in Squads, EndDispatch(p) PROVE child'[t] = "ended"
    BY <1>3, <2>1, <2>4 DEF EndDispatch
  <2> QED BY <1>8, <2>2, <2>3, <2>4 DEF BoardMoves
<1>9. ASSUME NEW u \in Tasks, NEW c, SomebodyEdits(u, c) PROVE FALSE
  BY <1>9 DEF SomebodyEdits, EditChild
<1> QED
  <2>1. \A r \in WakeSlots : Work(r) \/ WakeThrows(r) =>
          UNCHANGED <<boardVars, owner>> \/ \E p \in Squads : TurnDispatches(r, p)
    BY DEF Work, WakeThrows, BeginWake, SquadDispatched,
        TurnWrites, TurnEnds, StoreMessage, DecideWake, EnqueueWake, LookAgain, WaitForChildren,
        PhaseRecorded, CompleteRun, CompleteWake, FailRun, FailWake
  <2>2. ASSUME NEW r \in WakeSlots, Work(r) \/ WakeThrows(r) PROVE child'[t] = "ended"
    BY <1>4, <1>5, <2>1, <2>2
  <2>3. CASE Poll \/ Recovery("boot") \/ (\E c \in Callers : WakeCallFails(c)) \/ \E w \in Wakes : Retry(w)
    BY <1>3, <1>6, <2>3
    DEF Poll, Recovery, WakeCallFails, Retry, WakePollStarts, SettleByRun, Recovers, RequeueWakes, WakesRecovered,
        NoWakeToClaim, boardVars
  <2> QED BY <1>7, <1>8, <1>9, <2>2, <2>3 DEF FamilyNext

LEMMA ReportsAreStored ==
  ASSUME FamilyTyping, FamilyNext, NEW w \in Wakes, "report" \in wake'[w].sent \ wake[w].sent
  PROVE  \E s \in WakeSlots : worker[s].pc = "insert" /\ worker[s].back = "complete" /\ worker[s].wake = w
<1>0. /\ wake \in [Wakes -> WakeRow] /\ worker \in [WakeSlots -> WorkRow]
      /\ \A s \in WakeSlots : WorkKnown(worker[s], wake)
  BY FamilyTypes DEF FamilyTyping
<1>1. ASSUME wake'[w].sent = wake[w].sent PROVE FALSE
  BY <1>1
<1>2. ASSUME NEW s \in WakeSlots, Work(s)
      PROVE  StoreMessage(s) /\ worker[s].back = "complete" /\ worker[s].wake = w
  <2>1. CASE EnqueueWake(s)
    BY <1>1, <2>1, EnqueueUses
  <2>2. CASE UNCHANGED wake
    BY <1>1, <2>2
  <2>3. CASE BeginWake(s) \/ CompleteRun(s) \/ CompleteWake(s) \/ FailRun(s) \/ FailWake(s)
    <3>1. PICK status, run : wake' = [wake EXCEPT ![worker[s].wake].status = status, ![worker[s].wake].run = run]
      BY <2>3 DEF BeginWake, CompleteRun, CompleteWake, FailRun, FailWake, SetRow
    <3> QED BY <1>0, <1>1, <3>1 DEF WakeRow
  <2>4. CASE WaitForChildren(s)
    BY <1>0, <1>1, <2>4 DEF WaitForChildren, WakeRow
  <2>5. CASE StoreMessage(s)
    <3>1. wake' = [wake EXCEPT ![worker[s].wake].sent = wake[worker[s].wake].sent \cup {Kind(s)}]
      BY <1>1, <2>5 DEF StoreMessage
    <3>2. worker[s].wake = w /\ Kind(s) = "report"
      BY <1>0, <3>1 DEF WakeRow
    <3>3. worker[s].back \in {"turn", "complete"} /\ worker[s].back # "turn"
      BY <1>0, <2>5, <3>2 DEF StoreMessage, At, WorkKnown, Kind
    <3> QED BY <2>5, <3>2, <3>3
  <2> QED
    BY <1>2, <2>1, <2>2, <2>3, <2>4, <2>5
    DEF Work, SquadDispatched, TurnWrites, TurnDispatches, TurnEnds, DecideWake, LookAgain, PhaseRecorded
<1>4. CASE \E c \in Callers : Recovery(c)
  <2>1. PICK ws, status :
          wake' = [u \in Wakes |-> IF u \in ws THEN [wake[u] EXCEPT !.status = status] ELSE wake[u]]
    <3>1. \E vs \in SUBSET InProgress, st \in {"completed", "failed", "queued"} : Sets(vs, st)
      BY <1>4, RecoveryStep DEF FamilyTyping
    <3> QED BY <3>1 DEF Sets
  <2> QED BY <1>0, <1>1, <2>1 DEF WakeRow
<1>5. ASSUME NEW u \in Wakes, NEW s \in WakeSlots, ClaimWake(u, s) PROVE FALSE
  BY <1>0, <1>1, <1>5 DEF ClaimWake, WakeRow
<1>6. ASSUME NEW u \in Wakes, Retry(u) PROVE FALSE
  BY <1>0, <1>1, <1>6 DEF Retry, WakeRow
<1>7. CASE UNCHANGED wake
  BY <1>1, <1>7
<1> QED
  BY <1>2, <1>4, <1>5, <1>6, <1>7
  DEF FamilyNext, BoardMoves, SomebodyEdits, Callers, Poll, WakeCallFails, WakeThrows, FamilyCrash,
      WakePollStarts, NoWakeToClaim, wakeVars, StoreMessage, At

-----------------------------------------------------------------------------
(* The theorems.                                                           *)

LEMMA FamilyStarts == FamilyInit => FamilyInv
<1> SUFFICES ASSUME FamilyInit PROVE FamilyInv
  OBVIOUS
<1>1. FamilyTyping /\ CapInv
  BY TypingStarts, CapStarts
<1>2. \A s \in WakeSlots : worker[s].pc = "free"
  BY DEF FamilyInit, NoWork
<1>3. \A w \in Wakes : wake[w].run = "none"
  BY NewRowTyped, NoRowTyped DEF FamilyInit
<1>4. DoneInv /\ TurnInv
  <2>1. DoneInHands
    BY <1>3 DEF DoneInHands
  <2> QED BY <1>2, <1>3, <2>1 DEF DoneInv, TurnInv, Busy, Turning
<1>5. SquadInv /\ ChildrenInv
  BY <1>2 DEF FamilyInit, BoardInit, SquadInv, ChildrenInv
<1> QED BY <1>1, <1>4, <1>5 DEF FamilyInv

LEMMA FamilyKept == FamilyInv /\ [FamilyNext]_vars => FamilyInv'
<1> SUFFICES ASSUME FamilyInv, [FamilyNext]_vars PROVE FamilyInv'
  OBVIOUS
<1>1. CASE UNCHANGED vars
  <2>1. FamilyTyping'
    BY <1>1, TypingStays DEF FamilyInv
  <2>2. CapInv' /\ DoneInv' /\ TurnInv'
    BY <1>1 DEF FamilyInv, vars, wakeVars, CapInv, WakeCount, Enqueuing, DoneInv, DoneInHands, TurnInv, Busy, Turning, Row
  <2>3. SquadInv' /\ ChildrenInv'
    BY <1>1 DEF FamilyInv, vars, wakeVars, boardVars, SquadInv, ChildrenInv, Children
  <2> QED BY <2>1, <2>2, <2>3 DEF FamilyInv
<1>2. CASE FamilyNext
  BY <1>2, TypingKept, CapKept, DoneKept, TurnKept, SquadKept, ChildrenKept DEF FamilyInv
<1> QED BY <1>1, <1>2

LEMMA FamilyInvariance == FamilySpec => []FamilyInv
BY FamilyStarts, FamilyKept, PTL DEF FamilySpec

\* The columns of agent_wakeups and the fields of a poll and a run keep to their values.
THEOREM FamilyTypeCorrect == FamilySpec => []FamilyTypeOK
<1>1. FamilyInv => FamilyTypeOK
  BY DEF FamilyInv, FamilyTyping
<1> QED BY <1>1, FamilyInvariance, PTL

\* Never more wake-ups in a thread than its cap and one for each worker beside the one that
\* counts: sendAgentMessage counts them and enqueues the next in two queries.
THEOREM ThreadsCapped == FamilySpec => []WakesCapped
<1>1. FamilyInv => WakesCapped
  <2> SUFFICES ASSUME FamilyInv PROVE WakesCapped
    OBVIOUS
  <2>1. WakeCount \in 0 .. MaxWakes /\ MaxWakes \in Nat /\ MAX_THREAD_WAKES \in Nat
    BY UsedCount, WakesAssumption DEF FamilyInv, FamilyTyping
  <2>2. Enqueuing \in SUBSET WakeSlots
    BY DEF Enqueuing
  <2>3. Cardinality(Enqueuing) \in Nat /\ Cardinality(WakeSlots) \in Nat
    BY <2>2, SlotsCount
  <2>4. WakeCount + Cardinality(Enqueuing) <= MAX_THREAD_WAKES + Cardinality(WakeSlots) - 1
    BY DEF FamilyInv, CapInv
  <2>5. WakeCount <= MAX_THREAD_WAKES + Cardinality(WakeSlots) - 1
    BY <2>1, <2>3, <2>4
  <2> QED BY <2>5 DEF WakesCapped
<1> QED BY <1>1, FamilyInvariance, PTL

\* As long as the database answers and no recovery sets the status of a wake-up that a worker
\* here has, a wake-up whose run has succeeded is not run again by any recovery, retry or
\* claim, for any number of workers and restarts, and however the recovery of the start and
\* those of the polls overlap.
THEOREM SucceededStays == FamilySpec => SucceededIsNotRerun
<1> DEFINE Lasts == upsets'["error"] = 0 /\ upsets'["late"] = 0 =>
             \A w \in Wakes : wake[w].run = "succeeded" => wake'[w].run = "succeeded"
<1>1. FamilyInv /\ [FamilyNext]_vars => [Lasts]_vars
  BY DoneKept DEF FamilyInv
<1> QED BY <1>1, FamilyInvariance, PTL DEF FamilySpec, SucceededIsNotRerun

\* Whoever reports has no task left that has not ended (runAgentWakeup looks again after the
\* turn), for any number of workers, squads, tasks and restarts, as long as no recovery sets
\* the status of a wake-up that a worker here has.
THEOREM ReportsComeLast == FamilySpec => ReportsWhenChildrenEnded
<1> DEFINE Done == ~edited' /\ upsets'["late"] = 0 /\ (upsets'["error"] = 0 \/ upsets'["retry"] = 0) =>
             \A w \in Wakes :
               "report" \in wake'[w].sent \ wake[w].sent => \A t \in Children(w) : child[t] = "ended"
<1>1. FamilyInv /\ [FamilyNext]_vars => [Done]_vars
  <2> SUFFICES ASSUME FamilyInv, FamilyNext, ~edited', upsets'["late"] = 0, upsets'["error"] = 0 \/ upsets'["retry"] = 0,
                      NEW w \in Wakes, "report" \in wake'[w].sent \ wake[w].sent
               PROVE  \A t \in Children(w) : child[t] = "ended"
    OBVIOUS
  <2>1. ~edited /\ upsets["late"] = 0 /\ (upsets["error"] = 0 \/ upsets["retry"] = 0)
    BY Monotone DEF FamilyInv, Trouble
  <2>2. PICK s \in WakeSlots : worker[s].pc = "insert" /\ worker[s].back = "complete" /\ worker[s].wake = w
    BY ReportsAreStored DEF FamilyInv
  <2> QED BY <2>1, <2>2 DEF FamilyInv, ChildrenInv
<1> QED BY <1>1, FamilyInvariance, PTL DEF FamilySpec, ReportsWhenChildrenEnded
=============================================================================
