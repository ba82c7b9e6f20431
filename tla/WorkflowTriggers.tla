--------------------------- MODULE WorkflowTriggers ---------------------------
(***************************************************************************)
(* Workflows that start on their own when a window lands on the board:     *)
(* server/workflows/triggers.js with the row of board_workflow_triggers,   *)
(* composed with WorkflowRuns.  A tick reads the trigger and the board and *)
(* starts one run for the windows that it has not seen, and then writes    *)
(* down what it saw.                                                       *)
(*                                                                         *)
(* Docs are the windows the trigger watches: of its kind, not itself and   *)
(* no result card (watchedWindows).  One that left may come back under its *)
(* id.  A start by schedule is a start by a person whose time was moved on *)
(* before, and is left out.  The timer does not wait for the tick before:  *)
(* a slow start or other triggers can make several overlap.                *)
(***************************************************************************)
EXTENDS WorkflowRuns

CONSTANTS
  Docs,
  MAX_SEEN,      \* how many ids a trigger remembers
  Ticks,         \* ticks that may be under way at the same time
  MaxLandings    \* bound: how often each window lands

ASSUME TriggersAssumption ==
  /\ IsFiniteSet(Docs) /\ IsFiniteSet(Ticks) /\ MAX_SEEN \in Nat \ {0}
  /\ MaxLandings \in Nat \ {0}

VARIABLES
  docs,      \* the watched windows on the board
  trigger,   \* board_workflow_triggers
  arming,    \* PUT /trigger between its read of the board and its write
  tick,      \* checkTrigger, for each tick under way
  landed,    \* history: how often each window landed
  crowded,   \* history: whether there were more of them than a trigger remembers
  handed     \* history: the runs started for each window

boardVars == <<docs, landed, crowded>>
triggerVars == <<boardVars, trigger, arming, tick, handed>>
vars == <<runVars, triggerVars>>

NoTick == [pc |-> "idle", seen |-> {}, watched |-> {}, walker |-> NoOne]
NotArming == [on |-> FALSE, seen |-> {}]

WorkflowsTypeOK ==
  /\ RunsTypeOK
  /\ docs \subseteq Docs
  /\ trigger \in [on : BOOLEAN, seen : SUBSET Docs]
  /\ arming \in [on : BOOLEAN, seen : SUBSET Docs]
  /\ tick \in [Ticks -> [pc : {"idle", "read", "start", "save"}, seen : SUBSET Docs,
                         watched : SUBSET Docs, walker : Walkers \cup {NoOne}]]
  /\ landed \in [Docs -> 0 .. MaxLandings]
  /\ crowded \in BOOLEAN
  /\ handed \in [Docs -> Nat]

\* The trigger was turned on when the board had no such window.
WorkflowsInit ==
  /\ RunsInit
  /\ docs = {}
  /\ trigger = [on |-> TRUE, seen |-> {}]
  /\ arming = NotArming
  /\ tick = [t \in Ticks |-> NoTick]
  /\ landed = [d \in Docs |-> 0]
  /\ crowded = FALSE
  /\ handed = [d \in Docs |-> 0]

\* slice(-MAX_SEEN): the last ones of the board.
Newest(ids) == {s \in SUBSET ids : Cardinality(s) = IF Cardinality(ids) <= MAX_SEEN
                                                      THEN Cardinality(ids) ELSE MAX_SEEN}

-----------------------------------------------------------------------------
Lands(d) ==
  /\ docs' = docs \cup {d}
  /\ landed' = [landed EXCEPT ![d] = @ + 1]
  /\ crowded' = (crowded \/ Cardinality(docs) >= MAX_SEEN)
  /\ UNCHANGED <<runVars, trigger, arming, tick, handed>>

\* Ids are only names: the next one unused is taken.
AddDoc(d) ==
  /\ landed[d] = 0 /\ d = CHOOSE e \in Docs : landed[e] = 0
  /\ Lands(d)

\* A window that left comes back (undo, or from the trash).
RestoreDoc(d) ==
  /\ d \notin docs /\ landed[d] \in 1 .. MaxLandings - 1
  /\ Lands(d)

RemoveDoc(d) ==
  /\ d \in docs /\ Upset("removal")
  /\ docs' = docs \ {d}
  /\ UNCHANGED <<row, shown, onBoard, active, run, stopper, approved, hidden, asks>>
  /\ UNCHANGED <<landed, crowded, trigger, arming, tick, handed>>

\* PUT /trigger, again: the ids there are now count as seen.
ArmReads(seen) ==
  /\ arming = NotArming /\ onBoard /\ Upset("edit")
  /\ seen \in Newest(docs)
  /\ arming' = [on |-> TRUE, seen |-> seen]
  /\ UNCHANGED <<row, shown, onBoard, active, run, stopper, approved, hidden, asks>>
  /\ UNCHANGED <<boardVars, trigger, tick, handed>>

\* saveTrigger
ArmWrites ==
  /\ arming.on
  /\ trigger' = arming /\ arming' = NotArming
  /\ UNCHANGED <<runVars, boardVars, tick, handed>>

Disarm ==
  /\ trigger.on /\ Upset("edit")
  /\ trigger' = NotArming
  /\ UNCHANGED <<row, shown, onBoard, active, run, stopper, approved, hidden, asks>>
  /\ UNCHANGED <<boardVars, arming, tick, handed>>

-----------------------------------------------------------------------------
(* tickWorkflowTriggers, checkTrigger                                      *)

\* listArmedTriggers.  (Of the names of ticks, the next one unused is taken.)
TickLists(t) ==
  /\ tick[t] = NoTick /\ t = (CHOOSE u \in Ticks : tick[u] = NoTick) /\ trigger.on
  /\ IF \A u \in Ticks : tick[u] = NoTick
       THEN UNCHANGED upsets ELSE Upset("overlap")
  /\ tick' = [tick EXCEPT ![t] = [NoTick EXCEPT !.pc = "read", !.seen = trigger.seen]]
  /\ UNCHANGED <<row, shown, onBoard, active, run, stopper, approved, hidden, asks>>
  /\ UNCHANGED <<boardVars, trigger, arming, handed>>

Fresh(t) == docs \ tick[t].seen

\* The board is read.  Its window is gone: the trigger is dropped.
TickDrops(t) ==
  /\ tick[t].pc = "read" /\ ~onBoard
  /\ trigger' = NotArming /\ tick' = [tick EXCEPT ![t] = NoTick]
  /\ UNCHANGED <<runVars, boardVars, arming, handed>>

\* Nothing is new: what is there is written down if something has left.
TickSeesNothing(t) ==
  /\ tick[t].pc = "read" /\ onBoard /\ Fresh(t) = {}
  /\ tick' = [tick EXCEPT ![t] = IF Cardinality(docs) = Cardinality(tick[t].seen) THEN NoTick
                                 ELSE [@ EXCEPT !.pc = "save", !.watched = docs]]
  /\ UNCHANGED <<runVars, boardVars, trigger, arming, handed>>

\* Mutant: a busy workflow counts them as seen.
TickForgetsBusy(t) ==
  /\ tick[t].pc = "read" /\ onBoard /\ Fresh(t) # {} /\ active # NoOne
  /\ tick' = [tick EXCEPT ![t].pc = "save", ![t].watched = docs]
  /\ UNCHANGED <<runVars, boardVars, trigger, arming, handed>>

\* A busy workflow keeps the new windows for the next time.
TickFindsBusy(t) ==
  /\ tick[t].pc = "read" /\ onBoard /\ Fresh(t) # {} /\ active # NoOne
  /\ tick' = [tick EXCEPT ![t] = NoTick]
  /\ UNCHANGED <<runVars, boardVars, trigger, arming, handed>>

TickStarts(t, w) ==
  /\ tick[t].pc = "read" /\ onBoard /\ Fresh(t) # {}
  /\ BeginStart(w)
  /\ tick' = [tick EXCEPT ![t].pc = "start", ![t].watched = docs, ![t].walker = w]
  /\ UNCHANGED <<row, shown, onBoard, active, stopper, approved, hidden, asks, upsets>>
  /\ UNCHANGED <<boardVars, trigger, arming, handed>>

\* Mutant: only what this tick started a run for is written down.
TickSavesFresh(t, seen) ==
  /\ tick[t].pc = "save" /\ seen \in Newest(tick[t].watched)
  /\ trigger' = IF trigger.on THEN [trigger EXCEPT !.seen = seen \ tick[t].seen] ELSE trigger
  /\ tick' = [tick EXCEPT ![t] = NoTick]
  /\ UNCHANGED <<runVars, boardVars, arming, handed>>

\* saveSeenWindows: by id alone, and no row of a trigger that was turned off.
TickSaves(t, seen) ==
  /\ tick[t].pc = "save" /\ seen \in Newest(tick[t].watched)
  /\ trigger' = IF trigger.on THEN [trigger EXCEPT !.seen = seen] ELSE trigger
  /\ tick' = [tick EXCEPT ![t] = NoTick]
  /\ UNCHANGED <<runVars, boardVars, arming, handed>>

\* An error of a query of the tick is logged.
TickFails(t) ==
  /\ tick[t].pc \in {"read", "save"} /\ Upset("error")
  /\ tick' = [tick EXCEPT ![t] = NoTick]
  /\ UNCHANGED <<row, shown, onBoard, active, run, stopper, approved, hidden, asks>>
  /\ UNCHANGED <<boardVars, trigger, arming, handed>>

-----------------------------------------------------------------------------
(* The composition: the tick waits for the start it has asked for.         *)

Awaits(t, w) == tick[t].pc = "start" /\ tick[t].walker = w
Awaited(w) == \E t \in Ticks : Awaits(t, w)
Returned(w) ==
  [t \in Ticks |-> IF Awaits(t, w) THEN [tick[t] EXCEPT !.pc = "save", !.walker = NoOne] ELSE tick[t]]

\* The start is over for the tick when it ends in a 404, which drops the trigger, when its
\* INSERT fails, or when the run is tracked.  The run is counted when its row is there.
RunMoves(w) ==
  /\ Onward(w)
  /\ LET gone == At(w, "copy") /\ run'[w] = Free
         tracked == At(w, "row") /\ run[w].then = "track"
     IN /\ tick' = IF gone \/ tracked THEN Returned(w) ELSE tick
        /\ trigger' = IF Awaited(w) /\ gone THEN NotArming ELSE trigger
  /\ handed' = [d \in Docs |-> handed[d] +
                 IF At(w, "insert") /\ \E t \in Ticks : Awaits(t, w) /\ d \in tick[t].watched \ tick[t].seen
                   THEN 1 ELSE 0]
  /\ UNCHANGED <<boardVars, arming>>

RunInsertFails(w) ==
  /\ InsertFails(w)
  /\ tick' = Returned(w)
  /\ UNCHANGED <<boardVars, trigger, arming, handed>>

WorkflowsCrash ==
  /\ RunsCrash
  /\ arming' = NotArming /\ tick' = [t \in Ticks |-> NoTick]
  /\ UNCHANGED <<boardVars, trigger, handed>>

Tick(t) ==
  \/ TickLists(t) \/ TickDrops(t) \/ TickSeesNothing(t) \/ TickFindsBusy(t)
  \/ \E w \in Walkers : TickStarts(t, w)
  \/ \E seen \in SUBSET Docs : TickSaves(t, seen)

WorkflowsNext ==
  \/ Person /\ UNCHANGED triggerVars
  \/ \E w \in Walkers : RunMoves(w) \/ RunInsertFails(w)
  \/ \E t \in Ticks : Tick(t) \/ TickFails(t)
  \/ \E d \in Docs : AddDoc(d) \/ RestoreDoc(d) \/ RemoveDoc(d)
  \/ \E seen \in SUBSET Docs : ArmReads(seen)
  \/ ArmWrites \/ Disarm \/ WorkflowsCrash

\* The timer fires, queries answer, and steps end (an agent's turn has a time limit).  That
\* some run goes on is enough: each has an end.
WorkflowsFairness == WF_vars(\E w \in Walkers : RunMoves(w)) /\ \A t \in Ticks : WF_vars(Tick(t))

WorkflowsSpec == WorkflowsInit /\ [][WorkflowsNext]_vars /\ WorkflowsFairness

-----------------------------------------------------------------------------
(* Properties.                                                             *)

Repeats == upsets["crash"] + upsets["error"] + upsets["edit"] + upsets["overlap"]

\* "A board start runs once for a new window of its kind" (tests/workflowTriggers.test.js),
\* whatever lands and leaves while the run is being started: once each time it lands, and
\* once more at most for each restart, failed query, edit, or tick that begins while another
\* is under way, as long as the board never has more of them than the trigger remembers.
HandedOnce ==
  ~crowded => \A d \in Docs : handed[d] <= landed[d] + Repeats

\* "A busy workflow keeps the new windows unseen and picks them up next time" (triggers.js):
\* every window that lands and stays is handed to a run in the end, also across a restart and
\* whatever the ticks that overlap save.  (A failed query of a start counts the windows as
\* seen.)
EveryDocHanded ==
  \A d \in Docs :
    []<>(d \notin docs \/ handed[d] > 0 \/ upsets["error"] > 0 \/ upsets["edit"] > 0)
=============================================================================
