----------------------------- MODULE WorkflowRuns -----------------------------
(***************************************************************************)
(* Runs of one workflow window: server/workflows/runner.js and control.js  *)
(* with the rows of board_workflow_runs (store.js).  A run walks the graph *)
(* the window had when it started, and after each step writes its state    *)
(* first into the window and then into its row.  At a review it pauses and *)
(* ends as far as this process knows; the answer makes a new run object    *)
(* from the row.                                                           *)
(*                                                                         *)
(* A step is what happens between two awaits.  Who may run a workflow,     *)
(* what the steps compute, and the waiting for a person's edits to reach   *)
(* the board (boardCopy reads again) are left out.                         *)
(***************************************************************************)
EXTENDS WorkflowGraph, FiniteSets

CONSTANTS
  Graph, KindOf,   \* the graph; "trigger", "step", "branch" or "review" for each node
  Walkers,         \* run objects that may exist at the same time
  NoOne,
  MaxRuns,         \* bound: rows of board_workflow_runs
  MaxAsks,         \* bound: how often people press Run or Stop
  MaxUpsets        \* bound: crashes, database errors, edits and the like

Nodes == Range(Graph.nodes)
Order == RunOrder(Graph)
Runs == 1 .. MaxRuns
NoRun == 0

\* What graphProblem lets through: runOrder takes every node.  Ports are at the checks only.
ASSUME WorkflowAssumption ==
  /\ IsGraph(Graph) /\ Len(Order) = Len(Graph.nodes)
  /\ KindOf \in [Nodes -> {"trigger", "step", "branch", "review"}]
  /\ NoOne \notin Walkers
  /\ MaxRuns \in Nat /\ MaxAsks \in Nat /\ MaxUpsets \in Nat

VARIABLES
  row,        \* board_workflow_runs; what ends a run is "over", and results are kept
              \* while a review may be answered
  shown,      \* the run the window shows
  onBoard,    \* whether the window is on the board
  active,     \* the run object that Stop and the check for a run under way see
  run,        \* run objects
  stopper,    \* stopWorkflowRun without a run in flight
  approved,   \* history: the reviews that somebody approved, by run
  hidden,     \* history: objects that another one replaced in active
  asks, upsets

runVars == <<row, shown, onBoard, active, run, stopper, approved, hidden, asks, upsets>>

\* The last two come with WorkflowTriggers: a window leaves, ticks overlap.
Trouble == {"crash", "error", "edit", "removal", "overlap"}
Over == {"complete", "failed", "stopped"}
Open == {"running", "awaiting_review"}

Untouched == [n \in Nodes |-> "pending"]
NoRow == [status |-> "none", res |-> Untouched]
\* at is a place in Order; then is what follows when the publishing is over.
Free == [pc |-> "free", id |-> NoRun, at |-> 1, res |-> Untouched, status |-> "running",
         aborted |-> FALSE, then |-> "track"]
NoStop == [pc |-> "idle", id |-> NoRun]

RunsTypeOK ==
  /\ row \in [Runs -> [status : {"none", "over"} \cup Open, res : [Nodes -> Results]]]
  /\ shown \in [id : Runs \cup {NoRun}, status : {"over"} \cup Open]
  /\ onBoard \in BOOLEAN
  /\ active \in Walkers \cup {NoOne}
  /\ run \in [Walkers -> [pc : {"free", "copy", "insert", "window", "row", "step"},
                          id : Runs \cup {NoRun}, at : 1 .. Len(Order) + 1,
                          res : [Nodes -> Results], status : Open \cup Over,
                          aborted : BOOLEAN, then : {"track", "step", "leave", "reply"}]]
  /\ stopper \in [pc : {"idle", "look", "window", "row"}, id : Runs \cup {NoRun}]
  /\ approved \in [Runs -> SUBSET Nodes]
  /\ hidden \subseteq Walkers
  /\ asks \in 0 .. MaxAsks
  /\ upsets \in [Trouble -> 0 .. MaxUpsets]

RunsInit ==
  /\ row = [r \in Runs |-> NoRow]
  /\ shown = [id |-> NoRun, status |-> "over"]
  /\ onBoard = TRUE
  /\ active = NoOne
  /\ run = [w \in Walkers |-> Free]
  /\ stopper = NoStop
  /\ approved = [r \in Runs |-> {}]
  /\ hidden = {}
  /\ asks = 0
  /\ upsets = [k \in Trouble |-> 0]

Upset(k) ==
  /\ upsets["crash"] + upsets["error"] + upsets["edit"] + upsets["removal"] + upsets["overlap"]
       < MaxUpsets
  /\ upsets' = [upsets EXCEPT ![k] = @ + 1]

At(w, pc) == run[w].pc = pc
PlaceOf(n) == CHOOSE k \in 1 .. Len(Order) : Order[k] = n

-----------------------------------------------------------------------------
(* walk                                                                    *)

\* The results when the walk has come to place k without a stop: the start is done, and
\* what nothing reached is skipped.
PassedTo(res, k) ==
  [n \in Nodes |->
     IF res[n] # "pending" \/ PlaceOf(n) >= k THEN res[n]
     ELSE IF KindOf[n] = "trigger" THEN "done" ELSE "skipped"]

Pauses(o, k, status, then) == [o EXCEPT !.pc = "window", !.at = k, !.status = status, !.then = then]

\* The next place from i on that something live reaches; the start counts as done.
NextPlace(o, i) ==
  LET started == [n \in Nodes |-> IF KindOf[n] = "trigger" THEN "done" ELSE o.res[n]]
      reached == {k \in i .. Len(Order) :
                    KindOf[Order[k]] # "trigger" /\ Reached(Graph, Order[k], started)}
  IN IF reached = {} THEN Len(Order) + 1 ELSE CHOOSE k \in reached : \A l \in reached : k <= l

\* Mutant: a review is a step like any other.
WalkPastReview(o, i) ==
  LET next == NextPlace(o, i)
      here == [o EXCEPT !.res = PassedTo(@, next)]
  IN IF o.aborted /\ i <= Len(Order) THEN Pauses(o, i, "stopped", "leave")
     ELSE IF next > Len(Order) THEN Pauses(here, next, "complete", "leave")
     ELSE Pauses([here EXCEPT !.res[Order[next]] = "running"], next, "running", "step")

\* The loop of walk from place i on, up to its next await: a stop, a review, a step or the end.
Walk(o, i) ==
  LET next == NextPlace(o, i)
      here == [o EXCEPT !.res = PassedTo(@, next)]
  IN IF o.aborted /\ i <= Len(Order) THEN Pauses(o, i, "stopped", "leave")
     ELSE IF next > Len(Order) THEN Pauses(here, next, "complete", "leave")
     ELSE IF KindOf[Order[next]] = "review"
       THEN Pauses([here EXCEPT !.res[Order[next]] = "waiting"], next, "awaiting_review", "leave")
     ELSE Pauses([here EXCEPT !.res[Order[next]] = "running"], next, "running", "step")

\* runStep ends: a check goes one way, any other step is done or fails, and a stop may
\* or may not reach it.
StepEnds(w, end) ==
  LET o == run[w]  n == Order[o.at]  IN
  /\ At(w, "step")
  /\ IF KindOf[n] = "branch" THEN end \in {"yes", "no"} ELSE end \in {"done", "failed"}
  /\ run' = [run EXCEPT ![w] =
       IF end = "failed"
         THEN Pauses([o EXCEPT !.res[n] = "failed"], o.at, IF o.aborted THEN "stopped" ELSE "failed", "leave")
         ELSE Walk([o EXCEPT !.res[n] = end], o.at + 1)]
  /\ UNCHANGED <<row, shown, onBoard, active, stopper, approved, hidden, asks, upsets>>

-----------------------------------------------------------------------------
(* startWorkflowRun                                                        *)

BeginStart(w) ==
  /\ active = NoOne /\ At(w, "free")
  /\ run' = [run EXCEPT ![w] = [Free EXCEPT !.pc = "copy"]]

\* POST /run
PressRun(w) ==
  /\ asks < MaxAsks /\ asks' = asks + 1
  /\ BeginStart(w)
  /\ UNCHANGED <<row, shown, onBoard, active, stopper, approved, hidden, upsets>>

\* boardCopy answers: the graph of the window, or that it is not on this board (404).  A
\* board that cannot be read says so, too.
CopyRead(w) ==
  /\ At(w, "copy")
  /\ \/ /\ run' = [run EXCEPT ![w] = IF onBoard THEN [@ EXCEPT !.pc = "insert"] ELSE Free]
        /\ UNCHANGED upsets
     \/ /\ run' = [run EXCEPT ![w] = Free]
        /\ onBoard /\ Upset("error")
  /\ UNCHANGED <<row, shown, onBoard, active, stopper, approved, hidden, asks>>

\* Mutant: the row begins with a status that its table does not know.
InsertRowPending(w, r) ==
  /\ At(w, "insert") /\ row[r].status = "none" /\ \A s \in Runs : s < r => row[s].status # "none"
  /\ row' = [row EXCEPT ![r].status = "pending"]
  /\ run' = [run EXCEPT ![w].pc = "window", ![w].id = r]
  /\ UNCHANGED <<shown, onBoard, active, stopper, approved, hidden, asks, upsets>>

InsertRow(w, r) ==
  /\ At(w, "insert") /\ row[r].status = "none" /\ \A s \in Runs : s < r => row[s].status # "none"
  /\ row' = [row EXCEPT ![r].status = "running"]
  /\ run' = [run EXCEPT ![w].pc = "window", ![w].id = r]
  /\ UNCHANGED <<shown, onBoard, active, stopper, approved, hidden, asks, upsets>>

InsertFails(w) ==
  /\ At(w, "insert") /\ Upset("error")
  /\ run' = [run EXCEPT ![w] = Free]
  /\ UNCHANGED <<row, shown, onBoard, active, stopper, approved, hidden, asks>>

-----------------------------------------------------------------------------
(* publish, and what follows it                                            *)

Kept(status) == IF status \in Over THEN "over" ELSE status
Show(id, status) == IF onBoard THEN [id |-> id, status |-> Kept(status)] ELSE shown

\* patchWindow, which never throws
PublishWindow(w) ==
  /\ At(w, "window")
  /\ \/ shown' = Show(run[w].id, run[w].status) /\ UNCHANGED upsets
     \/ Upset("error") /\ UNCHANGED shown
  /\ run' = [run EXCEPT ![w].pc = "row"]
  /\ UNCHANGED <<row, onBoard, active, stopper, approved, hidden, asks>>

\* track puts the run in active and begins to walk.
Track(w) ==
  /\ active' = w
  /\ hidden' = IF active \in {NoOne, w} THEN hidden ELSE hidden \cup {active}
  /\ run' = [run EXCEPT ![w] = Walk(@, @.at)]

\* Mutant: the run that ends clears the place, whoever has it.
LeaveActiveAnyway(w) == active' = NoOne

\* The finally of track: the run leaves active unless another one is there.
LeaveActive(w) == active' = IF active = w THEN NoOne ELSE active

PublishReturns(w) ==
  \/ run[w].then = "track" /\ Track(w)
  \/ /\ run[w].then = "step"
     /\ run' = [run EXCEPT ![w].pc = "step"]
     /\ UNCHANGED <<active, hidden>>
  \/ /\ run[w].then = "leave" /\ LeaveActive(w)
     /\ run' = [run EXCEPT ![w] = Free]
     /\ hidden' = hidden \ {w}
  \/ /\ run[w].then = "reply"
     /\ run' = [run EXCEPT ![w] = Free]
     /\ UNCHANGED <<active, hidden>>

Written(w) ==
  LET o == run[w] IN
  [row EXCEPT ![o.id] = [status |-> Kept(o.status),
                         res |-> IF o.status = "awaiting_review" THEN o.res ELSE Untouched]]

\* updateRun looks at nothing but the id; when it fails, the run goes on.
PublishRow(w) ==
  /\ At(w, "row")
  /\ \/ row' = Written(w) /\ UNCHANGED upsets
     \/ Upset("error") /\ UNCHANGED row
  /\ PublishReturns(w)
  /\ UNCHANGED <<shown, onBoard, stopper, approved, asks>>

-----------------------------------------------------------------------------
(* control.js                                                              *)

Waiting(res) == {n \in Nodes : res[n] = "waiting"}

\* answerReview: the row is read, then active is looked at; the look at the window for its
\* title changes nothing.  A new run object goes on behind the first review that waits.
Answer(w, r, yes) ==
  LET at == PlaceOf(CHOOSE n \in Waiting(row[r].res) :
                      \A m \in Waiting(row[r].res) : PlaceOf(n) <= PlaceOf(m))
      o == [Free EXCEPT !.pc = "window", !.id = r, !.at = at, !.res = row[r].res]
  IN /\ row[r].status = "awaiting_review" /\ active = NoOne /\ At(w, "free")
     /\ Waiting(row[r].res) # {}
     /\ run' = [run EXCEPT ![w] =
          IF yes THEN [o EXCEPT !.at = at + 1, !.res[Order[at]] = "done"]
                 ELSE [o EXCEPT !.res[Order[at]] = "failed", !.status = "stopped", !.then = "reply"]]
     /\ approved' = IF yes THEN [approved EXCEPT ![r] = @ \cup {Order[at]}] ELSE approved
     /\ UNCHANGED <<row, shown, onBoard, active, stopper, hidden, asks, upsets>>

\* POST /stop
Stop ==
  /\ asks < MaxAsks /\ asks' = asks + 1
  /\ stopper = NoStop
  /\ IF active # NoOne
       THEN run' = [run EXCEPT ![active].aborted = TRUE] /\ UNCHANGED stopper
       ELSE stopper' = [NoStop EXCEPT !.pc = "look"] /\ UNCHANGED run
  /\ UNCHANGED <<row, shown, onBoard, active, approved, hidden, upsets>>

\* The window is read; a run it shows as under way or waiting is cleared.
StopLooks ==
  /\ stopper.pc = "look"
  /\ stopper' = IF onBoard /\ shown.status \in Open
                  THEN [pc |-> "window", id |-> shown.id] ELSE NoStop
  /\ UNCHANGED <<row, shown, onBoard, active, run, approved, hidden, asks, upsets>>

StopShows ==
  /\ stopper.pc = "window"
  /\ \/ shown' = Show(stopper.id, "stopped") /\ UNCHANGED upsets
     \/ Upset("error") /\ UNCHANGED shown
  /\ stopper' = [stopper EXCEPT !.pc = "row"]
  /\ UNCHANGED <<row, onBoard, active, run, approved, hidden, asks>>

\* The results stay in the row, but nobody looks at them again.
StopWrites ==
  /\ stopper.pc = "row"
  /\ \/ row' = [row EXCEPT ![stopper.id] = [NoRow EXCEPT !.status = "over"]] /\ UNCHANGED upsets
     \/ Upset("error") /\ UNCHANGED row
  /\ stopper' = NoStop
  /\ UNCHANGED <<shown, onBoard, active, run, approved, hidden, asks>>

-----------------------------------------------------------------------------
DeleteWindow ==
  /\ onBoard /\ Upset("edit")
  /\ onBoard' = FALSE
  /\ UNCHANGED <<row, shown, active, run, stopper, approved, hidden, asks>>

RunsCrash ==
  /\ Upset("crash")
  /\ active' = NoOne
  /\ run' = [w \in Walkers |-> Free]
  /\ stopper' = NoStop
  /\ hidden' = {}
  /\ UNCHANGED <<row, shown, onBoard, approved, asks>>

\* What a run does on its own.
Onward(w) ==
  \/ CopyRead(w)
  \/ \E r \in Runs : InsertRow(w, r)
  \/ PublishWindow(w) \/ PublishRow(w)
  \/ \E end \in Results : StepEnds(w, end)

StopGoesOn == StopLooks \/ StopShows \/ StopWrites

\* What people do.
Person ==
  \/ \E w \in Walkers : PressRun(w)
  \/ \E w \in Walkers, r \in Runs, yes \in BOOLEAN : Answer(w, r, yes)
  \/ Stop \/ StopGoesOn \/ DeleteWindow

RunsNext == Person \/ (\E w \in Walkers : Onward(w) \/ InsertFails(w)) \/ RunsCrash
RunsSpec == RunsInit /\ [][RunsNext]_runVars

-----------------------------------------------------------------------------
(* Properties.                                                             *)

\* Something that feeds the node is done, and if it is a check, it went this way.
Fed(n, res) ==
  \E k \in Into(Graph, n) :
    LET e == Graph.edges[k] IN
    IF KindOf[e.from] = "branch" /\ e.port # "none" THEN res[e.from] = e.port
                                                    ELSE res[e.from] \in Settled

\* What a run has behind it when it stands at a place: a node is settled before anything
\* it feeds begins, it ran if and only if something live reached it, and nothing has
\* begun beyond (walk with runOrder, edgeLive and answerReview's findIndex).
Behind(res, k) ==
  \A n \in Nodes :
    IF PlaceOf(n) < k
      THEN /\ res[n] \notin {"pending", "running", "waiting"}
           /\ KindOf[n] # "trigger" => (res[n] # "skipped" <=> Fed(n, res))
      ELSE PlaceOf(n) > k => res[n] = "pending"

\* Every run keeps to the graph, also the run that an answer makes from the row.
StepsFollowGraph ==
  /\ \A w \in Walkers : run[w].id # NoRun =>
       /\ run[w].then # "track" => Behind(run[w].res, run[w].at)
       /\ run[w].then = "step" =>
            Fed(Order[run[w].at], run[w].res) /\ Sources(Graph, Order[run[w].at]) \cap
              {n \in Nodes : run[w].res[n] \in {"pending", "running", "waiting"}} = {}
       /\ run[w].status = "complete" => run[w].at > Len(Order)
  /\ \A r \in Runs : row[r].status = "awaiting_review" =>
       \E k \in 1 .. Len(Order) : Behind(row[r].res, k) /\ row[r].res[Order[k]] = "waiting"

\* "A review step pauses the run until a teammate approves" (tests/workflowRunner.test.js):
\* nothing of a run goes on past a review that nobody approved in that run, however
\* answers, stops, restarts and other runs of the workflow come between.
NothingUnapproved ==
  \A w \in Walkers : \A n \in Nodes :
    KindOf[n] = "review" /\ run[w].id # NoRun =>
      /\ run[w].res[n] \in Settled => n \in approved[run[w].id]
      /\ run[w].then = "step" => run[w].res[n] # "waiting"

\* The run object walks, as far as this process is concerned.
Walking(w) == At(w, "step") \/ (run[w].pc \in {"window", "row"} /\ run[w].then \in {"step", "leave"})

\* What Stop reaches is under way; and a run under way is what Stop reaches, unless another
\* one that started beside it has taken its place.
InReach ==
  /\ active # NoOne => Walking(active)
  /\ \A w \in Walkers : Walking(w) => active = w \/ w \in hidden

\* No run says in its row or on the board that it is running when nobody runs it, short of a
\* crash, a failed query or a deleted window.
NoGhosts ==
  upsets = [k \in Trouble |-> 0] =>
    /\ \A r \in Runs : row[r].status = "running" => \E w \in Walkers : run[w].id = r
    /\ shown.status = "running" => \E w \in Walkers : run[w].id = shown.id

\* What looks like running is under way, and what is under way can be stopped.
RunningIsReal == InReach /\ NoGhosts
=============================================================================
