------------------------------- MODULE CardRuns -------------------------------
(***************************************************************************)
(* Runs of agent cards: server/agent-card-runs/ with the rows of runs it   *)
(* queues (server/runs/lifecycle.js).  A call of an agent elsewhere        *)
(* (executors/a2a.js, n8n.js, censai.js) must not be repeated, since       *)
(* nobody knows what it has done when the process stops; a turn of a       *)
(* built-in agent (executors/builtin.js) is run again.  A call that the    *)
(* relay holds for a computer that is off goes back into the queue.        *)
(*                                                                         *)
(* Not here: who may call, receipts, the steps that only record, and which *)
(* of several pending runs is the oldest.                                  *)
(***************************************************************************)
EXTENDS Naturals, FiniteSets

CONSTANTS
  Calls,          \* runs whose executorKind is not builtin
  Firings,        \* runs of built-in agents, here those a schedule queues
  CardPolls,      \* polls that may be under way together
  CardBoot,       \* the recovery that startAgentCardRunWorker does not await
  CardSlots,      \* bounds how many runs execute at once
  MAX_CONCURRENT,
  NoRun,
  MaxUpsets       \* bound: crashes, database errors and edits

ASSUME CardsAssumption ==
  /\ Calls \cap Firings = {} /\ NoRun \notin Calls \cup Firings
  /\ CardBoot \notin CardPolls
  /\ MAX_CONCURRENT \in Nat \ {0} /\ MaxUpsets \in Nat

VARIABLES
  run,           \* runs.status, "none" before the INSERT
  relay,         \* the runs whose metadata has relayCall
  posted,        \* history: how often each call was sent
  cardPoll,      \* each poll, and the recovery at the start
  cardRecovered, \* state.recovered
  executor,      \* executeAgentCardRun; activeCount is the number that are not free
  lateRecovery,  \* history: a recovery took a run that this process was executing
  upsets         \* history: how often each kind of trouble came

cardVars == <<run, relay, posted, cardPoll, cardRecovered, executor, lateRecovery, upsets>>

Runs == Calls \cup Firings
Over == {"succeeded", "failed"}
CardCallers == CardPolls \cup {CardBoot}
Trouble == {"crash", "error", "edit"}

NoPoll == [pc |-> "idle", run |-> NoRun]
NoExecutor == [pc |-> "free", run |-> NoRun]

CardsTypeOK ==
  /\ run \in [Runs -> {"none", "pending", "running"} \cup Over]
  /\ relay \subseteq Calls
  /\ posted \in [Calls -> Nat]
  /\ cardPoll \in [CardCallers -> [pc : {"idle", "recover", "recovered", "claim", "claimed"},
                                   run : Runs \cup {NoRun}]]
  /\ cardRecovered \in BOOLEAN
  /\ executor \in [CardSlots -> [pc : {"free", "send", "wait"}, run : Runs \cup {NoRun}]]
  /\ lateRecovery \in BOOLEAN
  /\ upsets \in [Trouble -> Nat]

CardsBoot == [c \in CardCallers |-> IF c = CardBoot THEN [NoPoll EXCEPT !.pc = "recover"] ELSE NoPoll]

CardsInit ==
  /\ run = [r \in Runs |-> "none"]
  /\ relay = {}
  /\ posted = [x \in Calls |-> 0]
  /\ cardPoll = CardsBoot
  /\ cardRecovered = FALSE
  /\ executor = [e \in CardSlots |-> NoExecutor]
  /\ lateRecovery = FALSE
  /\ upsets = [k \in Trouble |-> 0]

-----------------------------------------------------------------------------
Upset(k) ==
  /\ upsets["crash"] + upsets["error"] + upsets["edit"] < MaxUpsets
  /\ upsets' = [upsets EXCEPT ![k] = @ + 1]

InHand(r) ==
  \/ \E c \in CardCallers : cardPoll[c].pc = "claimed" /\ cardPoll[c].run = r
  \/ \E e \in CardSlots : executor[e].pc # "free" /\ executor[e].run = r

\* Mutant: the row gets the status that the caller is told.
QueueCallQueued(x) ==
  /\ run[x] = "none"
  /\ run' = [run EXCEPT ![x] = "queued"]
  /\ UNCHANGED <<relay, posted, cardPoll, cardRecovered, executor, lateRecovery, upsets>>

\* createAgentCardRun for a call that a user or an agent asks for.
QueueCall(x) ==
  /\ run[x] = "none"
  /\ run' = [run EXCEPT ![x] = "pending"]
  /\ UNCHANGED <<relay, posted, cardPoll, cardRecovered, executor, lateRecovery, upsets>>

-----------------------------------------------------------------------------
(* worker.js and the transactions of store.js                              *)

CardPollStarts(c) ==
  /\ c # CardBoot /\ cardPoll[c].pc = "idle"
  /\ Cardinality({e \in CardSlots : executor[e].pc # "free"}) < MAX_CONCURRENT
  /\ cardPoll' = [cardPoll EXCEPT ![c].pc = IF cardRecovered THEN "claim" ELSE "recover"]
  /\ UNCHANGED <<run, relay, posted, cardRecovered, executor, lateRecovery, upsets>>

\* Mutant: what was executing is only given up, never queued again.
RecoverCallsOnly(c) ==
  /\ cardPoll[c].pc = "recover"
  /\ run' = [r \in Runs |-> IF run[r] = "running" /\ r \in Calls THEN "failed" ELSE run[r]]
  /\ cardPoll' = [cardPoll EXCEPT ![c].pc = "recovered"]
  /\ UNCHANGED <<relay, posted, cardRecovered, executor, lateRecovery, upsets>>

\* recoverInProgressAgentCardRuns commits: "the call was not replayed".
RecoverRuns(c) ==
  /\ cardPoll[c].pc = "recover"
  /\ run' = [r \in Runs |-> IF run[r] # "running" THEN run[r]
                            ELSE IF r \in Calls THEN "failed" ELSE "pending"]
  /\ lateRecovery' = (lateRecovery \/ \E r \in Runs : run[r] = "running" /\ InHand(r))
  /\ cardPoll' = [cardPoll EXCEPT ![c].pc = "recovered"]
  /\ UNCHANGED <<relay, posted, cardRecovered, executor, upsets>>

CardsRecovered(c) ==
  /\ cardPoll[c].pc = "recovered"
  /\ cardRecovered' = TRUE
  /\ cardPoll' = [cardPoll EXCEPT ![c].pc = IF c = CardBoot THEN "idle" ELSE "claim"]
  /\ UNCHANGED <<run, relay, posted, executor, lateRecovery, upsets>>

\* claimNextAgentCardRun commits; a deferred run whose time has not come may be passed over.
ClaimRun(c, r) ==
  /\ cardPoll[c].pc = "claim" /\ run[r] = "pending"
  /\ run' = [run EXCEPT ![r] = "running"]
  /\ cardPoll' = [cardPoll EXCEPT ![c] = [pc |-> "claimed", run |-> r]]
  /\ UNCHANGED <<relay, posted, cardRecovered, executor, lateRecovery, upsets>>

NoRunToClaim(c) ==
  /\ cardPoll[c].pc = "claim" /\ \A r \in Runs \ relay : run[r] # "pending"
  /\ cardPoll' = [cardPoll EXCEPT ![c] = NoPoll]
  /\ UNCHANGED <<run, relay, posted, cardRecovered, executor, lateRecovery, upsets>>

\* The poll has its row and starts the execution, for which it does not wait: a call that
\* was not sent before is sent, otherwise a turn begins or the relay is asked.  Which of
\* the free slots it takes makes no difference.
StartExecutor(c, e) ==
  /\ cardPoll[c].pc = "claimed"
  /\ executor[e].pc = "free" /\ e = CHOOSE free \in CardSlots : executor[free].pc = "free"
  /\ executor' = [executor EXCEPT ![e] =
       [pc |-> IF cardPoll[c].run \in Calls \ relay THEN "send" ELSE "wait", run |-> cardPoll[c].run]]
  /\ cardPoll' = [cardPoll EXCEPT ![c] = NoPoll]
  /\ UNCHANGED <<run, relay, posted, cardRecovered, lateRecovery, upsets>>

\* An error ends the poll, one while a claim commits possibly after it has.
CardPollFails(c) ==
  /\ cardPoll[c].pc \in {"recover", "claim", "claimed"} /\ Upset("error")
  /\ cardPoll' = [cardPoll EXCEPT ![c] = NoPoll]
  /\ UNCHANGED <<run, relay, posted, cardRecovered, executor, lateRecovery>>

-----------------------------------------------------------------------------
(* execution.js and executors/                                             *)

PostCall(e) ==
  /\ executor[e].pc = "send"
  /\ posted' = [posted EXCEPT ![executor[e].run] = @ + 1]
  /\ executor' = [executor EXCEPT ![e].pc = "wait"]
  /\ UNCHANGED <<run, relay, cardPoll, cardRecovered, lateRecovery, upsets>>

\* Mutant: the run goes back without the note that it was sent.
DeferForgets(e) ==
  /\ executor[e].pc = "wait" /\ executor[e].run \in Calls
  /\ run' = [run EXCEPT ![executor[e].run] = IF @ = "running" THEN "pending" ELSE @]
  /\ executor' = [executor EXCEPT ![e] = NoExecutor]
  /\ UNCHANGED <<relay, posted, cardPoll, cardRecovered, lateRecovery, upsets>>

\* The relay holds the call (202), or still does.  deferAgentCardRun looks at the status:
\* a run that a recovery has failed stays failed.
Defer(e) ==
  /\ executor[e].pc = "wait" /\ executor[e].run \in Calls
  /\ IF run[executor[e].run] = "running"
       THEN /\ run' = [run EXCEPT ![executor[e].run] = "pending"]
            /\ relay' = relay \cup {executor[e].run}
       ELSE UNCHANGED <<run, relay>>
  /\ executor' = [executor EXCEPT ![e] = NoExecutor]
  /\ UNCHANGED <<posted, cardPoll, cardRecovered, lateRecovery, upsets>>

\* completeRun and failRun look at nothing.  Before a call is sent its card may turn out to
\* be removed or changed (executeOnce); a turn or a call may end in an error or a timeout.
EndRun(e, end) ==
  /\ executor[e].pc = "wait" \/ (executor[e].pc = "send" /\ end = "failed")
  /\ run' = [run EXCEPT ![executor[e].run] = end]
  /\ executor' = [executor EXCEPT ![e] = NoExecutor]
  /\ UNCHANGED <<relay, posted, cardPoll, cardRecovered, lateRecovery, upsets>>

\* failRun itself throws: the run stays running, executed by nobody.
FailRunThrows(e) ==
  /\ executor[e].pc # "free" /\ Upset("error")
  /\ executor' = [executor EXCEPT ![e] = NoExecutor]
  /\ UNCHANGED <<run, relay, posted, cardPoll, cardRecovered, lateRecovery>>

\* The process stops and starts again; the composition counts it.
CardsCrash ==
  /\ cardPoll' = CardsBoot
  /\ cardRecovered' = FALSE
  /\ executor' = [e \in CardSlots |-> NoExecutor]
  /\ UNCHANGED <<run, relay, posted, lateRecovery>>

CardCall(c) ==
  \/ CardPollStarts(c) \/ RecoverRuns(c) \/ CardsRecovered(c) \/ NoRunToClaim(c)
  \/ \E r \in Runs : ClaimRun(c, r)
  \/ \E e \in CardSlots : StartExecutor(c, e)

Execute(e) ==
  PostCall(e) \/ Defer(e) \/ (\E end \in Over : EndRun(e, end))

CardsStep ==
  \/ \E x \in Calls : QueueCall(x)
  \/ \E c \in CardCallers : CardCall(c) \/ CardPollFails(c)
  \/ \E e \in CardSlots : Execute(e) \/ FailRunThrows(e)

CardsNext == CardsStep \/ (CardsCrash /\ Upset("crash"))
CardsSpec == CardsInit /\ [][CardsNext]_cardVars

-----------------------------------------------------------------------------
\* A call goes out once: "external agent result is uncertain after restart; the call was
\* not replayed" (store.js), nor is it sent again by the run that comes back to ask the
\* relay for its answer, however a recovery, a defer and an error interleave.
SentOnce == \A x \in Calls : posted[x] <= 1
=============================================================================
