---------------------------- MODULE CardRunsProofs ----------------------------
(***************************************************************************)
(* Proofs about CardRuns: types, that a call is sent once, and that a run  *)
(* is in one pair of hands unless a late recovery took it.  The lemmas     *)
(* speak of single steps, so that SchedulesProofs can use them for the     *)
(* composition.                                                            *)
(***************************************************************************)
EXTENDS CardRuns, TLAPS

PollHas(c, r) == cardPoll[c].pc = "claimed" /\ cardPoll[c].run = r
SlotHas(e, r) == executor[e].pc # "free" /\ executor[e].run = r

\* Whoever is at work has a run to work on, and only calls are sent.
HandsFull ==
  /\ \A c \in CardCallers : cardPoll[c].pc = "claimed" => cardPoll[c].run \in Runs
  /\ \A e \in CardSlots : executor[e].pc # "free" => executor[e].run \in Runs
  /\ \A e \in CardSlots : executor[e].pc = "send" => executor[e].run \in Calls

CardsTyping == CardsTypeOK /\ HandsFull

\* One pair of hands at most.
OneHand(r) ==
  /\ \A c \in CardCallers, e \in CardSlots : ~(PollHas(c, r) /\ SlotHas(e, r))
  /\ \A c, d \in CardCallers : PollHas(c, r) /\ PollHas(d, r) => c = d
  /\ \A e, g \in CardSlots : SlotHas(e, r) /\ SlotHas(g, r) => e = g

\* A call that waits is in nobody's hands; one that waits or was just claimed has not been
\* sent, unless the relay has it.
CallsInv ==
  /\ \A x \in Calls : run[x] \in {"none", "pending"} => ~InHand(x)
  /\ \A x \in Calls : OneHand(x)
  /\ \A x \in Calls : run[x] \in {"none", "pending"} /\ x \notin relay => posted[x] = 0
  /\ \A c \in CardCallers, x \in Calls : PollHas(c, x) /\ x \notin relay => posted[x] = 0
  /\ \A e \in CardSlots, x \in Calls : executor[e].pc = "send" /\ executor[e].run = x => posted[x] = 0
  /\ SentOnce

\* Without a late recovery, what is in somebody's hands is running, and in one pair only.
HandsInv ==
  ~lateRecovery => \A r \in Runs : (InHand(r) => run[r] = "running") /\ OneHand(r)

CardsInv == CardsTyping /\ CallsInv /\ HandsInv

-----------------------------------------------------------------------------
\* At the start nobody has a run.
LEMMA Booting ==
  /\ CardsBoot \in [CardCallers -> [pc : {"idle", "recover", "recovered", "claim", "claimed"},
                                    run : Runs \cup {NoRun}]]
  /\ \A c \in CardCallers : CardsBoot[c].pc # "claimed"
<1>1. \A c \in CardCallers : CardsBoot[c] = NoPoll \/ CardsBoot[c] = [pc |-> "recover", run |-> NoRun]
  BY DEF CardsBoot, NoPoll
<1> QED BY <1>1 DEF CardsBoot, NoPoll

LEMMA CardsInitTyping == CardsInit => CardsTyping
<1> SUFFICES ASSUME CardsInit PROVE CardsTyping
  OBVIOUS
<1>1. CardsTypeOK
  BY Booting DEF CardsInit, CardsTypeOK, NoExecutor, Over
<1> QED BY <1>1, Booting DEF CardsInit, CardsTyping, HandsFull, NoExecutor

LEMMA UpsetTyping ==
  ASSUME NEW k \in Trouble, upsets \in [Trouble -> Nat], Upset(k)
  PROVE  upsets' \in [Trouble -> Nat]
  BY DEF Upset, Trouble

LEMMA CardsCrashTyping == CardsTyping /\ CardsCrash /\ upsets' \in [Trouble -> Nat] => CardsTyping'
<1> SUFFICES ASSUME CardsTyping, CardsCrash, upsets' \in [Trouble -> Nat] PROVE CardsTyping'
  OBVIOUS
<1>1. CardsTypeOK'
  BY Booting DEF CardsCrash, CardsTyping, CardsTypeOK, NoExecutor
<1> QED BY <1>1, Booting DEF CardsCrash, CardsTyping, HandsFull, NoExecutor

\* Every step of the worker keeps the types.
LEMMA CardsStepTyping == CardsTyping /\ CardsStep => CardsTyping'
<1> SUFFICES ASSUME CardsTyping, CardsStep PROVE CardsTyping'
  OBVIOUS
<1> USE CardsAssumption
<1>1. ASSUME NEW x \in Calls, QueueCall(x) PROVE CardsTyping'
  BY <1>1 DEF QueueCall, CardsTyping, CardsTypeOK, HandsFull, Runs
<1>2. ASSUME NEW c \in CardCallers, CardPollStarts(c) PROVE CardsTyping'
  BY <1>2 DEF CardPollStarts, CardsTyping, CardsTypeOK, HandsFull
<1>3. ASSUME NEW c \in CardCallers, RecoverRuns(c) PROVE CardsTyping'
  BY <1>3 DEF RecoverRuns, CardsTyping, CardsTypeOK, HandsFull, Over
<1>4. ASSUME NEW c \in CardCallers, CardsRecovered(c) PROVE CardsTyping'
  BY <1>4 DEF CardsRecovered, CardsTyping, CardsTypeOK, HandsFull
<1>5. ASSUME NEW c \in CardCallers, NoRunToClaim(c) PROVE CardsTyping'
  BY <1>5 DEF NoRunToClaim, CardsTyping, CardsTypeOK, HandsFull, NoPoll
<1>6. ASSUME NEW c \in CardCallers, NEW r \in Runs, ClaimRun(c, r) PROVE CardsTyping'
  BY <1>6 DEF ClaimRun, CardsTyping, CardsTypeOK, HandsFull
<1>7. ASSUME NEW c \in CardCallers, NEW e \in CardSlots, StartExecutor(c, e) PROVE CardsTyping'
  BY <1>7 DEF StartExecutor, CardsTyping, CardsTypeOK, HandsFull, NoPoll, Runs
<1>8. ASSUME NEW c \in CardCallers, CardPollFails(c) PROVE CardsTyping'
  <2>1. upsets' \in [Trouble -> Nat]
    BY <1>8, UpsetTyping DEF CardPollFails, CardsTyping, CardsTypeOK, Trouble
  <2> QED BY <1>8, <2>1 DEF CardPollFails, CardsTyping, CardsTypeOK, HandsFull, NoPoll
<1>9. ASSUME NEW e \in CardSlots, PostCall(e) PROVE CardsTyping'
  BY <1>9 DEF PostCall, CardsTyping, CardsTypeOK, HandsFull
<1>10. ASSUME NEW e \in CardSlots, Defer(e) PROVE CardsTyping'
  BY <1>10 DEF Defer, CardsTyping, CardsTypeOK, HandsFull, NoExecutor, Runs
<1>11. ASSUME NEW e \in CardSlots, NEW end \in Over, EndRun(e, end) PROVE CardsTyping'
  BY <1>11 DEF EndRun, CardsTyping, CardsTypeOK, HandsFull, NoExecutor
<1>12. ASSUME NEW e \in CardSlots, FailRunThrows(e) PROVE CardsTyping'
  <2>1. upsets' \in [Trouble -> Nat]
    BY <1>12, UpsetTyping DEF FailRunThrows, CardsTyping, CardsTypeOK, Trouble
  <2> QED BY <1>12, <2>1 DEF FailRunThrows, CardsTyping, CardsTypeOK, HandsFull, NoExecutor
<1> QED
  BY <1>1, <1>2, <1>3, <1>4, <1>5, <1>6, <1>7, <1>8, <1>9, <1>10, <1>11, <1>12
  DEF CardsStep, CardCall, Execute
-----------------------------------------------------------------------------
\* One lemma per step: what it does to the hands that hold a run.
LEMMA CardsInitInv == CardsInit => CardsInv
<1> SUFFICES ASSUME CardsInit PROVE CardsInv
  OBVIOUS
<1>1. \A r : ~InHand(r) /\ OneHand(r)
  BY Booting DEF CardsInit, InHand, OneHand, PollHas, SlotHas, NoExecutor
<1>2. CallsInv
  BY <1>1, Booting DEF CardsInit, CallsInv, SentOnce, Runs, PollHas, NoExecutor
<1>3. HandsInv
  BY <1>1 DEF HandsInv
<1> QED BY <1>2, <1>3, CardsInitTyping DEF CardsInv

LEMMA CardsCrashInv == CardsInv /\ CardsCrash /\ upsets' \in [Trouble -> Nat] => CardsInv'
<1> SUFFICES ASSUME CardsInv, CardsCrash, upsets' \in [Trouble -> Nat] PROVE CardsInv'
  OBVIOUS
<1>1. \A r : (~InHand(r) /\ OneHand(r))'
  BY Booting DEF CardsCrash, InHand, OneHand, PollHas, SlotHas, NoExecutor
<1>2. CallsInv'
  BY <1>1, Booting DEF CardsInv, CardsCrash, CallsInv, SentOnce, PollHas, NoExecutor
<1>3. HandsInv'
  BY <1>1 DEF HandsInv
<1> QED BY <1>2, <1>3, CardsCrashTyping DEF CardsInv

\* A step that leaves the runs alone and puts none into new hands keeps the invariant.
LetsGo ==
  /\ \A c \in CardCallers, r \in Runs : PollHas(c, r)' => PollHas(c, r)
  /\ \A e \in CardSlots, r \in Runs : SlotHas(e, r)' => SlotHas(e, r)
  /\ \A e \in CardSlots : executor'[e].pc = "send" => executor'[e] = executor[e]
  /\ UNCHANGED <<relay, posted, lateRecovery>>

LEMMA LetsGoInv ==
  ASSUME CardsInv, CardsTyping', LetsGo, UNCHANGED run
  PROVE  CardsInv'
<1>1. \A r \in Runs : InHand(r)' => InHand(r)
  BY DEF LetsGo, InHand, PollHas, SlotHas
<1>2. \A r \in Runs : OneHand(r) => OneHand(r)'
  BY DEF LetsGo, OneHand
<1>3. CallsInv'
  <2>1. \A x \in Calls : (run[x] \in {"none", "pending"} => ~InHand(x))'
    BY <1>1 DEF CardsInv, CallsInv, Runs
  <2>2. \A x \in Calls : OneHand(x)'
    BY <1>2 DEF CardsInv, CallsInv, Runs
  <2> QED BY <2>1, <2>2 DEF CardsInv, CallsInv, LetsGo, SentOnce, Runs
<1>4. HandsInv'
  BY <1>1, <1>2 DEF CardsInv, HandsInv, LetsGo
<1> QED BY <1>3, <1>4 DEF CardsInv

LEMMA QueueCallInv == ASSUME CardsInv, NEW x \in Calls, QueueCall(x), CardsTyping' PROVE CardsInv'
<1>1. \A r \in Runs : (InHand(r)' <=> InHand(r)) /\ (OneHand(r)' <=> OneHand(r))
  BY DEF QueueCall, InHand, OneHand, PollHas, SlotHas
<1>2. \A r \in Runs : r # x => run'[r] = run[r]
  BY DEF QueueCall, CardsInv, CardsTyping, CardsTypeOK
<1>3. run[x] = "none" /\ ~InHand(x) /\ run'[x] = "pending"
  BY DEF QueueCall, CardsInv, CallsInv, CardsTyping, CardsTypeOK, Runs
<1>4. CallsInv'
  <2>1. \A y \in Calls : (run[y] \in {"none", "pending"} => ~InHand(y))'
    BY <1>1, <1>2, <1>3 DEF CardsInv, CallsInv, Runs
  <2>2. \A y \in Calls : OneHand(y)'
    BY <1>1 DEF CardsInv, CallsInv, Runs
  <2>3. \A y \in Calls : (run[y] \in {"none", "pending"} /\ y \notin relay => posted[y] = 0)'
    BY <1>2, <1>3 DEF QueueCall, CardsInv, CallsInv, Runs
  <2> QED BY <2>1, <2>2, <2>3 DEF QueueCall, CardsInv, CallsInv, SentOnce, PollHas
<1>5. HandsInv'
  BY <1>1, <1>2, <1>3 DEF QueueCall, CardsInv, HandsInv, Runs
<1> QED BY <1>4, <1>5 DEF CardsInv

LEMMA RecoverRunsInv == ASSUME CardsInv, NEW c \in CardCallers, RecoverRuns(c), CardsTyping' PROVE CardsInv'
<1>1. \A r \in Runs : (InHand(r)' => InHand(r)) /\ (OneHand(r) => OneHand(r)')
  BY DEF RecoverRuns, InHand, OneHand, PollHas, SlotHas, CardsInv, CardsTyping, CardsTypeOK
<1>2. \A x \in Calls : run'[x] \in {"none", "pending"} => run'[x] = run[x]
  BY DEF RecoverRuns, Runs
<1>3. CallsInv'
  <2>1. \A x \in Calls : (run[x] \in {"none", "pending"} => ~InHand(x))'
    BY <1>1, <1>2 DEF CardsInv, CallsInv, Runs
  <2>2. \A x \in Calls : OneHand(x)'
    BY <1>1 DEF CardsInv, CallsInv, Runs
  <2>3. \A x \in Calls : (run[x] \in {"none", "pending"} /\ x \notin relay => posted[x] = 0)'
    BY <1>2 DEF RecoverRuns, CardsInv, CallsInv
  <2>4. \A d \in CardCallers, x \in Calls : PollHas(d, x)' => PollHas(d, x)
    BY DEF RecoverRuns, PollHas, CardsInv, CardsTyping, CardsTypeOK
  <2> QED BY <2>1, <2>2, <2>3, <2>4 DEF RecoverRuns, CardsInv, CallsInv, SentOnce
<1>4. HandsInv'
  <2> SUFFICES ASSUME ~lateRecovery', NEW r \in Runs PROVE ((InHand(r) => run[r] = "running") /\ OneHand(r))'
    BY DEF HandsInv
  <2>1. ~InHand(r) /\ OneHand(r)
    BY DEF RecoverRuns, CardsInv, HandsInv
  <2> QED BY <1>1, <2>1
<1> QED BY <1>3, <1>4 DEF CardsInv

LEMMA ClaimRunInv ==
  ASSUME CardsInv, NEW c \in CardCallers, NEW q \in Runs, ClaimRun(c, q), CardsTyping'
  PROVE  CardsInv'
<1>1. \A d \in CardCallers, r \in Runs : PollHas(d, r)' <=> IF d = c THEN r = q ELSE PollHas(d, r)
  BY DEF ClaimRun, PollHas, CardsInv, CardsTyping, CardsTypeOK
<1>2. \A e \in CardSlots, r \in Runs : SlotHas(e, r)' <=> SlotHas(e, r)
  BY DEF ClaimRun, SlotHas
<1>3. \A r \in Runs : (InHand(r) <=> (\E d \in CardCallers : PollHas(d, r)) \/ \E e \in CardSlots : SlotHas(e, r))
                   /\ (InHand(r)' <=> (\E d \in CardCallers : PollHas(d, r)') \/ \E e \in CardSlots : SlotHas(e, r)')
  BY DEF InHand, PollHas, SlotHas
<1>4. \A r \in Runs : run'[r] = IF r = q THEN "running" ELSE run[r]
  BY DEF ClaimRun, CardsInv, CardsTyping, CardsTypeOK
<1>5. \A r \in Runs : r # q => (InHand(r)' => InHand(r)) /\ (OneHand(r) => OneHand(r)')
  BY <1>1, <1>2, <1>3 DEF OneHand
<1>6. ~InHand(q) => OneHand(q)'
  BY <1>1, <1>2, <1>3 DEF OneHand
<1>7. run[q] = "pending"
  BY DEF ClaimRun
<1>8. CallsInv'
  <2>1. \A x \in Calls : (run[x] \in {"none", "pending"} => ~InHand(x))'
    BY <1>4, <1>5 DEF CardsInv, CallsInv, Runs
  <2>2. \A x \in Calls : OneHand(x)'
    BY <1>5, <1>6, <1>7 DEF CardsInv, CallsInv, Runs
  <2>3. \A x \in Calls : (run[x] \in {"none", "pending"} /\ x \notin relay => posted[x] = 0)'
    BY <1>4 DEF ClaimRun, CardsInv, CallsInv, Runs
  <2>4. \A d \in CardCallers, x \in Calls : (PollHas(d, x) /\ x \notin relay => posted[x] = 0)'
    BY <1>1, <1>7 DEF ClaimRun, CardsInv, CallsInv, Runs
  <2> QED BY <2>1, <2>2, <2>3, <2>4 DEF ClaimRun, CardsInv, CallsInv, SentOnce
<1>9. HandsInv'
  <2> SUFFICES ASSUME ~lateRecovery', NEW r \in Runs PROVE ((InHand(r) => run[r] = "running") /\ OneHand(r))'
    BY DEF HandsInv
  <2>1. (InHand(r) => run[r] = "running") /\ OneHand(r)
    BY DEF ClaimRun, CardsInv, HandsInv
  <2> QED BY <1>4, <1>5, <1>6, <1>7, <2>1
<1> QED BY <1>8, <1>9 DEF CardsInv

LEMMA StartExecutorInv ==
  ASSUME CardsInv, NEW c \in CardCallers, NEW g \in CardSlots, StartExecutor(c, g), CardsTyping'
  PROVE  CardsInv'
<1> DEFINE q == cardPoll[c].run
<1>0. q \in Runs /\ PollHas(c, q)
  BY DEF StartExecutor, PollHas, CardsInv, CardsTyping, HandsFull
<1>1. \A d \in CardCallers, r \in Runs : PollHas(d, r)' <=> d # c /\ PollHas(d, r)
  BY DEF StartExecutor, PollHas, NoPoll, CardsInv, CardsTyping, CardsTypeOK
<1>2. \A e \in CardSlots, r \in Runs : SlotHas(e, r)' <=> IF e = g THEN r = q ELSE SlotHas(e, r)
  BY DEF StartExecutor, SlotHas, CardsInv, CardsTyping, CardsTypeOK
<1>3. \A r \in Runs : (InHand(r) <=> (\E d \in CardCallers : PollHas(d, r)) \/ \E e \in CardSlots : SlotHas(e, r))
                   /\ (InHand(r)' <=> (\E d \in CardCallers : PollHas(d, r)') \/ \E e \in CardSlots : SlotHas(e, r)')
  BY DEF InHand, PollHas, SlotHas
<1>4. \A r \in Runs : (InHand(r)' => InHand(r)) /\ (OneHand(r) => OneHand(r)')
  BY <1>0, <1>1, <1>2, <1>3 DEF OneHand
<1>5. CallsInv'
  <2>1. \A x \in Calls : (run[x] \in {"none", "pending"} => ~InHand(x))'
    BY <1>4 DEF StartExecutor, CardsInv, CallsInv, Runs
  <2>2. \A x \in Calls : OneHand(x)'
    BY <1>4 DEF CardsInv, CallsInv, Runs
  <2>3. \A d \in CardCallers, x \in Calls : (PollHas(d, x) /\ x \notin relay => posted[x] = 0)'
    BY <1>1 DEF StartExecutor, CardsInv, CallsInv, Runs
  <2>4. ASSUME NEW e \in CardSlots, NEW x \in Calls, (executor[e].pc = "send" /\ executor[e].run = x)'
        PROVE  posted'[x] = 0
    <3>1. CASE e = g
      <4>1. q \in Calls \ relay /\ x = q
        BY <2>4, <3>1 DEF StartExecutor, CardsInv, CardsTyping, CardsTypeOK
      <4> QED BY <4>1, <1>0 DEF StartExecutor, CardsInv, CallsInv
    <3>2. CASE e # g
      BY <2>4, <3>2 DEF StartExecutor, CardsInv, CallsInv, CardsTyping, CardsTypeOK
    <3> QED BY <3>1, <3>2
  <2> QED BY <2>1, <2>2, <2>3, <2>4 DEF StartExecutor, CardsInv, CallsInv, SentOnce
<1>6. HandsInv'
  BY <1>4 DEF StartExecutor, CardsInv, HandsInv
<1> QED BY <1>5, <1>6 DEF CardsInv

\* Here the call goes out, for the only time.
LEMMA PostCallInv ==
  ASSUME CardsInv, NEW g \in CardSlots, PostCall(g), CardsTyping'
  PROVE  CardsInv'
<1> DEFINE q == executor[g].run
<1>0. q \in Calls /\ q \in Runs /\ SlotHas(g, q) /\ posted[q] = 0
  BY DEF PostCall, SlotHas, CardsInv, CardsTyping, CardsTypeOK, HandsFull, CallsInv, Runs
<1>1. \A r \in Runs : (InHand(r)' <=> InHand(r)) /\ (OneHand(r) <=> OneHand(r)')
  <2>1. \A e \in CardSlots, r \in Runs : SlotHas(e, r)' <=> SlotHas(e, r)
    BY DEF PostCall, SlotHas, CardsInv, CardsTyping, CardsTypeOK
  <2>2. \A d \in CardCallers, r \in Runs : PollHas(d, r)' <=> PollHas(d, r)
    BY DEF PostCall, PollHas
  <2> QED BY <2>1, <2>2 DEF InHand, OneHand, PollHas, SlotHas
<1>2. \A x \in Calls : posted'[x] = IF x = q THEN 1 ELSE posted[x]
  BY <1>0 DEF PostCall, CardsInv, CardsTyping, CardsTypeOK
<1>3. InHand(q) /\ OneHand(q)
  BY <1>0 DEF InHand, SlotHas, CardsInv, CallsInv
<1>4. CallsInv'
  <2>1. \A x \in Calls : (run[x] \in {"none", "pending"} => ~InHand(x))'
    BY <1>1 DEF PostCall, CardsInv, CallsInv, Runs
  <2>2. \A x \in Calls : OneHand(x)'
    BY <1>1 DEF CardsInv, CallsInv, Runs
  <2>3. \A x \in Calls : (run[x] \in {"none", "pending"} /\ x \notin relay => posted[x] = 0)'
    BY <1>2, <1>3 DEF PostCall, CardsInv, CallsInv
  <2>4. \A d \in CardCallers, x \in Calls : (PollHas(d, x) /\ x \notin relay => posted[x] = 0)'
    BY <1>0, <1>2, <1>3 DEF PostCall, CardsInv, CallsInv, OneHand, PollHas
  <2>5. \A e \in CardSlots, x \in Calls : (executor[e].pc = "send" /\ executor[e].run = x => posted[x] = 0)'
    BY <1>0, <1>2, <1>3 DEF PostCall, CardsInv, CallsInv, OneHand, SlotHas, CardsTyping, CardsTypeOK
  <2>6. SentOnce'
    BY <1>2 DEF CardsInv, CallsInv, SentOnce
  <2> QED BY <2>1, <2>2, <2>3, <2>4, <2>5, <2>6 DEF CallsInv
<1>5. HandsInv'
  BY <1>1 DEF PostCall, CardsInv, HandsInv
<1> QED BY <1>4, <1>5 DEF CardsInv

\* The execution g lets go of its run, whose row may change; nothing else happens.
Released(g) ==
  /\ executor' = [executor EXCEPT ![g] = NoExecutor]
  /\ \A r \in Runs : r # executor[g].run => run'[r] = run[r]
  /\ UNCHANGED <<posted, cardPoll, lateRecovery>>

LEMMA ReleasedHands ==
  ASSUME CardsInv, NEW g \in CardSlots, NEW q \in Runs, SlotHas(g, q), Released(g)
  PROVE  /\ \A r \in Runs : (InHand(r)' => InHand(r)) /\ (OneHand(r) => OneHand(r)')
         /\ OneHand(q) => ~InHand(q)'
         /\ \A d \in CardCallers, r \in Runs : PollHas(d, r)' <=> PollHas(d, r)
         /\ \A e \in CardSlots : executor'[e].pc = "send" => executor'[e] = executor[e]
<1>1. \A e \in CardSlots, r \in Runs : SlotHas(e, r)' <=> e # g /\ SlotHas(e, r)
  BY DEF Released, SlotHas, NoExecutor, CardsInv, CardsTyping, CardsTypeOK
<1>2. \A d \in CardCallers, r \in Runs : PollHas(d, r)' <=> PollHas(d, r)
  BY DEF Released, PollHas
<1>3. \A r \in Runs : (InHand(r) <=> (\E d \in CardCallers : PollHas(d, r)) \/ \E e \in CardSlots : SlotHas(e, r))
                   /\ (InHand(r)' <=> (\E d \in CardCallers : PollHas(d, r)') \/ \E e \in CardSlots : SlotHas(e, r)')
  BY DEF InHand, PollHas, SlotHas
<1>5. OneHand(q) => ~InHand(q)'
  BY <1>1, <1>2, <1>3 DEF OneHand
<1>6. \A e \in CardSlots : executor'[e].pc = "send" => executor'[e] = executor[e]
  BY DEF Released, NoExecutor, CardsInv, CardsTyping, CardsTypeOK
<1>7. \A r \in Runs : OneHand(r) => OneHand(r)'
  BY <1>1, <1>2 DEF OneHand
<1> QED BY <1>1, <1>2, <1>3, <1>5, <1>6, <1>7

\* A call that goes back into the queue is one the relay has.
LEMMA ReleasedInv ==
  ASSUME CardsInv, NEW g \in CardSlots, NEW q \in Runs, SlotHas(g, q), Released(g), CardsTyping',
         relay \subseteq relay',
         q \in Calls /\ run'[q] \in {"none", "pending"} => q \in relay'
  PROVE  CardsInv'
<1>1. \A r \in Runs : r # q => run'[r] = run[r]
  BY DEF Released, SlotHas
<1>2. CallsInv'
  <2>1. \A x \in Calls : (run[x] \in {"none", "pending"} => ~InHand(x))'
    <3> SUFFICES ASSUME NEW x \in Calls, run'[x] \in {"none", "pending"} PROVE ~InHand(x)'
      OBVIOUS
    <3>1. x \in Runs
      BY DEF Runs
    <3>2. CASE x = q
      BY <3>1, <3>2, ReleasedHands DEF CardsInv, CallsInv
    <3>3. CASE x # q
      <4>1. ~InHand(x)
        BY <1>1, <3>1, <3>3 DEF CardsInv, CallsInv
      <4> QED BY <3>1, <4>1, ReleasedHands
    <3> QED BY <3>2, <3>3
  <2>2. \A x \in Calls : OneHand(x)'
    BY ReleasedHands DEF CardsInv, CallsInv, Runs
  <2>3. \A x \in Calls : (run[x] \in {"none", "pending"} /\ x \notin relay => posted[x] = 0)'
    BY <1>1 DEF Released, CardsInv, CallsInv, Runs
  <2>4. \A d \in CardCallers, x \in Calls : (PollHas(d, x) /\ x \notin relay => posted[x] = 0)'
    BY ReleasedHands DEF Released, CardsInv, CallsInv, Runs
  <2>5. \A e \in CardSlots, x \in Calls : (executor[e].pc = "send" /\ executor[e].run = x => posted[x] = 0)'
    <3>1. \A e \in CardSlots : executor'[e].pc = "send" => executor'[e] = executor[e]
      BY ReleasedHands
    <3> QED BY <3>1 DEF Released, CardsInv, CallsInv
  <2> QED BY <2>1, <2>2, <2>3, <2>4, <2>5 DEF Released, CardsInv, CallsInv, SentOnce
<1>3. HandsInv'
  <2> SUFFICES ASSUME ~lateRecovery', NEW r \in Runs PROVE ((InHand(r) => run[r] = "running") /\ OneHand(r))'
    BY DEF HandsInv
  <2>1. (InHand(r) => run[r] = "running") /\ OneHand(r)
    BY DEF Released, CardsInv, HandsInv
  <2> QED BY <1>1, <2>1, ReleasedHands DEF Released
<1> QED BY <1>2, <1>3 DEF CardsInv

LEMMA DeferInv == ASSUME CardsInv, NEW g \in CardSlots, Defer(g), CardsTyping' PROVE CardsInv'
<1>1. PICK q \in Runs : q = executor[g].run
  BY DEF Defer, CardsInv, CardsTyping, HandsFull
<1>2. SlotHas(g, q) /\ Released(g) /\ relay \subseteq relay'
  BY <1>1 DEF Defer, SlotHas, Released, CardsInv, CardsTyping, CardsTypeOK
<1>3. q \in Calls /\ InHand(q)
  BY <1>1, <1>2 DEF Defer, InHand, SlotHas
<1>4. run'[q] \in {"none", "pending"} => q \in relay'
  BY <1>1, <1>3 DEF Defer, CardsInv, CallsInv, CardsTyping, CardsTypeOK
<1> QED BY <1>2, <1>4, ReleasedInv

LEMMA EndRunInv ==
  ASSUME CardsInv, NEW g \in CardSlots, NEW end \in Over, EndRun(g, end), CardsTyping'
  PROVE  CardsInv'
<1>1. PICK q \in Runs : q = executor[g].run
  BY DEF EndRun, CardsInv, CardsTyping, HandsFull
<1>2. SlotHas(g, q) /\ Released(g) /\ relay \subseteq relay'
  BY <1>1 DEF EndRun, SlotHas, Released, CardsInv, CardsTyping, CardsTypeOK
<1>3. run'[q] \notin {"none", "pending"}
  BY <1>1 DEF EndRun, Over, CardsInv, CardsTyping, CardsTypeOK
<1> QED BY <1>2, <1>3, ReleasedInv

-----------------------------------------------------------------------------
\* Every step of the worker keeps the invariant.
LEMMA CardsStepInv == CardsInv /\ CardsStep => CardsInv'
<1> SUFFICES ASSUME CardsInv, CardsStep PROVE CardsInv'
  OBVIOUS
<1>0. CardsTyping'
  BY CardsStepTyping DEF CardsInv
<1>1. ASSUME NEW x \in Calls, QueueCall(x) PROVE CardsInv'
  BY <1>0, <1>1, QueueCallInv
<1>2. ASSUME NEW c \in CardCallers, RecoverRuns(c) PROVE CardsInv'
  BY <1>0, <1>2, RecoverRunsInv
<1>3. ASSUME NEW c \in CardCallers, NEW r \in Runs, ClaimRun(c, r) PROVE CardsInv'
  BY <1>0, <1>3, ClaimRunInv
<1>4. ASSUME NEW c \in CardCallers, NEW e \in CardSlots, StartExecutor(c, e) PROVE CardsInv'
  BY <1>0, <1>4, StartExecutorInv
<1>5. ASSUME NEW c \in CardCallers,
             CardPollStarts(c) \/ CardsRecovered(c) \/ NoRunToClaim(c) \/ CardPollFails(c)
      PROVE  CardsInv'
  <2>1. LetsGo /\ UNCHANGED run
    BY <1>5 DEF CardPollStarts, CardsRecovered, NoRunToClaim, CardPollFails, LetsGo, PollHas, SlotHas,
                NoPoll, CardsInv, CardsTyping, CardsTypeOK
  <2> QED BY <1>0, <2>1, LetsGoInv
<1>6. ASSUME NEW e \in CardSlots, PostCall(e) PROVE CardsInv'
  BY <1>0, <1>6, PostCallInv
<1>7. ASSUME NEW e \in CardSlots, Defer(e) PROVE CardsInv'
  BY <1>0, <1>7, DeferInv
<1>8. ASSUME NEW e \in CardSlots, NEW end \in Over, EndRun(e, end) PROVE CardsInv'
  BY <1>0, <1>8, EndRunInv
<1>9. ASSUME NEW e \in CardSlots, FailRunThrows(e) PROVE CardsInv'
  <2>1. LetsGo /\ UNCHANGED run
    BY <1>9 DEF FailRunThrows, LetsGo, PollHas, SlotHas, NoExecutor, CardsInv, CardsTyping, CardsTypeOK
  <2> QED BY <1>0, <2>1, LetsGoInv
<1> QED
  BY <1>1, <1>2, <1>3, <1>4, <1>5, <1>6, <1>7, <1>8, <1>9 DEF CardsStep, CardCall, Execute

LEMMA CardsStutterInv == CardsInv /\ UNCHANGED cardVars => CardsInv'
  BY DEF cardVars, CardsInv, CardsTyping, CardsTypeOK, HandsFull, CallsInv, HandsInv, InHand, OneHand,
         PollHas, SlotHas, SentOnce

\* The card-run worker on its own: a call goes out once, for any number of calls, polls,
\* places to run, crashes and errors.
THEOREM CallsGoOutOnce == CardsSpec => []SentOnce
<1>1. CardsInit => CardsInv
  BY CardsInitInv
<1>2. CardsInv /\ [CardsNext]_cardVars => CardsInv'
  <2>1. CardsInv /\ CardsCrash /\ Upset("crash") => CardsInv'
    BY UpsetTyping, CardsCrashInv DEF Trouble, CardsInv, CardsTyping, CardsTypeOK
  <2> QED BY <2>1, CardsStepInv, CardsStutterInv DEF CardsNext
<1>3. CardsInv => SentOnce
  BY DEF CardsInv, CallsInv
<1> QED BY <1>1, <1>2, <1>3, PTL DEF CardsSpec
=============================================================================
