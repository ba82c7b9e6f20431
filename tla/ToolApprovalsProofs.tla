------------------------ MODULE ToolApprovalsProofs ------------------------
(***************************************************************************)
(* Proofs about ToolApprovals, for every set of handlers, approvals,       *)
(* agents, modules and requests.                                           *)
(***************************************************************************)
EXTENDS ToolApprovals, TLAPS

USE DEF At, Free

\* What a handler knows at each point of its work: the rows and modules it is
\* about to write are protected by locks it holds.
Knows(h) ==
  /\ At(h, "request.lock") => job[h].req \in Requests
  /\ job[h].pc \in {"request.grant", "request.find", "request.insert"} =>
       /\ job[h].req \in Requests
       /\ lock[PackageKey(ModuleOf[job[h].req])] = h
  /\ job[h].pc \in {"request.find", "request.insert"} =>
       ModuleOf[job[h].req] \in installed
  /\ job[h].pc \in {"decide.read", "decide.claim", "decide.cancel"} =>
       /\ job[h].row \in Approvals
       /\ status[job[h].row] # "none"
       /\ lock[PackageKey(ModuleOf[request[job[h].row]])] = h
  /\ job[h].pc \in {"decide.claim", "decide.cancel"} =>
       /\ status[job[h].row] = "pending"
       /\ lock[RowKey(job[h].row)] = h
  /\ Executing(h) =>
       /\ job[h].row \in Approvals
       /\ status[job[h].row] = "executing"
       /\ revision[job[h].row] = job[h].rev
  /\ job[h].pc \in {"execute.check", "execute.run"} => ran[job[h].row] = 0
  /\ job[h].pc \in {"replace.lock", "replace.check", "replace.commit"} =>
       job[h].agent \in Agents
  /\ job[h].pc \in {"replace.check", "replace.commit"} =>
       \A m \in job[h].mods : lock[PackageKey(m)] = h
  /\ At(h, "replace.commit") => job[h].mods \subseteq installed
  /\ job[h].pc \in {"remove.count", "remove.commit"} =>
       \A m \in job[h].mods : lock[PackageKey(m)] = h
  /\ At(h, "remove.commit") => \A m \in job[h].mods : ExecutingOn(m) = {}

\* A run belongs to a claimed approval.
Runs ==
  \A a \in Approvals :
    /\ ran[a] \in {0, 1}
    /\ status[a] \in {"none", "pending", "denied", "cancelled"} => ran[a] = 0

IInv ==
  /\ TypeOK
  /\ \A h \in Handlers : Knows(h)
  /\ Runs
  /\ OneExecutor
  /\ ActiveImpliesInstalled
  /\ EquippedImpliesInstalled
  /\ InsertNeverConflicts
-----------------------------------------------------------------------------
(* Type correctness.                                                       *)

LEMMA KeysAreKeys ==
  /\ \A m \in Modules : PackageKey(m) \in Keys
  /\ \A r \in Requests : HashKey(r) \in Keys
  /\ \A ag \in Agents : AgentKey(ag) \in Keys
  /\ \A a \in Approvals : RowKey(a) \in Keys
BY DEF Keys

\* Releasing, taking and keeping locks leaves lock a function into its holders.
LEMMA LocksTyped ==
  ASSUME TypeOK, NEW h \in Handlers
  PROVE  /\ Release(h) => lock' \in [Keys -> Handlers \cup {None}]
         /\ \A k \in Keys : Take(h, k) => lock' \in [Keys -> Handlers \cup {None}]
BY DEF TypeOK, Release, Take

LEMMA IdleTyped == Idle \in Jobs
BY DEF Idle, Jobs, PCs

LEMMA JobsTyped ==
  ASSUME TypeOK, NEW h \in Handlers
  PROVE  /\ Done(h) => job' \in [Handlers -> Jobs]
         /\ \A pc \in PCs : Goto(h, pc) => job' \in [Handlers -> Jobs]
<1>1. Done(h) => job' \in [Handlers -> Jobs]
  BY IdleTyped DEF TypeOK, Done
<1>2. ASSUME NEW pc \in PCs, Goto(h, pc) PROVE job' \in [Handlers -> Jobs]
  <2>1. job[h] \in Jobs
    BY DEF TypeOK
  <2>2. [job[h] EXCEPT !.pc = pc] \in Jobs
    BY <2>1 DEF Jobs
  <2> QED BY <1>2, <2>2 DEF TypeOK, Goto
<1> QED BY <1>1, <1>2

LEMMA InitTyped == Init => TypeOK
BY DEF Init, TypeOK, Idle, Jobs, PCs, Statuses

LEMMA EndUnchangedTyped ==
  ASSUME TypeOK, NEW h \in Handlers, EndUnchanged(h)
  PROVE  TypeOK'
BY LocksTyped, JobsTyped DEF EndUnchanged, TypeOK, table

LEMMA StartTyped ==
  ASSUME TypeOK, NEW h \in Handlers, Start(h)
  PROVE  TypeOK'
<1>1. ASSUME NEW r \in Requests, StartRequest(h, r) PROVE TypeOK'
  <2>1. [Idle EXCEPT !.pc = "request.lock", !.req = r] \in Jobs
    BY DEF Idle, Jobs, PCs
  <2> QED BY <1>1, <2>1 DEF StartRequest, TypeOK, table
<1>2. ASSUME NEW a \in Approvals, NEW approve \in BOOLEAN, NEW rev \in 0 .. revision[a],
             StartDecide(h, a, approve, rev)
      PROVE  TypeOK'
  <2>1. PackageKey(ModuleOf[request[a]]) \in Keys
    BY <1>2, KeysAreKeys, RequestsAssumption DEF StartDecide, TypeOK
  <2>2. rev \in Nat
    BY DEF TypeOK
  <2>3. [Idle EXCEPT !.pc = "decide.read", !.row = a, !.approve = approve, !.rev = rev] \in Jobs
    BY <2>2 DEF Idle, Jobs, PCs
  <2> QED BY <1>2, <2>1, <2>3, LocksTyped DEF StartDecide, TypeOK, table
<1>3. ASSUME NEW ag \in Agents, NEW S \in SUBSET Modules, StartReplace(h, ag, S)
      PROVE  TypeOK'
  <2>1. [Idle EXCEPT !.pc = "replace.lock", !.agent = ag, !.mods = S] \in Jobs
    BY DEF Idle, Jobs, PCs
  <2> QED BY <1>3, <2>1, LocksTyped, KeysAreKeys DEF StartReplace, TypeOK, table
<1>4. ASSUME NEW m \in Modules, StartRemove(h, m) PROVE TypeOK'
  <2>1. [Idle EXCEPT !.pc = "remove.count", !.mods = {m}] \in Jobs
    BY DEF Idle, Jobs, PCs
  <2> QED BY <1>4, <2>1, LocksTyped, KeysAreKeys DEF StartRemove, TypeOK, table
<1> QED BY <1>1, <1>2, <1>3, <1>4 DEF Start

\* Every step of a handler keeps the types; only the jobs and rows it writes
\* need an argument.
LEMMA StepTyped ==
  ASSUME TypeOK, NEW h \in Handlers, Step(h), Knows(h)
  PROVE  TypeOK'
<1> USE LocksTyped, JobsTyped, EndUnchangedTyped, KeysAreKeys, RequestsAssumption
<1> DEFINE j == job[h]
<1>0. j \in Jobs /\ {"none", "pending", "executing", "succeeded", "failed", "denied", "cancelled"} = Statuses
  BY DEF TypeOK, Statuses
<1>00. /\ j.req \in Requests \cup {None} /\ j.row \in Approvals \cup {None}
       /\ j.rev \in Nat /\ j.agent \in Agents \cup {None} /\ j.mods \in SUBSET Modules
       /\ j.ok \in BOOLEAN
  BY <1>0 DEF Jobs
<1>1. CASE RequestLock(h)
  <2>1. PackageKey(ModuleOf[j.req]) \in Keys
    BY <1>1, Zenon DEF RequestLock, Knows
  <2> QED BY <1>1, <2>1 DEF RequestLock, TypeOK, table, PCs
<1>2. CASE RequestGrant(h)
  BY <1>2 DEF RequestGrant, Knows, TypeOK, table, PCs
<1>3. CASE RequestFind(h)
  BY <1>3 DEF RequestFind, TypeOK, table, PCs
<1>4. CASE RequestInsert(h)
  <2>1. CASE EndUnchanged(h)
    BY <2>1
  <2>2. j.req \in Requests
    BY <1>4 DEF RequestInsert, InsertRow, Knows
  <2> QED BY <1>4, <1>0, <2>1, <2>2 DEF RequestInsert, InsertRow, TypeOK
<1>5. CASE DecideRead(h)
  <2>1. j.row \in Approvals
    BY <1>5 DEF DecideRead, Stale, Knows
  <2>2. CASE Take(h, RowKey(j.row)) /\ UNCHANGED <<table, ran>>
             /\ Goto(h, IF Granted(request[j.row]) THEN "decide.claim" ELSE "decide.cancel")
    BY <2>1, <2>2 DEF TypeOK, table, PCs
  <2>3. CASE Mark(j.row, "denied") /\ Release(h) /\ Done(h)
             /\ UNCHANGED <<installed, equipped, request, ran>> /\ status[j.row] = "pending"
    BY <1>0, <2>1, <2>3 DEF TypeOK, Mark
  <2> QED BY <1>5, <2>2, <2>3 DEF DecideRead, Stale
<1>6. CASE DecideClaim(h)
  <2>1. j.row \in Approvals /\ status[j.row] # "none" /\ revision[j.row] + 1 \in Nat
    BY <1>6 DEF DecideClaim, Knows, TypeOK
  <2>2. [j EXCEPT !.pc = "execute.check", !.rev = revision[j.row] + 1] \in Jobs
    BY <1>0, <2>1 DEF Jobs, PCs
  <2>3. job' \in [Handlers -> Jobs]
    BY <1>6, <2>2 DEF DecideClaim, TypeOK
  <2> QED BY <1>0, <1>6, <2>1, <2>3 DEF DecideClaim, TypeOK, Mark
<1>7. CASE DecideCancel(h)
  <2>1. j.row \in Approvals /\ status[j.row] # "none"
    BY <1>7 DEF DecideCancel, Knows
  <2> QED BY <1>0, <1>7, <2>1 DEF DecideCancel, TypeOK, Mark
<1>8. CASE ExecuteCheck(h)
  <2>1. [j EXCEPT !.pc = "execute.finish", !.ok = FALSE] \in Jobs
    BY <1>0 DEF Jobs, PCs
  <2>2. "execute.run" \in PCs
    BY DEF PCs
  <2>3. job' \in [Handlers -> Jobs]
    BY <1>8, <2>1, <2>2 DEF ExecuteCheck, TypeOK
  <2> QED BY <1>8, <2>3 DEF ExecuteCheck, TypeOK, table
<1>9. CASE ExecuteRun(h)
  <2>1. \A ok \in BOOLEAN : [j EXCEPT !.pc = "execute.finish", !.ok = ok] \in Jobs
    BY <1>0 DEF Jobs, PCs
  <2>2. job' \in [Handlers -> Jobs]
    BY <1>9, <2>1 DEF ExecuteRun, TypeOK
  <2>3. ran' \in [Approvals -> Nat]
    BY <1>9 DEF ExecuteRun, Knows, Executing, TypeOK
  <2> QED BY <1>9, <2>2, <2>3 DEF ExecuteRun, TypeOK, table
<1>10. CASE ExecuteFinish(h)
  <2>1. j.row \in Approvals /\ status[j.row] # "none"
    BY <1>10 DEF ExecuteFinish, Knows, Executing
  <2> QED BY <1>0, <1>10, <2>1 DEF ExecuteFinish, TypeOK, Mark
<1>11. CASE ReplaceLock(h)
  BY <1>00, <1>11 DEF ReplaceLock, TypeOK, table, PCs
<1>12. CASE ReplaceCheck(h)
  BY <1>12 DEF ReplaceCheck, TypeOK, table, PCs
<1>13. CASE ReplaceCommit(h)
  <2>1. j.agent \in Agents
    BY <1>13 DEF ReplaceCommit, Knows
  <2>2. equipped' \in SUBSET (Agents \X Modules)
    <3>1. equipped' = {e \in equipped : e[1] # j.agent} \cup {<<j.agent, m>> : m \in j.mods}
      BY <1>13 DEF ReplaceCommit
    <3>2. \A m \in j.mods : m \in Modules
      BY <1>00
    <3>3. equipped \subseteq Agents \X Modules
      BY DEF TypeOK
    <3> QED BY <3>1, <3>2, <3>3, <2>1
  <2> QED BY <1>0, <1>13, <2>2 DEF ReplaceCommit, CancelPending, TypeOK
<1>14. CASE RemoveCount(h)
  BY <1>14 DEF RemoveCount, TypeOK, table, PCs
<1>15. CASE RemoveCommit(h)
  BY <1>0, <1>15 DEF RemoveCommit, CancelPending, PendingOn, TypeOK
<1> QED
  BY <1>1, <1>2, <1>3, <1>4, <1>5, <1>6, <1>7, <1>8, <1>9, <1>10, <1>11, <1>12,
     <1>13, <1>14, <1>15 DEF Step

-----------------------------------------------------------------------------
(* What one handler does leaves what the others know intact.               *)

Undisturbed(g) ==
  /\ job'[g] = job[g]
  /\ \A k \in Keys : lock[k] = g => lock'[k] = g
  /\ \A a \in Approvals : status[a] # "none" =>
       request'[a] = request[a] /\ status'[a] # "none"
  /\ \A a \in Approvals : status[a] = "pending" /\ lock[RowKey(a)] = g => status'[a] = "pending"
  /\ \A a \in Approvals : status[a] = "executing" /\ Executing(g) /\ job[g].row = a =>
       UNCHANGED <<status[a], revision[a], ran[a]>>
  /\ \A m \in Modules : lock[PackageKey(m)] = g =>
       /\ m \in installed => m \in installed'
       /\ ExecutingOn(m) = {} => ExecutingOn(m)' = {}

LEMMA UndisturbedKnows ==
  ASSUME TypeOK, NEW g \in Handlers, Knows(g), Undisturbed(g)
  PROVE  Knows(g)'
<1> DEFINE j == job[g]
<1>0. /\ job'[g] = j /\ j.mods \in SUBSET Modules
      /\ \A a \in Approvals : status[a] # "none" =>
           request[a] \in Requests /\ request'[a] = request[a] /\ status'[a] # "none"
      /\ \A k \in Keys : lock[k] = g => lock'[k] = g
      /\ \A r \in Requests : ModuleOf[r] \in Modules
  BY RequestsAssumption DEF Undisturbed, TypeOK, Jobs
<1>1. CASE j.pc \in {"idle", "request.lock", "request.grant", "request.find", "request.insert"}
  BY <1>0, <1>1, KeysAreKeys DEF Knows, Undisturbed, Executing
<1>2. CASE j.pc \in {"decide.read", "decide.claim", "decide.cancel"}
  BY <1>0, <1>2, KeysAreKeys DEF Knows, Undisturbed, Executing
<1>3. CASE j.pc \in {"execute.check", "execute.run", "execute.finish"}
  BY <1>0, <1>3 DEF Knows, Undisturbed, Executing
<1>4. CASE j.pc \in {"replace.lock", "replace.check", "replace.commit"}
  BY <1>0, <1>4, KeysAreKeys DEF Knows, Undisturbed, Executing
<1>5. CASE j.pc \in {"remove.count", "remove.commit"}
  BY <1>0, <1>5, KeysAreKeys DEF Knows, Undisturbed, Executing
<1> QED BY <1>1, <1>2, <1>3, <1>4, <1>5 DEF TypeOK, Jobs, PCs

\* However a handler changes locks, the others keep theirs.
LEMMA LocksKept ==
  ASSUME TypeOK, NEW h \in Handlers, NEW g \in Handlers, g # h,
         \/ UNCHANGED lock
         \/ Release(h)
         \/ \E k \in Keys : Free(k) /\ Take(h, k)
  PROVE  \A k \in Keys : lock[k] = g => lock'[k] = g
BY NoneAssumption DEF TypeOK, Release, Take

\* A step that writes no row and no module disturbs nobody.
LEMMA QuietStep ==
  ASSUME TypeOK, NEW h \in Handlers, NEW g \in Handlers, g # h,
         UNCHANGED <<table, ran>>, job'[g] = job[g],
         \/ UNCHANGED lock
         \/ Release(h)
         \/ \E k \in Keys : Free(k) /\ Take(h, k)
  PROVE  Undisturbed(g)
BY LocksKept DEF Undisturbed, table, ExecutingOn

LEMMA JobsKept ==
  ASSUME TypeOK, NEW h \in Handlers, NEW g \in Handlers, g # h, Start(h) \/ Step(h) \/ Abandon(h)
  PROVE  job'[g] = job[g]
<1>2. CASE Start(h)
  BY <1>2 DEF Start, StartRequest, StartDecide, StartReplace, StartRemove, TypeOK
<1>3. CASE Abandon(h)
  BY <1>3 DEF Abandon, EndUnchanged, Done, TypeOK
<1>4. CASE Step(h)
  BY <1>4 DEF Step, RequestLock, RequestGrant, RequestFind, RequestInsert, DecideRead,
     DecideClaim, DecideCancel, ExecuteCheck, ExecuteRun, ExecuteFinish, ReplaceLock,
     ReplaceCheck, ReplaceCommit, RemoveCount, RemoveCommit, EndUnchanged, Done, Goto, TypeOK
<1> QED BY <1>2, <1>3, <1>4

\* No step of one handler disturbs another: the rows and modules it writes are
\* pending rows nobody has locked, rows of its own claim, or behind its locks.
LEMMA OthersUndisturbed ==
  ASSUME IInv, NEW h \in Handlers, NEW g \in Handlers, g # h, Start(h) \/ Step(h) \/ Abandon(h)
  PROVE  Undisturbed(g)
<1> DEFINE j == job[h]
<1>t. TypeOK /\ Knows(h) /\ Knows(g) /\ OneExecutor
  BY DEF IInv
<1>j. job'[g] = job[g]
  BY <1>t, JobsKept
<1> USE <1>t, <1>j
<1>e. EndUnchanged(h) => Undisturbed(g)
  BY QuietStep DEF EndUnchanged
<1>1. CASE Start(h)
  <2>1. ASSUME NEW r \in Requests, StartRequest(h, r) PROVE Undisturbed(g)
    BY <2>1, QuietStep DEF StartRequest
  <2>2. ASSUME NEW a \in Approvals, NEW approve \in BOOLEAN, NEW rev \in 0 .. revision[a],
               StartDecide(h, a, approve, rev)
        PROVE  Undisturbed(g)
    <3>1. PackageKey(ModuleOf[request[a]]) \in Keys
      BY <2>2, KeysAreKeys, RequestsAssumption DEF StartDecide, TypeOK
    <3> QED BY <2>2, <3>1, QuietStep DEF StartDecide
  <2>3. ASSUME NEW ag \in Agents, NEW S \in SUBSET Modules, StartReplace(h, ag, S)
        PROVE  Undisturbed(g)
    BY <2>3, QuietStep, KeysAreKeys DEF StartReplace
  <2>4. ASSUME NEW m \in Modules, StartRemove(h, m) PROVE Undisturbed(g)
    BY <2>4, QuietStep, KeysAreKeys DEF StartRemove
  <2> QED BY <1>1, <2>1, <2>2, <2>3, <2>4 DEF Start
<1>2. CASE Abandon(h)
  BY <1>2, <1>e DEF Abandon
<1>3. CASE RequestLock(h)
  <2>1. PackageKey(ModuleOf[j.req]) \in Keys
    BY <1>3, KeysAreKeys, RequestsAssumption DEF RequestLock, Knows
  <2> QED BY <1>3, <2>1, QuietStep DEF RequestLock
<1>4. CASE RequestGrant(h)
  <2>1. HashKey(j.req) \in Keys
    BY <1>4, KeysAreKeys DEF RequestGrant, Knows
  <2> QED BY <1>4, <1>e, <2>1, QuietStep DEF RequestGrant
<1>5. CASE RequestFind(h)
  BY <1>5, <1>e, QuietStep DEF RequestFind
<1>6. CASE RequestInsert(h)
  <2>1. CASE EndUnchanged(h)
    BY <2>1, <1>e
  <2>2. ASSUME NEW a \in Approvals, status[a] = "none",
               status' = [status EXCEPT ![a] = "pending"],
               request' = [request EXCEPT ![a] = j.req],
               Release(h), UNCHANGED <<installed, equipped, revision, ran>>
        PROVE  Undisturbed(g)
    BY <2>2, LocksKept DEF Undisturbed, TypeOK, ExecutingOn
  <2> QED BY <1>6, <2>1, <2>2 DEF RequestInsert, InsertRow
<1>7. CASE DecideRead(h)
  <2>1. RowKey(j.row) \in Keys /\ j.row \in Approvals
    BY <1>7, KeysAreKeys DEF DecideRead, Stale, Knows
  <2>2. CASE Mark(j.row, "denied") /\ Release(h) /\ status[j.row] = "pending"
             /\ Free(RowKey(j.row)) /\ UNCHANGED <<installed, equipped, request, ran>>
    BY <2>1, <2>2, LocksKept, NoneAssumption DEF Undisturbed, TypeOK, ExecutingOn, Mark
  <2> QED BY <1>7, <1>e, <2>1, <2>2, QuietStep DEF DecideRead, Stale
<1>8. CASE DecideClaim(h)
  <2>1. /\ j.row \in Approvals /\ status[j.row] = "pending" /\ lock[RowKey(j.row)] = h
        /\ lock[PackageKey(ModuleOf[request[j.row]])] = h
    BY <1>8 DEF DecideClaim, Knows
  <2> QED BY <1>8, <2>1, LocksKept DEF DecideClaim, Undisturbed, TypeOK, ExecutingOn, Mark
<1>9. CASE DecideCancel(h)
  <2>1. /\ j.row \in Approvals /\ status[j.row] = "pending" /\ lock[RowKey(j.row)] = h
    BY <1>9 DEF DecideCancel, Knows
  <2> QED BY <1>9, <2>1, LocksKept DEF DecideCancel, Undisturbed, TypeOK, ExecutingOn, Mark
<1>10. CASE ExecuteCheck(h)
  BY <1>10, QuietStep DEF ExecuteCheck
<1>11. CASE ExecuteRun(h)
  <2>1. Executing(h) /\ (Executing(g) => job[g].row # j.row)
    BY <1>11 DEF ExecuteRun, Executing, OneExecutor
  <2> QED BY <1>11, <2>1 DEF ExecuteRun, Undisturbed, table, TypeOK, ExecutingOn
<1>12. CASE ExecuteFinish(h)
  <2>1. /\ Executing(h) /\ (Executing(g) => job[g].row # j.row)
        /\ j.row \in Approvals /\ status[j.row] = "executing"
    BY <1>12 DEF ExecuteFinish, Executing, OneExecutor, Knows
  <2> QED BY <1>12, <2>1 DEF ExecuteFinish, Undisturbed, TypeOK, ExecutingOn, Mark
<1>13. CASE ReplaceLock(h)
  <2>1. \A m \in j.mods : PackageKey(m) \in Keys
    BY KeysAreKeys DEF TypeOK, Jobs
  <2> QED BY <1>13, <2>1, QuietStep DEF ReplaceLock, table
<1>14. CASE ReplaceCheck(h)
  BY <1>14, <1>e, QuietStep DEF ReplaceCheck
<1>15. CASE ReplaceCommit(h)
  BY <1>15, LocksKept, NoneAssumption DEF ReplaceCommit, Undisturbed, TypeOK, ExecutingOn, CancelPending
<1>16. CASE RemoveCount(h)
  BY <1>16, <1>e, QuietStep DEF RemoveCount
<1>17. CASE RemoveCommit(h)
  <2>1. \A m \in j.mods : lock[PackageKey(m)] = h
    BY <1>17 DEF RemoveCommit, Knows
  <2> QED BY <1>17, <2>1, LocksKept, NoneAssumption
          DEF RemoveCommit, Undisturbed, TypeOK, ExecutingOn, PendingOn, CancelPending
<1> QED
  BY <1>1, <1>2, <1>3, <1>4, <1>5, <1>6, <1>7, <1>8, <1>9, <1>10, <1>11, <1>12,
     <1>13, <1>14, <1>15, <1>16, <1>17 DEF Step

\* After its own step a handler knows what its next program point requires.
LEMMA OwnKnowledge ==
  ASSUME IInv, NEW h \in Handlers, Start(h) \/ Step(h) \/ Abandon(h)
  PROVE  Knows(h)'
<1> DEFINE j == job[h]
<1>t. TypeOK /\ Knows(h) /\ Runs /\ ActiveImpliesInstalled
  BY DEF IInv
<1>j. j \in Jobs /\ j.mods \in SUBSET Modules
  BY <1>t DEF TypeOK, Jobs
<1> USE <1>t, <1>j, KeysAreKeys, RequestsAssumption
<1>i. job'[h] = Idle => Knows(h)'
  BY DEF Knows, Idle, Executing
<1>e. EndUnchanged(h) => Knows(h)'
  BY <1>i DEF EndUnchanged, Done, TypeOK
<1>1. CASE Start(h)
  <2>1. ASSUME NEW r \in Requests, StartRequest(h, r) PROVE Knows(h)'
    BY <2>1 DEF StartRequest, Knows, Executing, TypeOK, Idle
  <2>2. ASSUME NEW a \in Approvals, NEW approve \in BOOLEAN, NEW rev \in 0 .. revision[a],
               StartDecide(h, a, approve, rev)
        PROVE  Knows(h)'
    BY <2>2 DEF StartDecide, Knows, Executing, TypeOK, Idle, Take, table
  <2>3. ASSUME NEW ag \in Agents, NEW S \in SUBSET Modules, StartReplace(h, ag, S)
        PROVE  Knows(h)'
    BY <2>3 DEF StartReplace, Knows, Executing, TypeOK, Idle
  <2>4. ASSUME NEW m \in Modules, StartRemove(h, m) PROVE Knows(h)'
    BY <2>4 DEF StartRemove, Knows, Executing, TypeOK, Idle, Take
  <2> QED BY <1>1, <2>1, <2>2, <2>3, <2>4 DEF Start
<1>2. CASE Abandon(h)
  BY <1>2, <1>e DEF Abandon
<1>3. CASE RequestLock(h)
  BY <1>3 DEF RequestLock, Knows, Executing, TypeOK, Take, Goto
<1>4. CASE RequestGrant(h)
  <2>1. CASE Granted(j.req) /\ Take(h, HashKey(j.req)) /\ Goto(h, "request.find") /\ UNCHANGED table
    <3>1. job'[h].pc = "request.find" /\ job'[h].req = j.req
      BY <2>1 DEF Goto, TypeOK, Jobs
    <3>2. j.req \in Requests /\ lock[PackageKey(ModuleOf[j.req])] = h
      BY <1>4 DEF RequestGrant, Knows
    <3>3. lock'[PackageKey(ModuleOf[j.req])] = h
      BY <2>1, <3>2 DEF Take, TypeOK
    <3> QED BY <2>1, <3>1, <3>2, <3>3 DEF Knows, Executing, Granted, table
  <2> QED BY <1>4, <1>e, <2>1 DEF RequestGrant
<1>5. CASE RequestFind(h)
  <2>1. CASE Goto(h, "request.insert") /\ UNCHANGED <<table, lock, ran>>
    <3>1. job'[h].pc = "request.insert" /\ job'[h].req = j.req
      BY <2>1 DEF Goto, TypeOK, Jobs
    <3> QED BY <1>5, <2>1, <3>1 DEF RequestFind, Knows, Executing, table
  <2> QED BY <1>5, <1>e, <2>1 DEF RequestFind
<1>6. CASE RequestInsert(h)
  BY <1>6, <1>i, <1>e DEF RequestInsert, InsertRow, Done, TypeOK
<1>7. CASE DecideRead(h)
  <2>1. CASE Goto(h, "decide.claim") \/ Goto(h, "decide.cancel")
    <3>1. Take(h, RowKey(j.row)) /\ UNCHANGED <<table, ran>> /\ status[j.row] = "pending"
      BY <1>7, <2>1 DEF DecideRead, Stale, Goto, EndUnchanged, Done, Idle, TypeOK
    <3>2. job'[h].pc \in {"decide.claim", "decide.cancel"} /\ job'[h].row = j.row
      BY <2>1 DEF Goto, TypeOK, Jobs
    <3>3. j.row \in Approvals /\ lock[PackageKey(ModuleOf[request[j.row]])] = h
      BY <1>7 DEF DecideRead, Stale, Knows
    <3>4. /\ lock'[PackageKey(ModuleOf[request[j.row]])] = h
          /\ lock'[RowKey(j.row)] = h
      BY <3>1, <3>3 DEF Take, TypeOK
    <3> QED BY <3>1, <3>2, <3>3, <3>4 DEF Knows, Executing, table
  <2> QED BY <1>7, <1>i, <1>e, <2>1 DEF DecideRead, Stale, Done, TypeOK
<1>8. CASE DecideClaim(h)
  <2>1. j.row \in Approvals /\ status[j.row] = "pending" /\ ran[j.row] = 0
    BY <1>8 DEF DecideClaim, Knows, Runs
  <2>2. job'[h].pc = "execute.check" /\ job'[h].row = j.row /\ job'[h].rev = revision[j.row] + 1
    BY <1>8 DEF DecideClaim, TypeOK, Jobs
  <2> QED BY <1>8, <2>1, <2>2 DEF DecideClaim, Mark, Knows, Executing, TypeOK
<1>9. CASE DecideCancel(h)
  BY <1>9, <1>i DEF DecideCancel, Done, TypeOK
<1>10. CASE ExecuteCheck(h)
  <2>1. job'[h].pc \in {"execute.run", "execute.finish"} /\ job'[h].row = j.row /\ job'[h].rev = j.rev
    BY <1>10 DEF ExecuteCheck, Goto, TypeOK, Jobs
  <2> QED BY <1>10, <2>1 DEF ExecuteCheck, Knows, Executing, table
<1>11. CASE ExecuteRun(h)
  <2>1. job'[h].pc = "execute.finish" /\ job'[h].row = j.row /\ job'[h].rev = j.rev
    BY <1>11 DEF ExecuteRun, TypeOK, Jobs
  <2> QED BY <1>11, <2>1 DEF ExecuteRun, Knows, Executing, table
<1>12. CASE ExecuteFinish(h)
  BY <1>12, <1>i DEF ExecuteFinish, Done, TypeOK
<1>13. CASE ReplaceLock(h)
  <2>1. CASE Goto(h, "replace.check") /\ {m \in j.mods : lock[PackageKey(m)] # h} = {} /\ UNCHANGED lock
    <3>1. \A m \in j.mods : lock[PackageKey(m)] = h
      BY <2>1
    <3> QED BY <1>13, <2>1, <3>1 DEF ReplaceLock, Knows, Executing, TypeOK, Goto
  <2>2. CASE UNCHANGED job
    <3>1. j.pc = "replace.lock" /\ j.agent \in Agents
      BY <1>13 DEF ReplaceLock, Knows
    <3> QED BY <2>2, <3>1 DEF Knows, Executing
  <2> QED BY <1>13, <2>1, <2>2 DEF ReplaceLock
<1>14. CASE ReplaceCheck(h)
  <2>1. CASE Goto(h, "replace.commit") /\ UNCHANGED <<table, lock, ran>> /\ j.mods \subseteq installed
    <3>1. job'[h].pc = "replace.commit" /\ job'[h].agent = j.agent /\ job'[h].mods = j.mods
      BY <2>1 DEF Goto, TypeOK, Jobs
    <3> QED BY <1>14, <2>1, <3>1 DEF ReplaceCheck, Knows, Executing, table
  <2> QED BY <1>14, <1>e, <2>1 DEF ReplaceCheck
<1>15. CASE ReplaceCommit(h)
  BY <1>15, <1>i DEF ReplaceCommit, Done, TypeOK
<1>16. CASE RemoveCount(h)
  <2>1. CASE Goto(h, "remove.commit") /\ UNCHANGED <<table, lock, ran>>
             /\ \A m \in j.mods : ExecutingOn(m) = {}
    BY <1>16, <2>1 DEF RemoveCount, Knows, Executing, TypeOK, Goto, table, ExecutingOn
  <2> QED BY <1>16, <1>e, <2>1 DEF RemoveCount
<1>17. CASE RemoveCommit(h)
  BY <1>17, <1>i DEF RemoveCommit, Done, TypeOK
<1> QED
  BY <1>1, <1>2, <1>3, <1>4, <1>5, <1>6, <1>7, <1>8, <1>9, <1>10, <1>11, <1>12,
     <1>13, <1>14, <1>15, <1>16, <1>17 DEF Step

-----------------------------------------------------------------------------
(* The inductive invariant.                                                *)

Acts(h) == Start(h) \/ Step(h) \/ Abandon(h)

LEMMA ActsTyped ==
  ASSUME IInv, NEW h \in Handlers, Acts(h) PROVE TypeOK'
BY StartTyped, StepTyped, EndUnchangedTyped DEF IInv, Acts, Abandon

LEMMA ActsKnows ==
  ASSUME IInv, NEW h \in Handlers, Acts(h), NEW g \in Handlers PROVE Knows(g)'
BY OthersUndisturbed, UndisturbedKnows, OwnKnowledge DEF IInv, Acts

\* How a step of a handler can change the table and the run counts.
Effect(h) ==
  LET a == job[h].row IN
  \/ UNCHANGED <<table, ran>>
  \/ /\ At(h, "request.insert")
     /\ \E b \in Approvals :
          /\ status[b] = "none"
          /\ status' = [status EXCEPT ![b] = "pending"]
          /\ request' = [request EXCEPT ![b] = job[h].req]
     /\ UNCHANGED <<installed, equipped, revision, ran>>
  \/ /\ a \in Approvals
     /\ \/ status[a] = "pending" /\ Mark(a, "denied")
        \/ status[a] = "pending" /\ Mark(a, "cancelled")
        \/ status[a] = "pending" /\ Mark(a, "executing")
        \/ status[a] = "executing" /\ Mark(a, "succeeded")
        \/ status[a] = "executing" /\ Mark(a, "failed")
     /\ UNCHANGED <<installed, equipped, request, ran>>
  \/ /\ a \in Approvals /\ status[a] = "executing" /\ ran[a] = 0
     /\ ran' = [ran EXCEPT ![a] = @ + 1]
     /\ UNCHANGED table
  \/ /\ \E S \in SUBSET Approvals : (\A b \in S : status[b] = "pending") /\ CancelPending(S)
     /\ \A e \in equipped' : e[2] \in installed
     /\ UNCHANGED <<installed, request, ran>>
  \/ /\ \E m \in Modules :
          /\ ExecutingOn(m) = {}
          /\ CancelPending(PendingOn(m))
          /\ installed' = installed \ {m}
          /\ equipped' = {e \in equipped : e[2] # m}
     /\ UNCHANGED <<request, ran>>

LEMMA ActsEffect ==
  ASSUME IInv, NEW h \in Handlers, Acts(h) PROVE Effect(h)
<1> DEFINE j == job[h]
<1>t. TypeOK /\ Knows(h) /\ EquippedImpliesInstalled /\ j.mods \in SUBSET Modules
  BY DEF IInv, TypeOK, Jobs
<1> USE <1>t
<1>1. CASE Start(h)
  BY <1>1 DEF Start, StartRequest, StartDecide, StartReplace, StartRemove, Effect
<1>2. CASE Abandon(h)
  BY <1>2 DEF Abandon, EndUnchanged, Effect
<1>3. CASE RequestLock(h) \/ RequestGrant(h) \/ RequestFind(h) \/ ExecuteCheck(h)
           \/ ReplaceLock(h) \/ ReplaceCheck(h) \/ RemoveCount(h)
  BY <1>3 DEF RequestLock, RequestGrant, RequestFind, ExecuteCheck, ReplaceLock,
     ReplaceCheck, RemoveCount, EndUnchanged, Effect, table
<1>4. CASE RequestInsert(h)
  BY <1>4 DEF RequestInsert, InsertRow, EndUnchanged, Effect
<1>5. CASE DecideRead(h)
  BY <1>5 DEF DecideRead, Stale, Knows, EndUnchanged, Effect
<1>6. CASE DecideClaim(h) \/ DecideCancel(h)
  BY <1>6 DEF DecideClaim, DecideCancel, Knows, Effect
<1>7. CASE ExecuteRun(h)
  BY <1>7 DEF ExecuteRun, Knows, Executing, Effect
<1>8. CASE ExecuteFinish(h)
  <2>1. j.row \in Approvals /\ status[j.row] = "executing"
    BY <1>8 DEF ExecuteFinish, Knows, Executing
  <2> QED BY <1>8, <2>1 DEF ExecuteFinish, Effect, table
<1>9. CASE ReplaceCommit(h)
  <2> DEFINE lost == {a \in Approvals : /\ status[a] = "pending"
                                        /\ AgentOf[request[a]] = j.agent
                                        /\ ModuleOf[request[a]] \notin j.mods}
  <2>1. lost \in SUBSET Approvals /\ (\A b \in lost : status[b] = "pending") /\ CancelPending(lost)
    BY <1>9 DEF ReplaceCommit
  <2>2. \A e \in equipped' : e[2] \in installed
    <3>1. equipped' = {e \in equipped : e[1] # j.agent} \cup {<<j.agent, m>> : m \in j.mods}
      BY <1>9 DEF ReplaceCommit
    <3>2. j.mods \subseteq installed
      BY <1>9 DEF ReplaceCommit, Knows
    <3> QED BY <3>1, <3>2 DEF EquippedImpliesInstalled
  <2>3. UNCHANGED <<installed, request, ran>>
    BY <1>9 DEF ReplaceCommit
  <2> QED BY <2>1, <2>2, <2>3 DEF Effect
<1>10. CASE RemoveCommit(h)
  BY <1>10 DEF RemoveCommit, Knows, Effect
<1> QED
  BY <1>1, <1>2, <1>3, <1>4, <1>5, <1>6, <1>7, <1>8, <1>9, <1>10 DEF Step, Acts

LEMMA ActsRuns ==
  ASSUME IInv, NEW h \in Handlers, Acts(h) PROVE Runs'
<1>1. Effect(h) /\ TypeOK /\ Runs
  BY ActsEffect DEF IInv
<1> QED BY <1>1 DEF Effect, Runs, TypeOK, Mark, CancelPending, PendingOn, table

LEMMA ActsInstalled ==
  ASSUME IInv, NEW h \in Handlers, Acts(h)
  PROVE  ActiveImpliesInstalled' /\ EquippedImpliesInstalled'
<1>1. Effect(h) /\ TypeOK /\ ActiveImpliesInstalled /\ EquippedImpliesInstalled /\ Knows(h)
  BY ActsEffect DEF IInv
<1> USE <1>1
<1>2. ActiveImpliesInstalled'
  <2>1. CASE At(h, "request.insert") /\ UNCHANGED installed
             /\ \E b \in Approvals : /\ status[b] = "none"
                                     /\ status' = [status EXCEPT ![b] = "pending"]
                                     /\ request' = [request EXCEPT ![b] = job[h].req]
    BY <2>1 DEF ActiveImpliesInstalled, Active, TypeOK, Knows
  <2>2. CASE \E m \in Modules : /\ ExecutingOn(m) = {}
                                /\ CancelPending(PendingOn(m))
                                /\ installed' = installed \ {m}
                                /\ UNCHANGED request
    BY <2>2 DEF ActiveImpliesInstalled, Active, TypeOK, CancelPending, PendingOn, ExecutingOn
  <2> QED BY <2>1, <2>2 DEF Effect, ActiveImpliesInstalled, Active, TypeOK, Mark, CancelPending, table
<1>3. EquippedImpliesInstalled'
  BY DEF Effect, EquippedImpliesInstalled, table
<1> QED BY <1>2, <1>3

\* A claim starts from a pending row, on which nobody can be executing.
LEMMA ActsOneExecutor ==
  ASSUME IInv, NEW h \in Handlers, Acts(h) PROVE OneExecutor'
<1>1. TypeOK /\ OneExecutor /\ \A g \in Handlers : Knows(g)
  BY DEF IInv
<1>2. \A g \in Handlers \ {h} : job'[g] = job[g]
  BY <1>1, JobsKept DEF Acts
<1>3. Executing(h)' => \/ Executing(h) /\ job'[h].row = job[h].row
                       \/ job'[h].row \in Approvals /\ status[job'[h].row] = "pending"
  <2>1. CASE DecideClaim(h)
    <3>1. job'[h].row = job[h].row
      BY <1>1, <2>1 DEF DecideClaim, TypeOK, Jobs
    <3> QED BY <1>1, <2>1, <3>1 DEF DecideClaim, Knows
  <2>2. CASE ExecuteCheck(h) \/ ExecuteRun(h)
    <3>1. job'[h].row = job[h].row
      BY <1>1, <2>2 DEF ExecuteCheck, ExecuteRun, Goto, TypeOK, Jobs
    <3>2. Executing(h)
      BY <2>2 DEF ExecuteCheck, ExecuteRun, Executing
    <3> QED BY <3>1, <3>2 DEF Executing
  <2>3. CASE Start(h)
    <3>1. ASSUME NEW r \in Requests, StartRequest(h, r) PROVE job'[h].pc = "request.lock"
      BY <1>1, <3>1 DEF StartRequest, TypeOK, Idle
    <3>2. ASSUME NEW a \in Approvals, NEW approve \in BOOLEAN, NEW rev \in 0 .. revision[a],
                 StartDecide(h, a, approve, rev)
          PROVE  job'[h].pc = "decide.read"
      BY <1>1, <3>2 DEF StartDecide, TypeOK, Idle
    <3>3. ASSUME NEW ag \in Agents, NEW S \in SUBSET Modules, StartReplace(h, ag, S)
          PROVE  job'[h].pc = "replace.lock"
      BY <1>1, <3>3 DEF StartReplace, TypeOK, Idle
    <3>4. ASSUME NEW m \in Modules, StartRemove(h, m) PROVE job'[h].pc = "remove.count"
      BY <1>1, <3>4 DEF StartRemove, TypeOK, Idle
    <3> QED BY <2>3, <3>1, <3>2, <3>3, <3>4 DEF Start, Executing
  <2>4. CASE EndUnchanged(h) \/ Done(h)
    BY <1>1, <2>4 DEF EndUnchanged, Done, Idle, Executing, TypeOK
  <2>5. ASSUME NEW pc \in PCs \ {"execute.check", "execute.run", "execute.finish"}, Goto(h, pc)
        PROVE  ~Executing(h)'
    BY <1>1, <2>5 DEF Goto, Executing, TypeOK, Jobs
  <2>6. CASE RequestLock(h) \/ RequestGrant(h) \/ RequestFind(h) \/ DecideRead(h)
             \/ ReplaceCheck(h) \/ RemoveCount(h)
    BY <2>4, <2>5, <2>6 DEF RequestLock, RequestGrant, RequestFind, DecideRead,
       ReplaceCheck, RemoveCount, PCs
  <2>7. CASE ReplaceLock(h)
    <3>1. CASE Goto(h, "replace.check")
      BY <2>5, <3>1 DEF PCs
    <3>2. CASE UNCHANGED job
      BY <2>7, <3>2 DEF ReplaceLock, Executing
    <3> QED BY <2>7, <3>1, <3>2 DEF ReplaceLock
  <2>8. CASE RequestInsert(h) \/ DecideCancel(h) \/ ExecuteFinish(h) \/ ReplaceCommit(h)
             \/ RemoveCommit(h) \/ Abandon(h)
    BY <2>4, <2>8 DEF RequestInsert, InsertRow, DecideCancel, ExecuteFinish, ReplaceCommit, RemoveCommit, Abandon
  <2> QED
    BY <2>1, <2>2, <2>3, <2>6, <2>7, <2>8 DEF Acts, Step
<1> QED BY <1>1, <1>2, <1>3 DEF OneExecutor, Knows, Executing

\* The package lock of the module keeps identical requests apart.
LEMMA ActsInsert ==
  ASSUME IInv, NEW h \in Handlers, Acts(h) PROVE InsertNeverConflicts'
<1>1. TypeOK /\ InsertNeverConflicts /\ Effect(h) /\ \A g \in Handlers : Knows(g)
  BY ActsEffect DEF IInv
<1>2. ASSUME NEW g \in Handlers \ {h}, At(g, "request.insert")'
      PROVE  ~\E a \in Approvals : Active(a)' /\ request'[a] = job'[g].req
  <2>1. job'[g] = job[g]
    BY <1>1, JobsKept DEF Acts
  <2>2. ~\E a \in Approvals : Active(a) /\ request[a] = job[g].req
    BY <1>1, <1>2, <2>1 DEF InsertNeverConflicts
  <2>3. At(h, "request.insert") => job[h].req # job[g].req
    BY <1>1, <1>2, <2>1 DEF Knows
  <2> QED
    BY <1>1, <2>1, <2>2, <2>3 DEF Effect, Active, TypeOK, Mark, CancelPending, table
<1>3. ASSUME At(h, "request.insert")'
      PROVE  ~\E a \in Approvals : Active(a)' /\ request'[a] = job'[h].req
  <2>1. RequestFind(h) /\ Goto(h, "request.insert") /\ UNCHANGED table
    <3>1. CASE Start(h)
      BY <1>1, <1>3, <3>1 DEF Start, StartRequest, StartDecide, StartReplace, StartRemove, TypeOK, Idle
    <3>2. CASE EndUnchanged(h) \/ Done(h)
      BY <1>1, <1>3, <3>2 DEF EndUnchanged, Done, Idle, TypeOK
    <3>3. ASSUME NEW pc \in PCs \ {"request.insert"}, Goto(h, pc) PROVE FALSE
      BY <1>1, <1>3, <3>3 DEF Goto, TypeOK, Jobs
    <3>4. CASE RequestLock(h) \/ RequestGrant(h) \/ DecideRead(h) \/ ReplaceCheck(h) \/ RemoveCount(h)
      BY <3>2, <3>3, <3>4 DEF RequestLock, RequestGrant, DecideRead, ReplaceCheck, RemoveCount, PCs
    <3>5. CASE DecideClaim(h) \/ ExecuteCheck(h) \/ ExecuteRun(h)
      BY <1>1, <1>3, <3>5 DEF DecideClaim, ExecuteCheck, ExecuteRun, Goto, TypeOK, Jobs
    <3>6. CASE ReplaceLock(h)
      <4>1. CASE Goto(h, "replace.check")
        BY <3>3, <4>1 DEF PCs
      <4>2. CASE UNCHANGED job
        BY <1>3, <3>6, <4>2 DEF ReplaceLock
      <4> QED BY <3>6, <4>1, <4>2 DEF ReplaceLock
    <3>7. CASE RequestInsert(h) \/ DecideCancel(h) \/ ExecuteFinish(h) \/ ReplaceCommit(h)
               \/ RemoveCommit(h) \/ Abandon(h)
      BY <3>2, <3>7 DEF RequestInsert, InsertRow, DecideCancel, ExecuteFinish, ReplaceCommit, RemoveCommit, Abandon
    <3>8. CASE RequestFind(h)
      BY <3>2, <3>8 DEF RequestFind
    <3> QED BY <3>1, <3>4, <3>5, <3>6, <3>7, <3>8 DEF Acts, Step
  <2>2. ~\E a \in Approvals : Active(a) /\ request[a] = job[h].req
    <3>1. ~EndUnchanged(h)
      BY <1>1, <1>3 DEF EndUnchanged, Done, Idle, TypeOK
    <3> QED BY <2>1, <3>1 DEF RequestFind
  <2>3. job'[h].req = job[h].req
    BY <1>1, <2>1 DEF Goto, TypeOK, Jobs
  <2> QED BY <2>1, <2>2, <2>3 DEF Active, table
<1> QED BY <1>2, <1>3 DEF InsertNeverConflicts

LEMMA InitIInv == Init => IInv
<1> SUFFICES ASSUME Init PROVE IInv
  OBVIOUS
<1>1. TypeOK
  BY InitTyped
<1>2. \A h \in Handlers : job[h].pc = "idle"
  BY DEF Init, Idle
<1>3. \A h \in Handlers : Knows(h) /\ ~Executing(h)
  BY <1>2 DEF Knows, Executing
<1>4. EquippedImpliesInstalled
  BY DEF Init, EquippedImpliesInstalled
<1> QED
  BY <1>1, <1>2, <1>3, <1>4 DEF Init, IInv, Runs, OneExecutor, ActiveImpliesInstalled, Active,
     InsertNeverConflicts

LEMMA NextIInv == IInv /\ [Next]_vars => IInv'
<1> SUFFICES ASSUME IInv, [Next]_vars PROVE IInv'
  OBVIOUS
<1>1. ASSUME NEW h \in Handlers, Acts(h) PROVE IInv'
  BY <1>1, ActsTyped, ActsKnows, ActsRuns, ActsOneExecutor, ActsInstalled, ActsInsert DEF IInv
<1>2. ASSUME NEW m \in Modules, Install(m) PROVE IInv'
  <2>1. TypeOK'
    BY <1>2 DEF Install, IInv, TypeOK
  <2>2. \A h \in Handlers : Knows(h)'
    BY <1>2 DEF Install, IInv, Knows, Executing, ExecutingOn
  <2> QED
    BY <1>2, <2>1, <2>2 DEF Install, IInv, Runs, OneExecutor, Executing, ActiveImpliesInstalled,
       EquippedImpliesInstalled, InsertNeverConflicts, Active
<1>3. CASE UNCHANGED vars
  <2>1. TypeOK'
    BY <1>3 DEF vars, IInv, TypeOK
  <2>2. \A h \in Handlers : Knows(h)'
    BY <1>3 DEF vars, IInv, Knows, Executing, ExecutingOn
  <2> QED
    BY <1>3, <2>1, <2>2 DEF vars, IInv, Runs, OneExecutor, Executing, ActiveImpliesInstalled,
       EquippedImpliesInstalled, InsertNeverConflicts, Active
<1> QED BY <1>1, <1>2, <1>3 DEF Next, Acts

LEMMA Invariance == Spec => []IInv
BY InitIInv, NextIInv, PTL DEF Spec

-----------------------------------------------------------------------------
(* Theorems.                                                               *)

\* The table, the locks and the handlers keep their types.
THEOREM TypeCorrectness == Spec => []TypeOK
BY Invariance, PTL DEF IInv

\* The tool of an approval runs at most once, and only under an approval that
\* was claimed by a decision (decideToolApproval, executeApprovedTool).
THEOREM AtMostOneRun == Spec => []RunsAtMostOnce
<1>1. IInv => RunsAtMostOnce
  BY DEF IInv, TypeOK, Statuses, Runs, RunsAtMostOnce
<1> QED BY <1>1, Invariance, PTL

\* A claimed approval has one handler acting on it, never two.
THEOREM SingleExecutor == Spec => []OneExecutor
BY Invariance, PTL DEF IInv

\* A package is never removed under an approval that can still run, and no
\* agent stays equipped with a removed package (removeWorkspaceToolPackage).
THEOREM PackagesOutliveApprovals == Spec => []InstalledWhileUsed
<1>1. IInv => InstalledWhileUsed
  BY DEF IInv, InstalledWhileUsed
<1> QED BY <1>1, Invariance, PTL

\* Identical requests never race to the unique index of active approvals.
THEOREM RequestsJoin == Spec => []InsertNeverConflicts
BY Invariance, PTL DEF IInv

\* Nothing moves a row while its approved tool runs: the receipt always matches.
THEOREM ReceiptsMatch == Spec => []ReceiptNeverStale
<1>1. IInv => ReceiptNeverStale
  BY DEF IInv, Knows, ReceiptNeverStale
<1> QED BY <1>1, Invariance, PTL

\* A decision is final, and every change of a row bumps its revision.
THEOREM Finality == Spec => DecisionsAreFinal
<1>1. IInv /\ [Next]_vars =>
        [\A a \in Approvals :
           /\ status[a] \in Terminal => UNCHANGED <<status[a], revision[a], request[a]>>
           /\ status[a] \notin {"none", status'[a]} => revision'[a] = revision[a] + 1]_vars
  <2> SUFFICES ASSUME IInv, Next, NEW a \in Approvals
               PROVE  /\ status[a] \in Terminal => UNCHANGED <<status[a], revision[a], request[a]>>
                      /\ status[a] \notin {"none", status'[a]} => revision'[a] = revision[a] + 1
    OBVIOUS
  <2>1. (\E h \in Handlers : Effect(h)) \/ UNCHANGED <<status, revision, request>>
    BY ActsEffect DEF Next, Acts, Install
  <2> QED
    BY <2>1 DEF Effect, IInv, TypeOK, Terminal, Mark, CancelPending, PendingOn, table
<1> QED BY <1>1, Invariance, PTL DEF Spec, DecisionsAreFinal

-----------------------------------------------------------------------------
(* The rows implement one-shot permissions.                                *)

LEMMA TicketOf ==
  ASSUME NEW a \in Approvals
  PROVE  /\ Ticket[a] = CASE status[a] = "none" -> "free"
                          [] status[a] = "pending" -> "asked"
                          [] status[a] = "executing" -> IF ran[a] = 0 THEN "granted" ELSE "used"
                          [] OTHER -> "closed"
         /\ Ticket'[a] = CASE status'[a] = "none" -> "free"
                          [] status'[a] = "pending" -> "asked"
                          [] status'[a] = "executing" -> IF ran'[a] = 0 THEN "granted" ELSE "used"
                          [] OTHER -> "closed"
BY DEF Ticket

\* Withdrawing a set of pending rows closes exactly their tickets.
LEMMA WithdrawStep ==
  ASSUME TypeOK, NEW S \in SUBSET Approvals, \A b \in S : status[b] = "pending",
         CancelPending(S), UNCHANGED ran
  PROVE  Permission!Withdraw(S)
<1>1. \A t \in S : Ticket[t] = "asked"
  BY TicketOf
<1>2. \A t \in Approvals : Ticket'[t] = IF t \in S THEN "closed" ELSE Ticket[t]
  BY TicketOf DEF CancelPending
<1>3. Ticket' = [t \in Approvals |-> IF t \in S THEN "closed" ELSE Ticket[t]]
  BY <1>2 DEF Ticket
<1> QED BY <1>1, <1>3 DEF Permission!Withdraw

\* A step that moves one row moves one ticket.
LEMMA BecomesStep ==
  ASSUME NEW a \in Approvals, NEW from, NEW to, Ticket[a] \in from, Ticket'[a] = to,
         \A b \in Approvals \ {a} : Ticket'[b] = Ticket[b]
  PROVE  Permission!Becomes(a, from, to)
<1>1. Ticket' = [Ticket EXCEPT ![a] = to]
  BY DEF Ticket
<1> QED BY <1>1 DEF Permission!Becomes

LEMMA EffectPermits ==
  ASSUME TypeOK, Runs, NEW h \in Handlers, Effect(h)
  PROVE  Permission!Next \/ UNCHANGED Ticket
<1> DEFINE a == job[h].row
<1>1. CASE UNCHANGED <<table, ran>>
  BY <1>1 DEF Ticket, table
<1>2. ASSUME NEW b \in Approvals, status[b] = "none", status' = [status EXCEPT ![b] = "pending"],
             UNCHANGED ran
      PROVE  Permission!Next
  <2>1. Ticket[b] = "free" /\ Ticket'[b] = "asked" /\ \A c \in Approvals \ {b} : Ticket'[c] = Ticket[c]
    BY <1>2, TicketOf DEF TypeOK
  <2>2. Permission!Ask(b)
    BY <2>1, BecomesStep DEF Permission!Ask
  <2> QED BY <2>2 DEF Permission!Next
<1>3. CASE a \in Approvals /\ status[a] = "pending" /\ UNCHANGED ran
           /\ (Mark(a, "denied") \/ Mark(a, "cancelled"))
  <2>1. Ticket[a] = "asked" /\ Ticket'[a] = "closed" /\ \A c \in Approvals \ {a} : Ticket'[c] = Ticket[c]
    BY <1>3, TicketOf DEF TypeOK, Mark
  <2>2. Ticket' = [t \in Approvals |-> IF t \in {a} THEN "closed" ELSE Ticket[t]]
    BY <2>1 DEF Ticket
  <2>3. Permission!Withdraw({a}) /\ {a} \in SUBSET Approvals
    BY <1>3, <2>1, <2>2 DEF Permission!Withdraw
  <2> QED BY <2>3 DEF Permission!Next
<1>4. CASE a \in Approvals /\ status[a] = "pending" /\ UNCHANGED ran /\ Mark(a, "executing")
  <2>1. Ticket[a] = "asked" /\ Ticket'[a] = "granted" /\ \A c \in Approvals \ {a} : Ticket'[c] = Ticket[c]
    BY <1>4, TicketOf DEF TypeOK, Mark, Runs
  <2>2. Permission!Grant(a)
    BY <1>4, <2>1, BecomesStep DEF Permission!Grant
  <2> QED BY <1>4, <2>2 DEF Permission!Next
<1>5. CASE a \in Approvals /\ status[a] = "executing" /\ UNCHANGED ran
           /\ (Mark(a, "succeeded") \/ Mark(a, "failed"))
  <2>1. Ticket[a] \in {"granted", "used"} /\ Ticket'[a] = "closed"
        /\ \A c \in Approvals \ {a} : Ticket'[c] = Ticket[c]
    BY <1>5, TicketOf DEF TypeOK, Mark
  <2>2. Permission!Close(a)
    BY <1>5, <2>1, BecomesStep DEF Permission!Close
  <2> QED BY <1>5, <2>2 DEF Permission!Next
<1>6. CASE a \in Approvals /\ status[a] = "executing" /\ ran[a] = 0
           /\ ran' = [ran EXCEPT ![a] = @ + 1] /\ UNCHANGED table
  <2>1. Ticket[a] = "granted" /\ Ticket'[a] = "used" /\ \A c \in Approvals \ {a} : Ticket'[c] = Ticket[c]
    BY <1>6, TicketOf DEF TypeOK, table
  <2>2. Permission!Use(a)
    BY <1>6, <2>1, BecomesStep DEF Permission!Use
  <2> QED BY <1>6, <2>2 DEF Permission!Next
<1>7. ASSUME NEW S \in SUBSET Approvals, \A b \in S : status[b] = "pending",
             CancelPending(S), UNCHANGED ran
      PROVE  Permission!Next
  BY <1>7, WithdrawStep DEF Permission!Next
<1>8. \A m \in Modules : PendingOn(m) \in SUBSET Approvals /\ \A b \in PendingOn(m) : status[b] = "pending"
  BY DEF PendingOn
<1> QED BY <1>1, <1>2, <1>3, <1>4, <1>5, <1>6, <1>7, <1>8 DEF Effect

\* The approval rows, under all the races above, behave as one-shot permissions:
\* asked, granted at most once, used at most once while granted, then closed.
THEOREM Refinement == Spec => ImplementsPermission
<1>1. Init => Permission!Init
  BY DEF Init, Permission!Init, Ticket
<1>2. IInv /\ [Next]_vars => [Permission!Next]_Ticket
  <2> SUFFICES ASSUME IInv, [Next]_vars PROVE Permission!Next \/ UNCHANGED Ticket
    OBVIOUS
  <2>1. ASSUME NEW h \in Handlers, Acts(h) PROVE Permission!Next \/ UNCHANGED Ticket
    BY <2>1, ActsEffect, EffectPermits DEF IInv
  <2>2. CASE UNCHANGED <<status, ran>>
    BY <2>2 DEF Ticket
  <2> QED BY <2>1, <2>2 DEF Next, Acts, Install, vars
<1> QED BY <1>1, <1>2, Invariance, PTL DEF Spec, Permission!Spec, ImplementsPermission

=============================================================================
