---------------------------- MODULE ToolApprovals ----------------------------
(***************************************************************************)
(* The durable approval boundary in front of an agent's write tools:       *)
(* server/approvals/, server/capabilities/ and the decision route, over    *)
(* one workspace.                                                          *)
(*                                                                         *)
(* A handler is one HTTP request or one agent tool call.  Inside a         *)
(* Postgres transaction its statements are separate steps, because another *)
(* handler's transaction can commit between them; what a transaction       *)
(* writes becomes visible in its COMMIT step.  lock holds the advisory     *)
(* locks and the FOR UPDATE row locks, which a COMMIT or ROLLBACK drops.   *)
(*                                                                         *)
(* Not here: trust mode lets an owner's own agent run a tool without any   *)
(* row of this table; members' roles, the arguments and their hash (a      *)
(* Request is one <<agent, tool, arguments>> with its hash).               *)
(***************************************************************************)
EXTENDS Naturals, FiniteSets

CONSTANTS
  Handlers,    \* HTTP requests and tool calls in flight
  Approvals,   \* row ids of workspace_tool_approvals (bounds how many are asked)
  Agents,
  Modules,     \* add-on modules, numbered in the sort order of their lock keys
  Requests,    \* what an agent may ask for: agent, tool and arguments, hashed
  AgentOf,     \* the agent of a request
  ModuleOf,    \* the one module that grants its tool
  None

ASSUME ModulesAssumption == Modules \subseteq Nat
ASSUME RequestsAssumption ==
  AgentOf \in [Requests -> Agents] /\ ModuleOf \in [Requests -> Modules]
ASSUME NoneAssumption ==
  None \notin Handlers \cup Approvals \cup Agents \cup Modules \cup Requests

VARIABLES
  installed,   \* workspace_tool_package_installs
  equipped,    \* workspace_agent_capabilities: <<agent, module>>
  status,      \* per approval row; "none" is a row not inserted yet
  request,     \* request_hash (with the agent and module it determines)
  revision,
  lock,        \* who holds each advisory lock and each row lock
  job,         \* where each handler is
  ran          \* history: how often the tool of an approval was run

table == <<installed, equipped, status, request, revision>>
vars == <<installed, equipped, status, request, revision, lock, job, ran>>

Statuses == {"none", "pending", "executing", "succeeded", "failed", "denied", "cancelled"}
Terminal == {"succeeded", "failed", "denied", "cancelled"}
Active(a) == status[a] \in {"pending", "executing"}

PackageKey(m) == <<"tool-package", m>>
HashKey(r)    == <<"tool-approval", r>>
AgentKey(ag)  == <<"workspace-capabilities", ag>>
RowKey(a)     == <<"row", a>>
Keys == {PackageKey(m) : m \in Modules} \cup {HashKey(r) : r \in Requests}
          \cup {AgentKey(ag) : ag \in Agents} \cup {RowKey(a) : a \in Approvals}

PCs == {"idle",
        "request.lock", "request.grant", "request.find", "request.insert",
        "decide.read", "decide.claim", "decide.cancel",
        "execute.check", "execute.run", "execute.finish",
        "replace.lock", "replace.check", "replace.commit",
        "remove.count", "remove.commit"}

\* approve and the revision are the decision's input; ok is the tool's outcome.
Jobs == [pc : PCs, req : Requests \cup {None}, row : Approvals \cup {None},
         rev : Nat, approve : BOOLEAN, ok : BOOLEAN,
         agent : Agents \cup {None}, mods : SUBSET Modules]

Idle == [pc |-> "idle", req |-> None, row |-> None, rev |-> 0, approve |-> FALSE,
         ok |-> FALSE, agent |-> None, mods |-> {}]

TypeOK ==
  /\ installed \in SUBSET Modules
  /\ equipped \in SUBSET (Agents \X Modules)
  /\ status \in [Approvals -> Statuses]
  /\ request \in [Approvals -> Requests \cup {None}]
  /\ \A a \in Approvals : status[a] # "none" => request[a] \in Requests
  /\ revision \in [Approvals -> Nat]
  /\ lock \in [Keys -> Handlers \cup {None}]
  /\ job \in [Handlers -> Jobs]
  /\ ran \in [Approvals -> Nat]

Init ==
  /\ installed \in SUBSET Modules
  /\ equipped \in SUBSET (Agents \X installed)
  /\ status = [a \in Approvals |-> "none"]
  /\ request = [a \in Approvals |-> None]
  /\ revision = [a \in Approvals |-> 0]
  /\ lock = [k \in Keys |-> None]
  /\ job = [h \in Handlers |-> Idle]
  /\ ran = [a \in Approvals |-> 0]

-----------------------------------------------------------------------------
(* Helpers.                                                                *)

\* findApprovalGrant: the module is equipped and its package is installed.
Granted(r) == <<AgentOf[r], ModuleOf[r]>> \in equipped /\ ModuleOf[r] \in installed

At(h, pc) == job[h].pc = pc

Free(k) == lock[k] = None
Take(h, k) == lock' = [lock EXCEPT ![k] = h]

\* COMMIT and ROLLBACK alike give every lock of the transaction back.
Release(h) == lock' = [k \in Keys |-> IF lock[k] = h THEN None ELSE lock[k]]

Goto(h, pc) == job' = [job EXCEPT ![h].pc = pc]
Done(h) == job' = [job EXCEPT ![h] = Idle]

\* A transaction ends without a write: ROLLBACK after an error, or an early COMMIT.
EndUnchanged(h) == Release(h) /\ Done(h) /\ UNCHANGED <<table, ran>>

\* One row moves to a new status, which always bumps its revision.
Mark(a, s) ==
  /\ status' = [status EXCEPT ![a] = s]
  /\ revision' = [revision EXCEPT ![a] = @ + 1]

\* Mutant: the bulk cancellation forgets revision = revision + 1.
CancelWithoutBump(S) ==
  /\ status' = [a \in Approvals |-> IF a \in S THEN "cancelled" ELSE status[a]]
  /\ UNCHANGED revision

\* The pending rows in S become cancelled, in one UPDATE.
CancelPending(S) ==
  /\ status' = [a \in Approvals |-> IF a \in S THEN "cancelled" ELSE status[a]]
  /\ revision' = [a \in Approvals |-> IF a \in S THEN revision[a] + 1 ELSE revision[a]]

PendingOn(m) == {a \in Approvals : status[a] = "pending" /\ ModuleOf[request[a]] = m}

\* Mutant: removal counts no action as executing.
NoneExecutingOn(m) == {}

ExecutingOn(m) == {a \in Approvals : status[a] = "executing" /\ ModuleOf[request[a]] = m}

-----------------------------------------------------------------------------
(* requestToolApprovalIfRequired: an agent calls a tool that needs a yes.  *)

\* The grant is looked up before any lock is taken; without it the call ends.
StartRequest(h, r) ==
  /\ At(h, "idle")
  /\ Granted(r)
  /\ job' = [job EXCEPT ![h] = [Idle EXCEPT !.pc = "request.lock", !.req = r]]
  /\ UNCHANGED <<table, lock, ran>>

RequestLock(h) ==
  /\ At(h, "request.lock")
  /\ LET k == PackageKey(ModuleOf[job[h].req]) IN Free(k) /\ Take(h, k)
  /\ Goto(h, "request.grant")
  /\ UNCHANGED <<table, ran>>

\* The grant may have gone while the handler waited for the lock.
RequestGrant(h) ==
  /\ At(h, "request.grant")
  /\ \/ /\ Granted(job[h].req)
        /\ Free(HashKey(job[h].req))
        /\ Take(h, HashKey(job[h].req))
        /\ Goto(h, "request.find")
        /\ UNCHANGED <<table, ran>>
     \/ ~Granted(job[h].req) /\ EndUnchanged(h)

\* Mutant: the lookup only joins a request that is still waiting.
RequestFindPending(h) ==
  /\ At(h, "request.find")
  /\ IF \E a \in Approvals : status[a] = "pending" /\ request[a] = job[h].req
       THEN EndUnchanged(h)
       ELSE Goto(h, "request.insert") /\ UNCHANGED <<table, lock, ran>>

\* An identical request that is still active is returned instead of a new row.
RequestFind(h) ==
  /\ At(h, "request.find")
  /\ IF \E a \in Approvals : Active(a) /\ request[a] = job[h].req
       THEN EndUnchanged(h)
       ELSE Goto(h, "request.insert") /\ UNCHANGED <<table, lock, ran>>

\* Mutant: the row is stored without its request.
InsertBlankRow(a, r) ==
  status' = [status EXCEPT ![a] = "pending"] /\ UNCHANGED request

InsertRow(a, r) ==
  /\ status' = [status EXCEPT ![a] = "pending"]
  /\ request' = [request EXCEPT ![a] = r]

\* The unique index on active requests would turn a second row into an error
\* (and so does, in the model, a table that is full).
RequestInsert(h) ==
  /\ At(h, "request.insert")
  /\ IF \/ \E a \in Approvals : Active(a) /\ request[a] = job[h].req
        \/ \A a \in Approvals : status[a] # "none"
       THEN EndUnchanged(h)
       ELSE /\ \E a \in Approvals : status[a] = "none" /\ InsertRow(a, job[h].req)
            /\ Release(h)
            /\ Done(h)
            /\ UNCHANGED <<installed, equipped, revision, ran>>

-----------------------------------------------------------------------------
(* decideToolApproval: an owner or admin answers with the revision seen.   *)

StartDecide(h, a, approve, rev) ==
  /\ At(h, "idle")
  /\ status[a] # "none"
  /\ Free(PackageKey(ModuleOf[request[a]]))
  /\ Take(h, PackageKey(ModuleOf[request[a]]))
  /\ job' = [job EXCEPT ![h] = [Idle EXCEPT !.pc = "decide.read", !.row = a,
                                            !.approve = approve, !.rev = rev]]
  /\ UNCHANGED <<table, ran>>

\* Mutant: a row is decided whatever became of it.
NeverStale(a, rev) == FALSE

\* The client decided on something else than what the row is now.
Stale(a, rev) == status[a] # "pending" \/ revision[a] # rev

\* SELECT ... FOR UPDATE, the staleness check, then deny or look the grant up.
DecideRead(h) ==
  LET a == job[h].row IN
  /\ At(h, "decide.read")
  /\ Free(RowKey(a))
  /\ IF Stale(a, job[h].rev)
       THEN EndUnchanged(h)
       ELSE IF job[h].approve
         THEN /\ Take(h, RowKey(a))
              /\ Goto(h, IF Granted(request[a]) THEN "decide.claim" ELSE "decide.cancel")
              /\ UNCHANGED <<table, ran>>
         ELSE /\ Mark(a, "denied")
              /\ Release(h)
              /\ Done(h)
              /\ UNCHANGED <<installed, equipped, request, ran>>

\* Mutant: the route goes on with the row as it was before the claim.
DecideClaimOldRevision(h) ==
  LET a == job[h].row IN
  /\ At(h, "decide.claim")
  /\ Mark(a, "executing")
  /\ Release(h)
  /\ job' = [job EXCEPT ![h].pc = "execute.check", ![h].rev = revision[a]]
  /\ UNCHANGED <<installed, equipped, request, ran>>

\* The claim is committed before the tool runs; the route goes on with it.
DecideClaim(h) ==
  LET a == job[h].row IN
  /\ At(h, "decide.claim")
  /\ Mark(a, "executing")
  /\ Release(h)
  /\ job' = [job EXCEPT ![h].pc = "execute.check", ![h].rev = revision[a] + 1]
  /\ UNCHANGED <<installed, equipped, request, ran>>

DecideCancel(h) ==
  /\ At(h, "decide.cancel")
  /\ Mark(job[h].row, "cancelled")
  /\ Release(h)
  /\ Done(h)
  /\ UNCHANGED <<installed, equipped, request, ran>>

-----------------------------------------------------------------------------
(* The decision route after a claim: executeApprovedTool, finish.          *)

\* assertApprovedToolExecution reads the row and the grant with no lock.  A
\* refusal (also the tripwire, or a lost role) is a failed result, not a throw.
ExecuteCheck(h) ==
  /\ At(h, "execute.check")
  /\ \/ /\ status[job[h].row] = "executing"
        /\ Granted(request[job[h].row])
        /\ Goto(h, "execute.run")
     \/ job' = [job EXCEPT ![h].pc = "execute.finish", ![h].ok = FALSE]
  /\ UNCHANGED <<table, lock, ran>>

\* Mutant: a tool that reports an error is tried again.
ExecuteRunRetry(h) ==
  /\ At(h, "execute.run")
  /\ ran' = [ran EXCEPT ![job[h].row] = @ + 1]
  /\ \/ job' = [job EXCEPT ![h].pc = "execute.finish", ![h].ok = TRUE]
     \/ UNCHANGED job
  /\ UNCHANGED <<table, lock>>

ExecuteRun(h) ==
  /\ At(h, "execute.run")
  /\ ran' = [ran EXCEPT ![job[h].row] = @ + 1]
  /\ \E ok \in BOOLEAN :
       job' = [job EXCEPT ![h].pc = "execute.finish", ![h].ok = ok]
  /\ UNCHANGED <<table, lock>>

\* finishToolApproval: only the claimed revision, and only while executing.
ExecuteFinish(h) ==
  LET a == job[h].row IN
  /\ At(h, "execute.finish")
  /\ IF status[a] = "executing" /\ revision[a] = job[h].rev
       THEN Mark(a, IF job[h].ok THEN "succeeded" ELSE "failed")
       ELSE UNCHANGED <<status, revision>>
  /\ Done(h)
  /\ UNCHANGED <<installed, equipped, request, lock, ran>>

-----------------------------------------------------------------------------
(* replaceWorkspaceCapabilityModules: the exoskeleton's selection is saved.*)

StartReplace(h, ag, S) ==
  /\ At(h, "idle")
  /\ Free(AgentKey(ag))
  /\ Take(h, AgentKey(ag))
  /\ job' = [job EXCEPT ![h] = [Idle EXCEPT !.pc = "replace.lock", !.agent = ag, !.mods = S]]
  /\ UNCHANGED <<table, ran>>

\* Mutant: the selection is saved without locking its packages.
ReplaceWithoutLocks(h) ==
  /\ At(h, "replace.lock")
  /\ Goto(h, "replace.check")
  /\ UNCHANGED <<table, lock, ran>>

\* Mutant: the package locks are taken in any order.
ReplaceLockUnsorted(h) ==
  LET missing == {m \in job[h].mods : lock[PackageKey(m)] # h} IN
  /\ At(h, "replace.lock")
  /\ IF missing = {}
       THEN Goto(h, "replace.check") /\ UNCHANGED <<table, lock, ran>>
       ELSE \E m \in missing : Free(PackageKey(m)) /\ Take(h, PackageKey(m)) /\ UNCHANGED <<table, job, ran>>

\* lockToolPackages: the packages of the NEW selection only, in sorted order.
ReplaceLock(h) ==
  LET missing == {m \in job[h].mods : lock[PackageKey(m)] # h} IN
  /\ At(h, "replace.lock")
  /\ IF missing = {}
       THEN Goto(h, "replace.check") /\ UNCHANGED <<table, lock, ran>>
       ELSE \E m \in missing :
              /\ \A n \in missing : m <= n
              /\ Free(PackageKey(m))
              /\ Take(h, PackageKey(m))
              /\ UNCHANGED <<table, job, ran>>

\* Every chosen package must be installed; saving the same selection is a no-op.
ReplaceCheck(h) ==
  LET ag == job[h].agent
      current == {m \in installed : <<ag, m>> \in equipped}
  IN
  /\ At(h, "replace.check")
  /\ IF job[h].mods \subseteq installed /\ current # job[h].mods
       THEN Goto(h, "replace.commit") /\ UNCHANGED <<table, lock, ran>>
       ELSE EndUnchanged(h)

\* The agent's rows are replaced and the pending approvals of the modules it
\* lost are cancelled; that UPDATE waits for rows another handler has locked.
ReplaceCommit(h) ==
  LET ag == job[h].agent
      lost == {a \in Approvals : /\ status[a] = "pending"
                                 /\ AgentOf[request[a]] = ag
                                 /\ ModuleOf[request[a]] \notin job[h].mods}
  IN
  /\ At(h, "replace.commit")
  /\ \A a \in lost : Free(RowKey(a))
  /\ equipped' = {e \in equipped : e[1] # ag} \cup {<<ag, m>> : m \in job[h].mods}
  /\ CancelPending(lost)
  /\ Release(h)
  /\ Done(h)
  /\ UNCHANGED <<installed, request, ran>>

-----------------------------------------------------------------------------
(* installWorkspaceToolPackage and removeWorkspaceToolPackage.             *)

Install(m) ==
  /\ Free(PackageKey(m))
  /\ installed' = installed \cup {m}
  /\ UNCHANGED <<equipped, status, request, revision, lock, job, ran>>

StartRemove(h, m) ==
  /\ At(h, "idle")
  /\ Free(PackageKey(m))
  /\ m \in installed
  /\ Take(h, PackageKey(m))
  /\ job' = [job EXCEPT ![h] = [Idle EXCEPT !.pc = "remove.count", !.mods = {m}]]
  /\ UNCHANGED <<table, ran>>

RemoveCount(h) ==
  /\ At(h, "remove.count")
  /\ IF \E m \in job[h].mods : ExecutingOn(m) # {}
       THEN EndUnchanged(h)
       ELSE Goto(h, "remove.commit") /\ UNCHANGED <<table, lock, ran>>

RemoveCommit(h) ==
  /\ At(h, "remove.commit")
  /\ \E m \in job[h].mods :
       /\ \A a \in PendingOn(m) : Free(RowKey(a))
       /\ equipped' = {e \in equipped : e[2] # m}
       /\ CancelPending(PendingOn(m))
       /\ installed' = installed \ {m}
  /\ Release(h)
  /\ Done(h)
  /\ UNCHANGED <<request, ran>>

-----------------------------------------------------------------------------
\* A query throws, the connection breaks or the process stops.  An open
\* transaction rolls back; a claim already committed stays "executing".
Abandon(h) ==
  /\ ~At(h, "idle")
  /\ EndUnchanged(h)

Step(h) ==
  \/ RequestLock(h) \/ RequestGrant(h) \/ RequestFind(h) \/ RequestInsert(h)
  \/ DecideRead(h) \/ DecideClaim(h) \/ DecideCancel(h)
  \/ ExecuteCheck(h) \/ ExecuteRun(h) \/ ExecuteFinish(h)
  \/ ReplaceLock(h) \/ ReplaceCheck(h) \/ ReplaceCommit(h)
  \/ RemoveCount(h) \/ RemoveCommit(h)

Start(h) ==
  \/ \E r \in Requests : StartRequest(h, r)
  \/ \E a \in Approvals, approve \in BOOLEAN :
       \E rev \in 0 .. revision[a] : StartDecide(h, a, approve, rev)
  \/ \E ag \in Agents, S \in SUBSET Modules : StartReplace(h, ag, S)
  \/ \E m \in Modules : StartRemove(h, m)

Next ==
  \/ \E h \in Handlers : Start(h) \/ Step(h) \/ Abandon(h)
  \/ \E m \in Modules : Install(m)

Spec == Init /\ [][Next]_vars

\* A handler that has begun goes on: awaited queries answer, tools return,
\* and Postgres hands a contended lock to its waiters in turn.
FairSpec == Spec /\ \A h \in Handlers : SF_vars(Step(h))

-----------------------------------------------------------------------------
(* Properties.                                                             *)

Executing(h) == job[h].pc \in {"execute.check", "execute.run", "execute.finish"}

\* The tool of an approval runs at most once, and a run is always accounted
\* for by an approval that was claimed: denied, cancelled and undecided rows
\* never have a run, whichever handlers race (decideToolApproval's claim).
RunsAtMostOnce ==
  \A a \in Approvals :
    /\ ran[a] <= 1
    /\ ran[a] = 1 => status[a] \in {"executing", "succeeded", "failed"}

\* No two handlers ever act on the same claim.
OneExecutor ==
  \A g, h \in Handlers : Executing(g) /\ Executing(h) /\ job[g].row = job[h].row => g = h

\* An approval that can still run is for an add-on whose package is installed,
\* so a package is never removed under a waiting or executing action
\* (removeWorkspaceToolPackage against request and decide).
ActiveImpliesInstalled ==
  \A a \in Approvals : Active(a) => ModuleOf[request[a]] \in installed

\* An agent is never left equipped with a package that has been removed.
EquippedImpliesInstalled == \A e \in equipped : e[2] \in installed

\* A package outlives what depends on it, the approvals and the agents equipped with it,
\* however requests, decisions, selections and removals interleave.
InstalledWhileUsed == ActiveImpliesInstalled /\ EquippedImpliesInstalled

\* The insert of a request never meets the unique index of active requests:
\* the lock and lookup before it already made the second caller join the first.
InsertNeverConflicts ==
  \A h \in Handlers : At(h, "request.insert") =>
    ~\E a \in Approvals : Active(a) /\ request[a] = job[h].req

\* A decided approval is final, and a change of a row shows in its revision,
\* which is what the client's revision check relies on.
DecisionsAreFinal ==
  [][\A a \in Approvals :
       /\ status[a] \in Terminal => UNCHANGED <<status[a], revision[a], request[a]>>
       /\ status[a] \notin {"none", status'[a]} => revision'[a] = revision[a] + 1]_vars

\* No handler waits for ever on the locks of others: the package locks are
\* taken in one order (lockToolPackages sorts its keys).
HandlersEnd == \A h \in Handlers : ~At(h, "idle") ~> At(h, "idle")

\* While a handler runs a claimed tool nothing else moves the row, so its receipt
\* is always stored: "Approval execution receipt changed unexpectedly" never
\* happens (finishToolApproval against decisions, cancellations and removals).
ReceiptNeverStale ==
  \A h \in Handlers : Executing(h) =>
    status[job[h].row] = "executing" /\ revision[job[h].row] = job[h].rev

\* The permission each row stands for: one grant, one use.
Ticket ==
  [a \in Approvals |->
     CASE status[a] = "none" -> "free"
       [] status[a] = "pending" -> "asked"
       [] status[a] = "executing" -> IF ran[a] = 0 THEN "granted" ELSE "used"
       [] OTHER -> "closed"]

Permission == INSTANCE OneShotPermission WITH Tickets <- Approvals, ticket <- Ticket
ImplementsPermission == Permission!Spec
=============================================================================
