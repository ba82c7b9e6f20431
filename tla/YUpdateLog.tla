------------------------------ MODULE YUpdateLog ------------------------------
(***************************************************************************)
(* The append-only update log under a workspace's shared canvas document:  *)
(* server/collab/yUpdateLog.js over the compacted base of yStore.js, for   *)
(* one workspace.                                                          *)
(*                                                                         *)
(* A server process batches the updates it receives, pushes each batch on  *)
(* a promise chain, and the chain INSERTs one row at a time.  Compactions  *)
(* and reads run beside it; each of their queries is a step.  An update of *)
(* Yjs is the change it carries: merging updates, or applying them to a    *)
(* document, is the union of the changes.                                  *)
(*                                                                         *)
(* Not here: a stored schema version that differs from the code's, and the *)
(* age of rows, which only decides how long a prefix compaction folds.     *)
(***************************************************************************)
EXTENDS Naturals, Sequences, FiniteSets

CONSTANTS
  Processes,   \* server processes that share the room (through Redis)
  Actors,      \* who makes changes
  Compactors,  \* compactions that can be in flight
  Readers,     \* loads and rebuilds that can be in flight
  MaxRows,     \* rows kept: compaction folds the oldest rows beyond these
  MaxUpdates,  \* bound: changes ever made
  None

ASSUME BoundsAssumption == MaxRows \in Nat /\ MaxUpdates \in Nat
ASSUME JobsAssumption == Compactors \cap Readers = {}
ASSUME NoneAssumption == None \notin Actors \cup Processes

VARIABLES
  arrived,   \* changes received so far, by all processes
  pending,   \* per process: the batch being collected
  chain,     \* per process: batches whose INSERT has not settled, oldest first
  writing,   \* per process: the seq drawn by the INSERT in flight, or 0
  nextSeq,   \* the BIGSERIAL sequence of workspace_yjs_updates
  rows,      \* workspace_yjs_updates, committed
  base,      \* workspace_yjs_docs.yupdate
  baseSeq,   \* workspace_yjs_docs.compacted_seq, 0 while there is no row
  job,       \* where each compaction and each read is
  acked,     \* history: changes whose INSERT has committed
  failed     \* history: changes whose INSERT has failed

log == <<rows, nextSeq, acked, failed>>
batches == <<arrived, pending, chain, writing>>
vars == <<arrived, pending, chain, writing, nextSeq, rows, base, baseSeq, job, acked, failed>>

\* n is the order of arrival, at the process that received the change.
Updates == [n : 1 .. MaxUpdates, actor : Actors, at : Processes]
Batches == [ups : SUBSET Updates, actor : Actors]
Rows == [seq : Nat \ {0}, ups : SUBSET Updates, actor : Actors]
NoBatch == [ups |-> {}, actor |-> None]

Jobs == Compactors \cup Readers
PCs == {"idle", "flush", "base", "rows", "write", "delete", "done"}

\* doc is what has been applied so far, seq the compacted_seq read with the
\* base, cut the last seq folded; until is the point a rebuild asks for.
JobRecords ==
  [pc : PCs, at : Processes \cup {None}, wait : SUBSET Updates, doc : SUBSET Updates,
   seq : Nat, cut : Nat, until : Nat, flushed : BOOLEAN,
   mine : SUBSET Updates, start : SUBSET Updates]
Idle == [pc |-> "idle", at |-> None, wait |-> {}, doc |-> {}, seq |-> 0, cut |-> 0,
         until |-> 0, flushed |-> FALSE, mine |-> {}, start |-> {}]

TypeOK ==
  /\ arrived \in 0 .. MaxUpdates
  /\ pending \in [Processes -> Batches \cup {NoBatch}]
  /\ chain \in [Processes -> Seq(Batches)]
  /\ writing \in [Processes -> Nat]
  /\ nextSeq \in Nat \ {0}
  /\ rows \in SUBSET Rows
  /\ base \in SUBSET Updates
  /\ baseSeq \in Nat
  /\ job \in [Jobs -> JobRecords]
  /\ acked \in SUBSET Updates
  /\ failed \in SUBSET Updates

Init ==
  /\ arrived = 0
  /\ pending = [p \in Processes |-> NoBatch]
  /\ chain = [p \in Processes |-> << >>]
  /\ writing = [p \in Processes |-> 0]
  /\ nextSeq = 1
  /\ rows = {}
  /\ base = {}
  /\ baseSeq = 0
  /\ job = [j \in Jobs |-> Idle]
  /\ acked = {}
  /\ failed = {}

-----------------------------------------------------------------------------
(* Helpers.                                                                *)

Merged(R) == UNION {r.ups : r \in R}
After(seq) == {r \in rows : r.seq > seq}
Queued(p) == UNION {chain[p][i].ups : i \in DOMAIN chain[p]}

\* The board: the compacted base and every row after it.
Board == base \cup Merged(After(baseSeq))

At(j, pc) == job[j].pc = pc
Done(j) == job' = [job EXCEPT ![j] = Idle]

\* Mutant: the batch goes on its way without the actor it was collected for.
FlushOneNoActor(p) ==
  /\ pending' = [pending EXCEPT ![p] = NoBatch]
  /\ chain' = [chain EXCEPT ![p] = IF pending[p].ups = {} THEN @
                                   ELSE Append(@, [NoBatch EXCEPT !.ups = pending[p].ups])]

\* flushOne: the batch of p goes to the end of its chain.
FlushOne(p) ==
  /\ pending' = [pending EXCEPT ![p] = NoBatch]
  /\ chain' = [chain EXCEPT ![p] = IF pending[p].ups = {} THEN @ ELSE Append(@, pending[p])]

-----------------------------------------------------------------------------
(* append, and the writes of the chain.                                    *)

\* Mutant: a change joins the batch whoever made it.
AppendAnyActor(p, actor) ==
  LET u == [n |-> arrived + 1, actor |-> actor, at |-> p]
      batch == IF pending[p].ups = {} THEN [ups |-> {}, actor |-> actor] ELSE pending[p] IN
  /\ arrived < MaxUpdates
  /\ arrived' = arrived + 1
  /\ pending' = [pending EXCEPT ![p] = [batch EXCEPT !.ups = @ \cup {u}]]
  /\ UNCHANGED <<chain, writing, log, base, baseSeq, job>>

\* append: a change joins the batch of its actor, or first sends another
\* actor's batch on its way.
AppendUpdate(p, actor) ==
  LET u == [n |-> arrived + 1, actor |-> actor, at |-> p] IN
  /\ arrived < MaxUpdates
  /\ arrived' = arrived + 1
  /\ IF pending[p].ups # {} /\ pending[p].actor = actor
       THEN /\ pending' = [pending EXCEPT ![p].ups = @ \cup {u}]
            /\ UNCHANGED chain
       ELSE /\ pending' = [pending EXCEPT ![p] = [ups |-> {u}, actor |-> actor]]
            /\ chain' = [chain EXCEPT ![p] = IF pending[p].ups = {} THEN @
                                             ELSE Append(@, pending[p])]
  /\ UNCHANGED <<writing, log, base, baseSeq, job>>

\* The batch timer, a store pass, an unload or a shutdown flushes.
Flush(p) ==
  /\ pending[p].ups # {}
  /\ FlushOne(p)
  /\ UNCHANGED <<arrived, writing, log, base, baseSeq, job>>

\* The oldest batch's INSERT draws its seq ...
InsertStart(p) ==
  /\ chain[p] # << >>
  /\ writing[p] = 0
  /\ writing' = [writing EXCEPT ![p] = nextSeq]
  /\ nextSeq' = nextSeq + 1
  /\ UNCHANGED <<arrived, pending, chain, rows, base, baseSeq, job, acked, failed>>

\* Mutant: the chain writes its newest batch first.
InsertNewest(p) ==
  LET b == chain[p][Len(chain[p])] IN
  /\ writing[p] # 0
  /\ rows' = rows \cup {[seq |-> writing[p], ups |-> b.ups, actor |-> b.actor]}
  /\ acked' = acked \cup b.ups
  /\ chain' = [chain EXCEPT ![p] = SubSeq(@, 1, Len(@) - 1)]
  /\ writing' = [writing EXCEPT ![p] = 0]
  /\ UNCHANGED <<arrived, pending, nextSeq, base, baseSeq, job, failed>>

\* ... and its row becomes visible when it commits.
InsertCommit(p) ==
  LET b == Head(chain[p]) IN
  /\ writing[p] # 0
  /\ rows' = rows \cup {[seq |-> writing[p], ups |-> b.ups, actor |-> b.actor]}
  /\ acked' = acked \cup b.ups
  /\ chain' = [chain EXCEPT ![p] = Tail(@)]
  /\ writing' = [writing EXCEPT ![p] = 0]
  /\ UNCHANGED <<arrived, pending, nextSeq, base, baseSeq, job, failed>>

\* An INSERT that fails is logged and its batch dropped; the chain goes on.
InsertFail(p) ==
  /\ chain[p] # << >>
  /\ failed' = failed \cup Head(chain[p]).ups
  /\ chain' = [chain EXCEPT ![p] = Tail(@)]
  /\ writing' = [writing EXCEPT ![p] = 0]
  /\ UNCHANGED <<arrived, pending, nextSeq, rows, base, baseSeq, job, acked>>

-----------------------------------------------------------------------------
(* What compact, rebuild, entries and load share: flush, then two reads.   *)

\* Mutant: the batch being collected is left where it is.
FlushFirstOnlyChain(j, p, until) ==
  /\ job' = [job EXCEPT ![j] = [Idle EXCEPT
       !.pc = "flush", !.at = p, !.until = until, !.flushed = TRUE,
       !.wait = Queued(p), !.mine = Queued(p) \cup pending[p].ups, !.start = acked]]
  /\ UNCHANGED <<pending, chain>>

\* flush(workspaceId) is awaited first: the batch and the chain before it.
FlushFirst(j, p, until) ==
  LET mine == Queued(p) \cup pending[p].ups IN
  /\ job' = [job EXCEPT ![j] = [Idle EXCEPT
       !.pc = "flush", !.at = p, !.until = until, !.flushed = TRUE,
       !.wait = mine, !.mine = mine, !.start = acked]]
  /\ FlushOne(p)

StartCompact(c, p) ==
  /\ At(c, "idle")
  /\ FlushFirst(c, p, MaxUpdates)
  /\ UNCHANGED <<arrived, writing, log, base, baseSeq>>

\* rebuild, up to a seq; entries asks for everything.
StartRebuild(r, p, until) ==
  /\ At(r, "idle")
  /\ FlushFirst(r, p, until)
  /\ UNCHANGED <<arrived, writing, log, base, baseSeq>>

\* load does not flush.
StartLoad(r, p) ==
  /\ At(r, "idle")
  /\ job' = [job EXCEPT ![r] = [Idle EXCEPT !.pc = "base", !.at = p,
                                            !.until = MaxUpdates, !.start = acked]]
  /\ UNCHANGED <<batches, log, base, baseSeq>>

\* A batch that failed has settled too.
Flushed(j) ==
  /\ At(j, "flush")
  /\ job[j].wait \cap Queued(job[j].at) = {}
  /\ job' = [job EXCEPT ![j].pc = "base", ![j].wait = {}]
  /\ UNCHANGED <<batches, log, base, baseSeq>>

\* loadBase.  A rebuild of a point already folded returns null.
LoadBase(j) ==
  /\ At(j, "base")
  /\ job' = [job EXCEPT ![j] =
       IF job[j].until < baseSeq
         THEN Idle
         ELSE [@ EXCEPT !.pc = "rows", !.doc = base, !.seq = baseSeq]]
  /\ UNCHANGED <<batches, log, base, baseSeq>>

\* Mutant: a rebuild applies every row, also those after the point asked for.
ReadRowsAll(r) ==
  /\ r \in Readers
  /\ At(r, "rows")
  /\ job' = [job EXCEPT ![r].pc = "done", ![r].doc = @ \cup Merged(After(job[r].seq))]
  /\ UNCHANGED <<batches, log, base, baseSeq>>

\* readRows of a load or a rebuild.
ReadRows(r) ==
  /\ r \in Readers
  /\ At(r, "rows")
  /\ job' = [job EXCEPT ![r].pc = "done", ![r].doc =
       @ \cup Merged({x \in After(job[r].seq) : x.seq <= job[r].until})]
  /\ UNCHANGED <<batches, log, base, baseSeq>>

Return(r) ==
  /\ At(r, "done")
  /\ Done(r)
  /\ UNCHANGED <<batches, log, base, baseSeq>>

-----------------------------------------------------------------------------
(* The rest of compact.                                                    *)

\* readRows of a compaction, and the choice of the prefix to fold: everything
\* beyond the newest MaxRows, and on from there as far as the rows are old.
Fold(c) ==
  LET R == After(job[c].seq) IN
  /\ c \in Compactors
  /\ At(c, "rows")
  /\ \/ \E last \in R :
          /\ Cardinality({r \in R : r.seq > last.seq}) <= MaxRows
          /\ job' = [job EXCEPT ![c].pc = "write", ![c].cut = last.seq, ![c].doc =
               @ \cup Merged({r \in R : r.seq <= last.seq})]
     \/ Cardinality(R) <= MaxRows /\ Done(c)
  /\ UNCHANGED <<batches, log, base, baseSeq>>

\* writeBase, unless a newer compaction already landed.
WriteBase(c) ==
  /\ At(c, "write")
  /\ IF baseSeq <= job[c].cut
       THEN /\ base' = job[c].doc
            /\ baseSeq' = job[c].cut
            /\ job' = [job EXCEPT ![c].pc = "delete"]
       ELSE Done(c) /\ UNCHANGED <<base, baseSeq>>
  /\ UNCHANGED <<batches, log>>

\* Mutant: the whole log is deleted, not only what was folded.
DeleteAllRows(c) ==
  /\ At(c, "delete")
  /\ rows' = {}
  /\ Done(c)
  /\ UNCHANGED <<batches, nextSeq, acked, failed, base, baseSeq>>

DeleteRows(c) ==
  /\ At(c, "delete")
  /\ rows' = After(job[c].cut)
  /\ Done(c)
  /\ UNCHANGED <<batches, nextSeq, acked, failed, base, baseSeq>>

-----------------------------------------------------------------------------
\* A query of a compaction or a read throws; its caller logs it and goes on.
JobFail(j) ==
  /\ ~At(j, "idle")
  /\ Done(j)
  /\ UNCHANGED <<batches, log, base, baseSeq>>

\* A process stops: what it had not written is gone.  An INSERT in flight has
\* either committed before or never does.
Crash(p) ==
  /\ pending' = [pending EXCEPT ![p] = NoBatch]
  /\ chain' = [chain EXCEPT ![p] = << >>]
  /\ writing' = [writing EXCEPT ![p] = 0]
  /\ job' = [j \in Jobs |-> IF job[j].at = p THEN Idle ELSE job[j]]
  /\ UNCHANGED <<arrived, log, base, baseSeq>>

Next ==
  \/ \E p \in Processes :
       \/ \E actor \in Actors : AppendUpdate(p, actor)
       \/ Flush(p) \/ InsertStart(p) \/ InsertCommit(p) \/ InsertFail(p)
       \/ Crash(p)
       \/ \E c \in Compactors : StartCompact(c, p)
       \/ \E r \in Readers :
            StartLoad(r, p) \/ \E until \in 1 .. MaxUpdates : StartRebuild(r, p, until)
  \/ \E j \in Jobs :
       Flushed(j) \/ LoadBase(j) \/ ReadRows(j) \/ Return(j)
         \/ Fold(j) \/ WriteBase(j) \/ DeleteRows(j) \/ JobFail(j)

Spec == Init /\ [][Next]_vars

-----------------------------------------------------------------------------
(* Properties.                                                             *)

\* A change that was committed to the log stays on the board for good, whatever
\* compaction folds, replaces and deletes.
NothingLost == acked \subseteq Board

\* The rows of a process follow one another in the order its changes arrived
\* (the promise chain of enqueue), so a rebuild replays them in that order.
ArrivalOrder ==
  \A r, s \in rows : r.seq < s.seq =>
    \A u \in r.ups, v \in s.ups : u.at = v.at => u.n < v.n

\* A row holds the changes of the one actor it names (append's batches), which
\* is what the board's history shows as its author.
RowsAreOneActors == \A r \in rows : \A u \in r.ups : u.actor = r.actor

\* The log tells the board's history as it was: its rows replay in the order of the
\* changes, each under its own author's name, whatever batches and flushes overlap.
LogTellsHistory == ArrivalOrder /\ RowsAreOneActors

\* compacted_seq never goes back, whichever compactions race (writeBase).
BaseNeverGoesBack == [][baseSeq' >= baseSeq]_vars

\* What a read may see when no compaction landed between its two queries.
Quiet(r) == baseSeq = job[r].seq

\* A rebuild is the board as it stood at the seq asked for, and a load is all of
\* it: nothing committed before is missing, nothing later is in it.
RebuildIsExact ==
  \A r \in Readers : At(r, "done") /\ Quiet(r) =>
    /\ \A x \in rows : x.seq > baseSeq /\ x.ups \cap job[r].doc # {} => x.seq <= job[r].until
    /\ job[r].start \subseteq
         job[r].doc \cup Merged({x \in rows : x.seq > job[r].until})

\* The history list and a rebuild to now hold every change this process had
\* received when they were asked for, unless its INSERT failed (flush first).
HistoryHasMine ==
  \A r \in Readers : At(r, "done") /\ Quiet(r) /\ job[r].until = MaxUpdates =>
    job[r].mine \subseteq job[r].doc \cup failed

\* A read is the board of its moment: no more and no less than what was written by then,
\* what this process still had batched included.
ReadsAreExact == RebuildIsExact /\ HistoryHasMine

\* load returns the whole board (yUpdateLog.js, "Whole board as one update").
LoadIsWhole ==
  \A r \in Readers : At(r, "done") /\ ~job[r].flushed => job[r].start \subseteq job[r].doc
=============================================================================
