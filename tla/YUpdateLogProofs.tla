--------------------------- MODULE YUpdateLogProofs ---------------------------
(***************************************************************************)
(* Proofs about YUpdateLog.  What concerns the batches and the chains holds *)
(* for any number of processes, compactions and readers; that nothing is   *)
(* lost, and that a read is the board of its moment, is proved for one     *)
(* process that runs one compaction at a time; TLC refutes the first of    *)
(* them beyond that.                                                       *)
(***************************************************************************)
EXTENDS YUpdateLog, TLAPS

USE DEF At

\* Changes of S all arrived before those of T.
Before(S, T) == \A u \in S, v \in T : u.n < v.n

\* What p still has to write: one actor per batch, in the order of arrival.
Queue(p) ==
  /\ writing[p] # 0 => chain[p] # << >>
  /\ \A u \in pending[p].ups : u.actor = pending[p].actor /\ u.at = p /\ u.n <= arrived
  /\ \A i \in DOMAIN chain[p] :
       /\ \A u \in chain[p][i].ups : u.actor = chain[p][i].actor /\ u.at = p /\ u.n <= arrived
       /\ Before(chain[p][i].ups, pending[p].ups)
       /\ \A k \in DOMAIN chain[p] : i < k => Before(chain[p][i].ups, chain[p][k].ups)

\* What p has written came before what it still has to write.
Written(r) ==
  /\ r.seq < nextSeq
  /\ \A u \in r.ups :
       /\ u.actor = r.actor
       /\ u.n <= arrived
       /\ \A v \in pending[u.at].ups : u.n < v.n
       /\ \A i \in DOMAIN chain[u.at] : \A v \in chain[u.at][i].ups : u.n < v.n
       /\ writing[u.at] # 0 => r.seq < writing[u.at]

Ordered ==
  /\ \A p \in Processes : Queue(p) /\ writing[p] < nextSeq
  /\ \A r \in rows : Written(r)
  /\ ArrivalOrder

IInv == TypeOK /\ Ordered
-----------------------------------------------------------------------------
(* Helpers on sequences and batches.                                       *)

LEMMA AppendSeq ==
  ASSUME NEW S, NEW s \in Seq(S), NEW b \in S
  PROVE  /\ Append(s, b) \in Seq(S)
         /\ DOMAIN Append(s, b) = DOMAIN s \cup {Len(s) + 1}
         /\ \A i \in DOMAIN s : Append(s, b)[i] = s[i] /\ i < Len(s) + 1
         /\ Append(s, b)[Len(s) + 1] = b
OBVIOUS

LEMMA TailSeq ==
  ASSUME NEW S, NEW s \in Seq(S), s # << >>
  PROVE  /\ Tail(s) \in Seq(S)
         /\ Head(s) \in S /\ Head(s) = s[1] /\ 1 \in DOMAIN s
         /\ \A i \in DOMAIN Tail(s) : i + 1 \in DOMAIN s /\ Tail(s)[i] = s[i + 1] /\ i \in Nat /\ 1 < i + 1
OBVIOUS

LEMMA BatchTyped ==
  ASSUME TypeOK, NEW p \in Processes, pending[p].ups # {}
  PROVE  pending[p] \in Batches
BY DEF TypeOK, NoBatch

LEMMA UpsTyped ==
  ASSUME TypeOK, NEW p \in Processes
  PROVE  /\ pending[p].ups \in SUBSET Updates
         /\ \A i \in DOMAIN chain[p] : chain[p][i] \in Batches
         /\ Queued(p) \in SUBSET Updates
<1>1. pending[p].ups \in SUBSET Updates
  BY DEF TypeOK, NoBatch, Batches
<1>2. \A i \in DOMAIN chain[p] : chain[p][i] \in Batches
  BY DEF TypeOK
<1>3. Queued(p) \in SUBSET Updates
  BY <1>2 DEF Queued, Batches
<1> QED BY <1>1, <1>2, <1>3

LEMMA MergedTyped ==
  ASSUME TypeOK, NEW R \in SUBSET rows
  PROVE  Merged(R) \in SUBSET Updates
BY DEF TypeOK, Merged, Rows
-----------------------------------------------------------------------------
(* Types.                                                                  *)

LEMMA InitIInv == Init => IInv
BY BoundsAssumption
DEF Init, IInv, Ordered, TypeOK, Queue, ArrivalOrder, NoBatch, Idle, JobRecords, PCs, Before

LEMMA IdleTyped == Idle \in JobRecords
BY DEF Idle, JobRecords, PCs

\* The fields of a job, one by one.
LEMMA JobFields ==
  ASSUME TypeOK, NEW j \in Jobs
  PROVE  /\ job[j] \in JobRecords
         /\ job[j].doc \in SUBSET Updates
         /\ job[j].seq \in Nat /\ job[j].cut \in Nat /\ job[j].until \in Nat
BY DEF TypeOK, JobRecords

LEMMA FlushOneTyped ==
  ASSUME TypeOK, NEW p \in Processes, FlushOne(p)
  PROVE  /\ pending' \in [Processes -> Batches \cup {NoBatch}]
         /\ chain' \in [Processes -> Seq(Batches)]
<1>1. pending' \in [Processes -> Batches \cup {NoBatch}]
  BY DEF FlushOne, TypeOK
<1>2. CASE pending[p].ups = {}
  BY <1>1, <1>2 DEF FlushOne, TypeOK
<1>3. CASE pending[p].ups # {}
  <2>1. pending[p] \in Batches
    BY <1>3, BatchTyped
  <2>2. Append(chain[p], pending[p]) \in Seq(Batches)
    BY <2>1, AppendSeq DEF TypeOK
  <2> QED BY <1>1, <1>3, <2>2 DEF FlushOne, TypeOK
<1> QED BY <1>2, <1>3

LEMMA AppendTyped ==
  ASSUME TypeOK, NEW p \in Processes, NEW actor \in Actors, AppendUpdate(p, actor)
  PROVE  TypeOK'
<1> DEFINE u == [n |-> arrived + 1, actor |-> actor, at |-> p]
<1>1. arrived' \in 0 .. MaxUpdates /\ u \in Updates
  BY BoundsAssumption DEF AppendUpdate, TypeOK, Updates
<1>2. /\ UNCHANGED <<writing, nextSeq, rows, acked, failed, base, baseSeq, job>>
      /\ [ups |-> {u}, actor |-> actor] \in Batches
  BY <1>1 DEF AppendUpdate, log, Batches
<1>3. CASE pending[p].ups # {} /\ pending[p].actor = actor
  <2>1. pending[p] \in Batches
    BY <1>3, BatchTyped
  <2>2. [pending[p] EXCEPT !.ups = @ \cup {u}] \in Batches
    BY <1>1, <2>1 DEF Batches
  <2>3. pending' = [pending EXCEPT ![p] = [pending[p] EXCEPT !.ups = @ \cup {u}]] /\ chain' = chain
    BY <1>3 DEF AppendUpdate
  <2> QED BY <1>1, <1>2, <2>2, <2>3 DEF TypeOK
<1>4. CASE ~(pending[p].ups # {} /\ pending[p].actor = actor)
  <2>1. pending' \in [Processes -> Batches \cup {NoBatch}]
    BY <1>2, <1>4 DEF AppendUpdate, TypeOK
  <2>2. CASE pending[p].ups = {}
    BY <1>1, <1>2, <1>4, <2>1, <2>2 DEF AppendUpdate, TypeOK
  <2>3. CASE pending[p].ups # {}
    <3>1. Append(chain[p], pending[p]) \in Seq(Batches)
      BY <2>3, BatchTyped, AppendSeq DEF TypeOK
    <3> QED BY <1>1, <1>2, <1>4, <2>1, <2>3, <3>1 DEF AppendUpdate, TypeOK
  <2> QED BY <2>2, <2>3
<1> QED BY <1>3, <1>4

LEMMA InsertTyped ==
  ASSUME TypeOK, NEW p \in Processes, Queue(p),
         InsertStart(p) \/ InsertCommit(p) \/ InsertFail(p)
  PROVE  TypeOK'
<1>1. CASE InsertStart(p)
  BY <1>1 DEF InsertStart, TypeOK
<1>2. ASSUME chain[p] # << >>
      PROVE  Tail(chain[p]) \in Seq(Batches) /\ Head(chain[p]) \in Batches
  BY <1>2, TailSeq DEF TypeOK
<1>3. CASE InsertCommit(p)
  <2> DEFINE b == Head(chain[p])
  <2>1. b \in Batches /\ Tail(chain[p]) \in Seq(Batches) /\ writing[p] \in Nat \ {0}
    BY <1>2, <1>3 DEF InsertCommit, Queue, TypeOK
  <2>2. [seq |-> writing[p], ups |-> b.ups, actor |-> b.actor] \in Rows /\ b.ups \in SUBSET Updates
    BY <2>1 DEF Rows, Batches
  <2> QED BY <1>3, <2>1, <2>2 DEF InsertCommit, TypeOK
<1>4. CASE InsertFail(p)
  <2>1. Head(chain[p]).ups \in SUBSET Updates
    BY <1>2, <1>4 DEF InsertFail, Batches
  <2> QED BY <1>2, <1>4, <2>1 DEF InsertFail, TypeOK
<1> QED BY <1>1, <1>3, <1>4

LEMMA StartTyped ==
  ASSUME TypeOK, NEW p \in Processes, NEW j \in Jobs, NEW until \in 1 .. MaxUpdates \cup {MaxUpdates},
         StartCompact(j, p) \/ StartRebuild(j, p, until) \/ StartLoad(j, p)
  PROVE  TypeOK'
<1>1. ASSUME NEW t \in Nat, FlushFirst(j, p, t) PROVE job' \in [Jobs -> JobRecords]
  <2> DEFINE mine == Queued(p) \cup pending[p].ups
  <2>1. mine \in SUBSET Updates
    BY UpsTyped
  <2>2. [Idle EXCEPT !.pc = "flush", !.at = p, !.until = t, !.flushed = TRUE,
                     !.wait = mine, !.mine = mine, !.start = acked] \in JobRecords
    BY <2>1 DEF Idle, JobRecords, PCs, TypeOK
  <2> QED BY <1>1, <2>2 DEF FlushFirst, TypeOK
<1>2. until \in Nat /\ MaxUpdates \in Nat
  BY BoundsAssumption
<1>3. CASE StartCompact(j, p) \/ StartRebuild(j, p, until)
  <2>1. job' \in [Jobs -> JobRecords] /\ FlushOne(p)
    BY <1>1, <1>2, <1>3 DEF StartCompact, StartRebuild, FlushFirst
  <2> QED BY <1>3, <2>1, FlushOneTyped DEF StartCompact, StartRebuild, TypeOK, log
<1>4. CASE StartLoad(j, p)
  <2>1. [Idle EXCEPT !.pc = "base", !.at = p, !.until = MaxUpdates, !.start = acked] \in JobRecords
    BY <1>2 DEF Idle, JobRecords, PCs, TypeOK
  <2> QED BY <1>4, <2>1 DEF StartLoad, TypeOK, log, batches
<1> QED BY <1>3, <1>4

JobStep(j) ==
  Flushed(j) \/ LoadBase(j) \/ ReadRows(j) \/ Return(j)
    \/ Fold(j) \/ WriteBase(j) \/ DeleteRows(j) \/ JobFail(j)

LEMMA JobStepTyped ==
  ASSUME TypeOK, NEW j \in Jobs, JobStep(j)
  PROVE  TypeOK'
<1> USE IdleTyped, JobFields
<1>0. Done(j) => job' \in [Jobs -> JobRecords]
  BY DEF Done, TypeOK
<1>1. CASE Flushed(j)
  <2>1. [job[j] EXCEPT !.pc = "base", !.wait = {}] \in JobRecords
    BY DEF JobRecords, PCs
  <2>2. job' = [job EXCEPT ![j] = [job[j] EXCEPT !.pc = "base", !.wait = {}]]
    BY <1>1 DEF Flushed, TypeOK
  <2> QED BY <1>1, <2>1, <2>2 DEF Flushed, TypeOK, log, batches
<1>2. CASE LoadBase(j)
  <2>1. [job[j] EXCEPT !.pc = "rows", !.doc = base, !.seq = baseSeq] \in JobRecords
    BY DEF JobRecords, PCs, TypeOK
  <2>2. job' \in [Jobs -> JobRecords]
    BY <1>2, <2>1 DEF LoadBase, TypeOK
  <2> QED BY <1>2, <2>2 DEF LoadBase, TypeOK, log, batches
<1>3. CASE ReadRows(j)
  <2> DEFINE R == {x \in After(job[j].seq) : x.seq <= job[j].until}
             doc == job[j].doc \cup Merged(R)
  <2>1. R \in SUBSET rows
    BY DEF After
  <2>2. doc \in SUBSET Updates
    BY <2>1, MergedTyped
  <2> HIDE DEF doc
  <2>3. [job[j] EXCEPT !.pc = "done", !.doc = doc] \in JobRecords
    BY <2>2 DEF JobRecords, PCs
  <2>4. job' = [job EXCEPT ![j] = [job[j] EXCEPT !.pc = "done", !.doc = doc]]
    BY <1>3 DEF ReadRows, TypeOK, doc
  <2> QED BY <1>3, <2>3, <2>4 DEF ReadRows, TypeOK, log, batches
<1>4. CASE Return(j) \/ JobFail(j)
  BY <1>0, <1>4 DEF Return, JobFail, TypeOK, log, batches
<1>5. CASE Fold(j)
  <2>1. CASE Done(j)
    BY <1>0, <1>5, <2>1 DEF Fold, TypeOK, log, batches
  <2>2. CASE ~Done(j)
    <3> DEFINE R == After(job[j].seq)
               doc(last) == job[j].doc \cup Merged({r \in R : r.seq <= last.seq})
    <3>1. PICK last \in R : job' = [job EXCEPT ![j].pc = "write", ![j].cut = last.seq, ![j].doc = doc(last)]
      BY <1>5, <2>2 DEF Fold
    <3>2. doc(last) \in SUBSET Updates
      BY MergedTyped DEF After
    <3>3. last.seq \in Nat
      BY DEF After, TypeOK, Rows
    <3> HIDE DEF doc
    <3>4. [job[j] EXCEPT !.pc = "write", !.cut = last.seq, !.doc = doc(last)] \in JobRecords
      BY <3>2, <3>3 DEF JobRecords, PCs
    <3>5. job' = [job EXCEPT ![j] = [job[j] EXCEPT !.pc = "write", !.cut = last.seq, !.doc = doc(last)]]
      BY <3>1 DEF TypeOK
    <3> QED BY <1>5, <3>4, <3>5 DEF Fold, TypeOK, log, batches
  <2> QED BY <2>1, <2>2
<1>6. CASE WriteBase(j)
  <2>1. [job[j] EXCEPT !.pc = "delete"] \in JobRecords
    BY DEF JobRecords, PCs
  <2>2. job' \in [Jobs -> JobRecords]
    BY <1>0, <1>6, <2>1 DEF WriteBase, TypeOK
  <2> QED BY <1>6, <2>2 DEF WriteBase, TypeOK, log, batches
<1>7. CASE DeleteRows(j)
  BY <1>0, <1>7 DEF DeleteRows, TypeOK, After, batches
<1> QED BY <1>1, <1>2, <1>3, <1>4, <1>5, <1>6, <1>7 DEF JobStep

LEMMA CrashTyped ==
  ASSUME TypeOK, NEW p \in Processes, Crash(p)
  PROVE  TypeOK'
BY IdleTyped DEF Crash, TypeOK, log
-----------------------------------------------------------------------------
(* Order.                                                                  *)

\* Steps that write no row and move no batch.
LEMMA QuietOrdered ==
  ASSUME IInv, UNCHANGED <<batches, nextSeq>>, rows' \subseteq rows
  PROVE  Ordered'
<1>1. UNCHANGED <<arrived, pending, chain, writing, nextSeq>>
  BY DEF batches
<1> QED BY <1>1 DEF IInv, Ordered, Queue, Written, ArrivalOrder, Before

LEMMA NumbersTyped ==
  ASSUME TypeOK
  PROVE  /\ arrived \in Nat
         /\ \A p \in Processes : \A u \in pending[p].ups : u.n \in Nat /\ u.at \in Processes
         /\ \A p \in Processes : \A i \in DOMAIN chain[p] : \A u \in chain[p][i].ups : u.n \in Nat
         /\ \A r \in rows : \A u \in r.ups : u.n \in Nat /\ u.at \in Processes
<1>1. \A U \in SUBSET Updates : \A u \in U : u.n \in Nat /\ u.at \in Processes
  BY DEF Updates
<1>2. arrived \in Nat
  BY DEF TypeOK
<1>3. \A r \in rows : r.ups \in SUBSET Updates
  BY DEF TypeOK, Rows
<1>4. \A p \in Processes : pending[p].ups \in SUBSET Updates
  BY UpsTyped
<1>5. \A p \in Processes : \A i \in DOMAIN chain[p] : chain[p][i].ups \in SUBSET Updates
  BY UpsTyped DEF Batches
<1> QED BY <1>1, <1>2, <1>3, <1>4, <1>5

\* The batch of p goes to the end of its chain, and a batch of changes that
\* have just arrived, if any, takes its place.
LEMMA MoveOrdered ==
  ASSUME IInv, NEW p \in Processes, NEW new,
         pending' = [pending EXCEPT ![p] = new],
         chain' = [chain EXCEPT ![p] = IF pending[p].ups = {} THEN @ ELSE Append(@, pending[p])],
         UNCHANGED <<writing, rows, nextSeq>>,
         arrived' \in Nat, arrived <= arrived',
         \A u \in new.ups : u.actor = new.actor /\ u.at = p /\ u.n \in Nat
                             /\ arrived < u.n /\ u.n <= arrived'
  PROVE  Ordered'
<1>0. /\ pending'[p] = new
      /\ \A q \in Processes \ {p} : chain'[q] = chain[q] /\ pending'[q] = pending[q]
      /\ DOMAIN chain'[p] \in SUBSET Nat
  BY DEF IInv, TypeOK
<1> USE NumbersTyped
<1>1. CASE pending[p].ups = {}
  <2>1. chain' = chain
    BY <1>1 DEF IInv, TypeOK
  <2>2. ASSUME NEW q \in Processes PROVE Queue(q)'
    <3>1. Queue(q) /\ arrived \in Nat
      BY DEF IInv, Ordered
    <3>2. \A i \in DOMAIN chain[q] : \A u \in chain[q][i].ups : u.n \in Nat /\ u.n <= arrived
      BY <3>1 DEF IInv, Queue
    <3>3. CASE q = p
      BY <1>0, <2>1, <3>1, <3>2, <3>3 DEF Queue, Before
    <3>4. CASE q # p
      BY <1>0, <2>1, <3>1, <3>4 DEF IInv, Queue, Before
    <3> QED BY <3>3, <3>4
  <2>3. \A r \in rows' : Written(r)'
    <3> SUFFICES ASSUME NEW r \in rows PROVE Written(r)'
      OBVIOUS
    <3>1. Written(r) /\ \A u \in r.ups : u.at \in Processes /\ u.n \in Nat
      BY DEF IInv, Ordered
    <3>0. arrived \in Nat
      BY DEF IInv
    <3>2. \A u \in r.ups : u.n <= arrived /\ u.n <= arrived'
      BY <3>0, <3>1 DEF Written
    <3>3. \A u \in r.ups : \A v \in pending'[u.at].ups : u.n < v.n
      <4> SUFFICES ASSUME NEW u \in r.ups, NEW v \in pending'[u.at].ups PROVE u.n < v.n
        OBVIOUS
      <4>1. CASE u.at = p
        BY <1>0, <3>0, <3>1, <3>2, <4>1
      <4>2. CASE u.at # p
        BY <1>0, <3>1, <4>2 DEF Written
      <4> QED BY <4>1, <4>2
    <3> QED BY <2>1, <3>1, <3>2, <3>3 DEF Written
  <2> QED BY <2>2, <2>3 DEF IInv, Ordered, ArrivalOrder
<1>2. CASE pending[p].ups # {}
  <2> DEFINE s == chain[p]
             b == pending[p]
  <2>1. b \in Batches /\ s \in Seq(Batches)
    BY <1>2, BatchTyped DEF IInv, TypeOK
  <2>2. /\ DOMAIN Append(s, b) = DOMAIN s \cup {Len(s) + 1}
        /\ \A i \in DOMAIN s : Append(s, b)[i] = s[i] /\ i < Len(s) + 1
        /\ Append(s, b)[Len(s) + 1] = b
        /\ Append(s, b) # << >>
        /\ DOMAIN s = 1 .. Len(s) /\ Len(s) \in Nat
    BY <2>1, AppendSeq
  <2>4. chain'[p] = Append(s, b)
    BY <1>2 DEF IInv, TypeOK
  <2>3. /\ \A u \in b.ups : u.n \in Nat /\ u.n <= arrived /\ u.actor = b.actor /\ u.at = p
        /\ \A i \in DOMAIN s : \A u \in s[i].ups :
             u.n \in Nat /\ u.n <= arrived /\ u.actor = s[i].actor /\ u.at = p
    BY DEF IInv, Ordered, Queue
  <2>30. \A i \in DOMAIN s : \A k \in DOMAIN s : i < k => Before(s[i].ups, s[k].ups)
    BY DEF IInv, Ordered, Queue
  <2>31. \A i \in DOMAIN s : Before(s[i].ups, b.ups)
    BY DEF IInv, Ordered, Queue
  <2> HIDE DEF s, b
  <2>5. Queue(p)'
    <3>1. /\ writing'[p] # 0 => chain'[p] # << >>
          /\ \A u \in pending'[p].ups : u.actor = pending'[p].actor /\ u.at = p /\ u.n <= arrived'
      BY <1>0, <2>2, <2>4
    <3>2. arrived \in Nat
      BY DEF IInv
    <3>4. ASSUME NEW i \in DOMAIN chain'[p]
          PROVE  /\ \A u \in chain'[p][i].ups : u.actor = chain'[p][i].actor /\ u.at = p /\ u.n <= arrived'
                 /\ Before(chain'[p][i].ups, pending'[p].ups)
      <4>1. CASE i \in DOMAIN s
        BY <1>0, <2>2, <2>3, <2>4, <3>2, <4>1 DEF Before
      <4>2. CASE i = Len(s) + 1
        BY <1>0, <2>2, <2>3, <2>4, <3>2, <4>2 DEF Before
      <4> QED BY <2>2, <2>4, <4>1, <4>2
    <3>5. ASSUME NEW i \in DOMAIN chain'[p], NEW k \in DOMAIN chain'[p], i < k
          PROVE  Before(chain'[p][i].ups, chain'[p][k].ups)
      <4>1. i \in DOMAIN s /\ (k \in DOMAIN s \/ k = Len(s) + 1)
        BY <2>2, <2>4, <3>5
      <4> QED BY <2>2, <2>4, <2>30, <2>31, <3>5, <4>1
    <3> QED BY <3>1, <3>4, <3>5 DEF Queue, Before
  <2>6. ASSUME NEW q \in Processes PROVE Queue(q)'
    <3>1. CASE q = p
      BY <2>5, <3>1
    <3>2. CASE q # p
      <4>1. arrived \in Nat /\ Queue(q)
        BY DEF IInv, Ordered
      <4> QED BY <1>0, <3>2, <4>1 DEF IInv, Queue, Before
    <3> QED BY <3>1, <3>2
  <2>8. ASSUME NEW r \in rows PROVE Written(r)'
    <3>1. Written(r) /\ \A u \in r.ups : u.at \in Processes /\ u.n \in Nat
      BY DEF IInv, Ordered
    <3>2. ASSUME NEW u \in r.ups
          PROVE  /\ \A v \in pending'[u.at].ups : u.n < v.n
                 /\ \A i \in DOMAIN chain'[u.at] : \A v \in chain'[u.at][i].ups : u.n < v.n
      <4>0. arrived \in Nat /\ u.n \in Nat /\ u.n <= arrived
        BY <3>1 DEF IInv, Written
      <4>1. CASE u.at = p
        <5>1. \A v \in pending'[u.at].ups : u.n < v.n
          BY <1>0, <4>0, <4>1
        <5>2. \A v \in b.ups : u.n < v.n
          BY <3>1, <4>1 DEF Written, b
        <5>3. \A i \in DOMAIN s : \A v \in s[i].ups : u.n < v.n
          BY <3>1, <4>1 DEF Written, s
        <5> QED BY <2>2, <2>4, <4>1, <5>1, <5>2, <5>3
      <4>2. CASE u.at # p
        BY <1>0, <3>1, <4>2 DEF Written
      <4> QED BY <4>1, <4>2
    <3>3. \A u \in r.ups : u.n <= arrived'
      BY <3>1 DEF Written, IInv
    <3> QED BY <3>1, <3>2, <3>3 DEF Written
  <2>9. \A r \in rows' : Written(r)'
    BY <2>8
  <2> QED BY <2>6, <2>9 DEF IInv, Ordered, ArrivalOrder
<1> QED BY <1>1, <1>2

LEMMA FlushOneOrdered ==
  ASSUME IInv, NEW p \in Processes, FlushOne(p), UNCHANGED <<arrived, writing, rows, nextSeq>>
  PROVE  Ordered'
<1>1. arrived \in Nat /\ NoBatch.ups = {}
  BY DEF IInv, TypeOK, NoBatch
<1>2. arrived' \in Nat /\ arrived <= arrived'
  BY <1>1
<1>3. /\ pending' = [pending EXCEPT ![p] = NoBatch]
      /\ chain' = [chain EXCEPT ![p] = IF pending[p].ups = {} THEN @ ELSE Append(@, pending[p])]
  BY DEF FlushOne
<1> QED BY <1>1, <1>2, <1>3, MoveOrdered

LEMMA AppendOrdered ==
  ASSUME IInv, NEW p \in Processes, NEW actor \in Actors, AppendUpdate(p, actor)
  PROVE  Ordered'
<1> USE NumbersTyped
<1> DEFINE u == [n |-> arrived + 1, actor |-> actor, at |-> p]
<1>1. /\ UNCHANGED <<writing, rows, nextSeq>> /\ arrived \in Nat
      /\ arrived' = arrived + 1 /\ u.n = arrived + 1 /\ u.actor = actor /\ u.at = p
  BY DEF AppendUpdate, log, IInv
<1>2. CASE ~(pending[p].ups # {} /\ pending[p].actor = actor)
  <2> DEFINE new == [ups |-> {u}, actor |-> actor]
  <2>1. \A v \in new.ups : v.actor = new.actor /\ v.at = p /\ v.n \in Nat /\ arrived < v.n /\ v.n <= arrived'
    BY <1>1
  <2>2. /\ pending' = [pending EXCEPT ![p] = new]
        /\ chain' = [chain EXCEPT ![p] = IF pending[p].ups = {} THEN @ ELSE Append(@, pending[p])]
    BY <1>2 DEF AppendUpdate
  <2>3. arrived' \in Nat /\ arrived <= arrived'
    BY <1>1
  <2> HIDE DEF new
  <2> QED BY <1>1, <2>1, <2>2, <2>3, MoveOrdered
<1>3. CASE pending[p].ups # {} /\ pending[p].actor = actor
  <2>1. /\ chain' = chain
        /\ pending'[p].ups = pending[p].ups \cup {u} /\ pending'[p].actor = actor
        /\ \A q \in Processes \ {p} : pending'[q] = pending[q]
    <3>1. pending' = [pending EXCEPT ![p] = [pending[p] EXCEPT !.ups = @ \cup {u}]] /\ chain' = chain
      BY <1>3 DEF AppendUpdate
    <3>2. pending[p] \in Batches
      BY <1>3, BatchTyped DEF IInv
    <3> HIDE DEF u
    <3>3. /\ [pending[p] EXCEPT !.ups = @ \cup {u}].ups = pending[p].ups \cup {u}
          /\ [pending[p] EXCEPT !.ups = @ \cup {u}].actor = actor
      BY <1>3, <3>2 DEF Batches
    <3> QED BY <3>1, <3>3 DEF IInv, TypeOK
  <2> HIDE DEF u
  <2>2. ASSUME NEW q \in Processes PROVE Queue(q)'
    <3>1. Queue(q)
      BY DEF IInv, Ordered
    <3>2. /\ \A i \in DOMAIN chain[q] : \A v \in chain[q][i].ups : v.n \in Nat /\ v.n <= arrived
          /\ \A v \in pending[q].ups : v.n \in Nat /\ v.n <= arrived
      BY <3>1 DEF IInv, Queue
    <3>3. CASE q = p
      <4>1. \A v \in pending'[p].ups : v.actor = pending'[p].actor /\ v.at = p /\ v.n <= arrived'
        BY <1>1, <1>3, <2>1, <3>1, <3>2, <3>3 DEF Queue
      <4>2. \A i \in DOMAIN chain[q] : Before(chain[q][i].ups, pending'[q].ups)
        BY <1>1, <2>1, <3>1, <3>2, <3>3 DEF Queue, Before
      <4>3. \A i \in DOMAIN chain[q] :
              /\ \A v \in chain[q][i].ups : v.actor = chain[q][i].actor /\ v.at = q /\ v.n <= arrived'
              /\ \A k \in DOMAIN chain[q] : i < k => Before(chain[q][i].ups, chain[q][k].ups)
        BY <1>1, <3>1, <3>2 DEF Queue
      <4> QED BY <1>1, <2>1, <3>1, <3>3, <4>1, <4>2, <4>3 DEF Queue, Before
    <3>4. CASE q # p
      BY <1>1, <2>1, <3>1, <3>2, <3>4 DEF Queue, Before
    <3> QED BY <3>3, <3>4
  <2>3. ASSUME NEW r \in rows PROVE Written(r)'
    <3>1. Written(r) /\ \A v \in r.ups : v.at \in Processes /\ v.n \in Nat
      BY DEF IInv, Ordered
    <3>2. \A v \in r.ups : v.n <= arrived /\ \A w \in pending'[v.at].ups : v.n < w.n
      BY <1>1, <2>1, <3>1 DEF Written
    <3> QED BY <1>1, <2>1, <3>1, <3>2 DEF Written
  <2>4. \A r \in rows' : Written(r)'
    BY <1>1, <2>3
  <2> QED BY <1>1, <2>2, <2>4 DEF IInv, Ordered, ArrivalOrder
<1> QED BY <1>2, <1>3

\* A chain that loses its first batch, or all of them, keeps its order.
LEMMA TailQueue ==
  ASSUME IInv, NEW p \in Processes, chain[p] # << >>
  PROVE  LET t == Tail(chain[p]) IN
         /\ \A i \in DOMAIN t :
              /\ \A u \in t[i].ups : u.actor = t[i].actor /\ u.at = p /\ u.n <= arrived
              /\ Before(t[i].ups, pending[p].ups)
              /\ Before(Head(chain[p]).ups, t[i].ups)
              /\ \A k \in DOMAIN t : i < k => Before(t[i].ups, t[k].ups)
         /\ \A u \in Head(chain[p]).ups : u.actor = Head(chain[p]).actor /\ u.at = p /\ u.n <= arrived
         /\ Before(Head(chain[p]).ups, pending[p].ups)
<1> DEFINE s == chain[p]
           t == Tail(s)
<1>1. s \in Seq(Batches) /\ Queue(p)
  BY DEF IInv, TypeOK, Ordered
<1>2. /\ Head(s) = s[1] /\ 1 \in DOMAIN s
      /\ \A i \in DOMAIN t : i + 1 \in DOMAIN s /\ t[i] = s[i + 1] /\ i \in Nat /\ 1 < i + 1
  BY <1>1, TailSeq
<1>3. /\ \A i \in DOMAIN s :
           /\ \A u \in s[i].ups : u.actor = s[i].actor /\ u.at = p /\ u.n <= arrived
           /\ Before(s[i].ups, pending[p].ups)
           /\ \A k \in DOMAIN s : i < k => Before(s[i].ups, s[k].ups)
  BY <1>1 DEF Queue
<1> HIDE DEF s, t
<1>4. \A i \in DOMAIN t : \A k \in DOMAIN t : i < k => Before(t[i].ups, t[k].ups)
  BY <1>2, <1>3
<1>5. \A i \in DOMAIN t : Before(Head(s).ups, t[i].ups)
  BY <1>2, <1>3
<1> QED BY <1>2, <1>3, <1>4, <1>5 DEF s, t

LEMMA InsertOrdered ==
  ASSUME IInv, NEW p \in Processes, InsertStart(p) \/ InsertCommit(p) \/ InsertFail(p)
  PROVE  Ordered'
<1> USE NumbersTyped
<1>0. /\ nextSeq \in Nat /\ \A q \in Processes : writing[q] \in Nat
      /\ \A r \in rows : r.seq \in Nat
  BY DEF IInv, TypeOK, Rows
<1>1. CASE InsertStart(p)
  <2>1. /\ UNCHANGED <<arrived, pending, chain, rows>> /\ nextSeq' = nextSeq + 1
        /\ chain[p] # << >> /\ writing'[p] = nextSeq
        /\ \A q \in Processes \ {p} : writing'[q] = writing[q]
    BY <1>1 DEF InsertStart, IInv, TypeOK
  <2>2. ASSUME NEW q \in Processes PROVE Queue(q)' /\ writing'[q] < nextSeq'
    <3>1. Queue(q) /\ writing[q] < nextSeq
      BY DEF IInv, Ordered
    <3>2. (writing'[q] # 0 => chain'[q] # << >>) /\ writing'[q] < nextSeq'
      BY <1>0, <2>1, <3>1 DEF Queue
    <3> QED BY <2>1, <3>1, <3>2 DEF Queue, Before
  <2>3. ASSUME NEW r \in rows PROVE Written(r)'
    <3>1. Written(r) /\ r.seq \in Nat /\ \A u \in r.ups : u.at \in Processes
      BY <1>0 DEF IInv, Ordered
    <3>2. r.seq < nextSeq' /\ \A u \in r.ups : writing'[u.at] # 0 => r.seq < writing'[u.at]
      BY <1>0, <2>1, <3>1 DEF Written
    <3> QED BY <2>1, <3>1, <3>2 DEF Written
  <2>4. \A r \in rows' : Written(r)'
    BY <2>1, <2>3
  <2> QED BY <2>1, <2>2, <2>4 DEF IInv, Ordered, ArrivalOrder
<1> DEFINE b == Head(chain[p])
           t == Tail(chain[p])
\* What the chain looks like once its first batch has settled.
<1>2. ASSUME UNCHANGED <<arrived, pending, nextSeq>>, chain[p] # << >>,
             chain' = [chain EXCEPT ![p] = t], writing' = [writing EXCEPT ![p] = 0]
      PROVE  /\ \A q \in Processes : Queue(q)' /\ writing'[q] < nextSeq'
             /\ \A r \in rows : Written(r)'
  <2>1. /\ chain'[p] = t /\ writing'[p] = 0
        /\ \A q \in Processes \ {p} : chain'[q] = chain[q] /\ writing'[q] = writing[q]
    BY <1>2 DEF IInv, TypeOK
  <2>2. chain[p] \in Seq(Batches) /\ Queue(p) /\ writing[p] < nextSeq
    BY DEF IInv, TypeOK, Ordered
  <2>3. /\ \A i \in DOMAIN t : i + 1 \in DOMAIN chain[p] /\ t[i] = chain[p][i + 1]
    BY <1>2, <2>2, TailSeq
  <2>4. /\ \A i \in DOMAIN t :
             /\ \A u \in t[i].ups : u.actor = t[i].actor /\ u.at = p /\ u.n <= arrived
             /\ Before(t[i].ups, pending[p].ups)
             /\ \A k \in DOMAIN t : i < k => Before(t[i].ups, t[k].ups)
    BY <1>2, TailQueue
  <2> HIDE DEF t
  <2>5. ASSUME NEW q \in Processes PROVE Queue(q)' /\ writing'[q] < nextSeq'
    <3>1. Queue(q) /\ writing[q] < nextSeq
      BY DEF IInv, Ordered
    <3>2. CASE q = p
      BY <1>0, <1>2, <2>1, <2>4, <3>1, <3>2 DEF Queue, Before
    <3>3. CASE q # p
      BY <1>2, <2>1, <3>1, <3>3 DEF Queue, Before
    <3> QED BY <3>2, <3>3
  <2>6. ASSUME NEW r \in rows PROVE Written(r)'
    <3>1. Written(r) /\ \A u \in r.ups : u.at \in Processes
      BY DEF IInv, Ordered
    <3>2. \A u \in r.ups : \A i \in DOMAIN chain'[u.at] : \A v \in chain'[u.at][i].ups : u.n < v.n
      <4> SUFFICES ASSUME NEW u \in r.ups, NEW i \in DOMAIN chain'[u.at], NEW v \in chain'[u.at][i].ups
                   PROVE  u.n < v.n
        OBVIOUS
      <4>1. CASE u.at = p
        BY <2>1, <2>3, <3>1, <4>1 DEF Written
      <4>2. CASE u.at # p
        BY <2>1, <3>1, <4>2 DEF Written
      <4> QED BY <4>1, <4>2
    <3>3. \A u \in r.ups : writing'[u.at] # 0 => r.seq < writing'[u.at]
      BY <2>1, <3>1 DEF Written
    <3> QED BY <1>2, <3>1, <3>2, <3>3 DEF Written
  <2> QED BY <2>5, <2>6
<1>3. CASE InsertFail(p)
  <2>1. \A r \in rows' : Written(r)'
    BY <1>2, <1>3 DEF InsertFail
  <2> QED BY <1>2, <1>3, <2>1 DEF InsertFail, IInv, Ordered, ArrivalOrder
<1>4. CASE InsertCommit(p)
  \* A name that a prime leaves alone.
  <2>00. PICK new : new = [seq |-> writing[p], ups |-> b.ups, actor |-> b.actor]
    OBVIOUS
  <2>0. chain[p] # << >> /\ writing[p] < nextSeq /\ writing[p] # 0
    BY <1>4 DEF InsertCommit, IInv, Ordered, Queue
  <2>1. /\ \A q \in Processes : Queue(q)' /\ writing'[q] < nextSeq'
        /\ \A r \in rows : Written(r)'
        /\ rows' = rows \cup {new}
        /\ chain'[p] = t /\ writing'[p] = 0 /\ UNCHANGED <<arrived, pending, nextSeq>>
    <3>1. /\ UNCHANGED <<arrived, pending, nextSeq>> /\ rows' = rows \cup {new}
          /\ chain' = [chain EXCEPT ![p] = t] /\ writing' = [writing EXCEPT ![p] = 0]
      BY <1>4, <2>00 DEF InsertCommit
    <3>2. chain'[p] = t /\ writing'[p] = 0
      BY <3>1 DEF IInv, TypeOK
    <3> HIDE DEF t
    <3> QED BY <1>2, <2>0, <3>1, <3>2 DEF t
  <2>2. /\ \A i \in DOMAIN t : Before(b.ups, t[i].ups)
        /\ \A u \in b.ups : u.actor = b.actor /\ u.at = p /\ u.n <= arrived
        /\ Before(b.ups, pending[p].ups)
    BY <2>0, TailQueue
  <2>3. /\ \A r \in rows : \A u \in r.ups : u.at = p =>
             /\ r.seq < writing[p]
             /\ \A v \in b.ups : u.n < v.n
    <3>1. 1 \in DOMAIN chain[p] /\ b = chain[p][1]
      BY <2>0, TailSeq DEF IInv, TypeOK
    <3> HIDE DEF b
    <3> QED BY <2>0, <3>1 DEF IInv, Ordered, Written
  <2> HIDE DEF b, t
  <2>4. Written(new)'
    BY <2>00, <2>0, <2>1, <2>2 DEF Written, Before
  <2>5. ArrivalOrder'
    <3> SUFFICES ASSUME NEW r \in rows \cup {new}, NEW s \in rows \cup {new}, r.seq < s.seq,
                        NEW u \in r.ups, NEW v \in s.ups, u.at = v.at
                 PROVE  u.n < v.n
      BY <2>1 DEF ArrivalOrder
    <3>1. CASE r \in rows /\ s \in rows
      BY <3>1 DEF IInv, Ordered, ArrivalOrder
    <3>2. CASE r \in rows /\ s = new
      BY <2>00, <2>2, <2>3, <3>2
    <3>3. CASE r = new /\ s \in rows
      BY <1>0, <2>00, <2>2, <2>3, <3>3
    <3>4. CASE r = new /\ s = new
      BY <1>0, <2>00, <3>4
    <3> QED BY <3>1, <3>2, <3>3, <3>4
  <2> QED BY <2>1, <2>4, <2>5 DEF Ordered
<1> QED BY <1>1, <1>3, <1>4

LEMMA CrashOrdered ==
  ASSUME IInv, NEW p \in Processes, Crash(p)
  PROVE  Ordered'
<1>1. /\ UNCHANGED <<arrived, rows, nextSeq>>
      /\ pending'[p].ups = {} /\ chain'[p] = << >> /\ writing'[p] = 0
      /\ \A q \in Processes \ {p} :
           pending'[q] = pending[q] /\ chain'[q] = chain[q] /\ writing'[q] = writing[q]
  BY DEF Crash, log, IInv, TypeOK, NoBatch
<1>2. ASSUME NEW q \in Processes PROVE Queue(q)' /\ writing'[q] < nextSeq'
  <2>1. Queue(q) /\ writing[q] < nextSeq /\ writing[q] \in Nat /\ nextSeq \in Nat \ {0}
    BY DEF IInv, Ordered, TypeOK
  <2>2. CASE q = p
    BY <1>1, <2>1, <2>2 DEF Queue, Before
  <2>3. CASE q # p
    BY <1>1, <2>1, <2>3 DEF Queue, Before
  <2> QED BY <2>2, <2>3
<1>3. ASSUME NEW r \in rows PROVE Written(r)'
  <2>1. Written(r) /\ \A u \in r.ups : u.at \in Processes
    BY NumbersTyped DEF IInv, Ordered
  <2> QED BY <1>1, <2>1 DEF Written
<1>4. \A r \in rows' : Written(r)'
  BY <1>1, <1>3
<1> QED BY <1>1, <1>2, <1>4 DEF Ordered, IInv, ArrivalOrder
-----------------------------------------------------------------------------
(* The invariant, and what it shows of any number of processes.            *)

\* Next, with its choices named.
LEMMA NextCases ==
  ASSUME Next
  PROVE  \/ \E p \in Processes, actor \in Actors : AppendUpdate(p, actor)
         \/ \E p \in Processes : Flush(p)
         \/ \E p \in Processes : InsertStart(p) \/ InsertCommit(p) \/ InsertFail(p)
         \/ \E p \in Processes : Crash(p)
         \/ \E p \in Processes, j \in Jobs, until \in 1 .. MaxUpdates \cup {MaxUpdates} :
              StartCompact(j, p) \/ StartRebuild(j, p, until) \/ StartLoad(j, p)
         \/ \E j \in Jobs : JobStep(j)
<1>1. Compactors \subseteq Jobs /\ Readers \subseteq Jobs
  BY DEF Jobs
<1>2. MaxUpdates \in 1 .. MaxUpdates \cup {MaxUpdates}
  OBVIOUS
<1> QED BY <1>1, <1>2 DEF Next, JobStep

LEMMA NextIInv == IInv /\ [Next]_vars => IInv'
<1> SUFFICES ASSUME IInv, [Next]_vars PROVE IInv'
  OBVIOUS
<1>0. TypeOK /\ \A p \in Processes : Queue(p)
  BY DEF IInv, Ordered
<1>1. ASSUME NEW p \in Processes, NEW actor \in Actors, AppendUpdate(p, actor) PROVE IInv'
  BY <1>0, <1>1, AppendTyped, AppendOrdered DEF IInv
<1>2. ASSUME NEW p \in Processes, Flush(p) PROVE IInv'
  <2>1. TypeOK'
    BY <1>0, <1>2, FlushOneTyped DEF Flush, TypeOK, log
  <2> QED BY <1>2, <2>1, FlushOneOrdered DEF IInv, Flush, log
<1>3. ASSUME NEW p \in Processes, InsertStart(p) \/ InsertCommit(p) \/ InsertFail(p) PROVE IInv'
  BY <1>0, <1>3, InsertTyped, InsertOrdered DEF IInv
<1>4. ASSUME NEW p \in Processes, Crash(p) PROVE IInv'
  BY <1>0, <1>4, CrashTyped, CrashOrdered DEF IInv
<1>5. ASSUME NEW p \in Processes, NEW j \in Jobs, NEW until \in 1 .. MaxUpdates \cup {MaxUpdates},
             StartCompact(j, p) \/ StartRebuild(j, p, until) \/ StartLoad(j, p)
      PROVE  IInv'
  <2>1. TypeOK'
    BY <1>0, <1>5, StartTyped
  <2>2. CASE StartCompact(j, p) \/ StartRebuild(j, p, until)
    BY <2>1, <2>2, FlushOneOrdered DEF IInv, StartCompact, StartRebuild, FlushFirst, log
  <2>3. CASE StartLoad(j, p)
    BY <2>1, <2>3, QuietOrdered DEF IInv, StartLoad, log
  <2> QED BY <1>5, <2>2, <2>3
<1>6. ASSUME NEW j \in Jobs, JobStep(j) PROVE IInv'
  <2>1. TypeOK'
    BY <1>0, <1>6, JobStepTyped
  <2>2. UNCHANGED <<batches, nextSeq>> /\ rows' \subseteq rows
    BY <1>6 DEF JobStep, Flushed, LoadBase, ReadRows, Return, Fold, WriteBase, DeleteRows,
                JobFail, log, After
  <2> QED BY <2>1, <2>2, QuietOrdered DEF IInv
<1>7. CASE UNCHANGED vars
  BY <1>7 DEF vars, IInv, TypeOK, Ordered, Queue, Written, ArrivalOrder, Before
<1> QED BY <1>1, <1>2, <1>3, <1>4, <1>5, <1>6, <1>7, NextCases

LEMMA Invariance == Spec => []IInv
BY InitIInv, NextIInv, PTL DEF Spec

\* Every variable stays in its type.
THEOREM TypeCorrectness == Spec => []TypeOK
<1>1. IInv => TypeOK
  BY DEF IInv
<1> QED BY <1>1, Invariance, PTL

\* Each process's rows are in the order in which its changes arrived.
THEOREM RowsInArrivalOrder == Spec => []ArrivalOrder
<1>1. IInv => ArrivalOrder
  BY DEF IInv, Ordered
<1> QED BY <1>1, Invariance, PTL

\* Each row holds changes of the actor it names only.
THEOREM RowsHaveOneActor == Spec => []RowsAreOneActors
<1>1. IInv => RowsAreOneActors
  BY DEF IInv, Ordered, Written, RowsAreOneActors
<1> QED BY <1>1, Invariance, PTL

\* The log's rows replay in the order of the changes, each under its author's name, for
\* any number of processes and compactions (append, enqueue).
THEOREM LogIsHistory == Spec => []LogTellsHistory
<1>1. ArrivalOrder /\ RowsAreOneActors => LogTellsHistory
  BY DEF LogTellsHistory
<1> QED BY <1>1, RowsInArrivalOrder, RowsHaveOneActor, PTL

\* compacted_seq never goes back, for any number of racing compactions.
THEOREM BaseMonotone == Spec => BaseNeverGoesBack
<1>1. ASSUME IInv, [Next]_vars PROVE [baseSeq' >= baseSeq]_vars
  <2> SUFFICES ASSUME Next PROVE baseSeq' >= baseSeq
    BY <1>1
  <2>1. baseSeq \in Nat
    BY <1>1 DEF IInv, TypeOK
  <2>2. ASSUME NEW j \in Jobs, WriteBase(j) PROVE baseSeq' >= baseSeq
    <3>1. job[j].cut \in Nat
      BY <1>1, JobFields DEF IInv
    <3> QED BY <2>1, <2>2, <3>1 DEF WriteBase
  <2>3. CASE baseSeq' = baseSeq
    BY <2>1, <2>3
  <2> QED
    BY <2>2, <2>3, NextCases
    DEF AppendUpdate, Flush, InsertStart, InsertCommit, InsertFail, Crash, StartCompact,
        StartRebuild, StartLoad, JobStep, Flushed, LoadBase, ReadRows, Return, Fold,
        DeleteRows, JobFail
<1> QED BY <1>1, Invariance, PTL DEF Spec, BaseNeverGoesBack
-----------------------------------------------------------------------------
(* Nothing is lost, with one process that runs one compaction at a time.   *)

Alone == (\A p, q \in Processes : p = q) /\ (\A c, d \in Compactors : c = d)

\* No row that is still to come is in the part of the log a compaction folds,
\* and what it is about to write holds all of that part.
Compaction(j) ==
  /\ job[j].pc \in {"write", "delete"} =>
       /\ j \in Compactors
       /\ job[j].cut < nextSeq
       /\ \A p \in Processes : writing[p] # 0 => job[j].cut < writing[p]
  /\ j \in Compactors /\ At(j, "rows") => job[j].doc = base /\ job[j].seq = baseSeq
  /\ At(j, "write") =>
       /\ base \subseteq job[j].doc
       /\ baseSeq <= job[j].cut
       /\ \A r \in rows : baseSeq < r.seq /\ r.seq <= job[j].cut => r.ups \subseteq job[j].doc
  /\ At(j, "delete") => job[j].cut = baseSeq

Ahead ==
  /\ baseSeq < nextSeq
  /\ \A p \in Processes : writing[p] # 0 =>
       baseSeq < writing[p] /\ \A r \in rows : r.seq < writing[p]

Safe == NothingLost /\ Ahead /\ \A j \in Jobs : Compaction(j)

LEMMA InitSafe == Init => Safe
BY DEF Init, Safe, NothingLost, Ahead, Compaction, Idle

\* Steps that leave the rows and the base alone, and bring no compaction to
\* its reads or beyond.
LEMMA QuietSafe ==
  ASSUME Safe, UNCHANGED <<rows, base, baseSeq, nextSeq, acked>>,
         \A p \in Processes : writing'[p] \in {0, writing[p]},
         \A j \in Jobs : job'[j] = job[j] \/ job'[j].pc \in {"idle", "flush", "base", "done"}
  PROVE  Safe'
<1>1. NothingLost' /\ Ahead'
  BY DEF Safe, NothingLost, Ahead, Board, Merged, After
<1>2. ASSUME NEW j \in Jobs PROVE Compaction(j)'
  <2>1. Compaction(j)
    BY DEF Safe
  <2>2. CASE job'[j] = job[j]
    BY <2>1, <2>2 DEF Compaction
  <2>3. CASE job'[j].pc \in {"idle", "flush", "base", "done"}
    BY <2>3 DEF Compaction
  <2> QED BY <2>2, <2>3
<1> QED BY <1>1, <1>2 DEF Safe

LEMMA InsertSafe ==
  ASSUME Alone, IInv, Safe, NEW p \in Processes, InsertStart(p) \/ InsertCommit(p)
  PROVE  Safe'
<1>0. /\ nextSeq \in Nat \ {0} /\ baseSeq \in Nat /\ writing[p] \in Nat
      /\ \A r \in rows : r.seq \in Nat /\ r.seq < nextSeq
      /\ \A j \in Jobs : job[j].cut \in Nat
      /\ \A q \in Processes : q = p
  BY JobFields DEF IInv, TypeOK, Rows, Ordered, Written, Alone
<1>1. CASE InsertStart(p)
  <2>1. /\ UNCHANGED <<rows, base, baseSeq, acked, job>>
        /\ writing'[p] = nextSeq /\ nextSeq' = nextSeq + 1
    BY <1>1 DEF InsertStart, IInv, TypeOK
  <2>2. NothingLost' /\ Ahead'
    BY <1>0, <2>1 DEF Safe, NothingLost, Ahead, Board, Merged, After
  <2>3. \A j \in Jobs : Compaction(j)'
    BY <1>0, <2>1 DEF Safe, Compaction
  <2> QED BY <2>2, <2>3 DEF Safe
<1>2. CASE InsertCommit(p)
  <2> DEFINE b == Head(chain[p])
  <2>1. PICK new : new = [seq |-> writing[p], ups |-> b.ups, actor |-> b.actor]
    OBVIOUS
  <2>2. /\ UNCHANGED <<base, baseSeq, nextSeq, job>> /\ writing[p] # 0 /\ writing'[p] = 0
        /\ rows' = rows \cup {new} /\ acked' = acked \cup new.ups
        /\ new.seq = writing[p]
    BY <1>2, <2>1 DEF InsertCommit, IInv, TypeOK
  <2>3. baseSeq < new.seq
    BY <2>2 DEF Safe, Ahead
  <2>4. NothingLost'
    BY <2>2, <2>3 DEF Safe, NothingLost, Board, Merged, After
  <2>5. Ahead'
    BY <1>0, <2>2 DEF Safe, Ahead
  <2>6. ASSUME NEW j \in Jobs PROVE Compaction(j)'
    <3>1. Compaction(j) /\ job[j].cut \in Nat
      BY <1>0 DEF Safe
    <3>2. At(j, "write") => ~(new.seq <= job[j].cut)
      BY <1>0, <2>2, <3>1 DEF Compaction
    <3> QED BY <1>0, <2>2, <3>1, <3>2 DEF Compaction
  <2> QED BY <2>4, <2>5, <2>6 DEF Safe
<1> QED BY <1>1, <1>2

LEMMA CompactSafe ==
  ASSUME Alone, IInv, Safe, NEW j \in Jobs, LoadBase(j) \/ Fold(j) \/ WriteBase(j) \/ DeleteRows(j)
  PROVE  Safe'
<1>0. /\ nextSeq \in Nat \ {0} /\ baseSeq \in Nat /\ \A p \in Processes : writing[p] \in Nat
      /\ \A r \in rows : r.seq \in Nat /\ r.seq < nextSeq
      /\ job[j].cut \in Nat
      /\ \A i \in Jobs : job[i].cut \in Nat
      /\ Compaction(j)
  BY JobFields DEF IInv, TypeOK, Rows, Ordered, Written, Safe
<1>1. \A i \in Jobs \ {j} : job'[i] = job[i]
  BY DEF LoadBase, Fold, WriteBase, DeleteRows, Done, IInv, TypeOK
<1>2. ASSUME Done(j) PROVE job'[j].pc = "idle"
  BY <1>2 DEF Done, Idle, IInv, TypeOK
<1>3. CASE LoadBase(j)
  <2>1. UNCHANGED <<rows, base, baseSeq, nextSeq, acked, writing>>
    BY <1>3 DEF LoadBase, log, batches
  <2>2. \/ job'[j].pc = "idle"
        \/ job'[j].pc = "rows" /\ job'[j].doc = base /\ job'[j].seq = baseSeq
    BY <1>3, JobFields DEF LoadBase, Idle, IInv, TypeOK, JobRecords
  <2>3. Compaction(j)'
    BY <2>1, <2>2 DEF Compaction
  <2>4. \A i \in Jobs : Compaction(i)'
    BY <1>1, <2>1, <2>3 DEF Safe, Compaction
  <2> QED BY <2>1, <2>4 DEF Safe, NothingLost, Ahead, Board, Merged, After
<1>4. CASE Fold(j)
  <2>1. UNCHANGED <<rows, base, baseSeq, nextSeq, acked, writing>> /\ j \in Compactors
        /\ job[j].doc = base /\ job[j].seq = baseSeq
    BY <1>0, <1>4 DEF Fold, log, batches, Compaction
  <2>2. CASE Done(j)
    <3>1. Compaction(j)'
      BY <1>2, <2>2 DEF Compaction
    <3>2. \A i \in Jobs : Compaction(i)'
      BY <1>1, <2>1, <3>1 DEF Safe, Compaction
    <3> QED BY <2>1, <3>2 DEF Safe, NothingLost, Ahead, Board, Merged, After
  <2>3. CASE ~Done(j)
    <3> DEFINE R == After(job[j].seq)
               doc(last) == job[j].doc \cup Merged({r \in R : r.seq <= last.seq})
    <3>1. PICK last \in R : job' = [job EXCEPT ![j].pc = "write", ![j].cut = last.seq, ![j].doc = doc(last)]
      BY <1>4, <2>3 DEF Fold
    <3>2. last \in rows /\ baseSeq < last.seq
      BY <1>0, <2>1 DEF After
    <3> HIDE DEF doc
    <3>3. job'[j].pc = "write" /\ job'[j].cut = last.seq /\ job'[j].doc = doc(last)
      BY <3>1, JobFields DEF IInv, TypeOK, JobRecords
    <3>4. base \subseteq doc(last) /\ \A r \in rows : baseSeq < r.seq /\ r.seq <= last.seq => r.ups \subseteq doc(last)
      BY <1>0, <2>1 DEF doc, Merged, After
    <3>5. \A p \in Processes : writing[p] # 0 => last.seq < writing[p]
      BY <3>2 DEF Safe, Ahead
    <3>6. Compaction(j)'
      BY <1>0, <2>1, <3>2, <3>3, <3>4, <3>5 DEF Compaction
    <3>7. \A i \in Jobs : Compaction(i)'
      BY <1>1, <2>1, <3>6 DEF Safe, Compaction
    <3> QED BY <2>1, <3>7 DEF Safe, NothingLost, Ahead, Board, Merged, After
  <2> QED BY <2>2, <2>3
\* The other compactions are elsewhere: there are none.
<1>5. ASSUME j \in Compactors, NEW i \in Jobs \ {j}
      PROVE  i \notin Compactors /\ job[i].pc \notin {"write", "delete"}
  BY <1>5 DEF Alone, Safe, Compaction
<1>6. CASE WriteBase(j)
  <2>1. UNCHANGED <<rows, nextSeq, acked, writing>> /\ j \in Compactors /\ baseSeq <= job[j].cut
    BY <1>0, <1>6 DEF WriteBase, log, batches, Compaction
  <2>2. /\ base' = job[j].doc /\ baseSeq' = job[j].cut
        /\ job'[j].pc = "delete" /\ job'[j].cut = job[j].cut
    BY <1>6, <2>1, JobFields DEF WriteBase, IInv, TypeOK, JobRecords
  <2>3. NothingLost'
    <3> SUFFICES ASSUME NEW u \in acked PROVE u \in Board'
      BY <2>1 DEF NothingLost
    <3>1. CASE u \in base
      BY <1>0, <1>6, <2>2, <3>1 DEF WriteBase, Compaction, Board
    <3>2. ASSUME NEW r \in rows, baseSeq < r.seq, u \in r.ups PROVE u \in Board'
      <4>1. CASE r.seq <= job[j].cut
        BY <1>0, <1>6, <2>2, <3>2, <4>1 DEF WriteBase, Compaction, Board
      <4>2. CASE job[j].cut < r.seq
        BY <2>1, <2>2, <3>2, <4>2 DEF Board, Merged, After
      <4> QED BY <1>0, <3>2, <4>1, <4>2
    <3> QED BY <1>0, <3>1, <3>2 DEF Safe, NothingLost, Board, Merged, After
  <2>4. Ahead'
    BY <1>0, <1>6, <2>1, <2>2 DEF Safe, Ahead, Compaction, WriteBase
  <2>5. Compaction(j)'
    BY <1>0, <1>6, <2>1, <2>2 DEF Compaction, WriteBase
  <2>6. \A i \in Jobs : Compaction(i)'
    BY <1>1, <1>5, <2>1, <2>5 DEF Compaction
  <2> QED BY <2>3, <2>4, <2>6 DEF Safe
<1>7. CASE DeleteRows(j)
  <2>1. /\ UNCHANGED <<base, baseSeq, nextSeq, acked, writing>>
        /\ rows' = {r \in rows : r.seq > baseSeq} /\ j \in Compactors /\ job'[j].pc = "idle"
    BY <1>0, <1>2, <1>7 DEF DeleteRows, Compaction, After, batches
  <2>2. NothingLost' /\ Ahead'
    BY <2>1 DEF Safe, NothingLost, Ahead, Board, Merged, After
  <2>3. Compaction(j)'
    BY <2>1 DEF Compaction
  <2>4. \A i \in Jobs : Compaction(i)'
    BY <1>1, <1>5, <2>1, <2>3 DEF Compaction
  <2> QED BY <2>2, <2>4 DEF Safe
<1> QED BY <1>3, <1>4, <1>6, <1>7

LEMMA NextSafe ==
  ASSUME Alone, IInv, Safe, [Next]_vars
  PROVE  Safe'
<1>0. job \in [Jobs -> JobRecords] /\ writing \in [Processes -> Nat] /\ Idle.pc = "idle"
  BY DEF IInv, TypeOK, Idle
<1>1. ASSUME NEW p \in Processes,
             (\E actor \in Actors : AppendUpdate(p, actor)) \/ Flush(p) \/ InsertFail(p) \/ Crash(p)
      PROVE  Safe'
  <2>1. UNCHANGED <<rows, base, baseSeq, nextSeq, acked>>
    BY <1>1 DEF AppendUpdate, Flush, InsertFail, Crash, log
  <2>2. \A q \in Processes : writing'[q] \in {0, writing[q]}
    BY <1>0, <1>1 DEF AppendUpdate, Flush, InsertFail, Crash
  <2>3. \A j \in Jobs : job'[j] = job[j] \/ job'[j].pc = "idle"
    BY <1>0, <1>1 DEF AppendUpdate, Flush, InsertFail, Crash
  <2> QED BY <2>1, <2>2, <2>3, QuietSafe
<1>2. ASSUME NEW p \in Processes, InsertStart(p) \/ InsertCommit(p) PROVE Safe'
  BY <1>2, InsertSafe
<1>3. ASSUME NEW p \in Processes, NEW j \in Jobs, NEW until \in 1 .. MaxUpdates \cup {MaxUpdates},
             StartCompact(j, p) \/ StartRebuild(j, p, until) \/ StartLoad(j, p)
      PROVE  Safe'
  <2>1. UNCHANGED <<rows, base, baseSeq, nextSeq, acked, writing>>
    BY <1>3 DEF StartCompact, StartRebuild, StartLoad, log, batches
  <2>2. \A i \in Jobs : job'[i] = job[i] \/ job'[i].pc \in {"flush", "base"}
    BY <1>0, <1>3 DEF StartCompact, StartRebuild, StartLoad, FlushFirst, Idle
  <2> QED BY <2>1, <2>2, QuietSafe
<1>4. ASSUME NEW j \in Jobs, Flushed(j) \/ ReadRows(j) \/ Return(j) \/ JobFail(j) PROVE Safe'
  <2>1. UNCHANGED <<rows, base, baseSeq, nextSeq, acked, writing>>
    BY <1>4 DEF Flushed, ReadRows, Return, JobFail, log, batches
  <2>2. \A i \in Jobs : job'[i] = job[i] \/ job'[i].pc \in {"idle", "base", "done"}
    BY <1>0, <1>4 DEF Flushed, ReadRows, Return, JobFail, Done, JobRecords
  <2> QED BY <2>1, <2>2, QuietSafe
<1>5. ASSUME NEW j \in Jobs, LoadBase(j) \/ Fold(j) \/ WriteBase(j) \/ DeleteRows(j) PROVE Safe'
  BY <1>5, CompactSafe
<1>6. CASE UNCHANGED vars
  BY <1>6 DEF vars, Safe, NothingLost, Ahead, Compaction, Board, Merged, After
<1> QED BY <1>1, <1>2, <1>3, <1>4, <1>5, <1>6, NextCases DEF JobStep

\* With one process and one compaction at a time, a committed change is on the
\* board for good.
THEOREM Durability ==
  ASSUME Alone
  PROVE  Spec => []NothingLost
<1>1. Init => Safe
  BY InitSafe
<1>2. IInv /\ Safe /\ [Next]_vars => Safe'
  BY NextSafe
<1>3. Safe => NothingLost
  BY DEF Safe
<1> QED BY <1>1, <1>2, <1>3, Invariance, PTL DEF Spec
-----------------------------------------------------------------------------
(* What a read returns, under the same conditions.                         *)

\* What p still has to write, and what it is still collecting.
Waiting(p) == Queued(p) \cup pending[p].ups

\* Each seq was drawn for a batch of its own, so there are no more of them than
\* changes that have arrived.
Collecting(p) == IF pending[p].ups = {} THEN 0 ELSE 1
Inserting(p) == IF writing[p] = 0 THEN 0 ELSE 1
Drawn(p) == nextSeq + Len(chain[p]) + Collecting(p) <= arrived + 1 + Inserting(p)

\* A change is in one place: still to be written, in the base, or in one row
\* after the base.
Kept ==
  /\ \A u \in acked : u.n <= arrived
  /\ \A p \in Processes : acked \cap Waiting(p) = {}
  /\ \A r \in rows : r.ups \subseteq acked /\ (r.seq > baseSeq => r.ups \cap base = {})
  /\ base \subseteq acked

\* A compaction is about to write what the rows up to its cut held, no more.
Folded(c) ==
  At(c, "write") =>
    /\ baseSeq < job[c].cut
    /\ job[c].doc \subseteq acked
    /\ \A r \in rows : r.seq > job[c].cut => r.ups \cap job[c].doc = {}

\* Once its flush is over, what a job awaited is written or has failed.
Awaited(j) ==
  /\ ~At(j, "idle") => job[j].at \in Processes
  /\ job[j].start \subseteq acked
  /\ At(j, "flush") =>
       /\ job[j].wait = job[j].mine
       /\ job[j].mine \subseteq acked \cup failed \cup Queued(job[j].at)
  /\ job[j].pc \in {"base", "rows"} => job[j].mine \subseteq acked \cup failed

\* A read whose base is still the base has the board up to the point asked for.
Exact(r) ==
  /\ job[r].doc \subseteq acked
  /\ \A x \in rows : x.seq > baseSeq /\ x.ups \cap job[r].doc # {} => x.seq <= job[r].until
  /\ job[r].start \subseteq job[r].doc \cup Merged({x \in rows : x.seq > job[r].until})
  /\ job[r].until = MaxUpdates => job[r].mine \subseteq job[r].doc \cup failed

Reading(r) ==
  r \in Readers =>
    /\ job[r].pc \in {"rows", "done"} => job[r].seq <= baseSeq /\ job[r].seq <= job[r].until
    /\ At(r, "rows") /\ Quiet(r) => job[r].doc = base
    /\ At(r, "done") /\ Quiet(r) => Exact(r)

Faithful ==
  /\ \A p \in Processes : Drawn(p)
  /\ Kept
  /\ \A j \in Jobs : Folded(j) /\ Awaited(j) /\ Reading(j)

LEMMA InitFaithful == Init => Faithful
<1> SUFFICES ASSUME Init PROVE Faithful
  OBVIOUS
<1>1. \A p \in Processes : Drawn(p)
  BY DEF Init, Drawn, Collecting, Inserting, NoBatch
<1>2. Kept
  BY DEF Init, Kept, Waiting, Queued, NoBatch
<1>3. \A j \in Jobs : Folded(j) /\ Awaited(j) /\ Reading(j)
  <2>1. \A j \in Jobs : job[j].pc = "idle" /\ job[j].start = {}
    BY DEF Init, Idle
  <2> QED BY <2>1 DEF Folded, Awaited, Reading
<1> QED BY <1>1, <1>2, <1>3 DEF Faithful

-----------------------------------------------------------------------------
(* How the batches move.                                                   *)

LEMMA QueuedAppend ==
  ASSUME NEW p \in Processes, NEW s \in Seq(Batches), NEW b \in Batches, chain'[p] = Append(s, b), chain[p] = s
  PROVE  Queued(p)' = Queued(p) \cup b.ups /\ Len(chain'[p]) = Len(s) + 1
<1>1. /\ DOMAIN Append(s, b) = DOMAIN s \cup {Len(s) + 1}
      /\ \A i \in DOMAIN s : Append(s, b)[i] = s[i]
      /\ Append(s, b)[Len(s) + 1] = b
  BY AppendSeq
<1>2. Len(chain'[p]) = Len(s) + 1
  OBVIOUS
<1> QED BY <1>1, <1>2 DEF Queued

LEMMA QueuedTail ==
  ASSUME IInv, NEW p \in Processes, chain[p] # << >>, chain'[p] = Tail(chain[p])
  PROVE  /\ Queued(p) = Queued(p)' \cup Head(chain[p]).ups
         /\ Head(chain[p]).ups \cap Queued(p)' = {}
         /\ Head(chain[p]).ups \cap pending[p].ups = {}
         /\ Len(chain'[p]) = Len(chain[p]) - 1 /\ Len(chain[p]) \in Nat
<1> DEFINE s == chain[p]
           t == Tail(s)
<1>1. s \in Seq(Batches) /\ s # << >>
  BY DEF IInv, TypeOK
<1>2. /\ Head(s) = s[1] /\ 1 \in DOMAIN s
      /\ \A i \in DOMAIN t : i + 1 \in DOMAIN s /\ t[i] = s[i + 1]
  BY <1>1, TailSeq
<1>3. \A i \in DOMAIN s : i = 1 \/ (i - 1 \in DOMAIN t /\ s[i] = t[i - 1])
  BY <1>1
<1>4. Len(t) = Len(s) - 1 /\ Len(s) \in Nat
  BY <1>1
<1>5. \A i \in DOMAIN t : Before(Head(s).ups, t[i].ups)
  BY <1>1, TailQueue
<1>6. Before(Head(s).ups, pending[p].ups)
  BY <1>1, TailQueue
<1>7. \A u \in Head(s).ups : u.n \in Nat
  <2>1. Head(s).ups \in SUBSET Updates
    BY <1>1, <1>2, UpsTyped DEF IInv, Batches
  <2> QED BY <2>1 DEF Updates
<1>8. \A x : x \in Queued(p) <=> \E i \in DOMAIN s : x \in s[i].ups
  BY DEF Queued, s
<1>9. \A x : x \in Queued(p)' <=> \E i \in DOMAIN t : x \in t[i].ups
  BY DEF Queued, t, s
<1> HIDE DEF s, t
<1>10. ASSUME NEW x PROVE x \in Queued(p) <=> x \in Queued(p)' \cup Head(s).ups
  <2>1. ASSUME NEW i \in DOMAIN s, x \in s[i].ups PROVE x \in Head(s).ups \/ \E k \in DOMAIN t : x \in t[k].ups
    BY <1>2, <1>3, <2>1
  <2>2. ASSUME NEW i \in DOMAIN t, x \in t[i].ups PROVE \E k \in DOMAIN s : x \in s[k].ups
    BY <1>2, <2>2
  <2>3. x \in Head(s).ups => \E k \in DOMAIN s : x \in s[k].ups
    BY <1>2
  <2> QED BY <1>8, <1>9, <2>1, <2>2, <2>3
<1>11. \A x \in Head(s).ups : x \notin Queued(p)' /\ x \notin pending[p].ups
  BY <1>5, <1>6, <1>7, <1>9 DEF Before
<1>12. Queued(p) = Queued(p)' \cup Head(s).ups
  BY <1>10
<1> QED BY <1>4, <1>11, <1>12 DEF s, t

\* The batch being collected joins the chain; nothing else changes.
LEMMA FlushMoves ==
  ASSUME IInv, NEW p \in Processes, FlushOne(p), UNCHANGED <<arrived, writing, nextSeq>>, Drawn(p)
  PROVE  /\ Queued(p)' = Waiting(p) /\ Waiting(p)' = Waiting(p)
         /\ Drawn(p)'
<1>0. /\ pending'[p].ups = {} /\ chain[p] \in Seq(Batches) /\ Len(chain[p]) \in Nat
      /\ arrived \in Nat /\ nextSeq \in Nat
  BY DEF FlushOne, NoBatch, IInv, TypeOK
<1>1. CASE pending[p].ups = {}
  <2>1. chain'[p] = chain[p]
    BY <1>1 DEF FlushOne, IInv, TypeOK
  <2> QED BY <1>0, <1>1, <2>1 DEF Waiting, Queued, Drawn, Collecting, Inserting
<1>2. CASE pending[p].ups # {}
  <2>1. chain'[p] = Append(chain[p], pending[p]) /\ pending[p] \in Batches
    BY <1>2, BatchTyped DEF FlushOne, IInv, TypeOK
  <2>2. Queued(p)' = Queued(p) \cup pending[p].ups /\ Len(chain'[p]) = Len(chain[p]) + 1
    BY <1>0, <2>1, QueuedAppend
  <2>3. Collecting(p) = 1 /\ Collecting(p)' = 0 /\ Inserting(p)' = Inserting(p) /\ Inserting(p) \in Nat
    BY <1>0, <1>2 DEF Collecting, Inserting
  <2>4. Drawn(p)'
    BY <1>0, <2>2, <2>3 DEF Drawn
  <2> QED BY <1>0, <2>2, <2>4 DEF Waiting
<1> QED BY <1>1, <1>2

\* A change joins a batch, and may send another one on its way.
LEMMA AppendMoves ==
  ASSUME IInv, NEW p \in Processes, NEW actor \in Actors, AppendUpdate(p, actor), Drawn(p)
  PROVE  /\ Drawn(p)'
         /\ \A u \in Waiting(p)' : u \in Waiting(p) \/ u.n = arrived + 1
         /\ \A u \in Queued(p) : u \in Queued(p)'
<1> DEFINE u == [n |-> arrived + 1, actor |-> actor, at |-> p]
<1>0. /\ chain[p] \in Seq(Batches) /\ Len(chain[p]) \in Nat
      /\ arrived \in Nat /\ nextSeq \in Nat /\ arrived' = arrived + 1
      /\ UNCHANGED <<writing, nextSeq>> /\ u.n = arrived + 1
  BY DEF AppendUpdate, IInv, TypeOK, log
<1>i. Inserting(p)' = Inserting(p) /\ Inserting(p) \in Nat
  BY <1>0 DEF Inserting
<1>1. CASE pending[p].ups # {} /\ pending[p].actor = actor
  <2>1. pending' = [pending EXCEPT ![p] = [pending[p] EXCEPT !.ups = @ \cup {u}]] /\ chain' = chain
    BY <1>1 DEF AppendUpdate
  <2>2. pending[p] \in Batches
    BY <1>1, BatchTyped DEF IInv
  <2> HIDE DEF u
  <2>3. pending'[p].ups = pending[p].ups \cup {u}
    BY <2>1, <2>2 DEF Batches, IInv, TypeOK
  <2>4. Collecting(p) = 1 /\ Collecting(p)' = 1
    BY <1>1, <2>3 DEF Collecting
  <2>5. Drawn(p)'
    BY <1>0, <1>i, <2>1, <2>4 DEF Drawn
  <2> QED BY <1>0, <2>1, <2>3, <2>5 DEF Waiting, Queued
<1>2. CASE ~(pending[p].ups # {} /\ pending[p].actor = actor)
  <2>1. pending'[p].ups = {u}
    BY <1>2 DEF AppendUpdate, IInv, TypeOK
  <2> HIDE DEF u
  <2>2. CASE pending[p].ups = {}
    <3>1. chain'[p] = chain[p]
      BY <1>2, <2>2 DEF AppendUpdate, IInv, TypeOK
    <3>2. Collecting(p) = 0 /\ Collecting(p)' = 1
      BY <2>1, <2>2 DEF Collecting
    <3>3. Drawn(p)'
      BY <1>0, <1>i, <3>1, <3>2 DEF Drawn
    <3>4. Queued(p)' = Queued(p)
      BY <3>1 DEF Queued
    <3> QED BY <1>0, <2>1, <2>2, <3>3, <3>4 DEF Waiting
  <2>3. CASE pending[p].ups # {}
    <3>1. chain'[p] = Append(chain[p], pending[p]) /\ pending[p] \in Batches
      BY <1>2, <2>3, BatchTyped DEF AppendUpdate, IInv, TypeOK
    <3>2. Queued(p)' = Queued(p) \cup pending[p].ups /\ Len(chain'[p]) = Len(chain[p]) + 1
      BY <1>0, <3>1, QueuedAppend
    <3>3. Collecting(p) = 1 /\ Collecting(p)' = 1
      BY <2>1, <2>3 DEF Collecting
    <3>4. Drawn(p)'
      BY <1>0, <1>i, <3>2, <3>3 DEF Drawn
    <3> QED BY <1>0, <2>1, <2>3, <3>2, <3>4 DEF Waiting
  <2> QED BY <2>2, <2>3
<1> QED BY <1>1, <1>2

\* No seq is beyond the changes that have arrived.
LEMMA SeqBound ==
  ASSUME IInv, NEW p \in Processes, Drawn(p)
  PROVE  /\ nextSeq <= arrived + 1
         /\ \A r \in rows : r.seq \in Nat /\ r.seq <= MaxUpdates
<1>1. /\ nextSeq \in Nat /\ arrived \in Nat /\ arrived <= MaxUpdates /\ MaxUpdates \in Nat
      /\ chain[p] \in Seq(Batches) /\ \A r \in rows : r.seq \in Nat
  BY BoundsAssumption DEF IInv, TypeOK, Rows
<1>2. writing[p] # 0 => Len(chain[p]) >= 1
  BY <1>1 DEF IInv, Ordered, Queue
<1>3. Len(chain[p]) \in Nat
  BY <1>1
<1>4. nextSeq <= arrived + 1
  <2>1. /\ Collecting(p) \in Nat
        /\ Inserting(p) = 0 \/ (Inserting(p) = 1 /\ Len(chain[p]) >= 1)
    BY <1>2 DEF Collecting, Inserting
  <2> QED BY <1>1, <1>3, <2>1 DEF Drawn
<1> QED BY <1>1, <1>4 DEF IInv, Ordered, Written
-----------------------------------------------------------------------------
(* The jobs.                                                               *)

\* A job that a step leaves alone: rows may come, of changes not written before.
LEMMA JobStays ==
  ASSUME IInv, NEW j \in Jobs, Folded(j), Awaited(j), Reading(j), Kept,
         UNCHANGED <<base, baseSeq>>, acked \subseteq acked', failed \subseteq failed',
         rows \subseteq rows',
         \A r \in rows' : r \in rows \/ (r.ups \cap acked = {} /\ r.seq > baseSeq),
         job'[j] = job[j],
         At(j, "flush") => \A u \in Queued(job[j].at) : u \in Queued(job[j].at)' \cup acked' \cup failed'
  PROVE  Folded(j)' /\ Awaited(j)' /\ Reading(j)'
<1>1. Folded(j)'
  BY DEF Folded
<1>2. Awaited(j)'
  <2>1. At(j, "flush") => job[j].mine \subseteq acked' \cup failed' \cup Queued(job[j].at)'
    BY DEF Awaited
  <2> QED BY <2>1 DEF Awaited
<1>3. Reading(j)'
  <2> SUFFICES ASSUME j \in Readers PROVE Reading(j)'
    BY DEF Reading
  <2>1. ASSUME Exact(j) PROVE Exact(j)'
    <3>1. job[j].doc \subseteq acked'
      BY <2>1 DEF Exact
    <3>2. \A x \in rows' : x.seq > baseSeq /\ x.ups \cap job[j].doc # {} => x.seq <= job[j].until
      BY <2>1 DEF Exact
    <3>3. job[j].start \subseteq job[j].doc \cup Merged({x \in rows' : x.seq > job[j].until})
      BY <2>1 DEF Exact, Merged
    <3>4. job[j].until = MaxUpdates => job[j].mine \subseteq job[j].doc \cup failed'
      BY <2>1 DEF Exact
    <3>5. Merged({x \in rows : x.seq > job[j].until})' = Merged({x \in rows' : x.seq > job[j].until})
      BY DEF Merged
    <3> QED BY <3>1, <3>2, <3>3, <3>4, <3>5 DEF Exact
  <2>2. Quiet(j)' = Quiet(j)
    BY DEF Quiet
  <2> QED BY <2>1, <2>2 DEF Reading
<1> QED BY <1>1, <1>2, <1>3

LEMMA JobReset ==
  ASSUME NEW j \in Jobs, job'[j] = Idle
  PROVE  Folded(j)' /\ Awaited(j)' /\ Reading(j)'
<1>1. job'[j].pc = "idle" /\ job'[j].start = {}
  BY DEF Idle
<1> QED BY <1>1 DEF Folded, Awaited, Reading

\* The steps of a process on its batches.
LEMMA BatchFaithful ==
  ASSUME Alone, IInv, Safe, Faithful, NEW p \in Processes,
         \/ \E actor \in Actors : AppendUpdate(p, actor)
         \/ Flush(p) \/ InsertStart(p) \/ InsertCommit(p) \/ InsertFail(p)
  PROVE  Faithful'
<1>0. /\ Drawn(p) /\ Kept /\ \A q \in Processes : q = p
      /\ \A j \in Jobs : Folded(j) /\ Awaited(j) /\ Reading(j)
      /\ chain[p] \in Seq(Batches) /\ Len(chain[p]) \in Nat
      /\ arrived \in Nat /\ nextSeq \in Nat
      /\ Collecting(p) \in Nat /\ Inserting(p) \in Nat
  BY DEF Faithful, Alone, IInv, TypeOK, Collecting, Inserting
\* What is shown of each of them.
<1>1. ASSUME Drawn(p)', Kept', UNCHANGED <<base, baseSeq, job>>,
             acked \subseteq acked', failed \subseteq failed', rows \subseteq rows',
             \A r \in rows' : r \in rows \/ (r.ups \cap acked = {} /\ r.seq > baseSeq),
             \A u \in Queued(p) : u \in Queued(p)' \cup acked' \cup failed'
      PROVE  Faithful'
  <2>1. ASSUME NEW j \in Jobs PROVE Folded(j)' /\ Awaited(j)' /\ Reading(j)'
    <3>1. Folded(j) /\ Awaited(j) /\ Reading(j) /\ job'[j] = job[j]
      BY <1>0, <1>1
    <3>2. At(j, "flush") => \A u \in Queued(job[j].at) : u \in Queued(job[j].at)' \cup acked' \cup failed'
      <4> SUFFICES ASSUME At(j, "flush")
                   PROVE \A u \in Queued(job[j].at) : u \in Queued(job[j].at)' \cup acked' \cup failed'
        OBVIOUS
      <4>1. job[j].at = p
        BY <1>0, <3>1 DEF Awaited
      <4> QED BY <1>1, <4>1
    <3> QED BY <1>0, <1>1, <3>1, <3>2, JobStays
  <2>2. \A q \in Processes : Drawn(q)'
    BY <1>0, <1>1
  <2> QED BY <1>1, <2>1, <2>2 DEF Faithful
<1>2. ASSUME NEW actor \in Actors, AppendUpdate(p, actor) PROVE Faithful'
  <2>1. /\ Drawn(p)'
        /\ \A u \in Waiting(p)' : u \in Waiting(p) \/ u.n = arrived + 1
        /\ \A u \in Queued(p) : u \in Queued(p)'
        /\ UNCHANGED <<base, baseSeq, job, rows, acked, failed>> /\ arrived' = arrived + 1
    BY <1>0, <1>2, AppendMoves DEF AppendUpdate, log
  <2>2. Kept'
    <3>1. \A u \in acked : u.n \in Nat /\ u.n <= arrived
      BY <1>0 DEF Kept, IInv, TypeOK, Updates
    <3>2. acked' \cap Waiting(p)' = {}
      BY <1>0, <2>1, <3>1 DEF Kept
    <3> QED BY <1>0, <2>1, <3>1, <3>2 DEF Kept
  <2> QED BY <1>1, <2>1, <2>2
<1>3. CASE Flush(p)
  <2>1. /\ Drawn(p)' /\ Queued(p)' = Waiting(p) /\ Waiting(p)' = Waiting(p)
        /\ UNCHANGED <<base, baseSeq, job, rows, acked, failed, arrived>>
    BY <1>0, <1>3, FlushMoves DEF Flush, log
  <2>2. Kept'
    BY <1>0, <2>1 DEF Kept
  <2>3. \A u \in Queued(p) : u \in Queued(p)'
    BY <2>1 DEF Waiting
  <2> QED BY <1>1, <2>1, <2>2, <2>3
<1>4. CASE InsertStart(p)
  <2>1. /\ UNCHANGED <<base, baseSeq, job, rows, acked, failed, arrived, pending, chain>>
        /\ nextSeq' = nextSeq + 1 /\ writing[p] = 0 /\ writing'[p] # 0
    BY <1>0, <1>4 DEF InsertStart, IInv, TypeOK
  <2>2. Inserting(p) = 0 /\ Inserting(p)' = 1 /\ Collecting(p)' = Collecting(p)
    BY <2>1 DEF Inserting, Collecting
  <2>3. Drawn(p)'
    BY <1>0, <2>1, <2>2 DEF Drawn
  <2>4. Queued(p)' = Queued(p) /\ Waiting(p)' = Waiting(p)
    BY <2>1 DEF Queued, Waiting
  <2>5. Kept'
    BY <1>0, <2>1, <2>4 DEF Kept
  <2> QED BY <1>1, <2>1, <2>3, <2>4, <2>5
<1>5. ASSUME InsertCommit(p) \/ InsertFail(p)
      PROVE  /\ Drawn(p)' /\ Queued(p) = Queued(p)' \cup Head(chain[p]).ups
             /\ Head(chain[p]).ups \cap Waiting(p)' = {}
             /\ UNCHANGED <<base, baseSeq, job, arrived>>
             /\ \A u \in Head(chain[p]).ups : u.n <= arrived
             /\ Head(chain[p]).ups \in SUBSET Updates
  <2>1. chain[p] # << >>
    BY <1>5 DEF InsertCommit, InsertFail, IInv, Ordered, Queue
  <2>2. /\ UNCHANGED <<base, baseSeq, job, arrived, pending, nextSeq>>
        /\ chain'[p] = Tail(chain[p]) /\ writing'[p] = 0
    BY <1>5 DEF InsertCommit, InsertFail, IInv, TypeOK
  <2>3. /\ Queued(p) = Queued(p)' \cup Head(chain[p]).ups
        /\ Head(chain[p]).ups \cap Queued(p)' = {}
        /\ Head(chain[p]).ups \cap pending[p].ups = {}
        /\ Len(chain'[p]) = Len(chain[p]) - 1
    BY <2>1, <2>2, QueuedTail
  <2>4. Inserting(p) \in 0 .. 1 /\ Inserting(p)' = 0 /\ Collecting(p)' = Collecting(p)
    BY <2>2 DEF Inserting, Collecting
  <2>5. Drawn(p)'
    BY <1>0, <2>2, <2>3, <2>4 DEF Drawn
  <2>6. \A u \in Head(chain[p]).ups : u.n <= arrived
    BY <2>1, TailQueue
  <2>7. Head(chain[p]) \in Batches
    BY <1>0, <2>1, TailSeq
  <2> QED BY <2>2, <2>3, <2>5, <2>6, <2>7 DEF Waiting, Batches
<1>6. CASE InsertFail(p)
  <2>1. UNCHANGED <<rows, acked>> /\ failed' = failed \cup Head(chain[p]).ups
    BY <1>6 DEF InsertFail
  <2>2. \A u \in Waiting(p)' : u \in Waiting(p)
    <3>1. UNCHANGED pending
      BY <1>6 DEF InsertFail
    <3> QED BY <1>5, <1>6, <3>1 DEF Waiting
  <2>3. Kept'
    BY <1>0, <1>5, <1>6, <2>1, <2>2 DEF Kept
  <2> QED BY <1>1, <1>5, <1>6, <2>1, <2>3
<1>7. CASE InsertCommit(p)
  <2> DEFINE b == Head(chain[p])
  <2>1. PICK new : new = [seq |-> writing[p], ups |-> b.ups, actor |-> b.actor]
    OBVIOUS
  <2>2. /\ rows' = rows \cup {new} /\ acked' = acked \cup new.ups /\ UNCHANGED <<failed, pending>>
        /\ new.seq = writing[p] /\ new.ups = b.ups /\ writing[p] # 0
    BY <1>7, <2>1 DEF InsertCommit
  <2>3. /\ Drawn(p)' /\ Queued(p) = Queued(p)' \cup new.ups
        /\ new.ups \cap Waiting(p)' = {}
        /\ UNCHANGED <<base, baseSeq, job, arrived>>
        /\ \A u \in new.ups : u.n <= arrived
    BY <1>5, <1>7, <2>2
  <2>4. new.seq > baseSeq
    BY <2>2 DEF Safe, Ahead
  <2>5. new.ups \cap acked = {}
    BY <1>0, <2>3 DEF Kept, Waiting
  <2>6. \A u \in Waiting(p)' : u \in Waiting(p)
    BY <2>2, <2>3 DEF Waiting
  <2>7. Kept'
    <3>1. acked' \cap Waiting(p)' = {}
      BY <1>0, <2>2, <2>3, <2>6 DEF Kept
    <3>2. \A u \in acked' : u.n <= arrived'
      BY <1>0, <2>2, <2>3 DEF Kept
    <3>3. \A r \in rows' : r.ups \subseteq acked' /\ (r.seq > baseSeq' => r.ups \cap base' = {})
      BY <1>0, <2>2, <2>3, <2>5 DEF Kept
    <3> QED BY <1>0, <2>2, <2>3, <3>1, <3>2, <3>3 DEF Kept
  <2>8. \A r \in rows' : r \in rows \/ (r.ups \cap acked = {} /\ r.seq > baseSeq)
    BY <2>2, <2>4, <2>5
  <2>9. \A u \in Queued(p) : u \in Queued(p)' \cup acked' \cup failed'
    BY <2>2, <2>3
  <2>10. acked \subseteq acked' /\ failed \subseteq failed' /\ rows \subseteq rows'
    BY <2>2
  <2> QED BY <1>1, <2>3, <2>7, <2>8, <2>9, <2>10
<1> QED BY <1>2, <1>3, <1>4, <1>6, <1>7

\* Steps that move one job, and nothing of the log or of the board.
LEMMA OneJobFaithful ==
  ASSUME Alone, IInv, Faithful, NEW j \in Jobs,
         UNCHANGED <<batches, log, base, baseSeq>>,
         \A i \in Jobs \ {j} : job'[i] = job[i],
         Folded(j)', Awaited(j)', Reading(j)'
  PROVE  Faithful'
<1>1. /\ Kept /\ \A i \in Jobs : Folded(i) /\ Awaited(i) /\ Reading(i)
      /\ UNCHANGED <<arrived, pending, chain, writing, nextSeq, rows, acked, failed, base, baseSeq>>
  BY DEF Faithful, batches, log
<1>2. ASSUME NEW i \in Jobs \ {j} PROVE Folded(i)' /\ Awaited(i)' /\ Reading(i)'
  <2>1. At(i, "flush") => \A u \in Queued(job[i].at) : u \in Queued(job[i].at)' \cup acked' \cup failed'
    BY <1>1 DEF Queued
  <2> QED BY <1>1, <2>1, JobStays
<1>3. Kept' /\ \A p \in Processes : Drawn(p)'
  BY <1>1 DEF Faithful, Kept, Drawn, Waiting, Queued, Collecting, Inserting
<1> QED BY <1>2, <1>3 DEF Faithful

LEMMA StartFaithful ==
  ASSUME Alone, IInv, Faithful, NEW p \in Processes, NEW j \in Jobs,
         NEW until \in 1 .. MaxUpdates \cup {MaxUpdates},
         StartCompact(j, p) \/ StartRebuild(j, p, until) \/ StartLoad(j, p)
  PROVE  Faithful'
<1>0. /\ Drawn(p) /\ Kept /\ \A q \in Processes : q = p
      /\ \A i \in Jobs : Folded(i) /\ Awaited(i) /\ Reading(i)
      /\ job \in [Jobs -> JobRecords]
  BY DEF Faithful, Alone, IInv, TypeOK
<1>1. CASE StartLoad(j, p)
  <2>1. /\ job'[j] = [Idle EXCEPT !.pc = "base", !.at = p, !.until = MaxUpdates, !.start = acked]
        /\ \A i \in Jobs \ {j} : job'[i] = job[i]
        /\ UNCHANGED <<batches, log, base, baseSeq>> /\ UNCHANGED <<acked, failed>>
    BY <1>0, <1>1 DEF StartLoad, log
  <2>2. job'[j].pc = "base" /\ job'[j].at = p /\ job'[j].start = acked /\ job'[j].mine = {}
    BY <2>1 DEF Idle
  <2>3. Folded(j)' /\ Awaited(j)' /\ Reading(j)'
    BY <2>1, <2>2 DEF Folded, Awaited, Reading
  <2> QED BY <2>1, <2>3, OneJobFaithful
<1>2. ASSUME NEW t, FlushFirst(j, p, t), UNCHANGED <<arrived, writing, log, base, baseSeq>>
      PROVE  Faithful'
  <2>1. /\ job'[j] = [Idle EXCEPT !.pc = "flush", !.at = p, !.until = t, !.flushed = TRUE,
                                  !.wait = Waiting(p), !.mine = Waiting(p), !.start = acked]
        /\ \A i \in Jobs \ {j} : job'[i] = job[i]
        /\ FlushOne(p) /\ UNCHANGED <<nextSeq, rows, acked, failed, base, baseSeq, arrived>>
    BY <1>0, <1>2 DEF FlushFirst, log, Waiting
  <2>2. Queued(p)' = Waiting(p) /\ Waiting(p)' = Waiting(p) /\ Drawn(p)'
    BY <1>0, <1>2, <2>1, FlushMoves
  <2>3. /\ job'[j].pc = "flush" /\ job'[j].at = p /\ job'[j].start = acked
        /\ job'[j].wait = Waiting(p) /\ job'[j].mine = Waiting(p)
    BY <2>1 DEF Idle
  <2>4. Folded(j)' /\ Awaited(j)' /\ Reading(j)'
    BY <2>1, <2>2, <2>3 DEF Folded, Awaited, Reading
  <2>5. ASSUME NEW i \in Jobs \ {j} PROVE Folded(i)' /\ Awaited(i)' /\ Reading(i)'
    <3>1. At(i, "flush") => \A u \in Queued(job[i].at) : u \in Queued(job[i].at)' \cup acked' \cup failed'
      <4> SUFFICES ASSUME At(i, "flush")
                   PROVE \A u \in Queued(job[i].at) : u \in Queued(job[i].at)' \cup acked' \cup failed'
        OBVIOUS
      <4>1. job[i].at = p /\ job'[i] = job[i]
        BY <1>0, <2>1 DEF Awaited
      <4> QED BY <2>2, <4>1 DEF Waiting
    <3> QED BY <1>0, <2>1, <3>1, JobStays
  <2>6. Kept'
    BY <1>0, <2>1, <2>2 DEF Kept
  <2>7. \A q \in Processes : Drawn(q)'
    BY <1>0, <2>2
  <2> QED BY <2>4, <2>5, <2>6, <2>7 DEF Faithful
<1> QED BY <1>1, <1>2 DEF StartCompact, StartRebuild

LEMMA CrashFaithful ==
  ASSUME Alone, IInv, Faithful, NEW p \in Processes, Crash(p)
  PROVE  Faithful'
<1>0. /\ Drawn(p) /\ Kept /\ \A q \in Processes : q = p
      /\ \A i \in Jobs : Folded(i) /\ Awaited(i) /\ Reading(i)
      /\ arrived \in Nat /\ nextSeq \in Nat /\ nextSeq <= arrived + 1
  BY SeqBound DEF Faithful, Alone, IInv, TypeOK
<1>1. /\ pending'[p].ups = {} /\ chain'[p] = << >> /\ writing'[p] = 0
      /\ \A i \in Jobs : job'[i] = IF job[i].at = p THEN Idle ELSE job[i]
      /\ UNCHANGED <<arrived, nextSeq, rows, acked, failed, base, baseSeq>>
  BY DEF Crash, log, NoBatch, IInv, TypeOK
<1>2. Queued(p)' = {} /\ Waiting(p)' = {} /\ Collecting(p)' = 0 /\ Inserting(p)' = 0
  BY <1>1 DEF Queued, Waiting, Collecting, Inserting
<1>3. Len(chain'[p]) = 0
  BY <1>1
<1>4. \A q \in Processes : Drawn(q)'
  BY <1>0, <1>1, <1>2, <1>3 DEF Drawn
<1>5. Kept'
  BY <1>0, <1>1, <1>2 DEF Kept
<1>6. ASSUME NEW i \in Jobs PROVE Folded(i)' /\ Awaited(i)' /\ Reading(i)'
  <2>1. CASE job[i].at = p
    BY <1>1, <2>1, JobReset
  <2>2. CASE job[i].at # p
    <3>1. At(i, "idle") /\ job'[i] = job[i]
      BY <1>0, <1>1, <2>2 DEF Awaited
    <3> QED BY <1>0, <1>1, <3>1, JobStays
  <2> QED BY <2>1, <2>2
<1> QED BY <1>4, <1>5, <1>6 DEF Faithful

-----------------------------------------------------------------------------
(* The queries of the jobs.                                                *)

LEMMA ReadRowsExact ==
  ASSUME Alone, IInv, Safe, Faithful, NEW r \in Jobs, ReadRows(r)
  PROVE  Folded(r)' /\ Awaited(r)' /\ Reading(r)'
<1> DEFINE R == {x \in After(job[r].seq) : x.seq <= job[r].until}
           doc == job[r].doc \cup Merged(R)
<1>0. /\ Kept /\ Awaited(r) /\ Reading(r) /\ r \in Readers /\ At(r, "rows")
      /\ job[r] \in JobRecords /\ job[r].seq \in Nat /\ job[r].until \in Nat /\ baseSeq \in Nat
      /\ \A x \in rows : x.seq \in Nat
  BY JobFields DEF Faithful, ReadRows, IInv, TypeOK, Rows
<1>1. /\ job'[r].pc = "done" /\ job'[r].doc = doc /\ job'[r].seq = job[r].seq
      /\ job'[r].until = job[r].until /\ job'[r].start = job[r].start
      /\ job'[r].mine = job[r].mine /\ job'[r].at = job[r].at
      /\ UNCHANGED <<rows, base, baseSeq, acked, failed>>
  <2> HIDE DEF doc
  <2>1. job' = [job EXCEPT ![r] = [job[r] EXCEPT !.pc = "done", !.doc = doc]]
    BY DEF ReadRows, IInv, TypeOK, doc
  <2>2. job'[r] = [job[r] EXCEPT !.pc = "done", !.doc = doc]
    BY <2>1 DEF IInv, TypeOK
  <2>3. UNCHANGED <<rows, base, baseSeq, acked, failed>>
    BY DEF ReadRows, log
  <2> QED BY <1>0, <2>2, <2>3 DEF JobRecords
<1>2. Folded(r)' /\ Awaited(r)'
  BY <1>0, <1>1 DEF Folded, Awaited
<1>3. ASSUME Quiet(r) PROVE Exact(r)'
  <2>1. /\ baseSeq = job[r].seq /\ job[r].doc = base
        /\ R = {x \in rows : x.seq > baseSeq /\ x.seq <= job[r].until}
    BY <1>0, <1>3 DEF Quiet, Reading, After
  <2>2. doc \subseteq acked
    BY <1>0, <2>1 DEF Kept, Merged
  <2>3. ASSUME NEW x \in rows, x.seq > baseSeq, x.ups \cap doc # {} PROVE x.seq <= job[r].until
    <3>1. PICK u \in x.ups : u \in doc
      BY <2>3
    <3>2. u \notin base /\ u.n \in Nat
      BY <1>0, <2>3, NumbersTyped DEF Kept, IInv
    <3>3. PICK y \in R : u \in y.ups
      BY <2>1, <3>1, <3>2 DEF Merged
    <3>4. ~(y.seq < x.seq)
      BY <2>1, <3>1, <3>2, <3>3 DEF IInv, Ordered, ArrivalOrder
    <3> QED BY <1>0, <2>1, <3>3, <3>4
  <2>4. job[r].start \subseteq doc \cup Merged({x \in rows : x.seq > job[r].until})
    <3> SUFFICES ASSUME NEW u \in job[r].start
                 PROVE  u \in doc \cup Merged({x \in rows : x.seq > job[r].until})
      OBVIOUS
    <3>1. u \in Board
      BY <1>0 DEF Awaited, Safe, NothingLost
    <3>2. CASE u \in base
      BY <2>1, <3>2
    <3>3. ASSUME NEW x \in rows, x.seq > baseSeq, u \in x.ups
          PROVE  u \in doc \cup Merged({y \in rows : y.seq > job[r].until})
      BY <1>0, <2>1, <3>3 DEF Merged
    <3> QED BY <3>1, <3>2, <3>3 DEF Board, Merged, After
  <2>5. job[r].until = MaxUpdates => job[r].mine \subseteq doc \cup failed
    <3> SUFFICES ASSUME job[r].until = MaxUpdates, NEW u \in job[r].mine, u \notin failed
                 PROVE  u \in doc
      OBVIOUS
    <3>1. u \in Board /\ job[r].at \in Processes
      BY <1>0 DEF Awaited, Safe, NothingLost
    <3>2. \A x \in rows : x.seq <= MaxUpdates
      BY <3>1, SeqBound DEF Faithful
    <3>3. CASE u \in base
      BY <2>1, <3>3
    <3>4. ASSUME NEW x \in rows, x.seq > baseSeq, u \in x.ups PROVE u \in doc
      BY <2>1, <3>2, <3>4 DEF Merged
    <3> QED BY <3>1, <3>3, <3>4 DEF Board, Merged, After
  <2>6. Merged({x \in rows : x.seq > job[r].until})' = Merged({x \in rows : x.seq > job[r].until})
    BY <1>1 DEF Merged
  <2> HIDE DEF doc
  <2> QED BY <1>1, <2>2, <2>3, <2>4, <2>5, <2>6 DEF Exact
<1>4. Quiet(r)' => Quiet(r)
  BY <1>1 DEF Quiet
<1>5. Reading(r)'
  <2> HIDE DEF doc
  <2> QED BY <1>0, <1>1, <1>3, <1>4 DEF Reading
<1> QED BY <1>2, <1>5

\* The queries of compact, and of what the reads share with it.
LEMMA FoldFaithful ==
  ASSUME Alone, IInv, Safe, Faithful, NEW c \in Jobs, Fold(c), ~Done(c)
  PROVE  Folded(c)' /\ Awaited(c)' /\ Reading(c)'
<1> DEFINE doc(last) == job[c].doc \cup Merged({r \in After(job[c].seq) : r.seq <= last.seq})
<1>0. /\ Kept /\ Awaited(c) /\ c \in Compactors /\ At(c, "rows") /\ c \notin Readers
      /\ job[c] \in JobRecords /\ baseSeq \in Nat /\ \A x \in rows : x.seq \in Nat
      /\ job[c].doc = base /\ job[c].seq = baseSeq
  BY JobFields, JobsAssumption DEF Faithful, Safe, Compaction, Fold, IInv, TypeOK, Rows
<1>1. PICK last \in After(job[c].seq) :
        job' = [job EXCEPT ![c].pc = "write", ![c].cut = last.seq, ![c].doc = doc(last)]
  BY DEF Fold
<1>2. last \in rows /\ last.seq > baseSeq
  BY <1>0 DEF After
<1>3. doc(last) \subseteq acked
  BY <1>0 DEF Kept, Merged, After
<1>4. ASSUME NEW r \in rows, r.seq > last.seq PROVE r.ups \cap doc(last) = {}
  <2> SUFFICES ASSUME NEW u \in r.ups, u \in doc(last) PROVE FALSE
    OBVIOUS
  <2>1. u \notin base /\ u.n \in Nat
    BY <1>0, <1>2, <1>4, NumbersTyped DEF Kept, IInv
  <2>2. PICK y \in rows : y.seq <= last.seq /\ u \in y.ups
    BY <1>0, <2>1 DEF Merged, After
  <2>3. y.seq < r.seq
    BY <1>0, <1>2, <1>4, <2>2
  <2> QED BY <2>1, <2>2, <2>3 DEF IInv, Ordered, ArrivalOrder
<1>5. UNCHANGED <<rows, base, baseSeq, acked, failed>>
  BY DEF Fold, log
<1> HIDE DEF doc
<1>6. /\ job'[c].pc = "write" /\ job'[c].cut = last.seq /\ job'[c].doc = doc(last)
      /\ job'[c].start = job[c].start /\ job'[c].at = job[c].at
  BY <1>0, <1>1 DEF JobRecords, IInv, TypeOK
<1>7. Folded(c)' /\ Reading(c)'
  BY <1>0, <1>2, <1>3, <1>4, <1>5, <1>6 DEF Folded, Reading
<1>8. Awaited(c)'
  BY <1>0, <1>5, <1>6 DEF Awaited
<1> QED BY <1>7, <1>8

LEMMA WriteFaithful ==
  ASSUME Alone, IInv, Safe, Faithful, NEW c \in Jobs, WriteBase(c)
  PROVE  Faithful'
<1>0. /\ Kept /\ \A i \in Jobs : Folded(i) /\ Awaited(i) /\ Reading(i)
      /\ c \in Compactors /\ At(c, "write") /\ c \notin Readers
      /\ job[c] \in JobRecords /\ baseSeq \in Nat /\ job[c].cut \in Nat
      /\ \A i \in Jobs : job[i].seq \in Nat
      /\ baseSeq < job[c].cut /\ job[c].doc \subseteq acked
      /\ \A r \in rows : r.seq > job[c].cut => r.ups \cap job[c].doc = {}
      /\ UNCHANGED <<arrived, pending, chain, writing, rows, nextSeq, acked, failed>>
  BY JobFields, JobsAssumption
  DEF Faithful, Folded, Safe, Compaction, WriteBase, IInv, TypeOK, batches, log
<1>1. base' = job[c].doc /\ baseSeq' = job[c].cut /\ job' = [job EXCEPT ![c].pc = "delete"]
  BY <1>0 DEF WriteBase
<1>2. /\ job'[c].pc = "delete" /\ job'[c].start = job[c].start /\ job'[c].at = job[c].at
      /\ \A i \in Jobs \ {c} : job'[i] = job[i]
  BY <1>0, <1>1 DEF JobRecords, IInv, TypeOK
<1>3. Folded(c)' /\ Awaited(c)' /\ Reading(c)'
  BY <1>0, <1>2 DEF Folded, Awaited, Reading
<1>4. ASSUME NEW i \in Jobs \ {c} PROVE Folded(i)' /\ Awaited(i)' /\ Reading(i)'
  <2>1. job[i].pc # "write" /\ job'[i] = job[i]
    BY <1>0, <1>2 DEF Alone, Safe, Compaction
  <2>2. Folded(i)'
    BY <2>1 DEF Folded
  <2>3. Awaited(i)'
    BY <1>0, <2>1 DEF Awaited, Queued
  <2>4. i \in Readers /\ job[i].pc \in {"rows", "done"} =>
          job[i].seq < baseSeq' /\ job[i].seq <= job[i].until
    <3>1. i \in Readers /\ job[i].pc \in {"rows", "done"} =>
            job[i].seq <= baseSeq /\ job[i].seq <= job[i].until
      BY <1>0 DEF Reading
    <3> QED BY <1>0, <1>1, <3>1
  <2>5. i \in Readers /\ job[i].pc \in {"rows", "done"} => ~(baseSeq' = job[i].seq) /\ job[i].seq <= baseSeq'
    BY <1>0, <1>1, <2>4
  <2>6. Reading(i)'
    BY <2>1, <2>4, <2>5 DEF Reading, Quiet
  <2> QED BY <2>2, <2>3, <2>6
<1>5. Kept'
  BY <1>0, <1>1 DEF Kept, Waiting, Queued
<1>6. \A p \in Processes : Drawn(p)'
  BY <1>0 DEF Faithful, Drawn, Collecting, Inserting
<1> QED BY <1>3, <1>4, <1>5, <1>6 DEF Faithful

LEMMA DeleteFaithful ==
  ASSUME Alone, IInv, Safe, Faithful, NEW c \in Jobs, DeleteRows(c)
  PROVE  Faithful'
<1>0. /\ Kept /\ \A i \in Jobs : Folded(i) /\ Awaited(i) /\ Reading(i)
      /\ c \in Compactors /\ baseSeq \in Nat /\ job[c].cut = baseSeq
      /\ \A i \in Jobs : job[i].until \in Nat
      /\ \A x \in rows : x.seq \in Nat
      /\ UNCHANGED <<arrived, pending, chain, writing, nextSeq, acked, failed, base, baseSeq>>
  BY JobFields DEF Faithful, Safe, Compaction, DeleteRows, IInv, TypeOK, Rows, batches
<1>1. /\ rows' = {r \in rows : r.seq > baseSeq}
      /\ job'[c] = Idle /\ \A i \in Jobs \ {c} : job'[i] = job[i]
  BY <1>0 DEF DeleteRows, After, Done, IInv, TypeOK
<1>2. Folded(c)' /\ Awaited(c)' /\ Reading(c)'
  BY <1>1, JobReset
<1>3. ASSUME NEW i \in Jobs \ {c} PROVE Folded(i)' /\ Awaited(i)' /\ Reading(i)'
  <2>1. Folded(i) /\ Awaited(i) /\ Reading(i) /\ job'[i] = job[i]
    BY <1>0, <1>1
  <2>2. Folded(i)'
    BY <1>0, <1>1, <2>1 DEF Folded
  <2>3. Awaited(i)'
    BY <1>0, <2>1 DEF Awaited, Queued
  <2>4. ASSUME i \in Readers, At(i, "done"), Quiet(i) PROVE Exact(i)'
    <3>1. Exact(i) /\ baseSeq <= job[i].until
      BY <2>1, <2>4 DEF Reading, Quiet
    <3>2. {x \in rows' : x.seq > job[i].until} = {x \in rows : x.seq > job[i].until}
      BY <1>0, <1>1, <3>1
    <3>3. Merged({x \in rows : x.seq > job[i].until})' = Merged({x \in rows : x.seq > job[i].until})
      BY <2>1, <3>2 DEF Merged
    <3> QED BY <1>0, <1>1, <2>1, <3>1, <3>3 DEF Exact
  <2>5. Quiet(i)' = Quiet(i)
    BY <1>0, <2>1 DEF Quiet
  <2>6. Reading(i)'
    BY <1>0, <2>1, <2>4, <2>5 DEF Reading
  <2> QED BY <2>2, <2>3, <2>6
<1>4. Kept' /\ \A p \in Processes : Drawn(p)'
  BY <1>0, <1>1 DEF Faithful, Kept, Drawn, Waiting, Queued, Collecting, Inserting
<1> QED BY <1>2, <1>3, <1>4 DEF Faithful

LEMMA JobFaithful ==
  ASSUME Alone, IInv, Safe, Faithful, NEW j \in Jobs, JobStep(j)
  PROVE  Faithful'
<1>0. /\ Kept /\ Folded(j) /\ Awaited(j) /\ Reading(j) /\ Compaction(j)
      /\ job[j] \in JobRecords /\ baseSeq \in Nat /\ job[j].until \in Nat
  BY JobFields DEF Faithful, Safe, IInv, TypeOK
<1>1. ASSUME Folded(j)' /\ Awaited(j)' /\ Reading(j)',
             Flushed(j) \/ LoadBase(j) \/ ReadRows(j) \/ Return(j) \/ Fold(j) \/ JobFail(j)
      PROVE  Faithful'
  <2>1. UNCHANGED <<batches, log, base, baseSeq>>
    BY <1>1 DEF Flushed, LoadBase, ReadRows, Return, Fold, JobFail
  <2>2. \A i \in Jobs \ {j} : job'[i] = job[i]
    BY <1>1 DEF Flushed, LoadBase, ReadRows, Return, Fold, JobFail, Done, IInv, TypeOK
  <2> QED BY <1>1, <2>1, <2>2, OneJobFaithful
<1>2. ASSUME Done(j) PROVE Folded(j)' /\ Awaited(j)' /\ Reading(j)'
  <2>1. job'[j] = Idle
    BY <1>2 DEF Done, IInv, TypeOK
  <2> QED BY <2>1, JobReset
<1>3. CASE Return(j) \/ JobFail(j) \/ (Fold(j) /\ Done(j))
  <2>1. Done(j)
    BY <1>3 DEF Return, JobFail
  <2> QED BY <1>1, <1>2, <1>3, <2>1
<1>4. CASE Flushed(j)
  <2>1. job' = [job EXCEPT ![j] = [job[j] EXCEPT !.pc = "base", !.wait = {}]]
    BY <1>4 DEF Flushed, IInv, TypeOK
  <2>2. /\ job'[j].pc = "base" /\ job'[j].start = job[j].start /\ job'[j].mine = job[j].mine
        /\ job'[j].at = job[j].at
    BY <1>0, <2>1 DEF JobRecords, IInv, TypeOK
  <2>3. UNCHANGED <<acked, failed>> /\ At(j, "flush") /\ job[j].wait \cap Queued(job[j].at) = {}
    BY <1>4 DEF Flushed, log
  <2>4. job[j].mine \subseteq acked \cup failed
    BY <1>0, <2>3 DEF Awaited
  <2>5. Folded(j)' /\ Awaited(j)' /\ Reading(j)'
    BY <1>0, <2>2, <2>3, <2>4 DEF Folded, Awaited, Reading
  <2> QED BY <1>1, <1>4, <2>5
<1>5. CASE LoadBase(j)
  <2>1. CASE job[j].until < baseSeq
    <3>1. job'[j] = Idle
      BY <1>5, <2>1 DEF LoadBase, IInv, TypeOK
    <3> QED BY <1>1, <1>5, <3>1, JobReset
  <2>2. CASE ~(job[j].until < baseSeq)
    <3>1. job'[j] = [job[j] EXCEPT !.pc = "rows", !.doc = base, !.seq = baseSeq]
      BY <1>5, <2>2 DEF LoadBase, IInv, TypeOK
    <3>2. /\ job'[j].pc = "rows" /\ job'[j].doc = base /\ job'[j].seq = baseSeq
          /\ job'[j].start = job[j].start /\ job'[j].mine = job[j].mine
          /\ job'[j].at = job[j].at /\ job'[j].until = job[j].until
      BY <1>0, <3>1 DEF JobRecords
    <3>3. UNCHANGED <<acked, failed, base, baseSeq>> /\ At(j, "base")
      BY <1>5 DEF LoadBase, log
    <3>4. Folded(j)' /\ Awaited(j)'
      BY <1>0, <3>2, <3>3 DEF Folded, Awaited
    <3>5. Reading(j)'
      BY <1>0, <2>2, <3>2, <3>3 DEF Reading
    <3> QED BY <1>1, <1>5, <3>4, <3>5
  <2> QED BY <2>1, <2>2
<1>6. CASE ReadRows(j)
  BY <1>1, <1>6, ReadRowsExact
<1>7. CASE Fold(j) /\ ~Done(j)
  BY <1>1, <1>7, FoldFaithful
<1> QED BY <1>3, <1>4, <1>5, <1>6, <1>7, WriteFaithful, DeleteFaithful DEF JobStep

LEMMA NextFaithful ==
  ASSUME Alone, IInv, Safe, Faithful, [Next]_vars
  PROVE  Faithful'
<1>1. CASE UNCHANGED vars
  <2>1. \A p \in Processes : Drawn(p)'
    BY <1>1 DEF vars, Faithful, Drawn, Collecting, Inserting
  <2>2. Kept'
    BY <1>1 DEF vars, Faithful, Kept, Waiting, Queued
  <2>3. \A j \in Jobs : Folded(j)' /\ Awaited(j)' /\ Reading(j)'
    BY <1>1 DEF vars, Faithful, Folded, Awaited, Reading, Queued, Quiet, Exact, Merged
  <2> QED BY <2>1, <2>2, <2>3 DEF Faithful
<1> QED BY <1>1, NextCases, BatchFaithful, StartFaithful, CrashFaithful, JobFaithful

\* With one process and one compaction at a time, a read that no compaction overtook
\* returns the board of the moment it asks for, and the history list holds all that
\* the process had received (rebuild, entries, load).
THEOREM ReadsSeeTheBoard ==
  ASSUME Alone
  PROVE  Spec => []ReadsAreExact
<1>1. Init => Safe /\ Faithful
  BY InitSafe, InitFaithful
<1>2. IInv /\ (Safe /\ Faithful) /\ [Next]_vars => (Safe /\ Faithful)'
  <2> SUFFICES ASSUME IInv, Safe, Faithful, [Next]_vars PROVE Safe' /\ Faithful'
    OBVIOUS
  <2> QED BY NextSafe, NextFaithful
<1>3. Safe /\ Faithful => ReadsAreExact
  <2> SUFFICES ASSUME Faithful, NEW r \in Readers, At(r, "done"), Quiet(r) PROVE Exact(r)
    BY DEF ReadsAreExact, RebuildIsExact, HistoryHasMine, Exact
  <2> QED BY DEF Faithful, Reading, Jobs
<1> QED BY <1>1, <1>2, <1>3, Invariance, PTL DEF Spec
=============================================================================
