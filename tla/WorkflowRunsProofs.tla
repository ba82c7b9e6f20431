--------------------------- MODULE WorkflowRunsProofs ---------------------------
(***************************************************************************)
(* Proofs about WorkflowRuns and WorkflowTriggers, for every graph that    *)
(* may run, any number of run objects, rows and windows, and whatever      *)
(* people, crashes and failed queries do: no run passes a review that      *)
(* nobody approved, what looks like running is under way, a window is      *)
(* handed to one run, and a run keeps to its graph.                        *)
(***************************************************************************)
EXTENDS WorkflowTriggers, WellFoundedInduction, FiniteSetTheorems, TLAPS

PCs == {"free", "copy", "insert", "window", "row", "step"}
Thens == {"track", "step", "leave", "reply"}
Objects == [pc : PCs, id : Runs \cup {NoRun}, at : 1 .. Len(Order) + 1, res : [Nodes -> Results],
            status : Open \cup Over, aborted : BOOLEAN, then : Thens]

-----------------------------------------------------------------------------
(* Least numbers, by which what is computed step by step is followed.      *)

Less == OpToRel(<, Nat)

LEMMA LessIsWellFounded == IsWellFoundedOn(Less, Nat)
BY NatLessThanWellFounded, Zenon DEF Less

LEMMA HasLeast ==
  ASSUME NEW S \in SUBSET Nat, S # {}
  PROVE  \E k \in S : \A l \in S : k <= l
<1>1. \A x, y \in Nat : <<x, y>> \in Less <=> x < y
  BY DEF Less, OpToRel
<1>2. PICK k \in S : \A l \in S : ~(<<l, k>> \in Less)
  BY LessIsWellFounded, WFMin, Zenon
<1>3. \A l \in S : ~(l < k)
  BY <1>1, <1>2
<1> QED BY <1>3

-----------------------------------------------------------------------------
(* runOrder.                                                               *)

\* Picked, place by place.
PickedTo(s, S, m, t) ==
  t = [k \in 0 .. m |->
        IF k = 0 THEN <<>> ELSE IF k \in S THEN Append(t[k - 1], s[k]) ELSE t[k - 1]]

LEMMA PickedExists ==
  ASSUME NEW s, NEW S, NEW n \in Nat
  PROVE  \E t : PickedTo(s, S, n, t)
<1> DEFINE Bad == {m \in Nat : ~\E t : PickedTo(s, S, m, t)}
<1> SUFFICES ASSUME Bad # {} PROVE FALSE
  OBVIOUS
<1>1. PICK m \in Bad : \A l \in Bad : m <= l
  BY HasLeast
<1>2. m # 0
  <2> DEFINE t == [k \in 0 .. 0 |-> <<>>]
  <2>1. PickedTo(s, S, 0, t)
    BY DEF PickedTo
  <2> QED BY <2>1
<1>3. PICK t : PickedTo(s, S, m - 1, t)
  <2>1. m - 1 \in Nat /\ ~(m <= m - 1)
    BY <1>1, <1>2
  <2> QED BY <1>1, <2>1
<1>4. PICK v : v = IF m \in S THEN Append(t[m - 1], s[m]) ELSE t[m - 1]
  OBVIOUS
<1>5. PICK u : u = [k \in 0 .. m |-> IF k = m THEN v ELSE t[k]]
  OBVIOUS
<1>6. ASSUME NEW k \in 0 .. m
      PROVE  u[k] = IF k = 0 THEN <<>> ELSE IF k \in S THEN Append(u[k - 1], s[k]) ELSE u[k - 1]
  <2>1. CASE k = m
    <3>1. u[k] = v /\ k # 0 /\ u[k - 1] = t[k - 1]
      BY <1>1, <1>2, <1>5, <2>1
    <3> QED BY <1>4, <2>1, <3>1
  <2>2. CASE k # m
    <3>1. k \in 0 .. m - 1 /\ u[k] = t[k]
      BY <1>1, <1>5, <2>2
    <3>2. k # 0 => u[k - 1] = t[k - 1]
      BY <1>1, <1>5, <3>1
    <3>3. t[k] = IF k = 0 THEN <<>> ELSE IF k \in S THEN Append(t[k - 1], s[k]) ELSE t[k - 1]
      BY <1>3, <3>1 DEF PickedTo
    <3> QED BY <3>1, <3>2, <3>3
  <2> QED BY <2>1, <2>2
<1>7. PickedTo(s, S, m, u)
  <2>1. u = [k \in 0 .. m |-> u[k]]
    BY <1>5
  <2> QED BY <1>6, <2>1 DEF PickedTo
<1> QED BY <1>1, <1>7

LEMMA PickedIs ==
  ASSUME NEW s, NEW S, Len(s) \in Nat
  PROVE  \E t : PickedTo(s, S, Len(s), t) /\ Picked(s, S) = t[Len(s)]
<1> DEFINE t == CHOOSE t : PickedTo(s, S, Len(s), t)
<1>1. PickedTo(s, S, Len(s), t)
  BY PickedExists
<1>2. Picked(s, S) = t[Len(s)]
  BY DEF Picked, PickedTo
<1> QED BY <1>1, <1>2
\* Each element once.
LEMMA OnceAppended ==
  ASSUME NEW T, NEW q \in Seq(T), NEW v \in T
  PROVE  /\ Append(q, v) \in Seq(T) /\ Range(Append(q, v)) = Range(q) \cup {v}
         /\ IsInjective(q) /\ v \notin Range(q) => IsInjective(Append(q, v))
<1> DEFINE r == Append(q, v)
<1>1. /\ r \in Seq(T) /\ Len(q) \in Nat /\ DOMAIN q = 1 .. Len(q) /\ DOMAIN r = 1 .. Len(q) + 1
      /\ \A k \in 1 .. Len(q) : r[k] = q[k]
      /\ r[Len(q) + 1] = v
  OBVIOUS
<1> HIDE DEF r
<1>2. Range(r) = Range(q) \cup {v}
  BY <1>1 DEF Range
<1>3. IsInjective(q) /\ v \notin Range(q) => IsInjective(r)
  BY <1>1 DEF Range, IsInjective
<1> QED BY <1>1, <1>2, <1>3 DEF r

LEMMA OnceTaken ==
  ASSUME NEW T, NEW q \in Seq(T), q # <<>>
  PROVE  /\ Head(q) \in T /\ Tail(q) \in Seq(T) /\ Range(q) = {Head(q)} \cup Range(Tail(q))
         /\ IsInjective(q) => IsInjective(Tail(q)) /\ Head(q) \notin Range(Tail(q))
<1> DEFINE r == Tail(q)
<1>1. /\ r \in Seq(T) /\ Len(q) \in Nat \ {0} /\ DOMAIN q = 1 .. Len(q) /\ DOMAIN r = 1 .. Len(q) - 1
      /\ \A k \in 1 .. Len(q) - 1 : r[k] = q[k + 1]
      /\ Head(q) = q[1] /\ q[1] \in T
  OBVIOUS
<1> HIDE DEF r
<1>2. \A k \in 1 .. Len(q) : k = 1 \/ (k - 1 \in 1 .. Len(q) - 1 /\ r[k - 1] = q[k])
  BY <1>1
<1>3. Range(q) = {Head(q)} \cup Range(r)
  <2>1. \A k \in 1 .. Len(q) : q[k] = Head(q) \/ q[k] \in Range(r)
    BY <1>1, <1>2 DEF Range
  <2>2. \A k \in 1 .. Len(q) - 1 : k + 1 \in 1 .. Len(q) /\ r[k] = q[k + 1]
    BY <1>1
  <2>3. \A k \in 1 .. Len(q) - 1 : r[k] \in Range(q)
    BY <1>1, <2>2 DEF Range
  <2>4. Head(q) \in Range(q)
    <3>1. 1 \in DOMAIN q
      BY <1>1
    <3> QED BY <1>1, <3>1 DEF Range
  <2>5. Range(q) \subseteq {Head(q)} \cup Range(r)
    BY <1>1, <2>1 DEF Range
  <2>6. Range(r) \subseteq Range(q)
    BY <1>1, <2>3 DEF Range
  <2> QED BY <2>4, <2>5, <2>6
<1>4. ASSUME IsInjective(q) PROVE IsInjective(r) /\ Head(q) \notin Range(r)
  <2>1. \A i, j \in 1 .. Len(q) : q[i] = q[j] => i = j
    BY <1>1, <1>4 DEF IsInjective
  <2>2. \A i, j \in 1 .. Len(q) - 1 : r[i] = r[j] => i = j
    BY <1>1, <2>1
  <2>3. \A i \in 1 .. Len(q) - 1 : r[i] # q[1]
    BY <1>1, <2>1
  <2> QED BY <1>1, <2>2, <2>3 DEF IsInjective, Range
<1> QED BY <1>1, <1>3, <1>4 DEF r

LEMMA OnceJoined ==
  ASSUME NEW T, NEW q \in Seq(T), NEW r \in Seq(T)
  PROVE  /\ q \o r \in Seq(T) /\ Range(q \o r) = Range(q) \cup Range(r)
         /\ IsInjective(q) /\ IsInjective(r) /\ Range(q) \cap Range(r) = {} => IsInjective(q \o r)
<1> DEFINE c == q \o r
<1>1. /\ c \in Seq(T) /\ Len(q) \in Nat /\ Len(r) \in Nat
      /\ DOMAIN q = 1 .. Len(q) /\ DOMAIN r = 1 .. Len(r) /\ DOMAIN c = 1 .. Len(q) + Len(r)
      /\ \A k \in 1 .. Len(q) : c[k] = q[k]
      /\ \A k \in Len(q) + 1 .. Len(q) + Len(r) : c[k] = r[k - Len(q)]
  OBVIOUS
<1> HIDE DEF c
<1>2. /\ \A k \in 1 .. Len(q) : k \in DOMAIN c /\ c[k] = q[k]
      /\ \A k \in 1 .. Len(r) : k + Len(q) \in DOMAIN c /\ c[k + Len(q)] = r[k]
      /\ \A k \in DOMAIN c : k \in 1 .. Len(q) \/ (k - Len(q) \in 1 .. Len(r) /\ c[k] = r[k - Len(q)])
  <2>1. \A k \in 1 .. Len(q) : k \in DOMAIN c /\ c[k] = q[k]
    BY <1>1
  <2>2. ASSUME NEW k \in 1 .. Len(r) PROVE k + Len(q) \in DOMAIN c /\ c[k + Len(q)] = r[k]
    <3>1. k + Len(q) \in Len(q) + 1 .. Len(q) + Len(r) /\ (k + Len(q)) - Len(q) = k
      BY <1>1
    <3>2. k + Len(q) \in DOMAIN c
      BY <1>1
    <3> QED BY <1>1, <3>1, <3>2
  <2>3. ASSUME NEW k \in DOMAIN c, k \notin 1 .. Len(q)
        PROVE  k - Len(q) \in 1 .. Len(r) /\ c[k] = r[k - Len(q)]
    BY <1>1, <2>3
  <2> QED BY <2>1, <2>2, <2>3
<1>3. Range(c) = Range(q) \cup Range(r)
  <2>1. \A k \in 1 .. Len(q) : q[k] \in Range(c)
    BY <1>2 DEF Range
  <2>2. \A k \in 1 .. Len(r) : r[k] \in Range(c)
    BY <1>2 DEF Range
  <2>3. \A k \in DOMAIN c : c[k] \in Range(q) \cup Range(r)
    BY <1>1, <1>2 DEF Range
  <2> QED BY <1>1, <2>1, <2>2, <2>3 DEF Range
<1>4. ASSUME IsInjective(q), IsInjective(r), Range(q) \cap Range(r) = {} PROVE IsInjective(c)
  <2>1. /\ \A i, j \in 1 .. Len(q) : q[i] = q[j] => i = j
        /\ \A i, j \in 1 .. Len(r) : r[i] = r[j] => i = j
    BY <1>1, <1>4 DEF IsInjective
  <2>3. ASSUME NEW i \in 1 .. Len(q), NEW j \in 1 .. Len(r) PROVE q[i] # r[j]
    <3>1. q[i] \in Range(q) /\ r[j] \in Range(r)
      BY <1>1 DEF Range
    <3> QED BY <1>4, <3>1
  <2>2. ASSUME NEW i \in DOMAIN c, NEW j \in DOMAIN c, c[i] = c[j] PROVE i = j
    <3>1. i \in Int /\ j \in Int /\ Len(q) \in Int
      BY <1>1
    <3>2. /\ i \in 1 .. Len(q) \/ (i - Len(q) \in 1 .. Len(r) /\ c[i] = r[i - Len(q)])
          /\ j \in 1 .. Len(q) \/ (j - Len(q) \in 1 .. Len(r) /\ c[j] = r[j - Len(q)])
      BY <1>2
    <3>3. i - Len(q) = j - Len(q) => i = j
      BY <3>1
    <3> QED BY <1>2, <2>1, <2>2, <2>3, <3>2, <3>3
  <2> QED BY <2>2 DEF IsInjective
<1> QED BY <1>1, <1>3, <1>4 DEF c

LEMMA PickedOnce ==
  ASSUME NEW T, NEW s \in Seq(T), NEW S
  PROVE  /\ Picked(s, S) \in Seq(T)
         /\ Range(Picked(s, S)) = {s[k] : k \in {k \in DOMAIN s : k \in S}}
         /\ (\A i, j \in DOMAIN s : i \in S /\ j \in S /\ s[i] = s[j] => i = j) =>
              IsInjective(Picked(s, S))
<1> DEFINE once == \A i, j \in DOMAIN s : i \in S /\ j \in S /\ s[i] = s[j] => i = j
           n == Len(s)
           Here(m) == {s[k] : k \in {k \in 1 .. m : k \in S}}
           Good(q, m) == q \in Seq(T) /\ Range(q) = Here(m) /\ (once => IsInjective(q))
<1>1. n \in Nat /\ DOMAIN s = 1 .. n /\ \A k \in 1 .. n : s[k] \in T
  OBVIOUS
<1>2. PICK t : PickedTo(s, S, n, t) /\ Picked(s, S) = t[n]
  BY <1>1, PickedIs
<1>3. t[0] = <<>> /\ \A k \in 1 .. n : t[k] = IF k \in S THEN Append(t[k - 1], s[k]) ELSE t[k - 1]
  <2>1. ASSUME NEW k \in 0 .. n
        PROVE  t[k] = IF k = 0 THEN <<>> ELSE IF k \in S THEN Append(t[k - 1], s[k]) ELSE t[k - 1]
    BY <1>2 DEF PickedTo
  <2>2. 0 \in 0 .. n /\ \A k \in 1 .. n : k \in 0 .. n /\ k # 0
    BY <1>1
  <2> HIDE DEF n
  <2> QED BY <2>1, <2>2
<1>4. ASSUME NEW m \in 1 .. n, Good(t[m - 1], m - 1) PROVE Good(t[m], m)
  <2>1. m - 1 \in Nat /\ Here(m) = IF m \in S THEN Here(m - 1) \cup {s[m]} ELSE Here(m - 1)
    BY <1>1
  <2>2. CASE m \in S
    <3>1. t[m] = Append(t[m - 1], s[m])
      BY <1>3, <2>2
    <3>2. once => s[m] \notin Here(m - 1)
      BY <1>1, <2>2
    <3> HIDE DEF once, Here
    <3>3. /\ t[m] \in Seq(T) /\ Range(t[m]) = Here(m - 1) \cup {s[m]}
          /\ once => IsInjective(t[m])
      BY <1>1, <1>4, <3>1, <3>2, OnceAppended
    <3> QED BY <2>1, <2>2, <3>3
  <2>3. CASE m \notin S
    <3>1. t[m] = t[m - 1]
      BY <1>3, <2>3
    <3> QED BY <1>4, <2>1, <2>3, <3>1
  <2> QED BY <2>2, <2>3
<1>5. Good(t[0], 0)
  <2>1. Here(0) = {} /\ Range(<<>>) = {} /\ <<>> \in Seq(T) /\ IsInjective(<<>>)
    BY DEF Range, IsInjective
  <2> QED BY <1>3, <2>1
<1>6. \A m \in 0 .. n : Good(t[m], m)
  <2> HIDE DEF Good
  <2> DEFINE Bad == {m \in 0 .. n : ~Good(t[m], m)}
  <2> SUFFICES ASSUME Bad # {} PROVE FALSE
    OBVIOUS
  <2>0. Bad \in SUBSET Nat
    BY <1>1
  <2>1. PICK m \in Bad : \A l \in Bad : m <= l
    <3> HIDE DEF Bad
    <3> QED BY <2>0, HasLeast
  <2>2. m \in 1 .. n /\ m - 1 \in 0 .. n /\ ~(m <= m - 1)
    BY <1>1, <1>5, <2>1
  <2>3. Good(t[m - 1], m - 1)
    BY <2>1, <2>2
  <2> QED BY <1>4, <2>1, <2>2, <2>3
<1>7. Good(t[n], n)
  <2> HIDE DEF Good
  <2>1. n \in 0 .. n
    BY <1>1
  <2> QED BY <1>6, <2>1
<1> QED BY <1>1, <1>2, <1>7
-----------------------------------------------------------------------------
\* Taken is computed place by place.
TakenTo(g, m, t) == t = [k \in 0 .. m |-> IF k = 0 THEN Begin(g) ELSE Take(g, t[k - 1])]

LEMMA TakenExists ==
  ASSUME NEW g, NEW n \in Nat
  PROVE  \E t : TakenTo(g, n, t)
<1> DEFINE Bad == {m \in Nat : ~\E t : TakenTo(g, m, t)}
<1> SUFFICES ASSUME Bad # {} PROVE FALSE
  OBVIOUS
<1>1. PICK m \in Bad : \A l \in Bad : m <= l
  BY HasLeast
<1>2. m # 0
  <2> DEFINE t == [k \in 0 .. 0 |-> Begin(g)]
  <2>1. TakenTo(g, 0, t)
    BY DEF TakenTo
  <2> QED BY <2>1
<1>3. PICK t : TakenTo(g, m - 1, t)
  <2>1. m - 1 \in Nat /\ ~(m <= m - 1)
    BY <1>1, <1>2
  <2> QED BY <1>1, <2>1
<1>4. PICK u : u = [k \in 0 .. m |-> IF k = m THEN Take(g, t[m - 1]) ELSE t[k]]
  OBVIOUS
<1>5. ASSUME NEW k \in 0 .. m PROVE u[k] = IF k = 0 THEN Begin(g) ELSE Take(g, u[k - 1])
  <2>1. CASE k = m
    <3>1. u[k] = Take(g, t[m - 1]) /\ k # 0 /\ u[k - 1] = t[k - 1]
      BY <1>1, <1>2, <1>4, <2>1
    <3> QED BY <2>1, <3>1
  <2>2. CASE k # m
    <3>1. k \in 0 .. m - 1 /\ u[k] = t[k]
      BY <1>1, <1>4, <2>2
    <3>2. k # 0 => u[k - 1] = t[k - 1]
      BY <1>1, <1>4, <3>1
    <3>3. t[k] = IF k = 0 THEN Begin(g) ELSE Take(g, t[k - 1])
      BY <1>3, <3>1 DEF TakenTo
    <3> QED BY <3>1, <3>2, <3>3
  <2> QED BY <2>1, <2>2
<1>6. TakenTo(g, m, u)
  <2>1. u = [k \in 0 .. m |-> u[k]]
    BY <1>4
  <2> QED BY <1>5, <2>1 DEF TakenTo
<1> QED BY <1>1, <1>6

LEMMA TakenIs ==
  ASSUME NEW g, Len(g.nodes) \in Nat
  PROVE  TakenTo(g, Len(g.nodes), Taken(g))
<1>1. Taken(g) = CHOOSE t : TakenTo(g, Len(g.nodes), t)
  BY DEF Taken, TakenTo
<1> QED BY <1>1, TakenExists

\* A nonempty set of places in a sequence has a last one.
LEMMA HasLast ==
  ASSUME NEW n \in Nat, NEW S \in SUBSET (1 .. n), S # {}
  PROVE  \E k \in S : \A l \in S : l <= k
<1> DEFINE D == {n - k : k \in S}
<1>1. D \in SUBSET Nat /\ D # {}
  <2>1. \A k \in S : n - k \in Nat
    OBVIOUS
  <2> QED BY <2>1
<1>2. PICK d \in D : \A e \in D : d <= e
  <2> HIDE DEF D
  <2> QED BY <1>1, HasLeast
<1>3. PICK k \in S : d = n - k
  BY <1>2
<1>4. ASSUME NEW l \in S PROVE l <= k
  <2>1. n - l \in D
    OBVIOUS
  <2>2. n - k <= n - l
    BY <1>2, <1>3, <2>1
  <2> QED BY <2>2
<1> QED BY <1>4

-----------------------------------------------------------------------------
(* Each node is taken once, after all that feeds it.                       *)

\* The nodes that miss nothing once the nodes in S are taken.
Served(g, S) == {n \in Range(g.nodes) : Sources(g, n) \subseteq S}

LEMMA GraphFacts ==
  ASSUME NEW g, IsGraph(g)
  PROVE  /\ Len(g.nodes) \in Nat /\ Len(g.edges) \in Nat
         /\ DOMAIN g.nodes = 1 .. Len(g.nodes) /\ DOMAIN g.edges = 1 .. Len(g.edges)
         /\ \A k \in 1 .. Len(g.edges) : /\ g.edges[k].from \in Range(g.nodes)
                                         /\ g.edges[k].to \in Range(g.nodes)
         /\ \A n : Sources(g, n) \subseteq Range(g.nodes)
<1>1. g.nodes \in Seq(Range(g.nodes))
  BY DEF IsGraph
<1>2. g.edges \in Seq([from : Range(g.nodes), to : Range(g.nodes), port : {"none", "yes", "no"}])
  BY DEF IsGraph
<1>3. /\ Len(g.edges) \in Nat /\ DOMAIN g.edges = 1 .. Len(g.edges)
      /\ \A k \in 1 .. Len(g.edges) : g.edges[k].from \in Range(g.nodes) /\ g.edges[k].to \in Range(g.nodes)
  <2> DEFINE N == Range(g.nodes)
             E == [from : N, to : N, port : {"none", "yes", "no"}]
             m == Len(g.edges)
  <2>1. \A e \in E : e.from \in N /\ e.to \in N
    OBVIOUS
  <2>2. m \in Nat /\ DOMAIN g.edges = 1 .. m /\ \A k \in 1 .. m : g.edges[k] \in E
    <3> HIDE DEF E
    <3>1. g.edges \in Seq(E)
      BY <1>2 DEF E
    <3> QED BY <3>1
  <2> HIDE DEF E, N, m
  <2>3. \A k \in 1 .. m : g.edges[k].from \in N /\ g.edges[k].to \in N
    BY <2>1, <2>2
  <2> QED BY <2>2, <2>3 DEF N, m
<1>4. \A n : Sources(g, n) \subseteq Range(g.nodes)
  BY <1>3 DEF Sources, Into
<1> QED BY <1>1, <1>3, <1>4

LEMMA BeginIs ==
  ASSUME NEW g, IsGraph(g)
  PROVE  LET ready == Begin(g).ready IN
         /\ Begin(g).order = <<>> /\ ready \in Seq(Range(g.nodes)) /\ IsInjective(ready)
         /\ Range(ready) = Served(g, {})
<1> DEFINE N == Range(g.nodes)
           S == {k \in DOMAIN g.nodes : Into(g, g.nodes[k]) = {}}
           r == Picked(g.nodes, S)
<1>1. Begin(g).order = <<>> /\ Begin(g).ready = r
  BY DEF Begin
<1>2. g.nodes \in Seq(N) /\ \A i, j \in DOMAIN g.nodes : g.nodes[i] = g.nodes[j] => i = j
  BY DEF IsGraph, IsInjective
<1>3. r \in Seq(N) /\ IsInjective(r) /\ Range(r) = {g.nodes[k] : k \in {k \in DOMAIN g.nodes : k \in S}}
  <2> HIDE DEF S, N
  <2> QED BY <1>2, PickedOnce
<1>4. \A n \in N : Sources(g, n) \subseteq {} <=> Into(g, n) = {}
  BY DEF Sources
<1>5. Range(r) = Served(g, {})
  BY <1>3, <1>4 DEF Served, Range
<1> QED BY <1>1, <1>3, <1>5

LEMMA FreedIs ==
  ASSUME NEW g, IsGraph(g), NEW order \in Seq(Range(g.nodes)), order # <<>>
  PROVE  /\ Freed(g, order) \in Seq(Range(g.nodes)) /\ IsInjective(Freed(g, order))
         /\ Range(Freed(g, order)) =
              {n \in Served(g, Range(order)) : order[Len(order)] \in Sources(g, n)}
<1> DEFINE N == Range(g.nodes)
           x == order[Len(order)]
           from == {k \in DOMAIN g.edges : g.edges[k].from = x}
           to == [k \in DOMAIN g.edges |-> g.edges[k].to]
           S == {k \in from : /\ Sources(g, g.edges[k].to) \subseteq Range(order)
                              /\ \A l \in from : g.edges[l].to = g.edges[k].to => l <= k}
           r == Picked(to, S)
           m == Len(g.edges)
<1>1. /\ m \in Nat /\ DOMAIN g.edges = 1 .. m
      /\ \A k \in 1 .. m : g.edges[k].from \in N /\ g.edges[k].to \in N
  BY GraphFacts
<1>2. to \in Seq(N) /\ DOMAIN to = 1 .. m /\ \A k \in 1 .. m : to[k] = g.edges[k].to
  BY <1>1
<1>3. ASSUME NEW i \in S, NEW j \in S, to[i] = to[j] PROVE i = j
  <2>1. i \in 1 .. m /\ j \in 1 .. m /\ g.edges[i].to = g.edges[j].to
    BY <1>1, <1>2, <1>3
  <2>2. i <= j /\ j <= i
    BY <2>1
  <2> QED BY <2>1, <2>2
<1>4. Freed(g, order) = r
  BY DEF Freed
<1>5. r \in Seq(N) /\ IsInjective(r) /\ Range(r) = {to[k] : k \in {k \in DOMAIN to : k \in S}}
  <2> HIDE DEF S, to, N
  <2>1. \A i, j \in DOMAIN to : i \in S /\ j \in S /\ to[i] = to[j] => i = j
    BY <1>3
  <2>2. to \in Seq(N)
    BY <1>2
  <2> HIDE DEF r, m, from, x
  <2>3. /\ Picked(to, S) \in Seq(N)
        /\ Range(Picked(to, S)) = {to[k] : k \in {k \in DOMAIN to : k \in S}}
        /\ (\A i, j \in DOMAIN to : i \in S /\ j \in S /\ to[i] = to[j] => i = j) =>
              IsInjective(Picked(to, S))
    BY <2>2, PickedOnce, Zenon
  <2> QED BY <2>1, <2>3 DEF r
<1>6. ASSUME NEW k \in S PROVE g.edges[k].to \in Served(g, Range(order)) /\ x \in Sources(g, g.edges[k].to)
  <2>1. k \in 1 .. m /\ g.edges[k].from = x /\ Sources(g, g.edges[k].to) \subseteq Range(order)
    BY <1>1
  <2> QED BY <1>1, <2>1 DEF Served, Sources, Into
<1>7. ASSUME NEW n \in Served(g, Range(order)), x \in Sources(g, n)
      PROVE  \E k \in S : g.edges[k].to = n
  <2> DEFINE K == {k \in from : g.edges[k].to = n}
  <2>1. K \in SUBSET (1 .. m) /\ K # {}
    BY <1>1, <1>7 DEF Sources, Into
  <2>2. PICK k \in K : \A l \in K : l <= k
    <3> HIDE DEF K
    <3> QED BY <1>1, <2>1, HasLast
  <2>3. Sources(g, n) \subseteq Range(order)
    BY <1>7 DEF Served
  <2>4. k \in S
    BY <2>2, <2>3
  <2> QED BY <2>2, <2>4
<1>8. Range(r) = {n \in Served(g, Range(order)) : x \in Sources(g, n)}
  <2> HIDE DEF S, r
  <2>1. S \subseteq 1 .. m
    BY <1>1 DEF S
  <2>2. Range(r) = {g.edges[k].to : k \in S}
    BY <1>2, <1>5, <2>1
  <2> QED BY <1>6, <1>7, <2>2
<1> QED BY <1>4, <1>5, <1>8

\* What runOrder has taken, and what is ready, at any moment.
Taking(g, s) ==
  /\ s.order \in Seq(Range(g.nodes)) /\ IsInjective(s.order)
  /\ s.ready \in Seq(Range(g.nodes)) /\ IsInjective(s.ready)
  /\ Range(s.order) \cap Range(s.ready) = {}
  /\ Range(s.order) \cup Range(s.ready) = Served(g, Range(s.order))
  /\ \A k \in 1 .. Len(s.order) :
       Sources(g, s.order[k]) \subseteq {s.order[l] : l \in 1 .. k - 1}

LEMMA TakingBegins == ASSUME NEW g, IsGraph(g) PROVE Taking(g, Begin(g))
<1> DEFINE N == Range(g.nodes)
           s == Begin(g)
<1>1. /\ s.order = <<>> /\ s.ready \in Seq(N) /\ IsInjective(s.ready)
      /\ Range(s.ready) = Served(g, {})
  BY BeginIs
<1>2. <<>> \in Seq(N) /\ IsInjective(<<>>) /\ Range(<<>>) = {} /\ Len(<<>>) = 0
  BY DEF IsInjective, Range
<1> HIDE DEF s
<1>3. Range(s.order) = {} /\ Len(s.order) = 0 /\ s.order \in Seq(N) /\ IsInjective(s.order)
  BY <1>1, <1>2
<1>4. Range(s.order) \cup Range(s.ready) = Served(g, Range(s.order))
  BY <1>1, <1>3
<1>5. \A k \in 1 .. Len(s.order) : Sources(g, s.order[k]) \subseteq {s.order[l] : l \in 1 .. k - 1}
  BY <1>3
<1>6. Taking(g, s)
  BY <1>1, <1>3, <1>4, <1>5 DEF Taking
<1> QED BY <1>6 DEF s

LEMMA TakingGoesOn ==
  ASSUME NEW g, IsGraph(g), NEW s, Taking(g, s), s.ready # <<>>
  PROVE  Taking(g, Take(g, s)) /\ Len(Take(g, s).order) = Len(s.order) + 1
<1> DEFINE N == Range(g.nodes)
           x == Head(s.ready)
           tail == Tail(s.ready)
           order == Append(s.order, x)
           freed == Freed(g, order)
           ready == tail \o freed
<1>1. /\ s.order \in Seq(N) /\ IsInjective(s.order) /\ s.ready \in Seq(N) /\ IsInjective(s.ready)
      /\ Range(s.order) \cap Range(s.ready) = {}
      /\ Range(s.order) \cup Range(s.ready) = Served(g, Range(s.order))
  BY DEF Taking
<1>2. Take(g, s) = [order |-> order, ready |-> ready]
  BY DEF Take
<1>3. /\ x \in N /\ tail \in Seq(N) /\ Range(s.ready) = {x} \cup Range(tail)
      /\ IsInjective(tail) /\ x \notin Range(tail)
  <2> HIDE DEF N
  <2> QED BY <1>1, OnceTaken
<1>4. x \notin Range(s.order)
  BY <1>1, <1>3
<1>5. order \in Seq(N) /\ Range(order) = Range(s.order) \cup {x} /\ IsInjective(order)
  <2> HIDE DEF N, x
  <2> QED BY <1>1, <1>3, <1>4, OnceAppended
<1>6. /\ Len(order) = Len(s.order) + 1 /\ order # <<>> /\ order[Len(order)] = x
      /\ Len(s.order) \in Nat /\ \A k \in 1 .. Len(s.order) : order[k] = s.order[k]
  <2> HIDE DEF N, x
  <2> QED BY <1>1, <1>3
<1>7. /\ freed \in Seq(N) /\ IsInjective(freed)
      /\ Range(freed) = {n \in Served(g, Range(order)) : x \in Sources(g, n)}
  <2> HIDE DEF order, x
  <2>1. order \in Seq(Range(g.nodes)) /\ order # <<>>
    BY <1>5, <1>6
  <2>2. /\ Freed(g, order) \in Seq(Range(g.nodes)) /\ IsInjective(Freed(g, order))
        /\ Range(Freed(g, order)) =
             {n \in Served(g, Range(order)) : order[Len(order)] \in Sources(g, n)}
    BY <2>1, FreedIs, Zenon
  <2> QED BY <1>6, <2>2
<1>8. Served(g, Range(order)) = Served(g, Range(s.order)) \cup Range(freed)
  BY <1>5, <1>7 DEF Served
<1>9. Served(g, Range(s.order)) \cap Range(freed) = {}
  BY <1>4, <1>7 DEF Served
<1>10. /\ ready \in Seq(N) /\ Range(ready) = Range(tail) \cup Range(freed) /\ IsInjective(ready)
  <2>1. Range(tail) \cap Range(freed) = {}
    BY <1>1, <1>3, <1>9
  <2> HIDE DEF N, tail, freed
  <2> QED BY <1>3, <1>7, <2>1, OnceJoined
<1>11. ASSUME NEW k \in 1 .. Len(order)
       PROVE  Sources(g, order[k]) \subseteq {order[l] : l \in 1 .. k - 1}
  <2>1. CASE k = Len(order)
    <3>1. x \in Served(g, Range(s.order))
      BY <1>1, <1>3
    <3>2. Range(s.order) = {order[l] : l \in 1 .. Len(s.order)}
      <4>1. DOMAIN s.order = 1 .. Len(s.order)
        BY <1>1
      <4> HIDE DEF order
      <4> QED BY <1>6, <4>1 DEF Range
    <3>3. k - 1 = Len(s.order) /\ order[k] = x
      BY <1>6, <2>1
    <3> HIDE DEF order, x
    <3> QED BY <3>1, <3>2, <3>3 DEF Served
  <2>2. CASE k # Len(order)
    <3>1. k \in 1 .. Len(s.order) /\ \A l \in 1 .. k - 1 : l \in 1 .. Len(s.order)
      BY <1>6, <2>2
    <3>2. Sources(g, s.order[k]) \subseteq {s.order[l] : l \in 1 .. k - 1}
      BY <3>1 DEF Taking
    <3> HIDE DEF order
    <3>3. order[k] = s.order[k] /\ \A l \in 1 .. k - 1 : order[l] = s.order[l]
      BY <1>6, <3>1
    <3> QED BY <3>2, <3>3
  <2> QED BY <2>1, <2>2
<1>12. /\ Range(order) \cap Range(ready) = {}
       /\ Range(order) \cup Range(ready) = Served(g, Range(order))
  <2> HIDE DEF order, ready, freed, tail, x
  <2> QED BY <1>1, <1>3, <1>4, <1>5, <1>8, <1>9, <1>10
<1> DEFINE u == Take(g, s)
<1>13. u.order = order /\ u.ready = ready
  <2> HIDE DEF order, ready
  <2> QED BY <1>2
<1> HIDE DEF u, order, ready
<1>14. Taking(g, u)
  <2>1. /\ u.order \in Seq(N) /\ IsInjective(u.order) /\ u.ready \in Seq(N) /\ IsInjective(u.ready)
        /\ Range(u.order) \cap Range(u.ready) = {}
        /\ Range(u.order) \cup Range(u.ready) = Served(g, Range(u.order))
    BY <1>5, <1>10, <1>12, <1>13
  <2>2. \A k \in 1 .. Len(u.order) :
          Sources(g, u.order[k]) \subseteq {u.order[l] : l \in 1 .. k - 1}
    BY <1>11, <1>13
  <2> QED BY <2>1, <2>2 DEF Taking
<1> QED BY <1>6, <1>13, <1>14 DEF u

\* After as many steps as there are nodes each has been taken, or none is ready.
LEMMA AllTaken ==
  ASSUME NEW g, IsGraph(g)
  PROVE  \E s : /\ RunOrder(g) = s.order /\ Taking(g, s)
                /\ Len(s.order) = Len(g.nodes) \/ s.ready = <<>>
<1> DEFINE n == Len(g.nodes)
           t == Taken(g)
           Good(k) == Taking(g, t[k]) /\ (Len(t[k].order) = k \/ t[k].ready = <<>>)
<1>1. n \in Nat /\ TakenTo(g, n, t)
  BY GraphFacts, TakenIs
<1>2. t[0] = Begin(g) /\ \A k \in 1 .. n : t[k] = Take(g, t[k - 1])
  <2>1. ASSUME NEW k \in 0 .. n PROVE t[k] = IF k = 0 THEN Begin(g) ELSE Take(g, t[k - 1])
    BY <1>1 DEF TakenTo
  <2>2. 0 \in 0 .. n /\ \A k \in 1 .. n : k \in 0 .. n /\ k # 0
    BY <1>1
  <2> HIDE DEF n, t
  <2> QED BY <2>1, <2>2
<1> HIDE DEF t, n
<1>3. Good(0)
  <2>1. Taking(g, Begin(g)) /\ Begin(g).order = <<>>
    BY TakingBegins, BeginIs
  <2> QED BY <1>2, <2>1
<1>4. ASSUME NEW k \in 1 .. n, Good(k - 1) PROVE Good(k)
  <2>1. CASE t[k - 1].ready = <<>>
    <3>1. t[k] = t[k - 1]
      BY <1>2, <2>1 DEF Take
    <3> QED BY <1>4, <2>1, <3>1
  <2>2. CASE t[k - 1].ready # <<>>
    <3>1. Taking(g, t[k]) /\ Len(t[k].order) = Len(t[k - 1].order) + 1
      BY <1>2, <1>4, <2>2, TakingGoesOn
    <3>2. Len(t[k].order) = k
      BY <1>4, <2>2, <3>1
    <3> QED BY <3>1, <3>2
  <2> QED BY <2>1, <2>2
<1>5. \A k \in 0 .. n : Good(k)
  <2> HIDE DEF Good
  <2> DEFINE Bad == {k \in 0 .. n : ~Good(k)}
  <2> SUFFICES ASSUME Bad # {} PROVE FALSE
    OBVIOUS
  <2>1. Bad \in SUBSET Nat
    BY <1>1
  <2>2. PICK k \in Bad : \A l \in Bad : k <= l
    <3> HIDE DEF Bad
    <3> QED BY <2>1, HasLeast
  <2>3. k \in 1 .. n /\ k - 1 \in 0 .. n /\ ~(k <= k - 1)
    BY <1>1, <1>3, <2>2
  <2> QED BY <1>4, <2>2, <2>3
<1>6. Good(n) /\ RunOrder(g) = t[n].order
  <2>1. n \in 0 .. n
    BY <1>1
  <2> HIDE DEF Good
  <2> QED BY <1>5, <2>1 DEF RunOrder, t, n
<1> QED BY <1>6 DEF n

\* A sequence without repetitions is as long as what it lists.
LEMMA OnceCounts ==
  ASSUME NEW T, NEW q \in Seq(T), IsInjective(q)
  PROVE  IsFiniteSet(Range(q)) /\ Cardinality(Range(q)) = Len(q)
<1>1. Len(q) \in Nat /\ DOMAIN q = 1 .. Len(q)
  OBVIOUS
<1>2. q \in [1 .. Len(q) -> Range(q)] /\ \A v \in Range(q) : \E k \in 1 .. Len(q) : q[k] = v
  BY <1>1 DEF Range
<1>3. q \in Bijection(1 .. Len(q), Range(q))
  BY <1>1, <1>2 DEF Bijection, Injection, Surjection
<1>4. ExistsBijection(1 .. Len(q), Range(q))
  BY <1>3 DEF ExistsBijection
<1> QED BY <1>1, <1>4, FS_NatBijection, FS_CountingElements

\* runOrder puts each node after everything that feeds it, and throws only where that cannot
\* be done: for every graph, "this workflow loops back on itself" is said of loops and of
\* nothing else (runOrder, graphProblem).
THEOREM RunOrderIsRight ==
  ASSUME NEW g, IsGraph(g)
  PROVE  /\ RunOrder(g) \in Seq(Range(g.nodes)) /\ IsInjective(RunOrder(g))
         /\ Len(RunOrder(g)) = Len(g.nodes) => Sorts(g, RunOrder(g))
         /\ (\E order \in Seq(Range(g.nodes)) : Sorts(g, order)) => Len(RunOrder(g)) = Len(g.nodes)
<1> DEFINE N == Range(g.nodes)
           order == RunOrder(g)
<1>1. PICK s : order = s.order /\ Taking(g, s) /\ (Len(order) = Len(g.nodes) \/ s.ready = <<>>)
  BY AllTaken
<1> HIDE DEF order
<1>2. /\ order \in Seq(N) /\ IsInjective(order)
      /\ Range(order) \cup Range(s.ready) = Served(g, Range(order))
      /\ \A k \in 1 .. Len(order) : Sources(g, order[k]) \subseteq {order[l] : l \in 1 .. k - 1}
  BY <1>1 DEF Taking
<1>3. IsFiniteSet(N) /\ Cardinality(N) = Len(g.nodes)
  BY OnceCounts DEF IsGraph
<1>4. Range(order) \subseteq N /\ DOMAIN order = 1 .. Len(order)
  <2>1. DOMAIN order = 1 .. Len(order) /\ \A k \in 1 .. Len(order) : order[k] \in N
    <3> HIDE DEF N
    <3> QED BY <1>2
  <2> QED BY <2>1 DEF Range
<1>5. Cardinality(Range(order)) = Len(order)
  BY <1>2, OnceCounts
<1>6. ASSUME Len(order) = Len(g.nodes) PROVE Sorts(g, order)
  <2>1. Range(order) = N
    BY <1>3, <1>4, <1>5, <1>6, FS_Subset
  <2> QED BY <1>2, <1>4, <1>6, <2>1 DEF Sorts
<1>7. ASSUME NEW q \in Seq(N), Sorts(g, q) PROVE Len(order) = Len(g.nodes)
  <2>1. CASE Len(order) = Len(g.nodes)
    BY <2>1
  <2>2. CASE s.ready = <<>>
    <3> DEFINE Bad == {k \in 1 .. Len(q) : q[k] \notin Range(order)}
    <3>1. Len(q) \in Nat /\ DOMAIN q = 1 .. Len(q)
      OBVIOUS
    <3>2. Bad = {}
      <4> SUFFICES ASSUME Bad # {} PROVE FALSE
        OBVIOUS
      <4>1. Bad \in SUBSET Nat
        BY <3>1
      <4>2. PICK k \in Bad : \A l \in Bad : k <= l
        <5> HIDE DEF Bad
        <5> QED BY <4>1, HasLeast
      <4>3. k \in 1 .. Len(q) /\ q[k] \notin Range(order)
        BY <4>2
      <4>4. \A l \in 1 .. k - 1 : q[l] \in Range(order)
        <5>1. \A l \in 1 .. k - 1 : l \in 1 .. Len(q) /\ ~(k <= l)
          BY <3>1, <4>3
        <5> QED BY <4>2, <5>1
      <4>5. Sources(g, q[k]) \subseteq {q[l] : l \in 1 .. k - 1} /\ q[k] \in N
        BY <1>7, <3>1, <4>3 DEF Sorts, Range
      <4>6. q[k] \in Served(g, Range(order))
        BY <4>4, <4>5 DEF Served
      <4>7. Range(s.ready) = {}
        BY <2>2 DEF Range
      <4> QED BY <1>2, <4>3, <4>6, <4>7
    <3>3. N \subseteq Range(order)
      BY <1>7, <3>1, <3>2 DEF Sorts, Range
    <3>4. Range(order) = N
      BY <1>4, <3>3
    <3> QED BY <1>3, <1>5, <3>4
  <2> QED BY <1>1, <2>1, <2>2
<1> QED BY <1>2, <1>6, <1>7 DEF order

-----------------------------------------------------------------------------
(* The places of the nodes.                                                *)

LEMMA OrderSorts ==
  Order \in Seq(Nodes) /\ IsInjective(Order) /\ Range(Order) = Nodes /\ Sorts(Graph, Order)
<1>1. IsGraph(Graph) /\ Len(Order) = Len(Graph.nodes)
  BY WorkflowAssumption
<1>2. Order \in Seq(Nodes) /\ IsInjective(Order) /\ Sorts(Graph, Order)
  BY <1>1, RunOrderIsRight DEF Order, Nodes
<1> QED BY <1>2 DEF Sorts, Nodes

LEMMA Places ==
  /\ Len(Order) \in Nat
  /\ \A k \in 1 .. Len(Order) : Order[k] \in Nodes
  /\ \A n \in Nodes : PlaceOf(n) \in 1 .. Len(Order) /\ Order[PlaceOf(n)] = n
<1>1. Order \in Seq(Nodes) /\ Range(Order) = Nodes
  BY OrderSorts
<1>2. Len(Order) \in Nat /\ DOMAIN Order = 1 .. Len(Order) /\ \A k \in 1 .. Len(Order) : Order[k] \in Nodes
  BY <1>1
<1>3. \A n \in Nodes : \E k \in 1 .. Len(Order) : Order[k] = n
  BY <1>1, <1>2 DEF Range
<1> QED BY <1>2, <1>3 DEF PlaceOf

\* NextPlace stays within the graph, or goes one beyond; a start is never next.
LEMMA NextPlaceWithin ==
  ASSUME NEW o, NEW i \in 1 .. Len(Order) + 1
  PROVE  /\ NextPlace(o, i) \in 1 .. Len(Order) + 1
         /\ NextPlace(o, i) <= Len(Order) => KindOf[Order[NextPlace(o, i)]] # "trigger"
<1>. DEFINE started == [n \in Nodes |-> IF KindOf[n] = "trigger" THEN "done" ELSE o.res[n]]
            reached == {k \in i .. Len(Order) :
                          KindOf[Order[k]] # "trigger" /\ Reached(Graph, Order[k], started)}
<1>1. CASE reached = {}
  <2>1. NextPlace(o, i) = Len(Order) + 1
    BY <1>1 DEF NextPlace
  <2> QED BY <2>1, Places
<1>2. CASE reached # {}
  <2>1. reached \in SUBSET Nat
    BY Places
  <2>2. \E k \in reached : \A l \in reached : k <= l
    BY <1>2, <2>1, HasLeast
  <2>3. NextPlace(o, i) = CHOOSE k \in reached : \A l \in reached : k <= l
    BY <1>2 DEF NextPlace
  <2>4. NextPlace(o, i) \in reached
    BY <2>2, <2>3
  <2> QED BY <2>4, Places
<1> QED BY <1>1, <1>2

-----------------------------------------------------------------------------
(* The walk.                                                               *)

NothingWaits(res) == \A n \in Nodes : res[n] # "waiting"

\* What is true of every run object, wherever it is.
Sound(o) ==
  /\ IF o.pc \in {"free", "copy", "insert"}
       THEN o.id = NoRun /\ o.then = "track" /\ \A n \in Nodes : o.res[n] = "pending"
       ELSE o.id \in Runs
  /\ o.status = "running" <=> o.then \in {"track", "step"}
  /\ o.pc = "step" => o.then = "step"
  /\ o.then = "step" => o.at <= Len(Order) /\ KindOf[Order[o.at]] # "review"
  /\ \A n \in Nodes : o.res[n] = "waiting" => o.status = "awaiting_review" /\ n = Order[o.at]

\* The reviews that are settled in p were settled in o already.
NoReviewSettled(o, p) ==
  \A n \in Nodes : KindOf[n] = "review" /\ p.res[n] \in Settled => o.res[n] \in Settled

\* p is the object o on its way: it publishes and goes on or leaves.
GoesOn(o, p) ==
  /\ p \in Objects /\ Sound(p) /\ NoReviewSettled(o, p)
  /\ p.id = o.id /\ p.pc = "window" /\ p.then \in {"step", "leave"}

LEMMA PassedToSettles ==
  ASSUME NEW res \in [Nodes -> Results], NEW k \in 1 .. Len(Order) + 1, NothingWaits(res)
  PROVE  /\ PassedTo(res, k) \in [Nodes -> Results] /\ NothingWaits(PassedTo(res, k))
         /\ \A n \in Nodes : KindOf[n] = "review" /\ PassedTo(res, k)[n] \in Settled => res[n] \in Settled
BY DEF PassedTo, NothingWaits, Results, Settled

\* The walk stops at the next step, at a review, or at the end; it settles no review.
LEMMA WalkGoesOn ==
  ASSUME NEW o \in Objects, o.id \in Runs, NEW i \in 1 .. Len(Order) + 1, NothingWaits(o.res)
  PROVE  GoesOn(o, Walk(o, i))
<1>. DEFINE next == NextPlace(o, i)
            passed == PassedTo(o.res, next)
            here == [o EXCEPT !.res = PassedTo(@, next)]
<1>0. /\ o.res \in [Nodes -> Results] /\ Len(Order) \in Nat
      /\ o.aborted \in BOOLEAN /\ o.at \in 1 .. Len(Order) + 1
  BY Places DEF Objects
<1>1. next \in 1 .. Len(Order) + 1
  BY NextPlaceWithin
<1>2. /\ passed \in [Nodes -> Results] /\ NothingWaits(passed)
      /\ \A n \in Nodes : KindOf[n] = "review" /\ passed[n] \in Settled => o.res[n] \in Settled
  BY <1>0, <1>1, PassedToSettles
<1>3. here \in Objects /\ here.res = passed /\ here.id = o.id /\ here = [o EXCEPT !.res = passed]
  BY <1>2 DEF Objects
<1>4. CASE o.aborted /\ i <= Len(Order)
  <2>1. Walk(o, i) = Pauses(o, i, "stopped", "leave")
    BY <1>4 DEF Walk
  <2> QED BY <2>1 DEF GoesOn, Pauses, Objects, Sound, NoReviewSettled, NothingWaits, Over, Open, Thens, PCs
<1>5. CASE ~(o.aborted /\ i <= Len(Order)) /\ next > Len(Order)
  <2>1. Walk(o, i) = Pauses(here, next, "complete", "leave")
    BY <1>5 DEF Walk
  <2>2. Pauses(here, next, "complete", "leave") \in Objects
    BY <1>1, <1>3 DEF Pauses, Objects, Over, Open, Thens, PCs
  <2> QED BY <2>1, <2>2, <1>1, <1>2, <1>3 DEF GoesOn, Pauses, Sound, NoReviewSettled, NothingWaits, Objects
<1>6. CASE /\ ~(o.aborted /\ i <= Len(Order)) /\ next <= Len(Order)
           /\ KindOf[Order[next]] = "review"
  <2>. DEFINE h == [here EXCEPT !.res[Order[next]] = "waiting"]
  <2>1. Walk(o, i) = Pauses(h, next, "awaiting_review", "leave")
    BY <1>0, <1>1, <1>6 DEF Walk
  <2>2. Order[next] \in Nodes
    BY <1>1, <1>6, Places
  <2>3. /\ h \in Objects /\ h.id = o.id
        /\ h.res = [passed EXCEPT ![Order[next]] = "waiting"]
    BY <1>2, <1>3, <2>2 DEF Objects, Results
  <2>4. Pauses(h, next, "awaiting_review", "leave") \in Objects
    BY <1>1, <2>3 DEF Pauses, Objects, Over, Open, Thens, PCs
  <2> QED BY <2>1, <2>2, <2>3, <2>4, <1>1, <1>2
          DEF GoesOn, Pauses, Sound, NoReviewSettled, NothingWaits, Objects, Settled
<1>7. CASE /\ ~(o.aborted /\ i <= Len(Order)) /\ next <= Len(Order)
           /\ KindOf[Order[next]] # "review"
  <2>. DEFINE h == [here EXCEPT !.res[Order[next]] = "running"]
  <2>1. Walk(o, i) = Pauses(h, next, "running", "step")
    BY <1>0, <1>1, <1>7 DEF Walk
  <2>2. Order[next] \in Nodes
    BY <1>1, <1>7, Places
  <2>3. /\ h \in Objects /\ h.id = o.id
        /\ h.res = [passed EXCEPT ![Order[next]] = "running"]
    BY <1>2, <1>3, <2>2 DEF Objects, Results
  <2>4. Pauses(h, next, "running", "step") \in Objects
    BY <1>1, <2>3 DEF Pauses, Objects, Over, Open, Thens, PCs
  <2> QED BY <2>1, <2>2, <2>3, <2>4, <1>1, <1>2, <1>7
          DEF GoesOn, Pauses, Sound, NoReviewSettled, NothingWaits, Objects, Settled
<1> QED BY <1>0, <1>1, <1>4, <1>5, <1>6, <1>7

-----------------------------------------------------------------------------
(* What a step does to the run objects.                                    *)

AllSound == \A w \in Walkers : run[w] \in Objects /\ Sound(run[w])

\* One object moves: it comes to p.
MovesTo(w, p) == run' = [run EXCEPT ![w] = p] /\ p \in Objects /\ Sound(p)

LEMMA FreeIsSound ==
  /\ Free \in Objects /\ Sound(Free)
  /\ [Free EXCEPT !.pc = "copy"] \in Objects /\ Sound([Free EXCEPT !.pc = "copy"])
<1>1. Untouched \in [Nodes -> Results] /\ \A n \in Nodes : Untouched[n] = "pending"
  BY DEF Untouched, Results
<1>2. 1 \in 1 .. Len(Order) + 1 /\ NoRun \in Runs \cup {NoRun} /\ "running" \in Open \cup Over
  BY Places DEF Open
<1>3. Free \in Objects
  BY <1>1, <1>2 DEF Free, Objects, PCs, Thens
<1>4. [Free EXCEPT !.pc = "copy"] \in Objects
  BY <1>3 DEF Objects, PCs
<1> QED BY <1>1, <1>3, <1>4 DEF Free, Sound

LEMMA StepEndsMoves ==
  ASSUME RunsTypeOK, AllSound, NEW w \in Walkers, NEW end \in Results, StepEnds(w, end)
  PROVE  GoesOn(run[w], run'[w]) /\ MovesTo(w, run'[w])
<1>. DEFINE o == run[w]
            n == Order[o.at]
            ended == [o EXCEPT !.res[n] = end]
<1>1. /\ run \in [Walkers -> Objects] /\ o \in Objects /\ Sound(o)
      /\ o.pc = "step" /\ o.then = "step" /\ o.id \in Runs /\ o.status = "running"
      /\ o.at \in 1 .. Len(Order) /\ KindOf[n] # "review" /\ n \in Nodes
      /\ NothingWaits(o.res) /\ o.res \in [Nodes -> Results] /\ o.aborted \in BOOLEAN
  <2>1. run \in [Walkers -> Objects]
    BY DEF RunsTypeOK, Objects, PCs, Thens
  <2>2. o \in Objects /\ Sound(o) /\ o.pc = "step"
    BY DEF AllSound, StepEnds, At
  <2>3. o.at \in 1 .. Len(Order) + 1 /\ o.res \in [Nodes -> Results] /\ o.aborted \in BOOLEAN
    BY <2>2 DEF Objects
  <2> QED BY <2>1, <2>2, <2>3, Places DEF Sound, NothingWaits
<1>2. /\ ended \in Objects /\ ended.id = o.id /\ ended.at = o.at
      /\ ended.res = [o.res EXCEPT ![n] = end]
  BY <1>1 DEF Objects
<1>3. CASE end = "failed"
  <2>. DEFINE p == Pauses(ended, o.at, IF o.aborted THEN "stopped" ELSE "failed", "leave")
  <2>1. run' = [run EXCEPT ![w] = p]
    BY <1>3 DEF StepEnds
  <2>2. p \in Objects
    BY <1>1, <1>2 DEF Pauses, Objects, Over, Open, Thens, PCs
  <2>3. GoesOn(o, p)
    BY <1>1, <1>2, <1>3, <2>2 DEF GoesOn, Pauses, Sound, NoReviewSettled, NothingWaits, Objects, Settled
  <2> QED BY <1>1, <2>1, <2>2, <2>3 DEF MovesTo, GoesOn
<1>4. CASE end # "failed"
  <2>. DEFINE p == Walk(ended, o.at + 1)
  <2>1. run' = [run EXCEPT ![w] = p] /\ end \in {"yes", "no", "done"}
    BY <1>4 DEF StepEnds
  <2>2. NothingWaits(ended.res) /\ o.at + 1 \in 1 .. Len(Order) + 1
    BY <1>1, <1>2, <2>1, Places DEF NothingWaits
  <2>3. GoesOn(ended, p)
    BY <1>1, <1>2, <2>2, WalkGoesOn
  <2>4. NoReviewSettled(o, p)
    BY <1>1, <1>2, <2>3 DEF GoesOn, NoReviewSettled
  <2> QED BY <1>1, <1>2, <2>1, <2>3, <2>4 DEF MovesTo, GoesOn
<1> QED BY <1>3, <1>4

\* After its publishing an object goes on, works on its step, or is gone.
LEMMA PublishRowMoves ==
  ASSUME RunsTypeOK, AllSound, NEW w \in Walkers, PublishRow(w)
  PROVE  /\ MovesTo(w, run'[w])
         /\ run[w].pc = "row" /\ run[w].id \in Runs
         /\ \/ run[w].then = "track" /\ Track(w) /\ GoesOn(run[w], run'[w])
            \/ /\ run[w].then = "step" /\ UNCHANGED <<active, hidden>>
               /\ run'[w] = [run[w] EXCEPT !.pc = "step"]
            \/ /\ run[w].then = "leave" /\ LeaveActive(w) /\ hidden' = hidden \ {w}
               /\ run'[w] = Free
            \/ run[w].then = "reply" /\ UNCHANGED <<active, hidden>> /\ run'[w] = Free
<1>. DEFINE o == run[w]
<1>1. /\ run \in [Walkers -> Objects] /\ o \in Objects /\ Sound(o)
      /\ o.pc = "row" /\ o.id \in Runs /\ o.at \in 1 .. Len(Order) + 1
  <2>1. run \in [Walkers -> Objects]
    BY DEF RunsTypeOK, Objects, PCs, Thens
  <2>2. o \in Objects /\ Sound(o) /\ o.pc = "row"
    BY DEF AllSound, PublishRow, At
  <2> QED BY <2>1, <2>2 DEF Sound, Objects
<1>2. CASE o.then = "track" /\ Track(w)
  <2>1. run' = [run EXCEPT ![w] = Walk(o, o.at)]
    BY <1>2 DEF Track
  <2>2. NothingWaits(o.res)
    BY <1>1, <1>2 DEF Sound, NothingWaits
  <2>3. GoesOn(o, Walk(o, o.at))
    BY <1>1, <2>2, WalkGoesOn
  <2> QED BY <1>1, <1>2, <2>1, <2>3 DEF MovesTo, GoesOn
<1>3. CASE /\ o.then = "step" /\ run' = [run EXCEPT ![w].pc = "step"]
           /\ UNCHANGED <<active, hidden>>
  <2>. DEFINE p == [o EXCEPT !.pc = "step"]
  <2>1. run' = [run EXCEPT ![w] = p]
    BY <1>1, <1>3
  <2>2. p \in Objects /\ p.id = o.id /\ p.status = o.status /\ p.then = o.then /\ p.at = o.at
        /\ p.res = o.res /\ p.pc = "step"
    BY <1>1 DEF Objects, PCs
  <2>3. Sound(p)
    BY <1>1, <1>3, <2>2 DEF Sound
  <2> QED BY <1>1, <1>3, <2>1, <2>2, <2>3 DEF MovesTo
<1>4. CASE /\ o.then = "leave" /\ LeaveActive(w) /\ run' = [run EXCEPT ![w] = Free]
           /\ hidden' = hidden \ {w}
  BY <1>1, <1>4, FreeIsSound DEF MovesTo
<1>5. CASE /\ o.then = "reply" /\ run' = [run EXCEPT ![w] = Free] /\ UNCHANGED <<active, hidden>>
  BY <1>1, <1>5, FreeIsSound DEF MovesTo
<1> QED BY <1>2, <1>3, <1>4, <1>5 DEF PublishRow, PublishReturns

\* A run is asked for, by a person or by a tick.
Starts(w) ==
  /\ BeginStart(w) /\ asks' \in 0 .. MaxAsks
  /\ UNCHANGED <<row, shown, onBoard, active, stopper, approved, hidden, upsets>>

\* Something goes wrong elsewhere.
Bothered(k) ==
  /\ Upset(k)
  /\ UNCHANGED <<row, shown, onBoard, active, run, stopper, approved, hidden, asks>>

\* The steps of the runs, by themselves and beside the triggers.
RunsStep == RunsNext \/ (\E w \in Walkers : Starts(w)) \/ (\E k \in Trouble : Bothered(k))

LEMMA StartsMoves ==
  ASSUME RunsTypeOK, AllSound, NEW w \in Walkers, Starts(w)
  PROVE  MovesTo(w, run'[w]) /\ run[w].pc = "free" /\ run'[w] = [Free EXCEPT !.pc = "copy"]
BY FreeIsSound DEF Starts, BeginStart, At, MovesTo, RunsTypeOK

LEMMA CopyReadMoves ==
  ASSUME RunsTypeOK, AllSound, NEW w \in Walkers, CopyRead(w)
  PROVE  MovesTo(w, run'[w]) /\ run[w].pc = "copy" /\ run'[w].pc \in {"insert", "free"}
<1>. DEFINE o == run[w]
            p == [o EXCEPT !.pc = "insert"]
<1>1. run \in [Walkers -> Objects] /\ o \in Objects /\ Sound(o) /\ o.pc = "copy"
  BY DEF RunsTypeOK, Objects, PCs, Thens, AllSound, CopyRead, At
<1>2. CASE run' = [run EXCEPT ![w] = Free]
  BY <1>1, <1>2, FreeIsSound DEF MovesTo, Free
<1>3. CASE run' = [run EXCEPT ![w] = [@ EXCEPT !.pc = "insert"]]
  <2>1. p \in Objects /\ p.pc = "insert"
    BY <1>1 DEF Objects, PCs
  <2>2. Sound(p)
    BY <1>1 DEF Sound, Objects
  <2> QED BY <1>1, <1>3, <2>1, <2>2 DEF MovesTo
<1> QED BY <1>1, <1>2, <1>3 DEF CopyRead

LEMMA InsertRowMoves ==
  ASSUME RunsTypeOK, AllSound, NEW w \in Walkers, NEW r \in Runs, InsertRow(w, r)
  PROVE  /\ MovesTo(w, run'[w])
         /\ run[w].id = NoRun /\ run'[w].pc = "window" /\ run'[w].id = r
         /\ \A n \in Nodes : run'[w].res[n] = "pending"
<1>. DEFINE o == run[w]
            p == [o EXCEPT !.pc = "window", !.id = r]
<1>1. run \in [Walkers -> Objects] /\ o \in Objects /\ Sound(o) /\ o.pc = "insert"
  BY DEF RunsTypeOK, Objects, PCs, Thens, AllSound, InsertRow, At
<1>2. run' = [run EXCEPT ![w] = p]
  BY <1>1 DEF InsertRow
<1>3. p \in Objects /\ p.pc = "window" /\ p.id = r /\ p.res = o.res
  BY <1>1 DEF Objects, PCs
<1>4. Sound(p) /\ o.id = NoRun /\ \A n \in Nodes : p.res[n] = "pending"
  BY <1>1, <1>3 DEF Sound, Objects
<1> QED BY <1>1, <1>2, <1>3, <1>4 DEF MovesTo

LEMMA PublishWindowMoves ==
  ASSUME RunsTypeOK, AllSound, NEW w \in Walkers, PublishWindow(w)
  PROVE  /\ MovesTo(w, run'[w])
         /\ run[w].pc = "window" /\ run[w].id \in Runs
         /\ run'[w] = [run[w] EXCEPT !.pc = "row"]
<1>. DEFINE o == run[w]
            p == [o EXCEPT !.pc = "row"]
<1>1. run \in [Walkers -> Objects] /\ o \in Objects /\ Sound(o) /\ o.pc = "window"
  BY DEF RunsTypeOK, Objects, PCs, Thens, AllSound, PublishWindow, At
<1>2. run' = [run EXCEPT ![w] = p]
  BY <1>1 DEF PublishWindow
<1>3. p \in Objects /\ p.pc = "row" /\ p.id = o.id
  BY <1>1 DEF Objects, PCs
<1>4. Sound(p) /\ o.id \in Runs
  BY <1>1, <1>3 DEF Sound, Objects
<1> QED BY <1>1, <1>2, <1>3, <1>4 DEF MovesTo

\* At most one node of a row that waits is waiting.
OneWaits(res) == \A m, n \in Nodes : res[m] = "waiting" /\ res[n] = "waiting" => m = n

LEMMA AnswerMoves ==
  ASSUME RunsTypeOK, AllSound, NEW w \in Walkers, NEW r \in Runs, NEW yes \in BOOLEAN,
         Answer(w, r, yes), OneWaits(row[r].res)
  PROVE  /\ MovesTo(w, run'[w])
         /\ run[w].id = NoRun /\ run'[w].pc = "window" /\ run'[w].id = r
         /\ run'[w].then \in {"track", "reply"}
         /\ \A n \in Nodes : run'[w].res[n] \in Settled => row[r].res[n] \in Settled \/ n \in approved'[r]
<1>. DEFINE res == row[r].res
            n == CHOOSE n \in Waiting(res) : \A m \in Waiting(res) : PlaceOf(n) <= PlaceOf(m)
            at == PlaceOf(n)
            o == [Free EXCEPT !.pc = "window", !.id = r, !.at = at, !.res = res]
<1>1. /\ run \in [Walkers -> Objects] /\ run[w].pc = "free" /\ run[w].id = NoRun
      /\ res \in [Nodes -> Results] /\ Waiting(res) # {} /\ approved \in [Runs -> SUBSET Nodes]
  BY DEF RunsTypeOK, Objects, PCs, Thens, AllSound, Sound, Answer, At
<1>2. n \in Nodes /\ \A m \in Nodes : res[m] = "waiting" => m = n
  <2>1. PICK k \in Nodes : res[k] = "waiting"
    BY <1>1 DEF Waiting
  <2>2. Waiting(res) = {k}
    BY <2>1 DEF Waiting, OneWaits
  <2>3. PlaceOf(k) <= PlaceOf(k)
    BY Places
  <2>4. n = k
    BY <2>2, <2>3
  <2> QED BY <2>1, <2>4 DEF OneWaits
<1>. HIDE DEF n
<1>3. at \in 1 .. Len(Order) /\ Order[at] = n /\ at + 1 \in 1 .. Len(Order) + 1
  BY <1>2, Places
<1>. HIDE DEF at
<1>4. /\ o \in Objects /\ o.res = res /\ o.pc = "window" /\ o.id = r /\ o.at = at
      /\ o.status = "running" /\ o.then = "track"
  <2>1. Free \in Objects /\ Free.status = "running" /\ Free.then = "track"
    BY FreeIsSound DEF Free
  <2>2. at \in 1 .. Len(Order) + 1
    BY <1>3, Places
  <2> QED BY <1>1, <2>1, <2>2 DEF Objects, PCs
<1>5. CASE yes
  <2>. DEFINE p == [o EXCEPT !.at = at + 1, !.res[Order[at]] = "done"]
  <2>1. run' = [run EXCEPT ![w] = p] /\ approved' = [approved EXCEPT ![r] = @ \cup {n}]
    BY <1>3, <1>5 DEF Answer, n, at
  <2>2. /\ p.res = [res EXCEPT ![n] = "done"] /\ p.pc = "window" /\ p.then = "track"
        /\ p.id = r /\ p.status = "running"
    BY <1>3, <1>4 DEF Free
  <2>3. p \in Objects
    BY <1>1, <1>2, <1>3, <1>4 DEF Objects, Results, Settled
  <2>4. Sound(p)
    BY <1>1, <1>2, <2>2 DEF Sound
  <2> QED BY <1>1, <1>2, <2>1, <2>2, <2>3, <2>4 DEF MovesTo
<1>6. CASE ~yes
  <2>. DEFINE p == [o EXCEPT !.res[Order[at]] = "failed", !.status = "stopped", !.then = "reply"]
  <2>1. run' = [run EXCEPT ![w] = p] /\ approved' = approved
    BY <1>3, <1>6 DEF Answer, n, at
  <2>2. /\ p.res = [res EXCEPT ![n] = "failed"] /\ p.pc = "window" /\ p.then = "reply"
        /\ p.id = r /\ p.status = "stopped"
    BY <1>3, <1>4 DEF Free
  <2>3. p \in Objects
    BY <1>1, <1>2, <1>3, <1>4 DEF Objects, Results, Thens, Over
  <2>4. Sound(p)
    BY <1>1, <1>2, <2>2 DEF Sound
  <2> QED BY <1>1, <1>2, <2>1, <2>2, <2>3, <2>4 DEF MovesTo, Settled
<1> QED BY <1>5, <1>6

\* A stop only tells the run in flight.
LEMMA StopMoves ==
  ASSUME RunsTypeOK, AllSound, Stop
  PROVE  /\ run' \in [Walkers -> Objects]
         /\ \A w \in Walkers : /\ run'[w].pc = run[w].pc /\ run'[w].id = run[w].id
                               /\ run'[w].at = run[w].at /\ run'[w].res = run[w].res
                               /\ run'[w].status = run[w].status /\ run'[w].then = run[w].then
<1>1. run \in [Walkers -> Objects]
  BY DEF RunsTypeOK, Objects, PCs, Thens
<1>2. CASE active # NoOne
  <2>1. active \in Walkers /\ run' = [run EXCEPT ![active].aborted = TRUE]
    BY <1>2 DEF Stop, RunsTypeOK
  <2> QED BY <1>1, <2>1 DEF Objects
<1>3. CASE active = NoOne
  BY <1>1, <1>3 DEF Stop
<1> QED BY <1>2, <1>3

LEMMA InsertFailsMoves ==
  ASSUME RunsTypeOK, NEW w \in Walkers, InsertFails(w)
  PROVE  MovesTo(w, run'[w]) /\ run[w].pc = "insert" /\ run'[w] = Free
BY FreeIsSound DEF InsertFails, At, MovesTo, RunsTypeOK

-----------------------------------------------------------------------------
(* The inductive invariant.                                                *)

\* A review that counts as passed was approved in its run, by object and by row.
ReviewsInv ==
  /\ \A w \in Walkers, n \in Nodes :
       KindOf[n] = "review" /\ run[w].id # NoRun /\ run[w].res[n] \in Settled => n \in approved[run[w].id]
  /\ \A r \in Runs : row[r].status = "awaiting_review" =>
       /\ OneWaits(row[r].res)
       /\ \A n \in Nodes : KindOf[n] = "review" /\ row[r].res[n] \in Settled => n \in approved[r]

\* What the window shows as running is at an object that has not yet shown its end.
GhostInv ==
  upsets = [k \in Trouble |-> 0] =>
    /\ onBoard
    /\ \A r \in Runs : row[r].status = "running" => \E w \in Walkers : run[w].id = r
    /\ shown.status = "running" =>
         \E w \in Walkers : run[w].id = shown.id /\ run[w].id \in Runs
                              /\ ~(run[w].pc = "row" /\ run[w].status # "running")

IInv == RunsTypeOK /\ AllSound /\ ReviewsInv /\ InReach /\ GhostInv

LEMMA NextCases ==
  ASSUME RunsTypeOK, RunsStep
  PROVE  \/ \E w \in Walkers : \/ Starts(w) \/ CopyRead(w) \/ InsertFails(w)
                               \/ PublishWindow(w) \/ PublishRow(w)
         \/ \E w \in Walkers, r \in Runs : InsertRow(w, r)
         \/ \E w \in Walkers, r \in Runs, yes \in BOOLEAN : Answer(w, r, yes)
         \/ \E w \in Walkers, end \in Results : StepEnds(w, end)
         \/ Stop \/ StopLooks \/ StopShows \/ StopWrites \/ DeleteWindow \/ RunsCrash
         \/ \E k \in Trouble : Bothered(k)
<1>1. ASSUME NEW w \in Walkers, PressRun(w) PROVE Starts(w)
  BY <1>1, WorkflowAssumption DEF PressRun, Starts, RunsTypeOK
<1> QED BY <1>1, Zenon DEF RunsStep, RunsNext, Person, Onward, StopGoesOn

LEMMA InitHolds == RunsInit => IInv
<1>. SUFFICES ASSUME RunsInit PROVE IInv
  OBVIOUS
<1>1. Free \in Objects /\ Sound(Free) /\ Free.id = NoRun /\ Free.pc = "free"
  BY FreeIsSound DEF Free
<1>2. Untouched \in [Nodes -> Results] /\ \A n \in Nodes : Untouched[n] = "pending"
  BY DEF Untouched, Results
<1>3. AllSound
  BY <1>1 DEF RunsInit, AllSound
<1>4. RunsTypeOK
  BY <1>1, <1>2, WorkflowAssumption
  DEF RunsInit, RunsTypeOK, Objects, PCs, Thens, NoRow, NoStop, NoRun, Trouble
<1>5. ReviewsInv
  BY <1>1 DEF RunsInit, ReviewsInv, NoRow
<1>6. InReach /\ GhostInv
  BY <1>1 DEF RunsInit, InReach, GhostInv, Walking, At, NoRow
<1> QED BY <1>3, <1>4, <1>5, <1>6 DEF IInv

LEMMA SoundKept ==
  ASSUME RunsTypeOK, AllSound, ReviewsInv, RunsStep
  PROVE  run' \in [Walkers -> Objects] /\ AllSound'
<1>1. run \in [Walkers -> Objects] /\ \A w \in Walkers : Sound(run[w])
  BY DEF RunsTypeOK, Objects, PCs, Thens, AllSound
<1>2. ASSUME NEW w \in Walkers, MovesTo(w, run'[w]) PROVE run' \in [Walkers -> Objects] /\ AllSound'
  BY <1>1, <1>2 DEF MovesTo, AllSound
<1>3. CASE \E w \in Walkers : \/ Starts(w) \/ CopyRead(w) \/ InsertFails(w)
                              \/ PublishWindow(w) \/ PublishRow(w)
  BY <1>2, <1>3, StartsMoves, CopyReadMoves, InsertFailsMoves, PublishWindowMoves, PublishRowMoves
<1>4. CASE \E w \in Walkers, r \in Runs : InsertRow(w, r)
  BY <1>2, <1>4, InsertRowMoves
<1>5. CASE \E w \in Walkers, r \in Runs, yes \in BOOLEAN : Answer(w, r, yes)
  <2>1. PICK w \in Walkers, r \in Runs, yes \in BOOLEAN : Answer(w, r, yes)
    BY <1>5
  <2>2. OneWaits(row[r].res)
    BY <2>1 DEF Answer, ReviewsInv
  <2> QED BY <1>2, <2>1, <2>2, AnswerMoves
<1>6. CASE \E w \in Walkers, end \in Results : StepEnds(w, end)
  BY <1>2, <1>6, StepEndsMoves
<1>7. CASE Stop
  BY <1>1, <1>7, StopMoves DEF AllSound, Sound
<1>8. CASE run' = run
  BY <1>1, <1>8 DEF AllSound
<1>9. CASE RunsCrash
  BY <1>9, FreeIsSound DEF RunsCrash, AllSound
<1> QED BY <1>3, <1>4, <1>5, <1>6, <1>7, <1>8, <1>9, NextCases
        DEF StopLooks, StopShows, StopWrites, DeleteWindow, Bothered

LEMMA UpsetTyped ==
  ASSUME RunsTypeOK, NEW k \in Trouble, Upset(k)
  PROVE  upsets' \in [Trouble -> 0 .. MaxUpsets] /\ upsets' # [j \in Trouble |-> 0]
<1>1. upsets \in [Trouble -> 0 .. MaxUpsets] /\ MaxUpsets \in Nat
  BY WorkflowAssumption DEF RunsTypeOK
<1>2. upsets[k] + 1 \in 0 .. MaxUpsets /\ upsets[k] + 1 # 0
  BY <1>1 DEF Upset, Trouble
<1>3. upsets' = [upsets EXCEPT ![k] = upsets[k] + 1]
  BY DEF Upset
<1>4. upsets'[k] # 0
  BY <1>1, <1>2, <1>3
<1> QED BY <1>1, <1>2, <1>3, <1>4

\* The type of the objects, as RunsTypeOK writes it.
LEMMA ObjectsTyped ==
  Objects = [pc : {"free", "copy", "insert", "window", "row", "step"},
             id : Runs \cup {NoRun}, at : 1 .. Len(Order) + 1,
             res : [Nodes -> Results], status : Open \cup Over,
             aborted : BOOLEAN, then : {"track", "step", "leave", "reply"}]
BY DEF Objects, PCs, Thens

Rows == [Runs -> [status : {"none", "over"} \cup Open, res : [Nodes -> Results]]]
Shows == [id : Runs \cup {NoRun}, status : {"over"} \cup Open]
Stops == [pc : {"idle", "look", "window", "row"}, id : Runs \cup {NoRun}]

LEMMA WritesTyped ==
  ASSUME RunsTypeOK, AllSound
  PROVE  /\ \A w \in Walkers : run[w].id \in Runs => Written(w) \in Rows
         /\ \A w \in Walkers : run[w].id \in Runs => Show(run[w].id, run[w].status) \in Shows
         /\ Show(stopper.id, "stopped") \in Shows
<1>1. /\ row \in Rows /\ shown \in Shows /\ stopper \in Stops
      /\ \A w \in Walkers : run[w].status \in Open \cup Over /\ run[w].res \in [Nodes -> Results]
  BY DEF RunsTypeOK, AllSound, Objects, Rows, Shows, Stops
<1>2. \A w \in Walkers : Kept(run[w].status) \in {"over"} \cup Open
  BY <1>1 DEF Kept
<1>3. Untouched \in [Nodes -> Results]
  BY DEF Untouched, Results
<1>4. ASSUME NEW w \in Walkers, run[w].id \in Runs PROVE Written(w) \in Rows
  BY <1>1, <1>2, <1>3, <1>4 DEF Written, Rows
<1>5. Kept("stopped") = "over"
  BY DEF Kept, Over
<1> QED BY <1>1, <1>2, <1>4, <1>5 DEF Show, Shows, Stops

Rest ==
  /\ row \in Rows /\ shown \in Shows /\ stopper \in Stops
  /\ onBoard \in BOOLEAN /\ active \in Walkers \cup {NoOne}
  /\ approved \in [Runs -> SUBSET Nodes] /\ hidden \subseteq Walkers
  /\ asks \in 0 .. MaxAsks /\ upsets \in [Trouble -> 0 .. MaxUpsets]

LEMMA TypesKept ==
  ASSUME RunsTypeOK, AllSound, ReviewsInv, RunsStep
  PROVE  RunsTypeOK'
<1>. USE DEF RunsTypeOK, Rest
<1>1. run' \in [Walkers -> Objects]
  BY SoundKept
<1>2. /\ row \in Rows /\ shown \in Shows /\ stopper \in Stops
      /\ \A w \in Walkers : run[w] \in Objects /\ Sound(run[w])
  BY WorkflowAssumption DEF Rows, Shows, Stops, AllSound
<1>3. Rest'
  <2>1. ASSUME NEW w \in Walkers, Starts(w) PROVE Rest'
    BY <1>2, <2>1, WorkflowAssumption DEF Starts
  <2>2. ASSUME NEW w \in Walkers, CopyRead(w) PROVE Rest'
    BY <1>2, <2>2, UpsetTyped DEF CopyRead, Trouble
  <2>3. ASSUME NEW w \in Walkers, InsertFails(w) PROVE Rest'
    BY <1>2, <2>3, UpsetTyped DEF InsertFails, Trouble
  <2>4. ASSUME NEW w \in Walkers, PublishWindow(w) PROVE Rest'
    <3>1. run[w].id \in Runs /\ (shown' = Show(run[w].id, run[w].status) \/ shown' = shown)
      BY <2>4, PublishWindowMoves DEF PublishWindow
    <3>2. shown' \in Shows
      BY <1>2, <3>1, WritesTyped
    <3>3. upsets' \in [Trouble -> 0 .. MaxUpsets]
      BY <2>4, UpsetTyped DEF PublishWindow, Trouble
    <3> QED BY <1>2, <2>4, <3>2, <3>3 DEF PublishWindow
  <2>5. ASSUME NEW w \in Walkers, PublishRow(w) PROVE Rest'
    <3>1. run[w].id \in Runs /\ (row' = Written(w) \/ row' = row)
      BY <2>5, PublishRowMoves DEF PublishRow
    <3>2. row' \in Rows
      BY <1>2, <3>1, WritesTyped
    <3>3. upsets' \in [Trouble -> 0 .. MaxUpsets]
      BY <2>5, UpsetTyped DEF PublishRow, Trouble
    <3>4. active' \in Walkers \cup {NoOne} /\ hidden' \subseteq Walkers
      BY <2>5 DEF PublishRow, PublishReturns, Track, LeaveActive
    <3> QED BY <1>2, <2>5, <3>2, <3>3, <3>4 DEF PublishRow
  <2>6. ASSUME NEW w \in Walkers, NEW r \in Runs, InsertRow(w, r) PROVE Rest'
    <3>1. row' \in Rows
      <4>1. row' = [row EXCEPT ![r].status = "running"] /\ row \in Rows
        BY <1>2, <2>6 DEF InsertRow
      <4>2. "running" \in {"none", "over"} \cup Open
        BY DEF Open
      <4> QED BY <4>1, <4>2 DEF Rows
    <3> QED BY <1>2, <2>6, <3>1 DEF InsertRow
  <2>7. ASSUME NEW w \in Walkers, NEW r \in Runs, NEW yes \in BOOLEAN, Answer(w, r, yes) PROVE Rest'
    <3>1. OneWaits(row[r].res)
      BY <2>7 DEF Answer, ReviewsInv
    <3>2. \E n : \/ approved' = approved
                 \/ approved' = [approved EXCEPT ![r] = @ \cup {Order[PlaceOf(n)]}] /\ n \in Nodes
      <4>. DEFINE n == CHOOSE n \in Waiting(row[r].res) :
                         \A m \in Waiting(row[r].res) : PlaceOf(n) <= PlaceOf(m)
      <4>1. PICK k \in Nodes : row[r].res[k] = "waiting"
        BY <2>7 DEF Answer, Waiting
      <4>2. Waiting(row[r].res) = {k} /\ PlaceOf(k) <= PlaceOf(k)
        BY <3>1, <4>1, Places DEF Waiting, OneWaits
      <4>3. n \in Nodes
        BY <4>2
      <4> QED BY <2>7, <4>3 DEF Answer
    <3>3. approved' \in [Runs -> SUBSET Nodes]
      <4>1. PICK n : \/ approved' = approved
                     \/ approved' = [approved EXCEPT ![r] = @ \cup {Order[PlaceOf(n)]}] /\ n \in Nodes
        BY <3>2
      <4>2. n \in Nodes => Order[PlaceOf(n)] \in Nodes
        BY Places
      <4> QED BY <4>1, <4>2
    <3> QED BY <1>2, <2>7, <3>3 DEF Answer
  <2>8. ASSUME NEW w \in Walkers, NEW end \in Results, StepEnds(w, end) PROVE Rest'
    BY <1>2, <2>8 DEF StepEnds
  <2>9. CASE Stop
    BY <1>2, <2>9, WorkflowAssumption DEF Stop, Stops, NoStop
  <2>10. CASE StopLooks
    BY <1>2, <2>10 DEF StopLooks, Stops, Shows, NoStop
  <2>11. CASE StopShows
    BY <1>2, <2>11, WritesTyped, UpsetTyped DEF StopShows, Stops, Trouble
  <2>12. CASE StopWrites
    <3>1. NoStop \in Stops
      BY DEF NoStop, Stops
    <3>2. [NoRow EXCEPT !.status = "over"] \in [status : {"none", "over"} \cup Open, res : [Nodes -> Results]]
      BY DEF NoRow, Untouched, Results
    <3>3. row' \in Rows
      BY <1>2, <2>12, <3>2 DEF StopWrites, Rows
    <3> QED BY <1>2, <2>12, <3>1, <3>3, UpsetTyped DEF StopWrites, Trouble
  <2>13. CASE DeleteWindow
    BY <1>2, <2>13, UpsetTyped DEF DeleteWindow, Trouble
  <2>14. CASE RunsCrash
    BY <1>2, <2>14, UpsetTyped DEF RunsCrash, Trouble, NoStop, Stops
  <2>15. CASE \E k \in Trouble : Bothered(k)
    BY <1>2, <2>15, UpsetTyped DEF Bothered
  <2> QED BY <2>1, <2>2, <2>3, <2>4, <2>5, <2>6, <2>7, <2>8, <2>9, <2>10, <2>11, <2>12, <2>13, <2>14, <2>15, NextCases
<1> QED BY <1>1, <1>3, ObjectsTyped DEF Rows, Shows, Stops

\* An object that moves without settling a review keeps to what was approved.
LEMMA MoveKeepsReviews ==
  ASSUME RunsTypeOK, ReviewsInv, NEW w \in Walkers, MovesTo(w, run'[w]),
         \/ run'[w].id = NoRun
         \/ run'[w].id = run[w].id /\ NoReviewSettled(run[w], run'[w]),
         approved' = approved, row' = row
  PROVE  ReviewsInv'
<1>1. \A v \in Walkers : v # w => run'[v] = run[v]
  BY DEF MovesTo, RunsTypeOK
<1> QED BY <1>1 DEF ReviewsInv, NoReviewSettled

LEMMA PublishRowKeepsReviews ==
  ASSUME RunsTypeOK, AllSound, ReviewsInv, NEW w \in Walkers, PublishRow(w)
  PROVE  ReviewsInv'
<1>. DEFINE o == run[w]
            keeps(r) == row[r].status = "awaiting_review" =>
                          /\ OneWaits(row[r].res)
                          /\ \A n \in Nodes : KindOf[n] = "review" /\ row[r].res[n] \in Settled => n \in approved[r]
<1>1. approved' = approved /\ o.id \in Runs /\ Sound(o) /\ (row' = row \/ row' = Written(w))
  BY PublishRowMoves DEF PublishRow, AllSound
<1>2. \A r \in Runs : keeps(r)'
  <2>1. CASE row' = row
    BY <1>1, <2>1 DEF ReviewsInv
  <2>2. CASE row' = Written(w)
    <3>1. \A r \in Runs : r # o.id => row'[r] = row[r]
      BY <2>2 DEF Written, RunsTypeOK
    <3>2. row'[o.id].status = "awaiting_review" => row'[o.id].res = o.res
      BY <1>1, <2>2 DEF Written, RunsTypeOK, Kept, Over
    <3>3. OneWaits(o.res)
      BY <1>1 DEF Sound, OneWaits
    <3>4. \A n \in Nodes : KindOf[n] = "review" /\ o.res[n] \in Settled => n \in approved[o.id]
      BY <1>1 DEF ReviewsInv, NoRun, Runs
    <3>5. ASSUME NEW r \in Runs PROVE keeps(r)'
      <4>1. CASE r # o.id
        BY <1>1, <3>1, <4>1 DEF ReviewsInv
      <4>2. CASE r = o.id
        BY <1>1, <3>2, <3>3, <3>4, <4>2
      <4> QED BY <4>1, <4>2
    <3> QED BY <3>5
  <2> QED BY <1>1, <2>1, <2>2
<1>3. \A v \in Walkers, n \in Nodes :
        KindOf[n] = "review" /\ run'[v].id # NoRun /\ run'[v].res[n] \in Settled => n \in approved'[run'[v].id]
  <2>0. run' = [run EXCEPT ![w] = run'[w]]
    BY PublishRowMoves DEF MovesTo
  <2>1. \A v \in Walkers : v # w => run'[v] = run[v]
    BY <2>0 DEF RunsTypeOK
  <2>2. run'[w].id = NoRun \/ (run'[w].id = o.id /\ NoReviewSettled(o, run'[w]))
    <3>1. CASE GoesOn(o, run'[w])
      BY <3>1 DEF GoesOn
    <3>2. CASE run'[w] = [o EXCEPT !.pc = "step"]
      BY <3>2, PublishRowMoves DEF NoReviewSettled, AllSound, Objects
    <3>3. CASE run'[w] = Free
      BY <3>3 DEF Free
    <3> QED BY <3>1, <3>2, <3>3, PublishRowMoves
  <2> QED BY <1>1, <2>1, <2>2 DEF ReviewsInv, NoReviewSettled
<1> QED BY <1>2, <1>3 DEF ReviewsInv

LEMMA ReviewsKept ==
  ASSUME RunsTypeOK, AllSound, ReviewsInv, RunsStep
  PROVE  ReviewsInv'
<1>1. ASSUME NEW w \in Walkers, Starts(w) PROVE ReviewsInv'
  <2>1. run'[w].id = NoRun
    BY <1>1, StartsMoves DEF Free
  <2> QED BY <1>1, <2>1, StartsMoves, MoveKeepsReviews DEF Starts
<1>2. ASSUME NEW w \in Walkers, CopyRead(w) PROVE ReviewsInv'
  <2>1. run'[w].id = NoRun
    BY <1>2, CopyReadMoves DEF MovesTo, Sound
  <2> QED BY <1>2, <2>1, CopyReadMoves, MoveKeepsReviews DEF CopyRead
<1>3. ASSUME NEW w \in Walkers, InsertFails(w) PROVE ReviewsInv'
  <2>1. run'[w].id = NoRun
    BY <1>3, InsertFailsMoves DEF Free
  <2> QED BY <1>3, <2>1, InsertFailsMoves, MoveKeepsReviews DEF InsertFails
<1>4. ASSUME NEW w \in Walkers, PublishWindow(w) PROVE ReviewsInv'
  <2>1. run'[w].id = run[w].id /\ NoReviewSettled(run[w], run'[w])
    BY <1>4, PublishWindowMoves DEF NoReviewSettled, AllSound, Objects
  <2> QED BY <1>4, <2>1, PublishWindowMoves, MoveKeepsReviews DEF PublishWindow
<1>5. ASSUME NEW w \in Walkers, PublishRow(w) PROVE ReviewsInv'
  BY <1>5, PublishRowKeepsReviews
<1>6. ASSUME NEW w \in Walkers, NEW r \in Runs, InsertRow(w, r) PROVE ReviewsInv'
  <2>1. \A v \in Walkers : v # w => run'[v] = run[v]
    BY <1>6, InsertRowMoves DEF MovesTo, RunsTypeOK
  <2>2. \A n \in Nodes : run'[w].res[n] \notin Settled
    BY <1>6, InsertRowMoves DEF Settled
  <2>3. approved' = approved /\ \A s \in Runs : row'[s].status = "awaiting_review" => row'[s] = row[s]
    BY <1>6 DEF InsertRow, RunsTypeOK
  <2> QED BY <2>1, <2>2, <2>3 DEF ReviewsInv
<1>7. ASSUME NEW w \in Walkers, NEW r \in Runs, NEW yes \in BOOLEAN, Answer(w, r, yes) PROVE ReviewsInv'
  <2>0. OneWaits(row[r].res)
    BY <1>7 DEF Answer, ReviewsInv
  <2>1. /\ \A v \in Walkers : v # w => run'[v] = run[v]
        /\ run'[w].id = r
        /\ \A n \in Nodes : run'[w].res[n] \in Settled => row[r].res[n] \in Settled \/ n \in approved'[r]
    BY <1>7, <2>0, AnswerMoves DEF MovesTo, RunsTypeOK
  <2>2. row' = row /\ row[r].status = "awaiting_review"
    BY <1>7 DEF Answer
  <2>3. \A s \in Runs : approved[s] \subseteq approved'[s]
    BY <1>7 DEF Answer, RunsTypeOK
  <2>4. \A v \in Walkers, n \in Nodes :
          KindOf[n] = "review" /\ run'[v].id # NoRun /\ run'[v].res[n] \in Settled => n \in approved'[run'[v].id]
    <3>1. \A v \in Walkers : run[v].id # NoRun => run[v].id \in Runs
      BY DEF RunsTypeOK
    <3> QED BY <2>1, <2>2, <2>3, <3>1 DEF ReviewsInv
  <2>5. \A s \in Runs : row'[s].status = "awaiting_review" =>
          /\ OneWaits(row'[s].res)
          /\ \A n \in Nodes : KindOf[n] = "review" /\ row'[s].res[n] \in Settled => n \in approved'[s]
    BY <2>2, <2>3 DEF ReviewsInv
  <2> QED BY <2>4, <2>5 DEF ReviewsInv
<1>8. ASSUME NEW w \in Walkers, NEW end \in Results, StepEnds(w, end) PROVE ReviewsInv'
  BY <1>8, StepEndsMoves, MoveKeepsReviews DEF StepEnds, GoesOn
<1>9. CASE Stop
  BY <1>9, StopMoves DEF Stop, ReviewsInv
<1>10. CASE StopLooks \/ StopShows \/ DeleteWindow
  BY <1>10 DEF StopLooks, StopShows, DeleteWindow, ReviewsInv
<1>11. CASE StopWrites
  <2>1. \A s \in Runs : row'[s].status = "awaiting_review" => row'[s] = row[s]
    BY <1>11 DEF StopWrites, RunsTypeOK, NoRow
  <2> QED BY <1>11, <2>1 DEF StopWrites, ReviewsInv
<1>12. CASE RunsCrash
  BY <1>12 DEF RunsCrash, ReviewsInv, Free
<1>13. CASE \E k \in Trouble : Bothered(k)
  BY <1>13 DEF Bothered, ReviewsInv
<1> QED BY <1>1, <1>2, <1>3, <1>4, <1>5, <1>6, <1>7, <1>8, <1>9, <1>10, <1>11, <1>12, <1>13, NextCases

-----------------------------------------------------------------------------
(* What looks like running is under way.                                   *)

LEMMA GoingOnIsWalking ==
  ASSUME NEW w \in Walkers, run'[w].pc = "window", run'[w].then \in {"step", "leave"}
  PROVE  Walking(w)'
BY DEF Walking, At

LEMMA ReachKept ==
  ASSUME RunsTypeOK, AllSound, ReviewsInv, InReach, RunsStep
  PROVE  InReach'
<1>0. NoOne \notin Walkers /\ active \in Walkers \cup {NoOne}
  BY WorkflowAssumption DEF RunsTypeOK
<1>a. ASSUME NEW w \in Walkers, MovesTo(w, run'[w]), Walking(w)' <=> Walking(w),
             UNCHANGED <<active, hidden>>
      PROVE  InReach'
  <2>1. \A v \in Walkers : v # w => run'[v] = run[v]
    BY <1>a DEF MovesTo, RunsTypeOK
  <2>2. \A v \in Walkers : Walking(v)' <=> Walking(v)
    BY <1>a, <2>1 DEF Walking, At
  <2> QED BY <1>0, <1>a, <2>2 DEF InReach
<1>1. ASSUME NEW w \in Walkers, Starts(w) PROVE InReach'
  <2>1. Walking(w)' <=> Walking(w)
    BY <1>1, StartsMoves DEF Walking, At, Free
  <2> QED BY <1>1, <1>a, <2>1, StartsMoves DEF Starts
<1>2. ASSUME NEW w \in Walkers, CopyRead(w) PROVE InReach'
  <2>1. Walking(w)' <=> Walking(w)
    BY <1>2, CopyReadMoves DEF Walking, At
  <2> QED BY <1>2, <1>a, <2>1, CopyReadMoves DEF CopyRead
<1>3. ASSUME NEW w \in Walkers, InsertFails(w) PROVE InReach'
  <2>1. Walking(w)' <=> Walking(w)
    BY <1>3, InsertFailsMoves DEF Walking, At, Free
  <2> QED BY <1>3, <1>a, <2>1, InsertFailsMoves DEF InsertFails
<1>4. ASSUME NEW w \in Walkers, PublishWindow(w) PROVE InReach'
  <2>1. Walking(w)' <=> Walking(w)
    BY <1>4, PublishWindowMoves DEF Walking, At, AllSound, Objects
  <2> QED BY <1>4, <1>a, <2>1, PublishWindowMoves DEF PublishWindow
<1>5. ASSUME NEW w \in Walkers, PublishRow(w) PROVE InReach'
  <2>0. MovesTo(w, run'[w]) /\ run[w].pc = "row" /\ run[w] \in Objects
    BY <1>5, PublishRowMoves DEF AllSound
  <2>1. \A v \in Walkers : v # w => run'[v] = run[v]
    BY <2>0 DEF MovesTo, RunsTypeOK
  <2>2. \A v \in Walkers : v # w => (Walking(v)' <=> Walking(v))
    BY <2>1 DEF Walking, At
  <2>3. CASE run[w].then = "track" /\ Track(w) /\ GoesOn(run[w], run'[w])
    <3>1. Walking(w)'
      BY <2>3, GoingOnIsWalking DEF GoesOn
    <3>2. /\ active' = w
          /\ hidden' = IF active \in {NoOne, w} THEN hidden ELSE hidden \cup {active}
      BY <2>3 DEF Track
    <3> QED BY <1>0, <2>2, <3>1, <3>2 DEF InReach
  <2>4. CASE /\ run[w].then = "step" /\ UNCHANGED <<active, hidden>>
             /\ run'[w] = [run[w] EXCEPT !.pc = "step"]
    <3>1. Walking(w)' /\ Walking(w)
      BY <2>0, <2>4 DEF Walking, At, Objects
    <3> QED BY <1>a, <2>0, <2>4, <3>1
  <2>5. CASE /\ run[w].then = "leave" /\ LeaveActive(w) /\ hidden' = hidden \ {w}
             /\ run'[w] = Free
    <3>1. ~Walking(w)'
      BY <2>5 DEF Walking, At, Free
    <3>2. active' = IF active = w THEN NoOne ELSE active
      BY <2>5 DEF LeaveActive
    <3> QED BY <1>0, <2>2, <2>5, <3>1, <3>2 DEF InReach
  <2>6. CASE run[w].then = "reply" /\ UNCHANGED <<active, hidden>> /\ run'[w] = Free
    <3>1. ~Walking(w)' /\ ~Walking(w)
      BY <2>0, <2>6 DEF Walking, At, Free
    <3> QED BY <1>a, <2>0, <2>6, <3>1
  <2> QED BY <1>5, <2>3, <2>4, <2>5, <2>6, PublishRowMoves
<1>6. ASSUME NEW w \in Walkers, NEW r \in Runs, InsertRow(w, r) PROVE InReach'
  <2>1. Walking(w)' <=> Walking(w)
    <3>1. run[w] \in Objects /\ Sound(run[w]) /\ run[w].pc = "insert"
      BY <1>6 DEF AllSound, InsertRow, At
    <3>2. run'[w].then = run[w].then /\ run'[w].pc = "window"
      BY <1>6, <3>1 DEF InsertRow, RunsTypeOK
    <3> QED BY <3>1, <3>2 DEF Walking, At, Sound
  <2> QED BY <1>6, <1>a, <2>1, InsertRowMoves DEF InsertRow
<1>7. ASSUME NEW w \in Walkers, NEW r \in Runs, NEW yes \in BOOLEAN, Answer(w, r, yes) PROVE InReach'
  <2>0. OneWaits(row[r].res) /\ run[w].pc = "free"
    BY <1>7 DEF Answer, ReviewsInv, At
  <2>1. Walking(w)' <=> Walking(w)
    BY <1>7, <2>0, AnswerMoves DEF Walking, At
  <2> QED BY <1>7, <1>a, <2>0, <2>1, AnswerMoves DEF Answer
<1>8. ASSUME NEW w \in Walkers, NEW end \in Results, StepEnds(w, end) PROVE InReach'
  <2>1. Walking(w)' <=> Walking(w)
    BY <1>8, StepEndsMoves DEF Walking, At, GoesOn, StepEnds
  <2> QED BY <1>8, <1>a, <2>1, StepEndsMoves DEF StepEnds
<1>9. CASE Stop
  BY <1>0, <1>9, StopMoves DEF Stop, InReach, Walking, At
<1>10. CASE StopLooks \/ StopShows \/ StopWrites \/ DeleteWindow
  BY <1>10 DEF StopLooks, StopShows, StopWrites, DeleteWindow, InReach, Walking, At
<1>11. CASE RunsCrash
  BY <1>11 DEF RunsCrash, InReach, Walking, At, Free
<1>12. CASE \E k \in Trouble : Bothered(k)
  BY <1>12 DEF Bothered, InReach, Walking, At
<1> QED BY <1>1, <1>2, <1>3, <1>4, <1>5, <1>6, <1>7, <1>8, <1>9, <1>10, <1>11, <1>12, NextCases

\* The object has not yet shown that it ends.
StillShown(w) == run[w].id \in Runs /\ ~(run[w].pc = "row" /\ run[w].status # "running")

\* An object that was there for its row and its window is so still.
LEMMA MoveKeepsGhosts ==
  ASSUME RunsTypeOK, GhostInv, NEW w \in Walkers, MovesTo(w, run'[w]),
         run[w].id \in Runs => run'[w].id = run[w].id /\ StillShown(w)',
         UNCHANGED <<row, shown, onBoard, upsets>>
  PROVE  GhostInv'
<1>1. \A v \in Walkers : v # w => run'[v] = run[v]
  BY DEF MovesTo, RunsTypeOK
<1>2. \A v \in Walkers : run[v].id \in Runs => run'[v].id = run[v].id
  BY <1>1
<1>3. \A v \in Walkers : StillShown(v) => StillShown(v)'
  BY <1>1 DEF StillShown
<1> QED BY <1>2, <1>3 DEF GhostInv, StillShown

LEMMA UpsetEndsQuiet ==
  ASSUME RunsTypeOK, NEW k \in Trouble, Upset(k)
  PROVE  GhostInv'
BY UpsetTyped DEF GhostInv

LEMMA PublishWindowKeepsGhosts ==
  ASSUME RunsTypeOK, AllSound, GhostInv, NEW w \in Walkers, PublishWindow(w)
  PROVE  GhostInv'
<1>. DEFINE o == run[w]
<1>1. CASE Upset("error")
  BY <1>1, UpsetEndsQuiet DEF Trouble
<1>2. CASE shown' = Show(o.id, o.status) /\ UNCHANGED upsets
  <2>. SUFFICES ASSUME upsets' = [k \in Trouble |-> 0] PROVE GhostInv'
    BY DEF GhostInv
  <2>1. /\ onBoard /\ \A r \in Runs : row[r].status = "running" => \E v \in Walkers : run[v].id = r
        /\ shown.status = "running" => \E v \in Walkers : run[v].id = shown.id /\ StillShown(v)
    BY <1>2 DEF GhostInv, StillShown
  <2>2. /\ o.id \in Runs /\ o \in Objects /\ run' = [run EXCEPT ![w] = run'[w]]
        /\ run'[w] = [o EXCEPT !.pc = "row"] /\ run \in [Walkers -> Objects]
    BY PublishWindowMoves DEF MovesTo, AllSound, RunsTypeOK, Objects, PCs, Thens
  <2>3. /\ \A v \in Walkers : run'[v].id = run[v].id
        /\ \A v \in Walkers : v # w => run'[v] = run[v]
        /\ run'[w].status = o.status
    BY <2>2 DEF Objects
  <2>4. shown' = [id |-> o.id, status |-> Kept(o.status)]
    BY <1>2, <2>1 DEF Show
  <2>5. Kept(o.status) = "running" => o.status = "running"
    BY DEF Kept
  <2>6. shown'.status = "running" => run'[w].id = shown'.id /\ StillShown(w)'
    BY <2>2, <2>3, <2>4, <2>5 DEF StillShown
  <2> QED BY <2>1, <2>3, <2>6 DEF PublishWindow, GhostInv, StillShown
<1> QED BY <1>1, <1>2 DEF PublishWindow

LEMMA PublishRowKeepsGhosts ==
  ASSUME RunsTypeOK, AllSound, GhostInv, NEW w \in Walkers, PublishRow(w)
  PROVE  GhostInv'
<1>. DEFINE o == run[w]
<1>1. CASE Upset("error")
  BY <1>1, UpsetEndsQuiet DEF Trouble
<1>2. CASE row' = Written(w) /\ UNCHANGED upsets
  <2>. SUFFICES ASSUME upsets' = [k \in Trouble |-> 0] PROVE GhostInv'
    BY DEF GhostInv
  <2>1. /\ onBoard /\ \A r \in Runs : row[r].status = "running" => \E v \in Walkers : run[v].id = r
        /\ shown.status = "running" => \E v \in Walkers : run[v].id = shown.id /\ StillShown(v)
    BY <1>2 DEF GhostInv, StillShown
  <2>2. o.id \in Runs /\ o \in Objects /\ Sound(o) /\ o.pc = "row" /\ run' = [run EXCEPT ![w] = run'[w]]
    BY PublishRowMoves DEF MovesTo, AllSound
  <2>3. \A v \in Walkers : v # w => run'[v] = run[v]
    BY <2>2 DEF RunsTypeOK
  <2>4. row'[o.id].status = Kept(o.status) /\ \A r \in Runs : r # o.id => row'[r] = row[r]
    BY <1>2, <2>2 DEF Written, RunsTypeOK
  <2>5. Kept(o.status) = "running" => o.status = "running"
    BY DEF Kept
  <2>6. CASE o.status = "running"
    <3>1. run'[w].id = o.id /\ StillShown(w)'
      <4>1. CASE GoesOn(o, run'[w])
        BY <2>2, <4>1 DEF GoesOn, StillShown
      <4>2. CASE run'[w] = [o EXCEPT !.pc = "step"]
        BY <2>2, <4>2 DEF StillShown, Objects
      <4> QED BY <2>2, <2>6, <4>1, <4>2, PublishRowMoves DEF Sound
    <3>2. \A v \in Walkers : run[v].id \in Runs => run'[v].id = run[v].id
      BY <2>3, <3>1
    <3>3. \A v \in Walkers : StillShown(v) => StillShown(v)'
      BY <2>3, <3>1 DEF StillShown
    <3>4. \A r \in Runs : row'[r].status = "running" => \E v \in Walkers : run'[v].id = r
      BY <2>1, <2>2, <2>4, <3>1, <3>2
    <3> QED BY <2>1, <3>2, <3>3, <3>4 DEF PublishRow, GhostInv, StillShown
  <2>7. CASE o.status # "running"
    <3>1. ~StillShown(w)
      BY <2>2, <2>7 DEF StillShown
    <3>2. \A v \in Walkers : StillShown(v) => StillShown(v)' /\ run'[v].id = run[v].id
      BY <2>3, <3>1 DEF StillShown
    <3>3. \A r \in Runs : row'[r].status = "running" => \E v \in Walkers : run'[v].id = r
      <4>1. ASSUME NEW r \in Runs, row'[r].status = "running" PROVE \E v \in Walkers : run'[v].id = r
        <5>1. r # o.id /\ row[r].status = "running"
          BY <2>4, <2>5, <2>7, <4>1
        <5>2. PICK v \in Walkers : run[v].id = r
          BY <2>1, <5>1
        <5> QED BY <2>3, <5>1, <5>2
      <4> QED BY <4>1
    <3> QED BY <2>1, <3>2, <3>3 DEF PublishRow, GhostInv, StillShown
  <2> QED BY <2>6, <2>7
<1> QED BY <1>1, <1>2 DEF PublishRow

LEMMA GhostsKept ==
  ASSUME RunsTypeOK, AllSound, ReviewsInv, GhostInv, RunsStep
  PROVE  GhostInv'
<1>0. NoRun \notin Runs /\ \A w \in Walkers : run[w] \in Objects /\ Sound(run[w])
  BY DEF NoRun, Runs, AllSound
<1>1. ASSUME NEW w \in Walkers, Starts(w) PROVE GhostInv'
  <2>1. run[w].id = NoRun
    BY <1>0, <1>1, StartsMoves DEF Sound
  <2> QED BY <1>0, <1>1, <2>1, StartsMoves, MoveKeepsGhosts DEF Starts
<1>2. ASSUME NEW w \in Walkers, CopyRead(w) PROVE GhostInv'
  <2>1. run[w].id = NoRun
    BY <1>0, <1>2, CopyReadMoves DEF Sound
  <2>2. CASE Upset("error")
    BY <2>2, UpsetEndsQuiet DEF Trouble
  <2>3. CASE UNCHANGED upsets
    BY <1>0, <1>2, <2>1, <2>3, CopyReadMoves, MoveKeepsGhosts DEF CopyRead
  <2> QED BY <1>2, <2>2, <2>3 DEF CopyRead
<1>3. ASSUME NEW w \in Walkers, InsertFails(w) PROVE GhostInv'
  BY <1>3, UpsetEndsQuiet DEF InsertFails, Trouble
<1>4. ASSUME NEW w \in Walkers, PublishWindow(w) PROVE GhostInv'
  BY <1>4, PublishWindowKeepsGhosts
<1>5. ASSUME NEW w \in Walkers, PublishRow(w) PROVE GhostInv'
  BY <1>5, PublishRowKeepsGhosts
<1>6. ASSUME NEW w \in Walkers, NEW r \in Runs, InsertRow(w, r) PROVE GhostInv'
  <2>1. /\ run[w].id = NoRun /\ run'[w].id = r
        /\ \A v \in Walkers : v # w => run'[v] = run[v]
    BY <1>6, InsertRowMoves DEF MovesTo, RunsTypeOK
  <2>2. \A s \in Runs : s # r => row'[s] = row[s]
    BY <1>6 DEF InsertRow, RunsTypeOK
  <2>3. \A v \in Walkers : run[v].id \in Runs => run'[v] = run[v]
    BY <1>0, <2>1
  <2>4. UNCHANGED <<shown, onBoard, upsets>>
    BY <1>6 DEF InsertRow
  <2> QED BY <2>1, <2>2, <2>3, <2>4 DEF GhostInv
<1>7. ASSUME NEW w \in Walkers, NEW r \in Runs, NEW yes \in BOOLEAN, Answer(w, r, yes) PROVE GhostInv'
  <2>1. OneWaits(row[r].res)
    BY <1>7 DEF Answer, ReviewsInv
  <2> QED BY <1>0, <1>7, <2>1, AnswerMoves, MoveKeepsGhosts DEF Answer
<1>8. ASSUME NEW w \in Walkers, NEW end \in Results, StepEnds(w, end) PROVE GhostInv'
  <2>1. run'[w].id = run[w].id /\ run'[w].pc = "window" /\ MovesTo(w, run'[w])
    BY <1>8, StepEndsMoves DEF GoesOn
  <2> QED BY <1>8, <2>1, MoveKeepsGhosts DEF StepEnds, StillShown
<1>9. CASE Stop
  BY <1>9, StopMoves DEF Stop, GhostInv
<1>10. CASE StopLooks
  BY <1>10 DEF StopLooks, GhostInv
<1>11. CASE StopShows
  <2>1. CASE Upset("error")
    BY <2>1, UpsetEndsQuiet DEF Trouble
  <2>2. CASE shown' = Show(stopper.id, "stopped") /\ UNCHANGED upsets
    <3>1. shown'.status = "over" \/ shown' = shown
      BY <2>2 DEF Show, Kept, Over
    <3> QED BY <1>11, <2>2, <3>1 DEF StopShows, GhostInv
  <2> QED BY <1>11, <2>1, <2>2 DEF StopShows
<1>12. CASE StopWrites
  <2>1. CASE Upset("error")
    BY <2>1, UpsetEndsQuiet DEF Trouble
  <2>2. CASE row' = [row EXCEPT ![stopper.id] = [NoRow EXCEPT !.status = "over"]] /\ UNCHANGED upsets
    <3>1. \A r \in Runs : row'[r].status = "running" => row'[r] = row[r]
      BY <2>2 DEF NoRow, RunsTypeOK
    <3> QED BY <1>12, <2>2, <3>1 DEF StopWrites, GhostInv
  <2> QED BY <1>12, <2>1, <2>2 DEF StopWrites
<1>13. CASE DeleteWindow
  BY <1>13, UpsetEndsQuiet DEF DeleteWindow, Trouble
<1>14. CASE RunsCrash
  BY <1>14, UpsetEndsQuiet DEF RunsCrash, Trouble
<1>15. CASE \E k \in Trouble : Bothered(k)
  BY <1>15, UpsetEndsQuiet DEF Bothered
<1> QED BY <1>1, <1>2, <1>3, <1>4, <1>5, <1>6, <1>7, <1>8, <1>9, <1>10, <1>11, <1>12, <1>13, <1>14, <1>15, NextCases

-----------------------------------------------------------------------------
(* The theorems.                                                           *)

LEMMA StutterKeeps == ASSUME IInv, UNCHANGED runVars PROVE IInv'
<1>1. RunsTypeOK' /\ AllSound'
  BY DEF IInv, runVars, RunsTypeOK, AllSound
<1>2. ReviewsInv' /\ GhostInv'
  BY DEF IInv, runVars, ReviewsInv, GhostInv
<1>3. InReach'
  BY DEF IInv, runVars, InReach, Walking, At
<1> QED BY <1>1, <1>2, <1>3 DEF IInv

LEMMA StepKeeps == ASSUME IInv, RunsStep PROVE IInv'
BY SoundKept, TypesKept, ReviewsKept, ReachKept, GhostsKept DEF IInv

THEOREM Invariance == RunsSpec => []IInv
<1>1. IInv /\ [RunsNext]_runVars => IInv'
  BY StepKeeps, StutterKeeps DEF RunsStep
<1> QED BY InitHolds, <1>1, PTL DEF RunsSpec

\* Every variable stays in its type.
THEOREM RunsTypeCorrect == RunsSpec => []RunsTypeOK
<1>1. IInv => RunsTypeOK
  BY DEF IInv
<1> QED BY <1>1, Invariance, PTL

\* Nothing of a run goes on past a review that nobody approved in that run: for every graph,
\* however starts, answers, stops, crashes and failed queries interleave (walk, answerReview).
THEOREM ReviewsHold == RunsSpec => []NothingUnapproved
<1>1. IInv => NothingUnapproved
  BY DEF IInv, AllSound, Sound, ReviewsInv, NothingUnapproved
<1> QED BY <1>1, Invariance, PTL

\* What Stop reaches is under way, what is under way is reached by Stop or was pushed aside,
\* and short of trouble nothing says that it runs when it does not (publish, track).
THEOREM RunningStaysReal == RunsSpec => []RunningIsReal
<1>1. IInv => RunningIsReal
  BY DEF IInv, RunningIsReal, NoGhosts, GhostInv
<1> QED BY <1>1, Invariance, PTL

-----------------------------------------------------------------------------
(* The same beside the triggers.                                           *)

LEMMA ComposedSteps ==
  ASSUME RunsTypeOK, WorkflowsNext
  PROVE  RunsStep \/ UNCHANGED runVars
<1>1. ASSUME NEW t \in Ticks, NEW w \in Walkers, TickStarts(t, w) PROVE Starts(w)
  BY <1>1 DEF TickStarts, Starts, RunsTypeOK
<1>2. ASSUME NEW w \in Walkers, RunMoves(w) \/ RunInsertFails(w) PROVE RunsNext
  BY <1>2 DEF RunMoves, RunInsertFails, RunsNext
<1>3. ASSUME NEW seen \in SUBSET Docs, ArmReads(seen) PROVE Bothered("edit")
  BY <1>3 DEF ArmReads, Bothered
<1>4. Disarm => Bothered("edit")
  BY DEF Disarm, Bothered
<1>5. /\ \A t \in Ticks : TickFails(t) => Bothered("error")
      /\ \A d \in Docs : RemoveDoc(d) => Bothered("removal")
  BY DEF TickFails, RemoveDoc, Bothered
<1>6. (Person \/ WorkflowsCrash) => RunsNext
  BY DEF RunsNext, WorkflowsCrash
<1>7. ASSUME NEW t \in Ticks, Tick(t)
      PROVE  (\E w \in Walkers : Starts(w)) \/ Bothered("overlap") \/ UNCHANGED runVars
  <2>1. TickLists(t) => Bothered("overlap") \/ UNCHANGED runVars
    BY DEF TickLists, Bothered, runVars
  <2> QED BY <1>1, <1>7, <2>1
          DEF Tick, TickDrops, TickSeesNothing, TickFindsBusy, TickSaves
<1>8. (\E d \in Docs : AddDoc(d) \/ RestoreDoc(d)) \/ ArmWrites => UNCHANGED runVars
  BY DEF AddDoc, RestoreDoc, Lands, ArmWrites
<1> QED BY <1>1, <1>2, <1>3, <1>4, <1>5, <1>6, <1>7, <1>8 DEF WorkflowsNext, RunsStep, Trouble

THEOREM RunsInvariance == WorkflowsSpec => []IInv
<1>1. WorkflowsInit => IInv
  BY InitHolds DEF WorkflowsInit
<1>2. IInv /\ [WorkflowsNext]_vars => IInv'
  <2>1. ASSUME IInv, WorkflowsNext PROVE IInv'
    BY <2>1, ComposedSteps, StepKeeps, StutterKeeps DEF IInv
  <2>2. ASSUME IInv, UNCHANGED vars PROVE IInv'
    BY <2>2, StutterKeeps DEF vars
  <2> QED BY <2>1, <2>2
<1> QED BY <1>1, <1>2, PTL DEF WorkflowsSpec

TickTypes == [pc : {"idle", "read", "start", "save"}, seen : SUBSET Docs, watched : SUBSET Docs,
              walker : Walkers \cup {NoOne}]

TriggersTyped ==
  /\ docs \subseteq Docs
  /\ trigger \in [on : BOOLEAN, seen : SUBSET Docs]
  /\ arming \in [on : BOOLEAN, seen : SUBSET Docs]
  /\ tick \in [Ticks -> TickTypes]
  /\ landed \in [Docs -> 0 .. MaxLandings]
  /\ crowded \in BOOLEAN
  /\ handed \in [Docs -> Nat]

LEMMA NoTickIs ==
  /\ NoTick \in TickTypes /\ NoTick.pc = "idle"
  /\ NotArming \in [on : BOOLEAN, seen : SUBSET Docs] /\ NotArming.on = FALSE
BY DEF NoTick, NotArming, TickTypes

\* The step of one tick.
LEMMA TickMoves ==
  ASSUME TriggersTyped, NEW t \in Ticks, Tick(t) \/ TickFails(t)
  PROVE  /\ tick' \in [Ticks -> TickTypes] /\ trigger' \in [on : BOOLEAN, seen : SUBSET Docs]
         /\ \A u \in Ticks \ {t} : tick'[u] = tick[u]
         /\ UNCHANGED <<docs, landed, crowded, arming, handed>>
<1>. USE DEF TriggersTyped
<1>1. ASSUME NEW new \in TickTypes, tick' = [tick EXCEPT ![t] = new]
      PROVE  tick' \in [Ticks -> TickTypes] /\ \A u \in Ticks \ {t} : tick'[u] = tick[u]
  BY <1>1
<1>2. CASE TickLists(t)
  <2>1. [NoTick EXCEPT !.pc = "read", !.seen = trigger.seen] \in TickTypes
    BY DEF NoTick, TickTypes
  <2> QED BY <1>1, <1>2, <2>1 DEF TickLists, boardVars
<1>3. CASE TickDrops(t)
  BY <1>1, <1>3, NoTickIs DEF TickDrops, boardVars
<1>4. CASE TickSeesNothing(t)
  <2>1. [tick[t] EXCEPT !.pc = "save", !.watched = docs] \in TickTypes
    BY DEF TickTypes
  <2> QED BY <1>1, <1>4, <2>1, NoTickIs DEF TickSeesNothing, boardVars
<1>5. CASE TickFindsBusy(t)
  BY <1>1, <1>5, NoTickIs DEF TickFindsBusy, boardVars
<1>6. ASSUME NEW w \in Walkers, TickStarts(t, w) PROVE tick' \in [Ticks -> TickTypes] /\ trigger' = trigger
        /\ (\A u \in Ticks \ {t} : tick'[u] = tick[u]) /\ UNCHANGED <<docs, landed, crowded, arming, handed>>
  <2>1. tick' = [tick EXCEPT ![t] = [tick[t] EXCEPT !.pc = "start", !.watched = docs, !.walker = w]]
    BY <1>6 DEF TickStarts
  <2>2. [tick[t] EXCEPT !.pc = "start", !.watched = docs, !.walker = w] \in TickTypes
    BY DEF TickTypes
  <2> QED BY <1>1, <1>6, <2>1, <2>2 DEF TickStarts, boardVars
<1>7. ASSUME NEW seen \in SUBSET Docs, TickSaves(t, seen)
      PROVE  tick' \in [Ticks -> TickTypes] /\ trigger' \in [on : BOOLEAN, seen : SUBSET Docs]
        /\ (\A u \in Ticks \ {t} : tick'[u] = tick[u]) /\ UNCHANGED <<docs, landed, crowded, arming, handed>>
  BY <1>1, <1>7, NoTickIs DEF TickSaves, boardVars
<1>8. CASE TickFails(t)
  BY <1>1, <1>8, NoTickIs DEF TickFails, boardVars
<1> QED BY <1>2, <1>3, <1>4, <1>5, <1>6, <1>7, <1>8 DEF Tick

\* The step of a run: the ticks that wait for it go on or not, the others are as they were.
LEMMA ReturnMoves ==
  ASSUME TriggersTyped, NEW w \in Walkers, RunMoves(w) \/ RunInsertFails(w)
  PROVE  /\ tick' \in [Ticks -> TickTypes] /\ trigger' \in [on : BOOLEAN, seen : SUBSET Docs]
         /\ handed' \in [Docs -> Nat]
         /\ UNCHANGED <<docs, landed, crowded, arming>>
         /\ \A t \in Ticks : ~Awaits(t, w) => tick'[t] = tick[t]
         /\ \A t \in Ticks : Awaits(t, w) =>
              \/ tick'[t] = tick[t]
              \/ /\ tick'[t].pc = "save" /\ tick'[t].seen = tick[t].seen
                 /\ tick'[t].watched = tick[t].watched
<1>. USE DEF TriggersTyped
<1>1. /\ Returned(w) \in [Ticks -> TickTypes]
      /\ \A t \in Ticks : ~Awaits(t, w) => Returned(w)[t] = tick[t]
      /\ \A t \in Ticks : Awaits(t, w) => /\ Returned(w)[t].pc = "save" /\ Returned(w)[t].seen = tick[t].seen
                                          /\ Returned(w)[t].watched = tick[t].watched
  BY DEF Returned, TickTypes
<1>2. tick' = tick \/ tick' = Returned(w)
  BY DEF RunMoves, RunInsertFails
<1>3. trigger' \in [on : BOOLEAN, seen : SUBSET Docs] /\ UNCHANGED <<docs, landed, crowded, arming>>
  BY NoTickIs DEF RunMoves, RunInsertFails, boardVars
<1>4. handed' \in [Docs -> Nat]
  BY DEF RunMoves, RunInsertFails
<1> QED BY <1>1, <1>2, <1>3, <1>4

LEMMA LandsMoves ==
  ASSUME TriggersTyped, NEW d \in Docs, AddDoc(d) \/ RestoreDoc(d)
  PROVE  /\ docs' = docs \cup {d} /\ landed[d] + 1 \in 0 .. MaxLandings
         /\ landed' = [landed EXCEPT ![d] = landed[d] + 1]
         /\ crowded' = (crowded \/ Cardinality(docs) >= MAX_SEEN)
         /\ UNCHANGED <<runVars, trigger, arming, tick, handed>>
BY TriggersAssumption DEF AddDoc, RestoreDoc, Lands, TriggersTyped

LEMMA TriggersTypesKept ==
  ASSUME TriggersTyped, WorkflowsNext
  PROVE  TriggersTyped'
<1>. USE DEF TriggersTyped
<1>1. CASE Person /\ UNCHANGED triggerVars
  BY <1>1 DEF triggerVars, boardVars
<1>2. ASSUME NEW w \in Walkers, RunMoves(w) \/ RunInsertFails(w) PROVE TriggersTyped'
  BY <1>2, ReturnMoves
<1>3. ASSUME NEW t \in Ticks, Tick(t) \/ TickFails(t) PROVE TriggersTyped'
  BY <1>3, TickMoves
<1>4. ASSUME NEW d \in Docs, AddDoc(d) \/ RestoreDoc(d) PROVE TriggersTyped'
  BY <1>4, LandsMoves DEF runVars
<1>5. ASSUME NEW d \in Docs, RemoveDoc(d) PROVE TriggersTyped'
  BY <1>5 DEF RemoveDoc
<1>6. ASSUME NEW seen \in SUBSET Docs, ArmReads(seen) PROVE TriggersTyped'
  BY <1>6 DEF ArmReads, boardVars
<1>7. CASE ArmWrites \/ Disarm \/ WorkflowsCrash
  BY <1>7, NoTickIs DEF ArmWrites, Disarm, WorkflowsCrash, boardVars
<1> QED BY <1>1, <1>2, <1>3, <1>4, <1>5, <1>6, <1>7 DEF WorkflowsNext

LEMMA TypedAtFirst == WorkflowsInit => TriggersTyped
<1>. SUFFICES ASSUME WorkflowsInit PROVE TriggersTyped
  OBVIOUS
<1>1. tick \in [Ticks -> TickTypes] /\ arming \in [on : BOOLEAN, seen : SUBSET Docs]
  BY NoTickIs DEF WorkflowsInit
<1>2. 0 \in 0 .. MaxLandings
  BY TriggersAssumption
<1> QED BY <1>1, <1>2 DEF WorkflowsInit, TriggersTyped

\* Every variable of runs and triggers stays in its type.
THEOREM WorkflowsTypeCorrect == WorkflowsSpec => []WorkflowsTypeOK
<1>1. WorkflowsInit => TriggersTyped
  BY TypedAtFirst
<1>2. TriggersTyped /\ [WorkflowsNext]_vars => TriggersTyped'
  <2>1. ASSUME TriggersTyped, UNCHANGED vars PROVE TriggersTyped'
    BY <2>1 DEF TriggersTyped, vars, triggerVars, boardVars
  <2> QED BY <2>1, TriggersTypesKept
<1>3. WorkflowsSpec => []TriggersTyped
  BY <1>1, <1>2, PTL DEF WorkflowsSpec
<1>4. IInv /\ TriggersTyped => WorkflowsTypeOK
  BY DEF IInv, TriggersTyped, TickTypes, WorkflowsTypeOK
<1> QED BY <1>3, <1>4, RunsInvariance, PTL

-----------------------------------------------------------------------------
(* A window is handed to one run each time it lands, and once more at most *)
(* for what may make it be handed again.  What each tick under way may yet *)
(* do to a window is counted.                                              *)

\* What a tick will do to a window: nothing; nothing if it is still there when the board is
\* read; count it as unseen; hand it to the run it starts; or write it down.
Roles == {"no", "calm", "harm", "hand", "safe"}

Having(f, r) == Cardinality({t \in Ticks : f[t] = r})
Clear(f) == \A t \in Ticks : f[t] \in {"no", "calm"}
Bits == {0, 1}
One(b) == IF b THEN 1 ELSE 0

\* hd: how often it was handed to a run; arm: whether a trigger that does not know it is on its
\* way; due: how often it may be handed; in: whether it is there; new: whether the trigger that
\* is on does not know it (1 or 0).
Balance(f, hd, arm, due, in, new) ==
  /\ hd + Having(f, "hand") + arm <= due
  /\ in = 1 => hd + Having(f, "hand") + arm + Having(f, "harm") + One(new = 1 /\ Clear(f)) <= due
  /\ hd + Having(f, "hand") + arm + Having(f, "harm") + Having(f, "calm") <= due + 1

LEMMA HavingIsCount ==
  ASSUME NEW f, NEW r
  PROVE  IsFiniteSet({t \in Ticks : f[t] = r}) /\ Having(f, r) \in Nat
BY TriggersAssumption, FS_Subset, FS_CardinalityType DEF Having

LEMMA NoneHas ==
  ASSUME NEW f, NEW r
  PROVE  (\A t \in Ticks : f[t] # r) <=> Having(f, r) = 0
<1>1. (\A t \in Ticks : f[t] # r) <=> {t \in Ticks : f[t] = r} = {}
  OBVIOUS
<1> QED BY <1>1, HavingIsCount, FS_EmptySet DEF Having

\* One tick changes what it will do.
LEMMA HavingMoves ==
  ASSUME NEW f, NEW g, NEW t \in Ticks, \A u \in Ticks \ {t} : g[u] = f[u], NEW r
  PROVE  Having(g, r) + (IF f[t] = r THEN 1 ELSE 0) = Having(f, r) + (IF g[t] = r THEN 1 ELSE 0)
<1>. DEFINE S == {u \in Ticks : f[u] = r}
            T == {u \in Ticks : g[u] = r}
<1>1. IsFiniteSet(S) /\ IsFiniteSet(T) /\ Cardinality(S) \in Nat /\ Cardinality(T) \in Nat
  BY HavingIsCount DEF Having
<1>2. CASE f[t] = r /\ g[t] = r
  <2>1. S = T
    BY <1>2
  <2> QED BY <1>2, <2>1 DEF Having
<1>3. CASE f[t] # r /\ g[t] # r
  <2>1. S = T
    BY <1>3
  <2> QED BY <1>3, <2>1 DEF Having
<1>4. CASE f[t] = r /\ g[t] # r
  <2>1. T = S \ {t} /\ t \in S
    BY <1>4
  <2>2. Cardinality(T) = Cardinality(S) - 1
    BY <1>1, <2>1, FS_RemoveElement
  <2> QED BY <1>1, <1>4, <2>2 DEF Having
<1>5. CASE f[t] # r /\ g[t] = r
  <2>1. T = S \cup {t} /\ t \notin S
    BY <1>5
  <2>2. Cardinality(T) = Cardinality(S) + 1
    BY <1>1, <2>1, FS_AddElement
  <2> QED BY <1>1, <1>5, <2>2 DEF Having
<1> QED BY <1>2, <1>3, <1>4, <1>5

\* The ways in which other things change while the ticks go on as before.
OthersTurn(arm, arm2, due, due2, in, in2, new, new2) ==
  \/ due2 >= due /\ arm2 = arm /\ in2 <= in /\ new2 <= new
  \/ due2 >= due /\ arm2 = 0 /\ in2 <= in /\ new2 <= arm
  \/ due2 >= due + 1 /\ arm2 = arm /\ new2 = new
  \/ due2 >= due + 1 /\ arm = 0 /\ in2 <= in /\ new2 <= new

LEMMA BalanceStays ==
  ASSUME NEW f, NEW hd \in Nat, NEW arm \in Bits, NEW arm2 \in Bits, NEW due \in Nat, NEW due2 \in Nat,
         NEW in \in Bits, NEW in2 \in Bits, NEW new \in Bits, NEW new2 \in Bits,
         Balance(f, hd, arm, due, in, new),
         OthersTurn(arm, arm2, due, due2, in, in2, new, new2)
  PROVE  Balance(f, hd, arm2, due2, in2, new2)
<1>1. Having(f, "hand") \in Nat /\ Having(f, "harm") \in Nat /\ Having(f, "calm") \in Nat
  BY HavingIsCount
<1>2. Clear(f) => Having(f, "hand") = 0 /\ Having(f, "harm") = 0
  BY NoneHas DEF Clear
<1>. DEFINE H == Having(f, "hand")
            M == Having(f, "harm")
            C == Having(f, "calm")
            c == Clear(f)
<1>3. H \in Nat /\ M \in Nat /\ C \in Nat /\ (c => H = 0 /\ M = 0)
  BY <1>1, <1>2
<1>4. /\ hd + H + arm <= due
      /\ in = 1 => hd + H + arm + M + One(new = 1 /\ c) <= due
      /\ hd + H + arm + M + C <= due + 1
  BY DEF Balance
<1>. HIDE DEF H, M, C, c
<1>5. /\ hd + H + arm2 <= due2
      /\ in2 = 1 => hd + H + arm2 + M + One(new2 = 1 /\ c) <= due2
      /\ hd + H + arm2 + M + C <= due2 + 1
  BY <1>3, <1>4 DEF One, OthersTurn, Bits
<1> QED BY <1>5 DEF Balance, H, M, C, c

\* The ways in which one tick changes what it will do to a window.
TickTurns(p, q, alone, hd, hd2, due, due2, in, new, new2) ==
  \/ p = "no" /\ q = (IF new = 1 THEN "harm" ELSE "calm") /\ hd2 = hd /\ new2 = new /\ (alone \/ due2 = due + 1)
  \/ p \in {"harm", "calm"} /\ q = "no" /\ hd2 = hd /\ new2 <= new
  \/ p = "harm" /\ q = (IF in = 1 THEN "hand" ELSE "harm") /\ hd2 = hd /\ new2 = new
  \/ p = "calm" /\ q = (IF in = 1 THEN "safe" ELSE "harm") /\ hd2 = hd /\ new2 = new
  \/ p = "harm" /\ q = "no" /\ hd2 = hd
  \/ p = "safe" /\ q = "no" /\ hd2 = hd /\ new2 = 0
  \/ p \in {"harm", "calm", "safe"} /\ q = "no" /\ hd2 = hd /\ new2 = new /\ due2 = due + 1
  \/ p = "hand" /\ q = "safe" /\ hd2 = hd + 1 /\ new2 = new
  \/ p = "hand" /\ q = "safe" /\ hd2 = hd /\ new2 <= new
  \/ p = q /\ hd2 = hd /\ new2 <= new

LEMMA BalanceMoves ==
  ASSUME NEW f, NEW g, NEW t \in Ticks, \A u \in Ticks \ {t} : g[u] = f[u],
         NEW hd \in Nat, NEW hd2 \in Nat, NEW arm \in Bits, NEW due \in Nat, NEW due2 \in Nat,
         NEW in \in Bits, NEW new \in Bits, NEW new2 \in Bits,
         Balance(f, hd, arm, due, in, new), due2 >= due,
         TickTurns(f[t], g[t], \A u \in Ticks : f[u] = "no", hd, hd2, due, due2, in, new, new2)
  PROVE  Balance(g, hd2, arm, due2, in, new2)
<1>. DEFINE p == f[t]
            q == g[t]
            H == Having(f, "hand")
            M == Having(f, "harm")
            C == Having(f, "calm")
            H2 == Having(g, "hand")
            M2 == Having(g, "harm")
            C2 == Having(g, "calm")
            c == Clear(f)
            c2 == Clear(g)
            alone == \A u \in Ticks : f[u] = "no"
<1>1. /\ H \in Nat /\ M \in Nat /\ C \in Nat
      /\ H2 \in Nat /\ M2 \in Nat /\ C2 \in Nat
  BY HavingIsCount
<1>2. /\ H2 + (IF p = "hand" THEN 1 ELSE 0) = H + (IF q = "hand" THEN 1 ELSE 0)
      /\ M2 + (IF p = "harm" THEN 1 ELSE 0) = M + (IF q = "harm" THEN 1 ELSE 0)
      /\ C2 + (IF p = "calm" THEN 1 ELSE 0) = C + (IF q = "calm" THEN 1 ELSE 0)
  BY HavingMoves
<1>3. alone => c /\ H = 0 /\ M = 0 /\ C = 0
  BY NoneHas DEF Clear
<1>4. c2 => H2 = 0 /\ M2 = 0 /\ q \in {"no", "calm"}
  BY NoneHas DEF Clear
<1>5. c2 /\ p \in {"no", "calm"} => c
  BY DEF Clear
<1>6. /\ hd + H + arm <= due
      /\ in = 1 => hd + H + arm + M + One(new = 1 /\ c) <= due
      /\ hd + H + arm + M + C <= due + 1
  BY DEF Balance
<1>7. TickTurns(p, q, alone, hd, hd2, due, due2, in, new, new2)
  OBVIOUS
<1>. HIDE DEF p, q, H, M, C, H2, M2, C2, c, c2, alone
<1>8. /\ hd2 + H2 + arm <= due2
      /\ in = 1 => hd2 + H2 + arm + M2 + One(new2 = 1 /\ c2) <= due2
      /\ hd2 + H2 + arm + M2 + C2 <= due2 + 1
  <2>1. CASE alone \/ due2 = due + 1
    BY <1>1, <1>2, <1>3, <1>4, <1>5, <1>6, <1>7, <2>1, SMTT(60) DEF TickTurns, One, Bits
  <2>2. CASE ~alone /\ due2 # due + 1
    BY <1>1, <1>2, <1>4, <1>5, <1>6, <1>7, <2>2, SMTT(60) DEF TickTurns, One, Bits
  <2> QED BY <2>1, <2>2
<1> QED BY <1>8 DEF Balance, H2, M2, C2, c2

-----------------------------------------------------------------------------
\* The walker that a tick waits for is on its way from its start to its tracking, and another
\* tick waits for another.
WaitInv ==
  /\ \A t \in Ticks : tick[t].pc = "start" =>
       /\ tick[t].walker \in Walkers
       /\ run[tick[t].walker].pc \in {"copy", "insert", "window", "row"}
       /\ run[tick[t].walker].then = "track"
  /\ \A t, u \in Ticks :
       tick[t].pc = "start" /\ tick[u].pc = "start" /\ tick[t].walker = tick[u].walker => t = u

\* The object that a tick waits for is moved by nothing else.
LEMMA OthersLeaveIt ==
  ASSUME IInv, NEW v \in Walkers, run[v].pc \in {"copy", "insert", "window", "row"},
         \/ Person \/ \E w \in Walkers : w # v /\ (Onward(w) \/ InsertFails(w) \/ BeginStart(w))
  PROVE  run'[v].pc = run[v].pc /\ run'[v].then = run[v].then
<1>1. RunsTypeOK /\ AllSound /\ ReviewsInv
  BY DEF IInv
<1>2. ASSUME NEW w \in Walkers, w # v, MovesTo(w, run'[w]) PROVE run'[v] = run[v]
  BY <1>1, <1>2 DEF MovesTo, RunsTypeOK
<1>3. ASSUME NEW w \in Walkers, w # v, BeginStart(w) PROVE run'[v] = run[v]
  BY <1>1, <1>3 DEF BeginStart, RunsTypeOK
<1>4. ASSUME NEW w \in Walkers, w # v, Onward(w) \/ InsertFails(w) PROVE run'[v] = run[v]
  BY <1>1, <1>2, <1>4, CopyReadMoves, InsertRowMoves, InsertFailsMoves, PublishWindowMoves,
     PublishRowMoves, StepEndsMoves DEF Onward
<1>5. CASE Person
  <2>1. ASSUME NEW w \in Walkers, PressRun(w) PROVE run'[v] = run[v]
    <3>1. w # v /\ BeginStart(w)
      BY <2>1 DEF PressRun, BeginStart, At
    <3> QED BY <1>3, <3>1
  <2>2. ASSUME NEW w \in Walkers, NEW r \in Runs, NEW yes \in BOOLEAN, Answer(w, r, yes)
        PROVE  run'[v] = run[v]
    <3>1. w # v /\ OneWaits(row[r].res)
      BY <1>1, <2>2 DEF Answer, At, ReviewsInv
    <3> QED BY <1>1, <1>2, <2>2, <3>1, AnswerMoves
  <2>3. CASE Stop
    BY <1>1, <2>3, StopMoves
  <2>4. CASE StopGoesOn \/ DeleteWindow
    BY <2>4 DEF StopGoesOn, StopLooks, StopShows, StopWrites, DeleteWindow
  <2> QED BY <1>5, <2>1, <2>2, <2>3, <2>4 DEF Person
<1> QED BY <1>3, <1>4, <1>5

\* What the awaited object does next: it has its row, or is tracked, or the start fails.
LEMMA AwaitedMoves ==
  ASSUME IInv, WaitInv, NEW w \in Walkers, NEW t \in Ticks, Awaits(t, w), Onward(w)
  PROVE  \/ run[w].pc = "copy" /\ run'[w].pc \in {"insert", "free"} /\ CopyRead(w)
              /\ (run'[w].pc = "insert" => run'[w].then = "track")
         \/ run[w].pc = "insert" /\ run'[w].pc = "window" /\ run'[w].then = "track"
         \/ run[w].pc = "window" /\ run'[w].pc = "row" /\ run'[w].then = "track"
         \/ run[w].pc = "row" /\ run[w].then = "track"
<1>1. RunsTypeOK /\ AllSound /\ run[w] \in Objects /\ Sound(run[w])
  BY DEF IInv, AllSound
<1>2. run[w].pc \in {"copy", "insert", "window", "row"} /\ run[w].then = "track"
  BY DEF WaitInv, Awaits
<1>3. CASE CopyRead(w)
  BY <1>1, <1>3, CopyReadMoves DEF MovesTo, Sound
<1>4. ASSUME NEW r \in Runs, InsertRow(w, r)
      PROVE  run[w].pc = "insert" /\ run'[w].pc = "window" /\ run'[w].then = "track"
  <2>1. run' = [run EXCEPT ![w].pc = "window", ![w].id = r] /\ run[w].pc = "insert"
    BY <1>4 DEF InsertRow, At
  <2> QED BY <1>1, <1>2, <2>1 DEF RunsTypeOK
<1>5. CASE PublishWindow(w)
  BY <1>1, <1>2, <1>5, PublishWindowMoves DEF Objects
<1>6. CASE PublishRow(w)
  BY <1>1, <1>2, <1>6, PublishRowMoves
<1>7. ASSUME NEW end \in Results PROVE ~StepEnds(w, end)
  BY <1>2 DEF StepEnds, At
<1> QED BY <1>3, <1>4, <1>5, <1>6, <1>7 DEF Onward

\* A tick that goes on, and one that begins to wait.
WaitsOn(t) == tick'[t] = tick[t] /\ (tick[t].pc = "start" =>
  /\ run'[tick[t].walker].pc \in {"copy", "insert", "window", "row"}
  /\ run'[tick[t].walker].then = "track")

LEMMA AllWaitOn ==
  ASSUME WaitInv, \A t \in Ticks : WaitsOn(t) \/ tick'[t].pc # "start"
  PROVE  WaitInv'
<1>1. \A t \in Ticks : tick'[t].pc = "start" => tick'[t] = tick[t] /\ WaitsOn(t)
  BY DEF WaitsOn
<1> QED BY <1>1 DEF WaitInv, WaitsOn

\* The steps of others leave a tick waiting.
LEMMA WaitsOnBeside ==
  ASSUME IInv, WaitInv, NEW t \in Ticks, tick'[t] = tick[t],
         \/ run' = run \/ Person
         \/ \E w \in Walkers : ~Awaits(t, w) /\ (Onward(w) \/ InsertFails(w) \/ BeginStart(w))
  PROVE  WaitsOn(t) /\ (tick[t].pc = "start" => run'[tick[t].walker].pc = run[tick[t].walker].pc)
<1>. SUFFICES ASSUME tick[t].pc = "start"
              PROVE  /\ run'[tick[t].walker].pc = run[tick[t].walker].pc
                     /\ run'[tick[t].walker].then = run[tick[t].walker].then
  BY DEF WaitsOn, WaitInv
<1>. DEFINE v == tick[t].walker
<1>1. v \in Walkers /\ run[v].pc \in {"copy", "insert", "window", "row"}
  BY DEF WaitInv
<1>2. CASE run' = run
  BY <1>2
<1>3. CASE Person
  BY <1>1, <1>3, OthersLeaveIt
<1>4. ASSUME NEW w \in Walkers, ~Awaits(t, w), Onward(w) \/ InsertFails(w) \/ BeginStart(w)
      PROVE  run'[v].pc = run[v].pc /\ run'[v].then = run[v].then
  <2>1. w # v
    BY <1>4 DEF Awaits
  <2> QED BY <1>1, <1>4, <2>1, OthersLeaveIt
<1> QED BY <1>2, <1>3, <1>4

\* What a step of the awaited object does to the tick that waits for it.
LEMMA AwaitingMoves ==
  ASSUME IInv, TriggersTyped, WaitInv, NEW w \in Walkers, RunMoves(w), NEW t \in Ticks, Awaits(t, w)
  PROVE  \/ run[w].pc = "copy" /\ WaitsOn(t) /\ run'[w].pc = "insert"
         \/ run[w].pc = "copy" /\ tick'[t].pc = "save" /\ trigger' = NotArming
         \/ run[w].pc = "insert" /\ WaitsOn(t) /\ run'[w].pc = "window"
         \/ run[w].pc = "window" /\ WaitsOn(t) /\ run'[w].pc = "row"
         \/ run[w].pc = "row" /\ tick'[t].pc = "save"
<1>0. Onward(w) /\ tick[t].pc = "start" /\ tick[t].walker = w /\ Awaited(w)
  BY DEF RunMoves, Awaits, Awaited
<1>1. Returned(w)[t].pc = "save"
  BY DEF Returned, TriggersTyped, TickTypes
<1>2. CASE run[w].pc = "copy"
  <2>1. run'[w].pc \in {"insert", "free"} /\ CopyRead(w) /\ (run'[w].pc = "insert" => run'[w].then = "track")
    BY <1>0, <1>2, AwaitedMoves
  <2>2. CASE run'[w] = Free
    BY <1>0, <1>1, <1>2, <2>2 DEF RunMoves, At
  <2>3. CASE run'[w] # Free
    <3>1. run'[w].pc = "insert"
      <4>1. run'[w] = Free \/ run'[w].pc = "insert"
        BY <2>1 DEF CopyRead, IInv, RunsTypeOK
      <4> QED BY <2>3, <4>1
    <3>2. tick' = tick
      BY <1>2, <2>3 DEF RunMoves, At
    <3> QED BY <1>0, <1>2, <2>1, <3>1, <3>2 DEF WaitsOn
  <2> QED BY <2>2, <2>3
<1>3. CASE run[w].pc = "row"
  BY <1>0, <1>1, <1>3, AwaitedMoves DEF RunMoves, At
<1>4. CASE run[w].pc \in {"insert", "window"}
  <2>1. tick' = tick
    BY <1>4 DEF RunMoves, At
  <2> QED BY <1>0, <1>4, <2>1, AwaitedMoves DEF WaitsOn
<1> QED BY <1>0, <1>2, <1>3, <1>4 DEF WaitInv

LEMMA WaitKept ==
  ASSUME IInv, TriggersTyped, WaitInv, WorkflowsNext
  PROVE  WaitInv'
<1>0. RunsTypeOK /\ AllSound
  BY DEF IInv
<1>1. ASSUME tick' = tick, run' = run \/ Person PROVE WaitInv'
  BY <1>1, AllWaitOn, WaitsOnBeside
<1>2. ASSUME NEW w \in Walkers, RunMoves(w) PROVE WaitInv'
  <2>1. Onward(w)
    BY <1>2 DEF RunMoves
  <2>2. ASSUME NEW t \in Ticks, ~Awaits(t, w) PROVE WaitsOn(t)
    BY <1>2, <2>1, <2>2, ReturnMoves, WaitsOnBeside
  <2>3. ASSUME NEW t \in Ticks, Awaits(t, w) PROVE WaitsOn(t) \/ tick'[t].pc # "start"
    BY <1>2, <2>3, AwaitingMoves
  <2> QED BY <2>2, <2>3, AllWaitOn
<1>3. ASSUME NEW w \in Walkers, RunInsertFails(w) PROVE WaitInv'
  <2>1. InsertFails(w)
    BY <1>3 DEF RunInsertFails
  <2>2. ASSUME NEW t \in Ticks, ~Awaits(t, w) PROVE WaitsOn(t)
    BY <1>3, <2>1, <2>2, ReturnMoves, WaitsOnBeside
  <2>3. ASSUME NEW t \in Ticks, Awaits(t, w) PROVE tick'[t].pc # "start"
    BY <1>3, <2>3 DEF RunInsertFails, Returned, TriggersTyped, TickTypes
  <2> QED BY <2>2, <2>3, AllWaitOn
<1>4. ASSUME NEW t \in Ticks, Tick(t) \/ TickFails(t), run' = run, tick'[t].pc # "start" PROVE WaitInv'
  BY <1>4, TickMoves, AllWaitOn, WaitsOnBeside
<1>5. ASSUME NEW t \in Ticks, TickLists(t) \/ TickDrops(t) \/ TickSeesNothing(t) \/ TickFindsBusy(t) \/ TickFails(t)
              \/ \E seen \in SUBSET Docs : TickSaves(t, seen)
      PROVE  WaitInv'
  <2>1. run' = run
    BY <1>5 DEF TickLists, TickDrops, TickSeesNothing, TickFindsBusy, TickFails, TickSaves, runVars
  <2>2. tick'[t].pc # "start"
    <3>. USE DEF TriggersTyped, TickTypes
    <3>1. CASE TickLists(t)
      BY <3>1 DEF TickLists, NoTick
    <3>2. CASE TickSeesNothing(t)
      BY <3>2, NoTickIs DEF TickSeesNothing
    <3>3. CASE ~TickLists(t) /\ ~TickSeesNothing(t)
      BY <1>5, <3>3, NoTickIs DEF TickDrops, TickFindsBusy, TickFails, TickSaves
    <3> QED BY <3>1, <3>2, <3>3
  <2> QED BY <1>4, <1>5, <2>1, <2>2 DEF Tick
<1>6. ASSUME NEW t \in Ticks, NEW w \in Walkers, TickStarts(t, w) PROVE WaitInv'
  <2>1. run[w].pc = "free" /\ run'[w].pc = "copy" /\ run'[w].then = "track" /\ BeginStart(w)
    BY <1>0, <1>6 DEF TickStarts, BeginStart, RunsTypeOK, Free, At
  <2>2. tick'[t].pc = "start" /\ tick'[t].walker = w
    BY <1>6 DEF TickStarts, TriggersTyped, TickTypes
  <2>3. ASSUME NEW u \in Ticks, u # t PROVE WaitsOn(u) /\ (tick[u].pc = "start" => tick[u].walker # w)
    <3>1. tick'[u] = tick[u]
      BY <1>6, <2>3, TickMoves DEF Tick
    <3>2. ~Awaits(u, w)
      BY <2>1 DEF Awaits, WaitInv
    <3> QED BY <2>1, <3>1, <3>2, WaitsOnBeside DEF Awaits
  <2> QED BY <2>1, <2>2, <2>3 DEF WaitInv, WaitsOn
<1>7. CASE Person /\ UNCHANGED triggerVars
  BY <1>1, <1>7 DEF triggerVars
<1>8. CASE WorkflowsCrash
  <2>1. \A t \in Ticks : tick'[t].pc # "start"
    BY <1>8, NoTickIs DEF WorkflowsCrash
  <2> QED BY <2>1, AllWaitOn
<1>9. CASE ArmWrites \/ Disarm \/ (\E d \in Docs : AddDoc(d) \/ RestoreDoc(d) \/ RemoveDoc(d))
           \/ (\E seen \in SUBSET Docs : ArmReads(seen))
  <2>1. tick' = tick /\ run' = run
    BY <1>9 DEF ArmWrites, Disarm, AddDoc, RestoreDoc, Lands, RemoveDoc, ArmReads, runVars
  <2> QED BY <1>1, <2>1
<1> QED BY <1>2, <1>3, <1>5, <1>6, <1>7, <1>8, <1>9 DEF WorkflowsNext, Tick

\* Short of a crowd nothing is cut off from what a trigger remembers.
SizeInv ==
  ~crowded => /\ Cardinality(docs) <= MAX_SEEN
              /\ \A t \in Ticks : Cardinality(tick[t].watched) <= MAX_SEEN

LEMMA AllAreNewest ==
  ASSUME NEW S \in SUBSET Docs, Cardinality(S) <= MAX_SEEN, NEW seen \in Newest(S)
  PROVE  seen = S
<1>1. IsFiniteSet(S)
  BY TriggersAssumption, FS_Subset
<1>2. seen \subseteq S /\ Cardinality(seen) = Cardinality(S)
  BY DEF Newest
<1> QED BY <1>1, <1>2, FS_Subset

LEMMA SizeKept ==
  ASSUME TriggersTyped, SizeInv, WorkflowsNext
  PROVE  SizeInv'
<1>0. /\ MAX_SEEN \in Nat \ {0} /\ Cardinality({}) = 0 /\ NoTick.watched = {}
      /\ \A S \in SUBSET Docs : IsFiniteSet(S) /\ Cardinality(S) \in Nat
  BY TriggersAssumption, FS_Subset, FS_CardinalityType, FS_EmptySet DEF NoTick
<1>1. ASSUME crowded' = crowded, ~crowded => Cardinality(docs') <= MAX_SEEN,
             \A t \in Ticks : tick'[t].watched \in {tick[t].watched, docs, {}}
      PROVE  SizeInv'
  <2>. SUFFICES ASSUME ~crowded, NEW t \in Ticks PROVE Cardinality(tick'[t].watched) <= MAX_SEEN
    BY <1>1 DEF SizeInv
  <2>1. Cardinality(tick[t].watched) <= MAX_SEEN /\ Cardinality(docs) <= MAX_SEEN
    BY DEF SizeInv
  <2>2. 0 <= MAX_SEEN
    BY <1>0
  <2>3. \/ tick'[t].watched = tick[t].watched \/ tick'[t].watched = docs \/ tick'[t].watched = {}
    BY <1>1
  <2> QED BY <1>0, <2>1, <2>2, <2>3
<1>2. CASE Person /\ UNCHANGED triggerVars
  BY <1>1, <1>2 DEF triggerVars, boardVars, SizeInv
<1>3. ASSUME NEW w \in Walkers, RunMoves(w) \/ RunInsertFails(w) PROVE SizeInv'
  BY <1>1, <1>3, ReturnMoves DEF SizeInv
<1>4. ASSUME NEW t \in Ticks, Tick(t) \/ TickFails(t) PROVE SizeInv'
  <2>1. tick'[t].watched \in {tick[t].watched, docs, {}}
    <3>. USE DEF TriggersTyped, TickTypes
    <3>1. CASE TickLists(t)
      BY <1>0, <3>1 DEF TickLists, NoTick
    <3>2. CASE TickDrops(t) \/ TickFindsBusy(t) \/ TickFails(t)
      BY <1>0, <3>2 DEF TickDrops, TickFindsBusy, TickFails
    <3>3. CASE TickSeesNothing(t)
      BY <1>0, <3>3 DEF TickSeesNothing
    <3>4. ASSUME NEW w \in Walkers, TickStarts(t, w) PROVE tick'[t].watched \in {tick[t].watched, docs, {}}
      BY <3>4 DEF TickStarts
    <3>5. ASSUME NEW seen \in SUBSET Docs, TickSaves(t, seen) PROVE tick'[t].watched \in {tick[t].watched, docs, {}}
      BY <1>0, <3>5 DEF TickSaves
    <3> QED BY <1>4, <3>1, <3>2, <3>3, <3>4, <3>5 DEF Tick
  <2> QED BY <1>1, <1>4, <2>1, TickMoves DEF SizeInv
<1>5. ASSUME NEW d \in Docs, AddDoc(d) \/ RestoreDoc(d) PROVE SizeInv'
  <2>1. docs \in SUBSET Docs /\ docs' = docs \cup {d} /\ tick' = tick
        /\ crowded' = (crowded \/ Cardinality(docs) >= MAX_SEEN)
    BY <1>5, LandsMoves DEF TriggersTyped
  <2>2. Cardinality(docs') <= Cardinality(docs) + 1
    BY <1>0, <2>1, FS_AddElement
  <2>3. Cardinality(docs') \in Nat /\ Cardinality(docs) \in Nat
    BY <1>0, <2>1, FS_AddElement, FS_CardinalityType
  <2>. SUFFICES ASSUME ~crowded' PROVE /\ Cardinality(docs') <= MAX_SEEN
                                       /\ \A t \in Ticks : Cardinality(tick[t].watched) <= MAX_SEEN
    BY <2>1 DEF SizeInv
  <2>4. ~crowded /\ ~(Cardinality(docs) >= MAX_SEEN)
    BY <2>1
  <2>5. Cardinality(docs') <= MAX_SEEN
    BY <1>0, <2>2, <2>3, <2>4
  <2> QED BY <2>4, <2>5 DEF SizeInv
<1>6. ASSUME NEW d \in Docs, RemoveDoc(d) PROVE SizeInv'
  <2>1. docs \in SUBSET Docs /\ docs' \in SUBSET Docs /\ docs' \subseteq docs /\ tick' = tick /\ crowded' = crowded
    BY <1>6 DEF TriggersTyped, RemoveDoc
  <2>2. Cardinality(docs') <= Cardinality(docs)
    BY <1>0, <2>1, FS_Subset
  <2> QED BY <1>0, <1>1, <2>1, <2>2 DEF SizeInv
<1>7. ASSUME NEW seen \in SUBSET Docs, ArmReads(seen) PROVE SizeInv'
  BY <1>1, <1>7 DEF ArmReads, boardVars, SizeInv
<1>8. CASE ArmWrites \/ Disarm
  BY <1>1, <1>8 DEF ArmWrites, Disarm, boardVars, SizeInv
<1>9. CASE WorkflowsCrash
  BY <1>0, <1>1, <1>9 DEF WorkflowsCrash, boardVars, SizeInv
<1> QED BY <1>2, <1>3, <1>4, <1>5, <1>6, <1>7, <1>8, <1>9 DEF WorkflowsNext

-----------------------------------------------------------------------------

\* What the tick will do to the window (of Roles).
Role(t, d) ==
  IF tick[t].pc = "idle" THEN "no"
  ELSE IF tick[t].pc = "read" THEN IF d \in tick[t].seen THEN "calm" ELSE "harm"
  ELSE IF d \notin tick[t].watched THEN "harm"
  ELSE IF tick[t].pc = "start" /\ d \notin tick[t].seen /\ run[tick[t].walker].pc \in {"copy", "insert"}
         THEN "hand" ELSE "safe"

RolesFor(d) == [t \in Ticks |-> Role(t, d)]
Arm(d) == One(arming.on /\ d \notin arming.seen)
Due(d) == landed[d] + Repeats
There(d) == One(d \in docs)
New(d) == One(trigger.on /\ d \notin trigger.seen)

BalanceFor(d) == Balance(RolesFor(d), handed[d], Arm(d), Due(d), There(d), New(d))
BalanceInv == ~crowded => \A d \in Docs : BalanceFor(d)

LEMMA BalanceTyped ==
  ASSUME RunsTypeOK, TriggersTyped, NEW d \in Docs
  PROVE  /\ handed[d] \in Nat /\ Arm(d) \in Bits /\ Due(d) \in Nat /\ Repeats \in Nat /\ landed[d] \in Nat
         /\ There(d) \in Bits /\ New(d) \in Bits
<1>1. \A k \in Trouble : upsets[k] \in Nat
  BY WorkflowAssumption DEF RunsTypeOK
<1>2. Repeats \in Nat
  BY <1>1 DEF Repeats, Trouble
<1>3. landed[d] \in Nat /\ handed[d] \in Nat
  BY TriggersAssumption DEF TriggersTyped
<1>4. Arm(d) \in Bits /\ There(d) \in Bits /\ New(d) \in Bits
  BY DEF Arm, There, New, One, Bits
<1> QED BY <1>2, <1>3, <1>4 DEF Due

LEMMA UpsetRepeats ==
  ASSUME RunsTypeOK, NEW k \in Trouble, Upset(k)
  PROVE  Repeats' = IF k = "removal" THEN Repeats ELSE Repeats + 1
<1>1. upsets \in [Trouble -> 0 .. MaxUpsets] /\ MaxUpsets \in Nat
  BY WorkflowAssumption DEF RunsTypeOK
<1>2. upsets' = [upsets EXCEPT ![k] = upsets[k] + 1]
  BY DEF Upset
<1>3. \A j \in Trouble : upsets[j] \in Nat /\ upsets'[j] = IF j = k THEN upsets[j] + 1 ELSE upsets[j]
  BY <1>1, <1>2
<1> QED BY <1>3 DEF Repeats, Trouble

LEMMA RepeatsGrow ==
  ASSUME RunsTypeOK, WorkflowsNext
  PROVE  Repeats' \in Nat /\ Repeats' >= Repeats
<1>0. Repeats \in Nat
  <2>1. \A k \in Trouble : upsets[k] \in Nat
    BY WorkflowAssumption DEF RunsTypeOK
  <2> QED BY <2>1 DEF Repeats, Trouble
<1>1. upsets' = upsets \/ \E k \in Trouble : Upset(k)
  <2>1. CASE RunsStep
    BY <2>1, NextCases DEF Starts, CopyRead, InsertFails, PublishWindow, PublishRow, InsertRow, Answer,
       StepEnds, Stop, StopLooks, StopShows, StopWrites, DeleteWindow, RunsCrash, Bothered, Trouble
  <2> QED BY <2>1, ComposedSteps DEF runVars
<1>2. CASE upsets' = upsets
  BY <1>0, <1>2 DEF Repeats
<1>3. CASE \E k \in Trouble : Upset(k)
  BY <1>0, <1>3, UpsetRepeats
<1> QED BY <1>1, <1>2, <1>3

LEMMA RoleStays ==
  ASSUME NEW u \in Ticks, NEW d \in Docs, tick'[u] = tick[u],
         tick[u].pc = "start" => run'[tick[u].walker].pc = run[tick[u].walker].pc
  PROVE  Role(u, d)' = Role(u, d)
BY DEF Role

\* Where one tick at most changes what it will do.
LEMMA OneTickTurns ==
  ASSUME RunsTypeOK, RunsTypeOK', TriggersTyped, TriggersTyped', WorkflowsNext, NEW d \in Docs, BalanceFor(d),
         NEW t \in Ticks, \A u \in Ticks \ {t} : Role(u, d)' = Role(u, d),
         arming' = arming, docs' = docs, landed' = landed,
         TickTurns(Role(t, d), Role(t, d)', \A u \in Ticks : Role(u, d) = "no", handed[d], handed'[d],
                   Due(d), Due(d)', There(d), New(d), New(d)')
  PROVE  BalanceFor(d)'
<1>. DEFINE f == RolesFor(d)
            g == RolesFor(d)'
            hd2 == handed'[d]
            due2 == Due(d)'
            new2 == New(d)'
<1>1. /\ \A u \in Ticks \ {t} : g[u] = f[u]
      /\ f[t] = Role(t, d) /\ g[t] = Role(t, d)'
      /\ (\A u \in Ticks : f[u] = "no") <=> (\A u \in Ticks : Role(u, d) = "no")
  BY DEF RolesFor
<1>2. hd2 \in Nat /\ due2 \in Nat /\ new2 \in Bits
  <2>1. Repeats' \in Nat /\ landed'[d] \in Nat
    BY RepeatsGrow, BalanceTyped
  <2>2. due2 = landed'[d] + Repeats'
    BY DEF Due
  <2> QED BY <2>1, <2>2 DEF TriggersTyped, New, One, Bits
<1>3. due2 >= Due(d)
  BY RepeatsGrow, BalanceTyped DEF Due
<1>4. Arm(d)' = Arm(d) /\ There(d)' = There(d)
  BY DEF Arm, There
<1>5. Balance(f, handed[d], Arm(d), Due(d), There(d), New(d))
  BY DEF BalanceFor
<1>6. TickTurns(f[t], g[t], \A u \in Ticks : f[u] = "no", handed[d], hd2, Due(d), due2, There(d), New(d), new2)
  BY <1>1
<1>. HIDE DEF f, g, hd2, due2, new2
<1>7. Balance(g, hd2, Arm(d), due2, There(d), new2)
  <2>. DEFINE hd == handed[d]
              arm == Arm(d)
              due == Due(d)
              in == There(d)
              new == New(d)
  <2>1. hd \in Nat /\ arm \in Bits /\ due \in Nat /\ in \in Bits /\ new \in Bits
    BY BalanceTyped
  <2>2. \A u \in Ticks \ {t} : g[u] = f[u]
    BY <1>1
  <2>3. Balance(f, hd, arm, due, in, new) /\ due2 >= due
    BY <1>3, <1>5
  <2>4. TickTurns(f[t], g[t], \A u \in Ticks : f[u] = "no", hd, hd2, due, due2, in, new, new2)
    BY <1>6
  <2>. HIDE DEF hd, arm, due, in, new
  <2>5. Balance(g, hd2, arm, due2, in, new2)
    BY <1>2, <2>1, <2>2, <2>3, <2>4, BalanceMoves, Zenon
  <2> QED BY <2>5 DEF arm, in
<1>8. Balance(g, hd2, Arm(d)', due2, There(d)', new2)
  BY <1>4, <1>7
<1> QED BY <1>8 DEF BalanceFor, g, hd2, due2, new2

\* Where the ticks go on as before.
LEMMA NoTickTurns ==
  ASSUME RunsTypeOK, RunsTypeOK', TriggersTyped, TriggersTyped', WorkflowsNext, NEW d \in Docs, BalanceFor(d),
         \A u \in Ticks : Role(u, d)' = Role(u, d), handed' = handed,
         OthersTurn(Arm(d), Arm(d)', Due(d), Due(d)', There(d), There(d)', New(d), New(d)'),
         landed'[d] >= landed[d]
  PROVE  BalanceFor(d)'
<1>. DEFINE f == RolesFor(d)
            arm2 == Arm(d)'
            due2 == Due(d)'
            new2 == New(d)'
<1>1. RolesFor(d)' = f
  BY DEF RolesFor
<1>2. Repeats' \in Nat /\ landed'[d] \in Nat /\ Repeats' >= Repeats
  BY RepeatsGrow, TriggersAssumption DEF TriggersTyped
<1>3. due2 \in Nat /\ due2 >= Due(d)
  BY <1>2, BalanceTyped DEF Due
<1>4. arm2 \in Bits /\ new2 \in Bits
  BY DEF Arm, One, New, Bits
<1>5. Balance(f, handed[d], Arm(d), Due(d), There(d), New(d))
  BY DEF BalanceFor
<1>. HIDE DEF f, arm2, due2, new2
<1>6. Balance(f, handed[d], arm2, due2, There(d)', new2)
  <2>. DEFINE hd == handed[d]
              arm == Arm(d)
              due == Due(d)
              in == There(d)
              in2 == There(d)'
              new == New(d)
  <2>1. /\ hd \in Nat /\ arm \in Bits /\ due \in Nat /\ in \in Bits /\ in2 \in Bits /\ new \in Bits
    BY BalanceTyped DEF There, One, Bits
  <2>2. Balance(f, hd, arm, due, in, new)
    BY <1>5
  <2>3. OthersTurn(arm, arm2, due, due2, in, in2, new, new2)
    BY DEF arm2, due2, new2
  <2>. HIDE DEF hd, arm, due, in, in2, new
  <2>4. Balance(f, hd, arm2, due2, in2, new2)
    BY <1>3, <1>4, <2>1, <2>2, <2>3, BalanceStays, Zenon
  <2> QED BY <2>4 DEF hd, in2
<1>7. Balance(RolesFor(d)', handed'[d], arm2, due2, There(d)', new2)
  BY <1>1, <1>6
<1> QED BY <1>7 DEF BalanceFor, arm2, due2, new2

LEMMA RunTypedNext ==
  ASSUME IInv, WorkflowsNext
  PROVE  RunsTypeOK /\ RunsTypeOK'
<1>1. IInv'
  BY ComposedSteps, StepKeeps, StutterKeeps DEF IInv
<1> QED BY <1>1 DEF IInv

LEMMA IdleDoesNothing ==
  ASSUME NEW u \in Ticks, NEW d \in Docs, tick[u] = NoTick
  PROVE  Role(u, d) = "no"
BY NoTickIs DEF Role

LEMMA TickKeepsBalance ==
  ASSUME IInv, TriggersTyped, WaitInv, SizeInv, WorkflowsNext, ~crowded, NEW d \in Docs, BalanceFor(d),
         NEW t \in Ticks, Tick(t) \/ TickFails(t)
  PROVE  BalanceFor(d)'
<1>. DEFINE p == Role(t, d)
            q == Role(t, d)'
            alone == \A u \in Ticks : Role(u, d) = "no"
<1>0. RunsTypeOK /\ RunsTypeOK' /\ TriggersTyped'
  BY RunTypedNext, TriggersTypesKept
<1>1. /\ tick' \in [Ticks -> TickTypes] /\ tick \in [Ticks -> TickTypes]
      /\ \A u \in Ticks \ {t} : tick'[u] = tick[u]
      /\ UNCHANGED <<docs, landed, crowded, arming, handed>>
  BY TickMoves DEF TriggersTyped
<1>2. \A u \in Ticks \ {t} : Role(u, d)' = Role(u, d)
  <2>. SUFFICES ASSUME NEW u \in Ticks \ {t} PROVE Role(u, d)' = Role(u, d)
    OBVIOUS
  <2>1. ASSUME NEW w \in Walkers, TickStarts(t, w) PROVE ~Awaits(u, w) /\ BeginStart(w)
    BY <2>1 DEF TickStarts, BeginStart, At, Awaits, WaitInv
  <2>2. run' = run \/ \E w \in Walkers : ~Awaits(u, w) /\ BeginStart(w)
    BY <2>1 DEF Tick, TickLists, TickDrops, TickSeesNothing, TickFindsBusy, TickSaves, TickFails, runVars
  <2> QED BY <1>1, <2>2, WaitsOnBeside, RoleStays
<1>3. ASSUME TickTurns(p, q, alone, handed[d], handed'[d], Due(d), Due(d)', There(d), New(d), New(d)')
      PROVE  BalanceFor(d)'
  BY <1>0, <1>1, <1>2, <1>3, OneTickTurns
<1>4. handed'[d] = handed[d] /\ There(d)' = There(d) /\ There(d) = One(d \in docs)
  BY <1>1 DEF There
<1>5. trigger' = trigger => New(d)' = New(d)
  BY DEF New
<1>6. One(d \in docs) = 1 <=> d \in docs
  BY DEF One
<1>7. CASE TickLists(t)
  <2>1. p = "no"
    BY <1>7, IdleDoesNothing DEF TickLists
  <2>2. q = IF New(d) = 1 THEN "harm" ELSE "calm"
    <3>1. tick'[t].pc = "read" /\ tick'[t].seen = trigger.seen /\ trigger.on
      BY <1>1, <1>7 DEF TickLists, NoTick
    <3> QED BY <3>1 DEF Role, New, One
  <2>3. alone \/ Due(d)' = Due(d) + 1
    <3>1. CASE \A u \in Ticks : tick[u] = NoTick
      BY <3>1, IdleDoesNothing
    <3>2. CASE ~(\A u \in Ticks : tick[u] = NoTick)
      <4>1. Upset("overlap")
        BY <1>7, <3>2 DEF TickLists
      <4>2. Repeats' = Repeats + 1
        BY <1>0, <4>1, UpsetRepeats DEF Trouble
      <4> QED BY <1>0, <1>1, <4>2, BalanceTyped DEF Due
    <3> QED BY <3>1, <3>2
  <2>4. New(d)' = New(d)
    BY <1>5, <1>7 DEF TickLists
  <2> QED BY <1>3, <1>4, <2>1, <2>2, <2>3, <2>4 DEF TickTurns
<1>8. CASE TickDrops(t)
  <2>1. p \in {"harm", "calm"} /\ q = "no"
    BY <1>1, <1>8, NoTickIs DEF TickDrops, Role
  <2>2. New(d)' = 0 /\ New(d)' <= New(d)
    BY <1>8, NoTickIs DEF TickDrops, New, One
  <2> QED BY <1>3, <1>4, <2>1, <2>2 DEF TickTurns
<1>9. CASE TickFindsBusy(t)
  <2>1. p \in {"harm", "calm"} /\ q = "no"
    BY <1>1, <1>9, NoTickIs DEF TickFindsBusy, Role
  <2>2. New(d)' = New(d) /\ New(d)' <= New(d)
    BY <1>9, <1>0, BalanceTyped DEF TickFindsBusy, New, One
  <2> QED BY <1>3, <1>4, <2>1, <2>2 DEF TickTurns
<1>10. CASE TickSeesNothing(t)
  <2>1. p = (IF d \in tick[t].seen THEN "calm" ELSE "harm") /\ docs \subseteq tick[t].seen
    BY <1>10 DEF TickSeesNothing, Fresh, Role
  <2>2. New(d)' = New(d) /\ New(d)' <= New(d)
    BY <1>10, <1>0, BalanceTyped DEF TickSeesNothing, New, One
  <2>3. CASE tick'[t] = NoTick
    <3>1. q = "no"
      BY <2>3, NoTickIs DEF Role
    <3> QED BY <1>3, <1>4, <2>1, <2>2, <3>1 DEF TickTurns
  <2>4. CASE tick'[t].pc = "save" /\ tick'[t].watched = docs
    <3>1. q = IF d \in docs THEN "safe" ELSE "harm"
      BY <1>1, <2>4 DEF Role
    <3>2. p = "harm" => q = (IF There(d) = 1 THEN "hand" ELSE "harm")
      BY <1>4, <1>6, <2>1, <3>1
    <3>3. p = "calm" => q = (IF There(d) = 1 THEN "safe" ELSE "harm")
      BY <1>4, <1>6, <2>1, <3>1
    <3> QED BY <1>3, <1>4, <2>1, <2>2, <3>2, <3>3 DEF TickTurns
  <2> QED BY <1>1, <1>10, <2>3, <2>4 DEF TickSeesNothing, TickTypes
<1>11. ASSUME NEW w \in Walkers, TickStarts(t, w) PROVE BalanceFor(d)'
  <2>1. p = (IF d \in tick[t].seen THEN "calm" ELSE "harm")
    BY <1>11 DEF TickStarts, Role
  <2>2. tick'[t].pc = "start" /\ tick'[t].watched = docs /\ tick'[t].walker = w /\ tick'[t].seen = tick[t].seen
    BY <1>1, <1>11 DEF TickStarts, TickTypes
  <2>3. run'[w].pc = "copy"
    BY <1>0, <1>11 DEF TickStarts, BeginStart, RunsTypeOK, Free
  <2>4. q = IF d \notin docs THEN "harm" ELSE IF d \in tick[t].seen THEN "safe" ELSE "hand"
    BY <1>1, <2>2, <2>3 DEF Role
  <2>5. p = "harm" => q = (IF There(d) = 1 THEN "hand" ELSE "harm")
    BY <1>4, <1>6, <2>1, <2>4
  <2>6. p = "calm" => q = (IF There(d) = 1 THEN "safe" ELSE "harm")
    BY <1>4, <1>6, <2>1, <2>4
  <2>7. New(d)' = New(d)
    BY <1>11 DEF TickStarts, New
  <2> QED BY <1>3, <1>4, <2>1, <2>5, <2>6, <2>7 DEF TickTurns
<1>12. ASSUME NEW seen \in SUBSET Docs, TickSaves(t, seen) PROVE BalanceFor(d)'
  <2>1. p = (IF d \in tick[t].watched THEN "safe" ELSE "harm") /\ q = "no"
    BY <1>1, <1>12, NoTickIs DEF TickSaves, Role
  <2>2. seen = tick[t].watched
    BY <1>1, <1>12, AllAreNewest DEF TickSaves, SizeInv, TickTypes
  <2>3. d \in tick[t].watched => New(d)' = 0
    BY <1>12, <2>2 DEF TickSaves, New, One, TriggersTyped
  <2> QED BY <1>3, <1>4, <2>1, <2>3 DEF TickTurns
<1>13. CASE TickFails(t)
  <2>1. p \in {"harm", "calm", "safe"} /\ q = "no"
    BY <1>1, <1>13, NoTickIs DEF TickFails, Role
  <2>2. Repeats' = Repeats + 1
    BY <1>0, <1>13, UpsetRepeats DEF TickFails, Trouble
  <2>3. Due(d)' = Due(d) + 1
    BY <1>0, <1>1, <2>2, BalanceTyped DEF Due
  <2>4. New(d)' = New(d)
    BY <1>13 DEF TickFails, New
  <2> QED BY <1>3, <1>4, <2>1, <2>3, <2>4 DEF TickTurns
<1> QED BY <1>7, <1>8, <1>9, <1>10, <1>11, <1>12, <1>13 DEF Tick

LEMMA RunKeepsBalance ==
  ASSUME IInv, TriggersTyped, WaitInv, WorkflowsNext, NEW d \in Docs, BalanceFor(d),
         NEW w \in Walkers, RunMoves(w) \/ RunInsertFails(w)
  PROVE  BalanceFor(d)'
<1>0. RunsTypeOK /\ RunsTypeOK' /\ TriggersTyped'
  BY RunTypedNext, TriggersTypesKept
<1>1. /\ tick' \in [Ticks -> TickTypes] /\ tick \in [Ticks -> TickTypes]
      /\ UNCHANGED <<docs, landed, crowded, arming>>
      /\ \A t \in Ticks : ~Awaits(t, w) => tick'[t] = tick[t]
  BY ReturnMoves DEF TriggersTyped
<1>2. \A u \in Ticks : ~Awaits(u, w) => Role(u, d)' = Role(u, d)
  <2>. SUFFICES ASSUME NEW u \in Ticks, ~Awaits(u, w) PROVE Role(u, d)' = Role(u, d)
    OBVIOUS
  <2>1. Onward(w) \/ InsertFails(w)
    BY DEF RunMoves, RunInsertFails
  <2> QED BY <1>1, <2>1, WaitsOnBeside, RoleStays
<1>3. /\ There(d)' = There(d) /\ New(d)' <= New(d) /\ Arm(d)' = Arm(d)
      /\ trigger' = trigger => New(d)' = New(d)
  <2>1. trigger' = trigger \/ trigger' = NotArming
    BY DEF RunMoves, RunInsertFails
  <2>2. trigger' = NotArming => New(d)' = 0
    BY NoTickIs DEF New, One
  <2>3. trigger' = trigger => New(d)' = New(d)
    BY DEF New
  <2>4. New(d) \in {0, 1}
    BY DEF New, One
  <2> QED BY <1>1, <2>1, <2>2, <2>3, <2>4 DEF There, Arm
<1>4. CASE ~\E t \in Ticks : Awaits(t, w)
  <2>1. handed' = handed
    BY <1>4 DEF RunMoves, RunInsertFails, TriggersTyped
  <2>2. Due(d)' >= Due(d)
    BY <1>0, <1>1, RepeatsGrow, BalanceTyped DEF Due
  <2>3. OthersTurn(Arm(d), Arm(d)', Due(d), Due(d)', There(d), There(d)', New(d), New(d)')
    BY <1>0, <1>3, <2>2, BalanceTyped DEF OthersTurn, Bits
  <2>4. landed'[d] >= landed[d]
    BY <1>0, <1>1, BalanceTyped
  <2> QED BY <1>0, <1>2, <1>4, <2>1, <2>3, <2>4, NoTickTurns
<1>5. ASSUME NEW t \in Ticks, Awaits(t, w) PROVE BalanceFor(d)'
  <2>. DEFINE p == Role(t, d)
              q == Role(t, d)'
              alone == \A u \in Ticks : Role(u, d) = "no"
  <2>0. \A u \in Ticks \ {t} : Role(u, d)' = Role(u, d)
    <3>1. \A u \in Ticks \ {t} : ~Awaits(u, w)
      BY <1>5 DEF Awaits, WaitInv
    <3> QED BY <1>2, <3>1
  <2>1. ASSUME TickTurns(p, q, alone, handed[d], handed'[d], Due(d), Due(d)', There(d), New(d), New(d)')
        PROVE  BalanceFor(d)'
    BY <1>0, <1>1, <2>0, <2>1, OneTickTurns
  <2>2. tick[t].pc = "start" /\ tick[t].walker = w
    BY <1>5 DEF Awaits
  <2>3. \/ tick'[t] = tick[t]
        \/ /\ tick'[t].pc = "save" /\ tick'[t].seen = tick[t].seen
           /\ tick'[t].watched = tick[t].watched
    BY <1>5, ReturnMoves
  <2>4. CASE d \notin tick[t].watched
    <3>1. p = "harm" /\ q = "harm"
      BY <2>2, <2>3, <2>4 DEF Role
    <3>2. handed'[d] = handed[d]
      <4>1. \A u \in Ticks : Awaits(u, w) => u = t
        BY <1>5 DEF Awaits, WaitInv
      <4> QED BY <2>4, <4>1 DEF RunMoves, RunInsertFails, TriggersTyped
    <3> QED BY <1>3, <2>1, <3>1, <3>2 DEF TickTurns
  <2>5. CASE d \in tick[t].watched /\ ~(d \notin tick[t].seen /\ run[w].pc = "insert" /\ RunMoves(w))
    <3>1. handed'[d] = handed[d]
      <4>1. \A u \in Ticks : Awaits(u, w) => u = t
        BY <1>5 DEF Awaits, WaitInv
      <4> QED BY <2>5, <4>1 DEF RunMoves, RunInsertFails, TriggersTyped, At
    <3>2. p = IF d \notin tick[t].seen /\ run[w].pc \in {"copy", "insert"} THEN "hand" ELSE "safe"
      BY <2>2, <2>5 DEF Role
    <3>3. tick'[t].pc = "save" => q = "safe"
      BY <2>2, <2>3, <2>5 DEF Role
    <3>4. tick'[t] = tick[t] =>
            q = IF d \notin tick[t].seen /\ run'[w].pc \in {"copy", "insert"} THEN "hand" ELSE "safe"
      BY <2>2, <2>5 DEF Role
    <3>5. p = q \/ (p = "hand" /\ q = "safe")
      <4>1. CASE RunMoves(w)
        <5>1. \/ run[w].pc = "copy" /\ tick'[t] = tick[t] /\ run'[w].pc = "insert"
              \/ tick'[t].pc = "save"
              \/ run[w].pc = "insert"
              \/ run[w].pc = "window" /\ tick'[t] = tick[t] /\ run'[w].pc = "row"
          BY <1>5, <4>1, AwaitingMoves DEF WaitsOn
        <5>2. CASE run[w].pc = "insert"
          BY <2>2, <2>3, <2>5, <3>2, <3>3, <3>4, <4>1, <5>2
        <5> QED BY <3>2, <3>3, <3>4, <5>1, <5>2
      <4>2. CASE RunInsertFails(w)
        <5>1. tick'[t].pc = "save"
          BY <1>1, <1>5, <4>2 DEF RunInsertFails, Returned, TickTypes
        <5> QED BY <3>2, <3>3, <5>1
      <4> QED BY <4>1, <4>2
    <3> QED BY <1>3, <2>1, <3>1, <3>5 DEF TickTurns
  <2>6. CASE d \in tick[t].watched /\ d \notin tick[t].seen /\ run[w].pc = "insert" /\ RunMoves(w)
    <3>1. WaitsOn(t) /\ run'[w].pc = "window"
      BY <1>5, <2>6, AwaitingMoves
    <3>2. p = "hand" /\ q = "safe"
      BY <2>2, <2>6, <3>1 DEF Role, WaitsOn
    <3>3. handed'[d] = handed[d] + 1
      BY <1>5, <2>6 DEF RunMoves, At
    <3>4. New(d)' = New(d)
      <4>1. trigger' = trigger
        BY <2>6 DEF RunMoves, At
      <4> QED BY <1>3, <4>1
    <3> QED BY <2>1, <3>2, <3>3, <3>4 DEF TickTurns
  <2> QED BY <2>4, <2>5, <2>6
<1> QED BY <1>4, <1>5

\* What neither a tick nor an awaited run does.
LEMMA OthersKeepBalance ==
  ASSUME IInv, TriggersTyped, WaitInv, WorkflowsNext, NEW d \in Docs, BalanceFor(d), tick' = tick, handed' = handed,
         run' = run \/ Person, landed'[d] >= landed[d],
         OthersTurn(Arm(d), Arm(d)', Due(d), Due(d)', There(d), There(d)', New(d), New(d)')
  PROVE  BalanceFor(d)'
<1>1. RunsTypeOK /\ RunsTypeOK' /\ TriggersTyped'
  BY RunTypedNext, TriggersTypesKept
<1>2. \A u \in Ticks : Role(u, d)' = Role(u, d)
  BY WaitsOnBeside, RoleStays
<1> QED BY <1>1, <1>2, NoTickTurns

LEMMA BalanceKept ==
  ASSUME IInv, TriggersTyped, WaitInv, SizeInv, BalanceInv, WorkflowsNext
  PROVE  BalanceInv'
<1>1. crowded' = crowded \/ crowded'
  <2>1. ASSUME NEW e \in Docs, AddDoc(e) \/ RestoreDoc(e) PROVE crowded' = crowded \/ crowded'
    BY <2>1, LandsMoves DEF TriggersTyped
  <2>2. ASSUME NEW t \in Ticks, Tick(t) \/ TickFails(t) PROVE crowded' = crowded
    BY <2>2, TickMoves
  <2>3. ASSUME NEW w \in Walkers, RunMoves(w) \/ RunInsertFails(w) PROVE crowded' = crowded
    BY <2>3, ReturnMoves
  <2> QED BY <2>1, <2>2, <2>3 DEF WorkflowsNext, triggerVars, boardVars, RemoveDoc, ArmReads, ArmWrites, Disarm,
             WorkflowsCrash
<1>. SUFFICES ASSUME ~crowded', NEW d \in Docs PROVE BalanceFor(d)'
  BY DEF BalanceInv
<1>2. ~crowded /\ BalanceFor(d)
  BY <1>1 DEF BalanceInv
<1>3. RunsTypeOK /\ RunsTypeOK' /\ TriggersTyped'
  BY RunTypedNext, TriggersTypesKept
<1>4. /\ Arm(d) \in {0, 1} /\ There(d) \in {0, 1} /\ New(d) \in {0, 1} /\ Due(d) \in Nat
      /\ landed[d] \in Nat /\ Repeats \in Nat /\ Repeats' \in Nat /\ Repeats' >= Repeats
  BY <1>3, BalanceTyped, RepeatsGrow DEF Bits
<1>5. landed' = landed => Due(d)' >= Due(d) /\ landed'[d] >= landed[d]
  BY <1>4 DEF Due
<1>6. /\ arming' = arming => Arm(d)' = Arm(d)
      /\ docs' = docs => There(d)' = There(d)
      /\ trigger' = trigger => New(d)' = New(d)
  BY DEF Arm, There, New
<1>7. ASSUME NEW k \in Trouble, Upset(k), k # "removal", landed' = landed PROVE Due(d)' = Due(d) + 1
  BY <1>3, <1>4, <1>7, UpsetRepeats DEF Due
<1>8. CASE Person /\ UNCHANGED triggerVars
  <2>1. UNCHANGED <<docs, landed, trigger, arming, tick, handed>>
    BY <1>8 DEF triggerVars, boardVars
  <2>2. OthersTurn(Arm(d), Arm(d)', Due(d), Due(d)', There(d), There(d)', New(d), New(d)')
    BY <1>4, <1>5, <1>6, <2>1 DEF OthersTurn
  <2> QED BY <1>2, <1>5, <1>8, <2>1, <2>2, OthersKeepBalance
<1>9. ASSUME NEW w \in Walkers, RunMoves(w) \/ RunInsertFails(w) PROVE BalanceFor(d)'
  BY <1>2, <1>9, RunKeepsBalance
<1>10. ASSUME NEW t \in Ticks, Tick(t) \/ TickFails(t) PROVE BalanceFor(d)'
  BY <1>2, <1>10, TickKeepsBalance
<1>11. ASSUME NEW e \in Docs, AddDoc(e) \/ RestoreDoc(e) PROVE BalanceFor(d)'
  <2>1. /\ docs' = docs \cup {e} /\ landed' = [landed EXCEPT ![e] = landed[e] + 1]
        /\ UNCHANGED <<runVars, trigger, arming, tick, handed>>
    BY <1>11, LandsMoves
  <2>2. Repeats' = Repeats /\ run' = run
    BY <2>1 DEF Repeats, runVars
  <2>3. CASE e = d
    <3>1. landed'[d] = landed[d] + 1
      BY <2>1, <2>3 DEF TriggersTyped
    <3>2. Due(d)' = Due(d) + 1
      BY <1>4, <2>2, <3>1 DEF Due
    <3>3. OthersTurn(Arm(d), Arm(d)', Due(d), Due(d)', There(d), There(d)', New(d), New(d)')
      BY <1>4, <1>6, <2>1, <3>2 DEF OthersTurn
    <3> QED BY <1>2, <1>4, <2>1, <2>2, <3>1, <3>3, OthersKeepBalance
  <2>4. CASE e # d
    <3>1. landed'[d] = landed[d] /\ There(d)' = There(d)
      BY <2>1, <2>4 DEF TriggersTyped, There
    <3>2. Due(d)' = Due(d)
      BY <2>2, <3>1 DEF Due
    <3>3. OthersTurn(Arm(d), Arm(d)', Due(d), Due(d)', There(d), There(d)', New(d), New(d)')
      BY <1>4, <1>6, <2>1, <3>1, <3>2 DEF OthersTurn
    <3> QED BY <1>2, <1>4, <2>1, <2>2, <3>1, <3>3, OthersKeepBalance
  <2> QED BY <2>3, <2>4
<1>12. ASSUME NEW e \in Docs, RemoveDoc(e) PROVE BalanceFor(d)'
  <2>1. /\ docs' = docs \ {e} /\ UNCHANGED <<run, landed, trigger, arming, tick, handed>>
    BY <1>12 DEF RemoveDoc
  <2>2. There(d)' <= There(d)
    BY <2>1 DEF There, One
  <2>3. OthersTurn(Arm(d), Arm(d)', Due(d), Due(d)', There(d), There(d)', New(d), New(d)')
    BY <1>4, <1>5, <1>6, <2>1, <2>2 DEF OthersTurn
  <2> QED BY <1>2, <1>5, <2>1, <2>3, OthersKeepBalance
<1>13. ASSUME NEW seen \in SUBSET Docs, ArmReads(seen) PROVE BalanceFor(d)'
  <2>1. UNCHANGED <<run, docs, landed, trigger, tick, handed>> /\ arming = NotArming /\ Upset("edit")
    BY <1>13 DEF ArmReads, boardVars
  <2>2. Arm(d) = 0
    BY <2>1, NoTickIs DEF Arm, One
  <2>3. Due(d)' = Due(d) + 1
    BY <1>7, <2>1 DEF Trouble
  <2>4. OthersTurn(Arm(d), Arm(d)', Due(d), Due(d)', There(d), There(d)', New(d), New(d)')
    BY <1>4, <1>6, <2>1, <2>2, <2>3 DEF OthersTurn
  <2> QED BY <1>2, <1>5, <2>1, <2>4, OthersKeepBalance
<1>14. CASE ArmWrites
  <2>1. UNCHANGED <<run, docs, landed, tick, handed>> /\ trigger' = arming /\ arming' = NotArming
    BY <1>14 DEF ArmWrites, boardVars, runVars
  <2>2. Arm(d)' = 0 /\ New(d)' = Arm(d)
    BY <2>1, NoTickIs DEF Arm, New, One
  <2>3. OthersTurn(Arm(d), Arm(d)', Due(d), Due(d)', There(d), There(d)', New(d), New(d)')
    BY <1>4, <1>5, <1>6, <2>1, <2>2 DEF OthersTurn
  <2> QED BY <1>2, <1>5, <2>1, <2>3, OthersKeepBalance
<1>15. CASE Disarm
  <2>1. UNCHANGED <<run, docs, landed, arming, tick, handed>> /\ trigger' = NotArming
    BY <1>15 DEF Disarm, boardVars
  <2>2. New(d)' = 0
    BY <2>1, NoTickIs DEF New, One
  <2>3. OthersTurn(Arm(d), Arm(d)', Due(d), Due(d)', There(d), There(d)', New(d), New(d)')
    BY <1>4, <1>5, <1>6, <2>1, <2>2 DEF OthersTurn
  <2> QED BY <1>2, <1>5, <2>1, <2>3, OthersKeepBalance
<1>16. CASE WorkflowsCrash
  <2>. DEFINE f == RolesFor(d)
              g == RolesFor(d)'
  <2>1. /\ UNCHANGED <<docs, landed, trigger, handed>> /\ arming' = NotArming
        /\ \A t \in Ticks : tick'[t] = NoTick
    BY <1>16 DEF WorkflowsCrash, boardVars
  <2>2. Due(d)' = Due(d) + 1
    BY <1>7, <1>16, <2>1 DEF WorkflowsCrash, RunsCrash, Trouble
  <2>3. Arm(d)' = 0
    BY <2>1, NoTickIs DEF Arm, One
  <2>4. \A t \in Ticks : g[t] = "no"
    BY <2>1, NoTickIs DEF RolesFor, Role
  <2>5. Having(g, "hand") = 0 /\ Having(g, "harm") = 0 /\ Having(g, "calm") = 0
    <3>. HIDE DEF g
    <3> QED BY <2>4, NoneHas
  <2>6. handed[d] + Having(f, "hand") + Arm(d) <= Due(d) /\ Having(f, "hand") \in Nat /\ handed[d] \in Nat
    BY <1>2, <1>3, HavingIsCount, BalanceTyped DEF BalanceFor, Balance
  <2>7. /\ handed'[d] + 0 + 0 <= Due(d)'
        /\ \A b \in BOOLEAN : handed'[d] + 0 + 0 + 0 + One(b) <= Due(d)'
        /\ handed'[d] + 0 + 0 + 0 + 0 <= Due(d)' + 1
    BY <1>4, <2>1, <2>2, <2>6 DEF One
  <2> QED BY <2>3, <2>5, <2>7 DEF BalanceFor, Balance
<1> QED BY <1>8, <1>9, <1>10, <1>11, <1>12, <1>13, <1>14, <1>15, <1>16 DEF WorkflowsNext

\* Whatever lands, leaves and returns while runs are started, and however the ticks overlap, a
\* window is handed to one run each time it lands, and once more at most for each restart,
\* failed query, edit of the trigger and tick that begins beside another: for any number of
\* windows, as long as the trigger remembers all that are there, and of ticks.
THEOREM HandedToOneRun == WorkflowsSpec => []HandedOnce
<1>. DEFINE HandInv == TriggersTyped /\ WaitInv /\ SizeInv /\ BalanceInv
<1>1. WorkflowsInit => HandInv
  <2>. SUFFICES ASSUME WorkflowsInit PROVE HandInv
    OBVIOUS
  <2>1. TriggersTyped
    BY TypedAtFirst
  <2>2. WaitInv
    BY NoTickIs DEF WorkflowsInit, WaitInv
  <2>3. SizeInv
    <3>1. docs = {} /\ \A t \in Ticks : tick[t].watched = {}
      BY DEF WorkflowsInit, NoTick
    <3>2. Cardinality({}) = 0 /\ MAX_SEEN \in Nat
      BY FS_EmptySet, TriggersAssumption
    <3> QED BY <3>1, <3>2 DEF SizeInv
  <2>4. ASSUME NEW d \in Docs PROVE BalanceFor(d)
    <3>1. \A t \in Ticks : RolesFor(d)[t] = "no"
      BY IdleDoesNothing DEF RolesFor, WorkflowsInit
    <3>2. /\ Having(RolesFor(d), "hand") = 0 /\ Having(RolesFor(d), "harm") = 0
          /\ Having(RolesFor(d), "calm") = 0
      BY <3>1, NoneHas
    <3>3. handed[d] = 0 /\ Arm(d) = 0 /\ There(d) = 0
      BY NoTickIs DEF WorkflowsInit, Arm, There, One
    <3>4. Due(d) = 0
      BY DEF WorkflowsInit, RunsInit, Due, Repeats, Trouble
    <3> QED BY <3>2, <3>3, <3>4 DEF BalanceFor, Balance
  <2> QED BY <2>1, <2>2, <2>3, <2>4 DEF BalanceInv
<1>2. IInv /\ HandInv /\ [WorkflowsNext]_vars => HandInv'
  <2>1. ASSUME IInv, HandInv, WorkflowsNext PROVE HandInv'
    BY <2>1, TriggersTypesKept, WaitKept, SizeKept, BalanceKept
  <2>2. ASSUME HandInv, UNCHANGED vars PROVE HandInv'
    <3>1. UNCHANGED <<run, upsets, docs, trigger, arming, tick, landed, crowded, handed>>
      BY <2>2 DEF vars, runVars, triggerVars, boardVars
    <3>2. ASSUME NEW d \in Docs PROVE BalanceFor(d)' <=> BalanceFor(d)
      BY <3>1 DEF BalanceFor, RolesFor, Role, Arm, Due, Repeats, There, New
    <3> QED BY <2>2, <3>1, <3>2 DEF TriggersTyped, WaitInv, SizeInv, BalanceInv
  <2> QED BY <2>1, <2>2
<1>3. IInv /\ HandInv => HandedOnce
  <2>. SUFFICES ASSUME IInv, HandInv, ~crowded, NEW d \in Docs PROVE handed[d] <= landed[d] + Repeats
    BY DEF HandedOnce
  <2>1. handed[d] + Having(RolesFor(d), "hand") + Arm(d) <= Due(d)
    BY DEF BalanceInv, BalanceFor, Balance
  <2>2. Having(RolesFor(d), "hand") \in Nat /\ Arm(d) \in {0, 1} /\ handed[d] \in Nat /\ Due(d) \in Nat
    BY HavingIsCount, BalanceTyped DEF IInv, Bits
  <2> QED BY <2>1, <2>2 DEF Due
<1> QED BY <1>1, <1>2, <1>3, RunsInvariance, PTL DEF WorkflowsSpec

\* And in the composition, too, nothing passes a review and what looks like running is.
THEOREM RunsStaySound == WorkflowsSpec => [](NothingUnapproved /\ RunningIsReal)
<1>1. IInv => NothingUnapproved /\ RunningIsReal
  BY DEF IInv, AllSound, Sound, ReviewsInv, NothingUnapproved, RunningIsReal, NoGhosts, GhostInv
<1> QED BY <1>1, RunsInvariance, PTL

-----------------------------------------------------------------------------
(* The way of a run through the graph.                                     *)

\* A check that is done went one way, anything else is done or not; a start does not fail.
Fits(n, v) == IF KindOf[n] = "branch" THEN v # "done" ELSE v \notin {"yes", "no"}
Ways(res) ==
  \A n \in Nodes : Fits(n, res[n]) /\ (KindOf[n] = "trigger" => res[n] \in {"pending", "done"})

Unbegun(res, k) == \A n \in Nodes : PlaceOf(n) >= k => res[n] = "pending"

Placed(res, k) == Behind(res, k) /\ Ways(res)

\* Something live reached the node at this place.
Begun(res, k) ==
  /\ k \in 1 .. Len(Order) /\ KindOf[Order[k]] # "trigger"
  /\ Placed(res, k) /\ Fed(Order[k], res)

WaitsAt(res, k) == Begun(res, k) /\ KindOf[Order[k]] = "review" /\ res[Order[k]] = "waiting"

OnPath(o) ==
  o.id # NoRun =>
    /\ Placed(o.res, o.at)
    /\ o.then = "track" => Unbegun(o.res, o.at)
    /\ o.then = "step" => Begun(o.res, o.at)
    /\ o.status = "awaiting_review" => WaitsAt(o.res, o.at)
    /\ o.status = "complete" => o.at > Len(Order)

PathInv ==
  /\ \A w \in Walkers : OnPath(run[w])
  /\ \A r \in Runs : row[r].status = "awaiting_review" =>
       \E k \in 1 .. Len(Order) : WaitsAt(row[r].res, k)

LEMMA OnePlace ==
  ASSUME NEW k \in 1 .. Len(Order)
  PROVE  /\ Order[k] \in Nodes /\ PlaceOf(Order[k]) = k
         /\ \A n \in Nodes : PlaceOf(n) = k => n = Order[k]
<1>1. \A i, j \in 1 .. Len(Order) : Order[i] = Order[j] => i = j
  <2>1. Order \in Seq(Nodes) /\ IsInjective(Order)
    BY OrderSorts
  <2>2. DOMAIN Order = 1 .. Len(Order)
    BY <2>1
  <2> QED BY <2>1, <2>2 DEF IsInjective
<1>2. Order[k] \in Nodes
  BY Places
<1>3. PlaceOf(Order[k]) \in 1 .. Len(Order) /\ Order[PlaceOf(Order[k])] = Order[k]
  BY <1>2, Places
<1> QED BY <1>1, <1>2, <1>3, Places

\* What feeds a node has a place before it.
LEMMA EdgesGoForward ==
  ASSUME NEW n \in Nodes, NEW k \in Into(Graph, n)
  PROVE  /\ Graph.edges[k].from \in Nodes /\ Graph.edges[k].port \in {"none", "yes", "no"}
         /\ PlaceOf(Graph.edges[k].from) < PlaceOf(n)
<1> DEFINE e == Graph.edges[k]
           Edges == [from : Nodes, to : Nodes, port : {"none", "yes", "no"}]
<1>1. e.from \in Nodes /\ e.port \in {"none", "yes", "no"}
  <2>1. Graph.edges \in Seq(Edges) /\ k \in DOMAIN Graph.edges
    BY WorkflowAssumption DEF IsGraph, Nodes, Into
  <2>2. e \in Edges
    <3> HIDE DEF Edges
    <3> QED BY <2>1
  <2> QED BY <2>2
<1>2. PlaceOf(n) \in 1 .. Len(Order) /\ Order[PlaceOf(n)] = n
  BY Places
<1>3. e.from \in {Order[l] : l \in 1 .. PlaceOf(n) - 1}
  <2>1. DOMAIN Order = 1 .. Len(Order)
    BY OrderSorts
  <2>2. Sources(Graph, n) \subseteq {Order[l] : l \in 1 .. PlaceOf(n) - 1}
    BY <1>2, <2>1, OrderSorts DEF Sorts
  <2> QED BY <2>2 DEF Sources
<1>4. PICK l \in 1 .. PlaceOf(n) - 1 : e.from = Order[l]
  BY <1>3
<1>5. l \in 1 .. Len(Order) /\ l < PlaceOf(n)
  BY <1>2, Places
<1> QED BY <1>1, <1>4, <1>5, OnePlace

\* Whether a node is fed depends on the places before its own only.
LEMMA FedLocal ==
  ASSUME NEW n \in Nodes, NEW res, NEW new,
         \A m \in Nodes : PlaceOf(m) < PlaceOf(n) => new[m] = res[m]
  PROVE  Fed(n, new) <=> Fed(n, res)
<1>1. \A k \in Into(Graph, n) : new[Graph.edges[k].from] = res[Graph.edges[k].from]
  BY EdgesGoForward
<1> QED BY <1>1 DEF Fed

\* nodeReached, on results that say the same of what is settled before the node.
LEMMA ReachedIsFed ==
  ASSUME NEW n \in Nodes, NEW started \in [Nodes -> Results], NEW res \in [Nodes -> Results],
         Ways(res),
         \A m \in Nodes : PlaceOf(m) < PlaceOf(n) /\ (started[m] \in Settled \/ res[m] \in Settled) =>
           started[m] = res[m]
  PROVE  Reached(Graph, n, started) <=> Fed(n, res)
<1>1. ASSUME NEW k \in Into(Graph, n)
      PROVE  Live(Graph.edges[k], started) <=>
               IF KindOf[Graph.edges[k].from] = "branch" /\ Graph.edges[k].port # "none"
                 THEN res[Graph.edges[k].from] = Graph.edges[k].port
                 ELSE res[Graph.edges[k].from] \in Settled
  <2> DEFINE e == Graph.edges[k]
             m == e.from
  <2>1. m \in Nodes /\ e.port \in {"none", "yes", "no"} /\ PlaceOf(m) < PlaceOf(n)
    BY EdgesGoForward
  <2>2. started[m] \in Settled \/ res[m] \in Settled => started[m] = res[m]
    BY <2>1
  <2>3. IF KindOf[m] = "branch" THEN res[m] # "done" ELSE res[m] \notin {"yes", "no"}
    BY <2>1 DEF Ways, Fits
  <2> HIDE DEF m
  <2>4. Live(e, started) <=> started[m] \in Settled /\ (started[m] = "done" \/ e.port = "none" \/ e.port = started[m])
    BY DEF Live, m
  <2> HIDE DEF e
  <2>5. Live(e, started) <=> IF KindOf[m] = "branch" /\ e.port # "none" THEN res[m] = e.port ELSE res[m] \in Settled
    BY <2>1, <2>2, <2>3, <2>4 DEF Settled
  <2> QED BY <2>5 DEF e, m
<1> QED BY <1>1 DEF Reached, Fed

\* The places, and the nodes at them, are one to one.
LEMMA PlacesTyped ==
  /\ Len(Order) \in Nat
  /\ \A n \in Nodes : PlaceOf(n) \in Nat /\ PlaceOf(n) \in 1 .. Len(Order)
BY Places

\* What walk does between two awaits: from a fresh place it passes on to the next node
\* that something live reached.
LEMMA PassedIsPlaced ==
  ASSUME NEW o, o.res \in [Nodes -> Results], NEW i \in 1 .. Len(Order) + 1,
         Placed(o.res, i), Unbegun(o.res, i)
  PROVE  LET next == NextPlace(o, i)  passed == PassedTo(o.res, next)  IN
         /\ passed \in [Nodes -> Results]
         /\ Placed(passed, next) /\ Unbegun(passed, next)
         /\ next <= Len(Order) => Begun(passed, next)
<1> DEFINE res == o.res
           started == [n \in Nodes |-> IF KindOf[n] = "trigger" THEN "done" ELSE res[n]]
           reached == {k \in i .. Len(Order) :
                         KindOf[Order[k]] # "trigger" /\ Reached(Graph, Order[k], started)}
           next == NextPlace(o, i)
           passed == PassedTo(res, next)
<1>1. next \in 1 .. Len(Order) + 1 /\ Len(Order) \in Nat
  BY NextPlaceWithin, Places
<1>2. /\ next >= i
      /\ \A k \in reached : next <= k
      /\ next <= Len(Order) => next \in reached
  <2>1. CASE reached = {}
    <3>1. next = Len(Order) + 1
      BY <2>1 DEF NextPlace
    <3> QED BY <1>1, <2>1, <3>1
  <2>2. CASE reached # {}
    <3>1. reached \in SUBSET Nat
      BY Places
    <3>2. \E k \in reached : \A l \in reached : k <= l
      BY <2>2, <3>1, HasLeast
    <3>3. next = CHOOSE k \in reached : \A l \in reached : k <= l
      BY <2>2 DEF NextPlace
    <3>4. next \in reached /\ \A l \in reached : next <= l
      BY <3>2, <3>3
    <3> QED BY <1>1, <3>4
  <2> QED BY <2>1, <2>2
<1> HIDE DEF next
<1>3. /\ started \in [Nodes -> Results]
      /\ \A n \in Nodes : started[n] = IF KindOf[n] = "trigger" THEN "done" ELSE res[n]
  BY DEF Results, Settled
<1>4. /\ passed \in [Nodes -> Results]
      /\ \A n \in Nodes : passed[n] = IF res[n] # "pending" \/ PlaceOf(n) >= next THEN res[n]
                                      ELSE IF KindOf[n] = "trigger" THEN "done" ELSE "skipped"
  BY DEF PassedTo, Results, Settled
<1> HIDE DEF passed, started
<1>5. /\ \A n \in Nodes : PlaceOf(n) < i => passed[n] = res[n]
      /\ \A n \in Nodes : PlaceOf(n) >= i => res[n] = "pending"
      /\ \A n \in Nodes : PlaceOf(n) < i => res[n] # "pending"
  BY <1>4 DEF Placed, Behind, Unbegun
<1>6. Ways(passed)
  BY <1>4 DEF Placed, Ways, Fits
<1>7. Unbegun(passed, next)
  BY <1>1, <1>2, <1>4, <1>5, PlacesTyped DEF Unbegun
\* What the walk sees of the nodes before a place that it comes to.
<1>8. ASSUME NEW k \in 1 .. Len(Order), k <= next, KindOf[Order[k]] # "trigger"
      PROVE  Reached(Graph, Order[k], started) <=> Fed(Order[k], passed)
  <2>1. Order[k] \in Nodes /\ PlaceOf(Order[k]) = k
    BY OnePlace
  <2>2. ASSUME NEW m \in Nodes, PlaceOf(m) < k, started[m] \in Settled \/ passed[m] \in Settled
        PROVE  started[m] = passed[m]
    <3>1. PlaceOf(m) < next
      BY <1>1, <1>8, <2>2, PlacesTyped
    <3>2. KindOf[m] = "trigger" => res[m] \in {"pending", "done"}
      BY DEF Placed, Ways
    <3> QED BY <1>1, <1>3, <1>4, <2>2, <3>1, <3>2, PlacesTyped DEF Settled
  <2> QED BY <1>3, <1>4, <1>6, <2>1, <2>2, ReachedIsFed
<1>9. ASSUME NEW n \in Nodes, PlaceOf(n) < next
      PROVE  /\ passed[n] \notin {"pending", "running", "waiting"}
             /\ KindOf[n] # "trigger" => (passed[n] # "skipped" <=> Fed(n, passed))
  <2>1. CASE PlaceOf(n) < i
    <3>1. Fed(n, passed) <=> Fed(n, res)
      <4>1. \A m \in Nodes : PlaceOf(m) < PlaceOf(n) => passed[m] = res[m]
        BY <1>5, <2>1, PlacesTyped
      <4> QED BY <4>1, FedLocal
    <3> QED BY <1>5, <2>1, <3>1 DEF Placed, Behind
  <2>2. CASE PlaceOf(n) >= i
    <3>1. res[n] = "pending" /\ ~(PlaceOf(n) >= next)
      BY <1>1, <1>5, <1>9, <2>2, PlacesTyped
    <3>2. passed[n] = IF KindOf[n] = "trigger" THEN "done" ELSE "skipped"
      BY <1>4, <3>1
    <3>3. ASSUME KindOf[n] # "trigger" PROVE ~Fed(n, passed)
      <4>1. PlaceOf(n) \in i .. Len(Order) /\ Order[PlaceOf(n)] = n
        BY <2>2, Places
      <4>2. PlaceOf(n) \notin reached
        BY <1>1, <1>2, <1>9, PlacesTyped
      <4>3. ~Reached(Graph, n, started)
        BY <3>3, <4>1, <4>2
      <4>4. PlaceOf(n) \in 1 .. Len(Order) /\ PlaceOf(n) <= next
        BY <1>1, <1>9, PlacesTyped
      <4> QED BY <1>8, <3>3, <4>1, <4>3, <4>4
    <3> QED BY <3>2, <3>3
  <2> QED BY <2>1, <2>2, PlacesTyped
<1>10. Behind(passed, next)
  <2>1. \A n \in Nodes : PlaceOf(n) > next => passed[n] = "pending"
    BY <1>1, <1>7, PlacesTyped DEF Unbegun
  <2> QED BY <1>9, <2>1 DEF Behind
<1>11. next <= Len(Order) => Begun(passed, next)
  <2> SUFFICES ASSUME next <= Len(Order) PROVE Begun(passed, next)
    OBVIOUS
  <2>1. next \in 1 .. Len(Order) /\ KindOf[Order[next]] # "trigger" /\ Reached(Graph, Order[next], started)
    BY <1>1, <1>2
  <2>2. Fed(Order[next], passed)
    BY <1>8, <2>1
  <2> QED BY <1>6, <1>10, <2>1, <2>2 DEF Begun, Placed
<1> QED BY <1>4, <1>6, <1>7, <1>10, <1>11 DEF Placed, passed, next

\* The node at the place where a run stands may take any result.
LEMMA SetHere ==
  ASSUME NEW res \in [Nodes -> Results], NEW k, Begun(res, k), NEW v \in Results,
         Fits(Order[k], v),
         NEW new, new = [res EXCEPT ![Order[k]] = v]
  PROVE  Begun(new, k) /\ new \in [Nodes -> Results]
<1>1. k \in 1 .. Len(Order) /\ Order[k] \in Nodes /\ PlaceOf(Order[k]) = k
      /\ \A n \in Nodes : PlaceOf(n) = k => n = Order[k]
  BY OnePlace DEF Begun
<1>2. /\ new \in [Nodes -> Results] /\ new[Order[k]] = v
      /\ \A n \in Nodes : PlaceOf(n) # k => new[n] = res[n]
      /\ \A n \in Nodes : n # Order[k] => new[n] = res[n]
  BY <1>1
<1>3. ASSUME NEW n \in Nodes, PlaceOf(n) <= k PROVE Fed(n, new) <=> Fed(n, res)
  <2>1. \A m \in Nodes : PlaceOf(m) < PlaceOf(n) => new[m] = res[m]
    BY <1>1, <1>2, <1>3, PlacesTyped
  <2> QED BY <2>1, FedLocal
<1>4. Behind(new, k)
  <2>1. \A n \in Nodes : PlaceOf(n) < k => PlaceOf(n) <= k /\ PlaceOf(n) # k
    BY <1>1, PlacesTyped
  <2>2. \A n \in Nodes : PlaceOf(n) > k => PlaceOf(n) # k
    BY <1>1, PlacesTyped
  <2> QED BY <1>2, <1>3, <2>1, <2>2 DEF Begun, Placed, Behind
<1>5. Ways(new)
  BY <1>2 DEF Begun, Placed, Ways
<1>6. Fed(Order[k], new)
  <2>1. PlaceOf(Order[k]) <= k
    BY <1>1, PlacesTyped
  <2>2. Fed(Order[k], new) <=> Fed(Order[k], res)
    BY <1>1, <1>3, <2>1
  <2> QED BY <2>2 DEF Begun
<1> QED BY <1>1, <1>2, <1>4, <1>5, <1>6 DEF Begun, Placed

\* When it is over, the run may go on to the next place.
LEMMA PassOn ==
  ASSUME NEW res \in [Nodes -> Results], NEW k, Begun(res, k), res[Order[k]] \in Settled \cup {"failed"}
  PROVE  /\ Placed(res, k + 1) /\ Unbegun(res, k + 1) /\ k + 1 \in 1 .. Len(Order) + 1
<1>1. k \in 1 .. Len(Order) /\ Order[k] \in Nodes /\ PlaceOf(Order[k]) = k
      /\ \A n \in Nodes : PlaceOf(n) = k => n = Order[k]
  BY OnePlace DEF Begun
<1>2. Unbegun(res, k + 1)
  <2>1. \A n \in Nodes : PlaceOf(n) >= k + 1 => PlaceOf(n) > k /\ ~(PlaceOf(n) < k)
    BY <1>1, PlacesTyped
  <2> QED BY <2>1 DEF Unbegun, Begun, Placed, Behind
<1>3. ASSUME NEW n \in Nodes, PlaceOf(n) < k + 1
      PROVE  /\ res[n] \notin {"pending", "running", "waiting"}
             /\ KindOf[n] # "trigger" => (res[n] # "skipped" <=> Fed(n, res))
  <2>1. CASE PlaceOf(n) < k
    BY <2>1 DEF Begun, Placed, Behind
  <2>2. CASE PlaceOf(n) = k
    BY <1>1, <2>2 DEF Begun, Settled
  <2> QED BY <1>1, <1>3, <2>1, <2>2, PlacesTyped
<1>4. \A n \in Nodes : PlaceOf(n) > k + 1 => res[n] = "pending"
  <2>1. \A n \in Nodes : PlaceOf(n) > k + 1 => PlaceOf(n) >= k + 1
    BY <1>1, PlacesTyped
  <2> QED BY <1>2, <2>1 DEF Unbegun
<1>5. k + 1 \in 1 .. Len(Order) + 1
  BY <1>1, Places
<1> QED BY <1>2, <1>3, <1>4, <1>5 DEF Begun, Placed, Behind

\* Where the loop of walk comes to a halt, the run keeps to the graph.
LEMMA WalkOnPath ==
  ASSUME NEW o \in Objects, NEW i \in 1 .. Len(Order) + 1, Placed(o.res, i), Unbegun(o.res, i)
  PROVE  OnPath(Walk(o, i))
<1> DEFINE next == NextPlace(o, i)
           passed == PassedTo(o.res, next)
           here == [o EXCEPT !.res = PassedTo(@, next)]
<1>0. o.res \in [Nodes -> Results] /\ o.aborted \in BOOLEAN /\ Len(Order) \in Nat
  BY Places DEF Objects
<1>1. next \in 1 .. Len(Order) + 1
  BY NextPlaceWithin
<1>2. /\ passed \in [Nodes -> Results] /\ Placed(passed, next)
      /\ next <= Len(Order) => Begun(passed, next)
  BY <1>0, PassedIsPlaced
<1> HIDE DEF passed, next
<1>3. here = [o EXCEPT !.res = passed] /\ here.res = passed /\ here \in Objects
  BY <1>2 DEF Objects, passed
<1>4. CASE o.aborted /\ i <= Len(Order)
  <2>1. Walk(o, i) = Pauses(o, i, "stopped", "leave")
    BY <1>4 DEF Walk
  <2>2. /\ Walk(o, i).res = o.res /\ Walk(o, i).at = i
        /\ Walk(o, i).status = "stopped" /\ Walk(o, i).then = "leave"
    BY <2>1 DEF Pauses, Objects
  <2> QED BY <2>2 DEF OnPath
<1>5. CASE ~(o.aborted /\ i <= Len(Order)) /\ next > Len(Order)
  <2>1. Walk(o, i) = Pauses(here, next, "complete", "leave")
    BY <1>5 DEF Walk, next
  <2>2. /\ Walk(o, i).res = passed /\ Walk(o, i).at = next
        /\ Walk(o, i).status = "complete" /\ Walk(o, i).then = "leave"
    BY <1>3, <2>1 DEF Pauses, Objects
  <2> QED BY <1>2, <1>5, <2>2 DEF OnPath
<1>6. ASSUME NEW v \in Results, next <= Len(Order), v \notin {"done", "yes", "no"}
      PROVE  LET h == [here EXCEPT !.res[Order[next]] = v] IN
             /\ h.res[Order[next]] = v /\ Begun(h.res, next) /\ h \in Objects
  <2>0. Order[next] \in Nodes
    BY <1>1, <1>6, Places
  <2>1. PICK new : new = [passed EXCEPT ![Order[next]] = v]
    OBVIOUS
  <2>2. Begun(new, next) /\ new \in [Nodes -> Results] /\ new[Order[next]] = v
    <3>1. passed \in [Nodes -> Results] /\ Begun(passed, next)
      BY <1>2, <1>6
    <3>2. v \in Results /\ Fits(Order[next], v)
      BY <1>6 DEF Fits
    <3>3. new = [passed EXCEPT ![Order[next]] = v]
      BY <2>1
    <3> HIDE DEF here
    <3>4. Begun(new, next) /\ new \in [Nodes -> Results]
      BY <3>1, <3>2, <3>3, SetHere, Zenon
    <3>5. new[Order[next]] = v
      BY <2>0, <3>1, <3>3
    <3> QED BY <3>4, <3>5
  <2>3. [here EXCEPT !.res[Order[next]] = v] = [here EXCEPT !.res = new]
    BY <1>3, <2>1 DEF Objects
  <2>4. [here EXCEPT !.res = new].res = new /\ [here EXCEPT !.res = new] \in Objects
    BY <1>3, <2>2 DEF Objects
  <2> QED BY <2>2, <2>3, <2>4
<1>7. CASE /\ ~(o.aborted /\ i <= Len(Order)) /\ ~(next > Len(Order))
           /\ KindOf[Order[next]] = "review"
  <2> DEFINE h == [here EXCEPT !.res[Order[next]] = "waiting"]
  <2>1. Walk(o, i) = Pauses(h, next, "awaiting_review", "leave")
    BY <1>7 DEF Walk, next
  <2>2. next <= Len(Order) /\ "waiting" \in Results
    BY <1>0, <1>1, <1>7 DEF Results
  <2>3. h.res[Order[next]] = "waiting" /\ Begun(h.res, next) /\ h \in Objects
    BY <1>6, <2>2
  <2> HIDE DEF h
  <2>4. /\ Walk(o, i).res = h.res /\ Walk(o, i).at = next
        /\ Walk(o, i).status = "awaiting_review" /\ Walk(o, i).then = "leave"
    BY <2>1, <2>3 DEF Pauses, Objects
  <2>5. WaitsAt(h.res, next) /\ Placed(h.res, next)
    BY <1>7, <2>3 DEF WaitsAt, Begun
  <2> QED BY <2>4, <2>5 DEF OnPath
<1>8. CASE /\ ~(o.aborted /\ i <= Len(Order)) /\ ~(next > Len(Order))
           /\ KindOf[Order[next]] # "review"
  <2> DEFINE h == [here EXCEPT !.res[Order[next]] = "running"]
  <2>1. Walk(o, i) = Pauses(h, next, "running", "step")
    BY <1>8 DEF Walk, next
  <2>2. next <= Len(Order) /\ "running" \in Results
    BY <1>0, <1>1, <1>8 DEF Results
  <2>3. Begun(h.res, next) /\ h \in Objects
    BY <1>6, <2>2
  <2> HIDE DEF h
  <2>4. /\ Walk(o, i).res = h.res /\ Walk(o, i).at = next
        /\ Walk(o, i).status = "running" /\ Walk(o, i).then = "step"
    BY <2>1, <2>3 DEF Pauses, Objects
  <2>5. Placed(h.res, next)
    BY <2>3 DEF Begun
  <2> QED BY <2>3, <2>4, <2>5 DEF OnPath
<1> QED BY <1>4, <1>5, <1>7, <1>8

\* The steps of the objects keep to the path.
LEMMA StepEndsOnPath ==
  ASSUME RunsTypeOK, AllSound, NEW w \in Walkers, NEW end \in Results, OnPath(run[w]), StepEnds(w, end)
  PROVE  OnPath(run'[w])
<1> DEFINE o == run[w]
           n == Order[o.at]
<1>1. /\ run \in [Walkers -> Objects] /\ o \in Objects /\ o.res \in [Nodes -> Results]
      /\ o.then = "step" /\ o.id # NoRun /\ o.at \in 1 .. Len(Order) + 1
  <2>1. run \in [Walkers -> Objects] /\ o \in Objects /\ Sound(o) /\ o.pc = "step"
    BY DEF RunsTypeOK, Objects, PCs, Thens, AllSound, StepEnds, At
  <2> QED BY <2>1 DEF Sound, Objects, Runs, NoRun
<1>2. Begun(o.res, o.at)
  BY <1>1 DEF OnPath
<1>3. n \in Nodes
  BY <1>2, Places DEF Begun
<1>4. IF KindOf[n] = "branch" THEN end \in {"yes", "no"} ELSE end \in {"done", "failed"}
  BY DEF StepEnds
<1>5. PICK new : new = [o.res EXCEPT ![n] = end]
  OBVIOUS
<1>6. Begun(new, o.at) /\ new \in [Nodes -> Results] /\ new[n] = end
  <2>1. end \in Results /\ Fits(n, end)
    BY <1>4 DEF Fits
  <2>2. Begun(o.res, o.at) /\ o.res \in [Nodes -> Results] /\ new = [o.res EXCEPT ![Order[o.at]] = end] /\ Fits(Order[o.at], end)
    BY <1>1, <1>2, <1>5, <2>1
  <2> HIDE DEF o, n
  <2>3. Begun(new, o.at) /\ new \in [Nodes -> Results]
    BY <2>1, <2>2, SetHere, Zenon
  <2>4. new[n] = end
    BY <1>1, <1>3, <1>5
  <2> QED BY <2>3, <2>4
<1> DEFINE ended == [o EXCEPT !.res[n] = end]
<1>7. ended \in Objects /\ ended.res = new /\ ended.at = o.at
  BY <1>1, <1>3, <1>5, <1>6 DEF Objects
<1>8. CASE end = "failed"
  <2>1. run'[w] = Pauses(ended, o.at, IF o.aborted THEN "stopped" ELSE "failed", "leave")
    BY <1>1, <1>8 DEF StepEnds
  <2> HIDE DEF ended
  <2>2. /\ run'[w].res = new /\ run'[w].at = o.at
        /\ run'[w].status \in {"stopped", "failed"} /\ run'[w].then = "leave"
    BY <1>7, <2>1 DEF Pauses, Objects
  <2> QED BY <1>6, <2>2 DEF OnPath, Begun
<1>9. CASE end # "failed"
  <2>1. run'[w] = Walk(ended, o.at + 1)
    BY <1>1, <1>9 DEF StepEnds
  <2>2. Placed(new, o.at + 1) /\ Unbegun(new, o.at + 1) /\ o.at + 1 \in 1 .. Len(Order) + 1
    BY <1>4, <1>6, <1>9, PassOn DEF Settled
  <2> HIDE DEF ended, o
  <2> QED BY <1>7, <2>1, <2>2, WalkOnPath
<1> QED BY <1>8, <1>9

LEMMA NotStartedOnPath ==
  ASSUME NEW o, o.id = NoRun
  PROVE  OnPath(o)
BY DEF OnPath

\* An object that keeps its place and its results keeps to the path.
LEMMA SamePath ==
  ASSUME NEW o, NEW p, OnPath(o), p.id = o.id, p.res = o.res, p.at = o.at,
         p.then = o.then, p.status = o.status
  PROVE  OnPath(p)
BY DEF OnPath

\* A run begins before all nodes.
LEMMA InsertOnPath ==
  ASSUME RunsTypeOK, AllSound, NEW w \in Walkers, NEW r \in Runs, InsertRow(w, r)
  PROVE  run'[w].at = 1 => OnPath(run'[w])
<1> SUFFICES ASSUME run'[w].at = 1 PROVE OnPath(run'[w])
  OBVIOUS
<1>1. \A n \in Nodes : run'[w].res[n] = "pending"
  BY InsertRowMoves
<1>2. Placed(run'[w].res, 1) /\ Unbegun(run'[w].res, 1)
  BY <1>1, PlacesTyped DEF Placed, Behind, Ways, Fits, Unbegun
<1>3. run'[w].then = "track" /\ run'[w].status = "running"
  <2>1. run \in [Walkers -> Objects] /\ Sound(run[w]) /\ run[w].pc = "insert"
    BY DEF RunsTypeOK, Objects, PCs, Thens, AllSound, InsertRow, At
  <2>2. run'[w].then = run[w].then /\ run'[w].status = run[w].status
    BY <2>1 DEF InsertRow, Objects
  <2> QED BY <2>1, <2>2 DEF Sound
<1> QED BY <1>2, <1>3 DEF OnPath

\* The object that an answer makes goes on behind the review, or has failed there.
LEMMA AnswerOnPath ==
  ASSUME RunsTypeOK, AllSound, NEW w \in Walkers, NEW r \in Runs, NEW yes \in BOOLEAN,
         Answer(w, r, yes), OneWaits(row[r].res), NEW k, WaitsAt(row[r].res, k)
  PROVE  OnPath(run'[w])
<1> DEFINE res == row[r].res
           n == CHOOSE n \in Waiting(res) : \A m \in Waiting(res) : PlaceOf(n) <= PlaceOf(m)
           at == PlaceOf(n)
           o == [Free EXCEPT !.pc = "window", !.id = r, !.at = at, !.res = res]
<1>1. run \in [Walkers -> Objects] /\ res \in [Nodes -> Results]
  BY DEF RunsTypeOK, Objects, PCs, Thens
<1>2. /\ k \in 1 .. Len(Order) /\ Order[k] \in Nodes /\ PlaceOf(Order[k]) = k
      /\ res[Order[k]] = "waiting" /\ KindOf[Order[k]] = "review" /\ Begun(res, k)
  BY OnePlace DEF WaitsAt, Begun
<1>3. n = Order[k]
  <2>1. Waiting(res) = {Order[k]}
    BY <1>2 DEF Waiting, OneWaits
  <2>2. PlaceOf(Order[k]) <= PlaceOf(Order[k])
    BY <1>2
  <2> QED BY <2>1, <2>2
<1>4. at = k
  BY <1>2, <1>3
<1> HIDE DEF n, at
<1>5. o \in [pc : {"window"}, id : {r}, at : {k}, res : [Nodes -> Results], status : {"running"},
             aborted : BOOLEAN, then : {"track"}] /\ o.res = res
  BY <1>1, <1>4 DEF Free
<1>6. PICK v : v = IF yes THEN "done" ELSE "failed"
  OBVIOUS
<1>7. PICK new : new = [res EXCEPT ![Order[k]] = v]
  OBVIOUS
<1>8. Begun(new, k) /\ new \in [Nodes -> Results] /\ new[Order[k]] = v
  <2>1. v \in Results /\ Fits(Order[k], v)
    BY <1>2, <1>6 DEF Results, Settled, Fits
  <2> HIDE DEF res
  <2>2. Begun(new, k) /\ new \in [Nodes -> Results]
    BY <1>1, <1>2, <1>7, <2>1, SetHere
  <2> QED BY <1>1, <1>2, <1>7, <2>2
<1>9. CASE yes
  <2>1. run'[w] = [o EXCEPT !.at = at + 1, !.res[Order[at]] = "done"]
    BY <1>1, <1>9 DEF Answer, n, at
  <2> HIDE DEF o
  <2>2. /\ run'[w].res = new /\ run'[w].at = k + 1
        /\ run'[w].status = "running" /\ run'[w].then = "track"
    BY <1>4, <1>5, <1>6, <1>7, <1>9, <2>1
  <2>3. Placed(new, k + 1) /\ Unbegun(new, k + 1)
    BY <1>6, <1>8, <1>9, PassOn DEF Settled
  <2> QED BY <2>2, <2>3 DEF OnPath
<1>10. CASE ~yes
  <2>1. run'[w] = [o EXCEPT !.res[Order[at]] = "failed", !.status = "stopped", !.then = "reply"]
    BY <1>1, <1>10 DEF Answer, n, at
  <2> HIDE DEF o
  <2>2. /\ run'[w].res = new /\ run'[w].at = k
        /\ run'[w].status = "stopped" /\ run'[w].then = "reply"
    BY <1>4, <1>5, <1>6, <1>7, <1>10, <2>1
  <2> QED BY <1>8, <2>2 DEF OnPath, Begun
<1> QED BY <1>9, <1>10

\* Every step of the runs keeps to the path.
LEMMA MoveKeepsPath ==
  ASSUME RunsTypeOK, PathInv, NEW w \in Walkers, MovesTo(w, run'[w]), OnPath(run'[w]),
         \A r \in Runs : row'[r].status = "awaiting_review" => row'[r] = row[r]
  PROVE  PathInv'
<1>1. \A v \in Walkers : v # w => run'[v] = run[v]
  BY DEF MovesTo, RunsTypeOK
<1>2. \A v \in Walkers : OnPath(run'[v])
  BY <1>1 DEF PathInv
<1>3. \A r \in Runs : row'[r].status = "awaiting_review" =>
        \E k \in 1 .. Len(Order) : WaitsAt(row'[r].res, k)
  BY DEF PathInv
<1> QED BY <1>2, <1>3 DEF PathInv, OnPath, WaitsAt, Begun, Placed, Unbegun, Ways, Fits

LEMMA PublishRowKeepsPath ==
  ASSUME RunsTypeOK, AllSound, PathInv, NEW w \in Walkers, PublishRow(w)
  PROVE  PathInv'
<1> DEFINE o == run[w]
<1>1. /\ o \in Objects /\ Sound(o) /\ OnPath(o) /\ o.id \in Runs /\ o.id # NoRun
      /\ o.pc = "row" /\ run \in [Walkers -> Objects]
      /\ (row' = row \/ row' = Written(w)) /\ MovesTo(w, run'[w])
  <2>1. o \in Objects /\ Sound(o) /\ OnPath(o)
    BY DEF AllSound, PathInv
  <2>2. o.id \in Runs /\ o.pc = "row" /\ MovesTo(w, run'[w])
    BY PublishRowMoves
  <2>3. o.id # NoRun
    BY <2>2 DEF Runs, NoRun
  <2>4. run \in [Walkers -> Objects]
    BY DEF RunsTypeOK, Objects, PCs, Thens
  <2>5. row' = row \/ row' = Written(w)
    BY DEF PublishRow
  <2> QED BY <2>1, <2>2, <2>3, <2>4, <2>5
<1>2. OnPath(run'[w])
  <2>1. CASE o.then = "track" /\ Track(w)
    <3>1. run'[w] = Walk(o, o.at)
      BY <1>1, <2>1 DEF Track
    <3>2. Placed(o.res, o.at) /\ Unbegun(o.res, o.at) /\ o.at \in 1 .. Len(Order) + 1
      BY <1>1, <2>1 DEF OnPath, Objects
    <3> QED BY <1>1, <3>1, <3>2, WalkOnPath
  <2>2. CASE run'[w] = [o EXCEPT !.pc = "step"]
    <3>1. /\ run'[w].id = o.id /\ run'[w].res = o.res /\ run'[w].at = o.at
          /\ run'[w].then = o.then /\ run'[w].status = o.status
      BY <1>1, <2>2 DEF Objects
    <3> QED BY <1>1, <3>1, SamePath
  <2>3. CASE run'[w] = Free
    BY <2>3, NotStartedOnPath DEF Free
  <2> QED BY <2>1, <2>2, <2>3, PublishRowMoves
<1>3. \A v \in Walkers : OnPath(run'[v])
  <2>1. \A v \in Walkers : v # w => run'[v] = run[v]
    BY <1>1 DEF MovesTo
  <2> QED BY <1>2, <2>1 DEF PathInv
<1>4. ASSUME NEW r \in Runs, row'[r].status = "awaiting_review"
      PROVE  \E k \in 1 .. Len(Order) : WaitsAt(row'[r].res, k)
  <2>1. CASE row'[r] = row[r]
    BY <1>4, <2>1 DEF PathInv
  <2>2. CASE row' = Written(w) /\ r = o.id
    <3>1. o.status = "awaiting_review" /\ row'[r].res = o.res
      BY <1>4, <2>2 DEF Written, RunsTypeOK, Kept, Over
    <3>2. WaitsAt(o.res, o.at) /\ o.at \in 1 .. Len(Order)
      BY <1>1, <3>1 DEF OnPath, WaitsAt, Begun
    <3> QED BY <3>1, <3>2
  <2> QED BY <1>1, <2>1, <2>2 DEF Written, RunsTypeOK
<1> QED BY <1>3, <1>4 DEF PathInv, OnPath, WaitsAt, Begun, Placed, Unbegun, Ways, Fits

\* A run object that was not tracked yet stands at the first place until an answer moves it.
StartsFirst == \A w \in Walkers : run[w].pc \in {"free", "copy", "insert"} => run[w].at = 1

LEMMA FirstKept ==
  ASSUME RunsTypeOK, AllSound, ReviewsInv, StartsFirst, RunsStep
  PROVE  StartsFirst'
<1>1. run \in [Walkers -> Objects] /\ Free.at = 1 /\ [Free EXCEPT !.pc = "copy"].at = 1
  BY DEF RunsTypeOK, Objects, PCs, Thens, Free
<1>2. ASSUME NEW w \in Walkers, MovesTo(w, run'[w]),
             run'[w].pc \in {"free", "copy", "insert"} => run'[w].at = 1
      PROVE  StartsFirst'
  BY <1>1, <1>2 DEF MovesTo, StartsFirst
<1>3. ASSUME NEW w \in Walkers, Starts(w) \/ InsertFails(w) PROVE StartsFirst'
  BY <1>1, <1>2, <1>3, StartsMoves, InsertFailsMoves
<1>4. ASSUME NEW w \in Walkers, CopyRead(w) PROVE StartsFirst'
  <2>1. run'[w].at = 1
    BY <1>1, <1>4 DEF CopyRead, StartsFirst, At, Objects
  <2> QED BY <1>2, <1>4, <2>1, CopyReadMoves
<1>5. ASSUME NEW w \in Walkers, PublishWindow(w) PROVE StartsFirst'
  <2>1. run'[w].pc = "row"
    <3>1. run'[w] = [run[w] EXCEPT !.pc = "row"]
      BY <1>5, PublishWindowMoves
    <3>2. run[w] \in Objects
      BY <1>1
    <3> QED BY <3>1, <3>2 DEF Objects
  <2> QED BY <1>2, <1>5, <2>1, PublishWindowMoves
<1>6. ASSUME NEW w \in Walkers, PublishRow(w) PROVE StartsFirst'
  <2>1. run'[w].pc \in {"window", "step"} \/ run'[w] = Free
    BY <1>1, <1>6, PublishRowMoves DEF Objects, GoesOn
  <2> QED BY <1>1, <1>2, <1>6, <2>1, PublishRowMoves
<1>7. ASSUME NEW w \in Walkers, NEW r \in Runs, InsertRow(w, r) PROVE StartsFirst'
  BY <1>2, <1>7, InsertRowMoves
<1>8. ASSUME NEW w \in Walkers, NEW r \in Runs, NEW yes \in BOOLEAN, Answer(w, r, yes) PROVE StartsFirst'
  <2>1. OneWaits(row[r].res)
    BY <1>8 DEF Answer, ReviewsInv
  <2> QED BY <1>2, <1>8, <2>1, AnswerMoves
<1>9. ASSUME NEW w \in Walkers, NEW end \in Results, StepEnds(w, end) PROVE StartsFirst'
  BY <1>2, <1>9, StepEndsMoves DEF GoesOn
<1>10. CASE Stop
  BY <1>10, StopMoves DEF StartsFirst
<1>11. CASE run' = run
  BY <1>11 DEF StartsFirst
<1>12. CASE RunsCrash
  BY <1>1, <1>12 DEF RunsCrash, StartsFirst
<1> QED BY <1>3, <1>4, <1>5, <1>6, <1>7, <1>8, <1>9, <1>10, <1>11, <1>12, NextCases
        DEF StopLooks, StopShows, StopWrites, DeleteWindow, Bothered

LEMMA PathKept ==
  ASSUME RunsTypeOK, AllSound, ReviewsInv, StartsFirst, PathInv, RunsStep
  PROVE  PathInv'
<1>0. run \in [Walkers -> Objects] /\ \A w \in Walkers : OnPath(run[w]) /\ Sound(run[w])
  BY DEF RunsTypeOK, Objects, PCs, Thens, PathInv, AllSound
<1>1. ASSUME NEW w \in Walkers, Starts(w) \/ CopyRead(w) \/ InsertFails(w) PROVE PathInv'
  <2>1. MovesTo(w, run'[w]) /\ run'[w].id = NoRun
    BY <1>1, StartsMoves, CopyReadMoves, InsertFailsMoves DEF Free, MovesTo, Sound
  <2>2. row' = row
    BY <1>1 DEF Starts, CopyRead, InsertFails
  <2> QED BY <2>1, <2>2, NotStartedOnPath, MoveKeepsPath
<1>2. ASSUME NEW w \in Walkers, PublishWindow(w) PROVE PathInv'
  <2>1. /\ run'[w].id = run[w].id /\ run'[w].res = run[w].res /\ run'[w].at = run[w].at
        /\ run'[w].then = run[w].then /\ run'[w].status = run[w].status
    <3>1. run'[w] = [run[w] EXCEPT !.pc = "row"]
      BY <1>2, PublishWindowMoves
    <3>2. run[w] \in Objects
      BY <1>0
    <3> QED BY <3>1, <3>2 DEF Objects
  <2>2. OnPath(run'[w])
    BY <1>0, <2>1, SamePath
  <2> QED BY <1>2, <2>2, PublishWindowMoves, MoveKeepsPath DEF PublishWindow
<1>3. ASSUME NEW w \in Walkers, PublishRow(w) PROVE PathInv'
  BY <1>3, PublishRowKeepsPath
<1>4. ASSUME NEW w \in Walkers, NEW r \in Runs, InsertRow(w, r) PROVE PathInv'
  <2>1. run'[w].at = 1
    BY <1>0, <1>4 DEF InsertRow, StartsFirst, At, Objects
  <2>2. OnPath(run'[w])
    BY <1>4, <2>1, InsertOnPath
  <2>3. \A s \in Runs : row'[s].status = "awaiting_review" => row'[s] = row[s]
    BY <1>4 DEF InsertRow, RunsTypeOK
  <2> QED BY <1>4, <2>2, <2>3, InsertRowMoves, MoveKeepsPath
<1>5. ASSUME NEW w \in Walkers, NEW r \in Runs, NEW yes \in BOOLEAN, Answer(w, r, yes) PROVE PathInv'
  <2>1. OneWaits(row[r].res) /\ row[r].status = "awaiting_review" /\ row' = row
    BY <1>5 DEF Answer, ReviewsInv
  <2>2. PICK k \in 1 .. Len(Order) : WaitsAt(row[r].res, k)
    BY <2>1 DEF PathInv
  <2>3. OnPath(run'[w])
    BY <1>5, <2>1, <2>2, AnswerOnPath
  <2> QED BY <1>5, <2>1, <2>3, AnswerMoves, MoveKeepsPath
<1>6. ASSUME NEW w \in Walkers, NEW end \in Results, StepEnds(w, end) PROVE PathInv'
  <2>1. OnPath(run'[w]) /\ row' = row
    BY <1>0, <1>6, StepEndsOnPath DEF StepEnds
  <2> QED BY <1>6, <2>1, StepEndsMoves, MoveKeepsPath
\* Steps that leave the objects where they are.
<1>7. ASSUME \A w \in Walkers : OnPath(run'[w]),
             \A r \in Runs : row'[r].status = "awaiting_review" => row'[r] = row[r]
      PROVE  PathInv'
  <2>1. \A r \in Runs : row'[r].status = "awaiting_review" =>
          \E k \in 1 .. Len(Order) : WaitsAt(row'[r].res, k)
    BY <1>7 DEF PathInv
  <2> QED BY <1>7, <2>1 DEF PathInv, OnPath, WaitsAt, Begun, Placed, Unbegun, Ways, Fits
<1>8. CASE Stop
  <2>1. \A w \in Walkers : OnPath(run'[w])
    BY <1>0, <1>8, StopMoves, SamePath
  <2> QED BY <1>7, <1>8, <2>1 DEF Stop
<1>9. CASE StopLooks \/ StopShows \/ DeleteWindow \/ (\E k \in Trouble : Bothered(k))
  BY <1>0, <1>7, <1>9 DEF StopLooks, StopShows, DeleteWindow, Bothered
<1>10. CASE StopWrites
  <2>1. \A r \in Runs : row'[r].status = "awaiting_review" => row'[r] = row[r]
    BY <1>10 DEF StopWrites, RunsTypeOK, NoRow
  <2> QED BY <1>0, <1>7, <1>10, <2>1 DEF StopWrites
<1>11. CASE RunsCrash
  <2>1. \A w \in Walkers : OnPath(run'[w])
    BY <1>11, NotStartedOnPath DEF RunsCrash, Free
  <2> QED BY <1>7, <1>11, <2>1 DEF RunsCrash
<1> QED BY <1>1, <1>2, <1>3, <1>4, <1>5, <1>6, <1>8, <1>9, <1>10, <1>11, NextCases

\* The path, and where a run starts, beside the invariant of the runs.
FollowsInv == IInv /\ StartsFirst /\ PathInv

LEMMA InitFollows == RunsInit => FollowsInv
<1> SUFFICES ASSUME RunsInit PROVE FollowsInv
  OBVIOUS
<1>1. StartsFirst /\ PathInv
  BY NotStartedOnPath DEF RunsInit, StartsFirst, PathInv, Free, NoRow
<1> QED BY <1>1, InitHolds DEF FollowsInv

LEMMA FollowsKept ==
  ASSUME FollowsInv, RunsStep \/ UNCHANGED runVars
  PROVE  FollowsInv'
<1>1. CASE RunsStep
  BY <1>1, StepKeeps, FirstKept, PathKept DEF FollowsInv, IInv
<1>2. CASE UNCHANGED runVars
  <2>1. UNCHANGED <<run, row>>
    BY <1>2 DEF runVars
  <2>2. StartsFirst'
    BY <2>1 DEF FollowsInv, StartsFirst
  <2>3. PathInv'
    BY <2>1 DEF FollowsInv, PathInv
  <2> QED BY <1>2, <2>2, <2>3, StutterKeeps DEF FollowsInv
<1> QED BY <1>1, <1>2

\* What a run has not begun feeds nothing that it has begun.
LEMMA FollowsImplies == FollowsInv => StepsFollowGraph
<1> SUFFICES ASSUME FollowsInv PROVE StepsFollowGraph
  OBVIOUS
<1>1. ASSUME NEW w \in Walkers, run[w].id # NoRun
      PROVE  /\ Behind(run[w].res, run[w].at)
             /\ run[w].then = "step" =>
                  Fed(Order[run[w].at], run[w].res) /\ Sources(Graph, Order[run[w].at]) \cap
                    {n \in Nodes : run[w].res[n] \in {"pending", "running", "waiting"}} = {}
             /\ run[w].status = "complete" => run[w].at > Len(Order)
  <2> DEFINE o == run[w]
             res == o.res
             k == o.at
  <2>1. OnPath(o)
    BY DEF FollowsInv, PathInv
  <2>2. ASSUME o.then = "step", NEW n \in Sources(Graph, Order[k])
        PROVE  n \in Nodes /\ res[n] \notin {"pending", "running", "waiting"}
    <3>1. Begun(res, k)
      BY <1>1, <2>1, <2>2 DEF OnPath
    <3>2. k \in 1 .. Len(Order) /\ Order[k] \in Nodes /\ PlaceOf(Order[k]) = k
      BY <3>1, OnePlace DEF Begun
    <3>3. n \in Nodes /\ PlaceOf(n) < k
      BY <2>2, <3>2, EdgesGoForward DEF Sources
    <3> QED BY <3>1, <3>3 DEF Begun, Placed, Behind
  <2> QED BY <1>1, <2>1, <2>2 DEF OnPath, Placed, Begun
<1>2. ASSUME NEW r \in Runs, row[r].status = "awaiting_review"
      PROVE  \E k \in 1 .. Len(Order) : Behind(row[r].res, k) /\ row[r].res[Order[k]] = "waiting"
  BY <1>2 DEF FollowsInv, PathInv, WaitsAt, Begun, Placed
<1> QED BY <1>1, <1>2 DEF StepsFollowGraph

\* Every run keeps to its graph, for every graph that may run: nothing begins before what
\* feeds it, and a step runs if and only if something live reached it, also in a run that
\* an answer takes up from its row (walk, runOrder, answerReview).
THEOREM RunsFollowTheirGraph == RunsSpec => []StepsFollowGraph
<1>1. FollowsInv /\ [RunsNext]_runVars => FollowsInv'
  BY FollowsKept DEF RunsStep
<1> QED BY InitFollows, <1>1, FollowsImplies, PTL DEF RunsSpec

\* And beside the triggers.
THEOREM WorkflowsFollowTheirGraph == WorkflowsSpec => []StepsFollowGraph
<1>1. WorkflowsInit => FollowsInv
  BY InitFollows DEF WorkflowsInit
<1>2. FollowsInv /\ [WorkflowsNext]_vars => FollowsInv'
  <2>1. ASSUME FollowsInv, WorkflowsNext PROVE FollowsInv'
    BY <2>1, ComposedSteps, FollowsKept DEF FollowsInv, IInv
  <2>2. ASSUME FollowsInv, UNCHANGED vars PROVE FollowsInv'
    BY <2>2, FollowsKept DEF vars
  <2> QED BY <2>1, <2>2
<1> QED BY <1>1, <1>2, FollowsImplies, PTL DEF WorkflowsSpec
=============================================================================
