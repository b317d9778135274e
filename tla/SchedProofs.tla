----------------------------- MODULE SchedProofs -----------------------------
(***************************************************************************)
(* The scheduler's safety properties, for every set of tasks, tick length  *)
(* and sleep times.                                                        *)
(***************************************************************************)
EXTENDS Sched, FiniteSetTheorems, TLAPS

(***************************************************************************)
(* The list operations of sched.c keep the rings well formed, for every    *)
(* set of tasks.  The argument is first-order because the order in which   *)
(* the members were put on a queue is a relation (ahead), not a sequence.  *)
(***************************************************************************)
\* A well-formed heap of the right type.
Good(r) == r \in Heaps /\ RingOK(r)

\* The zeroed heap is well formed: kern_init starts from it.
LEMMA EmptyGood == Good(EmptyHeap)
<1>1. EmptyHeap \in Heaps
  BY DEF EmptyHeap, Heaps, Queues, Places, TaskPtr
<1>2. OrderOK(EmptyHeap)
  BY DEF EmptyHeap, OrderOK, Before
<1>3. \A q \in Queues : On(EmptyHeap, q) = {}
  BY DEF EmptyHeap, On, Queues
<1>4. HeadOK(EmptyHeap)
  BY <1>3 DEF EmptyHeap, HeadOK, Queues
<1>5. LinksOK(EmptyHeap)
  BY DEF EmptyHeap, LinksOK
<1>6. LenOK(EmptyHeap)
  BY <1>3, FS_EmptySet DEF EmptyHeap, LenOK, Queues
<1> QED
  BY <1>1, <1>2, <1>4, <1>5, <1>6 DEF Good, RingOK

\* The history fields after Enq.
LEMMA EnqLoc ==
    ASSUME NEW r, NEW q, NEW t
    PROVE  /\ Enq(r, q, t).loc = [r.loc EXCEPT ![t] = q]
           /\ Enq(r, q, t).ahead = r.ahead \cup {<<u, t>> : u \in On(r, q)}
  BY DEF Enq, EnqHistory

\* And after Del.
LEMMA DelLoc ==
    ASSUME NEW r, NEW q, NEW t, r.head[q] # NULL
    PROVE  /\ Del(r, q, t).loc = [r.loc EXCEPT ![t] = "none"]
           /\ Del(r, q, t).ahead = {p \in r.ahead : p[1] # t /\ p[2] # t}
  BY DEF Del, DelHistory

(***************************************************************************)
(* Enq of a task that is on no queue.                                      *)
(***************************************************************************)
LEMMA EnqGood ==
    ASSUME NEW r, Good(r), NEW q \in Queues, NEW t \in Tasks,
           r.loc[t] = "none"
    PROVE  Good(Enq(r, q, t))
<1> DEFINE e == Enq(r, q, t)
           h == r.head[q]
           l == r.prev[h]
<1>0. /\ r \in Heaps /\ OrderOK(r) /\ HeadOK(r) /\ LinksOK(r) /\ LenOK(r)
      /\ q # "none" /\ q \in Places
  BY DEF Good, RingOK, Queues, Places
<1>t. /\ r.head \in [Queues -> TaskPtr] /\ r.len \in [Queues -> Int]
      /\ r.next \in [Tasks \cup {Dummy} -> TaskPtr]
      /\ r.prev \in [Tasks -> TaskPtr] /\ r.loc \in [Tasks -> Places]
      /\ r.ahead \in SUBSET (Tasks \X Tasks)
  BY <1>0 DEF Heaps
<1>h. h # NULL => /\ h \in Tasks /\ r.loc[h] = q /\ h # t
                  /\ l \in Tasks /\ r.loc[l] = q /\ l # t /\ r.next[l] = h
  <2> SUFFICES ASSUME h # NULL PROVE /\ h \in Tasks /\ r.loc[h] = q /\ h # t
                  /\ l \in Tasks /\ r.loc[l] = q /\ l # t /\ r.next[l] = h
    OBVIOUS
  <2>1. h \in Tasks
    BY <1>t DEF TaskPtr
  <2>2. r.loc[h] = q
    BY <1>0 DEF HeadOK
  <2> QED
    BY <2>1, <2>2, <1>0 DEF LinksOK
<1>loc. /\ e.loc = [r.loc EXCEPT ![t] = q]
        /\ e.ahead = r.ahead \cup {<<u, t>> : u \in On(r, q)}
  BY EnqLoc
<1>loc2. /\ e.loc[t] = q
         /\ \A u \in Tasks : u # t => e.loc[u] = r.loc[u]
  BY <1>loc, <1>t
<1>bef. \A u, v \in Tasks : Before(e, u, v) <=>
              Before(r, u, v) \/ (v = t /\ r.loc[u] = q)
  BY <1>loc DEF Before, On
<1>nob. \A u \in Tasks : ~Before(r, u, t) /\ ~Before(r, t, u)
  BY <1>0 DEF OrderOK
<1>on. /\ On(e, q) = On(r, q) \cup {t}
       /\ t \notin On(r, q)
       /\ \A p \in Queues : p # q => On(e, p) = On(r, p)
  <2>1. \A u \in Tasks : e.loc[u] = q <=> (r.loc[u] = q \/ u = t)
    BY <1>loc2
  <2>2. \A p \in Queues : p # q => \A u \in Tasks : e.loc[u] = p <=> r.loc[u] = p
    BY <1>loc2, <1>0 DEF Queues
  <2> QED
    BY <2>1, <2>2, <1>0 DEF On
<1>fields. CASE h = NULL
  <2>1. /\ e.head = [r.head EXCEPT ![q] = t]
        /\ e.len = [r.len EXCEPT ![q] = @ + 1]
        /\ e.next = [r.next EXCEPT ![t] = t]
        /\ e.prev = [r.prev EXCEPT ![t] = t]
        /\ e = [head |-> e.head, len |-> e.len, next |-> e.next,
                prev |-> e.prev, loc |-> e.loc, ahead |-> e.ahead]
    BY <1>fields DEF Enq
  <2>2. e \in Heaps
    BY <2>1, <1>t, <1>loc, <1>0 DEF Heaps, TaskPtr, On
  <2>3. On(r, q) = {}
    BY <1>0, <1>fields DEF HeadOK
  <2>4. OrderOK(e)
    BY <2>3, <1>bef, <1>loc2, <1>0, <1>nob DEF OrderOK, On
  <2>5. HeadOK(e)
    <3> SUFFICES ASSUME NEW p \in Queues
                 PROVE  /\ e.head[p] = NULL <=> On(e, p) = {}
                        /\ e.head[p] # NULL =>
                             /\ e.loc[e.head[p]] = p
                             /\ \A u \in On(e, p) : u # e.head[p] => Before(e, e.head[p], u)
      BY DEF HeadOK
    <3>1. CASE p = q
      BY <3>1, <2>1, <2>3, <1>on, <1>loc2, <1>t, TasksAssumption
    <3>2. CASE p # q
      <4>1. e.head[p] = r.head[p] /\ On(e, p) = On(r, p)
        BY <3>2, <2>1, <1>on, <1>t
      <4>2. r.head[p] = NULL <=> On(r, p) = {}
        BY <1>0 DEF HeadOK
      <4>3. r.head[p] # NULL => e.loc[r.head[p]] = p
        BY <1>0, <1>loc2, <1>t, <3>2 DEF HeadOK, TaskPtr, Queues
      <4>4. r.head[p] # NULL => \A u \in On(r, p) : u # r.head[p] => Before(e, r.head[p], u)
        BY <1>0, <1>bef, <1>t DEF HeadOK, TaskPtr, On
      <4> QED BY <4>1, <4>2, <4>3, <4>4
    <3> QED BY <3>1, <3>2
  <2>6. LinksOK(e)
    <3> SUFFICES ASSUME NEW u \in Tasks, e.loc[u] # "none"
                 PROVE  /\ e.next[u] \in Tasks
                        /\ e.prev[u] \in Tasks
                        /\ e.loc[e.prev[u]] = e.loc[u]
                        /\ Follows(e, u, e.next[u])
                        /\ e.prev[e.next[u]] = u
                        /\ e.next[e.prev[u]] = u
      BY DEF LinksOK
    <3>1. CASE u = t
      <4>1. \A w \in Tasks : ~Before(e, t, w)
        BY <1>bef, <1>nob, <2>3, <1>0
      <4>2. e.next[t] = t /\ e.prev[t] = t /\ e.head[q] = t
        BY <2>1, <1>t
      <4> QED
        BY <3>1, <4>1, <4>2, <1>loc2 DEF Follows
    <3>2. CASE u # t
      <4> DEFINE n == r.next[u]
                 b == r.prev[u]
      <4>1. /\ r.loc[u] # "none" /\ e.loc[u] = r.loc[u] /\ r.loc[u] # q
            /\ r.loc[u] \in Queues
        BY <3>2, <1>loc2, <2>3, <1>t DEF On, Places
      <4>2. /\ n \in Tasks /\ b \in Tasks /\ r.loc[b] = r.loc[u]
            /\ Follows(r, u, n) /\ r.prev[n] = u /\ r.next[b] = u
        BY <4>1, <1>0 DEF LinksOK
      <4>3. n # t /\ b # t
        BY <4>2, <4>1, <1>0 DEF Follows
      <4>4. /\ e.next[u] = n /\ e.prev[u] = b /\ e.prev[n] = u /\ e.next[b] = u
            /\ e.head[r.loc[u]] = r.head[r.loc[u]]
        BY <2>1, <4>1, <4>2, <4>3, <3>2, <1>t
      <4>5. Follows(e, u, n)
        BY <4>1, <4>2, <4>3, <4>4, <1>bef, <1>loc2, <1>nob DEF Follows
      <4> QED
        BY <4>1, <4>2, <4>3, <4>4, <4>5, <1>loc2
    <3> QED BY <3>1, <3>2
  <2>7. LenOK(e)
    <3>1. IsFiniteSet(On(r, q))
      BY TasksAssumption, FS_Subset DEF On
    <3>2. Cardinality(On(e, q)) = Cardinality(On(r, q)) + 1
      BY <3>1, <1>on, FS_AddElement
    <3>3. e.len[q] = Cardinality(On(e, q))
      BY <3>2, <1>0, <2>1, <1>t DEF LenOK
    <3>4. \A p \in Queues : p # q => e.len[p] = Cardinality(On(e, p))
      BY <1>on, <1>0, <2>1, <1>t DEF LenOK
    <3> QED
      BY <3>3, <3>4 DEF LenOK
  <2> QED
    BY <2>2, <2>4, <2>5, <2>6, <2>7 DEF Good, RingOK
<1>fields2. CASE h # NULL
  <2>1. /\ e.head = r.head
        /\ e.len = [r.len EXCEPT ![q] = @ + 1]
        /\ e.next = [r.next EXCEPT ![t] = h, ![l] = t]
        /\ e.prev = [r.prev EXCEPT ![t] = l, ![h] = t]
        /\ e = [head |-> e.head, len |-> e.len, next |-> e.next,
                prev |-> e.prev, loc |-> e.loc, ahead |-> e.ahead]
    BY <1>fields2 DEF Enq
  <2>h. /\ h \in Tasks /\ r.loc[h] = q /\ h # t
        /\ l \in Tasks /\ r.loc[l] = q /\ l # t /\ r.next[l] = h
    BY <1>h, <1>fields2
  <2>2. e \in Heaps
    BY <2>1, <2>h, <1>t, <1>loc, <1>0 DEF Heaps, TaskPtr, On
  <2>4. OrderOK(e)
    <3>1. \A u, v \in Tasks : Before(e, u, v) =>
            e.loc[u] = e.loc[v] /\ e.loc[u] # "none" /\ ~Before(e, v, u)
      BY <1>bef, <1>loc2, <1>0, <1>nob DEF OrderOK
    <3>2. \A u, v \in Tasks : e.loc[u] = e.loc[v] /\ e.loc[u] # "none" /\ u # v
              => Before(e, u, v) \/ Before(e, v, u)
      BY <1>bef, <1>loc2, <1>0, <1>nob DEF OrderOK
    <3>3. \A u, v, w \in Tasks :
            Before(e, u, v) /\ Before(e, v, w) => Before(e, u, w)
      BY <1>bef, <1>loc2, <1>0, <1>nob DEF OrderOK
    <3> QED BY <3>1, <3>2, <3>3 DEF OrderOK
  <2>5. HeadOK(e)
    <3> SUFFICES ASSUME NEW p \in Queues
                 PROVE  /\ e.head[p] = NULL <=> On(e, p) = {}
                        /\ e.head[p] # NULL =>
                             /\ e.loc[e.head[p]] = p
                             /\ \A u \in On(e, p) : u # e.head[p] => Before(e, e.head[p], u)
      BY DEF HeadOK
    <3>0. /\ r.head[p] = NULL <=> On(r, p) = {}
          /\ r.head[p] # NULL => /\ r.loc[r.head[p]] = p
                                 /\ r.head[p] \in Tasks
                                 /\ r.head[p] # t
                                 /\ \A u \in On(r, p) : u # r.head[p] => Before(r, r.head[p], u)
      BY <1>0, <1>t DEF HeadOK, TaskPtr, Queues
    <3>1. e.head[p] = NULL <=> On(e, p) = {}
      BY <3>0, <2>1, <1>on, <1>fields2
    <3>2. e.head[p] # NULL => e.loc[e.head[p]] = p
      BY <3>0, <2>1, <1>loc2
    <3>3. e.head[p] # NULL =>
             \A u \in On(e, p) : u # e.head[p] => Before(e, e.head[p], u)
      BY <3>0, <2>1, <1>on, <1>bef, <2>h DEF On
    <3> QED BY <3>1, <3>2, <3>3
  <2>6. LinksOK(e)
    <3> SUFFICES ASSUME NEW u \in Tasks, e.loc[u] # "none"
                 PROVE  /\ e.next[u] \in Tasks
                        /\ e.prev[u] \in Tasks
                        /\ e.loc[e.prev[u]] = e.loc[u]
                        /\ Follows(e, u, e.next[u])
                        /\ e.prev[e.next[u]] = u
                        /\ e.next[e.prev[u]] = u
      BY DEF LinksOK
    <3>n. /\ e.next[t] = h /\ e.next[l] = t /\ e.prev[t] = l /\ e.prev[h] = t
          /\ \A w \in Tasks : w # t /\ w # l => e.next[w] = r.next[w]
          /\ \A w \in Tasks : w # t /\ w # h => e.prev[w] = r.prev[w]
      BY <2>1, <2>h, <1>t
    <3>l. Follows(r, l, h) /\ \A w \in Tasks : ~Before(r, l, w)
      <4>1. Follows(r, l, h)
        BY <1>0, <2>h DEF LinksOK
      <4>2. ~Before(r, l, h)
        BY <1>0, <2>h DEF HeadOK, OrderOK, On
      <4> QED BY <4>1, <4>2 DEF Follows
    <3>1. CASE u = t
      <4>1. \A w \in Tasks : ~Before(e, t, w)
        BY <1>bef, <1>nob, <1>0
      <4>2. Follows(e, t, h)
        BY <4>1, <2>1, <2>h, <1>loc2 DEF Follows
      <4> QED
        BY <3>1, <4>2, <3>n, <1>loc2, <2>h
    <3>2. CASE u = l
      <4>1. Before(e, l, t)
        BY <1>bef, <2>h
      <4>2. \A w \in Tasks : ~(Before(e, l, w) /\ Before(e, w, t))
        BY <1>bef, <3>l, <1>nob, <1>0, <2>h
      <4>3. Follows(e, l, t)
        BY <4>1, <4>2, <1>loc2, <2>h DEF Follows
      <4>4. /\ e.prev[l] \in Tasks /\ e.loc[e.prev[l]] = q
            /\ e.next[e.prev[l]] = l
        <5>1. CASE l = h
          BY <5>1, <3>n, <1>loc2, <2>h, <1>t
        <5>2. CASE l # h
          <6>1. /\ r.prev[l] \in Tasks /\ r.loc[r.prev[l]] = q
                /\ r.next[r.prev[l]] = l /\ r.next[l] = h
            BY <2>h, <1>0 DEF LinksOK
          <6>2. r.prev[l] # t /\ r.prev[l] # l /\ l # t
            BY <5>2, <6>1, <2>h, <1>0, <1>t
          <6>3. e.prev[l] = r.prev[l] /\ e.next[r.prev[l]] = r.next[r.prev[l]]
            BY <5>2, <6>1, <6>2, <3>n, <2>h
          <6> QED BY <6>1, <6>2, <6>3, <1>loc2
        <5> QED BY <5>1, <5>2
      <4> QED
        BY <3>2, <4>3, <4>4, <3>n, <1>loc2, <2>h
    <3>3. CASE u # t /\ u # l
      <4> DEFINE n == r.next[u]
                 b == r.prev[u]
      <4>1. r.loc[u] # "none" /\ e.loc[u] = r.loc[u]
        BY <3>3, <1>loc2
      <4>2. /\ n \in Tasks /\ b \in Tasks /\ r.loc[b] = r.loc[u]
            /\ r.loc[n] = r.loc[u]
            /\ Follows(r, u, n) /\ r.prev[n] = u /\ r.next[b] = u
        BY <4>1, <1>0 DEF LinksOK, Follows
      <4>3. n # t /\ b # t /\ n # h
        BY <4>2, <4>1, <1>0, <3>3
      <4>4. e.next[u] = n /\ e.prev[n] = u
        BY <3>n, <4>2, <4>3, <3>3
      <4>5. e.prev[u] \in Tasks /\ e.loc[e.prev[u]] = r.loc[u] /\ e.next[e.prev[u]] = u
        <5>1. CASE u = h
          BY <5>1, <3>n, <1>loc2, <2>h
        <5>2. CASE u # h
          <6>1. b # l
            BY <5>2, <4>2, <2>h
          <6> QED BY <6>1, <5>2, <3>n, <4>2, <4>3, <3>3, <1>loc2
        <5> QED BY <5>1, <5>2
      <4>6. Follows(e, u, n)
        <5>1. e.head = r.head BY <2>1
        <5>2. CASE Before(r, u, n) /\ \A w \in Tasks : ~(Before(r, u, w) /\ Before(r, w, n))
          BY <5>2, <1>bef, <1>nob, <4>1, <4>2, <4>3, <1>loc2 DEF Follows
        <5>3. CASE n = r.head[r.loc[u]] /\ \A w \in Tasks : ~Before(r, u, w)
          <6>1. r.loc[u] # q
            BY <5>3, <4>3
          <6> QED BY <6>1, <5>1, <5>3, <1>bef, <4>1, <4>2, <4>3, <1>loc2 DEF Follows
        <5> QED BY <5>2, <5>3, <4>2 DEF Follows
      <4> QED
        BY <4>1, <4>2, <4>4, <4>5, <4>6
    <3> QED BY <3>1, <3>2, <3>3
  <2>7. LenOK(e)
    <3>1. IsFiniteSet(On(r, q))
      BY TasksAssumption, FS_Subset DEF On
    <3>2. Cardinality(On(e, q)) = Cardinality(On(r, q)) + 1
      BY <3>1, <1>on, FS_AddElement
    <3>3. e.len[q] = Cardinality(On(e, q))
      BY <3>2, <1>0, <2>1, <1>t DEF LenOK
    <3>4. \A p \in Queues : p # q => e.len[p] = Cardinality(On(e, p))
      BY <1>on, <1>0, <2>1, <1>t DEF LenOK
    <3> QED
      BY <3>3, <3>4 DEF LenOK
  <2> QED
    BY <2>2, <2>4, <2>5, <2>6, <2>7 DEF Good, RingOK
<1> QED BY <1>fields, <1>fields2

(***************************************************************************)
(* The test "next is myself" of the code is the test "alone on the queue". *)
(***************************************************************************)
LEMMA Lone ==
    ASSUME NEW r, Good(r), NEW u \in Tasks, r.loc[u] \in Queues
    PROVE  r.next[u] = u <=> On(r, r.loc[u]) = {u}
<1> DEFINE q == r.loc[u]
           h == r.head[q]
<1>0. /\ r \in Heaps /\ OrderOK(r) /\ HeadOK(r) /\ LinksOK(r)
      /\ q # "none"
  BY DEF Good, RingOK, Queues
<1>1. /\ r.next[u] \in Tasks /\ Follows(r, u, r.next[u])
      /\ r.loc[r.next[u]] = q
  BY <1>0 DEF LinksOK, Follows
<1>2. /\ h # NULL
      /\ \A v \in On(r, q) : v # h => Before(r, h, v)
  BY <1>0 DEF HeadOK, On
<1>3. ASSUME r.next[u] = u PROVE On(r, q) = {u}
  <2>1. ~Before(r, u, u)
    BY <1>0 DEF OrderOK
  <2>2. u = h /\ \A w \in Tasks : ~Before(r, u, w)
    BY <1>1, <1>3, <2>1 DEF Follows
  <2> QED
    BY <2>2, <1>2 DEF On
<1>4. ASSUME On(r, q) = {u} PROVE r.next[u] = u
  BY <1>1, <1>4 DEF On
<1> QED BY <1>3, <1>4

(***************************************************************************)
(* Del of a task that is on the queue it is deleted from.                  *)
(***************************************************************************)
LEMMA DelGood ==
    ASSUME NEW r, Good(r), NEW q \in Queues, NEW t \in Tasks, r.loc[t] = q
    PROVE  Good(Del(r, q, t)) /\ r.head[q] # NULL
<1> DEFINE d == Del(r, q, t)
           h == r.head[q]
           n == r.next[t]
           b == r.prev[t]
<1>0. /\ r \in Heaps /\ OrderOK(r) /\ HeadOK(r) /\ LinksOK(r) /\ LenOK(r)
      /\ q # "none" /\ q \in Places /\ "none" \in Places
  BY DEF Good, RingOK, Queues, Places
<1>t. /\ r.head \in [Queues -> TaskPtr] /\ r.len \in [Queues -> Int]
      /\ r.next \in [Tasks \cup {Dummy} -> TaskPtr]
      /\ r.prev \in [Tasks -> TaskPtr] /\ r.loc \in [Tasks -> Places]
      /\ r.ahead \in SUBSET (Tasks \X Tasks)
  BY <1>0 DEF Heaps
<1>h. /\ h # NULL /\ h \in Tasks /\ r.loc[h] = q
      /\ \A v \in On(r, q) : v # h => Before(r, h, v)
  BY <1>0, <1>t DEF HeadOK, On, TaskPtr
<1>nb. /\ n \in Tasks /\ b \in Tasks /\ r.loc[n] = q /\ r.loc[b] = q
       /\ r.next[b] = t /\ r.prev[n] = t /\ Follows(r, t, n)
  BY <1>0 DEF LinksOK, Follows
<1>loc. /\ d.loc = [r.loc EXCEPT ![t] = "none"]
        /\ d.ahead = {p \in r.ahead : p[1] # t /\ p[2] # t}
  BY <1>h DEF Del, DelHistory
<1>loc2. /\ d.loc[t] = "none"
         /\ \A u \in Tasks : u # t => d.loc[u] = r.loc[u]
  BY <1>loc, <1>t
<1>bef. \A u, v \in Tasks : Before(d, u, v) <=> Before(r, u, v) /\ u # t /\ v # t
  BY <1>loc DEF Before
<1>on. /\ On(d, q) = On(r, q) \ {t}
       /\ t \in On(r, q)
       /\ \A p \in Queues : p # q => On(d, p) = On(r, p)
  <2>1. \A u \in Tasks : d.loc[u] = q <=> (r.loc[u] = q /\ u # t)
    BY <1>loc2, <1>0
  <2>2. \A p \in Queues : p # q => \A u \in Tasks : d.loc[u] = p <=> r.loc[u] = p
    BY <1>loc2, <1>0 DEF Queues
  <2> QED
    BY <2>1, <2>2 DEF On
<1>ord. OrderOK(d)
  <2>1. \A u, v \in Tasks : Before(d, u, v) =>
            d.loc[u] = d.loc[v] /\ d.loc[u] # "none" /\ ~Before(d, v, u)
    BY <1>bef, <1>loc2, <1>0 DEF OrderOK
  <2>2. \A u, v \in Tasks : d.loc[u] = d.loc[v] /\ d.loc[u] # "none" /\ u # v
              => Before(d, u, v) \/ Before(d, v, u)
    BY <1>bef, <1>loc2, <1>0 DEF OrderOK
  <2>3. \A u, v, w \in Tasks :
            Before(d, u, v) /\ Before(d, v, w) => Before(d, u, w)
    BY <1>bef, <1>0 DEF OrderOK
  <2> QED BY <2>1, <2>2, <2>3 DEF OrderOK
<1>len. d.len = [r.len EXCEPT ![q] = @ - 1] => LenOK(d)
  <2> SUFFICES ASSUME d.len = [r.len EXCEPT ![q] = @ - 1] PROVE LenOK(d)
    OBVIOUS
  <2>1. IsFiniteSet(On(r, q))
    BY TasksAssumption, FS_Subset DEF On
  <2>2. Cardinality(On(d, q)) = Cardinality(On(r, q)) - 1
    BY <2>1, <1>on, FS_RemoveElement
  <2>3. d.len[q] = Cardinality(On(d, q))
    BY <2>2, <1>0, <1>t DEF LenOK
  <2>4. \A p \in Queues : p # q => d.len[p] = Cardinality(On(d, p))
    BY <1>on, <1>0, <1>t DEF LenOK
  <2> QED
    BY <2>3, <2>4 DEF LenOK
<1>single. CASE r.next[h] = h
  <2>1. /\ d.head = [r.head EXCEPT ![q] = NULL]
        /\ d.len = [r.len EXCEPT ![q] = @ - 1]
        /\ d.next = r.next /\ d.prev = r.prev
        /\ d = [head |-> d.head, len |-> d.len, next |-> d.next,
                prev |-> d.prev, loc |-> d.loc, ahead |-> d.ahead]
    BY <1>single, <1>h DEF Del
  <2>2. On(r, q) = {h}
    BY Lone, <1>single, <1>h
  <2>3. h = t /\ On(d, q) = {}
    BY <2>2, <1>on
  <2>4. d \in Heaps
    BY <2>1, <1>t, <1>loc, <1>0 DEF Heaps, TaskPtr
  <2>5. HeadOK(d)
    <3> SUFFICES ASSUME NEW p \in Queues
                 PROVE  /\ d.head[p] = NULL <=> On(d, p) = {}
                        /\ d.head[p] # NULL =>
                             /\ d.loc[d.head[p]] = p
                             /\ \A u \in On(d, p) : u # d.head[p] => Before(d, d.head[p], u)
      BY DEF HeadOK
    <3>1. CASE p = q
      BY <3>1, <2>1, <2>3, <1>t
    <3>2. CASE p # q
      <4>1. d.head[p] = r.head[p] /\ On(d, p) = On(r, p)
        BY <3>2, <2>1, <1>on, <1>t
      <4>2. r.head[p] = NULL <=> On(r, p) = {}
        BY <1>0 DEF HeadOK
      <4>3. r.head[p] # NULL => d.loc[r.head[p]] = p /\ r.head[p] \in Tasks
        BY <1>0, <1>loc2, <1>t, <3>2 DEF HeadOK, TaskPtr
      <4>4. r.head[p] # NULL => \A u \in On(r, p) : u # r.head[p] => Before(d, r.head[p], u)
        BY <1>0, <1>bef, <1>t, <3>2, <4>3, <1>loc2 DEF HeadOK, TaskPtr, On
      <4> QED BY <4>1, <4>2, <4>3, <4>4
    <3> QED BY <3>1, <3>2
  <2>6. LinksOK(d)
    <3> SUFFICES ASSUME NEW u \in Tasks, d.loc[u] # "none"
                 PROVE  /\ d.next[u] \in Tasks
                        /\ d.prev[u] \in Tasks
                        /\ d.loc[d.prev[u]] = d.loc[u]
                        /\ Follows(d, u, d.next[u])
                        /\ d.prev[d.next[u]] = u
                        /\ d.next[d.prev[u]] = u
      BY DEF LinksOK
    <3>1. /\ u # t /\ r.loc[u] # "none" /\ d.loc[u] = r.loc[u] /\ r.loc[u] # q
          /\ r.loc[u] \in Queues
      BY <1>loc2, <2>2, <2>3, <1>t DEF On, Places
    <3> DEFINE m == r.next[u]
               a == r.prev[u]
    <3>2. /\ m \in Tasks /\ a \in Tasks /\ r.loc[a] = r.loc[u]
          /\ Follows(r, u, m) /\ r.prev[m] = u /\ r.next[a] = u
      BY <3>1, <1>0 DEF LinksOK
    <3>3. m # t /\ a # t
      BY <3>1, <3>2 DEF Follows
    <3>4. d.head[r.loc[u]] = r.head[r.loc[u]]
      BY <2>1, <3>1, <1>t
    <3>5. Follows(d, u, m)
      BY <3>1, <3>2, <3>3, <3>4, <1>bef, <1>loc2 DEF Follows
    <3> QED
      BY <3>1, <3>2, <3>3, <3>5, <2>1, <1>loc2
  <2> QED
    BY <2>1, <2>4, <2>5, <2>6, <1>ord, <1>len, <1>h DEF Good, RingOK
<1>several. CASE r.next[h] # h
  <2>1. /\ d.head = [r.head EXCEPT ![q] = IF h = t THEN r.next[h] ELSE h]
        /\ d.len = [r.len EXCEPT ![q] = @ - 1]
        /\ d.next = [r.next EXCEPT ![b] = n]
        /\ d.prev = [r.prev EXCEPT ![n] = b]
        /\ d = [head |-> d.head, len |-> d.len, next |-> d.next,
                prev |-> d.prev, loc |-> d.loc, ahead |-> d.ahead]
    BY <1>several, <1>h DEF Del
  <2>n. n # t /\ b # t
    <3>1. On(r, q) # {t}
      BY Lone, <1>several, <1>h DEF On
    <3>2. n # t
      BY Lone, <3>1
    <3> QED BY <3>2, <1>nb
  <2> DEFINE g == IF h = t THEN n ELSE h
  <2>g. /\ g \in Tasks /\ g # t /\ r.loc[g] = q /\ d.head[q] = g
    BY <2>1, <2>n, <1>h, <1>nb, <1>t
  <2>g2. \A u \in On(r, q) : u # t /\ u # g => Before(r, g, u)
    <3>1. CASE h = t
      <4>1. Before(r, t, n) /\ \A w \in Tasks : ~(Before(r, t, w) /\ Before(r, w, n))
        BY <3>1, <1>nb, <1>h, <2>n DEF Follows, On
      <4> QED
        BY <3>1, <4>1, <1>h, <1>0, <1>nb DEF OrderOK, On
    <3>2. CASE h # t
      BY <3>2, <1>h
    <3> QED BY <3>1, <3>2
  <2>4. d \in Heaps
    BY <2>1, <2>n, <1>nb, <1>h, <1>t, <1>loc, <1>0 DEF Heaps, TaskPtr
  <2>5. HeadOK(d)
    <3> SUFFICES ASSUME NEW p \in Queues
                 PROVE  /\ d.head[p] = NULL <=> On(d, p) = {}
                        /\ d.head[p] # NULL =>
                             /\ d.loc[d.head[p]] = p
                             /\ \A u \in On(d, p) : u # d.head[p] => Before(d, d.head[p], u)
      BY DEF HeadOK
    <3>1. CASE p = q
      <4>1. g \in On(d, q) /\ d.loc[g] = q
        BY <2>g, <1>on, <1>loc2 DEF On
      <4>2. \A u \in On(d, q) : u # g => Before(d, g, u)
        BY <2>g, <2>g2, <1>on, <1>bef DEF On
      <4> QED BY <3>1, <4>1, <4>2, <2>g, TasksAssumption
    <3>2. CASE p # q
      <4>1. d.head[p] = r.head[p] /\ On(d, p) = On(r, p)
        BY <3>2, <2>1, <1>on, <1>t
      <4>2. r.head[p] = NULL <=> On(r, p) = {}
        BY <1>0 DEF HeadOK
      <4>3. r.head[p] # NULL => d.loc[r.head[p]] = p /\ r.head[p] \in Tasks
        BY <1>0, <1>loc2, <1>t, <3>2 DEF HeadOK, TaskPtr
      <4>4. r.head[p] # NULL => \A u \in On(r, p) : u # r.head[p] => Before(d, r.head[p], u)
        BY <1>0, <1>bef, <1>t, <3>2, <4>3, <1>loc2 DEF HeadOK, TaskPtr, On
      <4> QED BY <4>1, <4>2, <4>3, <4>4
    <3> QED BY <3>1, <3>2
  <2>6. LinksOK(d)
    <3> SUFFICES ASSUME NEW u \in Tasks, d.loc[u] # "none"
                 PROVE  /\ d.next[u] \in Tasks
                        /\ d.prev[u] \in Tasks
                        /\ d.loc[d.prev[u]] = d.loc[u]
                        /\ Follows(d, u, d.next[u])
                        /\ d.prev[d.next[u]] = u
                        /\ d.next[d.prev[u]] = u
      BY DEF LinksOK
    <3>1. u # t /\ r.loc[u] # "none" /\ d.loc[u] = r.loc[u] /\ r.loc[u] \in Queues
      BY <1>loc2, <1>t DEF Places
    <3>n. /\ d.next[b] = n /\ d.prev[n] = b
          /\ \A w \in Tasks : w # b => d.next[w] = r.next[w]
          /\ \A w \in Tasks : w # n => d.prev[w] = r.prev[w]
      BY <2>1, <1>nb, <1>t
    <3> DEFINE m == r.next[u]
               a == r.prev[u]
    <3>2. /\ m \in Tasks /\ a \in Tasks /\ r.loc[a] = r.loc[u]
          /\ r.loc[m] = r.loc[u]
          /\ Follows(r, u, m) /\ r.prev[m] = u /\ r.next[a] = u
      BY <3>1, <1>0 DEF LinksOK, Follows
    <3>p. /\ d.prev[u] \in Tasks /\ d.loc[d.prev[u]] = r.loc[u]
          /\ d.next[d.prev[u]] = u
      <4>1. CASE u = n
        BY <4>1, <3>n, <1>nb, <2>n, <1>loc2
      <4>2. CASE u # n
        <5>1. a # t
          BY <4>2, <3>2
        <5>2. a # b
          BY <3>2, <1>nb, <3>1
        <5> QED BY <4>2, <5>1, <5>2, <3>n, <3>2, <1>loc2
      <4> QED BY <4>1, <4>2
    <3>3. CASE u = b
      <4>1. /\ d.next[u] = n /\ d.prev[n] = u /\ n \in Tasks /\ m = t
        BY <3>3, <3>n, <1>nb
      <4>2. d.loc[n] = d.loc[u]
        BY <3>3, <3>1, <1>nb, <2>n, <1>loc2
      <4>3. Follows(d, u, n)
        <5>1. CASE Before(r, u, t)
          <6>1. \A w \in Tasks : ~(Before(r, u, w) /\ Before(r, w, t))
            BY <5>1, <3>2, <4>1, <1>0, <1>h DEF Follows, OrderOK, On
          <6>2. CASE Before(r, t, n)
            <7>1. \A w \in Tasks : ~(Before(r, t, w) /\ Before(r, w, n))
              BY <6>2, <1>nb, <1>h, <1>0 DEF Follows, OrderOK, On
            <7>2. Before(d, u, n)
              BY <5>1, <6>2, <1>0, <1>bef, <1>nb, <2>n, <3>1 DEF OrderOK
            <7>3. \A w \in Tasks : ~(Before(d, u, w) /\ Before(d, w, n))
              <8> SUFFICES ASSUME NEW w \in Tasks, Before(r, u, w), Before(r, w, n), w # t
                           PROVE  FALSE
                BY <1>bef, <1>nb
              <8>1. r.loc[w] = q
                BY <1>0, <1>nb DEF OrderOK
              <8>2. Before(r, t, w) \/ Before(r, w, t)
                BY <8>1, <1>0 DEF OrderOK
              <8> QED BY <8>2, <6>1, <7>1
            <7> QED BY <7>2, <7>3, <4>2, <1>nb DEF Follows
          <6>3. CASE ~Before(r, t, n)
            <7>1. n = h /\ \A w \in Tasks : ~Before(r, t, w)
              BY <6>3, <1>nb DEF Follows
            <7>2. n = d.head[q]
              BY <7>1, <2>n, <2>g
            <7>3. \A w \in Tasks : ~Before(d, u, w)
              <8> SUFFICES ASSUME NEW w \in Tasks, Before(r, u, w), w # t
                           PROVE  FALSE
                BY <1>bef
              <8>1. r.loc[w] = q
                BY <1>0, <1>nb, <3>3 DEF OrderOK
              <8>2. Before(r, t, w) \/ Before(r, w, t)
                BY <8>1, <1>0 DEF OrderOK
              <8> QED BY <8>2, <6>1, <7>1
            <7> QED BY <7>2, <7>3, <4>2, <3>1, <3>3, <1>nb DEF Follows
          <6> QED BY <6>2, <6>3
        <5>2. CASE ~Before(r, u, t)
          <6>1. t = h /\ \A w \in Tasks : ~Before(r, u, w)
            BY <5>2, <3>2, <4>1, <3>3, <1>nb DEF Follows
          <6>2. n = d.head[q]
            BY <6>1, <2>g
          <6> QED BY <6>1, <6>2, <4>2, <1>bef, <3>1, <3>3, <1>nb DEF Follows
        <5> QED BY <5>1, <5>2
      <4> QED BY <4>1, <4>2, <4>3, <3>p, <3>1
    <3>4. CASE u # b
      <4>1. m # t /\ m # n
        BY <3>4, <3>2, <1>nb, <3>1
      <4>2. d.next[u] = m /\ d.prev[m] = u
        BY <3>4, <4>1, <3>n, <3>2
      <4>3. Follows(d, u, m)
        <5>1. CASE Before(r, u, m) /\ \A w \in Tasks : ~(Before(r, u, w) /\ Before(r, w, m))
          BY <5>1, <3>1, <3>2, <4>1, <1>bef, <1>loc2 DEF Follows
        <5>2. CASE m = r.head[r.loc[u]] /\ \A w \in Tasks : ~Before(r, u, w)
          <6>1. m = d.head[r.loc[u]]
            BY <5>2, <4>1, <2>1, <3>1, <1>t
          <6> QED BY <5>2, <6>1, <3>1, <3>2, <4>1, <1>bef, <1>loc2 DEF Follows
        <5> QED BY <5>1, <5>2, <3>2 DEF Follows
      <4> QED BY <4>1, <4>2, <4>3, <3>p, <3>1, <3>2
    <3> QED BY <3>3, <3>4
  <2> QED
    BY <2>1, <2>4, <2>5, <2>6, <1>ord, <1>len, <1>h DEF Good, RingOK
<1> QED BY <1>single, <1>several


\* The six queue functions are Enq and Del on one of the queues.
USE DEF sched_runq_enq, sched_runq_del, sched_wakeupq_enq, sched_wakeupq_del,
        sched_wakeupevq_enq, sched_wakeupevq_del

(***************************************************************************)
(* What holds at each point of a handler: which interrupt is in service,   *)
(* and that the loop variable of a walk is still on the queue it walks.    *)
(***************************************************************************)
PhaseOK ==
    /\ cpu = "task" => isr = {}
    /\ cpu \in {"wakeupq", "schedule"} => isr = {"timer"}
    /\ cpu = "wakeupevq" => isr = {"kbd"}
    /\ cpu = "wakeupq" => scan \in Tasks /\ rings.loc[scan] = "wakeup"
    /\ cpu = "wakeupevq" => scan \in Tasks /\ rings.loc[scan] = "event"

SchedInv == SchedTypeOK /\ QueuesOK /\ DispatchOK /\ PhaseOK

(***************************************************************************)
(* schedule() as a whole.  It is called by the timer handler with the      *)
(* current task (or none) and by the blocking system calls with dummy_task *)
(* in its place; in both cases it leaves the processor to a task of the    *)
(* run queue, or to the kernel task if and only if the run queue is empty, *)
(* and never jumps to the busy TSS.                                        *)
(***************************************************************************)
LEMMA ScheduleOK ==
    ASSUME NEW cause, NEW r, Good(r), NEW cur \in TaskPtr \cup {Dummy},
           NEW fl \in [Tasks \cup {Dummy} -> BOOLEAN],
           Schedule(cause, r, cur, fl),
           cur = NULL => tr = Kern,
           cur \in Tasks => tr = cur /\ r.loc[cur] = "run",
           cur = Dummy => /\ cause # "timer" /\ tr \in Tasks /\ r.loc[tr] # "run"
                          /\ r.head["run"] # NULL =>
                               /\ r.next[Dummy] \in Tasks
                               /\ r.loc[r.next[Dummy]] = "run"
    PROVE  /\ current_task' \in TaskPtr
           /\ task_switched' \in [Tasks \cup {Dummy} -> BOOLEAN]
           /\ isr' = isr \ {"timer"}
           /\ tr' = IF current_task' = NULL THEN Kern ELSE current_task'
           /\ current_task' # NULL => r.loc[current_task'] = "run"
           /\ current_task' = NULL => On(r, "run") = {}
<1> DEFINE cleared == ClearFlag(cur, fl)
           h == r.head["run"]
           Goal == /\ current_task' \in TaskPtr
                   /\ task_switched' \in [Tasks \cup {Dummy} -> BOOLEAN]
                   /\ isr' = isr \ {"timer"}
                   /\ tr' = IF current_task' = NULL THEN Kern ELSE current_task'
                   /\ current_task' # NULL => r.loc[current_task'] = "run"
                   /\ current_task' = NULL => On(r, "run") = {}
<1>1. cleared \in [Tasks \cup {Dummy} -> BOOLEAN]
  BY DEF ClearFlag
<1>q. "run" \in Queues
  BY DEF Queues
<1>2. /\ h = NULL <=> On(r, "run") = {}
      /\ h # NULL => h \in Tasks /\ r.loc[h] = "run"
  BY <1>q DEF Good, RingOK, HeadOK, Heaps, TaskPtr
<1>3. \A u \in Tasks : r.loc[u] = "run" =>
          r.next[u] \in Tasks /\ r.loc[r.next[u]] = "run"
  BY DEF Good, RingOK, LinksOK, Follows
<1>stay. ASSUME cur \in TaskPtr, cur = NULL => h = NULL,
                current_task' = cur, task_switched' = cleared,
                EndOfInterrupt("timer"), UNCHANGED tr
         PROVE  Goal
  BY <1>stay, <1>1, <1>2, TasksAssumption DEF EndOfInterrupt, TaskPtr
<1>switch. ASSUME NEW n \in Tasks, r.loc[n] = "run", n # tr,
                  current_task' = n,
                  task_switched' = IF cause = "syscall"
                                   THEN [cleared EXCEPT ![n] = TRUE] ELSE cleared,
                  EndOfInterrupt("timer"), ContextSwitch(n)
           PROVE  Goal
  BY <1>switch, <1>1, TasksAssumption DEF EndOfInterrupt, ContextSwitch, TaskPtr
<1>4. CASE KeepsSlice(cause, cur, fl)
  <2>1. cur \in Tasks
    BY <1>4 DEF KeepsSlice, TaskPtr
  <2>2. /\ current_task' = cur /\ task_switched' = cleared
        /\ EndOfInterrupt("timer") /\ UNCHANGED tr
    BY <1>4 DEF Schedule
  <2> QED BY <2>1, <2>2, <1>stay, TasksAssumption DEF TaskPtr
<1>5. CASE ~KeepsSlice(cause, cur, fl) /\ h = NULL
  <2>1. CASE cur = NULL
    <3>1. /\ current_task' = cur /\ task_switched' = cleared
          /\ EndOfInterrupt("timer") /\ UNCHANGED tr
      BY <1>5, <2>1 DEF Schedule
    <3> QED BY <2>1, <3>1, <1>5, <1>stay DEF TaskPtr
  <2>2. CASE cur # NULL
    <3>1. /\ current_task' = NULL /\ task_switched' = cleared
          /\ EndOfInterrupt("timer") /\ ContextSwitch(Kern)
      BY <1>5, <2>2 DEF Schedule
    <3>2. tr \in Tasks
      BY <2>2, TasksAssumption DEF TaskPtr
    <3>3. tr # Kern
      BY <3>2, SchedAssumption
    <3> QED
      BY <3>1, <3>3, <1>5, <1>1, <1>2 DEF EndOfInterrupt, ContextSwitch, TaskPtr
  <2> QED BY <2>1, <2>2
<1>6. CASE ~KeepsSlice(cause, cur, fl) /\ h # NULL
  <2>1. CASE cur = NULL
    <3>1. /\ current_task' = h
          /\ task_switched' = IF cause = "syscall"
                              THEN [cleared EXCEPT ![h] = TRUE] ELSE cleared
          /\ EndOfInterrupt("timer") /\ ContextSwitch(h)
      BY <1>6, <2>1 DEF Schedule
    <3>2. h \in Tasks /\ r.loc[h] = "run" /\ h # tr
      BY <1>2, <1>6, <2>1, SchedAssumption
    <3> QED BY <3>1, <3>2, <1>switch
  <2>2. CASE cur # NULL /\ HasSuccessor(r, cur)
    <3> DEFINE n == r.next[cur]
    <3>1. /\ current_task' = n
          /\ task_switched' = IF cause = "syscall"
                              THEN [cleared EXCEPT ![n] = TRUE] ELSE cleared
          /\ EndOfInterrupt("timer") /\ ContextSwitch(n)
      BY <1>6, <2>2 DEF Schedule
    <3>2. n \in Tasks /\ r.loc[n] = "run" /\ n # tr
      BY <1>3, <1>6, <2>2, TasksAssumption DEF HasSuccessor, TaskPtr
    <3> HIDE DEF n
    <3> QED BY <3>1, <3>2, <1>switch
  <2>3. CASE cur # NULL /\ ~HasSuccessor(r, cur)
    <3>1. /\ current_task' = cur /\ task_switched' = cleared
          /\ EndOfInterrupt("timer") /\ UNCHANGED tr
      BY <1>6, <2>3 DEF Schedule
    <3>2. cur \in TaskPtr
      BY <1>6, <2>3, TasksAssumption DEF HasSuccessor, TaskPtr
    <3> QED BY <2>3, <3>1, <3>2, <1>stay
  <2> QED BY <2>1, <2>2, <2>3
<1> QED BY <1>4, <1>5, <1>6

(***************************************************************************)
(* Moving a task from one queue to another: sched_*_del, then sched_*_enq. *)
(***************************************************************************)
LEMMA MoveGood ==
    ASSUME NEW r, Good(r), NEW p \in Queues, NEW q \in Queues,
           NEW t \in Tasks, r.loc[t] = p
    PROVE  /\ Good(Enq(Del(r, p, t), q, t))
           /\ Enq(Del(r, p, t), q, t).loc = [r.loc EXCEPT ![t] = q]
<1> DEFINE d == Del(r, p, t)
<1>1. Good(d) /\ r.head[p] # NULL
  BY DelGood
<1>2. d.loc = [r.loc EXCEPT ![t] = "none"]
  BY <1>1, DelLoc
<1>3. r.loc \in [Tasks -> Places]
  BY DEF Good, Heaps
<1>4. d.loc[t] = "none"
  BY <1>2, <1>3
<1> HIDE DEF d
<1>5. Good(Enq(d, q, t)) /\ Enq(d, q, t).loc = [d.loc EXCEPT ![t] = q]
  BY <1>1, <1>4, EnqGood, EnqLoc
<1>6. [d.loc EXCEPT ![t] = q] = [r.loc EXCEPT ![t] = q]
  BY <1>2, <1>3
<1> QED BY <1>5, <1>6 DEF d

\* The list operations on tasks leave dummy_task.next alone.
LEMMA KeepsDummy ==
    ASSUME NEW r, Good(r), NEW q \in Queues, NEW t \in Tasks
    PROVE  /\ Enq(r, q, t).next[Dummy] = r.next[Dummy]
           /\ r.loc[t] = q => Del(r, q, t).next[Dummy] = r.next[Dummy]
<1> DEFINE h == r.head[q]
<1>1. r.next \in [Tasks \cup {Dummy} -> TaskPtr] /\ r.head[q] \in TaskPtr
  BY DEF Good, Heaps
<1>2. h # NULL => r.prev[h] \in Tasks
  BY <1>1 DEF Good, RingOK, HeadOK, LinksOK, TaskPtr, Queues
<1>3. r.loc[t] = q => r.prev[t] \in Tasks
  BY DEF Good, RingOK, LinksOK, Queues
<1>4. Enq(r, q, t).next[Dummy] = r.next[Dummy]
  BY <1>1, <1>2, TasksAssumption DEF Enq
<1>5. r.loc[t] = q => Del(r, q, t).next[Dummy] = r.next[Dummy]
  BY <1>1, <1>3, TasksAssumption DEF Del
<1> QED BY <1>4, <1>5

\* wakeup_after_*() before the move: dummy_task.next becomes the caller's
\* successor and the rings stay what they are.
LEMMA DummyGood ==
    ASSUME NEW r, Good(r), NEW t \in Tasks, r.loc[t] \in Queues
    PROVE  LET d == DummyFollows(r, t)
           IN  /\ Good(d) /\ d.loc = r.loc /\ d.head = r.head
               /\ r.next[t] # t => d.next[Dummy] = r.next[t]
<1> DEFINE d == DummyFollows(r, t)
<1>1. CASE r.next[t] = t
  BY <1>1 DEF DummyFollows
<1>2. CASE r.next[t] # t
  <2>0. /\ r \in Heaps /\ OrderOK(r) /\ HeadOK(r) /\ LinksOK(r) /\ LenOK(r)
        /\ r.next \in [Tasks \cup {Dummy} -> TaskPtr]
    BY DEF Good, RingOK, Heaps
  <2>1. /\ d.head = r.head /\ d.len = r.len /\ d.prev = r.prev
        /\ d.loc = r.loc /\ d.ahead = r.ahead
        /\ d.next = [r.next EXCEPT ![Dummy] = r.next[t]]
    BY <1>2, <2>0 DEF DummyFollows, Heaps
  <2>2. d \in Heaps
    BY <1>2, <2>0 DEF DummyFollows, Heaps
  <2>3. \A u \in Tasks : d.next[u] = r.next[u]
    BY <2>0, <2>1, TasksAssumption
  <2>b. \A u, v : Before(d, u, v) <=> Before(r, u, v)
    BY <2>1 DEF Before
  <2>o. \A q : On(d, q) = On(r, q)
    BY <2>1 DEF On
  <2>4. OrderOK(d)
    BY <2>0, <2>1, <2>b DEF OrderOK
  <2>5. HeadOK(d)
    BY <2>0, <2>1, <2>b, <2>o DEF HeadOK
  <2>f. \A u, v : Follows(d, u, v) <=> Follows(r, u, v)
    BY <2>1, <2>b DEF Follows
  <2>6. LinksOK(d)
    BY <2>0, <2>1, <2>3, <2>f DEF LinksOK
  <2>7. LenOK(d)
    BY <2>0, <2>1, <2>o DEF LenOK
  <2>8. d.next[Dummy] = r.next[t]
    BY <2>0, <2>1
  <2> QED
    BY <2>1, <2>2, <2>4, <2>5, <2>6, <2>7, <2>8 DEF Good, RingOK
<1> QED BY <1>1, <1>2

(***************************************************************************)
(* wakeup_after_msec / wakeup_after_event up to the task switch.           *)
(***************************************************************************)
LEMMA BlockOK ==
    ASSUME SchedInv, cpu = "task", tr \in Tasks,
           NEW q \in {"wakeup", "event"}, BlockCurrent(q)
    PROVE  /\ current_task = tr
           /\ Good(rings')
           /\ rings'.loc = [rings.loc EXCEPT ![tr] = q]
           /\ current_task' \in TaskPtr
           /\ task_switched' \in [Tasks \cup {Dummy} -> BOOLEAN]
           /\ isr' = {}
           /\ tr' = IF current_task' = NULL THEN Kern ELSE current_task'
           /\ current_task' # NULL => rings'.loc[current_task'] = "run"
           /\ current_task' = NULL => On(rings', "run") = {}
<1> DEFINE t == current_task
           d == DummyFollows(rings, t)
           r == Enq(Del(d, "run", t), q, t)
<1>1. t = tr /\ t \in Tasks /\ rings.loc[t] = "run" /\ Good(rings) /\ isr = {}
  BY SchedAssumption DEF SchedInv, DispatchOK, QueuesOK, PhaseOK, SchedTypeOK, Good, TaskPtr
<1>2. /\ "run" \in Queues /\ q \in Queues /\ q # "run"
  BY DEF Queues
<1>3. /\ Good(d) /\ d.loc = rings.loc
      /\ rings.next[t] # t => d.next[Dummy] = rings.next[t]
  BY <1>1, <1>2, DummyGood
<1>4. Good(r) /\ r.loc = [rings.loc EXCEPT ![t] = q]
  <2> HIDE DEF d
  <2>1. Good(d) /\ d.loc[t] = "run" /\ t \in Tasks
    BY <1>1, <1>3
  <2>2. Good(r) /\ r.loc = [d.loc EXCEPT ![t] = q]
    BY <2>1, <1>2, MoveGood
  <2> QED BY <2>2, <1>3
<1>5. r.next[Dummy] = d.next[Dummy]
  <2>1. Good(Del(d, "run", t)) /\ Del(d, "run", t).next[Dummy] = d.next[Dummy]
    BY <1>1, <1>2, <1>3, DelGood, KeepsDummy
  <2> QED BY <2>1, <1>1, <1>2, KeepsDummy
<1>6. r.head["run"] # NULL => /\ r.next[Dummy] \in Tasks
                              /\ r.loc[r.next[Dummy]] = "run"
  <2> SUFFICES ASSUME r.head["run"] # NULL
               PROVE  r.next[Dummy] \in Tasks /\ r.loc[r.next[Dummy]] = "run"
    OBVIOUS
  <2>1. rings.loc \in [Tasks -> Places]
    BY <1>1 DEF Good, Heaps
  <2>2. PICK u \in Tasks : r.loc[u] = "run"
    BY <1>4, <1>2 DEF Good, RingOK, HeadOK, On
  <2>3. u # t /\ rings.loc[u] = "run"
    BY <2>1, <2>2, <1>4, <1>2, <1>1
  <2>4. rings.next[t] # t
    BY <2>3, <1>1, <1>2, Lone DEF On
  <2>5. rings.next[t] \in Tasks /\ rings.loc[rings.next[t]] = "run"
    BY <1>1 DEF Good, RingOK, LinksOK, Follows
  <2>6. r.loc[rings.next[t]] = "run"
    BY <2>1, <2>4, <2>5, <1>4, <1>1
  <2> QED BY <2>4, <2>5, <2>6, <1>5, <1>3
<1>7. rings' = r /\ Schedule("syscall", r, Dummy, task_switched)
  BY DEF BlockCurrent
<1>8. r.loc[tr] # "run"
  BY <1>1, <1>2, <1>4 DEF Good, Heaps
<1>9. task_switched \in [Tasks \cup {Dummy} -> BOOLEAN]
  BY DEF SchedInv, SchedTypeOK
<1>r. Dummy # NULL /\ Dummy \notin Tasks
  BY TasksAssumption
<1> HIDE DEF t, d, r
<1>10. /\ current_task' \in TaskPtr
       /\ task_switched' \in [Tasks \cup {Dummy} -> BOOLEAN]
       /\ isr' = isr \ {"timer"}
       /\ tr' = IF current_task' = NULL THEN Kern ELSE current_task'
       /\ current_task' # NULL => r.loc[current_task'] = "run"
       /\ current_task' = NULL => On(r, "run") = {}
  BY <1>4, <1>6, <1>7, <1>8, <1>9, <1>r, ScheduleOK
<1> QED BY <1>1, <1>4, <1>7, <1>10 DEF t

(***************************************************************************)
(* The inductive invariant.                                                *)
(***************************************************************************)
LEMMA SchedInitInv == SchedInit => SchedInv
<1> SUFFICES ASSUME SchedInit PROVE SchedInv
  OBVIOUS
<1> USE DEF SchedInit
<1>1. "run" \in Queues /\ EmptyHeap.loc[Shell] = "none" /\ Shell \in Tasks
  BY SchedAssumption DEF Queues, EmptyHeap
<1>2. Good(rings)
  BY <1>1, EmptyGood, EnqGood
<1>3. SchedTypeOK
  BY <1>2, SchedAssumption DEF SchedTypeOK, Good, TaskPtr
<1> QED
  BY <1>2, <1>3 DEF SchedInv, QueuesOK, DispatchOK, PhaseOK, Good

\* One iteration of a walk that moves its task to the run queue.
LEMMA WalkOK ==
    ASSUME NEW r, Good(r), NEW q \in {"wakeup", "event"}, NEW t \in Tasks,
           r.loc[t] = q
    PROVE  LET m == Enq(Del(r, q, t), "run", t)
               n == r.next[t]
           IN  /\ Good(m) /\ m.loc = [r.loc EXCEPT ![t] = "run"]
               /\ n \in Tasks /\ r.loc[n] = q
               /\ LoopAgain(m, q, n) => m.loc[n] = q
<1> DEFINE m == Enq(Del(r, q, t), "run", t)
           n == r.next[t]
<1>1. q \in Queues /\ "run" \in Queues /\ q # "none"
  BY DEF Queues
<1>2. Good(m) /\ m.loc = [r.loc EXCEPT ![t] = "run"]
  BY <1>1, MoveGood
<1>3. n \in Tasks /\ r.loc[n] = q
  BY <1>1 DEF Good, RingOK, LinksOK, Follows
<1>4. ASSUME LoopAgain(m, q, n) PROVE m.loc[n] = q
  <2>1. r.loc \in [Tasks -> Places]
    BY DEF Good, Heaps
  <2>2. PICK u \in Tasks : m.loc[u] = q
    BY <1>4, <1>2, <1>1 DEF LoopAgain, Good, RingOK, HeadOK, On
  <2>3. u # t /\ r.loc[u] = q
    BY <2>1, <2>2, <1>2
  <2>4. n # t
    BY <2>3, <1>1, Lone DEF On
  <2> QED BY <2>1, <2>4, <1>2, <1>3
<1> QED BY <1>2, <1>3, <1>4

\* Every interrupt, loop iteration and system call keeps the invariant.
LEMMA SchedStep == SchedInv /\ [SchedNext]_schedVars => SchedInv'
<1> SUFFICES ASSUME SchedInv, [SchedNext]_schedVars PROVE SchedInv'
  OBVIOUS
<1>0. /\ SchedTypeOK /\ DispatchOK /\ PhaseOK /\ Good(rings)
      /\ rings \in Heaps /\ rings.loc \in [Tasks -> Places]
      /\ rings.head \in [Queues -> TaskPtr]
  BY DEF SchedInv, QueuesOK, Good, SchedTypeOK, Heaps
<1>s. SchedTypeOK' /\ DispatchOK' /\ PhaseOK' /\ Good(rings') => SchedInv'
  BY DEF SchedInv, QueuesOK, Good
<1>q. "run" \in Queues /\ "wakeup" \in Queues /\ "event" \in Queues
  BY DEF Queues
<1>h. \A q \in Queues : rings.head[q] # NULL =>
          rings.head[q] \in Tasks /\ rings.loc[rings.head[q]] = q
  BY <1>0 DEF Good, RingOK, HeadOK, TaskPtr
<1>1. CASE do_ir_timer
  <2>1. SchedTypeOK'
    BY <1>1, <1>0, <1>q, SchedAssumption DEF SchedTypeOK, do_ir_timer, Wrap
  <2>2. DispatchOK' /\ PhaseOK' /\ Good(rings')
    BY <1>1, <1>0, <1>q, <1>h DEF DispatchOK, PhaseOK, do_ir_timer
  <2> QED BY <2>1, <2>2, <1>s
<1>2. CASE sched_update_wakeupq
  <2> USE DEF sched_update_wakeupq
  <2>0. scan \in Tasks /\ rings.loc[scan] = "wakeup" /\ isr = {"timer"}
    BY <1>2, <1>0 DEF PhaseOK
  <2> DEFINE m == Enq(Del(rings, "wakeup", scan), "run", scan)
             n == rings.next[scan]
  <2>1. /\ Good(m) /\ m.loc = [rings.loc EXCEPT ![scan] = "run"]
        /\ n \in Tasks /\ rings.loc[n] = "wakeup"
        /\ LoopAgain(m, "wakeup", n) => m.loc[n] = "wakeup"
    BY <2>0, <1>0, WalkOK
  <2>2. rings' = IF TimeLeft(scan) THEN rings ELSE m
    BY <1>2
  <2>3. Good(rings')
    BY <2>1, <2>2, <1>0
  <2>4. /\ wakeup_after_msec' \in [Tasks -> Nat]
        /\ asked' \in [Tasks -> Nat] /\ slept' \in [Tasks -> Nat]
    BY <1>2, <1>0, <2>0, SchedAssumption DEF SchedTypeOK, TimeLeft, history
  <2>5. /\ cpu' \in {"wakeupq", "schedule"} /\ scan' \in TaskPtr
        /\ cpu' = "wakeupq" => scan' = n /\ LoopAgain(rings', "wakeup", n)
    BY <1>2, <2>1 DEF TaskPtr
  <2>6. cpu' = "wakeupq" => rings'.loc[n] = "wakeup"
    BY <2>1, <2>2, <2>5
  <2>7. SchedTypeOK'
    BY <1>2, <1>0, <2>3, <2>4, <2>5 DEF SchedTypeOK, Good
  <2>8. DispatchOK'
    <3>1. UNCHANGED <<tr, current_task>>
      BY <1>2
    <3>2. current_task # NULL => rings'.loc[current_task] = "run"
      BY <2>0, <2>1, <2>2, <1>0 DEF DispatchOK, SchedTypeOK, TaskPtr
    <3> QED BY <3>1, <3>2, <1>0 DEF DispatchOK
  <2>9. PhaseOK'
    BY <1>2, <2>0, <2>1, <2>5, <2>6 DEF PhaseOK
  <2> QED BY <2>3, <2>7, <2>8, <2>9, <1>s
<1>3. CASE schedule_timer
  <2>1. /\ current_task \in TaskPtr \cup {Dummy} /\ current_task # Dummy
        /\ task_switched \in [Tasks \cup {Dummy} -> BOOLEAN]
    BY <1>0, TasksAssumption DEF SchedTypeOK, TaskPtr
  <2>2. Schedule("timer", rings, current_task, task_switched)
    BY <1>3 DEF schedule_timer
  <2>3. /\ current_task = NULL => tr = Kern
        /\ current_task \in Tasks => tr = current_task /\ rings.loc[current_task] = "run"
    BY <1>0, TasksAssumption DEF DispatchOK
  <2>4. /\ current_task' \in TaskPtr
        /\ task_switched' \in [Tasks \cup {Dummy} -> BOOLEAN]
        /\ isr' = isr \ {"timer"}
        /\ tr' = IF current_task' = NULL THEN Kern ELSE current_task'
        /\ current_task' # NULL => rings.loc[current_task'] = "run"
    BY <2>1, <2>2, <2>3, <1>0, ScheduleOK
  <2>5. SchedTypeOK'
    BY <1>3, <1>0, <2>4 DEF SchedTypeOK, schedule_timer, TaskPtr
  <2>6. DispatchOK' /\ Good(rings')
    BY <1>3, <1>0, <2>4 DEF DispatchOK, schedule_timer
  <2>7. PhaseOK'
    BY <1>3, <1>0, <2>4 DEF PhaseOK, schedule_timer
  <2> QED BY <2>5, <2>6, <2>7, <1>s
<1>4. ASSUME NEW ev \in Events, do_ir_event(ev) PROVE SchedInv'
  <2>1. SchedTypeOK'
    BY <1>4, <1>0, <1>q DEF SchedTypeOK, do_ir_event
  <2>2. DispatchOK' /\ PhaseOK' /\ Good(rings')
    BY <1>4, <1>0, <1>q, <1>h DEF DispatchOK, PhaseOK, do_ir_event
  <2> QED BY <2>1, <2>2, <1>s
<1>5. CASE sched_update_wakeupevq
  <2> USE DEF sched_update_wakeupevq
  <2>0. scan \in Tasks /\ rings.loc[scan] = "event" /\ isr = {"kbd"}
    BY <1>5, <1>0 DEF PhaseOK
  <2> DEFINE m == Enq(Del(rings, "event", scan), "run", scan)
             n == rings.next[scan]
  <2>1. /\ Good(m) /\ m.loc = [rings.loc EXCEPT ![scan] = "run"]
        /\ n \in Tasks /\ rings.loc[n] = "event"
        /\ LoopAgain(m, "event", n) => m.loc[n] = "event"
    BY <2>0, <1>0, WalkOK
  <2>2. rings' = IF wakeup_after_event[scan] = scan_event THEN m ELSE rings
    BY <1>5
  <2>3. Good(rings')
    BY <2>1, <2>2, <1>0
  <2>4. wakeup_after_event' \in [Tasks -> Events \cup {NoEvent}]
    BY <1>5, <1>0, <2>0 DEF SchedTypeOK
  <2>5. /\ cpu' \in {"wakeupevq", "task"} /\ scan' \in TaskPtr
        /\ cpu' = "wakeupevq" => /\ scan' = n /\ LoopAgain(rings', "event", n)
                                 /\ isr' = {"kbd"}
        /\ cpu' = "task" => isr' = {}
        /\ scan_event' \in Events \cup {NoEvent}
    BY <1>5, <2>0, <2>1, <1>0 DEF TaskPtr, EndOfInterrupt, SchedTypeOK
  <2>6. cpu' = "wakeupevq" => rings'.loc[n] = "event"
    BY <2>1, <2>2, <2>5
  <2>7. SchedTypeOK'
    BY <1>5, <1>0, <2>3, <2>4, <2>5 DEF SchedTypeOK, Good
  <2>8. DispatchOK'
    <3>1. UNCHANGED <<tr, current_task>>
      BY <1>5
    <3>2. current_task # NULL => rings'.loc[current_task] = "run"
      BY <2>0, <2>1, <2>2, <1>0 DEF DispatchOK, SchedTypeOK, TaskPtr
    <3> QED BY <3>1, <3>2, <1>0 DEF DispatchOK
  <2>9. PhaseOK'
    BY <2>1, <2>5, <2>6 DEF PhaseOK
  <2> QED BY <2>3, <2>7, <2>8, <2>9, <1>s
<1>6. ASSUME NEW ms \in SleepMs, sys_wakeup_after_msec(ms) PROVE SchedInv'
  <2>1. /\ Good(rings') /\ current_task = tr
        /\ current_task' \in TaskPtr
        /\ task_switched' \in [Tasks \cup {Dummy} -> BOOLEAN]
        /\ isr' = {}
        /\ tr' = IF current_task' = NULL THEN Kern ELSE current_task'
        /\ current_task' # NULL => rings'.loc[current_task'] = "run"
    BY <1>6, BlockOK DEF sys_wakeup_after_msec
  <2>2. SchedTypeOK'
    BY <1>6, <1>0, <2>1, SchedAssumption DEF SchedTypeOK, sys_wakeup_after_msec, Good, TaskPtr
  <2>3. DispatchOK' /\ PhaseOK'
    BY <1>6, <2>1 DEF DispatchOK, PhaseOK, sys_wakeup_after_msec
  <2> QED BY <2>1, <2>2, <2>3, <1>s
<1>7. ASSUME NEW ev \in Events, sys_wakeup_after_event(ev) PROVE SchedInv'
  <2>1. /\ Good(rings') /\ current_task = tr
        /\ current_task' \in TaskPtr
        /\ task_switched' \in [Tasks \cup {Dummy} -> BOOLEAN]
        /\ isr' = {}
        /\ tr' = IF current_task' = NULL THEN Kern ELSE current_task'
        /\ current_task' # NULL => rings'.loc[current_task'] = "run"
    BY <1>7, BlockOK DEF sys_wakeup_after_event
  <2>2. SchedTypeOK'
    BY <1>7, <1>0, <2>1 DEF SchedTypeOK, sys_wakeup_after_event, Good, TaskPtr
  <2>3. DispatchOK' /\ PhaseOK'
    BY <1>7, <2>1 DEF DispatchOK, PhaseOK, sys_wakeup_after_event
  <2> QED BY <2>1, <2>2, <2>3, <1>s
<1>8. ASSUME NEW t \in Tasks, sys_exec(t) PROVE SchedInv'
  <2>1. Good(rings') /\ rings'.loc = [rings.loc EXCEPT ![t] = "run"]
    BY <1>8, <1>0, <1>q, EnqGood, EnqLoc DEF sys_exec
  <2>2. SchedTypeOK'
    BY <1>8, <1>0, <2>1 DEF SchedTypeOK, sys_exec, Good
  <2>3. DispatchOK'
    BY <1>8, <1>0, <2>1 DEF DispatchOK, sys_exec, SchedTypeOK, TaskPtr
  <2>4. PhaseOK'
    BY <1>8, <1>0 DEF PhaseOK, sys_exec
  <2> QED BY <2>1, <2>2, <2>3, <2>4, <1>s
<1>9. CASE UNCHANGED schedVars
  <2>1. SchedTypeOK'
    BY <1>9, <1>0 DEF schedVars, SchedTypeOK
  <2>2. DispatchOK' /\ PhaseOK' /\ Good(rings')
    BY <1>9, <1>0 DEF schedVars, DispatchOK, PhaseOK
  <2> QED BY <2>1, <2>2, <1>s
<1> QED
  BY <1>1, <1>2, <1>3, <1>4, <1>5, <1>6, <1>7, <1>8, <1>9 DEF SchedNext

\* The inductive invariant of the scheduler.
THEOREM SchedInvariant == SchedSpec => []SchedInv
<1>1. SchedInit => SchedInv
  BY SchedInitInv
<1>2. SchedInv /\ [SchedNext]_schedVars => SchedInv'
  BY SchedStep
<1> QED BY <1>1, <1>2, PTL DEF SchedSpec

(***************************************************************************)
(* sched.c: every pointer, counter and flag keeps its type; the two walks  *)
(* never follow a link to NULL.                                            *)
(***************************************************************************)
THEOREM SchedTypes == SchedSpec => []SchedTypeOK
<1>1. SchedInv => SchedTypeOK
  BY DEF SchedInv
<1> QED BY <1>1, SchedInvariant, PTL

(***************************************************************************)
(* sched.c: the three queues are always exactly the rings of the tasks put *)
(* on them, whatever the interrupts and system calls.                      *)
(***************************************************************************)
THEOREM QueuesAlwaysOK == SchedSpec => []QueuesOK
<1>1. SchedInv => QueuesOK
  BY DEF SchedInv
<1> QED BY <1>1, SchedInvariant, PTL

(***************************************************************************)
(* schedule(): task register, current_task and run queue agree, and the    *)
(* processor never takes the fault of a jump to the busy TSS.              *)
(***************************************************************************)
THEOREM DispatchAlwaysOK == SchedSpec => []DispatchOK
<1>1. SchedInv => DispatchOK
  BY DEF SchedInv
<1> QED BY <1>1, SchedInvariant, PTL

(***************************************************************************)
(* Every handler path acknowledges its interrupt before task code runs.    *)
(***************************************************************************)
THEOREM AlwaysAcknowledged == SchedSpec => []Acknowledged
<1>1. SchedInv => Acknowledged
  BY DEF SchedInv, PhaseOK, Acknowledged
<1> QED BY <1>1, SchedInvariant, PTL

(***************************************************************************)
(* The scheduler implements AbsSched: a task that blocks or is preempted   *)
(* hands over to a runnable task, and the processor idles only when there  *)
(* is none.                                                                *)
(***************************************************************************)
LEMMA AbsStep == SchedInv /\ [SchedNext]_schedVars => [Abs!Next]_<<rings.loc, tr>>
<1> SUFFICES ASSUME SchedInv, [SchedNext]_schedVars
             PROVE  Abs!Next \/ UNCHANGED <<rings.loc, tr>>
  OBVIOUS
<1>0. /\ SchedTypeOK /\ DispatchOK /\ PhaseOK /\ Good(rings)
      /\ rings.loc \in [Tasks -> Places]
  BY DEF SchedInv, QueuesOK, Good, SchedTypeOK, Heaps
<1>q. "run" \in Queues /\ "wakeup" \in Queues /\ "event" \in Queues
  BY DEF Queues
<1>r. /\ Abs!Runnable(rings.loc) = On(rings, "run")
      /\ Abs!Runnable(rings'.loc) = On(rings', "run")
  BY DEF Abs!Runnable, On
<1>1. CASE do_ir_timer
  BY <1>1 DEF do_ir_timer
<1>2. CASE sched_update_wakeupq
  <2>0. scan \in Tasks /\ rings.loc[scan] = "wakeup"
    BY <1>2, <1>0 DEF PhaseOK, sched_update_wakeupq
  <2> DEFINE m == Enq(Del(rings, "wakeup", scan), "run", scan)
  <2>1. m.loc = [rings.loc EXCEPT ![scan] = "run"]
    BY <2>0, <1>0, WalkOK
  <2>2. (rings' = rings \/ rings' = m) /\ UNCHANGED tr
    BY <1>2 DEF sched_update_wakeupq
  <2>3. CASE rings' = m
    <3>1. Abs!Wake(scan)
      BY <2>0, <2>1, <2>2, <2>3 DEF Abs!Wake
    <3> QED BY <3>1, <2>0 DEF Abs!Next
  <2> QED BY <2>2, <2>3
<1>3. CASE schedule_timer
  <2>1. /\ current_task \in TaskPtr \cup {Dummy} /\ current_task # Dummy
        /\ task_switched \in [Tasks \cup {Dummy} -> BOOLEAN]
    BY <1>0, TasksAssumption DEF SchedTypeOK, TaskPtr
  <2>2. Schedule("timer", rings, current_task, task_switched) /\ UNCHANGED rings
    BY <1>3 DEF schedule_timer
  <2>3. /\ current_task = NULL => tr = Kern
        /\ current_task \in Tasks => tr = current_task /\ rings.loc[current_task] = "run"
    BY <1>0, TasksAssumption DEF DispatchOK
  <2>4. /\ current_task' \in TaskPtr
        /\ tr' = IF current_task' = NULL THEN Kern ELSE current_task'
        /\ current_task' # NULL => rings.loc[current_task'] = "run"
        /\ current_task' = NULL => On(rings, "run") = {}
    BY <2>1, <2>2, <2>3, <1>0, ScheduleOK
  <2>5. tr' \in Abs!Choice(rings.loc)
    BY <2>4, <1>r DEF Abs!Choice, On, TaskPtr
  <2> QED BY <2>2, <2>5 DEF Abs!Next, Abs!Reschedule
<1>4. ASSUME NEW ev \in Events, do_ir_event(ev) PROVE UNCHANGED <<rings.loc, tr>>
  BY <1>4 DEF do_ir_event
<1>5. CASE sched_update_wakeupevq
  <2>0. scan \in Tasks /\ rings.loc[scan] = "event"
    BY <1>5, <1>0 DEF PhaseOK, sched_update_wakeupevq
  <2> DEFINE m == Enq(Del(rings, "event", scan), "run", scan)
  <2>1. m.loc = [rings.loc EXCEPT ![scan] = "run"]
    BY <2>0, <1>0, WalkOK
  <2>2. (rings' = rings \/ rings' = m) /\ UNCHANGED tr
    BY <1>5 DEF sched_update_wakeupevq
  <2>3. CASE rings' = m
    <3>1. Abs!Wake(scan)
      BY <2>0, <2>1, <2>2, <2>3 DEF Abs!Wake
    <3> QED BY <3>1, <2>0 DEF Abs!Next
  <2> QED BY <2>2, <2>3
<1>6. ASSUME NEW q \in {"wakeup", "event"}, BlockCurrent(q), cpu = "task", tr \in Tasks
      PROVE  Abs!Next
  <2>1. /\ rings'.loc = [rings.loc EXCEPT ![tr] = q]
        /\ current_task' \in TaskPtr
        /\ tr' = IF current_task' = NULL THEN Kern ELSE current_task'
        /\ current_task' # NULL => rings'.loc[current_task'] = "run"
        /\ current_task' = NULL => On(rings', "run") = {}
    BY <1>6, BlockOK
  <2>2. tr' \in Abs!Choice(rings'.loc)
    BY <2>1, <1>r DEF Abs!Choice, On, TaskPtr
  <2>3. Abs!Block(q)
    BY <2>1, <2>2, <1>6 DEF Abs!Block
  <2> QED BY <2>3 DEF Abs!Next
<1>7. ASSUME NEW t \in Tasks, sys_exec(t) PROVE Abs!Next
  <2>1. rings'.loc = [rings.loc EXCEPT ![t] = "run"]
    BY <1>7, EnqLoc DEF sys_exec
  <2>2. Abs!Create(t)
    BY <1>7, <2>1 DEF Abs!Create, sys_exec
  <2> QED BY <2>2 DEF Abs!Next
<1>8. CASE UNCHANGED schedVars
  BY <1>8 DEF schedVars
<1> QED
  BY <1>1, <1>2, <1>3, <1>4, <1>5, <1>6, <1>7, <1>8
     DEF SchedNext, sys_wakeup_after_msec, sys_wakeup_after_event

\* sched.c implements the abstract scheduler.
THEOREM AbsSchedRefinement == SchedSpec => ImplementsAbsSched
<1>1. SchedInit => Abs!Init
  <2> SUFFICES ASSUME SchedInit PROVE Abs!Init
    OBVIOUS
  <2>1. rings.loc = [EmptyHeap.loc EXCEPT ![Shell] = "run"]
    BY EnqLoc DEF SchedInit
  <2>2. rings.loc = [t \in Tasks |-> IF t = Shell THEN "run" ELSE "none"]
    BY <2>1, SchedAssumption DEF EmptyHeap
  <2> QED BY <2>2 DEF Abs!Init, SchedInit
<1>2. SchedInv /\ [SchedNext]_schedVars => [Abs!Next]_<<rings.loc, tr>>
  BY AbsStep
<1> QED
  BY <1>1, <1>2, SchedInvariant, PTL DEF SchedSpec, ImplementsAbsSched, Abs!Spec

(***************************************************************************)
(* Why no sleeper is released early: what it asked for is covered by what  *)
(* has elapsed and what is left, and during the walk of                    *)
(* sched_update_wakeupq the tasks not yet visited have a tick to spare.    *)
(***************************************************************************)
Unvisited(t) == cpu = "wakeupq" /\ (t = scan \/ Before(rings, scan, t))

SleepInv ==
    \A t \in Tasks : rings.loc[t] = "wakeup" =>
        /\ asked[t] <= wakeup_after_msec[t] + slept[t]
        /\ Unvisited(t) => asked[t] + TickMs <= wakeup_after_msec[t] + slept[t]

\* Moving t does not change the order of the other tasks.
LEMMA MoveBefore ==
    ASSUME NEW r, Good(r), NEW p \in Queues, NEW q, NEW t \in Tasks,
           r.loc[t] = p, NEW u \in Tasks, NEW v \in Tasks, u # t, v # t
    PROVE  Before(Enq(Del(r, p, t), q, t), u, v) <=> Before(r, u, v)
<1> DEFINE d == Del(r, p, t)
<1>1. r.head[p] # NULL
  BY DelGood
<1>2. Before(d, u, v) <=> Before(r, u, v)
  BY <1>1 DEF Before, Del, DelHistory
<1> HIDE DEF d
<1>3. Before(Enq(d, q, t), u, v) <=> Before(d, u, v)
  <2>1. Enq(d, q, t).ahead = d.ahead \cup {<<w, t>> : w \in On(d, q)}
    BY DEF Enq, EnqHistory
  <2>2. <<u, v>> \notin {<<w, t>> : w \in On(d, q)}
    OBVIOUS
  <2> QED BY <2>1, <2>2 DEF Before
<1> QED BY <1>2, <1>3 DEF d

\* Every step keeps the bookkeeping of the sleepers' time.
LEMMA SleepStep ==
    SchedInv /\ SleepInv /\ [SchedNext]_schedVars => SleepInv'
<1> SUFFICES ASSUME SchedInv, SleepInv, [SchedNext]_schedVars, NEW t \in Tasks,
                    rings'.loc[t] = "wakeup"
             PROVE  /\ asked'[t] <= wakeup_after_msec'[t] + slept'[t]
                    /\ Unvisited(t)' =>
                         asked'[t] + TickMs <= wakeup_after_msec'[t] + slept'[t]
  BY DEF SleepInv
<1>0. /\ SchedTypeOK /\ PhaseOK /\ Good(rings)
      /\ rings.loc \in [Tasks -> Places]
      /\ TickMs \in Nat /\ wakeup_after_msec \in [Tasks -> Nat]
      /\ asked \in [Tasks -> Nat] /\ slept \in [Tasks -> Nat]
  BY SchedAssumption DEF SchedInv, QueuesOK, Good, SchedTypeOK, Heaps
<1>q. "run" \in Queues /\ "wakeup" \in Queues /\ "event" \in Queues
  BY DEF Queues
\* Steps that leave the sleepers and their times alone.
<1>same. ASSUME rings.loc[t] = "wakeup", cpu' # "wakeupq",
                wakeup_after_msec'[t] = wakeup_after_msec[t],
                asked'[t] = asked[t], slept'[t] = slept[t]
         PROVE  /\ asked'[t] <= wakeup_after_msec'[t] + slept'[t]
                /\ Unvisited(t)' =>
                     asked'[t] + TickMs <= wakeup_after_msec'[t] + slept'[t]
  BY <1>same DEF SleepInv, Unvisited
<1>1. CASE do_ir_timer
  <2>1. /\ rings' = rings /\ wakeup_after_msec' = wakeup_after_msec
        /\ asked' = asked /\ rings.loc[t] = "wakeup"
        /\ slept'[t] = slept[t] + TickMs
    BY <1>1 DEF do_ir_timer
  <2> QED BY <2>1, <1>0 DEF SleepInv
<1>2. CASE sched_update_wakeupq
  <2> USE DEF sched_update_wakeupq
  <2>0. scan \in Tasks /\ rings.loc[scan] = "wakeup" /\ cpu = "wakeupq"
    BY <1>2, <1>0 DEF PhaseOK
  <2> DEFINE m == Enq(Del(rings, "wakeup", scan), "run", scan)
             n == rings.next[scan]
  <2>1. m.loc = [rings.loc EXCEPT ![scan] = "run"]
    BY <2>0, <1>0, WalkOK
  <2>2. rings' = IF TimeLeft(scan) THEN rings ELSE m
    BY <1>2
  <2>3. rings.loc[t] = "wakeup" /\ (t = scan => TimeLeft(scan))
    BY <2>0, <2>1, <2>2, <1>0
  <2>4. /\ asked'[t] = asked[t] /\ slept'[t] = slept[t]
        /\ wakeup_after_msec'[t] = IF t = scan THEN wakeup_after_msec[t] - TickMs
                                   ELSE wakeup_after_msec[t]
    BY <1>2, <2>0, <2>3, <1>0 DEF history
  <2>5. asked'[t] <= wakeup_after_msec'[t] + slept'[t]
    BY <2>0, <2>3, <2>4, <1>0 DEF SleepInv, Unvisited
  <2>6. ASSUME Unvisited(t)' PROVE t # scan /\ Unvisited(t)
    <3>1. /\ cpu' = "wakeupq" /\ scan' = n /\ n # rings'.head["wakeup"]
          /\ t = n \/ Before(rings', n, t)
      BY <2>6, <1>2 DEF Unvisited, LoopAgain
    <3>2. /\ n \in Tasks /\ Follows(rings, scan, n) /\ rings.loc[n] = "wakeup"
      BY <2>0, <1>0 DEF Good, RingOK, LinksOK, Follows
    <3>o. /\ \A u, v \in Tasks : Before(rings, u, v) => ~Before(rings, v, u)
          /\ \A u, v, w \in Tasks :
                Before(rings, u, v) /\ Before(rings, v, w) => Before(rings, u, w)
      BY <1>0 DEF Good, RingOK, OrderOK
    <3>3. CASE TimeLeft(scan)
      <4>1. rings' = rings
        BY <2>2, <3>3
      <4>2. Before(rings, scan, n)
        BY <3>1, <3>2, <4>1, <2>0 DEF Follows
      <4> QED BY <4>1, <4>2, <3>1, <3>2, <3>o, <2>0 DEF Unvisited
    <3>4. CASE ~TimeLeft(scan)
      <4>1. rings' = m /\ t # scan
        BY <2>2, <3>4, <2>3
      <4>2. LoopAgain(m, "wakeup", n)
        BY <1>2, <3>1, <4>1
      <4>3. m.loc[n] = "wakeup"
        BY <4>2, <2>0, <1>0, WalkOK
      <4>4. n # scan
        BY <4>3, <2>1, <2>0, <1>0
      <4>5. t = n \/ Before(rings, n, t)
        <5>1. Before(m, n, t) <=> Before(rings, n, t)
          BY <4>1, <4>4, <3>2, <2>0, <1>0, <1>q, MoveBefore
        <5> QED BY <5>1, <3>1, <4>1
      <4>6. Before(rings, scan, t) \/ Before(rings, t, scan)
        BY <2>0, <2>3, <4>1, <1>0 DEF Good, RingOK, OrderOK
      <4>7. rings.head["wakeup"] = n => rings'.head["wakeup"] = n
        <5>1. rings.head["wakeup"] = n => m.head["wakeup"] = n
          <6>1. Good(m)
            BY <2>0, <1>0, WalkOK
          <6>2. m.head["wakeup"] \in Tasks /\ m.loc[m.head["wakeup"]] = "wakeup"
            BY <6>1, <4>2, <1>q DEF Good, RingOK, HeadOK, Heaps, TaskPtr, LoopAgain
          <6>3. m.head["wakeup"] # n => Before(m, m.head["wakeup"], n)
            BY <6>1, <4>3, <3>2, <1>q, <4>2 DEF Good, RingOK, HeadOK, On, LoopAgain
          <6>4. m.head["wakeup"] # scan
            BY <6>2, <2>1, <2>0, <1>0
          <6>5. m.head["wakeup"] # n => Before(rings, m.head["wakeup"], n)
            BY <6>2, <6>3, <6>4, <4>4, <3>2, <2>0, <1>0, <1>q, MoveBefore
          <6>6. rings.head["wakeup"] = n => ~Before(rings, m.head["wakeup"], n)
            <7>1. rings.loc[m.head["wakeup"]] = "wakeup"
              BY <6>2, <6>4, <2>1, <2>0, <1>0
            <7> QED
              BY <7>1, <6>2, <3>o, <3>2, <1>0, <1>q, TasksAssumption
                 DEF Good, RingOK, HeadOK, On
          <6> QED BY <6>5, <6>6
        <5> QED BY <5>1, <4>1
      <4>8. Before(rings, scan, n)
        BY <3>1, <3>2, <4>7, <2>0 DEF Follows
      <4> QED BY <4>1, <4>5, <4>8, <3>2, <3>o, <2>0 DEF Unvisited
    <3> QED BY <3>3, <3>4
  <2>7. Unvisited(t)' => asked'[t] + TickMs <= wakeup_after_msec'[t] + slept'[t]
    BY <2>3, <2>4, <2>6, <1>0 DEF SleepInv
  <2> QED BY <2>5, <2>7
<1>3. CASE schedule_timer
  BY <1>3, <1>same DEF schedule_timer
<1>4. ASSUME NEW ev \in Events, do_ir_event(ev)
      PROVE  /\ asked'[t] <= wakeup_after_msec'[t] + slept'[t]
             /\ Unvisited(t)' =>
                  asked'[t] + TickMs <= wakeup_after_msec'[t] + slept'[t]
  BY <1>4, <1>same DEF do_ir_event
<1>5. CASE sched_update_wakeupevq
  <2>0. scan \in Tasks /\ rings.loc[scan] = "event"
    BY <1>5, <1>0 DEF PhaseOK, sched_update_wakeupevq
  <2> DEFINE m == Enq(Del(rings, "event", scan), "run", scan)
  <2>1. m.loc = [rings.loc EXCEPT ![scan] = "run"]
    BY <2>0, <1>0, WalkOK
  <2>2. rings' = rings \/ rings' = m
    BY <1>5 DEF sched_update_wakeupevq
  <2>3. rings.loc[t] = "wakeup"
    BY <2>0, <2>1, <2>2, <1>0
  <2> QED BY <1>5, <2>3, <1>same DEF sched_update_wakeupevq
<1>6. ASSUME NEW ms \in SleepMs, sys_wakeup_after_msec(ms)
      PROVE  /\ asked'[t] <= wakeup_after_msec'[t] + slept'[t]
             /\ Unvisited(t)' =>
                  asked'[t] + TickMs <= wakeup_after_msec'[t] + slept'[t]
  <2>1. /\ current_task = tr /\ tr \in Tasks
        /\ rings'.loc = [rings.loc EXCEPT ![tr] = "wakeup"]
    BY <1>6, BlockOK DEF sys_wakeup_after_msec
  <2>2. CASE t = tr
    <3>1. asked'[t] = ms /\ wakeup_after_msec'[t] = ms /\ slept'[t] = 0
          /\ cpu' = "task" /\ ms \in Nat
      BY <1>6, <2>1, <2>2, <1>0, SchedAssumption DEF sys_wakeup_after_msec
    <3> QED BY <3>1 DEF Unvisited
  <2>3. CASE t # tr
    <3>1. rings.loc[t] = "wakeup"
      BY <2>1, <2>3, <1>0
    <3> QED BY <1>6, <2>1, <2>3, <3>1, <1>0, <1>same DEF sys_wakeup_after_msec
  <2> QED BY <2>2, <2>3
<1>7. ASSUME NEW ev \in Events, sys_wakeup_after_event(ev)
      PROVE  /\ asked'[t] <= wakeup_after_msec'[t] + slept'[t]
             /\ Unvisited(t)' =>
                  asked'[t] + TickMs <= wakeup_after_msec'[t] + slept'[t]
  <2>1. rings'.loc = [rings.loc EXCEPT ![tr] = "event"] /\ tr \in Tasks
    BY <1>7, BlockOK DEF sys_wakeup_after_event
  <2>2. rings.loc[t] = "wakeup"
    BY <2>1, <1>0
  <2> QED BY <1>7, <2>2, <1>same DEF sys_wakeup_after_event
<1>8. ASSUME NEW u \in Tasks, sys_exec(u)
      PROVE  /\ asked'[t] <= wakeup_after_msec'[t] + slept'[t]
             /\ Unvisited(t)' =>
                  asked'[t] + TickMs <= wakeup_after_msec'[t] + slept'[t]
  <2>1. rings'.loc = [rings.loc EXCEPT ![u] = "run"]
    <3>1. rings' = Enq(rings, "run", u)
      BY <1>8 DEF sys_exec
    <3> QED BY <3>1, EnqLoc
  <2>2. rings.loc[t] = "wakeup"
    BY <2>1, <1>0
  <2> QED BY <1>8, <2>2, <1>same DEF sys_exec
<1>9. CASE UNCHANGED schedVars
  <2>1. /\ rings' = rings /\ cpu' = cpu /\ scan' = scan /\ asked' = asked
        /\ slept' = slept /\ wakeup_after_msec' = wakeup_after_msec
    BY <1>9 DEF schedVars
  <2> QED BY <2>1 DEF SleepInv, Unvisited, Before
<1> QED
  BY <1>1, <1>2, <1>3, <1>4, <1>5, <1>6, <1>7, <1>8, <1>9 DEF SchedNext

(***************************************************************************)
(* sched_update_wakeupq(): no sleeper is released before the ticks it      *)
(* asked for have elapsed.                                                 *)
(***************************************************************************)
THEOREM NeverEarly == SchedSpec => SleepNotEarly
<1> DEFINE Step == \A t \in Tasks :
                      rings.loc[t] = "wakeup" /\ rings'.loc[t] = "run"
                        => slept[t] >= asked[t]
<1>1. SchedInit => SleepInv
  <2> SUFFICES ASSUME SchedInit PROVE SleepInv
    OBVIOUS
  <2>1. rings.loc = [EmptyHeap.loc EXCEPT ![Shell] = "run"]
    BY EnqLoc DEF SchedInit
  <2>2. \A t \in Tasks : rings.loc[t] # "wakeup"
    BY <2>1, SchedAssumption DEF EmptyHeap
  <2> QED BY <2>2 DEF SleepInv
<1>2. SchedInv /\ SleepInv /\ [SchedNext]_schedVars => SleepInv'
  BY SleepStep
<1>3. SchedInv /\ SleepInv /\ [SchedNext]_schedVars => [Step]_schedVars
  <2> SUFFICES ASSUME SchedInv, SleepInv, SchedNext, NEW t \in Tasks,
                      rings.loc[t] = "wakeup", rings'.loc[t] = "run"
               PROVE  slept[t] >= asked[t]
    OBVIOUS
  <2>0. /\ PhaseOK /\ Good(rings) /\ rings.loc \in [Tasks -> Places]
        /\ TickMs \in Nat /\ wakeup_after_msec \in [Tasks -> Nat]
        /\ asked \in [Tasks -> Nat] /\ slept \in [Tasks -> Nat]
    BY SchedAssumption DEF SchedInv, QueuesOK, Good, SchedTypeOK, Heaps
  <2>1. CASE sched_update_wakeupq
    <3>0. scan \in Tasks /\ rings.loc[scan] = "wakeup" /\ cpu = "wakeupq"
      BY <2>1, <2>0 DEF PhaseOK, sched_update_wakeupq
    <3>1. /\ t = scan /\ ~TimeLeft(scan)
      <4>1. /\ TimeLeft(scan) => rings' = rings
            /\ ~TimeLeft(scan) => rings' = Enq(Del(rings, "wakeup", scan), "run", scan)
        BY <2>1 DEF sched_update_wakeupq
      <4>2. Enq(Del(rings, "wakeup", scan), "run", scan).loc
              = [rings.loc EXCEPT ![scan] = "run"]
        BY <3>0, <2>0, WalkOK
      <4> QED BY <4>1, <4>2, <3>0, <2>0
    <3> QED BY <3>0, <3>1, <2>0 DEF SleepInv, Unvisited, TimeLeft
  <2>2. CASE sched_update_wakeupevq
    <3>0. scan \in Tasks /\ rings.loc[scan] = "event"
      BY <2>2, <2>0 DEF PhaseOK, sched_update_wakeupevq
    <3>1. \/ rings' = rings
          \/ rings' = Enq(Del(rings, "event", scan), "run", scan)
      BY <2>2 DEF sched_update_wakeupevq
    <3>2. Enq(Del(rings, "event", scan), "run", scan).loc
              = [rings.loc EXCEPT ![scan] = "run"]
      BY <3>0, <2>0, WalkOK
    <3> QED BY <3>0, <3>1, <3>2, <2>0
  <2>3. ASSUME NEW q \in {"wakeup", "event"}, BlockCurrent(q), cpu = "task", tr \in Tasks
        PROVE  FALSE
    <3>1. rings'.loc = [rings.loc EXCEPT ![tr] = q]
      BY <2>3, BlockOK
    <3> QED BY <3>1, <2>0
  <2>4. ASSUME NEW u \in Tasks, sys_exec(u) PROVE FALSE
    <3>1. rings'.loc = [rings.loc EXCEPT ![u] = "run"]
      BY <2>4 DEF sys_exec, Enq, EnqHistory
    <3>2. rings.loc[u] = "none"
      BY <2>4 DEF sys_exec
    <3> QED BY <3>1, <3>2, <2>0
  <2>5. rings' = rings => FALSE
    OBVIOUS
  <2> QED
    BY <2>1, <2>2, <2>3, <2>4, <2>5
       DEF SchedNext, do_ir_timer, schedule_timer, do_ir_event,
           sys_wakeup_after_msec, sys_wakeup_after_event
<1> QED
  BY <1>1, <1>2, <1>3, SchedInvariant, PTL DEF SchedSpec, SleepNotEarly

(***************************************************************************)
(* Why no sleeper stays long: each tick that sched_update_wakeupq takes    *)
(* away from a sleeper (the walk ends when the head is released) is paid   *)
(* for by a sleeper ahead of it that leaves the queue.  Time slept, time   *)
(* left and a tick for every sleeper still ahead never exceed the time     *)
(* asked for and a tick for every other task; the sleepers the walk has    *)
(* not come to yet are one tick behind.                                    *)
(***************************************************************************)
Ahead(r, t) == {u \in Tasks : Before(r, u, t)}
Ticks(n) == TickMs * n
Behind(t) == IF Unvisited(t) THEN TickMs ELSE 0

DelayOK(t) ==
    /\ asked[t] = 0 <=> wakeup_after_msec[t] = 0
    /\ slept[t] + wakeup_after_msec[t] + Ticks(Cardinality(Ahead(rings, t)))
         <= asked[t] + Ticks(Cardinality(Tasks) - 1) + Behind(t)

DelayInv == \A t \in Tasks : rings.loc[t] = "wakeup" => DelayOK(t)

\* Counting in ticks: monotone, and one fewer is one tick less.
LEMMA TicksMonotone ==
    ASSUME NEW m \in Nat, NEW n \in Nat, m <= n
    PROVE  /\ Ticks(m) \in Nat /\ Ticks(m) <= Ticks(n)
           /\ m < n => Ticks(m) + TickMs <= Ticks(n)
<1>0. TickMs \in Nat
  BY SchedAssumption
<1>1. Ticks(m) \in Nat /\ Ticks(n) \in Nat
  BY <1>0 DEF Ticks
<1>2. PICK k \in Nat : n = m + k
  <2>1. n - m \in Nat /\ n = m + (n - m)
    OBVIOUS
  <2> QED BY <2>1
<1>3. TickMs * (m + k) = TickMs * m + TickMs * k /\ TickMs * k \in Nat
  BY <1>0
<1>4. m < n => TickMs <= TickMs * k
  <2> SUFFICES ASSUME m < n PROVE TickMs <= TickMs * k
    OBVIOUS
  <2>1. PICK j \in Nat : k = j + 1
    <3>1. k - 1 \in Nat /\ k = (k - 1) + 1
      BY <1>2
    <3> QED BY <3>1
  <2>2. TickMs * (j + 1) = TickMs * j + TickMs /\ TickMs * j \in Nat
    BY <1>0
  <2> QED BY <2>1, <2>2, <1>0
<1>5. Ticks(n) = Ticks(m) + TickMs * k
  BY <1>2, <1>3 DEF Ticks
<1> QED BY <1>0, <1>1, <1>3, <1>4, <1>5

\* The sleepers ahead of t are at most the other tasks, and fewer of them
\* means fewer ticks.
LEMMA AheadCount ==
    ASSUME NEW r, NEW s, NEW t \in Tasks, Good(r), Good(s)
    PROVE  /\ Ticks(Cardinality(Ahead(r, t))) \in Nat
           /\ Ticks(Cardinality(Ahead(r, t))) <= Ticks(Cardinality(Tasks) - 1)
           /\ Ticks(Cardinality(Tasks) - 1) \in Nat
           /\ Ahead(s, t) \subseteq Ahead(r, t) =>
                Ticks(Cardinality(Ahead(s, t))) <= Ticks(Cardinality(Ahead(r, t)))
           /\ \A u \in Ahead(r, t) : Ahead(s, t) \subseteq Ahead(r, t) \ {u} =>
                Ticks(Cardinality(Ahead(s, t))) + TickMs
                  <= Ticks(Cardinality(Ahead(r, t)))
<1> DEFINE A == Ahead(r, t)
           B == Ahead(s, t)
<1>1. A \subseteq Tasks \ {t} /\ B \subseteq Tasks \ {t}
  BY DEF Ahead, Good, RingOK, OrderOK
<1>2. IsFiniteSet(Tasks)
  BY TasksAssumption
<1>3. IsFiniteSet(Tasks \ {t}) /\ Cardinality(Tasks \ {t}) = Cardinality(Tasks) - 1
  BY <1>2, FS_RemoveElement
<1> HIDE DEF A, B
<1>4. /\ IsFiniteSet(A) /\ Cardinality(A) <= Cardinality(Tasks) - 1
      /\ IsFiniteSet(B)
  BY <1>1, <1>3, FS_Subset
<1>5. /\ Cardinality(A) \in Nat /\ Cardinality(B) \in Nat
      /\ Cardinality(Tasks) - 1 \in Nat
  BY <1>3, <1>4, FS_CardinalityType
<1>6. B \subseteq A => Cardinality(B) <= Cardinality(A)
  BY <1>4, FS_Subset
<1>7. ASSUME NEW u \in A, B \subseteq A \ {u} PROVE Cardinality(B) < Cardinality(A)
  <2>1. IsFiniteSet(A \ {u}) /\ Cardinality(A \ {u}) = Cardinality(A) - 1
    BY <1>4, FS_RemoveElement
  <2>2. Cardinality(B) <= Cardinality(A \ {u})
    BY <2>1, <1>7, FS_Subset
  <2> QED BY <2>1, <2>2, <1>5
<1>8. /\ Ticks(Cardinality(A)) \in Nat
      /\ Ticks(Cardinality(A)) <= Ticks(Cardinality(Tasks) - 1)
  BY <1>4, <1>5, TicksMonotone
<1>9. Ticks(Cardinality(Tasks) - 1) \in Nat
  BY <1>5, TicksMonotone
<1>10. B \subseteq A => Ticks(Cardinality(B)) <= Ticks(Cardinality(A))
  BY <1>5, <1>6, TicksMonotone
<1>11. ASSUME NEW u \in A, B \subseteq A \ {u}
       PROVE  Ticks(Cardinality(B)) + TickMs <= Ticks(Cardinality(A))
  <2>1. Cardinality(B) < Cardinality(A)
    BY <1>7, <1>11
  <2> QED BY <2>1, <1>5, TicksMonotone
<1> QED BY <1>8, <1>9, <1>10, <1>11 DEF A, B

\* A task that moves to the end of a queue goes ahead of nobody, and is
\* ahead of nobody it was ahead of before.
LEMMA AheadShrinks ==
    ASSUME NEW r, NEW q, NEW x, NEW t \in Tasks, t # x
    PROVE  /\ Ahead(Enq(r, q, x), t) \subseteq Ahead(r, t)
           /\ \A p : r.head[p] # NULL =>
                Ahead(Enq(Del(r, p, x), q, x), t) \subseteq Ahead(r, t) \ {x}
<1>1. ASSUME NEW d PROVE Ahead(Enq(d, q, x), t) \subseteq Ahead(d, t)
  <2> SUFFICES ASSUME NEW u \in Tasks, <<u, t>> \in Enq(d, q, x).ahead
               PROVE  <<u, t>> \in d.ahead
    BY DEF Ahead, Before
  <2>1. Enq(d, q, x).ahead = d.ahead \cup {<<w, x>> : w \in On(d, q)}
    BY DEF Enq, EnqHistory
  <2>2. <<u, t>> \notin {<<w, x>> : w \in On(d, q)}
    OBVIOUS
  <2> QED BY <2>1, <2>2
<1>2. ASSUME NEW p, r.head[p] # NULL
      PROVE  Ahead(Del(r, p, x), t) \subseteq Ahead(r, t) \ {x}
  <2> SUFFICES ASSUME NEW u \in Tasks, <<u, t>> \in Del(r, p, x).ahead
               PROVE  <<u, t>> \in r.ahead /\ u # x
    BY DEF Ahead, Before
  <2>1. Del(r, p, x).ahead = {e \in r.ahead : e[1] # x /\ e[2] # x}
    BY <1>2 DEF Del, DelHistory
  <2> QED BY <2>1
<1> QED BY <1>1, <1>2

\* Every step keeps the account of each sleeper.
LEMMA DelayStep ==
    SchedInv /\ SchedInv' /\ DelayInv /\ [SchedNext]_schedVars => DelayInv'
<1> SUFFICES ASSUME SchedInv, SchedInv', DelayInv, [SchedNext]_schedVars,
                    NEW t \in Tasks, rings'.loc[t] = "wakeup"
             PROVE  DelayOK(t)'
  BY DEF DelayInv
<1> DEFINE A == Ticks(Cardinality(Ahead(rings, t)))
           B == Ticks(Cardinality(Ahead(rings', t)))
           Most == Ticks(Cardinality(Tasks) - 1)
<1>0. /\ SchedTypeOK /\ PhaseOK /\ Good(rings) /\ Good(rings')
      /\ rings.loc \in [Tasks -> Places]
      /\ TickMs \in Nat /\ wakeup_after_msec \in [Tasks -> Nat]
      /\ asked \in [Tasks -> Nat] /\ slept \in [Tasks -> Nat]
  BY SchedAssumption DEF SchedInv, QueuesOK, Good, SchedTypeOK, Heaps
<1>q. "run" \in Queues /\ "wakeup" \in Queues /\ "event" \in Queues
  BY DEF Queues
<1>c. /\ A \in Nat /\ B \in Nat /\ Most \in Nat /\ B <= Most
      /\ Ahead(rings', t) \subseteq Ahead(rings, t) => B <= A
      /\ \A u \in Ahead(rings, t) :
            Ahead(rings', t) \subseteq Ahead(rings, t) \ {u} => B + TickMs <= A
  BY <1>0, AheadCount
<1> HIDE DEF A, B, Most
<1>old. rings.loc[t] = "wakeup" =>
           /\ asked[t] = 0 <=> wakeup_after_msec[t] = 0
           /\ slept[t] + wakeup_after_msec[t] + A <= asked[t] + Most + Behind(t)
  BY DEF DelayInv, DelayOK, A, Most
<1>new. ASSUME asked'[t] = 0 <=> wakeup_after_msec'[t] = 0,
               slept'[t] + wakeup_after_msec'[t] + B <= asked'[t] + Most + Behind(t)'
        PROVE  DelayOK(t)'
  BY <1>new DEF DelayOK, B, Most, Ticks
<1>b. /\ cpu # "wakeupq" => Behind(t) = 0
      /\ cpu' # "wakeupq" => Behind(t)' = 0
      /\ Behind(t) \in {0, TickMs} /\ Behind(t)' \in {0, TickMs}
  BY DEF Behind, Unvisited
\* Steps that leave the times alone and put nobody ahead of a sleeper.
<1>same. ASSUME rings.loc[t] = "wakeup", cpu # "wakeupq", cpu' # "wakeupq",
                wakeup_after_msec'[t] = wakeup_after_msec[t],
                asked'[t] = asked[t], slept'[t] = slept[t],
                Ahead(rings', t) \subseteq Ahead(rings, t)
         PROVE  DelayOK(t)'
  <2>1. B <= A /\ Behind(t) = 0 /\ Behind(t)' = 0
    BY <1>same, <1>b, <1>c
  <2>2. asked'[t] = 0 <=> wakeup_after_msec'[t] = 0
    BY <1>same, <1>old
  <2>3. slept'[t] + wakeup_after_msec'[t] + B <= asked'[t] + Most + Behind(t)'
    BY <2>1, <1>same, <1>old, <1>c, <1>0
  <2> QED BY <2>2, <2>3, <1>new
<1>1. CASE do_ir_timer
  <2>1. /\ rings' = rings /\ wakeup_after_msec' = wakeup_after_msec
        /\ asked' = asked /\ rings.loc[t] = "wakeup" /\ cpu = "task"
        /\ slept'[t] = slept[t] + TickMs
        /\ scan' = rings.head["wakeup"]
        /\ rings.head["wakeup"] # NULL => cpu' = "wakeupq"
    BY <1>1 DEF do_ir_timer
  <2>2. /\ rings.head["wakeup"] # NULL
        /\ t = rings.head["wakeup"] \/ Before(rings, rings.head["wakeup"], t)
    BY <2>1, <1>0, <1>q DEF Good, RingOK, HeadOK, On
  <2>3. Behind(t)' = TickMs
    BY <2>1, <2>2 DEF Behind, Unvisited
  <2>4. Behind(t) = 0 /\ B = A
    BY <2>1, <1>b DEF A, B
  <2>5. asked'[t] = 0 <=> wakeup_after_msec'[t] = 0
    BY <2>1, <1>old
  <2>6. slept'[t] + wakeup_after_msec'[t] + B <= asked'[t] + Most + Behind(t)'
    BY <2>1, <2>3, <2>4, <1>old, <1>c, <1>0
  <2> QED BY <2>5, <2>6, <1>new
<1>2. CASE sched_update_wakeupq
  <2> USE DEF sched_update_wakeupq
  <2>0. scan \in Tasks /\ rings.loc[scan] = "wakeup" /\ cpu = "wakeupq"
    BY <1>2, <1>0 DEF PhaseOK
  <2> DEFINE m == Enq(Del(rings, "wakeup", scan), "run", scan)
             n == rings.next[scan]
  <2>1. m.loc = [rings.loc EXCEPT ![scan] = "run"]
    BY <2>0, <1>0, WalkOK
  <2>2. rings' = IF TimeLeft(scan) THEN rings ELSE m
    BY <1>2
  <2>3. rings.loc[t] = "wakeup" /\ (t = scan => TimeLeft(scan))
    BY <2>0, <2>1, <2>2, <1>0
  <2>4. /\ asked'[t] = asked[t] /\ slept'[t] = slept[t]
        /\ wakeup_after_msec'[t] = IF t = scan THEN wakeup_after_msec[t] - TickMs
                                   ELSE wakeup_after_msec[t]
    BY <1>2, <2>0, <2>3, <1>0 DEF history
  <2>5. CASE t = scan
    \* The walk takes one tick off the time left.
    <3>1. wakeup_after_msec[t] > TickMs /\ B = A
      BY <2>2, <2>3, <2>5 DEF TimeLeft, A, B
    <3>2. /\ wakeup_after_msec'[t] = wakeup_after_msec[t] - TickMs
          /\ asked'[t] = asked[t] /\ slept'[t] = slept[t]
      BY <2>4, <2>5
    <3>3. asked'[t] = 0 <=> wakeup_after_msec'[t] = 0
      BY <3>1, <3>2, <1>old, <2>3, <1>0
    <3>4. slept'[t] + wakeup_after_msec'[t] + B <= asked'[t] + Most + Behind(t)'
      BY <3>1, <3>2, <1>old, <2>3, <1>0, <1>b, <1>c
    <3> QED BY <3>3, <3>4, <1>new
  <2>6. CASE t # scan /\ TimeLeft(scan)
    \* The walk goes on to the tasks behind scan.
    <3>1. rings' = rings /\ B = A
      BY <2>2, <2>6 DEF A, B
    <3>2. /\ wakeup_after_msec'[t] = wakeup_after_msec[t]
          /\ asked'[t] = asked[t] /\ slept'[t] = slept[t]
      BY <2>4, <2>6
    <3>3. ASSUME Unvisited(t) PROVE Unvisited(t)'
      <4>1. Before(rings, scan, t)
        BY <3>3, <2>6 DEF Unvisited
      <4>2. n \in Tasks /\ Follows(rings, scan, n) /\ rings.loc[n] = "wakeup"
        BY <2>0, <1>0 DEF Good, RingOK, LinksOK, Follows
      <4>3. Before(rings, scan, n) /\ ~Before(rings, t, n)
        BY <4>1, <4>2 DEF Follows
      <4>4. t = n \/ Before(rings, n, t)
        BY <4>2, <4>3, <2>3, <1>0 DEF Good, RingOK, OrderOK
      <4>5. rings.head["wakeup"] # NULL /\ n # rings.head["wakeup"]
        <5>1. ~Before(rings, n, scan) /\ n # scan
          BY <4>2, <4>3, <2>0, <1>0 DEF Good, RingOK, OrderOK
        <5> QED BY <5>1, <2>0, <1>0, <1>q DEF Good, RingOK, HeadOK, On
      <4>6. scan' = n /\ cpu' = "wakeupq"
        BY <1>2, <2>6, <4>5 DEF LoopAgain
      <4> QED BY <4>4, <4>6, <3>1 DEF Unvisited
    <3>4. Behind(t) <= Behind(t)'
      BY <3>3, <1>b, <1>0 DEF Behind
    <3>5. asked'[t] = 0 <=> wakeup_after_msec'[t] = 0
      BY <3>2, <1>old, <2>3
    <3>6. slept'[t] + wakeup_after_msec'[t] + B <= asked'[t] + Most + Behind(t)'
      BY <3>1, <3>2, <3>4, <1>old, <2>3, <1>0, <1>b, <1>c
    <3> QED BY <3>5, <3>6, <1>new
  <2>7. CASE t # scan /\ ~TimeLeft(scan)
    \* A tick lost to the end of the walk is paid for by the release of scan.
    <3>1. rings' = m /\ rings.head["wakeup"] # NULL
      BY <2>0, <2>2, <2>7, <1>0, <1>q, DelGood
    <3>2. Ahead(rings', t) \subseteq Ahead(rings, t) \ {scan}
      BY <3>1, <2>7, AheadShrinks
    <3>3. /\ wakeup_after_msec'[t] = wakeup_after_msec[t]
          /\ asked'[t] = asked[t] /\ slept'[t] = slept[t]
      BY <2>4, <2>7
    <3>4. B <= A
      BY <3>2, <1>c
    <3>5. Unvisited(t) => B + TickMs <= A
      BY <3>2, <2>0, <2>7, <1>c DEF Unvisited, Ahead
    <3>6. B + Behind(t) <= A
      BY <3>4, <3>5, <1>0, <1>c DEF Behind
    <3>7. asked'[t] = 0 <=> wakeup_after_msec'[t] = 0
      BY <3>3, <1>old, <2>3
    <3>8. slept'[t] + wakeup_after_msec'[t] + B <= asked'[t] + Most + Behind(t)'
      BY <3>3, <3>6, <1>old, <2>3, <1>0, <1>b, <1>c
    <3> QED BY <3>7, <3>8, <1>new
  <2> QED BY <2>5, <2>6, <2>7
<1>3. CASE schedule_timer
  BY <1>3, <1>same DEF schedule_timer
<1>4. ASSUME NEW ev \in Events, do_ir_event(ev) PROVE DelayOK(t)'
  BY <1>4, <1>same DEF do_ir_event
<1>5. CASE sched_update_wakeupevq
  <2>0. scan \in Tasks /\ rings.loc[scan] = "event"
    BY <1>5, <1>0 DEF PhaseOK, sched_update_wakeupevq
  <2> DEFINE m == Enq(Del(rings, "event", scan), "run", scan)
  <2>1. m.loc = [rings.loc EXCEPT ![scan] = "run"]
    BY <2>0, <1>0, WalkOK
  <2>2. rings' = rings \/ rings' = m
    BY <1>5 DEF sched_update_wakeupevq
  <2>3. rings.loc[t] = "wakeup" /\ t # scan
    BY <2>0, <2>1, <2>2, <1>0
  <2>4. rings.head["event"] # NULL
    BY <2>0, <1>0, <1>q, DelGood
  <2>5. Ahead(rings', t) \subseteq Ahead(rings, t)
    BY <2>2, <2>3, <2>4, AheadShrinks
  <2> QED BY <1>5, <2>3, <2>5, <1>same DEF sched_update_wakeupevq
<1>6. ASSUME NEW q \in {"wakeup", "event"}, BlockCurrent(q), cpu = "task", tr \in Tasks,
             t # tr
      PROVE  rings.loc[t] = "wakeup" /\ Ahead(rings', t) \subseteq Ahead(rings, t)
  <2>1. current_task = tr /\ rings'.loc = [rings.loc EXCEPT ![tr] = q]
    BY <1>6, BlockOK
  <2>2. rings.loc[tr] = "run"
    BY <1>6, <2>1, TasksAssumption DEF SchedInv, DispatchOK
  <2> DEFINE d == DummyFollows(rings, tr)
  <2>3. Good(d) /\ d.loc = rings.loc
    BY <2>2, <1>6, <1>0, <1>q, DummyGood
  <2>4. d.head["run"] # NULL
    BY <2>2, <2>3, <1>6, <1>q, DelGood
  <2>5. rings' = Enq(Del(d, "run", tr), q, tr)
    BY <1>6, <2>1 DEF BlockCurrent
  <2>6. d.ahead = rings.ahead
    BY <1>0 DEF DummyFollows, Good, Heaps
  <2> HIDE DEF d
  <2>7. Ahead(rings', t) \subseteq Ahead(d, t)
    BY <2>4, <2>5, <1>6, AheadShrinks
  <2>8. Ahead(d, t) = Ahead(rings, t)
    BY <2>6 DEF Ahead, Before
  <2> QED BY <2>1, <2>7, <2>8, <1>6, <1>0
<1>7. ASSUME NEW ms \in SleepMs, sys_wakeup_after_msec(ms) PROVE DelayOK(t)'
  <2>1. current_task = tr /\ tr \in Tasks /\ cpu = "task" /\ cpu' = "task"
    BY <1>7, BlockOK DEF sys_wakeup_after_msec
  <2>2. CASE t = tr
    <3>1. asked'[t] = ms /\ wakeup_after_msec'[t] = ms /\ slept'[t] = 0 /\ ms \in Nat
      BY <1>7, <2>1, <2>2, <1>0, SchedAssumption DEF sys_wakeup_after_msec
    <3>2. Behind(t)' = 0
      BY <2>1, <1>b
    <3>3. asked'[t] = 0 <=> wakeup_after_msec'[t] = 0
      BY <3>1
    <3>4. slept'[t] + wakeup_after_msec'[t] + B <= asked'[t] + Most + Behind(t)'
      BY <3>1, <3>2, <1>c
    <3> QED BY <3>3, <3>4, <1>new
  <2>3. CASE t # tr
    <3>1. rings.loc[t] = "wakeup" /\ Ahead(rings', t) \subseteq Ahead(rings, t)
      BY <1>6, <1>7, <2>1, <2>3 DEF sys_wakeup_after_msec
    <3> QED BY <1>7, <2>1, <2>3, <3>1, <1>0, <1>same DEF sys_wakeup_after_msec
  <2> QED BY <2>2, <2>3
<1>8. ASSUME NEW ev \in Events, sys_wakeup_after_event(ev) PROVE DelayOK(t)'
  <2>1. /\ rings'.loc = [rings.loc EXCEPT ![tr] = "event"] /\ tr \in Tasks
        /\ cpu = "task" /\ cpu' = "task"
    BY <1>8, BlockOK DEF sys_wakeup_after_event
  <2>2. t # tr
    BY <2>1, <1>0
  <2>3. rings.loc[t] = "wakeup" /\ Ahead(rings', t) \subseteq Ahead(rings, t)
    BY <1>6, <1>8, <2>1, <2>2 DEF sys_wakeup_after_event
  <2> QED BY <1>8, <2>1, <2>3, <1>same DEF sys_wakeup_after_event
<1>9. ASSUME NEW u \in Tasks, sys_exec(u) PROVE DelayOK(t)'
  <2>1. rings'.loc = [rings.loc EXCEPT ![u] = "run"] /\ rings' = Enq(rings, "run", u)
    BY <1>9, EnqLoc DEF sys_exec
  <2>2. rings.loc[t] = "wakeup" /\ t # u
    BY <2>1, <1>0
  <2>3. Ahead(rings', t) \subseteq Ahead(rings, t)
    BY <2>1, <2>2, AheadShrinks
  <2> QED BY <1>9, <2>2, <2>3, <1>same DEF sys_exec
<1>10. CASE UNCHANGED schedVars
  <2>1. /\ rings' = rings /\ cpu' = cpu /\ scan' = scan /\ asked' = asked
        /\ slept' = slept /\ wakeup_after_msec' = wakeup_after_msec
    BY <1>10 DEF schedVars
  <2>2. Behind(t)' = Behind(t) /\ B = A
    BY <2>1 DEF Behind, Unvisited, A, B, Before
  <2>3. asked'[t] = 0 <=> wakeup_after_msec'[t] = 0
    BY <2>1, <1>old
  <2>4. slept'[t] + wakeup_after_msec'[t] + B <= asked'[t] + Most + Behind(t)'
    BY <2>1, <2>2, <1>old
  <2> QED BY <2>3, <2>4, <1>new
<1> QED
  BY <1>1, <1>2, <1>3, <1>4, <1>5, <1>7, <1>8, <1>9, <1>10 DEF SchedNext

(***************************************************************************)
(* sched_update_wakeupq(): although the walk ends early whenever the head  *)
(* is released, a sleeper loses at most one tick for each other task.      *)
(***************************************************************************)
THEOREM NeverLongLate == SchedSpec => []SleepBounded
<1>1. SchedInit => DelayInv
  <2> SUFFICES ASSUME SchedInit PROVE DelayInv
    OBVIOUS
  <2>1. rings.loc = [EmptyHeap.loc EXCEPT ![Shell] = "run"]
    BY EnqLoc DEF SchedInit
  <2>2. \A t \in Tasks : rings.loc[t] # "wakeup"
    BY <2>1, SchedAssumption DEF EmptyHeap
  <2> QED BY <2>2 DEF DelayInv
<1>2. SchedInv /\ SchedInv' /\ DelayInv /\ [SchedNext]_schedVars => DelayInv'
  BY DelayStep
<1>3. SchedInv /\ DelayInv => SleepBounded
  <2> SUFFICES ASSUME SchedInv, DelayInv, NEW t \in Tasks,
                      cpu = "task", rings.loc[t] = "wakeup"
               PROVE  slept[t] < (IF asked[t] = 0 THEN TickMs ELSE asked[t])
                                   + Ticks(Cardinality(Tasks) - 1)
    BY DEF SleepBounded, Ticks
  <2> DEFINE A == Ticks(Cardinality(Ahead(rings, t)))
             Most == Ticks(Cardinality(Tasks) - 1)
  <2>0. /\ TickMs \in Nat \ {0} /\ wakeup_after_msec[t] \in Nat
        /\ asked[t] \in Nat /\ slept[t] \in Nat /\ Good(rings)
    BY SchedAssumption DEF SchedInv, SchedTypeOK, QueuesOK, Good
  <2>1. A \in Nat /\ Most \in Nat
    BY <2>0, AheadCount
  <2>2. Behind(t) = 0
    BY DEF Behind, Unvisited
  <2>3. /\ asked[t] = 0 <=> wakeup_after_msec[t] = 0
        /\ slept[t] + wakeup_after_msec[t] + A <= asked[t] + Most + 0
    BY <2>2 DEF DelayInv, DelayOK
  <2> HIDE DEF A, Most
  <2>4. slept[t] < (IF asked[t] = 0 THEN TickMs ELSE asked[t]) + Most
    BY <2>0, <2>1, <2>3
  <2> QED BY <2>4 DEF Most
<1> QED
  BY <1>1, <1>2, <1>3, SchedInvariant, PTL DEF SchedSpec
=============================================================================
