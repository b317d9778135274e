---------------------------- MODULE TaskQueues ----------------------------
(***************************************************************************)
(* The three task lists of kernel/sched.c: run_queue, wakeup_queue and     *)
(* wakeup_event_queue.  Each is a circular doubly linked list threaded     *)
(* through the one pair of prev/next pointers a struct task has, with a    *)
(* {head, len} record per list.  The operators below are the pointer       *)
(* manipulations of the six functions sched_{runq,wakeupq,wakeupevq}_      *)
(* {enq,del}, which are the same code three times over; they map a heap    *)
(* r (heads, lengths, links) to the heap the function leaves behind.       *)
(*                                                                         *)
(* r.loc and r.ahead are history fields, not code: r.loc[t] is the queue   *)
(* t was put on last and not taken off since ("none" if there is none),    *)
(* and <<u, v>> \in r.ahead says that both are on one queue and u was put  *)
(* there first.  They never influence the code fields.                     *)
(***************************************************************************)
EXTENDS Integers, FiniteSets

CONSTANTS Tasks,   \* struct task objects created by task_init
          Dummy,   \* static struct task dummy_task
          NULL

ASSUME TasksAssumption == /\ IsFiniteSet(Tasks)
                          /\ Dummy \notin Tasks
                          /\ NULL \notin Tasks
                          /\ Dummy # NULL

Queues == {"run", "wakeup", "event"}
Places == Queues \cup {"none"}
TaskPtr == Tasks \cup {NULL}

Heaps == [head  : [Queues -> TaskPtr],
          len   : [Queues -> Int],
          next  : [Tasks \cup {Dummy} -> TaskPtr],
          prev  : [Tasks -> TaskPtr],
          loc   : [Tasks -> Places],
          ahead : SUBSET (Tasks \X Tasks)]

\* The zeroed statics and task pages the system starts from.
EmptyHeap == [head  |-> [q \in Queues |-> NULL],
              len   |-> [q \in Queues |-> 0],
              next  |-> [t \in Tasks \cup {Dummy} |-> NULL],
              prev  |-> [t \in Tasks |-> NULL],
              loc   |-> [t \in Tasks |-> "none"],
              ahead |-> {}]

On(r, q) == {t \in Tasks : r.loc[t] = q}

(***************************************************************************)
(* Enq: insert t in front of the head, which in a ring is the tail.        *)
(***************************************************************************)
EnqHistory(r, q, t) ==
    [loc   |-> [r.loc EXCEPT ![t] = q],
     ahead |-> r.ahead \cup {<<u, t>> : u \in On(r, q)}]

Enq(r, q, t) ==
    LET h == r.head[q]
        e == EnqHistory(r, q, t)
    IN  IF h = NULL
        THEN [head  |-> [r.head EXCEPT ![q] = t],
              len   |-> [r.len EXCEPT ![q] = @ + 1],
              next  |-> [r.next EXCEPT ![t] = t],
              prev  |-> [r.prev EXCEPT ![t] = t],
              loc   |-> e.loc,
              ahead |-> e.ahead]
        ELSE [head  |-> r.head,
              len   |-> [r.len EXCEPT ![q] = @ + 1],
              next  |-> [r.next EXCEPT ![t] = h, ![r.prev[h]] = t],
              prev  |-> [r.prev EXCEPT ![t] = r.prev[h], ![h] = t],
              loc   |-> e.loc,
              ahead |-> e.ahead]

(***************************************************************************)
(* Del: unlink t.  The code decides between "unlink" and "the list becomes *)
(* empty" by looking at the head only, and never checks that t is on q.    *)
(***************************************************************************)
DelHistory(r, t) ==
    [loc   |-> [r.loc EXCEPT ![t] = "none"],
     ahead |-> {p \in r.ahead : p[1] # t /\ p[2] # t}]

\* Mutant: the head is not advanced when the head itself is unlinked.
DelKeepsHead(r, q, t) ==
    LET h == r.head[q]
        d == DelHistory(r, t)
    IN  IF h = NULL
        THEN r
        ELSE IF r.next[h] # h
        THEN [r EXCEPT !.len[q] = @ - 1, !.next[r.prev[t]] = r.next[t],
                       !.prev[r.next[t]] = r.prev[t],
                       !.loc = d.loc, !.ahead = d.ahead]
        ELSE [r EXCEPT !.head[q] = NULL, !.len[q] = @ - 1,
                       !.loc = d.loc, !.ahead = d.ahead]

Del(r, q, t) ==
    LET h == r.head[q]
        d == DelHistory(r, t)
    IN  IF h = NULL
        THEN r
        ELSE IF r.next[h] # h
        THEN [head  |-> [r.head EXCEPT ![q] = IF h = t THEN r.next[h] ELSE h],
              len   |-> [r.len EXCEPT ![q] = @ - 1],
              next  |-> [r.next EXCEPT ![r.prev[t]] = r.next[t]],
              prev  |-> [r.prev EXCEPT ![r.next[t]] = r.prev[t]],
              loc   |-> d.loc,
              ahead |-> d.ahead]
        ELSE [head  |-> [r.head EXCEPT ![q] = NULL],
              len   |-> [r.len EXCEPT ![q] = @ - 1],
              next  |-> r.next,
              prev  |-> r.prev,
              loc   |-> d.loc,
              ahead |-> d.ahead]

(***************************************************************************)
(* The six functions.                                                      *)
(***************************************************************************)
sched_runq_enq(r, t)      == Enq(r, "run", t)
sched_runq_del(r, t)      == Del(r, "run", t)
sched_wakeupq_enq(r, t)   == Enq(r, "wakeup", t)
sched_wakeupq_del(r, t)   == Del(r, "wakeup", t)
sched_wakeupevq_enq(r, t) == Enq(r, "event", t)
sched_wakeupevq_del(r, t) == Del(r, "event", t)

(***************************************************************************)
(* What a heap must look like.  RingOK(r) says that the pointers of every  *)
(* queue are exactly the ring of the tasks that were put on it, in the     *)
(* order they were put on it.                                              *)
(***************************************************************************)
Before(r, u, v) == <<u, v>> \in r.ahead

\* r.ahead orders the members of each queue and nothing else.
OrderOK(r) ==
    /\ \A u, v \in Tasks : Before(r, u, v) =>
            r.loc[u] = r.loc[v] /\ r.loc[u] # "none" /\ ~Before(r, v, u)
    /\ \A u, v \in Tasks :
            r.loc[u] = r.loc[v] /\ r.loc[u] # "none" /\ u # v
              => Before(r, u, v) \/ Before(r, v, u)
    /\ \A u, v, w \in Tasks :
            Before(r, u, v) /\ Before(r, v, w) => Before(r, u, w)

\* The head is the member that was put on the queue first.
HeadOK(r) ==
    \A q \in Queues :
        /\ r.head[q] = NULL <=> On(r, q) = {}
        /\ r.head[q] # NULL =>
             /\ r.loc[r.head[q]] = q
             /\ \A u \in On(r, q) : u # r.head[q] => Before(r, r.head[q], u)

\* v is the member of u's queue that follows u, cyclically.
Follows(r, u, v) ==
    /\ r.loc[v] = r.loc[u]
    /\ \/ /\ Before(r, u, v)
          /\ \A w \in Tasks : ~(Before(r, u, w) /\ Before(r, w, v))
       \/ /\ v = r.head[r.loc[u]]
          /\ \A w \in Tasks : ~Before(r, u, w)

LinksOK(r) ==
    \A u \in Tasks : r.loc[u] # "none" =>
        /\ r.next[u] \in Tasks
        /\ r.prev[u] \in Tasks
        /\ r.loc[r.prev[u]] = r.loc[u]
        /\ Follows(r, u, r.next[u])
        /\ r.prev[r.next[u]] = u
        /\ r.next[r.prev[u]] = u

LenOK(r) == \A q \in Queues : r.len[q] = Cardinality(On(r, q))

RingOK(r) == OrderOK(r) /\ HeadOK(r) /\ LinksOK(r) /\ LenOK(r)
=============================================================================
