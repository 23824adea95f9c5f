--------------------------- MODULE SchedulerQueues ---------------------------
(***************************************************************************)
(* The event queues a simulation can choose from: ListScheduler,           *)
(* HeapScheduler and CalendarScheduler (src/src/core/model/).  MapScheduler*)
(* and PriorityQueueScheduler hold the containers of the C++ library,      *)
(* which are the set of their events.                                      *)
(*                                                                         *)
(* A queue is a record: its kind and its data.  CalendarScheduler is       *)
(* modelled with buckets in chronological order (Reverse is off).          *)
(***************************************************************************)
EXTENDS Integers, SequencesExt

\* Mutant: a new event of the same time goes first.
EarlierOrSame(a, b) == a.ts <= b.ts

\* EventKey's operator<.
Earlier(a, b) == a.ts < b.ts \/ (a.ts = b.ts /\ a.uid < b.uid)

First(S) == CHOOSE e \in S : \A f \in S \ {e} : Earlier(e, f)

-----------------------------------------------------------------------------
(* ListScheduler, and one bucket of the calendar.                           *)

\* The event goes before the first one that is later.
InsertSorted(s, ev) ==
    LET i == SelectInSeq(s, LAMBDA e : Earlier(ev, e))
    IN  IF i = 0 THEN Append(s, ev) ELSE InsertAt(s, i, ev)

\* The first event with the uid, which the code asserts to find.
EraseUid(s, ev) == RemoveAt(s, SelectInSeq(s, LAMBDA e : e.uid = ev.uid))

-----------------------------------------------------------------------------
(* HeapScheduler: a sequence whose element i has the children 2i, 2i + 1.   *)

Exch(h, a, b) == [h EXCEPT ![a] = h[b], ![b] = h[a]]

Smallest(h, a, b) == IF Earlier(h[a], h[b]) THEN a ELSE b

RECURSIVE BottomUp(_, _)
BottomUp(h, i) ==
    IF i # 1 /\ Earlier(h[i], h[i \div 2])
    THEN BottomUp(Exch(h, i, i \div 2), i \div 2)
    ELSE h

RECURSIVE TopDown(_, _)
TopDown(h, i) ==
    LET left == 2 * i  right == 2 * i + 1
    IN  IF right <= Len(h)
        THEN LET child == Smallest(h, left, right)
             IN  IF Earlier(h[i], h[child]) THEN h ELSE TopDown(Exch(h, i, child), child)
        ELSE IF left > Len(h) \/ Earlier(h[i], h[left]) THEN h ELSE Exch(h, i, left)

HeapInsert(h, ev) == BottomUp(Append(h, ev), Len(h) + 1)

HeapRemoveAt(h, i) == TopDown(Front(Exch(h, i, Len(h))), i)

-----------------------------------------------------------------------------
(* CalendarScheduler.                                                       *)

\* CalendarScheduler::Init.
Calendar(nBuckets, width, startPrio) ==
    [buckets |-> [b \in 0 .. nBuckets - 1 |-> <<>>], nBuckets |-> nBuckets,
     width |-> width, lastPrio |-> startPrio,
     lastBucket |-> (startPrio \div width) % nBuckets,
     bucketTop |-> (startPrio \div width + 1) * width, qSize |-> 0]

Hash(c, ts) == (ts \div c.width) % c.nBuckets

DoInsert(c, ev) == [c EXCEPT !.buckets[Hash(c, ev.ts)] = InsertSorted(@, ev)]

\* Mutant: the year of the calendar is not looked at.
CalendarNextAnyYear(c) ==
    LET bucket(k) == (c.lastBucket + k) % c.nBuckets
        full == {k \in 0 .. c.nBuckets - 1 : c.buckets[bucket(k)] # <<>>}
        k == Min(full)
    IN  [bucket |-> bucket(k), top |-> c.bucketTop + k * c.width]

\* One round over the buckets from the last one used: the first whose head
\* falls into the bucket's current year, or else the bucket with the earliest.
CalendarNext(c) ==
    LET bucket(k) == (c.lastBucket + k) % c.nBuckets
        full == {k \in 0 .. c.nBuckets - 1 : c.buckets[bucket(k)] # <<>>}
        due  == {k \in full : Head(c.buckets[bucket(k)]).ts < c.bucketTop + k * c.width}
        min  == First({Head(c.buckets[bucket(k)]) : k \in full})
    IN  IF due # {}
        THEN [bucket |-> bucket(Min(due)), top |-> c.bucketTop + Min(due) * c.width]
        ELSE [bucket |-> Hash(c, min.ts), top |-> (min.ts \div c.width + 1) * c.width]

DoRemoveNext(c) ==
    LET next == CalendarNext(c)
    IN  [c EXCEPT !.buckets[next.bucket] = Tail(@),
                  !.lastBucket = next.bucket, !.bucketTop = next.top,
                  !.lastPrio = Head(c.buckets[next.bucket]).ts]

\* The mean gap of the first events, without the gaps above twice the mean.
CalculateNewWidth(c) ==
    LET n == Min({25, IF c.qSize <= 5 THEN c.qSize ELSE 5 + c.qSize \div 10})
        after[k \in 0 .. n] == IF k = 0 THEN c ELSE DoRemoveNext(after[k - 1])
        gap(k) == after[k + 1].lastPrio - after[k].lastPrio
        total  == MapThenSumSet(gap, 1 .. n - 1)
        twice  == (total \div (n - 1)) * 2
    IN  IF c.qSize < 2 THEN 1
        ELSE Max({1, 3 * MapThenSumSet(gap, {k \in 1 .. n - 1 : gap(k) <= twice})})

CalendarEvents(c) ==
    FoldLeft(LAMBDA s, b : s \o c.buckets[b], <<>>, [i \in 1 .. c.nBuckets |-> i - 1])

\* Mutant: the size is counted again only by later insertions.
ResizeUncounted(c, nBuckets) ==
    FoldLeft(DoInsert, Calendar(nBuckets, CalculateNewWidth(c), c.lastPrio), CalendarEvents(c))

Resize(c, nBuckets) ==
    FoldLeft(DoInsert,
             [Calendar(nBuckets, CalculateNewWidth(c), c.lastPrio) EXCEPT !.qSize = c.qSize],
             CalendarEvents(c))

ResizeUp(c) ==
    IF c.qSize > c.nBuckets * 2 /\ c.nBuckets < 32768 THEN Resize(c, c.nBuckets * 2) ELSE c

ResizeDown(c) == IF c.qSize < c.nBuckets \div 2 THEN Resize(c, c.nBuckets \div 2) ELSE c

CalendarInsert(c, ev) == ResizeUp([DoInsert(c, ev) EXCEPT !.qSize = @ + 1])

CalendarRemoveNext(c) == ResizeDown([DoRemoveNext(c) EXCEPT !.qSize = @ - 1])

CalendarRemove(c, ev) ==
    ResizeDown([c EXCEPT !.buckets[Hash(c, ev.ts)] = EraseUid(@, ev), !.qSize = @ - 1])

-----------------------------------------------------------------------------
(* The interface of Scheduler.                                              *)

EmptyQueue(kind) ==
    [kind |-> kind, data |-> CASE kind = "set" -> {}
                               [] kind \in {"list", "heap"} -> <<>>
                               [] kind = "calendar" -> Calendar(2, 1, 0)]

Contents(q) ==
    CASE q.kind = "set" -> q.data
      [] q.kind \in {"list", "heap"} -> Range(q.data)
      [] q.kind = "calendar" -> Range(CalendarEvents(q.data))

IsEmpty(q) ==
    CASE q.kind = "set" -> q.data = {}
      [] q.kind \in {"list", "heap"} -> q.data = <<>>
      [] q.kind = "calendar" -> q.data.qSize = 0

Insert(q, ev) ==
    [q EXCEPT !.data = CASE q.kind = "set" -> @ \cup {ev}
                         [] q.kind = "list" -> InsertSorted(@, ev)
                         [] q.kind = "heap" -> HeapInsert(@, ev)
                         [] q.kind = "calendar" -> CalendarInsert(@, ev)]

PeekNext(q) ==
    CASE q.kind = "set" -> First(q.data)
      [] q.kind \in {"list", "heap"} -> q.data[1]
      [] q.kind = "calendar" -> Head(q.data.buckets[CalendarNext(q.data).bucket])

RemoveNext(q) ==
    [q EXCEPT !.data = CASE q.kind = "set" -> @ \ {First(@)}
                         [] q.kind = "list" -> Tail(@)
                         [] q.kind = "heap" -> HeapRemoveAt(@, 1)
                         [] q.kind = "calendar" -> CalendarRemoveNext(@)]

QueueRemove(q, ev) ==
    [q EXCEPT !.data = CASE q.kind = "set" -> @ \ {ev}
                         [] q.kind = "list" -> EraseUid(@, ev)
                         [] q.kind = "heap" ->
                                HeapRemoveAt(@, SelectInSeq(@, LAMBDA e : e.uid = ev.uid))
                         [] q.kind = "calendar" -> CalendarRemove(@, ev)]

\* The events of a sequence, one after the other.
InsertAll(q, evs) == FoldLeft(Insert, q, evs)

\* DefaultSimulatorImpl::SetScheduler: one by one to the new queue.
RECURSIVE Transfer(_, _)
Transfer(from, to) ==
    IF IsEmpty(from) THEN to ELSE Transfer(RemoveNext(from), Insert(to, PeekNext(from)))
=============================================================================
