-------------------------- MODULE Simulator_proofs --------------------------
(***************************************************************************)
(* Proofs about Simulator, for all delays and any number of events.        *)
(*                                                                         *)
(* The invariants are inductive only together: IsExpired is right because  *)
(* no waiting event lies before the clock (FutureInv) and every event that *)
(* left did so by running or by Remove (GoneInv); and both need uids that  *)
(* are never given twice (UidInv).                                         *)
(***************************************************************************)
EXTENDS Simulator, SequenceTheorems, FiniteSetTheorems, TLAPS

TypeInv ==
    /\ events \in SUBSET Event /\ ids \in SUBSET Event
    /\ m_uid \in Nat /\ m_currentTs \in Nat /\ m_currentUid \in Nat
    /\ m_stop \in BOOLEAN
    /\ m_unscheduledEvents \in Int
    /\ m_destroyEvents \in Seq(Event)
    /\ m_eventsWithContext \in Seq(Delays) /\ m_eventsWithContextEmpty \in BOOLEAN
    /\ m_eventsWithContextMutex \in BOOLEAN
    /\ cancelled \in SUBSET Nat /\ notified \in SUBSET Nat
    /\ phase \in Phases

\* uids and impls below m_uid, and no two events or ids with the same.
UidInv ==
    /\ m_uid >= VALID /\ m_currentUid < m_uid
    /\ \A e \in events : e.uid \in VALID .. m_uid - 1 /\ e.impl = e.uid
    /\ \A id \in ids : id.impl \in VALID .. m_uid - 1 /\ (id.uid = DESTROY \/ id.uid = id.impl)
    /\ \A e, f \in events : e.impl = f.impl => e = f
    /\ \A id \in ids, f \in events : id.impl = f.impl => id = f

\* The destroy list holds different destroy ids.
DestroyInv ==
    /\ \A i \in 1 .. Len(m_destroyEvents) :
          m_destroyEvents[i] \in ids /\ m_destroyEvents[i].uid = DESTROY
    /\ \A i, j \in 1 .. Len(m_destroyEvents) :
          m_destroyEvents[i].impl = m_destroyEvents[j].impl => i = j

\* The clock has passed the event.
Past(e) == e.ts < m_currentTs \/ (e.ts = m_currentTs /\ e.uid <= m_currentUid)

FutureInv == \A e \in events : ~ Past(e)

GoneInv ==
    phase # "disposed" =>
        \A id \in ids :
            id.uid # DESTROY /\ id \notin events => Past(id) \/ id.impl \in cancelled

\* What waits has not been notified, and nothing was that is not issued yet.
NotifiedInv ==
    /\ cancelled \cap notified = {}
    /\ \A e \in events : e.impl \notin notified
    /\ \A i \in 1 .. Len(m_destroyEvents) : m_destroyEvents[i].impl \notin notified
    /\ \A n \in notified : n < m_uid

\* The flag hides at most the event of the thread that holds the lock.
FlagInv ==
    m_eventsWithContextEmpty /\ m_eventsWithContext # <<>> =>
        m_eventsWithContextMutex /\ Len(m_eventsWithContext) = 1

IInv ==
    TypeInv /\ UidInv /\ DestroyInv /\ FutureInv /\ GoneInv /\ NotifiedInv /\ FlagInv

-----------------------------------------------------------------------------

\* A waiting event is one that IsExpired does not report.
LEMMA NotExpired ==
    ASSUME IInv, phase # "disposed", NEW id \in ids, ~ IsExpired(id), id.uid # DESTROY
    PROVE  id \in events /\ id.impl \notin cancelled
  BY DEF IInv, GoneInv, Past, IsExpired

\* The initial state.
LEMMA InitInv == Init => IInv
  <1> SUFFICES ASSUME Init PROVE IInv OBVIOUS
  <1>1. TypeInv
    <2>1. <<>> \in Seq(Event) /\ <<>> \in Seq(Delays) OBVIOUS
    <2>2. m_uid \in Nat /\ m_currentTs \in Nat /\ m_currentUid \in Nat
          /\ m_unscheduledEvents \in Int
      BY DEF Init, VALID, INVALID
    <2>3. phase \in Phases BY DEF Init, Phases
    <2> QED BY <2>1, <2>2, <2>3, Zenon DEF Init, TypeInv
  <1>2. UidInv BY DEF Init, UidInv, VALID, INVALID
  <1>3. DestroyInv BY DEF Init, DestroyInv
  <1>4. FutureInv /\ GoneInv BY DEF Init, FutureInv, GoneInv
  <1>5. NotifiedInv BY DEF Init, NotifiedInv
  <1>6. FlagInv BY DEF Init, FlagInv
  <1> QED BY <1>1, <1>2, <1>3, <1>4, <1>5, <1>6 DEF IInv

\* Steps that only move the main thread or set m_stop.
LEMMA MoveInv ==
    ASSUME IInv, phase # "disposed", phase' \in Phases, phase' # "disposed", m_stop' \in BOOLEAN,
           UNCHANGED <<events, m_uid, clock, m_unscheduledEvents, m_destroyEvents,
                       shared, cancelled, ids, notified>>
    PROVE  IInv'
  <1> USE DEF IInv, clock, shared
  <1>1. TypeInv' BY DEF TypeInv
  <1>2. UidInv' BY DEF UidInv
  <1>3. DestroyInv' BY DEF DestroyInv
  <1>4. FutureInv' BY DEF FutureInv, Past
  <1>5. GoneInv' BY DEF GoneInv, Past
  <1>6. NotifiedInv' BY DEF NotifiedInv
  <1>7. FlagInv' BY DEF FlagInv
  <1> QED BY <1>1, <1>2, <1>3, <1>4, <1>5, <1>6, <1>7

LEMMA ScheduleInv ==
    ASSUME IInv, NEW d \in Delays, Schedule(d)
    PROVE  IInv'
  <1> DEFINE ev == NewEvent(d)
  <1>0. /\ ev \in Event /\ ev.uid = m_uid /\ ev.impl = m_uid /\ ev.ts >= m_currentTs
        /\ m_uid' = m_uid + 1 /\ events' = events \cup {ev} /\ ids' = ids \cup {ev}
        /\ m_uid \in Nat
    BY SimulatorAssumption DEF IInv, TypeInv, Schedule, NewEvent, Event
  <1> HIDE DEF ev
  <1>1. TypeInv' BY <1>0 DEF IInv, TypeInv, Schedule, clock, shared
  <1>2. UidInv' BY <1>0 DEF IInv, TypeInv, UidInv, Schedule, clock, VALID, DESTROY, Event
  <1>3. DestroyInv' BY <1>0 DEF IInv, DestroyInv, Schedule
  <1>4. FutureInv' BY <1>0 DEF IInv, TypeInv, UidInv, FutureInv, Past, Schedule, clock, Event
  <1>5. GoneInv' BY <1>0 DEF IInv, GoneInv, Past, Schedule, clock, UserCode
  <1>6. NotifiedInv' BY <1>0 DEF IInv, TypeInv, NotifiedInv, Schedule
  <1>7. FlagInv' BY DEF IInv, FlagInv, Schedule, shared
  <1> QED BY <1>1, <1>2, <1>3, <1>4, <1>5, <1>6, <1>7 DEF IInv

LEMMA ScheduleDestroyInv ==
    ASSUME IInv, ScheduleDestroy
    PROVE  IInv'
  <1> DEFINE id == [ts |-> m_currentTs, uid |-> DESTROY, impl |-> m_uid]
  <1>0. /\ id \in Event /\ id.uid = DESTROY /\ id.impl = m_uid
        /\ m_uid' = m_uid + 1 /\ ids' = ids \cup {id} /\ m_uid \in Nat
        /\ m_destroyEvents \in Seq(Event) /\ m_destroyEvents' = Append(m_destroyEvents, id)
    BY DEF IInv, TypeInv, ScheduleDestroy, Event, DESTROY
  <1> HIDE DEF id
  <1>a. /\ Len(m_destroyEvents') = Len(m_destroyEvents) + 1
        /\ \A i \in 1 .. Len(m_destroyEvents) : m_destroyEvents'[i] = m_destroyEvents[i]
        /\ m_destroyEvents'[Len(m_destroyEvents) + 1] = id
        /\ Len(m_destroyEvents) \in Nat
        /\ m_destroyEvents' \in Seq(Event)
    BY <1>0
  <1>1. TypeInv' BY <1>0, <1>a DEF IInv, TypeInv, ScheduleDestroy, clock, shared
  <1>2. UidInv' BY <1>0 DEF IInv, TypeInv, UidInv, ScheduleDestroy, clock, VALID, DESTROY, Event
  <1>3. DestroyInv'
    <2> DEFINE n == Len(m_destroyEvents)
    <2>1. \A i \in 1 .. n : m_destroyEvents[i] \in ids /\ m_destroyEvents[i].uid = DESTROY
      BY DEF IInv, DestroyInv
    <2>2. \A i \in 1 .. n : m_destroyEvents[i].impl < m_uid
      BY <2>1, <1>0 DEF IInv, UidInv, VALID
    <2>3. \A i, j \in 1 .. n : m_destroyEvents[i].impl = m_destroyEvents[j].impl => i = j
      BY DEF IInv, DestroyInv
    <2> HIDE DEF n
    <2>4. n \in Nat /\ Len(m_destroyEvents') = n + 1 /\ m_destroyEvents'[n + 1] = id
          /\ \A i \in 1 .. n : m_destroyEvents'[i] = m_destroyEvents[i]
      BY <1>a DEF n
    <2>5. \A i \in 1 .. n + 1 : m_destroyEvents'[i] \in ids' /\ m_destroyEvents'[i].uid = DESTROY
      BY <2>1, <2>4, <1>0
    <2>6. \A i, j \in 1 .. n + 1 : m_destroyEvents'[i].impl = m_destroyEvents'[j].impl => i = j
      BY <2>2, <2>3, <2>4, <1>0
    <2> QED BY <2>4, <2>5, <2>6 DEF DestroyInv
  <1>4. FutureInv' BY DEF IInv, FutureInv, Past, ScheduleDestroy, clock
  <1>5. GoneInv' BY <1>0 DEF IInv, GoneInv, Past, ScheduleDestroy, clock, UserCode
  <1>6. NotifiedInv' BY <1>0, <1>a DEF IInv, TypeInv, NotifiedInv, ScheduleDestroy
  <1>7. FlagInv' BY DEF IInv, FlagInv, ScheduleDestroy, shared
  <1> QED BY <1>1, <1>2, <1>3, <1>4, <1>5, <1>6, <1>7 DEF IInv

LEMMA CancelInv ==
    ASSUME IInv, NEW id \in ids, Cancel(id)
    PROVE  IInv'
  <1>0. id.impl \in Nat /\ id.impl \notin notified
    <2>1. CASE id.uid = DESTROY
      BY <2>1 DEF IInv, TypeInv, NotifiedInv, Cancel, IsExpired, InDestroyList, Event
    <2>2. CASE id.uid # DESTROY
      <3>1. id \in events BY <2>2, NotExpired DEF Cancel, UserCode
      <3> QED BY <3>1 DEF IInv, TypeInv, NotifiedInv, Event
    <2> QED BY <2>1, <2>2
  <1>1. TypeInv' BY <1>0 DEF IInv, TypeInv, Cancel, clock, shared
  <1>2. UidInv' BY DEF IInv, UidInv, Cancel, clock
  <1>3. DestroyInv' BY DEF IInv, DestroyInv, Cancel
  <1>4. FutureInv' BY DEF IInv, FutureInv, Past, Cancel, clock
  <1>5. GoneInv' BY DEF IInv, GoneInv, Past, Cancel, clock
  <1>6. NotifiedInv' BY <1>0 DEF IInv, NotifiedInv, Cancel
  <1>7. FlagInv' BY DEF IInv, FlagInv, Cancel, shared
  <1> QED BY <1>1, <1>2, <1>3, <1>4, <1>5, <1>6, <1>7 DEF IInv

LEMMA RemoveEventInv ==
    ASSUME IInv, NEW id \in ids, RemoveEvent(id)
    PROVE  IInv'
  <1>0. id \in events /\ id.impl \in Nat /\ id.impl \notin notified
    <2>1. id \in events BY NotExpired DEF RemoveEvent, UserCode
    <2> QED BY <2>1 DEF IInv, TypeInv, NotifiedInv, Event
  <1>1. TypeInv'
    <2>1. m_unscheduledEvents' \in Int BY DEF IInv, TypeInv, RemoveEvent
    <2>2. events' \in SUBSET Event /\ cancelled' \in SUBSET Nat
      BY <1>0 DEF IInv, TypeInv, RemoveEvent
    <2> QED BY <2>1, <2>2 DEF IInv, TypeInv, RemoveEvent, clock, shared
  <1>2. UidInv' BY DEF IInv, UidInv, RemoveEvent, clock
  <1>3. DestroyInv' BY DEF IInv, DestroyInv, RemoveEvent
  <1>4. FutureInv' BY DEF IInv, FutureInv, Past, RemoveEvent, clock
  <1>5. GoneInv' BY DEF IInv, GoneInv, Past, RemoveEvent, clock
  <1>6. NotifiedInv' BY <1>0 DEF IInv, NotifiedInv, RemoveEvent
  <1>7. FlagInv' BY DEF IInv, FlagInv, RemoveEvent, shared
  <1> QED BY <1>1, <1>2, <1>3, <1>4, <1>5, <1>6, <1>7 DEF IInv

LEMMA RemoveDestroyInv ==
    ASSUME IInv, NEW id \in ids, RemoveDestroy(id)
    PROVE  IInv'
  <1>0. PICK i \in 1 .. Len(m_destroyEvents) :
          m_destroyEvents' = SubSeq(m_destroyEvents, 1, i - 1)
                               \o SubSeq(m_destroyEvents, i + 1, Len(m_destroyEvents))
    BY DEF RemoveDestroy
  <1>t. m_destroyEvents \in Seq(Event) /\ Len(m_destroyEvents) \in Nat
    BY DEF IInv, TypeInv
  <1> DEFINE old(k) == IF k < i THEN k ELSE k + 1
  <1>a. /\ m_destroyEvents' \in Seq(Event)
        /\ Len(m_destroyEvents') = Len(m_destroyEvents) - 1
        /\ \A k \in 1 .. Len(m_destroyEvents') : m_destroyEvents'[k] = m_destroyEvents[old(k)]
    <2> DEFINE s == m_destroyEvents
               a == SubSeq(s, 1, i - 1)
               b == SubSeq(s, i + 1, Len(s))
    <2>1. a \in Seq(Event) /\ Len(a) = i - 1 /\ \A k \in 1 .. i - 1 : a[k] = s[k]
      BY <1>t
    <2>2. /\ b \in Seq(Event) /\ Len(b) = Len(s) - i
          /\ \A k \in 1 .. Len(s) - i : b[k] = s[i + k]
      BY <1>t
    <2>3. m_destroyEvents' = a \o b BY <1>0
    <2> HIDE DEF s, a, b
    <2>4. Len(s) \in Nat /\ i \in 1 .. Len(s) BY <1>t DEF s
    <2>5. /\ a \o b \in Seq(Event) /\ Len(a \o b) = Len(s) - 1
          /\ \A k \in 1 .. Len(s) - 1 : (a \o b)[k] = IF k < i THEN a[k] ELSE b[k - i + 1]
      <3>1. a \o b \in Seq(Event) /\ Len(a \o b) = Len(a) + Len(b)
        BY <2>1, <2>2, ConcatProperties
      <3>2. \A k \in 1 .. Len(a) + Len(b) :
               (a \o b)[k] = IF k <= Len(a) THEN a[k] ELSE b[k - Len(a)]
        BY <2>1, <2>2
      <3> QED BY <3>1, <3>2, <2>1, <2>2, <2>4
    <2>6. \A k \in 1 .. Len(s) - 1 : (a \o b)[k] = s[old(k)]
      BY <2>1, <2>2, <2>4, <2>5
    <2> QED BY <2>3, <2>5, <2>6 DEF s
  <1>b. \A k \in 1 .. Len(m_destroyEvents') :
           old(k) \in 1 .. Len(m_destroyEvents) /\ m_destroyEvents'[k] = m_destroyEvents[old(k)]
    BY <1>a, <1>t
  <1>c. \A k, l \in 1 .. Len(m_destroyEvents') : old(k) = old(l) => k = l
    BY <1>a, <1>t
  <1> HIDE DEF old
  <1>1. TypeInv' BY <1>a DEF IInv, TypeInv, RemoveDestroy, clock, shared
  <1>2. UidInv' BY DEF IInv, UidInv, RemoveDestroy, clock
  <1>3. DestroyInv'
    <2>1. ids' = ids BY DEF RemoveDestroy
    <2>2. \A k \in 1 .. Len(m_destroyEvents') :
             m_destroyEvents'[k] \in ids' /\ m_destroyEvents'[k].uid = DESTROY
      BY <1>b, <2>1 DEF IInv, DestroyInv
    <2>3. \A k, l \in 1 .. Len(m_destroyEvents') :
             m_destroyEvents'[k].impl = m_destroyEvents'[l].impl => k = l
      BY <1>b, <1>c DEF IInv, DestroyInv
    <2> QED BY <2>2, <2>3 DEF DestroyInv
  <1>4. FutureInv' BY DEF IInv, FutureInv, Past, RemoveDestroy, clock
  <1>5. GoneInv' BY DEF IInv, GoneInv, Past, RemoveDestroy, clock
  <1>6. NotifiedInv' BY <1>b DEF IInv, NotifiedInv, RemoveDestroy
  <1>7. FlagInv' BY DEF IInv, FlagInv, RemoveDestroy, shared
  <1> QED BY <1>1, <1>2, <1>3, <1>4, <1>5, <1>6, <1>7 DEF IInv

LEMMA SwapInv ==
    ASSUME IInv, Swap
    PROVE  IInv'
  <1> DEFINE n == Len(m_eventsWithContext)
             new == {ContextEvent(i) : i \in 1 .. n}
  <1>t. n \in Nat /\ m_uid \in Nat /\ m_currentTs \in Nat /\ m_uid >= VALID
    BY DEF IInv, TypeInv, UidInv
  <1>d. \A i \in 1 .. n : m_eventsWithContext[i] \in Nat
    <2>1. m_eventsWithContext \in Seq(Delays) BY DEF IInv, TypeInv
    <2>2. \A i \in 1 .. n : m_eventsWithContext[i] \in Delays BY <2>1
    <2> QED BY <2>2, SimulatorAssumption
  <1>e. \A i \in 1 .. n :
           LET e == ContextEvent(i)
           IN  /\ e \in Event /\ e.uid = m_uid + i - 1 /\ e.impl = m_uid + i - 1
               /\ e.ts >= m_currentTs
    BY <1>t, <1>d DEF ContextEvent, Event, VALID
  <1>f. \A e \in new :
           /\ e \in Event /\ e.uid \in m_uid .. m_uid + n - 1 /\ e.impl = e.uid
           /\ e.ts >= m_currentTs
    BY <1>e, <1>t
  <1>g. \A e, f \in new : e.impl = f.impl => e = f
    BY <1>e, <1>t
  <1>h. /\ events' = events \cup new /\ m_uid' = m_uid + n
        /\ UNCHANGED <<clock, m_stop, m_destroyEvents, m_eventsWithContextMutex, cancelled,
                       ids, notified>>
        /\ m_eventsWithContext' = <<>> /\ m_eventsWithContextEmpty' = TRUE
        /\ phase = "swap" /\ phase' = "loop"
        /\ m_unscheduledEvents' = m_unscheduledEvents + n
    BY DEF Swap
  <1> HIDE DEF n, new
  <1>1. TypeInv'
    <2>1. events' \in SUBSET Event BY <1>f, <1>h DEF IInv, TypeInv
    <2>2. m_uid' \in Nat /\ m_unscheduledEvents' \in Int BY <1>t, <1>h DEF IInv, TypeInv
    <2>3. <<>> \in Seq(Delays) OBVIOUS
    <2>4. phase' \in Phases BY <1>h DEF Phases
    <2> QED BY <2>1, <2>2, <2>3, <2>4, <1>h, Zenon DEF IInv, TypeInv, clock
  <1>2. UidInv'
    <2>1. m_uid' >= VALID /\ m_currentUid' < m_uid' /\ m_uid' >= m_uid
      BY <1>t, <1>h DEF IInv, TypeInv, UidInv, clock, VALID
    <2>2. \A e \in events' : e.uid \in VALID .. m_uid' - 1 /\ e.impl = e.uid
      BY <1>f, <1>h, <1>t DEF IInv, UidInv, VALID
    <2>3. \A id \in ids' : id.impl \in VALID .. m_uid' - 1 /\ (id.uid = DESTROY \/ id.uid = id.impl)
      BY <2>1, <1>h, <1>t DEF IInv, UidInv, VALID
    <2>4. \A e, f \in events' : e.impl = f.impl => e = f
      BY <1>f, <1>g, <1>h, <1>t DEF IInv, UidInv, VALID
    <2>5. \A id \in ids', f \in events' : id.impl = f.impl => id = f
      BY <1>f, <1>h, <1>t DEF IInv, UidInv, VALID
    <2> QED BY <2>1, <2>2, <2>3, <2>4, <2>5 DEF UidInv
  <1>3. DestroyInv' BY <1>h DEF IInv, DestroyInv
  <1>4. FutureInv'
    BY <1>f, <1>h, <1>t DEF IInv, TypeInv, UidInv, FutureInv, Past, clock, Event
  <1>5. GoneInv' BY <1>h DEF IInv, GoneInv, Past, clock
  <1>6. NotifiedInv'
    BY <1>f, <1>h, <1>t DEF IInv, TypeInv, NotifiedInv
  <1>7. FlagInv' BY <1>h DEF FlagInv
  <1> QED BY <1>1, <1>2, <1>3, <1>4, <1>5, <1>6, <1>7 DEF IInv

LEMMA ProcessOneEventInv ==
    ASSUME IInv, NEW ev \in events, IsFirst(ev), ProcessOneEvent(ev)
    PROVE  IInv'
  <1>0. /\ ev \in Event /\ ev.impl = ev.uid /\ ev.uid < m_uid /\ ~ Past(ev)
        /\ \A f \in events : f.impl = ev.impl => f = ev
    BY DEF IInv, TypeInv, UidInv, FutureInv
  <1>1. TypeInv'
    <2>1. m_unscheduledEvents' \in Int /\ m_currentTs' \in Nat /\ m_currentUid' \in Nat
      BY <1>0 DEF IInv, TypeInv, ProcessOneEvent, Event
    <2>2. events' \in SUBSET Event /\ notified' \in SUBSET Nat
      BY <1>0 DEF IInv, TypeInv, ProcessOneEvent, Event
    <2>3. phase' \in Phases BY DEF ProcessOneEvent, Phases
    <2> QED BY <2>1, <2>2, <2>3 DEF IInv, TypeInv, ProcessOneEvent, shared
  <1>2. UidInv' BY <1>0 DEF IInv, UidInv, ProcessOneEvent
  <1>3. DestroyInv' BY DEF IInv, DestroyInv, ProcessOneEvent
  <1>4. FutureInv'
    <2>1. events' = events \ {ev} /\ m_currentTs' = ev.ts /\ m_currentUid' = ev.uid
      BY DEF ProcessOneEvent
    <2>2. \A e \in events \ {ev} : Before(ev, e) /\ e \in Event
      BY DEF IsFirst, IInv, TypeInv
    <2> QED BY <2>1, <2>2, <1>0 DEF FutureInv, Past, Before, Event
  <1>5. GoneInv'
    <2>1. ids' = ids /\ cancelled' = cancelled /\ events' = events \ {ev} /\ phase # "disposed"
      BY DEF ProcessOneEvent
    <2>2. Past(ev)' BY <1>0 DEF ProcessOneEvent, Past, Event
    <2>3. \A id \in ids : Past(id) => Past(id)'
      BY <1>0 DEF IInv, TypeInv, Past, ProcessOneEvent, Event
    <2>4. \A id \in ids : id.uid # DESTROY /\ id \notin events => Past(id) \/ id.impl \in cancelled
      BY <2>1 DEF IInv, GoneInv
    <2> HIDE DEF Past
    <2>5. ASSUME NEW id \in ids, id.uid # DESTROY, id \notin events'
          PROVE  Past(id)' \/ id.impl \in cancelled
      BY <2>1, <2>2, <2>3, <2>4, <2>5
    <2> QED BY <2>1, <2>5 DEF GoneInv
  <1>6. NotifiedInv'
    <2>1. \A i \in 1 .. Len(m_destroyEvents) : m_destroyEvents[i].impl # ev.impl
      BY <1>0 DEF IInv, UidInv, DestroyInv, VALID, DESTROY
    <2> QED BY <1>0, <2>1 DEF IInv, NotifiedInv, ProcessOneEvent
  <1>7. FlagInv' BY DEF IInv, FlagInv, ProcessOneEvent, shared
  <1> QED BY <1>1, <1>2, <1>3, <1>4, <1>5, <1>6, <1>7 DEF IInv

LEMMA DestroyOneInv ==
    ASSUME IInv, DestroyOne
    PROVE  IInv'
  <1> DEFINE impl == Head(m_destroyEvents).impl
  <1>t. /\ m_destroyEvents \in Seq(Event) /\ Len(m_destroyEvents) \in Nat /\ Len(m_destroyEvents) >= 1
        /\ m_destroyEvents' = Tail(m_destroyEvents) /\ impl = m_destroyEvents[1].impl
    BY DEF IInv, TypeInv, DestroyOne
  <1>a. /\ m_destroyEvents' \in Seq(Event)
        /\ Len(m_destroyEvents') = Len(m_destroyEvents) - 1
        /\ \A k \in 1 .. Len(m_destroyEvents') :
              k + 1 \in 2 .. Len(m_destroyEvents) /\ m_destroyEvents'[k] = m_destroyEvents[k + 1]
    BY <1>t
  <1>b. /\ m_destroyEvents[1] \in ids /\ m_destroyEvents[1].uid = DESTROY
        /\ impl \in VALID .. m_uid - 1 /\ impl \in Nat
        /\ \A k \in 2 .. Len(m_destroyEvents) : m_destroyEvents[k].impl # impl
        /\ \A e \in events : e.impl # impl
    BY <1>t DEF IInv, TypeInv, UidInv, DestroyInv, VALID, DESTROY
  <1>c. \/ impl \in cancelled /\ UNCHANGED <<phase, notified>>
        \/ impl \notin cancelled /\ phase' = "destroyHandler" /\ notified' = notified \cup {impl}
    BY DEF DestroyOne
  <1>d. phase = "destroying"
        /\ UNCHANGED <<events, m_uid, clock, m_stop, m_unscheduledEvents, shared, cancelled, ids>>
    BY DEF DestroyOne
  <1> HIDE DEF impl
  <1>1. TypeInv'
    <2>1. notified' \in SUBSET Nat BY <1>b, <1>c DEF IInv, TypeInv
    <2>2. phase' \in Phases BY <1>c, <1>d DEF Phases
    <2> QED BY <2>1, <2>2, <1>a, <1>d DEF IInv, TypeInv, clock, shared
  <1>2. UidInv' BY <1>d DEF IInv, UidInv, clock
  <1>3. DestroyInv' BY <1>a, <1>d, <1>t DEF IInv, DestroyInv
  <1>4. FutureInv' BY <1>d DEF IInv, FutureInv, Past, clock
  <1>5. GoneInv' BY <1>c, <1>d DEF IInv, GoneInv, Past, clock
  <1>6. NotifiedInv'
    <2>1. (cancelled \cap notified = {})' BY <1>c, <1>d DEF IInv, NotifiedInv
    <2>2. \A e \in events' : e.impl \notin notified' BY <1>b, <1>c, <1>d DEF IInv, NotifiedInv
    <2>3. \A k \in 1 .. Len(m_destroyEvents') : m_destroyEvents'[k].impl \notin notified'
      <3> TAKE k \in 1 .. Len(m_destroyEvents')
      <3>1. k + 1 \in 2 .. Len(m_destroyEvents) /\ m_destroyEvents'[k] = m_destroyEvents[k + 1]
        BY <1>a
      <3>2. m_destroyEvents[k + 1].impl # impl BY <3>1, <1>b
      <3>3. m_destroyEvents[k + 1].impl \notin notified BY <3>1, <1>t DEF IInv, NotifiedInv
      <3> QED BY <3>1, <3>2, <3>3, <1>c
    <2>4. \A m \in notified' : m < m_uid'
      <3>1. impl < m_uid /\ m_uid' = m_uid BY <1>b, <1>d DEF IInv, TypeInv, VALID
      <3>2. \A m \in notified : m < m_uid BY DEF IInv, NotifiedInv
      <3> QED BY <3>1, <3>2, <1>c
    <2> QED BY <2>1, <2>2, <2>3, <2>4 DEF NotifiedInv
  <1>7. FlagInv' BY <1>d DEF IInv, FlagInv, shared
  <1> QED BY <1>1, <1>2, <1>3, <1>4, <1>5, <1>6, <1>7 DEF IInv

LEMMA DoDisposeInv ==
    ASSUME IInv, DoDispose
    PROVE  IInv'
  <1>0. /\ events' = {} /\ phase' = "disposed"
        /\ UNCHANGED <<clock, m_stop, m_destroyEvents, cancelled, ids, notified>>
    BY DEF DoDispose
  <1>s. /\ m_eventsWithContextMutex' = m_eventsWithContextMutex
        /\ \/ UNCHANGED <<m_uid, m_unscheduledEvents, m_eventsWithContext,
                          m_eventsWithContextEmpty>>
           \/ /\ m_uid' = m_uid + Len(m_eventsWithContext)
              /\ m_unscheduledEvents' = m_unscheduledEvents + Len(m_eventsWithContext)
              /\ m_eventsWithContext' = <<>> /\ m_eventsWithContextEmpty' = TRUE
    BY DEF DoDispose, shared
  <1>u. m_uid' \in Nat /\ m_uid' >= m_uid /\ m_unscheduledEvents' \in Int
    BY <1>s DEF IInv, TypeInv
  <1>1. TypeInv'
    <2>1. <<>> \in Seq(Delays) OBVIOUS
    <2>2. m_eventsWithContext' \in Seq(Delays) /\ m_eventsWithContextEmpty' \in BOOLEAN
      BY <2>1, <1>s, Zenon DEF IInv, TypeInv
    <2>3. phase' \in Phases BY <1>0 DEF Phases
    <2> QED BY <2>2, <2>3, <1>0, <1>s, <1>u, Zenon DEF IInv, TypeInv, clock
  <1>2. UidInv' BY <1>u, <1>0 DEF IInv, TypeInv, UidInv, clock, VALID, Event
  <1>3. DestroyInv' BY <1>0 DEF IInv, DestroyInv
  <1>4. FutureInv' /\ GoneInv' BY <1>0 DEF FutureInv, GoneInv
  <1>6. NotifiedInv' BY <1>u, <1>0 DEF IInv, TypeInv, NotifiedInv
  <1>7. FlagInv' BY <1>s DEF IInv, FlagInv
  <1> QED BY <1>1, <1>2, <1>3, <1>4, <1>6, <1>7 DEF IInv

LEMMA ThreadScheduleInv ==
    ASSUME IInv, NEW d \in Delays, ThreadSchedule(d)
    PROVE  IInv'
  <1>0. /\ m_eventsWithContext' \in Seq(Delays)
        /\ Len(m_eventsWithContext') = Len(m_eventsWithContext) + 1
        /\ m_eventsWithContextMutex' = TRUE
        /\ m_eventsWithContextEmpty' = m_eventsWithContextEmpty
    BY DEF IInv, TypeInv, ThreadSchedule
  <1>1. TypeInv' BY <1>0 DEF IInv, TypeInv, ThreadSchedule, clock
  <1>2. UidInv' BY DEF IInv, UidInv, ThreadSchedule, clock
  <1>3. DestroyInv' BY DEF IInv, DestroyInv, ThreadSchedule
  <1>4. FutureInv' BY DEF IInv, FutureInv, Past, ThreadSchedule, clock
  <1>5. GoneInv' BY DEF IInv, GoneInv, Past, ThreadSchedule, clock
  <1>6. NotifiedInv' BY DEF IInv, NotifiedInv, ThreadSchedule
  <1>7. FlagInv'
    <2>1. m_eventsWithContextEmpty => m_eventsWithContext = <<>>
      BY DEF IInv, FlagInv, ThreadSchedule
    <2>2. m_eventsWithContext = <<>> => Len(m_eventsWithContext') = 1 BY <1>0
    <2> QED BY <1>0, <2>1, <2>2 DEF FlagInv
  <1> QED BY <1>1, <1>2, <1>3, <1>4, <1>5, <1>6, <1>7 DEF IInv

LEMMA ThreadReturnsInv ==
    ASSUME IInv, ThreadReturns
    PROVE  IInv'
  <1>1. TypeInv' BY DEF IInv, TypeInv, ThreadReturns, clock
  <1>2. UidInv' BY DEF IInv, UidInv, ThreadReturns, clock
  <1>3. DestroyInv' BY DEF IInv, DestroyInv, ThreadReturns
  <1>4. FutureInv' BY DEF IInv, FutureInv, Past, ThreadReturns, clock
  <1>5. GoneInv' BY DEF IInv, GoneInv, Past, ThreadReturns, clock
  <1>6. NotifiedInv' BY DEF IInv, NotifiedInv, ThreadReturns
  <1>7. FlagInv' BY DEF FlagInv, ThreadReturns
  <1> QED BY <1>1, <1>2, <1>3, <1>4, <1>5, <1>6, <1>7 DEF IInv

\* Every step preserves the inductive invariant.
LEMMA NextInv == IInv /\ [Next]_vars => IInv'
  <1> SUFFICES ASSUME IInv, [Next]_vars PROVE IInv' OBVIOUS
  <1>1. ASSUME NEW d \in Delays, Schedule(d) PROVE IInv' BY <1>1, ScheduleInv
  <1>2. CASE ScheduleDestroy BY <1>2, ScheduleDestroyInv
  <1>3. CASE Stop BY <1>3, MoveInv DEF Stop, UserCode, IInv, TypeInv
  <1>4. CASE Run BY <1>4, MoveInv DEF Run, Phases
  <1>5. CASE HandlerReturns BY <1>5, MoveInv DEF HandlerReturns, Phases, IInv, TypeInv
  <1>6. CASE ReadFlag BY <1>6, MoveInv DEF ReadFlag, Phases, IInv, TypeInv
  <1>7. CASE RunReturns BY <1>7, MoveInv DEF RunReturns, Phases, IInv, TypeInv
  <1>8. CASE Destroy BY <1>8, MoveInv DEF Destroy, Phases, IInv, TypeInv
  <1>9. CASE DestroyOne BY <1>9, DestroyOneInv
  <1>10. ASSUME NEW id \in ids, Cancel(id) PROVE IInv' BY <1>10, CancelInv
  <1>11. ASSUME NEW id \in ids, RemoveDestroy(id) PROVE IInv' BY <1>11, RemoveDestroyInv
  <1>12. ASSUME NEW id \in ids, RemoveEvent(id) PROVE IInv' BY <1>12, RemoveEventInv
  <1>13. ASSUME NEW d \in Delays, ThreadSchedule(d) PROVE IInv' BY <1>13, ThreadScheduleInv
  <1>14. CASE Swap BY <1>14, SwapInv
  <1>18. CASE ThreadReturns BY <1>18, ThreadReturnsInv
  <1>15. CASE DoDispose BY <1>15, DoDisposeInv
  <1>16. ASSUME NEW ev \in events, IsFirst(ev), ProcessOneEvent(ev) PROVE IInv'
    BY <1>16, ProcessOneEventInv
  <1>17. CASE UNCHANGED vars
    <2> USE <1>17 DEF vars, IInv
    <2>1. TypeInv' BY DEF TypeInv
    <2>2. UidInv' BY DEF UidInv
    <2>3. DestroyInv' BY DEF DestroyInv
    <2>4. FutureInv' BY DEF FutureInv, Past
    <2>5. GoneInv' BY DEF GoneInv, Past
    <2>6. NotifiedInv' BY DEF NotifiedInv
    <2>7. FlagInv' BY DEF FlagInv
    <2> QED BY <2>1, <2>2, <2>3, <2>4, <2>5, <2>6, <2>7
  <1> QED
    BY <1>1, <1>2, <1>3, <1>4, <1>5, <1>6, <1>7, <1>8, <1>9, <1>10, <1>11, <1>12, <1>13,
       <1>14, <1>15, <1>16, <1>17, <1>18 DEF Next, OutsideQueue

\* The inductive invariant holds always.
THEOREM IInvHolds == Spec => []IInv
  <1> QED BY InitInv, NextInv, PTL DEF Spec

\* The types, and uids that are never given twice (SimTypeOK): events of the
\* program, of handlers and of other threads get different uids.
THEOREM SimTypeCorrect == Spec => []SimTypeOK
  <1>1. IInv => SimTypeOK
    BY DEF IInv, TypeInv, UidInv, SimTypeOK
  <1> QED BY <1>1, IInvHolds, PTL

\* IsExpired is right about every id (ExpiredMeansGone): what the clock says is
\* what the scheduler holds.
THEOREM ExpiredCorrect == Spec => []ExpiredMeansGone
  <1>1. IInv => ExpiredMeansGone
    BY DEF IInv, FutureInv, GoneInv, Past, ExpiredMeansGone, IsExpired
  <1> QED BY <1>1, IInvHolds, PTL

\* No cancelled event is notified (CancelledNeverRuns), neither by Run nor by
\* Destroy.
THEOREM CancelCorrect == Spec => []CancelledNeverRuns
  <1>1. IInv => CancelledNeverRuns
    BY DEF IInv, NotifiedInv, CancelledNeverRuns
  <1> QED BY <1>1, IInvHolds, PTL

\* The clock and the order of events (RunsInOrder): ProcessOneEvent only moves
\* forward in the order of EventKey.
THEOREM OrderCorrect == Spec => RunsInOrder
  <1> DEFINE Ordered == m_currentUid' # m_currentUid =>
                          Before([ts |-> m_currentTs, uid |-> m_currentUid],
                                 [ts |-> m_currentTs', uid |-> m_currentUid'])
  <1>1. IInv /\ [Next]_vars => [Ordered]_vars
    <2> SUFFICES ASSUME IInv, Next, m_currentUid' # m_currentUid
                 PROVE  Before([ts |-> m_currentTs, uid |-> m_currentUid],
                               [ts |-> m_currentTs', uid |-> m_currentUid'])
      OBVIOUS
    <2>1. PICK ev \in events : ProcessOneEvent(ev)
      BY DEF Next, OutsideQueue, clock, Schedule, ScheduleDestroy, Stop, Run, HandlerReturns,
             ReadFlag, RunReturns, Destroy, DestroyOne, Cancel, RemoveDestroy, RemoveEvent,
             ThreadSchedule, ThreadReturns, Swap, DoDispose
    <2>2. ev \in Event /\ ~ Past(ev) BY DEF IInv, TypeInv, FutureInv
    <2>3. m_currentTs' = ev.ts /\ m_currentUid' = ev.uid BY <2>1 DEF ProcessOneEvent
    <2> QED BY <2>2, <2>3 DEF Past, Before, Event, IInv, TypeInv
  <1> QED BY <1>1, IInvHolds, PTL DEF Spec, RunsInOrder

\* Whatever other threads do between the two writes and around the unlocked
\* read, a pass overlooks no event of a call that has returned
\* (ThreadEventsTaken): the flag says empty only as long as the list was empty
\* when the thread that now holds the lock took it.
THEOREM ThreadsCorrect == Spec => ThreadEventsTaken
  <1> DEFINE Taken == phase = "process" /\ phase' = "loop" /\ m_eventsWithContext # <<>> =>
                        m_eventsWithContextMutex /\ Len(m_eventsWithContext) = 1
  <1>1. IInv /\ [Next]_vars => [Taken]_vars
    <2> SUFFICES ASSUME IInv, Next, phase = "process", phase' = "loop",
                        m_eventsWithContext # <<>>
                 PROVE  m_eventsWithContextMutex /\ Len(m_eventsWithContext) = 1
      OBVIOUS
    <2>1. ReadFlag
      BY DEF Next, OutsideQueue, UserCode, Schedule, ScheduleDestroy, Stop, Run, HandlerReturns,
             RunReturns, Destroy, DestroyOne, Cancel, RemoveDestroy, RemoveEvent,
             ThreadSchedule, ThreadReturns, Swap, DoDispose, ProcessOneEvent
    <2>2. m_eventsWithContextEmpty = TRUE BY <2>1 DEF ReadFlag, IInv, TypeInv
    <2> QED BY <2>2 DEF IInv, FlagInv
  <1> QED BY <1>1, IInvHolds, PTL DEF Spec, ThreadEventsTaken

-----------------------------------------------------------------------------
(* The count of pending events.                                             *)

CountInv ==
    phase # "disposed" =>
        IsFiniteSet(events) /\ m_unscheduledEvents = Cardinality(events)

\* The events of a list of other threads are as many as the list is long.
LEMMA ContextCount ==
    ASSUME IInv
    PROVE  LET n == Len(m_eventsWithContext)
               new == {ContextEvent(i) : i \in 1 .. n}
           IN  IsFiniteSet(new) /\ Cardinality(new) = n /\ events \cap new = {}
  <1> DEFINE n == Len(m_eventsWithContext)
             new == {ContextEvent(i) : i \in 1 .. n}
             f == [i \in 1 .. n |-> ContextEvent(i)]
  <1>1. n \in Nat /\ m_uid \in Nat BY DEF IInv, TypeInv
  <1>2. \A i \in 1 .. n : ContextEvent(i).uid = m_uid + i - 1 BY DEF ContextEvent
  <1>3. \A i, j \in 1 .. n : ContextEvent(i) = ContextEvent(j) => i = j BY <1>1, <1>2
  <1>4. f \in Bijection(1 .. n, new)
    <2>1. f \in Injection(1 .. n, new) BY <1>3 DEF Injection, IsInjective
    <2>2. f \in Surjection(1 .. n, new) BY DEF Surjection
    <2> QED BY <2>1, <2>2 DEF Bijection
  <1>5. IsFiniteSet(1 .. n) /\ Cardinality(1 .. n) = n BY <1>1, FS_Interval
  <1>6. IsFiniteSet(new) /\ Cardinality(new) = n
    <2>1. ExistsBijection(1 .. n, new) BY <1>4 DEF ExistsBijection
    <2> HIDE DEF n, new
    <2> QED BY <2>1, <1>5, FS_Bijection
  <1>7. events \cap new = {} BY <1>1, <1>2 DEF IInv, UidInv
  <1> QED BY <1>6, <1>7

LEMMA NextCount == IInv /\ CountInv /\ [Next]_vars => CountInv'
  <1> SUFFICES ASSUME IInv, CountInv, [Next]_vars PROVE CountInv' OBVIOUS
  <1>0. CASE phase = "disposed"
    BY <1>0 DEF Next, OutsideQueue, UserCode, Schedule, ScheduleDestroy, Stop, Run,
             HandlerReturns, ReadFlag, RunReturns, Destroy, DestroyOne, Cancel, RemoveDestroy,
             RemoveEvent, ThreadSchedule, ThreadReturns, Swap, DoDispose, ProcessOneEvent, vars, CountInv
  <1>1. ASSUME phase # "disposed", NEW d \in Delays, Schedule(d) PROVE CountInv'
    <2>1. NewEvent(d) \notin events
      BY DEF IInv, TypeInv, UidInv, NewEvent
    <2>2. IsFiniteSet(events) /\ m_unscheduledEvents = Cardinality(events) BY <1>1 DEF CountInv
    <2> QED BY <1>1, <2>1, <2>2, FS_AddElement DEF Schedule, CountInv
  <1>2. ASSUME phase # "disposed", NEW ev \in events, events' = events \ {ev},
               m_unscheduledEvents' = m_unscheduledEvents - 1
        PROVE  CountInv'
    <2>1. IsFiniteSet(events) /\ m_unscheduledEvents = Cardinality(events) BY <1>2 DEF CountInv
    <2> QED BY <1>2, <2>1, FS_RemoveElement DEF CountInv
  <1>3. ASSUME phase # "disposed", NEW id \in ids, RemoveEvent(id) PROVE CountInv'
    <2>1. id \in events BY <1>3, NotExpired DEF RemoveEvent
    <2> QED BY <1>2, <1>3, <2>1 DEF RemoveEvent
  <1>4. ASSUME phase # "disposed", NEW ev \in events, ProcessOneEvent(ev) PROVE CountInv'
    BY <1>2, <1>4 DEF ProcessOneEvent
  <1>5. ASSUME phase # "disposed", Swap PROVE CountInv'
    <2> DEFINE n == Len(m_eventsWithContext)
               new == {ContextEvent(i) : i \in 1 .. n}
    <2>1. IsFiniteSet(new) /\ Cardinality(new) = n /\ events \cap new = {} BY ContextCount
    <2>2. IsFiniteSet(events) /\ m_unscheduledEvents = Cardinality(events) BY <1>5 DEF CountInv
    <2>3. events' = events \cup new /\ m_unscheduledEvents' = m_unscheduledEvents + n
      BY <1>5 DEF Swap
    <2> HIDE DEF n, new
    <2>4. IsFiniteSet(events \cup new) /\ Cardinality(events \cup new) = Cardinality(events) + n
      <3>1. Cardinality(events) \in Nat /\ Cardinality(new) \in Nat
        BY <2>1, <2>2, FS_CardinalityType
      <3>2. Cardinality(events \cap new) = 0 BY <2>1, FS_EmptySet
      <3>3. /\ IsFiniteSet(events \cup new)
            /\ Cardinality(events \cup new)
                 = Cardinality(events) + Cardinality(new) - Cardinality(events \cap new)
        BY <2>1, <2>2, FS_Union
      <3> QED BY <3>1, <3>2, <3>3, <2>1
    <2> QED BY <2>2, <2>3, <2>4 DEF CountInv
  <1>6. CASE UNCHANGED <<events, m_unscheduledEvents>> /\ phase # "disposed"
    BY <1>6 DEF CountInv
  <1>7. CASE DoDispose BY <1>7 DEF DoDispose, CountInv
  <1>8. CASE OutsideQueue /\ phase # "disposed"
    <2>1. UNCHANGED <<events, m_unscheduledEvents>>
      BY <1>8 DEF OutsideQueue, ScheduleDestroy, Stop, Run, HandlerReturns, ReadFlag,
               RunReturns, Destroy, DestroyOne, Cancel, RemoveDestroy, ThreadSchedule,
               ThreadReturns
    <2> QED BY <1>6, <1>8, <2>1
  <1>9. CASE UNCHANGED vars BY <1>0, <1>6, <1>9 DEF vars
  <1> QED BY <1>0, <1>1, <1>3, <1>4, <1>5, <1>7, <1>8, <1>9 DEF Next

\* The counter of pending events is exact (NoEventLost), so the assertion at the
\* end of Run holds whenever the scheduler runs empty.
THEOREM CountCorrect == Spec => []NoEventLost
  <1>1. Init => CountInv BY FS_EmptySet DEF Init, CountInv
  <1>2. CountInv => NoEventLost BY DEF CountInv, NoEventLost
  <1> QED BY <1>1, <1>2, NextCount, IInvHolds, PTL DEF Spec
=============================================================================
