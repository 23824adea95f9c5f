------------------------------ MODULE Simulator ------------------------------
(***************************************************************************)
(* The engine that runs every event of the experiment:                     *)
(* DefaultSimulatorImpl (src/src/core/model/default-simulator-impl.cc),    *)
(* EventId and EventImpl.  The scheduler is the set of its events, and     *)
(* RemoveNext takes the first one; module SchedulerQueues has the data     *)
(* structures.                                                             *)
(*                                                                         *)
(* The main thread runs the program, Run's loop and the handlers of the    *)
(* events; further threads only call ScheduleWithContext, whose two writes *)
(* are two steps, since the main thread reads the second without the lock. *)
(* Contexts say which node an event belongs to and are left out.           *)
(***************************************************************************)
EXTENDS Integers, Sequences, FiniteSets

CONSTANTS
    Delays,   \* the delays events are scheduled with
    MaxUid    \* bound: m_uid, far below the 2^32 at which the code's would wrap

ASSUME SimulatorAssumption == Delays \subseteq Nat /\ MaxUid \in Nat

VARIABLES
    events,               \* m_events: [ts, uid, impl] of what is scheduled
    m_uid, m_currentTs, m_currentUid, m_stop, m_unscheduledEvents,
    m_destroyEvents,      \* the ids ScheduleDestroy queued
    m_eventsWithContext,  \* the delays other threads scheduled with
    m_eventsWithContextEmpty,
    m_eventsWithContextMutex,  \* another thread holds it
    cancelled,            \* the impls whose m_cancel is set
    ids,                  \* every EventId that was returned
    notified,             \* the impls whose Notify was called
    phase                 \* where the main thread is

clock == <<m_currentTs, m_currentUid>>
shared == <<m_eventsWithContext, m_eventsWithContextEmpty, m_eventsWithContextMutex>>
vars == <<events, m_uid, m_currentTs, m_currentUid, m_stop, m_unscheduledEvents,
          m_destroyEvents, m_eventsWithContext, m_eventsWithContextEmpty,
          m_eventsWithContextMutex, cancelled, ids, notified, phase>>

\* EventId::UID.
INVALID == 0
DESTROY == 2
VALID   == 4

Phases == {"program",       \* outside Run
           "process",       \* ProcessEventsWithContext is about to read the flag
           "swap",          \* it found the list not empty
           "loop",          \* the condition of Run's loop
           "handler",       \* Invoke of an event
           "destroying", "destroyHandler", "disposed"}

\* Where application code runs on the main thread and may call the simulator.
UserCode == {"program", "handler", "destroyHandler"}

\* EventKey's operator<.
Before(a, b) == a.ts < b.ts \/ (a.ts = b.ts /\ a.uid < b.uid)

Init ==
    /\ events = {}
    /\ m_uid = VALID
    /\ m_currentTs = 0 /\ m_currentUid = INVALID
    /\ m_stop = FALSE
    /\ m_unscheduledEvents = 0
    /\ m_destroyEvents = <<>>
    /\ m_eventsWithContext = <<>> /\ m_eventsWithContextEmpty = TRUE
    /\ m_eventsWithContextMutex = FALSE
    /\ cancelled = {} /\ ids = {} /\ notified = {}
    /\ phase = "program"

\* The bound leaves room for the events of other threads.
UidLeft == m_uid + Len(m_eventsWithContext) < MaxUid

-----------------------------------------------------------------------------
(* Calls of the program and of handlers.                                    *)

NewEvent(d) == [ts |-> m_currentTs + d, uid |-> m_uid, impl |-> m_uid]

\* Schedule, ScheduleNow (delay 0) and ScheduleWithContext on the main thread.
Schedule(d) ==
    /\ phase \in UserCode /\ UidLeft
    /\ events' = events \cup {NewEvent(d)}
    /\ ids' = ids \cup {NewEvent(d)}
    /\ m_uid' = m_uid + 1
    /\ m_unscheduledEvents' = m_unscheduledEvents + 1
    /\ UNCHANGED <<clock, m_stop, m_destroyEvents, shared, cancelled, notified, phase>>

ScheduleDestroy ==
    LET id == [ts |-> m_currentTs, uid |-> DESTROY, impl |-> m_uid]
    IN  /\ phase \in UserCode /\ UidLeft
        /\ m_destroyEvents' = Append(m_destroyEvents, id)
        /\ ids' = ids \cup {id}
        /\ m_uid' = m_uid + 1
        /\ UNCHANGED <<events, clock, m_stop, m_unscheduledEvents, shared, cancelled,
                       notified, phase>>

InDestroyList(id) == \E i \in 1 .. Len(m_destroyEvents) : m_destroyEvents[i] = id

\* Mutant: an event of the current instant counts as expired.
IsExpiredCoarse(id) ==
    IF id.uid = DESTROY
    THEN id.impl \in cancelled \/ ~ InDestroyList(id)
    ELSE id.ts <= m_currentTs \/ id.impl \in cancelled

IsExpired(id) ==
    IF id.uid = DESTROY
    THEN id.impl \in cancelled \/ ~ InDestroyList(id)
    ELSE \/ id.ts < m_currentTs
         \/ id.ts = m_currentTs /\ id.uid <= m_currentUid
         \/ id.impl \in cancelled

Cancel(id) ==
    /\ phase \in UserCode /\ ~ IsExpired(id)
    /\ cancelled' = cancelled \cup {id.impl}
    /\ UNCHANGED <<events, m_uid, clock, m_stop, m_unscheduledEvents, m_destroyEvents,
                   shared, ids, notified, phase>>

\* Remove of an event that waits in the scheduler.
RemoveEvent(id) ==
    /\ phase \in UserCode /\ id.uid # DESTROY /\ ~ IsExpired(id)
    /\ events' = events \ {id}
    /\ cancelled' = cancelled \cup {id.impl}
    /\ m_unscheduledEvents' = m_unscheduledEvents - 1
    /\ UNCHANGED <<m_uid, clock, m_stop, m_destroyEvents, shared, ids, notified, phase>>

\* Remove of an event for Destroy, cancelled or not.
RemoveDestroy(id) ==
    /\ phase \in UserCode /\ id.uid = DESTROY
    /\ \E i \in 1 .. Len(m_destroyEvents) :
         /\ m_destroyEvents[i] = id
         /\ \A j \in 1 .. i - 1 : m_destroyEvents[j] # id
         /\ m_destroyEvents' = SubSeq(m_destroyEvents, 1, i - 1)
                                 \o SubSeq(m_destroyEvents, i + 1, Len(m_destroyEvents))
    /\ UNCHANGED <<events, m_uid, clock, m_stop, m_unscheduledEvents, shared, cancelled,
                   ids, notified, phase>>

Stop ==
    /\ phase \in UserCode /\ ~ m_stop
    /\ m_stop' = TRUE
    /\ UNCHANGED <<events, m_uid, clock, m_unscheduledEvents, m_destroyEvents, shared,
                   cancelled, ids, notified, phase>>

-----------------------------------------------------------------------------
(* Run.                                                                     *)

Run ==
    /\ phase = "program"
    /\ phase' = "process"
    /\ m_stop' = FALSE
    /\ UNCHANGED <<events, m_uid, clock, m_unscheduledEvents, m_destroyEvents, shared,
                   cancelled, ids, notified>>

HandlerReturns ==
    /\ phase \in {"handler", "destroyHandler"}
    /\ phase' = IF phase = "handler" THEN "process" ELSE "destroying"
    /\ UNCHANGED <<events, m_uid, clock, m_stop, m_unscheduledEvents, m_destroyEvents,
                   shared, cancelled, ids, notified>>

\* ProcessEventsWithContext reads the flag without the lock, so perhaps before
\* a thread that has appended its event has written it: the race on this bool
\* gives the old value or the new one.
ReadFlag ==
    /\ phase = "process"
    /\ phase' = IF m_eventsWithContextEmpty THEN "loop" ELSE "swap"
    /\ UNCHANGED <<events, m_uid, clock, m_stop, m_unscheduledEvents, m_destroyEvents,
                   shared, cancelled, ids, notified>>

\* The events of other threads, timed from now and numbered in their order.
ContextEvent(i) ==
    [ts |-> m_currentTs + m_eventsWithContext[i], uid |-> m_uid + i - 1,
     impl |-> m_uid + i - 1]

\* Mutant: the list is emptied without being counted.
SwapUncounted ==
    /\ phase = "swap" /\ ~ m_eventsWithContextMutex
    /\ events' = events \cup {ContextEvent(i) : i \in 1 .. Len(m_eventsWithContext)}
    /\ m_uid' = m_uid + Len(m_eventsWithContext)
    /\ m_eventsWithContext' = <<>> /\ m_eventsWithContextEmpty' = TRUE
    /\ phase' = "loop"
    /\ UNCHANGED <<clock, m_stop, m_unscheduledEvents, m_destroyEvents,
                   m_eventsWithContextMutex, cancelled, ids, notified>>

\* Under the lock the list is swapped; then its events go to the scheduler.
Swap ==
    /\ phase = "swap" /\ ~ m_eventsWithContextMutex
    /\ events' = events \cup {ContextEvent(i) : i \in 1 .. Len(m_eventsWithContext)}
    /\ m_uid' = m_uid + Len(m_eventsWithContext)
    /\ m_unscheduledEvents' = m_unscheduledEvents + Len(m_eventsWithContext)
    /\ m_eventsWithContext' = <<>> /\ m_eventsWithContextEmpty' = TRUE
    /\ phase' = "loop"
    /\ UNCHANGED <<clock, m_stop, m_destroyEvents, m_eventsWithContextMutex, cancelled,
                   ids, notified>>

\* Mutant: a cancelled event is notified as well.
ProcessOneEventAnyway(next) ==
    /\ phase = "loop" /\ ~ m_stop
    /\ events' = events \ {next}
    /\ m_unscheduledEvents' = m_unscheduledEvents - 1
    /\ m_currentTs' = next.ts /\ m_currentUid' = next.uid
    /\ notified' = notified \cup {next.impl}
    /\ phase' = "handler"
    /\ UNCHANGED <<m_uid, m_stop, m_destroyEvents, shared, cancelled, ids>>

\* ProcessOneEvent up to the call of the handler: a cancelled event has none.
ProcessOneEvent(next) ==
    /\ phase = "loop" /\ ~ m_stop
    /\ events' = events \ {next}
    /\ m_unscheduledEvents' = m_unscheduledEvents - 1
    /\ m_currentTs' = next.ts /\ m_currentUid' = next.uid
    /\ IF next.impl \in cancelled
       THEN phase' = "process" /\ UNCHANGED notified
       ELSE phase' = "handler" /\ notified' = notified \cup {next.impl}
    /\ UNCHANGED <<m_uid, m_stop, m_destroyEvents, shared, cancelled, ids>>

RunReturns ==
    /\ phase = "loop" /\ (events = {} \/ m_stop)
    /\ phase' = "program"
    /\ UNCHANGED <<events, m_uid, clock, m_stop, m_unscheduledEvents, m_destroyEvents,
                   shared, cancelled, ids, notified>>

-----------------------------------------------------------------------------
(* Destroy, and the other threads.                                          *)

Destroy ==
    /\ phase = "program"
    /\ phase' = "destroying"
    /\ UNCHANGED <<events, m_uid, clock, m_stop, m_unscheduledEvents, m_destroyEvents,
                   shared, cancelled, ids, notified>>

DestroyOne ==
    LET impl == Head(m_destroyEvents).impl
    IN  /\ phase = "destroying" /\ m_destroyEvents # <<>>
        /\ m_destroyEvents' = Tail(m_destroyEvents)
        /\ IF impl \in cancelled
           THEN UNCHANGED <<phase, notified>>
           ELSE phase' = "destroyHandler" /\ notified' = notified \cup {impl}
        /\ UNCHANGED <<events, m_uid, clock, m_stop, m_unscheduledEvents, shared,
                       cancelled, ids>>

\* The last reference goes, and DoDispose takes what was never run: also the
\* events of other threads, by the same read of the flag.
DoDispose ==
    /\ phase = "destroying" /\ m_destroyEvents = <<>>
    /\ events' = {}
    /\ \/ m_eventsWithContextEmpty
          /\ UNCHANGED <<m_uid, m_unscheduledEvents, shared>>
       \/ /\ ~ m_eventsWithContextEmpty /\ ~ m_eventsWithContextMutex
          /\ m_uid' = m_uid + Len(m_eventsWithContext)
          /\ m_unscheduledEvents' = m_unscheduledEvents + Len(m_eventsWithContext)
          /\ m_eventsWithContext' = <<>> /\ m_eventsWithContextEmpty' = TRUE
          /\ UNCHANGED m_eventsWithContextMutex
    /\ phase' = "disposed"
    /\ UNCHANGED <<clock, m_stop, m_destroyEvents, cancelled, ids, notified>>

\* ScheduleWithContext in another thread, which takes the lock and appends ...
ThreadSchedule(d) ==
    /\ phase # "disposed" /\ UidLeft
    /\ ~ m_eventsWithContextMutex
    /\ m_eventsWithContextMutex' = TRUE
    /\ m_eventsWithContext' = Append(m_eventsWithContext, d)
    /\ UNCHANGED <<events, m_uid, clock, m_stop, m_unscheduledEvents, m_destroyEvents,
                   m_eventsWithContextEmpty, cancelled, ids, notified, phase>>

\* Mutant: the flag is left alone.
ThreadReturnsSilent ==
    /\ m_eventsWithContextMutex
    /\ m_eventsWithContextMutex' = FALSE
    /\ UNCHANGED <<events, m_uid, clock, m_stop, m_unscheduledEvents, m_destroyEvents,
                   m_eventsWithContext, m_eventsWithContextEmpty, cancelled, ids,
                   notified, phase>>

\* ... and then writes the flag, lets the lock go and returns.
ThreadReturns ==
    /\ m_eventsWithContextMutex
    /\ m_eventsWithContextMutex' = FALSE
    /\ m_eventsWithContextEmpty' = FALSE
    /\ UNCHANGED <<events, m_uid, clock, m_stop, m_unscheduledEvents, m_destroyEvents,
                   m_eventsWithContext, cancelled, ids, notified, phase>>

-----------------------------------------------------------------------------

\* The steps that leave the scheduler's events alone.
OutsideQueue ==
    \/ ScheduleDestroy \/ Stop \/ Run \/ HandlerReturns \/ ReadFlag \/ RunReturns
    \/ Destroy \/ DestroyOne \/ ThreadReturns
    \/ \E id \in ids : Cancel(id) \/ RemoveDestroy(id)
    \/ \E d \in Delays : ThreadSchedule(d)

IsFirst(ev) == ev \in events /\ \A other \in events \ {ev} : Before(ev, other)

Next ==
    \/ OutsideQueue
    \/ \E d \in Delays : Schedule(d)
    \/ \E id \in ids : RemoveEvent(id)
    \/ Swap \/ DoDispose
    \/ \E ev \in events : IsFirst(ev) /\ ProcessOneEvent(ev)

Spec == Init /\ [][Next]_vars

-----------------------------------------------------------------------------
(* Properties.                                                              *)

Event == [ts : Nat, uid : Nat, impl : Nat]

\* Types, and no uid is given twice, however the calls of the main thread, the
\* merged lists of other threads and the destroy events are mixed.
SimTypeOK ==
    /\ events \subseteq Event /\ ids \subseteq Event
    /\ m_uid \in Nat /\ m_currentTs \in Nat /\ m_currentUid \in Nat
    /\ m_stop \in BOOLEAN
    /\ m_unscheduledEvents \in Int
    /\ m_destroyEvents \in Seq(Event)
    /\ m_eventsWithContext \in Seq(Delays) /\ m_eventsWithContextEmpty \in BOOLEAN
    /\ m_eventsWithContextMutex \in BOOLEAN
    /\ cancelled \subseteq Nat /\ notified \subseteq Nat
    /\ phase \in Phases
    /\ \A e \in events : e.uid \in VALID .. m_uid - 1
    /\ \A e, f \in events : e.uid = f.uid => e = f

\* IsExpired decides from the clock alone whether an event is still waiting,
\* and is right for every id ever returned: Remove may rely on it (the
\* scheduler asserts that it finds the event), and a timer that shows as
\* running will run.
ExpiredMeansGone ==
    phase # "disposed" =>
        \A id \in ids :
            id.uid # DESTROY =>
                (IsExpired(id) <=> id \notin events \/ id.impl \in cancelled)

\* An event that was cancelled or removed in time is never notified: Cancel
\* in an event's own handler, or after it ran, changes nothing.
CancelledNeverRuns == cancelled \cap notified = {}

\* The assertion at the end of Run: the counter of pending events is exact, so
\* no event was lost between the caller, the other threads and the scheduler.
NoEventLost == phase # "disposed" => m_unscheduledEvents = Cardinality(events)

\* Events run in the order of their time and, at one time, in the order in
\* which they were scheduled; the clock never goes back (the assertion in
\* ProcessOneEvent).  A scheduler that hands out the first event is what this
\* takes: a heap from which events were removed does not (ClockNeverGoesBack).
RunsInOrder ==
    [][m_currentUid' # m_currentUid =>
          Before([ts |-> m_currentTs, uid |-> m_currentUid],
                 [ts |-> m_currentTs', uid |-> m_currentUid'])]_vars

\* ProcessEventsWithContext reads the flag without the lock, perhaps between the
\* two writes of a thread, and what it overlooks is then the one event whose
\* ScheduleWithContext has not returned: it leaves none behind of a call that
\* has, however many threads call, and whenever the list was last taken.
ThreadEventsTaken ==
    [][phase = "process" /\ phase' = "loop" /\ m_eventsWithContext # <<>> =>
          m_eventsWithContextMutex /\ Len(m_eventsWithContext) = 1]_vars
=============================================================================
