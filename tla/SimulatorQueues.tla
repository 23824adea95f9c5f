--------------------------- MODULE SimulatorQueues ---------------------------
(***************************************************************************)
(* The simulator on the data structures of its schedulers: the events it   *)
(* runs are the ones the queue hands out.                                  *)
(***************************************************************************)
EXTENDS Simulator, SchedulerQueues

CONSTANT
    Programs   \* what a program does: how often it makes each call, and the
               \* kinds of scheduler it sets

Calls == {"schedule", "thread", "cancel", "remove", "destroy", "stop", "set"}

ASSUME ProgramsAssumption ==
    \A p \in Programs : p.kinds # {} /\ DOMAIN p.calls = Calls

VARIABLES
    queue,    \* m_events as it is stored
    program   \* the kinds of queue, and the calls left

queueVars == <<vars, queue, program>>

QueueInit ==
    /\ Init
    /\ program \in Programs
    /\ \E kind \in program.kinds : queue = EmptyQueue(kind)

Call(c) ==
    /\ program.calls[c] > 0
    /\ program' = [program EXCEPT !.calls[c] = @ - 1]

NoCall == UNCHANGED program

QueueNext ==
    \/ \E d \in Delays :
         \/ Call("schedule") /\ Schedule(d) /\ queue' = Insert(queue, NewEvent(d))
         \/ Call("thread") /\ ThreadSchedule(d) /\ UNCHANGED queue
    \/ \E id \in ids :
         \/ Call("remove") /\ RemoveEvent(id) /\ queue' = QueueRemove(queue, id)
         \/ Call("cancel") /\ (Cancel(id) \/ RemoveDestroy(id)) /\ UNCHANGED queue
    \/ Call("destroy") /\ ScheduleDestroy /\ UNCHANGED queue
    \/ Call("stop") /\ Stop /\ UNCHANGED queue
    \/ /\ phase \in UserCode /\ Call("set")
       /\ \E kind \in program.kinds : queue' = Transfer(queue, EmptyQueue(kind))
       /\ UNCHANGED vars
    \/ /\ Swap /\ NoCall
       /\ queue' = InsertAll(queue, [i \in 1 .. Len(m_eventsWithContext) |-> ContextEvent(i)])
    \/ /\ ~ IsEmpty(queue) /\ NoCall
       /\ \E ev \in {PeekNext(queue)} : ProcessOneEvent(ev)
       /\ queue' = RemoveNext(queue)
    \/ DoDispose /\ NoCall /\ queue' = EmptyQueue(queue.kind)
    \/ /\ \/ Run \/ HandlerReturns \/ ReadFlag \/ RunReturns \/ Destroy \/ DestroyOne
          \/ ThreadReturns
       /\ NoCall /\ UNCHANGED queue

QueueSpec == QueueInit /\ [][QueueNext]_queueVars

-----------------------------------------------------------------------------
(* Properties.                                                              *)

\* The queue holds the simulator's events, and IsEmpty knows: no resize, no
\* sift, no change of the scheduler and no removal, from queues other than the
\* heap, loses or repeats one.
QueueHoldsEvents ==
    /\ Contents(queue) = events
    /\ IsEmpty(queue) <=> events = {}

\* The set, the list and the calendar hand out the events in the order of time
\* and, at one time, of scheduling, as the simulator on a plain set of events
\* does, whatever is inserted, removed and transferred to another queue; so does
\* the heap as long as no event is removed from it.  With a removal it does not:
\* HeapScheduler::Remove breaks its order (ClockNeverGoesBack).
ImplementsSimulator == Spec

\* The assertion in ProcessOneEvent, of the queue's own choice: the clock
\* never goes back.
ClockNeverGoesBack == [][m_currentTs' >= m_currentTs]_queueVars
=============================================================================
