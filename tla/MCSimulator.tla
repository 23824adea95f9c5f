----------------------------- MODULE MCSimulator -----------------------------
(* Small programs for SimulatorQueues.                                      *)
EXTENDS SimulatorQueues

Counts(schedule, thread, cancel, remove, destroy, stop, set) ==
    [schedule |-> schedule, thread |-> thread, cancel |-> cancel, remove |-> remove,
     destroy |-> destroy, stop |-> stop, set |-> set]

\* Every call on the default scheduler; several calls of other threads; many
\* events on each of the other schedulers, and changes between them, with
\* removals except from the heap.
MCPrograms ==
    {[kinds |-> {"set"}, calls |-> Counts(2, 1, 1, 1, 1, 1, 0)],
     [kinds |-> {"set"}, calls |-> Counts(1, 3, 0, 0, 0, 1, 0)],
     [kinds |-> {"set"}, calls |-> Counts(2, 0, 1, 0, 2, 0, 0)],
     [kinds |-> {"list", "calendar"}, calls |-> Counts(5, 0, 0, 1, 0, 0, 0)],
     [kinds |-> {"calendar", "heap"}, calls |-> Counts(3, 1, 0, 0, 0, 0, 1)],
     [kinds |-> {"heap"}, calls |-> Counts(5, 0, 0, 0, 0, 0, 0)]}

\* A heap from which events are removed.
MCHeapPrograms == {[kinds |-> {"heap"}, calls |-> Counts(7, 0, 0, 1, 0, 0, 0)]}
=============================================================================
