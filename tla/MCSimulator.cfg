SPECIFICATION QueueSpec
CONSTANTS
    Delays = {0, 1, 2}
    MaxUid = 12
    Programs <- MCPrograms
INVARIANTS ExpiredMeansGone CancelledNeverRuns NoEventLost QueueHoldsEvents
PROPERTIES RunsInOrder ThreadEventsTaken ImplementsSimulator
CHECK_DEADLOCK FALSE
