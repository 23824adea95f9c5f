SPECIFICATION QueueSpec
CONSTANTS
    Delays = {0, 1}
    MaxUid = 12
    Programs <- MCHeapPrograms
PROPERTIES ClockNeverGoesBack
CHECK_DEADLOCK FALSE
