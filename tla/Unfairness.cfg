SPECIFICATION Spec
CONSTANTS
    Priorities = {1, 2, 4}
    Scale = 4
    Slots = 2
    MaxWaiting = 3
    MaxArrivals = 6
INVARIANTS
    BoundedUnfairness
CHECK_DEADLOCK FALSE
