\* Three candidates come and go over four moments
CONSTANTS
    Names = {n1, n2, n3}
    Horizon = 4
    Furthest = 2
    Slot = 2
SPECIFICATION MCSpec
INVARIANT SortedAsInTheSource
INVARIANT FeasibleAndTight
CHECK_DEADLOCK FALSE
