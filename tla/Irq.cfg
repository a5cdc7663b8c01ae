SPECIFICATION PathSpec
CONSTANTS
    Lines = {0, 1, 9}
    Drivers = {2, 9}
    KBD_SC_LOG_SIZE = 2
    MaxTotal = 3
INVARIANTS NothingLeftInService QuietTakeExact
PROPERTY EnabledIsServed
