SPECIFICATION Spec
CONSTANTS
    Clock = {1, 2, 3}
    Carry = {0, 1}
    Length = 5
    Files = 2
INVARIANTS
    StreamRestored
    FileOrderKept
    SplitAsRecorded
CHECK_DEADLOCK FALSE
