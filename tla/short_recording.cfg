SPECIFICATION Spec
CONSTANTS
    Clock = {1, 2, 3}
    Carry = {0}
    Length = 5
    Files = 3
INVARIANTS
    StreamRestored
CHECK_DEADLOCK FALSE
