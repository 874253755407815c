SPECIFICATION Spec
CONSTANTS
    Device = {"AT128", "AM20", "GNSS"}
    Stranger = {"spare"}
    TypeOf <- Types
    Vehicle = {"CAR1", "CAR12"}
    Within <- Prefix
    MaxListing = 2
INVARIANTS
    NoFileTwice
    KindSelects
    RefusedForNames
CHECK_DEADLOCK FALSE
