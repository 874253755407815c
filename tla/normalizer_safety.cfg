SPECIFICATION Spec
CONSTANTS
    f1 = f1
    f2 = f2
    f3 = f3
    f4 = f4
    r1 = r1
    r2 = r2
    r3 = r3
    w1 = w1
    w2 = w2
    None = None
    File = {f1, f2, f3, f4}
    Span <- ChainSpan
    MinuteDir <- OwnDirs
    Request = {r1, r2, r3}
    Worker = {w1, w2}
    Receiver = "normalizer"
    Envelope <- OneLost
    Folder <- TwoDays
    Fault = {"job", "listing"}
SYMMETRY Symmetry
INVARIANTS
    MergesBothHalves
    SweepLosesNothing
    DiskCleanAtRest
    BucketsFresh
    WrittenOnce
PROPERTIES
    CycleEndsDry
    SuccessMeansProcessed
    CountedMeansStored
    StoredStays
