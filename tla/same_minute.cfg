SPECIFICATION Spec
CONSTANTS
    f1 = f1
    f2 = f2
    f3 = f3
    f4 = f4
    r1 = r1
    r2 = r2
    r3 = r3
    w1 = w1
    w2 = w2
    None = None
    File = {f1, f2}
    Span <- ChainSpan
    MinuteDir <- SameDirs
    Request = {r1}
    Worker = {w1, w2}
    Receiver = "normalizer"
    Envelope <- AllGood
    Folder <- OneDay
    Fault = {}
INVARIANTS
    MergesBothHalves
