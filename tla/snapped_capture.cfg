SPECIFICATION Spec
CONSTANTS
    Stamp = {1, 3}
    Size = {24, 90}
    FileLink = {"ethernet", "linux_sll", "linux_sll_v2", "unknown"}
    Filter <- DropUdp
    MaxPackets = 2
    None = None
INVARIANT OnlyRecords
