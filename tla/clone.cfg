\* Five instances are cloned, again and again, while they change and things fail.
SPECIFICATION FairSpec
CONSTANTS
    a = a
    b = b
    Name = {a, b}
    Workloads <- AllWorkloads
    ChunkLen = 1
    MaxEdits = 1
    MaxFaults = 1
PROPERTIES
    InOrder
    Converges
