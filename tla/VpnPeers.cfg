SPECIFICATION Spec
CONSTANTS
    Keys = {k1, k2}
    Sessions = {a, b}
    a = a
    b = b
    k1 = k1
    None = None
    Kind = "awg"
    Interface = 0
    Confs <- FoundConfs
    Workloads <- Mixed
    MaxLine = 3
INVARIANTS TypeOK FilesAgree RemovedStaysOut AddressesAscend
PROPERTY PeersActAsSet
