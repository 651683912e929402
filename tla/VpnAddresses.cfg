SPECIFICATION Spec
CONSTANTS
    Keys = {k1, k2, k3}
    Sessions = {a}
    a = a
    b = b
    k1 = k1
    None = None
    Kind = "awg"
    Interface = 0
    Confs <- FreshConf
    Workloads <- AllByOne
    MaxLine = 4
INVARIANT AddressesDiffer
