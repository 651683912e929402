SPECIFICATION Spec
CONSTANTS
    Writes = {d1, d2, d3}
    d1 = d1
    Bare = Bare
    Nothing = Nothing
    None = None
    Retention <- OneLimit
    Default = 30
    Cap = 2
    MaxEntry = 4
INVARIANTS TypeOK NothingForgotten ClearedStaysCleared
PROPERTY AtomicSaves
