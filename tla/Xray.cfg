SPECIFICATION FairSpec
CONSTANTS
    Ids = {d, a, b}
    Sessions = {e, l}
    d = d
    a = a
    b = b
    e = e
    l = l
    Listers = {l}
    Default = d
    None = None
    Scenes <- MixedScenes
INVARIANTS TypeOK RunningIsCurrent
PROPERTIES EditsKeepOthers EveryClientIsListed
