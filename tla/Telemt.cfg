SPECIFICATION FairSpec
CONSTANTS
    Names = {a, b}
    Sessions = {e, l}
    Listers = {l}
    MaxQuota = 1
    a = a
    b = b
    e = e
    l = l
    None = None
    Scenes <- MixedScenes
INVARIANT NobodyServedOffFile
PROPERTY QuotaBites
