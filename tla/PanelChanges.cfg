SPECIFICATION Spec
CONSTANTS
    Servers = {s1, s2}
    UserIds = {u0, u1, u2}
    ConnIds = {c1, c2}
    Codes = {code1}
    Tokens = {}
    s1 = s1
    s2 = s2
    s3 = s3
    u0 = u0
    c1 = c1
    NoCode = NoCode
    Free = Free
    Nowhere = Nowhere
    MaxUses <- OneUse
    Tasks = {h1}
    Threads = {w1, w2}
    Scenes <- ChangeScenes
INVARIANTS TypeOK AdmissionWithinQuota DeletedPeersAreGone
SYMMETRY Interchangeable
