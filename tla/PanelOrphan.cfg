SPECIFICATION Spec
CONSTANTS
    Servers = {s1, s2}
    UserIds = {u0}
    ConnIds = {c1, c2}
    Codes = {}
    Tokens = {}
    s1 = s1
    s2 = s2
    s3 = s3
    u0 = u0
    c1 = c1
    NoCode = NoCode
    Free = Free
    Nowhere = Nowhere
    MaxUses <- OneUse
    Tasks = {h1, h2}
    Threads = {w1}
    Scenes <- OrphanScenes
INVARIANT DeletedPeersAreGone
