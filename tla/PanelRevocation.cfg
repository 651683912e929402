SPECIFICATION Spec
CONSTANTS
    Servers = {s1, s2}
    UserIds = {u0}
    ConnIds = {}
    Codes = {}
    Tokens = {token1}
    s1 = s1
    s2 = s2
    s3 = s3
    u0 = u0
    c1 = c1
    NoCode = NoCode
    Free = Free
    Nowhere = Nowhere
    MaxUses <- OneUse
    Tasks = {h1, h2}
    Threads = {}
    Scenes <- BackupScenes
INVARIANT RevokedStaysRevoked
