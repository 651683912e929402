SPECIFICATION FairSpec
CONSTANTS
    Servers = {s1, s2, s3}
    UserIds = {u0, u1}
    ConnIds = {c1, c2}
    Codes = {}
    Tokens = {token1}
    s1 = s1
    s2 = s2
    s3 = s3
    u0 = u0
    c1 = c1
    NoCode = NoCode
    Free = Free
    Nowhere = Nowhere
    MaxUses <- OneUse
    Tasks = {h1, h2}
    Threads = {}
    Scenes <- TaskScenes
INVARIANTS RecordsMatchPeers RevokedStaysRevoked DeletedStaysDeleted
PROPERTIES EveryHandlerReturns ListEditsKeepPlacement
