SPECIFICATION FairSpec
CONSTANTS
    ann = ann
    bob = bob
    i1 = i1
    i2 = i2
    c1 = c1
    c2 = c2
    None = None
    Chats = {ann, bob}
    Ids = {i1, i2}
    Conns = {c1, c2}
    Scenes <- AllScenes
    MaxRuns = 2
CHECK_DEADLOCK FALSE
INVARIANTS TypeOK ConfirmedWasHandled OneAccountPerChat
PROPERTIES EachRunOnce Answered
