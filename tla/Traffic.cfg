SPECIFICATION FairSpec
CONSTANTS
    Servers = {1, 2}
    Ids = {ann, bob}
    Names = {n1}
    Conns = {c1, c2}
    ann = ann
    bob = bob
    c1 = c1
    c2 = c2
    n1 = n1
    At <- OnTwo
    Target = 1
    Cycle = cycle
    Tasks = {cycle, request}
    NoConn = none
    Strategy <- WeeklyForAnn
    Expires <- NeverExpires
    Week <- Weeks
    Month <- Months
    Year <- Years
    Limits = {0, 2}
    Scenes <- AllScenes
    MaxBytes = 2
INVARIANTS TypeOK NeverOvercharged OneUserPerAccount CutOffWhenAlone
PROPERTY LimitsBite
