SPECIFICATION FairSpec
CONSTANTS
    s1 = s1
    s2 = s2
    Servers = {s1, s2}
    Ip <- IpOf
    Ips = {0, 1, 2, 3, 4, 5, 6, 7, 8, 9}
    Block = 4
    MaxFails = 2
    Scenes <- AllScenes
CHECK_DEADLOCK FALSE
INVARIANTS TypeOK ScanFindsTheWorst ToldIsHeard SnapshotIsCurrent AlarmsHaveACause
PROPERTIES AlarmsAreFirm OutagesAreReported
