\* Commands of one process, answered by events, up to and after its shutdown.
SPECIFICATION RuntimeSpec
CONSTANTS
    owner = owner
    reader = reader
    old = old
    f1 = f1
    o1 = o1
    u1 = u1
    t1 = t1
    s1 = s1
    alarm = alarm
    None = None
    Peer = {owner, reader, old}
    Current = {owner, reader}
    Feed = {f1}
    Org = {o1}
    Team = {t1}
    User = {u1}
    Story = {s1, alarm}
    Urgent = {alarm}
    Repeats <- SameStory
    Profiles <- OpenAndClosed
    Entries <- OrgEntry
    Certificates <- OneOrg
    JoinRoles <- PlainJoin
    HandoffPeers = {reader}
    HistoryCapacity = 2
    RepeatWindow = 1
    MaxPublications = 2
    MaxInflight = 0
    SnapshotLimits = {1}
    MaxPending = 2
CONSTRAINT Focused
INVARIANTS
    HearsAllSince
    DeliveredAddsUp
CHECK_DEADLOCK FALSE
