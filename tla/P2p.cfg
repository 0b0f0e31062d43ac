\* Following, admission and delivery of one feed that turns private and back,
\* beside the two-lock calls.
SPECIFICATION Spec
CONSTANTS
    owner = owner
    reader = reader
    f1 = f1
    o1 = o1
    o2 = o2
    u1 = u1
    alarm = alarm
    None = None
    Peer = {owner, reader}
    Current = {owner, reader}
    Feed = {f1}
    Org = {o1, o2}
    Team = {}
    User = {u1}
    Story = {alarm}
    Urgent = {alarm}
    Repeats <- SameStory
    Profiles <- OpenAndClosed
    Entries <- OrgEntry
    Certificates <- TwoOrgs
    JoinRoles <- RoutingJoin
    HandoffPeers = {reader}
    HistoryCapacity = 2
    RepeatWindow = 1
    MaxPublications = 2
    MaxInflight = 1
CONSTRAINT Focused
INVARIANTS
    InboxInOrder
    PrivateNeedsAdmission
PROPERTIES
    ImplementsBus
CHECK_DEADLOCK FALSE
