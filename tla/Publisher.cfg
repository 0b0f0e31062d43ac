\* One publisher and an unreliable edge: failures, restarts of either, old age.
SPECIFICATION Spec
CONSTANTS
    p1 = p1
    p2 = p2
    change = change
    alarm = alarm
    noise = noise
    None = None
    Publisher = {p1}
    Topic = {change, alarm, noise}
    Public = {p1}
    Severe = {alarm}
    Dull = {noise}
    TurnTopic = {change}
    RecentWindow = 2
    ReplayWindow = 1
    BatchSize = 2
    MaxPublishCapsules = 1
    EdgeLimit = 2
    MaxStories = 2
    MaxFailures = 1
    MaxRestarts = 1
    MaxEdgeRestarts = 1
    MaxQuietPeriods = 1
INVARIANTS
    NothingForgotten
PROPERTIES
    EveryStorySettles
    
CHECK_DEADLOCK FALSE
