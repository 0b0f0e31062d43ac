\* One lost POST, and the retry that is judged a repeat.
SPECIFICATION Spec
CONSTANTS
    p1 = p1
    p2 = p2
    change = change
    alarm = alarm
    noise = noise
    None = None
    Publisher = {p1}
    Topic = {change}
    Public = {p1}
    Severe = {}
    Dull = {}
    TurnTopic = {change}
    RecentWindow = 2
    ReplayWindow = 2
    BatchSize = 2
    MaxPublishCapsules = 2
    EdgeLimit = 2
    MaxStories = 1
    MaxFailures = 1
    MaxRestarts = 0
    MaxEdgeRestarts = 0
    MaxQuietPeriods = 0
INVARIANT SkippedWasPublished
CHECK_DEADLOCK FALSE
