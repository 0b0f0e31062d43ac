\* Two requests at once, over time and a restart.
SPECIFICATION Spec
CONSTANTS
    h1 = h1
    h2 = h2
    f1 = f1
    f2 = f2
    change = change
    alarm = alarm
    None = None
    Empty = Empty
    Torn = Torn
    Handler = {h1, h2}
    Feed = {f1, f2}
    Topic = {change, alarm}
    Bodies <- Traffic
    FeedTtl = 0
    HeadlineTtl = 1
    MaxPublishCapsules = 2
    Limit = 2
    MaxRequests = 2
    MaxClock = 1
    MaxRestarts = 1
INVARIANTS
    SerialIsDurable
PROPERTIES
    
    EveryRequestAnswered
CHECK_DEADLOCK FALSE
