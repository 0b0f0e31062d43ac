\* Three stories, a reel of two, one snapshot under way, one reload.
SPECIFICATION Spec
CONSTANTS
    f1 = f1
    MaxStories = 3
    ReelCapacity = 2
    ChannelCapacity = 1
    Fetch = {f1}
    Urgent <- SecondStory
    MaxStage = 3
    MaxReloads = 1
    MaxStale = 1
INVARIANTS
    ShownOnce

    
CHECK_DEADLOCK FALSE
