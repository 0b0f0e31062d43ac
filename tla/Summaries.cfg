SPECIFICATION Spec
CONSTANTS
    Feed = {f1, f2}
    Topic = {"release"}
    State = {"failing", "passing"}
    AllowProjectTags = TRUE
    AllowProjectNames = FALSE
    AllowCommandText = FALSE
    AllowProcessorSkip = TRUE
    RecentWindow = 2
    StoryKinds <- MCStoryKinds
    Outputs <- MCOutputs
    Configs <- MCConfigs
    Mode = "FeedRollup"
    MaxRollup = 2
    ImageEnabled = TRUE
    PipeCapacity = 2
    MaxOutput = 2
    Torn = Torn
    None = None
    MaxStories = 2
    MaxFailures = 1
    MaxRestarts = 1
INVARIANTS
    NothingPrivateLeaves
    
    
    NoSummaryTwice
    SessionIsOwn
PROPERTY
    EveryCallEnds
CHECK_DEADLOCK FALSE
