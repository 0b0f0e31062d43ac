\* Two turns of two projects: settling events, updates, context and repeats.
SPECIFICATION Spec
CONSTANTS
    t1 = t1
    t2 = t2
    feed = feed
    site = site
    green = green
    report = report
    chatter = chatter
    None = None
    Turn = {t1, t2}
    ProjectOf <- TwoProjects
    readiness = readiness
    Note = {green, report, chatter}
    Says <- Signed
    Topic = {readiness}
    Impact <- ReleaseNotes
    Owner <- FeedOwns
    Score <- CodexScore
    Events <- BusyTurn
    Rank <- TurnThenFamily
    MinScore = 65
    MinContext = 70
    DedupeWindow = 2
    BurstCommands = 2
    CheckpointEvents = 2
    RetainScore = 30
    RetainEvents = 3
    MaxEvents = 4
INVARIANTS
    NoRecentRepeat
    NoEventTwice
    UpdatesDiffer
    
PROPERTIES
    UpdatesAreTold
CHECK_DEADLOCK FALSE
