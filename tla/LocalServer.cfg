\* Two requests and the flush loop, rings of one.
SPECIFICATION Spec
CONSTANTS
    s1 = s1
    s2 = s2
    r1 = r1
    r2 = r2
    token = token
    NoToken = NoToken
    Session = {s1, s2}
    Request = {r1, r2}
    Flusher = Flusher
    Credential <- Credentials
    DisplayToken = token
    Loopback = FALSE
    MaxEvents = 2
    StoreCapacity = 1
    ReelCapacity = 2
INVARIANTS
    ForwardedOnce
PROPERTIES
    AnsweredIsVisible
    StatusCovers
    ImplementsFeed
CHECK_DEADLOCK FALSE
