\* Two users, an organisation with a team, and a login that changes hands.
SPECIFICATION Spec
CONSTANTS
    ann = ann
    bob = bob
    la = la
    desk = desk
    o1 = o1
    t1 = t1
    change = change
    User = {ann, bob}
    Publisher = {ann}
    Reader = {bob}
    Login = {la}
    Label = {desk}
    Topic = {change}
    Org = {o1}
    Team = {t1}
    OrgOf <- OrgOfTeam
    Public = Public
    None = None
    Members <- Belonging
    Logins <- FirstLogins
    LowQuality = {}
    Filters <- Everything
    SessionTtl = 1
    HeadlineTtl = 1
    FeedTtl = 0
    MaxClock = 1
    MaxLogins = 2
    MaxPosts = 2
    MaxChanges = 1
    MaxAsks = 1
CONSTRAINT Unanswered
INVARIANTS
    OnlyRecentMembersSee
    HeadlinesHaveTheirFeed
    StoriesAreTheAccounts
    NothingVisibleMissing
CHECK_DEADLOCK FALSE
