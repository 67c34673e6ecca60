SPECIFICATION OneWaySpec
CONSTANTS
    Prop = {"EMAIL", "X-ABLABEL"}
    Value = {"internet", "plain", "labelled", "typed", "home", "a", "r1", "r2", "uid", "v3", "v4"}
    None = None
    V4 = "v4"
    Time <- MCTime
    u1 = u1
    u2 = u2
    id1 = id1
    id2 = id2
    id3 = id3
    UID = {u1}
    ID = {id1, id2}
    Path = {"own"}
    OwnPath = "own"
    NoCard = NoCard
    Deleted = Deleted
    SyncPolicy = "PolicyPreferNewer"
    MaxNewProton = 0
    Dropped = {"X-ABLABEL"}
    Fold <- FoldEmail
    RejectDuplicateUID = TRUE
    CallFault = {}
    StopAt = {}
    MaxFault = 0
    UserCard <- CardsLabel
    UserPath = {"own"}
    EditPhase = {"idle"}
    MaxEdit = 1
    Direction = {"toCardDAV"}
    Shuffled = {}
PROPERTY NeverResurrected
