SPECIFICATION MCResyncSpec
CONSTANTS
    Prop = {"EMAIL", "X-ABLABEL"}
    Value = {"internet", "plain", "labelled", "typed", "home", "a", "r1", "r2", "uid", "v3", "v4"}
    None = None
    V4 = "v4"
    Time <- MCTime
    u1 = u1
    u2 = u2
    id1 = id1
    id2 = id2
    id3 = id3
    UID = {u1}
    ID = {id1, id2}
    Path = {"own"}
    OwnPath = "own"
    NoCard = NoCard
    Deleted = Deleted
    SyncPolicy = "PolicyPreferCardDAV"
    MaxNewProton = 1
    Dropped = {"X-ABLABEL"}
    Fold <- FoldEmail
    RejectDuplicateUID = TRUE
    CallFault = {"fetch", "index", "put", "putLost", "update", "updateLost", "create", "createLost", "refetch", "save"}
    StopAt = {"fetch", "loop", "put", "update", "create", "refetch", "save"}
    MaxFault = 1
    UserCard <- CardsLabel
    UserPath = {"own"}
    EditPhase = {"idle"}
    MaxEdit = 1
    ListsUIDs = {TRUE, FALSE}
    MaxForce = 1
INVARIANTS
    QuietAgreement
PROPERTIES
    QuietRunsChangeNothing
    ForcedIsOnBothSides
