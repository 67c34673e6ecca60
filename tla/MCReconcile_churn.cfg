SPECIFICATION Spec
CONSTANTS
    Prop = {"EMAIL"}
    Value = {"internet", "plain", "labelled", "typed", "home", "a", "r1", "r2", "uid", "v3", "v4"}
    None = None
    V4 = "v4"
    Time <- MCTime
    u1 = u1
    u2 = u2
    id1 = id1
    id2 = id2
    id3 = id3
    UID = {u1}
    ID = {id1, id2}
    Path = {"own"}
    OwnPath = "own"
    NoCard = NoCard
    Deleted = Deleted
    SyncPolicy = "PolicyPreferCardDAV"
    MaxNewProton = 0
    Dropped = {}
    Fold <- FoldEmail
    RejectDuplicateUID = FALSE
    CallFault = {}
    StopAt = {}
    MaxFault = 0
    UserCard <- CardsEmail
    UserPath = {"own"}
    EditPhase = {}
    MaxEdit = 0
INVARIANT QuietMeansNoWrites
