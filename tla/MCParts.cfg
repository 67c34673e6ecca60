SPECIFICATION MCSpec
CONSTANTS
    Prop = {"TEL"}
    Value = {"a", "b", "bad", "r1", "r2", "uid", "v3", "v4"}
    None = None
    V4 = "v4"
    Time <- MCTime
    InitCard <- MCInitCard
    NoGroup = NoGroup
    grp = grp
    NamedGroup = {grp}
    Type = {"internet", "work", "home"}
    Generic = "internet"
    InitEmails <- MCEmails
    InitOthers <- MCOthers
    InitLabels <- MCLabels
    g1 = g1
    g2 = g2
    g3 = g3
    Proc = {g1, g2, g3}
    Interval = 2
    MaxSlots = 5
    MaxTime = 5
SYMMETRY Perms
INVARIANTS
    RetryDecidesAlike
    SavedStateStands
    FirstMergeIsOverlay
    EmailGroupsUnique
    LabelsFollowEmails
    RebuildIsStable
    RateBound
    SlotsApart
CHECK_DEADLOCK FALSE
