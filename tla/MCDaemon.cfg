SPECIFICATION DaemonSpec
CONSTANTS
    d1 = d1
    d2 = d2
    c1 = c1
    s1 = s1
    s2 = s2
    Proc = {d1, d2, c1}
    Daemons = {d1, d2}
    NoInterval = {d2}
    Sess = {s1, s2}
    None = None
    Fault = {"net", "lost", "busy"}
    StopAt = {"login", "resume", "persist", "work"}
    MaxFault = 1
    NColumns = 2
    OldSchema = {{}, {1, 2}}
INVARIANTS
    SchemaWhole
    UnfaultedTokenIsCurrent
PROPERTIES
    LeaseIsKept
    DaemonOutlivesErrors
    SignalStops
    RunsGoOn
