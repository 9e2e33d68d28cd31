CONSTANTS
    Recs = {c1, c2}
    Cmds = {r1, r2}
    Nobody = Nobody
    MinTicks = 2
    MaxIssued = 4
    MaxNow = 3
    Starters = {s1, s2}
    Presets = {q1, q2}
    MaxServers = 2
    NoServer = NoServer
    NoPreset = NoPreset
INIT Init
NEXT Next
SYMMETRY Symmetry
INVARIANTS
    SessionOwnsDevice
    RowTellsCapture
    NothingKeptIsLost
    ServersRight
CHECK_DEADLOCK FALSE
