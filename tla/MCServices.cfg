CONSTANTS
    p1 = p1
    p2 = p2
    own1 = own1
    ModelPresets = {p1, p2}
    Own <- OwnModels
    Base = base
    NoModel = NoModel
    Apps = {a1, a2}
    Cooldowns = {2, 3}
    MaxMinute = 5
    Never = Never
    SuggestAfter = 2
    AutoStopAfter = 3
    Hysteresis = 1
    TailPad = 1
    MaxTs = 12
    MaxHeard = 5
    Unset = Unset
    WindowStart = 9
    WindowEnd = 11
    Retention = 3
    MaxPause = 11
    MaxTime = 25
    RecapCalls = {k1, k2}
    LongCalls = {k1}
    ChunkCount = 3
    MaxGen = 2
    Bulks = {b1}
    NoCall = NoCall
    Jobs = {j1, j2}
    NoJob = NoJob
    AppCalls = {x1, x2}
    MaxStarts = 2
    NoOne = NoOne
INIT Init
NEXT Next
SYMMETRY Symmetry
INVARIANTS
    EngineSound
    StopIsDeserved
    
    ProbeKept
    RecapKept
    SidecarsEnd
    
CHECK_DEADLOCK FALSE
