CONSTANTS
    Jobs = {j1, j2}
    None = None
    MaxChunk = 2
    MaxCrashes = 3
    MaxFlips = 2
    MaxAutoTries = 2
    MaxParkedTries = 2
SPECIFICATION FairSpec
INVARIANTS
    TypeOK
    NoStuckChunk
    AutoRecoveryBounded
PROPERTIES
    WholeRecordingKept
    ChunkedParkedResumes
    KeepsPromise
