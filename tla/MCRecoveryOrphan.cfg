CONSTANTS
    Jobs = {j1, j2}
    None = None
    MaxChunk = 1
    MaxCrashes = 1
    MaxFlips = 2
    MaxAutoTries = 2
    MaxParkedTries = 2
SPECIFICATION Spec
PROPERTY LongRecordingKept
