CONSTANTS
    Jobs = {j1, j2}
    None = None
    MaxChunk = 1
    MaxCrashes = 0
    MaxFlips = 2
    MaxAutoTries = 2
    MaxParkedTries = 2
SPECIFICATION FairSpec
PROPERTY ParkedResumes
