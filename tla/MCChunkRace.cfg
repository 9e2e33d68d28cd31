CONSTANTS
    MaxChunk = 2
    NoFile = NoFile
SPECIFICATION Spec
INVARIANT NoSilentLoss
