CONSTANTS
    c1 = c1
    r1 = r1
    r2 = r2
    r3 = r3
    None = None
    Calls <- MCCalls
    Reqs <- MCReqs
    Ops <- MCOps
    Overlap = FALSE
SPECIFICATION FairSpec
INVARIANTS
    TypeOK
    RegistryTracksWork
    NoGhostDirectory
    
PROPERTY CommandsReturn
