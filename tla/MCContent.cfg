CONSTANTS
    w1 = w1
    w2 = w2
    w3 = w3
    w4 = w4
    Texts <- SomeTexts
    TokenBytes = 2
    ChunkTokens = 5
    Overlap = 3
    MaxBlocks = 5
    BlockSizes = {1, 3, 6, 13}
    MaxItems = 3
    MaxPeople = 4
    PersonTags = {g1, g2}
    PersonNames = {n1, n2}
    NoName = NoName
    SpeakerTags = {t0}
    OwnerTag = ownerTag
    Persons = {ann}
    Me = me
    Voices = {va, vb}
    MyVoice = vme
    Nobody = Nobody
    MaxSamples = 2
    EnoughSamples = 2
    SpeakerRuns = 2
    Commands = 2
    TrackChunks = 2
    SpanLen = 2
    Cuts = {1, 3}
    Uncut = Uncut
    Phrase = Phrase
    Brief = Brief
    Artifact = Artifact
    Utterances = {Phrase, Brief, Artifact}
    Long = {Phrase}
    Noise = {Artifact}
    Takes <- SomeTakes
    MaxSpeakers = 2
    LoopAt = 3
    Langs = {ru, en}
    NoLang = NoLang
    TopChunk = 2
    Keeps = {0, 1, 2}
    i1 = i1
    i2 = i2
    j2 = j2
    IndexedCalls = {i1, i2}
    IndexJobs = {j1, j2}
    MaxIndexings = 3
    MaxContent = 2
    q1 = q1
    q2 = q2
    e1 = e1
    e2 = e2
    Asks = {q1, q2}
    Chats = {h1, h2, h3}
    AskCalls = {e1, e2}
    CallTurns <- SomeTurns
    CallRows <- SomeRows
    NoTime = NoTime
    NoScope = NoScope
    NoChat = NoChat
    RrfK = 1
    FusionCandidates = 2
    GlobalLimit = 3
    OwnLimit = 2
    OtherLimit = 1
    TokenBudget = 5
    CallCap = 2
    CardTokens = 2
    MaxCards = 2
    FallbackSources = 2
    WindowTokens = 2
    TurnSizes = {1, 2, 4}
    MaxTurns = 5
INIT Init
NEXT Next
INVARIANTS
    TextKept
    SpeakersKept
    
    
    
    AnswerGrounded
CHECK_DEADLOCK FALSE
