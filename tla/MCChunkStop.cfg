CONSTANTS
    MaxChunk = 3
    NoFile = NoFile
    Tasks = {t1, t2, t3}
    Blocking = {t3}
    Free = Free
SPECIFICATION StopSpec
INVARIANTS
    TypeOK
    NoReopen
    IndicesAgree
    TranscribesClosed
    TailIsKept
    LosesAtMostTheTail
    QueueSafe
PROPERTIES
    StopEnds
    QueueMoves
