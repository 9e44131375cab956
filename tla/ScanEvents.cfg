SPECIFICATION Spec
CONSTANTS
    MaxEntries = 2
    MaxChunks = 3
    MaxPerChunk = 1
INVARIANTS
    TypeOK
    StreamMatchesSession
    IdsAndNumbersUnique
    WellBracketed
    CompleteIsWhole
    PromptCancel
PROPERTIES
    ConsumerReleased
