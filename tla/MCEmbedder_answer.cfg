CONSTANTS
    b1 = b1
    b2 = b2
    EmbedCalls = {b1, b2}
    Chunks <- OneEach
    Shape <- Vectors1536
    PipeLines = 2
SPECIFICATION EmbedSpec
CHECK_DEADLOCK FALSE
INVARIANT OwnAnswer
