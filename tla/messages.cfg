SPECIFICATION Spec
CONSTANTS
    Messages <- AllMessages
    Replies <- AllReplies
    BufferSizes <- Sizes
INVARIANTS
    HandedOverIntact
    ExactlyTheLegalArrive
    AnswerIsTheHandlers
    FaultsAreKnown
    PrintedAsFits
CHECK_DEADLOCK FALSE
