SPECIFICATION Spec
CONSTANTS
    Ends <- EightCells
    BuffSize = 44
    ErrLimit = 5
    AnyBytes = TRUE
INVARIANTS
    TypeOK
    AcceptedIsOneReply
    BufferBounded
    EveryReplyTaken
    Resync
PROPERTIES
    Delivery
