SPECIFICATION Spec
CONSTANTS
    ByteBits = 3
    WordBytes = 2
    ChunkBits = 5
    MaxLength = 20
    BundleId = 3
    MinChild = 2
    Error = Error
    Action <- MCAction
    TextOf <- MCTextOf
    Texts <- MCTexts
    Parsed <- MCParsed
    Transitions <- MCTransitions
    Bundles <- MCBundles
    ForeignPayloads <- MCForeignPayloads
    ForeignWords <- MCForeignWords
INVARIANTS
    TypeOK
    RoundTrip
    OneFraming
    NoByteUnread
CHECK_DEADLOCK FALSE
