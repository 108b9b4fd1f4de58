SPECIFICATION Spec
CONSTANTS
    MaxSize = 20
    Widths <- AllWidths
    NameSize = 2
    Names <- SomeNames
    Texts <- MessageTexts
    FlagBits = {2, 3}
    Numbers = {0, 7}
    ErrorCodes <- SomeCodes
    ParsedTexts <- ShortTexts
    Devices <- PlainNames
    DumpTexts <- MessageTexts
INVARIANTS
    WithinBuffers
    EndsExactly
    TextAligned
    RoundTrips
    AnswersReadBack
    NoLeftovers
    MapSymmetric
    AnswersComeBack
CHECK_DEADLOCK FALSE
