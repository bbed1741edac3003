SPECIFICATION FairSpec
CONSTANTS
    Streams <- SmallStreams
    InputLimits = {28, 62}
    OutputLimits = {60}
    ReceiveSizes = {2, 5, 40}
    SendSizes = {15, 60}
INVARIANT ParsesAsWhole
INVARIANT BufferBounded
INVARIANT AnswersIntact
INVARIANT OutputExact
PROPERTY FeedReturns
