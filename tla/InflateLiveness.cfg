CONSTANTS
    Streams <- LiveStreams
    WindowSize = 6
    MaxMatch = 4
    FastInput = 10
    Trailer = 12
    InSizes = {1, 30}
    OutSizes = {0, 3}
SPECIFICATION FairSpec
PROPERTY EveryStreamEnds
