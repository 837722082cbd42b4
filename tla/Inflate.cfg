CONSTANTS
    Streams <- MCStreams
    WindowSize = 6
    MaxMatch = 4
    FastInput = 10
    Trailer = 12
    InSizes = {1, 2, 11, 30}
    OutSizes = {0, 1, 3, 20}
SPECIFICATION Spec
INVARIANTS
    TypeOK
    BitPosition
    OutputCorrect
    EndIsExact
    StopsWhenStuck
