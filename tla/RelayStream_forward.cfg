\* Chunks of one to four bytes cut a header of three and a body of seven anywhere;
\* the channel of two makes both tasks wait for each other.
SPECIFICATION FairSpec
CONSTANTS
    HeaderLen = 3
    BodyLen = 7
    MaxChunk = 4
    ChanCap = 2
INVARIANTS TypeOK SamplesInOrder EndIsComplete StayingClientGetsTerminal
PROPERTIES FramesAsPromised HandlerReturns ForwarderEnds
