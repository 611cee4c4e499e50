\* Two streams one after the other, in either order, through one worker.
SPECIFICATION FairSpec
CONSTANTS
    Streams = {1, 2}
    NoStream = 0
    Chunks <- FewChunks
    PipeCap = 2
    ChanCap = 1
    MaxCrashes = 1
INVARIANTS TypeOK DrainedUnlessTorn
PROPERTIES FramesAsPromised EveryStreamEnds
