\* Every invocation in every circumstance, with failures of both ends at any time.
SPECIFICATION FairSpec
CONSTANTS
    Audio <- TwoSamples
INVARIANTS TypeOK ExitZeroMeansComplete ExitTellsVerdict PartialFileIsMarked
PROPERTIES HangUpCancelsCall EveryClientExits
