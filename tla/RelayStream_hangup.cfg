\* The client hangs up during a write.
SPECIFICATION Spec
CONSTANTS
    HeaderLen = 3
    BodyLen = 3
    MaxChunk = 4
    ChanCap = 2
INVARIANTS HangUpEndsUpstream
