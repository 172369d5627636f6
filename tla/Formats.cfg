SPECIFICATION FormatsSpec
CONSTANTS
    SymBits = 2
    CodeBits = 8
    UintBits = 2
    FineBits = 2
    Storage = 8
    PosPer = 3
    SubfrMax = 3
    SignBatch = 2
    Coefs = 1
    Blocks = 4
    Blocksize = 2
    CountTop = 160
    MaxSymbols = 4
    MaxRed = 6
    MaxPieces = 5
    Contours <- MCContours
    GainWeight <- MCGainWeight
    Cdf <- MCCdf
    Icdf <- MCIcdf
    Frames <- MCFrames
    Predictors <- MCPredictors
    SubframePulses <- MCSubframePulses
    StunAttrs <- MCStunAttrs
    RtpHeaders <- MCRtpHeaders
    Ssrcs <- MCSsrcs
    RedBytes <- MCRedBytes
    JIDs <- MCJIDs
    Keys = {5}
    Branches <- MCBranches
    Leaves <- MCLeaves
    MaxBranches = 2
    MaxLeaves = 4
CHECK_DEADLOCK FALSE
INVARIANTS
    StreamReadBack
    FramesReadBack
    RedPartition
    DatagramsReadBack
    TextAsMeant
    RelaysRanked
    MirroredDevices
    KeyReadable
