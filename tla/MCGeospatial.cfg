CONSTANTS
    RingsOf <- MCRingsOf
    LonScale <- MCLonScale
    Strategies <- MCStrategies
    MinSampleSize = 3
    MaxSampleSize = 8
    AoiIds = {a1, a2, a3}
    CampaignIds = {c1}
    Workers = {w1, w2}
SYMMETRY WorkerSymmetry
SPECIFICATION AoiSpec
INVARIANTS
    ActiveAoi
    SamplesAreSound
PROPERTIES
    RowsAreImmutable
CHECK_DEADLOCK FALSE
