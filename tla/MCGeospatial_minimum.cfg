CONSTANTS
    RingsOf <- MCRingsOf
    LonScale <- MCLonScale
    Strategies <- MCUnevenStrategies
    MinSampleSize = 1000
    MaxSampleSize = 5000
    AoiIds = {a1, a2, a3}
    CampaignIds = {c1}
    Workers = {w1, w2}
SYMMETRY WorkerSymmetry
SPECIFICATION AoiSpec
INVARIANTS
    MinimumPerClass
CHECK_DEADLOCK FALSE
