CONSTANTS
    Node = {n1, n2}
    Domain = {d1}
    Addr = {a1}
    Nil = Nil
    Probe = {p1}
    ParentVal = {v1, v2}
    SetVal = {s1}
    ProbeLayers <- MCProbeLayers
    TSVal <- MCTSVal
    WindowVal <- MCWindowVal
    MaxBuild = 1
    MaxMerges = 2
SPECIFICATION Spec
INVARIANTS
    WindowMatchesLive
    TSIsEarliestMerged
    SidecarsAreLastWrite
    TopologyFromLive
    DNSKeepsEveryName
    WalksCoverFields
PROPERTY
    CopyIsFaithful
SYMMETRY Symmetry
