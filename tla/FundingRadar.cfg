SPECIFICATION RadarSpec
CONSTANTS
    Recipients = {r1}
    Signatures = {s1, s2}
    InfraSignatures = {s1}
    EvidenceKinds <- BothKinds
    Loops = {l1}
    Operators = {o1}
    Ingesters = {i1, i2}
    Second = i2
    Required <- DefaultRequired
    AlertConfidence <- DefaultConfidence
    Window = 1
    PassLimit = 2
    MaxAborts = 1
INVARIANTS PreparationIsEvidenced
PROPERTIES SoloTerminalIsFinal FundedWindowEnds SoloPromotionIsAlerted
