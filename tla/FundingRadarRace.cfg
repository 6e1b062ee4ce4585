SPECIFICATION RadarSpec
CONSTANTS
    Recipients = {r1}
    Signatures = {s1}
    InfraSignatures = {}
    EvidenceKinds = {"deployment"}
    Loops = {l1}
    Operators = {o1}
    Ingesters = {i1}
    Second = i2
    Required <- DefaultRequired
    AlertConfidence <- DefaultConfidence
    Window = 1
    PassLimit = 1
    MaxAborts = 0
PROPERTY TerminalIsFinal
