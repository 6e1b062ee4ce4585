SPECIFICATION Spec
CONSTANTS
    Tokens = {1}
    Workers = {w1, w2}
    ClaimIds = {i1, i2, i3}
    Lease = 2
    Reeval = 2
    BatchLimit = 1
    MaxFaults = 0
SYMMETRY WorkerAndIdSymmetry
PROPERTY EvaluationsAreSpaced
