SPECIFICATION Spec
CONSTANTS
    Loops = {p1}
    MaxBlock <- SmallChain
    Span <- SmallSpan
    MaxFaults = 1
INVARIANT CursorCoversStored
CHECK_DEADLOCK FALSE
