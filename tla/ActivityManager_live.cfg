\* Liveness; the objects are not symmetric here.
CONSTANTS
    a1 = a1  a2 = a2
    Activities = {a1, a2}
    None = None
    LaunchKinds = {"app"}
    MaxOps = 2
SPECIFICATION FairSpec
PROPERTIES
    WaitReturns
    RequestedIsDrawn
    UncoveredIsDrawn
