\* Navigation among ordinary screens, screens with a home gesture of their own and
\* USB Drive, which takes the raw storage away from everything else.
CONSTANTS
    a1 = a1  a2 = a2  a3 = a3  a4 = a4
    Activities = {a1, a2, a3, a4}
    None = None
    LaunchKinds = {"app", "menu", "usb"}
    MaxOps = 2
SPECIFICATION Spec
SYMMETRY ActivitySymmetry
INVARIANTS
    TypeOK
    RenderTargetAlive
    PendingConsistent
    HandlerMatchesChild
    WaitAsserts
    NoLostWakeup
PROPERTIES
    WaitShowsLockedWrites
    UsbNeverLeft
