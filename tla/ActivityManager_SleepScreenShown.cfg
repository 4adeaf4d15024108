CONSTANTS
    a1 = a1  a2 = a2  a3 = a3
    Activities = {a1, a2, a3}
    None = None
    LaunchKinds = {"app", "menu"}
    MaxOps = 2
SPECIFICATION Spec
SYMMETRY ActivitySymmetry
INVARIANT SleepScreenShown
