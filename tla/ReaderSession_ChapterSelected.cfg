SPECIFICATION Spec
CONSTANTS
    None = None
    Narrow = Narrow
    Wide = Wide
    Layouts = {Narrow, Wide}
    FirstLayouts = {Narrow}
    LenOf <- UnitsOf
    Spines = 2
    Units = 6
    Anchors = {5}
    ManualStatuses = {"MARKED_FOR_LATER"}
    EndStatus = "WAITING_FOR_CHAPTER"
    Inputs = {"turn", "return", "chapter"}
    WindowAhead = 2
    StartMargin = 1
    MaxRetries = 0
    MaxDepth = 1
    MaxEvents = 6
    MaxFaults = 0
CHECK_DEADLOCK FALSE

INVARIANTS
    ChapterSelected
