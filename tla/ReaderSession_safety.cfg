SPECIFICATION Spec
CONSTANTS
    None = None
    Narrow = Narrow
    Wide = Wide
    Layouts = {Narrow, Wide}
    FirstLayouts = {Narrow}
    LenOf <- UnitsOf
    Spines = 2
    Units = 6
    Anchors = {5}
    ManualStatuses = {"MARKED_FOR_LATER"}
    EndStatus = "WAITING_FOR_CHAPTER"
    Inputs = {"turn", "skip", "return", "relayout", "chapter", "bookmark", "percent", "footnote", "status", "deleteCache", "leave", "open"}
    WindowAhead = 2
    StartMargin = 1
    MaxRetries = 1
    MaxDepth = 1
    MaxEvents = 3
    MaxFaults = 1
CHECK_DEADLOCK FALSE

INVARIANTS
    TypeOK
    PlaceKept
    PageShown
    ProgressFollows
    OffsetOfPage
    EndRecorded
    ManualStatusKept
    NoNullSection
    NothingSkipped
