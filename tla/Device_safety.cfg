SPECIFICATION Spec
CONSTANTS
    Shipped = Shipped
    Newer = Newer
    Foreign = Foreign
    b1 = b1
    b2 = b2
    Images = {Newer, Shipped, Foreign}
    Fit = {Newer, Shipped}
    Broken = Broken
    Erased = Erased
    Blocks = 2
    Rollback = TRUE
    MaxSeq = 3
    Books = {b1, b2}
    None = None
SYMMETRY Symmetry

INVARIANTS
    TypeOK
    LandsWhereDue
    NoBootLoop
    SelectedBoots
    SwitchTakes
    FallbackBoots
PROPERTIES
    SleepWins
