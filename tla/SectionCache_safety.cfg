SPECIFICATION Spec
CONSTANTS
    Small = Small
    Large = Large
    Specs = {Small, Large}
    Pages <- PagesOf
    NoFile = NoFile
    Faults = {"open", "stream", "create", "page", "cut", "tables", "rename", "remove", "parse", "read"}

INVARIANTS
    TypeOK
    CommittedOnly
    Available
    HtmlWhole
    NoLeftovers
PROPERTIES
    ClosingKeepsPages
    KeepsPromise
