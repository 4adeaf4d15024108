SPECIFICATION Spec
CONSTANTS
    Small = Small
    Large = Large
    Specs = {Small, Large}
    Pages <- PagesOf
    NoFile = NoFile
    Faults = {"open", "stream", "create", "page", "tables", "rename", "remove", "parse", "read"}

INVARIANT WatermarkReadable
