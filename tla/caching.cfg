SPECIFICATION Spec
CONSTANTS
    Nodes = {n1, n2}
    Callers = {p1, p2}
    Databases = {d1, d2}
    MaxVersion = 3
    MaxCalls = 3
    MaxCommands = 2
    Workloads = {
        {"commands", "lost"},
        {"open", "GetDocuments", "write", "cache"},
        {"open", "GetDocuments", "write", "lost"},
        {"open", "GetDocuments", "cache", "expire"},
        {"cache", "disable", "restore"},
        {"cache", "databases", "failures"},
        {"open", "MultiGet", "write"},
        {"open", "GetDocuments", "PutDocument", "close", "cache"}}
INVARIANTS
    TrackedItemsAreCurrent
    ReadIsCurrent
    ForeignAnswersKnown
CHECK_DEADLOCK FALSE
