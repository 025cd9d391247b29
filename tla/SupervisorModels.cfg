SPECIFICATION Spec
CONSTANTS
    Workers = {w1}
    Catalog = {m1, m2}
    Custom = custom
    NoModel = nomodel
    GpuModels = {m1}
    BigModels = {m1}
    Repeats = 1
    MaxGen = 3
    Ops = {"generate", "select", "download", "setup", "remove", "stop", "activity_cancel", "quit_if_idle", "cancel"}
INVARIANTS
    OneResident
PROPERTIES
    SelectionFollowsStart
