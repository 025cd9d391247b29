SPECIFICATION FairSpec
CONSTANTS
    Workers = {w1}
    Catalog = {m1}
    Custom = custom
    NoModel = nomodel
    GpuModels = {m1}
    BigModels = {}
    Repeats = 1
    MaxGen = 2
    Ops = {"generate", "select", "activity_cancel", "quit", "stop", "remove"}
INVARIANTS
    NoOrphan
PROPERTIES
    RequestEnds
    LoadEnds
