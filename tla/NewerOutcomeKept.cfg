SPECIFICATION FairSpec
CONSTANTS
    Workers = {w1}
    Catalog = {m1, m2}
    Custom = custom
    NoModel = nomodel
    GpuModels = {m1}
    BigModels = {}
    Repeats = 1
    MaxGen = 2
    Ops = {"select"}
PROPERTIES
    NewerOutcomeKept
