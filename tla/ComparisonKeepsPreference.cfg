SPECIFICATION FairSpec
CONSTANTS
    Workers = {w1}
    Catalog = {m1}
    Custom = custom
    NoModel = nomodel
    GpuModels = {m1}
    BigModels = {}
    Repeats = 1
    MaxGen = 4
    Ops = {"select", "compare"}
PROPERTIES
    ComparisonKeepsPreference
