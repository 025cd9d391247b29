SPECIFICATION Spec
CONSTANTS
    Workers = {w1, w2}
    Catalog = {m1}
    Custom = custom
    NoModel = nomodel
    GpuModels = {m1}
    BigModels = {}
    Repeats = 1
    MaxGen = 3
    Ops = {"generate", "select", "stop", "execution", "compare", "activity_cancel", "signal"}
SYMMETRY Symmetry
INVARIANTS
    TypeOK
    ExclusiveUse
    RequestExclusive
    FreshAfterAbandon
PROPERTIES
    ReadyUntilServed
    CancelKept
    KeepsService
