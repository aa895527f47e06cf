SPECIFICATION Spec
CONSTANTS
    Scopes = {maestro, f1}
    Maestro = maestro
    Names = {a, b}
    MaxThreads = 2
    MaxTries = 2
    Watched = {f1}
    None = none
INVARIANT TopicsInv
PROPERTY BindingsKept
