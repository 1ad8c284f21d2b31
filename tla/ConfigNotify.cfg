\* Daemons register, lose their connections and come back while users commit.
SPECIFICATION Spec
CONSTANTS
    d1 = d1
    d2 = d2
    i1 = i1
    i2 = i2
    s1 = s1
    s2 = s2
    Daemons = {d1, d2}
    Items = {i1, i2}
    Edits = {{i1, i2}}
    Commits = {s1, s2}
    MaxVersion = 2
    MaxTries = 2
    MaxLosses = 1
INVARIANTS
    TypeOK
    ReadyIsOwed
    Converged
    NeverTorn
PROPERTIES
    StaysListed
SYMMETRY Symmetry
CHECK_DEADLOCK FALSE
