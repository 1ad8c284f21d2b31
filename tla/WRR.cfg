\* Nodes come and go, daemons come back before they have left, weights change.
SPECIFICATION Spec
CONSTANTS
    n1 = n1
    n2 = n2
    c1 = c1
    c2 = c2
    NoClient = NoClient
    Nodes = {n1, n2}
    Clients = {c1, c2}
    Weights = {2, 6}
INVARIANTS
    TypeOK
    RoutedAgain
    FairShare
    Recalculated
    RegisteredIsEnabled
    ItemsAreAlive
SYMMETRY Symmetry
