\* Two users with one item, one block and one list entry.
SPECIFICATION Spec
CONSTANTS
    u1 = u1
    u2 = u2
    i = i
    b = b
    l = l
    e = e
    v1 = v1
    Empty = Empty
    Root = Root
    Gone = Gone
    None = None
    Users = {u1, u2}
    Items = {i}
    Blocks = {b}
    Leaves = {l}
    Lists = {e}
    Values = {v1}
    Files <- GivenFiles
    MaxRevisions = 1
INVARIANTS
    TypeOK
    OwnerIsKnown
    
PROPERTIES
    WorkingNodesAlive
    OthersAreReadOnly
    ImplementsStore
SYMMETRY Symmetry
