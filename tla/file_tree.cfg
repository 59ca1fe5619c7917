SPECIFICATION Spec
CONSTANTS
    Proc = {p1, p2}
    Name = {"a", "b"}
    NINODES = 4
    NINODE = 3
    MAX_DEREFERENCE = 3
    MaxCalls = 3
    Calls <- MCCalls
    Trees <- MCTrees
SYMMETRY Symmetry
INVARIANTS RefsExact LinksExact PanicsAreKnown
PROPERTY ImplementsNamespace
