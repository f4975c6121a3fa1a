SPECIFICATION Spec
CONSTANTS
    Events = {e1, e2, e3}
    Sources = {s1, s2}
    MaxTime = 2
    Limit = 1
    MaxUpdates = 1
SYMMETRY Symmetry
INVARIANTS PagingIsComplete SummaryIsOrdered
