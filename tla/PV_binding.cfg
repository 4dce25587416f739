SPECIFICATION Spec
CONSTANTS
    Views = {own, w1, w2}
    Own = own
    Tabbed = FALSE
    SameUrl = FALSE
    None = None
    MaxEvents = 2
INVARIANTS
    BoundToOwnView
    FilterOnBoundView
PROPERTY
    RebindHappens
