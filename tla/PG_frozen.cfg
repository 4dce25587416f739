SPECIFICATION Spec
CONSTANTS
    Pages = {p1, p2}
    View = View
    Presentations = {w1}
    None = None
INVARIANT
    FrozenWhileDriven
