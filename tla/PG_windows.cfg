SPECIFICATION Spec
CONSTANTS
    Pages = {p1, p2}
    View = View
    Presentations = {w1, w2}
    None = None
PROPERTIES
    OneWindowPerFrame
    
    ViewCatchesUp
