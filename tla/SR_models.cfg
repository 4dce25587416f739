SPECIFICATION Spec
SYMMETRY Symmetry
CONSTANTS
    Docs = {d1}
    Slots = {m0, m1}
    FirstSlot = m0
    Objects = {o1, o2}
    Sizes = {1, 2}
    MaterialCounts = {1}
    MaxFramesInFlight = 2
    RenderFails = FALSE
INVARIANTS
    GeometryFresh
    TessellationFresh
