SPECIFICATION Spec
SYMMETRY Symmetry
CONSTANTS
    Docs = {d1, d2}
    Slots = {m0}
    FirstSlot = m0
    Objects = {o1}
    Sizes = {1, 2}
    MaterialCounts = {1}
    MaxFramesInFlight = 2
    RenderFails = TRUE
INVARIANTS
    GeometryFresh
    PipelinesMatchMode
PROPERTY
    AssumesTarget
