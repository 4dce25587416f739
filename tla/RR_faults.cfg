SPECIFICATION Spec
CONSTANTS
    Sizes = {1, 2, 5, 24}
    Layers = 4
    Memory = 57
    Faults = {"create", "alloc", "shader", "host", "frame"}
INVARIANTS
    TypeOK
    FrameObjectsInPlace
    BuffersFreedOnce
    
PROPERTY
    KeepsTarget
