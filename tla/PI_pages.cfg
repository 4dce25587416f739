SPECIFICATION Spec
CONSTANTS
    Files = {f1, f2}
    ModelFiles = {f1}
    NoFile = nofile
    Pages = {p1, p2, p3}
    Broken = {p3}
    Sizes = {s1}
    Settings = {x1, x2}
    NoImage = noimage
    MaxEntries = 1
INVARIANTS
    BackgroundSound
    BackgroundBounded
    ServedPage
PROPERTY
    RequestReturns
