SPECIFICATION Spec
CONSTANTS
    Docs = {pdf}
    Threaded = {pdf}
    Models = {a, b}
    Views = {home, turned}
    HomeView = home
    Modes = 2
    Sizes = {small, large}
    NullSize = nullsize
    Keys = {}
    Main = main
    NoThread = nothread
    NoModel = nomodel
INVARIANTS
    CacheCoherent
    DragTargetLoaded
PROPERTIES
    RendersAtomically
