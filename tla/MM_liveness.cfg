SPECIFICATION FairSpec
CONSTANTS
    Docs = {pdf, v3d}
    Threaded = {pdf}
    Models = {a}
    Views = {home, turned}
    HomeView = home
    Modes = 1
    Sizes = {small}
    NullSize = nullsize
    Keys = {"H", "M"}
    Main = main
    NoThread = nothread
    NoModel = nomodel
INVARIANTS
    TypeOK
    NoCircularWait
    CoherentUnraced
    GlobalsExclusive
PROPERTIES
    RequestCompletes
