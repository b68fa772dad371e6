SPECIFICATION ComponentsSpec
CONSTANTS
    ann = ann
    bob = bob
    Devices <- Two
    MaxMenus = 2
    MaxRequests <- OneAndTwo
    MaxEvents = 1
    Threads = {"main", "worker"}
    Main = "main"
    Files = {"descriptor.proto", "textevent.pb"}
    OptionsFile = "descriptor.proto"
    MaxCalls = 1
INVARIANTS
    OneEditorPerClient
    BurstsReachTheirSession
    RoundTrip
    ConcatenationMerges
    ReflectionAgrees
    PointersAreSet
    EverythingOnce
PROPERTIES
    EveryCallReturns
    ObjectsAreOnce
    JoinOpensEditor
CHECK_DEADLOCK FALSE
