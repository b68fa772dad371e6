SPECIFICATION ComponentsSpec
CONSTANTS
    ann = ann
    bob = bob
    Devices <- Two
    MaxMenus = 2
    MaxRequests <- OneAndTwo
    MaxEvents = 2
    Sources <- SomeSources
    MaxChunk = 4
    Base = 2
    IntMax = 6
    MaxVarintBytes = 2
    DefaultTotalBytesLimit = 4
    Sizes <- SomeSizes
    MaxDepth = 2
    Raws <- SomeRaws
    Registry <- SomeExtensions
    Streams <- SomeStreams
    Locations <- SomeLocations
    Texts <- SomeTexts
    Protos <- SomeFiles
    Fields = {"a", "b"}
    Objects = {1, 2, 3}
    ObjectValues = {0, 1}
    Empty = 0
    Freed = 2
    MinAllocation = 2
    MaxTotal = 3
INVARIANTS
    MissesOnlyTheStart
    ScreensFit
    UndoFindsItsPlace
    Accounting
    EventsArrive
    OwnedOnce
    EntriesOwnOnce
    WritesItself
    EverythingArrives
    BackUpIsTaken
    AllOrNothing
PROPERTIES
    DescriptorsStay
    ReadsTheData
    PointersAreSequence
    NumbersAreSequence
    HoldsValues
    IsByteStream
CHECK_DEADLOCK FALSE
