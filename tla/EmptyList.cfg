SPECIFICATION PatientSafety
CONSTANTS
    ann = ann
    bob = bob
    Devices <- Two
    MaxMenus = 1
    MaxRequests <- OneAndOne
    MaxEvents = 1
INVARIANTS
    ListsAreDisplayed
CHECK_DEADLOCK FALSE
