SPECIFICATION WatchSpec
CONSTANTS
    ann = ann
    bob = bob
    x = x
    y = y
    Char = {x, y}
    Clients <- Duo
    Writers <- AnnOnly
    Replacements <- OneKey
    MaxSelection = 0
    MaxInputs <- EveryInput
    Plans <- WatchPlans
    BroadcastOutcomes <- Always
INVARIANTS
    SoloHistories
    TriggerAwaitsEcho
PROPERTIES
    WatchersShareText
CHECK_DEADLOCK FALSE
