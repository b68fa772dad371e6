SPECIFICATION RaceSpec
CONSTANTS
    ann = ann
    bob = bob
    x = x
    y = y
    Char = {x, y}
    Clients <- Duo
    Writers <- Duo
    Replacements <- OneKey
    MaxSelection = 1
    MaxInputs <- EveryInput
    Plans <- RacePlans
    BroadcastOutcomes <- Always
INVARIANTS
    TypeOK
    StepsNeverInvented
PROPERTIES
    SettledHistoryKept
CHECK_DEADLOCK FALSE
