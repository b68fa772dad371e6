SPECIFICATION PoliteSafety
CONSTANTS
    ann = ann
    bob = bob
    x = x
    y = y
    Char = {x, y}
    Clients <- AnnOnly
    Writers <- AnnOnly
    Replacements <- OneKey
    MaxSelection = 0
    MaxInputs <- SoloInputs
    BroadcastOutcomes <- Always
INVARIANTS
    ReversalLiesInText
CHECK_DEADLOCK FALSE
