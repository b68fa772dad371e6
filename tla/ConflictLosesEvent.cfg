SPECIFICATION SerialSpec
CONSTANTS
    ann = ann
    bob = bob
    x = x
    y = y
    Char = {x, y}
    Clients <- Duo
    Writers <- Duo
    Replacements <- OneKey
    MaxSelection = 0
    MaxInputs <- RaceInputs
    BroadcastOutcomes <- Always
INVARIANTS
    PoppedEventsComeBack
CHECK_DEADLOCK FALSE
