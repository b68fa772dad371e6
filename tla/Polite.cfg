SPECIFICATION PoliteTurns
CONSTANTS
    ann = ann
    bob = bob
    x = x
    y = y
    Char = {x, y}
    Clients <- Duo
    Writers <- Duo
    Replacements <- TwoKeys
    MaxSelection = 0
    MaxInputs <- EveryInput
    Plans <- PolitePlans
    BroadcastOutcomes <- Always
INVARIANTS
    ClientsAgree
    UndoFeedsRedo
    StackIdsOwn
PROPERTIES
    BurstIsSent
    Converges
CHECK_DEADLOCK FALSE
