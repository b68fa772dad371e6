SPECIFICATION CarefulSpec
CONSTANTS
    ann = ann
    bob = bob
    x = x
    y = y
    Char = {x, y}
    Clients <- Duo
    Writers <- Duo
    Replacements <- OneKey
    MaxSelection = 1
    MaxInputs <- EveryInput
    Plans <- CarefulPlans
    BroadcastOutcomes <- MayFail
INVARIANTS
    ButtonsFollowStacks
    OwnEchoNeverConflicts
CHECK_DEADLOCK FALSE
