SPECIFICATION SafeSpec
CONSTANTS
    w1 = w1
    w2 = w2
    MaxCommands = 1
    Setups <- CrossSetups
INVARIANT NothingStranded
