SPECIFICATION MemorySpec
CONSTANTS
    Handles = {0, 1}
    Times = {0, 1, 2}
    NoDeadline = NoDeadline
    Factor = 1
    Slack = 2
    MaxCopies = 2
    Buffers = {b1, b2, b3}
    Holders = {h1, h2, h3}
    NoBuffer = NoBuffer
INVARIANTS
    NoTimerLost PopExact NextIsEarliest BuffersHaveOneOwner ContentIntact LimitsHold
SYMMETRY Symmetry
