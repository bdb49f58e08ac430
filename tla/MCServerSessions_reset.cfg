SPECIFICATION SafeSpec
CONSTANT Setups <- ResetSetups
INVARIANT ResetHitsOwnStream
