SPECIFICATION KeyboardSpec
CONSTANTS
    Keys <- MCKeys
    MaxBytes = 3
    MaxTyped = 2
INVARIANTS
    BufferIsWhatWasTyped
    NoStuckModifier
