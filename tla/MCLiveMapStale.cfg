CONSTANTS
    Flight = {1}
    s1 = s1
    s2 = s2
    Slot <- MCSlot
    MaxWrites = 2
    MaxErrors = 0
    MaxTwice = 0
SPECIFICATION LiveSpec
PROPERTY NeverStale
