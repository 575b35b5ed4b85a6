CONSTANTS
    Tags <- MCTags
    Values <- MCValues
    Behind <- MCBehind
    MaxWrites = 3
    MaxSaves = 1
SPECIFICATION Spec
INVARIANTS
    TypeOK
    ReloadIsSame
    CutFileKeepsValues
    LastValueIsRead
    OnlyFirstNameRepeats
PROPERTIES
    WriteTouchesOnlyItsTag
