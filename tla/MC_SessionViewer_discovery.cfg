SPECIFICATION Spec
CONSTANTS
    Output <- MCOutput
    History <- MCHistory
    MaxCommand = 2
    MaxPending = 2
    MaxSkips = 1
    MaxLag = 0
    MaxRotations <- MCMaxRotations
PROPERTIES
    NewSessionsAreFollowed
