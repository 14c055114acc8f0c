SPECIFICATION FairSpec
CONSTANTS
    MaxOutput <- MCMaxOutput
    MaxInput = 2
    PipeSize = 1
    ExitCodes <- MCExitCodes
INVARIANTS
    TypeOK
    RecordIsComplete
    InputInOrder
PROPERTIES
    Terminates
    InputIsDelivered
\* The recorder ends with its command.
CHECK_DEADLOCK FALSE
