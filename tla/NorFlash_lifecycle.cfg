SPECIFICATION Spec
CONSTANTS
    VariableBase = 3670016
    VariableSize = 163840
    FtwWorkingBase = 3833856
    FtwWorkingSize = 163840
    FtwSpareBase = 3997696
    FtwSpareSize = 163840
    MediaBlockSize = 4096
    SystemNvDataFvGuid <- MCSystemNvDataFvGuid
    VariableGuid <- MCVariableGuid
    AuthenticatedVariableGuid <- MCAuthenticatedVariableGuid
    Images <- MCImages
\* The entry point has returned or stopped and the address change is done: nothing is left to do.
CHECK_DEADLOCK FALSE
INVARIANTS
    TypeOK
    AnnouncedIsServed
    ServedIsReady
    FreshIsServed
    DamageNoticed
    ConvertedOnce
    VolumeUsable
    StraysOnlyAfterFailure
