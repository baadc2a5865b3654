SPECIFICATION Spec
CONSTANTS
    VariableBase = 3670016
    VariableSize = 163840
    FtwWorkingBase = 3833856
    FtwWorkingSize = 163840
    FtwSpareBase = 3997696
    FtwSpareSize = 163840
    MediaBlockSize = 4096
    SystemNvDataFvGuid <- MCSystemNvDataFvGuid
    VariableGuid <- MCVariableGuid
    AuthenticatedVariableGuid <- MCAuthenticatedVariableGuid
    Images <- MCImages
CHECK_DEADLOCK FALSE
INVARIANTS
    AllPointersConverted
