SPECIFICATION Spec
CONSTANTS
    MaxByte = 3
    PubkeySize = 1
    TableListMetadata <- MCTableListMetadata
    Node = {n1, n2}
    RowScanLimit = 1
    TableScanLimit = 4
    TableListLimit = 2
    PageSize = 1
    StackID <- MCStackID
    TableName <- MCTableName
    InnerKey <- MCInnerKey
    Prefix <- MCPrefix
    Batch <- MCBatch
    StorageName = {"x"}
    Definition <- MCDefinition
    InitialStore <- MCInitialStore
    MaxTasks = 2
    MaxFaults = 1
    MaxCalls = 1
SYMMETRY Symmetry
INVARIANT ScansAreExact
INVARIANT OrphansAreLateWrites
PROPERTY CallsDoWhatTheySay
 
CHECK_DEADLOCK FALSE
