SPECIFICATION Spec
CONSTANTS
    c1 = c1
    Call <- MCCall
    requests <- MCrequests
    MaxMessages = 0
    MaxCalls = 1
    StackID = {1}
    AssemblyID = {1}
    stack_id <- MCstack_id
    Revision = {1, 2, 3, 4}
    Compiles = {1, 2, 4}
    memory_limit <- MCmemory_limit
    MemoryType <- MCMemoryType
    MaxPages = 2
    MaxRestarts = 1
    MaxChanges = 1
CHECK_DEADLOCK FALSE
PROPERTY FailingFunctionsDoNotHang
