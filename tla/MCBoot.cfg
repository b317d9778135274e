CONSTANTS
    BusMax = 2
    DevMax = 2
    FuncMax = 2
    Slots <- MCSlots
    AtaFns <- MCAta
    HeapPages = 16
    PageSize = 8
    PciNode = 2
    BlkNode = 1
    MaxTasks = 3
SPECIFICATION Spec
INVARIANTS TypeOK PagesNotShared SpillIsHarmless SwitchFindsTss ScanIsExact FaultExplained InterruptsServed
CHECK_DEADLOCK FALSE
