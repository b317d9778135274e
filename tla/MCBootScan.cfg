CONSTANTS
    BusMax = 2
    DevMax = 2
    FuncMax = 2
    Slots <- MCLimitSlots
    AtaFns <- MCLimitAta
    HeapPages = 16
    PageSize = 8
    PciNode = 2
    BlkNode = 1
    MaxTasks = 3
SPECIFICATION Spec
INVARIANTS AllDevicesFound
CHECK_DEADLOCK FALSE
