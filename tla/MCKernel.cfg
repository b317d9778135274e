CONSTANTS
    t1 = t1
    t2 = t2
    t3 = t3
    Tasks = {t1, t2}
    Shell = t1
    Dummy = Dummy
    NULL = NULL
    Kern = Kern
    Fault = Fault
    KBD = KBD
    Events = {KBD}
    NoEvent = NoEvent
    TickMs = 10
    SleepMs = {10}
    CounterMod = 20
    Keys = {"release", "bs", "enter", "char"}
    NoKey = NoKey
    QSize = 2
    BufSize = 3
SPECIFICATION FairSpec
VIEW View
INVARIANTS KernelTypeOK NoLostWakeup WaitersAreReaders
PROPERTIES ImplementsFifo KeysAreRead NoStarvation SleepersWake
