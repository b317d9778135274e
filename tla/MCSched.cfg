CONSTANTS
    t1 = t1
    t2 = t2
    t3 = t3
    Tasks = {t1, t2, t3}
    Shell = t1
    Dummy = Dummy
    NULL = NULL
    Kern = Kern
    Fault = Fault
    Events = {kbd}
    NoEvent = NoEvent
    TickMs = 10
    SleepMs = {0, 15, 20}
    CounterMod = 20
SPECIFICATION SchedSpec
INVARIANTS SchedTypeOK QueuesOK DispatchOK Acknowledged SleepBounded
PROPERTIES SleepNotEarly ImplementsAbsSched
