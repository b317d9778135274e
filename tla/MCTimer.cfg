CONSTANTS
    TickMs = 6
    UsPerMs = 2
    MsPerSec = 6
    Mod = 16
    Secs = {0, 1, 2, 3}
    Usecs = {0, 3, 12, 15}
    MaxWaited = 24
SPECIFICATION FairSpec
INVARIANT TypeOK
PROPERTIES WaitNotShort WaitReturns
