CONSTANTS
    Lines <- MCLines
    CommandNames <- MCCommandNames
    Files <- MCFiles
    fhead = "fhead"
    FileNames <- MCFileNames
    Mapped <- MCMapped
    Own <- MCOwn
    Frames <- MCFrames
    HexPerByte = 1
    ArgSize = 20
    ReadSize = 16
    DataSize = 7
    AddrSize = 8
    OtherSize = 16
SPECIFICATION Spec
INVARIANTS LibraryAsDocumented
