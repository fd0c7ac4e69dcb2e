\* A kernel mode module, one of whose threads asks for the run to be aborted.
CONSTANTS
    Images <- MCImages
    Driver = d1
    Others = {d2, d3}
    MaxNameLength = 3
    MaxFixtureName = 3
    MaxChanges = 1
    BufferLimit = 3
    FullEvent = 2
    LongEvent = 3
    MaxReports = 2
    Settings <- MCSettings
    Faults = TRUE
CONSTRAINT Undisturbed
SPECIFICATION Spec
INVARIANT AbortRunSet
