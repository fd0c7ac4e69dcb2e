\* A kernel mode module: two fixtures, two reports per call, an event buffer
\* with room for three small events.
CONSTANTS
    Images <- MCImages
    Driver = d1
    Others = {d2, d3}
    MaxNameLength = 3
    MaxFixtureName = 3
    MaxChanges = 1
    BufferLimit = 3
    FullEvent = 2
    LongEvent = 3
    MaxReports = 2
    Settings <- MCSettings
    Faults = TRUE
CONSTRAINT Undisturbed
SPECIFICATION Spec
INVARIANTS
    ModuleFaithful
    RoutineOfPhase
    FailureVisible
    ResponseConsistent
    StorageCarried
