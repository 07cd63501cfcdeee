\* Two callers, two identifiers with one file name, a restart, a save by another process.
CONSTANTS
    Callers = {c1, c2}
    Requests <- MCRequests
    Results <- MCResults
    PortCodes = {"NOT_FOUND", "BOUNDARY_FAILURE", "DRAFT_EXISTS"}
    Registries <- MCRegistries
    NoEntry = NoEntry
    MaxSessions = 2
    DraftIds = {"a.b", "a-b"}
    Bodies = {"x", "y"}
    SafeName <- MCSafeName
    Torn = Torn
    MaxRevision = 3
    Foreign <- MCForeign
    MaxForeign = 1
SPECIFICATION DraftSpec
INVARIANTS AcknowledgedStay RevisionsAreChanges ReadsAreFresh
PROPERTIES ImplementsOnce
SYMMETRY Symmetry
CONSTRAINT OneStoreShared
CHECK_DEADLOCK FALSE
