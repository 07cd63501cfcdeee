\* A worker replaced between the session check and the dispatch.
CONSTANTS
    NoRecord = NoRecord
    NoReceipt = NoReceipt
    Identities <- MCIdentities
    Notes = {n0}
    Note = n0
    Supervised = TRUE
    MaxAttempts = 1
    MaxSessions = 2
    MaxReceipts = 1
    Callers = {c1}
    LegacyCallers = {}
    Contents = {d1}
    Contexts = {x1}
SPECIFICATION Spec
INVARIANTS ComputedByValidatingWorker
