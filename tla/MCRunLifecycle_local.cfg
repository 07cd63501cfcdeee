\* The application computes; one caller with receipts, one of the web API.
CONSTANTS
    NoRecord = NoRecord
    NoReceipt = NoReceipt
    Identities <- MCIdentities
    Notes = {n0}
    Note = n0
    Supervised = FALSE
    MaxAttempts = 2
    MaxSessions = 1
    MaxReceipts = 1
    Callers = {c1, l1}
    LegacyCallers = {l1}
    Contents = {d1, d2}
    Contexts = {x1, x2}
SYMMETRY Symmetry
SPECIFICATION Spec
INVARIANTS UnsavedIsKept
PROPERTIES PublishedAsValidated
