\* A supervised application: two callers, two runs, one restart of the worker; the slot is freed.
CONSTANTS
    NoRecord = NoRecord
    NoReceipt = NoReceipt
    Identities <- MCIdentities
    Notes = {n0}
    Note = n0
    Supervised = TRUE
    MaxAttempts = 2
    MaxSessions = 2
    MaxReceipts = 1
    Callers = {c1, c2}
    LegacyCallers = {}
    Contents = {d1}
    Contexts = {x1}
SPECIFICATION FairSpec
INVARIANTS SlotHeldToTheEnd EffectsAreDurable
PROPERTIES CancelWins SlotIsFreed
