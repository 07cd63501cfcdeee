\* Two callers, two actors, a journal of up to four entries; commands overlap up to the second.
CONSTANTS
    Docs = {d1, d2}
    NoDoc = NoDoc
    NoRequest = NoRequest
    NoEntry = NoEntry
    Actors = {u1, u2}
    Callers = {c1, c2}
    LegacyRevisions = {0, 2}
    MaxEntries = 4
    MaxRaced = 2
    MaxRevisions = 2
SYMMETRY Symmetry
SPECIFICATION Spec
INVARIANTS DecidedOnItsParent RequestOnce JournalReadable SavedIsPublished
PROPERTIES ImplementsEditor
