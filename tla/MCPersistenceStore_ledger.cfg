\* Two attempts, two processes, two admission identities, files and rows of an older build.
CONSTANTS
    NoRecord = NoRecord
    Nobody = Nobody
    Identities = {id1, id2}
    id1 = id1
    id2 = id2
    n0 = n0
    Notes = {n0, n1}
    InterruptNote = n0
    Attempts = {a1, a2}
    Instances = {p1, p2}
    Revisions = {r1}
    RevisionOf <- MCRevisionOf
    ProposedStates = {"RUNNING", "COMPLETED"}
    LegacyStates = {"CANCELLED", "RUNNING"}
    Proposals <- MCProposals
    LegacyRecords <- MCLegacy
SYMMETRY Symmetry
CONSTRAINT OldIsOver
SPECIFICATION Spec
INVARIANTS IndexNeverAhead LatestValidCompleted
PROPERTIES ImplementsLedger RebuildAgrees
