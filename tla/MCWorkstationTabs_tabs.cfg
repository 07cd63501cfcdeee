\* Two cases, two contents, up to two runs, tabs closed and opened again.
CONSTANTS
    None = None
    Cases = {A, B}
    Contents = {p, q}
    Initial = p
    WellPosed = {p}
    Loads <- MCLoads
    MaxWork = 4
    MaxRuns = 2
    MaxSerial = 3
CHECK_DEADLOCK FALSE
SYMMETRY Symmetry
SPECIFICATION Spec
INVARIANTS RunnableIsValidated ResultsStayWithTheirCase UnflaggedIsCurrent OverlaysFromValidRuns
PROPERTIES NavigationKeepsInputs
