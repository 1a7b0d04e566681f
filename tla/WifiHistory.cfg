CONSTANTS
    Max = 3
    Networks = {n1, n2, n3, n4}
    Passwords = {p1}
    Tasks = {web, console}
    None = None
    Overlap = FALSE
SPECIFICATION Spec
INVARIANTS HistoryWellFormed FlashWellFormed AcknowledgedSurvives
PROPERTY ImplementsRecentStore
SYMMETRY Symmetry
