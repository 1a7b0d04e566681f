CONSTANTS
    Max = 2
    Networks = {n1, n2}
    Passwords = {p1}
    Tasks = {web, console}
    None = None
    Overlap = TRUE
SPECIFICATION Spec
INVARIANT NoDuplicates
SYMMETRY Symmetry
