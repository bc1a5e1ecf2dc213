SPECIFICATION Spec
CONSTANTS
    Processes = {p1, p2}
    Skills = {s1}
    Files = {f1, f2}
    None = None
    p1 = p1
    p2 = p2
    f1 = f1
    f2 = f2
    s1 = s1
    Uses <- UpdateAndRemove
    MaxFaults = 1
SYMMETRY Symmetric
INVARIANTS LastCopyKept CopiesAreWhole
PROPERTIES DivergentKept
