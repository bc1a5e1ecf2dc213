SPECIFICATION Spec
CONSTANTS
    Writers = {w1, w2}
    Free = Free
    g1 = g1
    g2 = g2
    Gates <- MCGates
    Events <- MCEvents
    MaxAttempts = 1
    MaxEvents = 3
    MaxFaults = 2
    w1 = w1
    w2 = w2
INVARIANTS InSequence AttemptsCapped AckedSurvives CleanWhenFree FailuresStayOpen
PROPERTIES TornIsFrozen
SYMMETRY Symmetric
