CONSTANTS
    MaxSignals = 2
    Qty = 2
    Faults = {"refused", "lost", "crash", "withdrawn"}

SPECIFICATION Spec

INVARIANTS CallsEndClean ResumeKnowsPosition


CHECK_DEADLOCK FALSE
