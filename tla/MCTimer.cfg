\* Halves of two bits; the clock passes two carries into the high half.
CONSTANTS
    HALF = 4
    QUANTUM = 3
    MaxTime = 8
SPECIFICATION Spec
INVARIANTS
    TimeIsCurrent
    QuantumGuaranteed
\* The clock stops at its bound.
CHECK_DEADLOCK FALSE
