\* Three readers and enough room for each to read twice among the increments.
SPECIFICATION Spec
CONSTANTS
    Reader = {r1, r2, r3}
    Nobody = Nobody
    MaxNext = 8
INVARIANTS
    TypeOK
PROPERTIES
    ImplementsAtomicCounter
CHECK_DEADLOCK FALSE
