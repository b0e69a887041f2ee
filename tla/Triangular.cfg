SPECIFICATION Spec
CONSTANT Amount = 2
INVARIANTS
    TypeOK
    CycleOrderIsUnwound
PROPERTIES
    UnwindOnlyShrinks
