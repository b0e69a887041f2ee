SPECIFICATION Spec
CONSTANT Amount = 1
INVARIANT NoUnwantedPosition
