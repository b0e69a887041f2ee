SPECIFICATION Spec
CONSTANTS
    Amount = 2
    MaxRepegs = 2
INVARIANT BrokenLegFlattened
