\* Every type, three deviations from the plainest script
SPECIFICATION Spec
CONSTANTS
  Names <- AllNames
  Budget = 3
  MaxArgs = 2
  MaxSets = 2
  MaxElems = 2
INVARIANTS TypeOK KernelUnderstands NothingDropped Declared RestoreAccepted RoundTrip
CHECK_DEADLOCK FALSE
