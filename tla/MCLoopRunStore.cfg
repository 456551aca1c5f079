SPECIFICATION Spec
CONSTANTS
  d1 = d1
  d2 = d2
  c1 = c1
  Driver <- MCDriver
  Controller <- MCController
  NoOwner = NoOwner
  LeaseSeconds = 2
  Grace = 1
  RetryAfter = 1
  Evidence <- MCEvidence
  MaxTime = 2
  MaxVersion = 5
SYMMETRY Symmetry
CHECK_DEADLOCK FALSE
PROPERTIES OnlyHolderAdvances LeaseNotStolen ImplementsAtomic
