SPECIFICATION IntakeFairSpec
CONSTANTS
  NMsg = 2
  MaxSize = 3
  NFlush = 2
  MaxBatch = 2
  MaxMishaps = 2
INVARIANT BatchKept
PROPERTY IntakeSettles
