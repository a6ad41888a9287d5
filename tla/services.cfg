SPECIFICATION Spec
CONSTANTS
  Procs = {p1, p2}
  Cards = {c1, c2}
  Texts = {t1}
  MaxOps = 3
  MaxWarmStops = 1
  Keys = {k1, k2}
  Values = {v1}
  MaxLabel = 2
  MaxReads = 2
  MaxWrites = 2
  MaxStops = 2
  Said = {m1, m2}
  Told = {s1, s2}
  Talks = {{m1, m2}, {m1, s1}, {s1, s2}}
  MaxTurns = 3
  MaxCaptures = 2
  Ids = {i1, i2}
  MaxActive = 1
  MaxSteps = 3
  MaxHalts = 1
  Day = 8
  Year = 3
  Step = 2
  Margin = 1
  MaxText = 5
  Limits = {2, 3}
  Shorts = {1, 3}
  Mosts = {2, 3}
SYMMETRY Symmetry
CONSTRAINT ThreeCalls
INVARIANTS ColdServed  JournalsKept CheckinsTimely RepliesKept ThreadsFit MemoryDelivered ItemsHonest
PROPERTY WarmKept
\* The runs end when the bounds are used up.
CHECK_DEADLOCK FALSE
