SPECIFICATION PlaneSpec
CONSTANTS
  a = a
  b = b
  r1 = r1
  r2 = r2
  Clients = {a}
  Casts <- EvidenceCasts
  Probes = {m1, m2}
  MaxChanges = 2
  None = None
CHECK_DEADLOCK FALSE
INVARIANTS
  SynthesizedBlocksWrites
