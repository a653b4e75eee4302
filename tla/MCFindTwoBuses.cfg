SPECIFICATION Spec
CONSTANTS
  Submissions = {s1, s2, s3}
  Buses = {b1, b2}
  Commands <- GuardCommands
  Window = 1
  MaxTime = 0
  MaxCrashes = 0
  None = None
  Root = Root
  idA = idA
  keyA = keyA
  nonceA = nonceA
  nonceB = nonceB
  one = one
  two = two
  operator = operator
INVARIANTS
  AnsweredReplayBlocked
