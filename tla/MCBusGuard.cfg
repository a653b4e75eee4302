SPECIFICATION Spec
CONSTANTS
  Submissions = {s1, s2, s3}
  Buses = {b1}
  Commands <- GuardCommands
  Window = 1
  MaxTime = 1
  MaxCrashes = 1
  None = None
  Root = Root
  idA = idA
  keyA = keyA
  nonceA = nonceA
  nonceB = nonceB
  one = one
  two = two
  operator = operator
SYMMETRY SubmissionSymmetry
INVARIANTS
  NoncesKept
  AnsweredReplayBlocked
