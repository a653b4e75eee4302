SPECIFICATION FairSpec
CONSTANTS
  Submissions = {s1, s2}
  Buses = {b1}
  Commands <- CausalCommands
  Window = 1
  MaxTime = 1
  MaxCrashes = 1
  None = None
  Root = Root
  idA = idA
  keyA = keyA
  nonceA = nonceA
  nonceB = nonceB
  one = one
  two = two
  operator = operator
INVARIANTS
  RoutedOnParent
PROPERTIES
  KeepsJournal
  EverySubmissionAnswered
