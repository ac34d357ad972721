SPECIFICATION Spec
CONSTANTS
  c1 = c1
  c2 = c2
  n1 = n1
  n2 = n2
  n3 = n3
  None = None
  Calls = {c1, c2}
  Nodes = {n1, n2, n3}
  Targets <- MCTargets
  RetNum <- MCRetNum
  MaxClock = 1
INVARIANTS TypeOK NoLostWakeup DistinctAnswers AnswersBounded
PROPERTIES EntriesErased
CHECK_DEADLOCK FALSE
