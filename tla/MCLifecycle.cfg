SPECIFICATION FairSpec
CONSTANTS
  h1 = h1
  h2 = h2
  g1 = g1
  s1 = s1
  Request = {h1, h2, g1, s1}
  Direct = {g1, s1}
  Stream = {s1}
CHECK_DEADLOCK FALSE
INVARIANTS
  IInv NothingCutOff HandlersHaveThePool RefusedDidNotRun RefusedOnlyAtTheEnd
PROPERTIES
  StopsInTheEnd EverybodyHears KeepsReplica
