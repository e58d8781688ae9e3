SPECIFICATION Spec
CONSTANTS
  Ref <- MCRef
  Rest <- MCRest
  Replicas <- MCReplicas
  IdleTimeout <- MCIdle
  Quantity <- MCQuantity
  Parsable <- MCParsable
  Canonical <- MCCanonical
  Extra <- MCExtra
  Nil = Nil
  Request = {r1, r2, r3}
  Call <- AllCalls
  User <- MCUser
  Anonymous = Anonymous
  Name = {"n"}
  ManualSpec <- Edits
  NoObject = NoObject
  MaxRevision = 3
  MaxTime = 2
CHECK_DEADLOCK FALSE
SYMMETRY Symmetry
CONSTRAINT InScene
INVARIANTS
  TypeOK IInv WakeSticks SentBackIsTheSame
PROPERTIES
  KeepsCatalog NoLostUpdate
