SPECIFICATION Spec
CONSTANTS
  Ref <- MCRef
  Rest <- MCRest
  Replicas <- MCReplicas
  IdleTimeout <- MCIdle
  Quantity <- MCQuantity
  Parsable <- MCParsable
  Canonical <- MCCanonical
  Extra <- MCExtra
  Nil = Nil
  Request = {r1, r2}
  Call <- TemplateCalls
  User <- MCUser
  Anonymous = Anonymous
  Name = {"n"}
  ManualSpec <- TemplateEdits
  NoObject = NoObject
  MaxRevision = 4
  MaxTime = 1
CHECK_DEADLOCK FALSE
SYMMETRY Symmetry
PROPERTY ManagedFieldsKept
