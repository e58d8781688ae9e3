SPECIFICATION Spec
CONSTANTS
  alice = alice
  bob = bob
  o1 = o1
  o2 = o2
  User <- MCUser
  OrgId <- MCOrgId
  Spelling <- MCSpelling
  Legal <- MCLegal
  Uuid <- MCUuid
  Name <- MCName
  Slug <- MCSlug
  Resource <- MCResource
  NoRow = NoRow
  Request = {r1, r2, r3}
  Call <- AnyCall
  Anonymous = Anonymous
  NoId <- MCNoId
  RawName <- MCRawName
  Trim <- MCTrim
  RawSlug <- MCRawSlug
  Slugify <- MCSlugify
  BadSlug <- MCBadSlug
  Seat <- TeamSeat
  Leavers <- LeaveAlice
  Faults = {"error", "lost", "cancel", "crash"}
  MaxErrors = 2
CHECK_DEADLOCK FALSE
CONSTRAINT InOrganizations
SYMMETRY Symmetry
INVARIANTS
  TypeOK IInv SlugsExclusive AckedOrgHasOwner AckedOrgStands CreateAllOrNothing
  LeaksOnlyByRace AtMostOneDeleteOK NoSilentLoss
PROPERTY KeepsLedger
