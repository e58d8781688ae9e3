SPECIFICATION Spec
CONSTANTS
  alice = alice
  bob = bob
  o1 = o1
  o2 = o2
  User <- MCUser
  OrgId <- MCOrgId
  Spelling <- MCSpelling
  Legal <- MCLegal
  Uuid <- MCUuid
  Name <- MCName
  Slug <- MCSlug
  Resource <- MCResource
  NoRow = NoRow
  Request = {r1, r2}
  Call <- OwnerCalls
  Anonymous = Anonymous
  NoId <- MCNoId
  RawName <- MCRawName
  Trim <- MCTrim
  RawSlug <- MCRawSlug
  Slugify <- MCSlugify
  BadSlug <- MCBadSlug
  Seat <- NoSeat
  Leavers <- NoLeavers
  Faults = {"cancel"}
  MaxErrors = 0
CHECK_DEADLOCK FALSE
SYMMETRY Symmetry
INVARIANT CreatorBecomesOwner
