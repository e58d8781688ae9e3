SPECIFICATION Spec
CONSTANTS
  ann = ann
  bob = bob
  eve = eve
  k1 = k1
  Scenes <- DoorScenes
  Request = {r1, r2}
  Call <- MCCall
  UserId <- MCUserId
  KeyId <- MCKeyId
  Account <- MCAccount
  NoUser = NoUser
  NoKey = NoKey
  NoCredential = NoCredential
  Junk = Junk
  Unissued <- MCNothing
  RawEmail <- MCRawEmail
  TrimEmail <- MCTrimEmail
  Password <- MCPassword
  RawScope <- MCRawScope
  TrimScope <- MCTrimScope
  Days <- MCDays
  DefaultDays = 1
  MaxDays = 2
  Never = Never
  AccessTokenExpiry = 1
  RefreshTokenExpiry = 2
  MaxTime = 2
CHECK_DEADLOCK FALSE
SYMMETRY Symmetry
CONSTRAINT InScene
INVARIANT KeysHoldValidScopes
