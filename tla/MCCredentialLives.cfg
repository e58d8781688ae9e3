SPECIFICATION Spec
CONSTANTS
  ann = ann
  bob = bob
  eve = eve
  k1 = k1
  Scenes <- LifeScenes
  Request = {r1, r2, r3, r4}
  Call <- MCCall
  UserId <- MCUserId
  KeyId <- MCKeyId
  Account <- MCAccount
  NoUser = NoUser
  NoKey = NoKey
  NoCredential = NoCredential
  Junk = Junk
  Unissued <- MCNothing
  RawEmail <- MCRawEmail
  TrimEmail <- MCTrimEmail
  Password <- MCPassword
  RawScope <- MCRawScope
  TrimScope <- MCTrimScope
  Days <- MCDays
  DefaultDays = 1
  MaxDays = 2
  Never = Never
  AccessTokenExpiry = 1
  RefreshTokenExpiry = 3
  MaxTime = 5
CHECK_DEADLOCK FALSE
SYMMETRY Symmetry
CONSTRAINT InScene
INVARIANTS
  KeysEnd SessionsEnd
PROPERTIES OthersKeysStay KeepsCredentials
