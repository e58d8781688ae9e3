SPECIFICATION GSpec
CONSTANTS
  ann = ann
  bob = bob
  eve = eve
  k1 = k1
  b1 = b1
  r1 = r1
  r2 = r2
  r3 = r3
  r4 = r4
  b2 = b2
  Scenes <- MCNothing
  Request = {r1, r2, r3, r4}
  Call <- MCAsked
  UserId <- MCUserId
  KeyId <- MCKeyId
  Account <- MCAccount
  NoUser = NoUser
  NoKey = NoKey
  NoCredential = NoCredential
  Junk = Junk
  Unissued <- MCNoCredential
  RawEmail <- MCRawEmail
  TrimEmail <- MCTrimEmail
  Password <- MCPassword
  RawScope <- MCRawScope
  TrimScope <- MCTrimScope
  Days <- MCDays
  DefaultDays = 1
  MaxDays = 2
  Never = Never
  AccessTokenExpiry = 1
  RefreshTokenExpiry = 2
  MaxTime = 2
  Browser = {b1, b2}
  HTTPCall <- MCHTTPCall
  Segment <- MCSegment
  Path <- MCPath
  KeyNamed <- MCKeyNamed
  NoCookie = NoCookie
  NoHTTP = NoHTTP
  NoRequest = NoRequest
  CookieMaxAge = 1
CHECK_DEADLOCK FALSE
CONSTRAINT InGateway
INVARIANTS
  GIInv ActsForItsSession SignedInStaysIn ActsOnWhatTheURLNames
PROPERTY GetsOnlyRead
