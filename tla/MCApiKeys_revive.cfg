SPECIFICATION Spec
CONSTANTS
  Key = {k1}
  User = {u1}
  Anonymous = Anonymous
  Proc = {p1, p2}
  MaxKeysPerUser = 1
  DefaultExpiry = 0
  ExpiresIn = {0}
  MaxTime = 0
  Memory = TRUE
  KeyAuth = TRUE
  Never = Never
  NoKey = NoKey
  NoUser = NoUser
  NoId = NoId
SYMMETRY KeySymmetry
INVARIANT RevokedForGood
