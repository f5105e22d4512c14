SPECIFICATION Spec
CONSTANTS
  Key = {k1, k2, k3}
  User = {u1, u2}
  Anonymous = Anonymous
  Proc = {p1, p2}
  MaxKeysPerUser = 1
  DefaultExpiry = 0
  ExpiresIn = {0, 1}
  MaxTime = 2
  Memory = FALSE
  KeyAuth = TRUE
  Never = Never
  NoKey = NoKey
  NoUser = NoUser
  NoId = NoId
SYMMETRY KeySymmetry
INVARIANT TypeOK LimitOvershoot
PROPERTY RevocationSettles OwnerOnly
