SPECIFICATION AuthSpec
CONSTANTS
  Device = {d1, d2}
  Code = {o1, o2}
  Challenge = {c1, c2, c3}
  Token = {t1, t2, t3}
  KeyText = {k1, k2}
  Request = {r1, r2}
  Act = {a1, a2}
  Login = Login
  NoDevice = NoDevice
  NoKey = NoKey
  NoToken = NoToken
SYMMETRY AuthSymmetry
INVARIANTS
  AuthTypeOK
  SingleUse
  RevokedHasNothing
  ActsConfirmed
CHECK_DEADLOCK FALSE
