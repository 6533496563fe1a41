SPECIFICATION Spec
CONSTANTS
  o = o
  v = v
  s1 = s1
  s2 = s2
  s3 = s3
  pa = pa
  pb = pb
  ka = ka
  kb = kb
  kc = kc
  Users = {o}
  Owner = o
  Slots = {s1, s2, s3}
  Passwords = {pa}
  Keys = {ka, kb, kc}
  None = None
  Torn = Torn
  MaxVersion = 1
  Offered <- KeyRace
SYMMETRY KeySymmetry
INVARIANTS
  EnvelopeHasItsKey
