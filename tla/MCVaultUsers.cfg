SPECIFICATION Spec
CONSTANTS
  o = o
  v = v
  s1 = s1
  s2 = s2
  s3 = s3
  pa = pa
  pb = pb
  ka = ka
  kb = kb
  kc = kc
  Users = {o, v}
  Owner = o
  Slots = {s1, s2}
  Passwords = {pa, pb}
  Keys = {ka, kb}
  None = None
  Torn = Torn
  MaxVersion = 2
  Offered <- UserTraffic
SYMMETRY KeySymmetry
INVARIANTS
  LockedHoldsNoPlaintext
  
  FifoNeverStale
  EnvelopeHasItsKey
  OnlyAllowedHoldSessions
