CONSTANTS
  Keys = {k1}
  Uids = {u1, u2}
  Reqs = {r1, r2, r3}
  None = None
  TTL = 0
  MaxQueue = 1
SPECIFICATION Spec
SYMMETRY Interchangeable
INVARIANTS
  SentIsBinding
  OneAccountPerSession
