SPECIFICATION Spec
CONSTANTS
  k1 = k1
  k2 = k2
  k3 = k3
  s1 = s1
  s2 = s2
  b1 = b1
  b2 = b2
  b3 = b3
  d1 = d1
  d2 = d2
  Keys = {k1, k3}
  Sessions = {s1, s2}
  Batches = {b1, b2}
  Doors = {d1}
  SessionOf <- TwoSessions
  Source <- OwnSource
  Ignorable = {}
  SESSION_WAKE_LIMIT = 1
  PROFILE_WAKE_LIMIT = 1
  BATCH_MAX = 1
  QUOTA_WINDOW = 1
  CONTENT_COOLDOWN = 0
  RETENTION_TTL = 2
  LiveBotChat = TRUE
  MaxLost = 1
  MaxNow = 1
SYMMETRY BatchSymmetry
INVARIANTS QuotaHeld ReservedIsUndispatched
