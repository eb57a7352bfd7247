SPECIFICATION Spec
CONSTANTS
  k1 = k1
  k2 = k2
  k3 = k3
  s1 = s1
  s2 = s2
  b1 = b1
  b2 = b2
  b3 = b3
  d1 = d1
  d2 = d2
  Keys = {k1, k2}
  Sessions = {s1}
  Batches = {b1, b2}
  Doors = {d1}
  SessionOf <- OneSession
  Source <- OwnSource
  Ignorable = {k2}
  SESSION_WAKE_LIMIT = 2
  PROFILE_WAKE_LIMIT = 2
  BATCH_MAX = 2
  QUOTA_WINDOW = 1
  CONTENT_COOLDOWN = 0
  RETENTION_TTL = 0
  LiveBotChat = TRUE
  MaxLost = 1
  MaxNow = 1
SYMMETRY BatchSymmetry
INVARIANT RevertedMeansUnlaunched
