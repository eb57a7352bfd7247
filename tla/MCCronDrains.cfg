SPECIFICATION FairSpec
CONSTANTS
  r1 = r1
  c1 = c1
  c2 = c2
  s1 = s1
  s2 = s2
  d1 = d1
  d2 = d2
  Reports = {r1}
  Contents = {c1}
  Senders = {s1}
  Standalone = {s1}
  Drainers = {d1}
  DRAIN_MAX_ATTEMPTS = 2
  IntentMayFail = TRUE
  WasOn = FALSE
  MaxCalls = 2
  MaxCrashes = 1
  MaxEdits = 3
  MaxRetired = 0
CHECK_DEADLOCK FALSE
INVARIANT OffEraStaysHistory
PROPERTY SpoolDrains
