SPECIFICATION Spec
CONSTANTS
  r1 = r1
  c1 = c1
  c2 = c2
  s1 = s1
  s2 = s2
  d1 = d1
  d2 = d2
  Reports = {r1}
  Contents = {c1}
  Senders = {s1}
  Standalone = {}
  Drainers = {d1}
  DRAIN_MAX_ATTEMPTS = 2
  IntentMayFail = FALSE
  WasOn = TRUE
  MaxCalls = 1
  MaxCrashes = 1
  MaxEdits = 0
  MaxRetired = 0
CHECK_DEADLOCK FALSE
INVARIANT GapIsRecoverable
