SPECIFICATION Spec
CONSTANTS
  r1 = r1
  c1 = c1
  c2 = c2
  s1 = s1
  s2 = s2
  d1 = d1
  d2 = d2
  Reports = {r1}
  Contents = {c1, c2}
  Senders = {s1, s2}
  Standalone = {s2}
  Drainers = {d1, d2}
  DRAIN_MAX_ATTEMPTS = 2
  IntentMayFail = FALSE
  WasOn = FALSE
  MaxCalls = 2
  MaxCrashes = 1
  MaxEdits = 0
  MaxRetired = 1
SYMMETRY DrainerSymmetry
CHECK_DEADLOCK FALSE
INVARIANTS OneRow DeliveredIsCommitted IntentLostOnlyInGap
PROPERTY NothingDropped
