CONSTANTS
    Claims <- ClaimsBounds
    Switched <- SwitchedBounds
    Follows <- FollowsBounds
    Settles <- SettlesBounds
    Locked <- LockedBounds
    Audited <- AuditedBounds
    Arms <- ArmsBounds
    Loads <- LoadsBounds
    Overlaps <- OverlapsBounds
SPECIFICATION Spec
INVARIANTS WakesOnce BatchesFollowed LedgerAtomic NoZombieWorker LoadsAreWhole
PROPERTIES FusedAdmitsNothing WorkGetsDone
CHECK_DEADLOCK FALSE
