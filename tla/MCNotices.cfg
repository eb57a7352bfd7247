CONSTANTS
    Delivered <- DeliveredBounds
    Reminded <- RemindedBounds
    Paged <- PagedBounds
    Watched <- WatchedBounds
    Claimed <- ClaimedBounds
    Pushed <- PushedBounds
    Covered <- CoveredBounds
    Heard <- HeardBounds
    Dropped <- DroppedBounds
    Opened <- OpenedBounds
    Reloaded <- ReloadedBounds
    Charged <- ChargedBounds
    Freed <- FreedBounds
SPECIFICATION Spec
INVARIANTS NoticesOnce ActivityHonest ArtifactsCharged
PROPERTIES StepsHonest NoticesArrive
CHECK_DEADLOCK FALSE
