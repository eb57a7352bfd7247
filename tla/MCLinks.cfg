CONSTANTS
    Sent <- SentBounds
    Merged <- MergedBounds
    Drained <- DrainedBounds
    Followed <- FollowedBounds
    Crowded <- CrowdedBounds
    Shown <- ShownBounds
    Linked <- LinkedBounds
    Asked <- AskedBounds
    Held <- HeldBounds
    Ticketed <- TicketedBounds
    Proxied <- ProxiedBounds
    Queued <- QueuedBounds
    Dismissed <- DismissedBounds
SPECIFICATION Spec
INVARIANTS CrossOnce LinkHonest ProxyOwns
PROPERTIES LinkSteps CallsEnd
CHECK_DEADLOCK FALSE
