CONSTANTS
    Steered <- SteeredBounds
    Restarted <- RestartedBounds
    Handed <- HandedBounds
    Listed <- ListedBounds
    Named <- NamedBounds
    Toggled <- ToggledBounds
    Concluded <- ConcludedBounds
    Answered <- AnsweredBounds
    Waiting <- WaitingBounds
    Timed <- TimedBounds
    Streamed <- StreamedBounds
SPECIFICATION Spec
INVARIANTS SteersOnce ApprovalsExact AnswersHeard TurnsClose
PROPERTIES VerdictsStick WaitsEnd
CHECK_DEADLOCK FALSE
