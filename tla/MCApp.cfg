SPECIFICATION Spec
CONSTANTS
    Turns <- TurnsBounds
    Refusing <- RefusingBounds
    Queued <- QueuedBounds
    Switched <- SwitchedBounds
    Steady <- SteadyBounds
INVARIANTS SendsKept WakesAreNew
PROPERTIES SendsGoOut ReportsAreWoken
CHECK_DEADLOCK FALSE
