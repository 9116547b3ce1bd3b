SPECIFICATION Spec
CONSTANTS
    Width = 10
    Height = 10
    Scenes <- BoxScenes
    Lights <- BoxLights
CHECK_DEADLOCK FALSE
INVARIANT SortedCounterClockwise
