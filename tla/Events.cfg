SPECIFICATION Spec
CHECK_DEADLOCK FALSE
CONSTANTS
    Effects = {1, 2, 3}
    Queues = {"front", "with-last", "end", "toggle"}
    Durations = {0, 2}
    CreateBy = 1
    Tokens = {"t"}
    MaxEntries = 3
    MaxKeys = 3
    MaxBlurs = 2
    MaxFades = 2
    AutoSelect = TRUE
    Texts = {"", "a"}
    MaxEdits = 3
    Values = {1, 2, 3}
    MaxChanges = 4
    Handlers = {"f", "g"}
    Custom = {"dom:loaded", "a:b"}
    Native = {"click"}
    MaxWrappers = 2
    MaxFired = 1
    MaxNested = 2
    NumTests = 2
    MaxWaits = 2
    MaxLate = 1
    Networks = {"private", "private, closed", "public", "firewall", "firewall, closed", "broken"}
    MaxRetests = 2
    MaxRequests = 3
    Decay = 2
    MaxDecay = 4
INVARIANTS EffectQueuePromise AutocompleterPromise FieldObserversPromise TestRunnerPromise
PROPERTIES
    InPlaceEditorPromise EventRegistryPromise MasterServerGuiPromise AjaxPromise
    TimersEnd AnswersEnd
