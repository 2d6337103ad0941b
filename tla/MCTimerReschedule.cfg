CONSTANTS
    Tasks = {t1}
    OneShotDelays = {}
    RepeatDelays = {1, 2}
    MaxTime = 5
    RescheduleRepeated = TRUE
SPECIFICATION Spec
PROPERTY StartsOnlyScheduled
CHECK_DEADLOCK FALSE
