CONSTANTS
    Tasks = {t1, t2}
    OneShotDelays = {0, 2}
    RepeatDelays = {1, 2}
    MaxTime = 5
    RescheduleRepeated = FALSE
    user = user  l1 = l1  l2 = l2  Null = Null
SPECIFICATION ServicesSpec
INVARIANTS TypeOK QueuesAgree NoOversleep
PROPERTIES StartsOnlyScheduled TasksRun CollectorCollects
\* A destroyed timer stops: its thread has exited and no operation does anything.
CHECK_DEADLOCK FALSE
