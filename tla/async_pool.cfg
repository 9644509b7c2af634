SPECIFICATION FairSpec
CONSTANTS
    Workers = {w1, w2}
    Tasks = {t1, t2, t3}
    Throwing = {t3}
    NoTask = NoTask
INVARIANTS TypeOK QuietAfterStop GracefulStopDrains OneHandlerPerTask
PROPERTIES StopReturns SpawnedTasksFinish
CHECK_DEADLOCK FALSE
