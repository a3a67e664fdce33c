SPECIFICATION TaskSpec
CONSTANTS
    Tasks = {t1, t2}
    Exports = {t1}
    Remote = {}
    NumWorkers = 2
    MaxTaskReloads = 1
    MaxCrashes = 0
INVARIANT
    FailedTaskIsOver
CHECK_DEADLOCK FALSE
