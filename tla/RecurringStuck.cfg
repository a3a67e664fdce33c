SPECIFICATION RecurringSpec
CONSTANTS
    Names = {purgeMedia, purgeThumbs}
    MaxReloads = 1
    NoTask = NoTask
PROPERTY ScheduleHourlyReturns
CHECK_DEADLOCK FALSE
