\* Two calls in flight beside the cron; beside them four hourly checks.
SPECIFICATION MCSpec
CONSTANTS
    Slot = {1, 2}
    Value = {0, 1, 2, 3}
    None = None
    Cases <- Scenarios
    Groups = {"g"}
    Loads = {10, 85, 97, 98}
    Hours = 4
    Reminder = 2
    Settings <- Environments
    Changes <- Alerts
INVARIANTS NotificationsHold CapacityIsTold
PROPERTIES ChangesAreTold
CHECK_DEADLOCK FALSE
