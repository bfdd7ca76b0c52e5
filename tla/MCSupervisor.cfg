\* One write fails or one panic happens.
CONSTANTS
    MaxFaults = 1
SPECIFICATION Spec
CHECK_DEADLOCK FALSE
INVARIANTS SettledExitIsWhite ExitIsBlank
PROPERTIES TriggerExits LightFollowsActivity
