\* Everything in the environment changes at any time; small limits.
CONSTANTS
    MinX = 0  MaxX = 2  MinY = 0  MaxY = 1
    Pages = 2
    PageDuration = 2
    SshInterval = 2
    Timeout = 2
    RetryInterval = 2
    Lines = {detect}
    Toggles = {"ssh", "pxe", "panel", "gpio"}
SPECIFICATION OledSpec
CHECK_DEADLOCK FALSE
INVARIANTS PanelIsRight
PROPERTIES ModeFollowsActivity PictureMoves HardwareComesBack ImplementsDisplayTask
