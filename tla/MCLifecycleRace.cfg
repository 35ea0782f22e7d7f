SPECIFICATION Spec
CONSTANTS
    Drivers = {"sem", "poll", "llseek_dev"}
    LastNumber = 2
    MaxLoaded = 2
    Alone = {}
INVARIANT CdevDelDeletesCdev
CHECK_DEADLOCK FALSE
