SPECIFICATION LedSpec
CONSTANTS
    Drivers = {"dev_t", "module_cdev", "file", "led", "sem", "poll", "timer_dev", "misc", "private_data_test"}
    LastNumber = 2
    MaxLoaded = 2
    Alone = {"private_data_test", "led"}
    LedDriver = "led"
    Writers = {w1, w2}
INVARIANTS LedTypeOK NothingLeft LiveKeepsNumber OnlyUncheckedOops LightFollows
PROPERTY OpenKeepsModule
CHECK_DEADLOCK FALSE
