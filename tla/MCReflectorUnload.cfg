\* Two runner processes and no threads: one calls, the other stops the driver.
CONSTANTS
    Clients = {c1, c2}
    Unloader = unloader
    Threads = {t1}
    MaxLoads = 1
    MaxChildren = 1
    Nested = FALSE
    ClosesHandles = FALSE
SPECIFICATION Spec
INVARIANT DriverNotTouched
CHECK_DEADLOCK FALSE
