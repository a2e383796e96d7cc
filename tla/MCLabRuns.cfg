SPECIFICATION Spec
CONSTANTS
    Tasks = {1}
    SimOf <- MCSimOf
    MaxLaunches = 2
    HostMemory = 64
    GuestMemory = 16
    Available = {11, 12, 40}
    RestartMidLaunch = FALSE

    
    
PROPERTIES
    JobSettles
CHECK_DEADLOCK FALSE
