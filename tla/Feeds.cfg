SPECIFICATION Spec
CONSTANTS
    Conns = {1}
    Windows = {1}
    StripMax = 2
    EventCap = 2
    HubCap = 1
    LogCap = 3
    Peers = {1}
    LastId = 3
    SendCap = 2
    Socks = {1}
    QueueCap = 1
    MaxBlocks = 3
    MaxStarts = 2
CHECK_DEADLOCK FALSE
INVARIANTS
    
    NeverPanics
    PluginServes
PROPERTIES
    GoneLeave
