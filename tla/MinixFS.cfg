SPECIFICATION Spec
CONSTANTS
    Names = {f1, f2}
    Fds = {fd1}
    ZONE_SIZE = 2
    DIRECT = 1
    NumInodes = 4
    NumZones = 11
    FirstZone = 2
    BYTE = 2
    Buffers <- SmallBuffers
    MaxSize = 4
    MaxMounts = 2
    MaxCreates = 2
    MaxWrites = 4
    Crashes = TRUE
    NONE = none
INVARIANTS
    ZonesOwned
    ZonesSuffice
    
 
SYMMETRY Symmetry
CHECK_DEADLOCK FALSE
