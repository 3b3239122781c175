SPECIFICATION Spec
CONSTANTS
    Programs <- MCPrograms
    Leftovers = {0}
    MaxCompiles = 1
    MaxRuns = 1
    ByteMod = 4
    MaxInsn = 16
    Packet <- MCPacket
    Natives = {"print", "migrate"}
    None = None
CHECK_DEADLOCK FALSE
INVARIANT DoesWhatSourceSays
