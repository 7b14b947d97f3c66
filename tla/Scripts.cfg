SPECIFICATION Spec
CONSTANTS
    Worlds <- MCWorlds
    None = None
INVARIANTS TypeOK DirectoryLoaded SplitAsRead RecordedInEffect BracketsHold
CHECK_DEADLOCK FALSE
