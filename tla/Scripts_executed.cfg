SPECIFICATION Spec
CONSTANTS
    Worlds <- MCHeadedWorlds
    None = None
INVARIANT StatementsExecuted
CHECK_DEADLOCK FALSE
