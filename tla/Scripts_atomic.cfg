SPECIFICATION Spec
CONSTANTS
    Worlds <- MCBracketWorlds
    None = None
INVARIANT ScriptAtomic
CHECK_DEADLOCK FALSE
