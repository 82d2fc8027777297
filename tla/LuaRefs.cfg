SPECIFICATION RefSpec
CONSTANTS
    References = {o1, o2, o3}
    Slots = {1, 2, 3, 4, 5, 6}
    LuaTables = {"t", "u"}
    Keys <- MCKeys
    Values <- MCValues
    Metatables <- MCMetatables
SYMMETRY Symmetry
INVARIANTS OwnedOnce Denotes WalksAll
CHECK_DEADLOCK FALSE
