SPECIFICATION Spec
CONSTANTS
    Numbers <- MCNumbers
    LuaRange = 32
    IntRange = 16
    Files <- MCFiles
    Schema <- MCSchema
    Enums <- MCEnums
    Services <- MCServices
    Tables <- MCTables
    Seconds <- MCSeconds
    CppFunctions <- MCFunctions
    ArgumentLists <- MCArguments
    Unit = 2
    MaxMs = 25700
INVARIANTS RoundTrip Stable TimeoutKept ArgumentsKept
CHECK_DEADLOCK FALSE
