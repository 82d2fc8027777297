SPECIFICATION Spec
CONSTANTS
    None = None
    Classes = {"A", "B", "C"}
    Modules = {"M"}
    Super <- MCSuper
    Program <- MCProgram
    Pauses <- MCPauses
    Objects = {o1, o2}
    Userdata = {u1, u2}
SYMMETRY Symmetry
INVARIANTS ConversionsKept LifeKept NamesMeanDeclared ReadOnlyKept
CHECK_DEADLOCK FALSE
