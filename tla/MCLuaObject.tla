----------------------------- MODULE MCLuaObject -----------------------------
(* A module and three classes, C of base B of base A: every kind of        *)
(* registration, those that matter to each other with their alternatives.  *)
EXTENDS LuaObject, TLC

MCSuper == [A |-> None, B |-> "A", C |-> "B"]

Symmetry == Permutations(Userdata) \cup Permutations(Objects)

D(op, of, name, with) == [op |-> op, of |-> of, name |-> name, with |-> with]

MCPauses == {22, 27}

(* What is registered under a name differs from class to class; C extends  *)
(* B, or its base is left out.                                             *)
MCProgram == <<
    {D("module", "M", "", <<>>)},
    {D("module constant", "M", "k", <<>>)},
    {D("module variable", "M", "v", <<TRUE>>)},
    {D("module property", "M", "p", <<FALSE>>)},
    {D("module function", "M", "other", <<>>)},
    {D("module factory", "M", "", <<>>)},
    {D("class", "A", "", <<>>)},
    {D("constant", "A", "k", <<>>)},
    {D("static variable", "A", "s", <<TRUE>>)},
    {D("variable", "A", "v", <<TRUE>>)},
    {D("indexer", "A", "number", <<TRUE, TRUE>>)},
    {D("function", "A", "f", <<FALSE>>)},
    {D("factory", "A", "", <<>>)},
    {D("constructor", "A", "", <<FALSE>>)},
    {D("metafunction", "A", "__add", <<>>)},
    {D("extend", "B", "", <<>>)},
    {D("static property", "B", "s", <<FALSE>>)},
    {D("static function", "B", "g", <<>>)},
    {D("property", "B", "p", <<FALSE, FALSE, TRUE>>)},
    {D("function", "B", "f", <<TRUE>>)},
    {D("indexer", "B", "number", <<FALSE, FALSE>>)},
    {D("extend", "C", "", <<>>), D("class", "C", "", <<>>)},
    {D("variable", "C", "v", <<FALSE>>)},
    {D("property", "C", "p", <<FALSE, TRUE, FALSE>>)},
    {D("constructor", "C", "", <<TRUE>>)},
    {D("forward", "M", "C", <<>>)}>>
=============================================================================
