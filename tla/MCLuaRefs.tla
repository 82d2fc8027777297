------------------------------ MODULE MCLuaRefs ------------------------------
(* References to a table of two keys, and to its metatable. *)
EXTENDS LuaRefs, TLC

MCKeys == <<"a", "b">>
MCValues == {"nil", "a", "t"}
MCMetatables == [u |-> [a |-> "nil", b |-> "t"]]
Symmetry == Permutations(References)
=============================================================================
