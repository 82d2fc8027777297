------------------------------ MODULE LuaScalar ------------------------------
(***************************************************************************)
(* A scalar in a message: what pb.encode() makes of a Lua value            *)
(* (MessageSetter) and pb.decode() of what it made (MsgToTbl).  A field's  *)
(* kind is its C++ type; of an enum, "type" says which.                    *)
(***************************************************************************)
EXTENDS LuaValue

CONSTANT Enums      \* enum type |-> (name |-> number)

(* The number of an enum is an int32. *)
ASSUME EnumsAssumption ==
    \A type \in DOMAIN Enums : \A name \in DOMAIN Enums[type] :
        Enums[type][name] \in -(IntRange \div 2) .. IntRange \div 2 - 1

(* GetEnumValue(): a name, or else an integer or a string that holds one. *)
GetEnumValue(f, v) ==
    IF Is("str", v) /\ v.str \in DOMAIN Enums[f.type]
    THEN {Enums[f.type][v.str]}
    ELSE {Signed(IntRange, i) : i \in ToInteger(v)}

(* The C++ value luaValue.toValue<T>() gives, as it comes to be stored. *)
Scalar(f, v) ==
    CASE f.kind = "int32"  -> {Num(2 * Signed(IntRange, i)) : i \in ToInteger(v)}
      [] f.kind = "uint32" -> {Num(2 * Unsigned(IntRange, i)) : i \in ToInteger(v)}
      [] f.kind = "int64"  -> {Num(2 * Signed(LuaRange, i)) : i \in ToInteger(v)}
      [] f.kind = "uint64" -> {Num(2 * Unsigned(LuaRange, i)) : i \in ToInteger(v)}
      [] f.kind = "double" -> {Num(h) : h \in ToNumber(v)}
      [] f.kind = "bool"   -> {Bool(b) : b \in ToBool(v)}
      [] f.kind = "enum"   -> {Num(2 * i) : i \in GetEnumValue(f, v)}
      [] f.kind = "string" -> {Str(s) : s \in ToStr(v)}

(* LuaRefValue() of what a field holds *)
GetScalar(f, x) ==
    IF f.kind \in {"bool", "string", "double"} THEN x ELSE PushInteger(x.num \div 2)
----------------------------------------------------------------------------
(* What a scalar w that was decoded must be if v was encoded, as the proto *)
(* file, not the code, has it.                                             *)
RangeOf(f) == IF f.kind \in {"int32", "uint32"} THEN IntRange ELSE LuaRange

SameScalar(f, v, w) ==
    CASE f.kind \in {"int32", "uint32", "int64", "uint64"} ->
            /\ \A i \in ToInteger(v) : (w.num \div 2 - i) % RangeOf(f) = 0
            /\ w.num % 2 = 0
            /\ f.kind = "uint32" => w.num >= 0
      [] f.kind = "enum"   -> IF Is("str", v) /\ v.str \in DOMAIN Enums[f.type]
                              THEN w = Num(2 * Enums[f.type][v.str])
                              ELSE \A i \in ToInteger(v) : (w.num \div 2 - i) % IntRange = 0
      [] f.kind = "double" -> ToNumber(v) = {w.num}
      [] f.kind = "bool"   -> w = Bool(v \notin {Nil, Bool(FALSE)})
      [] f.kind = "string" -> ToStr(v) = {w.str}
==============================================================================
