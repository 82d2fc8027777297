------------------------------ MODULE LuaValue ------------------------------
(***************************************************************************)
(* Lua values and their conversions to and from C++ (lua-intf's            *)
(* LuaTypeMapping), as Lua 5.3 does them.                                  *)
(*                                                                         *)
(* A value is a record whose only field says its type.  A Lua number is    *)
(* counted in halves, so that num = 3 is the number 1.5: an even count has *)
(* an integer representation, an odd one has none.  A conversion gives the *)
(* set of its results: no result means that it raises a Lua error.         *)
(***************************************************************************)
EXTENDS Integers, Sequences, TLC

CONSTANTS
    Numbers,    \* the numbers, in halves, whose numerals the strings hold
    LuaRange,   \* how many numbers a lua_Integer and C++'s 64 bit integers hold,
    IntRange    \* and C++'s int: 2^64 and 2^32

Nil     == [nil |-> TRUE]
Bool(b) == [bool |-> b]
Num(h)  == [num |-> h]
Str(s)  == [str |-> s]
Tbl(f)  == [tbl |-> f]

Is(t, v) == t \in DOMAIN v
----------------------------------------------------------------------------
(* static_cast to an integer that holds n numbers. *)
Unsigned(n, i) == i % n
Signed(n, i)   == ((i + n \div 2) % n) - n \div 2

(* The string Lua makes of a number. *)
Numeral(h) == IF h % 2 = 0 THEN ToString(h \div 2)
                           ELSE ToString(h \div 2) \o ".5"

(* A numeral is that of one number. *)
ASSUME ValueAssumption ==
    /\ Numbers \subseteq Int
    /\ \A g, h \in Numbers : Numeral(g) = Numeral(h) => g = h
    /\ IntRange \in Nat \ {0} /\ IntRange % 2 = 0
    /\ LuaRange \in Nat \ {0} /\ LuaRange % (2 * IntRange) = 0

(* luaL_checknumber, of a double or a float *)
ToNumber(v) == IF Is("num", v) THEN {v.num}
               ELSE IF Is("str", v) THEN {h \in Numbers : Numeral(h) = v.str}
               ELSE {}

(* luaL_checkinteger, of every integer type *)
ToInteger(v) == {h \div 2 : h \in {k \in ToNumber(v) : k % 2 = 0}}

(* luaL_checklstring *)
ToStr(v) == IF Is("str", v) THEN {v.str}
            ELSE IF Is("num", v) THEN {Numeral(v.num)}
            ELSE {}

(* lua_toboolean: never an error. *)
ToBool(v) == {~(Is("nil", v) \/ v = Bool(FALSE))}

(* lua_pushinteger: an unsigned 64 bit value may come out negative. *)
PushInteger(i) == Num(2 * Signed(LuaRange, i))
----------------------------------------------------------------------------
(* What a table holds at a key. *)
At(t, k) == IF k \in DOMAIN t THEN t[k] ELSE Nil

(* "#t": any n with something at n, or n = 0, and nothing at n + 1. *)
Borders(t) ==
    LET Taken == {k.num \div 2 : k \in {j \in DOMAIN t : Is("num", j)}}
    IN  {n \in Taken \cup {0} : (n = 0 \/ (n > 0 /\ n \in Taken)) /\ n + 1 \notin Taken}
----------------------------------------------------------------------------
(* util::GetTimeoutMs(): a timeout in seconds as milliseconds of 64 bits.  *)
(* Seconds are counted in units of 1 / Unit, an int64_t ends at MaxMs.     *)
(* static_cast truncates towards zero; the product of a very negative      *)
(* timeout fits no int64_t, and is the least one on the machines there are *)
(* (undefined in C++).                                                     *)
Truncate(n, d) == IF n >= 0 THEN n \div d ELSE -((-n) \div d)
Cast(n, d, MaxMs) == IF Truncate(n, d) < -MaxMs - 1 THEN -MaxMs - 1 ELSE Truncate(n, d)

GetTimeoutMs_Late(sec, Unit, MaxMs) ==   \* fault: compared before the product
    IF sec = Nil THEN {MaxMs}
    ELSE {IF h < MaxMs * Unit THEN Cast(h * 1000, Unit, MaxMs) ELSE MaxMs : h \in ToNumber(sec)}

GetTimeoutMs(sec, Unit, MaxMs) ==
    IF sec = Nil THEN {MaxMs}
    ELSE {IF h < (MaxMs \div 1000) * Unit THEN Cast(h * 1000, Unit, MaxMs) ELSE MaxMs
            : h \in ToNumber(sec)}
============================================================================
