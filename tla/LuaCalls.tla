------------------------------- MODULE LuaCalls -------------------------------
(***************************************************************************)
(* The functions that Lua calls and that keep nothing: a C++ function that *)
(* is bound, and a timeout in seconds that becomes one of milliseconds.    *)
(***************************************************************************)
EXTENDS LuaInvoke

CONSTANTS
    CppFunctions, \* C++ functions that are bound to Lua,
    ArgumentLists,\* and the lists of arguments they are called with
    Seconds,      \* the timeouts given to set_timeout_sec()
    Unit, MaxMs   \* units of a second, and the largest int64_t

(* C++ knows a function's parameters; Lua passes what it likes. *)
ASSUME CallsAssumption ==
    /\ \A fn \in CppFunctions :
        /\ fn.ret \in Nat
        /\ fn.params \in Seq({fn.params[k] : k \in DOMAIN fn.params})
        /\ \A k \in DOMAIN fn.params :
             IsInput(fn.params[k]) => fn.params[k].type \in {"int", "double", "bool", "string"}
    /\ \A args \in ArgumentLists : args \in Seq({args[k] : k \in DOMAIN args})
    /\ \A sec \in Seconds : ToNumber(sec) \subseteq Int
    /\ Unit \in Nat \ {0} /\ MaxMs \in Nat

VARIABLE result \* what the last call asked for and got

NoCall == [none |-> TRUE]

CallsInit == result = NoCall

(* Lua calls a function of the binding. *)
CallFunction(fn, args) == result' = [fn |-> fn, args |-> args, out |-> Invoke(fn, args)]

(* ServiceStub:set_timeout_sec(); an error of the conversion changes nothing. *)
SetTimeoutSec(sec) == \E ms \in GetTimeoutMs(sec, Unit, MaxMs) : result' = [sec |-> sec, ms |-> ms]

CallsNext ==
    \/ \E fn \in CppFunctions, args \in ArgumentLists : CallFunction(fn, args)
    \/ \E sec \in Seconds : SetTimeoutSec(sec)

CallsSpec == CallsInit /\ [][CallsNext]_result
----------------------------------------------------------------------------
(* A timeout ends no earlier than asked by a whole millisecond, no later   *)
(* than asked, is the largest number for no timeout, and does not overflow *)
(* an int64_t; that of a negative time is over at once.                    *)
TimeoutKept ==
    "sec" \in DOMAIN result =>
        /\ result.ms <= MaxMs
        /\ result.sec = Nil => result.ms = MaxMs
        /\ \A h \in ToNumber(result.sec) :
              /\ result.ms * Unit <= h * 1000 \/ h < 0 \/ h * 1000 >= (MaxMs - 999) * Unit
              /\ result.ms * Unit > h * 1000 - Unit \/ result.ms = MaxMs
              /\ h < 0 => result.ms <= 0

(* Every parameter of fn got what it should from args, and Lua got out.    *)
Passed(fn, args, out) ==
    LET ps       == fn.params
        inputs   == {k \in DOMAIN ps : IsInput(ps[k])}
        outputs  == {k \in DOMAIN ps : IsOutput(ps[k])}
        place(k) == Cardinality({j \in inputs : j <= k}) + IF fn.how = "function" THEN 0 ELSE 1
        passed(k) == place(k) <= Len(args)
        default(k) == IF ps[k].spec = "def" THEN ps[k].def ELSE Fresh(ps[k].type)
        given(k) == IF passed(k) /\ args[place(k)] # Nil THEN GetValue(ps[k].type, args[place(k)])
                    ELSE IF ps[k].type = "bool" /\ (passed(k) \/ ~IsOptional(ps[k])) THEN {Bool(FALSE)}
                    ELSE IF IsOptional(ps[k]) THEN {default(k)} ELSE {}
        values   == IF fn.how = "constructor" THEN 1 ELSE fn.ret
        got      == out.results
        rest     == SubSeq(got, values + 1, Len(got))
    IN  IF \E k \in inputs : given(k) = {} THEN out = Raised
        ELSE /\ out # Raised
             /\ \A k \in inputs : out.vals[k] \in given(k)
             /\ \A i \in 1..values : got[i] = <<IF fn.how = "constructor" THEN "object" ELSE "return", i>>
             /\ {rest[i] : i \in DOMAIN rest} =
                  IF fn.how = "constructor" THEN {} ELSE {<<"param", k>> : k \in outputs}
             /\ \A i, j \in DOMAIN rest : i < j => rest[i][2] < rest[j][2]

(* A parameter takes the argument that is as far among the arguments as it *)
(* is among the parameters for input, whatever lies between them: the      *)
(* argument converted, or, if there is none or a nil, its default.  The    *)
(* call raises exactly if one cannot be converted, or one is missing whose *)
(* parameter has no default.  But a bool (LuaTypeMapping<bool>) that is    *)
(* missing is false without an error, and so is a nil in place of an       *)
(* optional one.  Lua gets the values returned, then those of the output   *)
(* parameters in their order, and nothing else.                            *)
ArgumentsKept == "fn" \in DOMAIN result => Passed(result.fn, result.args, result.out)
============================================================================
