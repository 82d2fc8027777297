------------------------------ MODULE LuaInvoke ------------------------------
(***************************************************************************)
(* How a C++ function that is bound to Lua is called (CppArg, CppInvoke):  *)
(* each parameter takes a Lua argument, its default or none, the function  *)
(* runs, and what it returned and put into its output parameters is pushed *)
(* as the results of the call.                                             *)
(*                                                                         *)
(* A function is [how, params, ret]: "function", "method" or "constructor",*)
(* its parameters, and the number of values it returns (of a tuple; or     *)
(* pushes itself and counts, if it is given the lua_State).  A parameter   *)
(* is [spec, type, def]: "in" if no modifier is used, "opt", "def", "out", *)
(* "ref", "ref_opt", or "state" for the lua_State itself.  (_ref_def does  *)
(* not compile: its default would be a reference.)                         *)
(***************************************************************************)
EXTENDS LuaValue, FiniteSets

(* A Lua error *)
Raised == [raised |-> TRUE]

(* CppArgTraits *)
IsInput(p)    == p.spec \notin {"out", "state"}
IsOutput(p)   == p.spec \in {"out", "ref", "ref_opt"}
IsOptional(p) == p.spec \in {"opt", "def", "ref_opt"}

(* LuaType<T>::get(), opt() and T() *)
GetValue(type, v) ==
    CASE type = "int"    -> {Num(2 * Signed(IntRange, i)) : i \in ToInteger(v)}
      [] type = "double" -> {Num(h) : h \in ToNumber(v)}
      [] type = "bool"   -> {Bool(b) : b \in ToBool(v)}
      [] type = "string" -> {Str(s) : s \in ToStr(v)}
Missing(type, args, i) == i > Len(args) \/ (args[i] = Nil /\ type # "bool")
Opt(type, args, i, def) ==
    IF Missing(type, args, i) THEN {def} ELSE GetValue(type, args[i])
Fresh(type) ==
    CASE type \in {"int", "double"} -> Num(0)
      [] type = "bool"              -> Bool(FALSE)
      [] type = "string"            -> Str("")

(* CppArgInput::get() of a parameter that takes the argument i: the value, *)
(* or none and a Lua error is raised.                                      *)
Input(p, args, i) ==
    IF IsOptional(p)
    THEN Opt(p.type, args, i, IF p.spec = "def" THEN p.def ELSE Fresh(p.type))
    ELSE GetValue(p.type, IF i > Len(args) THEN Nil ELSE args[i])

(* CppArgTupleInput::get() from the argument first on: at[k] is the argument  *)
(* that is next when parameter k is reached, CppArg::get() says how many it  *)
(* takes.  What parameter k is given is in the result at k.                  *)
TupleInput_Always(params, args, first) == \* fault: any parameter takes an argument
    LET at[k \in 1 .. Len(params) + 1] == IF k = 1 THEN first ELSE at[k - 1] + 1
        values(k) == IF IsInput(params[k]) THEN Input(params[k], args, at[k]) ELSE {params[k].spec}
    IN  IF \E k \in DOMAIN params : values(k) = {} THEN Raised
        ELSE [vals |-> [k \in DOMAIN params |-> CHOOSE v \in values(k) : TRUE]]
TupleInput(params, args, first) ==
    LET at[k \in 1 .. Len(params) + 1] ==
            IF k = 1 THEN first ELSE at[k - 1] + (IF IsInput(params[k - 1]) THEN 1 ELSE 0)
        values(k) == IF IsInput(params[k]) THEN Input(params[k], args, at[k]) ELSE {params[k].spec}
    IN  IF \E k \in DOMAIN params : values(k) = {} THEN Raised
        ELSE [vals |-> [k \in DOMAIN params |-> CHOOSE v \in values(k) : TRUE]]

(* CppInvokeMethod::push(): what the function returned *)
InvokeMethod(fn) == [i \in 1..fn.ret |-> <<"return", i>>]

(* CppArgTupleOutput::push(): what it left in its output parameters *)
TupleOutput(params) ==
    LET pushed[k \in 0 .. Len(params)] ==
            IF k = 0 THEN <<>>
            ELSE IF IsOutput(params[k]) THEN Append(pushed[k - 1], <<"param", k>>) ELSE pushed[k - 1]
    IN  pushed[Len(params)]

(* CppBindMethod, CppBindClassMethod and CppBindClassConstructor: call().  *)
(* A method finds its object in the first argument, a constructor its      *)
(* class; a constructor pushes the object and no output parameter.  Lua    *)
(* takes as many results from the top of the stack as call() answers.      *)
Invoke(fn, args) ==
    LET in     == TupleInput(fn.params, args, IF fn.how = "function" THEN 1 ELSE 2)
        pushed == IF fn.how = "constructor" THEN <<<<"object", 1>>>>
                  ELSE InvokeMethod(fn) \o TupleOutput(fn.params)
        n      == IF fn.how = "constructor" THEN 1
                  ELSE fn.ret + Cardinality({k \in DOMAIN fn.params : IsOutput(fn.params[k])})
        stack  == args \o pushed
    IN  IF in = Raised THEN Raised
        ELSE [vals |-> in.vals, results |-> SubSeq(stack, Len(stack) - n + 1, Len(stack))]
==============================================================================
