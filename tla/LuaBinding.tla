------------------------------ MODULE LuaBinding ------------------------------
(***************************************************************************)
(* The tables by which lua-intf shows C++ classes and modules to Lua       *)
(* (CppBindClass, CppBindModule): what a registration stores in them, and  *)
(* what the __index and __newindex functions find there.                   *)
(*                                                                         *)
(* A class has three tables, each its own metatable: "static" is the class *)
(* itself, "class" the metatable of its objects, "const" that of its const *)
(* objects.  A module has a "static" one only.  In a table an entry is a   *)
(* field of its own, or one of its ___getters or ___setters.               *)
(***************************************************************************)
EXTENDS Naturals, Sequences

CONSTANTS
    Classes, Modules, None,
    Super           \* class |-> the class it extends in C++, or None

(* A table is the owner and which of its tables. *)
Tables == (Classes \X {"static", "class", "const"}) \cup (Modules \X {"static"})

VARIABLES
    bound,          \* classes and modules registered so far
    super,          \* table |-> its ___super, which bind() leaves out
    mt,             \* table |-> its entries
    down            \* table |-> its __downcast list

bindVars == <<bound, super, mt, down>>

(* What an entry is: C++ code, which converts its first argument to an     *)
(* object of a class, const or not; a value; or a function that raises.    *)
Member(c, const) == [kind |-> "member", class |-> c, const |-> const]
Destructor(c, const) == [kind |-> "gc", class |-> c, const |-> const]
Constructor(c, smart) == [kind |-> "constructor", class |-> c, smart |-> smart]
Forward(c)       == [kind |-> "forward", to |-> c]
Static(t, n)     == [kind |-> "static", of |-> t, name |-> n]
ClassTable(c)    == [kind |-> "class table", of |-> c]
Assigned         == [kind |-> "assigned"]       \* by a script
ErrorReadOnly      == [kind |-> "read only"]
ErrorConstMismatch == [kind |-> "const mismatch"]

(* rawset() of an entry, and the entries (one or none) rawget() finds *)
RawSet(m, t, part, name, e) ==
    [m EXCEPT ![t] = {x \in @ : <<x.part, x.name>> # <<part, name>>}
                       \cup {[part |-> part, name |-> name, entry |-> e]}]
RawGet(t, part, name) == {x.entry : x \in {y \in mt[t] : y.part = part /\ y.name = name}}

InitBinding ==
    /\ bound = {}
    /\ super = [t \in Tables |-> None]
    /\ mt = [t \in Tables |-> {}]
    /\ down = [t \in Tables |-> <<>>]

(* A table and those its ___super leads to *)
Chain == LET f[t \in Tables] == IF super[t] = None THEN <<t>> ELSE <<t>> \o f[super[t]] IN f
----------------------------------------------------------------------------
(* Registration *)

(* buildMetaTable(): through its objects a script has the class itself.    *)
BuildMetaTable(m, c) ==
    RawSet(RawSet(m, <<c, "class">>, "field", "class", ClassTable(c)),
           <<c, "const">>, "field", "class", ClassTable(c))

(* The fields that lua-intf stores for itself: "class", and those by which *)
(* the model's tables, their parts and their super tables are reached.     *)
OwnFields == {"class", "__index", "__newindex", "___getters", "___setters", "___type",
              "___class", "___const", "___parent", "___super", "___get_indexed", "___set_indexed"}

(* The __gc of the objects and of the const objects of a class *)
WithGc_Once(m, c) ==    \* fault: the destructor of both is that of the first
    RawSet(RawSet(m, <<c, "class">>, "field", "__gc", Destructor(c, FALSE)),
           <<c, "const">>, "field", "__gc", Destructor(c, FALSE))
WithGc(m, c) ==
    RawSet(RawSet(m, <<c, "class">>, "field", "__gc", Destructor(c, FALSE)),
           <<c, "const">>, "field", "__gc", Destructor(c, TRUE))

(* CppBindClass::bind() *)
Bind(c) ==
    /\ c \notin bound /\ bound' = bound \cup {c}
    /\ mt' = WithGc(BuildMetaTable(mt, c), c)
    /\ UNCHANGED <<super, down>>

(* The ___super of a table of a class that extends s *)
SuperTable_Class(s, which) ==   \* fault: that of const objects is not const
    <<s, IF which = "static" THEN "static" ELSE "class">>
SuperTable(s, which) == <<s, which>>

(* CppBindClass::extend(), of a class whose super class is there *)
Extend(c) ==
    /\ c \notin bound /\ Super[c] \in bound
    /\ bound' = bound \cup {c}
    /\ mt' = WithGc(BuildMetaTable(mt, c), c)
    /\ super' = [t \in Tables |-> IF t[1] = c THEN SuperTable(Super[c], t[2]) ELSE super[t]]
    /\ down' = [t \in Tables |-> IF t[1] = Super[c] /\ t[2] # "static"
                                 THEN Append(down[t], <<c, t[2]>>) ELSE down[t]]

(* CppBindModuleBase(meta, name) *)
BeginModule(m) ==
    /\ m \notin bound /\ bound' = bound \cup {m}
    /\ UNCHANGED <<super, mt, down>>

SetStaticGetter(m, t, n) == RawSet(m, <<t, "static">>, "get", n, Static(t, n))
SetStaticSetter(m, t, n) == RawSet(m, <<t, "static">>, "set", n, Static(t, n))
SetStaticReadOnly_Not(m, t, n) == m     \* fault: no setter at all
SetStaticReadOnly(m, t, n) == RawSet(m, <<t, "static">>, "set", n, ErrorReadOnly)

SetMemberGetter(m, c, n, g, gc) ==
    RawSet(RawSet(m, <<c, "class">>, "get", n, g), <<c, "const">>, "get", n, gc)
SetMemberSetter(m, c, n, s) ==
    RawSet(RawSet(m, <<c, "class">>, "set", n, s), <<c, "const">>, "set", n, ErrorConstMismatch)
SetMemberReadOnly(m, c, n) ==
    RawSet(RawSet(m, <<c, "class">>, "set", n, ErrorReadOnly), <<c, "const">>, "set", n, ErrorReadOnly)
SetMemberFunction_Swapped(m, c, n, e, const) ==     \* fault: is_const the wrong way round
    RawSet(RawSet(m, <<c, "class">>, "field", n, e),
           <<c, "const">>, "field", n, IF const THEN ErrorConstMismatch ELSE e)
SetMemberFunction(m, c, n, e, const) ==
    RawSet(RawSet(m, <<c, "class">>, "field", n, e),
           <<c, "const">>, "field", n, IF const THEN e ELSE ErrorConstMismatch)

Register(t, m) == t \in bound /\ mt' = m /\ UNCHANGED <<bound, super, down>>
Settable(t, n, writable) ==
    LET m == SetStaticGetter(mt, t, n)
    IN  IF writable THEN SetStaticSetter(m, t, n) ELSE SetStaticReadOnly(m, t, n)

(* of a class: a constant, a static variable, property and function *)
AddConstant(c, n)            == Register(c, Settable(c, n, FALSE))
AddStaticVariable(c, n, wr)  == Register(c, Settable(c, n, wr))
AddStaticProperty(c, n, set) == Register(c, Settable(c, n, set))
AddStaticFunction(c, n)      == Register(c, RawSet(mt, <<c, "static">>, "field", n, Static(c, n)))

(* the constructor, by value or by smart pointer, and a factory *)
AddConstructor(c, smart) ==
    Register(c, RawSet(mt, <<c, "static">>, "field", "__call", Constructor(c, smart)))
AddFactory(c) == Register(c, RawSet(mt, <<c, "static">>, "field", "__call", Static(c, "__call")))

(* of an object: a variable, a property with a getter for const objects or *)
(* for all, a function, an indexer and a metamethod                        *)
AddVariable(c, n, wr) ==
    LET m == SetMemberGetter(mt, c, n, Member(c, TRUE), Member(c, TRUE))
    IN  Register(c, IF wr THEN SetMemberSetter(m, c, n, Member(c, FALSE)) ELSE SetMemberReadOnly(m, c, n))
AddProperty(c, n, g, gc, set) ==
    LET m == SetMemberGetter(mt, c, n, Member(c, g), Member(c, gc))
    IN  Register(c, IF set THEN SetMemberSetter(m, c, n, Member(c, FALSE)) ELSE SetMemberReadOnly(m, c, n))
AddFunction(c, n, const) == Register(c, SetMemberFunction(mt, c, n, Member(c, const), const))
AddIndexer(c, get, set) ==
    LET m == SetMemberFunction(mt, c, "___get_indexed", Member(c, get), get)
    IN  Register(c, IF set THEN SetMemberFunction(m, c, "___set_indexed", Member(c, FALSE), FALSE) ELSE m)
AddMetaFunction(c, n) == Register(c, SetMemberFunction(mt, c, n, Static(c, n), TRUE))

(* of a module, before a script assigns the name *)
Free(m, n) == Assigned \notin RawGet(<<m, "static">>, "field", n)
ModuleConstant(m, n)       == Free(m, n) /\ Register(m, Settable(m, n, FALSE))
ModuleVariable(m, n, wr)   == Free(m, n) /\ Register(m, Settable(m, n, wr))
ModuleProperty(m, n, set)  == Free(m, n) /\ Register(m, Settable(m, n, set))
ModuleFunction(m, n)       == Free(m, n) /\ Register(m, RawSet(mt, <<m, "static">>, "field", n, Static(m, n)))
ModuleFactory(m)           == Register(m, RawSet(mt, <<m, "static">>, "field", "__call", Static(m, "__call")))
ModuleForward(m, c)        == Register(m, RawSet(mt, <<m, "static">>, "field", "__call", Forward(c)))
----------------------------------------------------------------------------
(* Look-up *)
First(S) == CHOOSE i \in S : \A j \in S : i <= j

(* What a level of the chain has for the name: a field of the metatable,   *)
(* an indexer if it is a number, a getter.                                 *)
AtLevel(t, n, number) ==
    LET field   == RawGet(t, "field", n)
        indexed == IF number THEN RawGet(t, "field", "___get_indexed") ELSE {}
    IN  IF field # {} THEN field ELSE IF indexed # {} THEN indexed ELSE RawGet(t, "get", n)

(* CppBindClassMetaMethod::index(): the entry of the first table in the    *)
(* chain that has one; none is nil.                                        *)
Index(t, n, number) ==
    LET chain  == Chain[t]
        levels == {i \in DOMAIN chain : AtLevel(chain[i], n, number) # {}}
    IN  IF levels = {} THEN {} ELSE AtLevel(chain[First(levels)], n, number)

(* newIndex(): of the setters only; none is an error. *)
SetterAt(t, n, number) ==
    LET indexed == IF number THEN RawGet(t, "field", "___set_indexed") ELSE {}
    IN  IF indexed # {} THEN indexed ELSE RawGet(t, "set", n)
NewIndex(t, n, number) ==
    LET chain  == Chain[t]
        levels == {i \in DOMAIN chain : SetterAt(chain[i], n, number) # {}}
    IN  IF levels = {} THEN {} ELSE SetterAt(chain[First(levels)], n, number)

(* CppBindModuleMetaMethod::index() *)
ModuleIndex(m, n) ==
    LET field == RawGet(<<m, "static">>, "field", n)
    IN  IF field # {} THEN field ELSE RawGet(<<m, "static">>, "get", n)

(* CppBindModuleMetaMethod::newIndex(): a name without a setter becomes a  *)
(* field of the module.                                                    *)
ModuleAssign(m, n) ==
    /\ m \in bound /\ RawGet(<<m, "static">>, "set", n) = {}
    /\ mt' = RawSet(mt, <<m, "static">>, "field", n, Assigned)
    /\ UNCHANGED <<bound, super, down>>

(* What a call of the class or the module runs: forwardCall() that of a    *)
(* class in it.                                                            *)
Callee(t) ==
    LET call(x) == RawGet(<<x, "static">>, "field", "__call")
    IN  UNION {IF e.kind = "forward" THEN call(e.to) ELSE {e} : e \in call(t)}
=============================================================================
