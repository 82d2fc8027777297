------------------------------ MODULE LuaObject ------------------------------
(***************************************************************************)
(* C++ objects in Lua (CppObject, CppBindClass): a program registers its   *)
(* classes and modules, constructs objects from Lua and C++, and shows     *)
(* them to scripts by value, by pointer or by shared pointer, const or     *)
(* not.  A script may look up any name through any userdata and apply what *)
(* it finds to any other.                                                  *)
(*                                                                         *)
(* C++ classes have one base at most; a script does not call __gc.         *)
(***************************************************************************)
EXTENDS LuaBinding, FiniteSets

CONSTANTS
    Program,        \* the registrations in their order, of each the alternatives
    Pauses,         \* where an expression of them ends, so that others run
    Objects, Userdata

(* C++ classes extend one another to some depth. *)
ASSUME ClassesAssumption ==
    /\ IsFiniteSet(Classes) /\ Classes \cap Modules = {} /\ None \notin Classes \cup Modules \cup Tables
    /\ Super \in [Classes -> Classes \cup {None}]
    /\ \E depth \in [Classes -> 1 .. Cardinality(Classes)] :
          \A c \in Classes : Super[c] # None => depth[Super[c]] < depth[c]

(* What is registered in a class or a module; only lua-intf stores __gc. *)
ASSUME ProgramAssumption ==
    \A i \in DOMAIN Program : \A d \in Program[i] :
        /\ d.of \in IF d.op \in {"module", "module constant", "module variable", "module property",
                               "module function", "module factory", "forward"}
                    THEN Modules ELSE Classes
        /\ d.op = "forward" => d.name \in Classes
        /\ d.op \in {"function", "metafunction"} => d.name # "__gc"

VARIABLES
    pc,             \* the registration that is next
    declared,       \* the registrations that were done
    obj,            \* C++ object |-> its class, who owns it, whether it lives
    ud              \* userdata |-> what it holds, how, and its metatable

vars == <<bindVars, pc, declared, obj, ud>>

NoObject == [class |-> None, alive |-> FALSE, by |-> "cpp", held |-> FALSE]
NoUserdata == [kind |-> "none", obj |-> None, meta |-> None, class |-> None, const |-> FALSE]

(* The class and its bases, in C++ *)
Bases == LET f[c \in Classes] == IF Super[c] = None THEN {c} ELSE {c} \cup f[Super[c]] IN f
Which(const) == IF const THEN "const" ELSE "class"

Alive == {o \in Objects : obj[o].alive}
Live  == {u \in Userdata : ud[u].kind # "none"}
----------------------------------------------------------------------------
(* CppObject::getObject(), and with an exact class *)
GetObject(u, c, const) ==
    /\ u \in Live /\ c \in bound
    /\ LET chain == Chain[IF const THEN <<ud[u].meta[1], "const">> ELSE ud[u].meta]
       IN  \E i \in DOMAIN chain : chain[i] = <<c, Which(const)>>
GetExactObject(u, c, const) == u \in Live /\ ud[u].meta = <<c, Which(const)>>

(* tryDowncast(): the dynamic_cast *)
TryDowncast(o, t) == t[1] \in Bases[obj[o].class]

(* CppAutoDowncast::findClassID(): the first class of a list that the      *)
(* object is of, and on with that one's list.                              *)
FindClassID(o, table) ==
    LET f[t \in Tables] ==
            LET hits == {i \in DOMAIN down[t] : TryDowncast(o, down[t][i])}
            IN  IF hits = {} THEN t ELSE f[down[t][First(hits)]]
    IN  f[table]

(* What an entry, found through whatever userdata, does with the userdata u *)
Runs(e, u) == e.kind = "member" /\ GetObject(u, e.class, e.const)
----------------------------------------------------------------------------
Init ==
    /\ InitBinding /\ pc = 1 /\ declared = {}
    /\ obj = [o \in Objects |-> NoObject]
    /\ ud = [u \in Userdata |-> NoUserdata]

Declare(d) ==
    \/ d.op = "class"             /\ Bind(d.of)
    \/ d.op = "extend"            /\ Extend(d.of)
    \/ d.op = "module"            /\ BeginModule(d.of)
    \/ d.op = "constant"          /\ AddConstant(d.of, d.name)
    \/ d.op = "static variable"   /\ AddStaticVariable(d.of, d.name, d.with[1])
    \/ d.op = "static property"   /\ AddStaticProperty(d.of, d.name, d.with[1])
    \/ d.op = "static function"   /\ AddStaticFunction(d.of, d.name)
    \/ d.op = "constructor"       /\ AddConstructor(d.of, d.with[1])
    \/ d.op = "factory"           /\ AddFactory(d.of)
    \/ d.op = "variable"          /\ AddVariable(d.of, d.name, d.with[1])
    \/ d.op = "property"          /\ AddProperty(d.of, d.name, d.with[1], d.with[2], d.with[3])
    \/ d.op = "function"          /\ AddFunction(d.of, d.name, d.with[1])
    \/ d.op = "indexer"           /\ AddIndexer(d.of, d.with[1], d.with[2])
    \/ d.op = "metafunction"      /\ AddMetaFunction(d.of, d.name)
    \/ d.op = "module constant"   /\ ModuleConstant(d.of, d.name)
    \/ d.op = "module variable"   /\ ModuleVariable(d.of, d.name, d.with[1])
    \/ d.op = "module property"   /\ ModuleProperty(d.of, d.name, d.with[1])
    \/ d.op = "module function"   /\ ModuleFunction(d.of, d.name)
    \/ d.op = "module factory"    /\ ModuleFactory(d.of)
    \/ d.op = "forward"           /\ ModuleForward(d.of, d.name)

Register1 ==
    /\ pc \in DOMAIN Program
    /\ \E d \in Program[pc] : Declare(d) /\ declared' = declared \cup {d}
    /\ pc' = pc + 1
    /\ UNCHANGED <<obj, ud>>

(* A script assigns to a name of a module: one that is registered there, or *)
(* one that never is.                                                      *)
Assign(m, n) ==
    /\ pc \in Pauses
    /\ n = "other" \/ \E d \in declared : d.of = m /\ d.name = n
    /\ ModuleAssign(m, n)
    /\ UNCHANGED <<pc, declared, obj, ud>>

ObjectsChange == pc \in Pauses /\ UNCHANGED <<bindVars, pc, declared>>
Live1(o, c, by) == [class |-> c, alive |-> TRUE, by |-> by, held |-> FALSE]

(* A new userdata, and allocate(): its metatable has to be there. *)
NewUserdata(u, kind, o, meta, c, const) ==
    /\ ud[u] = NoUserdata /\ meta[1] \in bound
    /\ ud' = [ud EXCEPT ![u] = [kind |-> kind, obj |-> o, meta |-> meta, class |-> c, const |-> const]]

(* A script calls a class or a module whose __call is a constructor. *)
Construct(u, o, t) ==
    /\ obj[o] = NoObject /\ t \in bound
    /\ \E e \in Callee(t) :
        /\ e.kind = "constructor"
        /\ obj' = [obj EXCEPT ![o] = Live1(o, e.class, IF e.smart THEN "shared" ELSE "value")]
        /\ NewUserdata(u, IF e.smart THEN "shared" ELSE "value", o, <<e.class, "class">>, e.class, FALSE)
    /\ ObjectsChange

(* C++ has an object of its own, or by a shared pointer. *)
New(o, c, shared) ==
    /\ obj[o] = NoObject /\ Bases[c] \cap bound # {}
    /\ obj' = [obj EXCEPT ![o] = [class |-> c, alive |-> TRUE, held |-> shared,
                                  by |-> IF shared THEN "shared" ELSE "cpp"]]
    /\ UNCHANGED ud /\ ObjectsChange

(* The push of a value: the part of the object p that is of class c, copied *)
PushValue(u, o, p, c, const) ==
    /\ p \in Alive /\ c \in Bases[obj[p].class] /\ obj[o] = NoObject
    /\ obj' = [obj EXCEPT ![o] = Live1(o, c, "value")]
    /\ NewUserdata(u, "value", o, <<c, Which(const)>>, c, const)
    /\ ObjectsChange

(* of a pointer or reference to an object that C++ owns, as one to class c *)
PushPtr(u, o, c, const) ==
    /\ o \in Alive /\ c \in Bases[obj[o].class]
    /\ obj[o].by = "cpp" \/ obj[o].held
    /\ NewUserdata(u, "ptr", o, FindClassID(o, <<c, Which(const)>>), c, const)
    /\ UNCHANGED obj /\ ObjectsChange

(* of a shared pointer *)
PushShared(u, o, c, const) ==
    /\ o \in Alive /\ c \in Bases[obj[o].class] /\ obj[o].held
    /\ NewUserdata(u, "shared", o, FindClassID(o, <<c, Which(const)>>), c, const)
    /\ UNCHANGED obj /\ ObjectsChange

(* C++ takes a copy of the shared pointer of an argument of class c. *)
TakeShared(u, c, const) ==
    /\ GetObject(u, c, const) /\ ud[u].kind = "shared"
    /\ obj' = [obj EXCEPT ![ud[u].obj].held = TRUE]
    /\ UNCHANGED ud /\ ObjectsChange

Sharing(o) == {u \in Userdata : ud[u].obj = o /\ ud[u].kind = "shared"}
Borrowed(o) == \E u \in Userdata : ud[u].obj = o /\ ud[u].kind = "ptr"

(* C++ deletes its object or drops its shared pointer: the contract is     *)
(* that nobody has the pointer any more.                                   *)
Delete(o) ==
    /\ o \in Alive /\ obj[o].by = "cpp" /\ ~Borrowed(o)
    /\ obj' = [obj EXCEPT ![o] = NoObject]
    /\ UNCHANGED ud /\ ObjectsChange
Drop(o) ==
    /\ o \in Alive /\ obj[o].held /\ ~Borrowed(o)
    /\ obj' = [obj EXCEPT ![o] = IF Sharing(o) = {} THEN NoObject ELSE [@ EXCEPT !.held = FALSE]]
    /\ UNCHANGED ud /\ ObjectsChange

(* The collector: __gc takes an object of exactly its class, or raises.    *)
Gc(u) ==
    /\ u \in Live
    /\ LET o    == ud[u].obj
           runs == \E e \in RawGet(ud[u].meta, "field", "__gc") : GetExactObject(u, e.class, e.const)
           last == ud[u].kind = "value" \/ (ud[u].kind = "shared" /\ Sharing(o) = {u} /\ ~obj[o].held)
       IN  obj' = IF runs /\ last THEN [obj EXCEPT ![o] = NoObject] ELSE obj
    /\ ud' = [ud EXCEPT ![u] = NoUserdata]
    /\ ObjectsChange

(* Registrations whose names belong together: those of objects, of classes, *)
(* and of modules.                                                         *)
MemberOps == {"variable", "property", "function", "indexer"}
StaticOps == {"constant", "static variable", "static property", "static function"}
ModuleOps == {"module constant", "module variable", "module property", "module function"}

(* A registration of the others gives no name to look up. *)
Registrations == UNION {Program[i] : i \in DOMAIN Program}
Names == {"other"} \cup {d.name : d \in {x \in Registrations :
                                        x.op \in MemberOps \cup StaticOps \cup ModuleOps}}

(* A program gives a name one meaning in a class or module, and none to    *)
(* those that lua-intf stores its own under.  All numbers are one name.    *)
ASSUME NamesAssumption ==
    /\ \A d, e \in Registrations, ops \in {MemberOps, StaticOps, ModuleOps} :
          {d.op, e.op} \subseteq ops /\ d.of = e.of /\ d.name = e.name => d = e
    /\ Names \cap ({"__gc", "__call"} \cup OwnFields) = {}
    /\ \A d \in Registrations :
        /\ d.op = "metafunction" => d.name \notin Names \cup OwnFields
        /\ d.op \in MemberOps => (d.op = "indexer" <=> d.name = "number")
        /\ \A i \in 1 .. 3 :
              \/ i = 1 /\ d.op \in {"function", "variable", "static variable", "static property",
                                    "module variable", "module property"}
              \/ i \in {1, 2} /\ d.op = "indexer"
              \/ d.op = "property"
              => i \in DOMAIN d.with /\ d.with[i] \in BOOLEAN

Next ==
    \/ Register1
    \/ \E m \in Modules, n \in Names : Assign(m, n)
    \/ \E o \in Objects : \/ \E c \in Classes, shared \in BOOLEAN : New(o, c, shared)
                          \/ Delete(o) \/ Drop(o)
    \/ \E u \in Userdata :
        \/ \E o \in Objects, t \in Classes \cup Modules : Construct(u, o, t)
        \/ \E c \in Classes, const \in BOOLEAN :
            \/ TakeShared(u, c, const)
            \/ \E o \in Objects : \/ PushPtr(u, o, c, const) \/ PushShared(u, o, c, const)
                                  \/ \E p \in Objects : PushValue(u, o, p, c, const)
        \/ Gc(u)

Spec == Init /\ [][Next]_vars
----------------------------------------------------------------------------
(* A const object is never taken for one that is not, whatever class its   *)
(* userdata is converted to and however it came to its metatable (README   *)
(* 178: "const object can not access non-const functions").                *)
ConstKept == \A u \in Live, c \in Classes : ud[u].const => ~GetObject(u, c, FALSE)

(* A userdata is converted to the classes its object is of, const objects  *)
(* and others alike, and to no other: a downcast never goes too far.       *)
TypeKept ==
    \A u \in Live, c \in Classes, const \in BOOLEAN :
        GetObject(u, c, const) => c \in Bases[obj[ud[u].obj].class]

(* A userdata is taken for no more than its object is. *)
ConversionsKept == ConstKept /\ TypeKept

(* What Lua owns lives as long as something in Lua, or a shared pointer in *)
(* C++, has it, and no longer; nothing it has a userdata of is gone.       *)
LifeKept ==
    /\ \A u \in Live : ud[u].obj \in Alive
    /\ \A o \in Alive : obj[o].by # "cpp" => obj[o].held \/ \E u \in Live : ud[u].obj = o

(* Of the registrations ds, that of the nearest of a class and its supers *)
Heirs == LET f[c \in Classes] == IF \E d \in declared : d.op = "extend" /\ d.of = c
                                 THEN <<c>> \o f[Super[c]] ELSE <<c>> IN f
Named(n, ops) == {d \in declared : d.name = n /\ d.op \in ops}
Nearest(c, ds) ==
    LET of(i) == {d \in ds : d.of = Heirs[c][i]}
        has   == {i \in DOMAIN Heirs[c] : of(i) # {}}
    IN  IF has = {} THEN {} ELSE of(First(has))

(* Whether C++ allows to read or call it, of an object that is const or not *)
Readable(d, const) ==
    const => CASE d.op = "variable" -> TRUE
               [] d.op = "property" -> d.with[2]
               [] OTHER             -> d.with[1]
Writable(d) == CASE d.op = "variable" -> d.with[1] [] d.op = "property" -> d.with[3] [] OTHER -> d.with[2]

(* A name means on an object what C++ would have it mean: the registration *)
(* of the nearest class in the chain and no other, which is called if the  *)
(* object's constness allows, or else raises; what nobody registered is    *)
(* nil (but lua-intf's own fields), and cannot be assigned.  (An indexer without a setter leaves that  *)
(* of a super class.)                                                      *)
NamesMeanDeclared ==
    \A u \in Live, n \in Names :
        LET t      == ud[u].meta
            number == n = "number"
            reads  == Nearest(t[1], Named(n, MemberOps))
            writes == Nearest(t[1], {d \in Named(n, {"variable", "property", "indexer"}) :
                                       d.op = "indexer" => d.with[2]})
            got    == Index(t, n, number)
            set    == NewIndex(t, n, number)
        IN  /\ Cardinality(got) = Cardinality(reads)
            /\ \A d \in reads, e \in got :
                 /\ Runs(e, u) <=> Readable(d, ud[u].const)
                 /\ Runs(e, u) => e.class = d.of
            /\ Cardinality(set) = Cardinality(writes)
            /\ \A d \in writes, e \in set :
                 /\ Runs(e, u) <=> Writable(d) /\ ~ud[u].const
                 /\ Runs(e, u) => e.class = d.of

ReadOnly(d) ==
    \/ d.op \in {"constant", "module constant"}
    \/ d.op \in {"static variable", "static property", "module variable", "module property"} /\ ~d.with[1]

(* A constant, or a variable or property that is read-only, keeps its value *)
(* whatever scripts assign to names, through the class that has it, a class *)
(* that extends it, and the module.                                         *)
ReadOnlyKept ==
    /\ \A d \in declared : d.of \in Modules /\ ReadOnly(d) =>
          ModuleIndex(d.of, d.name) = {Static(d.of, d.name)}
    /\ \A c \in bound \cap Classes, n \in Names :
        /\ \A d \in Nearest(c, Named(n, StaticOps)) :
              Index(<<c, "static">>, n, FALSE) = {Static(d.of, n)}
        /\ \A d \in Nearest(c, Named(n, StaticOps \ {"static function"})) :
              NewIndex(<<c, "static">>, n, FALSE) = {IF ReadOnly(d) THEN ErrorReadOnly ELSE Static(d.of, n)}
=============================================================================
