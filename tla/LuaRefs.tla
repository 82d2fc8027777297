------------------------------- MODULE LuaRefs -------------------------------
(***************************************************************************)
(* The references of lua-intf (LuaRef.h, LuaRef.cpp): C++ objects that own *)
(* slots of the Lua registry.  A LuaRef owns the slot of its value, a      *)
(* LuaTableRef (what t[k] is) that of its key, a LuaTableIterator those of *)
(* its key and its value; the last two borrow the slot of the LuaRef of    *)
(* their table, and its user must keep that one alive.                     *)
(*                                                                         *)
(* The registry, the tables and the order lua_next() walks them in are     *)
(* Lua's.  An action is a whole member function.                           *)
(***************************************************************************)
EXTENDS Integers, FiniteSets, Sequences

CONSTANTS
    References,     \* C++ variables, each of which may be any of the three
    Slots,          \* numbers of the registry's slots, positive
    LuaTables,
    Keys,           \* of the fields of tables, a sequence
    Values,         \* what is stored in fields
    Metatables      \* metatable |-> its fields, which stay: a bound

NOREF  == -2        \* LUA_NOREF
REFNIL == -1        \* LUA_REFNIL
nil    == "nil"
free   == "free"    \* what is in a slot that is not in use

ASSUME SlotsAssumption == Slots \subseteq Nat /\ IsFiniteSet(Slots)

VARIABLES
    registry,       \* slot |-> value
    tables,         \* table |-> (key |-> value)
    meta,           \* table |-> nil or the metatable, its own __index
    ref,            \* the C++ objects: what they are and their members
    means,          \* what key and value of an object should denote
    walk            \* of an iterator: the keys it was given and has to be given

refVars == <<registry, tables, meta, ref, means, walk>>

(* key is the m_ref of a LuaRef too. *)
Dead   == [kind |-> "dead", L |-> FALSE, table |-> NOREF, key |-> NOREF, value |-> NOREF]
Nils   == [key |-> nil, value |-> nil]
NoWalk == [seen |-> <<>>, todo |-> {}]
KeySet == {Keys[i] : i \in DOMAIN Keys}

Kind(k) == {o \in References : ref[o].kind = k}
Owned(x) == {x.key, x.value} \cap Slots

(* What Lua programs have; a key has one place in the order of lua_next(). *)
Lua == Values \cup LuaTables \cup KeySet \cup {nil}

ASSUME LuaAssumption ==
    /\ free \notin Lua /\ nil \notin LuaTables \cup KeySet /\ "none" \notin LuaTables
    /\ Keys \in Seq(KeySet) /\ \A i, j \in DOMAIN Keys : Keys[i] = Keys[j] => i = j
    /\ DOMAIN Metatables \subseteq LuaTables
    /\ \A t \in DOMAIN Metatables : Metatables[t] \in [KeySet -> Lua]
----------------------------------------------------------------------------
(* Lua *)

RawGetI(reg, r) == IF r \in Slots THEN reg[r] ELSE nil

(* luaL_ref() takes a slot that is free, and none for nil. *)
NewSlot(reg) == CHOOSE s \in Slots : reg[s] = free
Ref(reg, v)  == IF v = nil THEN REFNIL ELSE NewSlot(reg)
With(reg, v) == IF v = nil THEN reg ELSE [reg EXCEPT ![NewSlot(reg)] = v]
Unref(reg, r) == IF r \in Slots THEN [reg EXCEPT ![r] = free] ELSE reg

(* The bound: there are slots for two more references. *)
Room == Cardinality({s \in Slots : registry[s] = free}) >= 2

GetTable(t, k) ==
    IF tables[t][k] = nil /\ meta[t] # nil THEN tables[meta[t]][k] ELSE tables[t][k]

(* lua_next(): the key behind k, nil for the one behind the last. *)
LuaNext(t, k) ==
    LET Behind == {i \in DOMAIN Keys : tables[t][Keys[i]] # nil
                                         /\ \A j \in DOMAIN Keys : Keys[j] = k => j < i}
    IN  IF Behind = {} THEN nil ELSE Keys[CHOOSE i \in Behind : \A j \in Behind : i <= j]
----------------------------------------------------------------------------
(* What an object denotes, and the tests it answers *)
Key(o)   == RawGetI(registry, ref[o].key)
Value(o) == RawGetI(registry, ref[o].value)
TableOf(o) == RawGetI(registry, ref[o].table)

Type(o) ==      \* LuaRef::type()
    IF ref[o].key = NOREF THEN "none" ELSE IF ref[o].key = REFNIL THEN nil ELSE Key(o)
OperatorBool(o) == ref[o].key # NOREF /\ ref[o].key # REFNIL
Identical(o, p) == Key(o) = Key(p)      \* isIdenticalTo(), of two in the same state

(* LuaTableIterator::operator == *)
SamePlace(x, y) ==
    /\ x.L = y.L /\ x.table = y.table
    /\ x.key = y.key \/ RawGetI(registry, x.key) = RawGetI(registry, y.key)
----------------------------------------------------------------------------
RefInit ==
    /\ registry = [s \in Slots |-> free]
    /\ tables = [t \in LuaTables |-> IF t \in DOMAIN Metatables THEN Metatables[t] ELSE [k \in KeySet |-> nil]]
    /\ meta = [t \in LuaTables |-> nil]
    /\ ref = [o \in References |-> Dead]
    /\ means = [o \in References |-> Nils]
    /\ walk = [o \in References |-> NoWalk]

LuaUnchanged == UNCHANGED <<tables, meta>>

(* An object comes into being with the references to key and value that are *)
(* taken in this order, or with those it is given.                         *)
Become(o, x, m) ==
    /\ ref[o] = Dead
    /\ ref' = [ref EXCEPT ![o] = x]
    /\ means' = [means EXCEPT ![o] = m]

Holding(v) == [kind |-> "ref", L |-> TRUE, table |-> NOREF, key |-> Ref(registry, v), value |-> NOREF]

(* LuaRef::popFromStack() of a value *)
PopFromStack(o, v) ==
    /\ Room /\ Become(o, Holding(v), [key |-> v, value |-> nil])
    /\ registry' = With(registry, v)
    /\ UNCHANGED walk /\ LuaUnchanged

(* createUserData(), createFunction(), createTable()... *)
Create(o, v) == v # nil /\ PopFromStack(o, v)

(* LuaRef(L, index), LuaRef(L, name) *)
LuaRefAt(o, v) == PopFromStack(o, v)

Empty(o) ==
    /\ Become(o, [Dead EXCEPT !.kind = "ref"], Nils)
    /\ UNCHANGED <<registry, walk>> /\ LuaUnchanged

LuaRefNil(o) ==
    /\ Become(o, [Dead EXCEPT !.kind = "ref", !.L = TRUE, !.key = REFNIL], Nils)
    /\ UNCHANGED <<registry, walk>> /\ LuaUnchanged

Copied_Shared(p) == ref[p]              \* fault: the copy takes the slot itself
Copied(p) == [ref[p] EXCEPT !.key = IF ref[p].L THEN Ref(registry, Key(p)) ELSE NOREF]

(* LuaRef(const LuaRef&) *)
Copy(o, p) ==
    /\ Room /\ ref[p].kind = "ref" /\ Become(o, Copied(p), means[p])
    /\ registry' = IF ref[p].L THEN With(registry, Key(p)) ELSE registry
    /\ UNCHANGED walk /\ LuaUnchanged

(* LuaRef(LuaRef&&) and LuaTableRef(LuaTableRef&&) *)
Move(o, p) ==
    /\ ref[p].kind \in {"ref", "proxy"} /\ ref[o] = Dead
    /\ ref' = [ref EXCEPT ![o] = ref[p], ![p].key = NOREF]
    /\ means' = [means EXCEPT ![o] = means[p], ![p] = Nils]
    /\ UNCHANGED <<registry, walk>> /\ LuaUnchanged

(* The contract: a slot is not given back while an object borrows it. *)
Lent(r) == \E i \in Kind("proxy") \cup Kind("iter") : ref[i].L /\ ref[i].table = r

(* The destructors *)
Destroy(o) ==
    /\ ref[o].kind # "dead"
    /\ ref[o].kind = "ref" => ~Lent(ref[o].key)
    /\ registry' = IF ref[o].L THEN Unref(Unref(registry, ref[o].key), ref[o].value) ELSE registry
    /\ ref' = [ref EXCEPT ![o] = Dead]
    /\ means' = [means EXCEPT ![o] = Nils]
    /\ walk' = [walk EXCEPT ![o] = NoWalk]
    /\ LuaUnchanged

(* LuaRef::operator = (const LuaRef&) *)
AssignRef(o, p) ==
    /\ o # p /\ ref[o].kind = "ref" /\ ref[p].kind = "ref" /\ ~Lent(ref[o].key)
    /\ LET reg == IF ref[o].L THEN Unref(registry, ref[o].key) ELSE registry
           v   == RawGetI(reg, ref[p].key)
       IN  /\ v # nil => \E s \in Slots : reg[s] = free
           /\ registry' = IF ref[p].L THEN With(reg, v) ELSE reg
           /\ ref' = [ref EXCEPT ![o].L = ref[p].L,
                                 ![o].key = IF ref[p].L THEN Ref(reg, v) ELSE NOREF]
    /\ means' = [means EXCEPT ![o] = means[p]]
    /\ UNCHANGED walk /\ LuaUnchanged

(* operator = (LuaRef&&), operator = (LuaTableIterator&&): a swap *)
AssignMove(o, p) ==
    /\ ref[o].kind = ref[p].kind /\ ref[o].kind \in {"ref", "iter"}
    /\ ref' = [ref EXCEPT ![o] = ref[p], ![p] = ref[o]]
    /\ means' = [means EXCEPT ![o] = means[p], ![p] = means[o]]
    /\ walk' = [walk EXCEPT ![o] = walk[p], ![p] = walk[o]]
    /\ UNCHANGED registry /\ LuaUnchanged

(* LuaRef::operator = (nullptr) *)
AssignNil(o) ==
    /\ ref[o].kind = "ref" /\ ref[o].L /\ ~Lent(ref[o].key)
    /\ registry' = Unref(registry, ref[o].key)
    /\ ref' = [ref EXCEPT ![o].key = REFNIL]
    /\ means' = [means EXCEPT ![o] = Nils]
    /\ UNCHANGED walk /\ LuaUnchanged
----------------------------------------------------------------------------
(* The table a LuaRef denotes *)
IsTable(p) == ref[p].kind = "ref" /\ Type(p) \in LuaTables

(* A LuaRef of a field: rawget(), get(), and get() with a default, which   *)
(* LuaTypeMapping<LuaRef>::opt() never gives: it asks for lua_isnone(),    *)
(* and a field that is not there is nil.                                   *)
GetRaw(o, p, k) == IsTable(p) /\ PopFromStack(o, tables[Key(p)][k])
Get(o, p, k)    == IsTable(p) /\ PopFromStack(o, GetTable(Key(p), k))

(* A field gets a value: to an iterator of the table it is no longer owed. *)
Store(t, k, v) ==
    /\ t \notin DOMAIN Metatables
    /\ tables' = [tables EXCEPT ![t][k] = v]
    /\ walk' = [o \in References |->
                  IF ref[o].kind = "iter" /\ ref[o].L /\ TableOf(o) = t
                  THEN [walk[o] EXCEPT !.todo = @ \ {k}] ELSE walk[o]]
    /\ UNCHANGED <<registry, meta, ref, means>>

(* set(), remove(), rawset() *)
Set(p, k, v) == IsTable(p) /\ Store(Key(p), k, v)

GetMetaTable(o, p) ==
    /\ IsTable(p)
    /\ IF meta[Key(p)] = nil THEN Empty(o) ELSE PopFromStack(o, meta[Key(p)])

SetMetaTable(p, q) ==
    /\ IsTable(p) /\ ref[q].kind = "ref" /\ ref[q].L
    /\ Key(p) \notin DOMAIN Metatables /\ Key(q) \in DOMAIN Metatables \cup {nil}
    /\ meta' = [meta EXCEPT ![Key(p)] = Key(q)]
    /\ UNCHANGED <<registry, tables, ref, means, walk>>
----------------------------------------------------------------------------
(* LuaTableRef *)

(* operator [] *)
Subscript(o, p, k) ==
    /\ IsTable(p) /\ Room
    /\ Become(o, [Holding(k) EXCEPT !.kind = "proxy", !.table = ref[p].key], [key |-> k, value |-> nil])
    /\ registry' = With(registry, k)
    /\ UNCHANGED walk /\ LuaUnchanged

CopyProxy(o, p) ==
    /\ Room /\ ref[p].kind = "proxy" /\ Become(o, Copied(p), means[p])
    /\ registry' = With(registry, Key(p))
    /\ UNCHANGED walk /\ LuaUnchanged

(* A proxy that was moved from has no key. *)
Usable(p) == ref[p].kind = "proxy" /\ Key(p) # nil

AssignValue(p, v) == Usable(p) /\ Store(TableOf(p), Key(p), v)
AssignProxy(p, q) ==
    Usable(p) /\ Usable(q) /\ Store(TableOf(p), Key(p), GetTable(TableOf(q), Key(q)))

(* LuaRef(const LuaTableRef&), through value() *)
LuaRefOf(o, p) == Usable(p) /\ PopFromStack(o, GetTable(TableOf(p), Key(p)))
----------------------------------------------------------------------------
(* LuaTableIterator *)
IterEnd(r) == [kind |-> "iter", L |-> TRUE, table |-> r, key |-> NOREF, value |-> NOREF]

(* The key and the value an iterator goes to *)
NextKey_Late(x) ==      \* fault: the key is read when its slot is free
    LuaNext(RawGetI(registry, x.table), RawGetI(Unref(registry, x.key), x.key))
NextKey(x) == LuaNext(RawGetI(registry, x.table), RawGetI(registry, x.key))

(* next(): the slots of the old key and value are free when the new are    *)
(* taken, the value's first.                                               *)
Advance(i, x, w) ==
    LET k   == NextKey(x)
        v   == IF k = nil THEN nil ELSE tables[RawGetI(registry, x.table)][k]
        old == Unref(Unref(registry, x.key), x.value)
    IN  /\ registry' = With(With(old, v), k)
        /\ ref' = [ref EXCEPT ![i] =
                     IF k = nil THEN IterEnd(x.table)
                     ELSE [x EXCEPT !.value = Ref(old, v), !.key = Ref(With(old, v), k)]]
        /\ means' = [means EXCEPT ![i] = [key |-> k, value |-> v]]
        /\ walk' = [walk EXCEPT ![i] = IF k = nil THEN w
                                       ELSE [seen |-> Append(w.seen, k), todo |-> w.todo \ {k}]]
        /\ LuaUnchanged

(* begin() and end() *)
Begin(o, p) ==
    /\ IsTable(p) /\ Room /\ ref[o] = Dead
    /\ Advance(o, IterEnd(ref[p].key),
               [seen |-> <<>>, todo |-> {k \in KeySet : tables[Key(p)][k] # nil}])
End(o, p) ==
    /\ IsTable(p) /\ Become(o, IterEnd(ref[p].key), Nils)
    /\ UNCHANGED <<registry, walk>> /\ LuaUnchanged

(* operator ++, of an iterator that is not past the end *)
Next1(i) == ref[i].kind = "iter" /\ ref[i].L /\ means[i].key # nil /\ Advance(i, ref[i], walk[i])

EmptyIter(o) ==
    /\ Become(o, [Dead EXCEPT !.kind = "iter"], Nils)
    /\ UNCHANGED <<registry, walk>> /\ LuaUnchanged

(* What a copy of the iterator p takes from the registry reg *)
CopyOfIter(reg, p) ==
    IF ~ref[p].L THEN [Dead EXCEPT !.kind = "iter", !.table = ref[p].table]
    ELSE [ref[p] EXCEPT !.key = Ref(reg, Key(p)), !.value = Ref(With(reg, Key(p)), Value(p))]
WithIter(reg, p) == IF ref[p].L THEN With(With(reg, Key(p)), Value(p)) ELSE reg

CopyIter(o, p) ==
    /\ Room /\ ref[p].kind = "iter"
    /\ Become(o, CopyOfIter(registry, p), means[p])
    /\ registry' = WithIter(registry, p)
    /\ walk' = [walk EXCEPT ![o] = walk[p]]
    /\ LuaUnchanged

(* operator = (const LuaTableIterator&) *)
AssignIter(o, p) ==
    /\ o # p /\ ref[o].kind = "iter" /\ ref[p].kind = "iter"
    /\ LET old == IF ref[o].L THEN Unref(Unref(registry, ref[o].key), ref[o].value) ELSE registry
       IN  /\ ref[p].L => Cardinality({s \in Slots : old[s] = free}) >= 2
           /\ registry' = WithIter(old, p)
           /\ ref' = [ref EXCEPT ![o] = CopyOfIter(old, p)]
    /\ means' = [means EXCEPT ![o] = means[p]]
    /\ walk' = [walk EXCEPT ![o] = walk[p]]
    /\ LuaUnchanged

(* LuaRefs of key() and value() *)
KeyOf(o, i)   == ref[i].kind = "iter" /\ ref[i].L /\ PopFromStack(o, Key(i))
ValueOf(o, i) == ref[i].kind = "iter" /\ ref[i].L /\ PopFromStack(o, Value(i))
----------------------------------------------------------------------------
Born(o) ==
    \/ \E v \in Values \cup DOMAIN Metatables : Create(o, v) \/ LuaRefAt(o, v)
    \/ Empty(o) \/ LuaRefNil(o) \/ EmptyIter(o)
    \/ \E p \in References :
        \/ Copy(o, p) \/ Move(o, p) \/ GetMetaTable(o, p) \/ CopyProxy(o, p) \/ LuaRefOf(o, p)
        \/ \E k \in KeySet : GetRaw(o, p, k) \/ Get(o, p, k) \/ Subscript(o, p, k)
        \/ Begin(o, p) \/ End(o, p) \/ CopyIter(o, p)
        \/ KeyOf(o, p) \/ ValueOf(o, p)

Changed(o) ==
    \/ Destroy(o) \/ AssignNil(o) \/ Next1(o)
    \/ \E p \in References : \/ AssignRef(o, p) \/ AssignMove(o, p) \/ SetMetaTable(o, p)
                          \/ AssignProxy(o, p) \/ AssignIter(o, p)
    \/ \E v \in Values : AssignValue(o, v) \/ \E k \in KeySet : Set(o, k, v)

RefNext == \E o \in References : Born(o) \/ Changed(o)

RefSpec == RefInit /\ [][RefNext]_refVars
----------------------------------------------------------------------------
(* Every slot in use belongs to one member of one object, and every slot a *)
(* live object names is in use: through copies, moves, swaps, assignments, *)
(* exhausted iterators and destructors nothing leaks and nothing is given  *)
(* back twice.                                                             *)
OwnedOnce ==
    /\ \A s \in Slots : registry[s] # free <=> \E o \in References : ref[o].L /\ s \in Owned(ref[o])
    /\ \A o, p \in References : ref[o].L /\ ref[p].L /\ o # p => Owned(ref[o]) \cap Owned(ref[p]) = {}
    /\ \A o \in References : ref[o].L /\ ref[o].key \in Slots => ref[o].key # ref[o].value

(* A reference denotes what it was made for, whatever was done to others   *)
(* since: a copy outlives its original, a new reference never takes a slot *)
(* that another still reads, and a borrowed table is still that table. So  *)
(* operator bool and == tell nil and the values apart.                     *)
Denotes ==
    \A o \in References : ref[o].L =>
        /\ Key(o) = means[o].key /\ Value(o) = means[o].value
        /\ ref[o].kind \in {"proxy", "iter"} => TableOf(o) \in LuaTables
        /\ ref[o].kind = "ref" =>
            /\ OperatorBool(o) <=> means[o].key # nil
            /\ \A p \in Kind("ref") : ref[p].L => (Identical(o, p) <=> means[o].key = means[p].key)

(* A loop over a table that fields are changed or removed in gives every   *)
(* key at most once, and when its iterator, or a copy of it, compares as   *)
(* the end, those that were not touched are given.                         *)
WalksAll ==
    \A i \in Kind("iter") :
        /\ \A m, n \in DOMAIN walk[i].seen : m # n => walk[i].seen[m] # walk[i].seen[n]
        /\ ref[i].L /\ SamePlace(ref[i], IterEnd(ref[i].table)) => walk[i].todo = {}
=============================================================================
