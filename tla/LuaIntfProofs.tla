----------------------------- MODULE LuaIntfProofs -----------------------------
(***************************************************************************)
(* Proofs about lua-intf.  First LuaRefs, for any references, slots,       *)
(* tables and values: who owns a slot of the registry, what is in it, and  *)
(* what a loop over a table gives.  Then LuaObject, for any classes,       *)
(* modules, programs, objects and userdata: what a userdata is taken for,  *)
(* how long its object lives, and what a name means in classes and modules *)
(* that any program has registered.  The two share no state.  Then the     *)
(* calls of LuaCalls, and the scalars of messages.                         *)
(***************************************************************************)
EXTENDS LuaRefs, LuaObject, LuaCalls, LuaScalar, FiniteSetTheorems, SequenceTheorems, WellFoundedInduction, TLAPS

Refs == Slots \cup {NOREF, REFNIL}
ObjSet == [kind : {"dead", "ref", "proxy", "iter"}, L : BOOLEAN,
           table : Refs, key : Refs, value : Refs]
Meanings == [key : Lua, value : Lua]

TypeInv ==
  /\ registry \in [Slots -> Lua \cup {free}]
  /\ tables \in [LuaTables -> [KeySet -> Lua]]
  /\ meta \in [LuaTables -> DOMAIN Metatables \cup {nil}]
  /\ ref \in [References -> ObjSet] /\ means \in [References -> Meanings]

\* The reference r denotes v: a slot with v in it, or nil.
Denoted(reg, r, v) ==
  \/ r \in Slots /\ reg[r] = v /\ v \in Lua \ {nil}
  \/ r \in {NOREF, REFNIL} /\ v = nil

Shape(x) ==
  /\ x.kind = "dead" => x = Dead
  /\ x.kind \in {"ref", "proxy"} => x.value = NOREF
  /\ x.kind = "proxy" => x.L
  /\ x.kind = "ref" /\ ~x.L => x.key = NOREF

Sound(reg, x, m) ==
  /\ Denoted(reg, x.key, m.key) /\ Denoted(reg, x.value, m.value)
  /\ x.key \in Slots => x.key # x.value
  /\ x.kind \in {"proxy", "iter"} => m.key \in KeySet \cup {nil}
  /\ x.kind = "iter" => (m.key = nil <=> m.value = nil)

\* The LuaRef p owns the slot r of a table.
Lender(p, r) ==
  ref[p].kind = "ref" /\ ref[p].L /\ ref[p].key = r /\ means[p].key \in LuaTables

Borrows(x) == x.L /\ x.kind \in {"proxy", "iter"}

\* A live object denotes what it was made for, and what it borrows is there.
ObjInv ==
  \A o \in References :
    /\ Shape(ref[o])
    /\ ref[o].L => Sound(registry, ref[o], means[o])
    /\ Borrows(ref[o]) => \E p \in References : Lender(p, ref[o].table)

Own(o) == IF ref[o].L THEN Owned(ref[o]) ELSE {}

\* No slot in use is without an owner, and none has two.
OwnInv ==
  /\ \A s \in Slots : registry[s] # free => \E o \in References : s \in Own(o)
  /\ \A o, p \in References : o # p => Own(o) \cap Own(p) = {}

RefInv == TypeInv /\ ObjInv /\ OwnInv

\* What is borrowed by the others stays the table it was when o changes.
Still(o) ==
  \A p \in References \ {o} :
    Borrows(ref[p]) => RawGetI(registry', ref[p].table) = TableOf(p)

-------------------------------------------------------------------------------
(* Slots *)

LEMMA NoSlot ==
  /\ NOREF \notin Slots /\ REFNIL \notin Slots /\ NOREF # REFNIL
  /\ free \notin Lua /\ nil \in Lua /\ nil # free
  /\ LuaTables \subseteq Lua /\ KeySet \subseteq Lua /\ Values \subseteq Lua
  /\ nil \notin LuaTables /\ "none" \notin LuaTables /\ nil \notin KeySet /\ DOMAIN Metatables \subseteq LuaTables
BY SlotsAssumption, LuaAssumption DEF NOREF, REFNIL, Lua, nil, free

\* An owned slot is in use.
LEMMA OwnedUsed ==
  ASSUME RefInv, NEW o \in References, NEW s \in Own(o)
  PROVE  /\ s \in Slots /\ registry[s] # free /\ registry[s] \in Lua \ {nil}
         /\ ref[o].L /\ (s = ref[o].key \/ s = ref[o].value)
<1>1. ref[o].L /\ s \in Slots /\ (s = ref[o].key \/ s = ref[o].value)
  BY DEF Own, Owned
<1>2. Denoted(registry, ref[o].key, means[o].key)
      /\ Denoted(registry, ref[o].value, means[o].value)
  BY <1>1 DEF RefInv, ObjInv, Sound
<1>3. registry[s] \in Lua \ {nil}
  BY <1>1, <1>2, NoSlot DEF Denoted
<1> QED BY <1>1, <1>3, NoSlot

\* The object o is replaced by x, which means m.
LEMMA Replace ==
  ASSUME RefInv, NEW o \in References, NEW x \in ObjSet, NEW m \in Meanings,
         Shape(x), ref' = [ref EXCEPT ![o] = x], means' = [means EXCEPT ![o] = m],
         UNCHANGED <<tables, meta>>, registry' \in [Slots -> Lua \cup {free}],
         \A p \in References \ {o} : \A s \in Own(p) :
           registry'[s] = registry[s] /\ ~(x.L /\ s \in Owned(x)),
         \A s \in Slots : registry'[s] # free =>
           (x.L /\ s \in Owned(x)) \/ \E p \in References \ {o} : s \in Own(p),
         x.L => Sound(registry', x, m),
         Borrows(x) => \E p \in References \ {o} : Lender(p, x.table),
         ref[o].kind = "ref" => ~Lent(ref[o].key)
  PROVE  RefInv' /\ Still(o)
<1>0. /\ ref \in [References -> ObjSet] /\ means \in [References -> Meanings]
      /\ ref' \in [References -> ObjSet] /\ means' \in [References -> Meanings]
      /\ ref'[o] = x /\ means'[o] = m
      /\ \A p \in References \ {o} : ref'[p] = ref[p] /\ means'[p] = means[p]
  BY DEF RefInv, TypeInv
<1>1. TypeInv'
  BY <1>0 DEF RefInv, TypeInv
<1>2. ASSUME NEW p \in References \ {o}, NEW r, Lender(p, r) PROVE Lender(p, r)'
  BY <1>0, <1>2 DEF Lender
<1>3. ASSUME NEW p \in References \ {o} PROVE Own(p)' = Own(p)
  BY <1>0, <1>3 DEF Own
<1>4. Own(o)' = IF x.L THEN Owned(x) ELSE {}
  BY <1>0 DEF Own
<1>5. OwnInv'
  BY <1>3, <1>4 DEF RefInv, OwnInv
<1>6. ASSUME NEW q \in References
      PROVE  /\ Shape(ref'[q])
             /\ ref'[q].L => Sound(registry', ref'[q], means'[q])
             /\ Borrows(ref'[q]) => \E p \in References : Lender(p, ref[q].table)'
  <2>1. CASE q = o
    BY <1>0, <1>2, <2>1
  <2>2. CASE q # o
    <3>1. ref'[q] = ref[q] /\ means'[q] = means[q] /\ Shape(ref[q])
      BY <1>0, <2>2 DEF RefInv, ObjInv
    <3>2. ASSUME ref[q].L PROVE Sound(registry', ref[q], means[q])
      <4>1. Sound(registry, ref[q], means[q])
        BY <3>2 DEF RefInv, ObjInv
      <4>2. \A s \in {ref[q].key, ref[q].value} \cap Slots : registry'[s] = registry[s]
        BY <2>2, <3>2 DEF Own, Owned
      <4> QED BY <4>1, <4>2 DEF Sound, Denoted
    <3>3. ASSUME Borrows(ref[q])
          PROVE  \E p \in References : Lender(p, ref[q].table)'
      <4>1. PICK p \in References : Lender(p, ref[q].table)
        BY <3>3 DEF RefInv, ObjInv
      <4>2. CASE p = o
        BY <3>3, <4>1, <4>2 DEF Lender, Lent, Borrows, Kind
      <4>3. CASE p # o
        BY <1>2, <3>1, <4>1, <4>3
      <4> QED BY <4>2, <4>3
    <3> QED BY <3>1, <3>2, <3>3
  <2> QED BY <2>1, <2>2
<1>7. ASSUME NEW q \in References \ {o}, Borrows(ref[q])
      PROVE  RawGetI(registry', ref[q].table) = TableOf(q)
  <2>1. PICK p \in References : Lender(p, ref[q].table)
    BY <1>7 DEF RefInv, ObjInv
  <2>2. p # o
    BY <1>7, <2>1 DEF Lender, Lent, Borrows, Kind
  <2>3. ref[q].table \in Slots => ref[q].table \in Own(p)
    BY <2>1 DEF Lender, Own, Owned
  <2> QED BY <2>2, <2>3 DEF RawGetI, TableOf
<1> QED BY <1>1, <1>5, <1>6, <1>7 DEF RefInv, ObjInv, Still

-------------------------------------------------------------------------------
(* Taking and giving back *)

\* r is a new reference to v, and new what becomes of the slots by it.
Takes(old, r, v, new) ==
  \/ v = nil /\ r \in {NOREF, REFNIL} /\ new = old
  \/ v # nil /\ r \in Slots /\ old[r] = free /\ new = [old EXCEPT ![r] = v]

FreeIn(reg) == {s \in Slots : reg[s] = free}

LEMMA RefTakes ==
  ASSUME NEW reg, NEW v, v # nil => \E s \in Slots : reg[s] = free
  PROVE  Takes(reg, Ref(reg, v), v, With(reg, v))
<1>1. CASE v = nil
  BY <1>1 DEF Takes, Ref, With
<1>2. CASE v # nil
  <2>1. NewSlot(reg) \in Slots /\ reg[NewSlot(reg)] = free
    BY <1>2 DEF NewSlot
  <2> QED BY <1>2, <2>1 DEF Takes, Ref, With
<1> QED BY <1>1, <1>2

\* Two slots that are free can be taken one after the other.
LEMMA TwoFree ==
  ASSUME NEW reg, Cardinality(FreeIn(reg)) >= 2
  PROVE  \E s, t \in Slots : s # t /\ reg[s] = free /\ reg[t] = free
<1> SUFFICES ASSUME \A s, t \in FreeIn(reg) : s = t PROVE FALSE
  BY DEF FreeIn
<1>1. CASE FreeIn(reg) = {}
  BY <1>1, FS_EmptySet
<1>2. ASSUME NEW s \in FreeIn(reg) PROVE FALSE
  <2>1. FreeIn(reg) = {s}
    BY <1>2
  <2>2. Cardinality({s}) = 1
    BY FS_Singleton
  <2> QED BY <2>1, <2>2
<1> QED BY <1>1, <1>2

LEMMA RefTakesTwo ==
  ASSUME NEW reg \in [Slots -> Lua \cup {free}], NEW v, NEW w,
         \/ \E s, t \in Slots : s # t /\ reg[s] = free /\ reg[t] = free
         \/ v = nil /\ w = nil
  PROVE  LET mid == With(reg, v) IN
         /\ Takes(reg, Ref(reg, v), v, mid)
         /\ Takes(mid, Ref(mid, w), w, With(mid, w))
<1> DEFINE mid == With(reg, v)
<1>1. CASE v = nil /\ w = nil
  BY <1>1 DEF Takes, Ref, With
<1>2. CASE \E s, t \in Slots : s # t /\ reg[s] = free /\ reg[t] = free
  <2>1. PICK s \in Slots, t \in Slots : s # t /\ reg[s] = free /\ reg[t] = free
    BY <1>2
  <2>2. Takes(reg, Ref(reg, v), v, mid)
    BY <2>1, RefTakes
  <2>3. \E u \in Slots : mid[u] = free
    <3>1. CASE mid = reg
      BY <2>1, <3>1
    <3>2. ASSUME NEW r \in Slots, mid = [reg EXCEPT ![r] = v]
          PROVE  \E u \in Slots : mid[u] = free
      <4>1. CASE r = s
        BY <2>1, <3>2, <4>1
      <4>2. CASE r # s
        BY <2>1, <3>2, <4>2
      <4> QED BY <4>1, <4>2
    <3> QED BY <2>2, <3>1, <3>2 DEF Takes
  <2>4. Takes(mid, Ref(mid, w), w, With(mid, w))
    BY <2>3, RefTakes
  <2> QED BY <2>2, <2>4
<1> QED BY <1>1, <1>2

\* The registry when o has given its slots back
Freed(o) == [s \in Slots |-> IF s \in Own(o) THEN free ELSE registry[s]]

LEMMA FreedIs ==
  ASSUME RefInv, NEW o \in References
  PROVE  /\ Freed(o) \in [Slots -> Lua \cup {free}]
         /\ ~ref[o].L => registry = Freed(o)
         /\ ref[o].L =>
              Unref(Unref(registry, ref[o].key), ref[o].value) = Freed(o)
         /\ ref[o].L /\ ref[o].value = NOREF =>
              Unref(registry, ref[o].key) = Freed(o)
<1>1. registry \in [Slots -> Lua \cup {free}]
  BY DEF RefInv, TypeInv
<1>2. CASE ~ref[o].L
  BY <1>1, <1>2 DEF Freed, Own
<1>3. CASE ref[o].L
  <2>1. Own(o) = {ref[o].key, ref[o].value} \cap Slots
    BY <1>3 DEF Own, Owned
  <2>2. Unref(Unref(registry, ref[o].key), ref[o].value) = Freed(o)
    BY <1>1, <2>1 DEF Freed, Unref
  <2>3. ref[o].value = NOREF => Unref(registry, ref[o].key) = Freed(o)
    BY <1>1, <2>1, NoSlot DEF Freed, Unref
  <2>4. Freed(o) \in [Slots -> Lua \cup {free}]
    BY <1>1 DEF Freed
  <2> QED BY <1>3, <2>2, <2>3, <2>4
<1> QED BY <1>1, <1>2, <1>3

\* o gives its slots back and takes a reference r to v, then q to w.
Gets(o, v, r, w, q) ==
  \E mid : Takes(Freed(o), r, v, mid) /\ Takes(mid, q, w, registry')

\* They denote what they should, and are nobody else's.
Apart(o, v, r, w, q) ==
  /\ registry' \in [Slots -> Lua \cup {free}]
  /\ Denoted(registry', r, v) /\ Denoted(registry', q, w)
  /\ r \in Slots => r # q
  /\ \A p \in References \ {o} : \A s \in Own(p) :
       registry'[s] = registry[s] /\ s # r /\ s # q
  /\ \A s \in Slots : registry'[s] # free =>
       s = r \/ s = q \/ \E p \in References \ {o} : s \in Own(p)

LEMMA TakenApart ==
  ASSUME RefInv, NEW o \in References, NEW STATE v, v \in Lua, NEW STATE w, w \in Lua,
         NEW STATE r, NEW STATE q, Gets(o, v, r, w, q)
  PROVE  Apart(o, v, r, w, q)
<1> PICK mid : Takes(Freed(o), r, v, mid) /\ Takes(mid, q, w, registry')
  BY DEF Gets
<1>0. Freed(o) \in [Slots -> Lua \cup {free}]
  BY FreedIs
<1>1. /\ mid \in [Slots -> Lua \cup {free}] /\ Denoted(mid, r, v)
      /\ r \in Slots => Freed(o)[r] = free /\ mid[r] # free
      /\ \A s \in Slots : s # r => mid[s] = Freed(o)[s]
  BY <1>0, NoSlot DEF Takes, Denoted
<1>2. /\ registry' \in [Slots -> Lua \cup {free}] /\ Denoted(registry', q, w)
      /\ q \in Slots => mid[q] = free
      /\ \A s \in Slots : s # q => registry'[s] = mid[s]
  BY <1>1, NoSlot DEF Takes, Denoted
<1>3. r \in Slots => r # q
  BY <1>1, <1>2
<1>4. Denoted(registry', r, v)
  BY <1>1, <1>2, <1>3 DEF Denoted
<1>5. ASSUME NEW p \in References \ {o}, NEW s \in Own(p)
      PROVE  registry'[s] = registry[s] /\ s # r /\ s # q
  <2>1. s \in Slots /\ registry[s] # free
    BY <1>5, OwnedUsed
  <2>2. s \notin Own(o)
    BY <1>5 DEF RefInv, OwnInv
  <2>3. Freed(o)[s] = registry[s]
    BY <2>1, <2>2 DEF Freed
  <2>4. s # r /\ mid[s] = registry[s]
    BY <1>1, <2>1, <2>3
  <2>5. s # q /\ registry'[s] = mid[s]
    BY <1>2, <2>1, <2>4
  <2> QED BY <2>4, <2>5
<1>6. ASSUME NEW s \in Slots, registry'[s] # free, s # r, s # q
      PROVE  \E p \in References \ {o} : s \in Own(p)
  <2>1. Freed(o)[s] # free
    BY <1>1, <1>2, <1>6
  <2>2. s \notin Own(o) /\ registry[s] # free
    BY <2>1 DEF Freed
  <2> QED BY <2>2 DEF RefInv, OwnInv
<1> QED BY <1>2, <1>3, <1>4, <1>5, <1>6 DEF Apart

\* o becomes x, which means m; nothing it had may be lent.
Becomes(o, x, m) ==
  /\ ref' = [ref EXCEPT ![o] = x] /\ means' = [means EXCEPT ![o] = m]
  /\ UNCHANGED <<tables, meta>>
  /\ ref[o].kind = "ref" => ~Lent(ref[o].key)

\* What holds of a live x that means m, whatever its slots are.
Fits(o, x, m) ==
  /\ x \in ObjSet /\ m \in Meanings /\ Shape(x) /\ x.L
  /\ x.kind \in {"proxy", "iter"} =>
       m.key \in KeySet \cup {nil} /\ \E p \in References \ {o} : Lender(p, x.table)
  /\ x.kind = "iter" => (m.key = nil <=> m.value = nil)

\* o becomes x with new references, taken in either order.
LEMMA Renew ==
  ASSUME RefInv, NEW o \in References, NEW STATE x, NEW STATE m,
         Becomes(o, x, m), Fits(o, x, m),
         Gets(o, m.key, x.key, m.value, x.value) \/ Gets(o, m.value, x.value, m.key, x.key)
  PROVE  RefInv' /\ Still(o)
<1>0. x \in ObjSet /\ m \in Meanings /\ m.key \in Lua /\ m.value \in Lua
  BY DEF Fits, Meanings
<1>1. /\ registry' \in [Slots -> Lua \cup {free}]
      /\ Denoted(registry', x.key, m.key) /\ Denoted(registry', x.value, m.value)
      /\ x.key \in Slots => x.key # x.value
      /\ \A p \in References \ {o} : \A s \in Own(p) :
           registry'[s] = registry[s] /\ s # x.key /\ s # x.value
      /\ \A s \in Slots : registry'[s] # free =>
           s = x.key \/ s = x.value \/ \E p \in References \ {o} : s \in Own(p)
  <2>1. CASE Gets(o, m.key, x.key, m.value, x.value)
    <3>1. Apart(o, m.key, x.key, m.value, x.value)
      BY <1>0, <2>1, TakenApart
    <3> QED BY <3>1 DEF Apart
  <2>2. CASE Gets(o, m.value, x.value, m.key, x.key)
    <3>1. Apart(o, m.value, x.value, m.key, x.key)
      BY <1>0, <2>2, TakenApart
    <3> QED BY <3>1 DEF Apart
  <2> QED BY <2>1, <2>2
<1>2. Owned(x) = {x.key, x.value} \cap Slots
  BY DEF Owned
<1>3. Sound(registry', x, m)
  BY <1>1 DEF Sound, Fits
<1>4. \A p \in References \ {o} : \A s \in Own(p) :
        registry'[s] = registry[s] /\ ~(x.L /\ s \in Owned(x))
  BY <1>1, <1>2
<1>5. \A s \in Slots : registry'[s] # free =>
        (x.L /\ s \in Owned(x)) \/ \E p \in References \ {o} : s \in Own(p)
  BY <1>1, <1>2 DEF Fits
<1>6. Borrows(x) => \E p \in References \ {o} : Lender(p, x.table)
  BY DEF Fits, Borrows
<1> QED BY <1>0, <1>1, <1>3, <1>4, <1>5, <1>6, Replace DEF Becomes, Fits

\* o becomes x, which is not live.
LEMMA Retire ==
  ASSUME RefInv, NEW o \in References, NEW STATE x, x \in ObjSet, NEW STATE m, m \in Meanings,
         Becomes(o, x, m), Shape(x), ~x.L, registry' = Freed(o)
  PROVE  RefInv' /\ Still(o)
<1>1. Gets(o, nil, NOREF, nil, NOREF) /\ nil \in Lua
  BY NoSlot DEF Takes, Gets
<1>2. Apart(o, nil, NOREF, nil, NOREF)
  BY <1>1, TakenApart
<1> QED BY <1>2, NoSlot, Replace DEF Borrows, Becomes, Apart

-------------------------------------------------------------------------------
(* The steps *)

\* What a live object shows is what it was made for.
LEMMA Shows ==
  ASSUME RefInv, NEW o \in References, ref[o].L
  PROVE  /\ Key(o) = means[o].key /\ Value(o) = means[o].value
         /\ means[o] \in Meanings /\ means[o].key \in Lua /\ means[o].value \in Lua
         /\ ref[o].kind \in {"ref", "proxy"} => means[o].value = nil
         /\ ref[o].key \in Slots <=> means[o].key # nil
<1>1. ref[o] \in ObjSet /\ means[o] \in Meanings /\ Shape(ref[o])
      /\ Sound(registry, ref[o], means[o])
  BY DEF RefInv, TypeInv, ObjInv
<1>2. /\ Denoted(registry, ref[o].key, means[o].key)
      /\ Denoted(registry, ref[o].value, means[o].value)
  BY <1>1 DEF Sound
<1>3. Key(o) = means[o].key /\ Value(o) = means[o].value
      /\ (ref[o].key \in Slots <=> means[o].key # nil)
  BY <1>2, NoSlot DEF Denoted, Key, Value, RawGetI
<1>4. ref[o].kind \in {"ref", "proxy"} => means[o].value = nil
  BY <1>1, <1>2, NoSlot DEF Shape, Denoted
<1> QED BY <1>1, <1>3, <1>4 DEF Meanings

\* What is borrowed is a table, and its lender another object.
LEMMA Loaned ==
  ASSUME RefInv, NEW o \in References, Borrows(ref[o])
  PROVE  /\ TableOf(o) \in LuaTables
         /\ \E p \in References \ {o} : Lender(p, ref[o].table)
<1>1. PICK p \in References : Lender(p, ref[o].table)
  BY DEF RefInv, ObjInv
<1>2. p # o
  BY <1>1 DEF Lender, Borrows
<1>3. Key(p) = means[p].key
  BY <1>1, Shows DEF Lender
<1>4. TableOf(o) = Key(p)
  BY <1>1 DEF Lender, TableOf, Key
<1> QED BY <1>1, <1>2, <1>3, <1>4 DEF Lender

\* The LuaRef of a table lends its slot.
LEMMA TableLender ==
  ASSUME RefInv, NEW p \in References, IsTable(p)
  PROVE  Lender(p, ref[p].key) /\ Key(p) \in LuaTables /\ ref[p].L
<1>1. ref[p] \in ObjSet /\ ref[p].kind = "ref" /\ Type(p) \in LuaTables
  BY DEF IsTable, RefInv, TypeInv
<1>2. ref[p].key \in Slots /\ Key(p) \in LuaTables
  BY <1>1, NoSlot DEF Type, ObjSet, Refs
<1>3. ref[p].L
  BY <1>1, <1>2, NoSlot DEF RefInv, ObjInv, Shape
<1>4. Key(p) = means[p].key
  BY <1>3, Shows
<1> QED BY <1>1, <1>2, <1>3, <1>4 DEF Lender
\* An object that is born has nothing to give back.
LEMMA Unborn ==
  ASSUME RefInv, NEW o \in References, ref[o] = Dead
  PROVE  Freed(o) = registry /\ ~ref[o].L /\ ref[o].kind = "dead"
BY FreedIs DEF Dead

\* The step of an object that comes into being with one reference.
LEMMA BornWithOne ==
  ASSUME RefInv, NEW o \in References, Room,
         NEW STATE x, NEW STATE m, m \in Meanings, Become(o, x, m),
         Ref(registry, m.key) \in Refs => x \in ObjSet,
         x.kind \in {"ref", "proxy"}, x.L,
         x.key = Ref(registry, m.key), x.value = NOREF, m.value = nil,
         x.kind = "proxy" =>
           m.key \in KeySet \cup {nil} /\ \E p \in References \ {o} : Lender(p, x.table),
         registry' = With(registry, m.key), LuaUnchanged
  PROVE  RefInv' /\ Still(o)
<1>1. Freed(o) = registry /\ ~ref[o].L /\ ref[o].kind = "dead"
  BY Unborn DEF Become
<1>2. Takes(Freed(o), x.key, m.key, registry')
  <2>1. \E s, u \in Slots : s # u /\ registry[s] = free /\ registry[u] = free
    BY TwoFree DEF Room, FreeIn
  <2> QED BY <1>1, <2>1, RefTakes
<1>3. Takes(registry', x.value, m.value, registry')
  BY NoSlot DEF Takes
<1>4. x.key \in Refs
  BY <1>2 DEF Takes, Refs
<1>5. Fits(o, x, m)
  BY <1>4 DEF Shape, Fits
<1>6. Becomes(o, x, m)
  BY <1>1 DEF Become, LuaUnchanged, Becomes
<1>7. Gets(o, m.key, x.key, m.value, x.value)
  BY <1>2, <1>3 DEF Gets
<1> QED BY <1>5, <1>6, <1>7, Renew

LEMMA PopStep ==
  ASSUME RefInv, NEW o \in References, NEW v \in Lua, PopFromStack(o, v)
  PROVE  RefInv' /\ Still(o)
<1> DEFINE x == Holding(v)
           m == [key |-> v, value |-> nil]
<1>1. m \in Meanings /\ m.key = v /\ m.value = nil
  BY NoSlot DEF Meanings
<1>2. /\ x.kind = "ref" /\ x.L /\ x.key = Ref(registry, v) /\ x.value = NOREF
      /\ Ref(registry, v) \in Refs => x \in ObjSet
  BY DEF Holding, ObjSet, Refs
<1>3. Become(o, x, m) /\ Room /\ registry' = With(registry, v) /\ LuaUnchanged
  BY DEF PopFromStack
<1> HIDE DEF x, m
<1> QED BY <1>1, <1>2, <1>3, BornWithOne

\* The step of an object that comes into being without a slot.
LEMMA BornWithNone ==
  ASSUME RefInv, NEW o \in References, NEW STATE x, x \in ObjSet, NEW STATE m, m \in Meanings,
         Become(o, x, m), Shape(x), UNCHANGED registry, LuaUnchanged,
         x.L => /\ x.key \in {NOREF, REFNIL} /\ x.value \in {NOREF, REFNIL}
                /\ m.key = nil /\ m.value = nil,
         Borrows(x) => \E p \in References \ {o} : Lender(p, x.table)
  PROVE  RefInv' /\ Still(o)
<1>1. Own(o) = {} /\ ref[o].kind = "dead"
  BY Unborn DEF Become, Own
<1>2. x.L => Owned(x) = {}
  BY NoSlot DEF Owned
<1>3. x.L => Sound(registry', x, m)
  BY NoSlot DEF Sound, Denoted
<1>4. /\ ref' = [ref EXCEPT ![o] = x] /\ means' = [means EXCEPT ![o] = m]
      /\ UNCHANGED <<tables, meta>>
  BY DEF Become, LuaUnchanged
<1>5. \A p \in References \ {o} : \A s \in Own(p) :
        registry'[s] = registry[s] /\ ~(x.L /\ s \in Owned(x))
  BY <1>2
<1>6. \A s \in Slots : registry'[s] # free =>
        (x.L /\ s \in Owned(x)) \/ \E p \in References \ {o} : s \in Own(p)
  BY <1>1 DEF RefInv, OwnInv
<1>7. registry' \in [Slots -> Lua \cup {free}]
  BY DEF RefInv, TypeInv
<1>8. ref[o].kind = "ref" => ~Lent(ref[o].key)
  BY <1>1
<1> QED BY <1>3, <1>4, <1>5, <1>6, <1>7, <1>8, Replace

LEMMA NilsType == Nils \in Meanings /\ Nils.key = nil /\ Nils.value = nil
BY NoSlot DEF Nils, Meanings

LEMMA EmptyStep ==
  ASSUME RefInv, NEW o \in References, Empty(o) \/ LuaRefNil(o) \/ EmptyIter(o)
  PROVE  RefInv' /\ Still(o)
<1> DEFINE a == [Dead EXCEPT !.kind = "ref"]
           b == [Dead EXCEPT !.kind = "ref", !.L = TRUE, !.key = REFNIL]
           c == [Dead EXCEPT !.kind = "iter"]
<1>1. a \in ObjSet /\ Shape(a) /\ ~a.L
  BY DEF Dead, ObjSet, Refs, Shape
<1>2. b \in ObjSet /\ Shape(b) /\ b.kind = "ref" /\ b.key = REFNIL /\ b.value = NOREF
  BY DEF Dead, ObjSet, Refs, Shape
<1>3. c \in ObjSet /\ Shape(c) /\ ~c.L
  BY DEF Dead, ObjSet, Refs, Shape
<1>4. PICK x \in {a, b, c} : Become(o, x, Nils)
  BY DEF Empty, LuaRefNil, EmptyIter
<1>5. UNCHANGED registry /\ LuaUnchanged
  BY DEF Empty, LuaRefNil, EmptyIter
<1> HIDE DEF a, b, c
<1>6. CASE x = a
  BY <1>1, <1>4, <1>5, <1>6, NilsType, BornWithNone DEF Borrows
<1>7. CASE x = b
  BY <1>2, <1>4, <1>5, <1>7, NilsType, BornWithNone DEF Borrows
<1>8. CASE x = c
  BY <1>3, <1>4, <1>5, <1>8, NilsType, BornWithNone DEF Borrows
<1> QED BY <1>4, <1>6, <1>7, <1>8

LEMMA IterEndType ==
  ASSUME NEW r \in Refs
  PROVE  IterEnd(r) \in ObjSet /\ Shape(IterEnd(r)) /\ IterEnd(r).L
         /\ IterEnd(r).kind = "iter" /\ IterEnd(r).table = r
         /\ IterEnd(r).key = NOREF /\ IterEnd(r).value = NOREF
BY DEF IterEnd, ObjSet, Refs, Shape

LEMMA EndStep ==
  ASSUME RefInv, NEW o \in References, NEW p \in References, End(o, p)
  PROVE  RefInv' /\ Still(o)
<1>1. Lender(p, ref[p].key) /\ ref[p].key \in Refs /\ ref[p].kind = "ref"
  BY TableLender DEF End, RefInv, TypeInv, ObjSet, Lender
<1>2. ref[o].kind = "dead"
  BY Unborn DEF End, Become
<1>3. IterEnd(ref[p].key) \in ObjSet /\ Shape(IterEnd(ref[p].key))
      /\ IterEnd(ref[p].key).key = NOREF /\ IterEnd(ref[p].key).value = NOREF
      /\ IterEnd(ref[p].key).table = ref[p].key
  BY <1>1, IterEndType
<1>4. \E q \in References \ {o} : Lender(q, IterEnd(ref[p].key).table)
  BY <1>1, <1>2, <1>3
<1>5. Become(o, IterEnd(ref[p].key), Nils) /\ UNCHANGED registry /\ LuaUnchanged
  BY DEF End
<1> QED BY <1>3, <1>4, <1>5, NilsType, BornWithNone
LEMMA FieldType ==
  ASSUME TypeInv, NEW STATE t, t \in LuaTables, NEW STATE k, k \in KeySet
  PROVE  tables[t][k] \in Lua /\ GetTable(t, k) \in Lua /\ meta[t] \in Lua
<1>1. meta[t] \in DOMAIN Metatables \cup {nil}
  BY DEF TypeInv
<1>2. \A u \in LuaTables : tables[u][k] \in Lua
  BY DEF TypeInv
<1>3. CASE meta[t] = nil
  BY <1>1, <1>2, <1>3, NoSlot DEF GetTable
<1>4. CASE meta[t] \in LuaTables
  BY <1>1, <1>2, <1>4, NoSlot DEF GetTable
<1> QED BY <1>1, <1>3, <1>4, NoSlot

\* A proxy that can be used is a field of a table.
LEMMA UsableProxy ==
  ASSUME RefInv, NEW p \in References, Usable(p)
  PROVE  TableOf(p) \in LuaTables /\ Key(p) \in KeySet
<1>1. Shape(ref[p]) /\ ref[p].kind = "proxy" /\ ref[p].L
  BY DEF RefInv, ObjInv, Shape, Usable
<1>2. TableOf(p) \in LuaTables
  BY <1>1, Loaned DEF Borrows
<1>3. Key(p) = means[p].key /\ means[p].key \in KeySet \cup {nil}
  BY <1>1, Shows DEF RefInv, ObjInv, Sound
<1> QED BY <1>2, <1>3 DEF Usable

\* The LuaRefs of values, of fields, of a proxy's and an iterator's.
LEMMA RefStep ==
  ASSUME RefInv, NEW o \in References,
         \/ \E v \in Values \cup DOMAIN Metatables : Create(o, v) \/ LuaRefAt(o, v)
         \/ \E p \in References :
              \/ LuaRefOf(o, p) \/ GetMetaTable(o, p) \/ KeyOf(o, p) \/ ValueOf(o, p)
              \/ \E k \in KeySet : GetRaw(o, p, k) \/ Get(o, p, k)
  PROVE  RefInv' /\ Still(o)
<1>1. TypeInv
  BY DEF RefInv
<1>2. ASSUME NEW v \in Values \cup DOMAIN Metatables, Create(o, v) \/ LuaRefAt(o, v)
      PROVE  RefInv' /\ Still(o)
  <2>1. v \in Lua
    BY <1>2, NoSlot
  <2> QED BY <1>2, <2>1, PopStep DEF Create, LuaRefAt
<1>3. ASSUME NEW p \in References, LuaRefOf(o, p)
      PROVE  RefInv' /\ Still(o)
  <2> DEFINE v == GetTable(TableOf(p), Key(p))
  <2>1. PopFromStack(o, v) /\ TableOf(p) \in LuaTables /\ Key(p) \in KeySet
    BY <1>3, UsableProxy DEF LuaRefOf
  <2>2. v \in Lua
    BY <1>1, <2>1, FieldType
  <2> HIDE DEF v
  <2> QED BY <2>1, <2>2, PopStep
<1>4. ASSUME NEW p \in References, NEW k \in KeySet, GetRaw(o, p, k) \/ Get(o, p, k)
      PROVE  RefInv' /\ Still(o)
  <2>1. Key(p) \in LuaTables
    BY <1>4, TableLender DEF GetRaw, Get
  <2>2. \A t \in LuaTables : tables[t][k] \in Lua
    BY <1>1 DEF TypeInv
  <2>3. GetTable(Key(p), k) \in Lua
    BY <1>1, <2>1, FieldType
  <2>4. PICK v \in Lua : PopFromStack(o, v)
    BY <1>4, <2>1, <2>2, <2>3 DEF GetRaw, Get
  <2> QED BY <2>4, PopStep
<1>5. ASSUME NEW p \in References, GetMetaTable(o, p)
      PROVE  RefInv' /\ Still(o)
  <2>1. Key(p) \in LuaTables
    BY <1>5, TableLender DEF GetMetaTable
  <2>2. meta[Key(p)] \in Lua
    BY <1>1, <2>1, NoSlot DEF TypeInv
  <2>3. Empty(o) \/ \E v \in Lua : PopFromStack(o, v)
    BY <1>5, <2>2 DEF GetMetaTable
  <2> QED BY <2>3, EmptyStep, PopStep
<1>6. ASSUME NEW p \in References, KeyOf(o, p) \/ ValueOf(o, p)
      PROVE  RefInv' /\ Still(o)
  <2>1. Key(p) \in Lua /\ Value(p) \in Lua
    BY <1>6, Shows DEF KeyOf, ValueOf
  <2>2. \E v \in Lua : PopFromStack(o, v)
    BY <1>6, <2>1 DEF KeyOf, ValueOf
  <2> QED BY <2>2, PopStep
<1> QED BY <1>2, <1>3, <1>4, <1>5, <1>6

LEMMA IndexStep ==
  ASSUME RefInv, NEW o \in References, NEW p \in References, NEW k \in KeySet,
         Subscript(o, p, k)
  PROVE  RefInv' /\ Still(o)
<1> DEFINE m == [key |-> k, value |-> nil]
           t == ref[p].key
<1>1. Lender(p, t) /\ t \in Refs /\ ref[p].kind = "ref"
  BY TableLender DEF Subscript, RefInv, TypeInv, ObjSet, Lender
<1>2. ref[o].kind = "dead"
  BY Unborn DEF Subscript, Become
<1>3. \E q \in References \ {o} : Lender(q, t)
  BY <1>1, <1>2
<1>4. m \in Meanings /\ m.key = k /\ m.value = nil /\ k \in Lua
  BY NoSlot DEF Meanings
<1> DEFINE x == [Holding(k) EXCEPT !.kind = "proxy", !.table = t]
<1>5. /\ x.kind = "proxy" /\ x.L /\ x.table = t /\ x.value = NOREF
      /\ x.key = Ref(registry, k) /\ (Ref(registry, k) \in Refs => x \in ObjSet)
  BY <1>1 DEF Holding, ObjSet, Refs
<1>6. Become(o, x, m) /\ registry' = With(registry, k) /\ LuaUnchanged /\ Room
  BY DEF Subscript
<1> HIDE DEF m, t, x
<1> QED BY <1>1, <1>3, <1>4, <1>5, <1>6, BornWithOne

\* LuaRef(const LuaRef&), LuaTableRef(const LuaTableRef&)
LEMMA CopyStep ==
  ASSUME RefInv, NEW o \in References, NEW p \in References, Copy(o, p) \/ CopyProxy(o, p)
  PROVE  RefInv' /\ Still(o)
<1>1. /\ ref[p] \in ObjSet /\ means[p] \in Meanings /\ Shape(ref[p])
      /\ ref[p].kind \in {"ref", "proxy"} /\ ref[p].value = NOREF
      /\ Become(o, Copied(p), means[p]) /\ Room /\ LuaUnchanged
  BY DEF Copy, CopyProxy, RefInv, TypeInv, ObjInv, Shape
<1>2. CASE ref[p].L
  <2>1. Copied(p) = [ref[p] EXCEPT !.key = Ref(registry, Key(p))]
    BY <1>2 DEF Copied
  <2>2. /\ Key(p) \in Lua /\ means[p].key = Key(p) /\ means[p].value = nil
        /\ registry' = With(registry, Key(p))
    BY <1>1, <1>2, Shows DEF Copy, CopyProxy
  <2>3. ASSUME ref[p].kind = "proxy"
        PROVE  /\ Key(p) \in KeySet \cup {nil}
               /\ \E q \in References \ {o} : Lender(q, ref[p].table)
    <3>1. \E q \in References : Lender(q, ref[p].table)
      BY <1>2, <2>3, Loaned DEF Borrows
    <3>2. ref[o].kind = "dead"
      BY <1>1, Unborn DEF Become
    <3>3. means[p].key \in KeySet \cup {nil}
      BY <1>2, <2>3 DEF RefInv, ObjInv, Sound
    <3> QED BY <2>2, <3>1, <3>2, <3>3 DEF Lender
  <2> DEFINE x == Copied(p)
  <2>4. /\ Ref(registry, Key(p)) \in Refs => x \in ObjSet
        /\ x.kind = ref[p].kind /\ x.table = ref[p].table /\ x.L
        /\ x.key = Ref(registry, Key(p)) /\ x.value = NOREF
    BY <1>1, <1>2, <2>1 DEF ObjSet
  <2> HIDE DEF x
  <2> QED BY <1>1, <2>2, <2>3, <2>4, BornWithOne DEF x
<1>3. CASE ~ref[p].L
  <2>1. Copied(p) = ref[p]
    BY <1>1, <1>3 DEF Copied, Shape, ObjSet
  <2>2. UNCHANGED registry
    BY <1>1, <1>3 DEF Copy, CopyProxy, Shape
  <2> QED BY <1>1, <1>3, <2>1, <2>2, BornWithNone DEF Borrows
<1> QED BY <1>2, <1>3
\* Two objects trade what they are, or the first, which was not, becomes what
\* the second was, and that is left without its slot.
LEMMA Trade ==
  ASSUME RefInv, NEW o \in References, NEW p \in References, o # p,
         NEW STATE x, x \in ObjSet, NEW STATE m, m \in Meanings,
         ref' = [ref EXCEPT ![o] = ref[p], ![p] = x],
         means' = [means EXCEPT ![o] = means[p], ![p] = m],
         UNCHANGED registry, LuaUnchanged,
         Shape(x), x.L => Sound(registry, x, m),
         (IF x.L THEN Owned(x) ELSE {}) = Own(o),
         ref[o].kind = "ref" => x = ref[o] /\ m = means[o],
         Borrows(x) =>
           \E i \in References : Borrows(ref[i]) /\ ref[i].table = x.table
  PROVE  RefInv'
<1>0. /\ ref \in [References -> ObjSet] /\ means \in [References -> Meanings]
      /\ ref' \in [References -> ObjSet] /\ means' \in [References -> Meanings]
      /\ ref'[o] = ref[p] /\ means'[o] = means[p] /\ ref'[p] = x /\ means'[p] = m
      /\ \A q \in References \ {o, p} : ref'[q] = ref[q] /\ means'[q] = means[q]
      /\ registry' = registry
  BY DEF RefInv, TypeInv
<1>1. TypeInv'
  BY <1>0 DEF RefInv, TypeInv, LuaUnchanged
<1>2. ASSUME NEW q \in References, NEW r, Lender(q, r)
      PROVE  \E i \in References : Lender(i, r)'
  <2>1. CASE q = p
    <3>1. Lender(o, r)'
      BY <1>0, <1>2, <2>1 DEF Lender
    <3> QED BY <3>1
  <2>2. CASE q = o
    <3>1. Lender(p, r)'
      BY <1>0, <1>2, <2>2 DEF Lender
    <3> QED BY <3>1
  <2>3. CASE q \notin {o, p}
    <3>1. Lender(q, r)'
      BY <1>0, <1>2, <2>3 DEF Lender
    <3> QED BY <3>1
  <2> QED BY <2>1, <2>2, <2>3
<1>3. Own(o)' = Own(p) /\ Own(p)' = Own(o)
      /\ \A q \in References \ {o, p} : Own(q)' = Own(q)
  BY <1>0 DEF Own
<1>4. OwnInv'
  <2>1. ASSUME NEW s \in Slots, registry'[s] # free
        PROVE  \E q \in References : s \in Own(q)'
    <3>1. PICK q \in References : s \in Own(q)
      BY <1>0, <2>1 DEF RefInv, OwnInv
    <3>2. CASE q = o
      BY <1>3, <3>1, <3>2
    <3>3. CASE q = p
      BY <1>3, <3>1, <3>3
    <3>4. CASE q \notin {o, p}
      BY <1>3, <3>1, <3>4
    <3> QED BY <3>2, <3>3, <3>4
  <2>2. ASSUME NEW a \in References, NEW b \in References, a # b
        PROVE  Own(a)' \cap Own(b)' = {}
    <3>1. \A i, j \in References : i # j => Own(i) \cap Own(j) = {}
      BY DEF RefInv, OwnInv
    <3>2. CASE a \in {o, p}
      BY <1>3, <2>2, <3>1, <3>2
    <3>3. CASE a \notin {o, p}
      BY <1>3, <2>2, <3>1, <3>3
    <3> QED BY <3>2, <3>3
  <2> QED BY <2>1, <2>2 DEF OwnInv
<1>5. ASSUME NEW q \in References
      PROVE  /\ Shape(ref'[q])
             /\ ref'[q].L => Sound(registry', ref'[q], means'[q])
             /\ \A r : Borrows(ref'[q]) /\ ref'[q].table = r =>
                  \E i \in References : Lender(i, r)'
  <2>1. CASE q = p
    <3>1. Borrows(x) => \E i \in References : Lender(i, x.table)
      BY DEF RefInv, ObjInv
    <3> QED BY <1>0, <1>2, <2>1, <3>1
  <2>2. CASE q = o
    <3>1. /\ Shape(ref[p]) /\ (ref[p].L => Sound(registry, ref[p], means[p]))
          /\ Borrows(ref[p]) => \E i \in References : Lender(i, ref[p].table)
      BY DEF RefInv, ObjInv
    <3> QED BY <1>0, <1>2, <2>2, <3>1
  <2>3. CASE q \notin {o, p}
    <3>1. /\ Shape(ref[q]) /\ (ref[q].L => Sound(registry, ref[q], means[q]))
          /\ Borrows(ref[q]) => \E i \in References : Lender(i, ref[q].table)
      BY DEF RefInv, ObjInv
    <3>2. ref'[q] = ref[q] /\ means'[q] = means[q]
      BY <1>0, <2>3
    <3> QED BY <1>0, <1>2, <3>1, <3>2
  <2> QED BY <2>1, <2>2, <2>3
<1>6. ObjInv'
  <2>1. ASSUME NEW q \in References, Borrows(ref'[q])
        PROVE  \E i \in References : Lender(i, ref[q].table)'
    <3>1. PICK r : r = ref'[q].table
      OBVIOUS
    <3>2. PICK i \in References : Lender(i, r)'
      BY <1>5, <2>1, <3>1
    <3> QED BY <3>1, <3>2 DEF Lender
  <2> QED BY <1>5, <2>1 DEF ObjInv
<1> QED BY <1>1, <1>4, <1>6 DEF RefInv

LEMMA MoveStep ==
  ASSUME RefInv, NEW o \in References, NEW p \in References, Move(o, p)
  PROVE  RefInv'
<1> DEFINE x == [ref[p] EXCEPT !.key = NOREF]
<1>1. /\ ref[p] \in ObjSet /\ Shape(ref[p]) /\ ref[p].kind \in {"ref", "proxy"}
      /\ ref[p].L => Sound(registry, ref[p], means[p])
      /\ ref[p].value = NOREF /\ ref[o] = Dead /\ o # p
  BY DEF Move, RefInv, TypeInv, ObjInv, Shape, Dead
<1>2. /\ x \in ObjSet /\ x.kind = ref[p].kind /\ x.L = ref[p].L
      /\ x.table = ref[p].table /\ x.key = NOREF /\ x.value = NOREF
  BY <1>1 DEF ObjSet, Refs
<1>3. Shape(x) /\ Owned(x) = {} /\ Own(o) = {} /\ ref[o].kind # "ref"
  BY <1>1, <1>2, NoSlot DEF Shape, Owned, Own, Dead
<1>4. x.L => Sound(registry, x, Nils)
  BY <1>1, <1>2, NilsType, NoSlot DEF Sound, Denoted
<1>5. Borrows(x) => Borrows(ref[p]) /\ ref[p].table = x.table
  BY <1>2 DEF Borrows
<1>6. ref' = [ref EXCEPT ![o] = ref[p], ![p] = x]
  BY <1>1 DEF Move, RefInv, TypeInv
<1>7. means' = [means EXCEPT ![o] = means[p], ![p] = Nils]
      /\ UNCHANGED registry /\ LuaUnchanged
  BY DEF Move
<1> HIDE DEF x
<1> QED BY <1>1, <1>2, <1>3, <1>4, <1>5, <1>6, <1>7, NilsType, Trade

LEMMA AssignMoveStep ==
  ASSUME RefInv, NEW o \in References, NEW p \in References, AssignMove(o, p)
  PROVE  RefInv'
<1>1. /\ ref[o] \in ObjSet /\ Shape(ref[o]) /\ means[o] \in Meanings
      /\ ref[o].L => Sound(registry, ref[o], means[o])
      /\ Borrows(ref[o]) => \E i \in References : Borrows(ref[i]) /\ ref[i].table = ref[o].table
  BY DEF RefInv, TypeInv, ObjInv
<1>2. CASE o # p
  <2>1. /\ ref' = [ref EXCEPT ![o] = ref[p], ![p] = ref[o]]
        /\ means' = [means EXCEPT ![o] = means[p], ![p] = means[o]]
        /\ UNCHANGED registry /\ LuaUnchanged
    BY DEF AssignMove
  <2>2. (IF ref[o].L THEN Owned(ref[o]) ELSE {}) = Own(o)
    BY DEF Own
  <2> QED BY <1>1, <1>2, <2>1, <2>2, Trade
<1>3. CASE o = p
  <2>1. ref' = ref /\ means' = means /\ UNCHANGED <<registry, tables, meta>>
    BY <1>3 DEF AssignMove, RefInv, TypeInv, LuaUnchanged
  <2> QED BY <2>1 DEF RefInv, TypeInv, ObjInv, OwnInv, Own, Lender
<1> QED BY <1>2, <1>3

\* A field or a metatable changes; the objects do not.
LEMMA LuaStep ==
  ASSUME RefInv, UNCHANGED <<registry, ref, means>>,
         tables' \in [LuaTables -> [KeySet -> Lua]],
         meta' \in [LuaTables -> DOMAIN Metatables \cup {nil}]
  PROVE  RefInv'
BY DEF RefInv, TypeInv, ObjInv, OwnInv, Own, Lender

LEMMA StoreStep ==
  ASSUME RefInv, NEW o \in References,
         \/ \E v \in Values : AssignValue(o, v) \/ \E k \in KeySet : Set(o, k, v)
         \/ \E p \in References : AssignProxy(o, p)
  PROVE  \E t \in LuaTables, k \in KeySet, v \in Lua : Store(t, k, v)
<1>1. CASE \E v \in Values : AssignValue(o, v)
  BY <1>1, UsableProxy, NoSlot DEF AssignValue
<1>2. CASE \E v \in Values, k \in KeySet : Set(o, k, v)
  BY <1>2, TableLender, NoSlot DEF Set
<1>3. ASSUME NEW p \in References, AssignProxy(o, p)
      PROVE  \E t \in LuaTables, k \in KeySet, v \in Lua : Store(t, k, v)
  <2>1. /\ TableOf(o) \in LuaTables /\ Key(o) \in KeySet
        /\ TableOf(p) \in LuaTables /\ Key(p) \in KeySet
    BY <1>3, UsableProxy DEF AssignProxy
  <2>2. GetTable(TableOf(p), Key(p)) \in Lua
    BY <2>1, FieldType DEF RefInv
  <2> QED BY <1>3, <2>1, <2>2 DEF AssignProxy
<1> QED BY <1>1, <1>2, <1>3

LEMMA StoreKeeps ==
  ASSUME RefInv, NEW t \in LuaTables, NEW k \in KeySet, NEW v \in Lua, Store(t, k, v)
  PROVE  RefInv'
<1>1. tables' \in [LuaTables -> [KeySet -> Lua]]
  BY DEF Store, RefInv, TypeInv
<1>2. meta' \in [LuaTables -> DOMAIN Metatables \cup {nil}]
  BY DEF Store, RefInv, TypeInv
<1> QED BY <1>1, <1>2, LuaStep DEF Store

LEMMA SetMetaTableStep ==
  ASSUME RefInv, NEW o \in References, NEW p \in References, SetMetaTable(o, p)
  PROVE  RefInv'
<1>1. meta' \in [LuaTables -> DOMAIN Metatables \cup {nil}]
  BY DEF SetMetaTable, RefInv, TypeInv
<1>2. tables' \in [LuaTables -> [KeySet -> Lua]]
  BY DEF SetMetaTable, RefInv, TypeInv
<1> QED BY <1>1, <1>2, LuaStep DEF SetMetaTable
LEMMA DestroyStep ==
  ASSUME RefInv, NEW o \in References, Destroy(o)
  PROVE  RefInv' /\ Still(o)
<1>1. registry' = Freed(o)
  BY FreedIs DEF Destroy
<1>2. Dead \in ObjSet /\ Shape(Dead) /\ ~Dead.L
  BY DEF Dead, ObjSet, Refs, Shape
<1>3. Becomes(o, Dead, Nils)
  BY DEF Destroy, Becomes, LuaUnchanged
<1> QED BY <1>1, <1>2, <1>3, NilsType, Retire

LEMMA AssignNilStep ==
  ASSUME RefInv, NEW o \in References, AssignNil(o)
  PROVE  RefInv' /\ Still(o)
<1> DEFINE x == [ref[o] EXCEPT !.key = REFNIL]
<1>1. /\ ref[o] \in ObjSet /\ Shape(ref[o]) /\ ref[o].kind = "ref" /\ ref[o].L
      /\ ref[o].value = NOREF
  BY DEF AssignNil, RefInv, TypeInv, ObjInv, Shape
<1>2. /\ x \in ObjSet /\ x.kind = "ref" /\ x.L /\ x.key = REFNIL /\ x.value = NOREF
  BY <1>1 DEF ObjSet, Refs
<1>3. Fits(o, x, Nils)
  BY <1>2, NilsType DEF Fits, Shape
<1>4. registry' = Freed(o)
  BY <1>1, FreedIs DEF AssignNil
<1>5. Gets(o, Nils.key, x.key, Nils.value, x.value)
  BY <1>2, <1>4, NilsType DEF Gets, Takes
<1>6. Becomes(o, x, Nils)
  BY DEF AssignNil, Becomes, LuaUnchanged
<1> HIDE DEF x
<1> QED BY <1>3, <1>5, <1>6, Renew

\* The registry without o's slots shows the same of the others.
LEMMA FreedShows ==
  ASSUME RefInv, NEW o \in References, NEW p \in References \ {o}, ref[p].L
  PROVE  RawGetI(Freed(o), ref[p].key) = Key(p)
<1>1. ref[p].key \in Slots => ref[p].key \in Own(p)
  BY DEF Own, Owned
<1>2. Own(o) \cap Own(p) = {}
  BY DEF RefInv, OwnInv
<1> QED BY <1>1, <1>2 DEF RawGetI, Freed, Key

LEMMA AssignStep ==
  ASSUME RefInv, NEW o \in References, NEW p \in References, AssignRef(o, p)
  PROVE  RefInv' /\ Still(o)
<1>1. /\ ref[o] \in ObjSet /\ Shape(ref[o]) /\ ref[o].kind = "ref" /\ ref[o].value = NOREF
      /\ ref[p] \in ObjSet /\ ref[p].kind = "ref" /\ p \in References \ {o}
      /\ means[p] \in Meanings /\ ref[p].L \in BOOLEAN
  BY DEF AssignRef, RefInv, TypeInv, ObjInv, Shape, ObjSet
<1>2. (IF ref[o].L THEN Unref(registry, ref[o].key) ELSE registry) = Freed(o)
  BY <1>1, FreedIs
<1> DEFINE v == RawGetI(Freed(o), ref[p].key)
           x == [ref[o] EXCEPT !.L = ref[p].L,
                               !.key = IF ref[p].L THEN Ref(Freed(o), v) ELSE NOREF]
<1>3. /\ v # nil => \E s \in Slots : Freed(o)[s] = free
      /\ registry' = IF ref[p].L THEN With(Freed(o), v) ELSE Freed(o)
      /\ ref' = [ref EXCEPT ![o].L = ref[p].L,
                            ![o].key = IF ref[p].L THEN Ref(Freed(o), v) ELSE NOREF]
      /\ means' = [means EXCEPT ![o] = means[p]] /\ LuaUnchanged /\ ~Lent(ref[o].key)
  BY <1>2 DEF AssignRef
<1>4. ref' = [ref EXCEPT ![o] = x]
  BY <1>1, <1>3 DEF RefInv, TypeInv
<1>5. Becomes(o, x, means[p])
  BY <1>3, <1>4 DEF Becomes, LuaUnchanged
<1>6. CASE ref[p].L
  <2>1. /\ v = means[p].key /\ means[p].value = nil
    BY <1>1, <1>6, FreedShows, Shows
  <2>2. Takes(Freed(o), Ref(Freed(o), v), v, registry')
    BY <1>3, <1>6, RefTakes
  <2>3. Ref(Freed(o), v) \in Refs
    BY <2>2 DEF Takes, Refs
  <2>4. /\ x \in ObjSet /\ x.kind = "ref" /\ x.L /\ x.key = Ref(Freed(o), v)
        /\ x.value = NOREF
    BY <1>1, <1>6, <2>3 DEF ObjSet
  <2> HIDE DEF v, x
  <2>5. Fits(o, x, means[p])
    BY <1>1, <2>4 DEF Fits, Shape
  <2>6. Takes(registry', NOREF, nil, registry')
    BY DEF Takes
  <2>7. Gets(o, means[p].key, x.key, means[p].value, x.value)
    BY <2>1, <2>2, <2>4, <2>6 DEF Gets
  <2> QED BY <1>5, <2>5, <2>7, Renew
<1>7. CASE ~ref[p].L
  <2>1. /\ x \in ObjSet /\ x.kind = "ref" /\ ~x.L /\ x.key = NOREF /\ x.value = NOREF
    BY <1>1, <1>7 DEF ObjSet, Refs
  <2>2. Shape(x) /\ registry' = Freed(o)
    BY <1>3, <1>7, <2>1 DEF Shape
  <2> HIDE DEF x
  <2> QED BY <1>1, <1>5, <2>1, <2>2, Retire
<1> QED BY <1>6, <1>7
-------------------------------------------------------------------------------
(* Iterators *)

LEMMA Minimum ==
  ASSUME NEW S \in SUBSET Nat, S # {}
  PROVE  \E i \in S : \A j \in S : i <= j
<1> DEFINE R == OpToRel(<, Nat)
<1>1. IsWellFoundedOn(R, Nat)
  BY NatLessThanWellFounded
<1>2. \A i, j \in Nat : i < j => <<i, j>> \in R
  BY DEF OpToRel
<1>3. \E i \in S : \A j \in S : ~(<<j, i>> \in R)
  <2> HIDE DEF R
  <2> QED BY <1>1, WFMin
<1>4. \E i \in S : \A j \in S : ~(j < i)
  BY <1>2, <1>3
<1> QED BY <1>4

\* The places behind k of the fields that are there
Behind(t, k) ==
  {i \in DOMAIN Keys : tables[t][Keys[i]] # nil
                         /\ \A j \in DOMAIN Keys : Keys[j] = k => j < i}

\* d is at the first of them, or nil.
IsNext(t, k, d) ==
  \/ d = nil /\ Behind(t, k) = {}
  \/ /\ d \in KeySet /\ tables[t][d] # nil
     /\ \E i \in Behind(t, k) : d = Keys[i] /\ \A j \in Behind(t, k) : i <= j

LEMMA LuaNextIs ==
  ASSUME NEW STATE t, NEW STATE k
  PROVE  IsNext(t, k, LuaNext(t, k))
<1>1. CASE Behind(t, k) = {}
  BY <1>1 DEF LuaNext, Behind, IsNext
<1>2. CASE Behind(t, k) # {}
  <2>1. Behind(t, k) \in SUBSET Nat
    BY LuaAssumption DEF Behind
  <2>2. \E i \in Behind(t, k) : \A j \in Behind(t, k) : i <= j
    BY <1>2, <2>1, Minimum
  <2> DEFINE i == CHOOSE i \in Behind(t, k) : \A j \in Behind(t, k) : i <= j
  <2>3. i \in Behind(t, k) /\ \A j \in Behind(t, k) : i <= j
    BY <2>2
  <2>4. LuaNext(t, k) = Keys[i]
    BY <1>2 DEF LuaNext, Behind
  <2> HIDE DEF i
  <2>5. Keys[i] \in KeySet /\ tables[t][Keys[i]] # nil
    BY <2>3 DEF Behind, KeySet
  <2> QED BY <2>3, <2>4, <2>5 DEF IsNext
<1> QED BY <1>1, <1>2

\* Where an iterator that goes on takes its value and key
LEMMA AdvanceStep ==
  ASSUME RefInv, NEW o \in References, NEW STATE x, x \in ObjSet, NEW STATE w,
         Advance(o, x, w), x.kind = "iter", x.L,
         \E p \in References \ {o} : Lender(p, x.table),
         RawGetI(registry, x.table) \in LuaTables,
         Unref(Unref(registry, x.key), x.value) = Freed(o),
         \E s, t \in Slots : s # t /\ Freed(o)[s] = free /\ Freed(o)[t] = free,
         ref[o].kind # "ref"
  PROVE  RefInv' /\ Still(o)
<1> DEFINE k == NextKey(x)
           t == RawGetI(registry, x.table)
           v == IF k = nil THEN nil ELSE tables[t][k]
           old == Freed(o)
           m == [key |-> k, value |-> v]
           y == [x EXCEPT !.value = Ref(old, v), !.key = Ref(With(old, v), k)]
<1>1. IsNext(t, RawGetI(registry, x.key), k)
  BY LuaNextIs DEF NextKey
<1>2. /\ registry' = With(With(old, v), k)
      /\ ref' = [ref EXCEPT ![o] = IF k = nil THEN IterEnd(x.table) ELSE y]
      /\ means' = [means EXCEPT ![o] = m] /\ LuaUnchanged
  BY DEF Advance
<1>3. old \in [Slots -> Lua \cup {free}]
  BY FreedIs
<1>4. t \in LuaTables
  OBVIOUS
<1>5. x.table \in Refs
  BY DEF ObjSet
<1> HIDE DEF k, t, old
<1>6. CASE k = nil
  <2>1. v = nil /\ registry' = old
    BY <1>2, <1>6 DEF With
  <2>2. m \in Meanings /\ m.key = nil /\ m.value = nil
    BY <1>6, <2>1, NoSlot DEF Meanings
  <2> HIDE DEF v, m
  <2> DEFINE e == IterEnd(x.table)
  <2>3. e \in ObjSet /\ Shape(e) /\ e.L /\ e.kind = "iter" /\ e.table = x.table
        /\ e.key = NOREF /\ e.value = NOREF
    BY <1>5, IterEndType
  <2> HIDE DEF e
  <2>4. Fits(o, e, m)
    BY <2>2, <2>3 DEF Fits
  <2>5. Becomes(o, e, m)
    BY <1>2, <1>6 DEF Becomes, LuaUnchanged, e
  <2>6. Gets(o, m.key, e.key, m.value, e.value)
    BY <2>1, <2>2, <2>3 DEF Gets, Takes, old
  <2> QED BY <2>4, <2>5, <2>6, Renew
<1>7. CASE k # nil
  <2>1. k \in KeySet /\ v = tables[t][k] /\ v # nil
    BY <1>1, <1>7 DEF IsNext
  <2>2. v \in Lua /\ k \in Lua
    BY <1>4, <2>1, NoSlot DEF RefInv, TypeInv
  <2>3. m \in Meanings /\ m.key = k /\ m.value = v
    BY <2>2 DEF Meanings
  <2> HIDE DEF v, m
  <2> DEFINE mid == With(old, v)
  <2>4. Takes(old, Ref(old, v), v, mid) /\ Takes(mid, Ref(mid, k), k, With(mid, k))
    BY <1>3, RefTakesTwo DEF old
  <2>5. Ref(old, v) \in Refs /\ Ref(mid, k) \in Refs
    BY <2>4 DEF Takes, Refs
  <2>6. /\ y \in ObjSet /\ y.kind = "iter" /\ y.L /\ y.table = x.table
        /\ y.value = Ref(old, v) /\ y.key = Ref(mid, k)
    BY <2>5 DEF ObjSet
  <2>7. Becomes(o, y, m)
    BY <1>2, <1>7 DEF Becomes, LuaUnchanged
  <2> HIDE DEF y, mid
  <2>8. Fits(o, y, m)
    BY <1>7, <2>1, <2>3, <2>6 DEF Fits, Shape
  <2>9. Gets(o, m.value, y.value, m.key, y.key)
    <3>1. registry' = With(mid, k)
      BY <1>2 DEF mid
    <3> QED BY <2>3, <2>4, <2>6, <3>1 DEF Gets, old
  <2> QED BY <2>7, <2>8, <2>9, Renew
<1> QED BY <1>6, <1>7
LEMMA BeginStep ==
  ASSUME RefInv, NEW o \in References, NEW p \in References, Begin(o, p)
  PROVE  RefInv' /\ Still(o)
<1> DEFINE x == IterEnd(ref[p].key)
           w == [seen |-> <<>>, todo |-> {k \in KeySet : tables[Key(p)][k] # nil}]
<1>1. IsTable(p) /\ Room /\ ref[o] = Dead /\ Advance(o, x, w)
  BY DEF Begin
<1>2. Freed(o) = registry /\ ref[o].kind = "dead"
  BY <1>1, Unborn
<1>3. Lender(p, ref[p].key) /\ Key(p) \in LuaTables /\ ref[p].kind = "ref" /\ ref[p].key \in Refs
  BY <1>1, TableLender DEF Lender, RefInv, TypeInv, ObjSet
<1>4. /\ x \in ObjSet /\ x.kind = "iter" /\ x.L /\ x.table = ref[p].key
      /\ x.key = NOREF /\ x.value = NOREF
  BY <1>3, IterEndType
<1> HIDE DEF x, w
<1>5. \E q \in References \ {o} : Lender(q, x.table)
  BY <1>2, <1>3, <1>4
<1>6. RawGetI(registry, x.table) \in LuaTables
  BY <1>3, <1>4 DEF Key
<1>7. Unref(Unref(registry, x.key), x.value) = Freed(o)
  BY <1>2, <1>4, NoSlot DEF Unref
<1>8. \E s, t \in Slots : s # t /\ Freed(o)[s] = free /\ Freed(o)[t] = free
  BY <1>1, <1>2, TwoFree DEF Room, FreeIn
<1> QED BY <1>1, <1>2, <1>4, <1>5, <1>6, <1>7, <1>8, AdvanceStep

LEMMA Next1Step ==
  ASSUME RefInv, NEW o \in References, Next1(o)
  PROVE  RefInv' /\ Still(o)
<1>1. /\ ref[o] \in ObjSet /\ ref[o].kind = "iter" /\ ref[o].L
      /\ means[o].key # nil /\ Advance(o, ref[o], walk[o])
  BY DEF Next1, RefInv, TypeInv
<1>2. /\ TableOf(o) \in LuaTables
      /\ \E p \in References \ {o} : Lender(p, ref[o].table)
  BY <1>1, Loaned DEF Borrows
<1>3. Unref(Unref(registry, ref[o].key), ref[o].value) = Freed(o)
  BY <1>1, FreedIs
<1>4. \E s, t \in Slots : s # t /\ Freed(o)[s] = free /\ Freed(o)[t] = free
  <2>1. Sound(registry, ref[o], means[o])
    BY <1>1 DEF RefInv, ObjInv
  <2>2. ref[o].key \in Slots /\ ref[o].value \in Slots /\ ref[o].key # ref[o].value
    BY <1>1, <2>1 DEF Sound, Denoted
  <2>3. ref[o].key \in Own(o) /\ ref[o].value \in Own(o)
    BY <1>1, <2>2 DEF Own, Owned
  <2> QED BY <2>2, <2>3 DEF Freed
<1>5. RawGetI(registry, ref[o].table) \in LuaTables
  BY <1>2 DEF TableOf
<1> QED BY <1>1, <1>2, <1>3, <1>4, <1>5, AdvanceStep

\* A copy of the iterator p, taken when o has given its slots back
LEMMA CopiedIter ==
  ASSUME RefInv, NEW o \in References, NEW p \in References, o # p,
         ref[p].kind = "iter", ref[o].kind \in {"dead", "iter"},
         ref[p].L => Cardinality(FreeIn(Freed(o))) >= 2,
         registry' = WithIter(Freed(o), p), LuaUnchanged,
         ref' = [ref EXCEPT ![o] = CopyOfIter(Freed(o), p)],
         means' = [means EXCEPT ![o] = means[p]]
  PROVE  RefInv' /\ Still(o)
<1> DEFINE old == Freed(o)
           x == CopyOfIter(old, p)
           m == means[p]
<1>1. /\ ref[p] \in ObjSet /\ m \in Meanings
  BY DEF RefInv, TypeInv
<1>2. old \in [Slots -> Lua \cup {free}]
  BY FreedIs
<1>3. Becomes(o, x, m)
  BY DEF Becomes, LuaUnchanged
<1>4. registry' = IF ref[p].L THEN With(With(old, Key(p)), Value(p)) ELSE old
  BY DEF WithIter
<1>5. CASE ref[p].L
  <2>1. Key(p) = m.key /\ Value(p) = m.value
    BY <1>5, Shows
  <2> DEFINE mid == With(old, m.key)
  <2>2. /\ Takes(old, Ref(old, m.key), m.key, mid)
        /\ Takes(mid, Ref(mid, m.value), m.value, With(mid, m.value))
    <3>1. \E s, t \in Slots : s # t /\ old[s] = free /\ old[t] = free
      BY <1>5, TwoFree DEF FreeIn
    <3> HIDE DEF old, m
    <3> QED BY <1>2, <3>1, RefTakesTwo
  <2>3. Ref(old, m.key) \in Refs /\ Ref(mid, m.value) \in Refs
    BY <2>2 DEF Takes, Refs
  <2>4. x = [ref[p] EXCEPT !.key = Ref(old, m.key), !.value = Ref(mid, m.value)]
    BY <1>5, <2>1 DEF CopyOfIter
  <2>5. registry' = With(mid, m.value)
    BY <1>4, <1>5, <2>1
  <2> HIDE DEF mid, old, x
  <2>6. /\ x \in ObjSet /\ x.kind = "iter" /\ x.L /\ x.table = ref[p].table
        /\ x.key = Ref(old, m.key) /\ x.value = Ref(mid, m.value)
    BY <1>1, <1>5, <2>3, <2>4 DEF ObjSet
  <2>7. Fits(o, x, m)
    <3>1. /\ m.key \in KeySet \cup {nil} /\ (m.key = nil <=> m.value = nil)
      BY <1>5 DEF RefInv, ObjInv, Sound
    <3>2. \E q \in References \ {o} : Lender(q, ref[p].table)
      <4>1. PICK q \in References : Lender(q, ref[p].table)
        BY <1>5, Loaned DEF Borrows
      <4>2. q # o
        BY <4>1 DEF Lender
      <4> QED BY <4>1, <4>2
    <3> HIDE DEF m
    <3> QED BY <1>1, <2>6, <3>1, <3>2 DEF Fits, Shape
  <2>8. Gets(o, m.key, x.key, m.value, x.value)
    BY <2>2, <2>5, <2>6 DEF Gets, old
  <2> HIDE DEF m
  <2> QED BY <1>3, <2>7, <2>8, Renew
<1>6. CASE ~ref[p].L
  <2>1. x = [Dead EXCEPT !.kind = "iter", !.table = ref[p].table]
    BY <1>6 DEF CopyOfIter
  <2>2. registry' = old
    BY <1>4, <1>6
  <2> HIDE DEF x
  <2>3. x \in ObjSet /\ ~x.L /\ x.kind = "iter"
    BY <1>1, <2>1 DEF ObjSet, Dead, Refs
  <2>4. Shape(x)
    BY <2>3 DEF Shape
  <2> QED BY <1>1, <1>3, <2>2, <2>3, <2>4, Retire
<1> QED BY <1>5, <1>6

LEMMA CopyIterStep ==
  ASSUME RefInv, NEW o \in References, NEW p \in References, CopyIter(o, p) \/ AssignIter(o, p)
  PROVE  RefInv' /\ Still(o)
<1>1. CASE CopyIter(o, p)
  <2>1. Freed(o) = registry /\ ref[o].kind = "dead"
    BY <1>1, Unborn DEF CopyIter, Become
  <2>2. /\ Cardinality(FreeIn(Freed(o))) >= 2 /\ ref[p].kind = "iter"
        /\ registry' = WithIter(Freed(o), p) /\ LuaUnchanged
        /\ ref' = [ref EXCEPT ![o] = CopyOfIter(Freed(o), p)]
        /\ means' = [means EXCEPT ![o] = means[p]]
    BY <1>1, <2>1 DEF CopyIter, Become, Room, FreeIn
  <2> QED BY <2>1, <2>2, CopiedIter
<1>2. CASE AssignIter(o, p)
  <2>1. (IF ref[o].L THEN Unref(Unref(registry, ref[o].key), ref[o].value) ELSE registry)
          = Freed(o)
    BY FreedIs
  <2>2. /\ ref[p].L => Cardinality(FreeIn(Freed(o))) >= 2
        /\ ref[o].kind = "iter" /\ ref[p].kind = "iter" /\ o # p
        /\ registry' = WithIter(Freed(o), p) /\ LuaUnchanged
        /\ ref' = [ref EXCEPT ![o] = CopyOfIter(Freed(o), p)]
        /\ means' = [means EXCEPT ![o] = means[p]]
    BY <1>2, <2>1 DEF AssignIter, FreeIn
  <2> QED BY <2>2, CopiedIter
<1> QED BY <1>1, <1>2

-------------------------------------------------------------------------------
(* Every state *)

LEMMA RefInvInit == RefInit => RefInv
<1> SUFFICES ASSUME RefInit PROVE RefInv
  OBVIOUS
<1>1. TypeInv
  <2>1. registry \in [Slots -> Lua \cup {free}] /\ meta \in [LuaTables -> DOMAIN Metatables \cup {nil}]
    BY DEF RefInit
  <2>2. tables \in [LuaTables -> [KeySet -> Lua]]
    BY LuaAssumption, NoSlot DEF RefInit
  <2>3. Dead \in ObjSet
    BY DEF Dead, ObjSet, Refs
  <2>4. ref \in [References -> ObjSet] /\ means \in [References -> Meanings]
    BY <2>3, NilsType DEF RefInit
  <2> QED BY <2>1, <2>2, <2>4 DEF TypeInv
<1>2. \A o \in References : ref[o] = Dead /\ ~ref[o].L /\ ref[o].kind = "dead"
  BY DEF RefInit, Dead
<1>3. ObjInv
  BY <1>2 DEF ObjInv, Shape, Borrows
<1>4. OwnInv
  <2>1. \A s \in Slots : registry[s] = free
    BY DEF RefInit
  <2> QED BY <1>2, <2>1 DEF OwnInv, Own
<1> QED BY <1>1, <1>3, <1>4 DEF RefInv

LEMMA BornKeeps ==
  ASSUME RefInv, NEW o \in References, Born(o)
  PROVE  RefInv'
BY RefStep, EmptyStep, CopyStep, MoveStep, IndexStep, BeginStep, EndStep, CopyIterStep
   DEF Born

LEMMA ChangedKeeps ==
  ASSUME RefInv, NEW o \in References, Changed(o)
  PROVE  RefInv'
<1>1. ASSUME \/ \E v \in Values : AssignValue(o, v) \/ \E k \in KeySet : Set(o, k, v)
             \/ \E p \in References : AssignProxy(o, p)
      PROVE  RefInv'
  BY <1>1, StoreStep, StoreKeeps
<1> QED BY <1>1, DestroyStep, AssignNilStep, Next1Step, AssignStep, AssignMoveStep,
           SetMetaTableStep, CopyIterStep DEF Changed

LEMMA RefInvStep == RefInv /\ [RefNext]_refVars => RefInv'
<1> SUFFICES ASSUME RefInv, [RefNext]_refVars PROVE RefInv'
  OBVIOUS
<1>1. CASE RefNext
  BY <1>1, BornKeeps, ChangedKeeps DEF RefNext
<1>2. CASE UNCHANGED refVars
  BY <1>2, LuaStep DEF refVars, RefInv, TypeInv
<1> QED BY <1>1, <1>2

\* What every state of the references is: types, ownership and meaning.
THEOREM RefInvariant == RefSpec => []RefInv
BY RefInvInit, RefInvStep, PTL DEF RefSpec

\* No slot of the registry leaks and none is given back twice, or while it is
\* owned: LuaRef.h's copies, moves, swaps, assignments and destructors.
THEOREM SlotsOwnedOnce == RefSpec => []OwnedOnce
<1>1. RefInv => OwnedOnce
  <2> SUFFICES ASSUME RefInv PROVE OwnedOnce
    OBVIOUS
  <2>1. \A o \in References : ref[o].L => Own(o) = Owned(ref[o])
    BY DEF Own
  <2>2. ASSUME NEW s \in Slots
        PROVE  registry[s] # free <=> \E o \in References : ref[o].L /\ s \in Owned(ref[o])
    <3>1. ASSUME registry[s] # free
          PROVE  \E o \in References : ref[o].L /\ s \in Owned(ref[o])
      BY <3>1 DEF RefInv, OwnInv, Own
    <3>2. ASSUME NEW o \in References, ref[o].L, s \in Owned(ref[o])
          PROVE  registry[s] # free
      BY <2>1, <3>2, OwnedUsed
    <3> QED BY <3>1, <3>2
  <2>3. \A o, p \in References : ref[o].L /\ ref[p].L /\ o # p =>
          Owned(ref[o]) \cap Owned(ref[p]) = {}
    BY <2>1 DEF RefInv, OwnInv
  <2>4. \A o \in References : ref[o].L /\ ref[o].key \in Slots => ref[o].key # ref[o].value
    BY DEF RefInv, ObjInv, Sound
  <2> QED BY <2>2, <2>3, <2>4 DEF OwnedOnce
<1> QED BY <1>1, RefInvariant, PTL

\* A live reference denotes what it was made for, what it borrows is a table,
\* and operator bool and == tell nil and values apart (LuaRef.h).
THEOREM ReferencesDenote == RefSpec => []Denotes
<1>1. RefInv => Denotes
  <2> SUFFICES ASSUME RefInv, NEW o \in References, ref[o].L
               PROVE  /\ Key(o) = means[o].key /\ Value(o) = means[o].value
                      /\ ref[o].kind \in {"proxy", "iter"} => TableOf(o) \in LuaTables
                      /\ ref[o].kind = "ref" =>
                           /\ OperatorBool(o) <=> means[o].key # nil
                           /\ \A p \in Kind("ref") :
                                ref[p].L => (Identical(o, p) <=> means[o].key = means[p].key)
    BY DEF Denotes
  <2>1. Key(o) = means[o].key /\ Value(o) = means[o].value
        /\ (ref[o].key \in Slots <=> means[o].key # nil)
    BY Shows
  <2>2. ref[o].kind \in {"proxy", "iter"} => TableOf(o) \in LuaTables
    BY Loaned DEF Borrows
  <2>3. OperatorBool(o) <=> means[o].key # nil
    <3>1. ref[o].key \in Refs
      BY DEF RefInv, TypeInv, ObjSet
    <3> QED BY <2>1, <3>1, NoSlot DEF OperatorBool, Refs
  <2>4. \A p \in Kind("ref") : ref[p].L => (Identical(o, p) <=> means[o].key = means[p].key)
    BY <2>1, Shows DEF Kind, Identical
  <2> QED BY <2>1, <2>2, <2>3, <2>4
<1> QED BY <1>1, RefInvariant, PTL
-------------------------------------------------------------------------------
(* Walks *)

\* k comes before l in the order of lua_next().
Before(k, l) == \E i, j \in DOMAIN Keys : i < j /\ Keys[i] = k /\ Keys[j] = l

Walks == [seen : Seq(KeySet), todo : SUBSET KeySet]

\* The keys given are different, and none behind the key k that was given last.
GivenTo(k, w) ==
  /\ w \in Walks
  /\ \A m, n \in DOMAIN w.seen : m # n => w.seen[m] # w.seen[n]
  /\ k # nil => \A n \in DOMAIN w.seen : w.seen[n] = k \/ Before(w.seen[n], k)

\* What is owed are fields of tab behind k.
OwedBy(tab, k, w) ==
  \A d \in w.todo : tab[d] # nil /\ k # nil /\ Before(k, d)

\* The walk w of an object x of the table t that means m
Walked(tabs, x, m, w, t) ==
  /\ x.kind # "iter" => w = NoWalk
  /\ GivenTo(IF x.L THEN m.key ELSE nil, w)
  /\ x.kind = "iter" /\ x.L => OwedBy(tabs[t], m.key, w)

WalkInv ==
  /\ walk \in [References -> Walks]
  /\ \A o \in References : Walked(tables, ref[o], means[o], walk[o], TableOf(o))

LEMMA BeforeOrder ==
  ASSUME NEW a, NEW b
  PROVE  /\ ~Before(a, a)
         /\ \A c : Before(a, b) /\ Before(b, c) => Before(a, c)
<1>1. DOMAIN Keys \subseteq Nat /\ \A i, j \in DOMAIN Keys : Keys[i] = Keys[j] => i = j
  BY LuaAssumption
<1>2. ~Before(a, a)
  BY <1>1 DEF Before
<1>3. ASSUME NEW c, Before(a, b), Before(b, c) PROVE Before(a, c)
  <2>1. PICK i \in DOMAIN Keys, j \in DOMAIN Keys : i < j /\ Keys[i] = a /\ Keys[j] = b
    BY <1>3 DEF Before
  <2>2. PICK k \in DOMAIN Keys, l \in DOMAIN Keys : k < l /\ Keys[k] = b /\ Keys[l] = c
    BY <1>3 DEF Before
  <2>3. j = k
    BY <1>1, <2>1, <2>2
  <2>4. i < l
    BY <1>1, <2>1, <2>2, <2>3
  <2> QED BY <2>1, <2>2, <2>4 DEF Before
<1> QED BY <1>2, <1>3

\* The next key is the first field behind k, and there is none if it is nil.
LEMMA NextPlace ==
  ASSUME NEW STATE t, NEW STATE k, k \in KeySet \cup {nil}, NEW STATE d, IsNext(t, k, d)
  PROVE  /\ d # nil /\ k # nil => Before(k, d)
         /\ \A e \in KeySet : tables[t][e] # nil /\ (k = nil \/ Before(k, e)) =>
              d # nil /\ (e = d \/ Before(d, e))
<1>1. DOMAIN Keys \subseteq Nat /\ \A i, j \in DOMAIN Keys : Keys[i] = Keys[j] => i = j
  BY LuaAssumption
<1>2. ASSUME NEW i \in Behind(t, k), k # nil PROVE Before(k, Keys[i])
  <2>1. PICK j \in DOMAIN Keys : Keys[j] = k
    BY <1>2 DEF KeySet
  <2> QED BY <1>2, <2>1 DEF Behind, Before
<1>3. ASSUME NEW e \in KeySet, tables[t][e] # nil, k = nil \/ Before(k, e)
      PROVE  \E j \in Behind(t, k) : Keys[j] = e
  <2>1. CASE k = nil
    <3>1. PICK j \in DOMAIN Keys : Keys[j] = e
      BY DEF KeySet
    <3>2. \A l \in DOMAIN Keys : Keys[l] # nil
      BY NoSlot DEF KeySet
    <3> QED BY <1>3, <2>1, <3>1, <3>2 DEF Behind
  <2>2. CASE Before(k, e)
    <3>1. PICK i \in DOMAIN Keys, j \in DOMAIN Keys : i < j /\ Keys[i] = k /\ Keys[j] = e
      BY <2>2 DEF Before
    <3>2. \A l \in DOMAIN Keys : Keys[l] = k => l < j
      BY <1>1, <3>1
    <3> QED BY <1>3, <3>1, <3>2 DEF Behind
  <2> QED BY <1>3, <2>1, <2>2
<1>4. CASE d = nil /\ Behind(t, k) = {}
  BY <1>3, <1>4
<1>5. CASE \E i \in Behind(t, k) : d = Keys[i] /\ \A j \in Behind(t, k) : i <= j
  <2>1. PICK i \in Behind(t, k) : d = Keys[i] /\ \A j \in Behind(t, k) : i <= j
    BY <1>5
  <2>2. d # nil /\ i \in DOMAIN Keys
    BY <2>1, NoSlot DEF Behind, KeySet
  <2>3. ASSUME NEW e \in KeySet, tables[t][e] # nil, k = nil \/ Before(k, e)
        PROVE  e = d \/ Before(d, e)
    <3>1. PICK j \in Behind(t, k) : Keys[j] = e
      BY <1>3, <2>3
    <3>2. j \in DOMAIN Keys /\ i <= j
      BY <2>1, <3>1 DEF Behind
    <3>3. i = j \/ i < j
      BY <1>1, <2>2, <3>2
    <3> QED BY <2>1, <2>2, <3>1, <3>2, <3>3 DEF Before
  <2> QED BY <1>2, <2>1, <2>2, <2>3
<1> QED BY <1>4, <1>5 DEF IsNext

\* What is known of a walk that is at k, or at its start, and goes on
LEMMA WalkOn ==
  ASSUME NEW STATE t, NEW STATE k, k \in KeySet \cup {nil}, NEW STATE d, IsNext(t, k, d),
         NEW STATE w, GivenTo(k, w), k = nil => w.seen = <<>>,
         \A e \in w.todo : tables[t][e] # nil /\ (k = nil \/ Before(k, e))
  PROVE  IF d = nil THEN w.todo = {}
         ELSE LET u == [seen |-> Append(w.seen, d), todo |-> w.todo \ {d}]
              IN  GivenTo(d, u) /\ OwedBy(tables[t], d, u)
<1>0. w \in Walks /\ w.todo \subseteq KeySet /\ w.seen \in Seq(KeySet)
  BY DEF GivenTo, Walks
<1>1. CASE d = nil
  BY <1>0, <1>1, NextPlace
<1>2. CASE d # nil
  <2> DEFINE u == [seen |-> Append(w.seen, d), todo |-> w.todo \ {d}]
  <2>1. d \in KeySet
    BY <1>2 DEF IsNext
  <2>2. \A n \in DOMAIN w.seen : Before(w.seen[n], d)
    <3>1. CASE k = nil
      BY <3>1
    <3>2. CASE k # nil
      <4>1. Before(k, d)
        BY <1>2, <3>2, NextPlace
      <4> QED BY <3>2, <4>1, BeforeOrder DEF GivenTo
    <3> QED BY <3>1, <3>2
  <2>3. /\ u.seen \in Seq(KeySet) /\ DOMAIN w.seen = 1 .. Len(w.seen)
        /\ DOMAIN u.seen = 1 .. Len(w.seen) + 1 /\ Len(w.seen) \in Nat
        /\ u.seen[Len(w.seen) + 1] = d
        /\ \A n \in DOMAIN w.seen : u.seen[n] = w.seen[n]
    BY <1>0, <2>1
  <2>4. u \in Walks /\ u.todo = w.todo \ {d}
    BY <1>0, <2>3 DEF Walks
  <2> HIDE DEF u
  <2>5. \A n \in DOMAIN u.seen : n \in DOMAIN w.seen \/ n = Len(w.seen) + 1
    BY <2>3
  <2>6. \A n \in DOMAIN u.seen : u.seen[n] = d \/ Before(u.seen[n], d)
    BY <2>2, <2>3, <2>5
  <2>7. ASSUME NEW m \in DOMAIN u.seen, NEW n \in DOMAIN u.seen, m # n
        PROVE  u.seen[m] # u.seen[n]
    <3>1. \A i \in DOMAIN w.seen : w.seen[i] # d
      BY <2>2, BeforeOrder
    <3> QED BY <2>3, <2>5, <2>7, <3>1 DEF GivenTo
  <2>8. GivenTo(d, u)
    BY <2>4, <2>6, <2>7 DEF GivenTo
  <2>9. OwedBy(tables[t], d, u)
    BY <1>0, <1>2, <2>4, NextPlace DEF OwedBy
  <2> QED BY <1>2, <2>8, <2>9 DEF u
<1> QED BY <1>1, <1>2
LEMMA NoWalkIs ==
  ASSUME NEW ACTION x, NEW ACTION m, NEW ACTION t, NEW ACTION tabs
  PROVE  Walked(tabs, x, m, NoWalk, t)
BY DEF Walked, NoWalk, GivenTo, OwedBy, Walks

\* A step of o leaves the walks of the others what they were.
LEMMA OthersWalk ==
  ASSUME RefInv, WalkInv, NEW o \in References, Still(o), LuaUnchanged,
         \A p \in References \ {o} : ref'[p] = ref[p] /\ means'[p] = means[p],
         NEW STATE w, walk' = [walk EXCEPT ![o] = w],
         Walked(tables', ref'[o], means'[o], w, RawGetI(registry', ref'[o].table))
  PROVE  WalkInv'
<1>1. walk' \in [References -> Walks] /\ walk'[o] = w
      /\ \A p \in References \ {o} : walk'[p] = walk[p]
  BY DEF WalkInv, Walked, GivenTo
<1>2. ASSUME NEW p \in References \ {o}
      PROVE  Walked(tables', ref'[p], means'[p], walk'[p], RawGetI(registry', ref'[p].table))
  <2>1. Walked(tables, ref[p], means[p], walk[p], TableOf(p))
    BY DEF WalkInv
  <2>2. Borrows(ref[p]) => RawGetI(registry', ref[p].table) = TableOf(p)
    BY DEF Still
  <2>3. ref'[p] = ref[p] /\ means'[p] = means[p] /\ walk'[p] = walk[p] /\ tables' = tables
    BY <1>1 DEF LuaUnchanged
  <2> QED BY <2>1, <2>2, <2>3 DEF Walked, Borrows
<1> QED BY <1>1, <1>2 DEF WalkInv, TableOf

\* Who is no iterator has not walked.
LEMMA Unwalked ==
  ASSUME WalkInv, NEW o \in References, ref[o].kind # "iter"
  PROVE  walk[o] = NoWalk
BY DEF WalkInv, Walked

\* A step of an object that is no iterator, or dies
LEMMA PlainWalk ==
  ASSUME RefInv, WalkInv, NEW o \in References, Still(o), LuaUnchanged,
         \A p \in References \ {o} : ref'[p] = ref[p] /\ means'[p] = means[p],
         \/ walk' = walk /\ ref[o].kind # "iter"
         \/ walk' = [walk EXCEPT ![o] = NoWalk]
  PROVE  WalkInv'
<1>1. walk' = [walk EXCEPT ![o] = NoWalk]
  BY Unwalked DEF WalkInv
<1> QED BY <1>1, NoWalkIs, OthersWalk

\* The steps that leave o no iterator, or one that has not walked
LEMMA PlainSteps ==
  ASSUME RefInv, WalkInv, NEW o \in References, NEW p \in References, Still(o),
         \/ Empty(o) \/ LuaRefNil(o) \/ EmptyIter(o) \/ End(o, p)
         \/ Copy(o, p) \/ CopyProxy(o, p)
         \/ \E k \in KeySet : Subscript(o, p, k)
         \/ Destroy(o) \/ AssignNil(o) \/ AssignRef(o, p)
  PROVE  WalkInv'
<1>1. LuaUnchanged
  BY DEF Empty, LuaRefNil, EmptyIter, End, Copy, CopyProxy, Subscript,
         Destroy, AssignNil, AssignRef
<1>2. \A q \in References \ {o} : ref'[q] = ref[q] /\ means'[q] = means[q]
  BY DEF Empty, LuaRefNil, EmptyIter, End, Copy, CopyProxy, Subscript, Become,
         Destroy, AssignNil, AssignRef, RefInv, TypeInv
<1>3. \/ walk' = walk /\ ref[o].kind # "iter"
      \/ walk' = [walk EXCEPT ![o] = NoWalk]
  <2>1. CASE Destroy(o)
    BY <2>1 DEF Destroy
  <2>2. CASE AssignNil(o) \/ AssignRef(o, p)
    BY <2>2 DEF AssignNil, AssignRef
  <2>3. ASSUME ~Destroy(o), ~(AssignNil(o) \/ AssignRef(o, p))
        PROVE  walk' = walk /\ ref[o] = Dead
    BY <2>3 DEF Empty, LuaRefNil, EmptyIter, End, Copy, CopyProxy, Subscript,
                Become
  <2> QED BY <2>1, <2>2, <2>3 DEF Dead
<1> QED BY <1>1, <1>2, <1>3, PlainWalk

\* A copy goes on where its original is.
LEMMA CopyIterWalk ==
  ASSUME RefInv, WalkInv, NEW o \in References, NEW p \in References, Still(o),
         CopyIter(o, p) \/ AssignIter(o, p)
  PROVE  WalkInv'
<1>1. /\ ref[p].kind = "iter" /\ o # p /\ LuaUnchanged /\ ref[p] \in ObjSet
      /\ walk' = [walk EXCEPT ![o] = walk[p]]
      /\ means' = [means EXCEPT ![o] = means[p]]
  BY DEF CopyIter, AssignIter, Become, Dead, RefInv, TypeInv
<1>2. PICK reg : ref' = [ref EXCEPT ![o] = CopyOfIter(reg, p)]
  BY DEF CopyIter, AssignIter, Become
<1> DEFINE x == CopyOfIter(reg, p)
<1>3. x.kind = "iter" /\ x.L = ref[p].L /\ x.table = ref[p].table
  <2>1. CASE ref[p].L
    BY <1>1, <2>1 DEF CopyOfIter, ObjSet
  <2>2. CASE ~ref[p].L
    <3>1. x = [Dead EXCEPT !.kind = "iter", !.table = ref[p].table]
      BY <2>2 DEF CopyOfIter
    <3>2. ref[p].L = FALSE
      BY <1>1, <2>2 DEF ObjSet
    <3> QED BY <3>1, <3>2 DEF Dead
  <2> QED BY <2>1, <2>2
<1> HIDE DEF x
<1>4. ref' = [ref EXCEPT ![o] = x]
  BY <1>2 DEF x
<1>5. /\ ref'[o].kind = "iter" /\ ref'[o].L = ref[p].L /\ ref'[o].table = ref[p].table
      /\ means'[o] = means[p]
      /\ \A q \in References \ {o} : ref'[q] = ref[q] /\ means'[q] = means[q]
  BY <1>1, <1>3, <1>4 DEF RefInv, TypeInv
<1>6. ref[p].L => RawGetI(registry', ref[p].table) = TableOf(p)
  BY <1>1 DEF Still, Borrows
<1>7. Walked(tables, ref[p], means[p], walk[p], TableOf(p))
  BY DEF WalkInv
<1>8. Walked(tables', ref'[o], means'[o], walk[p], RawGetI(registry', ref'[o].table))
  BY <1>1, <1>5, <1>6, <1>7 DEF Walked, LuaUnchanged
<1> QED BY <1>1, <1>5, <1>8, OthersWalk

LEMMA MoveWalk ==
  ASSUME RefInv, WalkInv, NEW o \in References, NEW p \in References, Move(o, p)
  PROVE  WalkInv'
<1>1. /\ ref[p].kind \in {"ref", "proxy"} /\ ref[o].kind = "dead" /\ o # p
      /\ walk' = walk /\ registry' = registry /\ tables' = tables
  BY DEF Move, Dead, LuaUnchanged
<1>2. \A q \in References \ {o, p} : ref'[q] = ref[q] /\ means'[q] = means[q]
  BY DEF Move, RefInv, TypeInv
<1>3. walk[o] = NoWalk /\ walk[p] = NoWalk
  BY <1>1, Unwalked
<1>4. ASSUME NEW q \in References
      PROVE  Walked(tables', ref'[q], means'[q], walk'[q], RawGetI(registry', ref'[q].table))
  <2>1. CASE q \in {o, p}
    BY <1>1, <1>3, <2>1, NoWalkIs
  <2>2. CASE q \notin {o, p}
    BY <1>1, <1>2, <2>2 DEF WalkInv, TableOf
  <2> QED BY <2>1, <2>2
<1> QED BY <1>1, <1>4 DEF WalkInv, TableOf

LEMMA AssignMoveWalk ==
  ASSUME RefInv, WalkInv, NEW o \in References, NEW p \in References, AssignMove(o, p)
  PROVE  WalkInv'
<1>1. /\ registry' = registry /\ tables' = tables /\ walk' \in [References -> Walks]
      /\ ref'[o] = ref[p] /\ means'[o] = means[p] /\ walk'[o] = walk[p]
      /\ ref'[p] = ref[o] /\ means'[p] = means[o] /\ walk'[p] = walk[o]
      /\ \A q \in References \ {o, p} :
           ref'[q] = ref[q] /\ means'[q] = means[q] /\ walk'[q] = walk[q]
  BY DEF AssignMove, LuaUnchanged, RefInv, TypeInv, WalkInv
<1>2. ASSUME NEW q \in References
      PROVE  Walked(tables', ref'[q], means'[q], walk'[q], RawGetI(registry', ref'[q].table))
  <2>1. PICK r \in References : ref'[q] = ref[r] /\ means'[q] = means[r] /\ walk'[q] = walk[r]
    BY <1>1
  <2>2. Walked(tables, ref[r], means[r], walk[r], TableOf(r))
    BY DEF WalkInv
  <2> QED BY <1>1, <2>1, <2>2 DEF TableOf
<1> QED BY <1>1, <1>2 DEF WalkInv, TableOf

\* A field that gets a value is no longer owed.
LEMMA StoreWalk ==
  ASSUME RefInv, WalkInv, NEW t \in LuaTables, NEW k \in KeySet, NEW v \in Lua, Store(t, k, v)
  PROVE  WalkInv'
<1>1. /\ registry' = registry /\ ref' = ref /\ means' = means
      /\ tables' = [tables EXCEPT ![t][k] = v]
      /\ walk' = [o \in References |->
                    IF ref[o].kind = "iter" /\ ref[o].L /\ TableOf(o) = t
                    THEN [walk[o] EXCEPT !.todo = @ \ {k}] ELSE walk[o]]
  BY DEF Store
<1>2. ASSUME NEW o \in References
      PROVE  walk'[o] \in Walks /\ Walked(tables', ref[o], means[o], walk'[o], TableOf(o))
  <2>1. /\ Walked(tables, ref[o], means[o], walk[o], TableOf(o)) /\ walk[o] \in Walks
        /\ walk[o].seen \in Seq(KeySet)
    BY DEF WalkInv, Walks
  <2>2. tables \in [LuaTables -> [KeySet -> Lua]]
    BY DEF RefInv, TypeInv
  <2>3. CASE ~(ref[o].kind = "iter" /\ ref[o].L)
    BY <1>1, <2>1, <2>3 DEF Walked
  <2>4. CASE ref[o].kind = "iter" /\ ref[o].L /\ TableOf(o) = t
    <3>1. walk'[o] \in Walks /\ walk'[o].seen = walk[o].seen
          /\ walk'[o].todo = walk[o].todo \ {k}
      BY <1>1, <2>1, <2>4 DEF Walks
    <3>2. GivenTo(means[o].key, walk'[o])
      BY <2>1, <2>4, <3>1 DEF Walked, GivenTo
    <3>3. \A d \in KeySet \ {k} : tables'[t][d] = tables[t][d]
      BY <1>1, <2>2
    <3>4. OwedBy(tables'[t], means[o].key, walk'[o])
      BY <2>1, <2>4, <3>1, <3>3 DEF Walked, OwedBy, Walks
    <3> QED BY <2>4, <3>1, <3>2, <3>4 DEF Walked
  <2>5. CASE ref[o].kind = "iter" /\ ref[o].L /\ TableOf(o) # t
    <3>1. TableOf(o) \in LuaTables
      BY <2>5, Loaned DEF Borrows
    <3>2. tables'[TableOf(o)] = tables[TableOf(o)] /\ walk'[o] = walk[o]
      BY <1>1, <2>2, <2>5, <3>1
    <3> QED BY <2>1, <3>2 DEF Walked
  <2> QED BY <2>3, <2>4, <2>5
<1>3. walk' \in [References -> Walks]
  BY <1>1, <1>2
<1> QED BY <1>1, <1>2, <1>3 DEF WalkInv, TableOf

\* What is lent by q stays when q does.
LEMMA LentKept ==
  ASSUME RefInv, RefInv', NEW q \in References, NEW STATE r, Lender(q, r),
         ref'[q] = ref[q], means'[q] = means[q]
  PROVE  RawGetI(registry', r) = RawGetI(registry, r)
<1>1. /\ ref[q].L /\ ref[q].key = r /\ means[q].key # nil
  BY NoSlot DEF Lender
<1>2. Denoted(registry, r, means[q].key)
  BY <1>1 DEF RefInv, ObjInv, Sound
<1>3. Denoted(registry', r, means[q].key)
  BY <1>1 DEF RefInv, ObjInv, Sound
<1> QED BY <1>1, <1>2, <1>3 DEF Denoted, RawGetI
LEMMA AdvanceWalk ==
  ASSUME RefInv, RefInv', WalkInv, NEW o \in References, Still(o),
         NEW STATE x, x \in ObjSet, NEW STATE w, Advance(o, x, w), x.kind = "iter", x.L,
         \E q \in References \ {o} : Lender(q, x.table),
         NEW STATE k, k \in KeySet \cup {nil}, k = RawGetI(registry, x.key),
         GivenTo(k, w), k = nil => w.seen = <<>>,
         \A e \in w.todo :
           tables[RawGetI(registry, x.table)][e] # nil /\ (k = nil \/ Before(k, e))
  PROVE  WalkInv'
<1> DEFINE t == RawGetI(registry, x.table)
           d == NextKey(x)
           v == IF d = nil THEN nil ELSE tables[t][d]
           y == [x EXCEPT !.value = Ref(Unref(Unref(registry, x.key), x.value), v),
                          !.key = Ref(With(Unref(Unref(registry, x.key), x.value), v), d)]
           z == IF d = nil THEN IterEnd(x.table) ELSE y
           u == IF d = nil THEN w
                ELSE [seen |-> Append(w.seen, d), todo |-> w.todo \ {d}]
           m == [key |-> d, value |-> v]
<1>1. IsNext(t, k, d)
  BY LuaNextIs DEF NextKey
<1>2. /\ ref' = [ref EXCEPT ![o] = z] /\ means' = [means EXCEPT ![o] = m]
      /\ walk' = [walk EXCEPT ![o] = u] /\ LuaUnchanged
  BY DEF Advance
<1>3. z.kind = "iter" /\ z.L /\ z.table = x.table
  <2>1. y.kind = "iter" /\ y.L /\ y.table = x.table
    BY DEF ObjSet
  <2>2. x.table \in Refs
    BY DEF ObjSet
  <2> HIDE DEF y
  <2> QED BY <2>1, <2>2, IterEndType
<1>4. m.key = d
  OBVIOUS
<1> HIDE DEF y, z, d, m
<1>5. GivenTo(d, u) /\ OwedBy(tables[t], d, u)
  <2>1. IF d = nil THEN w.todo = {}
        ELSE LET s == [seen |-> Append(w.seen, d), todo |-> w.todo \ {d}]
             IN  GivenTo(d, s) /\ OwedBy(tables[t], d, s)
    BY <1>1, WalkOn
  <2>2. CASE d = nil
    BY <2>1, <2>2 DEF GivenTo, OwedBy
  <2>3. CASE d # nil
    BY <2>1, <2>3
  <2> QED BY <2>2, <2>3
<1> HIDE DEF u
<1>6. /\ ref'[o] = z /\ means'[o] = m
      /\ \A p \in References \ {o} : ref'[p] = ref[p] /\ means'[p] = means[p]
  BY <1>2 DEF RefInv, TypeInv
<1>7. RawGetI(registry', x.table) = t
  <2>1. PICK q \in References \ {o} : Lender(q, x.table)
    OBVIOUS
  <2> QED BY <1>6, <2>1, LentKept
<1> HIDE DEF t
<1>8. Walked(tables', ref'[o], means'[o], u, RawGetI(registry', ref'[o].table))
  BY <1>2, <1>3, <1>4, <1>5, <1>6, <1>7 DEF Walked, LuaUnchanged
<1> QED BY <1>2, <1>6, <1>8, OthersWalk

LEMMA BeginWalk ==
  ASSUME RefInv, WalkInv, NEW o \in References, NEW p \in References, Begin(o, p)
  PROVE  WalkInv'
<1> DEFINE x == IterEnd(ref[p].key)
           w == [seen |-> <<>>, todo |-> {k \in KeySet : tables[Key(p)][k] # nil}]
<1>1. IsTable(p) /\ ref[o] = Dead /\ Advance(o, x, w)
  BY DEF Begin
<1>2. RefInv' /\ Still(o)
  BY BeginStep
<1>3. Lender(p, ref[p].key) /\ p # o /\ ref[p].key \in Refs
  BY <1>1, TableLender DEF IsTable, Dead, RefInv, TypeInv, ObjSet
<1>4. x \in ObjSet /\ x.kind = "iter" /\ x.L /\ x.table = ref[p].key /\ x.key = NOREF
  BY <1>3, IterEndType
<1> HIDE DEF x
<1>5. nil = RawGetI(registry, x.key)
  BY <1>4, NoSlot DEF RawGetI
<1>6. RawGetI(registry, x.table) = Key(p)
  BY <1>4 DEF Key
<1>7. GivenTo(nil, w) /\ w.seen = <<>>
      /\ \A e \in w.todo : tables[Key(p)][e] # nil
  BY DEF GivenTo, Walks
<1> HIDE DEF w
<1> QED BY <1>1, <1>2, <1>3, <1>4, <1>5, <1>6, <1>7, AdvanceWalk

LEMMA Next1Walk ==
  ASSUME RefInv, WalkInv, NEW o \in References, Next1(o)
  PROVE  WalkInv'
<1> DEFINE x == ref[o]
           w == walk[o]
           k == means[o].key
<1>1. x \in ObjSet /\ x.kind = "iter" /\ x.L /\ k # nil /\ Advance(o, x, w)
  BY DEF Next1, RefInv, TypeInv
<1>2. RefInv' /\ Still(o)
  BY Next1Step
<1>3. \E q \in References \ {o} : Lender(q, x.table)
  BY <1>1, Loaned DEF Borrows
<1>4. k \in KeySet \cup {nil} /\ k = RawGetI(registry, x.key)
  BY <1>1, Shows DEF RefInv, ObjInv, Sound, Key
<1>5. GivenTo(k, w) /\ OwedBy(tables[RawGetI(registry, x.table)], k, w)
  BY <1>1 DEF WalkInv, Walked, TableOf
<1>6. \A e \in w.todo : tables[RawGetI(registry, x.table)][e] # nil /\ Before(k, e)
  BY <1>5 DEF OwedBy
<1> HIDE DEF x, w, k
<1> QED BY <1>1, <1>2, <1>3, <1>4, <1>5, <1>6, AdvanceWalk

LEMMA SetMetaTableWalk ==
  ASSUME WalkInv, NEW o \in References, NEW p \in References, SetMetaTable(o, p)
  PROVE  WalkInv'
BY DEF SetMetaTable, WalkInv, TableOf

LEMMA WalkInvInit == RefInit => WalkInv
<1> SUFFICES ASSUME RefInit PROVE WalkInv
  OBVIOUS
<1>1. \A o \in References : walk[o] = NoWalk
  BY DEF RefInit
<1>2. NoWalk \in Walks
  BY DEF NoWalk, Walks
<1>3. walk \in [References -> Walks]
  BY <1>2 DEF RefInit
<1>4. ASSUME NEW o \in References
      PROVE  Walked(tables, ref[o], means[o], NoWalk, TableOf(o))
  BY DEF Walked, NoWalk, GivenTo, OwedBy, Walks
<1> QED BY <1>1, <1>3, <1>4 DEF WalkInv

LEMMA RefWalk ==
  ASSUME RefInv, WalkInv, NEW o \in References,
         \/ \E v \in Values \cup DOMAIN Metatables : Create(o, v) \/ LuaRefAt(o, v)
         \/ \E p \in References :
              \/ LuaRefOf(o, p) \/ GetMetaTable(o, p) \/ KeyOf(o, p) \/ ValueOf(o, p)
              \/ \E k \in KeySet : GetRaw(o, p, k) \/ Get(o, p, k)
  PROVE  WalkInv'
<1>1. Still(o)
  BY RefStep
<1>2. LuaUnchanged
  BY DEF PopFromStack, Empty, Create, LuaRefAt, LuaRefOf, GetMetaTable, KeyOf, ValueOf,
         GetRaw, Get
<1>3. \A q \in References \ {o} : ref'[q] = ref[q] /\ means'[q] = means[q]
  BY DEF PopFromStack, Empty, Create, LuaRefAt, LuaRefOf, GetMetaTable, KeyOf, ValueOf,
         GetRaw, Get, Become, RefInv, TypeInv
<1>4. walk' = walk /\ ref[o] = Dead
  BY DEF PopFromStack, Empty, Create, LuaRefAt, LuaRefOf, GetMetaTable, KeyOf, ValueOf,
         GetRaw, Get, Become
<1> QED BY <1>1, <1>2, <1>3, <1>4, PlainWalk DEF Dead

LEMMA WalkInvStep == RefInv /\ WalkInv /\ [RefNext]_refVars => WalkInv'
<1> SUFFICES ASSUME RefInv, WalkInv, [RefNext]_refVars PROVE WalkInv'
  OBVIOUS
<1>1. ASSUME NEW o \in References, Born(o) PROVE WalkInv'
  <2>1. CASE Empty(o) \/ LuaRefNil(o) \/ EmptyIter(o)
    BY <2>1, EmptyStep, PlainSteps
  <2>2. ASSUME NEW p \in References, Copy(o, p) \/ CopyProxy(o, p) PROVE WalkInv'
    BY <2>2, CopyStep, PlainSteps
  <2>3. ASSUME NEW p \in References, NEW k \in KeySet, Subscript(o, p, k) PROVE WalkInv'
    BY <2>3, IndexStep, PlainSteps
  <2>4. ASSUME NEW p \in References, End(o, p) PROVE WalkInv'
    BY <2>4, EndStep, PlainSteps
  <2>5. ASSUME NEW p \in References, CopyIter(o, p) PROVE WalkInv'
    BY <2>5, CopyIterStep, CopyIterWalk
  <2> QED BY <1>1, <2>1, <2>2, <2>3, <2>4, <2>5, RefWalk, MoveWalk, BeginWalk DEF Born
<1>2. ASSUME NEW o \in References, Changed(o) PROVE WalkInv'
  <2>1. CASE Destroy(o) \/ AssignNil(o)
    BY <2>1, DestroyStep, AssignNilStep, PlainSteps
  <2>2. ASSUME NEW p \in References, AssignRef(o, p) PROVE WalkInv'
    BY <2>2, AssignStep, PlainSteps
  <2>3. ASSUME NEW p \in References, AssignIter(o, p) PROVE WalkInv'
    BY <2>3, CopyIterStep, CopyIterWalk
  <2>4. ASSUME \/ \E v \in Values : AssignValue(o, v) \/ \E k \in KeySet : Set(o, k, v)
               \/ \E p \in References : AssignProxy(o, p)
        PROVE  WalkInv'
    BY <2>4, StoreStep, StoreWalk
  <2> QED BY <1>2, <2>1, <2>2, <2>3, <2>4, Next1Walk, AssignMoveWalk, SetMetaTableWalk
          DEF Changed
<1>3. CASE UNCHANGED refVars
  BY <1>3 DEF refVars, WalkInv, TableOf
<1> QED BY <1>1, <1>2, <1>3 DEF RefNext

\* A loop over a table gives every key at most once, and all that were not
\* touched when its iterator compares as the end (LuaTableIterator of LuaRef.h).
THEOREM LoopsWalkAll == RefSpec => []WalksAll
<1>1. RefInv /\ WalkInv => WalksAll
  <2> SUFFICES ASSUME RefInv, WalkInv, NEW i \in Kind("iter")
               PROVE  /\ \A m, n \in DOMAIN walk[i].seen :
                           m # n => walk[i].seen[m] # walk[i].seen[n]
                      /\ ref[i].L /\ SamePlace(ref[i], IterEnd(ref[i].table)) =>
                           walk[i].todo = {}
    BY DEF WalksAll
  <2>1. i \in References /\ ref[i].kind = "iter"
    BY DEF Kind
  <2>2. Walked(tables, ref[i], means[i], walk[i], TableOf(i))
    BY <2>1 DEF WalkInv
  <2>3. ASSUME ref[i].L, SamePlace(ref[i], IterEnd(ref[i].table))
        PROVE  walk[i].todo = {}
    <3>1. Key(i) = nil
      BY <2>3, NoSlot DEF SamePlace, IterEnd, RawGetI, Key
    <3>2. means[i].key = nil
      BY <2>1, <2>3, <3>1, Shows
    <3> QED BY <2>1, <2>2, <2>3, <3>2 DEF Walked, OwedBy
  <2> QED BY <2>2, <2>3 DEF Walked, GivenTo
<1> QED BY <1>1, RefInvInit, RefInvStep, WalkInvInit, WalkInvStep, PTL DEF RefSpec
-----------------------------------------------------------------------------
(* Proofs about LuaObject for any classes, modules, programs, objects and  *)
(* userdata.                                                               *)

\* Of the elements of S, next leads down to those without a next one.
Leads(S, none, next, rank, n) ==
  /\ next \in [S -> S \cup {none}] /\ n \in Nat /\ rank \in [S -> 0 .. n]
  /\ \A s \in S : next[s] # none => rank[next[s]] < rank[s]

Recurs(f, S, none, next, base, step) ==
  \A s \in S : f[s] = IF next[s] = none THEN base[s] ELSE step[<<s, f[next[s]]>>]

\* A function that recurs along next is there.
LEMMA Recursion ==
  ASSUME NEW S, NEW X, NEW none, NEW next, NEW rank, NEW n, Leads(S, none, next, rank, n),
         NEW base \in [S -> X], NEW step \in [S \X X -> X]
  PROVE  \E f \in [S -> X] : Recurs(f, S, none, next, base, step)
<1> USE DEF Leads
<1> DEFINE Given(g, s) == IF next[s] = none THEN base[s] ELSE step[<<s, g[next[s]]>>]
           UpTo(m) == \E g \in [S -> X] : \A s \in S : rank[s] < m => g[s] = Given(g, s)
           Bad == {m \in Nat : ~UpTo(m)}
<1>1. ASSUME Bad # {} PROVE FALSE
  <2>1. PICK m \in Bad : \A k \in Bad : m <= k
    BY <1>1, Minimum
  <2>2. m # 0
    <3>1. UpTo(0)
      <4>1. \A s \in S : ~(rank[s] < 0)
        OBVIOUS
      <4> QED BY <4>1
    <3> QED BY <3>1
  <2>3. m - 1 \in Nat /\ m - 1 \notin Bad
    BY <2>1, <2>2
  <2>4. PICK g \in [S -> X] : \A s \in S : rank[s] < m - 1 => g[s] = Given(g, s)
    BY <2>3
  <2> DEFINE h == [s \in S |-> Given(g, s)]
  <2>5. h \in [S -> X]
    OBVIOUS
  <2>6. ASSUME NEW s \in S, rank[s] < m PROVE h[s] = Given(h, s)
    <3>1. CASE next[s] = none
      BY <3>1
    <3>2. CASE next[s] # none
      <4>1. next[s] \in S /\ rank[next[s]] < m - 1
        <5>1. next[s] \in S /\ rank[next[s]] < rank[s]
          BY <3>2
        <5>2. rank[next[s]] \in Nat /\ rank[s] \in Nat /\ m \in Nat
          BY <5>1
        <5> QED BY <2>6, <5>1, <5>2
      <4>2. h[next[s]] = g[next[s]]
        BY <2>4, <4>1
      <4> QED BY <4>2
    <3> QED BY <3>1, <3>2
  <2>7. UpTo(m)
    BY <2>5, <2>6
  <2> QED BY <2>1, <2>7
<1>2. UpTo(n + 1)
  <2>1. Bad = {} /\ n + 1 \in Nat
    <3>1. n + 1 \in Nat
      OBVIOUS
    <3> HIDE DEF Bad
    <3> QED BY <1>1, <3>1
  <2> HIDE DEF UpTo
  <2> QED BY <2>1
<1>3. \A s \in S : rank[s] < n + 1
  OBVIOUS
<1> QED BY <1>2, <1>3 DEF Recurs

\* What holds whenever it holds for the next one holds for all.
LEMMA Descent ==
  ASSUME NEW S, NEW none, NEW next, NEW rank, NEW n, Leads(S, none, next, rank, n),
         NEW Good, \A s \in S : (next[s] # none => next[s] \in Good) => s \in Good
  PROVE  S \subseteq Good
<1> SUFFICES ASSUME S \ Good # {} PROVE FALSE
  OBVIOUS
<1> DEFINE Ranks == {rank[s] : s \in S \ Good}
<1>1. Ranks \in SUBSET Nat /\ Ranks # {}
  BY DEF Leads
<1>2. PICK r \in Ranks : \A q \in Ranks : r <= q
  <2> HIDE DEF Ranks
  <2> QED BY <1>1, Minimum
<1>3. PICK s \in S \ Good : r = rank[s]
  OBVIOUS
<1>4. next[s] \in S \ Good
  BY DEF Leads
<1>5. rank[next[s]] < rank[s] /\ rank[next[s]] \in Ranks
  BY <1>3, <1>4 DEF Leads
<1>6. r \in Nat /\ rank[next[s]] \in Nat
  BY <1>1, <1>5
<1> HIDE DEF Ranks
<1> QED BY <1>2, <1>3, <1>5, <1>6
-----------------------------------------------------------------------------
Depth == CHOOSE depth \in [Classes -> 1 .. Cardinality(Classes)] :
           \A c \in Classes : Super[c] # None => depth[Super[c]] < depth[c]
Size == Cardinality(Classes)

LEMMA SuperLeads == Leads(Classes, None, Super, Depth, Size)
<1>1. Size \in Nat
  BY ClassesAssumption, FS_CardinalityType DEF Size
<1>2. /\ Depth \in [Classes -> 1 .. Size]
      /\ \A c \in Classes : Super[c] # None => Depth[Super[c]] < Depth[c]
  BY ClassesAssumption DEF Depth, Size
<1>3. Depth \in [Classes -> 0 .. Size]
  BY <1>1, <1>2
<1> QED BY <1>1, <1>2, <1>3, ClassesAssumption DEF Leads

LEMMA BasesIs ==
  /\ DOMAIN Bases = Classes
  /\ \A c \in Classes : Bases[c] = IF Super[c] = None THEN {c} ELSE {c} \cup Bases[Super[c]]
<1> DEFINE base == [c \in Classes |-> {c}]
           step == [p \in Classes \X SUBSET Classes |-> {p[1]} \cup p[2]]
<1>1. base \in [Classes -> SUBSET Classes] /\ step \in [Classes \X SUBSET Classes -> SUBSET Classes]
  OBVIOUS
<1>2. PICK f \in [Classes -> SUBSET Classes] : Recurs(f, Classes, None, Super, base, step)
  <2> HIDE DEF base, step
  <2> QED BY <1>1, SuperLeads, Recursion
<1>3. ASSUME NEW c \in Classes
      PROVE  f[c] = IF Super[c] = None THEN {c} ELSE {c} \cup f[Super[c]]
  <2>1. CASE Super[c] = None
    BY <1>2, <2>1 DEF Recurs
  <2>2. CASE Super[c] # None
    <3>1. Super[c] \in Classes
      BY <2>2, SuperLeads DEF Leads
    <3>2. f[c] = step[<<c, f[Super[c]]>>]
      <4> HIDE DEF base, step
      <4> QED BY <1>2, <2>2 DEF Recurs
    <3>3. <<c, f[Super[c]]>> \in Classes \X SUBSET Classes
      BY <3>1
    <3> QED BY <2>2, <3>2, <3>3
  <2> QED BY <2>1, <2>2
<1>4. f = [c \in Classes |-> IF Super[c] = None THEN {c} ELSE {c} \cup f[Super[c]]]
  <2> HIDE DEF base, step
  <2> QED BY <1>3
<1>5. Bases = [c \in Classes |-> IF Super[c] = None THEN {c} ELSE {c} \cup Bases[Super[c]]]
  BY <1>4 DEF Bases
<1> QED BY <1>5

\* A class is one of its bases, and the bases of a base are bases.
LEMMA BasesFacts ==
  ASSUME NEW c \in Classes
  PROVE  /\ c \in Bases[c] /\ Bases[c] \subseteq Classes
         /\ \A b \in Bases[c] : Bases[b] \subseteq Bases[c]
<1> DEFINE Good == {a \in Classes : /\ Bases[a] \subseteq Classes
                                   /\ \A b \in Bases[a] : Bases[b] \subseteq Bases[a]}
<1>1. ASSUME NEW a \in Classes, Super[a] # None => Super[a] \in Good PROVE a \in Good
  <2>1. CASE Super[a] = None
    BY <2>1, BasesIs
  <2>2. CASE Super[a] # None
    <3>1. Super[a] \in Good
      BY <1>1, <2>2
    <3>2. Bases[a] = {a} \cup Bases[Super[a]]
      BY <2>2, BasesIs
    <3> QED BY <3>1, <3>2
  <2> QED BY <2>1, <2>2
<1>2. Classes \subseteq Good
  <2> HIDE DEF Good
  <2> QED BY <1>1, SuperLeads, Descent
<1> QED BY <1>2, BasesIs

LEMMA BaseOfClass ==
  ASSUME NEW c \in Classes, Super[c] \in Classes
  PROVE  Super[c] \in Bases[c] /\ Bases[c] = {c} \cup Bases[Super[c]]
BY BasesIs, BasesFacts, ClassesAssumption
-----------------------------------------------------------------------------
\* What an entry may be: a constructor is of a class, a call goes on to one.
Fine(e) == /\ e.kind = "constructor" => e.class \in Classes
           /\ e.kind = "forward" => e.to \in Classes

Kinds == {"class", "const"}

\* In the tables m of the objects of a class is the destructor of theirs.
HasGc(m, c, w) ==
  \E x \in m[<<c, w>>] : x.part = "field" /\ x.name = "__gc" /\ x.entry = Destructor(c, w = "const")

EntriesInv(m, bd) ==
  /\ m = [t \in Tables |-> m[t]]
  /\ \A t \in Tables : \A x \in m[t] : Fine(x.entry)
  /\ \A c \in bd \cap Classes, w \in Kinds : HasGc(m, c, w)

\* Where a registration may store under which name
Stores(t, part, name) ==
  t \in Tables /\ (t[2] = "static" \/ part # "field" \/ name # "__gc")

LEMMA RawSetKeeps ==
  ASSUME NEW m, NEW bd, EntriesInv(m, bd), NEW t, NEW part, NEW name, Stores(t, part, name),
         NEW e, Fine(e)
  PROVE  EntriesInv(RawSet(m, t, part, name, e), bd)
<1> DEFINE r == RawSet(m, t, part, name, e)
           new == [part |-> part, name |-> name, entry |-> e]
<1>1. r = [q \in Tables |-> r[q]]
  BY DEF EntriesInv, RawSet
<1>2. \A q \in Tables : r[q] = IF q = t THEN {x \in m[t] : <<x.part, x.name>> # <<part, name>>} \cup {new}
                                       ELSE m[q]
  BY DEF EntriesInv, RawSet
<1>3. ASSUME NEW q \in Tables, NEW x \in r[q] PROVE Fine(x.entry)
  <2>1. CASE x = new
    <3>1. x.entry = e
      BY <2>1
    <3> QED BY <3>1
  <2>2. CASE x # new
    <3>1. x \in m[q]
      <4> HIDE DEF r, new
      <4> QED BY <1>2, <1>3, <2>2
    <3> QED BY <3>1 DEF EntriesInv
  <2> QED BY <2>1, <2>2
<1>4. ASSUME NEW c \in bd \cap Classes, NEW w \in Kinds PROVE HasGc(r, c, w)
  <2>1. <<c, w>> \in Tables
    BY DEF Tables, Kinds
  <2>2. PICK x \in m[<<c, w>>] : x.part = "field" /\ x.name = "__gc" /\ x.entry = Destructor(c, w = "const")
    BY DEF EntriesInv, HasGc
  <2>3. x \in r[<<c, w>>]
    <3>1. <<c, w>> = t => <<x.part, x.name>> # <<part, name>>
      BY <2>2 DEF Stores, Kinds
    <3> HIDE DEF r, new
    <3> QED BY <1>2, <2>1, <2>2, <3>1
  <2> HIDE DEF r
  <2> QED BY <2>2, <2>3 DEF HasGc
<1> HIDE DEF r
<1>5. EntriesInv(r, bd)
  BY <1>1, <1>3, <1>4 DEF EntriesInv
<1> QED BY <1>5 DEF r

LEMMA WithGcKeeps ==
  ASSUME NEW m, NEW bd, EntriesInv(m, bd), NEW c \in Classes
  PROVE  EntriesInv(WithGc(m, c), bd \cup {c})
<1> DEFINE r == WithGc(m, c)
           new(w) == [part |-> "field", name |-> "__gc", entry |-> Destructor(c, w = "const")]
           rest(w) == {x \in m[<<c, w>>] : <<x.part, x.name>> # <<"field", "__gc">>}
<1>1. \A w \in Kinds : <<c, w>> \in Tables
  BY DEF Tables, Kinds
<1>2. r = [q \in Tables |-> r[q]]
  BY DEF EntriesInv, RawSet, WithGc
<1>3. \A w \in Kinds : r[<<c, w>>] = rest(w) \cup {new(w)}
  BY <1>1 DEF EntriesInv, RawSet, WithGc, Kinds
<1>4. \A q \in Tables : (\A w \in Kinds : q # <<c, w>>) => r[q] = m[q]
  BY <1>1 DEF EntriesInv, RawSet, WithGc, Kinds
<1>5. ASSUME NEW q \in Tables, NEW x \in r[q] PROVE Fine(x.entry)
  <2>1. CASE x \in m[q]
    BY <2>1 DEF EntriesInv
  <2>2. CASE x \notin m[q]
    <3>1. PICK w \in Kinds : x = new(w)
      <4> HIDE DEF r, new
      <4> QED BY <1>3, <1>4, <1>5, <2>2
    <3>2. x.entry = Destructor(c, w = "const")
      BY <3>1
    <3> QED BY <3>2 DEF Fine, Destructor
  <2> QED BY <2>1, <2>2
<1>6. ASSUME NEW b \in (bd \cup {c}) \cap Classes, NEW w \in Kinds PROVE HasGc(r, b, w)
  <2>1. CASE b = c
    <3>1. new(w) \in r[<<b, w>>]
      <4> HIDE DEF r, new
      <4> QED BY <1>3, <2>1
    <3>2. new(w).part = "field" /\ new(w).name = "__gc" /\ new(w).entry = Destructor(b, w = "const")
      BY <2>1
    <3> HIDE DEF r, new
    <3> QED BY <3>1, <3>2 DEF HasGc
  <2>2. CASE b # c
    <3>1. HasGc(m, b, w)
      BY <2>2 DEF EntriesInv
    <3>2. r[<<b, w>>] = m[<<b, w>>]
      <4>1. <<b, w>> \in Tables
        BY DEF Tables, Kinds
      <4>2. \A v \in Kinds : <<b, w>> # <<c, v>>
        BY <2>2
      <4> HIDE DEF r
      <4> QED BY <1>4, <4>1, <4>2
    <3> HIDE DEF r
    <3> QED BY <3>1, <3>2 DEF HasGc
  <2> QED BY <2>1, <2>2
<1> HIDE DEF r
<1>7. EntriesInv(r, bd \cup {c})
  BY <1>2, <1>5, <1>6 DEF EntriesInv
<1> QED BY <1>7 DEF r
-----------------------------------------------------------------------------
LEMMA StoresIn ==
  ASSUME NEW part, NEW name
  PROVE  /\ \A t \in Classes \cup Modules : Stores(<<t, "static">>, part, name)
         /\ \A c \in Classes, w \in Kinds :
              part # "field" \/ name # "__gc" => Stores(<<c, w>>, part, name)
BY DEF Stores, Tables, Kinds

LEMMA EntriesFine ==
  /\ \A c, const : Fine(Member(c, const))
  /\ \A t, n : Fine(Static(t, n))
  /\ Fine(Assigned) /\ Fine(ErrorReadOnly) /\ Fine(ErrorConstMismatch)
  /\ \A c \in Classes : Fine(Forward(c)) /\ \A smart : Fine(Constructor(c, smart))
BY DEF Fine, Member, Static, Assigned, ErrorReadOnly, ErrorConstMismatch, Constructor, Forward

LEMMA StaticKeeps ==
  ASSUME NEW m, NEW bd, EntriesInv(m, bd), NEW t \in Classes \cup Modules, NEW n
  PROVE  /\ EntriesInv(SetStaticGetter(m, t, n), bd)
         /\ EntriesInv(SetStaticSetter(m, t, n), bd)
         /\ EntriesInv(SetStaticReadOnly(m, t, n), bd)
BY StoresIn, EntriesFine, RawSetKeeps DEF SetStaticGetter, SetStaticSetter, SetStaticReadOnly

LEMMA SettableKeeps ==
  ASSUME EntriesInv(mt, bound), NEW t \in Classes \cup Modules, NEW n, NEW writable
  PROVE  EntriesInv(Settable(t, n, writable), bound)
BY StaticKeeps DEF Settable

LEMMA PairKeeps ==
  ASSUME NEW m, NEW bd, EntriesInv(m, bd), NEW c \in Classes, NEW part, NEW n,
         part # "field" \/ n # "__gc", NEW e, Fine(e), NEW f, Fine(f)
  PROVE  EntriesInv(RawSet(RawSet(m, <<c, "class">>, part, n, e), <<c, "const">>, part, n, f), bd)
<1>1. Stores(<<c, "class">>, part, n) /\ Stores(<<c, "const">>, part, n)
  BY StoresIn DEF Kinds
<1>2. EntriesInv(RawSet(m, <<c, "class">>, part, n, e), bd)
  BY <1>1, RawSetKeeps
<1> QED BY <1>1, <1>2, RawSetKeeps

LEMMA BuildKeeps ==
  ASSUME NEW m, NEW bd, EntriesInv(m, bd), NEW c \in Classes
  PROVE  EntriesInv(WithGc(BuildMetaTable(m, c), c), bd \cup {c})
<1>1. Fine(ClassTable(c)) /\ "class" # "__gc"
  BY DEF Fine, ClassTable
<1>2. EntriesInv(BuildMetaTable(m, c), bd)
  BY <1>1, PairKeeps DEF BuildMetaTable
<1> QED BY <1>2, WithGcKeeps

LEMMA MemberKeeps ==
  ASSUME NEW m, NEW bd, EntriesInv(m, bd), NEW c \in Classes, NEW n
  PROVE  /\ \A g, gc : EntriesInv(SetMemberGetter(m, c, n, Member(c, g), Member(c, gc)), bd)
         /\ EntriesInv(SetMemberSetter(m, c, n, Member(c, FALSE)), bd)
         /\ EntriesInv(SetMemberReadOnly(m, c, n), bd)
BY PairKeeps, EntriesFine DEF SetMemberGetter, SetMemberSetter, SetMemberReadOnly

LEMMA FunctionKeeps ==
  ASSUME NEW m, NEW bd, EntriesInv(m, bd), NEW c \in Classes, NEW n, n # "__gc",
         NEW e, Fine(e), NEW const
  PROVE  EntriesInv(SetMemberFunction(m, c, n, e, const), bd)
<1>1. Fine(IF const THEN e ELSE ErrorConstMismatch)
  BY EntriesFine
<1> QED BY <1>1, PairKeeps DEF SetMemberFunction
-----------------------------------------------------------------------------
Subs(t) == {s \in Tables : t[1] \in Classes /\ s[1] \in Classes /\ Super[s[1]] = t[1] /\ s[2] = t[2]}

\* The ___super and __downcast of a table are of the class it extends, and of
\* those that extend it, and of the same kind as the table.
BindInv ==
  /\ bound \subseteq Classes \cup Modules
  /\ EntriesInv(mt, bound)
  /\ super = [t \in Tables |-> super[t]]
  /\ \A t \in Tables : super[t] # None =>
        t[1] \in Classes /\ Super[t[1]] \in Classes /\ super[t] = <<Super[t[1]], t[2]>>
  /\ down \in [Tables -> Seq(Tables)]
  /\ \A t \in Tables : down[t] \in Seq(Subs(t))

LEMMA RegisterKeeps ==
  ASSUME BindInv, NEW t, NEW m, EntriesInv(m, bound), Register(t, m)
  PROVE  BindInv' /\ bound \subseteq bound'
BY DEF BindInv, Register, EntriesInv, HasGc, Subs

LEMMA DeclareKeeps ==
  ASSUME BindInv, pc \in DOMAIN Program, NEW d \in Program[pc], Declare(d)
  PROVE  BindInv' /\ bound \subseteq bound'
<1> DEFINE of == d.of
           n == d.name
<1>0. /\ of \in Classes \cup Modules
      /\ d.op \notin {"module", "module constant", "module variable", "module property",
                      "module function", "module factory", "forward"} => of \in Classes
      /\ d.op = "forward" => n \in Classes
      /\ d.op \in {"function", "metafunction"} => n # "__gc"
      /\ EntriesInv(mt, bound)
  BY ProgramAssumption DEF BindInv
<1>1. CASE d.op = "class" /\ Bind(of)
  <2>1. of \in Classes /\ EntriesInv(WithGc(BuildMetaTable(mt, of), of), bound \cup {of})
    BY <1>0, <1>1, BuildKeeps
  <2> HIDE DEF of
  <2> QED BY <1>1, <2>1 DEF Bind, BindInv, EntriesInv, HasGc, Subs
<1>2. CASE d.op = "extend" /\ Extend(of)
  <2>1. /\ of \in Classes /\ Super[of] \in Classes
        /\ EntriesInv(WithGc(BuildMetaTable(mt, of), of), bound \cup {of})
    <3>1. of \in Classes
      BY <1>0, <1>2
    <3>2. Super[of] \in Classes \cup {None} /\ Super[of] \in Classes \cup Modules
      BY <1>2, <3>1, ClassesAssumption DEF Extend, BindInv
    <3> QED BY <1>0, <3>1, <3>2, BuildKeeps, ClassesAssumption
  <2> HIDE DEF of
  <2>2. EntriesInv(mt, bound)' /\ bound' \subseteq Classes \cup Modules /\ bound \subseteq bound'
    BY <1>2, <2>1 DEF Extend, BindInv, EntriesInv, HasGc
  <2>3. ASSUME NEW t \in Tables
        PROVE  super'[t] # None =>
                 t[1] \in Classes /\ Super[t[1]] \in Classes /\ super'[t] = <<Super[t[1]], t[2]>>
    BY <1>2, <2>1 DEF Extend, BindInv, SuperTable
  <2>4. ASSUME NEW t \in Tables
        PROVE  down'[t] \in Seq(Tables) /\ down'[t] \in Seq(Subs(t))
    <3>1. down[t] \in Seq(Tables) /\ down[t] \in Seq(Subs(t))
      BY DEF BindInv
    <3>2. CASE t[1] = Super[of] /\ t[2] # "static"
      <4>1. <<of, t[2]>> \in Tables /\ <<of, t[2]>> \in Subs(t)
        BY <2>1, <3>2 DEF Subs, Tables
      <4>2. down'[t] = Append(down[t], <<of, t[2]>>)
        BY <1>2, <3>2 DEF Extend
      <4> QED BY <3>1, <4>1, <4>2, AppendProperties
    <3>3. CASE ~(t[1] = Super[of] /\ t[2] # "static")
      BY <1>2, <3>1, <3>3 DEF Extend
    <3> QED BY <3>2, <3>3
  <2>5. super' = [t \in Tables |-> super'[t]] /\ down' = [t \in Tables |-> down'[t]]
    BY <1>2 DEF Extend
  <2>6. down' \in [Tables -> Seq(Tables)]
    BY <2>4, <2>5
  <2> QED BY <2>2, <2>3, <2>4, <2>5, <2>6 DEF BindInv, Subs
<1>3. CASE d.op = "module" /\ BeginModule(of)
  <2>1. of \in Modules /\ of \notin Classes
    BY <1>3, ProgramAssumption, ClassesAssumption
  <2> HIDE DEF of
  <2>2. (bound \cup {of}) \cap Classes = bound \cap Classes
    BY <2>1
  <2> QED BY <1>3, <2>1, <2>2 DEF BeginModule, BindInv, EntriesInv, HasGc, Subs
<1>4. CASE /\ d.op \in {"constant", "static variable", "static property"}
           /\ \E wr : Register(of, Settable(of, n, wr))
  BY <1>0, <1>4, SettableKeeps, RegisterKeeps
<1>5. CASE d.op = "static function" /\ AddStaticFunction(of, n)
  BY <1>0, <1>5, StoresIn, EntriesFine, RawSetKeeps, RegisterKeeps DEF AddStaticFunction
<1>6. CASE d.op = "constructor" /\ AddConstructor(of, d.with[1])
  BY <1>0, <1>6, StoresIn, EntriesFine, RawSetKeeps, RegisterKeeps DEF AddConstructor
<1>7. CASE d.op = "factory" /\ AddFactory(of)
  BY <1>0, <1>7, StoresIn, EntriesFine, RawSetKeeps, RegisterKeeps DEF AddFactory
<1>8. CASE d.op = "variable" /\ AddVariable(of, n, d.with[1])
  <2> DEFINE m == SetMemberGetter(mt, of, n, Member(of, TRUE), Member(of, TRUE))
             r == IF d.with[1] THEN SetMemberSetter(m, of, n, Member(of, FALSE))
                               ELSE SetMemberReadOnly(m, of, n)
  <2>1. of \in Classes /\ EntriesInv(m, bound)
    BY <1>0, <1>8, MemberKeeps
  <2>2. EntriesInv(r, bound)
    <3> HIDE DEF m
    <3> QED BY <2>1, MemberKeeps
  <2>3. Register(of, r)
    BY <1>8 DEF AddVariable
  <2> HIDE DEF r
  <2> QED BY <2>2, <2>3, RegisterKeeps
<1>9. CASE d.op = "property" /\ AddProperty(of, n, d.with[1], d.with[2], d.with[3])
  <2> DEFINE m == SetMemberGetter(mt, of, n, Member(of, d.with[1]), Member(of, d.with[2]))
             r == IF d.with[3] THEN SetMemberSetter(m, of, n, Member(of, FALSE))
                               ELSE SetMemberReadOnly(m, of, n)
  <2>1. of \in Classes /\ EntriesInv(m, bound)
    BY <1>0, <1>9, MemberKeeps
  <2>2. EntriesInv(r, bound)
    <3> HIDE DEF m
    <3> QED BY <2>1, MemberKeeps
  <2>3. Register(of, r)
    BY <1>9 DEF AddProperty
  <2> HIDE DEF r
  <2> QED BY <2>2, <2>3, RegisterKeeps
<1>10. CASE d.op = "function" /\ AddFunction(of, n, d.with[1])
  BY <1>0, <1>10, EntriesFine, FunctionKeeps, RegisterKeeps DEF AddFunction
<1>11. CASE d.op = "indexer" /\ AddIndexer(of, d.with[1], d.with[2])
  <2> DEFINE m == SetMemberFunction(mt, of, "___get_indexed", Member(of, d.with[1]), d.with[1])
             r == IF d.with[2] THEN SetMemberFunction(m, of, "___set_indexed", Member(of, FALSE), FALSE)
                               ELSE m
  <2>1. of \in Classes /\ EntriesInv(m, bound)
    BY <1>0, <1>11, EntriesFine, FunctionKeeps
  <2>2. EntriesInv(r, bound)
    <3> HIDE DEF m
    <3> QED BY <2>1, EntriesFine, FunctionKeeps
  <2>3. Register(of, r)
    BY <1>11 DEF AddIndexer
  <2> HIDE DEF r
  <2> QED BY <2>2, <2>3, RegisterKeeps
<1>12. CASE d.op = "metafunction" /\ AddMetaFunction(of, n)
  BY <1>0, <1>12, EntriesFine, FunctionKeeps, RegisterKeeps DEF AddMetaFunction
<1>13. CASE d.op = "module function" /\ ModuleFunction(of, n)
  BY <1>0, <1>13, StoresIn, EntriesFine, RawSetKeeps, RegisterKeeps DEF ModuleFunction
<1>14. CASE d.op = "module factory" /\ ModuleFactory(of)
  BY <1>0, <1>14, StoresIn, EntriesFine, RawSetKeeps, RegisterKeeps DEF ModuleFactory
<1>15. CASE d.op = "forward" /\ ModuleForward(of, n)
  BY <1>0, <1>15, StoresIn, EntriesFine, RawSetKeeps, RegisterKeeps DEF ModuleForward
<1>16. CASE /\ d.op \in {"module constant", "module variable", "module property"}
            /\ \E wr : Register(of, Settable(of, n, wr))
  BY <1>0, <1>16, SettableKeeps, RegisterKeeps
<1> QED
  BY <1>1, <1>2, <1>3, <1>4, <1>5, <1>6, <1>7, <1>8, <1>9, <1>10, <1>11, <1>12, <1>13, <1>14, <1>15, <1>16
  DEF Declare, AddConstant, AddStaticVariable, AddStaticProperty, ModuleConstant, ModuleVariable,
      ModuleProperty

LEMMA AssignKeeps ==
  ASSUME BindInv, NEW m \in Modules, NEW n, ModuleAssign(m, n)
  PROVE  BindInv' /\ bound \subseteq bound'
<1>1. EntriesInv(RawSet(mt, <<m, "static">>, "field", n, Assigned), bound)
  BY StoresIn, EntriesFine, RawSetKeeps DEF BindInv
<1>2. Register(m, RawSet(mt, <<m, "static">>, "field", n, Assigned))
  BY DEF ModuleAssign, Register
<1> QED BY <1>1, <1>2, RegisterKeeps
-----------------------------------------------------------------------------
TableDepth == [t \in Tables |-> IF t[1] \in Classes THEN Depth[t[1]] ELSE 0]

LEMMA SuperTablesLead ==
  ASSUME BindInv
  PROVE  Leads(Tables, None, super, TableDepth, Size)
<1>1. /\ Size \in Nat /\ Depth \in [Classes -> 0 .. Size]
      /\ \A c \in Classes : Super[c] # None => Depth[Super[c]] < Depth[c]
  BY SuperLeads DEF Leads
<1>2. TableDepth \in [Tables -> 0 .. Size]
  BY <1>1 DEF TableDepth
<1>3. ASSUME NEW t \in Tables, super[t] # None
      PROVE  super[t] \in Tables /\ TableDepth[super[t]] < TableDepth[t]
  <2>1. t[1] \in Classes /\ Super[t[1]] \in Classes /\ super[t] = <<Super[t[1]], t[2]>>
    BY <1>3 DEF BindInv
  <2>2. super[t] \in Tables /\ super[t][1] = Super[t[1]]
    BY <2>1 DEF Tables
  <2> QED BY <1>1, <2>1, <2>2, ClassesAssumption DEF TableDepth
<1>4. super \in [Tables -> Tables \cup {None}]
  BY <1>3 DEF BindInv
<1> QED BY <1>1, <1>2, <1>3, <1>4 DEF Leads

\* What may be in the chain of a table
Above(t) == {s \in Tables : s[2] = t[2] /\ (t[1] \in Classes => s[1] \in Bases[t[1]])}

LEMMA ChainIs ==
  ASSUME BindInv
  PROVE  \A t \in Tables : Chain[t] = IF super[t] = None THEN <<t>> ELSE <<t>> \o Chain[super[t]]
<1> DEFINE base == [t \in Tables |-> <<t>>]
           step == [p \in Tables \X Seq(Tables) |-> <<p[1]>> \o p[2]]
<1>1. base \in [Tables -> Seq(Tables)] /\ step \in [Tables \X Seq(Tables) -> Seq(Tables)]
  OBVIOUS
<1>2. PICK f \in [Tables -> Seq(Tables)] : Recurs(f, Tables, None, super, base, step)
  <2> HIDE DEF base, step
  <2> QED BY <1>1, SuperTablesLead, Recursion
<1>3. ASSUME NEW t \in Tables
      PROVE  f[t] = IF super[t] = None THEN <<t>> ELSE <<t>> \o f[super[t]]
  <2>1. CASE super[t] = None
    BY <1>2, <2>1 DEF Recurs
  <2>2. CASE super[t] # None
    <3>1. super[t] \in Tables
      BY <2>2, SuperTablesLead DEF Leads
    <3>2. f[t] = step[<<t, f[super[t]]>>]
      <4> HIDE DEF base, step
      <4> QED BY <1>2, <2>2 DEF Recurs
    <3>3. <<t, f[super[t]]>> \in Tables \X Seq(Tables)
      BY <3>1
    <3> QED BY <2>2, <3>2, <3>3
  <2> QED BY <2>1, <2>2
<1>4. f = [t \in Tables |-> IF super[t] = None THEN <<t>> ELSE <<t>> \o f[super[t]]]
  <2> HIDE DEF base, step
  <2> QED BY <1>3
<1>5. Chain = [t \in Tables |-> IF super[t] = None THEN <<t>> ELSE <<t>> \o Chain[super[t]]]
  BY <1>4 DEF Chain
<1> QED BY <1>5

LEMMA ChainFacts ==
  ASSUME BindInv, NEW t \in Tables
  PROVE  Chain[t] \in Seq(Above(t))
<1> DEFINE Good == {q \in Tables : Chain[q] \in Seq(Above(q))}
<1>1. ASSUME NEW q \in Tables, super[q] # None => super[q] \in Good PROVE q \in Good
  <2>1. q \in Above(q)
    BY BasesFacts DEF Above
  <2>2. <<q>> \in Seq(Above(q))
    BY <2>1
  <2>3. CASE super[q] = None
    BY <2>2, <2>3, ChainIs
  <2>4. CASE super[q] # None
    <3>1. Chain[super[q]] \in Seq(Above(super[q]))
      BY <1>1, <2>4
    <3>2. q[1] \in Classes /\ Super[q[1]] \in Classes /\ super[q] = <<Super[q[1]], q[2]>>
      BY <2>4 DEF BindInv
    <3>3. Above(super[q]) \subseteq Above(q)
      BY <3>2, BaseOfClass DEF Above
    <3>4. Chain[super[q]] \in Seq(Above(q))
      BY <3>1, <3>3
    <3>5. <<q>> \o Chain[super[q]] \in Seq(Above(q))
      BY <2>2, <3>4, ConcatProperties
    <3> QED BY <2>4, <3>5, ChainIs
  <2> QED BY <2>3, <2>4
<1>2. Tables \subseteq Good
  <2> HIDE DEF Good
  <2> QED BY <1>1, SuperTablesLead, Descent
<1> QED BY <1>2

\* A userdata is taken only for a base of its metatable's class, and as const if that is.
LEMMA Taken ==
  ASSUME BindInv, NEW u, NEW c, NEW const \in BOOLEAN, GetObject(u, c, const),
         ud[u].meta \in Classes \X Kinds
  PROVE  c \in Bases[ud[u].meta[1]] /\ (~const => ud[u].meta[2] = "class")
<1> DEFINE t == IF const THEN <<ud[u].meta[1], "const">> ELSE ud[u].meta
<1>1. t \in Tables /\ t[1] = ud[u].meta[1] /\ t[1] \in Classes
  BY DEF Tables, Kinds
<1>2. PICK i \in DOMAIN Chain[t] : Chain[t][i] = <<c, Which(const)>>
  BY DEF GetObject
<1>3. t = (IF const THEN <<ud[u].meta[1], "const">> ELSE ud[u].meta)
  OBVIOUS
<1> HIDE DEF t
<1>4. Chain[t][i] \in Above(t)
  BY <1>1, <1>2, ChainFacts, ElementOfSeq
<1>5. c \in Bases[t[1]] /\ Which(const) = t[2]
  BY <1>1, <1>2, <1>4 DEF Above
<1> QED BY <1>1, <1>3, <1>5 DEF Which
-----------------------------------------------------------------------------
NoTable == CHOOSE x : x \notin Tables
Hits(o, t) == {i \in DOMAIN down[t] : TryDowncast(o, down[t][i])}
DownTo(o) == [t \in Tables |-> IF Hits(o, t) = {} THEN NoTable ELSE down[t][First(Hits(o, t))]]
DownDepth == [t \in Tables |-> IF t[1] \in Classes THEN Size - Depth[t[1]] ELSE 0]

LEMMA DownFacts ==
  ASSUME BindInv, NEW o, NEW t \in Tables, Hits(o, t) # {}
  PROVE  /\ DownTo(o)[t] = down[t][First(Hits(o, t))] /\ DownTo(o)[t] \in Subs(t)
         /\ DownTo(o)[t][1] \in Bases[obj[o].class]
<1>1. Hits(o, t) \in SUBSET Nat
  BY DEF BindInv, Hits
<1>2. First(Hits(o, t)) \in Hits(o, t)
  BY <1>1, Minimum DEF First
<1>3. down[t][First(Hits(o, t))] \in Subs(t)
  <2>1. First(Hits(o, t)) \in DOMAIN down[t] /\ down[t] \in Seq(Subs(t))
    BY <1>2 DEF Hits, BindInv
  <2> QED BY <2>1, ElementOfSeq
<1>4. DownTo(o)[t] = down[t][First(Hits(o, t))]
  BY DEF DownTo
<1> QED BY <1>2, <1>3, <1>4 DEF Hits, TryDowncast

LEMMA NoTableFacts == NoTable \notin Tables
<1>1. {x \in Tables : x \notin x} \notin Tables
  OBVIOUS
<1> QED BY <1>1 DEF NoTable

LEMMA DownLeads ==
  ASSUME BindInv, NEW o
  PROVE  Leads(Tables, NoTable, DownTo(o), DownDepth, Size)
<1>1. /\ Size \in Nat /\ Depth \in [Classes -> 0 .. Size]
      /\ \A c \in Classes : Super[c] # None => Depth[Super[c]] < Depth[c]
  BY SuperLeads DEF Leads
<1>2. DownDepth \in [Tables -> 0 .. Size]
  BY <1>1 DEF DownDepth
<1>3. ASSUME NEW t \in Tables, DownTo(o)[t] # NoTable
      PROVE  DownTo(o)[t] \in Tables /\ DownDepth[DownTo(o)[t]] < DownDepth[t]
  <2>1. Hits(o, t) # {}
    BY <1>3 DEF DownTo
  <2> DEFINE s == DownTo(o)[t]
  <2>2. s \in Tables /\ t[1] \in Classes /\ s[1] \in Classes /\ Super[s[1]] = t[1]
    BY <2>1, DownFacts DEF Subs
  <2> HIDE DEF s
  <2>3. Depth[t[1]] < Depth[s[1]]
    BY <1>1, <2>2, ClassesAssumption
  <2>4. DownDepth[s] = Size - Depth[s[1]] /\ DownDepth[t] = Size - Depth[t[1]]
    BY <2>2 DEF DownDepth
  <2>5. Depth[s[1]] \in Nat /\ Depth[t[1]] \in Nat
    BY <1>1, <2>2
  <2>6. DownDepth[s] < DownDepth[t]
    BY <1>1, <2>3, <2>4, <2>5
  <2> QED BY <2>2, <2>6 DEF s
<1>4. DownTo(o) \in [Tables -> Tables \cup {NoTable}]
  BY <1>3 DEF DownTo
<1> QED BY <1>1, <1>2, <1>3, <1>4 DEF Leads

Finds(f, o) ==
  f = [t \in Tables |-> LET hits == {i \in DOMAIN down[t] : TryDowncast(o, down[t][i])}
                        IN  IF hits = {} THEN t ELSE f[down[t][First(hits)]]]

LEMMA FindsIs ==
  ASSUME BindInv, NEW o
  PROVE  \E f : Finds(f, o)
<1> DEFINE base == [t \in Tables |-> t]
           step == [p \in Tables \X Tables |-> p[2]]
<1>1. base \in [Tables -> Tables] /\ step \in [Tables \X Tables -> Tables]
  OBVIOUS
<1>2. PICK f \in [Tables -> Tables] : Recurs(f, Tables, NoTable, DownTo(o), base, step)
  <2> HIDE DEF base, step
  <2> QED BY <1>1, DownLeads, Recursion
<1>3. ASSUME NEW t \in Tables
      PROVE  f[t] = IF Hits(o, t) = {} THEN t ELSE f[down[t][First(Hits(o, t))]]
  <2>1. CASE Hits(o, t) = {}
    <3>1. DownTo(o)[t] = NoTable
      BY <2>1 DEF DownTo
    <3> QED BY <1>2, <2>1, <3>1 DEF Recurs
  <2>2. CASE Hits(o, t) # {}
    <3>1. DownTo(o)[t] \in Tables /\ DownTo(o)[t] # NoTable
      BY <2>2, DownFacts, NoTableFacts DEF Subs
    <3>2. f[t] = step[<<t, f[DownTo(o)[t]]>>]
      <4> HIDE DEF base, step
      <4> QED BY <1>2, <3>1 DEF Recurs
    <3>3. <<t, f[DownTo(o)[t]]>> \in Tables \X Tables
      BY <3>1
    <3>4. f[t] = f[DownTo(o)[t]]
      BY <3>2, <3>3
    <3> QED BY <2>2, <3>4, DownFacts
  <2> QED BY <2>1, <2>2
<1>4. Finds(f, o)
  <2> HIDE DEF base, step
  <2> QED BY <1>3 DEF Finds, Hits
<1> QED BY <1>4

\* What a downcast leads to is a class of the object, and as const as before.
LEMMA FindFacts ==
  ASSUME BindInv, NEW o, NEW table \in Tables, table[1] \in Bases[obj[o].class]
  PROVE  /\ FindClassID(o, table) \in Tables
         /\ FindClassID(o, table)[1] \in Bases[obj[o].class]
         /\ FindClassID(o, table)[2] = table[2]
<1> DEFINE f == CHOOSE g : Finds(g, o)
           Fit(t, s) == s \in Tables /\ s[1] \in Bases[obj[o].class] /\ s[2] = t[2]
           Good == {t \in Tables : t[1] \in Bases[obj[o].class] => Fit(t, f[t])}
<1>1. Finds(f, o)
  BY FindsIs
<1>2. FindClassID(o, table) = f[table]
  BY DEF FindClassID, Finds
<1> HIDE DEF f
<1>3. ASSUME NEW t \in Tables, DownTo(o)[t] # NoTable => DownTo(o)[t] \in Good PROVE t \in Good
  <2>1. f[t] = IF Hits(o, t) = {} THEN t ELSE f[down[t][First(Hits(o, t))]]
    BY <1>1 DEF Finds, Hits
  <2>2. CASE Hits(o, t) = {}
    BY <2>1, <2>2
  <2>3. CASE Hits(o, t) # {}
    <3>1. /\ DownTo(o)[t] = down[t][First(Hits(o, t))] /\ DownTo(o)[t] \in Subs(t)
          /\ DownTo(o)[t][1] \in Bases[obj[o].class]
      BY <2>3, DownFacts
    <3>2. DownTo(o)[t] \in Good
      BY <1>3, <3>1, NoTableFacts DEF Subs
    <3>3. Fit(DownTo(o)[t], f[t])
      BY <2>1, <2>3, <3>1, <3>2
    <3>4. Fit(t, f[t])
      BY <3>1, <3>3 DEF Subs
    <3> QED BY <3>4
  <2> QED BY <2>2, <2>3
<1>4. Tables \subseteq Good
  <2> HIDE DEF Good
  <2> QED BY <1>3, DownLeads, Descent
<1> QED BY <1>2, <1>4
-----------------------------------------------------------------------------
ObjectSet == [class : Classes \cup {None}, alive : BOOLEAN, held : BOOLEAN,
              by : {"cpp", "value", "shared"}]
UserdataSet == [kind : {"none", "value", "shared", "ptr"}, obj : Objects \cup {None},
                meta : (Classes \X Kinds) \cup {None}, class : Classes \cup {None}, const : BOOLEAN]

ObjectTypes ==
  /\ obj \in [Objects -> ObjectSet]
  /\ ud \in [Userdata -> UserdataSet]

ObjectInv ==
  \A o \in Objects : /\ obj[o].alive => obj[o].class \in Classes
                     /\ obj[o].held => obj[o].alive /\ obj[o].by = "shared"

\* A userdata of the kind and metatable may be of an object that is like that.
Suits(x, y, b) ==
  /\ y.alive /\ x.meta \in Classes \X Kinds /\ x.meta[1] \in b \cap Bases[y.class]
  /\ x.const <=> x.meta[2] = "const"
  /\ x.kind = "value" => y.by = "value"
  /\ x.kind = "shared" => y.by = "shared"
  /\ x.kind = "ptr" => y.by = "cpp" \/ y.held

Has(u, o) == ud[u].kind # "none" /\ ud[u].obj = o

\* What has an object suits it; what Lua has a value of nothing else has; and
\* what Lua or a shared pointer owns somebody has.
HoldInv ==
  /\ \A u \in Live : ud[u].obj \in Objects /\ Suits(ud[u], obj[ud[u].obj], bound)
  /\ \A u, v \in Live : ud[u].kind = "value" /\ ud[u].obj = ud[v].obj => u = v
  /\ \A o \in Objects : obj[o].alive /\ obj[o].by # "cpp" =>
        obj[o].held \/ \E u \in Live : ud[u].obj = o

UserdataInv == ObjectTypes /\ ObjectInv /\ HoldInv

LEMMA LaterSuits ==
  ASSUME NEW x, NEW y, NEW b, NEW d, b \subseteq d, Suits(x, y, b)
  PROVE  Suits(x, y, d)
BY DEF Suits

LEMMA RegisterKeepsObj ==
  ASSUME UserdataInv, UNCHANGED <<obj, ud>>, bound \subseteq bound'
  PROVE  UserdataInv'
<1>1. ObjectTypes' /\ ObjectInv' /\ Live' = Live
  BY DEF UserdataInv, ObjectTypes, ObjectSet, UserdataSet, ObjectInv, Live
<1>2. HoldInv'
  BY <1>1, LaterSuits DEF UserdataInv, HoldInv
<1> QED BY <1>1, <1>2 DEF UserdataInv

\* A new userdata, of an object that is there
LEMMA PushedKeeps ==
  ASSUME UserdataInv, NEW u \in Userdata, NEW kind \in {"shared", "ptr"}, NEW o \in Alive,
         NEW table \in Classes \X Kinds, NEW c \in Classes, NEW const \in BOOLEAN,
         NewUserdata(u, kind, o, table, c, const), UNCHANGED <<bound, obj>>,
         table[1] \in Bases[obj[o].class], const <=> table[2] = "const",
         kind = "shared" => obj[o].by = "shared",
         kind = "ptr" => obj[o].by = "cpp" \/ obj[o].held
  PROVE  UserdataInv'
<1> DEFINE r == [kind |-> kind, obj |-> o, meta |-> table, class |-> c, const |-> const]
<1>1. /\ ud' = [ud EXCEPT ![u] = r] /\ ud[u] = NoUserdata /\ table[1] \in bound
      /\ o \in Objects /\ obj[o].alive
  BY DEF NewUserdata, Alive
<1>2. /\ r \in UserdataSet
      /\ r.kind = kind /\ r.obj = o /\ Suits(r, obj[o], bound)
  BY <1>1 DEF Suits, UserdataSet
<1> HIDE DEF r
<1>3. ObjectTypes' /\ ObjectInv'
  BY <1>1, <1>2 DEF UserdataInv, ObjectTypes, ObjectSet, UserdataSet, ObjectInv
<1>4. /\ ud'[u] = r /\ \A v \in Userdata : v # u => ud'[v] = ud[v]
      /\ Live' = Live \cup {u} /\ u \notin Live
  BY <1>1, <1>2 DEF UserdataInv, ObjectTypes, ObjectSet, UserdataSet, Live, NoUserdata
<1>5. \A v \in Live' : ud'[v].obj \in Objects /\ Suits(ud'[v], obj'[ud'[v].obj], bound')
  BY <1>1, <1>2, <1>4 DEF UserdataInv, HoldInv, Live
<1>6. \A v, w \in Live' : ud'[v].kind = "value" /\ ud'[v].obj = ud'[w].obj => v = w
  <2>1. ASSUME NEW v \in Live, ud[v].kind = "value", ud[v].obj = o PROVE FALSE
    BY <2>1 DEF UserdataInv, HoldInv, ObjectInv, Suits, Alive
  <2> QED BY <1>1, <1>2, <1>4, <2>1 DEF UserdataInv, HoldInv, Live
<1>7. \A p \in Objects : obj'[p].alive /\ obj'[p].by # "cpp" =>
        obj'[p].held \/ \E v \in Live' : ud'[v].obj = p
  BY <1>1, <1>4 DEF UserdataInv, HoldInv, Live
<1> QED BY <1>3, <1>5, <1>6, <1>7 DEF UserdataInv, HoldInv

\* A new userdata, of an object that is made for it
LEMMA MadeKeeps ==
  ASSUME UserdataInv, NEW u \in Userdata, NEW kind \in {"shared", "value"}, NEW o \in Objects,
         NEW c \in Classes, NEW const \in BOOLEAN,
         obj[o] = NoObject, obj' = [obj EXCEPT ![o] = Live1(o, c, kind)],
         NewUserdata(u, kind, o, <<c, Which(const)>>, c, const), UNCHANGED bound
  PROVE  UserdataInv'
<1> DEFINE table == <<c, Which(const)>>
           r == [kind |-> kind, obj |-> o, meta |-> table, class |-> c, const |-> const]
           y == Live1(o, c, kind)
<1>1. /\ ud' = [ud EXCEPT ![u] = r] /\ ud[u] = NoUserdata /\ table[1] \in bound /\ ~obj[o].alive
      /\ table \in Classes \X Kinds /\ table[1] = c
      /\ const <=> table[2] = "const"
  BY DEF NewUserdata, NoObject, Which, Kinds
<1>2. /\ y.alive /\ y.class = c /\ y.by = kind /\ ~y.held
      /\ y \in ObjectSet
  BY DEF Live1, ObjectSet
<1>3. /\ r \in UserdataSet
      /\ r.kind = kind /\ r.obj = o /\ r.meta = table /\ r.const = const
  <2> HIDE DEF table
  <2> QED BY <1>1 DEF UserdataSet
<1>4. Suits(r, y, bound)
  <2>1. /\ r.meta \in Classes \X Kinds /\ r.meta[1] \in bound \cap Bases[y.class]
        /\ r.const <=> r.meta[2] = "const"
    <3> HIDE DEF r, y, table
    <3> QED BY <1>1, <1>2, <1>3, BasesFacts
  <2> HIDE DEF r, y
  <2> QED BY <1>2, <1>3, <2>1 DEF Suits
<1> HIDE DEF r, y, table
<1>5. ObjectTypes' /\ ObjectInv'
  BY <1>1, <1>2, <1>3 DEF UserdataInv, ObjectTypes, ObjectSet, UserdataSet, ObjectInv, y
<1>6. /\ ud'[u] = r /\ \A v \in Userdata : v # u => ud'[v] = ud[v]
      /\ Live' = Live \cup {u} /\ u \notin Live
  BY <1>1, <1>3 DEF UserdataInv, ObjectTypes, ObjectSet, UserdataSet, Live, NoUserdata
<1>7. obj'[o] = y /\ \A p \in Objects : p # o => obj'[p] = obj[p]
  BY DEF UserdataInv, ObjectTypes, ObjectSet, UserdataSet, y
<1>8. \A v \in Live : ud[v].obj \in Objects /\ ud[v].obj # o
  BY <1>1 DEF UserdataInv, HoldInv, Suits
<1>9. \A v \in Live' : ud'[v].obj \in Objects /\ Suits(ud'[v], obj'[ud'[v].obj], bound')
  BY <1>3, <1>4, <1>6, <1>7, <1>8 DEF UserdataInv, HoldInv, Live
<1>10. \A v, w \in Live' : ud'[v].kind = "value" /\ ud'[v].obj = ud'[w].obj => v = w
  BY <1>3, <1>6, <1>8 DEF UserdataInv, HoldInv, Live
<1>11. \A p \in Objects : obj'[p].alive /\ obj'[p].by # "cpp" =>
        obj'[p].held \/ \E v \in Live' : ud'[v].obj = p
  BY <1>3, <1>6, <1>7 DEF UserdataInv, HoldInv, Live
<1> QED BY <1>5, <1>9, <1>10, <1>11 DEF UserdataInv, HoldInv

LEMMA ConstructKeeps ==
  ASSUME UserdataInv, BindInv, NEW u \in Userdata, NEW o \in Objects, NEW t \in Classes \cup Modules,
         Construct(u, o, t)
  PROVE  UserdataInv'
<1>1. PICK e \in Callee(t) :
        /\ e.kind = "constructor"
        /\ obj' = [obj EXCEPT ![o] = Live1(o, e.class, IF e.smart THEN "shared" ELSE "value")]
        /\ NewUserdata(u, IF e.smart THEN "shared" ELSE "value", o, <<e.class, "class">>, e.class, FALSE)
  BY DEF Construct
<1>2. e.class \in Classes
  <2> DEFINE call(x) == RawGet(<<x, "static">>, "field", "__call")
  <2>1. \A x \in Classes \cup Modules : \A f \in call(x) : Fine(f)
    BY DEF BindInv, EntriesInv, RawGet, Tables
  <2>2. PICK f \in call(t) : e \in IF f.kind = "forward" THEN call(f.to) ELSE {f}
    BY DEF Callee
  <2> HIDE DEF call
  <2>3. CASE f.kind = "forward"
    <3>1. f.to \in Classes
      BY <2>1, <2>3 DEF Fine
    <3> QED BY <1>1, <2>1, <2>2, <2>3, <3>1 DEF Fine
  <2>4. CASE f.kind # "forward"
    BY <1>1, <2>1, <2>2, <2>4 DEF Fine
  <2> QED BY <2>3, <2>4
<1> DEFINE kind == IF e.smart THEN "shared" ELSE "value"
<1>3. kind \in {"shared", "value"} /\ Which(FALSE) = "class" /\ obj[o] = NoObject /\ UNCHANGED bound
  BY DEF Construct, ObjectsChange, bindVars, Which
<1>4. /\ obj' = [obj EXCEPT ![o] = Live1(o, e.class, kind)]
      /\ NewUserdata(u, kind, o, <<e.class, Which(FALSE)>>, e.class, FALSE)
  BY <1>1, <1>3
<1> HIDE DEF kind
<1> QED BY <1>2, <1>3, <1>4, MadeKeeps

LEMMA NewKeeps ==
  ASSUME UserdataInv, NEW o \in Objects, NEW c \in Classes, NEW shared \in BOOLEAN, New(o, c, shared)
  PROVE  UserdataInv'
<1> DEFINE y == [class |-> c, alive |-> TRUE, held |-> shared, by |-> IF shared THEN "shared" ELSE "cpp"]
<1>1. /\ obj' = [obj EXCEPT ![o] = y] /\ ud' = ud /\ bound' = bound /\ ~obj[o].alive
  BY DEF New, NoObject, ObjectsChange, bindVars
<1>2. /\ y \in ObjectSet
      /\ y.class = c /\ y.alive /\ y.held = shared /\ y.by = IF shared THEN "shared" ELSE "cpp"
  BY DEF ObjectSet
<1> HIDE DEF y
<1>3. obj'[o] = y /\ \A p \in Objects : p # o => obj'[p] = obj[p]
  BY <1>1 DEF UserdataInv, ObjectTypes, ObjectSet, UserdataSet
<1>4. ObjectTypes' /\ ObjectInv' /\ Live' = Live
  BY <1>1, <1>2, <1>3 DEF UserdataInv, ObjectTypes, ObjectSet, UserdataSet, ObjectInv, Live
<1>5. \A v \in Live : ud[v].obj \in Objects /\ ud[v].obj # o
  BY <1>1 DEF UserdataInv, HoldInv, Suits
<1>6. HoldInv'
  BY <1>1, <1>2, <1>3, <1>4, <1>5 DEF UserdataInv, HoldInv
<1> QED BY <1>4, <1>6 DEF UserdataInv

LEMMA PushValueKeeps ==
  ASSUME UserdataInv, NEW u \in Userdata, NEW o \in Objects, NEW p \in Objects, NEW c \in Classes,
         NEW const \in BOOLEAN, PushValue(u, o, p, c, const)
  PROVE  UserdataInv'
BY MadeKeeps DEF PushValue, ObjectsChange, bindVars

LEMMA FoundMeta ==
  ASSUME UserdataInv, BindInv, NEW o \in Alive, NEW c \in Bases[obj[o].class], NEW const \in BOOLEAN
  PROVE  LET table == FindClassID(o, <<c, Which(const)>>)
         IN  /\ c \in Classes /\ table \in Classes \X Kinds /\ table[1] \in Bases[obj[o].class]
             /\ const <=> table[2] = "const"
<1> DEFINE t == <<c, Which(const)>>
           table == FindClassID(o, t)
<1>1. o \in Objects /\ obj[o].class \in Classes /\ c \in Classes /\ Bases[obj[o].class] \subseteq Classes
  BY BasesFacts DEF UserdataInv, ObjectInv, Alive
<1>3. t \in Tables /\ t[1] \in Bases[obj[o].class] /\ t[2] \in Kinds
  BY <1>1 DEF Tables, Which, Kinds
<1>4. const <=> t[2] = "const"
  BY DEF Which
<1> HIDE DEF t
<1>5. table \in Tables /\ table[1] \in Bases[obj[o].class] /\ table[2] = t[2]
  BY <1>3, FindFacts
<1>6. table \in Classes \X Kinds
  BY <1>1, <1>3, <1>5 DEF Tables, Kinds
<1> QED BY <1>1, <1>4, <1>5, <1>6 DEF t

LEMMA PushPtrKeeps ==
  ASSUME UserdataInv, BindInv, NEW u \in Userdata, NEW o \in Objects, NEW c \in Classes,
         NEW const \in BOOLEAN, PushPtr(u, o, c, const)
  PROVE  UserdataInv'
<1> DEFINE table == FindClassID(o, <<c, Which(const)>>)
<1>1. /\ table \in Classes \X Kinds /\ table[1] \in Bases[obj[o].class]
      /\ const <=> table[2] = "const"
      /\ o \in Alive
  BY FoundMeta DEF PushPtr
<1>2. NewUserdata(u, "ptr", o, table, c, const) /\ UNCHANGED <<bound, obj>>
  BY DEF PushPtr, ObjectsChange, bindVars
<1>3. obj[o].by = "cpp" \/ obj[o].held
  BY DEF PushPtr
<1> HIDE DEF table
<1> QED BY <1>1, <1>2, <1>3, PushedKeeps

LEMMA PushSharedKeeps ==
  ASSUME UserdataInv, BindInv, NEW u \in Userdata, NEW o \in Objects, NEW c \in Classes,
         NEW const \in BOOLEAN, PushShared(u, o, c, const)
  PROVE  UserdataInv'
<1> DEFINE table == FindClassID(o, <<c, Which(const)>>)
<1>1. /\ table \in Classes \X Kinds /\ table[1] \in Bases[obj[o].class]
      /\ const <=> table[2] = "const"
      /\ o \in Alive
  BY FoundMeta DEF PushShared
<1>2. NewUserdata(u, "shared", o, table, c, const) /\ UNCHANGED <<bound, obj>>
  BY DEF PushShared, ObjectsChange, bindVars
<1>3. obj[o].by = "shared"
  BY DEF PushShared, UserdataInv, ObjectInv
<1> HIDE DEF table
<1> QED BY <1>1, <1>2, <1>3, PushedKeeps

LEMMA TakeKeeps ==
  ASSUME UserdataInv, NEW u \in Userdata, NEW c \in Classes, NEW const \in BOOLEAN,
         TakeShared(u, c, const)
  PROVE  UserdataInv'
<1> DEFINE o == ud[u].obj
<1>1. /\ u \in Live /\ ud[u].kind = "shared" /\ ud' = ud /\ bound' = bound
      /\ obj' = [obj EXCEPT ![o].held = TRUE]
  BY DEF TakeShared, GetObject, ObjectsChange, bindVars
<1>2. o \in Objects /\ obj[o].alive /\ obj[o].by = "shared"
  BY <1>1 DEF UserdataInv, HoldInv, Suits
<1>3. /\ obj'[o].class = obj[o].class /\ obj'[o].alive /\ obj'[o].held /\ obj'[o].by = obj[o].by
      /\ \A p \in Objects : p # o => obj'[p] = obj[p]
  BY <1>1, <1>2 DEF UserdataInv, ObjectTypes, ObjectSet, UserdataSet
<1> HIDE DEF o
<1>4. ObjectTypes' /\ Live' = Live
  <2>1. [obj[o] EXCEPT !.held = TRUE] \in ObjectSet
    BY <1>2 DEF UserdataInv, ObjectTypes, ObjectSet
  <2> QED BY <1>1, <2>1 DEF UserdataInv, ObjectTypes, Live
<1>5. ObjectInv'
  BY <1>2, <1>3 DEF UserdataInv, ObjectInv
<1>6. HoldInv'
  <2>1. ASSUME NEW v \in Live
        PROVE  ud[v].obj \in Objects /\ Suits(ud[v], obj'[ud[v].obj], bound)
    BY <1>2, <1>3 DEF UserdataInv, HoldInv, Suits
  <2> QED BY <1>1, <1>3, <1>4, <2>1 DEF UserdataInv, HoldInv
<1> QED BY <1>4, <1>5, <1>6 DEF UserdataInv

\* An object goes that no userdata has.
LEMMA GoneKeeps ==
  ASSUME UserdataInv, NEW o \in Objects, \A u \in Live : ud[u].obj # o,
         obj' = [obj EXCEPT ![o] = NoObject], UNCHANGED <<ud, bound>>
  PROVE  UserdataInv'
<1>1. /\ obj'[o] = NoObject /\ \A p \in Objects : p # o => obj'[p] = obj[p]
      /\ NoObject \in ObjectSet
      /\ ~NoObject.alive /\ ~NoObject.held
  BY DEF UserdataInv, ObjectTypes, ObjectSet, UserdataSet, NoObject
<1>2. ObjectTypes' /\ ObjectInv' /\ Live' = Live
  BY <1>1 DEF UserdataInv, ObjectTypes, ObjectSet, UserdataSet, ObjectInv, Live
<1>3. HoldInv'
  BY <1>1, <1>2 DEF UserdataInv, HoldInv
<1> QED BY <1>2, <1>3 DEF UserdataInv

LEMMA DeleteKeeps ==
  ASSUME UserdataInv, NEW o \in Objects, Delete(o)
  PROVE  UserdataInv'
<1>1. ASSUME NEW u \in Live, ud[u].obj = o PROVE FALSE
  <2>1. ud[u].kind \in {"value", "shared", "ptr"} /\ Suits(ud[u], obj[o], bound) /\ u \in Userdata
    BY <1>1 DEF UserdataInv, ObjectTypes, ObjectSet, UserdataSet, HoldInv, Live
  <2>2. obj[o].by = "cpp" /\ ud[u].kind # "ptr"
    BY <1>1, <2>1 DEF Delete, Borrowed
  <2> QED BY <2>1, <2>2 DEF Suits
<1> QED BY <1>1, GoneKeeps DEF Delete, ObjectsChange, bindVars

LEMMA DropKeeps ==
  ASSUME UserdataInv, NEW o \in Objects, Drop(o)
  PROVE  UserdataInv'
<1>1. /\ obj[o].alive /\ obj[o].held /\ obj[o].by = "shared" /\ ud' = ud /\ bound' = bound
      /\ \A u \in Userdata : ud[u].obj = o => ud[u].kind # "ptr"
  BY DEF Drop, Alive, Borrowed, ObjectsChange, bindVars, UserdataInv, ObjectInv
<1>2. ASSUME NEW u \in Live, ud[u].obj = o PROVE u \in Sharing(o)
  <2>1. ud[u].kind \in {"value", "shared", "ptr"} /\ Suits(ud[u], obj[o], bound) /\ u \in Userdata
    BY <1>2 DEF UserdataInv, ObjectTypes, ObjectSet, UserdataSet, HoldInv, Live
  <2> QED BY <1>1, <1>2, <2>1 DEF Suits, Sharing
<1>3. CASE Sharing(o) = {}
  <2>1. obj' = [obj EXCEPT ![o] = NoObject]
    BY <1>3 DEF Drop
  <2> QED BY <1>1, <1>2, <1>3, <2>1, GoneKeeps
<1>4. CASE Sharing(o) # {}
  <2>1. PICK w \in Live : ud[w].obj = o
    BY <1>4 DEF Sharing, Live
  <2>2. obj' = [obj EXCEPT ![o].held = FALSE]
    BY <1>4 DEF Drop
  <2>3. /\ obj'[o].class = obj[o].class /\ obj'[o].alive /\ ~obj'[o].held /\ obj'[o].by = obj[o].by
        /\ \A p \in Objects : p # o => obj'[p] = obj[p]
    BY <1>1, <2>2 DEF UserdataInv, ObjectTypes, ObjectSet, UserdataSet
  <2>4. ObjectTypes' /\ Live' = Live
    <3>1. [obj[o] EXCEPT !.held = FALSE] \in ObjectSet
      BY DEF UserdataInv, ObjectTypes, ObjectSet
    <3> QED BY <1>1, <2>2, <3>1 DEF UserdataInv, ObjectTypes, Live
  <2>5. ObjectInv'
    BY <1>1, <2>3 DEF UserdataInv, ObjectInv
  <2>6. ASSUME NEW v \in Live
        PROVE  ud[v].obj \in Objects /\ Suits(ud[v], obj'[ud[v].obj], bound)
    <3>1. ud[v].obj \in Objects /\ Suits(ud[v], obj[ud[v].obj], bound) /\ v \in Userdata
      BY DEF UserdataInv, HoldInv, Live
    <3>2. ud[v].obj = o => ud[v].kind # "ptr"
      BY <1>1, <3>1
    <3> QED BY <2>3, <3>1, <3>2 DEF Suits
  <2>7. HoldInv'
    BY <1>1, <2>1, <2>3, <2>4, <2>6 DEF UserdataInv, HoldInv
  <2> QED BY <2>4, <2>5, <2>7 DEF UserdataInv
<1> QED BY <1>3, <1>4

LEMMA GcKeeps ==
  ASSUME UserdataInv, BindInv, NEW u \in Userdata, Gc(u)
  PROVE  UserdataInv'
<1> DEFINE o == ud[u].obj
           last == ud[u].kind = "value" \/ (ud[u].kind = "shared" /\ Sharing(o) = {u} /\ ~obj[o].held)
<1>1. /\ u \in Live /\ ud' = [ud EXCEPT ![u] = NoUserdata] /\ bound' = bound
      /\ o \in Objects /\ obj[o].alive /\ Suits(ud[u], obj[o], bound)
      /\ ud[u].kind \in {"value", "shared", "ptr"}
  <2>1. u \in Live /\ ud' = [ud EXCEPT ![u] = NoUserdata] /\ bound' = bound
    BY DEF Gc, ObjectsChange, bindVars
  <2>2. o \in Objects /\ Suits(ud[u], obj[o], bound)
    BY <2>1 DEF UserdataInv, HoldInv
  <2>3. ud[u].kind \in {"value", "shared", "ptr"}
    BY <2>1 DEF UserdataInv, ObjectTypes, UserdataSet, Live
  <2> QED BY <2>1, <2>2, <2>3 DEF Suits
<1>2. \E e \in RawGet(ud[u].meta, "field", "__gc") : GetExactObject(u, e.class, e.const)
  <2>1. PICK c \in Classes, w \in Kinds : ud[u].meta = <<c, w>> /\ c \in bound
    BY <1>1 DEF Suits
  <2>2. PICK x \in mt[<<c, w>>] : x.part = "field" /\ x.name = "__gc" /\ x.entry = Destructor(c, w = "const")
    BY <2>1 DEF BindInv, EntriesInv, HasGc
  <2>3. x.entry \in RawGet(ud[u].meta, "field", "__gc")
    BY <2>1, <2>2 DEF RawGet
  <2>4. x.entry.class = c /\ x.entry.const = (w = "const")
    BY <2>2 DEF Destructor
  <2>5. Which(x.entry.const) = w
    BY <2>4 DEF Which, Kinds
  <2> QED BY <1>1, <2>1, <2>3, <2>4, <2>5 DEF GetExactObject
<1>3. obj' = IF last THEN [obj EXCEPT ![o] = NoObject] ELSE obj
  BY <1>2 DEF Gc
<1>4. /\ \A v \in Live : v # u => ud'[v] = ud[v]
      /\ Live' = Live \ {u} /\ ud'[u] = NoUserdata
  BY <1>1 DEF UserdataInv, ObjectTypes, ObjectSet, UserdataSet, Live, NoUserdata
<1>5. /\ NoUserdata \in UserdataSet
      /\ NoObject \in ObjectSet
      /\ ~NoObject.alive /\ ~NoObject.held
  BY DEF NoUserdata, NoObject, ObjectSet, UserdataSet
<1>6. ObjectTypes'
  <2> HIDE DEF o, last
  <2> QED BY <1>1, <1>3, <1>5 DEF UserdataInv, ObjectTypes, ObjectSet, UserdataSet
<1>7. last => /\ obj'[o] = NoObject /\ \A p \in Objects : p # o => obj'[p] = obj[p]
              /\ \A v \in Live : v # u => ud[v].obj # o
  <2>1. ASSUME last, NEW v \in Live, v # u, ud[v].obj = o PROVE FALSE
    <3>1. /\ Suits(ud[v], obj[o], bound) /\ ud[v].kind \in {"value", "shared", "ptr"}
          /\ v \in Userdata
      BY <2>1 DEF UserdataInv, ObjectTypes, ObjectSet, UserdataSet, HoldInv, Live
    <3>2. CASE ud[u].kind = "value"
      BY <1>1, <2>1, <3>2 DEF UserdataInv, HoldInv
    <3>3. CASE ud[u].kind = "shared" /\ Sharing(o) = {u} /\ ~obj[o].held
      BY <1>1, <2>1, <3>1, <3>3 DEF Suits, Sharing
    <3> QED BY <2>1, <3>2, <3>3
  <2>2. last => obj'[o] = NoObject /\ \A p \in Objects : p # o => obj'[p] = obj[p]
    <3> HIDE DEF o, last
    <3> QED BY <1>1, <1>3 DEF UserdataInv, ObjectTypes, ObjectSet, UserdataSet
  <2> QED BY <2>1, <2>2
<1>8. ~last => \/ obj[o].by = "cpp" \/ obj[o].held
               \/ \E v \in Live : v # u /\ ud[v].obj = o
  <2>1. ASSUME ud[u].kind = "shared", Sharing(o) # {u} PROVE \E v \in Live : v # u /\ ud[v].obj = o
    BY <1>1, <2>1 DEF Sharing, Live
  <2> QED BY <1>1, <2>1 DEF Suits
<1> HIDE DEF o, last
<1>9. ObjectInv'
  BY <1>3, <1>5, <1>7 DEF UserdataInv, ObjectInv
<1>10. \A v \in Live' : ud'[v].obj \in Objects /\ Suits(ud'[v], obj'[ud'[v].obj], bound')
  BY <1>1, <1>3, <1>4, <1>7 DEF UserdataInv, HoldInv
<1>11. \A v, w \in Live' : ud'[v].kind = "value" /\ ud'[v].obj = ud'[w].obj => v = w
  BY <1>4 DEF UserdataInv, HoldInv
<1>12. ASSUME NEW p \in Objects, obj'[p].alive, obj'[p].by # "cpp"
       PROVE  obj'[p].held \/ \E v \in Live' : ud'[v].obj = p
  <2>1. obj'[p] = obj[p]
    BY <1>3, <1>5, <1>7, <1>12
  <2>2. obj[p].held \/ \E v \in Live : ud[v].obj = p
    BY <1>12, <2>1 DEF UserdataInv, HoldInv
  <2>3. CASE p = o
    <3>1. ~last
      BY <1>5, <1>7, <1>12, <2>3
    <3> QED BY <1>4, <1>8, <1>12, <2>1, <2>3, <3>1
  <2>4. CASE p # o
    BY <1>4, <2>1, <2>2, <2>4 DEF o
  <2> QED BY <2>3, <2>4
<1> QED BY <1>6, <1>9, <1>10, <1>11, <1>12 DEF UserdataInv, HoldInv
-----------------------------------------------------------------------------
Invariant == BindInv /\ UserdataInv

LEMMA InitInvariant == Init => Invariant
<1> SUFFICES ASSUME Init PROVE Invariant
  OBVIOUS
<1> USE DEF Init, InitBinding
<1>1. BindInv
  <2>1. EntriesInv(mt, bound)
    BY DEF EntriesInv
  <2>2. \A t \in Tables : down[t] \in Seq(Tables) /\ down[t] \in Seq(Subs(t))
    BY EmptySeq
  <2> QED BY <2>1, <2>2 DEF BindInv
<1>2. NoObject \in ObjectSet /\ NoUserdata \in UserdataSet
  BY DEF NoObject, NoUserdata, ObjectSet, UserdataSet
<1>3. Live = {} /\ \A o \in Objects : ~obj[o].alive /\ ~obj[o].held
  BY DEF Live, NoObject, NoUserdata
<1>4. UserdataInv
  BY <1>2, <1>3 DEF UserdataInv, ObjectTypes, ObjectInv, HoldInv
<1> QED BY <1>1, <1>4 DEF Invariant

LEMMA StepInvariant == Invariant /\ [Next]_vars => Invariant'
<1> SUFFICES ASSUME Invariant, [Next]_vars PROVE Invariant'
  OBVIOUS
<1>0. BindInv /\ UserdataInv
  BY DEF Invariant
<1>1. CASE Register1
  <2>1. PICK d \in Program[pc] : Declare(d)
    BY <1>1 DEF Register1
  <2>2. pc \in DOMAIN Program /\ UNCHANGED <<obj, ud>>
    BY <1>1 DEF Register1
  <2> QED BY <1>0, <2>1, <2>2, DeclareKeeps, RegisterKeepsObj DEF Invariant
<1>2. ASSUME NEW m \in Modules, NEW n, Assign(m, n) PROVE Invariant'
  BY <1>0, <1>2, AssignKeeps, RegisterKeepsObj DEF Assign, Invariant
<1>3. ASSUME UNCHANGED bindVars PROVE BindInv'
  BY <1>0, <1>3 DEF bindVars, BindInv, EntriesInv, HasGc, Subs
<1>4. ASSUME NEW o \in Objects,
             (\E c \in Classes, shared \in BOOLEAN : New(o, c, shared)) \/ Delete(o) \/ Drop(o)
      PROVE  Invariant'
  <2>1. UNCHANGED bindVars
    BY <1>4 DEF New, Delete, Drop, ObjectsChange
  <2> QED BY <1>0, <1>3, <1>4, <2>1, NewKeeps, DeleteKeeps, DropKeeps DEF Invariant
<1>5. ASSUME NEW u \in Userdata, NEW o \in Objects, NEW t \in Classes \cup Modules, Construct(u, o, t)
      PROVE  Invariant'
  <2>1. UNCHANGED bindVars
    BY <1>5 DEF Construct, ObjectsChange
  <2> QED BY <1>0, <1>3, <1>5, <2>1, ConstructKeeps DEF Invariant
<1>6. ASSUME NEW u \in Userdata, NEW c \in Classes, NEW const \in BOOLEAN,
             \/ TakeShared(u, c, const)
             \/ \E o \in Objects : \/ PushPtr(u, o, c, const) \/ PushShared(u, o, c, const)
                                   \/ \E p \in Objects : PushValue(u, o, p, c, const)
      PROVE  Invariant'
  <2>1. UNCHANGED bindVars
    BY <1>6 DEF TakeShared, PushPtr, PushShared, PushValue, ObjectsChange
  <2> QED BY <1>0, <1>3, <1>6, <2>1, TakeKeeps, PushPtrKeeps, PushSharedKeeps, PushValueKeeps DEF Invariant
<1>7. ASSUME NEW u \in Userdata, Gc(u) PROVE Invariant'
  <2>1. UNCHANGED bindVars
    BY <1>7 DEF Gc, ObjectsChange
  <2> QED BY <1>0, <1>3, <1>7, <2>1, GcKeeps DEF Invariant
<1>8. CASE UNCHANGED vars
  BY <1>0, <1>3, <1>8, RegisterKeepsObj DEF vars, bindVars, Invariant
<1> QED BY <1>1, <1>2, <1>4, <1>5, <1>6, <1>7, <1>8 DEF Next

\* The metatables of what a script has stay those of the C++ objects they are of.
THEOREM ObjectInvariant == Spec => []Invariant
BY InitInvariant, StepInvariant, PTL DEF Spec

\* A userdata is taken for no more than its object is, const or not.
THEOREM ConversionsRight == Spec => []ConversionsKept
<1>1. Invariant => ConversionsKept
  <2> SUFFICES ASSUME Invariant PROVE ConversionsKept
    OBVIOUS
  <2>1. ASSUME NEW u \in Live
        PROVE  /\ ud[u].meta \in Classes \X Kinds /\ ud[u].meta[1] \in Bases[obj[ud[u].obj].class]
               /\ ud[u].const => ud[u].meta[2] = "const"
               /\ obj[ud[u].obj].class \in Classes
    BY DEF Invariant, UserdataInv, HoldInv, ObjectInv, Suits
  <2>2. ConstKept
    BY <2>1, Taken DEF ConstKept, Invariant
  <2>3. TypeKept
    BY <2>1, Taken, BasesFacts DEF TypeKept, Invariant
  <2> QED BY <2>2, <2>3 DEF ConversionsKept
<1> QED BY <1>1, ObjectInvariant, PTL

\* An object lives as long as Lua or a shared pointer owns it, and no longer.
THEOREM LifetimesKept == Spec => []LifeKept
<1>1. Invariant => LifeKept
  BY DEF Invariant, UserdataInv, HoldInv, Suits, LifeKept, Alive
<1> QED BY <1>1, ObjectInvariant, PTL
-----------------------------------------------------------------------------
(* What a look-up finds is what the program registered: the entries that   *)
(* each registration stores, the tables they end up in, and the chain of   *)
(* classes along which __index and __newindex go.                          *)

Statics   == {"constant", "static variable", "static property",
              "module constant", "module variable", "module property"}
Functions == {"static function", "module function"}

\* The names that matter to a look-up
KeyNames == Names \cup {"___get_indexed", "___set_indexed"}

\* The entries that a registration makes, in one of the tables of its class
SetterEntry(d, w) ==
  IF ~Writable(d) THEN ErrorReadOnly ELSE IF w = "class" THEN Member(d.of, FALSE) ELSE ErrorConstMismatch
GetterEntry(d, w) ==
  IF d.op = "variable" THEN Member(d.of, TRUE)
  ELSE Member(d.of, IF w = "class" THEN d.with[1] ELSE d.with[2])
FunctionEntry(d, w) ==
  IF w = "class" \/ d.with[1] THEN Member(d.of, d.with[1]) ELSE ErrorConstMismatch
IndexSetterEntry(d, w) == IF w = "class" THEN Member(d.of, FALSE) ELSE ErrorConstMismatch
StaticEntry(d, part) == IF part = "set" /\ ReadOnly(d) THEN ErrorReadOnly ELSE Static(d.of, d.name)

\* Where a registration stores: in which table, which part and under which name;
\* and what it stores there
Places(d, w, part, n) ==
  \/ d.op \in Statics /\ w = "static" /\ part \in {"get", "set"} /\ n = d.name
  \/ d.op \in Functions /\ w = "static" /\ part = "field" /\ n = d.name
  \/ d.op \in {"variable", "property"} /\ w \in Kinds /\ part \in {"get", "set"} /\ n = d.name
  \/ d.op = "function" /\ w \in Kinds /\ part = "field" /\ n = d.name
  \/ d.op = "indexer" /\ w \in Kinds /\ part = "field" /\ n = "___get_indexed"
  \/ d.op = "indexer" /\ d.with[2] /\ w \in Kinds /\ part = "field" /\ n = "___set_indexed"
Entry(d, w, part, n) ==
  IF d.op \in Statics \cup Functions THEN StaticEntry(d, part)
  ELSE IF d.op = "indexer" /\ n = "___set_indexed" THEN IndexSetterEntry(d, w)
  ELSE IF d.op \in {"function", "indexer"} THEN FunctionEntry(d, w)
  ELSE IF part = "get" THEN GetterEntry(d, w) ELSE SetterEntry(d, w)

LEMMA NameFacts ==
  /\ \A d \in Registrations :
       /\ d.op \in MemberOps \cup StaticOps \cup ModuleOps => d.name \in Names
       /\ d.op = "metafunction" => d.name \notin KeyNames
       /\ d.op \in MemberOps => (d.op = "indexer" <=> d.name = "number")
  /\ "__gc" \notin KeyNames /\ "__call" \notin KeyNames /\ "class" \notin KeyNames
  /\ "___get_indexed" \notin Names /\ "___set_indexed" \notin Names
BY NamesAssumption DEF Names, KeyNames, OwnFields

LEMMA WithFacts ==
  ASSUME NEW d \in Registrations
  PROVE  /\ d.op \in {"function", "variable", "static variable", "static property",
                      "module variable", "module property", "indexer", "property"} => d.with[1] \in BOOLEAN
         /\ d.op \in {"indexer", "property"} => d.with[2] \in BOOLEAN
         /\ d.op = "property" => d.with[3] \in BOOLEAN
<1>1. 1 \in 1 .. 3 /\ 2 \in 1 .. 3 /\ 3 \in 1 .. 3
  OBVIOUS
<1> QED BY <1>1, NamesAssumption

LEMMA OwnerFacts ==
  ASSUME NEW d \in Registrations
  PROVE  /\ d.op \in ModuleOps => d.of \in Modules
         /\ d.op \in MemberOps \cup StaticOps => d.of \in Classes
BY ProgramAssumption DEF Registrations, ModuleOps, MemberOps, StaticOps

LEMMA SameRegistration ==
  ASSUME NEW d \in Registrations, NEW e \in Registrations, d.of = e.of, d.name = e.name
  PROVE  /\ d.op \in MemberOps /\ e.op \in MemberOps => d = e
         /\ d.op \in StaticOps \cup ModuleOps /\ e.op \in StaticOps \cup ModuleOps => d = e
<1>1. ASSUME NEW ops \in {MemberOps, StaticOps, ModuleOps}, d.op \in ops, e.op \in ops PROVE d = e
  <2>1. {d.op, e.op} \subseteq ops
    BY <1>1
  <2>2. \A x, y \in Registrations, all \in {MemberOps, StaticOps, ModuleOps} :
          {x.op, y.op} \subseteq all /\ x.of = y.of /\ x.name = y.name => x = y
    BY NamesAssumption
  <2> QED BY <2>1, <2>2
<1>2. ~(d.op \in StaticOps /\ e.op \in ModuleOps) /\ ~(d.op \in ModuleOps /\ e.op \in StaticOps)
  BY OwnerFacts, ClassesAssumption
<1> QED BY <1>1, <1>2

\* What is stored under a name is stored by what is registered under it, but for indexers.
LEMMA StoredBy ==
  ASSUME NEW d \in Registrations, NEW w, NEW part, NEW n, Places(d, w, part, n)
  PROVE  /\ w \in Kinds => d.op \in MemberOps
         /\ w = "static" => d.op \in StaticOps \cup ModuleOps
         /\ w \in Kinds \cup {"static"}
         /\ d.op # "indexer" => n = d.name /\ n \in Names
         /\ d.op = "indexer" => d.name = "number" /\ n \in {"___get_indexed", "___set_indexed"}
         /\ w = "static" /\ part = "field" => d.op \in Functions
         /\ w = "static" /\ part # "field" => d.op \in Statics
<1>1. /\ w \in Kinds => d.op \in MemberOps
      /\ w = "static" => d.op \in StaticOps \cup ModuleOps
      /\ w \in Kinds \cup {"static"}
      /\ d.op # "indexer" => n = d.name
      /\ d.op = "indexer" => n \in {"___get_indexed", "___set_indexed"}
      /\ w = "static" /\ part = "field" => d.op \in Functions
      /\ w = "static" /\ part # "field" => d.op \in Statics
  BY DEF Places, Statics, Functions, Kinds, MemberOps, StaticOps, ModuleOps
<1> QED BY <1>1, NameFacts DEF MemberOps

\* What is stored in one place, one registration of its owner stores there.
LEMMA OneStores ==
  ASSUME NEW d \in Registrations, NEW e \in Registrations, d.of = e.of,
         NEW w, NEW part, NEW n, Places(d, w, part, n), Places(e, w, part, n)
  PROVE  d = e
<1>1. d.name = e.name
  BY StoredBy, NameFacts
<1> QED BY <1>1, StoredBy, SameRegistration
-----------------------------------------------------------------------------
\* The entries of a table under a name
Got(m, t, part, n) == {x.entry : x \in {y \in m[t] : y.part = part /\ y.name = n}}

\* The tables r are m but for an entry under a name, or one in both tables of
\* the objects of a class.
Puts(m, r, t, part, n, e) ==
  /\ r = [q \in Tables |-> r[q]]
  /\ \A q \in Tables : \A p, k :
       Got(r, q, p, k) = IF q = t /\ p = part /\ k = n THEN {e} ELSE Got(m, q, p, k)
PutsBoth(m, r, c, part, n, e, f) ==
  /\ r = [q \in Tables |-> r[q]]
  /\ \A q \in Tables : \A p, k :
       Got(r, q, p, k) = IF q[1] = c /\ q[2] \in Kinds /\ p = part /\ k = n
                         THEN {IF q[2] = "class" THEN e ELSE f} ELSE Got(m, q, p, k)

LEMMA RawSetPuts ==
  ASSUME NEW m, m = [t \in Tables |-> m[t]], NEW t \in Tables, NEW part, NEW n, NEW e
  PROVE  Puts(m, RawSet(m, t, part, n, e), t, part, n, e)
<1> DEFINE r == RawSet(m, t, part, n, e)
           new == [part |-> part, name |-> n, entry |-> e]
<1>1. r = [q \in Tables |-> r[q]]
  BY DEF RawSet
<1>2. \A q \in Tables : r[q] = IF q = t THEN {x \in m[t] : <<x.part, x.name>> # <<part, n>>} \cup {new}
                                       ELSE m[q]
  BY DEF RawSet
<1>3. new.part = part /\ new.name = n /\ new.entry = e
  OBVIOUS
<1> HIDE DEF r, new
<1>4. Got(r, t, part, n) = {e}
  <2>1. {y \in r[t] : y.part = part /\ y.name = n} = {new}
    BY <1>2, <1>3
  <2> QED BY <1>3, <2>1 DEF Got
<1>5. ASSUME NEW q \in Tables, NEW p, NEW k, ~(q = t /\ p = part /\ k = n)
      PROVE  Got(r, q, p, k) = Got(m, q, p, k)
  <2>1. {y \in r[q] : y.part = p /\ y.name = k} = {y \in m[q] : y.part = p /\ y.name = k}
    BY <1>2, <1>3, <1>5
  <2> QED BY <2>1 DEF Got
<1>6. Puts(m, r, t, part, n, e)
  BY <1>1, <1>4, <1>5 DEF Puts
<1> QED BY <1>6 DEF r

LEMMA PairPuts ==
  ASSUME NEW m, m = [t \in Tables |-> m[t]], NEW c \in Classes, NEW part, NEW n, NEW e, NEW f
  PROVE  PutsBoth(m, RawSet(RawSet(m, <<c, "class">>, part, n, e), <<c, "const">>, part, n, f), c, part, n, e, f)
<1> DEFINE s == RawSet(m, <<c, "class">>, part, n, e)
           r == RawSet(s, <<c, "const">>, part, n, f)
<1>1. <<c, "class">> \in Tables /\ <<c, "const">> \in Tables
  BY DEF Tables
<1>2. Puts(m, s, <<c, "class">>, part, n, e)
  BY <1>1, RawSetPuts
<1>3. Puts(s, r, <<c, "const">>, part, n, f)
  <2>1. s = [q \in Tables |-> s[q]]
    BY <1>2 DEF Puts
  <2> HIDE DEF s
  <2> QED BY <1>1, <2>1, RawSetPuts
<1> HIDE DEF s, r
<1>4. \A q \in Tables : /\ q = <<c, "class">> <=> q[1] = c /\ q[2] = "class"
                        /\ q = <<c, "const">> <=> q[1] = c /\ q[2] = "const"
  BY DEF Tables
<1>5. ASSUME NEW q \in Tables, NEW p, NEW k
      PROVE  Got(r, q, p, k) = IF q[1] = c /\ q[2] \in Kinds /\ p = part /\ k = n
                                    THEN {IF q[2] = "class" THEN e ELSE f} ELSE Got(m, q, p, k)
  <2>1. Got(r, q, p, k) = IF q = <<c, "const">> /\ p = part /\ k = n THEN {f} ELSE Got(s, q, p, k)
    BY <1>3 DEF Puts
  <2>2. Got(s, q, p, k) = IF q = <<c, "class">> /\ p = part /\ k = n THEN {e} ELSE Got(m, q, p, k)
    BY <1>2 DEF Puts
  <2> QED BY <1>4, <2>1, <2>2 DEF Kinds
<1>6. r = [q \in Tables |-> r[q]]
  BY <1>3 DEF Puts
<1>7. PutsBoth(m, r, c, part, n, e, f)
  BY <1>5, <1>6 DEF PutsBoth
<1> QED BY <1>7 DEF r, s

\* The tables r are m with what the registration stores, as to the names that matter.
Written(m, r, d) ==
  /\ r = [q \in Tables |-> r[q]]
  /\ \A q \in Tables : \A p : \A k \in KeyNames :
       Got(r, q, p, k) = IF d.of = q[1] /\ Places(d, q[2], p, k) THEN {Entry(d, q[2], p, k)}
                         ELSE Got(m, q, p, k)

LEMMA SettableWrites ==
  ASSUME NEW m, m = [t \in Tables |-> m[t]], NEW d \in Registrations, d.op \in Statics,
         NEW s, s = SetStaticGetter(m, d.of, d.name),
         NEW r, r = IF ReadOnly(d) THEN SetStaticReadOnly(s, d.of, d.name)
                                   ELSE SetStaticSetter(s, d.of, d.name)
  PROVE  Written(m, r, d)
<1> DEFINE t == <<d.of, "static">>
           e == IF ReadOnly(d) THEN ErrorReadOnly ELSE Static(d.of, d.name)
<1>1. t \in Tables /\ \A q \in Tables : q = t <=> q[1] = d.of /\ q[2] = "static"
  <2>1. d.op \in StaticOps \cup ModuleOps
    BY DEF Statics, StaticOps, ModuleOps
  <2>2. d.of \in Classes \cup Modules
    BY <2>1, OwnerFacts
  <2> QED BY <2>2 DEF Tables
<1>2. Puts(m, s, t, "get", d.name, Static(d.of, d.name))
  BY <1>1, RawSetPuts DEF SetStaticGetter
<1>3. Puts(s, r, t, "set", d.name, e)
  <2>1. s = [q \in Tables |-> s[q]]
    BY <1>2 DEF Puts
  <2> QED BY <1>1, <2>1, RawSetPuts DEF SetStaticReadOnly, SetStaticSetter
<1>4. ASSUME NEW q \in Tables, NEW p, NEW k \in KeyNames
      PROVE  Got(r, q, p, k) = IF d.of = q[1] /\ Places(d, q[2], p, k) THEN {Entry(d, q[2], p, k)}
                               ELSE Got(m, q, p, k)
  <2>1. Places(d, q[2], p, k) <=> q[2] = "static" /\ p \in {"get", "set"} /\ k = d.name
    BY DEF Places, Statics, Functions
  <2>2. /\ Entry(d, q[2], "set", k) = e
        /\ Entry(d, q[2], "get", k) = Static(d.of, d.name)
    BY DEF Entry, StaticEntry
  <2>3. Got(r, q, p, k) = IF q = t /\ p = "set" /\ k = d.name THEN {e} ELSE Got(s, q, p, k)
    BY <1>3 DEF Puts
  <2>4. Got(s, q, p, k) = IF q = t /\ p = "get" /\ k = d.name THEN {Static(d.of, d.name)} ELSE Got(m, q, p, k)
    BY <1>2 DEF Puts
  <2> HIDE DEF t, e
  <2> QED BY <1>1, <2>1, <2>2, <2>3, <2>4
<1> QED BY <1>3, <1>4 DEF Written, Puts

LEMMA StaticFunctionWrites ==
  ASSUME NEW m, m = [t \in Tables |-> m[t]], NEW d \in Registrations, d.op \in Functions
  PROVE  Written(m, RawSet(m, <<d.of, "static">>, "field", d.name, Static(d.of, d.name)), d)
<1> DEFINE t == <<d.of, "static">>
           r == RawSet(m, t, "field", d.name, Static(d.of, d.name))
<1>1. t \in Tables /\ \A q \in Tables : q = t <=> q[1] = d.of /\ q[2] = "static"
  <2>1. d.op \in StaticOps \cup ModuleOps
    BY DEF Functions, StaticOps, ModuleOps
  <2>2. d.of \in Classes \cup Modules
    BY <2>1, OwnerFacts
  <2> QED BY <2>2 DEF Tables
<1>2. Puts(m, r, t, "field", d.name, Static(d.of, d.name))
  BY <1>1, RawSetPuts
<1>3. ASSUME NEW q \in Tables, NEW p, NEW k \in KeyNames
      PROVE  Got(r, q, p, k) = IF d.of = q[1] /\ Places(d, q[2], p, k) THEN {Entry(d, q[2], p, k)}
                               ELSE Got(m, q, p, k)
  <2>1. Places(d, q[2], p, k) <=> q[2] = "static" /\ p = "field" /\ k = d.name
    BY DEF Places, Statics, Functions
  <2>2. Entry(d, q[2], "field", k) = Static(d.of, d.name)
    BY DEF Entry, StaticEntry
  <2>3. Got(r, q, p, k) = IF q = t /\ p = "field" /\ k = d.name THEN {Static(d.of, d.name)} ELSE Got(m, q, p, k)
    BY <1>2 DEF Puts
  <2> HIDE DEF t, r
  <2> QED BY <1>1, <2>1, <2>2, <2>3
<1> HIDE DEF t, r
<1>4. Written(m, r, d)
  BY <1>2, <1>3 DEF Written, Puts
<1> QED BY <1>4 DEF t, r

\* A getter and a setter in both tables of the objects of a class
LEMMA ValueWrites ==
  ASSUME NEW m, m = [t \in Tables |-> m[t]], NEW d \in Registrations, d.op \in {"variable", "property"},
         NEW s, s = SetMemberGetter(m, d.of, d.name, GetterEntry(d, "class"), GetterEntry(d, "const"))
  PROVE  Written(m, IF Writable(d) THEN SetMemberSetter(s, d.of, d.name, Member(d.of, FALSE))
                                   ELSE SetMemberReadOnly(s, d.of, d.name), d)
<1> DEFINE c == d.of
           x == GetterEntry(d, "class")
           y == GetterEntry(d, "const")
           n == d.name
           f == SetterEntry(d, "class")
           g == SetterEntry(d, "const")
           r == IF Writable(d) THEN SetMemberSetter(s, c, n, Member(c, FALSE)) ELSE SetMemberReadOnly(s, c, n)
<1>1. c \in Classes
  BY OwnerFacts DEF MemberOps
<1>2. PutsBoth(m, s, c, "get", n, x, y)
  BY <1>1, PairPuts DEF SetMemberGetter
<1>3. PutsBoth(s, r, c, "set", n, f, g)
  <2>1. s = [q \in Tables |-> s[q]]
    BY <1>2 DEF PutsBoth
  <2>2. r = RawSet(RawSet(s, <<c, "class">>, "set", n, f), <<c, "const">>, "set", n, g)
    BY DEF SetMemberSetter, SetMemberReadOnly, SetterEntry
  <2> HIDE DEF f, g, r
  <2> QED BY <1>1, <2>1, <2>2, PairPuts
<1> HIDE DEF f, g, r, x, y
<1>4. ASSUME NEW q \in Tables, NEW p, NEW k \in KeyNames
      PROVE  Got(r, q, p, k) = IF d.of = q[1] /\ Places(d, q[2], p, k) THEN {Entry(d, q[2], p, k)}
                               ELSE Got(m, q, p, k)
  <2>1. Places(d, q[2], p, k) <=> q[2] \in Kinds /\ p \in {"get", "set"} /\ k = n
    BY DEF Places, Statics, Functions
  <2>2. /\ Entry(d, q[2], "set", k) = SetterEntry(d, q[2])
        /\ Entry(d, q[2], "get", k) = GetterEntry(d, q[2])
    BY DEF Entry, Statics, Functions
  <2>3. Got(r, q, p, k) = IF q[1] = c /\ q[2] \in Kinds /\ p = "set" /\ k = n
                          THEN {IF q[2] = "class" THEN f ELSE g} ELSE Got(s, q, p, k)
    BY <1>3 DEF PutsBoth
  <2>4. Got(s, q, p, k) = IF q[1] = c /\ q[2] \in Kinds /\ p = "get" /\ k = n
                          THEN {IF q[2] = "class" THEN x ELSE y} ELSE Got(m, q, p, k)
    BY <1>2 DEF PutsBoth
  <2> HIDE DEF n
  <2> QED BY <2>1, <2>2, <2>3, <2>4 DEF Kinds, f, g, x, y
<1>5. Written(m, r, d)
  BY <1>3, <1>4 DEF Written, PutsBoth
<1> QED BY <1>5 DEF r

LEMMA FunctionWrites ==
  ASSUME NEW m, m = [t \in Tables |-> m[t]], NEW d \in Registrations, d.op = "function"
  PROVE  Written(m, SetMemberFunction(m, d.of, d.name, Member(d.of, d.with[1]), d.with[1]), d)
<1> DEFINE c == d.of
           n == d.name
           f == FunctionEntry(d, "class")
           g == FunctionEntry(d, "const")
           r == SetMemberFunction(m, c, n, Member(c, d.with[1]), d.with[1])
<1>1. c \in Classes
  BY OwnerFacts DEF MemberOps
<1>2. r = RawSet(RawSet(m, <<c, "class">>, "field", n, f), <<c, "const">>, "field", n, g)
  BY DEF SetMemberFunction, FunctionEntry
<1> HIDE DEF f, g, r
<1>3. PutsBoth(m, r, c, "field", n, f, g)
  BY <1>1, <1>2, PairPuts
<1>4. ASSUME NEW q \in Tables, NEW p, NEW k \in KeyNames
      PROVE  Got(r, q, p, k) = IF d.of = q[1] /\ Places(d, q[2], p, k) THEN {Entry(d, q[2], p, k)}
                               ELSE Got(m, q, p, k)
  <2>1. Places(d, q[2], p, k) <=> q[2] \in Kinds /\ p = "field" /\ k = n
    BY DEF Places, Statics, Functions
  <2>2. Entry(d, q[2], "field", k) = FunctionEntry(d, q[2])
    BY DEF Entry, Statics, Functions
  <2>3. Got(r, q, p, k) = IF q[1] = c /\ q[2] \in Kinds /\ p = "field" /\ k = n
                          THEN {IF q[2] = "class" THEN f ELSE g} ELSE Got(m, q, p, k)
    BY <1>3 DEF PutsBoth
  <2> HIDE DEF n
  <2> QED BY <2>1, <2>2, <2>3 DEF Kinds, f, g
<1>5. Written(m, r, d)
  BY <1>3, <1>4 DEF Written, PutsBoth
<1> QED BY <1>5 DEF r

LEMMA IndexerWrites ==
  ASSUME NEW m, m = [t \in Tables |-> m[t]], NEW d \in Registrations, d.op = "indexer",
         NEW s, s = SetMemberFunction(m, d.of, "___get_indexed", Member(d.of, d.with[1]), d.with[1])
  PROVE  Written(m, IF d.with[2] THEN SetMemberFunction(s, d.of, "___set_indexed", Member(d.of, FALSE), FALSE)
                                 ELSE s, d)
<1> DEFINE c == d.of
           f == FunctionEntry(d, "class")
           g == FunctionEntry(d, "const")
           v == SetMemberFunction(s, c, "___set_indexed", Member(c, FALSE), FALSE)
           r == IF d.with[2] THEN v ELSE s
<1>1. c \in Classes
  BY OwnerFacts DEF MemberOps
<1>2. PutsBoth(m, s, c, "field", "___get_indexed", f, g)
  <2>1. s = RawSet(RawSet(m, <<c, "class">>, "field", "___get_indexed", f),
                   <<c, "const">>, "field", "___get_indexed", g)
    BY DEF SetMemberFunction, FunctionEntry
  <2> HIDE DEF f, g
  <2> QED BY <1>1, <2>1, PairPuts
<1>3. PutsBoth(s, v, c, "field", "___set_indexed", IndexSetterEntry(d, "class"), IndexSetterEntry(d, "const"))
  <2>1. s = [q \in Tables |-> s[q]]
    BY <1>2 DEF PutsBoth
  <2>2. v = RawSet(RawSet(s, <<c, "class">>, "field", "___set_indexed", IndexSetterEntry(d, "class")),
                   <<c, "const">>, "field", "___set_indexed", IndexSetterEntry(d, "const"))
    BY DEF SetMemberFunction, IndexSetterEntry
  <2> HIDE DEF v
  <2> QED BY <1>1, <2>1, <2>2, PairPuts
<1>4. r = (IF d.with[2] THEN v ELSE s)
  OBVIOUS
<1> HIDE DEF v, r, f, g
<1>5. r = [q \in Tables |-> r[q]]
  BY <1>2, <1>3, <1>4 DEF PutsBoth
<1>6. ASSUME NEW q \in Tables, NEW p, NEW k \in KeyNames
      PROVE  Got(r, q, p, k) = IF d.of = q[1] /\ Places(d, q[2], p, k) THEN {Entry(d, q[2], p, k)}
                               ELSE Got(m, q, p, k)
  <2>1. Places(d, q[2], p, k) <=> /\ q[2] \in Kinds /\ p = "field"
                                  /\ k = "___get_indexed" \/ (k = "___set_indexed" /\ d.with[2])
    BY DEF Places, Statics, Functions
  <2>2. /\ Entry(d, q[2], "field", "___get_indexed") = FunctionEntry(d, q[2])
        /\ Entry(d, q[2], "field", "___set_indexed") = IndexSetterEntry(d, q[2])
    BY DEF Entry, Statics, Functions
  <2>3. Got(s, q, p, k) = IF q[1] = c /\ q[2] \in Kinds /\ p = "field" /\ k = "___get_indexed"
                          THEN {IF q[2] = "class" THEN f ELSE g} ELSE Got(m, q, p, k)
    BY <1>2 DEF PutsBoth
  <2>4. Got(v, q, p, k) = IF q[1] = c /\ q[2] \in Kinds /\ p = "field" /\ k = "___set_indexed"
                          THEN {IF q[2] = "class" THEN IndexSetterEntry(d, "class")
                                                  ELSE IndexSetterEntry(d, "const")} ELSE Got(s, q, p, k)
    BY <1>3 DEF PutsBoth
  <2>5. CASE d.with[2]
    <3>1. Got(r, q, p, k) = Got(v, q, p, k)
      BY <1>4, <2>5
    <3> QED BY <2>1, <2>2, <2>3, <2>4, <2>5, <3>1 DEF Kinds, f, g
  <2>6. CASE ~d.with[2]
    <3>1. Got(r, q, p, k) = Got(s, q, p, k)
      BY <1>4, <2>6
    <3> QED BY <2>1, <2>2, <2>3, <2>6, <3>1 DEF Kinds, f, g
  <2> QED BY <2>5, <2>6
<1>7. Written(m, r, d)
  BY <1>5, <1>6 DEF Written
<1> QED BY <1>7 DEF r, v

\* What is stored under other names does not matter.
LEMMA OtherWrites ==
  ASSUME NEW m, NEW d, d.op \notin Statics \cup Functions \cup MemberOps, NEW n, n \notin KeyNames,
         NEW r, NEW t, NEW part, NEW e, NEW f, Puts(m, r, t, part, n, e) \/ PutsBoth(m, r, t, part, n, e, f)
  PROVE  Written(m, r, d)
<1>1. \A w, p, k : ~Places(d, w, p, k)
  BY DEF Places, MemberOps
<1> QED BY <1>1 DEF Written, Puts, PutsBoth

LEMMA DeclareWrites ==
  ASSUME BindInv, pc \in DOMAIN Program, NEW d \in Program[pc], Declare(d)
  PROVE  Written(mt, mt', d)
<1> DEFINE of == d.of
           n == d.name
<1>0. /\ mt = [t \in Tables |-> mt[t]] /\ d \in Registrations
      /\ of \in Classes => <<of, "static">> \in Tables
      /\ of \in Modules => <<of, "static">> \in Tables
  BY DEF BindInv, EntriesInv, Registrations, Tables
<1>1. ASSUME NEW writable \in BOOLEAN, d.op \in Statics, writable <=> ~ReadOnly(d),
             Register(of, Settable(of, n, writable))
      PROVE  Written(mt, mt', d)
  <2> DEFINE s == SetStaticGetter(mt, of, n)
             r == IF ReadOnly(d) THEN SetStaticReadOnly(s, of, n) ELSE SetStaticSetter(s, of, n)
  <2>1. mt' = r
    BY <1>1 DEF Register, Settable
  <2>2. Written(mt, r, d)
    BY <1>0, <1>1, SettableWrites
  <2> HIDE DEF r
  <2> QED BY <2>1, <2>2
<1>2. CASE \/ d.op = "constant" /\ AddConstant(of, n)
           \/ d.op = "module constant" /\ ModuleConstant(of, n)
  <2>1. Register(of, Settable(of, n, FALSE)) /\ ReadOnly(d) /\ d.op \in Statics
    BY <1>2 DEF AddConstant, ModuleConstant, ReadOnly, Statics
  <2> QED BY <1>1, <2>1
<1>3. CASE \/ d.op = "static variable" /\ AddStaticVariable(of, n, d.with[1])
           \/ d.op = "static property" /\ AddStaticProperty(of, n, d.with[1])
           \/ d.op = "module variable" /\ ModuleVariable(of, n, d.with[1])
           \/ d.op = "module property" /\ ModuleProperty(of, n, d.with[1])
  <2>1. Register(of, Settable(of, n, d.with[1])) /\ d.op \in Statics
    BY <1>3 DEF AddStaticVariable, AddStaticProperty, ModuleVariable, ModuleProperty, Statics
  <2>2. ReadOnly(d) <=> ~d.with[1]
    BY <1>3 DEF ReadOnly
  <2>3. d.with[1] \in BOOLEAN
    BY <1>0, <1>3, WithFacts
  <2> QED BY <1>1, <2>1, <2>2, <2>3
<1>4. CASE \/ d.op = "static function" /\ AddStaticFunction(of, n)
           \/ d.op = "module function" /\ ModuleFunction(of, n)
  <2>1. mt' = RawSet(mt, <<of, "static">>, "field", n, Static(of, n)) /\ d.op \in Functions
    BY <1>4 DEF AddStaticFunction, ModuleFunction, Register, Functions
  <2> QED BY <1>0, <2>1, StaticFunctionWrites
<1>5. CASE \/ d.op = "variable" /\ AddVariable(of, n, d.with[1])
           \/ d.op = "property" /\ AddProperty(of, n, d.with[1], d.with[2], d.with[3])
  <2> DEFINE s == SetMemberGetter(mt, of, n, GetterEntry(d, "class"), GetterEntry(d, "const"))
             r == IF Writable(d) THEN SetMemberSetter(s, of, n, Member(of, FALSE))
                                 ELSE SetMemberReadOnly(s, of, n)
  <2>1. mt' = r
    <3>1. CASE d.op = "variable" /\ AddVariable(of, n, d.with[1])
      BY <3>1 DEF AddVariable, Register, GetterEntry, Writable
    <3>2. CASE d.op = "property" /\ AddProperty(of, n, d.with[1], d.with[2], d.with[3])
      BY <3>2 DEF AddProperty, Register, GetterEntry, Writable
    <3> QED BY <1>5, <3>1, <3>2
  <2>2. Written(mt, r, d)
    BY <1>0, <1>5, ValueWrites
  <2> HIDE DEF r
  <2> QED BY <2>1, <2>2
<1>6. CASE d.op = "function" /\ AddFunction(of, n, d.with[1])
  <2> DEFINE r == SetMemberFunction(mt, of, n, Member(of, d.with[1]), d.with[1])
  <2>1. Written(mt, r, d)
    BY <1>0, <1>6, FunctionWrites
  <2>2. mt' = r
    BY <1>6 DEF AddFunction, Register
  <2> HIDE DEF r
  <2> QED BY <2>1, <2>2
<1>7. CASE d.op = "indexer" /\ AddIndexer(of, d.with[1], d.with[2])
  <2> DEFINE s == SetMemberFunction(mt, of, "___get_indexed", Member(of, d.with[1]), d.with[1])
             r == IF d.with[2] THEN SetMemberFunction(s, of, "___set_indexed", Member(of, FALSE), FALSE) ELSE s
  <2>1. Written(mt, r, d)
    BY <1>0, <1>7, IndexerWrites
  <2>2. mt' = r
    BY <1>7 DEF AddIndexer, Register
  <2> HIDE DEF r
  <2> QED BY <2>1, <2>2
<1>8. CASE d.op \in {"class", "extend"} /\ mt' = WithGc(BuildMetaTable(mt, of), of)
  <2> DEFINE s == BuildMetaTable(mt, of)
             r == WithGc(s, of)
  <2>1. of \in Classes /\ d.op \notin Statics \cup Functions \cup MemberOps
    BY <1>8, ProgramAssumption DEF Statics, Functions, MemberOps
  <2>2. PutsBoth(mt, s, of, "field", "class", ClassTable(of), ClassTable(of))
    BY <1>0, <2>1, PairPuts DEF BuildMetaTable
  <2>3. Written(mt, s, d)
    <3> HIDE DEF s
    <3> QED BY <2>1, <2>2, NameFacts, OtherWrites
  <2>4. s = [q \in Tables |-> s[q]]
    BY <2>2 DEF PutsBoth
  <2>5. PutsBoth(s, r, of, "field", "__gc", Destructor(of, FALSE), Destructor(of, TRUE))
    <3> HIDE DEF s
    <3> QED BY <2>1, <2>4, PairPuts DEF WithGc
  <2> HIDE DEF r, s
  <2>6. Written(s, r, d)
    BY <2>1, <2>5, NameFacts, OtherWrites
  <2>7. \A w, p, k : ~Places(d, w, p, k)
    BY <2>1 DEF Places, MemberOps
  <2>8. Written(mt, r, d)
    BY <2>3, <2>6, <2>7 DEF Written
  <2> QED BY <1>8, <2>8 DEF r, s
<1>9. CASE d.op = "metafunction" /\ AddMetaFunction(of, n)
  <2> DEFINE e == Static(of, n)
             r == RawSet(RawSet(mt, <<of, "class">>, "field", n, e), <<of, "const">>, "field", n, e)
  <2>1. of \in Classes /\ d.op \notin Statics \cup Functions \cup MemberOps
    BY <1>9, ProgramAssumption DEF Statics, Functions, MemberOps
  <2>2. PutsBoth(mt, r, of, "field", n, e, e)
    BY <1>0, <2>1, PairPuts
  <2>3. mt' = r
    BY <1>9 DEF AddMetaFunction, SetMemberFunction, Register
  <2> HIDE DEF r, e
  <2>4. Written(mt, r, d)
    BY <1>0, <1>9, <2>1, <2>2, NameFacts, OtherWrites
  <2> QED BY <2>3, <2>4
<1>10. CASE \/ d.op = "constructor" /\ AddConstructor(of, d.with[1])
            \/ d.op = "factory" /\ AddFactory(of)
            \/ d.op = "module factory" /\ ModuleFactory(of)
            \/ d.op = "forward" /\ ModuleForward(of, n)
  <2>1. PICK e : mt' = RawSet(mt, <<of, "static">>, "field", "__call", e)
    BY <1>10 DEF AddConstructor, AddFactory, ModuleFactory, ModuleForward, Register
  <2> DEFINE r == RawSet(mt, <<of, "static">>, "field", "__call", e)
  <2>2. of \in Classes \cup Modules /\ d.op \notin Statics \cup Functions \cup MemberOps
    BY <1>10, ProgramAssumption DEF Statics, Functions, MemberOps
  <2>3. Puts(mt, r, <<of, "static">>, "field", "__call", e)
    BY <1>0, <2>2, RawSetPuts
  <2> HIDE DEF r
  <2>4. Written(mt, r, d)
    BY <2>2, <2>3, NameFacts, OtherWrites
  <2> QED BY <2>1, <2>4 DEF r
<1>11. CASE d.op = "module" /\ mt' = mt
  <2>1. \A w, p, k : ~Places(d, w, p, k)
    BY <1>11 DEF Places, Statics, Functions
  <2> QED BY <1>0, <1>11, <2>1 DEF Written
<1> QED
  BY <1>2, <1>3, <1>4, <1>5, <1>6, <1>7, <1>8, <1>9, <1>10, <1>11
  DEF Declare, Bind, Extend, BeginModule
-----------------------------------------------------------------------------
Parts == {"field", "get", "set"}

\* The registrations that store under a name of a table
Mine(t, part, n) == {d \in declared : d.of = t[1] /\ Places(d, t[2], part, n)}

\* The entries of a table are those of the registrations, but for the fields of
\* a module that a script assigned: those have no setter.
NamesInv ==
  /\ declared \subseteq Registrations /\ \A d \in declared : d.of \in bound
  /\ \A t \in Tables, part \in Parts, n \in KeyNames :
       \/ Got(mt, t, part, n) = {Entry(d, t[2], part, n) : d \in Mine(t, part, n)}
       \/ /\ part = "field" /\ t[1] \in Modules /\ Got(mt, t, part, n) = {Assigned}
          /\ \A d \in declared : d.of = t[1] /\ d.name = n => d.op \notin Statics
  /\ \A t \in Tables : super[t] # None <=> \E d \in declared : d.op = "extend" /\ d.of = t[1]

LEMMA RawGetIs == \A t, part, n : RawGet(t, part, n) = Got(mt, t, part, n)
BY DEF RawGet, Got

LEMMA DeclareNames ==
  ASSUME BindInv, NamesInv, pc \in DOMAIN Program, NEW d \in Program[pc], Declare(d),
         declared' = declared \cup {d}
  PROVE  NamesInv'
<1>0. d \in Registrations /\ Written(mt, mt', d) /\ declared' \subseteq Registrations
  BY DeclareWrites DEF Registrations, NamesInv
<1>1. ASSUME NEW t \in Tables, NEW part \in Parts, NEW n \in KeyNames
      PROVE  \/ Got(mt', t, part, n) = {Entry(e, t[2], part, n) : e \in Mine(t, part, n)'}
             \/ /\ part = "field" /\ t[1] \in Modules /\ Got(mt', t, part, n) = {Assigned}
                /\ \A e \in declared' : e.of = t[1] /\ e.name = n => e.op \notin Statics
  <2>1. CASE d.of = t[1] /\ Places(d, t[2], part, n)
    <3>1. Mine(t, part, n)' = {d}
      BY <1>0, <2>1, OneStores DEF Mine
    <3>2. Got(mt', t, part, n) = {Entry(d, t[2], part, n)}
      BY <1>0, <2>1 DEF Written
    <3> QED BY <3>1, <3>2
  <2>2. CASE ~(d.of = t[1] /\ Places(d, t[2], part, n))
    <3>1. Mine(t, part, n)' = Mine(t, part, n)
      BY <2>2 DEF Mine
    <3>2. Got(mt', t, part, n) = Got(mt, t, part, n)
      BY <1>0, <2>2 DEF Written
    <3>3. CASE Got(mt, t, part, n) = {Entry(e, t[2], part, n) : e \in Mine(t, part, n)}
      BY <3>1, <3>2, <3>3
    <3>4. CASE /\ part = "field" /\ t[1] \in Modules /\ Got(mt, t, part, n) = {Assigned}
               /\ \A e \in declared : e.of = t[1] /\ e.name = n => e.op \notin Statics
      <4>1. ASSUME d.of = t[1], d.name = n, d.op \in Statics PROVE FALSE
        <5>1. d.op \in {"module constant", "module variable", "module property"}
          BY <1>0, <3>4, <4>1, OwnerFacts, ClassesAssumption DEF Statics, StaticOps
        <5>2. Free(d.of, d.name)
          BY <5>1 DEF Declare, ModuleConstant, ModuleVariable, ModuleProperty
        <5>3. t = <<d.of, "static">>
          BY <3>4, <4>1, ClassesAssumption DEF Tables
        <5> QED BY <3>4, <4>1, <5>2, <5>3, RawGetIs DEF Free
      <4> QED BY <3>2, <3>4, <4>1
    <3> QED BY <3>3, <3>4 DEF NamesInv
  <2> QED BY <2>1, <2>2
<1>2. \A e \in declared' : e.of \in bound'
  <2>1. bound \subseteq bound' /\ d.of \in bound'
    BY DEF Declare, Bind, Extend, BeginModule, Register, AddConstant, AddStaticVariable, AddStaticProperty,
           AddStaticFunction, AddConstructor, AddFactory, AddVariable, AddProperty, AddFunction, AddIndexer,
           AddMetaFunction, ModuleConstant, ModuleVariable, ModuleProperty, ModuleFunction, ModuleFactory,
           ModuleForward
  <2> QED BY <2>1 DEF NamesInv
<1>3. ASSUME NEW t \in Tables
      PROVE  super'[t] # None <=> \E e \in declared' : e.op = "extend" /\ e.of = t[1]
  <2>1. CASE d.op = "extend" /\ Extend(d.of)
    <3>1. d.of \in Classes /\ Super[d.of] \in Classes
      <4>1. d.of \in Classes
        BY <2>1, ProgramAssumption
      <4>2. Super[d.of] \in Classes \cup {None} /\ Super[d.of] \in Classes \cup Modules
        BY <2>1, <4>1, ClassesAssumption DEF Extend, BindInv
      <4> QED BY <4>1, <4>2, ClassesAssumption
    <3>2. super'[t] = IF t[1] = d.of THEN <<Super[d.of], t[2]>> ELSE super[t]
      BY <2>1 DEF Extend, SuperTable
    <3>3. t[1] = d.of => <<Super[d.of], t[2]>> \in Tables
      BY <3>1 DEF Tables
    <3> QED BY <2>1, <3>2, <3>3, ClassesAssumption DEF NamesInv
  <2>2. CASE d.op # "extend" /\ super' = super
    BY <2>2 DEF NamesInv
  <2>3. d.op # "extend" => super' = super
    BY DEF Declare, Bind, BeginModule, Register, AddConstant, AddStaticVariable, AddStaticProperty,
           AddStaticFunction, AddConstructor, AddFactory, AddVariable, AddProperty, AddFunction, AddIndexer,
           AddMetaFunction, ModuleConstant, ModuleVariable, ModuleProperty, ModuleFunction, ModuleFactory,
           ModuleForward
  <2>4. d.op = "extend" => Extend(d.of)
    BY DEF Declare
  <2> QED BY <2>1, <2>2, <2>3, <2>4
<1> QED BY <1>0, <1>1, <1>2, <1>3 DEF NamesInv

LEMMA AssignNames ==
  ASSUME BindInv, NamesInv, NEW m \in Modules, NEW n \in Names, ModuleAssign(m, n), declared' = declared
  PROVE  NamesInv'
<1> DEFINE s == <<m, "static">>
<1>1. s \in Tables /\ n \in KeyNames /\ s[1] = m /\ s[2] = "static"
  BY DEF Tables, KeyNames
<1>2. Puts(mt, mt', s, "field", n, Assigned)
  BY <1>1, RawSetPuts DEF ModuleAssign, BindInv, EntriesInv
<1>3. ASSUME NEW d \in declared, d.of = m, d.name = n, d.op \in Statics PROVE FALSE
  <2>1. Got(mt, s, "set", n) = {}
    BY RawGetIs DEF ModuleAssign
  <2>2. d \in Mine(s, "set", n)
    BY <1>1, <1>3 DEF Mine, Places
  <2>3. Got(mt, s, "set", n) = {Entry(e, s[2], "set", n) : e \in Mine(s, "set", n)}
    <3> HIDE DEF s
    <3> QED BY <1>1 DEF NamesInv, Parts
  <2> QED BY <2>1, <2>2, <2>3
<1> HIDE DEF s
<1>4. ASSUME NEW t \in Tables, NEW part \in Parts, NEW k \in KeyNames
      PROVE  \/ Got(mt', t, part, k) = {Entry(e, t[2], part, k) : e \in Mine(t, part, k)'}
             \/ /\ part = "field" /\ t[1] \in Modules /\ Got(mt', t, part, k) = {Assigned}
                /\ \A e \in declared' : e.of = t[1] /\ e.name = k => e.op \notin Statics
  <2>1. CASE t = s /\ part = "field" /\ k = n
    BY <1>1, <1>2, <1>3, <2>1 DEF Puts
  <2>2. CASE ~(t = s /\ part = "field" /\ k = n)
    <3>1. Mine(t, part, k)' = Mine(t, part, k) /\ Got(mt', t, part, k) = Got(mt, t, part, k)
      BY <1>2, <2>2 DEF Mine, Puts
    <3> QED BY <3>1 DEF NamesInv
  <2> QED BY <2>1, <2>2
<1>5. super' = super /\ bound' = bound
  BY DEF ModuleAssign
<1> QED BY <1>4, <1>5 DEF NamesInv
-----------------------------------------------------------------------------
\* The class that a class extends in Lua
Heir == [c \in Classes |-> IF \E d \in declared : d.op = "extend" /\ d.of = c THEN Super[c] ELSE None]

LEMMA HeirFacts ==
  ASSUME BindInv, NamesInv, NEW c \in Classes, NEW w \in Kinds \cup {"static"}
  PROVE  /\ <<c, w>> \in Tables
         /\ Heir[c] = None => super[<<c, w>>] = None
         /\ Heir[c] # None => Heir[c] = Super[c] /\ Super[c] \in Classes /\ super[<<c, w>>] = <<Super[c], w>>
<1> DEFINE t == <<c, w>>
<1>1. t \in Tables /\ t[1] = c /\ t[2] = w
  BY DEF Tables, Kinds
<1> HIDE DEF t
<1>2. super[t] # None => Super[c] \in Classes /\ super[t] = <<Super[c], w>>
  BY <1>1 DEF BindInv
<1>3. super[t] # None <=> \E d \in declared : d.op = "extend" /\ d.of = c
  BY <1>1 DEF NamesInv
<1>4. (\E d \in declared : d.op = "extend" /\ d.of = c) => Heir[c] = Super[c]
  BY DEF Heir
<1>5. ~(\E d \in declared : d.op = "extend" /\ d.of = c) => Heir[c] = None
  BY DEF Heir
<1>6. t \in Tables /\ (Heir[c] = None => super[t] = None)
      /\ (Heir[c] # None => Heir[c] = Super[c] /\ Super[c] \in Classes /\ super[t] = <<Super[c], w>>)
  BY <1>1, <1>2, <1>3, <1>4, <1>5, ClassesAssumption
<1> QED BY <1>6 DEF t

LEMMA HeirLeads ==
  ASSUME BindInv, NamesInv
  PROVE  Leads(Classes, None, Heir, Depth, Size)
<1>1. "class" \in Kinds
  BY DEF Kinds
<1>2. \A c \in Classes : Heir[c] # None => Heir[c] = Super[c] /\ Super[c] \in Classes
  BY <1>1, HeirFacts
<1>3. Heir \in [Classes -> Classes \cup {None}]
  <2>1. \A c \in Classes : Heir[c] \in Classes \cup {None}
    BY <1>2
  <2>2. Heir = [c \in Classes |-> Heir[c]]
    BY DEF Heir
  <2> QED BY <2>1, <2>2
<1> QED BY <1>2, <1>3, SuperLeads DEF Leads

LEMMA HeirsIs ==
  ASSUME BindInv, NamesInv
  PROVE  \A c \in Classes : Heirs[c] = IF Heir[c] = None THEN <<c>> ELSE <<c>> \o Heirs[Heir[c]]
<1> DEFINE base == [c \in Classes |-> <<c>>]
           step == [p \in Classes \X Seq(Classes) |-> <<p[1]>> \o p[2]]
<1>1. base \in [Classes -> Seq(Classes)] /\ step \in [Classes \X Seq(Classes) -> Seq(Classes)]
  OBVIOUS
<1>2. PICK f \in [Classes -> Seq(Classes)] : Recurs(f, Classes, None, Heir, base, step)
  <2> HIDE DEF base, step
  <2> QED BY <1>1, HeirLeads, Recursion
<1>3. ASSUME NEW c \in Classes
      PROVE  f[c] = IF Heir[c] = None THEN <<c>> ELSE <<c>> \o f[Heir[c]]
  <2>1. CASE Heir[c] = None
    BY <1>2, <2>1 DEF Recurs
  <2>2. CASE Heir[c] # None
    <3>1. Heir[c] \in Classes
      BY <2>2, HeirLeads DEF Leads
    <3>2. f[c] = step[<<c, f[Heir[c]]>>]
      <4> HIDE DEF base, step
      <4> QED BY <1>2, <2>2 DEF Recurs
    <3>3. <<c, f[Heir[c]]>> \in Classes \X Seq(Classes)
      BY <3>1
    <3> QED BY <2>2, <3>2, <3>3
  <2> QED BY <2>1, <2>2
<1> HIDE DEF base, step
<1>4. \A c \in Classes :
        Heir[c] = IF \E d \in declared : d.op = "extend" /\ d.of = c THEN Super[c] ELSE None
  BY DEF Heir
<1>5. \A c \in Classes : Heir[c] = None <=> ~\E d \in declared : d.op = "extend" /\ d.of = c
  <2>1. "class" \in Kinds
    BY DEF Kinds
  <2>2. ASSUME NEW c \in Classes PROVE super[<<c, "class">>] = None <=> Heir[c] = None
    <3>1. <<c, "class">> \in Tables /\ (Heir[c] = None => super[<<c, "class">>] = None)
      BY <2>1, HeirFacts
    <3>2. Heir[c] # None => Super[c] \in Classes /\ super[<<c, "class">>] = <<Super[c], "class">>
      BY <2>1, HeirFacts
    <3>3. Super[c] \in Classes => <<Super[c], "class">> \in Tables
      BY DEF Tables
    <3> QED BY <3>1, <3>2, <3>3, ClassesAssumption
  <2>3. ASSUME NEW c \in Classes
        PROVE  super[<<c, "class">>] # None <=> \E d \in declared : d.op = "extend" /\ d.of = c
    BY <2>1 DEF NamesInv, Tables
  <2> QED BY <2>2, <2>3
<1>6. ASSUME NEW c \in Classes
      PROVE  f[c] = IF \E d \in declared : d.op = "extend" /\ d.of = c
                    THEN <<c>> \o f[Super[c]] ELSE <<c>>
  BY <1>3, <1>4, <1>5
<1>7. f = [c \in Classes |-> IF \E d \in declared : d.op = "extend" /\ d.of = c
                              THEN <<c>> \o f[Super[c]] ELSE <<c>>]
  BY <1>6
<1>8. Heirs = [c \in Classes |-> IF \E d \in declared : d.op = "extend" /\ d.of = c
                                  THEN <<c>> \o Heirs[Super[c]] ELSE <<c>>]
  BY <1>7 DEF Heirs
<1>9. \A c \in Classes : Heirs[c] = IF \E d \in declared : d.op = "extend" /\ d.of = c
                                    THEN <<c>> \o Heirs[Super[c]] ELSE <<c>>
  BY <1>8
<1> QED BY <1>4, <1>5, <1>9

\* The chain of a table is that of the classes, of the tables of its kind.
Along(q, s, w) ==
  /\ s \in Seq(Classes) /\ q \in Seq(Tables) /\ Len(q) = Len(s)
  /\ \A i \in 1 .. Len(s) : q[i] = <<s[i], w>>

LEMMA AlongOn ==
  ASSUME NEW q, NEW s, NEW w \in Kinds \cup {"static"}, Along(q, s, w), NEW c \in Classes
  PROVE  Along(<< <<c, w>> >> \o q, <<c>> \o s, w)
<1> DEFINE t == <<c, w>>
<1>1. t \in Tables /\ t = <<c, w>>
  BY DEF Tables, Kinds
<1> HIDE DEF t
<1> DEFINE r == <<t>> \o q
           z == <<c>> \o s
<1>2. <<t>> \in Seq(Tables) /\ <<c>> \in Seq(Classes) /\ Len(<<t>>) = 1 /\ Len(<<c>>) = 1
  BY <1>1
<1>3. /\ r \in Seq(Tables) /\ Len(r) = 1 + Len(q)
      /\ \A i \in 1 .. 1 + Len(q) : r[i] = IF i <= 1 THEN <<t>>[i] ELSE q[i - 1]
  BY <1>2, ConcatProperties DEF Along
<1>4. /\ z \in Seq(Classes) /\ Len(z) = 1 + Len(s)
      /\ \A i \in 1 .. 1 + Len(s) : z[i] = IF i <= 1 THEN <<c>>[i] ELSE s[i - 1]
  BY <1>2, ConcatProperties DEF Along
<1> HIDE DEF r, z
<1>5. ASSUME NEW i \in 1 .. Len(z) PROVE r[i] = <<z[i], w>>
  <2>1. CASE i = 1
    BY <1>1, <1>3, <1>4, <2>1 DEF Along
  <2>2. CASE i # 1
    <3>1. i - 1 \in 1 .. Len(s) /\ ~(i <= 1) /\ i \in 1 .. 1 + Len(q)
      BY <1>4, <2>2 DEF Along
    <3> QED BY <1>3, <1>4, <3>1 DEF Along
  <2> QED BY <2>1, <2>2
<1>6. Along(r, z, w)
  BY <1>3, <1>4, <1>5 DEF Along
<1> QED BY <1>1, <1>6 DEF r, z

LEMMA ChainHeirs ==
  ASSUME BindInv, NamesInv, NEW c \in Classes, NEW w \in Kinds \cup {"static"}
  PROVE  Along(Chain[<<c, w>>], Heirs[c], w)
<1> DEFINE Good == {k \in Classes : Along(Chain[<<k, w>>], Heirs[k], w)}
<1>1. ASSUME NEW k \in Classes, Heir[k] # None => Heir[k] \in Good PROVE k \in Good
  <2> DEFINE t == <<k, w>>
  <2>0. t \in Tables /\ Chain[t] = IF super[t] = None THEN <<t>> ELSE <<t>> \o Chain[super[t]]
    BY HeirFacts, ChainIs
  <2>1. CASE Heir[k] = None
    <3>1. super[t] = None /\ Heirs[k] = <<k>>
      BY <2>1, HeirFacts, HeirsIs
    <3>2. Along(<<t>>, <<k>>, w)
      BY <2>0 DEF Along
    <3> QED BY <2>0, <3>1, <3>2
  <2>2. CASE Heir[k] # None
    <3>1. super[t] = <<Super[k], w>> /\ Heir[k] = Super[k] /\ Super[k] \in Classes
      BY <2>2, HeirFacts
    <3>2. Along(Chain[<<Super[k], w>>], Heirs[Super[k]], w)
      BY <1>1, <2>2, <3>1
    <3>3. Along(<<t>> \o Chain[<<Super[k], w>>], <<k>> \o Heirs[Super[k]], w)
      BY <3>2, AlongOn
    <3>4. <<Super[k], w>> # None
      BY <3>1, HeirFacts, ClassesAssumption DEF Tables, Kinds
    <3>5. Heirs[k] = <<k>> \o Heirs[Super[k]]
      BY <2>2, <3>1, HeirsIs
    <3>6. Chain[t] = <<t>> \o Chain[<<Super[k], w>>]
      <4> HIDE DEF t
      <4> QED BY <2>0, <3>1, <3>4
    <3> QED BY <3>3, <3>5, <3>6
  <2> QED BY <2>1, <2>2
<1>2. Classes \subseteq Good
  <2> HIDE DEF Good
  <2> QED BY <1>1, HeirLeads, Descent
<1> QED BY <1>2
-----------------------------------------------------------------------------
Here(ds, h) == {d \in ds : d.of = h}

LEMMA FirstIs ==
  ASSUME NEW S, S \subseteq Nat, S # {}
  PROVE  First(S) \in S
<1>1. \E i \in S : \A j \in S : i <= j
  BY Minimum
<1> QED BY <1>1 DEF First

\* What each table has under a name, as index() and newIndex() take it: of the
\* tables of objects, and of those of classes
ReadsAt(n) ==
  [t \in Tables |-> IF RawGet(t, "field", n) # {} THEN RawGet(t, "field", n)
                   ELSE IF n = "number" /\ RawGet(t, "field", "___get_indexed") # {}
                        THEN RawGet(t, "field", "___get_indexed") ELSE RawGet(t, "get", n)]
SetsAt(n) ==
  [t \in Tables |-> IF n = "number" /\ RawGet(t, "field", "___set_indexed") # {}
                   THEN RawGet(t, "field", "___set_indexed") ELSE RawGet(t, "set", n)]
StaticReadsAt(n) ==
  [t \in Tables |-> IF RawGet(t, "field", n) # {} THEN RawGet(t, "field", n) ELSE RawGet(t, "get", n)]
StaticSetsAt(n) == [t \in Tables |-> RawGet(t, "set", n)]

\* That of the first table of a chain that has something
Found(at, t) ==
  LET levels == {i \in DOMAIN Chain[t] : at[Chain[t][i]] # {}}
  IN  IF levels = {} THEN {} ELSE at[Chain[t][First(levels)]]

LEMMA IndexIs ==
  ASSUME BindInv, NEW t \in Tables, NEW n
  PROVE  /\ Index(t, n, n = "number") = Found(ReadsAt(n), t)
         /\ NewIndex(t, n, n = "number") = Found(SetsAt(n), t)
         /\ Index(t, n, FALSE) = Found(StaticReadsAt(n), t)
         /\ NewIndex(t, n, FALSE) = Found(StaticSetsAt(n), t)
<1>1. DOMAIN Chain[t] \subseteq Nat /\ \A i \in DOMAIN Chain[t] : Chain[t][i] \in Tables
  <2>1. Chain[t] \in Seq(Above(t))
    BY ChainFacts
  <2>2. DOMAIN Chain[t] = 1 .. Len(Chain[t]) /\ Len(Chain[t]) \in Nat
    BY <2>1, LenProperties
  <2>3. \A i \in DOMAIN Chain[t] : Chain[t][i] \in Above(t)
    BY <2>1, <2>2, ElementOfSeq
  <2> QED BY <2>2, <2>3 DEF Above
<1> DEFINE Levels(at) == {i \in DOMAIN Chain[t] : at[Chain[t][i]] # {}}
<1>2. ASSUME NEW at, Levels(at) # {} PROVE First(Levels(at)) \in DOMAIN Chain[t]
  <2>1. First(Levels(at)) \in Levels(at)
    BY <1>1, <1>2, FirstIs
  <2> QED BY <2>1
<1>3. Index(t, n, n = "number") = Found(ReadsAt(n), t)
  <2> DEFINE Gives(i) == AtLevel(Chain[t][i], n, n = "number")
             levels == {i \in DOMAIN Chain[t] : Gives(i) # {}}
             at == ReadsAt(n)
  <2>1. \A i \in DOMAIN Chain[t] : Gives(i) = at[Chain[t][i]]
    BY <1>1 DEF AtLevel, ReadsAt
  <2>2. Index(t, n, n = "number") = IF levels = {} THEN {} ELSE Gives(First(levels))
    BY DEF Index
  <2> HIDE DEF Gives, at
  <2>3. levels = Levels(at)
    BY <2>1
  <2>4. Found(at, t) = IF levels = {} THEN {} ELSE at[Chain[t][First(levels)]]
    BY <2>3 DEF Found
  <2>5. levels # {} => First(levels) \in DOMAIN Chain[t]
    BY <1>2, <2>3
  <2> HIDE DEF levels
  <2>6. (IF levels = {} THEN {} ELSE Gives(First(levels))) = Found(at, t)
    BY <2>1, <2>4, <2>5
  <2> QED BY <2>2, <2>6 DEF Gives, at, levels
<1>4. NewIndex(t, n, n = "number") = Found(SetsAt(n), t)
  <2> DEFINE Gives(i) == SetterAt(Chain[t][i], n, n = "number")
             levels == {i \in DOMAIN Chain[t] : Gives(i) # {}}
             at == SetsAt(n)
  <2>1. \A i \in DOMAIN Chain[t] : Gives(i) = at[Chain[t][i]]
    BY <1>1 DEF SetterAt, SetsAt
  <2>2. NewIndex(t, n, n = "number") = IF levels = {} THEN {} ELSE Gives(First(levels))
    BY DEF NewIndex
  <2> HIDE DEF Gives, at
  <2>3. levels = Levels(at)
    BY <2>1
  <2>4. Found(at, t) = IF levels = {} THEN {} ELSE at[Chain[t][First(levels)]]
    BY <2>3 DEF Found
  <2>5. levels # {} => First(levels) \in DOMAIN Chain[t]
    BY <1>2, <2>3
  <2> HIDE DEF levels
  <2>6. (IF levels = {} THEN {} ELSE Gives(First(levels))) = Found(at, t)
    BY <2>1, <2>4, <2>5
  <2> QED BY <2>2, <2>6 DEF Gives, at, levels
<1>5. Index(t, n, FALSE) = Found(StaticReadsAt(n), t)
  <2>1. \A i \in DOMAIN Chain[t] : AtLevel(Chain[t][i], n, FALSE) = StaticReadsAt(n)[Chain[t][i]]
    BY <1>1 DEF AtLevel, StaticReadsAt
  <2> QED BY <1>2, <2>1 DEF Index, Found
<1>6. NewIndex(t, n, FALSE) = Found(StaticSetsAt(n), t)
  <2>1. \A i \in DOMAIN Chain[t] : SetterAt(Chain[t][i], n, FALSE) = StaticSetsAt(n)[Chain[t][i]]
    BY <1>1 DEF SetterAt, StaticSetsAt
  <2> QED BY <1>2, <2>1 DEF NewIndex, Found
<1> QED BY <1>3, <1>4, <1>5, <1>6

\* There is something in the tables where the registrations ds are.
Matches(at, w, ds) == \A h \in Classes : at[<<h, w>>] = {} <=> Here(ds, h) = {}

\* The look-up of a name stops at the class whose registration is nearest.
LEMMA LookUpIs ==
  ASSUME BindInv, NamesInv, NEW c \in Classes, NEW w \in Kinds \cup {"static"}, NEW at, NEW ds,
         Matches(at, w, ds)
  PROVE  \/ Found(at, <<c, w>>) = {} /\ Nearest(c, ds) = {}
         \/ \E i \in DOMAIN Heirs[c] :
              /\ Found(at, <<c, w>>) = at[<<Heirs[c][i], w>>]
              /\ Nearest(c, ds) = Here(ds, Heirs[c][i]) /\ Nearest(c, ds) # {}
<1> DEFINE t == <<c, w>>
           has == {i \in DOMAIN Heirs[c] : Here(ds, Heirs[c][i]) # {}}
           levels == {i \in DOMAIN Chain[t] : at[Chain[t][i]] # {}}
<1>1. /\ DOMAIN Chain[t] = DOMAIN Heirs[c] /\ DOMAIN Heirs[c] \subseteq Nat
      /\ \A i \in DOMAIN Heirs[c] : Chain[t][i] = <<Heirs[c][i], w>> /\ Heirs[c][i] \in Classes
  <2>1. Along(Chain[t], Heirs[c], w)
    BY ChainHeirs
  <2> HIDE DEF t
  <2>2. /\ DOMAIN Heirs[c] = 1 .. Len(Heirs[c]) /\ DOMAIN Chain[t] = 1 .. Len(Heirs[c])
        /\ Len(Heirs[c]) \in Nat
    BY <2>1, LenProperties DEF Along
  <2>3. \A i \in DOMAIN Heirs[c] : Heirs[c][i] \in Classes
    BY <2>1, ElementOfSeq, <2>2 DEF Along
  <2>4. DOMAIN Heirs[c] \subseteq Nat
    BY <2>2
  <2> QED BY <2>1, <2>2, <2>3, <2>4 DEF Along
<1>2. Nearest(c, ds) = IF has = {} THEN {} ELSE Here(ds, Heirs[c][First(has)])
  BY DEF Nearest, Here
<1>3. Found(at, t) = IF levels = {} THEN {} ELSE at[Chain[t][First(levels)]]
  BY DEF Found
<1>4. has # {} => First(has) \in has
  BY <1>1, FirstIs
<1>5. levels = has
  BY <1>1 DEF Matches
<1>6. has # {} => /\ First(has) \in DOMAIN Heirs[c] /\ Here(ds, Heirs[c][First(has)]) # {}
                  /\ Chain[t][First(has)] = <<Heirs[c][First(has)], w>>
  BY <1>1, <1>4
<1> HIDE DEF has, levels
<1> QED BY <1>2, <1>3, <1>5, <1>6
-----------------------------------------------------------------------------
\* What the tables of the objects of a class have under a name, and for numbers
LEMMA MineIs ==
  ASSUME NamesInv, NEW h \in Classes, NEW w \in Kinds, NEW n \in Names
  PROVE  LET D == Here(Named(n, MemberOps), h)
         IN  /\ Mine(<<h, w>>, "field", n) = {d \in D : d.op = "function"}
             /\ Mine(<<h, w>>, "get", n) = {d \in D : d.op \in {"variable", "property"}}
             /\ Mine(<<h, w>>, "set", n) = {d \in D : d.op \in {"variable", "property"}}
             /\ Mine(<<h, w>>, "field", "___get_indexed") = {d \in declared : d.of = h /\ d.op = "indexer"}
             /\ Mine(<<h, w>>, "field", "___set_indexed") =
                   {d \in declared : d.of = h /\ d.op = "indexer" /\ d.with[2]}
<1> DEFINE t == <<h, w>>
           D == Here(Named(n, MemberOps), h)
<1>1. t[1] = h /\ t[2] = w /\ w # "static"
  BY DEF Kinds
<1>2. ASSUME NEW d \in declared
      PROVE  /\ Places(d, w, "field", n) <=> d.op = "function" /\ d.name = n
             /\ Places(d, w, "get", n) <=> d.op \in {"variable", "property"} /\ d.name = n
             /\ Places(d, w, "set", n) <=> d.op \in {"variable", "property"} /\ d.name = n
             /\ Places(d, w, "field", "___get_indexed") <=> d.op = "indexer"
             /\ Places(d, w, "field", "___set_indexed") <=> d.op = "indexer" /\ d.with[2]
  <2>1. d.op = "function" => d.name \in Names
    BY NameFacts DEF NamesInv, MemberOps
  <2>2. "___get_indexed" \notin Names /\ "___set_indexed" \notin Names
    BY NameFacts
  <2> QED BY <1>1, <2>1, <2>2 DEF Places
<1>3. \A d : d \in D <=> d \in declared /\ d.name = n /\ d.op \in MemberOps /\ d.of = h
  BY DEF Here, Named
<1> HIDE DEF t, D
<1>4. /\ Mine(t, "field", n) = {d \in D : d.op = "function"}
      /\ Mine(t, "get", n) = {d \in D : d.op \in {"variable", "property"}}
      /\ Mine(t, "set", n) = {d \in D : d.op \in {"variable", "property"}}
  BY <1>1, <1>2, <1>3 DEF Mine, MemberOps
<1>5. /\ Mine(t, "field", "___get_indexed") = {d \in declared : d.of = h /\ d.op = "indexer"}
      /\ Mine(t, "field", "___set_indexed") = {d \in declared : d.of = h /\ d.op = "indexer" /\ d.with[2]}
  BY <1>1, <1>2 DEF Mine
<1> QED BY <1>4, <1>5 DEF t, D

\* A class has one registration of a name, of its objects or of itself.
LEMMA HereIs ==
  ASSUME NamesInv, NEW h, NEW n, NEW ops, ops \subseteq MemberOps \/ ops \subseteq StaticOps,
         NEW d \in Here(Named(n, ops), h)
  PROVE  Here(Named(n, ops), h) = {d}
<1>1. ASSUME NEW e \in Here(Named(n, ops), h) PROVE e = d
  BY SameRegistration DEF Here, Named, NamesInv
<1> QED BY <1>1

\* Nobody assigns to the tables of a class.
LEMMA ClassGets ==
  ASSUME NamesInv, NEW t \in Tables, t[1] \in Classes, NEW part \in Parts, NEW n \in KeyNames
  PROVE  RawGet(t, part, n) = {Entry(d, t[2], part, n) : d \in Mine(t, part, n)}
BY RawGetIs, ClassesAssumption DEF NamesInv

ReadEntry(d, w) == IF d.op \in {"function", "indexer"} THEN FunctionEntry(d, w) ELSE GetterEntry(d, w)
WriteEntry(d, w) == IF d.op = "indexer" THEN IndexSetterEntry(d, w) ELSE SetterEntry(d, w)

\* What can be written, as NamesMeanDeclared has it
Writables(n) == {d \in Named(n, {"variable", "property", "indexer"}) : d.op = "indexer" => d.with[2]}

LEMMA MemberGets ==
  ASSUME NamesInv, NEW h \in Classes, NEW w \in Kinds, NEW n \in Names
  PROVE  LET D == Here(Named(n, MemberOps), h)
         IN  /\ RawGet(<<h, w>>, "field", n) = {ReadEntry(d, w) : d \in {e \in D : e.op = "function"}}
             /\ RawGet(<<h, w>>, "get", n) =
                   {ReadEntry(d, w) : d \in {e \in D : e.op \in {"variable", "property"}}}
             /\ RawGet(<<h, w>>, "set", n) =
                   {WriteEntry(d, w) : d \in {e \in D : e.op \in {"variable", "property"}}}
             /\ n = "number" =>
                  /\ RawGet(<<h, w>>, "field", "___get_indexed") =
                        {ReadEntry(d, w) : d \in {e \in D : e.op = "indexer"}}
                  /\ RawGet(<<h, w>>, "field", "___set_indexed") =
                        {WriteEntry(d, w) : d \in {e \in D : e.op = "indexer" /\ e.with[2]}}
<1> DEFINE t == <<h, w>>
           D == Here(Named(n, MemberOps), h)
<1>1. t \in Tables /\ t[1] = h /\ t[2] = w /\ t[1] \in Classes
  BY DEF Tables, Kinds
<1>2. {"field", "get", "set"} \subseteq Parts /\ {n, "___get_indexed", "___set_indexed"} \subseteq KeyNames
  BY DEF Parts, KeyNames
<1>3. /\ Mine(t, "field", n) = {d \in D : d.op = "function"}
      /\ Mine(t, "get", n) = {d \in D : d.op \in {"variable", "property"}}
      /\ Mine(t, "set", n) = {d \in D : d.op \in {"variable", "property"}}
      /\ Mine(t, "field", "___get_indexed") = {d \in declared : d.of = h /\ d.op = "indexer"}
      /\ Mine(t, "field", "___set_indexed") = {d \in declared : d.of = h /\ d.op = "indexer" /\ d.with[2]}
  BY MineIs
<1>4. ASSUME n = "number"
      PROVE  /\ {d \in declared : d.of = h /\ d.op = "indexer"} = {e \in D : e.op = "indexer"}
             /\ {d \in declared : d.of = h /\ d.op = "indexer" /\ d.with[2]}
                   = {e \in D : e.op = "indexer" /\ e.with[2]}
  <2>1. \A d \in declared : d.op = "indexer" => d.name = n
    BY <1>4, NameFacts DEF NamesInv, MemberOps
  <2>2. \A d : d \in D <=> d \in declared /\ d.name = n /\ d.op \in MemberOps /\ d.of = h
    BY DEF Here, Named
  <2> HIDE DEF D
  <2> QED BY <2>1, <2>2 DEF MemberOps
<1> HIDE DEF t, D
<1>5. \A part \in Parts, k \in KeyNames : RawGet(t, part, k) = {Entry(d, w, part, k) : d \in Mine(t, part, k)}
  BY <1>1, ClassGets
<1>6. ASSUME NEW d
      PROVE  /\ d.op = "function" => Entry(d, w, "field", n) = ReadEntry(d, w)
             /\ d.op \in {"variable", "property"} => Entry(d, w, "get", n) = ReadEntry(d, w)
                                                /\ Entry(d, w, "set", n) = WriteEntry(d, w)
             /\ d.op = "indexer" => Entry(d, w, "field", "___get_indexed") = ReadEntry(d, w)
                                /\ Entry(d, w, "field", "___set_indexed") = WriteEntry(d, w)
  BY DEF Entry, ReadEntry, WriteEntry, Statics, Functions
<1>7. RawGet(t, "field", n) = {ReadEntry(d, w) : d \in {e \in D : e.op = "function"}}
  BY <1>2, <1>3, <1>5, <1>6
<1>8. /\ RawGet(t, "get", n) = {ReadEntry(d, w) : d \in {e \in D : e.op \in {"variable", "property"}}}
      /\ RawGet(t, "set", n) = {WriteEntry(d, w) : d \in {e \in D : e.op \in {"variable", "property"}}}
  BY <1>2, <1>3, <1>5, <1>6
<1>9. ASSUME n = "number"
      PROVE  RawGet(t, "field", "___get_indexed") = {ReadEntry(d, w) : d \in {e \in D : e.op = "indexer"}}
  <2>1. Mine(t, "field", "___get_indexed") = {e \in D : e.op = "indexer"}
    BY <1>3, <1>4, <1>9
  <2> QED BY <1>2, <1>5, <1>6, <2>1
<1>10. ASSUME n = "number"
       PROVE  RawGet(t, "field", "___set_indexed") =
                {WriteEntry(d, w) : d \in {e \in D : e.op = "indexer" /\ e.with[2]}}
  <2>1. Mine(t, "field", "___set_indexed") = {e \in D : e.op = "indexer" /\ e.with[2]}
    BY <1>3, <1>4, <1>10
  <2> QED BY <1>2, <1>5, <1>6, <2>1
<1> QED BY <1>7, <1>8, <1>9, <1>10 DEF t, D

LEMMA LevelReads ==
  ASSUME NamesInv, NEW h \in Classes, NEW w \in Kinds, NEW n \in Names
  PROVE  ReadsAt(n)[<<h, w>>] = {ReadEntry(d, w) : d \in Here(Named(n, MemberOps), h)}
<1> DEFINE t == <<h, w>>
           D == Here(Named(n, MemberOps), h)
           got == ReadsAt(n)[t]
<1>1. /\ RawGet(t, "field", n) = {ReadEntry(d, w) : d \in {e \in D : e.op = "function"}}
      /\ RawGet(t, "get", n) = {ReadEntry(d, w) : d \in {e \in D : e.op \in {"variable", "property"}}}
      /\ n = "number" => RawGet(t, "field", "___get_indexed") =
                            {ReadEntry(d, w) : d \in {e \in D : e.op = "indexer"}}
  BY MemberGets
<1>2. \A d \in D : d.op \in MemberOps /\ (d.op = "indexer" <=> n = "number")
  BY NameFacts DEF Here, Named, NamesInv
<1>3. got =
        IF RawGet(t, "field", n) # {} THEN RawGet(t, "field", n)
        ELSE IF n = "number" /\ RawGet(t, "field", "___get_indexed") # {}
             THEN RawGet(t, "field", "___get_indexed") ELSE RawGet(t, "get", n)
  BY DEF ReadsAt, Tables, Kinds
<1>4. \A d \in D : D = {d}
  BY HereIs
<1> HIDE DEF t, D, got
<1>5. ASSUME D = {} PROVE got = {ReadEntry(e, w) : e \in D}
  <2>1. {ReadEntry(d, w) : d \in D} = {} /\ RawGet(t, "field", n) = {} /\ RawGet(t, "get", n) = {}
        /\ (n = "number" => RawGet(t, "field", "___get_indexed") = {})
    BY <1>1, <1>5
  <2> QED BY <1>3, <2>1
<1>6. ASSUME NEW d \in D PROVE got = {ReadEntry(e, w) : e \in D}
  <2>1. D = {d} /\ {ReadEntry(e, w) : e \in D} = {ReadEntry(d, w)}
    BY <1>4, <1>6
  <2>2. CASE d.op = "function"
    <3>1. {e \in D : e.op = "function"} = {d}
      BY <2>1, <2>2
    <3> QED BY <1>1, <1>3, <2>1, <3>1
  <2>3. CASE d.op = "indexer"
    <3>1. {e \in D : e.op = "function"} = {} /\ {e \in D : e.op = "indexer"} = {d} /\ n = "number"
      BY <1>2, <2>1, <2>3
    <3> QED BY <1>1, <1>3, <2>1, <3>1
  <2>4. CASE d.op \in {"variable", "property"}
    <3>1. {e \in D : e.op = "function"} = {} /\ {e \in D : e.op \in {"variable", "property"}} = {d} /\ n # "number"
      BY <1>2, <2>1, <2>4
    <3> QED BY <1>1, <1>3, <2>1, <3>1
  <2> QED BY <1>2, <2>2, <2>3, <2>4 DEF MemberOps
<1> QED BY <1>5, <1>6 DEF t, D, got

LEMMA LevelWrites ==
  ASSUME NamesInv, NEW h \in Classes, NEW w \in Kinds, NEW n \in Names
  PROVE  SetsAt(n)[<<h, w>>] = {WriteEntry(d, w) : d \in Here(Writables(n), h)}
<1> DEFINE t == <<h, w>>
           D == Here(Named(n, MemberOps), h)
           W == Here(Writables(n), h)
           set == SetsAt(n)[t]
<1>1. /\ RawGet(t, "set", n) = {WriteEntry(d, w) : d \in {e \in D : e.op \in {"variable", "property"}}}
      /\ n = "number" => RawGet(t, "field", "___set_indexed") =
                            {WriteEntry(d, w) : d \in {e \in D : e.op = "indexer" /\ e.with[2]}}
  BY MemberGets
<1>2. \A d \in D : d.op = "indexer" <=> n = "number"
  BY NameFacts DEF Here, Named, NamesInv
<1>3. set =
        IF n = "number" /\ RawGet(t, "field", "___set_indexed") # {}
        THEN RawGet(t, "field", "___set_indexed") ELSE RawGet(t, "set", n)
  BY DEF SetsAt, Tables, Kinds
<1>4. \A d : d \in W <=> d \in D /\ (d.op \in {"variable", "property"} \/ (d.op = "indexer" /\ d.with[2]))
  BY DEF Here, Named, Writables, MemberOps
<1> HIDE DEF t, D, W, set
<1>5. ASSUME n = "number" PROVE set = {WriteEntry(d, w) : d \in W}
  <2>1. /\ {e \in D : e.op \in {"variable", "property"}} = {}
        /\ {e \in D : e.op = "indexer" /\ e.with[2]} = W
    BY <1>2, <1>4, <1>5
  <2>2. RawGet(t, "set", n) = {} /\ RawGet(t, "field", "___set_indexed") = {WriteEntry(d, w) : d \in W}
    BY <1>1, <1>5, <2>1
  <2> QED BY <1>3, <1>5, <2>2
<1>6. ASSUME n # "number" PROVE set = {WriteEntry(d, w) : d \in W}
  <2>1. {e \in D : e.op \in {"variable", "property"}} = W
    BY <1>2, <1>4, <1>6
  <2>2. RawGet(t, "set", n) = {WriteEntry(d, w) : d \in W}
    BY <1>1, <2>1
  <2> QED BY <1>3, <1>6, <2>2
<1> QED BY <1>5, <1>6 DEF t, W, set

\* The same of the table of the class itself, and of a module
StaticsOf(n) == Named(n, StaticOps \ {"static function"})

LEMMA LevelStatic ==
  ASSUME NamesInv, NEW h \in Classes, NEW n \in Names
  PROVE  /\ StaticReadsAt(n)[<<h, "static">>] = {Static(h, n) : d \in Here(Named(n, StaticOps), h)}
         /\ StaticSetsAt(n)[<<h, "static">>] = {StaticEntry(d, "set") : d \in Here(StaticsOf(n), h)}
<1> DEFINE t == <<h, "static">>
           D == Here(Named(n, StaticOps), h)
           E == Here(StaticsOf(n), h)
<1>1. t \in Tables /\ t[1] = h /\ t[2] = "static" /\ t[1] \in Classes /\ n \in KeyNames
  BY DEF Tables, KeyNames
<1>2. /\ StaticReadsAt(n)[t] = IF RawGet(t, "field", n) # {} THEN RawGet(t, "field", n) ELSE RawGet(t, "get", n)
      /\ StaticSetsAt(n)[t] = RawGet(t, "set", n)
  BY <1>1 DEF StaticReadsAt, StaticSetsAt
<1>3. \A d \in declared : d.of = h /\ d.op \in Statics \cup Functions => d.op \in StaticOps
  <2>1. \A d \in declared : d.op \in ModuleOps => d.of \in Modules
    BY OwnerFacts DEF NamesInv
  <2>2. h \notin Modules
    BY ClassesAssumption
  <2> QED BY <2>1, <2>2 DEF Statics, Functions, StaticOps, ModuleOps
<1>4. \A d : /\ d \in D <=> d \in declared /\ d.name = n /\ d.op \in StaticOps /\ d.of = h
             /\ d \in E <=> d \in D /\ d.op # "static function"
  BY DEF Here, Named, StaticsOf
<1> HIDE DEF t, D, E
<1>5. \A d : /\ d.op \in StaticOps /\ d.op # "static function" => d.op \in Statics /\ d.op \notin Functions
             /\ d.op = "static function" => d.op \in Functions /\ d.op \notin Statics
             /\ d.op \in Statics \cup Functions => d.op \notin {"variable", "property", "function", "indexer"}
  BY DEF StaticOps, Statics, Functions
<1>6. /\ Mine(t, "field", n) = {d \in D : d.op = "static function"}
      /\ Mine(t, "get", n) = E
      /\ Mine(t, "set", n) = E
  <2>1. ASSUME NEW d \in declared
        PROVE  /\ Places(d, "static", "field", n) <=> d.op \in Functions /\ d.name = n
               /\ Places(d, "static", "get", n) <=> d.op \in Statics /\ d.name = n
               /\ Places(d, "static", "set", n) <=> d.op \in Statics /\ d.name = n
    BY DEF Places, Kinds
  <2> QED BY <1>1, <1>3, <1>4, <1>5, <2>1 DEF Mine
<1>7. \A part \in Parts : RawGet(t, part, n) = {Entry(d, "static", part, n) : d \in Mine(t, part, n)}
  BY <1>1, ClassGets
<1>8. \A d \in D : /\ Entry(d, "static", "field", n) = Static(h, n)
                   /\ Entry(d, "static", "get", n) = Static(h, n)
                   /\ Entry(d, "static", "set", n) = StaticEntry(d, "set")
  BY <1>4, <1>5 DEF Entry, StaticEntry
<1>9. /\ RawGet(t, "field", n) = {Static(h, n) : d \in {e \in D : e.op = "static function"}}
      /\ RawGet(t, "get", n) = {Static(h, n) : d \in E}
      /\ RawGet(t, "set", n) = {StaticEntry(d, "set") : d \in E}
  BY <1>4, <1>6, <1>7, <1>8 DEF Parts
<1>10. StaticReadsAt(n)[t] = {Static(h, n) : d \in D}
  BY <1>2, <1>4, <1>9
<1> QED BY <1>2, <1>9, <1>10 DEF t, D, E
-----------------------------------------------------------------------------
\* A member found for an object runs unless the object is const and the member is not.
LEMMA RunsIs ==
  ASSUME Invariant, NamesInv, NEW u \in Live, NEW i \in DOMAIN Heirs[ud[u].meta[1]],
         NEW const \in BOOLEAN, Heirs[ud[u].meta[1]][i] \in bound
  PROVE  Runs(Member(Heirs[ud[u].meta[1]][i], const), u) <=> (ud[u].const => const)
<1> DEFINE meta1 == ud[u].meta
           c == meta1[1]
           h == Heirs[c][i]
           w == IF const THEN "const" ELSE meta1[2]
           t == <<c, w>>
<1>1. /\ BindInv /\ meta1 \in Classes \X Kinds /\ (ud[u].const <=> meta1[2] = "const")
      /\ ud[u].const \in BOOLEAN
  BY DEF Invariant, UserdataInv, HoldInv, Suits, ObjectTypes, UserdataSet, Live
<1>2. c \in Classes /\ w \in Kinds /\ meta1[2] \in Kinds /\ meta1 = <<c, meta1[2]>>
  BY <1>1 DEF Kinds
<1>3. t = IF const THEN <<ud[u].meta[1], "const">> ELSE ud[u].meta
  BY <1>2
<1>4. Runs(Member(h, const), u) <=> \E j \in DOMAIN Chain[t] : Chain[t][j] = <<h, Which(const)>>
  <2>1. Member(h, const).kind = "member" /\ Member(h, const).class = h /\ Member(h, const).const = const
    BY DEF Member
  <2> HIDE DEF h, t
  <2>2. GetObject(u, h, const) <=> \E j \in DOMAIN Chain[t] : Chain[t][j] = <<h, Which(const)>>
    BY <1>3 DEF GetObject, h
  <2> QED BY <2>1, <2>2 DEF Runs
<1> HIDE DEF w, t
<1>5. /\ i \in DOMAIN Chain[t] /\ Chain[t][i] = <<h, w>>
      /\ \A j \in DOMAIN Chain[t] : Chain[t][j] = <<Heirs[c][j], w>>
  <2>1. Along(Chain[t], Heirs[c], w)
    BY <1>1, <1>2, ChainHeirs DEF t
  <2>2. DOMAIN Heirs[c] = 1 .. Len(Heirs[c]) /\ DOMAIN Chain[t] = 1 .. Len(Heirs[c])
    BY <2>1, LenProperties DEF Along
  <2> QED BY <2>1, <2>2 DEF Along
<1>6. Which(const) = w <=> (ud[u].const => const)
  BY <1>1, <1>2 DEF Which, w, Kinds
<1>7. (\E j \in DOMAIN Chain[t] : Chain[t][j] = <<h, Which(const)>>) <=> Which(const) = w
  BY <1>5
<1> QED BY <1>4, <1>6, <1>7

LEMMA ErrorsDoNotRun == \A u : ~Runs(ErrorReadOnly, u) /\ ~Runs(ErrorConstMismatch, u)
BY DEF Runs, ErrorReadOnly, ErrorConstMismatch

\* What is found for a name does what its registration allows, in the object's class.
LEMMA EntryMeans ==
  ASSUME Invariant, NamesInv, NEW u \in Live, NEW i \in DOMAIN Heirs[ud[u].meta[1]],
         NEW d \in declared, d.of = Heirs[ud[u].meta[1]][i], NEW w, w = ud[u].meta[2]
  PROVE  /\ d.op \in MemberOps => /\ Runs(ReadEntry(d, w), u) <=> Readable(d, ud[u].const)
                                  /\ Runs(ReadEntry(d, w), u) => ReadEntry(d, w).class = d.of
         /\ d.op \in {"variable", "property"} \/ (d.op = "indexer" /\ d.with[2]) =>
              /\ Runs(WriteEntry(d, w), u) <=> Writable(d) /\ ~ud[u].const
              /\ Runs(WriteEntry(d, w), u) => WriteEntry(d, w).class = d.of
<1>1. /\ w \in Kinds /\ (ud[u].const <=> w = "const") /\ ud[u].const \in BOOLEAN
      /\ d \in Registrations /\ d.of \in bound
  BY DEF Invariant, UserdataInv, HoldInv, Suits, ObjectTypes, UserdataSet, Live, NamesInv
<1>2. \A const \in BOOLEAN : /\ Runs(Member(d.of, const), u) <=> (ud[u].const => const)
                             /\ Member(d.of, const).class = d.of
  BY <1>1, RunsIs DEF Member
<1>3. ASSUME d.op \in MemberOps
      PROVE  /\ Runs(ReadEntry(d, w), u) <=> Readable(d, ud[u].const)
             /\ Runs(ReadEntry(d, w), u) => ReadEntry(d, w).class = d.of
  <2>1. CASE d.op = "variable"
    <3>1. ReadEntry(d, w) = Member(d.of, TRUE)
      BY <2>1 DEF ReadEntry, GetterEntry
    <3>2. Readable(d, ud[u].const)
      BY <2>1 DEF Readable
    <3> QED BY <1>2, <3>1, <3>2
  <2>2. CASE d.op = "property"
    <3> DEFINE const == IF w = "class" THEN d.with[1] ELSE d.with[2]
    <3>1. ReadEntry(d, w) = Member(d.of, const) /\ const \in BOOLEAN
      BY <1>1, <2>2, WithFacts DEF ReadEntry, GetterEntry
    <3>2. Readable(d, ud[u].const) <=> (ud[u].const => d.with[2])
      BY <2>2 DEF Readable
    <3>3. (ud[u].const => const) <=> (ud[u].const => d.with[2])
      BY <1>1
    <3> HIDE DEF const
    <3> QED BY <1>2, <3>1, <3>2, <3>3
  <2>3. CASE d.op \in {"function", "indexer"}
    <3>1. /\ ReadEntry(d, w) = IF w = "class" \/ d.with[1] THEN Member(d.of, d.with[1]) ELSE ErrorConstMismatch
          /\ d.with[1] \in BOOLEAN
      BY <1>1, <2>3, WithFacts DEF ReadEntry, FunctionEntry
    <3>2. Readable(d, ud[u].const) <=> (ud[u].const => d.with[1])
      BY <2>3 DEF Readable
    <3>3. CASE w = "class" \/ d.with[1]
      <4>1. ReadEntry(d, w) = Member(d.of, d.with[1])
        BY <3>1, <3>3
      <4> QED BY <1>2, <3>1, <3>2, <4>1
    <3>4. CASE w = "const" /\ ~d.with[1]
      <4>1. ReadEntry(d, w) = ErrorConstMismatch
        BY <3>1, <3>4
      <4> QED BY <1>1, <3>2, <3>4, <4>1, ErrorsDoNotRun
    <3> QED BY <1>1, <3>3, <3>4 DEF Kinds
  <2> QED BY <1>3, <2>1, <2>2, <2>3 DEF MemberOps
<1>4. ASSUME d.op \in {"variable", "property"} \/ (d.op = "indexer" /\ d.with[2])
      PROVE  /\ Runs(WriteEntry(d, w), u) <=> Writable(d) /\ ~ud[u].const
             /\ Runs(WriteEntry(d, w), u) => WriteEntry(d, w).class = d.of
  <2>1. d.op = "indexer" => Writable(d)
    BY <1>4 DEF Writable
  <2>2. CASE Writable(d) /\ w = "class"
    <3>1. WriteEntry(d, w) = Member(d.of, FALSE)
      BY <2>2 DEF WriteEntry, IndexSetterEntry, SetterEntry
    <3> QED BY <1>1, <1>2, <2>2, <3>1
  <2>3. CASE ~(Writable(d) /\ w = "class")
    <3>1. WriteEntry(d, w) \in {ErrorReadOnly, ErrorConstMismatch}
      BY <1>4, <2>1, <2>3 DEF WriteEntry, IndexSetterEntry, SetterEntry
    <3>2. ~(Writable(d) /\ ~ud[u].const)
      BY <1>1, <2>3 DEF Kinds
    <3> QED BY <3>1, <3>2, ErrorsDoNotRun
  <2> QED BY <2>2, <2>3
<1> QED BY <1>3, <1>4
-----------------------------------------------------------------------------
LEMMA InitNames == Init => NamesInv
<1> SUFFICES ASSUME Init PROVE NamesInv
  OBVIOUS
<1>1. \A t \in Tables : \A part, n : Got(mt, t, part, n) = {} /\ Mine(t, part, n) = {}
  BY DEF Init, InitBinding, Got, Mine
<1> QED BY <1>1 DEF Init, InitBinding, NamesInv

LEMMA StepNames == Invariant /\ NamesInv /\ [Next]_vars => NamesInv'
<1> SUFFICES ASSUME Invariant, NamesInv, [Next]_vars PROVE NamesInv'
  OBVIOUS
<1>0. BindInv
  BY DEF Invariant
<1>1. CASE Register1
  <2>1. PICK d \in Program[pc] : Declare(d) /\ declared' = declared \cup {d}
    BY <1>1 DEF Register1
  <2>2. pc \in DOMAIN Program
    BY <1>1 DEF Register1
  <2> QED BY <1>0, <2>1, <2>2, DeclareNames
<1>2. ASSUME NEW m \in Modules, NEW n \in Names, Assign(m, n) PROVE NamesInv'
  BY <1>0, <1>2, AssignNames DEF Assign
<1>3. CASE UNCHANGED <<bindVars, declared>>
  BY <1>3 DEF bindVars, NamesInv, Mine
<1>4. ASSUME NEW o \in Objects,
             (\E c \in Classes, shared \in BOOLEAN : New(o, c, shared)) \/ Delete(o) \/ Drop(o)
      PROVE  NamesInv'
  BY <1>3, <1>4 DEF New, Delete, Drop, ObjectsChange
<1>5. ASSUME NEW u \in Userdata, NEW o \in Objects, NEW t \in Classes \cup Modules, Construct(u, o, t)
      PROVE  NamesInv'
  BY <1>3, <1>5 DEF Construct, ObjectsChange
<1>6. ASSUME NEW u \in Userdata, NEW c \in Classes, NEW const \in BOOLEAN,
             \/ TakeShared(u, c, const)
             \/ \E o \in Objects : \/ PushPtr(u, o, c, const) \/ PushShared(u, o, c, const)
                                   \/ \E p \in Objects : PushValue(u, o, p, c, const)
      PROVE  NamesInv'
  BY <1>3, <1>6 DEF TakeShared, PushPtr, PushShared, PushValue, ObjectsChange
<1>7. ASSUME NEW u \in Userdata, Gc(u) PROVE NamesInv'
  BY <1>3, <1>7 DEF Gc, ObjectsChange
<1>8. CASE UNCHANGED vars
  BY <1>3, <1>8 DEF vars
<1> QED BY <1>1, <1>2, <1>4, <1>5, <1>6, <1>7, <1>8 DEF Next

\* The tables of classes and modules have what is registered in them.
THEOREM TablesAsDeclared == Spec => [](Invariant /\ NamesInv)
<1>1. Init => Invariant /\ NamesInv
  BY InitInvariant, InitNames
<1>2. Invariant /\ NamesInv /\ [Next]_vars => (Invariant /\ NamesInv)'
  BY StepInvariant, StepNames
<1> QED BY <1>1, <1>2, PTL DEF Spec

\* A name means on an object what C++ has it mean, through any chain of classes.
THEOREM NamesRight == Spec => []NamesMeanDeclared
<1>1. Invariant /\ NamesInv => NamesMeanDeclared
  <2> SUFFICES ASSUME Invariant, NamesInv, NEW u \in Live, NEW n \in Names
               PROVE  LET t      == ud[u].meta
                          number == n = "number"
                          reads  == Nearest(t[1], Named(n, MemberOps))
                          writes == Nearest(t[1], {d \in Named(n, {"variable", "property", "indexer"}) :
                                                     d.op = "indexer" => d.with[2]})
                          got    == Index(t, n, number)
                          set    == NewIndex(t, n, number)
                      IN  /\ Cardinality(got) = Cardinality(reads)
                          /\ \A d \in reads, e \in got :
                               /\ Runs(e, u) <=> Readable(d, ud[u].const)
                               /\ Runs(e, u) => e.class = d.of
                          /\ Cardinality(set) = Cardinality(writes)
                          /\ \A d \in writes, e \in set :
                               /\ Runs(e, u) <=> Writable(d) /\ ~ud[u].const
                               /\ Runs(e, u) => e.class = d.of
    BY DEF NamesMeanDeclared
  <2> DEFINE t == ud[u].meta
             c == t[1]
             w == t[2]
             reads == Nearest(c, Named(n, MemberOps))
             writes == Nearest(c, Writables(n))
             got == Found(ReadsAt(n), t)
             set == Found(SetsAt(n), t)
  <2>1. BindInv /\ c \in Classes /\ w \in Kinds /\ t = <<c, w>> /\ w \in Kinds \cup {"static"}
    BY DEF Invariant, UserdataInv, HoldInv, Suits
  <2>6. ud[u].meta[1] = c /\ ud[u].meta[2] = w
    OBVIOUS
  <2> HIDE DEF t, c, w
  <2>2. \A x : Cardinality({x}) = 1
    BY FS_Singleton
  <2>3. /\ Cardinality(got) = Cardinality(reads)
        /\ \A d \in reads, e \in got :
             /\ Runs(e, u) <=> Readable(d, ud[u].const)
             /\ Runs(e, u) => e.class = d.of
    <3>1. Matches(ReadsAt(n), w, Named(n, MemberOps))
      <4>1. \A h \in Classes : ReadsAt(n)[<<h, w>>] = {ReadEntry(d, w) : d \in Here(Named(n, MemberOps), h)}
        BY <2>1, LevelReads
      <4> QED BY <4>1 DEF Matches
    <3>2. \/ got = {} /\ reads = {}
          \/ \E i \in DOMAIN Heirs[c] :
               /\ got = ReadsAt(n)[<<Heirs[c][i], w>>]
               /\ reads = Here(Named(n, MemberOps), Heirs[c][i]) /\ reads # {}
      BY <2>1, <3>1, LookUpIs
    <3>3. CASE got = {} /\ reads = {}
      BY <3>3
    <3>4. ASSUME NEW i \in DOMAIN Heirs[c],
                 got = ReadsAt(n)[<<Heirs[c][i], w>>],
                 reads = Here(Named(n, MemberOps), Heirs[c][i]), reads # {}
          PROVE  /\ Cardinality(got) = Cardinality(reads)
                 /\ \A d \in reads, e \in got :
                      /\ Runs(e, u) <=> Readable(d, ud[u].const)
                      /\ Runs(e, u) => e.class = d.of
      <4> HIDE DEF got, reads
      <4>1. PICK d \in reads : TRUE
        BY <3>4
      <4>2. d \in declared /\ d.op \in MemberOps /\ d.of = Heirs[c][i] /\ reads = {d} /\ d.of \in Classes
        <5>1. d \in declared /\ d.op \in MemberOps /\ d.of = Heirs[c][i]
          BY <3>4 DEF Here, Named
        <5>2. reads = {d}
          BY <3>4, HereIs
        <5> QED BY <5>1, <5>2, OwnerFacts DEF NamesInv
      <4>3. got = {ReadEntry(d, w)}
        <5>1. got = ReadsAt(n)[<<d.of, w>>] /\ Here(Named(n, MemberOps), d.of) = {d}
          BY <3>4, <4>2
        <5>2. ReadsAt(n)[<<d.of, w>>] = {ReadEntry(e, w) : e \in Here(Named(n, MemberOps), d.of)}
          BY <2>1, <4>2, LevelReads
        <5> QED BY <5>1, <5>2
      <4>4. /\ Runs(ReadEntry(d, w), u) <=> Readable(d, ud[u].const)
            /\ Runs(ReadEntry(d, w), u) => ReadEntry(d, w).class = d.of
        BY <2>6, <4>2, EntryMeans
      <4> QED BY <2>2, <4>2, <4>3, <4>4
    <3> QED BY <3>2, <3>3, <3>4
  <2>4. /\ Cardinality(set) = Cardinality(writes)
        /\ \A d \in writes, e \in set :
             /\ Runs(e, u) <=> Writable(d) /\ ~ud[u].const
             /\ Runs(e, u) => e.class = d.of
    <3>1. Matches(SetsAt(n), w, Writables(n))
      <4>1. \A h \in Classes : SetsAt(n)[<<h, w>>] = {WriteEntry(d, w) : d \in Here(Writables(n), h)}
        BY <2>1, LevelWrites
      <4> QED BY <4>1 DEF Matches
    <3>2. \/ set = {} /\ writes = {}
          \/ \E i \in DOMAIN Heirs[c] :
               /\ set = SetsAt(n)[<<Heirs[c][i], w>>]
               /\ writes = Here(Writables(n), Heirs[c][i]) /\ writes # {}
      BY <2>1, <3>1, LookUpIs
    <3>3. CASE set = {} /\ writes = {}
      BY <3>3
    <3>4. ASSUME NEW i \in DOMAIN Heirs[c],
                 set = SetsAt(n)[<<Heirs[c][i], w>>],
                 writes = Here(Writables(n), Heirs[c][i]), writes # {}
          PROVE  /\ Cardinality(set) = Cardinality(writes)
                 /\ \A d \in writes, e \in set :
                      /\ Runs(e, u) <=> Writable(d) /\ ~ud[u].const
                      /\ Runs(e, u) => e.class = d.of
      <4> HIDE DEF set, writes
      <4>1. PICK d \in writes : TRUE
        BY <3>4
      <4>2. /\ d \in declared /\ d.of = Heirs[c][i] /\ writes = {d} /\ d.of \in Classes
            /\ d.op \in {"variable", "property"} \/ (d.op = "indexer" /\ d.with[2])
        <5>1. /\ d \in Here(Named(n, {"variable", "property", "indexer"}), Heirs[c][i])
              /\ \A e \in writes : e \in Here(Named(n, {"variable", "property", "indexer"}), Heirs[c][i])
              /\ d.op = "indexer" => d.with[2]
          BY <3>4 DEF Here, Writables
        <5>2. {"variable", "property", "indexer"} \subseteq MemberOps
          BY DEF MemberOps
        <5>3. Here(Named(n, {"variable", "property", "indexer"}), Heirs[c][i]) = {d}
          BY <5>1, <5>2, HereIs
        <5>4. writes = {d}
          BY <5>1, <5>3
        <5>5. d \in declared /\ d.op \in {"variable", "property", "indexer"} /\ d.of = Heirs[c][i]
          BY <5>1 DEF Here, Named
        <5>6. d \in Registrations /\ d.op \in MemberOps
          BY <5>2, <5>5 DEF NamesInv
        <5> QED BY <5>1, <5>4, <5>5, <5>6, OwnerFacts
      <4>3. set = {WriteEntry(d, w)}
        <5>1. set = SetsAt(n)[<<d.of, w>>] /\ Here(Writables(n), d.of) = {d}
          BY <3>4, <4>2
        <5>2. SetsAt(n)[<<d.of, w>>] = {WriteEntry(e, w) : e \in Here(Writables(n), d.of)}
          BY <2>1, <4>2, LevelWrites
        <5> QED BY <5>1, <5>2
      <4>4. /\ Runs(WriteEntry(d, w), u) <=> Writable(d) /\ ~ud[u].const
            /\ Runs(WriteEntry(d, w), u) => WriteEntry(d, w).class = d.of
        BY <2>6, <4>2, EntryMeans
      <4> QED BY <2>2, <4>2, <4>3, <4>4
    <3> QED BY <3>2, <3>3, <3>4
  <2>5. Index(t, n, n = "number") = got /\ NewIndex(t, n, n = "number") = set
    <3>1. t \in Tables
      BY <2>1 DEF Tables, Kinds
    <3> QED BY <2>1, <3>1, IndexIs
  <2> HIDE DEF got, set
  <2> QED BY <2>3, <2>4, <2>5 DEF Writables, t, c
<1> QED BY <1>1, TablesAsDeclared, PTL

\* What is read-only keeps its value, in its class, those that extend it, and its module.
THEOREM ReadOnlyRight == Spec => []ReadOnlyKept
<1>1. Invariant /\ NamesInv => ReadOnlyKept
  <2> SUFFICES ASSUME Invariant, NamesInv PROVE ReadOnlyKept
    OBVIOUS
  <2>0. BindInv /\ "static" \in Kinds \cup {"static"}
    BY DEF Invariant
  <2>1. ASSUME NEW d \in declared, d.of \in Modules, ReadOnly(d)
        PROVE  ModuleIndex(d.of, d.name) = {Static(d.of, d.name)}
    <3> DEFINE t == <<d.of, "static">>
               n == d.name
    <3>1. d \in Registrations /\ d.op \in Statics /\ d.op \in StaticOps \cup ModuleOps /\ d.op \notin Functions
      BY <2>1 DEF ReadOnly, Statics, Functions, StaticOps, ModuleOps, NamesInv
    <3>2. t \in Tables /\ t[1] = d.of /\ t[2] = "static" /\ n \in KeyNames /\ "field" \in Parts /\ "get" \in Parts
      BY <2>1, <3>1, NameFacts DEF Tables, KeyNames, Parts
    <3> HIDE DEF t
    <3>3. Mine(t, "get", n) = {d}
      <4>1. Places(d, "static", "get", n)
        BY <3>1 DEF Places
      <4> QED BY <3>1, <3>2, <4>1, OneStores DEF Mine, NamesInv
    <3>4. Mine(t, "field", n) = {}
      <4>1. ASSUME NEW e \in Mine(t, "field", n) PROVE FALSE
        <5>1. e \in Registrations /\ e.of = d.of /\ Places(e, "static", "field", n)
          BY <3>2 DEF Mine, NamesInv
        <5>2. e.op \in Functions /\ e.op \in StaticOps \cup ModuleOps /\ e.name = n
          BY <5>1 DEF Places, Kinds, Functions, StaticOps, ModuleOps
        <5> QED BY <3>1, <5>1, <5>2, SameRegistration
      <4> QED BY <4>1
    <3>5. Got(mt, t, "field", n) = {} /\ Got(mt, t, "get", n) = {Static(d.of, n)}
      <4>1. Entry(d, "static", "get", n) = Static(d.of, n)
        BY <3>1 DEF Entry, StaticEntry
      <4>2. Got(mt, t, "get", n) = {Entry(e, t[2], "get", n) : e \in Mine(t, "get", n)}
        BY <3>2 DEF NamesInv
      <4>3. Got(mt, t, "field", n) = {Entry(e, t[2], "field", n) : e \in Mine(t, "field", n)}
        BY <3>1, <3>2 DEF NamesInv
      <4> QED BY <3>2, <3>3, <3>4, <4>1, <4>2, <4>3
    <3> QED BY <3>5, RawGetIs DEF ModuleIndex, t
  <2>2. ASSUME NEW c \in bound \cap Classes, NEW n \in Names, NEW d \in Nearest(c, Named(n, StaticOps))
        PROVE  Index(<<c, "static">>, n, FALSE) = {Static(d.of, n)}
    <3>1. Matches(StaticReadsAt(n), "static", Named(n, StaticOps))
      BY LevelStatic DEF Matches
    <3>2. PICK i \in DOMAIN Heirs[c] :
            /\ Found(StaticReadsAt(n), <<c, "static">>) = StaticReadsAt(n)[<<Heirs[c][i], "static">>]
            /\ Nearest(c, Named(n, StaticOps)) = Here(Named(n, StaticOps), Heirs[c][i])
      BY <2>0, <2>2, <3>1, LookUpIs
    <3>3. d \in Here(Named(n, StaticOps), d.of) /\ Heirs[c][i] = d.of /\ d.of \in Classes
      BY <2>2, <3>2, OwnerFacts DEF Here, Named, NamesInv
    <3>4. Index(<<c, "static">>, n, FALSE) = Found(StaticReadsAt(n), <<c, "static">>)
      BY <2>0, IndexIs DEF Tables
    <3>5. {Static(d.of, n) : e \in Here(Named(n, StaticOps), d.of)} = {Static(d.of, n)}
      BY <3>3
    <3> QED BY <3>2, <3>3, <3>4, <3>5, LevelStatic
  <2>3. ASSUME NEW c \in bound \cap Classes, NEW n \in Names, NEW d \in Nearest(c, StaticsOf(n))
        PROVE  NewIndex(<<c, "static">>, n, FALSE) = {IF ReadOnly(d) THEN ErrorReadOnly ELSE Static(d.of, n)}
    <3>1. Matches(StaticSetsAt(n), "static", StaticsOf(n))
      BY LevelStatic DEF Matches
    <3>2. PICK i \in DOMAIN Heirs[c] :
            /\ Found(StaticSetsAt(n), <<c, "static">>) = StaticSetsAt(n)[<<Heirs[c][i], "static">>]
            /\ Nearest(c, StaticsOf(n)) = Here(StaticsOf(n), Heirs[c][i])
      BY <2>0, <2>3, <3>1, LookUpIs
    <3>3. d \in Here(StaticsOf(n), d.of) /\ Heirs[c][i] = d.of /\ d.of \in Classes /\ d.name = n
      BY <2>3, <3>2, OwnerFacts DEF Here, Named, NamesInv, StaticsOf
    <3>4. Here(StaticsOf(n), d.of) = {d}
      BY <3>3, HereIs DEF StaticsOf
    <3>5. StaticSetsAt(n)[<<d.of, "static">>] = {StaticEntry(d, "set")}
      BY <3>3, <3>4, LevelStatic
    <3>6. NewIndex(<<c, "static">>, n, FALSE) = Found(StaticSetsAt(n), <<c, "static">>)
      BY <2>0, IndexIs DEF Tables
    <3> QED BY <3>2, <3>3, <3>5, <3>6 DEF StaticEntry
  <2> QED BY <2>1, <2>2, <2>3 DEF ReadOnlyKept, StaticsOf
<1> QED BY <1>1, TablesAsDeclared, PTL
-----------------------------------------------------------------------------
(* Proofs about LuaCalls, for any functions and arguments, any timeouts,   *)
(* and any width of the integers.                                          *)

\* The parameters for input that come before parameter k
InputsBefore(params, k) == {j \in DOMAIN params : IsInput(params[j]) /\ j < k}
\* The argument that is next when parameter k is reached
Place(params, first, k) == first + Cardinality(InputsBefore(params, k))

LEMMA BeforeSteps ==
  ASSUME NEW S, NEW params \in Seq(S), NEW k \in 1 .. Len(params) + 1
  PROVE  /\ IsFiniteSet(InputsBefore(params, k)) /\ Cardinality(InputsBefore(params, k)) \in Nat
         /\ Cardinality(InputsBefore(params, 1)) = 0
         /\ k <= Len(params) =>
              Cardinality(InputsBefore(params, k + 1)) =
                Cardinality(InputsBefore(params, k)) + (IF IsInput(params[k]) THEN 1 ELSE 0)
<1>1. DOMAIN params = 1 .. Len(params) /\ Len(params) \in Nat
  BY LenProperties
<1>2. IsFiniteSet(1 .. Len(params))
  BY <1>1, FS_Interval
<1>3. IsFiniteSet(InputsBefore(params, k))
  <2>1. InputsBefore(params, k) \in SUBSET (1 .. Len(params))
    BY <1>1 DEF InputsBefore
  <2> QED BY <1>2, <2>1, FS_Subset
<1>4. Cardinality(InputsBefore(params, k)) \in Nat
  BY <1>3, FS_CardinalityType
<1>5. InputsBefore(params, 1) = {}
  BY <1>1 DEF InputsBefore
<1>6. ASSUME k <= Len(params)
      PROVE  Cardinality(InputsBefore(params, k + 1)) =
               Cardinality(InputsBefore(params, k)) + (IF IsInput(params[k]) THEN 1 ELSE 0)
  <2>1. k \notin InputsBefore(params, k)
    BY DEF InputsBefore
  <2>2. CASE IsInput(params[k])
    <3>1. InputsBefore(params, k + 1) = InputsBefore(params, k) \cup {k}
      BY <1>1, <1>6, <2>2 DEF InputsBefore
    <3>2. Cardinality(InputsBefore(params, k) \cup {k}) = Cardinality(InputsBefore(params, k)) + 1
      BY <1>3, <2>1, FS_AddElement
    <3> QED BY <2>2, <3>1, <3>2
  <2>3. CASE ~IsInput(params[k])
    <3>1. InputsBefore(params, k + 1) = InputsBefore(params, k)
      BY <1>1, <1>6, <2>3 DEF InputsBefore
    <3> QED BY <1>4, <2>3, <3>1
  <2> QED BY <2>2, <2>3
<1> QED BY <1>3, <1>4, <1>5, <1>6, FS_EmptySet

LEMMA TupleInputIs ==
  ASSUME NEW S, NEW params \in Seq(S), NEW args, NEW first \in Nat
  PROVE  LET values(k) == IF IsInput(params[k]) THEN Input(params[k], args, Place(params, first, k))
                                                ELSE {params[k].spec}
             in == TupleInput(params, args, first)
         IN  IF \E k \in DOMAIN params : values(k) = {} THEN in = Raised
             ELSE in # Raised /\ \A k \in DOMAIN params : in.vals[k] \in values(k)
<1> DEFINE n == Len(params)
           more(k) == IF IsInput(params[k]) THEN 1 ELSE 0
           at[k \in 1 .. Len(params) + 1] ==
             IF k = 1 THEN first ELSE at[k - 1] + (IF IsInput(params[k - 1]) THEN 1 ELSE 0)
           values(k) == IF IsInput(params[k]) THEN Input(params[k], args, at[k]) ELSE {params[k].spec}
<1>1. TupleInput(params, args, first) =
        IF \E k \in DOMAIN params : values(k) = {} THEN Raised
        ELSE [vals |-> [k \in DOMAIN params |-> CHOOSE v \in values(k) : TRUE]]
  BY DEF TupleInput
<1>2. n \in Nat /\ DOMAIN params = 1 .. n
  BY LenProperties
<1> DEFINE Rule(f) == f = [k \in 1 .. n + 1 |-> IF k = 1 THEN first ELSE f[k - 1] + more(k - 1)]
           g == [k \in 1 .. n + 1 |-> Place(params, first, k)]
<1>3. Rule(g)
  <2>1. ASSUME NEW k \in 1 .. n + 1
        PROVE  g[k] = IF k = 1 THEN first ELSE g[k - 1] + more(k - 1)
    <3>1. CASE k = 1
      BY <1>2, <3>1, BeforeSteps DEF Place
    <3>2. CASE k # 1
      <4>1. k - 1 \in 1 .. n + 1 /\ k - 1 <= n /\ k - 1 + 1 = k
        BY <1>2, <3>2
      <4>2. /\ Cardinality(InputsBefore(params, k - 1)) \in Nat
            /\ Cardinality(InputsBefore(params, k)) = Cardinality(InputsBefore(params, k - 1)) + more(k - 1)
        BY <4>1, BeforeSteps
      <4>3. more(k - 1) \in Nat
        OBVIOUS
      <4>4. g[k] = first + Cardinality(InputsBefore(params, k))
        BY DEF Place
      <4>5. g[k - 1] = first + Cardinality(InputsBefore(params, k - 1))
        BY <4>1 DEF Place
      <4> HIDE DEF more, g
      <4> QED BY <3>2, <4>2, <4>3, <4>4, <4>5
    <3> QED BY <3>1, <3>2
  <2> QED BY <2>1
<1>4. Rule(at)
  <2>1. at = CHOOSE f : Rule(f)
    OBVIOUS
  <2> HIDE DEF Rule, at, g
  <2> QED BY <1>3, <2>1
<1>5. ASSUME NEW k \in DOMAIN params PROVE at[k] = Place(params, first, k)
  <2> DEFINE Bad == {i \in 1 .. n + 1 : at[i] # g[i]}
  <2> HIDE DEF at
  <2>1. ASSUME Bad # {} PROVE FALSE
    <3>1. PICK i \in Bad : \A j \in Bad : i <= j
      <4>1. Bad \in SUBSET Nat
        BY <1>2
      <4> HIDE DEF Bad
      <4> QED BY <2>1, <4>1, Minimum
    <3>2. i \in 1 .. n + 1 /\ at[i] # g[i]
      BY <3>1
    <3>3. i # 1
      BY <1>3, <1>4, <3>2
    <3>4. i - 1 \in 1 .. n + 1 /\ ~(i <= i - 1)
      BY <1>2, <3>2, <3>3
    <3>5. at[i - 1] = g[i - 1]
      BY <3>1, <3>4
    <3>6. at[i] = at[i - 1] + more(i - 1) /\ g[i] = g[i - 1] + more(i - 1)
      <4> HIDE DEF more, g
      <4> QED BY <1>3, <1>4, <3>2, <3>3
    <3> QED BY <3>2, <3>5, <3>6
  <2>2. k \in 1 .. n + 1
    BY <1>2
  <2> QED BY <2>1, <2>2
<1>6. \A k \in DOMAIN params :
        values(k) = IF IsInput(params[k]) THEN Input(params[k], args, Place(params, first, k))
                                          ELSE {params[k].spec}
  BY <1>5
<1>7. CASE \E k \in DOMAIN params : values(k) = {}
  <2>1. TupleInput(params, args, first) = Raised
    BY <1>1, <1>7
  <2> HIDE DEF values
  <2> QED BY <1>6, <1>7, <2>1
<1>8. CASE ~\E k \in DOMAIN params : values(k) = {}
  <2>1. TupleInput(params, args, first) = [vals |-> [k \in DOMAIN params |-> CHOOSE v \in values(k) : TRUE]]
    BY <1>1, <1>8
  <2>2. TupleInput(params, args, first) # Raised
    BY <2>1 DEF Raised
  <2>3. \A k \in DOMAIN params : TupleInput(params, args, first).vals[k] \in values(k)
    <3> HIDE DEF values
    <3> QED BY <1>8, <2>1
  <2> HIDE DEF values
  <2> QED BY <1>6, <1>8, <2>2, <2>3
<1> QED BY <1>7, <1>8

\* The values of the first k parameters that are for output, in their order
Outputs(params, k) == {j \in DOMAIN params : IsOutput(params[j]) /\ j <= k}
InOrder(out, params, k) ==
  /\ out \in Seq({"param"} \X DOMAIN params)
  /\ Len(out) = Cardinality(Outputs(params, k))
  /\ {out[i] : i \in DOMAIN out} = {<<"param", j>> : j \in Outputs(params, k)}
  /\ \A i, j \in DOMAIN out : i < j => out[i][2] < out[j][2]

LEMMA InOrderEmpty ==
  ASSUME NEW S, NEW params \in Seq(S)
  PROVE  InOrder(<<>>, params, 0)
<1>1. Outputs(params, 0) = {}
  BY LenProperties DEF Outputs
<1>2. <<>> \in Seq({"param"} \X DOMAIN params) /\ Len(<<>>) = 0 /\ DOMAIN <<>> = {}
  BY EmptySeq
<1> QED BY <1>1, <1>2, FS_EmptySet DEF InOrder

LEMMA InOrderStep ==
  ASSUME NEW S, NEW params \in Seq(S), NEW k \in 1 .. Len(params), NEW out,
         InOrder(out, params, k - 1)
  PROVE  InOrder(IF IsOutput(params[k]) THEN Append(out, <<"param", k>>) ELSE out, params, k)
<1> DEFINE T == {"param"} \X DOMAIN params
<1>1. DOMAIN params = 1 .. Len(params) /\ Len(params) \in Nat
  BY LenProperties
<1>2. IsFiniteSet(Outputs(params, k - 1))
  <2>1. Outputs(params, k - 1) \in SUBSET (1 .. Len(params))
    BY <1>1 DEF Outputs
  <2>2. IsFiniteSet(1 .. Len(params))
    BY <1>1, FS_Interval
  <2> QED BY <2>1, <2>2, FS_Subset
<1>3. CASE ~IsOutput(params[k])
  <2>1. Outputs(params, k) = Outputs(params, k - 1)
    BY <1>1, <1>3 DEF Outputs
  <2> QED BY <1>3, <2>1 DEF InOrder
<1>4. CASE IsOutput(params[k])
  <2> DEFINE new == Append(out, <<"param", k>>)
  <2>1. Outputs(params, k) = Outputs(params, k - 1) \cup {k} /\ k \notin Outputs(params, k - 1)
    BY <1>1, <1>4 DEF Outputs
  <2>2. Cardinality(Outputs(params, k)) = Cardinality(Outputs(params, k - 1)) + 1
    BY <1>2, <2>1, FS_AddElement
  <2>3. out \in Seq(T) /\ <<"param", k>> \in T
    BY <1>1 DEF InOrder
  <2>4. /\ new \in Seq(T) /\ Len(new) = Len(out) + 1
        /\ \A i \in 1 .. Len(out) : new[i] = out[i]
        /\ new[Len(out) + 1] = <<"param", k>>
    <3> HIDE DEF T
    <3> QED BY <2>3, AppendProperties
  <2>5. Len(out) \in Nat /\ DOMAIN out = 1 .. Len(out) /\ DOMAIN new = 1 .. Len(out) + 1
    <3>1. Len(out) \in Nat /\ DOMAIN out = 1 .. Len(out)
      BY <2>3, LenProperties
    <3>2. DOMAIN new = 1 .. Len(new)
      BY <2>4, LenProperties
    <3> QED BY <2>4, <3>1, <3>2
  <2>6. \A i \in DOMAIN out : out[i] \in {<<"param", j>> : j \in Outputs(params, k - 1)}
    BY DEF InOrder
  <2>7. \A i \in DOMAIN out : out[i][2] \in Nat /\ out[i][2] < k
    BY <1>1, <2>6 DEF Outputs
  <2>8. {new[i] : i \in DOMAIN new} = {out[i] : i \in DOMAIN out} \cup {<<"param", k>>}
    <3> DEFINE x == <<"param", k>>
    <3>1. new[Len(out) + 1] = x /\ \A i \in 1 .. Len(out) : new[i] = out[i]
      BY <2>4
    <3> HIDE DEF new, x
    <3>2. /\ \A i \in DOMAIN new : new[i] = x \/ \E j \in DOMAIN out : new[i] = out[j]
          /\ \A i \in DOMAIN out : i \in DOMAIN new /\ new[i] = out[i]
          /\ Len(out) + 1 \in DOMAIN new /\ new[Len(out) + 1] = x
      <4>1. \A i \in DOMAIN new : i \in 1 .. Len(out) \/ i = Len(out) + 1
        BY <2>5
      <4>2. Len(out) + 1 \in DOMAIN new /\ \A i \in DOMAIN out : i \in DOMAIN new /\ i \in 1 .. Len(out)
        BY <2>5
      <4>3. 1 .. Len(out) = DOMAIN out
        BY <2>5
      <4> QED BY <3>1, <4>1, <4>2, <4>3
    <3>3. {new[i] : i \in DOMAIN new} = {out[i] : i \in DOMAIN out} \cup {x}
      BY <3>2
    <3> QED BY <3>3 DEF x
  <2>9. {<<"param", j>> : j \in Outputs(params, k)} =
          {<<"param", j>> : j \in Outputs(params, k - 1)} \cup {<<"param", k>>}
    BY <2>1
  <2>10. {new[i] : i \in DOMAIN new} = {<<"param", j>> : j \in Outputs(params, k)}
    BY <2>8, <2>9 DEF InOrder
  <2>11. ASSUME NEW i \in DOMAIN new, NEW j \in DOMAIN new, i < j
         PROVE  new[i][2] < new[j][2]
    <3>1. i \in DOMAIN out /\ new[i] = out[i]
      BY <2>4, <2>5, <2>11
    <3>2. CASE j \in DOMAIN out
      <4>1. new[j] = out[j]
        BY <2>4, <2>5, <3>2
      <4>2. out[i][2] < out[j][2]
        BY <2>11, <3>1, <3>2 DEF InOrder
      <4> QED BY <3>1, <4>1, <4>2
    <3>3. CASE j = Len(out) + 1
      BY <2>4, <2>7, <3>1, <3>3
    <3> QED BY <2>5, <3>2, <3>3
  <2>12. Len(new) = Cardinality(Outputs(params, k))
    BY <2>2, <2>4 DEF InOrder
  <2> HIDE DEF new
  <2>13. InOrder(new, params, k)
    BY <2>4, <2>10, <2>11, <2>12 DEF InOrder
  <2> QED BY <1>4, <2>13 DEF new
<1> QED BY <1>3, <1>4

LEMMA TupleOutputIs ==
  ASSUME NEW S, NEW params \in Seq(S)
  PROVE  InOrder(TupleOutput(params), params, Len(params))
<1> DEFINE n == Len(params)
           T == {"param"} \X DOMAIN params
           next(k, s) == IF IsOutput(params[k]) THEN Append(s, <<"param", k>>) ELSE s
           pushed[k \in 0 .. Len(params)] ==
             IF k = 0 THEN <<>>
             ELSE IF IsOutput(params[k]) THEN Append(pushed[k - 1], <<"param", k>>) ELSE pushed[k - 1]
           Rule(f) == f = [k \in 0 .. n |-> IF k = 0 THEN <<>> ELSE next(k, f[k - 1])]
<1>1. TupleOutput(params) = pushed[n]
  BY DEF TupleOutput
<1>2. n \in Nat /\ DOMAIN params = 1 .. n
  BY LenProperties
<1>3. \E f : Rule(f)
  <2> DEFINE D == 0 .. n
             X == Seq(T)
             back == [k \in D |-> k - 1]
             rank == [k \in D |-> k]
             base == [k \in D |-> <<>>]
             step == [p \in D \X X |-> IF p[1] = 0 THEN <<>> ELSE next(p[1], p[2])]
  <2>1. Leads(D, -1, back, rank, n)
    BY <1>2 DEF Leads
  <2>2. base \in [D -> X]
    BY EmptySeq
  <2>3. step \in [D \X X -> X]
    <3>1. ASSUME NEW p \in D \X X, p[1] # 0 PROVE next(p[1], p[2]) \in X
      <4>1. p[1] \in 1 .. n /\ p[2] \in Seq(T)
        BY <1>2, <3>1
      <4>2. <<"param", p[1]>> \in T
        BY <1>2, <4>1
      <4>3. Append(p[2], <<"param", p[1]>>) \in Seq(T)
        <5> HIDE DEF T
        <5> QED BY <4>1, <4>2, AppendProperties
      <4> QED BY <4>1, <4>3
    <3>2. <<>> \in X
      BY EmptySeq
    <3> HIDE DEF next, X, D
    <3> QED BY <3>1, <3>2
  <2>4. PICK f \in [D -> X] : Recurs(f, D, -1, back, base, step)
    <3> HIDE DEF D, X, back, rank, base, step
    <3> QED BY <2>1, <2>2, <2>3, Recursion
  <2>5. ASSUME NEW k \in D PROVE f[k] = IF k = 0 THEN <<>> ELSE next(k, f[k - 1])
    <3>1. CASE k = 0
      <4>1. back[k] = -1 /\ base[k] = <<>>
        BY <3>1
      <4> HIDE DEF back, base, step, D
      <4> QED BY <2>4, <3>1, <4>1 DEF Recurs
    <3>2. CASE k # 0
      <4>1. back[k] = k - 1 /\ k - 1 \in D /\ k - 1 # -1
        BY <1>2, <3>2
      <4>2. <<k, f[k - 1]>> \in D \X X
        <5> HIDE DEF D, X
        <5> QED BY <2>4, <4>1
      <4>3. step[<<k, f[k - 1]>>] = next(k, f[k - 1])
        <5> HIDE DEF D, X, next
        <5> QED BY <3>2, <4>2
      <4>4. f[k] = step[<<k, f[k - 1]>>]
        <5> HIDE DEF D, X, back, base, step, next
        <5> QED BY <2>4, <4>1 DEF Recurs
      <4> QED BY <3>2, <4>3, <4>4
    <3> QED BY <3>1, <3>2
  <2>6. Rule(f)
    <3> HIDE DEF next
    <3> QED BY <2>4, <2>5
  <2> QED BY <2>6
<1>4. Rule(pushed)
  <2>1. pushed = CHOOSE f : Rule(f)
    OBVIOUS
  <2> HIDE DEF Rule, pushed
  <2> QED BY <1>3, <2>1
<1>5. InOrder(pushed[n], params, n)
  <2> DEFINE Bad == {k \in 0 .. n : ~InOrder(pushed[k], params, k)}
  <2> HIDE DEF pushed
  <2>1. ASSUME Bad # {} PROVE FALSE
    <3>1. PICK k \in Bad : \A j \in Bad : k <= j
      <4>1. Bad \in SUBSET Nat
        BY <1>2
      <4> HIDE DEF Bad
      <4> QED BY <2>1, <4>1, Minimum
    <3>2. k \in 0 .. n /\ ~InOrder(pushed[k], params, k)
      BY <3>1
    <3>3. k # 0
      BY <1>4, <3>2, InOrderEmpty
    <3>4. k - 1 \in 0 .. n /\ ~(k <= k - 1) /\ k \in 1 .. n
      BY <1>2, <3>2, <3>3
    <3>5. InOrder(pushed[k - 1], params, k - 1)
      BY <3>1, <3>4
    <3>6. pushed[k] = next(k, pushed[k - 1])
      <4> HIDE DEF next
      <4> QED BY <1>4, <3>2, <3>3
    <3>7. InOrder(next(k, pushed[k - 1]), params, k)
      BY <3>4, <3>5, InOrderStep
    <3> QED BY <3>2, <3>6, <3>7
  <2>2. n \in 0 .. n
    BY <1>2
  <2> QED BY <2>1, <2>2
<1> QED BY <1>1, <1>5

\* What call() pushes is what Lua takes from the top of the stack.
LEMMA TopIs ==
  ASSUME NEW A, NEW args \in Seq(A), NEW B, NEW pushed \in Seq(B)
  PROVE  SubSeq(args \o pushed, Len(args \o pushed) - Len(pushed) + 1, Len(args \o pushed)) = pushed
<1> DEFINE S == A \cup B
           stack == args \o pushed
           m == Len(args) + 1
           n == Len(args) + Len(pushed)
           top == SubSeq(stack, m, n)
<1>1. args \in Seq(S) /\ pushed \in Seq(S)
  OBVIOUS
<1>2. Len(args) \in Nat /\ Len(pushed) \in Nat
  BY LenProperties
<1>3. /\ Len(stack) = Len(args) + Len(pushed)
      /\ \A i \in 1 .. Len(args) + Len(pushed) :
           stack[i] = IF i <= Len(args) THEN args[i] ELSE pushed[i - Len(args)]
  <2> HIDE DEF S
  <2> QED BY <1>1, ConcatProperties
<1> HIDE DEF stack
<1>4. \A i \in 1 .. Len(pushed) : stack[m + i - 1] = pushed[i]
  BY <1>2, <1>3
<1>5. \A i \in m .. n : stack[i] \in S
  <2>1. ASSUME NEW i \in m .. n PROVE stack[i] \in S
    <3>1. i - Len(args) \in 1 .. Len(pushed) /\ stack[i] = pushed[i - Len(args)]
      BY <1>2, <1>3
    <3> HIDE DEF S
    <3> QED BY <1>1, <3>1, ElementOfSeq
  <2> QED BY <2>1
<1>6. m \in Int /\ n \in Int /\ n - m + 1 = Len(pushed)
  BY <1>2
<1>7. /\ top \in Seq(S)
      /\ Len(top) = IF m <= n THEN n - m + 1 ELSE 0
      /\ \A i \in 1 .. n - m + 1 : top[i] = stack[m + i - 1]
  <2> HIDE DEF S, m, n
  <2> QED BY <1>5, <1>6, SubSeqProperties
<1>8. Len(top) = Len(pushed) /\ \A i \in 1 .. Len(pushed) : top[i] = pushed[i]
  BY <1>2, <1>4, <1>6, <1>7
<1>9. top = pushed
  <2> HIDE DEF S, top
  <2> QED BY <1>1, <1>7, <1>8, SeqEqual
<1>10. Len(stack) - Len(pushed) + 1 = m /\ Len(stack) = n
  BY <1>2, <1>3
<1> QED BY <1>9, <1>10 DEF stack, top

\* What call() pushes, and how many results it answers
Pushed(fn) == IF fn.how = "constructor" THEN <<<<"object", 1>>>> ELSE InvokeMethod(fn) \o TupleOutput(fn.params)
Answered(fn) ==
  IF fn.how = "constructor" THEN 1
  ELSE fn.ret + Cardinality({k \in DOMAIN fn.params : IsOutput(fn.params[k])})
Returned(fn) == IF fn.how = "constructor" THEN 1 ELSE fn.ret
Results == ({"return", "param"} \X Nat) \cup {<<"object", 1>>}

LEMMA PushedIs ==
  ASSUME NEW fn \in CppFunctions
  PROVE  LET got  == Pushed(fn)
             rest == SubSeq(got, Returned(fn) + 1, Len(got))
         IN  /\ got \in Seq(Results) /\ Len(got) = Answered(fn)
             /\ \A i \in 1 .. Returned(fn) :
                  got[i] = <<IF fn.how = "constructor" THEN "object" ELSE "return", i>>
             /\ {rest[i] : i \in DOMAIN rest} =
                  IF fn.how = "constructor" THEN {}
                  ELSE {<<"param", k>> : k \in {k \in DOMAIN fn.params : IsOutput(fn.params[k])}}
             /\ \A i, j \in DOMAIN rest : i < j => rest[i][2] < rest[j][2]
<1> DEFINE got  == Pushed(fn)
           rest == SubSeq(got, Returned(fn) + 1, Len(got))
           outputs == {k \in DOMAIN fn.params : IsOutput(fn.params[k])}
<1>1. CASE fn.how = "constructor"
  <2>1. got = <<<<"object", 1>>>> /\ Returned(fn) = 1 /\ Answered(fn) = 1
    BY <1>1 DEF Pushed, Returned, Answered
  <2>2. got \in Seq(Results) /\ Len(got) = 1 /\ got[1] = <<"object", 1>>
    BY <2>1 DEF Results
  <2> HIDE DEF got
  <2>3. rest = <<>>
    BY <2>1, <2>2, SubSeqEmpty
  <2> HIDE DEF rest
  <2>4. DOMAIN rest = {}
    BY <2>3
  <2>5. \A i \in 1 .. Returned(fn) : got[i] = <<"object", i>>
    BY <2>1, <2>2
  <2> QED BY <1>1, <2>1, <2>2, <2>4, <2>5 DEF rest, got
<1>2. CASE fn.how # "constructor"
  <2> DEFINE R == InvokeMethod(fn)
             O == TupleOutput(fn.params)
  <2>1. fn.ret \in Nat /\ Returned(fn) = fn.ret /\ Answered(fn) = fn.ret + Cardinality(outputs)
    BY <1>2, CallsAssumption DEF Returned, Answered
  <2>2. InOrder(O, fn.params, Len(fn.params))
    BY CallsAssumption, TupleOutputIs
  <2>3. DOMAIN fn.params = 1 .. Len(fn.params) /\ Len(fn.params) \in Nat
    BY CallsAssumption, LenProperties
  <2>4. Outputs(fn.params, Len(fn.params)) = outputs
    BY <2>3 DEF Outputs
  <2>5. /\ O \in Seq({"param"} \X DOMAIN fn.params) /\ Len(O) = Cardinality(outputs)
        /\ {O[i] : i \in DOMAIN O} = {<<"param", k>> : k \in outputs}
        /\ \A i, j \in DOMAIN O : i < j => O[i][2] < O[j][2]
    <3> HIDE DEF O, outputs
    <3> QED BY <2>2, <2>4 DEF InOrder
  <2>6. R \in Seq({"return"} \X Nat) /\ Len(R) = fn.ret /\ \A i \in 1 .. fn.ret : R[i] = <<"return", i>>
    BY <2>1 DEF InvokeMethod
  <2>7. R \in Seq(Results) /\ O \in Seq(Results)
    <3> HIDE DEF R, O, outputs
    <3>1. {"return"} \X Nat \subseteq Results /\ {"param"} \X DOMAIN fn.params \subseteq Results
      BY <2>3 DEF Results
    <3> QED BY <2>5, <2>6, <3>1
  <2>8. got = R \o O
    BY <1>2 DEF Pushed
  <2> HIDE DEF got, R, O, outputs
  <2>9. /\ got \in Seq(Results) /\ Len(got) = Len(R) + Len(O)
        /\ \A i \in 1 .. Len(R) + Len(O) : got[i] = IF i <= Len(R) THEN R[i] ELSE O[i - Len(R)]
    BY <2>7, <2>8, ConcatProperties
  <2>10. Len(O) \in Nat
    BY <2>7, LenProperties
  <2>11. ASSUME NEW i \in 1 .. fn.ret PROVE got[i] = <<"return", i>>
    <3>1. i \in 1 .. Len(R) + Len(O) /\ i <= Len(R)
      BY <2>1, <2>6, <2>10
    <3>2. got[i] = R[i]
      BY <2>9, <3>1
    <3> QED BY <2>6, <3>2
  <2>12. rest = O
    <3>1. SubSeq(R \o O, Len(R \o O) - Len(O) + 1, Len(R \o O)) = O
      BY <2>7, TopIs
    <3>2. Len(got) - Len(O) + 1 = Returned(fn) + 1
      BY <2>1, <2>6, <2>9, <2>10
    <3> QED BY <2>8, <3>1, <3>2
  <2>13. Len(got) = Answered(fn)
    BY <2>1, <2>5, <2>6, <2>9
  <2> HIDE DEF rest
  <2> QED BY <1>2, <2>1, <2>5, <2>9, <2>11, <2>12, <2>13 DEF got, rest, outputs
<1> QED BY <1>1, <1>2

\* What parameter k takes: its argument, or its default
FirstArg(fn) == IF fn.how = "function" THEN 1 ELSE 2

\* What a nil is converted to: a bool alone takes one.
LEMMA NilIs ==
  ASSUME NEW type \in {"int", "double", "bool", "string"}
  PROVE  GetValue(type, Nil) = IF type = "bool" THEN {Bool(FALSE)} ELSE {}
<1>1. ToNumber(Nil) = {} /\ ToInteger(Nil) = {} /\ ToStr(Nil) = {}
  BY DEF ToNumber, ToInteger, ToStr, Is, Nil
<1>2. ToBool(Nil) = {FALSE}
  BY DEF ToBool, Is, Nil
<1>3. {Bool(b) : b \in ToBool(Nil)} = {Bool(FALSE)}
  BY <1>2
<1>4. CASE type = "bool"
  BY <1>3, <1>4 DEF GetValue
<1>5. CASE type # "bool"
  <2>1. GetValue(type, Nil) = {}
    BY <1>1, <1>5 DEF GetValue
  <2> QED BY <1>5, <2>1
<1> QED BY <1>4, <1>5

LEMMA PassedRight ==
  ASSUME NEW fn \in CppFunctions, NEW args \in ArgumentLists
  PROVE  Passed(fn, args, Invoke(fn, args))
<1> DEFINE ps       == fn.params
           inputs   == {k \in DOMAIN ps : IsInput(ps[k])}
           place(k) == Cardinality({j \in inputs : j <= k}) + IF fn.how = "function" THEN 0 ELSE 1
           passed(k) == place(k) <= Len(args)
           default(k) == IF ps[k].spec = "def" THEN ps[k].def ELSE Fresh(ps[k].type)
           given(k) == IF passed(k) /\ args[place(k)] # Nil THEN GetValue(ps[k].type, args[place(k)])
                       ELSE IF ps[k].type = "bool" /\ (passed(k) \/ ~IsOptional(ps[k])) THEN {Bool(FALSE)}
                       ELSE IF IsOptional(ps[k]) THEN {default(k)} ELSE {}
           wrong(k) == given(k) = {}
           values(k) == IF IsInput(ps[k]) THEN Input(ps[k], args, Place(ps, FirstArg(fn), k)) ELSE {ps[k].spec}
           in       == TupleInput(ps, args, FirstArg(fn))
           out      == Invoke(fn, args)
           A        == {args[k] : k \in DOMAIN args}
           tail     == SubSeq(out.results, Returned(fn) + 1, Len(out.results))
           P        == {ps[k] : k \in DOMAIN ps}
<1>0. Passed(fn, args, out) <=>
        IF \E k \in inputs : given(k) = {} THEN out = Raised
        ELSE /\ out # Raised
             /\ \A k \in inputs : out.vals[k] \in given(k)
             /\ \A i \in 1 .. Returned(fn) :
                  out.results[i] = <<IF fn.how = "constructor" THEN "object" ELSE "return", i>>
             /\ {tail[i] : i \in DOMAIN tail} =
                  IF fn.how = "constructor" THEN {}
                  ELSE {<<"param", k>> : k \in {k \in DOMAIN ps : IsOutput(ps[k])}}
             /\ \A i, j \in DOMAIN tail : i < j => tail[i][2] < tail[j][2]
  BY DEF Passed, Returned
<1>1. ps \in Seq(P) /\ args \in Seq(A) /\ FirstArg(fn) \in Nat /\ fn.ret \in Nat
  BY CallsAssumption DEF FirstArg
<1>2. DOMAIN ps = 1 .. Len(ps) /\ Len(ps) \in Nat /\ Len(args) \in Nat
  BY <1>1, LenProperties
<1>3. IF \E k \in DOMAIN ps : values(k) = {} THEN in = Raised
      ELSE in # Raised /\ \A k \in DOMAIN ps : in.vals[k] \in values(k)
  <2> HIDE DEF ps, P
  <2> QED BY <1>1, TupleInputIs
<1>4. ASSUME NEW k \in inputs PROVE place(k) = Place(ps, FirstArg(fn), k) /\ place(k) \in Nat
  <2>1. {j \in inputs : j <= k} = InputsBefore(ps, k + 1)
    BY <1>2 DEF InputsBefore
  <2>2. k \in 1 .. Len(ps) + 1 /\ k <= Len(ps) /\ IsInput(ps[k])
    BY <1>2
  <2>3. /\ Cardinality(InputsBefore(ps, k)) \in Nat
        /\ Cardinality(InputsBefore(ps, k + 1)) = Cardinality(InputsBefore(ps, k)) + 1
    <3> HIDE DEF ps, P
    <3> QED BY <1>1, <2>2, BeforeSteps
  <2>4. place(k) = Cardinality(InputsBefore(ps, k + 1)) + (IF fn.how = "function" THEN 0 ELSE 1)
    BY <2>1
  <2>5. Place(ps, FirstArg(fn), k) = (IF fn.how = "function" THEN 1 ELSE 2) + Cardinality(InputsBefore(ps, k))
    BY DEF Place, FirstArg
  <2> HIDE DEF place, ps
  <2> QED BY <2>3, <2>4, <2>5
<1>5. ASSUME NEW k \in inputs PROVE values(k) = given(k)
  <2>1. values(k) = Input(ps[k], args, place(k)) /\ place(k) \in Nat
    BY <1>4
  <2>4. ps[k].type \in {"int", "double", "bool", "string"}
    BY CallsAssumption
  <2> HIDE DEF place, ps, values
  <2>5. GetValue(ps[k].type, Nil) = IF ps[k].type = "bool" THEN {Bool(FALSE)} ELSE {}
    BY <2>4, NilIs
  <2>6. passed(k) <=> ~(place(k) > Len(args))
    BY <1>2, <2>1
  <2> HIDE DEF passed, default
  <2>2. CASE IsOptional(ps[k])
    <3>1. values(k) = IF Missing(ps[k].type, args, place(k)) THEN {default(k)}
                      ELSE GetValue(ps[k].type, args[place(k)])
      BY <2>1, <2>2 DEF Input, Opt, default
    <3>2. Missing(ps[k].type, args, place(k)) <=>
            ~passed(k) \/ (args[place(k)] = Nil /\ ps[k].type # "bool")
      BY <2>6 DEF Missing
    <3> QED BY <2>2, <2>5, <3>1, <3>2
  <2>3. CASE ~IsOptional(ps[k])
    <3>1. values(k) = GetValue(ps[k].type, IF ~passed(k) THEN Nil ELSE args[place(k)])
      BY <2>1, <2>3, <2>6 DEF Input
    <3> QED BY <2>3, <2>5, <3>1
  <2> QED BY <2>2, <2>3
<1>6. \A k \in inputs : wrong(k) <=> given(k) = {}
  OBVIOUS
<1>7. \A k \in DOMAIN ps : k \notin inputs => values(k) # {}
  OBVIOUS
<1>8. out = IF in = Raised THEN Raised ELSE [vals |-> in.vals, results |-> Pushed(fn)]
  <2>1. Pushed(fn) \in Seq(Results) /\ Len(Pushed(fn)) = Answered(fn)
    BY PushedIs
  <2>2. SubSeq(args \o Pushed(fn), Len(args \o Pushed(fn)) - Answered(fn) + 1, Len(args \o Pushed(fn))) = Pushed(fn)
    <3> HIDE DEF A
    <3> QED BY <1>1, <2>1, TopIs
  <2> QED BY <2>2 DEF Invoke, Pushed, Answered, FirstArg
<1>9. CASE \E k \in inputs : wrong(k)
  <2>1. \E k \in DOMAIN ps : values(k) = {}
    <3> HIDE DEF values, given, wrong
    <3> QED BY <1>5, <1>6, <1>9
  <2>2. out = Raised
    <3> HIDE DEF values, in, out
    <3> QED BY <1>3, <1>8, <2>1
  <2> QED BY <1>0, <1>9, <2>2
<1>10. CASE ~\E k \in inputs : wrong(k)
  <2>1. ~\E k \in DOMAIN ps : values(k) = {}
    <3> HIDE DEF values, given, wrong
    <3> QED BY <1>5, <1>6, <1>7, <1>10
  <2>2. in # Raised /\ \A k \in DOMAIN ps : in.vals[k] \in values(k)
    <3> HIDE DEF values, in
    <3> QED BY <1>3, <2>1
  <2>3. out = [vals |-> in.vals, results |-> Pushed(fn)]
    <3> HIDE DEF in, out
    <3> QED BY <1>8, <2>2
  <2>4. out # Raised /\ out.vals = in.vals /\ out.results = Pushed(fn)
    <3> HIDE DEF in, out
    <3> QED BY <2>3 DEF Raised
  <2>5. \A k \in inputs : out.vals[k] \in given(k)
    <3> HIDE DEF in, out, values, given
    <3> QED BY <1>5, <2>2, <2>4
  <2> DEFINE got  == Pushed(fn)
             rest == SubSeq(got, Returned(fn) + 1, Len(got))
  <2>6. /\ \A i \in 1 .. Returned(fn) :
             got[i] = <<IF fn.how = "constructor" THEN "object" ELSE "return", i>>
        /\ {rest[i] : i \in DOMAIN rest} =
             IF fn.how = "constructor" THEN {}
             ELSE {<<"param", k>> : k \in {k \in DOMAIN ps : IsOutput(ps[k])}}
        /\ \A i, j \in DOMAIN rest : i < j => rest[i][2] < rest[j][2]
    BY PushedIs
  <2> HIDE DEF in, out, got
  <2>7. out.results = got
    BY <2>4 DEF got
  <2>8. /\ \A i \in 1 .. Returned(fn) :
             out.results[i] = <<IF fn.how = "constructor" THEN "object" ELSE "return", i>>
        /\ {tail[i] : i \in DOMAIN tail} =
             IF fn.how = "constructor" THEN {}
             ELSE {<<"param", k>> : k \in {k \in DOMAIN ps : IsOutput(ps[k])}}
        /\ \A i, j \in DOMAIN tail : i < j => tail[i][2] < tail[j][2]
    BY <2>6, <2>7
  <2>9. out # Raised
    BY <2>4
  <2> HIDE DEF given, wrong, tail, in, out, inputs, got, rest
  <2>10. Passed(fn, args, out)
    BY <1>0, <1>10, <2>5, <2>8, <2>9
  <2> QED BY <2>10 DEF out
<1> QED BY <1>9, <1>10

\* A parameter takes its own argument and Lua gets what the function gave
\* (CppArgTupleInput::get(), CppArgTupleOutput::push(), CppInvoke.h), for any
\* parameters and any arguments.
THEOREM ArgumentsPassed == CallsSpec => []ArgumentsKept
<1>1. CallsInit => ArgumentsKept
  BY DEF CallsInit, NoCall, ArgumentsKept
<1>2. ArgumentsKept /\ [CallsNext]_result => ArgumentsKept'
  <2> SUFFICES ASSUME ArgumentsKept, [CallsNext]_result PROVE ArgumentsKept'
    OBVIOUS
  <2>1. ASSUME NEW fn \in CppFunctions, NEW args \in ArgumentLists, CallFunction(fn, args)
        PROVE  ArgumentsKept'
    <3>1. result'.fn = fn /\ result'.args = args /\ result'.out = Invoke(fn, args)
      BY <2>1 DEF CallFunction
    <3> QED BY <3>1, PassedRight DEF ArgumentsKept
  <2>2. ASSUME NEW sec \in Seconds, SetTimeoutSec(sec)
        PROVE  ArgumentsKept'
    <3>1. "fn" \notin DOMAIN result'
      BY <2>2 DEF SetTimeoutSec
    <3> QED BY <3>1 DEF ArgumentsKept
  <2>3. CASE UNCHANGED result
    BY <2>3 DEF ArgumentsKept
  <2> QED BY <2>1, <2>2, <2>3 DEF CallsNext
<1> QED BY <1>1, <1>2, PTL DEF CallsSpec

\* Division, and a cast that truncates towards zero
LEMMA Quotient ==
  ASSUME NEW n \in Nat, NEW d \in Nat \ {0}
  PROVE  n \div d \in Nat /\ (n \div d) * d <= n /\ n < (n \div d) * d + d
<1>1. n = d * (n \div d) + (n % d) /\ n % d \in 0 .. d - 1 /\ n \div d \in Int
  OBVIOUS
<1> DEFINE q == n \div d
           r == n % d
<1>2. q \in Int /\ r \in 0 .. d - 1 /\ n = d * q + r
  BY <1>1
<1> HIDE DEF q, r
<1>3. q >= 0
  <2> SUFFICES ASSUME q <= -1 PROVE FALSE
    BY <1>2
  <2>1. d * q <= d * (-1)
    BY <1>2
  <2> QED BY <1>2, <2>1
<1> QED BY <1>2, <1>3 DEF q, r

LEMMA TruncateBounds ==
  ASSUME NEW n \in Int, NEW d \in Nat \ {0}
  PROVE  /\ Truncate(n, d) \in Int
         /\ n >= 0 => Truncate(n, d) >= 0 /\ Truncate(n, d) * d <= n /\ n < Truncate(n, d) * d + d
         /\ n < 0  => Truncate(n, d) <= 0 /\ Truncate(n, d) * d >= n
<1>1. CASE n >= 0
  BY <1>1, Quotient DEF Truncate
<1>2. CASE n < 0
  <2> DEFINE q == (-n) \div d
  <2>1. q \in Nat /\ q * d <= -n
    BY <1>2, Quotient
  <2>2. Truncate(n, d) = -q
    BY <1>2 DEF Truncate
  <2> HIDE DEF q
  <2>3. (-q) * d = -(q * d)
    BY <2>1
  <2>4. q * d \in Int
    BY <2>1
  <2> QED BY <1>2, <2>1, <2>2, <2>3, <2>4
<1> QED BY <1>1, <1>2

\* What a timeout of h is in milliseconds, in the words of TimeoutKept
Timely(ms, h) ==
  /\ ms <= MaxMs
  /\ ms * Unit <= h * 1000 \/ h < 0 \/ h * 1000 >= (MaxMs - 999) * Unit
  /\ ms * Unit > h * 1000 - Unit \/ ms = MaxMs
  /\ h < 0 => ms <= 0

LEMMA LateTimely ==
  ASSUME NEW h \in Int, h >= (MaxMs \div 1000) * Unit
  PROVE  Timely(MaxMs, h)
<1> DEFINE q == MaxMs \div 1000
<1>1. MaxMs \in Nat /\ Unit \in Nat \ {0}
  BY CallsAssumption
<1>2. q \in Nat /\ q * 1000 >= MaxMs - 999
  BY <1>1, Quotient
<1> HIDE DEF q
<1>3. q * Unit \in Nat
  BY <1>1, <1>2
<1>4. h >= q * Unit
  BY DEF q
<1>5. (q * 1000) * Unit >= (MaxMs - 999) * Unit
  BY <1>1, <1>2
<1>6. (q * 1000) * Unit = (q * Unit) * 1000
  BY <1>1, <1>2
<1>7. h * 1000 >= (MaxMs - 999) * Unit
  <2>1. h * 1000 >= (q * Unit) * 1000
    BY <1>3, <1>4
  <2>2. (MaxMs - 999) * Unit \in Int
    BY <1>1
  <2> QED BY <1>3, <1>5, <1>6, <2>1, <2>2
<1> QED BY <1>1, <1>3, <1>4, <1>7 DEF Timely

LEMMA CastTimely ==
  ASSUME NEW h \in Int, h < (MaxMs \div 1000) * Unit
  PROVE  Timely(Cast(h * 1000, Unit, MaxMs), h)
<1> DEFINE q == MaxMs \div 1000
           n == h * 1000
           t == Truncate(n, Unit)
           ms == Cast(n, Unit, MaxMs)
<1>1. MaxMs \in Nat /\ Unit \in Nat \ {0}
  BY CallsAssumption
<1>2. q \in Nat /\ q * 1000 <= MaxMs
  BY <1>1, Quotient
<1>3. n \in Int /\ (h < 0 <=> n < 0)
  OBVIOUS
<1>4. /\ t \in Int
      /\ n >= 0 => t >= 0 /\ t * Unit <= n /\ n < t * Unit + Unit
      /\ n < 0  => t <= 0 /\ t * Unit >= n
  BY <1>1, <1>3, TruncateBounds
<1>5. ms = IF t < -MaxMs - 1 THEN -MaxMs - 1 ELSE t
  BY DEF Cast
<1>6. h < q * Unit
  OBVIOUS
<1>7. n = h * 1000
  OBVIOUS
<1> HIDE DEF q, n, t, ms
<1>8. n < MaxMs * Unit
  <2>1. n < (q * Unit) * 1000 /\ q * Unit \in Int
    BY <1>1, <1>2, <1>6, <1>7
  <2>2. (q * Unit) * 1000 = (q * 1000) * Unit
    BY <1>1, <1>2
  <2>3. (q * 1000) * Unit <= MaxMs * Unit
    BY <1>1, <1>2
  <2>4. (q * 1000) * Unit \in Int /\ MaxMs * Unit \in Int
    BY <1>1, <1>2
  <2> QED BY <1>3, <2>1, <2>2, <2>3, <2>4
<1>9. t * Unit \in Int /\ MaxMs * Unit \in Int
  BY <1>1, <1>4
<1>10. t <= MaxMs
  <2> SUFFICES ASSUME t > MaxMs PROVE FALSE
    BY <1>1, <1>4
  <2>1. t * Unit >= MaxMs * Unit
    BY <1>1, <1>4
  <2>2. n >= 0
    BY <1>1, <1>3, <1>4
  <2> QED BY <1>3, <1>4, <1>8, <1>9, <2>1, <2>2
<1>11. CASE t < -MaxMs - 1
  <2>1. ms = -MaxMs - 1 /\ n < 0
    BY <1>1, <1>3, <1>4, <1>5, <1>11
  <2>2. ms * Unit >= t * Unit
    BY <1>1, <1>4, <1>11, <2>1
  <2>3. ms * Unit \in Int
    BY <1>1, <2>1
  <2>4. ms * Unit > n - Unit
    BY <1>1, <1>3, <1>4, <1>9, <2>1, <2>2, <2>3
  <2> QED BY <1>1, <1>3, <1>7, <2>1, <2>4 DEF Timely, n, ms
<1>12. CASE ~(t < -MaxMs - 1)
  <2>1. ms = t
    BY <1>5, <1>12
  <2>2. ms * Unit > n - Unit
    BY <1>1, <1>3, <1>4, <1>9, <2>1
  <2>3. ms * Unit <= n \/ n < 0
    BY <1>3, <1>4, <2>1
  <2> QED BY <1>3, <1>4, <1>7, <1>10, <2>1, <2>2, <2>3 DEF Timely, n, ms
<1> QED BY <1>11, <1>12

LEMMA TimeoutTimely ==
  ASSUME NEW sec \in Seconds, NEW ms \in GetTimeoutMs(sec, Unit, MaxMs)
  PROVE  /\ ms <= MaxMs
         /\ sec = Nil => ms = MaxMs
         /\ \A h \in ToNumber(sec) : Timely(ms, h)
<1>1. CASE sec = Nil
  <2>1. ms = MaxMs /\ MaxMs \in Nat
    BY <1>1, CallsAssumption DEF GetTimeoutMs
  <2>2. ToNumber(sec) = {}
    BY <1>1 DEF Nil, ToNumber, Is
  <2> QED BY <2>1, <2>2
<1>2. CASE sec # Nil
  <2>1. PICK h \in ToNumber(sec) : ms = IF h < (MaxMs \div 1000) * Unit
                                        THEN Cast(h * 1000, Unit, MaxMs) ELSE MaxMs
    BY <1>2 DEF GetTimeoutMs
  <2>2. h \in Int
    BY CallsAssumption
  <2>3. Timely(ms, h)
    <3>1. CASE h < (MaxMs \div 1000) * Unit
      BY <2>1, <2>2, <3>1, CastTimely
    <3>2. CASE ~(h < (MaxMs \div 1000) * Unit)
      <4>1. h >= (MaxMs \div 1000) * Unit
        <5>1. (MaxMs \div 1000) * Unit \in Int
          BY CallsAssumption, Quotient
        <5> QED BY <2>2, <3>2, <5>1
      <4> QED BY <2>1, <2>2, <3>2, <4>1, LateTimely
    <3> QED BY <3>1, <3>2
  <2>4. \A g \in ToNumber(sec) : g = h
    BY ValueAssumption DEF ToNumber
  <2> QED BY <1>2, <2>3, <2>4 DEF Timely
<1> QED BY <1>1, <1>2

\* A timeout ends when it was asked to, to the millisecond, as far as an
\* int64_t goes (util::GetTimeoutMs(), GetTimeoutMs.cpp:7), for any width of
\* it and any fraction of a second.
THEOREM TimeoutsKept == CallsSpec => []TimeoutKept
<1>1. CallsInit => TimeoutKept
  BY DEF CallsInit, NoCall, TimeoutKept
<1>2. TimeoutKept /\ [CallsNext]_result => TimeoutKept'
  <2> SUFFICES ASSUME TimeoutKept, [CallsNext]_result PROVE TimeoutKept'
    OBVIOUS
  <2>1. ASSUME NEW fn \in CppFunctions, NEW args \in ArgumentLists, CallFunction(fn, args)
        PROVE  TimeoutKept'
    <3>1. "sec" \notin DOMAIN result'
      BY <2>1 DEF CallFunction
    <3> QED BY <3>1 DEF TimeoutKept
  <2>2. ASSUME NEW sec \in Seconds, SetTimeoutSec(sec)
        PROVE  TimeoutKept'
    <3>1. PICK ms \in GetTimeoutMs(sec, Unit, MaxMs) : result' = [sec |-> sec, ms |-> ms]
      BY <2>2 DEF SetTimeoutSec
    <3>2. result'.sec = sec /\ result'.ms = ms
      BY <3>1
    <3>3. /\ ms <= MaxMs
          /\ sec = Nil => ms = MaxMs
          /\ \A h \in ToNumber(sec) : Timely(ms, h)
      BY TimeoutTimely
    <3> QED BY <3>2, <3>3 DEF TimeoutKept, Timely
  <2>3. CASE UNCHANGED result
    BY <2>3 DEF TimeoutKept
  <2> QED BY <2>1, <2>2, <2>3 DEF CallsNext
<1> QED BY <1>1, <1>2, PTL DEF CallsSpec
-----------------------------------------------------------------------------
(* Proofs about LuaScalar, for any enums and any width of the integers.    *)

\* Division by a symbolic number
LEMMA Remainder ==
  ASSUME NEW i \in Int, NEW n \in Nat \ {0}
  PROVE  i % n \in 0 .. n - 1 /\ \E q \in Int : i = q * n + (i % n)
<1>1. i % n \in 0 .. n - 1 /\ i \div n \in Int /\ i = n * (i \div n) + (i % n)
  OBVIOUS
<1> DEFINE r == i % n
           q == i \div n
<1>2. r \in Int /\ q \in Int /\ i = n * q + r
  BY <1>1
<1> HIDE DEF r, q
<1>3. i = q * n + r
  BY <1>2
<1> QED BY <1>1, <1>2, <1>3 DEF r

LEMMA RemainderIs ==
  ASSUME NEW i \in Int, NEW n \in Nat \ {0}, NEW r \in 0 .. n - 1, NEW q \in Int, i = q * n + r
  PROVE  i % n = r
<1>1. PICK p \in Int : i = p * n + (i % n)
  BY Remainder
<1> DEFINE s == i % n
<1>2. s \in 0 .. n - 1 /\ i = p * n + s
  BY <1>1, Remainder
<1> HIDE DEF s
<1>3. (p - q) * n = r - s
  BY <1>2
<1>4. p - q = 0
  <2>1. p - q >= 1 => (p - q) * n >= n
    OBVIOUS
  <2>2. p - q <= -1 => (p - q) * n <= -n
    OBVIOUS
  <2> QED BY <1>2, <1>3, <2>1, <2>2
<1>5. (p - q) * n = 0
  BY <1>4
<1> QED BY <1>2, <1>3, <1>5 DEF s

LEMMA MultipleIs ==
  ASSUME NEW n \in Nat \ {0}, NEW q \in Int
  PROVE  (q * n) % n = 0
<1>1. q * n = q * n + 0 /\ q * n \in Int /\ 0 \in 0 .. n - 1
  OBVIOUS
<1> QED BY <1>1, RemainderIs

\* Half the numbers of an integer are negative.
Even(n) == n \in Nat \ {0} /\ n % 2 = 0

LEMMA SignedIs ==
  ASSUME NEW n, Even(n), NEW i \in Int
  PROVE  /\ n \div 2 \in Nat \ {0} /\ n = 2 * (n \div 2)
         /\ Signed(n, i) \in -(n \div 2) .. n \div 2 - 1
         /\ \E q \in Int : Signed(n, i) = i - q * n
         /\ i \in -(n \div 2) .. n \div 2 - 1 => Signed(n, i) = i
<1>1. n \div 2 \in Nat \ {0} /\ n = 2 * (n \div 2) /\ n \in Nat \ {0}
  BY DEF Even
<1> DEFINE h == n \div 2
           r == (i + h) % n
<1>2. r \in 0 .. n - 1 /\ \E q \in Int : i + h = q * n + r
  <2>1. i + h \in Int
    BY <1>1
  <2> HIDE DEF h
  <2> QED BY <1>1, <2>1, Remainder
<1>3. Signed(n, i) = r - h
  BY DEF Signed
<1>4. ASSUME i \in -h .. h - 1 PROVE r = i + h
  <2>1. i + h \in 0 .. n - 1 /\ i + h = 0 * n + (i + h)
    BY <1>1, <1>4
  <2> QED BY <1>1, <2>1, RemainderIs
<1>5. h \in Nat \ {0} /\ n = 2 * h
  BY <1>1
<1> HIDE DEF h, r
<1>6. PICK q \in Int : i + h = q * n + r
  BY <1>2
<1>7. r - h = i - q * n /\ r - h \in -h .. h - 1
  <2>1. q * n \in Int
    BY <1>5
  <2> QED BY <1>2, <1>5, <1>6, <2>1
<1>8. i \in -h .. h - 1 => r - h = i
  BY <1>4, <1>5
<1> QED BY <1>1, <1>3, <1>7, <1>8 DEF h

LEMMA UnsignedIs ==
  ASSUME NEW n \in Nat \ {0}, NEW i \in Int
  PROVE  /\ Unsigned(n, i) \in 0 .. n - 1
         /\ \E q \in Int : Unsigned(n, i) = i - q * n
         /\ i \in 0 .. n - 1 => Unsigned(n, i) = i
<1>1. PICK q \in Int : i = q * n + (i % n)
  BY Remainder
<1>2. Unsigned(n, i) = i % n
  BY DEF Unsigned
<1>3. i % n \in 0 .. n - 1
  BY Remainder
<1>4. i \in 0 .. n - 1 => i % n = i
  <2>1. i = 0 * n + i
    OBVIOUS
  <2> QED BY <2>1, RemainderIs
<1>5. Unsigned(n, i) = i - q * n
  <2>1. q * n \in Int
    OBVIOUS
  <2> QED BY <1>1, <1>2, <1>3, <2>1
<1> QED BY <1>2, <1>3, <1>4, <1>5

\* A cast that goes back and forth
LEMMA UnsignedOfSigned ==
  ASSUME NEW n, Even(n), NEW i \in 0 .. n - 1
  PROVE  Unsigned(n, Signed(n, i)) = i
<1>1. n \in Nat \ {0}
  BY DEF Even
<1>2. PICK q \in Int : Signed(n, i) = i - q * n
  BY SignedIs
<1>3. Signed(n, i) = (-q) * n + i /\ Signed(n, i) \in Int
  <2>1. (-q) * n = -(q * n) /\ q * n \in Int
    BY <1>1
  <2> QED BY <1>2, <2>1
<1>4. Signed(n, i) % n = i
  BY <1>1, <1>3, RemainderIs
<1> QED BY <1>4 DEF Unsigned

LEMMA Ranges ==
  /\ Even(IntRange) /\ Even(LuaRange)
  /\ \E k \in Nat : LuaRange = k * IntRange
  /\ LuaRange >= 2 * IntRange
<1> DEFINE m == 2 * IntRange
<1>1. IntRange \in Nat \ {0} /\ m \in Nat \ {0} /\ LuaRange \in Nat \ {0} /\ LuaRange % m = 0
  BY ValueAssumption
<1>2. PICK q \in Int : LuaRange = q * m + 0
  <2> HIDE DEF m
  <2>1. \E q \in Int : LuaRange = q * m + (LuaRange % m)
    <3>1. LuaRange \in Int /\ m \in Nat \ {0}
      BY <1>1
    <3> QED BY <3>1, Remainder
  <2> QED BY <1>1, <2>1
<1>3. q >= 1
  <2> HIDE DEF m
  <2>1. q * m >= 1
    BY <1>1, <1>2
  <2>2. q <= 0 => q * m <= 0
    BY <1>1
  <2>3. q \in Int /\ q * m \in Int
    BY <1>1
  <2> QED BY <2>1, <2>2, <2>3
<1>4. LuaRange >= 2 * IntRange
  <2> HIDE DEF m
  <2>1. q * m >= m
    BY <1>1, <1>3
  <2> QED BY <1>1, <1>2, <2>1 DEF m
<1>5. LuaRange = (2 * q) * IntRange /\ 2 * q \in Nat
  BY <1>1, <1>2, <1>3
<1>6. LuaRange = (q * IntRange) * 2 /\ q * IntRange \in Int
  BY <1>1, <1>2
<1>7. LuaRange % 2 = 0
  BY <1>6, MultipleIs
<1> QED BY <1>1, <1>4, <1>5, <1>7, ValueAssumption DEF Even

\* What a lua_Integer holds is pushed as it is.
LEMMA FitsRange ==
  ASSUME NEW y \in Int,
         \/ \E n \in {IntRange, LuaRange} : y \in -(n \div 2) .. n \div 2 - 1
         \/ y \in 0 .. IntRange - 1
  PROVE  Signed(LuaRange, y) = y
<1> DEFINE a == IntRange \div 2
           b == LuaRange \div 2
<1>1. /\ a \in Nat \ {0} /\ IntRange = 2 * a
      /\ b \in Nat \ {0} /\ LuaRange = 2 * b
  <2>1. 0 \in Int
    OBVIOUS
  <2> QED BY <2>1, Ranges, SignedIs
<1>2. LuaRange >= 2 * IntRange
  BY Ranges
<1>3. y \in -a .. a - 1 \/ y \in -b .. b - 1 \/ y \in 0 .. IntRange - 1
  OBVIOUS
<1>4. y \in -b .. b - 1
  <2> HIDE DEF a, b
  <2> QED BY <1>1, <1>2, <1>3
<1> QED BY <1>4, Ranges, SignedIs

\* What every Lua value is
Proper(v) == (Is("num", v) => v.num \in Int) /\ (Is("nil", v) => v = Nil)

ScalarKinds == {"int32", "uint32", "int64", "uint64", "enum", "bool", "string", "double"}

LEMMA ToIntegerInt == ASSUME NEW v, Proper(v) PROVE ToNumber(v) \subseteq Int /\ ToInteger(v) \subseteq Int
<1>1. ToNumber(v) \subseteq Int
  BY ValueAssumption DEF ToNumber, Proper
<1>2. \A h \in ToNumber(v) : h \div 2 \in Int
  BY <1>1
<1> QED BY <1>1, <1>2 DEF ToInteger

\* A value is the numeral of one number at most.
LEMMA OneNumber == ASSUME NEW v, NEW h \in ToNumber(v) PROVE ToNumber(v) = {h}
BY ValueAssumption DEF ToNumber

LEMMA OneInteger ==
  ASSUME NEW v, NEW i \in ToInteger(v)
  PROVE  \A j \in ToInteger(v) : j = i
BY OneNumber DEF ToInteger

\* What a number that was decoded is taken for when it is encoded again
LEMMA NumIs ==
  ASSUME NEW i \in Int
  PROVE  /\ Num(2 * i).num = 2 * i /\ (2 * i) \div 2 = i /\ (2 * i) % 2 = 0
         /\ ToNumber(Num(2 * i)) = {2 * i} /\ ToInteger(Num(2 * i)) = {i}
         /\ ~Is("str", Num(2 * i))
<1>1. (2 * i) \div 2 = i /\ (2 * i) % 2 = 0
  OBVIOUS
<1>2. Num(2 * i).num = 2 * i /\ Is("num", Num(2 * i)) /\ ~Is("str", Num(2 * i))
  BY DEF Num, Is
<1>3. ToNumber(Num(2 * i)) = {2 * i}
  BY <1>2 DEF ToNumber
<1>4. ToInteger(Num(2 * i)) = {i}
  BY <1>1, <1>3 DEF ToInteger
<1> QED BY <1>1, <1>2, <1>3, <1>4

\* An integer that was stored as x, as far from i as some multiple of n, and
\* pushed as w, which is as far from x as a multiple of the larger range
LEMMA PushedSame ==
  ASSUME NEW i \in Int, NEW x \in Int, NEW n \in {IntRange, LuaRange},
         \E q \in Int : x = i - q * n
  PROVE  /\ Signed(LuaRange, x) \in Int
         /\ PushInteger(x) = Num(2 * Signed(LuaRange, x))
         /\ (Signed(LuaRange, x) - i) % n = 0
<1> DEFINE w == Signed(LuaRange, x)
<1>1. w \in Int /\ \E p \in Int : w = x - p * LuaRange
  <2>1. PICK p \in Int : w = x - p * LuaRange
    BY SignedIs, Ranges
  <2>2. p * LuaRange \in Int
    BY Ranges DEF Even
  <2> QED BY <2>1, <2>2
<1> HIDE DEF w
<1>2. PICK q \in Int : x = i - q * n
  OBVIOUS
<1>3. PICK p \in Int : w = x - p * LuaRange
  BY <1>1
<1>4. n \in Nat \ {0} /\ \E k \in Nat : LuaRange = k * n
  <2>1. LuaRange = 1 * LuaRange
    BY Ranges DEF Even
  <2> QED BY <2>1, Ranges DEF Even
<1>5. PICK k \in Nat : LuaRange = k * n
  BY <1>4
<1>6. w - i = (-(q + p * k)) * n
  <2>1. p * LuaRange = (p * k) * n
    BY <1>4, <1>5
  <2>2. (-(q + p * k)) * n = -(q * n) - ((p * k) * n)
    BY <1>4
  <2>3. q * n \in Int /\ (p * k) * n \in Int
    BY <1>4
  <2> QED BY <1>2, <1>3, <2>1, <2>2, <2>3
<1>7. -(q + p * k) \in Int
  OBVIOUS
<1>8. (w - i) % n = 0
  BY <1>4, <1>6, <1>7, MultipleIs
<1> QED BY <1>1, <1>8 DEF w, PushInteger

\* x is what v is stored as, and comes back as itself.
Kept(f, v, x) == SameScalar(f, v, GetScalar(f, x)) /\ Scalar(f, GetScalar(f, x)) = {x}

LEMMA SignedKept ==
  ASSUME NEW f, NEW v, Proper(v), NEW x \in Scalar(f, v), f.kind \in {"int32", "int64"}
  PROVE  Kept(f, v, x)
<1> DEFINE n == RangeOf(f)
<1>1. n \in {IntRange, LuaRange} /\ Even(n) /\ n <= LuaRange
  BY Ranges DEF RangeOf, Even
<1>2. \A u : Scalar(f, u) = {Num(2 * Signed(n, i)) : i \in ToInteger(u)}
  BY DEF Scalar, RangeOf
<1> HIDE DEF n
<1>3. PICK i \in ToInteger(v) : x = Num(2 * Signed(n, i))
  BY <1>2
<1>4. i \in Int
  BY ToIntegerInt
<1> DEFINE y == Signed(n, i)
<1>5. y \in -(n \div 2) .. n \div 2 - 1 /\ y \in Int /\ \E q \in Int : y = i - q * n
  BY <1>1, <1>4, SignedIs
<1> HIDE DEF y
<1>6. Signed(n, y) = y /\ Signed(LuaRange, y) = y
  BY <1>1, <1>5, FitsRange, SignedIs
<1>7. x = Num(2 * y) /\ x.num = 2 * y /\ x.num \div 2 = y /\ ToInteger(x) = {y}
  BY <1>3, <1>5, NumIs DEF y
<1>8. GetScalar(f, x) = x
  BY <1>6, <1>7 DEF GetScalar, PushInteger
<1>9. (y - i) % n = 0
  BY <1>1, <1>4, <1>5, <1>6, PushedSame
<1>10. SameScalar(f, v, x)
  <2>1. \A j \in ToInteger(v) : (x.num \div 2 - j) % n = 0
    BY <1>3, <1>7, <1>9, OneInteger
  <2>2. x.num % 2 = 0
    BY <1>5, <1>7, NumIs
  <2> QED BY <2>1, <2>2 DEF SameScalar, n
<1>11. Scalar(f, x) = {x}
  BY <1>2, <1>6, <1>7
<1> QED BY <1>8, <1>10, <1>11 DEF Kept

LEMMA UnsignedKept ==
  ASSUME NEW f, NEW v, Proper(v), NEW x \in Scalar(f, v), f.kind \in {"uint32", "uint64"}
  PROVE  Kept(f, v, x)
<1> DEFINE n == RangeOf(f)
<1>1. n \in {IntRange, LuaRange} /\ Even(n) /\ n \in Nat \ {0}
  BY Ranges DEF RangeOf, Even
<1>2. \A u : Scalar(f, u) = {Num(2 * Unsigned(n, i)) : i \in ToInteger(u)}
  BY DEF Scalar, RangeOf
<1>3. f.kind = "uint64" => n = LuaRange
  BY DEF RangeOf
<1>4. f.kind = "uint32" => n = IntRange
  BY DEF RangeOf
<1> HIDE DEF n
<1>5. PICK i \in ToInteger(v) : x = Num(2 * Unsigned(n, i))
  BY <1>2
<1>6. i \in Int
  BY ToIntegerInt
<1> DEFINE y == Unsigned(n, i)
           w == Signed(LuaRange, y)
<1>7. y \in 0 .. n - 1 /\ y \in Int /\ \E q \in Int : y = i - q * n
  <2>1. n \in Nat \ {0}
    BY <1>1
  <2>2. y \in 0 .. n - 1 /\ \E q \in Int : y = i - q * n
    BY <1>6, <2>1, UnsignedIs
  <2> HIDE DEF y
  <2> QED BY <2>1, <2>2
<1> HIDE DEF y
<1>8. w \in Int /\ PushInteger(y) = Num(2 * w) /\ (w - i) % n = 0
  BY <1>1, <1>6, <1>7, PushedSame
<1>9. Unsigned(n, w) = y
  <2>1. CASE f.kind = "uint64"
    BY <1>3, <1>7, <2>1, UnsignedOfSigned, Ranges
  <2>2. CASE f.kind = "uint32"
    <3>1. w = y
      BY <1>4, <1>7, <2>2, FitsRange
    <3> QED BY <1>1, <1>7, <3>1, UnsignedIs
  <2> QED BY <2>1, <2>2
<1>10. f.kind = "uint32" => w >= 0
  <2> SUFFICES ASSUME f.kind = "uint32" PROVE w >= 0
    OBVIOUS
  <2>1. w = y
    BY <1>4, <1>7, FitsRange
  <2> QED BY <1>7, <2>1
<1> HIDE DEF w
<1>11. x = Num(2 * y) /\ x.num \div 2 = y
  BY <1>5, <1>7, NumIs DEF y
<1>12. GetScalar(f, x) = Num(2 * w)
  BY <1>8, <1>11 DEF GetScalar
<1> DEFINE z == Num(2 * w)
<1>13. z.num = 2 * w /\ z.num \div 2 = w /\ z.num % 2 = 0 /\ ToInteger(z) = {w}
  BY <1>8, NumIs
<1> HIDE DEF z
<1>14. SameScalar(f, v, z)
  <2>1. \A j \in ToInteger(v) : (z.num \div 2 - j) % n = 0
    BY <1>5, <1>8, <1>13, OneInteger
  <2>2. f.kind = "uint32" => z.num >= 0
    BY <1>8, <1>10, <1>13
  <2> QED BY <1>13, <2>1, <2>2 DEF SameScalar, n
<1>15. Scalar(f, z) = {x}
  BY <1>2, <1>9, <1>11, <1>13
<1> QED BY <1>12, <1>14, <1>15 DEF Kept, z

LEMMA EnumKept ==
  ASSUME NEW f, NEW v, Proper(v), NEW x \in Scalar(f, v), f.kind = "enum", f.type \in DOMAIN Enums
  PROVE  Kept(f, v, x)
<1> DEFINE named == Is("str", v) /\ v.str \in DOMAIN Enums[f.type]
<1>1. PICK y \in GetEnumValue(f, v) : x = Num(2 * y)
  BY DEF Scalar
<1>2. Even(IntRange) /\ Even(LuaRange) /\ LuaRange >= 2 * IntRange /\ IntRange \in Nat \ {0}
  BY Ranges DEF Even
<1>3. y \in -(IntRange \div 2) .. IntRange \div 2 - 1 /\ y \in Int
  <2>1. IntRange \div 2 \in Nat
    BY <1>2, SignedIs
  <2>2. CASE named
    BY <1>1, <2>1, <2>2, EnumsAssumption DEF GetEnumValue
  <2>3. CASE ~named
    <3>1. PICK i \in ToInteger(v) : y = Signed(IntRange, i)
      BY <1>1, <2>3 DEF GetEnumValue
    <3>2. i \in Int
      BY ToIntegerInt
    <3> QED BY <1>2, <2>1, <3>1, <3>2, SignedIs
  <2> QED BY <2>2, <2>3
<1>4. Signed(IntRange, y) = y /\ Signed(LuaRange, y) = y
  <2>1. Signed(LuaRange, y) = y
    BY <1>3, FitsRange
  <2> QED BY <1>2, <1>3, <2>1, SignedIs
<1>5. x.num = 2 * y /\ x.num \div 2 = y /\ ToInteger(x) = {y} /\ ~Is("str", x)
  BY <1>1, <1>3, NumIs
<1>6. GetScalar(f, x) = x
  BY <1>1, <1>4, <1>5 DEF GetScalar, PushInteger
<1>7. SameScalar(f, v, x)
  <2>1. CASE named
    BY <1>1, <2>1 DEF SameScalar, GetEnumValue
  <2>2. CASE ~named
    <3>1. PICK i \in ToInteger(v) : y = Signed(IntRange, i)
      BY <1>1, <2>2 DEF GetEnumValue
    <3>2. i \in Int
      BY ToIntegerInt
    <3>3. \E q \in Int : y = i - q * IntRange
      BY <1>2, <3>1, <3>2, SignedIs
    <3>4. (y - i) % IntRange = 0
      BY <1>3, <1>4, <3>2, <3>3, PushedSame
    <3>5. \A j \in ToInteger(v) : (x.num \div 2 - j) % IntRange = 0
      BY <1>5, <3>4, OneInteger
    <3> QED BY <2>2, <3>5 DEF SameScalar
  <2> QED BY <2>1, <2>2
<1>8. Scalar(f, x) = {x}
  <2>1. GetEnumValue(f, x) = {y}
    BY <1>4, <1>5 DEF GetEnumValue
  <2> QED BY <1>1, <2>1 DEF Scalar
<1> QED BY <1>6, <1>7, <1>8 DEF Kept

LEMMA OtherKept ==
  ASSUME NEW f, NEW v, Proper(v), NEW x \in Scalar(f, v), f.kind \in {"bool", "string", "double"}
  PROVE  Kept(f, v, x)
<1>1. GetScalar(f, x) = x
  BY DEF GetScalar
<1>2. CASE f.kind = "double"
  <2>1. PICK h \in ToNumber(v) : x = Num(h)
    BY <1>2 DEF Scalar
  <2>2. x.num = h /\ ToNumber(x) = {h}
    BY <2>1 DEF Num, ToNumber, Is
  <2>3. SameScalar(f, v, x)
    BY <1>2, <2>2, OneNumber DEF SameScalar
  <2>4. Scalar(f, x) = {x}
    BY <1>2, <2>1, <2>2 DEF Scalar
  <2> QED BY <1>1, <2>3, <2>4 DEF Kept
<1>3. CASE f.kind = "string"
  <2>1. PICK s \in ToStr(v) : x = Str(s)
    BY <1>3 DEF Scalar
  <2>2. ToStr(v) = {s}
    BY DEF ToStr
  <2>3. x.str = s /\ ToStr(x) = {s}
    BY <2>1 DEF Str, ToStr, Is
  <2>4. SameScalar(f, v, x)
    BY <1>3, <2>2, <2>3 DEF SameScalar
  <2>5. Scalar(f, x) = {x}
    BY <1>3, <2>1, <2>3 DEF Scalar
  <2> QED BY <1>1, <2>4, <2>5 DEF Kept
<1>4. CASE f.kind = "bool"
  <2> DEFINE no == Is("nil", v) \/ v = Bool(FALSE)
  <2>1. x = Bool(~no)
    BY <1>4 DEF Scalar, ToBool
  <2>2. no <=> v \in {Nil, Bool(FALSE)}
    BY DEF Proper, Is, Nil
  <2>3. SameScalar(f, v, x)
    BY <1>4, <2>1, <2>2 DEF SameScalar
  <2>4. ToBool(x) = {~no}
    BY <2>1 DEF ToBool, Is, Bool
  <2>5. Scalar(f, x) = {x}
    BY <1>4, <2>1, <2>4 DEF Scalar
  <2> QED BY <1>1, <2>3, <2>5 DEF Kept
<1> QED BY <1>2, <1>3, <1>4

\* A scalar that pb.encode() accepts comes back from pb.decode() as the same
\* one, modulo the width of its field, and what comes back is stored as it was
\* (MessageSetter::SetField(), MsgToTbl::GetField()), for any width.
THEOREM ScalarsKept ==
  ASSUME NEW f, f.kind \in ScalarKinds, f.kind = "enum" => f.type \in DOMAIN Enums,
         NEW v, Proper(v), NEW x \in Scalar(f, v)
  PROVE  SameScalar(f, v, GetScalar(f, x)) /\ Scalar(f, GetScalar(f, x)) = {x}
<1>1. Kept(f, v, x)
  BY SignedKept, UnsignedKept, EnumKept, OtherKept DEF ScalarKinds
<1> QED BY <1>1 DEF Kept
=============================================================================
