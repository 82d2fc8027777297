-------------------------------- MODULE Codec --------------------------------
(***************************************************************************)
(* The protobuf codec of the Lua side (src/lua-grpc/pb): proto files are   *)
(* imported into a pool of descriptors, pb.encode() sets the fields of a   *)
(* message from a Lua table, pb.decode() makes a table of a message.       *)
(*                                                                         *)
(* The order in which Lua walks a table, the border its "#" finds and the  *)
(* order of a map's pairs are the interpreter's choice, so an operation    *)
(* gives the set of its outcomes.  One of them may be Raised: a Lua error, *)
(* thrown half way through the table.  The descriptors and the wire format *)
(* are protobuf's (proto3): an int, an enum number, a bool, a double or a  *)
(* string in a message is written as the Lua value of the same worth.      *)
(***************************************************************************)
EXTENDS LuaCalls, LuaScalar

LOCAL INSTANCE FiniteSetsExt

CONSTANTS
    Files,      \* file |-> [dir, ok, types, services], of the proto files
    Schema,     \* message type |-> (field name |-> descriptor)
    Services,   \* service |-> (method |-> [input, output, c, s])
    Tables      \* message type |-> the tables pb.encode() is given

VARIABLES
    dirs,       \* m_pDiskSourceTree: the directories mapped to the root
    pool,       \* m_pImporter: the files imported
    given,      \* the type and the table of the last pb.encode()
    msg,        \* the message it built
    wire,       \* the bytes: a type and its fields, or Garbage
    back,       \* the value of the last pb.decode() of them
    answer      \* what FindRpcMethod() was asked last, and what it found

codec == <<dirs, pool, given, msg, wire, back, answer>>
vars == <<codec, result>>

(* A field's descriptor: kind is the C++ type, of the enum or the message  *)
(* type "type"; label "one", "many" or "map", whose elements are entries;  *)
(* a member of a oneof names it in "oneof".                                *)
None    == [none |-> TRUE]
Garbage == [garbage |-> TRUE]
Unset   == [unset |-> TRUE]
Sub(m)  == [msg |-> m]
Many(s) == [many |-> s]

RECURSIVE SetMsg(_, _, _, _), Added(_, _, _, _, _), MapAdded(_, _, _, _), ToTbl(_, _)

(* What an unset field holds: a scalar outside a oneof has a default. *)
Default(f) ==
    CASE f.label # "one"                        -> Many(<<>>)
      [] f.oneof # "" \/ f.kind = "message"     -> Unset
      [] f.kind = "bool"                        -> Bool(FALSE)
      [] f.kind = "string"                      -> Str("")
      [] OTHER                                  -> Num(0)

(* MakeSharedMessage() *)
New(type) == [n \in DOMAIN Schema[type] |-> Default(Schema[type][n])]
----------------------------------------------------------------------------
(* pb.encode(): MessageSetter *)

(* One value of the field: a scalar, or what a table makes of the message  *)
(* that is held, a new one if none is.                                     *)
Element(f, v, held) ==
    IF f.kind # "message" THEN IF Scalar(f, v) = {} THEN {Raised} ELSE Scalar(f, v)
    ELSE IF Is("tbl", v)
         THEN {IF m = Raised THEN Raised ELSE Sub(m) :
                 m \in SetMsg(f.type, IF held = Unset THEN New(f.type) ELSE held.msg,
                              v.tbl, DOMAIN v.tbl)}
         ELSE {Raised}

Put_Both(type, m, n, x) == \* fault: the other member of the oneof stays
    IF x = Raised THEN Raised ELSE [m EXCEPT ![n] = x]

(* Put x in the field, and out of its oneof the member that was there. *)
Put(type, m, n, x) ==
    LET InOneof(k) == Schema[type][n].oneof # "" /\ Schema[type][k].oneof = Schema[type][n].oneof
    IN  IF x = Raised THEN Raised
        ELSE [k \in DOMAIN m |-> IF k = n THEN x ELSE IF InOneof(k) THEN Unset ELSE m[k]]

(* AddToRepeatedField() of the elements from i to len; s is what is there. *)
Added(f, t, i, len, s) ==
    IF i > len THEN {Many(s)}
    ELSE UNION {IF x = Raised THEN {Raised} ELSE Added(f, t, i + 1, len, Append(s, x)) :
                  x \in Element(f, At(t, Num(2 * i)), Unset)}

(* AddToMapField() *)
MapEntry(f, key, val) ==
    {IF x = Raised \/ y = Raised THEN Raised ELSE Sub([key |-> x, value |-> y]) :
        x \in Element(Schema[f.type]["key"], key, Unset),
        y \in Element(Schema[f.type]["value"], val, Unset)}

(* SetRepeatedMapField() of the pairs whose keys are left, in any order. *)
MapAdded(f, t, keys, s) ==
    IF keys = {} THEN {Many(s)}
    ELSE UNION {UNION {IF x = Raised THEN {Raised}
                       ELSE MapAdded(f, t, keys \ {k}, Append(s, x)) : x \in MapEntry(f, k, t[k])} :
                  k \in keys}

(* What v holds is added to s, which the field holds. *)
SetRepeatedField(f, v, s) ==
    IF ~Is("tbl", v) THEN {Raised}
    ELSE IF f.label = "map" THEN MapAdded(f, v.tbl, DOMAIN v.tbl, s)
    ELSE UNION {Added(f, v.tbl, 1, len, s) : len \in Borders(v.tbl)}

SetField(type, m, n, v) ==
    IF n \notin DOMAIN Schema[type] THEN {Raised}
    ELSE LET f == Schema[type][n]
         IN  {Put(type, m, n, x) :
                x \in IF f.label = "one" THEN Element(f, v, m[n])
                      ELSE SetRepeatedField(f, v, m[n].many)}

(* SetMsg(): the pairs whose keys are left, in any order.  A key that is   *)
(* no string is skipped, and the first error ends it.                      *)
SetMsg(type, m, t, keys) ==
    LET names == {k \in keys : Is("str", k)}
    IN  IF m = Raised \/ names = {} THEN {m}
        ELSE UNION {UNION {SetMsg(type, n, t, names \ {k}) :
                             n \in SetField(type, m, k.str, t[k])} : k \in names}
----------------------------------------------------------------------------
(* pb.decode(): MsgToTbl *)

(* LuaRefValue() of a scalar, or the table of a message *)
GetElement(f, x) ==
    IF f.kind = "message" THEN ToTbl(f.type, x.msg) ELSE GetScalar(f, x)

(* Of a map, a later entry overwrites an earlier one. *)
GetRepeatedField(f, s) ==
    LET elem(i) == GetElement(f, s[i])
        key(i)  == elem(i).tbl[Str("key")]
        last(k) == CHOOSE i \in DOMAIN s :
                        key(i) = k /\ \A j \in DOMAIN s : key(j) = k => j <= i
    IN  IF f.label = "many"
        THEN Tbl([k \in {Num(2 * i) : i \in DOMAIN s} |-> elem(k.num \div 2)])
        ELSE Tbl([k \in {key(i) : i \in DOMAIN s} |-> At(elem(last(k)).tbl, Str("value"))])

GetField(f, x) ==
    IF x = Unset THEN Nil
    ELSE IF f.label = "one" THEN GetElement(f, x) ELSE GetRepeatedField(f, x.many)

ToTbl_OneofToo(type, m) == \* fault: a member of a oneof that is not set gets its default
    LET value(k) == LET f == Schema[type][k.str]
                    IN  IF m[k.str] = Unset /\ f.kind # "message"
                        THEN GetElement(f, Default([f EXCEPT !.oneof = ""]))
                        ELSE GetField(f, m[k.str])
        names    == {k \in {Str(n) : n \in DOMAIN m} : value(k) # Nil}
    IN  Tbl([k \in names |-> value(k)])

(* ToTbl(): a nil makes no entry, so no member of a oneof that is not set. *)
ToTbl(type, m) ==
    LET value(k) == GetField(Schema[type][k.str], m[k.str])
        names    == {k \in {Str(n) : n \in DOMAIN m} : value(k) # Nil}
    IN  Tbl([k \in names |-> value(k)])
----------------------------------------------------------------------------
(* protobuf: only the fields that differ from their defaults are sent. *)
Serialize(type, m) ==
    [type |-> type, fields |-> {<<n, m[n]>> : n \in {k \in DOMAIN m : m[k] # New(type)[k]}}]
Parse(w) ==
    [n \in DOMAIN Schema[w.type] |->
        IF \E p \in w.fields : p[1] = n
        THEN (CHOOSE p \in w.fields : p[1] = n)[2] ELSE New(w.type)[n]]

Init ==
    /\ dirs = {""}          \* the constructor adds the current directory
    /\ pool = {}
    /\ given = None /\ msg = None /\ wire = None /\ back = None
    /\ answer = None /\ CallsInit

Known == UNION {Files[f].types : f \in pool}

(* pb.add_proto_path(), pb.map_path() *)
AddProtoPath(dir) ==
    /\ dirs' = dirs \cup {dir} /\ answer' = None
    /\ UNCHANGED <<pool, given, msg, wire, back>>

(* pb.import_proto_file(): an error leaves the pool as it was. *)
ImportProtoFile(file) ==
    /\ Files[file].ok /\ Files[file].dir \in dirs
    /\ pool' = pool \cup {file} /\ answer' = None
    /\ UNCHANGED <<dirs, given, msg, wire, back>>

(* pb.encode(type, table); a behaviour calls it once. *)
Encode(type, t) ==
    /\ given = None /\ answer = None
    /\ given' = [type |-> type, tbl |-> t]
    /\ \E m \in IF type \in Known THEN SetMsg(type, New(type), t, DOMAIN t) ELSE {Raised} :
          /\ msg' = m
          /\ wire' = IF m = Raised THEN None ELSE Serialize(type, m)
    /\ back' = None
    /\ UNCHANGED <<dirs, pool, answer>>

(* What comes over the network need not be a message. *)
Corrupt ==
    /\ wire \notin {None, Garbage} /\ wire' = Garbage
    /\ back' = None
    /\ UNCHANGED <<dirs, pool, given, msg, answer>>

(* pb.decode(type, bytes): nil if they do not parse. *)
Decode ==
    /\ wire # None
    /\ back' = IF wire = Garbage THEN Nil ELSE ToTbl(wire.type, Parse(wire))
    /\ UNCHANGED <<dirs, pool, given, msg, wire, answer>>

(* pb.get_rpc_input_name() and the others: FindRpcMethod() *)
FindRpcMethod(service, name) ==
    /\ given = None /\ answer = None
    /\ answer' = [service |-> service, name |-> name, desc |->
                    IF service \in UNION {Files[f].services : f \in pool}
                        /\ name \in DOMAIN Services[service]
                    THEN Services[service][name] ELSE Raised]
    /\ UNCHANGED <<dirs, pool, given, msg, wire, back>>

CodecNext ==
    \/ \E f \in DOMAIN Files : AddProtoPath(Files[f].dir) \/ ImportProtoFile(f)
    \/ \E type \in DOMAIN Tables : \E t \in Tables[type] : Encode(type, t)
    \/ Corrupt \/ Decode
    \/ \E s \in DOMAIN Services : \E n \in DOMAIN Services[s] \cup {"?"} : FindRpcMethod(s, n)

(* A behaviour calls one function or uses the codec: they share no state. *)
Next ==
    \/ result = NoCall /\ CodecNext /\ UNCHANGED result
    \/ result = NoCall /\ pool = {} /\ given = None /\ CallsNext /\ UNCHANGED codec

Spec == Init /\ [][Next]_vars
----------------------------------------------------------------------------
(* What a value that was encoded must be when it is decoded *)
RECURSIVE Same(_, _, _), SameTbl(_, _, _)

Same(f, v, w) ==
    IF f.kind = "message" THEN Is("tbl", w) /\ SameTbl(f.type, v.tbl, w.tbl)
                          ELSE SameScalar(f, v, w)

SameField(f, v, w) ==
    LET key == Schema[f.type]["key"]
        val == Schema[f.type]["value"]
    IN  CASE f.label = "one"  -> Same(f, v, w)
          [] f.label = "many" ->
                \E n \in Borders(v.tbl) :
                    /\ DOMAIN w.tbl = {Num(2 * i) : i \in 1..n}
                    /\ \A k \in DOMAIN w.tbl : Same(f, At(v.tbl, k), w.tbl[k])
          [] f.label = "map"  ->
                /\ \A k \in DOMAIN v.tbl : \E j \in DOMAIN w.tbl : Same(key, k, j)
                /\ \A j \in DOMAIN w.tbl : \E k \in DOMAIN v.tbl :
                        Same(key, k, j) /\ Same(val, v.tbl[k], w.tbl[j])

(* Of the members of a oneof the table gives, any one may be left. *)
SameTbl(type, t, u) ==
    LET Names    == {k \in DOMAIN t : Is("str", k)}
        Rivals(k) == {j \in Names : j = k \/ (Schema[type][k.str].oneof # ""
                                     /\ Schema[type][j.str].oneof = Schema[type][k.str].oneof)}
    IN  \A k \in Names : \E j \in Rivals(k) :
            /\ j \in DOMAIN u
            /\ SameField(Schema[type][j.str], t[j], u[j])
            /\ \A i \in Rivals(k) \ {j} : i \notin DOMAIN u

(* A table that pb.encode() accepts comes back from pb.decode() with what  *)
(* it holds: every named field, array and map, integers modulo the width   *)
(* of the field, names of enums as numbers, whatever the order in which    *)
(* Lua walked it.                                                          *)
RoundTrip ==
    back \notin {None, Nil} => SameTbl(given.type, given.tbl, back.tbl)

(* A new message with the fields of t, of which k is set last. *)
SetLast(type, t, k) ==
    LET set(j, ms) == UNION {IF m = Raised THEN {m} ELSE SetField(type, m, j.str, t[j]) : m \in ms}
    IN  set(k, FoldSet(set, {New(type)}, DOMAIN t \ {k}))

(* The decoded table is a normal form: pb.encode() takes it, whichever     *)
(* field the walk comes to last, and what it makes is decoded to the same  *)
(* table; so a server may send back a request it was sent.                 *)
Stable ==
    back \notin {None, Nil} =>
        \A k \in DOMAIN back.tbl :
            \A m \in SetLast(given.type, back.tbl, k) :
                m # Raised /\ ToTbl(given.type, m) = back

============================================================================
