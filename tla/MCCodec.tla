------------------------------- MODULE MCCodec -------------------------------
(* The codec on a message type with a field of each kind. *)
EXTENDS Codec

F(kind, label, type, oneof) == [kind |-> kind, label |-> label, type |-> type, oneof |-> oneof]
One(kind) == F(kind, "one", "", "")

MCSchema == [
    T |-> [i |-> One("int32"), u |-> One("uint32"), w |-> One("uint64"), d |-> One("double"),
           b |-> One("bool"), s |-> One("string"), e |-> F("enum", "one", "E", ""),
           m |-> F("message", "one", "S", ""), r |-> F("int32", "many", "", ""),
           q |-> F("bool", "many", "", ""), rm |-> F("message", "many", "S", ""),
           p |-> F("message", "map", "PEntry", ""), pm |-> F("message", "map", "PmEntry", ""),
           x |-> F("int64", "one", "", "o"), y |-> F("message", "one", "S", "o")],
    S |-> [a |-> One("int32"), n |-> F("message", "one", "S", "")],
    PEntry |-> [key |-> One("string"), value |-> One("int32")],
    PmEntry |-> [key |-> One("int32"), value |-> F("message", "one", "S", "")]]

MCEnums == [E |-> [A |-> 0, B |-> 1]]
MCFiles == [t |-> [dir |-> "", ok |-> TRUE, types |-> {"T", "S"}, services |-> {}],
            s |-> [dir |-> "svc", ok |-> TRUE, types |-> {}, services |-> {"Svc"}],
            bad |-> [dir |-> "", ok |-> FALSE, types |-> {"T"}, services |-> {"Svc"}]]
MCServices == [Svc |-> [M |-> [input |-> "T", output |-> "S", c |-> FALSE, s |-> TRUE]]]

(* a table of pairs, and an array *)
T2(k, v, l, w) == Tbl([x \in {k, l} |-> IF x = k THEN v ELSE w])
T1(k, v) == T2(k, v, k, v)
Arr(s)  == Tbl([x \in {Num(2 * i) : i \in DOMAIN s} |-> s[x.num \div 2]])
SubA(v) == T1(Str("a"), v)

MCNumbers == {0, 2, 3, 4}
Values ==
    {Bool(TRUE), Bool(FALSE), Str("A"), Str("B"), Str("1"), Str("1.5"), Str("?")}
    \cup {Num(h) : h \in {-34, -2, 0, 2, 3, 6, 16, 30}}
    \cup {Arr(<<>>), Arr(<<Num(2)>>), Arr(<<Num(4), Str("1"), Num(0)>>), Arr(<<Bool(FALSE), Num(0)>>),
          T2(Num(2), Num(4), Num(6), Num(4)), T2(Num(2), Num(4), Str("a"), Num(2)),
          SubA(Num(0)), SubA(Num(18)), SubA(Str("?")), T2(Str("a"), Num(2), Str("n"), SubA(Num(4))),
          T2(Str("?"), Num(2), Str("1"), Num(4)), T2(Num(2), Num(4), Str("1"), Num(6)),
          Arr(<<SubA(Num(2)), Arr(<<>>)>>), T2(Num(2), SubA(Num(2)), Str("1"), SubA(Num(4))),
          T2(Num(2), SubA(Num(2)), Num(34), Arr(<<>>)), T1(Bool(TRUE), Num(2))}

(* one field; two of them; a key that is no string; a name that is unknown *)
MCTables == [
    T |-> {T1(Str(n), v).tbl : n \in DOMAIN MCSchema.T \cup {"?"}, v \in Values}
          \cup {T2(Str("x"), v, Str("y"), w).tbl : v \in {Num(2), Num(0), Bool(TRUE)}, w \in Values}
          \cup {T2(Str("i"), v, k, Num(2)).tbl : v \in Values, k \in {Str("u"), Num(2), Str("?")}},
    S |-> {SubA(v).tbl : v \in Values},
    PEntry |-> {}, PmEntry |-> {}]

MCSeconds == {Nil, Bool(FALSE), Str("1"), Str("1.5")} \cup {Num(h) : h \in -3..60}

(* Functions of up to three parameters, of types enough to tell them apart; *)
(* a lua_State comes first.                                                *)
P(spec, type, def) == [spec |-> spec, type |-> type, def |-> def]
Params == {P("in", "int", Nil), P("in", "string", Nil), P("in", "double", Nil), P("out", "int", Nil), P("ref", "bool", Nil),
           P("ref_opt", "int", Nil), P("opt", "string", Nil), P("def", "bool", Bool(TRUE)), P("def", "int", Num(2))}
Starts == {<<>>, <<P("state", "state", Nil)>>}
MCParams == {s \o t : s \in Starts, t \in {<<>>} \cup {<<p>> : p \in Params} \cup (Params \X Params)}
            \cup {<<p, P("out", "int", Nil), q>> : p, q \in Params}
MCFunctions == [how : {"function"}, ret : 0..2, params : MCParams]
               \cup [how : {"method", "constructor"}, ret : {1}, params : MCParams]
MCArguments == LET Args == {Nil, Bool(FALSE), Num(4), Num(3), Str("1")}
               IN  {<<>>} \cup {<<v>> : v \in Args} \cup (Args \X Args) \cup {<<Num(4), v, w>> : v, w \in {Nil, Num(2)}}
============================================================================
