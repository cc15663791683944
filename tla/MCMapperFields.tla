--------------------------- MODULE MCMapperFields ----------------------------
(* Small configurations, one per group of operations, against small events:     *)
(* every coercion, coalescing, enum inference, JSON operations, arrays, and     *)
(* configurations that are rejected.                                            *)
EXTENDS MCMapper

F(name, type, path) == [Base EXCEPT !.name = name, !.type = type, !.path = path]
FF(name, type, paths) == [Base EXCEPT !.name = name, !.type = type, !.paths = paths]
Root(name, type) == F(name, type, <<>>)
-----------------------------------------------------------------------------
Scalars == <<
    F("s", "string", Path2("a", "b")), F("u8", "uint8", Path2("a", "b")),
    F("u32", "uint32", Path2("a", "b")), F("u64", "uint64", Path2("a", "b")),
    F("i32", "int32", Path2("a", "b")), F("f", "float64", Path2("a", "b")),
    F("b", "bool", Path1("level")),
    [F("t", "datetime64", Path2("a", "b")) EXCEPT !.precision = {3}],
    F("fs", "array_float64", Path2("a", "b")),
    F("tags", "array_string", Path2("a", "b")), F("ts", "array_datetime64", Path2("a", "b")),
    F("maps", "array_map", Path2("a", "b")), F("any", "array_json", Path2("a", "b")) >>

Coalescing == <<
    [FF("s", "string", <<Path2("a", "b"), Path1("level")>>) EXCEPT
        !.filters = [NoFilters EXCEPT !.len_gt = {1}, !.len_lte = {4}], !.transform = "upcase",
        !.allowed_values = {"WARN", "OFF"}, !.default = {Text("off")}],
    [FF("u", "uint8", <<Path2("a", "b"), Path1("level")>>) EXCEPT
        !.coercion = "strict", !.default = {IntTerm(7)}],
    [F("mapped", "uint8", Path1("level")) EXCEPT
        !.value_map = ("Warn" :> IntTerm(2)), !.default = {IntTerm(1)}],
    [Base EXCEPT !.name = "renamed", !.from_output = "s",
        !.value_map = ("warn" :> Text("alert")), !.default = {Text("calm")}],
    [Base EXCEPT !.name = "again", !.type = "uint32", !.from_output = "mapped"],
    F("depth", "uint32", Path2("metadata", "level")),
    [F("empty", "json", Path2("metadata", "level")) EXCEPT !.default = {EmptyListText}],
    F("user", "string", <<"$", ".", "metadata", ".", "user", ".", "id">>) >>

If(path, predicate, comparison) ==
    [path |-> path, predicate |-> predicate, comparison |-> comparison]
Rule(any, all, result) == [any |-> any, all |-> all, result |-> result]
Level == [F("level", "enum8", Path1("level")) EXCEPT
    !.enum_values = ("info" :> 1 @@ "Warn" :> 2 @@ "max" :> 3), !.default = {Text("INFO")}]
Enums == <<
    [Level EXCEPT !.infer = <<
        Rule(<<If(Path2("a", "b"), "greater_than", {IntTerm(5)}),
               If(Path2("a", "b"), "equals", {FloatTerm(3)})>>,
             <<If(Path1("level"), "not_exists", {})>>, "MAX"),
        Rule(<<>>, <<If(Path2("a", "b"), "is_string", {}),
                     If(Path2("a", "b"), "not_empty", {})>>, "unknown"),
        Rule(<<>>, <<If(Path2("a", "b"), "in", {IntTerm(0), Text("warn")})>>, "warn")>>],
    [Level EXCEPT !.name = "other", !.default = {IntTerm(40)}, !.path = <<>>,
        !.paths = <<Path2("a", "b"), Path1("level")>>,
        !.infer = << Rule(<<If(Path2("a", "b"), "not_zero", {}), If(Path2("a", "b"), "is_zero", {}),
                             If(Path2("a", "b"), "less_than", {FloatTerm(1)})>>, <<>>, "max"),
                     Rule(<<If(Path2("a", "b"), "is_empty", {}), If(Path2("a", "b"), "is_list", {})>>,
                          <<If(Path2("a", "b"), "not_equals", {Text("warn")}),
                            If(Path2("a", "b"), "exists", {})>>, "warn"),
                     Rule(<<If(Path2("a", "b"), "is_map", {}), If(Path2("a", "b"), "is_number", {})>>,
                          <<>>, "info") >>] >>

Operate(field) == [field EXCEPT !.exclude_keys = <<<<"secret">>, <<"b">>>>,
                                !.elevate_keys = <<<<"metadata">>, <<"attributes">>>>]
Picked(field) == [field EXCEPT !.pick = <<
    [key |-> <<"who">>, paths |-> <<Path2("metadata", "user"), Path2("a", "b")>>],
    [key |-> <<"level">>, paths |-> <<Path1("level")>>] >>]
Operations == <<
    Operate(Root("doc", "json")), Operate(Root("flat", "flat_map")),
    F("plain", "flat_map", Path1("metadata")),
    Picked(Root("picked", "json")),
    [Picked(Operate(Root("merged", "json"))) EXCEPT !.pick_mode = "merge"],
    [Picked(Root("twice", "flat_map")) EXCEPT !.pick = Append(@, @[1])] >>

Arrays == <<
    F("ids", "array_string", Each("items", "id")), F("nums", "array_uint64", Each("items", "id")),
    F("floats", "array_float64", Each("items", "id")),
    [F("times", "array_datetime64", Each("items", "at")) EXCEPT !.precision = {3}],
    F("attrs", "array_flat_map", Each("items", "attrs")),
    [F("set", "array_string", Each("items", "id")) EXCEPT !.filter_nil = TRUE],
    F("raw", "json", Each("items", "attrs")), F("raw_at", "json", Each("items", "at")),
    F("raw_id", "string", <<"$", ".", "items", "[", "*", "]", ".", "attrs", ".", "id">>),
    F("first", "uint32", <<"$", ".", "items", "[", "0", "]", ".", "id">>),
    F("deep", "array_json", <<"$", ".", "items", "[", "*", "]", "[", "*", "]">>),
    FF("either", "array_string", <<Each("metadata", "id"), Each("items", "id")>>),
    F("at", "string", <<"$", ".", "items", "[", "0", "]", ".", "at">>) >>

Rejected == [
    name     |-> <<Root("s", "string"), Root("s", "uint8")>>,
    later    |-> <<[Base EXCEPT !.from_output = "s"], Root("s", "string")>>,
    path     |-> <<F("s", "string", <<"$", ".", "items", "[", "x", "]">>)>>,
    open     |-> <<F("s", "string", <<"$", ".", "items", "[", "0">>)>>,
    scale    |-> <<[Root("t", "datetime64") EXCEPT !.precision = {10}]>>,
    strict   |-> <<[Root("s", "int32") EXCEPT !.coercion = "strict"]>>,
    enum     |-> <<[Level EXCEPT !.default = {Text("absent")}]>>,
    wide     |-> <<[Level EXCEPT !.enum_values = ("info" :> I8Max + 1)]>>,
    predicate |-> <<[Level EXCEPT !.infer = <<Rule(<<>>, <<If(Path1("a"), "in", {})>>, "max")>>]>> ]

Plain(raws) == [fields |-> raws, format |-> "map", row_type |-> ""]
MCRawConfig ==
    [scalars |-> Plain(Scalars), coalescing |-> Plain(Coalescing), enums |-> Plain(Enums),
     operations |-> Plain(Operations), arrays |-> Plain(Arrays)]
    @@ [r \in DOMAIN Rejected |-> Plain(Rejected[r])]
-----------------------------------------------------------------------------
(* Events.                                                                     *)

SampleValues ==
    {Nil, IntTerm(0), IntTerm(7), IntTerm(-3), IntTerm(100), IntTerm(I64Max), IntTerm(I64Max + 1),
     IntTerm(U64Max + 1), IntTerm(-I64Max - 2), FloatTerm(3), FloatTerm(-1), BoolTerm(TRUE),
     StrTerm(EmptyText), Text("warn"), Text("TRUE"), StrTerm(<<"num", 9>>), StrTerm(<<"dec", 5>>),
     Text("nan"), StrTerm(<<"num", F64Max>>), ListTerm(<<FloatTerm(1), Text("nan")>>),
     StrTerm(<<"time", 300>>), ListTerm(<<>>), ListTerm(<<Nil, IntTerm(5), Text("warn")>>),
     Obj(NoFields), Obj(One("id", IntTerm(1))), AtomTerm("warn")}
SampleLevels == {Text("Warn"), IntTerm(2), IntTerm(9), Text("off")}

Item(id, at, attrs) == Obj(One("id", id) @@ One("at", at) @@ One("attrs", attrs))
Lists == {
    <<Item(IntTerm(1), Text("x"), Obj(One("id", Text("x")))), Item(Nil, IntTerm(40), Nil)>>,
    <<Obj(One("id", IntTerm(4))), Item(Text("off"), Nil, Obj(One("user", Obj(One("id", IntTerm(1))))))>>,
    <<Item(IntTerm(2), Nil, ListTerm(<<>>)), Nil, Text("x")>>,
    <<Item(StrTerm(<<"num", 8>>), IntTerm(2), Nil), Item(Text("nan"), Nil, Nil)>>,
    <<ListTerm(<<Nil, Obj(NoFields)>>), ListTerm(<<>>)>> }

User(k) == Obj(One(k, IntTerm(1)))
Nested == {
    One("metadata", Obj(One("user", User("id")) @@ One("secret", Text("x")))) @@
        One("secret", Text("off")) @@ One("level", Text("off")),
    One("metadata", Obj(One("user", User("id")))) @@ One("attributes", Obj(One("user", User("name")))),
    One("metadata", Obj(One("user", User("id")) @@ One("level", IntTerm(1)))) @@
        One("user", User("name")),
    One("metadata", Obj(One("attributes", User("id")))) @@ One("attributes", Text("off")),
    One("metadata", Obj(One("attributes", User("id")))) @@ One("attributes", Obj(One("level", Nil))),
    One("metadata", Text("x")) @@ One("attributes", Obj(NoFields)) @@ One("b", Obj(One("id", Nil))),
    One("metadata", Obj(One("id", Nil))) @@ One("attributes", Obj(One("id", IntTerm(2)))) }

MCDocuments ==
    {Obj(One("a", Obj(One("b", v)))) : v \in SampleValues}
    \cup {Obj(One("a", Obj(One("b", v))) @@ One("level", l)) :
             v \in {Nil, IntTerm(7), FloatTerm(3), Text("warn")}, l \in SampleLevels}
    \cup {Obj(One("items", ListTerm(l))) : l \in Lists}
    \cup {Obj(m) : m \in Nested}
    \cup {Obj(NoFields), Obj(One("a", Text("x"))), Obj(One("items", Text("x"))),
          Obj([n \in {<<w>> : w \in {"a", "b", "id", "level", "secret"}} |-> IntTerm(1)])}
MCTerms == {Nil} \cup UNION {SubTerms(d) : d \in MCDocuments}
MCEnvelopes == {[id |-> TRUE, config_id |-> TRUE]}

-----------------------------------------------------------------------------
MCLower == [w \in {"", "x", "true", "false", "info", "warn", "max", "off", "alert", "calm",
                   "unknown", "absent", "nan"} |-> w]
           @@ ("Warn" :> "warn" @@ "WARN" :> "warn" @@ "TRUE" :> "true" @@ "INFO" :> "info"
               @@ "MAX" :> "max" @@ "OFF" :> "off")
MCUpper == [w \in DOMAIN MCLower |->
    CASE MCLower[w] = "warn" -> "WARN" [] MCLower[w] = "off" -> "OFF"
      [] MCLower[w] = "true" -> "TRUE" [] OTHER -> w]
=============================================================================
