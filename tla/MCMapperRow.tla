----------------------------- MODULE MCMapperRow -----------------------------
(* The three row types in full, as RowBinary and as NDJSON, with the fields of  *)
(* the configuration in another order than the layout's, and a default of its   *)
(* own for each string and number, so that no two columns look alike.           *)
EXTENDS MCMapper

\* The arrays that fan out from a list of the event.
FannedOut ==
    [x \in {"exemplars.filtered_attributes", "events.attributes", "links.attributes"} |->
        Each("list", "attrs")]
    @@ [x \in {"exemplars.time_unix", "events.timestamp"} |-> Each("list", "at")]
    @@ [x \in {"exemplars.value", "links.trace_id"} |-> Each("list", "id")]
    @@ [x \in {"exemplars.span_id", "exemplars.trace_id", "events.name", "links.span_id",
               "links.trace_state"} |-> Each("list", "name")]

RowField(need, k) ==
    [Base EXCEPT
        !.name = need.name, !.type = need.type,
        !.path = IF need.name \in DOMAIN FannedOut THEN FannedOut[need.name]
                 ELSE <<"$", ".", need.name>>,
        !.default = CASE need.type = "string" -> {Text(need.name)}
                      [] need.type \in {"uint8", "uint32", "uint64", "int32"} ->
                            {IntTerm(IF need.name = "duration" THEN 0 ELSE k)}
                      [] need.type = "float64" -> {FloatTerm(k)}
                      [] OTHER -> {},
        !.enum_values = IF need.type = "enum8" THEN ("sum" :> 2 @@ "gauge" :> 1) ELSE NoWords,
        !.precision = IF need.name \in {"start_time", "end_time"} THEN {3} ELSE {}]

\* The last layout field first, and a field no layout has.
FieldsFor(row_type) ==
    LET need == LayoutFields(row_type) IN
    Reverse([k \in DOMAIN need |-> RowField(need[k], k)])
        \o <<[Base EXCEPT !.name = "note", !.path = <<"$", ".", "note">>]>>

Config(format, row_type, raws) == [fields |-> raws, format |-> format, row_type |-> row_type]
Without1(raws, name) == SelectSeq(raws, LAMBDA r : r.name # name)
MCRawConfig ==
    [log    |-> Config("ch_row_binary", "log", FieldsFor("log")),
     metric |-> Config("ch_row_binary", "metric", FieldsFor("metric")),
     trace  |-> Config("ch_row_binary", "trace", FieldsFor("trace")),
     json_log    |-> Config("ndjson", "log", FieldsFor("log")),
     json_metric |-> Config("ndjson", "metric", FieldsFor("metric")),
     json_trace  |-> Config("ndjson", "trace", FieldsFor("trace")),
     json_odd    |-> Config("ndjson", "log",
         << [Base EXCEPT !.name = "severity_number"],
            [Base EXCEPT !.name = "severity_number_alt", !.type = "uint8"] >>),
     incomplete  |-> Config("ch_row_binary", "log", Without1(FieldsFor("log"), "project")),
     mistyped    |-> Config("ch_row_binary", "log",
         Append(Without1(FieldsFor("log"), "project"),
                [Base EXCEPT !.name = "project", !.type = "uint8"])),
     reserved    |-> Config("ndjson", "metric", << [Base EXCEPT !.name = "id"] >>),
     untimed     |-> Config("ndjson", "trace", << [Base EXCEPT !.name = "start_time"],
         [Base EXCEPT !.name = "duration"], [Base EXCEPT !.name = "end_time"] >>),
     unknown     |-> Config("csv", "log", FieldsFor("log"))]
-----------------------------------------------------------------------------
Attributes(names) == MapTerm([k \in {<<n>> : n \in names} |-> Text("x")])
Element(id, at, name, attrs) ==
    MapTerm(One("id", id) @@ One("at", at) @@ One("name", name) @@ One("attrs", attrs))

Full ==
    One("timestamp", IntTerm(400)) @@ One("severity_number_alt", IntTerm(2)) @@
    One("trace_flags", IntTerm(999)) @@ One("project", IntTerm(12)) @@
    One("resource_attributes", Attributes({"host"})) @@
    One("scope_attributes", Attributes({"x", "y"})) @@
    One("log_attributes", Attributes({"a", "b", "host", "x", "y"})) @@
    One("span_attributes", Attributes({"a"})) @@ One("attributes", Attributes({"a", "b", "y"})) @@
    One("metric_type", Text("sum")) @@ One("is_monotonic", BoolTerm(TRUE)) @@
    One("start_time", IntTerm(40)) @@ One("end_time", IntTerm(60)) @@
    One("time_unix", IntTerm(3)) @@
    One("bucket_counts", ListTerm(<<IntTerm(1), Nil, IntTerm(3), FloatTerm(9), Text("x")>>)) @@
    One("explicit_bounds", ListTerm(<<FloatTerm(1)>>)) @@
    One("quantiles", ListTerm(<<IntTerm(1), FloatTerm(5)>>)) @@
    One("list", ListTerm(<<Element(IntTerm(5), IntTerm(600), Text("e"), Attributes({"a"})),
                           Element(Nil, Nil, Nil, Nil)>>))

\* A value of the wrong kind under every key.
Wrong ==
    [k \in {<<LayoutFields(r)[j].name>> : r \in RowTypes, j \in 1..17} |-> ListTerm(<<Nil>>)]
    @@ One("timestamp", Text("x")) @@ One("start_time", FloatTerm(3)) @@
    One("duration", IntTerm(-4)) @@ One("severity_number", IntTerm(U64Max + 1)) @@
    One("list", ListTerm(<<Nil, IntTerm(3), Element(ListTerm(<<>>), Text("x"), BoolTerm(TRUE), Text("x"))>>))

MCDocuments ==
    {MapTerm(Full), MapTerm(Wrong),
     MapTerm(One("timestamp", IntTerm(7)) @@ One("duration", IntTerm(200)) @@
             One("severity_number", IntTerm(200))),
     MapTerm([k \in DOMAIN Full \ {<<"timestamp">>} |-> Full[k]]),
     MapTerm(One("min", Text("inf")) @@ Full),
     MapTerm(One("quantiles", ListTerm(<<Nil, StrTerm(<<"num", F64Max>>)>>)) @@ Full),
     MapTerm(One("list", ListTerm(<<Element(Text("inf"), Nil, Nil, Nil)>>)) @@ Full)}
MCTerms == {Nil} \cup UNION {SubTerms(d) : d \in MCDocuments}
MCEnvelopes == {[id |-> TRUE, config_id |-> TRUE], [id |-> FALSE, config_id |-> TRUE],
                [id |-> TRUE, config_id |-> FALSE]}

-----------------------------------------------------------------------------
MCCase == [w \in {"", "x", "e", "true", "false", "sum", "gauge", "inf"} |-> w]
=============================================================================
