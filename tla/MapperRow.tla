------------------------------ MODULE MapperRow -----------------------------
(* The row writers of the mapper: the ClickHouse RowBinary layouts and row     *)
(* programs (clickhouse_rowbinary.rs), the growing output buffer (output.rs),  *)
(* the NDJSON layout (ndjson.rs), and the INSERT column lists with the column  *)
(* types ClickHouse reads the row with (query_templates.ex).  A row is a       *)
(* sequence of cells, one per encoder call; a cell keeps the encoder, its      *)
(* value and the LEB128 length prefix where the encoding has one.              *)
EXTENDS MapperField

CONSTANTS
    VarBase,               \* values of one varuint byte: 128
    InitialRowCapacity     \* 3072

ASSUME RowAssumption == VarBase \in Nat /\ VarBase > 1 /\ InitialRowCapacity \in Nat
-----------------------------------------------------------------------------
(* The fields each layout needs, in order, with their types.                   *)

Fields(type, names) == [k \in DOMAIN names |-> [name |-> names[k], type |-> type]]

\* Mutant: two fields of one type change places.
LogFieldsSwapped ==
    Fields("string", <<"project", "trace_id", "span_id">>) \o Fields("uint8", <<"trace_flags">>)
    \o Fields("string", <<"severity_text">>)
    \o Fields("uint8", <<"severity_number_alt", "severity_number">>)
    \o Fields("string", <<"service_name", "event_message", "scope_name", "scope_version",
                          "scope_schema_url", "resource_schema_url">>)
    \o Fields("flat_map", <<"scope_attributes", "resource_attributes", "log_attributes">>)
    \o Fields("datetime64", <<"timestamp">>)

LogFields ==
    Fields("string", <<"project", "trace_id", "span_id">>) \o Fields("uint8", <<"trace_flags">>)
    \o Fields("string", <<"severity_text">>)
    \o Fields("uint8", <<"severity_number_alt", "severity_number">>)
    \o Fields("string", <<"service_name", "event_message", "scope_name", "scope_version",
                          "scope_schema_url", "resource_schema_url">>)
    \o Fields("flat_map", <<"resource_attributes", "scope_attributes", "log_attributes">>)
    \o Fields("datetime64", <<"timestamp">>)

MetricFields ==
    Fields("string", <<"project">>) \o Fields("datetime64", <<"time_unix", "start_time_unix">>)
    \o Fields("string", <<"metric_name", "metric_description", "metric_unit">>)
    \o Fields("enum8", <<"metric_type">>)
    \o Fields("string", <<"service_name", "event_message", "scope_name", "scope_version",
                          "scope_schema_url", "resource_schema_url">>)
    \o Fields("flat_map", <<"resource_attributes", "scope_attributes", "attributes">>)
    \o Fields("string", <<"aggregation_temporality">>) \o Fields("bool", <<"is_monotonic">>)
    \o Fields("uint32", <<"flags">>) \o Fields("float64", <<"value">>)
    \o Fields("uint64", <<"count">>) \o Fields("float64", <<"sum", "min", "max">>)
    \o Fields("int32", <<"scale">>) \o Fields("uint64", <<"zero_count">>)
    \o Fields("int32", <<"positive_offset", "negative_offset">>)
    \o Fields("array_uint64", <<"bucket_counts">>)
    \o Fields("array_float64", <<"explicit_bounds">>)
    \o Fields("array_uint64", <<"positive_bucket_counts", "negative_bucket_counts">>)
    \o Fields("array_float64", <<"quantile_values", "quantiles">>)
    \o Fields("array_flat_map", <<"exemplars.filtered_attributes">>)
    \o Fields("array_datetime64", <<"exemplars.time_unix">>)
    \o Fields("array_float64", <<"exemplars.value">>)
    \o Fields("array_string", <<"exemplars.span_id", "exemplars.trace_id">>)
    \o Fields("datetime64", <<"timestamp">>)

TraceFields ==
    Fields("string", <<"project", "trace_id", "span_id", "parent_span_id", "trace_state",
                       "span_name", "span_kind", "service_name", "event_message">>)
    \o Fields("uint64", <<"duration">>) \o Fields("datetime64", <<"start_time", "end_time">>)
    \o Fields("string", <<"status_code", "status_message", "scope_name", "scope_version">>)
    \o Fields("flat_map", <<"resource_attributes", "span_attributes">>)
    \o Fields("array_datetime64", <<"events.timestamp">>)
    \o Fields("array_string", <<"events.name">>)
    \o Fields("array_flat_map", <<"events.attributes">>)
    \o Fields("array_string", <<"links.trace_id", "links.span_id", "links.trace_state">>)
    \o Fields("array_flat_map", <<"links.attributes">>)
    \o Fields("datetime64", <<"timestamp">>)

RowTypes == {"log", "metric", "trace"}
LayoutFields(row_type) ==
    CASE row_type = "log" -> LogFields [] row_type = "metric" -> MetricFields
      [] row_type = "trace" -> TraceFields

FieldIndex(fields, name) == SelectInSeq(fields, LAMBDA f : f.name = name)

LayoutAccepted(row_type, fields) ==
    /\ row_type \in RowTypes
    /\ \A need \in ToSet(LayoutFields(row_type)) :
           \E f \in ToSet(fields) : f.name = need.name /\ f.type = need.type

\* field_indices: where the mapped value of each layout field is.
FieldIndices(needs, fields) == [k \in DOMAIN needs |-> FieldIndex(fields, needs[k].name)]

\* Mutant: durations are always in nanoseconds.
DurationPrecisionNano(fields) == 9

DurationPrecision(fields) ==
    IF \E f \in ToSet(fields) : f.name = "start_time" /\ f.type = "datetime64"
    THEN fields[FieldIndex(fields, "start_time")].precision ELSE 9

CompileLayout(row_type, fields) ==
    [field_indices |-> FieldIndices(LayoutFields(row_type), fields),
     duration_precision |-> DurationPrecision(fields)]
-----------------------------------------------------------------------------
(* append_log, append_metric, append_trace: the encoder calls in order.  Each  *)
(* takes the next values of the layout; the names they are called with play    *)
(* no part, so only their number is kept.  The envelope and the suffix take    *)
(* none, but for the timestamp.                                                *)

Calls(encoder, n) == [k \in 1..n |-> [encoder |-> encoder, takes |-> 1]]
Derive(encoder, n) == << [encoder |-> encoder, takes |-> n] >>
Envelope(part) == << [encoder |-> part, takes |-> 0] >>

EnvelopeCalls == Envelope("id") \o Envelope("source_uuid") \o Envelope("source_name")
SuffixCalls ==
    Envelope("mapping_config_id") \o Envelope("ingested_at") \o Calls("int64", 1)

AppendLog ==
    EnvelopeCalls \o Calls("string", 3) \o Calls("uint8", 1) \o Calls("string", 1)
    \o Derive("severity", 2) \o Calls("string", 6) \o Calls("map", 3) \o SuffixCalls

AppendMetric ==
    EnvelopeCalls \o Calls("string", 1) \o Calls("nullable_int64", 2) \o Calls("string", 3)
    \o Calls("int8", 1) \o Calls("string", 6) \o Calls("map", 3) \o Calls("string", 1)
    \o Calls("bool", 1) \o Calls("uint32", 1) \o Calls("float64", 1) \o Calls("uint64", 1)
    \o Calls("float64", 3) \o Calls("int32", 1) \o Calls("uint64", 1) \o Calls("int32", 2)
    \o Calls("array_uint64", 1) \o Calls("array_float64", 1) \o Calls("array_uint64", 2)
    \o Calls("array_float64", 2) \o Calls("array_map", 1) \o Calls("array_int64", 1)
    \o Calls("array_float64", 1) \o Calls("array_string", 2) \o SuffixCalls

AppendTrace ==
    EnvelopeCalls \o Calls("string", 9) \o Derive("duration", 3) \o Calls("string", 4)
    \o Calls("map", 2) \o Calls("array_int64", 1) \o Calls("array_string", 1)
    \o Calls("array_map", 1) \o Calls("array_string", 3) \o Calls("array_map", 1)
    \o SuffixCalls

RowProgram(row_type) ==
    CASE row_type = "log" -> AppendLog [] row_type = "metric" -> AppendMetric
      [] row_type = "trace" -> AppendTrace
-----------------------------------------------------------------------------
(* Encoders: the wire form of a cell, or that the value is refused.            *)

IsStringMap(v) == IsMap(v) /\ \A k \in DOMAIN v[2] : IsStr(v[2][k])
ElementEncoder(encoder) ==
    CASE encoder = "array_string" -> "string"   [] encoder = "array_uint64"  -> "uint64"
      [] encoder = "array_int64"  -> "int64"    [] encoder = "array_float64" -> "float64"
      [] encoder = "array_map"    -> "map"

CanEncode(encoder, v) ==
    CASE encoder = "map"       -> IsStringMap(v)
      [] encoder = "array_map" -> IsList(v) /\ \A k \in DOMAIN v[2] : IsStringMap(v[2][k])
      [] encoder \in {"array_string", "array_uint64", "array_int64", "array_float64"} ->
            IsList(v) /\ \A k \in DOMAIN v[2] : Encodes(v[2][k], ElementEncoder(encoder))
      [] OTHER -> Encodes(v, encoder)

\* encode_varuint: low digits first, every byte but the last marked.
VarUint(length) ==
    LET digits[n \in Nat] ==
            IF n < VarBase THEN << [digit |-> n, more |-> FALSE] >>
            ELSE << [digit |-> n % VarBase, more |-> TRUE] >> \o digits[n \div VarBase]
    IN digits[length]

\* The length that precedes strings, maps and lists.
LengthOf(v) ==
    CASE IsStr(v) -> SizeOf(v[2]) [] IsMap(v) -> Cardinality(DOMAIN v[2])
      [] IsList(v) -> Len(v[2])

Cell(encoder, v) ==
    [wire |-> encoder, value |-> v,
     length |-> IF IsStr(v) \/ IsMap(v) \/ IsList(v) THEN VarUint(LengthOf(v)) ELSE <<>>]

FixedSize(wire) ==
    CASE wire = "uuid" -> 16
      [] wire \in {"uint64", "int64", "float64"} -> 8
      [] wire \in {"uint32", "int32"} -> 4
      [] OTHER -> 1

\* Bytes of a value under an encoder: a scalar, a map of strings, a list of
\* either.
Prefixed(count, bytes) == Len(VarUint(count)) + bytes
ScalarSize(encoder, v) ==
    CASE IsStr(v) -> Prefixed(SizeOf(v[2]), SizeOf(v[2]))
      [] encoder = "nullable_int64" -> IF v = Nil THEN 1 ELSE 9
      [] OTHER -> FixedSize(encoder)
EntrySize(fields, k) ==
    ScalarSize("string", StrTerm(<<"key", k>>)) + ScalarSize("string", fields[k])
ElementSize(encoder, v) ==
    IF IsMap(v)
    THEN Prefixed(LengthOf(v), MapThenSumSet(LAMBDA k : EntrySize(v[2], k), DOMAIN v[2]))
    ELSE ScalarSize(encoder, v)
SizeUnder(encoder, v) ==
    IF IsList(v)
    THEN Prefixed(LengthOf(v),
                  MapThenSumSet(LAMBDA k : ElementSize(ElementEncoder(encoder), v[2][k]),
                                DOMAIN v[2]))
    ELSE ElementSize(encoder, v)

\* Mutant: growing only doubles.
GrowDoubles(cap, required) == 2 * cap

\* BinaryBuilder::reserve: grow to twice the size or to what is needed, here for
\* a whole cell at a time.
Grow(cap, required) ==
    CHOOSE n \in {2 * cap, required, InitialRowCapacity} :
        \A m \in {2 * cap, required, InitialRowCapacity} : m <= n

Reserve(builder, additional) ==
    [len |-> builder.len + additional,
     cap |-> IF builder.len + additional <= builder.cap THEN builder.cap
             ELSE Grow(builder.cap, builder.len + additional)]
-----------------------------------------------------------------------------
(* NDJSON.                                                                     *)

NdjsonReserved == {"id", "source_uuid", "source_name", "mapping_config_id", "ingested_at"}

NdjsonNeeds(row_type) ==
    CASE row_type = "log"    -> {"severity_number_alt", "severity_number"}
      [] row_type = "trace"  -> {"start_time", "duration", "end_time"}
      [] OTHER               -> {}

NdjsonAccepted(row_type, fields) ==
    /\ row_type \in RowTypes
    /\ \A f \in ToSet(fields) : f.name \notin NdjsonReserved
    /\ \A name \in NdjsonNeeds(row_type) : FieldIndex(fields, name) # 0
    /\ row_type = "trace" => fields[FieldIndex(fields, "start_time")].type = "datetime64"

NdjsonColumns(row_type, fields) ==
    {f \in ToSet(fields) : row_type = "log" => f.name # "severity_number_alt"}

EnumLabel(field, v) ==
    IF \E w \in DOMAIN field.enum_values : v = IntTerm(field.enum_values[w])
    THEN StrTerm(<<"text", CHOOSE w \in DOMAIN field.enum_values :
                               v = IntTerm(field.enum_values[w])>>)
    ELSE Nil

\* derived_value reads its operands as unsigned integers, or fails.
NdjsonOperands(row_type, fields, values) ==
    {values[FieldIndex(fields, name)] :
        name \in NdjsonNeeds(row_type) \ {"start_time", "end_time"}}

ValueOf(name, fields, values) == values[FieldIndex(fields, name)]

NdjsonValue(row_type, field, fields, values) ==
    CASE row_type = "log" /\ field.name = "severity_number" ->
            JsonOf(IntTerm(SeverityNumber(ValueOf("severity_number_alt", fields, values)[2],
                                          ValueOf(field.name, fields, values)[2])))
      [] row_type = "trace" /\ field.name = "duration" ->
            JsonOf(IntTerm(Duration(ValueOf(field.name, fields, values)[2],
                                    ValueOf("start_time", fields, values),
                                    ValueOf("end_time", fields, values),
                                    fields[FieldIndex(fields, "start_time")].precision)))
      [] field.type = "enum8" -> EnumLabel(field, ValueOf(field.name, fields, values))
      [] OTHER -> JsonOf(ValueOf(field.name, fields, values))

NdjsonRow(row_type, fields, values) ==
    [name \in {f.name : f \in NdjsonColumns(row_type, fields)} |->
        NdjsonValue(row_type, fields[FieldIndex(fields, name)], fields, values)]
-----------------------------------------------------------------------------
(* ClickHouse: the columns the INSERT names, with their declared types.        *)

Columns(type, names) == [k \in DOMAIN names |-> [name |-> names[k], type |-> type]]

HeadColumns == Columns("uuid", <<"id">>) \o Columns("string", <<"source_uuid", "source_name">>)
TailColumns == Columns("uuid", <<"mapping_config_id">>)
    \o Columns("nullable_int64", <<"ingested_at">>) \o Columns("int64", <<"timestamp">>)

LogColumns == HeadColumns
    \o Columns("string", <<"project", "trace_id", "span_id">>) \o Columns("uint8", <<"trace_flags">>)
    \o Columns("string", <<"severity_text">>) \o Columns("uint8", <<"severity_number">>)
    \o Columns("string", <<"service_name", "event_message", "scope_name", "scope_version",
                           "scope_schema_url", "resource_schema_url">>)
    \o Columns("map", <<"resource_attributes", "scope_attributes", "log_attributes">>)
    \o TailColumns

MetricColumns == HeadColumns
    \o Columns("string", <<"project">>) \o Columns("nullable_int64", <<"time_unix", "start_time_unix">>)
    \o Columns("string", <<"metric_name", "metric_description", "metric_unit">>)
    \o Columns("int8", <<"metric_type">>)
    \o Columns("string", <<"service_name", "event_message", "scope_name", "scope_version",
                           "scope_schema_url", "resource_schema_url">>)
    \o Columns("map", <<"resource_attributes", "scope_attributes", "attributes">>)
    \o Columns("string", <<"aggregation_temporality">>) \o Columns("bool", <<"is_monotonic">>)
    \o Columns("uint32", <<"flags">>) \o Columns("float64", <<"value">>)
    \o Columns("uint64", <<"count">>) \o Columns("float64", <<"sum", "min", "max">>)
    \o Columns("int32", <<"scale">>) \o Columns("uint64", <<"zero_count">>)
    \o Columns("int32", <<"positive_offset", "negative_offset">>)
    \o Columns("array_uint64", <<"bucket_counts">>) \o Columns("array_float64", <<"explicit_bounds">>)
    \o Columns("array_uint64", <<"positive_bucket_counts", "negative_bucket_counts">>)
    \o Columns("array_float64", <<"quantile_values", "quantiles">>)
    \o Columns("array_map", <<"exemplars.filtered_attributes">>)
    \o Columns("array_int64", <<"exemplars.time_unix">>)
    \o Columns("array_float64", <<"exemplars.value">>)
    \o Columns("array_string", <<"exemplars.span_id", "exemplars.trace_id">>) \o TailColumns

TraceColumns == HeadColumns
    \o Columns("string", <<"project", "trace_id", "span_id", "parent_span_id", "trace_state",
                           "span_name", "span_kind", "service_name", "event_message">>)
    \o Columns("uint64", <<"duration">>)
    \o Columns("string", <<"status_code", "status_message", "scope_name", "scope_version">>)
    \o Columns("map", <<"resource_attributes", "span_attributes">>)
    \o Columns("array_int64", <<"events.timestamp">>) \o Columns("array_string", <<"events.name">>)
    \o Columns("array_map", <<"events.attributes">>)
    \o Columns("array_string", <<"links.trace_id", "links.span_id", "links.trace_state">>)
    \o Columns("array_map", <<"links.attributes">>) \o TailColumns

InsertColumns(row_type) ==
    CASE row_type = "log" -> LogColumns [] row_type = "metric" -> MetricColumns
      [] row_type = "trace" -> TraceColumns
=============================================================================
