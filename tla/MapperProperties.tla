-------------------------- MODULE MapperProperties ---------------------------
(* What the mapper promises: the fast paths of mapper.rs, query.rs and coerce.rs *)
(* against the plain evaluation they stand for, and the positional row against   *)
(* the named columns ClickHouse reads it with.                                   *)
EXTENDS Mapper

NonEmptyMap(v) == IsMap(v) /\ DOMAIN v[2] # {}

\* The field that was mapped last, what it had to read, and its value.
HasMapped == phase = "mapping" /\ values # <<>>
Mapped    == fields[Len(values)]
Outputs   == SubSeq(values, 1, Len(values) - 1)
Value     == values[Len(values)]

\* The same field with no cache slots.
UncachedField == Compiled[config][Len(values)]
-----------------------------------------------------------------------------
(* Types.                                                                      *)

\* A mapping's slots are distinct and its from_output indices point backwards;
\* a row never takes values past its layout nor bytes past its allocation.
TypeOK ==
    /\ phase \in {"idle", "ready", "mapping", "writing"}
    /\ answer \in {"none", "error", "raised", "map", "row", "ndjson"}
    /\ mapping # NoMapping =>
           /\ IsInjective(mapping.slots) /\ mapping.roots <= Len(mapping.slots)
           /\ \A k \in DOMAIN fields :
                  fields[k].source[1] = "output" => fields[k].source[2] \in 1..(k - 1)
    /\ phase \in {"mapping", "writing"} => Len(values) <= Len(fields)
    /\ phase = "writing" => cursor <= Len(mapping.layout.field_indices)
    /\ builder.len <= builder.cap
-----------------------------------------------------------------------------
(* The path cache.                                                             *)

\* Every field has the value it would have without any cache, whichever fields
\* were mapped before it and in whatever order the root keys got their slots.
CacheTransparent ==
    HasMapped =>
        Value = MapField(call.document, UncachedField, Outputs, call.flat, <<>>).value
-----------------------------------------------------------------------------
(* Fast paths against the general ones.                                        *)

\* An array coerced while its wildcard fans out is the array of the general
\* path: evaluate, default, coerce (evaluate_wildcard_mapped, coerce_array).
WildcardFastPathAgrees ==
    HasMapped /\ Mapped.type \in ArrayTypes /\ FansOut(Mapped, call.flat) =>
        Value = MapArray(call.document, UncachedField, Outputs, FALSE, <<>>).value

\* A key-only scalar field has one value, whether the event came nested or with
\* dotted keys, as long as its paths end at leaves (evaluate_flat).
FlatKeysAgree ==
    HasMapped /\ call.flat /\ Mapped.type \in ScalarTypes /\ Mapped.source[1] # "root"
        /\ (\A p \in ToSet(FieldPaths(Mapped)) : p.flat_key # <<>>) =>
        \A d \in Documents :
            (/\ FlatDocuments[d] = call.document
             /\ \A p \in ToSet(FieldPaths(Mapped)) :
                    ~NonEmptyMap(EvaluateUncached(d, p.segments)))
            => Value = MapField(d, UncachedField, Outputs, FALSE, <<>>).value

\* Every value a call keeps is one its column accepts: its encoder takes it, with
\* nil for a timestamp only, and an enum8 is a configured value or the field's
\* default, whatever integer the event sent (coerce.rs and resolve_enum8 against
\* clickhouse_rowbinary.rs).  A float no term can hold is never kept: the call has
\* raised.
WireOf(type) ==
    CASE type = "flat_map"         -> "map"        [] type = "array_flat_map" -> "array_map"
      [] type = "array_datetime64" -> "array_int64" [] type = "enum8"          -> "int8"
      [] type = "datetime64"       -> "nullable_int64"
      [] OTHER                     -> type
HasLabel(field, value) ==
    value[2] \in EnumValues(field) \/ value = Coerce(field.default, "enum8", 9)
MappedValuesEncode ==
    HasMapped /\ Mapped.type \notin {"json", "array_json", "array_map"} =>
        /\ CanEncode(WireOf(Mapped.type), Value)
        /\ Mapped.type = "enum8" => HasLabel(Mapped, Value)

\* The arrays of one nested column are as long as the list they fan out from,
\* element by element, when nils are kept: ClickHouse refuses a batch otherwise.
MapOrNil(v) == IsMap(v) \/ v = Nil
Aligned(list, rest) ==
    IsList(list) /\ (Mapped.type = "array_flat_map" =>
                        \A k \in DOMAIN list[2] : MapOrNil(EvaluateUncached(list[2][k], rest)))
        => Len(Value[2]) = Len(list[2])
AlignedFrom(path) ==
    Aligned(EvaluateUncached(call.document, SubSeq(path.segments, 1, path.wildcard - 1)),
            AfterWildcard(path))
ParallelArraysAligned ==
    HasMapped /\ Mapped.type \in {"array_string", "array_uint64", "array_float64",
                                   "array_datetime64", "array_flat_map"}
        /\ FansOut(Mapped, call.flat) /\ ~Mapped.filter_nil => AlignedFrom(Mapped.source[2][1])
-----------------------------------------------------------------------------
(* Elevating.                                                                  *)

\* What supplies a key of the result: the top level (0) or elevate key number i.
HoldsMap(map, key) == key \in DOMAIN map /\ IsMap(map[key])
KeptSuppliers(kept, elevate, key) ==
    {i \in 0..Len(elevate) :
        IF i = 0 THEN key \in DOMAIN kept /\ ~IsElevated(kept, key, elevate)
        ELSE HoldsMap(kept, elevate[i]) /\ key \in DOMAIN kept[elevate[i]][2]}
Suppliers(map, field, key) ==
    KeptSuppliers(ApplyExclude(map, field.exclude_keys), field.elevate_keys, key)

Supplied(map, field, key, i) ==
    IF i = 0 THEN map[key] ELSE map[field.elevate_keys[i]][2][key]

\* The keys at the top and one level below it.
KeysAround(map) ==
    DOMAIN map \cup UNION {DOMAIN map[k][2] : k \in {j \in DOMAIN map : IsMap(map[j])}}

\* The first supplier wins: the top level, then the elevate keys as configured
\* (apply_elevate_keys merges in reverse; field_config.ex, json/2).
ElevateReference(map, field) ==
    [key \in {k \in KeysAround(map) : Suppliers(map, field, k) # {}} |->
        Supplied(map, field, key, Min(Suppliers(map, field, key)))]

ElevatesRoot(type) ==
    HasMapped /\ Mapped.type = type /\ Mapped.source[1] = "root" /\ Mapped.pick = <<>>

\* A json field that elevates gives each key its first supplier's value.
ElevatePrecedence ==
    ElevatesRoot("json") /\ ~call.flat =>
        Value[2] = ElevateReference(call.document[2], Mapped)

\* When no key has two suppliers, the one pass over a nested event, the three
\* passes it replaces, and the pass over the event's dotted keys agree
\* (try_flatten_with_operations, apply_json_operations_flat).
OneSupplier(map, field) ==
    \A key \in KeysAround(map) : Cardinality(Suppliers(map, field, key)) <= 1

ElevationsAgree ==
    ElevatesRoot("flat_map") =>
        \A d \in Documents :
            (IF call.flat THEN FlatDocuments[d] ELSE d) = call.document
                /\ OneSupplier(d[2], Mapped) =>
            Value = FlattenAndStringify(MapTerm(ElevateReference(d[2], Mapped)))

\* What field_config.ex says of json/2 and, by "Accepts the same options as
\* json/2", of flat_map/2: existing top-level keys win over elevated children, and
\* of two elevated maps with the same child key the earlier configured one wins.
FlatMapElevatesLikeJson ==
    ElevatesRoot("flat_map") /\ ~call.flat =>
        Value = FlattenAndStringify(MapTerm(ElevateReference(call.document[2], Mapped)))
-----------------------------------------------------------------------------
(* Rows.                                                                       *)

\* The value of a column, by its name.
ByName(name) == values[FieldIndex(fields, name)]
Column(name) ==
    CASE name \in {"id", "mapping_config_id"} -> AtomTerm(name)
      [] name \in {"source_uuid", "source_name"} -> StrTerm(<<"text", name>>)
      [] name = "ingested_at" -> IntTerm(0)
      [] name = "severity_number" ->
            IntTerm(SeverityNumber(ByName("severity_number_alt")[2], ByName(name)[2]))
      [] name = "duration" ->
            IntTerm(Duration(ByName(name)[2], ByName("start_time"), ByName("end_time"),
                             DurationPrecision(fields)))
      [] OTHER -> ByName(name)

\* The length a LEB128 prefix spells.
Spelled(digits) == FoldRight(LAMBDA d, n : d.digit + VarBase * n, digits, 0)
Terminated(digits) ==
    \A k \in DOMAIN digits : digits[k].more <=> k # Len(digits)

\* A finished row, read with the columns of the INSERT, has in every column the
\* column's own type and value: encoders, layout and column list are three lists
\* kept in step by hand (append_*, *_FIELDS, query_templates.ex).
ReadsBack(cell, column) ==
    /\ cell.wire = column.type
    /\ cell.value = Column(column.name)
    /\ cell.length # <<>> => Spelled(cell.length) = LengthOf(cell.value) /\ Terminated(cell.length)
RowReadsAs(columns) ==
    Len(row) = Len(columns) /\ \A k \in DOMAIN columns : ReadsBack(row[k], columns[k])
RowReadsBack == answer = "row" => RowReadsAs(InsertColumns(mapping.row_type))

\* The text, or a text of the list, that a column of floats reads is NaN, an
\* infinity or a literal past the largest float.
FedNonFinite(field) ==
    /\ field.type \in {"float64", "array_float64"}
    /\ \E path \in ToSet(FieldPaths(field)) :
          LET read == Evaluate(call.document, path, call.flat, <<>>).value IN
          \/ ReadsNonFinite(read)
          \/ IsList(read) /\ \E k \in DOMAIN read[2] : ReadsNonFinite(read[2][k])

\* Once the options decode, three things cost an event its row and nothing else in
\* it can: an envelope that does not fit, a missing timestamp, and a column of
\* floats that reads a number no float is (coerce_float64), which raises.
RowAlwaysWritten ==
    call # NoCall /\ mapping.format = "ch_row_binary" =>
        /\ answer = "error" => \/ ~call.envelope.id \/ ~call.envelope.config_id
                               \/ ByName("timestamp") = Nil
        /\ answer = "raised" => FedNonFinite(Compiled[config][Len(values) + 1])

\* An NDJSON object has, for each column of the INSERT that is a field, what the
\* RowBinary row would have there; an enum as its label.
NdjsonHas(member, field, value) ==
    IF field.type = "enum8"
    THEN member = Nil \/ IntTerm(field.enum_values[member[2][2]]) = value
    ELSE member = JsonOf(value)
ObjectAgrees(object, columns) ==
    \A column \in ToSet(columns) :
        column.name \in DOMAIN object =>
            NdjsonHas(object[column.name], fields[FieldIndex(fields, column.name)],
                      Column(column.name))
NdjsonAgrees ==
    answer = "ndjson" =>
        ObjectAgrees(NdjsonRow(mapping.row_type, fields, values), InsertColumns(mapping.row_type))
=============================================================================
