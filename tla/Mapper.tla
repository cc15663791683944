------------------------------- MODULE Mapper -------------------------------
(* The mapper NIF as its callers see it: compile_mapping, then one map call    *)
(* per document (lib.rs).  A call maps the fields one after another into a     *)
(* scratch of its own, values and path cache, and then answers with the map,   *)
(* an NDJSON object, or a RowBinary row written encoder call by encoder call.  *)
(* One compiled mapping serves any number of calls.                            *)
EXTENDS MapperRow

CONSTANTS
    RawConfig,         \* configuration name |-> [fields, format, row_type]
    Documents,         \* event bodies, nested
    Envelopes          \* [id, config_id]: are they what the format needs (a UUID
                       \* and 16 bytes, or text)

ASSUME InputsAssumption ==
    /\ \A c \in DOMAIN RawConfig :
           /\ IsSequence(RawConfig[c].fields)
           /\ \A k \in DOMAIN RawConfig[c].fields : IsRawField(RawConfig[c].fields[k])
    /\ \A d \in Documents : d \in Terms /\ IsMap(d)

VARIABLES
    phase,             \* idle, ready, mapping, writing
    mapping,           \* the compiled mapping in use
    call,              \* the document, how it is read, the envelope
    values,            \* MapScratch.values
    cache,             \* MapScratch.query_cache
    row,               \* cells written so far
    cursor,            \* RowValues.cursor
    builder,           \* BinaryBuilder: bytes written, bytes allocated
    answer             \* of the last call: none, error, raised, map, row, ndjson

vars == <<phase, mapping, call, values, cache, row, cursor, builder, answer>>
-----------------------------------------------------------------------------
Configs  == DOMAIN RawConfig
Compiled == [c \in Configs |-> IF FieldsAccepted(RawConfig[c].fields)
                               THEN CompileFields(RawConfig[c].fields) ELSE <<>>]
Program  == [t \in RowTypes |-> RowProgram(t)]

\* decode_output
OutputAccepted(raw, compiled) ==
    CASE raw.format = "map"           -> TRUE
      [] raw.format = "ch_row_binary" -> LayoutAccepted(raw.row_type, compiled)
      [] raw.format = "ndjson"        -> NdjsonAccepted(raw.row_type, compiled)
      [] OTHER                        -> FALSE

Accepted(c) ==
    /\ FieldsAccepted(RawConfig[c].fields)
    /\ OutputAccepted(RawConfig[c], Compiled[c])

\* The layout part of decode_output.
OutputLayout(raw, compiled) ==
    IF raw.format = "ch_row_binary" THEN CompileLayout(raw.row_type, compiled)
    ELSE [field_indices |-> <<>>, duration_precision |-> 9]

\* decode_mapping: what a configuration compiles to, one mapping for each order of
\* its root slots.
Mapping(c, raw, compiled, slots, roots) ==
    [config |-> c, slots |-> slots, roots |-> Len(roots),
     fields |-> [k \in DOMAIN compiled |-> CachedField(compiled[k], slots)],
     format |-> raw.format, row_type |-> raw.row_type, layout |-> OutputLayout(raw, compiled)]

MappingsOf(c, compiled, paths) ==
    {Mapping(c, RawConfig[c], compiled, AssignSlots(paths, roots), roots) :
        roots \in RootOrders(paths)}

Mappings == [c \in {d \in Configs : Accepted(d)} |->
                MappingsOf(c, Compiled[c], AllPaths(Compiled[c]))]

config  == mapping.config
fields  == mapping.fields
program == Program[mapping.row_type]

NoMapping == [config |-> "none", slots |-> <<>>, roots |-> 0, fields |-> <<>>,
              format |-> "none", row_type |-> "none",
              layout |-> [field_indices |-> <<>>, duration_precision |-> 9]]
NoCall    == [document |-> Nil, flat |-> FALSE, envelope |-> [id |-> FALSE, config_id |-> FALSE]]
NewBuilder == [len |-> 0, cap |-> InitialRowCapacity]

Init ==
    /\ phase = "idle" /\ mapping = NoMapping /\ call = NoCall
    /\ values = <<>> /\ cache = <<>> /\ row = <<>> /\ cursor = 0
    /\ builder = NewBuilder /\ answer = "none"
-----------------------------------------------------------------------------
NotCalling == phase \in {"idle", "ready"}
ScratchGone ==
    /\ call' = NoCall /\ values' = <<>> /\ cache' = <<>> /\ row' = <<>> /\ cursor' = 0
    /\ builder' = NewBuilder /\ answer' = "none"

\* compile_mapping of an accepted configuration.
Compile(c) ==
    /\ NotCalling
    /\ c \in DOMAIN Mappings
    /\ mapping' \in Mappings[c]
    /\ phase' = "ready"
    /\ ScratchGone

\* compile_mapping answers an error and there is no mapping to call with.
RejectConfig(c) ==
    /\ NotCalling
    /\ c \notin DOMAIN Mappings
    /\ mapping' = NoMapping /\ phase' = "idle"
    /\ ScratchGone

\* The document a producer of flat events sends: the same leaves under dotted
\* keys.
FlatDocument(document) == BuildFlatMap(Leaves(EntriesOf(<<>>, document[2])))
FlatDocuments == [d \in Documents |-> FlatDocument(d)]

PreloadsDocument(document, flat) ==
    /\ ~flat /\ mapping.roots > 0
    /\ Cardinality(DOMAIN document[2]) <=
           (IF mapping.roots > MinRootReferences THEN mapping.roots ELSE MinRootReferences)

\* map: a call starts with a new scratch; root keys are preloaded for a nested
\* document that is not much larger than the mapping needs.
StartCall(document, flat, envelope) ==
    /\ phase = "ready"
    /\ call' = [document |-> document, flat |-> flat, envelope |-> envelope]
    /\ cache' = IF PreloadsDocument(document, flat)
                THEN PreloadRoot(document, mapping.slots, mapping.roots)
                ELSE NewCache(mapping.slots)
    /\ values' = <<>> /\ row' = <<>> /\ cursor' = 0 /\ builder' = NewBuilder
    /\ answer' = "none" /\ phase' = "mapping"
    /\ UNCHANGED mapping

\* A call whose options do not decode, name another format, or hold an envelope
\* that does not decode is answered before anything is mapped.
RefuseCall ==
    /\ phase = "ready"
    /\ phase' = "ready" /\ answer' = "error"
    /\ call' = NoCall /\ values' = <<>> /\ cache' = <<>> /\ row' = <<>> /\ cursor' = 0
    /\ builder' = NewBuilder
    /\ UNCHANGED mapping

Answer(with) ==
    /\ answer' = with /\ phase' = "ready"
    /\ UNCHANGED <<mapping, call, values, cache, row, cursor, builder>>

\* A value, or an element of it, was to be a float that is none.
Raises(value) ==
    \/ value = NonValue
    \/ IsList(value) /\ \E k \in DOMAIN value[2] : value[2][k] = NonValue

\* map_values_into, one field.
FieldsLeft == phase = "mapping" /\ Len(values) < Len(fields)
NextMapped == MapField(call.document, fields[Len(values) + 1], values, call.flat, cache)
Keep(mapped) ==
    ~Raises(mapped.value) /\ values' = Append(values, mapped.value) /\ cache' = mapped.cache
MapNextField ==
    /\ FieldsLeft /\ Keep(NextMapped)
    /\ UNCHANGED <<phase, mapping, call, row, cursor, builder, answer>>

\* A call that made no term of a float ends with the exception that set, whatever
\* the NIF goes on to compute and return.
RaiseInField == FieldsLeft /\ Raises(NextMapped.value) /\ Answer("raised")

AllMapped == phase = "mapping" /\ Len(values) = Len(fields)

\* map_single
ReturnMap == AllMapped /\ mapping.format = "map" /\ Answer("map")

\* ndjson::encode_row: fails when the envelope is not text or a derived column's
\* operand is no unsigned integer.
ReturnNdjson ==
    /\ AllMapped /\ mapping.format = "ndjson"
    /\ Answer(IF /\ call.envelope.id /\ call.envelope.config_id
                 /\ \A v \in NdjsonOperands(mapping.row_type, fields, values) : IsU64(v)
              THEN "ndjson" ELSE "error")

\* append_row starts on the mapped values.
StartRow ==
    /\ AllMapped /\ mapping.format = "ch_row_binary"
    /\ phase' = "writing"
    /\ UNCHANGED <<mapping, call, values, cache, row, cursor, builder, answer>>
-----------------------------------------------------------------------------
(* append_row, one encoder call at a time.                                     *)

Writing == phase = "writing" /\ Len(row) < Len(program)
Step == program[Len(row) + 1]

\* RowValues::next, as often as the call takes values.
Taken == [j \in 1..Step.takes |-> values[mapping.layout.field_indices[cursor + j]]]

\* What a call writes, and with which encoder; the two derived columns are
\* computed from all the values they take.
Written(encoder, taken) ==
    CASE encoder \in {"id", "mapping_config_id"} -> [encoder |-> "uuid", value |-> AtomTerm(encoder)]
      [] encoder \in {"source_uuid", "source_name"} ->
            [encoder |-> "string", value |-> StrTerm(<<"text", encoder>>)]
      [] encoder = "ingested_at" -> [encoder |-> "nullable_int64", value |-> IntTerm(0)]
      [] encoder = "severity" ->
            [encoder |-> "uint8", value |-> IntTerm(SeverityNumber(taken[1][2], taken[2][2]))]
      [] encoder = "duration" ->
            [encoder |-> "uint64",
             value |-> IntTerm(Duration(taken[1][2], taken[2], taken[3],
                                        mapping.layout.duration_precision))]
      [] OTHER -> [encoder |-> encoder, value |-> taken[1]]

\* Whether the call's operands decode and its value fits the encoder.
CanWrite(encoder, taken) ==
    CASE encoder = "id"                -> call.envelope.id
      [] encoder = "mapping_config_id" -> call.envelope.config_id
      [] encoder \in {"source_uuid", "source_name", "ingested_at"} -> TRUE
      [] encoder = "severity" -> /\ IsU64(taken[1]) /\ IsU64(taken[2])
                                 /\ SeverityNumber(taken[1][2], taken[2][2]) <= U8Max
      [] encoder = "duration" -> IsU64(taken[1])
      [] OTHER                -> CanEncode(encoder, taken[1])

Put(cell) ==
    /\ row' = Append(row, Cell(cell.encoder, cell.value))
    /\ builder' = Reserve(builder, SizeUnder(cell.encoder, cell.value))
    /\ cursor' = cursor + Step.takes
WriteTaken(taken) == CanWrite(Step.encoder, taken) /\ Put(Written(Step.encoder, taken))

WriteCell ==
    /\ Writing /\ WriteTaken(Taken)
    /\ UNCHANGED <<phase, mapping, call, values, cache, answer>>

\* A call that cannot encode its value fails the row: no binary is returned.
FailRow == Writing /\ ~CanWrite(Step.encoder, Taken) /\ Answer("error")

\* RowValues::finish: every value of the layout was consumed.
FinishRow ==
    /\ phase = "writing" /\ Len(row) = Len(program)
    /\ Answer(IF cursor = Len(mapping.layout.field_indices) THEN "row" ELSE "error")
-----------------------------------------------------------------------------
Next ==
    \/ \E c \in Configs : Compile(c) \/ RejectConfig(c)
    \/ \E d \in Documents, e \in Envelopes :
           StartCall(d, FALSE, e) \/ StartCall(FlatDocuments[d], TRUE, e)
    \/ RefuseCall
    \/ MapNextField
    \/ RaiseInField
    \/ ReturnMap
    \/ ReturnNdjson
    \/ StartRow
    \/ WriteCell
    \/ FailRow
    \/ FinishRow

Spec == Init /\ [][Next]_vars
=============================================================================
