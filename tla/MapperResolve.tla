---------------------------- MODULE MapperResolve ---------------------------
(* What the mapper does with one document: path evaluation with and without    *)
(* the per-document path cache (query.rs), the JSON operations pick, exclude   *)
(* and elevate, their flat-key variants, flattening and stringifying           *)
(* (mapper.rs), array coercion (coerce.rs), and the pipeline of one field      *)
(* (map_values_into).  Evaluation threads the cache through: an operator that  *)
(* reads paths returns the value and the cache it leaves.                      *)
EXTENDS MapperCompile

Unset == <<"unset">>                       \* a cache slot nobody filled
NewCache(slots) == [k \in DOMAIN slots |-> Unset]

With(value, cache) == [value |-> value, cache |-> cache]

\* The keys of a map in the order it is iterated: some order, the same each time.
Keys(fields) == FoldSet(LAMBDA k, order : Append(order, k), <<>>, DOMAIN fields)
-----------------------------------------------------------------------------
(* query.rs                                                                    *)

\* One step of a path, by key, dotted key or index: nil when there is none.
MapKey(segment) == IF IsKey(segment) THEN <<segment[2]>> ELSE segment[2]
Child(term, segment) ==
    CASE segment[1] \in {"key", "flat"} /\ IsMap(term) /\ MapKey(segment) \in DOMAIN term[2] ->
            term[2][MapKey(segment)]
      [] segment[1] = "index" /\ IsList(term) /\ segment[2] < Len(term[2]) ->
            term[2][segment[2] + 1]
      [] OTHER -> Nil

\* A path is a function on the terms of a document, put together from its last
\* segment to its first: rest is what the segments after this one make of a term.
Along(segment, rest) ==
    [t \in Terms |->
        IF segment # Wildcard THEN rest[Child(t, segment)]
        ELSE IF IsList(t) THEN ListTerm([k \in DOMAIN t[2] |-> rest[t[2][k]]]) ELSE Nil]

EvaluateUncached(term, segments) ==
    FoldRight(Along, segments, [t \in Terms |-> t])[term]

\* The slots of the root keys are filled from the document before any field is
\* mapped; a root key the document does not have then reads as nil.
PreloadRoot(document, slots, roots) ==
    [k \in DOMAIN slots |->
        IF k > roots THEN Unset ELSE Child(document, slots[k][1])]

CachePut(cache, slot, value) ==
    IF slot = 0 THEN cache ELSE [cache EXCEPT ![slot] = value]

\* What a path cache may hold.
Caches(cache) == [DOMAIN cache -> Terms \cup {Unset}]

\* One segment: from its slot when that is filled, else from the term and into
\* the slot.
ReadSegment(term, segment, slot, cache) ==
    IF slot # 0 /\ cache[slot] # Unset THEN With(cache[slot], cache)
    ELSE With(Child(term, segment), CachePut(cache, slot, Child(term, segment)))

\* The segments after this one, unless the value is nil already.
Onwards(read, rest) ==
    IF read.value = Nil THEN read ELSE rest[read.value][read.cache]

\* evaluate_wildcard: the elements are evaluated in turn against one cache.
AppendValue(list, read) == With(ListTerm(Append(list[2], read.value)), read.cache)
EvaluateWildcard(items, rest, cache) ==
    FoldLeft(LAMBDA acc, item : AppendValue(acc.value, rest[item][acc.cache]),
             With(ListTerm(<<>>), cache), items)

\* As Along, with the slot of the segment and the cache threaded through.
AlongCached(step, rest, caches) ==
    [t \in Terms |-> [c \in caches |->
        IF step.segment = Wildcard /\ (step.slot = 0 \/ c[step.slot] = Unset)
        THEN IF IsList(t) THEN EvaluateWildcard(t[2], rest, c) ELSE With(Nil, c)
        ELSE Onwards(ReadSegment(t, step.segment, step.slot, c), rest)]]

Steps(segments, indices) ==
    [k \in DOMAIN segments |-> [segment |-> segments[k], slot |-> indices[k]]]

EvaluateNested(term, segments, indices, cache) ==
    FoldRight(LAMBDA step, rest : AlongCached(step, rest, Caches(cache)),
              Steps(segments, indices),
              [t \in Terms |-> [c \in Caches(cache) |-> With(t, c)]])[term][cache]

\* Mutant: a flat lookup uses the slot of the path's first segment.
EvaluateFlatFirstSlot(document, path, cache) ==
    CASE path.flat_key = <<>> -> With(Nil, cache)
      [] OTHER -> ReadSegment(document, <<"flat", path.flat_key>>, path.cache_indices[1], cache)

\* A flat document holds the dotted path as one key.
EvaluateFlat(document, path, cache) ==
    CASE path.flat_key = <<>> -> With(Nil, cache)
      [] OTHER -> ReadSegment(document, <<"flat", path.flat_key>>,
                              path.cache_indices[Len(path.segments)], cache)

\* evaluate: flat tells how the document's keys are read.
Evaluate(document, path, flat, cache) ==
    CASE path.segments = <<>> -> With(document, cache)
      [] path.segments # <<>> /\ flat -> EvaluateFlat(document, path, cache)
      [] OTHER ->
            IF \A k \in DOMAIN path.cache_indices : path.cache_indices[k] = 0
            THEN With(EvaluateUncached(document, path.segments), cache)
            ELSE EvaluateNested(document, path.segments, path.cache_indices, cache)

NoOptions == [skip_empty_strings |-> FALSE, strict_uint |-> FALSE]

\* evaluate_first: the first value that is neither nil nor refused; the paths
\* after it are not evaluated and leave the cache alone.
IfAccepted(read, options) ==
    IF Accepts(read.value, options) THEN read ELSE With(Nil, read.cache)
EvaluateFirst(document, paths, options, flat, cache) ==
    FoldLeft(LAMBDA acc, path :
                 IF acc.value # Nil THEN acc
                 ELSE IfAccepted(Evaluate(document, path, flat, acc.cache), options),
             With(Nil, cache), paths)
-----------------------------------------------------------------------------
(* Stringifying and flattening.                                                *)

\* JsonTerm: the JSON text of a term as its tokens.  Containers are opened one
\* level after another; an atom is written as a string, and an integer of more
\* than 64 bits as null.
Levels == [n \in 1..MaxDepth |-> n]
OpenContainer(v) ==
    CASE IsList(v) -> <<ListOpen>> \o v[2] \o <<ListClose>>
      [] IsMap(v)  -> <<MapOpen>> \o FlattenSeq([k \in DOMAIN Keys(v[2]) |->
                          << <<"key", Keys(v[2])[k]>>, v[2][Keys(v[2])[k]] >>]) \o <<MapClose>>
      [] OTHER     -> <<v>>
OpenAll(text) == FlattenSeq([k \in DOMAIN text |-> OpenContainer(text[k])])
JsonToken(v) ==
    CASE Tag(v) = "atom" -> StrTerm(<<"text", v[2]>>)
      [] IsInt(v) /\ ~IsI64(v) /\ ~IsU64(v) -> Nil
      [] OTHER -> v
Tokens(text) == [k \in DOMAIN text |-> JsonToken(text[k])]
JsonOf(v) == Tokens(FoldLeft(LAMBDA text, level : OpenAll(text), <<v>>, Levels))

\* term_to_string_term: as coerce_string, with lists and maps as JSON text.
StringOf(v) ==
    IF IsList(v) \/ IsMap(v) THEN StrTerm(<<"json", JsonOf(v)>>) ELSE CoerceString(v)

Entry(key, value) == [key |-> key, value |-> value]

EntriesOf(prefix, fields) ==
    [k \in DOMAIN Keys(fields) |-> Entry(prefix \o Keys(fields)[k], fields[Keys(fields)[k]])]

\* An entry that holds a map with entries gives way to those, down to the leaves.
Unfold(entry) ==
    IF IsMap(entry.value) /\ DOMAIN entry.value[2] # {}
    THEN EntriesOf(entry.key, entry.value[2]) ELSE <<entry>>
UnfoldAll(entries) == FlattenSeq([k \in DOMAIN entries |-> Unfold(entries[k])])
Leaves(entries) == FoldLeft(LAMBDA found, level : UnfoldAll(found), entries, Levels)

Stringified(entry) ==
    IF entry.value = Nil THEN <<>> ELSE <<Entry(entry.key, StringOf(entry.value))>>
StringifyAll(entries) == FlattenSeq([k \in DOMAIN entries |-> Stringified(entries[k])])

FlattenEntry(key, value) == StringifyAll(Leaves(<<Entry(key, value)>>))
FlattenFields(fields) == StringifyAll(Leaves(EntriesOf(<<>>, fields)))

\* map_from_term_arrays refuses a repeated key; build_flat_map then inserts the
\* entries one by one, so that the last one stays.
Repeats(entries) ==
    \E i, j \in DOMAIN entries : i # j /\ entries[i].key = entries[j].key

BuildFlatMap(entries) ==
    MapTerm([key \in {entries[k].key : k \in DOMAIN entries} |->
        entries[SelectLastInSeq(entries, LAMBDA e : e.key = key)].value])

FlattenAndStringify(v) ==
    IF IsMap(v) THEN BuildFlatMap(FlattenFields(v[2])) ELSE MapTerm(NoFields)

StringifyValues(v) ==
    IF IsMap(v)
    THEN MapTerm([k \in {j \in DOMAIN v[2] : v[2][j] # Nil} |-> StringOf(v[2][k])])
    ELSE MapTerm(NoFields)
-----------------------------------------------------------------------------
(* Pick, exclude and elevate on nested documents.                              *)

\* A map's entries put over those of another.
Over(map, rest) ==
    [k \in DOMAIN map \cup DOMAIN rest |-> IF k \in DOMAIN map THEN map[k] ELSE rest[k]]
Without(fields, keys) == [k \in DOMAIN fields \ keys |-> fields[k]]

\* A map under an elevate key gives its entries to the parent and disappears;
\* anything else under that key stays.
IsElevated(fields, key, elevate) == Contains(elevate, key) /\ IsMap(fields[key])
TopLevel(fields, elevate) ==
    Without(fields, {k \in DOMAIN fields : IsElevated(fields, k, elevate)})

\* Mutant: the maps are merged as configured.
ElevatedChildrenInOrder(fields, elevate) ==
    FoldLeft(LAMBDA acc, key :
                 IF key \in DOMAIN fields /\ IsMap(fields[key])
                 THEN Over(fields[key][2], acc) ELSE acc,
             NoFields, elevate)

\* The maps are merged in reverse, so the first configured one is put last.
ElevatedChildren(fields, elevate) ==
    FoldLeft(LAMBDA acc, key :
                 IF key \in DOMAIN fields /\ IsMap(fields[key])
                 THEN Over(fields[key][2], acc) ELSE acc,
             NoFields, Reverse(elevate))

ApplyExclude(fields, exclude) == Without(fields, ToSet(exclude))
ApplyElevate(fields, elevate) ==
    Over(TopLevel(fields, elevate), ElevatedChildren(fields, elevate))

\* The entries that resolved, in configuration order.
AddEntry(entries, key, found) ==
    With(IF found.value = Nil THEN entries ELSE Append(entries, Entry(key, found.value)),
         found.cache)
PickEntries(document, pick, flat, cache) ==
    FoldLeft(LAMBDA acc, entry :
                 AddEntry(acc.value, entry.key,
                          EvaluateFirst(document, entry.paths, NoOptions, flat, acc.cache)),
             With(<<>>, cache), pick)

\* A map cannot be built from arrays that repeat a key: the pick is then empty.
PickMap(entries) == IF Repeats(entries) THEN MapTerm(NoFields) ELSE BuildFlatMap(entries)

\* select_json_value: the picked map, alone or over the source, when any entry
\* resolved; otherwise the source.
PickOver(entries, field, source) ==
    CASE entries = <<>> -> source
      [] entries # <<>> /\ field.pick_merge /\ IsMap(source) ->
            MapTerm(Over(PickMap(entries)[2], source[2]))
      [] OTHER -> PickMap(entries)
Selected(picked, field, source) == With(PickOver(picked.value, field, source), picked.cache)
SelectJsonValue(document, field, source, flat, cache) ==
    Selected(PickEntries(document, field.pick, flat, cache), field, source)

ApplyJsonOperations(v, field) ==
    IF ~IsMap(v) THEN v
    ELSE MapTerm(ApplyElevate(ApplyExclude(v[2], field.exclude_keys), field.elevate_keys))

\* Mutant: a key that is excluded at the top still suppresses elevated ones.
TopLevelWinsExcluded(fields, key, field) ==
    key \in DOMAIN fields /\ ~Contains(field.elevate_keys, key)

\* try_flatten_with_operations: flattens, excludes and elevates in one pass.
TopLevelWins(fields, key, field) ==
    /\ key \in DOMAIN fields
    /\ ~Contains(field.exclude_keys, key) /\ ~Contains(field.elevate_keys, key)

ElevatedEntries(fields, field, children) ==
    FlattenSeq([k \in DOMAIN Keys(children) |->
        IF TopLevelWins(fields, Keys(children)[k], field) THEN <<>>
        ELSE FlattenEntry(Keys(children)[k], children[Keys(children)[k]])])

OnePassEntry(fields, field, key) ==
    CASE Contains(field.exclude_keys, key) -> <<>>
      [] ~Contains(field.exclude_keys, key) /\ IsElevated(fields, key, field.elevate_keys) ->
            ElevatedEntries(fields, field, fields[key][2])
      [] OTHER -> FlattenEntry(key, fields[key])

OnePassEntries(fields, field) ==
    FlattenSeq([k \in DOMAIN Keys(fields) |-> OnePassEntry(fields, field, Keys(fields)[k])])

\* flatten_field: the one pass when it repeats no key, else the three passes.
UnlessRepeated(entries, v, field) ==
    IF Repeats(entries) THEN FlattenAndStringify(ApplyJsonOperations(v, field))
    ELSE BuildFlatMap(entries)
FlattenField(v, field) ==
    IF IsMap(v) THEN UnlessRepeated(OnePassEntries(v[2], field), v, field)
    ELSE MapTerm(NoFields)
-----------------------------------------------------------------------------
(* Exclude and elevate on flat documents: by dotted prefix.                    *)

Under(key, prefix) == IsStrictPrefix(prefix, key)

ApplyExcludeFlat(fields, exclude) ==
    Without(fields, {k \in DOMAIN fields :
        \E e \in ToSet(exclude) : k = e \/ Under(k, e)})

\* The first elevate key that a key equals or lies under, 0 for none.
Group(key, elevate) == SelectInSeq(elevate, LAMBDA e : key = e \/ Under(key, e))

\* The key itself is a leftover placeholder when it holds a map.
DroppedFlat(fields, key, elevate) ==
    /\ Group(key, elevate) # 0
    /\ Under(key, elevate[Group(key, elevate)]) \/ IsMap(fields[key])

\* What the elevate key of this group contributes, its prefix stripped.
Suffix(key, prefix) == SubSeq(key, Len(prefix) + 1, Len(key))
GroupKeys(fields, elevate, group) ==
    {k \in DOMAIN fields : Group(k, elevate) = group /\ Under(k, elevate[group])}
SuffixesOf(fields, elevate, group) ==
    LET keys == GroupKeys(fields, elevate, group) IN
    [s \in {Suffix(k, elevate[group]) : k \in keys} |->
        fields[CHOOSE k \in keys : Suffix(k, elevate[group]) = s]]

ApplyElevateFlat(fields, elevate) ==
    Over(Without(fields, {k \in DOMAIN fields : DroppedFlat(fields, k, elevate)}),
         FoldLeft(LAMBDA acc, group : Over(group, acc), NoFields,
                  Reverse([k \in DOMAIN elevate |-> SuffixesOf(fields, elevate, k)])))

ApplyJsonOperationsFlat(v, field) ==
    IF ~IsMap(v) THEN v
    ELSE MapTerm(ApplyElevateFlat(ApplyExcludeFlat(v[2], field.exclude_keys),
                                  field.elevate_keys))
-----------------------------------------------------------------------------
(* Arrays.                                                                     *)

ElementType(ty) ==
    CASE ty = "array_string"   -> "string"   [] ty = "array_uint64"     -> "uint64"
      [] ty = "array_float64"  -> "float64"  [] ty = "array_datetime64" -> "datetime64"
      [] OTHER                 -> "none"

\* Mutant: a missing time stays nil.
ArrayNilTime(ty) ==
    CASE ty \in {"array_json", "array_map", "array_flat_map"} -> MapTerm(NoFields)
      [] OTHER -> CoerceNil(ElementType(ty))

ArrayNil(ty) ==
    CASE ty = "array_datetime64" -> IntTerm(0)
      [] ty \in {"array_json", "array_map", "array_flat_map"} -> MapTerm(NoFields)
      [] OTHER -> CoerceNil(ElementType(ty))

\* Mutant: a nil element is dropped.
KeepsElementUnlessNil(v, field) ==
    v # Nil /\ (field.type \in {"array_map", "array_flat_map"} => IsMap(v))

\* An element is dropped when it is nil and nils are filtered, or when it is
\* not the map its array type needs.
KeepsElement(v, field) ==
    IF v = Nil THEN ~field.filter_nil
    ELSE field.type \in {"array_map", "array_flat_map"} => IsMap(v)

CoerceArrayElement(v, field) ==
    CASE v = Nil                        -> ArrayNil(field.type)
      [] v # Nil /\ field.type = "array_flat_map" -> FlattenAndStringify(v)
      [] OTHER -> Coerce(v, ElementType(field.type), field.precision)

CoerceElements(items, field) ==
    ListTerm(FoldLeft(LAMBDA kept, v :
                          IF KeepsElement(v, field)
                          THEN Append(kept, CoerceArrayElement(v, field)) ELSE kept,
                      <<>>, items))

CoerceArray(v, field) == CoerceElements(IF IsList(v) THEN v[2] ELSE <<>>, field)

\* A path in front of its first wildcard, and the segments after it.
UpToWildcard(path) ==
    [path EXCEPT !.segments = SubSeq(@, 1, path.wildcard - 1),
                 !.cache_indices = SubSeq(@, 1, path.wildcard - 1)]
AfterWildcard(path) == SubSeq(path.segments, path.wildcard + 1, Len(path.segments))

\* evaluate_wildcard_mapped: the list in front of the first wildcard is read
\* through the cache, its elements without it, coercing as they come.
Elements(items, segments) == [k \in DOMAIN items |-> EvaluateUncached(items[k], segments)]

\* Mutant: a document without the list has no array.
FanOutOrNil(list, path, field) ==
    With(IF IsList(list.value)
         THEN CoerceElements(Elements(list.value[2], AfterWildcard(path)), field)
         ELSE Nil,
         list.cache)

FanOut(list, path, field) ==
    With(IF IsList(list.value)
         THEN CoerceElements(Elements(list.value[2], AfterWildcard(path)), field)
         ELSE ListTerm(<<>>),
         list.cache)

EvaluateWildcardMapped(document, path, field, cache) ==
    FanOut(Evaluate(document, UpToWildcard(path), FALSE, cache), path, field)
=============================================================================
