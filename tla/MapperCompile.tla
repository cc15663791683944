---------------------------- MODULE MapperCompile ---------------------------
(* Compilation of a mapping configuration: path::parse and compile (path.rs),  *)
(* decode_fields and decode_field with their rejections, and the assignment of *)
(* path-cache slots (mapping.rs).  A path is the sequence of its tokens ("$",  *)
(* ".", "[", "]", "*", words and digits); a raw field is a record with every   *)
(* key of a field configuration, an absent number or term being the empty set. *)
(* Which of several errors is reported first is not told apart: a              *)
(* configuration is either compiled or rejected.                               *)
EXTENDS MapperCoerce, SequencesExt

CONSTANTS
    MinRootReferences,      \* ROOT_CACHE_MIN_REFERENCES: 8
    indexOf                 \* digits |-> the list index they spell

ASSUME IndexAssumption ==
    "*" \notin DOMAIN indexOf /\ \A digits \in DOMAIN indexOf : indexOf[digits] \in Nat

Wildcard == <<"wildcard">>
Key(name) == <<"key", name>>
Index(n)  == <<"index", n>>
IsKey(segment) == segment[1] = "key"

ArrayTypes == {"array_string", "array_uint64", "array_float64", "array_datetime64",
               "array_json", "array_map", "array_flat_map"}
FieldTypes == ScalarTypes \cup ArrayTypes \cup {"json", "flat_map"}
-----------------------------------------------------------------------------
(* path.rs                                                                     *)

\* The parser between two tokens: in a bracket or not, the text buffered, the
\* segments so far.  The fold below takes one token at a time.
Flush(p) ==
    IF p.buf = "" THEN p.segments ELSE Append(p.segments, Key(p.buf))

ParseBracket(p) ==
    CASE p.buf = "*"              -> [p EXCEPT !.mode = "key", !.buf = "",
                                               !.segments = Append(@, Wildcard)]
      [] p.buf \in DOMAIN indexOf -> [p EXCEPT !.mode = "key", !.buf = "",
                                               !.segments = Append(@, Index(indexOf[p.buf]))]
      [] OTHER                    -> [p EXCEPT !.mode = "invalid"]

ParseToken(p, token) ==
    CASE p.mode = "invalid" -> p
      [] p.mode = "bracket" -> IF token = "]" THEN ParseBracket(p)
                               ELSE [p EXCEPT !.buf = @ \o token]
      [] p.mode = "key" /\ token = "." -> [p EXCEPT !.buf = "", !.segments = Flush(p)]
      [] p.mode = "key" /\ token = "[" -> [mode |-> "bracket", buf |-> "",
                                           segments |-> Flush(p)]
      [] OTHER -> [p EXCEPT !.buf = @ \o token]

Scan(tokens) ==
    FoldLeft(ParseToken, [mode |-> "key", buf |-> "", segments |-> <<>>], tokens)

ParsesPath(tokens) ==
    tokens # <<>> /\ Head(tokens) = "$" /\ Scan(Tail(tokens)).mode = "key"

ParsePath(tokens) == Flush(Scan(Tail(tokens)))

\* compile: the segments, where the first wildcard is (0: none), the dotted key
\* the path stands for in a flat document, and no cache slot yet (0) for any
\* prefix.
CompiledPath(segments) ==
    [segments |-> segments,
     wildcard |-> SelectInSeq(segments, LAMBDA s : s = Wildcard),
     flat_key |-> IF \A k \in DOMAIN segments : IsKey(segments[k])
                  THEN [k \in DOMAIN segments |-> segments[k][2]] ELSE <<>>,
     cache_indices |-> [k \in DOMAIN segments |-> 0]]

CompilePath(tokens) == CompiledPath(ParsePath(tokens))
-----------------------------------------------------------------------------
(* decode_field: when a raw field is accepted, and what it becomes.            *)

\* What the decoding of its keys gives: lists, paths, and terms.
IsSequence(s) == s \in Seq(ToSet(s))
AreConditions(conditions) ==
    IsSequence(conditions) /\ \A k \in DOMAIN conditions : conditions[k].path \in Seq(STRING)
IsRawField(raw) ==
    /\ raw.path \in Seq(STRING) /\ raw.paths \in Seq(Seq(STRING))
    /\ IsSequence(raw.pick)
    /\ \A k \in DOMAIN raw.pick : raw.pick[k].paths \in Seq(Seq(STRING))
    /\ IsSequence(raw.infer)
    /\ \A k \in DOMAIN raw.infer :
           AreConditions(raw.infer[k].any) /\ AreConditions(raw.infer[k].all)
    /\ IsSequence(raw.exclude_keys) /\ IsSequence(raw.elevate_keys)
    /\ \A d \in raw.default : WellFormed(d)
    /\ \A w \in DOMAIN raw.value_map : WellFormed(raw.value_map[w])

Present(tokens) == tokens # <<>>

ConditionPaths(rule) == rule.any \o rule.all

NeedsComparison == {"greater_than", "less_than", "equals", "not_equals", "in"}
Predicates == NeedsComparison \cup
    {"exists", "not_exists", "not_zero", "is_zero", "not_empty", "is_empty",
     "is_string", "is_number", "is_list", "is_map"}

ConditionAccepted(condition) ==
    /\ ParsesPath(condition.path)
    /\ condition.predicate \in Predicates
    /\ condition.predicate \in NeedsComparison => condition.comparison # {}

\* A source that a stronger one hides is not even parsed.
PathsAccepted(raw) ==
    /\ raw.from_output = "" => \A p \in ToSet(raw.paths) : ParsesPath(p)
    /\ raw.from_output = "" /\ raw.paths = <<>> /\ Present(raw.path) => ParsesPath(raw.path)
    /\ \A entry \in ToSet(raw.pick) : \A p \in ToSet(entry.paths) : ParsesPath(p)

FiltersAccepted(filters) ==
    filters.len_eq \cup filters.len_gt \cup filters.len_gte \cup filters.len_lt
        \cup filters.len_lte \subseteq Nat

\* The defaults "{}" and "[]" stand for an empty map and an empty list.
EmptyMapText  == StrTerm(<<"json", <<MapOpen, MapClose>> >>)
EmptyListText == StrTerm(<<"json", <<ListOpen, ListClose>> >>)
SpellsEmpty(d) == d \in {EmptyMapText, EmptyListText}

EnumAccepted(raw) ==
    /\ DOMAIN raw.enum_values # {}
    /\ \A w \in DOMAIN raw.enum_values : raw.enum_values[w] \in (-I8Max - 1)..I8Max
    /\ \A rule \in ToSet(raw.infer) :
           \A condition \in ToSet(ConditionPaths(rule)) : ConditionAccepted(condition)
    /\ \A d \in raw.default : IsStr(d) /\ ~SpellsEmpty(d) =>
           Listed(d, [w \in {lowerOf[x] : x \in DOMAIN raw.enum_values} |-> 0])

FieldAccepted(raw) ==
    /\ raw.type \in FieldTypes
    /\ raw.type \in {"datetime64", "array_datetime64"} => raw.precision \subseteq 0..9
    /\ PathsAccepted(raw)
    /\ raw.transform \in {"none", "upcase", "downcase"}
    /\ raw.pick_mode \in {"replace", "merge"}
    /\ raw.value_type = "string"
    /\ raw.coercion \in {"lenient", "strict"}
    /\ raw.coercion = "strict" => /\ raw.type \in {"uint8", "uint32", "uint64"}
                                  /\ DOMAIN raw.value_map = {}
    /\ \A w \in DOMAIN raw.value_map :
           IF raw.type = "string" THEN IsStr(raw.value_map[w]) ELSE IsI64(raw.value_map[w])
    /\ raw.type = "enum8" => EnumAccepted(raw)
    /\ FiltersAccepted(raw.filters)

\* value_map and enum_values are looked up by lowercased key.  Which of two keys
\* that differ in case only wins is left open, as a map's iteration order is.
Lowercased(map) ==
    [w \in {lowerOf[x] : x \in DOMAIN map} |->
        map[CHOOSE x \in DOMAIN map : lowerOf[x] = w]]

\* decode_default: a configured default as it is kept.
GivenDefault(raw, d) ==
    CASE IsMap(d) \/ d = EmptyMapText   -> MapTerm(NoFields)
      [] IsList(d) \/ d = EmptyListText -> ListTerm(<<>>)
      [] raw.type = "enum8" /\ IsStr(d) /\ ~SpellsEmpty(d) ->
            IntTerm(Lowercased(raw.enum_values)[lowerOf[d[2][2]]])
      [] Tag(d) = "atom" \/ (IsInt(d) /\ ~IsI64(d)) -> Nil
      [] OTHER     -> d

\* Without a configured default, the type's own.
DefaultOf(raw) ==
    IF raw.default # {} THEN GivenDefault(raw, CHOOSE d \in raw.default : TRUE)
    ELSE CASE raw.type = "string"               -> StrTerm(EmptyText)
           [] raw.type \in {"json", "flat_map"} -> MapTerm(NoFields)
           [] raw.type \in ArrayTypes           -> ListTerm(<<>>)
           [] OTHER                             -> Nil

CompilePaths(paths) == [k \in DOMAIN paths |-> CompilePath(paths[k])]

\* from_output, then paths, then path, then the whole document.  earlier is the
\* names of the fields compiled before this one.
PathSource(raw, earlier) ==
    CASE raw.from_output # "" ->
            <<"output", SelectInSeq(earlier, LAMBDA n : n = raw.from_output)>>
      [] raw.from_output = "" /\ raw.paths # <<>> -> <<"paths", CompilePaths(raw.paths)>>
      [] raw.from_output = "" /\ raw.paths = <<>> /\ Present(raw.path) /\ raw.path # <<"$">> ->
            <<"path", <<CompilePath(raw.path)>> >>
      [] OTHER -> <<"root">>

CompileConditions(conditions) ==
    [k \in DOMAIN conditions |->
        [path |-> CompilePath(conditions[k].path), predicate |-> conditions[k].predicate,
         comparison |-> conditions[k].comparison]]

CompileField(raw, earlier) ==
    [name    |-> raw.name,
     type    |-> raw.type,
     precision |-> IF raw.precision = {} THEN 9 ELSE CHOOSE n \in raw.precision : TRUE,
     source  |-> PathSource(raw, earlier),
     default |-> DefaultOf(raw),
     transform |-> raw.transform,
     allowed_values |-> raw.allowed_values,
     value_map |-> Lowercased(raw.value_map),
     exclude_keys |-> raw.exclude_keys,
     elevate_keys |-> raw.elevate_keys,
     pick |-> [k \in DOMAIN raw.pick |->
                  [key |-> raw.pick[k].key, paths |-> CompilePaths(raw.pick[k].paths)]],
     pick_merge |-> raw.pick_mode = "merge",
     options |-> [skip_empty_strings |-> raw.type = "string",
                  string_filters |-> raw.filters,
                  strict_uint |-> raw.coercion = "strict"],
     enum_values |-> Lowercased(raw.enum_values),
     infer |-> IF raw.type = "enum8"
               THEN [k \in DOMAIN raw.infer |->
                        [any |-> CompileConditions(raw.infer[k].any),
                         all |-> CompileConditions(raw.infer[k].all),
                         result |-> lowerOf[raw.infer[k].result]]]
               ELSE <<>>,
     filter_nil |-> raw.filter_nil]
-----------------------------------------------------------------------------
(* decode_fields: names are unique, from_output names an earlier field.        *)

Names(raws) == [k \in DOMAIN raws |-> raws[k].name]
EarlierNames(raws, k) == SubSeq(Names(raws), 1, k - 1)

FieldsAccepted(raws) ==
    \A k \in DOMAIN raws :
        /\ FieldAccepted(raws[k])
        /\ raws[k].name \notin ToSet(EarlierNames(raws, k))
        /\ raws[k].from_output # "" => raws[k].from_output \in ToSet(EarlierNames(raws, k))

CompileFields(raws) ==
    [k \in DOMAIN raws |-> CompileField(raws[k], EarlierNames(raws, k))]
-----------------------------------------------------------------------------
(* assign_path_cache_indices: one slot per prefix that several paths share,    *)
(* and, when enough paths start at a root key, one per root key.               *)

\* visit_paths: the paths of a field in the order they are visited.
RulePaths(rule) ==
    LET conditions == ConditionPaths(rule) IN
    [k \in DOMAIN conditions |-> conditions[k].path]

FieldPaths(field) ==
    (IF field.source[1] \in {"path", "paths"} THEN field.source[2] ELSE <<>>)
        \o FlattenSeq([k \in DOMAIN field.pick |-> field.pick[k].paths])
        \o FlattenSeq([k \in DOMAIN field.infer |-> RulePaths(field.infer[k])])

AllPaths(fields) == FlattenSeq([k \in DOMAIN fields |-> FieldPaths(fields[k])])

\* Mutant: prefixes past a wildcard are cached as well.
CacheablePrefixesAll(path) ==
    [k \in DOMAIN path.segments |-> SubSeq(path.segments, 1, k)]

\* Prefixes are cached up to the first wildcard: past it a segment has one
\* value per list element.
CacheablePrefixes(path) ==
    [k \in 1..(IF path.wildcard = 0 THEN Len(path.segments) ELSE path.wildcard - 1) |->
        SubSeq(path.segments, 1, k)]

References(paths, prefix) ==
    Cardinality({j \in DOMAIN paths : prefix \in ToSet(CacheablePrefixes(paths[j]))})

RootPrefixes(paths) ==
    {prefix \in UNION {ToSet(CacheablePrefixes(paths[j])) : j \in DOMAIN paths} :
        Len(prefix) = 1 /\ IsKey(prefix[1])}

PreloadsRoot(paths) ==
    MinRootReferences <=
        FoldSet(LAMBDA prefix, n : n + References(paths, prefix), 0, RootPrefixes(paths))

\* The slots in order: the preloaded root keys, in the arbitrary order of a
\* HashMap's keys, then every other shared prefix as it is first visited.
AssignSlots(paths, roots) ==
    FoldLeft(LAMBDA slots, prefix :
                 IF Contains(slots, prefix) \/ References(paths, prefix) <= 1
                 THEN slots ELSE Append(slots, prefix),
             roots,
             FlattenSeq([j \in DOMAIN paths |-> CacheablePrefixes(paths[j])]))

\* The orders the root slots may be given.
RootOrders(paths) ==
    IF PreloadsRoot(paths) THEN SetToSeqs(RootPrefixes(paths)) ELSE {<<>>}

\* assign_cached_prefixes: a path gets the slot of each of its prefixes, 0 for none.
SlotOf(prefix, slots) == SelectInSeq(slots, LAMBDA p : p = prefix)
CacheIndices(path, prefixes, slots) ==
    [k \in DOMAIN path.segments |->
        IF k \in DOMAIN prefixes THEN SlotOf(prefixes[k], slots) ELSE 0]
Cached(path, slots) ==
    [path EXCEPT !.cache_indices = CacheIndices(path, CacheablePrefixes(path), slots)]

\* visit_paths_mut: every path of a field, where visit_paths counted them.
CachedPaths(paths, slots) == [k \in DOMAIN paths |-> Cached(paths[k], slots)]
CachedConditions(conditions, slots) ==
    [k \in DOMAIN conditions |-> [conditions[k] EXCEPT !.path = Cached(@, slots)]]
CachedPick(entry, slots) == [entry EXCEPT !.paths = CachedPaths(@, slots)]
CachedPicks(pick, slots) == [k \in DOMAIN pick |-> CachedPick(pick[k], slots)]
CachedRule(rule, slots) ==
    [rule EXCEPT !.any = CachedConditions(@, slots), !.all = CachedConditions(@, slots)]
CachedRules(rules, slots) == [k \in DOMAIN rules |-> CachedRule(rules[k], slots)]
CachedField(field, slots) ==
    [field EXCEPT
        !.source = IF @[1] \in {"path", "paths"} THEN <<@[1], CachedPaths(@[2], slots)>> ELSE @,
        !.pick = CachedPicks(@, slots),
        !.infer = CachedRules(@, slots)]
=============================================================================
