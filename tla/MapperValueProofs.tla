-------------------------- MODULE MapperValueProofs --------------------------
(***************************************************************************)
(* What the mapper's values are, for any terms, documents, configurations  *)
(* and orders of the root slots: an array coerced while its wildcard fans  *)
(* out is the array of the general path, and the arrays of one nested      *)
(* column are as long as the list they fan out from.                       *)
(*                                                                         *)
(* Both speak of the value mapped last.  The path cache is out of the way  *)
(* since it never shows (CacheNeverShows): a value is what its field, as   *)
(* compiled, maps to without slots (MappedField).  What is left is what    *)
(* compiling leaves a field with (FieldIsSettled: defaults are scalars or  *)
(* empty containers, a fan-out has no options), and what a list gives      *)
(* element by element (CoercedUpTo).                                       *)
(*                                                                         *)
(* The last sections prepare MapperEncodeProofs: what paths, entries and   *)
(* maps of strings give of sound terms is sound again.                     *)
(***************************************************************************)
EXTENDS MapperCacheProofs

\* The mapping in use is one the compiler made, and there is none only while idle.
MappingInUse ==
    \/ phase = "idle" /\ mapping = NoMapping
    \/ /\ phase \in {"ready", "mapping", "writing"}
       /\ mapping.config \in DOMAIN Mappings
       /\ mapping \in Mappings[mapping.config]

\* A mapping carries the name of its configuration, which is accepted.
LEMMA MappingConfig ==
    ASSUME NEW c \in DOMAIN Mappings, NEW m \in Mappings[c]
    PROVE  m.config = c /\ c \in Configs /\ Accepted(c)
<1>1. c \in {d \in Configs : Accepted(d)}
      /\ Mappings[c] = MappingsOf(c, Compiled[c], AllPaths(Compiled[c]))
  BY DEF Mappings
<1>2. PICK slots, roots : m = Mapping(c, RawConfig[c], Compiled[c], slots, roots)
  BY <1>1 DEF MappingsOf
<1> QED BY <1>1, <1>2 DEF Mapping

\* Every step keeps it so.
LEMMA MappingStep ==
    ASSUME MappingInUse, [Next]_vars
    PROVE  MappingInUse'
<1>1. ASSUME NEW c \in Configs, Compile(c) PROVE MappingInUse'
  <2>1. phase' = "ready" /\ c \in DOMAIN Mappings /\ mapping' \in Mappings[c]
    BY <1>1 DEF Compile
  <2>2. mapping'.config = c
    BY <2>1, MappingConfig
  <2>3. Mappings' = Mappings
    BY DEF Mappings, MappingsOf, Mapping, Accepted, Compiled, Configs
  <2> QED BY <2>1, <2>2, <2>3 DEF MappingInUse
<1>2. ASSUME NEW c \in Configs, RejectConfig(c) PROVE MappingInUse'
  <2>1. NoMapping' = NoMapping
    BY DEF NoMapping
  <2> QED BY <1>2, <2>1 DEF RejectConfig, MappingInUse
<1>3. ASSUME mapping' = mapping, phase # "idle", phase' \in {"ready", "mapping", "writing"}
      PROVE  MappingInUse'
  BY <1>3 DEF MappingInUse
<1>4. ASSUME NEW d, NEW flat, NEW e, StartCall(d, flat, e) PROVE MappingInUse'
  BY <1>3, <1>4 DEF StartCall
<1>5. CASE RefuseCall
  BY <1>3, <1>5 DEF RefuseCall
<1>6. CASE MapNextField
  BY <1>3, <1>6 DEF MapNextField, FieldsLeft
<1>7. CASE ReturnMap
  BY <1>3, <1>7 DEF ReturnMap, AllMapped, Answer
<1>8. CASE ReturnNdjson
  BY <1>3, <1>8 DEF ReturnNdjson, AllMapped, Answer
<1>9. CASE StartRow
  BY <1>3, <1>9 DEF StartRow, AllMapped
<1>10. CASE WriteCell
  BY <1>3, <1>10 DEF WriteCell, Writing
<1>11. CASE FailRow
  BY <1>3, <1>11 DEF FailRow, Writing, Answer
<1>12. CASE FinishRow
  BY <1>3, <1>12 DEF FinishRow, Answer
<1>13. CASE RaiseInField
  BY <1>3, <1>13 DEF RaiseInField, FieldsLeft, Answer
<1>14. CASE UNCHANGED vars
  BY <1>14 DEF vars, MappingInUse
<1> QED BY <1>1, <1>2, <1>4, <1>5, <1>6, <1>7, <1>8, <1>9, <1>10, <1>11, <1>12, <1>13, <1>14 DEF Next
-----------------------------------------------------------------------------
(* The fan-out of a wildcard.                                                  *)

\* A sequence without its first w elements.
LEMMA SuffixOf ==
    ASSUME NEW s, IsSequence(s), NEW w \in 0..Len(s)
    PROVE  LET t == SubSeq(s, w + 1, Len(s)) IN
           /\ IsSequence(t) /\ Len(t) = Len(s) - w
           /\ \A k \in 1..(Len(s) - w) : t[k] = s[w + k]
<1>0. Len(s) \in Nat /\ s \in Seq(ToSet(s))
  BY SequenceElim DEF IsSequence
<1> DEFINE t == SubSeq(s, w + 1, Len(s))
<1>1. PICK X : X = ToSet(s)
  OBVIOUS
<1>2. s \in Seq(X)
  BY <1>0, <1>1
<1>3. /\ t \in Seq(X) /\ Len(t) = Len(s) - w
      /\ \A k \in 1..(Len(s) - w) : t[k] = s[w + k]
  BY <1>0, <1>2
<1> HIDE DEF t
<1>4. IsSequence(t)
  BY <1>3, SequenceIntro
<1> QED BY <1>3, <1>4 DEF t

\* The end of a walk is the walk of the segments that end the path.
LEMMA SuffixWalk ==
    ASSUME NEW segments, IsSequence(segments), NEW w \in 0..Len(segments),
           NEW u, IsWalk(u, segments),
           NEW v, IsWalk(v, SubSeq(segments, w + 1, Len(segments)))
    PROVE  v[1] = u[w + 1]
<1>1. PICK n, l, t : n = Len(segments) /\ l = n - w /\ t = SubSeq(segments, w + 1, n)
  OBVIOUS
<1>2. /\ n \in Nat /\ w \in Nat /\ l \in Nat /\ Len(t) = l
      /\ \A k \in 1..l : t[k] = segments[w + k]
  BY <1>1, SequenceElim, SuffixOf
<1>3. v[l + 1] = u[n + 1]
  BY <1>1, <1>2 DEF IsWalk
<1>4. \A k \in 1..l : v[k] = Along(segments[w + k], v[k + 1])
  BY <1>1, <1>2 DEF IsWalk
<1>5. \A k \in 1..n : u[k] = Along(segments[k], u[k + 1])
  BY <1>1 DEF IsWalk
<1> DEFINE good == {m \in Nat : m <= l => v[l + 1 - m] = u[n + 1 - m]}
<1>6. 0 \in good
  BY <1>2, <1>3
<1>7. ASSUME NEW m \in Nat, m \in good PROVE m + 1 \in good
  <2> SUFFICES ASSUME m + 1 <= l PROVE v[l + 1 - (m + 1)] = u[n + 1 - (m + 1)]
    OBVIOUS
  <2>1. PICK i, j : i = l - m /\ j = n - m
    OBVIOUS
  <2>2. /\ i \in 1..l /\ j \in 1..n /\ j = w + i
        /\ l + 1 - m = i + 1 /\ n + 1 - m = j + 1
        /\ l + 1 - (m + 1) = i /\ n + 1 - (m + 1) = j
    BY <1>1, <1>2, <2>1
  <2>3. v[i + 1] = u[j + 1]
    BY <1>2, <1>7, <2>2
  <2>4. v[i] = Along(segments[w + i], v[i + 1]) /\ u[j] = Along(segments[j], u[j + 1])
    BY <1>4, <1>5, <2>2
  <2> QED BY <2>2, <2>3, <2>4
<1>8. l \in good
  <2> HIDE DEF good
  <2> QED BY <1>2, <1>6, <1>7, Parsing!NatInduct
<1>9. l + 1 - l = 1 /\ n + 1 - l = w + 1
  BY <1>1, <1>2
<1> QED BY <1>8, <1>9

\* What a path with a wildcard gives is, element by element, what the segments
\* after the wildcard give for the list in front of it.
LEMMA WildcardValue ==
    ASSUME NEW segments, AreSegments(segments), NEW w \in 1..Len(segments),
           segments[w] = Wildcard, NoWildcard(segments, w - 1), NEW term \in Terms
    PROVE  LET list == EvaluateUncached(term, SubSeq(segments, 1, w - 1)) IN
           /\ list \in Terms
           /\ EvaluateUncached(term, segments) =
                 IF IsList(list)
                 THEN ListTerm(Elements(list[2], SubSeq(segments, w + 1, Len(segments)))) ELSE Nil
<1>0. IsSequence(segments) /\ Len(segments) \in Nat /\ w - 1 \in 0..Len(segments) /\ w \in 0..Len(segments)
      /\ w - 1 + 1 = w /\ w - 1 \in Nat
  BY SequenceElim DEF AreSegments
<1>1. PICK c : IsDescent(c, term, segments, w - 1)
  BY <1>0, DescentOf
<1>2. PICK u : IsWalk(u, segments) /\ \A t : EvaluateUncached(t, segments) = u[1][t]
  BY <1>0, WalkOf
<1>3. PICK rest : rest = SubSeq(segments, w + 1, Len(segments))
  OBVIOUS
<1>4. PICK v : IsWalk(v, rest) /\ \A t : EvaluateUncached(t, rest) = v[1][t]
  <2>1. IsSequence(rest)
    BY <1>0, <1>3, SuffixOf
  <2> QED BY <2>1, WalkOf
<1>5. PICK list : list = EvaluateUncached(term, SubSeq(segments, 1, w - 1))
  OBVIOUS
<1>6. list = c[w - 1] /\ list \in Terms
  <2>1. list = c[w - 1]
    BY <1>0, <1>1, <1>5, PrefixValue
  <2>2. c[w - 1] \in Terms
    BY <1>0, <1>1, DescentTerms
  <2> QED BY <2>1, <2>2
<1>7. u[1][term] = u[w][list]
  <2>1. u[1][term] = u[w - 1 + 1][c[w - 1]]
    BY <1>0, <1>1, <1>2, WalkAlongDescent
  <2> QED BY <1>0, <1>6, <2>1
<1>8. u[w] = Along(Wildcard, u[w + 1])
  BY <1>2 DEF IsWalk
<1>9. u[w + 1] = v[1]
  BY <1>0, <1>2, <1>3, <1>4, SuffixWalk
<1>10. Along(Wildcard, v[1])[list] =
          IF IsList(list) THEN ListTerm([k \in DOMAIN list[2] |-> v[1][list[2][k]]]) ELSE Nil
  BY <1>6, Zenon DEF Along
<1>11. [k \in DOMAIN list[2] |-> v[1][list[2][k]]] = Elements(list[2], rest)
  BY <1>4, Zenon DEF Elements
<1> QED BY <1>2, <1>3, <1>5, <1>6, <1>7, <1>8, <1>9, <1>10, <1>11
-----------------------------------------------------------------------------
(* The plain parts of a compiled field.                                        *)

\* What a configuration may say of a field, once it is compiled: a default or a
\* mapped value is a scalar or empty, and only the types that have one may be
\* strict or skip empty strings.
IsPlain(v) ==
    /\ WellFormed(v)
    /\ IsList(v) => v = ListTerm(<<>>)
    /\ IsMap(v) => v = MapTerm(NoFields)
Settled(f) ==
    /\ f.type \in FieldTypes
    /\ f.type \in {"datetime64", "array_datetime64"} => f.precision \in 0..9
    /\ IsPlain(f.default) /\ IsSequence(f.elevate_keys)
    /\ \A w \in DOMAIN f.value_map : IsPlain(f.value_map[w])
    /\ f.options.skip_empty_strings => f.type = "string"
    /\ f.options.strict_uint => f.type \in {"uint8", "uint32", "uint64"}
    /\ f.type = "enum8" =>
           \A w \in DOMAIN f.enum_values : f.enum_values[w] \in (-I8Max - 1)..I8Max

\* A lowercased map has the values of the map.
LEMMA LowercasedValues ==
    ASSUME NEW map
    PROVE  /\ \A w \in DOMAIN Lowercased(map) : \E x \in DOMAIN map : Lowercased(map)[w] = map[x]
           /\ DOMAIN Lowercased(map) = {lowerOf[x] : x \in DOMAIN map}
<1>1. DOMAIN Lowercased(map) = {lowerOf[x] : x \in DOMAIN map}
  BY DEF Lowercased
<1>2. ASSUME NEW w \in DOMAIN Lowercased(map)
      PROVE  \E x \in DOMAIN map : Lowercased(map)[w] = map[x]
  <2>1. PICK y : y = CHOOSE x \in DOMAIN map : lowerOf[x] = w
    OBVIOUS
  <2>2. y \in DOMAIN map
    BY <1>1, <1>2, <2>1
  <2>3. Lowercased(map)[w] = map[y]
    BY <1>1, <1>2, <2>1, Zenon DEF Lowercased
  <2> QED BY <2>2, <2>3
<1> QED BY <1>1, <1>2

\* Scalars, and the empty containers, are plain.
LEMMA PlainTerms ==
    /\ IsPlain(Nil) /\ IsPlain(StrTerm(EmptyText))
    /\ IsPlain(ListTerm(<<>>)) /\ IsPlain(MapTerm(NoFields))
    /\ \A n \in Int : IsPlain(IntTerm(n))
    /\ \A v : WellFormed(v) /\ ~IsList(v) /\ ~IsMap(v) => IsPlain(v)
<1>1. WellFormed(Nil) /\ ~IsList(Nil) /\ ~IsMap(Nil)
  BY NilTerm DEF WellFormed
<1>2. WellFormed(StrTerm(EmptyText)) /\ ~IsList(StrTerm(EmptyText)) /\ ~IsMap(StrTerm(EmptyText))
  BY DEF WellFormed, WellFormedText, StrTerm, EmptyText, IsStr, IsList, IsMap, Tag
<1>3. WellFormed(ListTerm(<<>>)) /\ ~IsMap(ListTerm(<<>>))
  BY DEF WellFormed, ListTerm, IsList, IsMap, Tag
<1>4. WellFormed(MapTerm(NoFields)) /\ ~IsList(MapTerm(NoFields))
  BY DEF WellFormed, MapTerm, IsList, IsMap, Tag
<1>5. ASSUME NEW n \in Int PROVE WellFormed(IntTerm(n)) /\ ~IsList(IntTerm(n)) /\ ~IsMap(IntTerm(n))
  BY DEF WellFormed, IntTerm, IsInt, IsList, IsMap, Tag
<1> QED BY <1>1, <1>2, <1>3, <1>4, <1>5 DEF IsPlain

\* A default is plain, whatever the configuration gives.
LEMMA DefaultIsPlain ==
    ASSUME NEW raw, IsRawField(raw), FieldAccepted(raw)
    PROVE  IsPlain(DefaultOf(raw))
<1>1. CASE raw.default # {}
  <2>1. PICK d : d = CHOOSE t \in raw.default : TRUE
    OBVIOUS
  <2>2. d \in raw.default /\ WellFormed(d)
    BY <1>1, <2>1 DEF IsRawField
  <2>3. PICK default : default = GivenDefault(raw, d)
    OBVIOUS
  <2>4. DefaultOf(raw) = default
    BY <1>1, <2>1, <2>3 DEF DefaultOf
  <2>5. /\ IsStr(EmptyMapText) /\ IsStr(EmptyListText) /\ EmptyMapText # EmptyListText
        /\ IsStr(d) => ~IsMap(d) /\ ~IsList(d) /\ ~IsInt(d) /\ Tag(d) # "atom"
        /\ IsMap(d) => ~IsList(d) /\ ~IsStr(d) /\ ~IsInt(d) /\ Tag(d) # "atom"
        /\ IsList(d) => ~IsMap(d) /\ ~IsStr(d) /\ ~IsInt(d) /\ Tag(d) # "atom"
    BY DEF EmptyMapText, EmptyListText, StrTerm, IsStr, IsMap, IsList, IsInt, Tag,
           MapOpen, MapClose, ListOpen, ListClose
  <2>6. CASE IsMap(d) \/ d = EmptyMapText
    <3>1. default = MapTerm(NoFields)
      BY <2>3, <2>5, <2>6, Zenon DEF GivenDefault, SpellsEmpty
    <3> QED BY <2>4, <3>1, PlainTerms
  <2>7. CASE IsList(d) \/ d = EmptyListText
    <3>1. default = ListTerm(<<>>)
      BY <2>3, <2>5, <2>7, Zenon DEF GivenDefault, SpellsEmpty
    <3> QED BY <2>4, <3>1, PlainTerms
  <2>8. CASE raw.type = "enum8" /\ IsStr(d) /\ ~SpellsEmpty(d)
    <3>1. default = IntTerm(Lowercased(raw.enum_values)[lowerOf[d[2][2]]])
      BY <2>3, <2>5, <2>8, Zenon DEF GivenDefault, SpellsEmpty
    <3>2. lowerOf[d[2][2]] \in DOMAIN Lowercased(raw.enum_values)
      <4>1. Listed(d, [w \in {lowerOf[x] : x \in DOMAIN raw.enum_values} |-> 0])
        BY <2>2, <2>8 DEF FieldAccepted, EnumAccepted
      <4> QED BY <4>1, LowercasedValues DEF Listed
    <3>3. PICK x \in DOMAIN raw.enum_values :
              Lowercased(raw.enum_values)[lowerOf[d[2][2]]] = raw.enum_values[x]
      <4>1. PICK map : map = raw.enum_values
        OBVIOUS
      <4>2. PICK w : w = lowerOf[d[2][2]]
        OBVIOUS
      <4>3. w \in DOMAIN Lowercased(map)
        BY <3>2, <4>1, <4>2
      <4>4. PICK x \in DOMAIN map : Lowercased(map)[w] = map[x]
        BY <4>3, LowercasedValues
      <4> QED BY <4>1, <4>2, <4>4
    <3>4. raw.enum_values[x] \in (-I8Max - 1)..I8Max
      BY <2>8 DEF FieldAccepted, EnumAccepted
    <3>5. raw.enum_values[x] \in Int
      BY <3>4, WidthAssumption
    <3> QED BY <2>4, <3>1, <3>3, <3>5, PlainTerms
  <2>9. CASE Tag(d) = "atom" \/ (IsInt(d) /\ ~IsI64(d))
    <3>1. default = Nil
      BY <2>3, <2>5, <2>9, Zenon DEF GivenDefault, SpellsEmpty
    <3> QED BY <2>4, <3>1, PlainTerms
  <2>10. CASE ~(\/ IsMap(d) \/ d = EmptyMapText \/ IsList(d) \/ d = EmptyListText
                \/ raw.type = "enum8" /\ IsStr(d) /\ ~SpellsEmpty(d)
                \/ Tag(d) = "atom" \/ (IsInt(d) /\ ~IsI64(d)))
    <3>1. default = d
      BY <2>3, <2>10, Zenon DEF GivenDefault
    <3> QED BY <2>2, <2>4, <2>10, <3>1, PlainTerms
  <2> QED BY <2>6, <2>7, <2>8, <2>9, <2>10
<1>2. CASE raw.default = {}
  <2>1. DefaultOf(raw) \in {StrTerm(EmptyText), MapTerm(NoFields), ListTerm(<<>>), Nil}
    <3>1. CASE raw.type = "string"
      <4>1. raw.type \notin {"json", "flat_map"} /\ raw.type \notin ArrayTypes
        BY <3>1 DEF ArrayTypes
      <4> QED BY <1>2, <3>1, <4>1, Zenon DEF DefaultOf
    <3>2. CASE raw.type \in {"json", "flat_map"}
      <4>1. raw.type # "string" /\ raw.type \notin ArrayTypes
        BY <3>2 DEF ArrayTypes
      <4> QED BY <1>2, <3>2, <4>1, Zenon DEF DefaultOf
    <3>3. CASE raw.type \in ArrayTypes
      <4>1. raw.type # "string" /\ raw.type \notin {"json", "flat_map"}
        BY <3>3 DEF ArrayTypes
      <4> QED BY <1>2, <3>3, <4>1, Zenon DEF DefaultOf
    <3>4. CASE raw.type # "string" /\ raw.type \notin {"json", "flat_map"} /\ raw.type \notin ArrayTypes
      BY <1>2, <3>4, Zenon DEF DefaultOf
    <3> QED BY <3>1, <3>2, <3>3, <3>4
  <2> QED BY <2>1, PlainTerms
<1> QED BY <1>1, <1>2

\* An accepted field is settled.
LEMMA FieldIsSettled ==
    ASSUME NEW raw, IsRawField(raw), FieldAccepted(raw), NEW earlier
    PROVE  Settled(CompileField(raw, earlier))
<1>1. PICK f : f = CompileField(raw, earlier)
  OBVIOUS
<1>2. /\ f.type = raw.type /\ f.default = DefaultOf(raw)
      /\ f.value_map = Lowercased(raw.value_map) /\ f.enum_values = Lowercased(raw.enum_values)
  BY <1>1 DEF CompileField
<1>3. f.options = [skip_empty_strings |-> raw.type = "string", string_filters |-> raw.filters,
                   strict_uint |-> raw.coercion = "strict"]
  BY <1>1 DEF CompileField
<1>4. f.precision = IF raw.precision = {} THEN 9 ELSE CHOOSE n \in raw.precision : TRUE
  BY <1>1 DEF CompileField
<1>5. f.type \in FieldTypes
  BY <1>2 DEF FieldAccepted
<1>6. f.type \in {"datetime64", "array_datetime64"} => f.precision \in 0..9
  BY <1>2, <1>4 DEF FieldAccepted
<1>7. IsPlain(f.default) /\ IsSequence(f.elevate_keys)
  <2>1. f.elevate_keys = raw.elevate_keys
    BY <1>1 DEF CompileField
  <2> QED BY <1>2, <2>1, DefaultIsPlain DEF IsRawField
<1>8. ASSUME NEW w \in DOMAIN f.value_map PROVE IsPlain(f.value_map[w])
  <2>1. PICK x \in DOMAIN raw.value_map : f.value_map[w] = raw.value_map[x]
    <3>1. PICK map : map = raw.value_map
      OBVIOUS
    <3>2. w \in DOMAIN Lowercased(map) /\ f.value_map = Lowercased(map)
      BY <1>2, <1>8, <3>1
    <3>3. PICK x \in DOMAIN map : Lowercased(map)[w] = map[x]
      BY <3>2, LowercasedValues
    <3> QED BY <3>1, <3>2, <3>3
  <2>2. WellFormed(raw.value_map[x]) /\ (IsStr(raw.value_map[x]) \/ IsI64(raw.value_map[x]))
    BY <2>1 DEF IsRawField, FieldAccepted
  <2>3. ~IsList(raw.value_map[x]) /\ ~IsMap(raw.value_map[x])
    BY <2>2 DEF IsStr, IsI64, IsInt, IsList, IsMap, Tag
  <2> QED BY <2>1, <2>2, <2>3, PlainTerms
<1>9. f.options.skip_empty_strings => f.type = "string"
  <2>1. f.options.skip_empty_strings = (raw.type = "string")
    BY <1>3
  <2> QED BY <1>2, <2>1, Zenon
<1>10. f.options.strict_uint => f.type \in {"uint8", "uint32", "uint64"}
  <2>1. f.options.strict_uint = (raw.coercion = "strict")
    BY <1>3
  <2>2. raw.coercion = "strict" => raw.type \in {"uint8", "uint32", "uint64"}
    BY DEF FieldAccepted
  <2> QED BY <1>2, <2>1, <2>2, Zenon
<1>11. ASSUME f.type = "enum8", NEW w \in DOMAIN f.enum_values
       PROVE  f.enum_values[w] \in (-I8Max - 1)..I8Max
  <2>1. PICK x \in DOMAIN raw.enum_values : f.enum_values[w] = raw.enum_values[x]
    <3>1. PICK map : map = raw.enum_values
      OBVIOUS
    <3>2. w \in DOMAIN Lowercased(map) /\ f.enum_values = Lowercased(map)
      BY <1>2, <1>11, <3>1
    <3>3. PICK x \in DOMAIN map : Lowercased(map)[w] = map[x]
      BY <3>2, LowercasedValues
    <3> QED BY <3>1, <3>2, <3>3
  <2> QED BY <1>2, <1>11, <2>1 DEF FieldAccepted, EnumAccepted
<1>12. Settled(f)
  BY <1>5, <1>6, <1>7, <1>8, <1>9, <1>10, <1>11 DEF Settled
<1> QED BY <1>1, <1>12
-----------------------------------------------------------------------------
(* The field that is mapped.                                                   *)

\* A field that takes the output of another takes that of an earlier one.
TakesEarlier(f, k) == f.source[1] = "output" => f.source[2] \in 1..(k - 1)

\* In a mapping the compiler accepts, every from_output names an earlier field.
LEMMA EarlierOutput ==
    ASSUME NEW raws, IsSequence(raws), FieldsAccepted(raws), NEW k \in 1..Len(raws)
    PROVE  TakesEarlier(CompileField(raws[k], EarlierNames(raws, k)), k)
<1>0. Len(raws) \in Nat /\ DOMAIN raws = 1..Len(raws) /\ k - 1 \in 0..Len(raws)
  BY SequenceElim
<1>1. PICK names : names = Names(raws) /\ IsSequence(names) /\ Len(names) = Len(raws)
  <2>1. PICK names : names = [j \in DOMAIN raws |-> raws[j].name]
    OBVIOUS
  <2>2. names = [j \in 1..Len(raws) |-> names[j]]
    BY <1>0, <2>1
  <2>3. IsSequence(names) /\ Len(names) = Len(raws)
    BY <1>0, <2>2, SequenceOf
  <2> QED BY <2>1, <2>3 DEF Names
<1>2. PICK earlier : earlier = SubSeq(names, 1, k - 1)
  OBVIOUS
<1>3. IsSequence(earlier) /\ Len(earlier) = k - 1
  BY <1>0, <1>1, <1>2, PrefixOf
<1>4. PICK raw, source : raw = raws[k] /\ source = PathSource(raw, earlier)
  OBVIOUS
<1>5. CompileField(raws[k], EarlierNames(raws, k)).source = source
  BY <1>1, <1>2, <1>4 DEF CompileField, EarlierNames
<1>6. CASE raw.from_output # ""
  <2>1. source = <<"output", SelectInSeq(earlier, LAMBDA n : n = raw.from_output)>>
    BY <1>4, <1>6, Zenon DEF PathSource
  <2>2. PICK x, s : x = SlotOf(raw.from_output, earlier) /\ s = source[2] /\ s = x
    BY <2>1, Zenon DEF SlotOf
  <2>3. raw.from_output \in ToSet(earlier)
    BY <1>0, <1>1, <1>2, <1>4, <1>6 DEF FieldsAccepted, EarlierNames
  <2>4. PICK j \in 1..Len(earlier) : earlier[j] = raw.from_output
    BY <1>3, <2>3, SequenceElim DEF ToSet
  <2>5. x \in 0..Len(earlier) /\ x # 0
    BY <1>3, <2>2, <2>4, SlotOfPlace
  <2> QED BY <1>0, <1>3, <1>5, <2>2, <2>5 DEF TakesEarlier
<1>7. CASE raw.from_output = "" /\ raw.paths # <<>>
  <2>1. source = <<"paths", CompilePaths(raw.paths)>>
    BY <1>4, <1>7, Zenon DEF PathSource
  <2> QED BY <1>5, <2>1 DEF TakesEarlier
<1>8. CASE raw.from_output = "" /\ raw.paths = <<>> /\ Present(raw.path) /\ raw.path # <<"$">>
  <2>1. source = <<"path", <<CompilePath(raw.path)>> >>
    BY <1>4, <1>8, Zenon DEF PathSource
  <2> QED BY <1>5, <2>1 DEF TakesEarlier
<1>9. CASE raw.from_output = "" /\ raw.paths = <<>> /\ ~(Present(raw.path) /\ raw.path # <<"$">>)
  <2>1. source = <<"root">>
    BY <1>4, <1>9, Zenon DEF PathSource
  <2> QED BY <1>5, <2>1 DEF TakesEarlier
<1> QED BY <1>6, <1>7, <1>8, <1>9

\* The fields of the mapping in use, as the compiler made them and with the slots.
LEMMA FieldsInUse ==
    ASSUME NEW m, m.config \in DOMAIN Mappings, m \in Mappings[m.config]
    PROVE  /\ IsSequence(Compiled[m.config]) /\ DOMAIN m.fields = 1..Len(Compiled[m.config])
           /\ Len(m.fields) = Len(Compiled[m.config]) /\ Len(m.fields) \in Nat
           /\ \A k \in 1..Len(m.fields) :
                 /\ IsField(Compiled[m.config][k]) /\ Settled(Compiled[m.config][k])
                 /\ TakesEarlier(Compiled[m.config][k], k)
                 /\ SameField(m.fields[k], Compiled[m.config][k], m.slots)
<1>1. PICK c : c = m.config /\ c \in Configs /\ Accepted(c)
  BY MappingConfig
<1>2. PICK fs : fs = Compiled[c]
  OBVIOUS
<1>3. IsMapping(m)
  BY MappingsAre
<1>4. /\ AreFields(fs) /\ DOMAIN m.fields = DOMAIN fs
      /\ \A k \in DOMAIN fs : SameField(m.fields[k], fs[k], m.slots)
  BY <1>1, <1>2, <1>3 DEF IsMapping
<1>5. /\ IsSequence(fs) /\ Len(fs) \in Nat /\ DOMAIN fs = 1..Len(fs)
      /\ \A k \in 1..Len(fs) : IsField(fs[k])
  BY <1>4, SequenceElim DEF AreFields
<1>6. Len(m.fields) = Len(fs)
  BY <1>4, <1>5
<1>7. ASSUME NEW k \in 1..Len(fs) PROVE Settled(fs[k]) /\ TakesEarlier(fs[k], k)
  <2>1. PICK raws : raws = RawConfig[c].fields
    OBVIOUS
  <2>2. FieldsAccepted(raws) /\ IsSequence(raws) /\ \A j \in DOMAIN raws : IsRawField(raws[j])
    BY <1>1, <2>1, InputsAssumption DEF Configs, Accepted
  <2>3. fs = CompileFields(raws)
    BY <1>1, <1>2, <2>1, <2>2 DEF Compiled
  <2>4. k \in DOMAIN raws /\ fs[k] = CompileField(raws[k], EarlierNames(raws, k))
    BY <1>5, <1>7, <2>3 DEF CompileFields
  <2>5. PICK raw, earlier : raw = raws[k] /\ earlier = EarlierNames(raws, k)
    OBVIOUS
  <2>6. IsRawField(raw) /\ FieldAccepted(raw) /\ fs[k] = CompileField(raw, earlier)
    BY <2>2, <2>4, <2>5 DEF FieldsAccepted
  <2>7. k \in 1..Len(raws)
    BY <1>5, <1>7, <2>2, <2>4, SequenceElim
  <2> QED BY <2>2, <2>4, <2>6, <2>7, FieldIsSettled, EarlierOutput, Zenon
<1> QED BY <1>1, <1>2, <1>4, <1>5, <1>6, <1>7

\* A call has mapped some of the fields, and all of them once a row is written.
Progress ==
    /\ phase \in {"mapping", "writing"} => IsSequence(values) /\ Len(values) <= Len(fields)
    /\ phase = "writing" => Len(values) = Len(fields)
ProgressInv == MappingInUse /\ Progress

\* The fields are mapped in order, none twice and none past the last
\* (map_values_into).
THEOREM CallsProgress == Spec => []ProgressInv
<1>1. Init => ProgressInv
  BY DEF Init, ProgressInv, Progress, MappingInUse
<1>2. ProgressInv /\ MappingInUse' /\ [Next]_vars => ProgressInv'
  <2> SUFFICES ASSUME ProgressInv, MappingInUse', [Next]_vars PROVE Progress'
    BY DEF ProgressInv
  <2>1. ASSUME phase' \in {"idle", "ready"} PROVE Progress'
    BY <2>1 DEF Progress
  <2>2. ASSUME mapping' = mapping, values' = values, phase' = phase PROVE Progress'
    BY <2>2 DEF ProgressInv, Progress, fields
  <2>3. ASSUME NEW d, NEW flat, NEW e, StartCall(d, flat, e) PROVE Progress'
    <3>1. phase = "ready" /\ mapping' = mapping /\ values' = <<>> /\ phase' = "mapping"
      BY <2>3 DEF StartCall
    <3>2. Len(mapping.fields) \in Nat
      BY <3>1, FieldsInUse DEF ProgressInv, MappingInUse
    <3> QED BY <3>1, <3>2, EmptySequence DEF Progress, fields
  <2>4. CASE MapNextField
    <3>1. phase = "mapping" /\ phase' = phase /\ mapping' = mapping
      BY <2>4 DEF MapNextField, FieldsLeft
    <3>2. PICK v : values' = Append(values, v)
      BY <2>4 DEF MapNextField, Keep
    <3>3. IsSequence(values) /\ Len(values) < Len(mapping.fields)
      BY <2>4, <3>1 DEF MapNextField, FieldsLeft, ProgressInv, Progress, fields
    <3>4. IsSequence(values') /\ Len(values') = Len(values) + 1 /\ Len(values) \in Nat
      BY <3>2, <3>3, AppendSequence, SequenceElim
    <3>5. Len(mapping.fields) \in Nat
      BY <3>1, FieldsInUse DEF ProgressInv, MappingInUse
    <3> QED BY <3>1, <3>3, <3>4, <3>5 DEF Progress, fields
  <2>5. CASE StartRow
    BY <2>5 DEF StartRow, AllMapped, ProgressInv, Progress, fields
  <2>6. CASE WriteCell
    BY <2>2, <2>6 DEF WriteCell
  <2>7. CASE RaiseInField \/ ReturnMap \/ ReturnNdjson \/ FailRow \/ FinishRow
    BY <2>1, <2>7 DEF RaiseInField, ReturnMap, ReturnNdjson, FailRow, FinishRow, Answer
  <2>8. CASE RefuseCall
    BY <2>1, <2>8 DEF RefuseCall
  <2>9. ASSUME NEW c, Compile(c) \/ RejectConfig(c) PROVE Progress'
    BY <2>1, <2>9 DEF Compile, RejectConfig
  <2>10. CASE UNCHANGED vars
    BY <2>2, <2>10 DEF vars
  <2> QED BY <2>3, <2>4, <2>5, <2>6, <2>7, <2>8, <2>9, <2>10 DEF Next
<1>3. ProgressInv /\ [Next]_vars => MappingInUse'
  BY MappingStep DEF ProgressInv
<1>4. ProgressInv /\ [Next]_vars => ProgressInv'
  BY <1>2, <1>3
<1> QED BY <1>1, <1>4, PTL DEF Spec

\* The field that was mapped last, without its slots and with them.
LEMMA MappedField ==
    ASSUME ProgressInv, HasMapped
    PROVE  /\ IsField(UncachedField) /\ Settled(UncachedField)
           /\ TakesEarlier(UncachedField, Len(values))
           /\ SameField(Mapped, UncachedField, mapping.slots)
<1>1. phase = "mapping" /\ values # <<>> /\ IsSequence(values) /\ Len(values) <= Len(mapping.fields)
  BY DEF HasMapped, ProgressInv, Progress, fields
<1>2. mapping.config \in DOMAIN Mappings /\ mapping \in Mappings[mapping.config]
  BY <1>1 DEF ProgressInv, MappingInUse
<1>3. Len(values) \in 1..Len(mapping.fields)
  <2>1. Len(values) \in 1..Len(values)
    BY <1>1, NonEmpty
  <2>2. Len(mapping.fields) \in Nat
    BY <1>2, FieldsInUse
  <2> QED BY <1>1, <2>1, <2>2
<1>4. PICK n : n = Len(values)
  OBVIOUS
<1>5. /\ IsField(Compiled[mapping.config][n]) /\ Settled(Compiled[mapping.config][n])
      /\ TakesEarlier(Compiled[mapping.config][n], n)
      /\ SameField(mapping.fields[n], Compiled[mapping.config][n], mapping.slots)
  BY <1>2, <1>3, <1>4, FieldsInUse
<1> QED BY <1>4, <1>5 DEF UncachedField, Mapped, fields, config
-----------------------------------------------------------------------------
(* Arrays.                                                                     *)

\* A plain default and no default at all coerce to the same array.
LEMMA PlainArray ==
    ASSUME NEW v, IsPlain(v), NEW f
    PROVE  CoerceArray(v, f) = CoerceElements(<<>>, f)
BY DEF IsPlain, CoerceArray, ListTerm

\* Coercing no elements.
LEMMA NoElements ==
    ASSUME NEW f
    PROVE  CoerceElements(<<>>, f) = ListTerm(<<>>)
<1>1. CoerceElements(<<>>, f) = ListTerm(Keeping!Left(f, <<>>, <<>>))
  BY Zenon DEF CoerceElements, Keeping!Left, KeptOp, FoldLeft, Keeping!FoldLeft, MapThenFoldSet,
               Keeping!MapThenFoldSet, Max, Keeping!Max
<1>2. DOMAIN <<>> = 1..0
  OBVIOUS
<1>3. PICK r : Keeping!LeftTrace(r, f, <<>>, <<>>, 0) /\ Keeping!Left(f, <<>>, <<>>) = r[0]
  BY <1>2, Keeping!FoldLeftTrace
<1> QED BY <1>1, <1>3 DEF Keeping!LeftTrace

\* What the fan-out of a wildcard path coerces.
LEMMA FanOutValue ==
    ASSUME NEW document \in Terms, NEW p, IsPath(p), p.wildcard # 0, NEW f
    PROVE  LET list == EvaluateUncached(document, SubSeq(p.segments, 1, p.wildcard - 1)) IN
           /\ list \in Terms
           /\ EvaluateWildcardMapped(document, p, f, <<>>).value
                 = IF IsList(list) THEN CoerceElements(Elements(list[2], AfterWildcard(p)), f)
                   ELSE ListTerm(<<>>)
           /\ EvaluateUncached(document, p.segments)
                 = IF IsList(list) THEN ListTerm(Elements(list[2], AfterWildcard(p))) ELSE Nil
<1>1. PICK s, w : s = p.segments /\ w = p.wildcard
  OBVIOUS
<1>2. /\ AreSegments(s) /\ IsSequence(s) /\ Len(s) \in Nat /\ w \in 1..Len(s)
      /\ s[w] = Wildcard /\ NoWildcard(s, w - 1)
      /\ p.cache_indices = [k \in 1..Len(s) |-> 0]
  BY <1>1, SequenceElim DEF IsPath, AreSegments
<1>3. PICK list, rest : /\ list = EvaluateUncached(document, SubSeq(s, 1, w - 1))
                        /\ rest = SubSeq(s, w + 1, Len(s))
  OBVIOUS
<1>4. list \in Terms
      /\ EvaluateUncached(document, s) = IF IsList(list) THEN ListTerm(Elements(list[2], rest)) ELSE Nil
  BY <1>2, <1>3, WildcardValue
<1>5. AfterWildcard(p) = rest
  BY <1>1, <1>3 DEF AfterWildcard
<1>6. PICK q : q = UpToWildcard(p)
  OBVIOUS
<1>7. /\ q.segments = SubSeq(s, 1, w - 1)
      /\ q.cache_indices = SubSeq(p.cache_indices, 1, w - 1)
  BY <1>1, <1>6 DEF UpToWildcard, IsPath
<1>8. IsSequence(q.segments) /\ q.cache_indices = [k \in 1..Len(q.segments) |-> 0]
  BY <1>6, UpToWildcardFits, EmptySequence DEF AreSegments
<1>9. Evaluate(document, q, FALSE, <<>>) = With(PathValue(document, q, FALSE), <<>>)
  <2>1. PICK flat, none : flat = FALSE /\ none = <<>>
    OBVIOUS
  <2>2. Evaluate(document, q, flat, none) = With(PathValue(document, q, flat), none)
    BY <1>8, PlainPath, SMTT(60)
  <2> QED BY <2>1, <2>2
<1>10. PathValue(document, q, FALSE) = list
  <2>1. CASE q.segments = <<>>
    <3>1. PICK u : IsWalk(u, <<>>) /\ \A t : EvaluateUncached(t, <<>>) = u[1][t]
      BY EmptySequence, WalkOf
    <3>2. u[1] = [t \in Terms |-> t]
      BY <3>1, EmptySequence DEF IsWalk
    <3>3. EvaluateUncached(document, <<>>) = document
      BY <3>1, <3>2
    <3> QED BY <1>3, <1>7, <2>1, <3>3 DEF PathValue
  <2>2. CASE q.segments # <<>>
    BY <1>3, <1>7, <2>2 DEF PathValue
  <2> QED BY <2>1, <2>2
<1>11. EvaluateWildcardMapped(document, p, f, <<>>) = FanOut(With(list, <<>>), p, f)
  BY <1>6, <1>9, <1>10 DEF EvaluateWildcardMapped
<1>12. EvaluateWildcardMapped(document, p, f, <<>>).value
           = IF IsList(list) THEN CoerceElements(Elements(list[2], rest), f) ELSE ListTerm(<<>>)
  BY <1>5, <1>11, WithParts DEF FanOut
<1> QED BY <1>1, <1>3, <1>4, <1>5, <1>12

\* One wildcard path: coerced while it fans out, and evaluated, defaulted, then
\* coerced.
LEMMA FanOutIsGeneral ==
    ASSUME NEW document \in Terms, NEW f, IsField(f), Settled(f), f.type \in ArrayTypes,
           FansOut(f, FALSE), NEW outputs
    PROVE  EvaluateWildcardMapped(document, f.source[2][1], f, <<>>).value
               = MapArray(document, f, outputs, FALSE, <<>>).value
<1>1. PICK p : p = f.source[2][1]
  OBVIOUS
<1>2. f.source[1] = "path" /\ IsPath(p) /\ p.wildcard # 0
  BY <1>1 DEF FansOut, IsField, ArePaths
<1>3. PICK list, rest : /\ list = EvaluateUncached(document, SubSeq(p.segments, 1, p.wildcard - 1))
                        /\ rest = AfterWildcard(p)
  OBVIOUS
<1>4. PICK v : v = EvaluateUncached(document, p.segments)
  OBVIOUS
<1>5. /\ v = IF IsList(list) THEN ListTerm(Elements(list[2], rest)) ELSE Nil
      /\ EvaluateWildcardMapped(document, p, f, <<>>).value
            = IF IsList(list) THEN CoerceElements(Elements(list[2], rest), f) ELSE ListTerm(<<>>)
  BY <1>2, <1>3, <1>4, FanOutValue
<1>6. Evaluate(document, p, FALSE, <<>>) = With(v, <<>>)
  <2>1. IsSequence(p.segments) /\ p.segments # <<>> /\ p.cache_indices = [k \in 1..Len(p.segments) |-> 0]
    BY <1>2, EmptySequence DEF IsPath, AreSegments
  <2>2. PathValue(document, p, FALSE) = v
    BY <1>4, <2>1 DEF PathValue
  <2>3. Evaluate(document, p, FALSE, <<>>) = With(PathValue(document, p, FALSE), <<>>)
    <3>1. PICK flat, none : flat = FALSE /\ none = <<>>
      OBVIOUS
    <3>2. Evaluate(document, p, flat, none) = With(PathValue(document, p, flat), none)
      BY <2>1, PlainPath, SMTT(60)
    <3> QED BY <3>1, <3>2
  <2> QED BY <2>2, <2>3
<1>7. ResolveRaw(document, f, outputs, FALSE, <<>>) = With(v, <<>>)
  BY <1>1, <1>2, <1>6, Zenon DEF ResolveRaw
<1>8. ResolveValue(document, f, outputs, FALSE, <<>>).value = IF v = Nil THEN f.default ELSE v
  <2>1. f.type # "enum8" /\ f.type # "string" /\ f.type \notin {"uint8", "uint32", "uint64"}
    BY DEF ArrayTypes
  <2>2. Accepts(v, f.options)
    BY <2>1 DEF Accepts, Settled
  <2>3. PICK found : found = With(v, <<>>)
    OBVIOUS
  <2>4. found.value = v /\ found.cache = <<>>
    BY <2>3, WithParts
  <2>5. ResolveValue(document, f, outputs, FALSE, <<>>) = OrDefault(found, f)
    BY <1>7, <2>3 DEF ResolveValue
  <2>6. OrDefault(found, f) = IF v = Nil THEN With(f.default, <<>>) ELSE found
    BY <1>2, <2>1, <2>2, <2>4, Zenon DEF OrDefault
  <2>7. With(f.default, <<>>).value = f.default
    BY WithParts
  <2> QED BY <2>4, <2>5, <2>6, <2>7
<1>9. MapArray(document, f, outputs, FALSE, <<>>).value
          = CoerceArray(IF v = Nil THEN f.default ELSE v, f)
  BY <1>8, WithParts DEF MapArray, CoerceFound
<1>10. CASE IsList(list)
  <2>1. PICK items : items = Elements(list[2], rest)
    OBVIOUS
  <2>2. v = ListTerm(items) /\ v # Nil /\ IsList(v) /\ v[2] = items
    BY <1>5, <1>10, <2>1 DEF ListTerm, Nil, IsList, Tag
  <2>3. CoerceArray(v, f) = CoerceElements(items, f)
    BY <2>2 DEF CoerceArray
  <2> QED BY <1>1, <1>5, <1>9, <1>10, <2>1, <2>2, <2>3
<1>11. CASE ~IsList(list)
  <2>1. v = Nil
    BY <1>5, <1>11
  <2>2. CoerceArray(f.default, f) = ListTerm(<<>>)
    BY PlainArray, NoElements DEF Settled
  <2> QED BY <1>1, <1>5, <1>9, <1>11, <2>1, <2>2
<1> QED BY <1>10, <1>11

\* An array field that fanned out, with its slots and without.
LEMMA MappedFanOut ==
    ASSUME CacheInv, ProgressInv, HasMapped, Mapped.type \in ArrayTypes, FansOut(Mapped, call.flat)
    PROVE  LET f == UncachedField p == f.source[2][1] q == Mapped.source[2][1] IN
           /\ call.document \in Terms
           /\ IsField(f) /\ Settled(f) /\ SamePlain(Mapped, f) /\ FansOut(f, FALSE)
           /\ IsPath(p) /\ p.wildcard # 0
           /\ q.segments = p.segments /\ q.wildcard = p.wildcard
           /\ Value = EvaluateWildcardMapped(call.document, p, f, <<>>).value
<1>1. PICK f, g, slots : f = UncachedField /\ g = Mapped /\ slots = mapping.slots
  OBVIOUS
<1>2. IsField(f) /\ Settled(f) /\ SameField(g, f, slots) /\ SamePlain(g, f)
  BY <1>1, MappedField DEF SameField
<1>3. f.type \in ArrayTypes
  BY <1>1, <1>2 DEF SamePlain
<1>4. g.source[1] = "path" /\ ~call.flat /\ g.source[2][1].wildcard # 0
  BY <1>1 DEF FansOut
<1>5. g.source = IF f.source[1] \in {"path", "paths"}
                 THEN <<f.source[1], CachedPaths(f.source[2], slots)>> ELSE f.source
  BY <1>2 DEF SameField
<1>6. f.source[1] = "path" /\ g.source[2] = CachedPaths(f.source[2], slots)
  BY <1>4, <1>5
<1>7. PICK paths, p : /\ paths = f.source[2] /\ ArePaths(paths) /\ Len(paths) = 1
                      /\ p = paths[1]
  BY <1>2, <1>6 DEF IsField
<1>8. IsPath(p) /\ g.source[2][1] = Cached(p, slots)
  BY <1>6, <1>7, CachedPathsOf
<1>9. IsSequence(slots)
  BY <1>1, SlotsAreSequence DEF CacheInv, HasMapped
<1>10. g.source[2][1].wildcard = p.wildcard /\ g.source[2][1].segments = p.segments
  BY <1>8, <1>9, CachedPath
<1>11. FansOut(f, FALSE) /\ FansOut(f, call.flat) /\ ~call.flat
  BY <1>4, <1>6, <1>7, <1>10 DEF FansOut
<1>12. call.document \in Terms
  BY <1>11 DEF CacheInv, HasMapped, IsView, CallView
<1>13. Value = MapField(call.document, f, Outputs, call.flat, <<>>).value
  BY <1>1 DEF CacheInv, CacheTransparent
<1>14. MapField(call.document, f, Outputs, call.flat, <<>>)
           = EvaluateWildcardMapped(call.document, f.source[2][1], f, <<>>)
  BY <1>3, <1>11, Zenon DEF MapField
<1> QED BY <1>1, <1>2, <1>4, <1>7, <1>8, <1>10, <1>11, <1>12, <1>13, <1>14

\* An array coerced while its wildcard fans out is the array of the general
\* path: evaluate, default, coerce (evaluate_wildcard_mapped, coerce_array).
THEOREM FanOutAgreesWithEvaluation == Spec => []WildcardFastPathAgrees
<1>1. CacheInv /\ ProgressInv => WildcardFastPathAgrees
  <2> SUFFICES ASSUME CacheInv, ProgressInv, HasMapped, Mapped.type \in ArrayTypes,
                      FansOut(Mapped, call.flat)
               PROVE  Value = MapArray(call.document, UncachedField, Outputs, FALSE, <<>>).value
    BY DEF WildcardFastPathAgrees
  <2>1. PICK f, document, outputs :
            f = UncachedField /\ document = call.document /\ outputs = Outputs
    OBVIOUS
  <2>2. /\ document \in Terms /\ IsField(f) /\ Settled(f) /\ FansOut(f, FALSE)
        /\ f.type \in ArrayTypes
        /\ Value = EvaluateWildcardMapped(document, f.source[2][1], f, <<>>).value
    BY <2>1, MappedFanOut DEF SamePlain
  <2>3. EvaluateWildcardMapped(document, f.source[2][1], f, <<>>).value
            = MapArray(document, f, outputs, FALSE, <<>>).value
    BY <2>2, FanOutIsGeneral
  <2> QED BY <2>1, <2>2, <2>3
<1> QED BY <1>1, CacheInvariant, CallsProgress, PTL

\* What n elements coerce to when none is dropped.
CoercedUpTo(s, items, f, n) ==
    /\ IsSequence(s) /\ Len(s) = n
    /\ \A k \in 1..n : s[k] = CoerceArrayElement(items[k], f)

\* Elements that are all kept keep their places.
LEMMA AllElementsKept ==
    ASSUME NEW items, NEW n \in Nat, DOMAIN items = 1..n, NEW f,
           \A k \in 1..n : KeepsElement(items[k], f)
    PROVE  \E s : CoerceElements(items, f) = ListTerm(s) /\ CoercedUpTo(s, items, f, n)
<1>1. CoerceElements(items, f) = ListTerm(Keeping!Left(f, <<>>, items))
  BY Zenon DEF CoerceElements, Keeping!Left, KeptOp, FoldLeft, Keeping!FoldLeft, MapThenFoldSet,
               Keeping!MapThenFoldSet, Max, Keeping!Max
<1>2. PICK r : Keeping!LeftTrace(r, f, <<>>, items, n) /\ Keeping!Left(f, <<>>, items) = r[n]
  BY Keeping!FoldLeftTrace
<1>3. r[0] = <<>> /\ \A k \in 1..n : r[k] = KeptOp(f, r[k - 1], items[k])
  BY <1>2 DEF Keeping!LeftTrace
<1> DEFINE good == {m \in Nat : m <= n => CoercedUpTo(r[m], items, f, m)}
<1>4. 0 \in good
  BY <1>3, EmptySequence DEF CoercedUpTo
<1>5. ASSUME NEW m \in Nat, m \in good PROVE m + 1 \in good
  <2> SUFFICES ASSUME m + 1 <= n PROVE CoercedUpTo(r[m + 1], items, f, m + 1)
    OBVIOUS
  <2>1. PICK j \in 1..n : j = m + 1 /\ j - 1 = m
    OBVIOUS
  <2>2. CoercedUpTo(r[m], items, f, m)
    BY <1>5
  <2>3. r[j] = Append(r[m], CoerceArrayElement(items[j], f))
    BY <1>3, <2>1 DEF KeptOp
  <2>4. PICK s, x : s = r[m] /\ x = CoerceArrayElement(items[j], f)
    OBVIOUS
  <2>5. IsSequence(s) /\ Len(s) = m /\ \A k \in 1..m : s[k] = CoerceArrayElement(items[k], f)
    BY <2>2, <2>4 DEF CoercedUpTo
  <2>6. /\ IsSequence(Append(s, x)) /\ Len(Append(s, x)) = j
        /\ \A k \in 1..m : Append(s, x)[k] = s[k]
        /\ Append(s, x)[j] = x
    BY <2>1, <2>5, AppendSequence
  <2>7. \A k \in 1..j : Append(s, x)[k] = CoerceArrayElement(items[k], f)
    BY <2>1, <2>4, <2>5, <2>6
  <2> QED BY <2>1, <2>3, <2>4, <2>6, <2>7 DEF CoercedUpTo
<1>6. n \in good
  <2> HIDE DEF good
  <2> QED BY <1>4, <1>5, Keeping!NatInduct
<1> QED BY <1>1, <1>2, <1>6

\* The arrays of one nested column are as long as the list they fan out from,
\* element by element, when nils are kept: ClickHouse refuses a batch otherwise.
THEOREM ParallelArraysStayAligned == Spec => []ParallelArraysAligned
<1>1. CacheInv /\ ProgressInv => ParallelArraysAligned
  <2> SUFFICES ASSUME CacheInv, ProgressInv, HasMapped, FansOut(Mapped, call.flat),
                      ~Mapped.filter_nil,
                      Mapped.type \in {"array_string", "array_uint64", "array_float64",
                                       "array_datetime64", "array_flat_map"}
               PROVE  AlignedFrom(Mapped.source[2][1])
    BY DEF ParallelArraysAligned
  <2>1. PICK f, g, document : f = UncachedField /\ g = Mapped /\ document = call.document
    OBVIOUS
  <2>2. PICK p, q : p = f.source[2][1] /\ q = g.source[2][1]
    OBVIOUS
  <2>3. Mapped.type \in ArrayTypes
    BY DEF ArrayTypes
  <2>4. /\ document \in Terms /\ SamePlain(g, f) /\ IsPath(p) /\ p.wildcard # 0
        /\ q.segments = p.segments /\ q.wildcard = p.wildcard
        /\ Value = EvaluateWildcardMapped(document, p, f, <<>>).value
    BY <2>1, <2>2, <2>3, MappedFanOut
  <2>5. PICK list, rest : /\ list = EvaluateUncached(document, SubSeq(p.segments, 1, p.wildcard - 1))
                          /\ rest = AfterWildcard(p)
    OBVIOUS
  <2>6. AfterWildcard(q) = rest
    BY <2>4, <2>5 DEF AfterWildcard
  <2> SUFFICES ASSUME IsList(list),
                      g.type = "array_flat_map" =>
                          \A k \in DOMAIN list[2] : MapOrNil(EvaluateUncached(list[2][k], rest))
               PROVE  Len(Value[2]) = Len(list[2])
    BY <2>1, <2>2, <2>4, <2>5, <2>6 DEF AlignedFrom, Aligned
  <2>7. PICK items : items = Elements(list[2], rest)
    OBVIOUS
  <2>8. list \in Terms /\ Value = CoerceElements(items, f)
    BY <2>4, <2>5, <2>7, FanOutValue
  <2>9. PICK n \in Nat : n = Len(list[2]) /\ DOMAIN list[2] = 1..n
    BY <2>8, TermsAssumption
  <2>10. DOMAIN items = 1..n /\ \A k \in 1..n : items[k] = EvaluateUncached(list[2][k], rest)
    BY <2>7, <2>9 DEF Elements
  <2>11. ~f.filter_nil /\ f.type = g.type /\ f.type # "array_map"
    BY <2>1, <2>4 DEF SamePlain
  <2>12. ASSUME NEW k \in 1..n PROVE KeepsElement(items[k], f)
    <3>1. f.type = "array_flat_map" => MapOrNil(items[k])
      BY <2>9, <2>10, <2>11
    <3> QED BY <2>11, <3>1 DEF KeepsElement, MapOrNil
  <2>13. PICK s : CoerceElements(items, f) = ListTerm(s) /\ CoercedUpTo(s, items, f, n)
    BY <2>10, <2>12, AllElementsKept
  <2> QED BY <2>8, <2>9, <2>13 DEF CoercedUpTo, ListTerm
<1> QED BY <1>1, CacheInvariant, CallsProgress, PTL
-----------------------------------------------------------------------------
(* Sound terms.                                                               *)

\* A term is sound when whatever is in it, at any depth, is well formed: lists are
\* sequences and maps are finite.
Closed(T) ==
    \A t \in T : /\ WellFormed(t)
                 /\ IsList(t) => IsSequence(t[2]) /\ \A k \in DOMAIN t[2] : t[2][k] \in T
                 /\ IsMap(t) => IsFiniteSet(DOMAIN t[2]) /\ \A k \in DOMAIN t[2] : t[2][k] \in T
Sound(v) == \E T : Closed(T) /\ v \in T
SoundItems(s)   == IsSequence(s) /\ \A k \in DOMAIN s : Sound(s[k])
SoundFields(f)  == IsFiniteSet(DOMAIN f) /\ \A k \in DOMAIN f : Sound(f[k])
SoundEntries(s) == IsSequence(s) /\ \A k \in DOMAIN s : Sound(s[k].value)

\* The terms events are made of are sound.
LEMMA TermsAreSound == \A t \in Terms : Sound(t)
<1>1. ASSUME NEW t \in Terms, IsList(t) PROVE IsSequence(t[2]) /\ \A k \in DOMAIN t[2] : t[2][k] \in Terms
  <2>1. t[2] \in Seq(Terms)
    BY <1>1, TermsAssumption
  <2> QED BY <2>1, SequenceIntro
<1>2. Closed(Terms)
  BY <1>1, TermsAssumption DEF Closed
<1> QED BY <1>2 DEF Sound

\* The parts of a sound term are sound.
LEMMA SoundParts ==
    ASSUME NEW v, Sound(v)
    PROVE  /\ WellFormed(v)
           /\ IsList(v) => SoundItems(v[2])
           /\ IsMap(v) => SoundFields(v[2])
<1>1. PICK T : Closed(T) /\ v \in T
  BY DEF Sound
<1> QED BY <1>1 DEF Closed, Sound, SoundItems, SoundFields

\* A scalar is sound when it is well formed.
LEMMA SoundScalar ==
    ASSUME NEW v, WellFormed(v), ~IsList(v), ~IsMap(v)
    PROVE  Sound(v)
<1>1. Closed({v})
  BY DEF Closed
<1> QED BY <1>1 DEF Sound

\* Sound parts are in one closed set.
LEMMA SoundTogether ==
    ASSUME NEW f, \A k \in DOMAIN f : Sound(f[k])
    PROVE  \E T : Closed(T) /\ \A k \in DOMAIN f : f[k] \in T
<1>1. PICK g : g = [k \in DOMAIN f |-> CHOOSE T : Closed(T) /\ f[k] \in T]
  OBVIOUS
<1>2. \A k \in DOMAIN f : Closed(g[k]) /\ f[k] \in g[k]
  BY <1>1 DEF Sound
<1>3. PICK T : T = UNION {g[k] : k \in DOMAIN f}
  OBVIOUS
<1>4. Closed(T)
  <2> SUFFICES ASSUME NEW t \in T
               PROVE  /\ WellFormed(t)
                      /\ IsList(t) => IsSequence(t[2]) /\ \A k \in DOMAIN t[2] : t[2][k] \in T
                      /\ IsMap(t) => IsFiniteSet(DOMAIN t[2]) /\ \A k \in DOMAIN t[2] : t[2][k] \in T
    BY DEF Closed
  <2>1. PICK k \in DOMAIN f : t \in g[k]
    BY <1>3
  <2>2. \A x \in g[k] : x \in T
    BY <1>3
  <2> QED BY <1>2, <2>1, <2>2 DEF Closed
<1>5. \A k \in DOMAIN f : f[k] \in T
  BY <1>2, <1>3
<1> QED BY <1>4, <1>5

\* A list of sound items, and a map with sound values, are sound.
LEMMA SoundContainers ==
    /\ \A s : SoundItems(s) => Sound(ListTerm(s))
    /\ \A f : SoundFields(f) => Sound(MapTerm(f))
<1>1. ASSUME NEW s, SoundItems(s) PROVE Sound(ListTerm(s))
  <2>1. PICK T : Closed(T) /\ \A k \in DOMAIN s : s[k] \in T
    BY <1>1, SoundTogether DEF SoundItems
  <2>2. PICK v : v = ListTerm(s)
    OBVIOUS
  <2>3. v[2] = s /\ IsList(v) /\ ~IsMap(v) /\ WellFormed(v)
    BY <2>2 DEF ListTerm, IsList, IsMap, Tag, WellFormed
  <2>4. Closed(T \cup {v})
    BY <1>1, <2>1, <2>3 DEF Closed, SoundItems
  <2> QED BY <2>2, <2>4 DEF Sound
<1>2. ASSUME NEW f, SoundFields(f) PROVE Sound(MapTerm(f))
  <2>1. PICK T : Closed(T) /\ \A k \in DOMAIN f : f[k] \in T
    BY <1>2, SoundTogether DEF SoundFields
  <2>2. PICK v : v = MapTerm(f)
    OBVIOUS
  <2>3. v[2] = f /\ IsMap(v) /\ ~IsList(v) /\ WellFormed(v)
    BY <2>2 DEF MapTerm, IsList, IsMap, Tag, WellFormed
  <2>4. Closed(T \cup {v})
    BY <1>2, <2>1, <2>3 DEF Closed, SoundFields
  <2> QED BY <2>2, <2>4 DEF Sound
<1> QED BY <1>1, <1>2

\* Plain values are sound.
LEMMA PlainIsSound ==
    ASSUME NEW v, IsPlain(v)
    PROVE  Sound(v)
<1>1. CASE IsList(v)
  <2>1. SoundItems(<<>>)
    BY EmptySequence, SequenceElim DEF SoundItems
  <2> QED BY <1>1, <2>1, SoundContainers DEF IsPlain
<1>2. CASE IsMap(v)
  <2>1. SoundFields(NoFields)
    BY FS_EmptySet DEF SoundFields, NoFields
  <2> QED BY <1>2, <2>1, SoundContainers DEF IsPlain
<1>3. CASE ~IsList(v) /\ ~IsMap(v)
  BY <1>3, SoundScalar DEF IsPlain
<1> QED BY <1>1, <1>2, <1>3
-----------------------------------------------------------------------------
(* What paths give is sound.                                                  *)

\* What a path gives for a term is sound, also a list that a wildcard makes.
LEMMA EvaluatedIsSound ==
    ASSUME NEW segments, AreSegments(segments), NEW term \in Terms
    PROVE  Sound(EvaluateUncached(term, segments))
<1> DEFINE n == Len(segments)
<1>0. IsSequence(segments) /\ n \in Nat
  BY SequenceElim DEF AreSegments
<1>1. PICK u : IsWalk(u, segments) /\ \A t : EvaluateUncached(t, segments) = u[1][t]
  BY <1>0, WalkOf
<1> DEFINE good == {m \in Nat : m <= n => \A t \in Terms : Sound(u[n + 1 - m][t])}
<1>2. 0 \in good
  <2>1. n + 1 - 0 = n + 1 /\ \A t \in Terms : u[n + 1][t] = t
    BY <1>0, <1>1 DEF IsWalk
  <2> QED BY <2>1, TermsAreSound
<1>3. ASSUME NEW m \in Nat, m \in good PROVE m + 1 \in good
  <2> SUFFICES ASSUME m + 1 <= n, NEW t \in Terms PROVE Sound(u[n + 1 - (m + 1)][t])
    OBVIOUS
  <2>1. PICK k \in 1..n : k = n + 1 - (m + 1)
    BY <1>0
  <2>2. k + 1 = n + 1 - m /\ \A x \in Terms : Sound(u[k + 1][x])
    BY <1>0, <1>3, <2>1
  <2>3. PICK s, rest : s = segments[k] /\ rest = u[k + 1] /\ u[k] = Along(s, rest)
    BY <1>1 DEF IsWalk
  <2>4. IsSegment(s)
    BY <2>3 DEF AreSegments
  <2>5. CASE s # Wildcard
    <3>1. u[k][t] = rest[Child(t, s)]
      BY <2>3, <2>5, AlongStep
    <3>2. Child(t, s) \in Terms
      BY <2>4, ChildInTerms
    <3> QED BY <2>1, <2>2, <2>3, <3>1, <3>2
  <2>6. CASE s = Wildcard
    <3>1. u[k][t] = IF IsList(t) THEN ListTerm([j \in DOMAIN t[2] |-> rest[t[2][j]]]) ELSE Nil
      BY <2>3, <2>6, Zenon DEF Along
    <3>2. Sound(Nil)
      BY NilTerm, TermsAreSound
    <3>3. ASSUME IsList(t) PROVE Sound(ListTerm([j \in DOMAIN t[2] |-> rest[t[2][j]]]))
      <4>1. t[2] \in Seq(Terms)
        BY <3>3, TermsAssumption
      <4>2. PICK items : items = [j \in DOMAIN t[2] |-> rest[t[2][j]]]
        OBVIOUS
      <4>3. Len(t[2]) \in Nat /\ DOMAIN t[2] = 1..Len(t[2]) /\ \A j \in 1..Len(t[2]) : t[2][j] \in Terms
        BY <4>1
      <4>4. items = [j \in 1..Len(t[2]) |-> items[j]] /\ \A j \in 1..Len(t[2]) : Sound(items[j])
        BY <2>2, <2>3, <4>2, <4>3
      <4>5. SoundItems(items)
        BY <4>3, <4>4, SequenceOf DEF SoundItems
      <4> QED BY <4>2, <4>5, SoundContainers
    <3> QED BY <2>1, <3>1, <3>2, <3>3
  <2> QED BY <2>5, <2>6
<1>4. n \in good
  <2> HIDE DEF good
  <2> QED BY <1>0, <1>2, <1>3, Parsing!NatInduct
<1>5. n + 1 - n = 1
  BY <1>0
<1> QED BY <1>0, <1>1, <1>4, <1>5

\* What a document is: a sound term, and one of the terms when it is nested.
IsBody(document, flat) ==
    flat \in BOOLEAN /\ Sound(document) /\ (~flat => document \in Terms)

\* What a compiled path gives is sound.
LEMMA PathIsSound ==
    ASSUME NEW document, NEW flat, IsBody(document, flat), NEW p, IsPath(p), NEW c
    PROVE  /\ Sound(Evaluate(document, p, flat, c).value)
           /\ Evaluate(document, p, flat, c).cache = c
<1>1. AreSegments(p.segments) /\ IsSequence(p.segments)
      /\ p.cache_indices = [k \in 1..Len(p.segments) |-> 0]
  BY DEF IsPath, AreSegments
<1>2. Evaluate(document, p, flat, c) = With(PathValue(document, p, flat), c)
  BY <1>1, PlainPath, SMTT(60)
<1>3. Sound(Nil)
  BY NilTerm, TermsAreSound
<1>4. ASSUME NEW key PROVE Sound(Child(document, <<"flat", key>>))
  <2>1. PICK s : s = <<"flat", key>>
    OBVIOUS
  <2>2. s[1] = "flat" /\ s[2] = key /\ MapKey(s) = key
    BY <2>1 DEF MapKey, IsKey
  <2>3. CASE IsMap(document) /\ key \in DOMAIN document[2]
    <3>1. Child(document, s) = document[2][key]
      BY <2>2, <2>3, Zenon DEF Child
    <3>2. SoundFields(document[2])
      BY <2>3, SoundParts DEF IsBody
    <3> QED BY <2>1, <2>3, <3>1, <3>2 DEF SoundFields
  <2>4. CASE ~(IsMap(document) /\ key \in DOMAIN document[2])
    <3>1. Child(document, s) = Nil
      BY <2>2, <2>4, Zenon DEF Child
    <3> QED BY <1>3, <2>1, <3>1
  <2> QED BY <2>3, <2>4
<1>5. Sound(PathValue(document, p, flat))
  <2>1. CASE flat
    BY <1>3, <1>4, <2>1 DEF PathValue, IsBody
  <2>2. CASE ~flat
    BY <1>1, <2>2, EvaluatedIsSound DEF PathValue, IsBody
  <2> QED BY <2>1, <2>2
<1> QED BY <1>2, <1>5, WithParts

\* Carried along the paths: the value found so far is sound.
ValueSound(none, a, b) == Sound(a.value)
FirstsSound == INSTANCE FoldLemmas WITH Op <- FirstOp, Rel <- ValueSound

\* The first accepted value of several paths is sound.
LEMMA FirstIsSound ==
    ASSUME NEW document, NEW flat, IsBody(document, flat), NEW paths, ArePaths(paths),
           NEW options, NEW c
    PROVE  Sound(EvaluateFirst(document, paths, options, flat, c).value)
<1>1. PICK ctx : ctx = [document |-> document, options |-> options, flat |-> flat]
  OBVIOUS
<1>2. ctx.document = document /\ ctx.options = options /\ ctx.flat = flat
  BY <1>1
<1>3. PICK b : b = With(Nil, c) /\ b.value = Nil
  BY WithParts
<1>4. EvaluateFirst(document, paths, options, flat, c) = FirstsSound!Left(ctx, b, paths)
  <2>1. EvaluateFirst(ctx.document, paths, ctx.options, ctx.flat, c)
            = FirstsSound!Left(ctx, With(Nil, c), paths)
    BY Zenon DEF EvaluateFirst, FirstsSound!Left, FirstOp, FoldLeft, FirstsSound!FoldLeft,
                 MapThenFoldSet, FirstsSound!MapThenFoldSet, Max, FirstsSound!Max
  <2> QED BY <1>2, <1>3, <2>1
<1>5. Sound(Nil)
  BY NilTerm, TermsAreSound
<1>6. FirstsSound!Keeps(0, ctx, ctx, paths, paths, Len(paths))
  <2> SUFFICES ASSUME NEW k \in 1..Len(paths), NEW a1, NEW a2, ValueSound(0, a1, a2)
               PROVE  ValueSound(0, FirstOp(ctx, a1, paths[k]), FirstOp(ctx, a2, paths[k]))
    BY Zenon DEF FirstsSound!Keeps
  <2>1. PICK p : p = paths[k] /\ IsPath(p)
    BY DEF ArePaths
  <2>2. PICK e : e = Evaluate(document, p, flat, a1.cache) /\ Sound(e.value)
    BY <2>1, PathIsSound
  <2>3. Sound(IfAccepted(e, options).value)
    BY <1>5, <2>2, WithParts DEF IfAccepted
  <2>4. FirstOp(ctx, a1, p) = IF a1.value # Nil THEN a1 ELSE IfAccepted(e, options)
    BY <1>2, <2>2 DEF FirstOp
  <2> QED BY <2>1, <2>3, <2>4 DEF ValueSound
<1>7. Len(paths) \in Nat /\ DOMAIN paths = 1..Len(paths)
  BY SequenceElim DEF ArePaths
<1>8. ValueSound(0, b, b)
  BY <1>3, <1>5 DEF ValueSound
<1>9. ValueSound(0, FirstsSound!Left(ctx, b, paths), FirstsSound!Left(ctx, b, paths))
  BY <1>6, <1>7, <1>8, FirstsSound!FoldsRelated
<1> QED BY <1>4, <1>9 DEF ValueSound
-----------------------------------------------------------------------------
(* Entries.                                                                   *)

KeyOp(none, order, key) == Append(order, key)
Keying == INSTANCE FoldLemmas WITH Op <- KeyOp, Rel <- Same

\* The iteration order of a map is a sequence of its keys.
LEMMA KeysAreKeys ==
    ASSUME NEW f, IsFiniteSet(DOMAIN f)
    PROVE  /\ IsSequence(Keys(f))
           /\ \A k \in DOMAIN Keys(f) : Keys(f)[k] \in DOMAIN f
<1>1. PICK S : S = DOMAIN f
  OBVIOUS
<1>2. Keys(f) = Keying!OverSet(0, <<>>, S)
  BY <1>1, Zenon DEF Keys, Keying!OverSet, KeyOp, FoldSet, Keying!FoldSet, MapThenFoldSet,
                     Keying!MapThenFoldSet
<1>3. PICK n \in Nat : \E p, r :
          Keying!SetTrace(p, r, 0, <<>>, S, n) /\ Keying!OverSet(0, <<>>, S) = r[n]
  <2>1. Keying!IsFiniteSet(S)
    BY <1>1 DEF IsFiniteSet, Keying!IsFiniteSet
  <2>2. PICK x, base : x = 0 /\ base = <<>>
    OBVIOUS
  <2>3. \E n \in Nat : \E p, r : Keying!SetTrace(p, r, x, base, S, n) /\ Keying!OverSet(x, base, S) = r[n]
    BY <2>1, Keying!FoldSetTrace, Zenon 
  <2> QED BY <2>2, <2>3
<1>31. PICK p, r : Keying!SetTrace(p, r, 0, <<>>, S, n) /\ Keying!OverSet(0, <<>>, S) = r[n]
  BY <1>3
<1>4. /\ p \in [1..n -> S] /\ r[0] = <<>>
      /\ \A k \in 1..n : r[k] = Append(r[k - 1], p[k])
  BY <1>31 DEF Keying!SetTrace, Keying!LeftTrace, KeyOp
<1> DEFINE good == {m \in Nat : m <= n => IsSequence(r[m]) /\ \A k \in 1..Len(r[m]) : r[m][k] \in S}
<1>5. 0 \in good
  BY <1>4, EmptySequence
<1>6. ASSUME NEW m \in Nat, m \in good PROVE m + 1 \in good
  <2> SUFFICES ASSUME m + 1 <= n
               PROVE  IsSequence(r[m + 1]) /\ \A k \in 1..Len(r[m + 1]) : r[m + 1][k] \in S
    OBVIOUS
  <2>1. PICK j \in 1..n : j = m + 1 /\ j - 1 = m
    OBVIOUS
  <2>2. PICK s, x : s = r[m] /\ x = p[j]
    OBVIOUS
  <2>3. IsSequence(s) /\ (\A k \in 1..Len(s) : s[k] \in S) /\ x \in S /\ Len(s) \in Nat
    BY <1>4, <1>6, <2>1, <2>2, SequenceElim
  <2>4. r[m + 1] = Append(s, x)
    BY <1>4, <2>1, <2>2
  <2>5. /\ IsSequence(Append(s, x)) /\ Len(Append(s, x)) = Len(s) + 1
        /\ \A k \in 1..Len(s) : Append(s, x)[k] = s[k]
        /\ Append(s, x)[Len(s) + 1] = x
    BY <2>3, AppendSequence
  <2> QED BY <2>3, <2>4, <2>5
<1>7. n \in good
  <2> HIDE DEF good
  <2> QED BY <1>5, <1>6, Keying!NatInduct
<1>8. PICK order : order = Keys(f) /\ IsSequence(order) /\ \A k \in 1..Len(order) : order[k] \in S
  BY <1>2, <1>31, <1>7
<1> QED BY <1>1, <1>8, SequenceElim

\* A nonempty set up to n has its greatest element.
LEMMA LastIn ==
    ASSUME NEW n \in Nat, NEW I \in SUBSET (1..n), I # {}
    PROVE  Max(I) \in I /\ \A i \in I : i <= Max(I)
<1>1. PICK J : J = {n - i : i \in I}
  OBVIOUS
<1>2. J \in SUBSET Nat /\ J # {}
  <2>1. \A i \in I : i \in 1..n /\ n - i \in Nat
    OBVIOUS
  <2> QED BY <1>1, <2>1
<1>3. PICK j \in J : \A i \in J : j <= i
  BY <1>2, Parsing!Smallest
<1>4. PICK m \in I : j = n - m
  BY <1>1
<1>5. \A i \in I : n - m <= n - i
  BY <1>1, <1>3, <1>4
<1>6. \A i \in I : i <= m
  BY <1>5
<1> QED BY <1>6 DEF Max

\* Putting sound sequences one after another.
LEMMA FlattenSound ==
    ASSUME NEW ss, IsSequence(ss), \A k \in DOMAIN ss : SoundEntries(ss[k])
    PROVE  SoundEntries(FlattenSeq(ss))
<1>1. IsSequence(FlattenSeq(ss))
      /\ \A x \in ToSet(FlattenSeq(ss)) : \E k \in DOMAIN ss : x \in ToSet(ss[k])
  BY FlattenSequences DEF SoundEntries
<1>2. PICK flat : flat = FlattenSeq(ss)
  OBVIOUS
<1>3. ASSUME NEW k \in DOMAIN flat PROVE Sound(flat[k].value)
  <2>1. flat[k] \in ToSet(flat)
    BY DEF ToSet
  <2>2. PICK j \in DOMAIN ss : flat[k] \in ToSet(ss[j])
    BY <1>1, <1>2, <2>1
  <2>3. PICK i \in DOMAIN ss[j] : flat[k] = ss[j][i]
    BY <2>2 DEF ToSet
  <2> QED BY <2>3 DEF SoundEntries
<1> QED BY <1>1, <1>2, <1>3 DEF SoundEntries

\* A sequence made element by element.
LEMMA MapSequence ==
    ASSUME NEW s, IsSequence(s), NEW t, t = [k \in DOMAIN s |-> t[k]]
    PROVE  IsSequence(t) /\ DOMAIN t = DOMAIN s /\ Len(t) = Len(s)
<1>1. Len(s) \in Nat /\ DOMAIN s = 1..Len(s)
  BY SequenceElim
<1> QED BY <1>1, SequenceOf

\* An entry has its key and its value.
LEMMA EntryParts == \A key, v : Entry(key, v).key = key /\ Entry(key, v).value = v
BY DEF Entry

\* The entries of a map with sound values.
LEMMA EntriesAreSound ==
    ASSUME NEW f, SoundFields(f), NEW prefix
    PROVE  SoundEntries(EntriesOf(prefix, f))
<1>1. PICK order : order = Keys(f) /\ IsSequence(order) /\ \A k \in DOMAIN order : order[k] \in DOMAIN f
  BY KeysAreKeys DEF SoundFields
<1>2. PICK s : s = EntriesOf(prefix, f)
  OBVIOUS
<1>3. s = [k \in DOMAIN order |-> Entry(prefix \o order[k], f[order[k]])]
  BY <1>1, <1>2 DEF EntriesOf
<1>4. IsSequence(s) /\ DOMAIN s = DOMAIN order
  <2>1. s = [k \in DOMAIN order |-> s[k]]
    BY <1>3
  <2> QED BY <1>1, <2>1, MapSequence
<1>5. \A k \in DOMAIN s : s[k].value = f[order[k]]
  BY <1>3, <1>4, EntryParts
<1> QED BY <1>1, <1>2, <1>4, <1>5 DEF SoundEntries, SoundFields

\* One entry is a sound sequence of entries.
LEMMA OneEntry ==
    ASSUME NEW e
    PROVE  IsSequence(<<e>>) /\ DOMAIN <<e>> = {1} /\ <<e>>[1] = e
<1>1. PICK s : s = <<e>>
  OBVIOUS
<1>2. s = [k \in 1..1 |-> s[k]] /\ DOMAIN s = {1} /\ s[1] = e
  BY <1>1
<1> QED BY <1>1, <1>2, SequenceOf

\* Unfolding the maps among sound entries, once.
LEMMA UnfoldSound ==
    ASSUME NEW s, SoundEntries(s)
    PROVE  SoundEntries(UnfoldAll(s))
<1>1. PICK ss : ss = [k \in DOMAIN s |-> Unfold(s[k])]
  OBVIOUS
<1>2. IsSequence(ss) /\ DOMAIN ss = DOMAIN s
  BY <1>1, MapSequence DEF SoundEntries
<1>3. ASSUME NEW k \in DOMAIN ss PROVE SoundEntries(ss[k])
  <2>1. PICK e : e = s[k] /\ Sound(e.value) /\ ss[k] = Unfold(e)
    BY <1>1, <1>2 DEF SoundEntries
  <2>2. CASE IsMap(e.value) /\ DOMAIN e.value[2] # {}
    <3>1. Unfold(e) = EntriesOf(e.key, e.value[2])
      BY <2>2 DEF Unfold
    <3> QED BY <2>1, <2>2, <3>1, EntriesAreSound, SoundParts
  <2>3. CASE ~(IsMap(e.value) /\ DOMAIN e.value[2] # {})
    <3>1. Unfold(e) = <<e>>
      BY <2>3, Zenon DEF Unfold
    <3> QED BY <2>1, <3>1, OneEntry DEF SoundEntries
  <2> QED BY <2>2, <2>3
<1> QED BY <1>1, <1>2, <1>3, FlattenSound DEF UnfoldAll

UnfoldOp(none, found, level) == UnfoldAll(found)
EntriesSound(none, a, b) == SoundEntries(a)
Unfolding == INSTANCE FoldLemmas WITH Op <- UnfoldOp, Rel <- EntriesSound

\* The leaves under sound entries.
LEMMA LeavesAreSound ==
    ASSUME NEW s, SoundEntries(s)
    PROVE  SoundEntries(Leaves(s))
<1>1. PICK levels : levels = Levels
  OBVIOUS
<1>2. PICK n \in Nat : DOMAIN levels = 1..n
  BY <1>1, TermsAssumption DEF Levels
<1>3. Leaves(s) = Unfolding!Left(0, s, levels)
  BY <1>1, Zenon DEF Leaves, Unfolding!Left, UnfoldOp, FoldLeft, Unfolding!FoldLeft,
                     MapThenFoldSet, Unfolding!MapThenFoldSet, Max, Unfolding!Max
<1>4. Unfolding!Keeps(0, 0, 0, levels, levels, n)
  BY UnfoldSound, Zenon DEF Unfolding!Keeps, UnfoldOp, EntriesSound
<1>5. EntriesSound(0, Unfolding!Left(0, s, levels), Unfolding!Left(0, s, levels))
  BY <1>2, <1>4, Unfolding!FoldsRelated DEF EntriesSound
<1> QED BY <1>3, <1>5 DEF EntriesSound
-----------------------------------------------------------------------------
(* The payloads a decoding gives.                                              *)

\* The payloads of the terms the decodings take.
LEMMA DecodedPayloads ==
    ASSUME NEW v, WellFormed(v)
    PROVE  /\ IsInt(v) => v = IntTerm(v[2]) /\ v[2] \in Int
           /\ IsFloat(v) => v = FloatTerm(v[2]) /\ v[2] \in Int
           /\ IsBool(v) => v = BoolTerm(v[2]) /\ v[2] \in BOOLEAN
           /\ IntegerLiteral(v) => v[2][2] \in Int
           /\ IsStr(v) /\ v[2][1] = "dec" => v[2][2] \in Int
           /\ IsStr(v) /\ v[2][1] = "time" => v[2][2] \in (-I64Max - 1)..I64Max
           /\ IsStr(v) => v = StrTerm(v[2])
BY IntegerBoundsAssumption
   DEF WellFormed, WellFormedText, Nil, IntTerm, FloatTerm, BoolTerm, AtomTerm, StrTerm,
       ListTerm, MapTerm, IsInt, IsFloat, IsBool, IsStr, IsList, IsMap, IntegerLiteral, Tag

\* The tests the coercions branch on exclude one another.
LEMMA OneTag ==
    ASSUME NEW v
    PROVE  /\ IsInt(v) => ~IsFloat(v) /\ ~IsStr(v) /\ ~IsBool(v) /\ v # Nil
           /\ IsFloat(v) => ~IsInt(v) /\ ~IsStr(v) /\ ~IsBool(v) /\ v # Nil
           /\ IsStr(v) => ~IsInt(v) /\ ~IsFloat(v) /\ ~IsBool(v) /\ v # Nil
           /\ IsBool(v) => ~IsInt(v) /\ ~IsFloat(v) /\ ~IsStr(v) /\ v # Nil
           /\ Tag(v) = "atom" => ~IsInt(v) /\ ~IsFloat(v) /\ ~IsStr(v) /\ ~IsBool(v)
BY DEF IsInt, IsFloat, IsStr, IsBool, Tag, Nil
-----------------------------------------------------------------------------
(* Strings and maps of strings.                                               *)

\* The values of a function on a finite set are finitely many.
LEMMA FiniteImage ==
    ASSUME NEW S, IsFiniteSet(S), NEW g
    PROVE  IsFiniteSet({g[x] : x \in S})
<1>1. PICK T, h : T = {g[x] : x \in S} /\ h = [x \in S |-> g[x]]
  OBVIOUS
<1>2. h \in Surjection(S, T)
  BY <1>1 DEF Surjection
<1> QED BY <1>1, <1>2, FS_Surjection

\* A well-formed text is sound.
LEMMA TextIsSound ==
    ASSUME NEW c, WellFormedText(c)
    PROVE  Sound(StrTerm(c)) /\ IsStr(StrTerm(c))
<1>1. PICK v : v = StrTerm(c)
  OBVIOUS
<1>2. v[2] = c /\ IsStr(v) /\ ~IsMap(v) /\ ~IsList(v)
  BY <1>1 DEF StrTerm, IsStr, IsMap, IsList, Tag
<1>3. WellFormed(v)
  BY <1>1, <1>2 DEF WellFormed
<1> QED BY <1>1, <1>2, <1>3, SoundScalar

\* The kinds of text there are.
LEMMA Texts ==
    /\ \A w : WellFormedText(<<"text", w>>)
    /\ \A n \in Int : WellFormedText(<<"num", n>>) /\ WellFormedText(<<"dec", n>>)
    /\ \A s : WellFormedText(<<"json", s>>)
    /\ \A h \in Int : WellFormedText(FloatText(h))
<1>1. \A w : WellFormedText(<<"text", w>>)
  BY DEF WellFormedText
<1>2. \A n \in Int : WellFormedText(<<"num", n>>) /\ WellFormedText(<<"dec", n>>)
  BY DEF WellFormedText
<1>3. \A s : WellFormedText(<<"json", s>>)
  BY DEF WellFormedText
<1>4. ASSUME NEW h \in Int PROVE WellFormedText(FloatText(h))
  <2>1. h \div 2 \in Int
    OBVIOUS
  <2> QED BY <1>2, <2>1, Zenon DEF FloatText
<1> QED BY <1>1, <1>2, <1>3, <1>4

\* Coercing to a string gives a sound string.
LEMMA CoercedStringSound ==
    ASSUME NEW v, WellFormed(v)
    PROVE  Sound(CoerceString(v)) /\ IsStr(CoerceString(v))
<1>0. IsI64(v) => IsInt(v)
  BY DEF IsI64
<1>1. CASE IsStr(v)
  <2>1. CoerceString(v) = v
    BY <1>0, <1>1, OneTag, Zenon DEF CoerceString
  <2>2. ~IsList(v) /\ ~IsMap(v)
    BY <1>1 DEF IsStr, IsList, IsMap, Tag
  <2> QED BY <1>1, <2>1, <2>2, SoundScalar
<1>2. CASE IsI64(v)
  <2>1. CoerceString(v) = StrTerm(<<"num", v[2]>>)
    BY <1>0, <1>2, OneTag, Zenon DEF CoerceString
  <2> QED BY <1>0, <1>2, <2>1, DecodedPayloads, Texts, TextIsSound
<1>3. CASE IsFloat(v)
  <2>1. CoerceString(v) = StrTerm(FloatText(v[2]))
    BY <1>0, <1>3, OneTag, Zenon DEF CoerceString
  <2> QED BY <1>3, <2>1, DecodedPayloads, Texts, TextIsSound
<1>4. CASE IsBool(v)
  <2>1. CoerceString(v) = StrTerm(<<"text", IF v[2] THEN "true" ELSE "false">>)
    BY <1>0, <1>4, OneTag, Zenon DEF CoerceString
  <2> QED BY <2>1, Texts, TextIsSound
<1>5. CASE Tag(v) = "atom"
  <2>1. CoerceString(v) = StrTerm(<<"text", v[2]>>)
    BY <1>0, <1>5, OneTag, Zenon DEF CoerceString
  <2> QED BY <2>1, Texts, TextIsSound
<1>6. CASE ~(IsStr(v) \/ IsI64(v) \/ IsFloat(v) \/ IsBool(v) \/ Tag(v) = "atom")
  <2>1. CoerceString(v) = StrTerm(EmptyText)
    BY <1>6, Zenon DEF CoerceString
  <2> QED BY <2>1, Texts, TextIsSound DEF EmptyText
<1> QED BY <1>1, <1>2, <1>3, <1>4, <1>5, <1>6

\* A stringified value is a sound string.
LEMMA StringOfSound ==
    ASSUME NEW v, WellFormed(v)
    PROVE  Sound(StringOf(v)) /\ IsStr(StringOf(v))
<1>1. CASE IsList(v) \/ IsMap(v)
  <2>1. StringOf(v) = StrTerm(<<"json", JsonOf(v)>>)
    BY <1>1 DEF StringOf
  <2> QED BY <2>1, Texts, TextIsSound
<1>2. CASE ~(IsList(v) \/ IsMap(v))
  <2>1. StringOf(v) = CoerceString(v)
    BY <1>2 DEF StringOf
  <2> QED BY <2>1, CoercedStringSound
<1> QED BY <1>1, <1>2

\* Entries whose values are strings.
StringEntries(s) == SoundEntries(s) /\ \A k \in DOMAIN s : IsStr(s[k].value)

\* Putting sequences of them one after another.
LEMMA FlattenStrings ==
    ASSUME NEW ss, IsSequence(ss), \A k \in DOMAIN ss : StringEntries(ss[k])
    PROVE  StringEntries(FlattenSeq(ss))
<1>1. SoundEntries(FlattenSeq(ss))
  BY FlattenSound DEF StringEntries
<1>2. PICK flat : flat = FlattenSeq(ss)
  OBVIOUS
<1>3. ASSUME NEW k \in DOMAIN flat PROVE IsStr(flat[k].value)
  <2>1. flat[k] \in ToSet(flat)
    BY DEF ToSet
  <2>2. \A x \in ToSet(FlattenSeq(ss)) : \E j \in DOMAIN ss : x \in ToSet(ss[j])
    BY FlattenSequences DEF SoundEntries, StringEntries
  <2>3. PICK j \in DOMAIN ss : flat[k] \in ToSet(ss[j])
    BY <1>2, <2>1, <2>2
  <2>4. PICK i \in DOMAIN ss[j] : flat[k] = ss[j][i]
    BY <2>3 DEF ToSet
  <2> QED BY <2>4 DEF StringEntries
<1> QED BY <1>1, <1>2, <1>3 DEF StringEntries

\* No entries, and one.
LEMMA FewEntries ==
    /\ StringEntries(<<>>)
    /\ \A e : Sound(e.value) /\ IsStr(e.value) => StringEntries(<<e>>)
<1>1. DOMAIN <<>> = {}
  OBVIOUS
<1>2. StringEntries(<<>>)
  BY <1>1, EmptySequence, Zenon DEF SoundEntries, StringEntries
<1>3. ASSUME NEW e, Sound(e.value), IsStr(e.value) PROVE StringEntries(<<e>>)
  BY <1>3, OneEntry DEF SoundEntries, StringEntries
<1> QED BY <1>2, <1>3

\* Stringifying sound entries gives string entries.
LEMMA StringifiedEntries ==
    ASSUME NEW s, SoundEntries(s)
    PROVE  StringEntries(StringifyAll(s))
<1>1. PICK ss : ss = [k \in DOMAIN s |-> Stringified(s[k])]
  OBVIOUS
<1>2. IsSequence(ss) /\ DOMAIN ss = DOMAIN s
  BY <1>1, MapSequence DEF SoundEntries
<1>3. ASSUME NEW k \in DOMAIN ss PROVE StringEntries(ss[k])
  <2>1. PICK e : e = s[k] /\ Sound(e.value) /\ ss[k] = Stringified(e)
    BY <1>1, <1>2 DEF SoundEntries
  <2>2. CASE e.value = Nil
    <3>1. ss[k] = <<>>
      BY <2>1, <2>2 DEF Stringified
    <3> QED BY <3>1, FewEntries
  <2>3. CASE e.value # Nil
    <3>1. PICK d : d = Entry(e.key, StringOf(e.value)) /\ d.value = StringOf(e.value)
      BY EntryParts
    <3>2. ss[k] = <<d>>
      BY <2>1, <2>3, <3>1 DEF Stringified
    <3>3. Sound(d.value) /\ IsStr(d.value)
      BY <2>1, <3>1, StringOfSound, SoundParts
    <3> QED BY <3>2, <3>3, FewEntries
  <2> QED BY <2>2, <2>3
<1> QED BY <1>1, <1>2, <1>3, FlattenStrings DEF StringifyAll

\* A map built from entries has for each key the value of one of its entries.
LEMMA BuiltFrom ==
    ASSUME NEW s, IsSequence(s)
    PROVE  LET f == BuildFlatMap(s)[2] IN
           /\ BuildFlatMap(s) = MapTerm(f) /\ IsFiniteSet(DOMAIN f)
           /\ \A key \in DOMAIN f : \E k \in DOMAIN s : f[key] = s[k].value
<1>1. Len(s) \in Nat /\ DOMAIN s = 1..Len(s)
  BY SequenceElim
<1>2. PICK f : f = [key \in {s[k].key : k \in DOMAIN s} |->
                       s[SelectLastInSeq(s, LAMBDA e : e.key = key)].value]
  OBVIOUS
<1>3. BuildFlatMap(s) = MapTerm(f)
  BY <1>2, Zenon DEF BuildFlatMap
<1>4. MapTerm(f)[2] = f
  BY DEF MapTerm
<1>5. IsFiniteSet(DOMAIN f)
  <2>1. PICK g : g = [k \in DOMAIN s |-> s[k].key]
    OBVIOUS
  <2>2. DOMAIN f = {g[k] : k \in DOMAIN s}
    BY <1>2, <2>1
  <2>3. PICK S : S = DOMAIN s /\ IsFiniteSet(S)
    <3>1. IsFiniteSet(1..Len(s))
      BY <1>1, FS_Interval
    <3> QED BY <1>1, <3>1
  <2>4. IsFiniteSet({g[k] : k \in S})
    BY <2>3, FiniteImage
  <2> QED BY <2>2, <2>3, <2>4
<1>6. ASSUME NEW key \in DOMAIN f PROVE \E k \in DOMAIN s : f[key] = s[k].value
  <2>1. PICK I : I = {i \in 1..Len(s) : s[i].key = key}
    OBVIOUS
  <2>2. I # {} /\ I \in SUBSET (1..Len(s))
    BY <1>1, <1>2, <2>1
  <2>3. SelectLastInSeq(s, LAMBDA e : e.key = key) = Max(I)
    BY <2>1, <2>2, Zenon DEF SelectLastInSeq
  <2>4. PICK m : m = Max(I) /\ m \in 1..Len(s)
    BY <1>1, <2>2, LastIn
  <2>5. f[key] = s[m].value
    BY <1>2, <2>3, <2>4
  <2> QED BY <1>1, <2>4, <2>5
<1> QED BY <1>3, <1>4, <1>5, <1>6

\* A map built from sound entries is sound, and one built from strings has strings.
LEMMA BuiltIsSound ==
    ASSUME NEW s, SoundEntries(s)
    PROVE  /\ Sound(BuildFlatMap(s)) /\ IsMap(BuildFlatMap(s))
           /\ StringEntries(s) => IsStringMap(BuildFlatMap(s))
<1>1. PICK v : v = BuildFlatMap(s)
  OBVIOUS
<1>2. /\ v = MapTerm(v[2]) /\ IsFiniteSet(DOMAIN v[2])
      /\ \A key \in DOMAIN v[2] : \E k \in DOMAIN s : v[2][key] = s[k].value
  BY <1>1, BuiltFrom DEF SoundEntries
<1>3. SoundFields(v[2])
  BY <1>2 DEF SoundFields, SoundEntries
<1>4. IsMap(v)
  BY <1>2 DEF MapTerm, IsMap, Tag
<1>5. StringEntries(s) => \A k \in DOMAIN v[2] : IsStr(v[2][k])
  BY <1>2 DEF StringEntries
<1> QED BY <1>1, <1>2, <1>3, <1>4, <1>5, SoundContainers DEF IsStringMap
=============================================================================
