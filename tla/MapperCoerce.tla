---------------------------- MODULE MapperCoerce ----------------------------
(* Scalar coercion, transforms, value maps and derived columns of the mapper   *)
(* (src/native/mapper_ex/src/coerce.rs, string_filters.rs, derive.rs), and     *)
(* which terms each ClickHouse scalar encoder accepts                          *)
(* (clickhouse_rowbinary.rs).  No operator here is recursive: the proofs of    *)
(* MapperEncodeProofs.tla are about this module.                               *)
EXTENDS MapperTerm

CONSTANTS
    U8Max, U32Max, I32Max, I8Max,      \* 255, 2^32 - 1, 2^31 - 1, 127
    SecondsMax, MillisMax, MicrosMax,  \* largest value read in each unit
    decimalScale,                      \* decimalScale[k] is 10^k
    SeverityMax,                       \* OTEL_SEVERITY_MAX: 24
    lowerOf, upperOf,                  \* word |-> the word in that case
    SizeOf(_),                         \* bytes of a string's content
    ClassesOf(_)                       \* the character classes it satisfies

ASSUME WidthAssumption ==
    /\ {U8Max, U32Max, I32Max, I8Max, SecondsMax, MillisMax, MicrosMax,
        SeverityMax} \subseteq Nat
    /\ I8Max <= I32Max /\ I32Max <= I64Max
    /\ 1 <= SeverityMax /\ SeverityMax <= U8Max /\ U8Max <= U32Max /\ U32Max <= U64Max
    /\ SecondsMax < MillisMax /\ MillisMax < MicrosMax /\ MicrosMax < I64Max

ASSUME ScaleAssumption ==
    /\ decimalScale \in [0..9 -> Nat \ {0}]
    /\ decimalScale[0] = 1

ScalarTypes == {"string", "uint8", "uint32", "uint64", "int32", "float64",
                "bool", "enum8", "datetime64"}

UintMax(ty) ==
    CASE ty = "uint8" -> U8Max [] ty = "uint32" -> U32Max [] OTHER -> U64Max
-----------------------------------------------------------------------------
(* Timestamps.                                                                 *)

Magnitude(n) == IF n < 0 THEN -n ELSE n

\* The unit of a unix timestamp, told from its number of digits.
DetectPrecision(n) ==
    IF Magnitude(n) <= SecondsMax THEN 0
    ELSE IF Magnitude(n) <= MillisMax THEN 3
    ELSE IF Magnitude(n) <= MicrosMax THEN 6 ELSE 9

Scale(n, from, to) ==
    IF from = to THEN n
    ELSE IF from < to
    THEN Clamp(n * decimalScale[to - from], -I64Max - 1, I64Max)
    ELSE Quotient(n, decimalScale[from - to])
-----------------------------------------------------------------------------
(* One coercion per target type.                                               *)

IntegerLiteral(v) == IsStr(v) /\ v[2][1] = "num"
IsIntegerTerm(v)  == IsInt(v) \/ IntegerLiteral(v)

CoerceString(v) ==
    CASE IsStr(v)            -> v
      [] IsI64(v)            -> StrTerm(<<"num", v[2]>>)
      [] IsFloat(v)          -> StrTerm(FloatText(v[2]))
      [] IsBool(v)           -> StrTerm(<<"text", IF v[2] THEN "true" ELSE "false">>)
      [] Tag(v) = "atom"     -> StrTerm(<<"text", v[2]>>)
      [] OTHER               -> StrTerm(EmptyText)

\* Integers of any magnitude and integer literals saturate to 0..max.
CoerceUint(v, max) ==
    CASE IsInt(v)            -> IntTerm(Clamp(v[2], 0, max))
      [] IsFloat(v)          -> IntTerm(Clamp(Quotient(v[2], 2), 0, max))
      [] IntegerLiteral(v)   -> IntTerm(Clamp(v[2][2], 0, max))
      [] IsBool(v)           -> IntTerm(IF v[2] THEN 1 ELSE 0)
      [] OTHER               -> IntTerm(0)

CoerceInt32(v) ==
    CASE IsI64(v)            -> IntTerm(Clamp(v[2], -I32Max - 1, I32Max))
      [] IsFloat(v)          -> IntTerm(Clamp(Quotient(v[2], 2), -I32Max - 1, I32Max))
      [] IntegerLiteral(v) /\ v[2][2] \in (-I32Max - 1)..I32Max -> IntTerm(v[2][2])
      [] OTHER               -> IntTerm(0)

\* Text that parses as an f64: any literal, however long, and the words above.
\* A literal past the largest float parses as an infinity.
IsLiteral(c) == c[1] \in {"num", "dec"}
Halves(c)    == IF c[1] = "num" THEN 2 * c[2] ELSE c[2]
NonFinite(c) == \/ IsLiteral(c) /\ Magnitude(Halves(c)) > F64Max
                \/ c[1] = "text" /\ c[2] \in NonFiniteWords

ReadsNonFinite(v) == IsStr(v) /\ NonFinite(v[2])
ReadsFinite(v)    == IsStr(v) /\ IsLiteral(v[2]) /\ ~NonFinite(v[2])

CoerceFloat64(v) ==
    CASE IsFloat(v)        -> v
      [] IsI64(v)          -> FloatTerm(2 * v[2])
      [] ReadsNonFinite(v) -> NonValue
      [] ReadsFinite(v)    -> FloatTerm(Halves(v[2]))
      [] OTHER             -> FloatTerm(0)

CoerceBool(v) ==
    CASE IsBool(v)           -> v
      [] IsStr(v)            ->
            BoolTerm(\/ v[2] = <<"num", 1>>
                     \/ v[2][1] = "text" /\ lowerOf[v[2][2]] = "true")
      [] IsI64(v)            -> BoolTerm(v[2] # 0)
      [] OTHER               -> BoolTerm(FALSE)

CoerceEnum8(v) ==
    IF IsI64(v) THEN IntTerm(Clamp(v[2], -I8Max - 1, I8Max)) ELSE IntTerm(0)

CoerceDateTime64(v, precision) ==
    CASE IsI64(v) -> IntTerm(Scale(v[2], DetectPrecision(v[2]), precision))
      [] IsStr(v) /\ v[2][1] = "time" -> IntTerm(Scale(v[2][2], 9, precision))
      [] OTHER    -> IntTerm(0)

\* nil becomes the type's zero; only a datetime64 lets it through.
CoerceNil(ty) ==
    CASE ty = "string"     -> StrTerm(EmptyText)
      [] ty \in {"uint8", "uint32", "uint64", "int32", "enum8"} -> IntTerm(0)
      [] ty = "float64"    -> FloatTerm(0)
      [] ty = "bool"       -> BoolTerm(FALSE)
      [] OTHER             -> Nil

Coerce(v, ty, precision) ==
    IF v = Nil THEN CoerceNil(ty)
    ELSE CASE ty = "string"     -> CoerceString(v)
           [] ty \in {"uint8", "uint32", "uint64"} -> CoerceUint(v, UintMax(ty))
           [] ty = "int32"      -> CoerceInt32(v)
           [] ty = "float64"    -> CoerceFloat64(v)
           [] ty = "bool"       -> CoerceBool(v)
           [] ty = "enum8"      -> CoerceEnum8(v)
           [] ty = "datetime64" -> CoerceDateTime64(v, precision)
           [] OTHER             -> v
-----------------------------------------------------------------------------
(* What the RowBinary encoder of a scalar type accepts.                        *)

Encodes(v, ty) ==
    CASE ty = "string"  -> IsStr(v)
      [] ty = "uint8"   -> IsU64(v) /\ v[2] <= U8Max
      [] ty = "uint32"  -> IsU64(v) /\ v[2] <= U32Max
      [] ty = "uint64"  -> IsU64(v)
      [] ty = "int8"    -> IsI64(v) /\ -I8Max - 1 <= v[2] /\ v[2] <= I8Max
      [] ty = "int32"   -> IsI64(v) /\ -I32Max - 1 <= v[2] /\ v[2] <= I32Max
      [] ty = "int64"   -> IsI64(v)
      [] ty = "nullable_int64" -> v = Nil \/ IsI64(v)
      [] ty = "float64" -> IsFloat(v) \/ IsI64(v)
      [] ty = "bool"    -> IsBool(v)
      [] OTHER          -> FALSE
-----------------------------------------------------------------------------
(* Value maps, transforms and filters.                                         *)

\* case_insensitive_get: the map's keys were lowercased when it was compiled.
Listed(v, map) == IsStr(v) /\ v[2][1] = "text" /\ lowerOf[v[2][2]] \in DOMAIN map
Looked(v, map) == map[lowerOf[v[2][2]]]

ApplyTransform(v, transform) ==
    IF IsStr(v) /\ v[2][1] = "text" /\ transform # "none"
    THEN StrTerm(<<"text", (IF transform = "upcase" THEN upperOf ELSE lowerOf)[v[2][2]]>>)
    ELSE v

\* Each length bound is a set: empty when unset, else the one bound.
PassesFilters(c, filters) ==
    /\ \A n \in filters.len_eq  : SizeOf(c) = n
    /\ \A n \in filters.len_gt  : SizeOf(c) > n
    /\ \A n \in filters.len_gte : SizeOf(c) >= n
    /\ \A n \in filters.len_lt  : SizeOf(c) < n
    /\ \A n \in filters.len_lte : SizeOf(c) <= n
    /\ \A class \in filters.char_class : class \in ClassesOf(c)

\* ResolveOptions::accepts
Accepts(v, options) ==
    /\ options.skip_empty_strings /\ IsStr(v) =>
           v[2] # EmptyText /\ PassesFilters(v[2], options.string_filters)
    /\ options.strict_uint => IsIntegerTerm(v)
-----------------------------------------------------------------------------
(* Derived columns, shared by the RowBinary and the NDJSON writers.            *)

SeverityNumber(alt, mapped) == IF alt \in 1..SeverityMax THEN alt ELSE mapped

Duration(explicit, start, end, precision) ==
    IF explicit # 0
    THEN Clamp(explicit \div decimalScale[IF precision > 9 THEN 0 ELSE 9 - precision],
               1, U64Max)
    ELSE IF IsI64(start) /\ IsI64(end) /\ end[2] > start[2]
    THEN end[2] - start[2] ELSE 0
=============================================================================
