------------------------- MODULE MapperEncodeProofs -------------------------
(***************************************************************************)
(* Every value the mapper keeps is one the encoder of its column takes,    *)
(* for any widths, scales, terms, documents, configurations and orders of  *)
(* the root slots.                                                         *)
(*                                                                         *)
(* First the scalar layer: what a coercion returns is what the encoder of  *)
(* its column accepts, except that a text no finite float is, coerced to   *)
(* one, returns no term and raises (ScalarEncodesOrRaises); coercing a     *)
(* value again changes nothing.                                            *)
(*                                                                         *)
(* Then whole calls.  That values encode needs every value of the call,    *)
(* not the last alone: a field may take the output of an earlier one.  The *)
(* invariant is ValuesFit: each value mapped so far is sound (Sound: a     *)
(* term, or built of terms by the mapper's own containers) and fits its    *)
(* field (ValueFits); resolving, coercing and elevating lead from sound    *)
(* values to sound values, or to a call that raises.                       *)
(***************************************************************************)
EXTENDS MapperValueProofs

\* The encoder of a scalar column (clickhouse_rowbinary.rs).
ScalarWire(ty) ==
    CASE ty = "enum8" -> "int8" [] ty = "datetime64" -> "int64" [] OTHER -> ty
-----------------------------------------------------------------------------
\* Division towards zero is an integer between zero and its dividend.
LEMMA QuotientInteger ==
    ASSUME NEW n \in Int, NEW d \in Nat \ {0}
    PROVE  /\ Quotient(n, d) \in Int
           /\ n >= 0 => 0 <= Quotient(n, d) /\ Quotient(n, d) <= n
           /\ n < 0  => n <= Quotient(n, d) /\ Quotient(n, d) <= 0
<1>1. CASE n >= 0
  <2>1. n \div d \in Int /\ 0 <= n \div d /\ n \div d <= n
    BY <1>1
  <2> QED BY <1>1, <2>1 DEF Quotient
<1>2. CASE n < 0
  <2> DEFINE m == -n
  <2>1. m \in Int /\ m > 0
    BY <1>2
  <2> HIDE DEF m
  <2>2. m \div d \in Int /\ 0 <= m \div d /\ m \div d <= m
    BY <2>1
  <2> QED BY <1>2, <2>1, <2>2 DEF Quotient, m
<1> QED BY <1>1, <1>2
\* Whatever the event sent, an unsigned value is within its width (coerce_uint).
LEMMA CoerceUintInRange ==
    ASSUME NEW v, WellFormed(v), NEW max \in Nat, 1 <= max
    PROVE  \E n \in 0..max : CoerceUint(v, max) = IntTerm(n)
<1>0. IntegerLiteral(v) => IsStr(v)
  BY DEF IntegerLiteral
<1>1. CASE IsInt(v)
  <2>1. CoerceUint(v, max) = IntTerm(Clamp(v[2], 0, max))
    BY <1>0, <1>1, OneTag, Zenon DEF CoerceUint
  <2>2. v[2] \in Int
    BY <1>1, DecodedPayloads
  <2>3. Clamp(v[2], 0, max) \in 0..max
    BY <2>2 DEF Clamp
  <2> QED BY <2>1, <2>3
<1>2. CASE IsFloat(v)
  <2>1. CoerceUint(v, max) = IntTerm(Clamp(Quotient(v[2], 2), 0, max))
    BY <1>0, <1>2, OneTag, Zenon DEF CoerceUint
  <2>2. v[2] \in Int /\ Quotient(v[2], 2) \in Int
    BY <1>2, DecodedPayloads, QuotientInteger
  <2>3. Clamp(Quotient(v[2], 2), 0, max) \in 0..max
    BY <2>2 DEF Clamp
  <2> QED BY <2>1, <2>3
<1>3. CASE IntegerLiteral(v)
  <2>1. CoerceUint(v, max) = IntTerm(Clamp(v[2][2], 0, max))
    BY <1>0, <1>3, OneTag, Zenon DEF CoerceUint
  <2>2. v[2][2] \in Int
    BY <1>3, DecodedPayloads
  <2>3. Clamp(v[2][2], 0, max) \in 0..max
    BY <2>2 DEF Clamp
  <2> QED BY <2>1, <2>3
<1>4. CASE IsBool(v)
  <2>1. CoerceUint(v, max) = IntTerm(IF v[2] THEN 1 ELSE 0)
    BY <1>0, <1>4, OneTag, Zenon DEF CoerceUint
  <2> QED BY <2>1
<1>5. CASE ~IsInt(v) /\ ~IsFloat(v) /\ ~IntegerLiteral(v) /\ ~IsBool(v)
  <2>1. CoerceUint(v, max) = IntTerm(0)
    BY <1>5, Zenon DEF CoerceUint
  <2> QED BY <2>1
<1> QED BY <1>1, <1>2, <1>3, <1>4, <1>5
\* Whatever the event sent, an int32 is a 32-bit integer (coerce_int32).
LEMMA CoerceInt32InRange ==
    ASSUME NEW v, WellFormed(v)
    PROVE  \E n \in (-I32Max - 1)..I32Max : CoerceInt32(v) = IntTerm(n)
<1>0. /\ I32Max \in Nat
      /\ IntegerLiteral(v) => IsStr(v)
      /\ IsI64(v) => IsInt(v)
  BY WidthAssumption DEF IntegerLiteral, IsI64
<1>1. CASE IsI64(v)
  <2>1. CoerceInt32(v) = IntTerm(Clamp(v[2], -I32Max - 1, I32Max))
    BY <1>0, <1>1, OneTag, Zenon DEF CoerceInt32
  <2>2. v[2] \in Int
    BY <1>0, <1>1, DecodedPayloads
  <2>3. Clamp(v[2], -I32Max - 1, I32Max) \in (-I32Max - 1)..I32Max
    BY <1>0, <2>2 DEF Clamp
  <2> QED BY <2>1, <2>3
<1>2. CASE IsFloat(v)
  <2>1. CoerceInt32(v) = IntTerm(Clamp(Quotient(v[2], 2), -I32Max - 1, I32Max))
    BY <1>0, <1>2, OneTag, Zenon DEF CoerceInt32
  <2>2. v[2] \in Int /\ Quotient(v[2], 2) \in Int
    BY <1>2, DecodedPayloads, QuotientInteger
  <2>3. Clamp(Quotient(v[2], 2), -I32Max - 1, I32Max) \in (-I32Max - 1)..I32Max
    BY <1>0, <2>2 DEF Clamp
  <2> QED BY <2>1, <2>3
<1>3. CASE IntegerLiteral(v) /\ v[2][2] \in (-I32Max - 1)..I32Max
  <2>1. CoerceInt32(v) = IntTerm(v[2][2])
    BY <1>0, <1>3, OneTag, Zenon DEF CoerceInt32
  <2> QED BY <1>3, <2>1
<1>4. CASE /\ ~IsI64(v) /\ ~IsFloat(v)
           /\ ~(IntegerLiteral(v) /\ v[2][2] \in (-I32Max - 1)..I32Max)
  <2>1. CoerceInt32(v) = IntTerm(0)
    BY <1>4, Zenon DEF CoerceInt32
  <2>2. 0 \in (-I32Max - 1)..I32Max
    BY <1>0
  <2> QED BY <2>1, <2>2
<1> QED BY <1>1, <1>2, <1>3, <1>4
\* Whatever the event sent, an enum8 is an 8-bit integer (coerce_enum8).
LEMMA CoerceEnum8InRange ==
    ASSUME NEW v, WellFormed(v)
    PROVE  \E n \in (-I8Max - 1)..I8Max : CoerceEnum8(v) = IntTerm(n)
<1>0. I8Max \in Nat /\ (IsI64(v) => IsInt(v))
  BY WidthAssumption DEF IsI64
<1>1. CASE IsI64(v)
  <2>1. v[2] \in Int
    BY <1>0, <1>1, DecodedPayloads
  <2>2. Clamp(v[2], -I8Max - 1, I8Max) \in (-I8Max - 1)..I8Max
    BY <1>0, <2>1 DEF Clamp
  <2> QED BY <1>1, <2>2 DEF CoerceEnum8
<1>2. CASE ~IsI64(v)
  BY <1>0, <1>2 DEF CoerceEnum8
<1> QED BY <1>1, <1>2

\* A float64 is a float, unless it reads a text that no finite float is
\* (coerce_float64).
LEMMA CoerceFloat64Result ==
    ASSUME NEW v, WellFormed(v)
    PROVE  /\ ReadsNonFinite(v) => CoerceFloat64(v) = NonValue
           /\ ~ReadsNonFinite(v) => \E h \in Int : CoerceFloat64(v) = FloatTerm(h)
<1>0. /\ ReadsNonFinite(v) => IsStr(v)
      /\ ReadsFinite(v) => IsStr(v) /\ ~ReadsNonFinite(v) /\ IsLiteral(v[2])
      /\ IsI64(v) => IsInt(v)
  BY DEF ReadsNonFinite, ReadsFinite, IsI64
<1>1. CASE ReadsNonFinite(v)
  BY <1>0, <1>1, OneTag, Zenon DEF CoerceFloat64
<1>2. CASE IsFloat(v)
  <2>1. CoerceFloat64(v) = v
    BY <1>0, <1>2, OneTag, Zenon DEF CoerceFloat64
  <2> QED BY <1>0, <1>2, <2>1, OneTag, DecodedPayloads
<1>3. CASE IsI64(v)
  <2>1. CoerceFloat64(v) = FloatTerm(2 * v[2])
    BY <1>0, <1>3, OneTag, Zenon DEF CoerceFloat64
  <2>2. v[2] \in Int /\ ~ReadsNonFinite(v)
    BY <1>0, <1>3, OneTag, DecodedPayloads
  <2> QED BY <2>1, <2>2
<1>4. CASE ReadsFinite(v)
  <2>1. CoerceFloat64(v) = FloatTerm(Halves(v[2]))
    BY <1>0, <1>4, OneTag, Zenon DEF CoerceFloat64
  <2>2. Halves(v[2]) \in Int
    BY <1>0, <1>4, DecodedPayloads DEF Halves, IsLiteral, IntegerLiteral
  <2> QED BY <1>0, <1>4, <2>1, <2>2
<1>5. CASE ~IsFloat(v) /\ ~IsI64(v) /\ ~ReadsNonFinite(v) /\ ~ReadsFinite(v)
  <2>1. CoerceFloat64(v) = FloatTerm(0)
    BY <1>5, Zenon DEF CoerceFloat64
  <2> QED BY <1>5, <2>1
<1> QED BY <1>1, <1>2, <1>3, <1>4, <1>5

\* Whatever the event sent, a bool is a boolean (coerce_bool).
LEMMA CoerceBoolIsBool ==
    ASSUME NEW v
    PROVE  IsBool(CoerceBool(v))
<1>0. IsI64(v) => IsInt(v)
  BY DEF IsI64
<1>1. \A b : IsBool(BoolTerm(b))
  BY DEF IsBool, BoolTerm, Tag
<1>2. CASE IsBool(v)
  <2>1. CoerceBool(v) = v
    BY <1>0, <1>2, OneTag, Zenon DEF CoerceBool
  <2> QED BY <1>2, <2>1
<1>3. CASE IsStr(v)
  <2>1. \E b : CoerceBool(v) = BoolTerm(b)
    BY <1>0, <1>3, OneTag, Zenon DEF CoerceBool
  <2> QED BY <1>1, <2>1
<1>4. CASE IsI64(v)
  <2>1. CoerceBool(v) = BoolTerm(v[2] # 0)
    BY <1>0, <1>4, OneTag, Zenon DEF CoerceBool
  <2> QED BY <1>1, <2>1
<1>5. CASE ~IsBool(v) /\ ~IsStr(v) /\ ~IsI64(v)
  <2>1. CoerceBool(v) = BoolTerm(FALSE)
    BY <1>5, Zenon DEF CoerceBool
  <2> QED BY <1>1, <2>1
<1> QED BY <1>2, <1>3, <1>4, <1>5

\* Whatever the event sent, a string is a string (coerce_string).
LEMMA CoerceStringIsStr ==
    ASSUME NEW v
    PROVE  IsStr(CoerceString(v))
<1>0. IsI64(v) => IsInt(v)
  BY DEF IsI64
<1>1. \A c : IsStr(StrTerm(c))
  BY DEF IsStr, StrTerm, Tag
<1>2. CASE IsStr(v)
  <2>1. CoerceString(v) = v
    BY <1>0, <1>2, OneTag, Zenon DEF CoerceString
  <2> QED BY <1>2, <2>1
<1>3. CASE ~IsStr(v)
  <2>1. \E c : CoerceString(v) = StrTerm(c)
    <3>1. CASE IsI64(v)
      BY <1>0, <3>1, OneTag, Zenon DEF CoerceString
    <3>2. CASE IsFloat(v)
      BY <1>0, <3>2, OneTag, Zenon DEF CoerceString
    <3>3. CASE IsBool(v)
      BY <1>0, <3>3, OneTag, Zenon DEF CoerceString
    <3>4. CASE Tag(v) = "atom"
      BY <1>0, <3>4, OneTag, Zenon DEF CoerceString
    <3>5. CASE ~IsI64(v) /\ ~IsFloat(v) /\ ~IsBool(v) /\ Tag(v) # "atom"
      BY <1>3, <3>5, Zenon DEF CoerceString
    <3> QED BY <3>1, <3>2, <3>3, <3>4, <3>5
  <2> QED BY <1>1, <2>1
<1> QED BY <1>2, <1>3

\* A scaled timestamp stays within 64 bits.
LEMMA ScaleInRange ==
    ASSUME NEW n \in (-I64Max - 1)..I64Max, NEW from \in 0..9, NEW to \in 0..9
    PROVE  Scale(n, from, to) \in (-I64Max - 1)..I64Max
<1>0. I64Max \in Nat /\ n \in Int
  BY IntegerBoundsAssumption
<1>1. CASE from = to
  BY <1>1 DEF Scale
<1>2. CASE from < to
  <2>1. decimalScale[to - from] \in Int
    BY <1>2, ScaleAssumption
  <2> DEFINE m == n * decimalScale[to - from]
  <2>2. m \in Int
    BY <1>0, <2>1
  <2>3. Scale(n, from, to) = Clamp(m, -I64Max - 1, I64Max)
    BY <1>2 DEF Scale
  <2> HIDE DEF m
  <2> QED BY <1>0, <2>2, <2>3 DEF Clamp
<1>3. CASE to < from
  <2>1. decimalScale[from - to] \in Nat \ {0}
    BY <1>3, ScaleAssumption
  <2>2. Scale(n, from, to) = Quotient(n, decimalScale[from - to])
    BY <1>3 DEF Scale
  <2> QED BY <1>0, <2>1, <2>2, QuotientInteger
<1> QED BY <1>1, <1>2, <1>3
\* Whatever the event sent, a datetime64 is a 64-bit integer (coerce_datetime64).
LEMMA CoerceDateTime64InRange ==
    ASSUME NEW v, WellFormed(v), NEW precision \in 0..9
    PROVE  \E n \in (-I64Max - 1)..I64Max : CoerceDateTime64(v, precision) = IntTerm(n)
<1> DEFINE time == IsStr(v) /\ v[2][1] = "time"
<1>0. I64Max \in Nat /\ (IsI64(v) => IsInt(v)) /\ (time => IsStr(v))
  BY IntegerBoundsAssumption DEF IsI64
<1>1. CASE IsI64(v)
  <2>1. CoerceDateTime64(v, precision) = IntTerm(Scale(v[2], DetectPrecision(v[2]), precision))
    BY <1>0, <1>1, OneTag, Zenon DEF CoerceDateTime64
  <2>2. v[2] \in (-I64Max - 1)..I64Max
    BY <1>0, <1>1, DecodedPayloads DEF IsI64
  <2>3. DetectPrecision(v[2]) \in 0..9
    BY DEF DetectPrecision
  <2> QED BY <2>1, <2>2, <2>3, ScaleInRange
<1>2. CASE time
  <2>1. CoerceDateTime64(v, precision) = IntTerm(Scale(v[2][2], 9, precision))
    BY <1>0, <1>2, OneTag, Zenon DEF CoerceDateTime64
  <2>2. v[2][2] \in (-I64Max - 1)..I64Max
    BY <1>2, DecodedPayloads
  <2>3. 9 \in 0..9
    OBVIOUS
  <2> QED BY <2>1, <2>2, <2>3, ScaleInRange
<1>3. CASE ~IsI64(v) /\ ~time
  <2>1. CoerceDateTime64(v, precision) = IntTerm(0)
    BY <1>3, Zenon DEF CoerceDateTime64
  <2> QED BY <1>0, <2>1
<1> QED BY <1>1, <1>2, <1>3
\* The largest values of the unsigned widths.
LEMMA UintMaxBounds ==
    ASSUME NEW ty \in {"uint8", "uint32", "uint64"}
    PROVE  /\ UintMax(ty) \in Nat /\ 1 <= UintMax(ty) /\ UintMax(ty) <= U64Max
           /\ UintMax("uint8") = U8Max /\ UintMax("uint32") = U32Max
<1>1. /\ UintMax("uint8") = U8Max /\ UintMax("uint32") = U32Max
      /\ UintMax("uint64") = U64Max
  BY Zenon DEF UintMax
<1> QED BY <1>1, WidthAssumption, IntegerBoundsAssumption

\* Which coercion a column type asks for.
LEMMA CoerceByType ==
    ASSUME NEW v, v # Nil, NEW precision
    PROVE  /\ Coerce(v, "string", precision) = CoerceString(v)
           /\ \A ty \in {"uint8", "uint32", "uint64"} :
                  Coerce(v, ty, precision) = CoerceUint(v, UintMax(ty))
           /\ Coerce(v, "int32", precision) = CoerceInt32(v)
           /\ Coerce(v, "float64", precision) = CoerceFloat64(v)
           /\ Coerce(v, "bool", precision) = CoerceBool(v)
           /\ Coerce(v, "enum8", precision) = CoerceEnum8(v)
           /\ Coerce(v, "datetime64", precision) = CoerceDateTime64(v, precision)
<1>1. Coerce(v, "string", precision) = CoerceString(v)
  BY Zenon DEF Coerce
<1>2. ASSUME NEW ty \in {"uint8", "uint32", "uint64"}
      PROVE  Coerce(v, ty, precision) = CoerceUint(v, UintMax(ty))
  BY Zenon DEF Coerce
<1>3. Coerce(v, "int32", precision) = CoerceInt32(v)
  BY Zenon DEF Coerce
<1>4. Coerce(v, "float64", precision) = CoerceFloat64(v)
  BY Zenon DEF Coerce
<1>5. Coerce(v, "bool", precision) = CoerceBool(v)
  BY Zenon DEF Coerce
<1>6. Coerce(v, "enum8", precision) = CoerceEnum8(v)
  BY Zenon DEF Coerce
<1>7. Coerce(v, "datetime64", precision) = CoerceDateTime64(v, precision)
  BY Zenon DEF Coerce
<1> QED BY <1>1, <1>2, <1>3, <1>4, <1>5, <1>6, <1>7
\* The zero of every type but a time, and that coercing keeps out of nil.
LEMMA CoerceNilByType ==
    /\ CoerceNil("string") = StrTerm(EmptyText)
    /\ \A ty \in {"uint8", "uint32", "uint64", "int32", "enum8"} : CoerceNil(ty) = IntTerm(0)
    /\ CoerceNil("float64") = FloatTerm(0)
    /\ CoerceNil("bool") = BoolTerm(FALSE)
<1>1. CoerceNil("string") = StrTerm(EmptyText)
  BY Zenon DEF CoerceNil
<1>2. ASSUME NEW ty \in {"uint8", "uint32", "uint64", "int32", "enum8"}
      PROVE  CoerceNil(ty) = IntTerm(0)
  BY Zenon DEF CoerceNil
<1>3. CoerceNil("float64") = FloatTerm(0)
  BY Zenon DEF CoerceNil
<1>4. CoerceNil("bool") = BoolTerm(FALSE)
  BY Zenon DEF CoerceNil
<1> QED BY <1>1, <1>2, <1>3, <1>4

\* What a coerced value of a type looks like.
InRange(w, ty) ==
    /\ ty = "string" => IsStr(w)
    /\ ty \in {"uint8", "uint32", "uint64"} => \E n \in 0..UintMax(ty) : w = IntTerm(n)
    /\ ty = "int32" => \E n \in (-I32Max - 1)..I32Max : w = IntTerm(n)
    /\ ty = "float64" => IsFloat(w)
    /\ ty = "bool" => IsBool(w)
    /\ ty = "enum8" => \E n \in (-I8Max - 1)..I8Max : w = IntTerm(n)
    /\ ty = "datetime64" => \E n \in (-I64Max - 1)..I64Max : w = IntTerm(n)

\* A coerced value is of its scalar type and within its width, a missing time and
\* a float that is none apart.
LEMMA CoercedInRange ==
    ASSUME NEW v, WellFormed(v), NEW ty \in ScalarTypes, NEW precision \in 0..9,
           v # Nil \/ ty # "datetime64", ~(ty = "float64" /\ ReadsNonFinite(v))
    PROVE  InRange(Coerce(v, ty, precision), ty)
<1>1. CASE v = Nil
  <2>1. Coerce(v, ty, precision) = CoerceNil(ty)
    BY <1>1 DEF Coerce
  <2>2. /\ IsStr(StrTerm(EmptyText)) /\ IsFloat(FloatTerm(0)) /\ IsBool(BoolTerm(FALSE))
        /\ \A t \in {"uint8", "uint32", "uint64"} : 0 \in 0..UintMax(t)
        /\ 0 \in (-I32Max - 1)..I32Max /\ 0 \in (-I8Max - 1)..I8Max
    BY UintMaxBounds, WidthAssumption
       DEF IsStr, StrTerm, IsFloat, FloatTerm, IsBool, BoolTerm, Tag
  <2>3. CASE ty = "string"
    BY <2>1, <2>2, <2>3, CoerceNilByType DEF InRange
  <2>4. CASE ty \in {"uint8", "uint32", "uint64"}
    <3>1. CoerceNil(ty) = IntTerm(0) /\ 0 \in 0..UintMax(ty)
      BY <2>2, <2>4, CoerceNilByType
    <3> QED BY <2>1, <2>4, <3>1 DEF InRange
  <2>5. CASE ty \in {"int32", "enum8"}
    <3>1. CoerceNil(ty) = IntTerm(0)
      BY <2>5, CoerceNilByType
    <3> QED BY <2>1, <2>2, <2>5, <3>1 DEF InRange
  <2>6. CASE ty = "float64"
    BY <2>1, <2>2, <2>6, CoerceNilByType DEF InRange
  <2>7. CASE ty = "bool"
    BY <2>1, <2>2, <2>7, CoerceNilByType DEF InRange
  <2>8. \/ ty = "string" \/ ty \in {"uint8", "uint32", "uint64"}
        \/ ty \in {"int32", "enum8"} \/ ty = "float64" \/ ty = "bool"
    BY <1>1 DEF ScalarTypes
  <2> QED BY <2>3, <2>4, <2>5, <2>6, <2>7, <2>8
<1>2. CASE v # Nil
  <2>1. CASE ty = "string"
    BY <1>2, <2>1, CoerceByType, CoerceStringIsStr DEF InRange
  <2>2. CASE ty \in {"uint8", "uint32", "uint64"}
    <3>1. Coerce(v, ty, precision) = CoerceUint(v, UintMax(ty))
      BY <1>2, <2>2, CoerceByType
    <3>2. \E n \in 0..UintMax(ty) : CoerceUint(v, UintMax(ty)) = IntTerm(n)
      BY <2>2, UintMaxBounds, CoerceUintInRange
    <3> QED BY <2>2, <3>1, <3>2 DEF InRange
  <2>3. CASE ty = "int32"
    BY <1>2, <2>3, CoerceByType, CoerceInt32InRange DEF InRange
  <2>4. CASE ty = "float64"
    <3>1. PICK h \in Int : CoerceFloat64(v) = FloatTerm(h)
      BY <2>4, CoerceFloat64Result
    <3>2. IsFloat(FloatTerm(h))
      BY DEF IsFloat, FloatTerm, Tag
    <3> QED BY <1>2, <2>4, <3>1, <3>2, CoerceByType DEF InRange
  <2>5. CASE ty = "bool"
    BY <1>2, <2>5, CoerceByType, CoerceBoolIsBool DEF InRange
  <2>6. CASE ty = "enum8"
    BY <1>2, <2>6, CoerceByType, CoerceEnum8InRange DEF InRange
  <2>7. CASE ty = "datetime64"
    <3>1. Coerce(v, "datetime64", precision) = CoerceDateTime64(v, precision)
      BY <1>2, CoerceByType
    <3>2. \E n \in (-I64Max - 1)..I64Max : CoerceDateTime64(v, precision) = IntTerm(n)
      BY CoerceDateTime64InRange
    <3> QED BY <2>7, <3>1, <3>2 DEF InRange
  <2>8. \/ ty = "string" \/ ty \in {"uint8", "uint32", "uint64"} \/ ty = "int32"
        \/ ty = "float64" \/ ty = "bool" \/ ty = "enum8" \/ ty = "datetime64"
    BY DEF ScalarTypes
  <2> QED BY <2>1, <2>2, <2>3, <2>4, <2>5, <2>6, <2>7, <2>8
<1> QED BY <1>1, <1>2

\* An integer that is in a column's range is one its encoder accepts.
LEMMA EncodesByType ==
    ASSUME NEW v
    PROVE  /\ IsStr(v) => Encodes(v, "string")
           /\ \A ty \in {"uint8", "uint32", "uint64"} :
                  (\E n \in 0..UintMax(ty) : v = IntTerm(n)) => Encodes(v, ty)
           /\ (\E n \in (-I32Max - 1)..I32Max : v = IntTerm(n)) => Encodes(v, "int32")
           /\ IsFloat(v) => Encodes(v, "float64")
           /\ IsBool(v) => Encodes(v, "bool")
           /\ (\E n \in (-I8Max - 1)..I8Max : v = IntTerm(n)) => Encodes(v, "int8")
           /\ (\E n \in (-I64Max - 1)..I64Max : v = IntTerm(n)) => Encodes(v, "int64")
<1>1. /\ Encodes(v, "string") <=> IsStr(v)
      /\ Encodes(v, "uint8") <=> IsU64(v) /\ v[2] <= U8Max
      /\ Encodes(v, "uint32") <=> IsU64(v) /\ v[2] <= U32Max
      /\ Encodes(v, "uint64") <=> IsU64(v)
      /\ Encodes(v, "int32") <=> IsI64(v) /\ -I32Max - 1 <= v[2] /\ v[2] <= I32Max
      /\ Encodes(v, "float64") <=> IsFloat(v) \/ IsI64(v)
      /\ Encodes(v, "bool") <=> IsBool(v)
      /\ Encodes(v, "int8") <=> IsI64(v) /\ -I8Max - 1 <= v[2] /\ v[2] <= I8Max
      /\ Encodes(v, "int64") <=> IsI64(v)
  BY Zenon DEF Encodes
<1>2. \A n \in 0..U64Max : v = IntTerm(n) => IsU64(v) /\ v[2] = n
  BY IntegerBoundsAssumption DEF IsU64, IsInt, IntTerm, Tag
<1>3. \A n \in (-I64Max - 1)..I64Max : v = IntTerm(n) => IsI64(v) /\ v[2] = n
  BY IntegerBoundsAssumption DEF IsI64, IsInt, IntTerm, Tag
<1>4. /\ UintMax("uint8") = U8Max /\ UintMax("uint32") = U32Max
      /\ UintMax("uint64") <= U64Max /\ UintMax("uint64") \in Nat
  BY UintMaxBounds
<1> QED BY <1>1, <1>2, <1>3, <1>4, WidthAssumption, IntegerBoundsAssumption

\* Only a float column coerces to no term, and only from a text that no finite float
\* is.
LEMMA CoercedNonValue ==
    ASSUME NEW v, WellFormed(v), NEW ty \in ScalarTypes, NEW precision \in 0..9,
           v # Nil \/ ty # "datetime64"
    PROVE  Coerce(v, ty, precision) = NonValue <=> ty = "float64" /\ ReadsNonFinite(v)
<1>1. CASE ty = "float64" /\ ReadsNonFinite(v)
  <2>1. v # Nil
    BY <1>1, OneTag DEF ReadsNonFinite
  <2>2. Coerce(v, "float64", precision) = CoerceFloat64(v)
    BY <2>1, CoerceByType
  <2> QED BY <1>1, <2>2, CoerceFloat64Result
<1>2. CASE ~(ty = "float64" /\ ReadsNonFinite(v))
  <2>1. PICK w : w = Coerce(v, ty, precision) /\ InRange(w, ty)
    BY <1>2, CoercedInRange
  <2>2. ~IsStr(NonValue) /\ ~IsFloat(NonValue) /\ ~IsBool(NonValue) /\ \A n : NonValue # IntTerm(n)
    BY DEF NonValue, IsStr, IsFloat, IsBool, IntTerm, Tag
  <2>3. w # NonValue
    BY <2>1, <2>2 DEF InRange, ScalarTypes
  <2> QED BY <1>2, <2>1, <2>3
<1> QED BY <1>1, <1>2

\* Whatever an event holds, a scalar column's coerced value is one its RowBinary
\* encoder accepts, two cases apart: a missing timestamp, and a text that no finite
\* float is in a column of floats, exactly where coercing makes no term and raises
\* (coerce.rs, coerce, against clickhouse_rowbinary.rs, encode_string to
\* encode_float64).
THEOREM ScalarEncodesOrRaises ==
    ASSUME NEW v, WellFormed(v), NEW ty \in ScalarTypes, NEW precision \in 0..9,
           v # Nil \/ ty # "datetime64"
    PROVE  IF ty = "float64" /\ ReadsNonFinite(v)
           THEN Coerce(v, ty, precision) = NonValue
           ELSE /\ Coerce(v, ty, precision) # NonValue
                /\ Encodes(Coerce(v, ty, precision), ScalarWire(ty))
<1>0. Coerce(v, ty, precision) = NonValue <=> ty = "float64" /\ ReadsNonFinite(v)
  BY CoercedNonValue
<1> SUFFICES ASSUME ~(ty = "float64" /\ ReadsNonFinite(v))
             PROVE  Encodes(Coerce(v, ty, precision), ScalarWire(ty))
  BY <1>0
<1>1. /\ \A t \in ScalarTypes \ {"enum8", "datetime64"} : ScalarWire(t) = t
      /\ ScalarWire("enum8") = "int8" /\ ScalarWire("datetime64") = "int64"
  BY Zenon DEF ScalarWire, ScalarTypes
<1> DEFINE w == Coerce(v, ty, precision)
<1>2. InRange(w, ty)
  BY CoercedInRange
<1> HIDE DEF w
<1>3. Encodes(w, ScalarWire(ty))
  BY <1>1, <1>2, EncodesByType DEF InRange, ScalarTypes
<1> QED BY <1>3 DEF w
\* Coercing a coerced value again changes nothing, times and what makes no term
\* apart: a from_output
\* field may read a column that was already coerced, under a type of its own
\* (coerce.rs, coerce; mapper.rs, resolve_value).
THEOREM CoerceIdempotent ==
    ASSUME NEW v, WellFormed(v), NEW ty \in ScalarTypes \ {"datetime64"},
           NEW precision \in 0..9, Coerce(v, ty, precision) # NonValue
    PROVE  Coerce(Coerce(v, ty, precision), ty, precision) = Coerce(v, ty, precision)
<1> DEFINE w == Coerce(v, ty, precision)
<1>1. InRange(w, ty)
  BY CoercedInRange, CoercedNonValue
<1> HIDE DEF w
<1>2. CASE ty = "string"
  <2>1. IsStr(w) /\ w # Nil
    BY <1>1, <1>2, OneTag DEF InRange
  <2>2. CoerceString(w) = w
    BY <2>1, OneTag, Zenon DEF CoerceString, IsI64
  <2> QED BY <1>2, <2>1, <2>2, CoerceByType DEF w
<1>3. CASE ty \in {"uint8", "uint32", "uint64"}
  <2>1. PICK n \in 0..UintMax(ty) : w = IntTerm(n)
    BY <1>1, <1>3 DEF InRange
  <2>2. UintMax(ty) \in Nat
    BY <1>3, UintMaxBounds
  <2>3. IsInt(w) /\ w # Nil /\ w[2] = n
    BY <2>1 DEF IsInt, IntTerm, Tag, Nil
  <2>4. CoerceUint(w, UintMax(ty)) = IntTerm(Clamp(w[2], 0, UintMax(ty)))
    BY <2>3, OneTag, Zenon DEF CoerceUint, IntegerLiteral
  <2>5. Clamp(w[2], 0, UintMax(ty)) = n
    BY <2>1, <2>2, <2>3 DEF Clamp
  <2>6. Coerce(w, ty, precision) = CoerceUint(w, UintMax(ty))
    BY <1>3, <2>3, CoerceByType
  <2> QED BY <2>1, <2>4, <2>5, <2>6 DEF w
<1>4. CASE ty = "int32"
  <2>0. I32Max \in Nat /\ I32Max <= I64Max /\ I64Max \in Nat
    BY WidthAssumption, IntegerBoundsAssumption
  <2>1. PICK n \in (-I32Max - 1)..I32Max : w = IntTerm(n)
    BY <1>1, <1>4 DEF InRange
  <2>2. IsInt(w) /\ IsI64(w) /\ w # Nil /\ w[2] = n
    BY <2>0, <2>1 DEF IsI64, IsInt, IntTerm, Tag, Nil
  <2>3. CoerceInt32(w) = IntTerm(Clamp(w[2], -I32Max - 1, I32Max))
    BY <2>2, OneTag, Zenon DEF CoerceInt32, IntegerLiteral
  <2>4. Clamp(w[2], -I32Max - 1, I32Max) = n
    BY <2>0, <2>1, <2>2 DEF Clamp
  <2>5. Coerce(w, "int32", precision) = CoerceInt32(w)
    BY <2>2, CoerceByType
  <2> QED BY <1>4, <2>1, <2>3, <2>4, <2>5 DEF w
<1>5. CASE ty = "float64"
  <2>1. IsFloat(w) /\ w # Nil
    BY <1>1, <1>5, OneTag DEF InRange
  <2>2. CoerceFloat64(w) = w
    BY <2>1, OneTag, Zenon DEF CoerceFloat64, IsI64, ReadsNonFinite, ReadsFinite
  <2> QED BY <1>5, <2>1, <2>2, CoerceByType DEF w
<1>6. CASE ty = "bool"
  <2>1. IsBool(w) /\ w # Nil
    BY <1>1, <1>6, OneTag DEF InRange
  <2>2. CoerceBool(w) = w
    BY <2>1, OneTag, Zenon DEF CoerceBool, IsI64
  <2> QED BY <1>6, <2>1, <2>2, CoerceByType DEF w
<1>7. CASE ty = "enum8"
  <2>0. I8Max \in Nat /\ I8Max <= I64Max /\ I64Max \in Nat
    BY WidthAssumption, IntegerBoundsAssumption
  <2>1. PICK n \in (-I8Max - 1)..I8Max : w = IntTerm(n)
    BY <1>1, <1>7 DEF InRange
  <2>2. IsI64(w) /\ w # Nil /\ w[2] = n
    BY <2>0, <2>1 DEF IsI64, IsInt, IntTerm, Tag, Nil
  <2>3. Clamp(w[2], -I8Max - 1, I8Max) = n
    BY <2>0, <2>1, <2>2 DEF Clamp
  <2>4. Coerce(w, "enum8", precision) = CoerceEnum8(w)
    BY <2>2, CoerceByType
  <2> QED BY <1>7, <2>1, <2>2, <2>3, <2>4 DEF CoerceEnum8, w
<1>8. \/ ty = "string" \/ ty \in {"uint8", "uint32", "uint64"} \/ ty = "int32"
      \/ ty = "float64" \/ ty = "bool" \/ ty = "enum8"
  BY DEF ScalarTypes
<1> QED BY <1>2, <1>3, <1>4, <1>5, <1>6, <1>7, <1>8
-----------------------------------------------------------------------------
(* Timestamps.                                                                 *)

\* Division with its remainder.
LEMMA DivisionRemainder ==
    ASSUME NEW n \in Nat, NEW d \in Nat \ {0}
    PROVE  (n \div d) * d <= n /\ n < (n \div d) * d + d
OBVIOUS

\* Reading a timestamp at a coarser precision drops less than one of its units and
\* never moves it away from the epoch (coerce.rs, scale).
THEOREM CoarserTimesTruncate ==
    ASSUME NEW n \in Int, NEW from \in 0..9, NEW to \in 0..9, to < from
    PROVE  LET unit == decimalScale[from - to]
               back == Scale(n, from, to) * unit
           IN  /\ n >= 0 => back <= n /\ n < back + unit
               /\ n < 0  => n <= back /\ back - unit < n
<1> DEFINE unit == decimalScale[from - to]
<1>1. unit \in Nat \ {0}
  BY ScaleAssumption
<1>2. Scale(n, from, to) = Quotient(n, unit)
  BY DEF Scale
<1> HIDE DEF unit
<1>3. CASE n >= 0
  <2>1. /\ (n \div unit) * unit <= n
        /\ n < (n \div unit) * unit + unit
    BY <1>1, <1>3, DivisionRemainder
  <2> QED BY <1>2, <1>3, <2>1 DEF Quotient, unit
<1>4. CASE n < 0
  <2> DEFINE m == -n
  <2>1. m \in Nat
    BY <1>4
  <2>2. /\ (m \div unit) * unit <= m
        /\ m < (m \div unit) * unit + unit
        /\ m \div unit \in Int
    BY <1>1, <2>1, DivisionRemainder
  <2>3. Quotient(n, unit) * unit = -((m \div unit) * unit)
    BY <1>1, <1>4, <2>2 DEF Quotient
  <2> QED BY <1>1, <1>2, <1>4, <2>1, <2>2, <2>3 DEF unit
<1> QED BY <1>3, <1>4 DEF unit
-----------------------------------------------------------------------------
(* The derived columns.                                                        *)

\* With operands its layout coerced, a derived column always encodes: the severity
\* as a byte, the duration as an unsigned integer (derive.rs; the row writers
\* only check that the operands decode).
THEOREM DerivedColumnsEncode ==
    ASSUME NEW alt \in 0..U8Max, NEW mapped \in 0..U8Max,
           NEW explicit \in 0..U64Max, NEW precision \in 0..9,
           NEW begin, NEW end,
           IsI64(begin) => begin[2] \in Int, IsI64(end) => end[2] \in Int
    PROVE  /\ Encodes(IntTerm(SeverityNumber(alt, mapped)), "uint8")
           /\ Encodes(IntTerm(Duration(explicit, begin, end, precision)), "uint64")
<1>0. /\ U8Max \in Nat /\ U64Max \in Nat /\ I64Max \in Nat
      /\ 1 <= U64Max /\ U64Max = 2 * I64Max + 1
      /\ UintMax("uint8") = U8Max /\ UintMax("uint64") = U64Max
  <2>1. UintMax("uint64") = U64Max
    BY Zenon DEF UintMax
  <2> QED BY <2>1, UintMaxBounds, WidthAssumption, IntegerBoundsAssumption
<1>1. SeverityNumber(alt, mapped) \in 0..UintMax("uint8")
  BY <1>0 DEF SeverityNumber
<1>2. Duration(explicit, begin, end, precision) \in 0..UintMax("uint64")
  <2>1. CASE explicit # 0
    <3> DEFINE m == explicit \div decimalScale[IF precision > 9 THEN 0 ELSE 9 - precision]
    <3>1. decimalScale[IF precision > 9 THEN 0 ELSE 9 - precision] \in Nat \ {0}
      BY ScaleAssumption
    <3>2. m \in Int
      BY <1>0, <3>1
    <3>3. Duration(explicit, begin, end, precision) = Clamp(m, 1, U64Max)
      BY <2>1 DEF Duration
    <3> HIDE DEF m
    <3> QED BY <1>0, <3>2, <3>3 DEF Clamp
  <2>2. CASE explicit = 0
    BY <1>0, <2>2 DEF Duration, IsI64
  <2> QED BY <2>1, <2>2
<1> QED BY <1>1, <1>2, EncodesByType
-----------------------------------------------------------------------------
(* Excluding and elevating.                                                   *)

\* Leaving keys out keeps the values of a map sound.
LEMMA SoundWithout ==
    ASSUME NEW f, SoundFields(f), NEW keys
    PROVE  SoundFields(Without(f, keys))
<1>1. PICK g : g = Without(f, keys)
  OBVIOUS
<1>2. DOMAIN g = DOMAIN f \ keys /\ \A k \in DOMAIN g : g[k] = f[k]
  BY <1>1 DEF Without
<1>3. DOMAIN g \in SUBSET (DOMAIN f)
  BY <1>2
<1>4. IsFiniteSet(DOMAIN g)
  BY <1>3, FS_Subset DEF SoundFields
<1> QED BY <1>1, <1>2, <1>4 DEF SoundFields

\* And so does putting two together.
LEMMA SoundMerged ==
    ASSUME NEW f, SoundFields(f), NEW g, SoundFields(g)
    PROVE  SoundFields(Over(f, g))
<1>1. PICK h : h = Over(f, g)
  OBVIOUS
<1>2. h = [k \in DOMAIN f \cup DOMAIN g |-> IF k \in DOMAIN f THEN f[k] ELSE g[k]]
  BY <1>1 DEF Over
<1>3. IsFiniteSet(DOMAIN f \cup DOMAIN g)
  BY FS_Union DEF SoundFields
<1>4. DOMAIN h = DOMAIN f \cup DOMAIN g
  BY <1>2
<1>5. \A k \in DOMAIN h : Sound(h[k])
  BY <1>2, <1>4 DEF SoundFields
<1> QED BY <1>1, <1>3, <1>4, <1>5 DEF SoundFields

\* The empty map is sound.
LEMMA NoFieldsSound == SoundFields(NoFields) /\ Sound(MapTerm(NoFields))
<1>1. SoundFields(NoFields)
  BY FS_EmptySet DEF SoundFields, NoFields
<1> QED BY <1>1, SoundContainers

FieldsSound(none, f, g) == SoundFields(f)
ChildOp(map, acc, key) ==
    IF key \in DOMAIN map /\ IsMap(map[key]) THEN Over(map[key][2], acc) ELSE acc
Elevating == INSTANCE FoldLemmas WITH Op <- ChildOp, Rel <- FieldsSound

\* A reversed sequence.
LEMMA ReversedSequence ==
    ASSUME NEW s, IsSequence(s)
    PROVE  /\ IsSequence(Reverse(s)) /\ Len(Reverse(s)) = Len(s)
           /\ \A k \in 1..Len(s) : Reverse(s)[k] = s[Len(s) - k + 1] /\ Len(s) - k + 1 \in 1..Len(s)
<1>1. Len(s) \in Nat /\ DOMAIN s = 1..Len(s)
  BY SequenceElim
<1>2. PICK r : r = Reverse(s)
  OBVIOUS
<1>3. r = [k \in 1..Len(s) |-> s[Len(s) - k + 1]]
  BY <1>2 DEF Reverse
<1>4. r = [k \in 1..Len(s) |-> r[k]]
  BY <1>3
<1>5. IsSequence(r) /\ Len(r) = Len(s)
  BY <1>1, <1>4, SequenceOf
<1>6. \A k \in 1..Len(s) : Len(s) - k + 1 \in 1..Len(s)
  BY <1>1
<1> QED BY <1>2, <1>3, <1>5, <1>6

\* What the elevate keys give to their parent is sound.
LEMMA ElevatedSound ==
    ASSUME NEW f, SoundFields(f), NEW elevate, IsSequence(elevate)
    PROVE  SoundFields(ElevatedChildren(f, elevate))
<1>0. PICK keys : keys = Reverse(elevate)
  OBVIOUS
<1>1. PICK n \in Nat : DOMAIN keys = 1..n
  <2>1. IsSequence(Reverse(elevate))
    BY ReversedSequence
  <2> QED BY <1>0, <2>1, SequenceElim
<1>2. ElevatedChildren(f, elevate) = Elevating!Left(f, NoFields, keys)
  BY <1>0, Zenon DEF ElevatedChildren, Elevating!Left, ChildOp, FoldLeft, Elevating!FoldLeft,
                     MapThenFoldSet, Elevating!MapThenFoldSet, Max, Elevating!Max
<1>3. Elevating!Keeps(0, f, f, keys, keys, n)
  <2> SUFFICES ASSUME NEW k \in 1..n, NEW a1, NEW a2, FieldsSound(0, a1, a2)
               PROVE  FieldsSound(0, ChildOp(f, a1, keys[k]), ChildOp(f, a2, keys[k]))
    BY Zenon DEF Elevating!Keeps
  <2>1. PICK key : key = keys[k]
    OBVIOUS
  <2>2. CASE key \in DOMAIN f /\ IsMap(f[key])
    <3>1. SoundFields(f[key][2])
      BY <2>2, SoundParts DEF SoundFields
    <3>2. ChildOp(f, a1, key) = Over(f[key][2], a1)
      BY <2>2 DEF ChildOp
    <3> QED BY <2>1, <3>1, <3>2, SoundMerged DEF FieldsSound
  <2>3. CASE ~(key \in DOMAIN f /\ IsMap(f[key]))
    <3>1. ChildOp(f, a1, key) = a1
      BY <2>3 DEF ChildOp
    <3> QED BY <2>1, <3>1 DEF FieldsSound
  <2> QED BY <2>2, <2>3
<1>4. FieldsSound(0, NoFields, NoFields)
  BY NoFieldsSound DEF FieldsSound
<1>5. FieldsSound(0, Elevating!Left(f, NoFields, keys), Elevating!Left(f, NoFields, keys))
  <2>1. PICK none, base : none = 0 /\ base = NoFields
    OBVIOUS
  <2>2. FieldsSound(none, Elevating!Left(f, base, keys), Elevating!Left(f, base, keys))
    BY <1>1, <1>3, <1>4, <2>1, Elevating!FoldsRelated
  <2> QED BY <2>1, <2>2
<1> QED BY <1>2, <1>5 DEF FieldsSound

\* Excluding and elevating keep a value sound.
LEMMA JsonOperationsSound ==
    ASSUME NEW v, Sound(v), NEW f, IsSequence(f.elevate_keys)
    PROVE  /\ Sound(ApplyJsonOperations(v, f))
           /\ IsMap(v) => IsMap(ApplyJsonOperations(v, f))
<1>1. CASE ~IsMap(v)
  BY <1>1 DEF ApplyJsonOperations
<1>2. CASE IsMap(v)
  <2>1. PICK g : g = ApplyExclude(v[2], f.exclude_keys) /\ SoundFields(g)
    BY <1>2, SoundParts, SoundWithout DEF ApplyExclude
  <2>2. SoundFields(TopLevel(g, f.elevate_keys)) /\ SoundFields(ElevatedChildren(g, f.elevate_keys))
    BY <2>1, SoundWithout, ElevatedSound DEF TopLevel
  <2>3. PICK h : h = ApplyElevate(g, f.elevate_keys) /\ SoundFields(h)
    BY <2>2, SoundMerged DEF ApplyElevate
  <2>4. ApplyJsonOperations(v, f) = MapTerm(h)
    BY <1>2, <2>1, <2>3 DEF ApplyJsonOperations
  <2>5. IsMap(MapTerm(h))
    BY DEF MapTerm, IsMap, Tag
  <2> QED BY <2>3, <2>4, <2>5, SoundContainers
<1> QED BY <1>1, <1>2

GroupOp(none, acc, group) == Over(group, acc)
Grouping == INSTANCE FoldLemmas WITH Op <- GroupOp, Rel <- FieldsSound

\* What one elevate key gives from dotted keys is sound.
LEMMA SuffixesSound ==
    ASSUME NEW f, SoundFields(f), NEW elevate, NEW group
    PROVE  SoundFields(SuffixesOf(f, elevate, group))
<1>1. PICK keys : keys = GroupKeys(f, elevate, group) /\ keys \in SUBSET (DOMAIN f)
  BY DEF GroupKeys
<1>2. PICK suffix : suffix = [k \in keys |-> Suffix(k, elevate[group])]
  OBVIOUS
<1>3. PICK g : g = SuffixesOf(f, elevate, group)
  OBVIOUS
<1>4. g = [s \in {Suffix(k, elevate[group]) : k \in keys} |->
              f[CHOOSE k \in keys : Suffix(k, elevate[group]) = s]]
  BY <1>1, <1>3 DEF SuffixesOf
<1>5. DOMAIN g = {suffix[k] : k \in keys}
  BY <1>2, <1>4
<1>6. IsFiniteSet(keys)
  BY <1>1, FS_Subset DEF SoundFields
<1>7. IsFiniteSet(DOMAIN g)
  BY <1>5, <1>6, FiniteImage
<1>8. ASSUME NEW s \in DOMAIN g PROVE Sound(g[s])
  <2>1. \E k \in keys : Suffix(k, elevate[group]) = s
    BY <1>4, <1>8
  <2>2. PICK k : k = (CHOOSE x \in keys : Suffix(x, elevate[group]) = s) /\ k \in keys
    BY <2>1
  <2>3. g[s] = f[k]
    BY <1>4, <1>8, <2>2
  <2> QED BY <1>1, <2>2, <2>3 DEF SoundFields
<1> QED BY <1>3, <1>7, <1>8 DEF SoundFields

\* Excluding and elevating dotted keys keep a value sound.
LEMMA FlatOperationsSound ==
    ASSUME NEW v, Sound(v), NEW f, IsSequence(f.elevate_keys)
    PROVE  Sound(ApplyJsonOperationsFlat(v, f))
<1>1. CASE ~IsMap(v)
  BY <1>1 DEF ApplyJsonOperationsFlat
<1>2. CASE IsMap(v)
  <2>1. PICK g : g = ApplyExcludeFlat(v[2], f.exclude_keys) /\ SoundFields(g)
    BY <1>2, SoundParts, SoundWithout DEF ApplyExcludeFlat
  <2>2. PICK elevate : elevate = f.elevate_keys /\ IsSequence(elevate)
    OBVIOUS
  <2>3. PICK groups : groups = [k \in DOMAIN elevate |-> SuffixesOf(g, elevate, k)]
    OBVIOUS
  <2>4. IsSequence(groups) /\ \A k \in 1..Len(groups) : SoundFields(groups[k])
    <3>1. IsSequence(groups) /\ DOMAIN groups = 1..Len(groups) /\ DOMAIN groups = DOMAIN elevate
      BY <2>2, <2>3, MapSequence, SequenceElim
    <3> QED BY <2>1, <2>3, <3>1, SuffixesSound
  <2>5. PICK s : s = Reverse(groups)
    OBVIOUS
  <2>6. PICK n \in Nat : DOMAIN s = 1..n /\ \A k \in 1..n : SoundFields(s[k])
    <3>1. /\ IsSequence(s) /\ Len(s) = Len(groups)
          /\ \A k \in 1..Len(groups) : s[k] = groups[Len(groups) - k + 1]
                                       /\ Len(groups) - k + 1 \in 1..Len(groups)
      BY <2>4, <2>5, ReversedSequence
    <3> QED BY <2>4, <3>1, SequenceElim
  <2>7. PICK h : h = FoldLeft(LAMBDA acc, group : Over(group, acc), NoFields, s)
    OBVIOUS
  <2>8. h = Grouping!Left(0, NoFields, s)
    BY <2>7, Zenon DEF Grouping!Left, GroupOp, FoldLeft, Grouping!FoldLeft, MapThenFoldSet,
                       Grouping!MapThenFoldSet, Max, Grouping!Max
  <2>9. Grouping!Keeps(0, 0, 0, s, s, n)
    BY <2>6, SoundMerged, Zenon DEF Grouping!Keeps, GroupOp, FieldsSound
  <2>10. FieldsSound(0, Grouping!Left(0, NoFields, s), Grouping!Left(0, NoFields, s))
    <3>1. PICK none, base : none = 0 /\ base = NoFields
      OBVIOUS
    <3>2. FieldsSound(none, base, base)
      BY <3>1, NoFieldsSound DEF FieldsSound
    <3>3. FieldsSound(none, Grouping!Left(none, base, s), Grouping!Left(none, base, s))
      BY <2>6, <2>9, <3>1, <3>2, Grouping!FoldsRelated
    <3> QED BY <3>1, <3>3
  <2>11. SoundFields(h)
    BY <2>8, <2>10 DEF FieldsSound
  <2>12. PICK top : top = Without(g, {k \in DOMAIN g : DroppedFlat(g, k, elevate)}) /\ SoundFields(top)
    BY <2>1, SoundWithout
  <2>13. ApplyElevateFlat(g, elevate) = Over(top, h)
    BY <2>3, <2>5, <2>7, <2>12, Zenon DEF ApplyElevateFlat
  <2>14. ApplyJsonOperationsFlat(v, f) = MapTerm(Over(top, h))
    BY <1>2, <2>1, <2>2, <2>13 DEF ApplyJsonOperationsFlat
  <2> QED BY <2>11, <2>12, <2>14, SoundMerged, SoundContainers
<1> QED BY <1>1, <1>2
-----------------------------------------------------------------------------
(* Flattening.                                                                *)

\* Flattening a value under a key, or the fields of a map, gives string entries.
LEMMA FlattenedEntries ==
    /\ \A key, v : Sound(v) => StringEntries(FlattenEntry(key, v))
    /\ \A f : SoundFields(f) => StringEntries(FlattenFields(f))
<1>1. ASSUME NEW key, NEW v, Sound(v) PROVE StringEntries(FlattenEntry(key, v))
  <2>1. PICK e : e = Entry(key, v) /\ e.value = v
    BY EntryParts
  <2>2. SoundEntries(<<e>>)
    BY <1>1, <2>1, OneEntry DEF SoundEntries
  <2> QED BY <2>1, <2>2, LeavesAreSound, StringifiedEntries DEF FlattenEntry
<1>2. ASSUME NEW f, SoundFields(f) PROVE StringEntries(FlattenFields(f))
  BY <1>2, EntriesAreSound, LeavesAreSound, StringifiedEntries DEF FlattenFields
<1> QED BY <1>1, <1>2

\* A flattened value is a map of strings.
LEMMA FlattenedSound ==
    ASSUME NEW v, Sound(v)
    PROVE  Sound(FlattenAndStringify(v)) /\ IsStringMap(FlattenAndStringify(v))
<1>1. CASE IsMap(v)
  <2>1. StringEntries(FlattenFields(v[2]))
    BY <1>1, SoundParts, FlattenedEntries
  <2>2. FlattenAndStringify(v) = BuildFlatMap(FlattenFields(v[2]))
    BY <1>1 DEF FlattenAndStringify
  <2> QED BY <2>1, <2>2, BuiltIsSound DEF StringEntries
<1>2. CASE ~IsMap(v)
  <2>1. FlattenAndStringify(v) = MapTerm(NoFields)
    BY <1>2 DEF FlattenAndStringify
  <2>2. IsStringMap(MapTerm(NoFields))
    BY DEF MapTerm, NoFields, IsStringMap, IsMap, Tag
  <2> QED BY <2>1, <2>2, NoFieldsSound
<1> QED BY <1>1, <1>2

\* So is a map whose values are stringified, also when there is no map.
LEMMA StringifiedSound ==
    ASSUME NEW v, Sound(v)
    PROVE  Sound(StringifyValues(v)) /\ IsStringMap(StringifyValues(v))
<1>1. CASE IsMap(v)
  <2>1. PICK f, keys : f = v[2] /\ keys = {j \in DOMAIN f : f[j] # Nil}
    OBVIOUS
  <2>2. SoundFields(f)
    BY <1>1, <2>1, SoundParts
  <2>3. PICK g : g = [k \in keys |-> StringOf(f[k])]
    OBVIOUS
  <2>4. StringifyValues(v) = MapTerm(g)
    BY <1>1, <2>1, <2>3 DEF StringifyValues
  <2>5. DOMAIN g = keys /\ keys \in SUBSET (DOMAIN f)
    BY <2>1, <2>3
  <2>6. IsFiniteSet(DOMAIN g)
    BY <2>2, <2>5, FS_Subset DEF SoundFields
  <2>7. ASSUME NEW k \in DOMAIN g PROVE Sound(g[k]) /\ IsStr(g[k])
    <3>1. g[k] = StringOf(f[k]) /\ Sound(f[k])
      BY <2>2, <2>3, <2>5 DEF SoundFields
    <3> QED BY <3>1, StringOfSound, SoundParts
  <2>8. MapTerm(g)[2] = g /\ IsMap(MapTerm(g))
    BY DEF MapTerm, IsMap, Tag
  <2> QED BY <2>4, <2>6, <2>7, <2>8, SoundContainers DEF SoundFields, IsStringMap
<1>2. CASE ~IsMap(v)
  <2>1. StringifyValues(v) = MapTerm(NoFields)
    BY <1>2 DEF StringifyValues
  <2>2. IsStringMap(MapTerm(NoFields))
    BY DEF MapTerm, NoFields, IsStringMap, IsMap, Tag
  <2> QED BY <2>1, <2>2, NoFieldsSound
<1> QED BY <1>1, <1>2

\* Entries made for the keys of a map, key by key.
LEMMA KeyedEntries ==
    ASSUME NEW f, SoundFields(f), NEW g, g = [k \in DOMAIN Keys(f) |-> g[k]],
           \A k \in DOMAIN Keys(f) : Keys(f)[k] \in DOMAIN f => StringEntries(g[k])
    PROVE  StringEntries(FlattenSeq(g))
<1>1. PICK order : order = Keys(f) /\ IsSequence(order) /\ \A k \in DOMAIN order : order[k] \in DOMAIN f
  BY KeysAreKeys DEF SoundFields
<1>2. IsSequence(g) /\ DOMAIN g = DOMAIN order
  BY <1>1, MapSequence
<1> QED BY <1>1, <1>2, FlattenStrings

\* What an elevated map gives to the one pass.
LEMMA ElevatedStrings ==
    ASSUME NEW children, SoundFields(children), NEW fs, NEW f
    PROVE  StringEntries(ElevatedEntries(fs, f, children))
<1>1. PICK order : order = Keys(children)
  OBVIOUS
<1>2. PICK g : g = [k \in DOMAIN order |->
                       IF TopLevelWins(fs, order[k], f) THEN <<>>
                       ELSE FlattenEntry(order[k], children[order[k]])]
  OBVIOUS
<1>3. ASSUME NEW k \in DOMAIN order, order[k] \in DOMAIN children PROVE StringEntries(g[k])
  <2>1. Sound(children[order[k]])
    BY <1>3 DEF SoundFields
  <2>2. g[k] = <<>> \/ g[k] = FlattenEntry(order[k], children[order[k]])
    BY <1>2, <1>3
  <2> QED BY <2>1, <2>2, FewEntries, FlattenedEntries
<1>4. g = [k \in DOMAIN order |-> g[k]]
  BY <1>2
<1>5. StringEntries(FlattenSeq(g))
  BY <1>1, <1>3, <1>4, KeyedEntries
<1>6. ElevatedEntries(fs, f, children) = FlattenSeq(g)
  BY <1>1, <1>2, Zenon DEF ElevatedEntries
<1> QED BY <1>5, <1>6

\* The one pass over a map gives string entries.
LEMMA OnePassStrings ==
    ASSUME NEW fs, SoundFields(fs), NEW f
    PROVE  StringEntries(OnePassEntries(fs, f))
<1>1. PICK order : order = Keys(fs)
  OBVIOUS
<1>2. PICK g : g = [k \in DOMAIN order |-> OnePassEntry(fs, f, order[k])]
  OBVIOUS
<1>3. ASSUME NEW k \in DOMAIN order, order[k] \in DOMAIN fs PROVE StringEntries(g[k])
  <2>1. PICK key : key = order[k] /\ key \in DOMAIN fs /\ g[k] = OnePassEntry(fs, f, key)
    BY <1>2, <1>3
  <2>2. CASE Contains(f.exclude_keys, key)
    <3>1. OnePassEntry(fs, f, key) = <<>>
      BY <2>2, Zenon DEF OnePassEntry
    <3> QED BY <2>1, <3>1, FewEntries
  <2>3. CASE ~Contains(f.exclude_keys, key) /\ IsElevated(fs, key, f.elevate_keys)
    <3>1. OnePassEntry(fs, f, key) = ElevatedEntries(fs, f, fs[key][2])
      BY <2>3, Zenon DEF OnePassEntry
    <3>2. SoundFields(fs[key][2])
      BY <2>1, <2>3, SoundParts DEF SoundFields, IsElevated
    <3> QED BY <2>1, <3>1, <3>2, ElevatedStrings
  <2>4. CASE ~Contains(f.exclude_keys, key) /\ ~IsElevated(fs, key, f.elevate_keys)
    <3>1. OnePassEntry(fs, f, key) = FlattenEntry(key, fs[key])
      BY <2>4, Zenon DEF OnePassEntry
    <3> QED BY <2>1, <3>1, FlattenedEntries DEF SoundFields
  <2> QED BY <2>2, <2>3, <2>4
<1>4. g = [k \in DOMAIN order |-> g[k]]
  BY <1>2
<1>5. StringEntries(FlattenSeq(g))
  BY <1>1, <1>3, <1>4, KeyedEntries
<1>6. OnePassEntries(fs, f) = FlattenSeq(g)
  BY <1>1, <1>2, Zenon DEF OnePassEntries
<1> QED BY <1>5, <1>6

\* A flattened field is a map of strings, by the one pass or by three.
LEMMA FlatFieldSound ==
    ASSUME NEW v, Sound(v), NEW f, IsSequence(f.elevate_keys)
    PROVE  Sound(FlattenField(v, f)) /\ IsStringMap(FlattenField(v, f))
<1>1. CASE IsMap(v)
  <2>1. PICK entries : entries = OnePassEntries(v[2], f) /\ StringEntries(entries)
    BY <1>1, SoundParts, OnePassStrings
  <2>2. FlattenField(v, f) = UnlessRepeated(entries, v, f)
    BY <1>1, <2>1 DEF FlattenField
  <2>3. CASE Repeats(entries)
    <3>1. UnlessRepeated(entries, v, f) = FlattenAndStringify(ApplyJsonOperations(v, f))
      BY <2>3 DEF UnlessRepeated
    <3> QED BY <2>2, <3>1, JsonOperationsSound, FlattenedSound
  <2>4. CASE ~Repeats(entries)
    <3>1. UnlessRepeated(entries, v, f) = BuildFlatMap(entries)
      BY <2>4 DEF UnlessRepeated
    <3> QED BY <2>1, <2>2, <3>1, BuiltIsSound DEF StringEntries
  <2> QED BY <2>3, <2>4
<1>2. CASE ~IsMap(v)
  <2>1. FlattenField(v, f) = MapTerm(NoFields)
    BY <1>2 DEF FlattenField
  <2>2. IsStringMap(MapTerm(NoFields))
    BY DEF MapTerm, NoFields, IsStringMap, IsMap, Tag
  <2> QED BY <2>1, <2>2, NoFieldsSound
<1> QED BY <1>1, <1>2
-----------------------------------------------------------------------------
(* Coerced scalars.                                                            *)

\* Integers, floats and booleans are sound.
LEMMA NumbersAreSound ==
    /\ \A n \in Int : Sound(IntTerm(n)) /\ Sound(FloatTerm(n))
    /\ \A b \in BOOLEAN : Sound(BoolTerm(b))
<1>1. ASSUME NEW n \in Int PROVE Sound(IntTerm(n))
  BY PlainTerms, PlainIsSound
<1>2. ASSUME NEW n \in Int PROVE Sound(FloatTerm(n))
  <2>1. WellFormed(FloatTerm(n)) /\ ~IsList(FloatTerm(n)) /\ ~IsMap(FloatTerm(n))
    BY DEF WellFormed, FloatTerm, IsFloat, IsList, IsMap, Tag
  <2> QED BY <2>1, SoundScalar
<1>3. ASSUME NEW b \in BOOLEAN PROVE Sound(BoolTerm(b))
  <2>1. WellFormed(BoolTerm(b)) /\ ~IsList(BoolTerm(b)) /\ ~IsMap(BoolTerm(b))
    BY DEF WellFormed, BoolTerm, IsBool, IsList, IsMap, Tag
  <2> QED BY <2>1, SoundScalar
<1> QED BY <1>1, <1>2, <1>3

\* A coerced float is sound, unless it is none.
LEMMA CoercedFloatSound ==
    ASSUME NEW v, WellFormed(v), CoerceFloat64(v) # NonValue
    PROVE  Sound(CoerceFloat64(v))
BY CoerceFloat64Result, NumbersAreSound

\* A coerced boolean is sound.
LEMMA CoercedBoolSound ==
    ASSUME NEW v, WellFormed(v)
    PROVE  Sound(CoerceBool(v))
<1>0. IsI64(v) => IsInt(v)
  BY DEF IsI64
<1>1. PICK b \in BOOLEAN : CoerceBool(v) = BoolTerm(b)
  <2>1. CASE IsBool(v)
    <3>1. CoerceBool(v) = v
      BY <1>0, <2>1, OneTag, Zenon DEF CoerceBool
    <3> QED BY <2>1, <3>1, DecodedPayloads
  <2>2. CASE IsStr(v)
    <3>1. CoerceBool(v) = BoolTerm(\/ v[2] = <<"num", 1>>
                                   \/ v[2][1] = "text" /\ lowerOf[v[2][2]] = "true")
      BY <1>0, <2>2, OneTag, Zenon DEF CoerceBool
    <3> QED BY <3>1
  <2>3. CASE IsI64(v)
    <3>1. CoerceBool(v) = BoolTerm(v[2] # 0)
      BY <1>0, <2>3, OneTag, Zenon DEF CoerceBool
    <3> QED BY <3>1
  <2>4. CASE ~IsBool(v) /\ ~IsStr(v) /\ ~IsI64(v)
    <3>1. CoerceBool(v) = BoolTerm(FALSE)
      BY <2>4, Zenon DEF CoerceBool
    <3> QED BY <3>1
  <2> QED BY <2>1, <2>2, <2>3, <2>4
<1> QED BY <1>1, NumbersAreSound

\* A coerced scalar is sound, and one its column's encoder takes, when it is a term
\* at all; a missing time is nil.
LEMMA CoercedSound ==
    ASSUME NEW v, WellFormed(v), NEW ty \in ScalarTypes, NEW precision,
           ty = "datetime64" => precision \in 0..9, Coerce(v, ty, precision) # NonValue
    PROVE  LET w == Coerce(v, ty, precision) IN
           /\ Sound(w)
           /\ v # Nil \/ ty # "datetime64" => Encodes(w, ScalarWire(ty))
           /\ v = Nil /\ ty = "datetime64" => w = Nil
<1>1. PICK w : w = Coerce(v, ty, precision)
  OBVIOUS
<1>2. CASE v = Nil /\ ty = "datetime64"
  <2>1. w = CoerceNil(ty)
    BY <1>1, <1>2 DEF Coerce
  <2>2. w = Nil
    BY <1>2, <2>1, Zenon DEF CoerceNil
  <2> QED BY <1>1, <1>2, <2>2, NilTerm, TermsAreSound
<1>3. CASE v # Nil \/ ty # "datetime64"
  <2>1. PICK n \in 0..9 : w = Coerce(v, ty, n)
    <3>1. CASE ty = "datetime64"
      BY <1>1, <3>1
    <3>2. CASE ty # "datetime64" /\ v = Nil
      <4>1. w = CoerceNil(ty) /\ Coerce(v, ty, 0) = CoerceNil(ty)
        BY <1>1, <3>2 DEF Coerce
      <4> QED BY <4>1
    <3>3. CASE ty # "datetime64" /\ v # Nil
      <4>1. Coerce(v, ty, precision) = Coerce(v, ty, 0)
        BY <3>3, CoerceByType DEF ScalarTypes
      <4> QED BY <1>1, <4>1
    <3> QED BY <3>1, <3>2, <3>3
  <2>2. Encodes(w, ScalarWire(ty)) /\ InRange(w, ty)
    <3>1. Coerce(v, ty, n) # NonValue
      BY <1>1, <2>1
    <3>2. ~(ty = "float64" /\ ReadsNonFinite(v))
      BY <1>3, <3>1, CoercedNonValue
    <3> QED BY <1>3, <2>1, <3>2, ScalarEncodesOrRaises, CoercedInRange
  <2>3. CASE v = Nil
    <3>1. w = CoerceNil(ty)
      BY <1>1, <2>3 DEF Coerce
    <3>2. w \in {StrTerm(EmptyText), IntTerm(0), FloatTerm(0), BoolTerm(FALSE)}
      BY <1>3, <2>3, <3>1, CoerceNilByType DEF ScalarTypes
    <3>3. Sound(StrTerm(EmptyText)) /\ Sound(IntTerm(0)) /\ Sound(FloatTerm(0)) /\ Sound(BoolTerm(FALSE))
      <4>1. 0 \in Int /\ FALSE \in BOOLEAN
        OBVIOUS
      <4>2. Sound(StrTerm(EmptyText))
        BY PlainTerms, PlainIsSound
      <4> QED BY <4>1, <4>2, NumbersAreSound, Zenon
    <3> QED BY <1>1, <1>3, <2>2, <3>2, <3>3
  <2>4. CASE v # Nil
    <3>1. CASE ty = "string"
      BY <1>1, <2>2, <2>4, <3>1, CoerceByType, CoercedStringSound
    <3>2. CASE ty = "float64"
      BY <1>1, <2>2, <2>4, <3>2, CoerceByType, CoercedFloatSound
    <3>3. CASE ty = "bool"
      BY <1>1, <2>2, <2>4, <3>3, CoerceByType, CoercedBoolSound
    <3>4. CASE ty \in {"uint8", "uint32", "uint64", "int32", "enum8", "datetime64"}
      <4>1. \E i \in Int : w = IntTerm(i)
        BY <2>2, <3>4, UintMaxBounds, WidthAssumption, IntegerBoundsAssumption DEF InRange
      <4> QED BY <1>1, <2>2, <2>4, <4>1, NumbersAreSound
    <3> QED BY <3>1, <3>2, <3>3, <3>4 DEF ScalarTypes
  <2> QED BY <2>3, <2>4
<1> QED BY <1>2, <1>3
-----------------------------------------------------------------------------
(* Coerced arrays.                                                            *)

\* What an element of an array is: sound, and one the array's encoder takes.
ElementFits(f, w) ==
    /\ Sound(w)
    /\ f.type = "array_flat_map" => IsStringMap(w)
    /\ f.type = "array_string" => Encodes(w, "string")
    /\ f.type = "array_uint64" => Encodes(w, "uint64")
    /\ f.type = "array_float64" => Encodes(w, "float64")
    /\ f.type = "array_datetime64" => Encodes(w, "int64")

\* The element types of the arrays of scalars.
LEMMA ElementTypes ==
    /\ ElementType("array_string") = "string" /\ ElementType("array_uint64") = "uint64"
    /\ ElementType("array_float64") = "float64" /\ ElementType("array_datetime64") = "datetime64"
    /\ ElementType("array_json") = "none" /\ ElementType("array_map") = "none"
    /\ ScalarWire("string") = "string" /\ ScalarWire("uint64") = "uint64"
    /\ ScalarWire("float64") = "float64" /\ ScalarWire("datetime64") = "int64"
BY Zenon DEF ElementType, ScalarWire

\* A coerced element fits, when it is a term at all.
LEMMA ElementSound ==
    ASSUME NEW f, Settled(f), f.type \in ArrayTypes, NEW v, Sound(v),
           CoerceArrayElement(v, f) # NonValue
    PROVE  ElementFits(f, CoerceArrayElement(v, f))
<1>0. PICK w, ty : w = CoerceArrayElement(v, f) /\ ty = ElementType(f.type)
  OBVIOUS
<1>1. WellFormed(v)
  BY SoundParts
<1>2. CASE v = Nil
  <2>1. w = ArrayNil(f.type)
    BY <1>0, <1>2, Zenon DEF CoerceArrayElement
  <2>2. CASE f.type = "array_datetime64"
    <3>1. w = IntTerm(0)
      BY <2>1, <2>2, Zenon DEF ArrayNil
    <3>2. 0 \in (-I64Max - 1)..I64Max
      BY IntegerBoundsAssumption
    <3>3. Encodes(w, "int64")
      BY <3>1, <3>2, EncodesByType
    <3> QED BY <1>0, <2>2, <3>1, <3>3, NumbersAreSound DEF ElementFits
  <2>3. CASE f.type \in {"array_json", "array_map", "array_flat_map"}
    <3>1. w = MapTerm(NoFields)
      BY <2>1, <2>3, Zenon DEF ArrayNil
    <3>2. IsStringMap(MapTerm(NoFields))
      BY DEF MapTerm, NoFields, IsStringMap, IsMap, Tag
    <3> QED BY <1>0, <2>3, <3>1, <3>2, NoFieldsSound DEF ElementFits
  <2>4. CASE f.type \in {"array_string", "array_uint64", "array_float64"}
    <3>1. w = CoerceNil(ty)
      BY <1>0, <2>1, <2>4, Zenon DEF ArrayNil
    <3>2. ty \in {"string", "uint64", "float64"} /\ ty \in ScalarTypes
      BY <1>0, <2>4, ElementTypes DEF ScalarTypes
    <3>3. w = Coerce(v, ty, f.precision)
      BY <1>2, <3>1 DEF Coerce
    <3>4. Sound(w) /\ Encodes(w, ScalarWire(ty))
      <4>1. PICK precision : precision = f.precision
        OBVIOUS
      <4>2. Sound(Coerce(v, ty, precision)) /\ Encodes(Coerce(v, ty, precision), ScalarWire(ty))
        BY <1>0, <1>1, <3>2, <3>3, <4>1, CoercedSound
      <4> QED BY <3>3, <4>1, <4>2
    <3> QED BY <1>0, <2>4, <3>4, ElementTypes DEF ElementFits
  <2> QED BY <2>2, <2>3, <2>4 DEF ArrayTypes
<1>3. CASE v # Nil /\ f.type = "array_flat_map"
  <2>1. w = FlattenAndStringify(v)
    BY <1>0, <1>3, Zenon DEF CoerceArrayElement
  <2> QED BY <1>0, <1>3, <2>1, FlattenedSound DEF ElementFits
<1>4. CASE v # Nil /\ f.type # "array_flat_map"
  <2>1. w = Coerce(v, ty, f.precision)
    BY <1>0, <1>4, Zenon DEF CoerceArrayElement
  <2>2. CASE f.type \in {"array_json", "array_map"}
    <3>1. ty = "none"
      BY <1>0, <2>2, ElementTypes
    <3>2. w = v
      BY <1>4, <2>1, <3>1, Zenon DEF Coerce
    <3> QED BY <1>0, <2>2, <3>2 DEF ElementFits
  <2>3. CASE f.type \in {"array_string", "array_uint64", "array_float64", "array_datetime64"}
    <3>1. ty \in {"string", "uint64", "float64", "datetime64"} /\ ty \in ScalarTypes
      BY <1>0, <2>3, ElementTypes DEF ScalarTypes
    <3>2. PICK precision : precision = f.precision
      OBVIOUS
    <3>3. ty = "datetime64" => precision \in 0..9
      BY <1>0, <2>3, <3>2, ElementTypes DEF Settled
    <3>4. Sound(w) /\ Encodes(w, ScalarWire(ty))
      BY <1>0, <1>1, <1>4, <2>1, <3>1, <3>2, <3>3, CoercedSound
    <3> QED BY <1>0, <2>3, <3>4, ElementTypes DEF ElementFits
  <2> QED BY <1>4, <2>2, <2>3 DEF ArrayTypes
<1> QED BY <1>2, <1>3, <1>4

\* A sequence of elements that fit or are none.
FitsOrNone(f, w) == w = NonValue \/ ElementFits(f, w)
KeptFits(f, a, b) == IsSequence(a) /\ \A k \in 1..Len(a) : FitsOrNone(f, a[k])
KeptSound == INSTANCE FoldLemmas WITH Op <- KeptOp, Rel <- KeptFits

\* An array value is sound, and one its column's encoder takes.
ArrayFits(f, v) ==
    /\ Sound(v) /\ IsList(v)
    /\ f.type \notin {"array_json", "array_map"} => CanEncode(WireOf(f.type), v)

RaisesOrFits(f, v) == Raises(v) \/ ArrayFits(f, v)

\* How each encoder tells what it takes.
LEMMA ArrayWires ==
    /\ \A v : CanEncode(WireOf("array_flat_map"), v)
           <=> IsList(v) /\ \A k \in DOMAIN v[2] : IsStringMap(v[2][k])
    /\ \A v : CanEncode(WireOf("array_string"), v)
           <=> IsList(v) /\ \A k \in DOMAIN v[2] : Encodes(v[2][k], "string")
    /\ \A v : CanEncode(WireOf("array_uint64"), v)
           <=> IsList(v) /\ \A k \in DOMAIN v[2] : Encodes(v[2][k], "uint64")
    /\ \A v : CanEncode(WireOf("array_float64"), v)
           <=> IsList(v) /\ \A k \in DOMAIN v[2] : Encodes(v[2][k], "float64")
    /\ \A v : CanEncode(WireOf("array_datetime64"), v)
           <=> IsList(v) /\ \A k \in DOMAIN v[2] : Encodes(v[2][k], "int64")
<1>1. /\ WireOf("array_flat_map") = "array_map" /\ WireOf("array_string") = "array_string"
      /\ WireOf("array_uint64") = "array_uint64" /\ WireOf("array_float64") = "array_float64"
      /\ WireOf("array_datetime64") = "array_int64"
  BY Zenon DEF WireOf
<1>2. /\ ElementEncoder("array_string") = "string" /\ ElementEncoder("array_uint64") = "uint64"
      /\ ElementEncoder("array_float64") = "float64" /\ ElementEncoder("array_int64") = "int64"
  BY Zenon DEF ElementEncoder
<1>3. \A v : CanEncode("array_map", v) <=> IsList(v) /\ \A k \in DOMAIN v[2] : IsStringMap(v[2][k])
  BY Zenon DEF CanEncode
<1>4. \A v : \A e \in {"array_string", "array_uint64", "array_int64", "array_float64"} :
          CanEncode(e, v) <=> IsList(v) /\ \A k \in DOMAIN v[2] : Encodes(v[2][k], ElementEncoder(e))
  <2> SUFFICES ASSUME NEW v, NEW e \in {"array_string", "array_uint64", "array_int64", "array_float64"}
               PROVE  CanEncode(e, v) <=> IsList(v) /\ \A k \in DOMAIN v[2] : Encodes(v[2][k], ElementEncoder(e))
    OBVIOUS
  <2> QED BY Zenon DEF CanEncode
<1> QED BY <1>1, <1>2, <1>3, <1>4, Zenon

\* The encoders of arrays take any list of elements that fit.
LEMMA FittingList ==
    ASSUME NEW f, f.type \in ArrayTypes, NEW s, IsSequence(s), \A k \in 1..Len(s) : ElementFits(f, s[k])
    PROVE  ArrayFits(f, ListTerm(s))
<1>1. PICK v : v = ListTerm(s)
  OBVIOUS
<1>2. v[2] = s /\ IsList(v) /\ DOMAIN s = 1..Len(s)
  BY <1>1, SequenceElim DEF ListTerm, IsList, Tag
<1>3. Sound(v)
  BY <1>1, <1>2, SoundContainers DEF ElementFits, SoundItems
<1>4. CASE f.type = "array_flat_map"
  BY <1>1, <1>2, <1>3, <1>4, ArrayWires DEF ElementFits, ArrayFits
<1>5. CASE f.type = "array_string"
  BY <1>1, <1>2, <1>3, <1>5, ArrayWires DEF ElementFits, ArrayFits
<1>6. CASE f.type = "array_uint64"
  BY <1>1, <1>2, <1>3, <1>6, ArrayWires DEF ElementFits, ArrayFits
<1>7. CASE f.type = "array_float64"
  BY <1>1, <1>2, <1>3, <1>7, ArrayWires DEF ElementFits, ArrayFits
<1>8. CASE f.type = "array_datetime64"
  BY <1>1, <1>2, <1>3, <1>8, ArrayWires DEF ElementFits, ArrayFits
<1>9. CASE f.type \in {"array_json", "array_map"}
  BY <1>1, <1>2, <1>3, <1>9 DEF ArrayFits
<1> QED BY <1>4, <1>5, <1>6, <1>7, <1>8, <1>9 DEF ArrayTypes

\* Coerced elements make an array that fits, or raise.
LEMMA ElementsSound ==
    ASSUME NEW f, Settled(f), f.type \in ArrayTypes,
           NEW items, NEW n \in Nat, DOMAIN items = 1..n, \A k \in 1..n : Sound(items[k])
    PROVE  RaisesOrFits(f, CoerceElements(items, f))
<1>1. CoerceElements(items, f) = ListTerm(KeptSound!Left(f, <<>>, items))
  BY Zenon DEF CoerceElements, KeptSound!Left, KeptOp, FoldLeft, KeptSound!FoldLeft, MapThenFoldSet,
               KeptSound!MapThenFoldSet, Max, KeptSound!Max
<1>2. KeptSound!Keeps(f, f, f, items, items, n)
  <2> SUFFICES ASSUME NEW k \in 1..n, NEW a1, NEW a2, KeptFits(f, a1, a2)
               PROVE  KeptFits(f, KeptOp(f, a1, items[k]), KeptOp(f, a2, items[k]))
    BY Zenon DEF KeptSound!Keeps
  <2>1. PICK v : v = items[k] /\ Sound(v)
    OBVIOUS
  <2>2. CASE ~KeepsElement(v, f)
    <3>1. KeptOp(f, a1, v) = a1
      BY <2>2 DEF KeptOp
    <3> QED BY <2>1, <3>1 DEF KeptFits
  <2>3. CASE KeepsElement(v, f)
    <3>1. PICK x : x = CoerceArrayElement(v, f) /\ FitsOrNone(f, x)
      BY <2>1, ElementSound DEF FitsOrNone
    <3>2. KeptOp(f, a1, v) = Append(a1, x)
      BY <2>3, <3>1 DEF KeptOp
    <3>3. IsSequence(a1) /\ Len(a1) \in Nat /\ \A j \in 1..Len(a1) : FitsOrNone(f, a1[j])
      BY SequenceElim DEF KeptFits
    <3>4. /\ IsSequence(Append(a1, x)) /\ Len(Append(a1, x)) = Len(a1) + 1
          /\ \A j \in 1..Len(a1) : Append(a1, x)[j] = a1[j]
          /\ Append(a1, x)[Len(a1) + 1] = x
      BY <3>3, AppendSequence
    <3>5. \A j \in 1..(Len(a1) + 1) : FitsOrNone(f, Append(a1, x)[j])
      BY <3>1, <3>3, <3>4
    <3> QED BY <2>1, <3>2, <3>4, <3>5 DEF KeptFits
  <2> QED BY <2>2, <2>3
<1>3. PICK none : none = <<>> /\ KeptFits(f, none, none)
  BY EmptySequence DEF KeptFits
<1>4. KeptFits(f, KeptSound!Left(f, none, items), KeptSound!Left(f, none, items))
  BY <1>2, <1>3, KeptSound!FoldsRelated
<1>5. PICK s : s = KeptSound!Left(f, none, items)
  OBVIOUS
<1>6. /\ IsSequence(s) /\ \A k \in 1..Len(s) : FitsOrNone(f, s[k])
      /\ CoerceElements(items, f) = ListTerm(s)
  BY <1>1, <1>3, <1>4, <1>5 DEF KeptFits
<1>7. RaisesOrFits(f, ListTerm(s))
  <2>1. CASE \A k \in 1..Len(s) : s[k] # NonValue
    <3>1. ArrayFits(f, ListTerm(s))
      BY <1>6, <2>1, FittingList DEF FitsOrNone
    <3> QED BY <3>1 DEF RaisesOrFits
  <2>2. CASE \E k \in 1..Len(s) : s[k] = NonValue
    <3>1. DOMAIN s = 1..Len(s)
      BY <1>6, SequenceElim
    <3>2. IsList(ListTerm(s)) /\ ListTerm(s)[2] = s
      BY DEF ListTerm, IsList, Tag
    <3> QED BY <2>2, <3>1, <3>2 DEF RaisesOrFits, Raises
  <2> QED BY <2>1, <2>2
<1> QED BY <1>6, <1>7

\* An array coerced from a value.
LEMMA ArraySound ==
    ASSUME NEW f, Settled(f), f.type \in ArrayTypes, NEW v, Sound(v)
    PROVE  RaisesOrFits(f, CoerceArray(v, f))
<1>1. PICK items : items = IF IsList(v) THEN v[2] ELSE <<>>
  OBVIOUS
<1>2. SoundItems(items)
  <2>1. SoundItems(<<>>)
    BY EmptySequence, SequenceElim DEF SoundItems
  <2> QED BY <1>1, <2>1, SoundParts
<1>3. PICK n \in Nat : DOMAIN items = 1..n /\ \A k \in 1..n : Sound(items[k])
  BY <1>2, SequenceElim DEF SoundItems
<1>4. CoerceArray(v, f) = CoerceElements(items, f)
  BY <1>1 DEF CoerceArray
<1> QED BY <1>3, <1>4, ElementsSound

\* An array coerced while its wildcard fans out.
LEMMA FanOutSound ==
    ASSUME NEW f, Settled(f), f.type \in ArrayTypes, NEW document \in Terms,
           NEW p, IsPath(p), p.wildcard # 0
    PROVE  RaisesOrFits(f, EvaluateWildcardMapped(document, p, f, <<>>).value)
<1>1. PICK list, rest : /\ list = EvaluateUncached(document, SubSeq(p.segments, 1, p.wildcard - 1))
                        /\ rest = AfterWildcard(p)
  OBVIOUS
<1>2. /\ list \in Terms
      /\ EvaluateWildcardMapped(document, p, f, <<>>).value
            = IF IsList(list) THEN CoerceElements(Elements(list[2], rest), f) ELSE ListTerm(<<>>)
  BY <1>1, FanOutValue
<1>3. AreSegments(rest)
  <2>1. PICK s, w : s = p.segments /\ w = p.wildcard
    OBVIOUS
  <2>2. AreSegments(s) /\ IsSequence(s) /\ Len(s) \in Nat /\ w \in 0..Len(s) /\ DOMAIN s = 1..Len(s)
    BY <2>1, SequenceElim DEF IsPath, AreSegments
  <2>3. rest = SubSeq(s, w + 1, Len(s))
    BY <1>1, <2>1 DEF AfterWildcard
  <2>4. /\ IsSequence(rest) /\ Len(rest) = Len(s) - w
        /\ \A k \in 1..(Len(s) - w) : rest[k] = s[w + k]
    BY <2>2, <2>3, SuffixOf
  <2>5. \A k \in 1..(Len(s) - w) : w + k \in 1..Len(s)
    BY <2>2
  <2>6. DOMAIN rest = 1..(Len(s) - w)
    BY <2>4, SequenceElim
  <2> QED BY <2>2, <2>4, <2>5, <2>6 DEF AreSegments
<1>4. CASE IsList(list)
  <2>1. PICK items : items = Elements(list[2], rest)
    OBVIOUS
  <2>2. list[2] \in Seq(Terms)
    BY <1>2, <1>4, TermsAssumption
  <2>3. PICK n \in Nat : DOMAIN list[2] = 1..n /\ \A k \in 1..n : list[2][k] \in Terms
    BY <2>2
  <2>4. DOMAIN items = 1..n /\ \A k \in 1..n : items[k] = EvaluateUncached(list[2][k], rest)
    BY <2>1, <2>3 DEF Elements
  <2>5. \A k \in 1..n : Sound(items[k])
    BY <1>3, <2>3, <2>4, EvaluatedIsSound
  <2> QED BY <1>2, <1>4, <2>1, <2>4, <2>5, ElementsSound
<1>5. CASE ~IsList(list)
  <2>1. ArrayFits(f, ListTerm(<<>>))
    <3>1. PICK none : none = <<>> /\ IsSequence(none) /\ Len(none) = 0
      BY EmptySequence
    <3> QED BY <3>1, FittingList
  <2> QED BY <1>2, <1>5, <2>1 DEF RaisesOrFits
<1> QED BY <1>4, <1>5
-----------------------------------------------------------------------------
(* Picking.                                                                   *)

PickedSound(none, a, b) == SoundEntries(a.value)
PicksSound == INSTANCE FoldLemmas WITH Op <- PickOp, Rel <- PickedSound

\* One more sound entry.
LEMMA OneMoreEntry ==
    ASSUME NEW entries, SoundEntries(entries), NEW e, Sound(e.value)
    PROVE  SoundEntries(Append(entries, e))
<1>1. IsSequence(entries) /\ Len(entries) \in Nat /\ DOMAIN entries = 1..Len(entries)
  BY SequenceElim DEF SoundEntries
<1>2. PICK s : s = Append(entries, e)
  OBVIOUS
<1>3. /\ IsSequence(s) /\ Len(s) = Len(entries) + 1
      /\ \A k \in 1..Len(entries) : s[k] = entries[k]
      /\ s[Len(entries) + 1] = e
  BY <1>1, <1>2, AppendSequence
<1>4. DOMAIN s = 1..(Len(entries) + 1)
  BY <1>3, SequenceElim
<1>5. \A k \in DOMAIN s : Sound(s[k].value)
  BY <1>1, <1>3, <1>4 DEF SoundEntries
<1> QED BY <1>2, <1>3, <1>5 DEF SoundEntries

\* Picked entries are sound.
LEMMA PickIsSound ==
    ASSUME NEW document, NEW flat, IsBody(document, flat), NEW pick, ArePicks(pick), NEW c
    PROVE  SoundEntries(PickEntries(document, pick, flat, c).value)
<1>1. PICK ctx : ctx = [document |-> document, flat |-> flat]
  OBVIOUS
<1>2. ctx.document = document /\ ctx.flat = flat
  BY <1>1
<1>3. PICK b : b = With(<<>>, c) /\ b.value = <<>>
  BY WithParts
<1>4. PickEntries(document, pick, flat, c) = PicksSound!Left(ctx, b, pick)
  <2>1. PickEntries(ctx.document, pick, ctx.flat, c) = PicksSound!Left(ctx, With(<<>>, c), pick)
    BY Zenon DEF PickEntries, PicksSound!Left, PickOp, FoldLeft, PicksSound!FoldLeft,
                 MapThenFoldSet, PicksSound!MapThenFoldSet, Max, PicksSound!Max
  <2> QED BY <1>2, <1>3, <2>1
<1>5. PicksSound!Keeps(0, ctx, ctx, pick, pick, Len(pick))
  <2> SUFFICES ASSUME NEW k \in 1..Len(pick), NEW a1, NEW a2, PickedSound(0, a1, a2)
               PROVE  PickedSound(0, PickOp(ctx, a1, pick[k]), PickOp(ctx, a2, pick[k]))
    BY Zenon DEF PicksSound!Keeps
  <2>1. PICK e : e = pick[k] /\ ArePaths(e.paths)
    BY DEF ArePicks
  <2>2. PICK found : found = EvaluateFirst(document, e.paths, NoOptions, flat, a1.cache)
    OBVIOUS
  <2>3. Sound(found.value)
    <3>1. PICK paths, options, x : paths = e.paths /\ options = NoOptions /\ x = a1.cache
      OBVIOUS
    <3> QED BY <2>1, <2>2, <3>1, FirstIsSound
  <2>4. PickOp(ctx, a1, e) = AddEntry(a1.value, e.key, found)
    BY <1>2, <2>2 DEF PickOp
  <2>5. AddEntry(a1.value, e.key, found).value
            = IF found.value = Nil THEN a1.value ELSE Append(a1.value, Entry(e.key, found.value))
    BY WithParts DEF AddEntry
  <2>6. SoundEntries(Append(a1.value, Entry(e.key, found.value)))
    <3>1. PICK entries, d : entries = a1.value /\ d = Entry(e.key, found.value)
      OBVIOUS
    <3>2. SoundEntries(entries) /\ Sound(d.value)
      BY <2>3, <3>1, EntryParts DEF PickedSound
    <3> QED BY <3>1, <3>2, OneMoreEntry
  <2> QED BY <2>1, <2>4, <2>5, <2>6 DEF PickedSound
<1>6. Len(pick) \in Nat /\ DOMAIN pick = 1..Len(pick)
  BY SequenceElim DEF ArePicks
<1>7. PickedSound(0, b, b)
  BY <1>3, FewEntries DEF PickedSound, StringEntries
<1>8. PickedSound(0, PicksSound!Left(ctx, b, pick), PicksSound!Left(ctx, b, pick))
  BY <1>5, <1>6, <1>7, PicksSound!FoldsRelated
<1> QED BY <1>4, <1>8 DEF PickedSound

\* What is picked, alone or over the source, is sound.
LEMMA SelectedSound ==
    ASSUME NEW document, NEW flat, IsBody(document, flat), NEW f, ArePicks(f.pick),
           NEW source, Sound(source), NEW c
    PROVE  Sound(SelectJsonValue(document, f, source, flat, c).value)
<1>1. PICK entries : entries = PickEntries(document, f.pick, flat, c).value
  OBVIOUS
<1>2. SoundEntries(entries)
  <2>1. PICK pick : pick = f.pick
    OBVIOUS
  <2> QED BY <1>1, <2>1, PickIsSound
<1>3. Sound(PickMap(entries)) /\ IsMap(PickMap(entries))
  <2>1. IsMap(MapTerm(NoFields))
    BY DEF MapTerm, IsMap, Tag
  <2> QED BY <1>2, <2>1, BuiltIsSound, NoFieldsSound DEF PickMap
<1>4. SelectJsonValue(document, f, source, flat, c).value = PickOver(entries, f, source)
  BY <1>1, WithParts DEF SelectJsonValue, Selected
<1>5. CASE entries = <<>>
  <2>1. PickOver(entries, f, source) = source
    BY <1>5, Zenon DEF PickOver
  <2> QED BY <1>4, <2>1
<1>6. CASE entries # <<>> /\ f.pick_merge /\ IsMap(source)
  <2>1. PickOver(entries, f, source) = MapTerm(Over(PickMap(entries)[2], source[2]))
    BY <1>6, Zenon DEF PickOver
  <2>2. SoundFields(PickMap(entries)[2]) /\ SoundFields(source[2])
    BY <1>3, <1>6, SoundParts
  <2>3. Sound(MapTerm(Over(PickMap(entries)[2], source[2])))
    BY <2>2, SoundMerged, SoundContainers
  <2> QED BY <1>4, <2>1, <2>3
<1>7. CASE entries # <<>> /\ ~(f.pick_merge /\ IsMap(source))
  <2>1. PickOver(entries, f, source) = PickMap(entries)
    BY <1>7, Zenon DEF PickOver
  <2> QED BY <1>3, <1>4, <2>1
<1> QED BY <1>5, <1>6, <1>7
-----------------------------------------------------------------------------
(* Enum8.                                                                      *)

Labelled(f, v) == v = Nil \/ \E w \in DOMAIN f.enum_values : v = IntTerm(f.enum_values[w])
InferredLabel(ctx, a, b) == Labelled(ctx.field, a.value)
RulesLabel == INSTANCE FoldLemmas WITH Op <- RuleOp, Rel <- InferredLabel

\* A rule infers nothing or a configured value.
LEMMA InferredValue ==
    ASSUME NEW f, IsSequence(f.infer), NEW document, NEW flat, NEW c
    PROVE  Labelled(f, InferRules(document, f, flat, c).value)
<1>1. PICK ctx : ctx = [document |-> document, field |-> f, flat |-> flat]
  OBVIOUS
<1>2. ctx.document = document /\ ctx.field = f /\ ctx.flat = flat
  BY <1>1
<1>3. PICK b : b = With(Nil, c) /\ b.value = Nil
  BY WithParts
<1>4. PICK rules : rules = f.infer
  OBVIOUS
<1>5. InferRules(document, f, flat, c) = RulesLabel!Left(ctx, b, rules)
  <2>1. InferRules(ctx.document, ctx.field, ctx.flat, c)
            = RulesLabel!Left(ctx, With(Nil, c), ctx.field.infer)
    BY Zenon DEF InferRules, RulesLabel!Left, RuleOp, FoldLeft, RulesLabel!FoldLeft,
                 MapThenFoldSet, RulesLabel!MapThenFoldSet, Max, RulesLabel!Max
  <2> QED BY <1>2, <1>3, <1>4, <2>1
<1>6. RulesLabel!Keeps(ctx, ctx, ctx, rules, rules, Len(rules))
  <2> SUFFICES ASSUME NEW k \in 1..Len(rules), NEW a1, NEW a2, InferredLabel(ctx, a1, a2)
               PROVE  InferredLabel(ctx, RuleOp(ctx, a1, rules[k]), RuleOp(ctx, a2, rules[k]))
    BY Zenon DEF RulesLabel!Keeps
  <2>1. PICK rule : rule = rules[k]
    OBVIOUS
  <2>2. CASE a1.value # Nil
    <3>1. RuleOp(ctx, a1, rule) = a1
      BY <2>2 DEF RuleOp
    <3> QED BY <2>1, <3>1 DEF InferredLabel
  <2>3. CASE a1.value = Nil
    <3>1. PICK any, all, yes : RuleOp(ctx, a1, rule) = RuleResult(rule, f, yes, all)
      BY <1>2, <2>3 DEF RuleOp, AfterAny
    <3>2. RuleResult(rule, f, yes, all).value
              = IF yes /\ all.value /\ rule.result \in DOMAIN f.enum_values
                THEN IntTerm(f.enum_values[rule.result]) ELSE Nil
      BY WithParts, Zenon DEF RuleResult
    <3>3. Labelled(f, RuleResult(rule, f, yes, all).value)
      BY <3>2 DEF Labelled
    <3> QED BY <1>2, <2>1, <3>1, <3>3 DEF InferredLabel
  <2> QED BY <2>2, <2>3
<1>7. Len(rules) \in Nat /\ DOMAIN rules = 1..Len(rules)
  BY <1>4, SequenceElim
<1>8. InferredLabel(ctx, b, b)
  BY <1>3 DEF InferredLabel, Labelled
<1>9. InferredLabel(ctx, RulesLabel!Left(ctx, b, rules), RulesLabel!Left(ctx, b, rules))
  BY <1>6, <1>7, <1>8, RulesLabel!FoldsRelated
<1> QED BY <1>2, <1>5, <1>9 DEF InferredLabel

\* An enum8 resolves to a configured value or to its default.
LEMMA EnumValue ==
    ASSUME NEW f, IsSequence(f.infer), NEW document, NEW v, NEW flat, NEW c, WellFormed(v)
    PROVE  LET e == ResolveEnum8(document, f, v, flat, c).value IN
           e = f.default \/ \E w \in DOMAIN f.enum_values : e = IntTerm(f.enum_values[w])
<1>1. CASE Listed(v, f.enum_values)
  <2>1. PICK w : w = lowerOf[v[2][2]] /\ w \in DOMAIN f.enum_values
    BY <1>1 DEF Listed
  <2>2. ResolveEnum8(document, f, v, flat, c) = With(IntTerm(Looked(v, f.enum_values)), c)
    <3>1. IsEnumValue(v, f) => ~Listed(v, f.enum_values)
      BY OneTag DEF IsEnumValue, Listed
    <3> QED BY <1>1, <3>1, Zenon DEF ResolveEnum8
  <2>3. Looked(v, f.enum_values) = f.enum_values[w]
    BY <2>1 DEF Looked
  <2> QED BY <2>1, <2>2, <2>3, WithParts
<1>2. CASE IsEnumValue(v, f)
  <2>1. ~Listed(v, f.enum_values)
    BY <1>2, OneTag DEF IsEnumValue, Listed
  <2>2. ResolveEnum8(document, f, v, flat, c) = With(v, c)
    BY <1>2, <2>1, Zenon DEF ResolveEnum8
  <2>3. v = IntTerm(v[2]) /\ \E w \in DOMAIN f.enum_values : v[2] = f.enum_values[w]
    BY <1>2, DecodedPayloads DEF IsEnumValue, EnumValues
  <2> QED BY <2>2, <2>3, WithParts
<1>3. CASE ~Listed(v, f.enum_values) /\ ~IsEnumValue(v, f)
  <2>1. PICK inferred : inferred = InferRules(document, f, flat, c)
    OBVIOUS
  <2>2. ResolveEnum8(document, f, v, flat, c) = Inferred(inferred, f)
    BY <1>3, <2>1, Zenon DEF ResolveEnum8
  <2>3. Inferred(inferred, f).value = IF inferred.value = Nil THEN f.default ELSE inferred.value
    BY WithParts DEF Inferred
  <2> QED BY <2>1, <2>2, <2>3, InferredValue DEF Labelled
<1> QED BY <1>1, <1>2, <1>3
-----------------------------------------------------------------------------
(* One field.                                                                 *)

\* What a field resolves to is sound.
LEMMA ResolvedSound ==
    ASSUME NEW document, NEW flat, IsBody(document, flat), NEW f, IsField(f), Settled(f),
           NEW outputs, f.source[1] = "output" => Sound(outputs[f.source[2]]), NEW c
    PROVE  Sound(ResolveValue(document, f, outputs, flat, c).value)
<1>1. PICK found : found = ResolveRaw(document, f, outputs, flat, c)
  OBVIOUS
<1>2. Sound(found.value)
  <2>1. CASE f.source[1] = "root"
    <3>1. found = With(document, c)
      BY <1>1, <2>1, Zenon DEF ResolveRaw
    <3> QED BY <3>1, WithParts DEF IsBody
  <2>2. CASE f.source[1] = "path"
    <3>1. PICK p : p = f.source[2][1] /\ IsPath(p)
      BY <2>2 DEF IsField, ArePaths
    <3>2. found = Evaluate(document, p, flat, c)
      BY <1>1, <2>2, <3>1, Zenon DEF ResolveRaw
    <3> QED BY <3>1, <3>2, PathIsSound
  <2>3. CASE f.source[1] = "paths"
    <3>1. PICK paths, options : paths = f.source[2] /\ ArePaths(paths) /\ options = SourceOptions(f)
      BY <2>3 DEF IsField
    <3>2. found = EvaluateFirst(document, paths, options, flat, c)
      BY <1>1, <2>3, <3>1, Zenon DEF ResolveRaw
    <3> QED BY <3>1, <3>2, FirstIsSound
  <2>4. CASE f.source[1] = "output"
    <3>1. found = With(outputs[f.source[2]], c)
      BY <1>1, <2>4, Zenon DEF ResolveRaw
    <3> QED BY <2>4, <3>1, WithParts
  <2> QED BY <2>1, <2>2, <2>3, <2>4 DEF IsField
<1>3. ResolveValue(document, f, outputs, flat, c) = OrDefault(found, f)
  BY <1>1 DEF ResolveValue
<1>4. OrDefault(found, f) = With(f.default, found.cache) \/ OrDefault(found, f) = found
  BY DEF OrDefault
<1>5. Sound(f.default)
  BY PlainIsSound DEF Settled
<1> QED BY <1>2, <1>3, <1>4, <1>5, WithParts

\* Transform, allowed values and value map keep a value sound.
LEMMA NormalSound ==
    ASSUME NEW v, Sound(v), NEW f, Settled(f)
    PROVE  Sound(Normalise(v, f))
<1>1. Sound(f.default)
  BY PlainIsSound DEF Settled
<1>2. PICK a : a = ApplyTransform(v, f.transform) /\ Sound(a)
  <2>1. \A w : Sound(StrTerm(<<"text", w>>))
    BY Texts, TextIsSound
  <2>2. ApplyTransform(v, f.transform) = v \/ \E w : ApplyTransform(v, f.transform) = StrTerm(<<"text", w>>)
    BY Zenon DEF ApplyTransform
  <2> QED BY <2>1, <2>2
<1>3. PICK b : b = ApplyAllowedValues(a, f) /\ Sound(b)
  <2>1. ApplyAllowedValues(a, f) = a \/ ApplyAllowedValues(a, f) = f.default
    BY Zenon DEF ApplyAllowedValues
  <2> QED BY <1>1, <1>2, <2>1
<1>4. Sound(ApplyValueMap(b, f))
  <2>1. CASE DOMAIN f.value_map = {}
    BY <1>3, <2>1, Zenon DEF ApplyValueMap
  <2>2. CASE DOMAIN f.value_map # {} /\ Listed(b, f.value_map)
    <3>1. ApplyValueMap(b, f) = Looked(b, f.value_map)
      BY <2>2, Zenon DEF ApplyValueMap
    <3>2. PICK w : w = lowerOf[b[2][2]] /\ w \in DOMAIN f.value_map
      BY <2>2 DEF Listed
    <3>3. IsPlain(f.value_map[w])
      BY <3>2 DEF Settled
    <3> QED BY <3>1, <3>2, <3>3, PlainIsSound DEF Looked
  <2>3. CASE DOMAIN f.value_map # {} /\ ~Listed(b, f.value_map)
    <3>1. ApplyValueMap(b, f) = f.default
      BY <2>3, Zenon DEF ApplyValueMap
    <3> QED BY <1>1, <3>1
  <2> QED BY <2>1, <2>2, <2>3
<1> QED BY <1>2, <1>3, <1>4 DEF Normalise

\* What the value of a field is: sound, one its column's encoder takes, and one of
\* the enum's values or the default.
ValueFits(f, v) ==
    /\ Sound(v)
    /\ f.type \notin {"json", "array_json", "array_map"} => CanEncode(WireOf(f.type), v)
    /\ f.type = "enum8" => HasLabel(f, v)

\* How the encoder of a scalar, of json and of a flat map tells what it takes.
LEMMA ScalarWires ==
    /\ \A ty \in ScalarTypes \ {"datetime64"} : \A v : CanEncode(WireOf(ty), v) <=> Encodes(v, ScalarWire(ty))
    /\ \A v : CanEncode(WireOf("datetime64"), v) <=> v = Nil \/ Encodes(v, ScalarWire("datetime64"))
    /\ \A v : CanEncode(WireOf("flat_map"), v) <=> IsStringMap(v)
<1>1. ASSUME NEW ty \in ScalarTypes \ {"datetime64"}, NEW v
      PROVE  CanEncode(WireOf(ty), v) <=> Encodes(v, ScalarWire(ty))
  <2>1. PICK w : w = WireOf(ty) /\ w = ScalarWire(ty)
        /\ w \notin {"map", "array_map", "array_string", "array_uint64", "array_int64", "array_float64"}
    <3>1. CASE ty = "enum8"
      <4>1. WireOf(ty) = "int8" /\ ScalarWire(ty) = "int8"
        BY <3>1, Zenon DEF WireOf, ScalarWire
      <4> QED BY <4>1
    <3>2. CASE ty # "enum8"
      <4>1. ty \notin {"enum8", "datetime64", "flat_map", "array_flat_map", "array_datetime64"}
        BY <3>2 DEF ScalarTypes
      <4>2. WireOf(ty) = ty
        BY <4>1, Zenon DEF WireOf
      <4>3. ScalarWire(ty) = ty
        BY <4>1, Zenon DEF ScalarWire
      <4> QED BY <4>2, <4>3 DEF ScalarTypes
    <3> QED BY <3>1, <3>2
  <2>2. CanEncode(w, v) <=> Encodes(v, w)
    BY <2>1, Zenon DEF CanEncode
  <2> QED BY <2>1, <2>2
<1>2. ASSUME NEW v
      PROVE  CanEncode(WireOf("datetime64"), v) <=> v = Nil \/ Encodes(v, ScalarWire("datetime64"))
  <2>1. WireOf("datetime64") = "nullable_int64" /\ ScalarWire("datetime64") = "int64"
    BY Zenon DEF WireOf, ScalarWire
  <2>2. CanEncode("nullable_int64", v) <=> Encodes(v, "nullable_int64")
    BY Zenon DEF CanEncode
  <2>3. Encodes(v, "nullable_int64") <=> v = Nil \/ IsI64(v)
    BY Zenon DEF Encodes
  <2>4. Encodes(v, "int64") <=> IsI64(v)
    BY Zenon DEF Encodes
  <2> QED BY <2>1, <2>2, <2>3, <2>4
<1>3. ASSUME NEW v PROVE CanEncode(WireOf("flat_map"), v) <=> IsStringMap(v)
  BY Zenon DEF CanEncode, WireOf
<1> QED BY <1>1, <1>2, <1>3

\* A coerced scalar fits its column, when it is a term at all.
LEMMA CoercedFits ==
    ASSUME NEW f, Settled(f), f.type \in ScalarTypes, NEW v, WellFormed(v),
           Coerce(v, f.type, f.precision) # NonValue
    PROVE  /\ Sound(Coerce(v, f.type, f.precision))
           /\ CanEncode(WireOf(f.type), Coerce(v, f.type, f.precision))
<1>1. PICK ty, precision, w : ty = f.type /\ precision = f.precision /\ w = Coerce(v, ty, precision)
  OBVIOUS
<1>2. ty = "datetime64" => precision \in 0..9
  BY <1>1 DEF Settled
<1>3. /\ Sound(w)
      /\ v # Nil \/ ty # "datetime64" => Encodes(w, ScalarWire(ty))
      /\ v = Nil /\ ty = "datetime64" => w = Nil
  BY <1>1, <1>2, CoercedSound
<1>4. CASE ty # "datetime64"
  <2>1. Encodes(w, ScalarWire(ty)) /\ ty \in ScalarTypes \ {"datetime64"}
    BY <1>1, <1>3, <1>4
  <2> QED BY <1>1, <1>3, <2>1, ScalarWires
<1>5. CASE ty = "datetime64"
  BY <1>1, <1>3, <1>5, ScalarWires
<1> QED BY <1>4, <1>5

\* A value of a tiny integer type keeps its value.
LEMMA EnumCoerced ==
    ASSUME NEW n \in (-I8Max - 1)..I8Max, NEW precision
    PROVE  Coerce(IntTerm(n), "enum8", precision) = IntTerm(n)
<1>0. PICK v : v = IntTerm(n)
  OBVIOUS
<1>1. v = IntTerm(n) /\ v[2] = n
  BY <1>0 DEF IntTerm
<1>2. IsI64(v) /\ v # Nil
  BY <1>1, WidthAssumption, IntegerBoundsAssumption DEF IsI64, IsInt, IntTerm, Tag, Nil
<1>3. Clamp(n, -I8Max - 1, I8Max) = n
  BY WidthAssumption DEF Clamp
<1>4. CoerceEnum8(v) = IntTerm(n)
  BY <1>1, <1>2, <1>3 DEF CoerceEnum8
<1>5. Coerce(v, "enum8", precision) = CoerceEnum8(v)
  BY <1>2, CoerceByType
<1> QED BY <1>1, <1>4, <1>5

\* A coerced default does not depend on a precision unless it is a time.
LEMMA EnumDefault ==
    ASSUME NEW d, NEW precision
    PROVE  Coerce(d, "enum8", precision) = Coerce(d, "enum8", 9)
<1>1. CASE d = Nil
  BY <1>1 DEF Coerce
<1>2. CASE d # Nil
  <2>1. PICK nine : nine = 9
    OBVIOUS
  <2>2. Coerce(d, "enum8", precision) = CoerceEnum8(d) /\ Coerce(d, "enum8", nine) = CoerceEnum8(d)
    BY <1>2, CoerceByType
  <2> QED BY <2>1, <2>2
<1> QED BY <1>1, <1>2

\* What is shaped fits, or raises.
LEMMA MapFoundFits ==
    ASSUME NEW document, NEW flat, IsBody(document, flat), NEW f, IsField(f), Settled(f),
           f.type \notin ArrayTypes, NEW found, Sound(found.value)
    PROVE  LET w == MapFound(document, f, found, flat).value IN Raises(w) \/ ValueFits(f, w)
<1>1. PICK v, c : v = Normalise(found.value, f) /\ Sound(v) /\ WellFormed(v) /\ c = found.cache
  <2>1. PICK x : x = found.value
    OBVIOUS
  <2>2. Sound(Normalise(x, f))
    BY <2>1, NormalSound
  <2> QED BY <2>1, <2>2, SoundParts
<1>2. PICK done : done = Complete(document, f, v, flat, c)
  OBVIOUS
<1>3. MapFound(document, f, found, flat).value = Shape(done.value, f, flat)
  BY <1>1, <1>2, WithParts DEF MapFound, Shaped
<1>4. IsSequence(f.infer) /\ ArePicks(f.pick) /\ IsSequence(f.elevate_keys)
  BY DEF IsField, AreRules, Settled
<1>5. CASE f.type = "json"
  <2>1. done = SelectJsonValue(document, f, v, flat, c)
    BY <1>2, <1>5, Zenon DEF Complete
  <2>2. Sound(done.value)
    BY <1>1, <1>4, <2>1, SelectedSound
  <2>3. Shape(done.value, f, flat) = IF flat THEN ApplyJsonOperationsFlat(done.value, f)
                                     ELSE ApplyJsonOperations(done.value, f)
    BY <1>5, Zenon DEF Shape
  <2>4. PICK x : x = done.value
    OBVIOUS
  <2>5. Sound(ApplyJsonOperationsFlat(x, f)) /\ Sound(ApplyJsonOperations(x, f))
    BY <1>4, <2>2, <2>4, FlatOperationsSound, JsonOperationsSound
  <2> QED BY <1>3, <1>5, <2>3, <2>4, <2>5 DEF ValueFits
<1>6. CASE f.type = "flat_map"
  <2>1. done = SelectJsonValue(document, f, v, flat, c)
    BY <1>2, <1>6, Zenon DEF Complete
  <2>2. PICK x : x = done.value /\ Sound(x)
    BY <1>1, <1>4, <2>1, SelectedSound
  <2>3. Shape(x, f, flat) = IF flat THEN StringifyValues(ApplyJsonOperationsFlat(x, f))
                            ELSE FlattenField(x, f)
    BY <1>6, Zenon DEF Shape
  <2>4. Sound(FlattenField(x, f)) /\ IsStringMap(FlattenField(x, f))
    BY <1>4, <2>2, FlatFieldSound
  <2>5. PICK y : y = ApplyJsonOperationsFlat(x, f) /\ Sound(y)
    BY <1>4, <2>2, FlatOperationsSound
  <2>6. Sound(StringifyValues(y)) /\ IsStringMap(StringifyValues(y))
    BY <2>5, StringifiedSound
  <2> QED BY <1>3, <1>6, <2>2, <2>3, <2>4, <2>5, <2>6, ScalarWires DEF ValueFits
<1>7. CASE f.type \in ScalarTypes
  <2>0. f.type \notin {"json", "flat_map"}
    BY <1>7 DEF ScalarTypes
  <2>1. PICK x : x = done.value
    OBVIOUS
  <2>2. Shape(x, f, flat) = Coerce(x, f.type, f.precision)
    BY <2>0, Zenon DEF Shape
  <2>3. CASE f.type # "enum8"
    <3>1. done = With(v, c)
      BY <1>2, <2>0, <2>3, Zenon DEF Complete
    <3>2. x = v
      BY <2>1, <3>1, WithParts
    <3>3. PICK w : w = Coerce(x, f.type, f.precision)
      OBVIOUS
    <3>4. w # NonValue => Sound(w) /\ CanEncode(WireOf(f.type), w)
      BY <1>1, <1>7, <3>2, <3>3, CoercedFits
    <3> QED BY <1>3, <1>7, <2>1, <2>2, <2>3, <3>3, <3>4 DEF ValueFits, Raises
  <2>4. CASE f.type = "enum8"
    <3>1. done = ResolveEnum8(document, f, v, flat, c)
      BY <1>2, <2>4, Zenon DEF Complete
    <3>2. x = f.default \/ \E w \in DOMAIN f.enum_values : x = IntTerm(f.enum_values[w])
      BY <1>1, <1>4, <2>1, <3>1, EnumValue
    <3>3. \A w \in DOMAIN f.enum_values : f.enum_values[w] \in (-I8Max - 1)..I8Max
      BY <2>4 DEF Settled
    <3>4. WellFormed(x)
      <4>1. WellFormed(f.default)
        BY DEF Settled, IsPlain
      <4>2. \A n \in Int : WellFormed(IntTerm(n))
        BY PlainTerms DEF IsPlain
      <4>3. \A w \in DOMAIN f.enum_values : f.enum_values[w] \in Int
        BY <3>3, WidthAssumption
      <4> QED BY <3>2, <4>1, <4>2, <4>3
    <3>5. HasLabel(f, Coerce(x, "enum8", f.precision))
      <4>0. PICK precision : precision = f.precision
        OBVIOUS
      <4>1. CASE x = f.default
        <5>1. PICK d : d = f.default
          OBVIOUS
        <5>2. Coerce(d, "enum8", precision) = Coerce(d, "enum8", 9)
          BY EnumDefault
        <5> QED BY <4>0, <4>1, <5>1, <5>2 DEF HasLabel
      <4>2. CASE \E w \in DOMAIN f.enum_values : x = IntTerm(f.enum_values[w])
        <5>1. PICK w \in DOMAIN f.enum_values : x = IntTerm(f.enum_values[w])
          BY <4>2
        <5>2. PICK n : n = f.enum_values[w] /\ n \in (-I8Max - 1)..I8Max
          BY <3>3
        <5>3. Coerce(x, "enum8", precision) = IntTerm(n)
          BY <5>1, <5>2, EnumCoerced
        <5>4. IntTerm(n)[2] = n
          BY DEF IntTerm
        <5>5. n \in EnumValues(f)
          BY <5>2 DEF EnumValues
        <5> QED BY <4>0, <5>3, <5>4, <5>5 DEF HasLabel
      <4> QED BY <3>2, <4>1, <4>2
    <3>6. PICK w : w = Coerce(x, f.type, f.precision)
      OBVIOUS
    <3>7. w # NonValue => Sound(w) /\ CanEncode(WireOf(f.type), w)
      BY <1>7, <3>4, <3>6, CoercedFits
    <3> QED BY <1>3, <1>7, <2>1, <2>2, <2>4, <3>5, <3>6, <3>7 DEF ValueFits, Raises
  <2> QED BY <2>3, <2>4
<1>8. f.type \in ScalarTypes \cup {"json", "flat_map"}
  BY DEF Settled, FieldTypes
<1> QED BY <1>5, <1>6, <1>7, <1>8

\* What a field maps to fits its column, or raises.
LEMMA MapFieldFits ==
    ASSUME NEW document, NEW flat, IsBody(document, flat), NEW f, IsField(f), Settled(f),
           NEW outputs, f.source[1] = "output" => Sound(outputs[f.source[2]])
    PROVE  LET w == MapField(document, f, outputs, flat, <<>>).value IN Raises(w) \/ ValueFits(f, w)
<1>1. PICK c, found : c = <<>> /\ found = ResolveValue(document, f, outputs, flat, c)
  OBVIOUS
<1>2. Sound(found.value)
  BY <1>1, ResolvedSound
<1>3. CASE f.type \notin ArrayTypes
  <2>1. MapField(document, f, outputs, flat, c) = MapFound(document, f, found, flat)
    BY <1>1, <1>3, Zenon DEF MapField, MapScalar
  <2> QED BY <1>1, <1>2, <1>3, <2>1, MapFoundFits
<1>4. CASE f.type \in ArrayTypes
  <2>1. \A v : RaisesOrFits(f, v) => Raises(v) \/ ValueFits(f, v)
    BY <1>4 DEF RaisesOrFits, ArrayFits, ValueFits, ArrayTypes
  <2>2. CASE FansOut(f, flat)
    <3>1. PICK p : p = f.source[2][1]
      OBVIOUS
    <3>2. IsPath(p) /\ p.wildcard # 0 /\ document \in Terms
      BY <2>2, <3>1 DEF FansOut, IsField, ArePaths, IsBody
    <3>3. MapField(document, f, outputs, flat, c) = EvaluateWildcardMapped(document, p, f, c)
      BY <1>4, <2>2, <3>1, Zenon DEF MapField
    <3> QED BY <1>1, <1>4, <2>1, <3>2, <3>3, FanOutSound
  <2>3. CASE ~FansOut(f, flat)
    <3>1. MapField(document, f, outputs, flat, c) = MapArray(document, f, outputs, flat, c)
      BY <1>4, <2>3, Zenon DEF MapField
    <3>2. MapArray(document, f, outputs, flat, c).value = CoerceArray(found.value, f)
      BY <1>1, WithParts DEF MapArray, CoerceFound
    <3>3. PICK v : v = found.value
      OBVIOUS
    <3>4. RaisesOrFits(f, CoerceArray(v, f))
      BY <1>2, <1>4, <3>3, ArraySound
    <3> QED BY <1>1, <2>1, <3>1, <3>2, <3>3, <3>4
  <2> QED BY <2>2, <2>3
<1> QED BY <1>3, <1>4
-----------------------------------------------------------------------------
(* Every value of a call.                                                     *)

\* The documents of the calls, nested and with dotted keys, are sound.
LEMMA DocumentsAreBodies ==
    \A d \in Documents : IsBody(d, FALSE) /\ IsBody(FlatDocuments[d], TRUE)
<1> SUFFICES ASSUME NEW d \in Documents PROVE IsBody(d, FALSE) /\ IsBody(FlatDocuments[d], TRUE)
  OBVIOUS
<1>1. d \in Terms /\ IsMap(d) /\ Sound(d)
  BY InputsAssumption, TermsAreSound
<1>2. SoundFields(d[2])
  BY <1>1, SoundParts
<1>3. PICK top : top = EntriesOf(<<>>, d[2]) /\ SoundEntries(top)
  <2>1. PICK prefix, f : prefix = <<>> /\ f = d[2]
    OBVIOUS
  <2> QED BY <1>2, <2>1, EntriesAreSound
<1>4. Sound(BuildFlatMap(Leaves(top)))
  BY <1>3, LeavesAreSound, BuiltIsSound
<1>5. FlatDocuments[d] = BuildFlatMap(Leaves(top))
  BY <1>3 DEF FlatDocuments, FlatDocument
<1> QED BY <1>1, <1>4, <1>5 DEF IsBody

\* What fits a field fits it with its slots.
LEMMA FitsSame ==
    ASSUME NEW g, NEW f, SamePlain(g, f), NEW v, ValueFits(f, v)
    PROVE  ValueFits(g, v)
BY DEF SamePlain, ValueFits, HasLabel, EnumValues

\* Every value mapped so far fits the column of its field.
ValuesFit ==
    phase \in {"mapping", "writing"} =>
        /\ IsBody(call.document, call.flat)
        /\ \A k \in 1..Len(values) : ValueFits(fields[k], values[k])

\* One more value fits: it is what its field maps to without slots, and a field
\* that takes another's output takes one that fits already.
LEMMA NextValueFits ==
    ASSUME ValuesFit, CacheInv', ProgressInv, ProgressInv', MapNextField
    PROVE  ValuesFit'
<1>1. phase = "mapping" /\ phase' = phase /\ mapping' = mapping /\ call' = call
  BY DEF MapNextField, FieldsLeft
<1>2. PICK v : values' = Append(values, v) /\ ~Raises(v)
  BY DEF MapNextField, Keep
<1>3. IsSequence(values) /\ Len(values) \in Nat
  BY <1>1, SequenceElim DEF ProgressInv, Progress
<1>4. PICK n, s : n = Len(values) + 1 /\ s = values'
  OBVIOUS
<1>5. /\ IsSequence(s) /\ Len(s) = n /\ n \in Nat /\ n - 1 = Len(values)
      /\ \A k \in 1..Len(values) : s[k] = values[k]
      /\ s[n] = v
  BY <1>2, <1>3, <1>4, AppendSequence
<1>6. HasMapped'
  <2>1. s # <<>>
    BY <1>3, <1>4, <1>5, EmptySequence
  <2> QED BY <1>1, <1>4, <2>1 DEF HasMapped
<1>7. PICK f, g, outputs : f = UncachedField' /\ g = Mapped' /\ outputs = Outputs'
  OBVIOUS
<1>8. /\ IsField(f) /\ Settled(f) /\ TakesEarlier(f, n) /\ SamePlain(g, f) /\ g = fields[n]
  <2>1. mapping.config \in DOMAIN Mappings /\ mapping \in Mappings[mapping.config]
    BY <1>1 DEF ProgressInv, MappingInUse
  <2>2. n \in 1..Len(mapping.fields)
    <3>1. Len(values) < Len(mapping.fields)
      BY DEF MapNextField, FieldsLeft, fields
    <3>2. Len(mapping.fields) \in Nat
      BY <2>1, FieldsInUse
    <3> QED BY <1>3, <1>4, <3>1, <3>2
  <2>3. PICK h : h = Compiled[mapping.config][n]
    OBVIOUS
  <2>4. IsField(h) /\ Settled(h) /\ TakesEarlier(h, n) /\ SameField(mapping.fields[n], h, mapping.slots)
    <3>1. Len(mapping.fields) = Len(Compiled[mapping.config])
      BY <2>1, FieldsInUse
    <3> QED BY <2>1, <2>2, <2>3, FieldsInUse
  <2>5. f = h
    BY <1>1, <1>4, <1>5, <1>7, <2>3 DEF UncachedField, config, Compiled, Configs
  <2>6. g = mapping.fields[n]
    BY <1>1, <1>4, <1>5, <1>7 DEF Mapped, fields
  <2> QED BY <2>4, <2>5, <2>6 DEF SameField, fields
<1>9. v = MapField(call.document, f, outputs, call.flat, <<>>).value
  <2>1. Value' = MapField(call'.document, UncachedField', Outputs', call'.flat, <<>>).value
    BY <1>6 DEF CacheInv, CacheTransparent
  <2>2. Value' = s[n]
    BY <1>4, <1>5 DEF Value
  <2> QED BY <1>1, <1>5, <1>7, <2>1, <2>2
<1>10. \A k \in 1..(n - 1) : outputs[k] = values[k] /\ Sound(values[k])
  <2>1. outputs = SubSeq(s, 1, n - 1)
    BY <1>4, <1>5, <1>7 DEF Outputs
  <2>2. \A k \in 1..(n - 1) : outputs[k] = s[k]
    <3>1. n - 1 \in 0..Len(s)
      BY <1>3, <1>5
    <3>2. PICK m : m = n - 1
      OBVIOUS
    <3> QED BY <1>5, <2>1, <3>1, <3>2, PrefixOf
  <2> QED BY <1>1, <1>5, <2>2 DEF ValuesFit, ValueFits
<1>11. IsBody(call.document, call.flat)
  BY <1>1 DEF ValuesFit
<1>12. ValueFits(f, v)
  <2>1. PICK document, flat : document = call.document /\ flat = call.flat
    OBVIOUS
  <2>2. f.source[1] = "output" => Sound(outputs[f.source[2]])
    BY <1>8, <1>10 DEF TakesEarlier
  <2>3. PICK w : w = MapField(document, f, outputs, flat, <<>>).value
    OBVIOUS
  <2>4. Raises(w) \/ ValueFits(f, w)
    BY <1>8, <1>11, <2>1, <2>2, <2>3, MapFieldFits
  <2> QED BY <1>2, <1>9, <2>1, <2>3, <2>4
<1>13. ValueFits(g, v)
  BY <1>8, <1>12, FitsSame
<1>14. \A k \in 1..n : ValueFits(fields[k], s[k])
  <2>1. \A k \in 1..Len(values) : ValueFits(fields[k], values[k])
    BY <1>1 DEF ValuesFit
  <2>2. \A k \in 1..n : k = n \/ k \in 1..Len(values)
    BY <1>3, <1>4
  <2> QED BY <1>5, <1>8, <1>13, <2>1, <2>2
<1> QED BY <1>1, <1>4, <1>5, <1>11, <1>14 DEF ValuesFit, fields

\* Every value mapped so far, of a call under way, is sound and fits the field it was
\* mapped for: what the row encoder, and a later from_output, will read
\* (map_columns_with_field_defs_and_elevate).
THEOREM ValuesAlwaysFit == Spec => []ValuesFit
<1>1. Init => ValuesFit
  BY DEF Init, ValuesFit
<1>2. ValuesFit /\ CacheInv' /\ ProgressInv /\ ProgressInv' /\ [Next]_vars => ValuesFit'
  <2> SUFFICES ASSUME ValuesFit, CacheInv', ProgressInv, ProgressInv', [Next]_vars PROVE ValuesFit'
    OBVIOUS
  <2>1. ASSUME phase' \in {"idle", "ready"} PROVE ValuesFit'
    BY <2>1 DEF ValuesFit
  <2>2. ASSUME mapping' = mapping, values' = values, call' = call,
               phase' = phase \/ phase \in {"mapping", "writing"}
        PROVE  ValuesFit'
    BY <2>2 DEF ValuesFit, fields
  <2>3. ASSUME NEW d \in Documents, NEW e,
               StartCall(d, FALSE, e) \/ StartCall(FlatDocuments[d], TRUE, e)
        PROVE  ValuesFit'
    <3>0. ASSUME NEW document, NEW flat, IsBody(document, flat), StartCall(document, flat, e)
          PROVE  IsBody(call'.document, call'.flat) /\ values' = <<>>
      <4>1. call' = [document |-> document, flat |-> flat, envelope |-> e] /\ values' = <<>>
        BY <3>0 DEF StartCall
      <4>2. call'.document = document /\ call'.flat = flat
        BY <4>1
      <4> QED BY <3>0, <4>1, <4>2
    <3>1. IsBody(d, FALSE) /\ IsBody(FlatDocuments[d], TRUE)
      BY DocumentsAreBodies
    <3>2. IsBody(call'.document, call'.flat) /\ values' = <<>>
      <4>1. CASE StartCall(d, FALSE, e)
        BY <3>0, <3>1, <4>1
      <4>2. CASE StartCall(FlatDocuments[d], TRUE, e)
        BY <3>0, <3>1, <4>2
      <4> QED BY <2>3, <4>1, <4>2
    <3>3. 1..Len(values') = {}
      BY <3>2
    <3> QED BY <3>2, <3>3 DEF ValuesFit
  <2>4. CASE MapNextField
    BY <2>4, NextValueFits
  <2>5. CASE StartRow
    BY <2>2, <2>5 DEF StartRow, AllMapped
  <2>6. CASE WriteCell
    BY <2>2, <2>6 DEF WriteCell
  <2>7. CASE RaiseInField \/ ReturnMap \/ ReturnNdjson \/ FailRow \/ FinishRow
    BY <2>1, <2>7 DEF RaiseInField, ReturnMap, ReturnNdjson, FailRow, FinishRow, Answer
  <2>8. CASE RefuseCall
    BY <2>1, <2>8 DEF RefuseCall
  <2>9. ASSUME NEW c, Compile(c) \/ RejectConfig(c) PROVE ValuesFit'
    BY <2>1, <2>9 DEF Compile, RejectConfig
  <2>10. CASE UNCHANGED vars
    BY <2>2, <2>10 DEF vars
  <2> QED BY <2>3, <2>4, <2>5, <2>6, <2>7, <2>8, <2>9, <2>10 DEF Next
<1> QED BY <1>1, <1>2, CacheInvariant, CallsProgress, PTL DEF Spec

\* Whatever the event holds, a call keeps only values their columns' encoders take:
\* nil for a timestamp only, and an enum8 is a configured value or the field's
\* default; a float that no term holds ends the call instead (coerce.rs and
\* resolve_enum8 against clickhouse_rowbinary.rs).
THEOREM MappedValuesAlwaysEncode == Spec => []MappedValuesEncode
<1>1. ValuesFit /\ ProgressInv => MappedValuesEncode
  <2> SUFFICES ASSUME ValuesFit, ProgressInv, HasMapped,
                      Mapped.type \notin {"json", "array_json", "array_map"}
               PROVE  /\ CanEncode(WireOf(Mapped.type), Value)
                      /\ Mapped.type = "enum8" => HasLabel(Mapped, Value)
    BY DEF MappedValuesEncode
  <2>1. Len(values) \in 1..Len(values)
    BY NonEmpty DEF HasMapped, ProgressInv, Progress
  <2>2. ValueFits(Mapped, Value)
    BY <2>1 DEF ValuesFit, HasMapped, Mapped, Value
  <2> QED BY <2>2 DEF ValueFits
<1> QED BY <1>1, ValuesAlwaysFit, CallsProgress, PTL
=============================================================================
