----------------------------- MODULE MapperTerm -----------------------------
(* The BEAM terms the mapper NIF (src/native/mapper_ex) reads and writes, as   *)
(* tagged tuples, and the rustler decodings its code branches on.  A map is a  *)
(* function from keys to terms; a key is a non-empty sequence of name parts,   *)
(* so that the dotted key "metadata.level" is <<"metadata", "level">> and      *)
(* joining a prefix to a key is \o.  A string is told apart by what it parses  *)
(* as:                                                                         *)
(*   <<"text", w>>  a word          <<"num", n>>   an integer literal          *)
(*   <<"dec", h>>   a decimal       <<"time", n>>  an RFC 3339 instant, in ns  *)
(*   <<"json", s>>  the JSON text with the tokens s                            *)
(* Some words read as a number that no finite float is: NaN, inf, 1e400.       *)
(* Floats are counted in halves: FloatTerm(3) is 1.5.  Event bodies are        *)
(* decoded JSON, so keys are binaries and no key is empty.                     *)
EXTENDS Integers, Sequences, FiniteSets

CONSTANTS
    I64Max,         \* 2^63 - 1
    U64Max,         \* 2^64 - 1
    F64Max,         \* the largest finite f64, in halves
    NonFiniteWords, \* the words that s.parse::<f64>() reads as NaN or an infinity
    Terms,          \* the terms events are made of: bodies and all within them
    MaxDepth        \* how deep they nest

ASSUME IntegerBoundsAssumption ==
    /\ I64Max \in Nat /\ 0 < I64Max /\ U64Max = 2 * I64Max + 1
    /\ F64Max \in Nat /\ 2 * U64Max <= F64Max

Nil          == <<"nil">>
IntTerm(n)   == <<"int", n>>
FloatTerm(h) == <<"float", h>>
BoolTerm(b)  == <<"bool", b>>
AtomTerm(a)  == <<"atom", a>>
StrTerm(c)   == <<"str", c>>
ListTerm(s)  == <<"list", s>>
MapTerm(f)   == <<"map", f>>

\* What enif_make_double returns for NaN and the infinities: no term at all, with
\* a badarg exception set that is raised when the NIF returns.
NonValue == <<"non_value">>

EmptyText == <<"text", "">>
NoFields  == [k \in {} |-> Nil]

\* Tokens of JSON texts; the others are scalars and <<"key", k>>.
ListOpen  == <<"[">>
ListClose == <<"]">>
MapOpen   == <<"{">>
MapClose  == <<"}">>

Tag(v)     == v[1]
IsStr(v)   == Tag(v) = "str"
IsList(v)  == Tag(v) = "list"
IsMap(v)   == Tag(v) = "map"
IsFloat(v) == Tag(v) = "float"
IsBool(v)  == Tag(v) = "bool"
IsInt(v)   == Tag(v) = "int"           \* an integer of any magnitude

\* term.decode::<i64>() and term.decode::<u64>() succeed
IsI64(v) == IsInt(v) /\ -I64Max - 1 <= v[2] /\ v[2] <= I64Max
IsU64(v) == IsInt(v) /\ 0 <= v[2] /\ v[2] <= U64Max

Clamp(n, low, high) == IF n < low THEN low ELSE IF n > high THEN high ELSE n

\* Integer division as Rust does it, towards zero.
Quotient(n, d) == IF n >= 0 THEN n \div d ELSE -((-n) \div d)

\* The payload of a term is of the kind its tag says; lists and maps may hold
\* anything.
WellFormedText(c) ==
    /\ c = <<c[1], c[2]>>
    /\ c[1] \in {"text", "num", "dec", "time", "json"}
    /\ c[1] \in {"num", "dec"} => c[2] \in Int
    /\ c[1] = "time" => c[2] \in (-I64Max - 1)..I64Max
WellFormed(v) ==
    \/ v = Nil
    \/ IsInt(v) /\ v = IntTerm(v[2]) /\ v[2] \in Int
    \/ IsFloat(v) /\ v = FloatTerm(v[2]) /\ v[2] \in Int
    \/ IsBool(v) /\ v = BoolTerm(v[2]) /\ v[2] \in BOOLEAN
    \/ Tag(v) = "atom" /\ v = AtomTerm(v[2])
    \/ IsStr(v) /\ v = StrTerm(v[2]) /\ WellFormedText(v[2])
    \/ IsList(v) /\ v = ListTerm(v[2])
    \/ IsMap(v) /\ v = MapTerm(v[2])

\* Terms are finite, and whatever is within one of them is another of them.
ASSUME TermsAssumption ==
    /\ MaxDepth \in Nat /\ Nil \in Terms
    /\ \A t \in Terms :
           /\ WellFormed(t)
           /\ IsList(t) => t[2] \in Seq(Terms)
           /\ IsMap(t) => /\ IsFiniteSet(DOMAIN t[2])
                           /\ \A k \in DOMAIN t[2] : t[2][k] \in Terms

\* Float formatting drops a zero fraction: 1.0 becomes "1", 1.5 stays "1.5".
FloatText(h) == IF h % 2 = 0 THEN <<"num", h \div 2>> ELSE <<"dec", h>>
=============================================================================
