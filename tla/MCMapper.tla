------------------------------ MODULE MCMapper -------------------------------
(* What the two instances of the mapper share: raw fields, paths, the order of  *)
(* keys, sizes and scales.                                                      *)
EXTENDS MapperProperties

\* A term and all within it.
RECURSIVE SubTerms(_)
SubTerms(v) ==
    {v} \cup (IF IsList(v) \/ IsMap(v) THEN UNION {SubTerms(v[2][k]) : k \in DOMAIN v[2]} ELSE {})

Text(w) == StrTerm(<<"text", w>>)
Obj(f)  == MapTerm(f)
One(k, v) == <<k>> :> v
Path1(a) == <<"$", ".", a>>
Path2(a, b) == <<"$", ".", a, ".", b>>
Each(list, key) == <<"$", ".", list, "[", "*", "]", ".", key>>

NoFilters == [len_eq |-> {}, len_gt |-> {}, len_gte |-> {}, len_lt |-> {}, len_lte |-> {},
              char_class |-> {}]
NoWords == [w \in {} |-> 0]
Base ==
    [name |-> "f", type |-> "string", precision |-> {}, default |-> {}, from_output |-> "",
     paths |-> <<>>, path |-> <<>>, transform |-> "none", allowed_values |-> {},
     value_map |-> NoWords, exclude_keys |-> <<>>, elevate_keys |-> <<>>, pick |-> <<>>,
     pick_mode |-> "replace", coercion |-> "lenient", value_type |-> "string",
     enum_values |-> NoWords, infer |-> <<>>, filter_nil |-> FALSE, filters |-> NoFilters]
-----------------------------------------------------------------------------
MCScale == [k \in 0..9 |-> 2^k]
MCIndexOf == ("0" :> 0 @@ "1" :> 1)
MCSizeOf(c) == CASE c[1] \in {"text", "key"} -> Len(c[2]) [] OTHER -> 3
MCClassesOf(c) == {}
MCNonFinite == {"nan", "inf"}
=============================================================================
