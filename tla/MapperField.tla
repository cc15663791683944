----------------------------- MODULE MapperField ----------------------------
(* The pipeline of one field (map_values_into and its helpers in mapper.rs):   *)
(* resolve, transform, allowed values, value map, enum8 inference, JSON        *)
(* operations or coercion.                                                     *)
EXTENDS MapperResolve

\* Enum8 fields resolve without options and without a default: enum resolution
\* comes later and applies the default itself.
SourceOptions(field) == IF field.type = "enum8" THEN NoOptions ELSE field.options

\* resolve_value_raw and the sources of resolve_value.  outputs holds the
\* values of the fields mapped before this one.
ResolveRaw(document, field, outputs, flat, cache) ==
    CASE field.source[1] = "root"   -> With(document, cache)
      [] field.source[1] = "path"   -> Evaluate(document, field.source[2][1], flat, cache)
      [] field.source[1] = "paths"  ->
            EvaluateFirst(document, field.source[2], SourceOptions(field), flat, cache)
      [] field.source[1] = "output" -> With(outputs[field.source[2]], cache)

\* A value that is missing or refused becomes the default; enum8 waits.
OrDefault(found, field) ==
    IF /\ field.type # "enum8"
       /\ \/ field.source[1] # "root" /\ found.value = Nil
          \/ ~Accepts(found.value, field.options)
    THEN With(field.default, found.cache) ELSE found

ResolveValue(document, field, outputs, flat, cache) ==
    OrDefault(ResolveRaw(document, field, outputs, flat, cache), field)

ApplyAllowedValues(v, field) ==
    IF \/ field.allowed_values = {} \/ v = Nil
       \/ IsStr(v) /\ v[2][1] = "text" /\ v[2][2] \in field.allowed_values
    THEN v ELSE field.default

ApplyValueMap(v, field) ==
    CASE DOMAIN field.value_map = {} -> v
      [] DOMAIN field.value_map # {} /\ Listed(v, field.value_map) -> Looked(v, field.value_map)
      [] OTHER -> field.default
-----------------------------------------------------------------------------
(* Enum8.                                                                      *)

IsNumber(v) == IsI64(v) \/ IsFloat(v)
InHalves(v) == IF IsFloat(v) THEN v[2] ELSE 2 * v[2]
IsEmpty(v)  == v = StrTerm(EmptyText) \/ v = ListTerm(<<>>)

\* matches_predicate_value: integers, floats and booleans match their own kind.
MatchesPredicateValue(v, expected) == v = expected /\ (IsInt(v) => IsI64(v))

Threshold(condition) == CHOOSE t \in condition.comparison : TRUE
Holds(condition, v) ==
    CASE condition.predicate = "exists"       -> v # Nil
      [] condition.predicate = "not_exists"   -> v = Nil
      [] condition.predicate = "not_zero"     -> IsNumber(v) /\ v[2] # 0
      [] condition.predicate = "is_zero"      -> IsNumber(v) /\ v[2] = 0
      [] condition.predicate = "greater_than" ->
            IsNumber(v) /\ InHalves(v) > InHalves(Threshold(condition))
      [] condition.predicate = "less_than"    ->
            IsNumber(v) /\ InHalves(v) < InHalves(Threshold(condition))
      [] condition.predicate = "not_empty"    -> (IsStr(v) \/ IsList(v)) /\ ~IsEmpty(v)
      [] condition.predicate = "is_empty"     -> IsEmpty(v)
      [] condition.predicate \in {"equals", "in"} ->
            \E t \in condition.comparison : MatchesPredicateValue(v, t)
      [] condition.predicate = "not_equals"   ->
            v = Nil \/ ~MatchesPredicateValue(v, Threshold(condition))
      [] condition.predicate = "is_string"    -> IsStr(v)
      [] condition.predicate = "is_number"    -> IsNumber(v)
      [] condition.predicate = "is_list"      -> IsList(v)
      [] condition.predicate = "is_map"       -> IsMap(v)

\* Conditions are read until one decides: a TRUE for any, a FALSE for all.
Judged(condition, read) == With(Holds(condition, read.value), read.cache)
Conditions(document, conditions, decisive, flat, cache) ==
    FoldLeft(LAMBDA acc, condition :
                 IF acc.value = decisive THEN acc
                 ELSE Judged(condition, Evaluate(document, condition.path, flat, acc.cache)),
             With(~decisive, cache), conditions)

\* A rule reads its any conditions, and then, whatever they say, its all ones.
RuleResult(rule, field, any, all) ==
    With(IF any /\ all.value /\ rule.result \in DOMAIN field.enum_values
         THEN IntTerm(field.enum_values[rule.result]) ELSE Nil,
         all.cache)
AfterAny(document, rule, field, flat, any) ==
    RuleResult(rule, field, rule.any = <<>> \/ any.value,
               Conditions(document, rule.all, FALSE, flat, any.cache))

\* The first rule whose conditions hold and whose result is a configured value.
InferRules(document, field, flat, cache) ==
    FoldLeft(LAMBDA acc, rule :
                 IF acc.value # Nil THEN acc
                 ELSE AfterAny(document, rule, field, flat,
                               Conditions(document, rule.any, TRUE, flat, acc.cache)),
             With(Nil, cache), field.infer)

EnumValues(field) == {field.enum_values[w] : w \in DOMAIN field.enum_values}

Inferred(inferred, field) ==
    With(IF inferred.value = Nil THEN field.default ELSE inferred.value, inferred.cache)

\* Mutant: any integer is a value.
IsEnumValueAnyInteger(v, field) == IsI64(v)

IsEnumValue(v, field) == IsInt(v) /\ v[2] \in EnumValues(field)

\* A label, then a configured value, then inference, then the default.
ResolveEnum8(document, field, v, flat, cache) ==
    CASE Listed(v, field.enum_values) -> With(IntTerm(Looked(v, field.enum_values)), cache)
      [] IsEnumValue(v, field) -> With(v, cache)
      [] OTHER -> Inferred(InferRules(document, field, flat, cache), field)
-----------------------------------------------------------------------------
(* The whole pipeline.                                                         *)

\* Transform, allowed values and value map, in that order.
Normalise(v, field) ==
    ApplyValueMap(ApplyAllowedValues(ApplyTransform(v, field.transform), field), field)

\* Json passes its value through; flat_map flattens it; anything else coerces.
Shape(v, field, flat) ==
    CASE field.type = "json"     -> IF flat THEN ApplyJsonOperationsFlat(v, field)
                                    ELSE ApplyJsonOperations(v, field)
      [] field.type = "flat_map" -> IF flat THEN StringifyValues(ApplyJsonOperationsFlat(v, field))
                                    ELSE FlattenField(v, field)
      [] OTHER                   -> Coerce(v, field.type, field.precision)

\* What an enum8, a json and a flat_map field do between the two.
Complete(document, field, normal, flat, cache) ==
    CASE field.type = "enum8" -> ResolveEnum8(document, field, normal, flat, cache)
      [] field.type \in {"json", "flat_map"} ->
            SelectJsonValue(document, field, normal, flat, cache)
      [] OTHER -> With(normal, cache)

Shaped(completed, field, flat) == With(Shape(completed.value, field, flat), completed.cache)
MapFound(document, field, found, flat) ==
    Shaped(Complete(document, field, Normalise(found.value, field), flat, found.cache), field, flat)
MapScalar(document, field, outputs, flat, cache) ==
    MapFound(document, field, ResolveValue(document, field, outputs, flat, cache), flat)

\* Arrays skip all of that; one wildcard path is coerced while it fans out.
CoerceFound(found, field) == With(CoerceArray(found.value, field), found.cache)
MapArray(document, field, outputs, flat, cache) ==
    CoerceFound(ResolveValue(document, field, outputs, flat, cache), field)

FansOut(field, flat) ==
    field.source[1] = "path" /\ ~flat /\ field.source[2][1].wildcard # 0

MapField(document, field, outputs, flat, cache) ==
    CASE field.type \notin ArrayTypes -> MapScalar(document, field, outputs, flat, cache)
      [] field.type \in ArrayTypes /\ FansOut(field, flat) ->
            EvaluateWildcardMapped(document, field.source[2][1], field, cache)
      [] OTHER -> MapArray(document, field, outputs, flat, cache)
=============================================================================
