-------------------------- MODULE MapperCacheProofs --------------------------
(***************************************************************************)
(* The path cache of the mapper never shows: for any terms, documents,     *)
(* configurations and orders of the root slots, each field is mapped to    *)
(* the value it has when its paths have no slot at all.                    *)
(*                                                                         *)
(* The invariant that carries it says what a filled slot is: the value of  *)
(* its prefix in the document at hand.  A path gets slots only in front of *)
(* its first wildcard (CachedPath), so a prefix has one value; reading a   *)
(* slot gives it and filling one keeps it (StepCached, NestedEvaluation).  *)
(* The rest lifts this from one path to every place a path is read:        *)
(* sources, picks, infer rules and fan-outs (FieldAgrees), and from the    *)
(* configuration to the mapping in use (MappingsAre).                      *)
(***************************************************************************)
EXTENDS MapperProperties, SequenceTheorems, FiniteSetTheorems, TLAPS

\* Every fold of the mapper, as FoldLemmas knows it.
Same(none, x, y) == x = y

ParseOp(none, p, token) == ParseToken(p, token)
Parsing == INSTANCE FoldLemmas WITH Op <- ParseOp, Rel <- Same

AlongOp(none, rest, segment) == Along(segment, rest)
Evaluating == INSTANCE FoldLemmas WITH Op <- AlongOp, Rel <- Same

AlongCachedOp(caches, rest, step) == AlongCached(step, rest, caches)
Nesting == INSTANCE FoldLemmas WITH Op <- AlongCachedOp, Rel <- Same

ItemOp(rest, acc, item) == AppendValue(acc.value, rest[item][acc.cache])
Items == INSTANCE FoldLemmas WITH Op <- ItemOp, Rel <- Same
-----------------------------------------------------------------------------
\* Whatever its elements are from, a sequence is one.
LEMMA SequenceIntro ==
    ASSUME NEW X, NEW s \in Seq(X)
    PROVE  IsSequence(s)
<1>1. Len(s) \in Nat /\ s \in [1..Len(s) -> ToSet(s)]
  BY DEF ToSet
<1> QED BY <1>1 DEF IsSequence

\* A function on 1..n is a sequence of length n.
LEMMA SequenceOf ==
    ASSUME NEW s, NEW n \in Nat, s = [k \in 1..n |-> s[k]]
    PROVE  IsSequence(s) /\ Len(s) = n /\ DOMAIN s = 1..n
<1>1. s \in [1..n -> ToSet(s)] /\ DOMAIN s = 1..n
  <2>1. DOMAIN s = 1..n
    OBVIOUS
  <2>2. \A k \in 1..n : s[k] \in ToSet(s)
    BY <2>1 DEF ToSet
  <2> QED BY <2>1, <2>2
<1>2. s \in Seq(ToSet(s))
  BY <1>1
<1> QED BY <1>1, <1>2 DEF IsSequence

\* A sequence is the function of its elements on 1..Len.
LEMMA SequenceElim ==
    ASSUME NEW s, IsSequence(s)
    PROVE  Len(s) \in Nat /\ DOMAIN s = 1..Len(s) /\ s = [k \in 1..Len(s) |-> s[k]]
BY DEF IsSequence

\* Appending keeps a sequence and the elements in front.
LEMMA AppendSequence ==
    ASSUME NEW s, IsSequence(s), NEW x
    PROVE  /\ IsSequence(Append(s, x)) /\ Len(Append(s, x)) = Len(s) + 1
           /\ \A k \in 1..Len(s) : Append(s, x)[k] = s[k]
           /\ Append(s, x)[Len(s) + 1] = x
<1>1. s \in Seq(ToSet(s) \cup {x}) /\ x \in ToSet(s) \cup {x}
  <2>1. s \in Seq(ToSet(s))
    BY DEF IsSequence
  <2> QED BY <2>1
<1>2. Append(s, x) \in Seq(ToSet(s) \cup {x})
  BY <1>1
<1>3. IsSequence(Append(s, x))
  BY <1>2, SequenceIntro
<1> QED BY <1>1, <1>3

\* A prefix of a sequence, element by element.
LEMMA PrefixOf ==
    ASSUME NEW s, IsSequence(s), NEW n \in 0..Len(s)
    PROVE  /\ IsSequence(SubSeq(s, 1, n)) /\ Len(SubSeq(s, 1, n)) = n
           /\ DOMAIN SubSeq(s, 1, n) = 1..n
           /\ \A k \in 1..n : SubSeq(s, 1, n)[k] = s[k]
<1>1. s \in Seq(ToSet(s))
  BY DEF IsSequence
<1>2. SubSeq(s, 1, n) \in Seq(ToSet(s)) /\ Len(SubSeq(s, 1, n)) = n
      /\ \A k \in 1..n : SubSeq(s, 1, n)[k] = s[k]
  BY <1>1
<1>3. IsSequence(SubSeq(s, 1, n))
  BY <1>2, SequenceIntro
<1> QED BY <1>2, <1>3, SequenceElim

\* The least element of a set of positions.
LEMMA FirstIn ==
    ASSUME NEW n \in Nat, NEW I \in SUBSET (1..n), I # {}
    PROVE  Min(I) \in I /\ \A i \in I : Min(I) <= i
<1>1. PICK m \in I : \A i \in I : m <= i
  BY Parsing!Smallest
<1> QED BY <1>1 DEF Min
-----------------------------------------------------------------------------
(* Paths as the compiler makes them.                                           *)

\* The index of a list element is a number.
IsSegment(s) == s[1] = "index" => s[2] \in Nat
AreSegments(segments) ==
    IsSequence(segments) /\ \A k \in 1..Len(segments) : IsSegment(segments[k])

IsParser(p) ==
    /\ p = [mode |-> p.mode, buf |-> p.buf, segments |-> p.segments]
    /\ AreSegments(p.segments)

\* Appending a segment keeps a sequence of segments.
LEMMA AppendSegment ==
    ASSUME NEW segments, AreSegments(segments), NEW s, IsSegment(s)
    PROVE  AreSegments(Append(segments, s))
<1>1. IsSequence(segments)
  BY DEF AreSegments
<1>2. Len(segments) \in Nat
  BY <1>1, SequenceElim
<1> DEFINE new == Append(segments, s)
<1>3. /\ IsSequence(new) /\ Len(new) = Len(segments) + 1
      /\ \A k \in 1..Len(segments) : new[k] = segments[k]
      /\ new[Len(segments) + 1] = s
  BY <1>1, AppendSequence
<1> HIDE DEF new
<1>4. \A k \in 1..Len(new) : IsSegment(new[k])
  <2> SUFFICES ASSUME NEW k \in 1..Len(new) PROVE IsSegment(new[k])
    OBVIOUS
  <2>1. CASE k = Len(segments) + 1
    BY <1>3, <2>1
  <2>2. CASE k # Len(segments) + 1
    <3>1. k \in 1..Len(segments)
      BY <1>2, <1>3, <2>2
    <3> QED BY <1>3, <3>1 DEF AreSegments
  <2> QED BY <2>1, <2>2
<1>5. AreSegments(new)
  BY <1>3, <1>4 DEF AreSegments
<1> QED BY <1>5 DEF new

\* Keys, indices and wildcards are segments.
LEMMA SegmentKinds ==
    /\ \A name : IsSegment(Key(name))
    /\ \A digits \in DOMAIN indexOf : IsSegment(Index(indexOf[digits]))
    /\ IsSegment(Wildcard)
BY IndexAssumption DEF IsSegment, Key, Index, Wildcard

\* What the parser flushes is a sequence of segments (path.rs, parse).
LEMMA FlushSegments ==
    ASSUME NEW p, AreSegments(p.segments)
    PROVE  AreSegments(Flush(p))
BY AppendSegment, SegmentKinds, Zenon DEF Flush

\* A token leaves the parser with segments only.
LEMMA ParseTokenKeeps ==
    ASSUME NEW p, IsParser(p), NEW token
    PROVE  IsParser(ParseToken(p, token))
<1>1. p = [mode |-> p.mode, buf |-> p.buf, segments |-> p.segments] /\ AreSegments(p.segments)
  BY DEF IsParser
<1>2. ASSUME NEW m, NEW b, NEW s, AreSegments(s)
      PROVE  IsParser([mode |-> m, buf |-> b, segments |-> s])
  BY <1>2 DEF IsParser
<1>3. AreSegments(Flush(p))
  BY <1>1, FlushSegments
<1>4. IsParser(ParseBracket(p))
  <2>1. CASE p.buf = "*"
    <3>1. ParseBracket(p) = [mode |-> "key", buf |-> "", segments |-> Append(p.segments, Wildcard)]
      BY <1>1, <2>1, IndexAssumption DEF ParseBracket
    <3> QED BY <1>1, <1>2, <3>1, AppendSegment, SegmentKinds
  <2>2. CASE p.buf # "*" /\ p.buf \in DOMAIN indexOf
    <3>1. ParseBracket(p) = [mode |-> "key", buf |-> "",
                             segments |-> Append(p.segments, Index(indexOf[p.buf]))]
      BY <1>1, <2>2 DEF ParseBracket
    <3> QED BY <1>1, <1>2, <2>2, <3>1, AppendSegment, SegmentKinds
  <2>3. CASE p.buf # "*" /\ p.buf \notin DOMAIN indexOf
    <3>1. ParseBracket(p) = [mode |-> "invalid", buf |-> p.buf, segments |-> p.segments]
      BY <1>1, <2>3 DEF ParseBracket
    <3> QED BY <1>1, <1>2, <3>1
  <2> QED BY <2>1, <2>2, <2>3
<1>5. CASE p.mode = "invalid"
  <2>1. ParseToken(p, token) = p
    BY <1>5, Zenon DEF ParseToken
  <2> QED BY <2>1
<1>6. CASE p.mode = "bracket"
  <2>0. p.mode # "invalid" /\ p.mode # "key"
    BY <1>6
  <2>1. CASE token = "]"
    <3>1. ParseToken(p, token) = ParseBracket(p)
      BY <1>6, <2>0, <2>1, Zenon DEF ParseToken
    <3> QED BY <1>4, <3>1
  <2>2. CASE token # "]"
    <3>1. ParseToken(p, token) = [p EXCEPT !.buf = @ \o token]
      BY <1>6, <2>0, <2>2, Zenon DEF ParseToken
    <3>2. ParseToken(p, token) = [mode |-> p.mode, buf |-> p.buf \o token, segments |-> p.segments]
      BY <1>1, <3>1
    <3> QED BY <1>1, <1>2, <3>2
  <2> QED BY <2>1, <2>2
<1>7. CASE p.mode \notin {"invalid", "bracket"}
  <2>0. p.mode # "invalid" /\ p.mode # "bracket" /\ "." # "["
    BY <1>7
  <2>1. CASE p.mode = "key" /\ token = "."
    <3>1. ParseToken(p, token) = [p EXCEPT !.buf = "", !.segments = Flush(p)]
      BY <2>0, <2>1, Zenon DEF ParseToken
    <3>2. ParseToken(p, token) = [mode |-> p.mode, buf |-> "", segments |-> Flush(p)]
      BY <1>1, <3>1
    <3> QED BY <1>2, <1>3, <3>2
  <2>2. CASE p.mode = "key" /\ token = "["
    <3>1. ParseToken(p, token) = [mode |-> "bracket", buf |-> "", segments |-> Flush(p)]
      BY <2>0, <2>2, Zenon DEF ParseToken
    <3> QED BY <1>2, <1>3, <3>1
  <2>3. CASE ~(p.mode = "key" /\ token = ".") /\ ~(p.mode = "key" /\ token = "[")
    <3>1. ParseToken(p, token) = [p EXCEPT !.buf = @ \o token]
      BY <2>0, <2>3, Zenon DEF ParseToken
    <3>2. ParseToken(p, token) = [mode |-> p.mode, buf |-> p.buf \o token, segments |-> p.segments]
      BY <1>1, <3>1
    <3> QED BY <1>1, <1>2, <3>2
  <2> QED BY <2>1, <2>2, <2>3
<1> QED BY <1>5, <1>6, <1>7

\* The empty sequence is one.
LEMMA EmptySequence == IsSequence(<<>>) /\ Len(<<>>) = 0
<1>1. <<>> \in Seq({})
  OBVIOUS
<1> QED BY <1>1, SequenceIntro

\* The segments of a parsed path are keys, wildcards and natural indices.
LEMMA ParsePathSegments ==
    ASSUME NEW tokens, IsSequence(tokens), tokens # <<>>
    PROVE  AreSegments(ParsePath(tokens))
<1> DEFINE s == Tail(tokens)
           start == [mode |-> "key", buf |-> "", segments |-> <<>>]
<1>1. Len(s) \in Nat /\ DOMAIN s = 1..Len(s)
  <2>1. tokens \in Seq(ToSet(tokens))
    BY DEF IsSequence
  <2>2. s \in Seq(ToSet(tokens))
    BY <2>1
  <2> HIDE DEF s
  <2> QED BY <2>2
<1> HIDE DEF s
<1>2. Scan(s) = Parsing!Left(0, start, s)
  BY Zenon DEF Scan, Parsing!Left, ParseOp, FoldLeft, Parsing!FoldLeft, MapThenFoldSet,
               Parsing!MapThenFoldSet, Max, Parsing!Max
<1>3. IsParser(start)
  BY EmptySequence DEF IsParser, AreSegments
<1> HIDE DEF start
<1>4. PICK r : Parsing!LeftTrace(r, 0, start, s, Len(s)) /\ Parsing!Left(0, start, s) = r[Len(s)]
  BY <1>1, Parsing!FoldLeftTrace
<1> DEFINE good == {k \in Nat : k <= Len(s) => IsParser(r[k])}
<1>5. 0 \in good
  BY <1>3, <1>4 DEF Parsing!LeftTrace
<1>6. ASSUME NEW k \in Nat, k \in good PROVE k + 1 \in good
  <2> SUFFICES ASSUME k + 1 <= Len(s) PROVE IsParser(r[k + 1])
    OBVIOUS
  <2>1. k + 1 \in 1..Len(s) /\ k + 1 - 1 = k /\ IsParser(r[k])
    BY <1>1, <1>6
  <2>2. r[k + 1] = ParseToken(r[k], s[k + 1])
    BY <1>4, <2>1 DEF ParseOp, Parsing!LeftTrace
  <2> QED BY <2>1, <2>2, ParseTokenKeeps
<1>7. Nat \subseteq good
  <2> HIDE DEF good
  <2> QED BY <1>5, <1>6, Parsing!NatInduct
<1>8. IsParser(Scan(s))
  BY <1>1, <1>2, <1>4, <1>7
<1> QED BY <1>8, FlushSegments DEF ParsePath, s, IsParser
-----------------------------------------------------------------------------
(* Compiled paths, and the slots they are given.                               *)

\* The segments up to n, none of them a wildcard.
NoWildcard(segments, n) == \A j \in 1..n : segments[j] # Wildcard

\* The dotted key that key segments stand for.
Dotted(segments) == [k \in DOMAIN segments |-> segments[k][2]]

IsPath(p) ==
    /\ AreSegments(p.segments)
    /\ p = [segments |-> p.segments, wildcard |-> p.wildcard, flat_key |-> p.flat_key,
            cache_indices |-> p.cache_indices]
    /\ p.wildcard \in 0..Len(p.segments)
    /\ p.wildcard = 0 => NoWildcard(p.segments, Len(p.segments))
    /\ p.wildcard # 0 => /\ p.segments[p.wildcard] = Wildcard
                         /\ NoWildcard(p.segments, p.wildcard - 1)
    /\ p.flat_key # <<>> => p.flat_key = Dotted(p.segments)
    /\ p.cache_indices = [k \in 1..Len(p.segments) |-> 0]

\* A slot belongs to the segments in front of it and is not past a wildcard.
IndicesFit(segments, indices, slots) ==
    /\ DOMAIN indices = 1..Len(segments)
    /\ \A k \in 1..Len(segments) :
           indices[k] # 0 => /\ indices[k] \in 1..Len(slots)
                             /\ slots[indices[k]] = SubSeq(segments, 1, k)
                             /\ NoWildcard(segments, k)

\* A slot is the first place of its prefix, 0 when it has none.
LEMMA SlotOfPlace ==
    ASSUME NEW s, IsSequence(s), NEW x
    PROVE  /\ SlotOf(x, s) \in 0..Len(s)
           /\ SlotOf(x, s) = 0 => \A k \in 1..Len(s) : s[k] # x
           /\ SlotOf(x, s) # 0 => /\ s[SlotOf(x, s)] = x
                                 /\ \A k \in 1..(SlotOf(x, s) - 1) : s[k] # x
<1> DEFINE I == {k \in 1..Len(s) : s[k] = x}
<1>0. Len(s) \in Nat
  BY SequenceElim
<1>1. SlotOf(x, s) = IF I # {} THEN Min(I) ELSE 0
  BY Zenon DEF SlotOf, SelectInSeq
<1>2. CASE I = {}
  BY <1>0, <1>1, <1>2
<1>3. CASE I # {}
  <2>1. SlotOf(x, s) \in I /\ \A k \in I : SlotOf(x, s) <= k
    <3>1. I \in SUBSET (1..Len(s))
      OBVIOUS
    <3> QED BY <1>0, <1>1, <1>3, <3>1, FirstIn
  <2> QED BY <1>0, <2>1
<1> QED BY <1>2, <1>3

\* What compile makes of segments: the first wildcard, the dotted key, no slot.
LEMMA CompiledPathIsPath ==
    ASSUME NEW segments, AreSegments(segments)
    PROVE  IsPath(CompiledPath(segments))
<1> DEFINE p == CompiledPath(segments)
           w == SlotOf(Wildcard, segments)
           f == IF \A k \in DOMAIN segments : IsKey(segments[k])
                THEN [k \in DOMAIN segments |-> segments[k][2]] ELSE <<>>
<1>0. IsSequence(segments) /\ DOMAIN segments = 1..Len(segments) /\ Len(segments) \in Nat
  BY SequenceElim DEF AreSegments
<1>1. p = [segments |-> segments, wildcard |-> w, flat_key |-> f,
           cache_indices |-> [k \in DOMAIN segments |-> 0]]
  BY Zenon DEF CompiledPath, SlotOf
<1>2. /\ w \in 0..Len(segments)
      /\ w = 0 => \A k \in 1..Len(segments) : segments[k] # Wildcard
      /\ w # 0 => segments[w] = Wildcard /\ \A k \in 1..(w - 1) : segments[k] # Wildcard
  BY <1>0, SlotOfPlace
<1>3. f # <<>> => f = Dotted(segments)
  BY DEF Dotted
<1> HIDE DEF p, w, f
<1>4. /\ p.segments = segments /\ p.wildcard = w /\ p.flat_key = f
      /\ p.cache_indices = [k \in 1..Len(segments) |-> 0]
  BY <1>0, <1>1
<1>5. p = [segments |-> p.segments, wildcard |-> p.wildcard, flat_key |-> p.flat_key,
           cache_indices |-> p.cache_indices]
  BY <1>1
<1>6. IsPath(p)
  BY <1>2, <1>3, <1>4, <1>5 DEF IsPath, NoWildcard
<1> QED BY <1>6 DEF p

\* A path string compiles to a path.
LEMMA CompiledPathAt ==
    ASSUME NEW tokens, IsSequence(tokens), tokens # <<>>
    PROVE  IsPath(CompilePath(tokens))
BY CompiledPathIsPath, ParsePathSegments, Zenon DEF CompilePath

\* The prefixes that may have a slot end before the first wildcard.
LEMMA CacheablePrefixesOf ==
    ASSUME NEW p, IsPath(p)
    PROVE  /\ IsSequence(CacheablePrefixes(p))
           /\ Len(CacheablePrefixes(p)) <= Len(p.segments)
           /\ \A k \in 1..Len(CacheablePrefixes(p)) :
                 /\ CacheablePrefixes(p)[k] = SubSeq(p.segments, 1, k)
                 /\ NoWildcard(p.segments, k)
<1> DEFINE n == IF p.wildcard = 0 THEN Len(p.segments) ELSE p.wildcard - 1
           s == CacheablePrefixes(p)
<1>0. Len(p.segments) \in Nat /\ p.wildcard \in 0..Len(p.segments)
  BY SequenceElim DEF AreSegments, IsPath
<1>1. n \in Nat /\ n <= Len(p.segments) /\ NoWildcard(p.segments, n)
  BY <1>0 DEF IsPath
<1>2. s = [k \in 1..n |-> SubSeq(p.segments, 1, k)]
  BY Zenon DEF CacheablePrefixes
<1> HIDE DEF n, s
<1>3. s = [k \in 1..n |-> s[k]]
  BY <1>2
<1>4. IsSequence(s) /\ Len(s) = n
  BY <1>1, <1>3, SequenceOf
<1>5. \A k \in 1..n : s[k] = SubSeq(p.segments, 1, k) /\ NoWildcard(p.segments, k)
  BY <1>1, <1>2 DEF NoWildcard
<1> QED BY <1>1, <1>4, <1>5 DEF s

\* assign_cached_prefixes changes slots only, and gives each prefix its own.
LEMMA CachedPath ==
    ASSUME NEW p, IsPath(p), NEW slots, IsSequence(slots)
    PROVE  /\ Cached(p, slots).segments = p.segments
           /\ Cached(p, slots).wildcard = p.wildcard
           /\ Cached(p, slots).flat_key = p.flat_key
           /\ IndicesFit(p.segments, Cached(p, slots).cache_indices, slots)
<1> DEFINE prefixes == CacheablePrefixes(p)
           indices == CacheIndices(p, prefixes, slots)
           q == Cached(p, slots)
<1>0. Len(p.segments) \in Nat /\ DOMAIN p.segments = 1..Len(p.segments) /\ Len(slots) \in Nat
  BY SequenceElim DEF AreSegments, IsPath
<1>1. q = [segments |-> p.segments, wildcard |-> p.wildcard, flat_key |-> p.flat_key,
           cache_indices |-> indices]
  <2>1. q = [p EXCEPT !.cache_indices = indices]
    BY DEF Cached
  <2> HIDE DEF q, indices
  <2> QED BY <2>1 DEF IsPath
<1>2. DOMAIN indices = 1..Len(p.segments)
  BY <1>0 DEF CacheIndices
<1>3. ASSUME NEW k \in 1..Len(p.segments), indices[k] # 0
      PROVE  /\ indices[k] \in 1..Len(slots)
             /\ slots[indices[k]] = SubSeq(p.segments, 1, k)
             /\ NoWildcard(p.segments, k)
  <2>1. indices[k] = IF k \in DOMAIN prefixes THEN SlotOf(prefixes[k], slots) ELSE 0
    BY <1>0 DEF CacheIndices
  <2> HIDE DEF indices, prefixes
  <2>2. k \in DOMAIN prefixes /\ indices[k] = SlotOf(prefixes[k], slots)
    BY <1>3, <2>1
  <2>3. /\ SlotOf(prefixes[k], slots) \in 0..Len(slots)
        /\ SlotOf(prefixes[k], slots) # 0 => slots[SlotOf(prefixes[k], slots)] = prefixes[k]
    BY SlotOfPlace
  <2>4. DOMAIN prefixes = 1..Len(prefixes)
    BY CacheablePrefixesOf, SequenceElim DEF prefixes
  <2>5. prefixes[k] = SubSeq(p.segments, 1, k) /\ NoWildcard(p.segments, k)
    BY <2>2, <2>4, CacheablePrefixesOf DEF prefixes
  <2> QED BY <1>0, <1>3, <2>2, <2>3, <2>5
<1> HIDE DEF indices, q
<1>4. IndicesFit(p.segments, indices, slots)
  BY <1>2, <1>3 DEF IndicesFit
<1> QED BY <1>1, <1>4 DEF q
-----------------------------------------------------------------------------
(* Evaluating without a cache.                                                 *)

\* One step of a path stays within the terms of the document.
LEMMA ChildInTerms ==
    ASSUME NEW t \in Terms, NEW s, IsSegment(s)
    PROVE  Child(t, s) \in Terms
<1>1. CASE s[1] \in {"key", "flat"} /\ IsMap(t) /\ MapKey(s) \in DOMAIN t[2]
  <2>1. Child(t, s) = t[2][MapKey(s)]
    <3>1. ~(s[1] = "index")
      BY <1>1
    <3> QED BY <1>1, <3>1, Zenon DEF Child
  <2> QED BY <1>1, <2>1, TermsAssumption
<1>2. CASE s[1] = "index" /\ IsList(t) /\ s[2] < Len(t[2])
  <2>1. Child(t, s) = t[2][s[2] + 1]
    <3>1. ~(s[1] \in {"key", "flat"})
      BY <1>2
    <3> QED BY <1>2, <3>1, Zenon DEF Child
  <2>2. t[2] \in Seq(Terms) /\ s[2] \in Nat
    BY <1>2, TermsAssumption DEF IsSegment
  <2>3. s[2] + 1 \in 1..Len(t[2])
    BY <1>2, <2>2
  <2>4. t[2][s[2] + 1] \in Terms
    BY <2>2, <2>3
  <2> QED BY <2>1, <2>4
<1>3. CASE /\ ~(s[1] \in {"key", "flat"} /\ IsMap(t) /\ MapKey(s) \in DOMAIN t[2])
           /\ ~(s[1] = "index" /\ IsList(t) /\ s[2] < Len(t[2]))
  <2>1. Child(t, s) = Nil
    BY <1>3, Zenon DEF Child
  <2> QED BY <2>1, TermsAssumption
<1> QED BY <1>1, <1>2, <1>3

\* Nothing is within nil.
LEMMA ChildOfNil == \A s : Child(Nil, s) = Nil
<1>1. ~IsMap(Nil) /\ ~IsList(Nil)
  BY DEF IsMap, IsList, Tag, Nil
<1> QED BY <1>1, Zenon DEF Child

\* The functions an evaluation goes through, from the last segment to the first.
IsWalk(u, segments) ==
    /\ u[Len(segments) + 1] = [t \in Terms |-> t]
    /\ \A k \in 1..Len(segments) : u[k] = Along(segments[k], u[k + 1])

\* Evaluating a path without a cache is a walk along its segments.
LEMMA WalkOf ==
    ASSUME NEW segments, IsSequence(segments)
    PROVE  \E u : /\ IsWalk(u, segments)
                  /\ \A t : EvaluateUncached(t, segments) = u[1][t]
<1> DEFINE base == [t \in Terms |-> t]
<1>1. Len(segments) \in Nat /\ DOMAIN segments = 1..Len(segments)
  BY SequenceElim
<1>2. \A t : EvaluateUncached(t, segments) = Evaluating!Right(0, segments, base)[t]
  BY Zenon DEF EvaluateUncached, Evaluating!Right, AlongOp, FoldRight, Evaluating!FoldRight,
               MapThenFoldSet, Evaluating!MapThenFoldSet, Min, Evaluating!Min
<1> HIDE DEF base
<1>3. PICK u : /\ Evaluating!RightTrace(u, 0, base, segments, Len(segments))
               /\ Evaluating!Right(0, segments, base) = u[1]
  BY <1>1, Evaluating!FoldRightTrace
<1>4. IsWalk(u, segments)
  BY <1>3 DEF IsWalk, AlongOp, base, Evaluating!RightTrace
<1>5. \A t : EvaluateUncached(t, segments) = u[1][t]
  BY <1>2, <1>3
<1> QED BY <1>4, <1>5

\* One step of the walk, on a segment other than a wildcard.
LEMMA AlongStep ==
    ASSUME NEW t \in Terms, NEW s, s # Wildcard, NEW rest
    PROVE  Along(s, rest)[t] = rest[Child(t, s)]
BY Zenon DEF Along

\* Nil is a term and no container.
LEMMA NilTerm == Nil \in Terms /\ ~IsList(Nil) /\ ~IsMap(Nil)
BY TermsAssumption DEF IsMap, IsList, Tag, Nil

\* Nil stays nil whatever the segments.
LEMMA WalkOfNil ==
    ASSUME NEW segments, IsSequence(segments), NEW u, IsWalk(u, segments)
    PROVE  \A k \in 1..(Len(segments) + 1) : u[k][Nil] = Nil
<1> DEFINE n == Len(segments)
           good == {m \in Nat : m <= n => u[n + 1 - m][Nil] = Nil}
<1>0. n \in Nat
  BY SequenceElim
<1>1. 0 \in good
  <2>1. n + 1 - 0 = n + 1 /\ u[n + 1][Nil] = Nil
    BY <1>0, NilTerm DEF IsWalk
  <2> QED BY <2>1
<1>2. ASSUME NEW m \in Nat, m \in good PROVE m + 1 \in good
  <2> SUFFICES ASSUME m + 1 <= n PROVE u[n + 1 - (m + 1)][Nil] = Nil
    OBVIOUS
  <2>1. PICK k \in 1..n : k = n + 1 - (m + 1)
    BY <1>0
  <2>2. k + 1 = n + 1 - m /\ u[k + 1][Nil] = Nil
    BY <1>0, <1>2, <2>1
  <2>3. u[k] = Along(segments[k], u[k + 1])
    BY DEF IsWalk
  <2>4. CASE segments[k] # Wildcard
    <3>1. u[k][Nil] = u[k + 1][Child(Nil, segments[k])]
      BY <2>3, <2>4, AlongStep, NilTerm, Zenon
    <3> QED BY <2>1, <2>2, <3>1, ChildOfNil
  <2>5. CASE segments[k] = Wildcard
    <3>1. u[k][Nil] = Nil
      BY <2>3, <2>5, NilTerm, Zenon DEF Along
    <3> QED BY <2>1, <3>1
  <2> QED BY <2>4, <2>5
<1>3. Nat \subseteq good
  <2> HIDE DEF good
  <2> QED BY <1>1, <1>2, Parsing!NatInduct
<1> SUFFICES ASSUME NEW k \in 1..(n + 1) PROVE u[k][Nil] = Nil
  OBVIOUS
<1>4. n + 1 - k \in Nat /\ n + 1 - k <= n /\ n + 1 - (n + 1 - k) = k
  BY <1>0
<1>5. n + 1 - k \in good
  <2> HIDE DEF good, n
  <2> QED BY <1>3, <1>4
<1> QED BY <1>4, <1>5

\* The terms a path passes on its way, up to its first wildcard.
IsDescent(c, term, segments, n) ==
    /\ c[0] = term
    /\ \A k \in 1..n : c[k] = Child(c[k - 1], segments[k])

\* The terms of a descent are terms of the document.
LEMMA DescentTerms ==
    ASSUME NEW segments, AreSegments(segments), NEW n \in 0..Len(segments),
           NEW term \in Terms, NEW c, IsDescent(c, term, segments, n)
    PROVE  \A k \in 0..n : c[k] \in Terms
<1> DEFINE good == {m \in Nat : m <= n => c[m] \in Terms}
<1>0. Len(segments) \in Nat /\ n \in Nat
  BY SequenceElim DEF AreSegments
<1>1. 0 \in good
  BY DEF IsDescent
<1>2. ASSUME NEW m \in Nat, m \in good PROVE m + 1 \in good
  <2> SUFFICES ASSUME m + 1 <= n PROVE c[m + 1] \in Terms
    OBVIOUS
  <2>1. PICK k \in 1..n : k = m + 1
    BY <1>0
  <2>2. k \in 1..Len(segments) /\ k - 1 = m /\ c[k - 1] \in Terms
    BY <1>0, <1>2, <2>1
  <2>3. c[k] = Child(c[k - 1], segments[k]) /\ IsSegment(segments[k])
    BY <2>2 DEF IsDescent, AreSegments
  <2> QED BY <2>1, <2>2, <2>3, ChildInTerms
<1>3. Nat \subseteq good
  <2> HIDE DEF good
  <2> QED BY <1>1, <1>2, Parsing!NatInduct
<1> QED BY <1>0, <1>3

\* A walk takes the terms of the descent, segment after segment.
LEMMA WalkAlongDescent ==
    ASSUME NEW segments, AreSegments(segments), NEW n \in 0..Len(segments),
           NoWildcard(segments, n), NEW term \in Terms,
           NEW c, IsDescent(c, term, segments, n), NEW u, IsWalk(u, segments)
    PROVE  u[1][term] = u[n + 1][c[n]]
<1> DEFINE good == {m \in Nat : m <= n => u[1][term] = u[m + 1][c[m]]}
<1>0. Len(segments) \in Nat /\ n \in Nat
  BY SequenceElim DEF AreSegments
<1>1. 0 \in good
  BY DEF IsDescent
<1>2. ASSUME NEW m \in Nat, m \in good PROVE m + 1 \in good
  <2> SUFFICES ASSUME m + 1 <= n PROVE u[1][term] = u[m + 1 + 1][c[m + 1]]
    OBVIOUS
  <2>1. PICK k \in 1..n : k = m + 1
    BY <1>0
  <2>2. k \in 1..Len(segments) /\ k - 1 = m /\ k - 1 \in 0..n /\ u[1][term] = u[k][c[k - 1]]
    BY <1>0, <1>2, <2>1
  <2>3. c[k] = Child(c[k - 1], segments[k]) /\ segments[k] # Wildcard
        /\ u[k] = Along(segments[k], u[k + 1])
    BY <2>2 DEF IsDescent, NoWildcard, IsWalk
  <2>4. c[k - 1] \in Terms
    BY <2>2, DescentTerms
  <2>5. u[k][c[k - 1]] = u[k + 1][c[k]]
    <3>1. Along(segments[k], u[k + 1])[c[k - 1]] = u[k + 1][Child(c[k - 1], segments[k])]
      BY <2>3, <2>4, AlongStep, Zenon
    <3> QED BY <2>3, <3>1
  <2> QED BY <2>1, <2>2, <2>5
<1>3. Nat \subseteq good
  <2> HIDE DEF good
  <2> QED BY <1>1, <1>2, Parsing!NatInduct
<1> QED BY <1>0, <1>3

\* A path has a descent in every document.
LEMMA DescentOf ==
    ASSUME NEW term, NEW segments, NEW n \in Nat
    PROVE  \E c : IsDescent(c, term, segments, n)
<1> DEFINE good == {m \in Nat : \E c : IsDescent(c, term, segments, m)}
<1>1. 0 \in good
  <2>1. IsDescent([k \in {0} |-> term], term, segments, 0)
    BY DEF IsDescent
  <2> QED BY <2>1
<1>2. ASSUME NEW m \in Nat, m \in good PROVE m + 1 \in good
  <2>1. PICK c : IsDescent(c, term, segments, m)
    BY <1>2
  <2> DEFINE d == [k \in 0..(m + 1) |-> IF k = m + 1 THEN Child(c[m], segments[m + 1]) ELSE c[k]]
  <2>2. d[0] = term
    BY <2>1 DEF IsDescent
  <2>3. ASSUME NEW k \in 1..(m + 1) PROVE d[k] = Child(d[k - 1], segments[k])
    <3>1. CASE k = m + 1
      BY <3>1
    <3>2. CASE k # m + 1
      <4>1. k \in 1..m /\ k - 1 \in 0..(m + 1) /\ k - 1 # m + 1 /\ k \in 0..(m + 1)
        BY <3>2
      <4> QED BY <2>1, <3>2, <4>1 DEF IsDescent
    <3> QED BY <3>1, <3>2
  <2> HIDE DEF d
  <2>4. IsDescent(d, term, segments, m + 1)
    BY <2>2, <2>3 DEF IsDescent
  <2> QED BY <2>4
<1>3. Nat \subseteq good
  <2> HIDE DEF good
  <2> QED BY <1>1, <1>2, Parsing!NatInduct
<1> QED BY <1>3

\* A path in front of its first wildcard leads where its segments do.
LEMMA PrefixValue ==
    ASSUME NEW segments, AreSegments(segments), NEW n \in 0..Len(segments),
           NoWildcard(segments, n), NEW term \in Terms,
           NEW c, IsDescent(c, term, segments, n)
    PROVE  EvaluateUncached(term, SubSeq(segments, 1, n)) = c[n]
<1> DEFINE s == SubSeq(segments, 1, n)
<1>1. IsSequence(s) /\ Len(s) = n /\ \A k \in 1..n : s[k] = segments[k]
  BY PrefixOf DEF AreSegments
<1>0. Len(segments) \in Nat /\ n \in Nat /\ \A k \in 1..n : k \in 1..Len(segments)
  BY SequenceElim DEF AreSegments
<1> HIDE DEF s
<1>2. AreSegments(s) /\ NoWildcard(s, n) /\ IsDescent(c, term, s, n)
  BY <1>0, <1>1 DEF AreSegments, NoWildcard, IsDescent
<1>3. PICK u : IsWalk(u, s) /\ EvaluateUncached(term, s) = u[1][term]
  BY <1>1, WalkOf
<1>4. u[1][term] = u[n + 1][c[n]]
  <2>1. n \in 0..Len(s)
    BY <1>0, <1>1
  <2> QED BY <1>2, <1>3, <2>1, WalkAlongDescent
<1>5. u[n + 1] = [t \in Terms |-> t]
  BY <1>1, <1>3 DEF IsWalk
<1>6. c[n] \in Terms
  BY <1>0, DescentTerms
<1> QED BY <1>3, <1>4, <1>5, <1>6 DEF s
-----------------------------------------------------------------------------
(* Evaluating through the cache.                                               *)

\* rest makes of a term what urest does, whichever of the caches cs it is given,
\* and gives the cache back.
Uncached(rest, urest, cs) == \A t \in Terms : \A c \in cs : rest[t][c] = With(urest[t], c)

\* Uncached, for one term and one cache.
LEMMA UncachedAt ==
    ASSUME NEW rest, NEW urest, NEW cs, Uncached(rest, urest, cs), NEW t \in Terms, NEW c \in cs
    PROVE  rest[t][c] = With(urest[t], c)
BY Zenon DEF Uncached

\* The value and the cache of what With puts together.
LEMMA WithParts == \A v, c : With(v, c).value = v /\ With(v, c).cache = c
BY DEF With

\* A list mapped up to m, and its next element.
LEMMA AppendMapped ==
    ASSUME NEW items, NEW urest, NEW m \in Nat
    PROVE  Append([k \in 1..m |-> urest[items[k]]], urest[items[m + 1]])
               = [k \in 1..(m + 1) |-> urest[items[k]]]
<1> DEFINE list(n) == [k \in 1..n |-> urest[items[k]]]
           X == {urest[items[k]] : k \in 1..(m + 1)}
<1>1. list(m) \in Seq(X) /\ urest[items[m + 1]] \in X /\ Len(list(m)) = m
  OBVIOUS
<1>2. list(m + 1) \in Seq(X) /\ Len(list(m + 1)) = m + 1
  OBVIOUS
<1>3. \A k \in 1..m : list(m)[k] = list(m + 1)[k]
  OBVIOUS
<1>4. list(m + 1)[m + 1] = urest[items[m + 1]]
  OBVIOUS
<1>5. Append(list(m), urest[items[m + 1]]) = list(m + 1)
  <2> HIDE DEF list, X
  <2> QED BY <1>1, <1>2, <1>3, <1>4
<1> QED BY <1>5

\* The fan-out of a wildcard past which no segment has a slot is the uncached one.
LEMMA WildcardUncached ==
    ASSUME NEW items \in Seq(Terms), NEW rest, NEW urest, NEW cs, NEW c \in cs,
           Uncached(rest, urest, cs)
    PROVE  EvaluateWildcard(items, rest, c)
               = With(ListTerm([k \in DOMAIN items |-> urest[items[k]]]), c)
<1> DEFINE n == Len(items)
           start == With(ListTerm(<<>>), c)
           list(m) == [k \in 1..m |-> urest[items[k]]]
<1>0. n \in Nat /\ DOMAIN items = 1..n /\ \A k \in 1..n : items[k] \in Terms
  OBVIOUS
<1>1. EvaluateWildcard(items, rest, c) = Items!Left(rest, start, items)
  BY Zenon DEF EvaluateWildcard, Items!Left, ItemOp, FoldLeft, Items!FoldLeft, MapThenFoldSet,
               Items!MapThenFoldSet, Max, Items!Max
<1> HIDE DEF n
<1>2. PICK r : Items!LeftTrace(r, rest, start, items, n) /\ Items!Left(rest, start, items) = r[n]
  BY <1>0, Items!FoldLeftTrace
<1> DEFINE good == {m \in Nat : m <= n => r[m] = With(ListTerm(list(m)), c)}
<1>3. 0 \in good
  <2>1. list(0) = <<>>
    OBVIOUS
  <2> HIDE DEF list
  <2>2. r[0] = start
    BY <1>2 DEF Items!LeftTrace
  <2> QED BY <2>1, <2>2
<1>4. ASSUME NEW m \in Nat, m \in good PROVE m + 1 \in good
  <2> SUFFICES ASSUME m + 1 <= n PROVE r[m + 1] = With(ListTerm(list(m + 1)), c)
    OBVIOUS
  <2>1. m + 1 \in 1..n /\ m + 1 - 1 = m /\ r[m] = With(ListTerm(list(m)), c)
    <3> HIDE DEF list
    <3> QED BY <1>0, <1>4
  <2>2. r[m + 1] = AppendValue(r[m].value, rest[items[m + 1]][r[m].cache])
    BY <1>2, <2>1 DEF Items!LeftTrace, ItemOp
  <2>3. Append(list(m), urest[items[m + 1]]) = list(m + 1)
    BY AppendMapped
  <2> HIDE DEF list
  <2>4. r[m].value = ListTerm(list(m)) /\ r[m].cache = c
    BY <2>1, WithParts
  <2>5. rest[items[m + 1]][c] = With(urest[items[m + 1]], c)
    BY <1>0, <2>1, UncachedAt
  <2>6. r[m + 1] = AppendValue(ListTerm(list(m)), With(urest[items[m + 1]], c))
    BY <2>2, <2>4, <2>5
  <2>7. @ = With(ListTerm(Append(list(m), urest[items[m + 1]])), c)
    BY WithParts DEF AppendValue, ListTerm
  <2> QED BY <2>3, <2>6, <2>7
<1>5. Nat \subseteq good
  <2> HIDE DEF good
  <2> QED BY <1>3, <1>4, Parsing!NatInduct
<1>6. r[n] = With(ListTerm(list(n)), c)
  <2> HIDE DEF list
  <2> QED BY <1>0, <1>5
<1> QED BY <1>0, <1>1, <1>2, <1>6

\* AlongCached at one term and one cache.
LEMMA AlongCachedAt ==
    ASSUME NEW step, NEW rest, NEW cs, NEW t \in Terms, NEW c \in cs
    PROVE  AlongCached(step, rest, cs)[t][c] =
              IF step.segment = Wildcard /\ (step.slot = 0 \/ c[step.slot] = Unset)
              THEN IF IsList(t) THEN EvaluateWildcard(t[2], rest, c) ELSE With(Nil, c)
              ELSE Onwards(ReadSegment(t, step.segment, step.slot, c), rest)
BY Zenon DEF AlongCached

\* Without a slot a segment is evaluated as it would be without a cache.
LEMMA StepUncached ==
    ASSUME NEW cs, NEW rest, NEW urest, urest[Nil] = Nil, NEW s, IsSegment(s),
           Uncached(rest, urest, cs)
    PROVE  Uncached(AlongCached([segment |-> s, slot |-> 0], rest, cs), Along(s, urest), cs)
<1> SUFFICES ASSUME NEW t \in Terms, NEW c \in cs
             PROVE  AlongCached([segment |-> s, slot |-> 0], rest, cs)[t][c]
                        = With(Along(s, urest)[t], c)
  BY Zenon DEF Uncached
<1> DEFINE step == [segment |-> s, slot |-> 0]
<1>1. step.segment = s /\ step.slot = 0
  OBVIOUS
<1> HIDE DEF step
<1>2. AlongCached(step, rest, cs)[t][c] =
        IF step.segment = Wildcard /\ (step.slot = 0 \/ c[step.slot] = Unset)
        THEN IF IsList(t) THEN EvaluateWildcard(t[2], rest, c) ELSE With(Nil, c)
        ELSE Onwards(ReadSegment(t, step.segment, step.slot, c), rest)
  BY AlongCachedAt
<1>3. CASE s = Wildcard
  <2>1. AlongCached(step, rest, cs)[t][c] =
          IF IsList(t) THEN EvaluateWildcard(t[2], rest, c) ELSE With(Nil, c)
    BY <1>1, <1>2, <1>3
  <2>2. Along(s, urest)[t] =
          IF IsList(t) THEN ListTerm([k \in DOMAIN t[2] |-> urest[t[2][k]]]) ELSE Nil
    BY <1>3, Zenon DEF Along
  <2>3. CASE IsList(t)
    <3>1. t[2] \in Seq(Terms)
      BY <2>3, TermsAssumption
    <3>2. EvaluateWildcard(t[2], rest, c)
            = With(ListTerm([k \in DOMAIN t[2] |-> urest[t[2][k]]]), c)
      BY <3>1, WildcardUncached
    <3> QED BY <2>1, <2>2, <2>3, <3>2, Zenon DEF step
  <2>4. CASE ~IsList(t)
    BY <2>1, <2>2, <2>4, Zenon DEF step
  <2> QED BY <2>3, <2>4
<1>4. CASE s # Wildcard
  <2>1. ReadSegment(t, s, 0, c) = With(Child(t, s), c)
    BY Zenon DEF ReadSegment, CachePut
  <2>2. AlongCached(step, rest, cs)[t][c] = Onwards(With(Child(t, s), c), rest)
    BY <1>1, <1>2, <1>4, <2>1
  <2>3. Along(s, urest)[t] = urest[Child(t, s)]
    BY <1>4, AlongStep
  <2>4. With(Child(t, s), c).value = Child(t, s) /\ With(Child(t, s), c).cache = c
    BY DEF With
  <2>5. CASE Child(t, s) = Nil
    <3>1. Onwards(With(Child(t, s), c), rest) = With(Nil, c)
      BY <2>4, <2>5 DEF Onwards
    <3> QED BY <2>2, <2>3, <2>5, <3>1 DEF step
  <2>6. CASE Child(t, s) # Nil
    <3>1. Onwards(With(Child(t, s), c), rest) = rest[Child(t, s)][c]
      BY <2>4, <2>6 DEF Onwards
    <3>2. Child(t, s) \in Terms
      BY ChildInTerms
    <3>3. rest[Child(t, s)][c] = With(urest[Child(t, s)], c)
      BY <3>2, UncachedAt
    <3> QED BY <2>2, <2>3, <3>1, <3>3 DEF step
  <2> QED BY <2>5, <2>6
<1> QED BY <1>3, <1>4

\* What a slot holds once it is filled.
SlotValue(document, prefix, flat) ==
    IF flat THEN Child(document, <<"flat", Dotted(prefix)>>)
    ELSE EvaluateUncached(document, prefix)

Fits(c, document, slots, flat) ==
    /\ c = [i \in 1..Len(slots) |-> c[i]]
    /\ \A i \in 1..Len(slots) :
           c[i] # Unset => /\ c[i] = SlotValue(document, slots[i], flat)
                           /\ ~flat => c[i] \in Terms

\* Filling a slot with what its prefix evaluates to keeps the cache fitting.
LEMMA PutFits ==
    ASSUME NEW document, NEW slots, NEW flat, NEW c, Fits(c, document, slots, flat),
           NEW i, i # 0 => i \in 1..Len(slots),
           NEW v, i # 0 => v = SlotValue(document, slots[i], flat), ~flat => v \in Terms
    PROVE  Fits(CachePut(c, i, v), document, slots, flat)
<1>1. CASE i = 0
  BY <1>1 DEF CachePut
<1>2. CASE i # 0
  <2> DEFINE d == [c EXCEPT ![i] = v]
  <2>1. CachePut(c, i, v) = d
    BY <1>2 DEF CachePut
  <2>2. /\ d = [j \in 1..Len(slots) |-> d[j]]
        /\ \A j \in 1..Len(slots) : d[j] = IF j = i THEN v ELSE c[j]
    BY <1>2 DEF Fits
  <2> HIDE DEF d
  <2>3. Fits(d, document, slots, flat)
    BY <1>2, <2>2 DEF Fits
  <2> QED BY <2>1, <2>3
<1> QED BY <1>1, <1>2

\* A fitting cache of a nested document holds terms.
LEMMA FitsCaches ==
    ASSUME NEW document, NEW slots, NEW c, Fits(c, document, slots, FALSE)
    PROVE  c \in [1..Len(slots) -> Terms \cup {Unset}] /\ DOMAIN c = 1..Len(slots)
BY DEF Fits

\* f takes the term t to this value through any cache of the document, and leaves
\* another such cache.
Serves(f, t, value, document, slots) ==
    \A c : Fits(c, document, slots, FALSE) =>
              f[t][c].value = value /\ Fits(f[t][c].cache, document, slots, FALSE)

\* ReadSegment gives the child and leaves a fitting cache, from the slot or not.
LEMMA ReadFits ==
    ASSUME NEW document, NEW slots, NEW flat, NEW c, Fits(c, document, slots, flat),
           NEW t, NEW s, NEW i, ~flat => Child(t, s) \in Terms,
           i # 0 => i \in 1..Len(slots) /\ Child(t, s) = SlotValue(document, slots[i], flat)
    PROVE  /\ ReadSegment(t, s, i, c).value = Child(t, s)
           /\ Fits(ReadSegment(t, s, i, c).cache, document, slots, flat)
<1>1. CASE i # 0 /\ c[i] # Unset
  <2>1. ReadSegment(t, s, i, c) = With(c[i], c)
    BY <1>1, Zenon DEF ReadSegment
  <2>2. c[i] = SlotValue(document, slots[i], flat)
    BY <1>1 DEF Fits
  <2> QED BY <1>1, <2>1, <2>2, WithParts
<1>2. CASE ~(i # 0 /\ c[i] # Unset)
  <2>1. ReadSegment(t, s, i, c) = With(Child(t, s), CachePut(c, i, Child(t, s)))
    BY <1>2, Zenon DEF ReadSegment
  <2>2. Fits(CachePut(c, i, Child(t, s)), document, slots, flat)
    BY PutFits
  <2> QED BY <2>1, <2>2, WithParts
<1> QED BY <1>1, <1>2

\* One step through the cache is the step without it, and the cache still fits.
LEMMA StepCached ==
    ASSUME NEW document, NEW slots, NEW t \in Terms, NEW s, IsSegment(s), s # Wildcard,
           NEW i, i # 0 => i \in 1..Len(slots) /\ Child(t, s) = EvaluateUncached(document, slots[i]),
           NEW rest, NEW urest, urest[Nil] = Nil,
           Serves(rest, Child(t, s), urest[Child(t, s)], document, slots),
           NEW cs, cs = [1..Len(slots) -> Terms \cup {Unset}]
    PROVE  Serves(AlongCached([segment |-> s, slot |-> i], rest, cs), t, Along(s, urest)[t],
                  document, slots)
<1> SUFFICES ASSUME NEW c, Fits(c, document, slots, FALSE)
             PROVE  LET f == AlongCached([segment |-> s, slot |-> i], rest, cs) IN
                    f[t][c].value = Along(s, urest)[t] /\ Fits(f[t][c].cache, document, slots, FALSE)
  BY Zenon DEF Serves
<1> DEFINE step == [segment |-> s, slot |-> i]
           read == ReadSegment(t, s, i, c)
<1>1. step.segment = s /\ step.slot = i
  OBVIOUS
<1> HIDE DEF step, read
<1>2. c \in cs
  BY FitsCaches
<1>3. AlongCached(step, rest, cs)[t][c] = Onwards(read, rest)
  BY <1>1, <1>2, AlongCachedAt DEF read
<1>4. Child(t, s) \in Terms
  BY ChildInTerms
<1>5. read.value = Child(t, s) /\ Fits(read.cache, document, slots, FALSE)
  <2>1. i # 0 => i \in 1..Len(slots) /\ Child(t, s) = SlotValue(document, slots[i], FALSE)
    BY DEF SlotValue
  <2> QED BY <1>4, <2>1, ReadFits DEF read
<1>6. Along(s, urest)[t] = urest[Child(t, s)]
  BY AlongStep
<1>7. CASE Child(t, s) = Nil
  <2>1. Onwards(read, rest) = read
    BY <1>5, <1>7 DEF Onwards
  <2> QED BY <1>3, <1>5, <1>6, <1>7, <2>1 DEF step
<1>8. CASE Child(t, s) # Nil
  <2>1. Onwards(read, rest) = rest[Child(t, s)][read.cache]
    BY <1>5, <1>8 DEF Onwards
  <2>2. /\ rest[Child(t, s)][read.cache].value = urest[Child(t, s)]
        /\ Fits(rest[Child(t, s)][read.cache].cache, document, slots, FALSE)
    BY <1>5, Zenon DEF Serves
  <2> QED BY <1>3, <1>6, <2>1, <2>2 DEF step
<1> QED BY <1>7, <1>8

\* Where the slots of a path end: at its first wildcard, if it has one.
LEMMA SlotsEnd ==
    ASSUME NEW segments, AreSegments(segments), NEW indices, NEW slots,
           IndicesFit(segments, indices, slots)
    PROVE  \E w \in 0..Len(segments) :
              NoWildcard(segments, w) /\ \A k \in (w + 1)..Len(segments) : indices[k] = 0
<1> DEFINE n == Len(segments)
           w == SlotOf(Wildcard, segments)
<1>0. n \in Nat /\ IsSequence(segments)
  BY SequenceElim DEF AreSegments
<1>1. /\ w \in 0..n
      /\ w = 0 => \A k \in 1..n : segments[k] # Wildcard
      /\ w # 0 => segments[w] = Wildcard /\ \A k \in 1..(w - 1) : segments[k] # Wildcard
  BY <1>0, SlotOfPlace
<1> HIDE DEF n, w
<1>2. CASE w = 0
  <2>1. NoWildcard(segments, n) /\ n \in 0..n /\ \A k \in (n + 1)..n : indices[k] = 0
    BY <1>0, <1>1, <1>2 DEF NoWildcard
  <2> QED BY <2>1 DEF n
<1>3. CASE w # 0
  <2>1. NoWildcard(segments, w - 1) /\ w - 1 \in 0..n
    BY <1>0, <1>1, <1>3 DEF NoWildcard
  <2>2. ASSUME NEW k \in (w - 1 + 1)..n PROVE indices[k] = 0
    <3>1. k \in 1..n /\ w \in 1..k
      BY <1>0, <1>1, <1>3
    <3>2. indices[k] # 0 => NoWildcard(segments, k)
      BY <3>1 DEF IndicesFit, n
    <3> QED BY <1>1, <1>3, <3>1, <3>2 DEF NoWildcard
  <2> QED BY <2>1, <2>2 DEF n
<1> QED BY <1>2, <1>3

\* evaluate_nested gives what evaluate_uncached gives, and the cache still fits.
LEMMA NestedEvaluation ==
    ASSUME NEW segments, AreSegments(segments), NEW indices, NEW slots,
           IndicesFit(segments, indices, slots),
           NEW document \in Terms, NEW c, Fits(c, document, slots, FALSE)
    PROVE  /\ EvaluateNested(document, segments, indices, c).value
                  = EvaluateUncached(document, segments)
           /\ Fits(EvaluateNested(document, segments, indices, c).cache, document, slots, FALSE)
<1> DEFINE n == Len(segments)
           cs == [1..Len(slots) -> Terms \cup {Unset}]
           base == [t \in Terms |-> [d \in cs |-> With(t, d)]]
           steps == Steps(segments, indices)
<1>0. /\ n \in Nat /\ IsSequence(segments) /\ DOMAIN segments = 1..n
      /\ Caches(c) = cs /\ c \in cs
  BY SequenceElim, FitsCaches DEF AreSegments, Caches
<1>1. EvaluateNested(document, segments, indices, c)
        = Nesting!Right(cs, steps, base)[document][c]
  <2>1. EvaluateNested(document, segments, indices, c)
          = Nesting!Right(Caches(c), Steps(segments, indices),
                          [t \in Terms |-> [x \in Caches(c) |-> With(t, x)]])[document][c]
    BY Zenon DEF EvaluateNested, Nesting!Right, AlongCachedOp, FoldRight, Nesting!FoldRight,
                 MapThenFoldSet, Nesting!MapThenFoldSet, Min, Nesting!Min
  <2> HIDE DEF cs
  <2>2. [t \in Terms |-> [x \in Caches(c) |-> With(t, x)]] = base
    BY <1>0, Zenon
  <2> HIDE DEF base, steps
  <2> QED BY <1>0, <2>1, <2>2, Zenon DEF steps
<1>2. DOMAIN steps = 1..n /\ \A k \in 1..n : steps[k] = [segment |-> segments[k], slot |-> indices[k]]
  BY <1>0 DEF Steps
<1>3. Uncached(base, [t \in Terms |-> t], cs)
  BY DEF Uncached
<1> HIDE DEF n, cs, base, steps
<1>4. PICK e : Nesting!RightTrace(e, cs, base, steps, n) /\ Nesting!Right(cs, steps, base) = e[1]
  BY <1>0, <1>2, Nesting!FoldRightTrace
<1>5. PICK u : IsWalk(u, segments) /\ \A t : EvaluateUncached(t, segments) = u[1][t]
  BY <1>0, WalkOf
<1>6. PICK w \in 0..n : /\ NoWildcard(segments, w)
                        /\ \A k \in (w + 1)..n : indices[k] = 0
  BY SlotsEnd DEF n
<1>7. PICK d : IsDescent(d, document, segments, w)
  <2>1. w \in Nat
    BY <1>0, <1>6
  <2>2. \E x : IsDescent(x, document, segments, w)
    BY <2>1, DescentOf
  <2> QED BY <2>2
<1>8. \A k \in 1..n : /\ e[k] = AlongCached([segment |-> segments[k], slot |-> indices[k]], e[k + 1], cs)
                      /\ u[k] = Along(segments[k], u[k + 1])
                      /\ IsSegment(segments[k])
  BY <1>2, <1>4, <1>5 DEF Nesting!RightTrace, AlongCachedOp, IsWalk, AreSegments, n
<1>9. e[n + 1] = base /\ u[n + 1] = [t \in Terms |-> t] /\ \A k \in 1..(n + 1) : u[k][Nil] = Nil
  BY <1>0, <1>4, <1>5, WalkOfNil DEF Nesting!RightTrace, IsWalk, n
<1> DEFINE tail == {m \in Nat : m <= n - w => Uncached(e[n + 1 - m], u[n + 1 - m], cs)}
<1>10. 0 \in tail
  <2>1. n + 1 - 0 = n + 1
    BY <1>0
  <2> QED BY <1>3, <1>9, <2>1
<1>11. ASSUME NEW m \in Nat, m \in tail PROVE m + 1 \in tail
  <2> SUFFICES ASSUME m + 1 <= n - w PROVE Uncached(e[n + 1 - (m + 1)], u[n + 1 - (m + 1)], cs)
    OBVIOUS
  <2>1. PICK k \in (w + 1)..n : k = n + 1 - (m + 1)
    BY <1>0
  <2>2. k \in 1..n /\ k + 1 \in 1..(n + 1) /\ k + 1 = n + 1 - m /\ indices[k] = 0
        /\ Uncached(e[k + 1], u[k + 1], cs)
    BY <1>0, <1>6, <1>11, <2>1
  <2>3. /\ e[k] = AlongCached([segment |-> segments[k], slot |-> 0], e[k + 1], cs)
        /\ u[k] = Along(segments[k], u[k + 1]) /\ IsSegment(segments[k]) /\ u[k + 1][Nil] = Nil
    BY <1>8, <1>9, <2>2
  <2>4. Uncached(e[k], u[k], cs)
    BY <2>2, <2>3, StepUncached
  <2> QED BY <2>1, <2>4
<1>12. Nat \subseteq tail
  <2> HIDE DEF tail
  <2> QED BY <1>10, <1>11, Parsing!NatInduct
<1>13. Uncached(e[w + 1], u[w + 1], cs)
  <2>1. n - w \in Nat /\ n + 1 - (n - w) = w + 1
    BY <1>0
  <2> QED BY <1>12, <2>1
<1> HIDE DEF tail
<1>14. \A k \in 0..w : d[k] \in Terms
  BY <1>0, <1>6, <1>7, DescentTerms DEF n
<1> DEFINE head == {m \in Nat : m <= w =>
                      Serves(e[w + 1 - m], d[w - m], u[w + 1 - m][d[w - m]], document, slots)}
<1>15. 0 \in head
  <2>1. w + 1 - 0 = w + 1 /\ w - 0 = w /\ d[w] \in Terms
    BY <1>0, <1>14
  <2>2. ASSUME NEW x, Fits(x, document, slots, FALSE)
        PROVE  /\ e[w + 1][d[w]][x].value = u[w + 1][d[w]]
               /\ Fits(e[w + 1][d[w]][x].cache, document, slots, FALSE)
    <3>1. x \in cs
      BY <2>2, FitsCaches DEF cs
    <3>2. e[w + 1][d[w]][x] = With(u[w + 1][d[w]], x)
      BY <1>13, <2>1, <3>1, UncachedAt
    <3>3. /\ With(u[w + 1][d[w]], x).value = u[w + 1][d[w]]
          /\ With(u[w + 1][d[w]], x).cache = x
      BY WithParts
    <3> QED BY <2>2, <3>2, <3>3, Zenon
  <2>3. Serves(e[w + 1], d[w], u[w + 1][d[w]], document, slots)
    BY <2>2, Zenon DEF Serves
  <2> QED BY <2>1, <2>3
<1>16. ASSUME NEW m \in Nat, m \in head PROVE m + 1 \in head
  <2> SUFFICES ASSUME m + 1 <= w
               PROVE  Serves(e[w + 1 - (m + 1)], d[w - (m + 1)],
                             u[w + 1 - (m + 1)][d[w - (m + 1)]], document, slots)
    OBVIOUS
  <2>1. PICK k \in 1..w : k = w + 1 - (m + 1)
    BY <1>0
  <2>2. /\ k \in 1..n /\ k + 1 \in 1..(n + 1) /\ k + 1 = w + 1 - m /\ k = w - m
        /\ k - 1 = w - (m + 1) /\ k - 1 \in 0..w /\ k \in 0..w
        /\ Serves(e[k + 1], d[k], u[k + 1][d[k]], document, slots)
    BY <1>0, <1>16, <2>1
  <2>3. /\ e[k] = AlongCached([segment |-> segments[k], slot |-> indices[k]], e[k + 1], cs)
        /\ u[k] = Along(segments[k], u[k + 1]) /\ IsSegment(segments[k]) /\ u[k + 1][Nil] = Nil
        /\ d[k] = Child(d[k - 1], segments[k]) /\ d[k - 1] \in Terms /\ segments[k] # Wildcard
    BY <1>6, <1>7, <1>8, <1>9, <1>14, <2>2 DEF IsDescent, NoWildcard
  <2>4. indices[k] # 0 => /\ indices[k] \in 1..Len(slots)
                          /\ d[k] = EvaluateUncached(document, slots[indices[k]])
    <3> SUFFICES ASSUME indices[k] # 0
                 PROVE  /\ indices[k] \in 1..Len(slots)
                        /\ d[k] = EvaluateUncached(document, slots[indices[k]])
      OBVIOUS
    <3>1. /\ indices[k] \in 1..Len(slots) /\ slots[indices[k]] = SubSeq(segments, 1, k)
          /\ NoWildcard(segments, k)
      BY <2>2 DEF IndicesFit, n
    <3>2. IsDescent(d, document, segments, k) /\ k \in 0..Len(segments)
      BY <1>0, <1>7, <2>2 DEF IsDescent, n
    <3>3. EvaluateUncached(document, SubSeq(segments, 1, k)) = d[k]
      BY <3>1, <3>2, PrefixValue
    <3> QED BY <3>1, <3>3
  <2>5. Serves(e[k], d[k - 1], u[k][d[k - 1]], document, slots)
    <3>1. /\ indices[k] # 0 => /\ indices[k] \in 1..Len(slots)
                               /\ Child(d[k - 1], segments[k])
                                     = EvaluateUncached(document, slots[indices[k]])
          /\ Serves(e[k + 1], Child(d[k - 1], segments[k]), u[k + 1][Child(d[k - 1], segments[k])],
                    document, slots)
      BY <2>2, <2>3, <2>4
    <3>2. Serves(AlongCached([segment |-> segments[k], slot |-> indices[k]], e[k + 1], cs),
                 d[k - 1], Along(segments[k], u[k + 1])[d[k - 1]], document, slots)
      BY <2>3, <3>1, StepCached DEF cs
    <3> QED BY <2>3, <3>2
  <2> QED BY <2>1, <2>2, <2>5
<1>17. Nat \subseteq head
  <2> HIDE DEF head
  <2> QED BY <1>15, <1>16, Parsing!NatInduct
<1>18. Serves(e[1], document, u[1][document], document, slots)
  <2>1. w \in Nat /\ w + 1 - w = 1 /\ w - w = 0 /\ d[0] = document
    BY <1>0, <1>7 DEF IsDescent
  <2>2. w \in head
    BY <1>17, <2>1
  <2> QED BY <2>1, <2>2
<1>19. /\ e[1][document][c].value = u[1][document]
       /\ Fits(e[1][document][c].cache, document, slots, FALSE)
  BY <1>18, Zenon DEF Serves
<1> QED BY <1>1, <1>4, <1>5, <1>19
-----------------------------------------------------------------------------
(* One path.  A view w is a document, how its keys are read, and the slots its *)
(* cache has.                                                                  *)

IsView(w) == IsSequence(w.slots) /\ w.flat \in BOOLEAN /\ (~w.flat => w.document \in Terms)

\* A cached run a and an uncached run b end with the same value, and a's cache
\* is one of the document.
Agree(w, a, b) == a.value = b.value /\ Fits(a.cache, w.document, w.slots, w.flat)

\* What a path reads without a cache.
PathValue(document, path, flat) ==
    IF path.segments = <<>> THEN document
    ELSE IF ~flat THEN EvaluateUncached(document, path.segments)
    ELSE IF path.flat_key = <<>> THEN Nil ELSE Child(document, <<"flat", path.flat_key>>)

\* A path without a slot has its plain value.
LEMMA PlainPath ==
    ASSUME NEW p, IsSequence(p.segments), p.cache_indices = [k \in 1..Len(p.segments) |-> 0],
           NEW document, NEW flat, NEW c
    PROVE  Evaluate(document, p, flat, c) = With(PathValue(document, p, flat), c)
<1>0. Len(p.segments) \in Nat
  BY SequenceElim
<1>1. CASE p.segments = <<>>
  BY <1>1, Zenon DEF Evaluate, PathValue
<1>2. CASE p.segments # <<>> /\ flat
  <2>1. Evaluate(document, p, flat, c) = EvaluateFlat(document, p, c)
    BY <1>2, Zenon DEF Evaluate
  <2>2. CASE p.flat_key = <<>>
    BY <1>2, <2>1, <2>2, Zenon DEF EvaluateFlat, PathValue
  <2>3. CASE p.flat_key # <<>>
    <3>1. p.cache_indices[Len(p.segments)] = 0
      <4>1. Len(p.segments) # 0
        <5>1. p.segments = [k \in 1..Len(p.segments) |-> p.segments[k]]
          BY SequenceElim
        <5>2. ASSUME Len(p.segments) = 0 PROVE FALSE
          <6>1. p.segments = [k \in 1..0 |-> p.segments[k]]
            BY <5>1, <5>2
          <6>2. p.segments \in Seq({})
            BY <6>1
          <6>3. p.segments = <<>>
            BY <5>2, <6>2
          <6> QED BY <1>2, <6>3
        <5> QED BY <5>2
      <4> QED BY <1>0, <4>1
    <3>2. EvaluateFlat(document, p, c) = ReadSegment(document, <<"flat", p.flat_key>>, 0, c)
      BY <2>3, <3>1, Zenon DEF EvaluateFlat
    <3>3. @ = With(Child(document, <<"flat", p.flat_key>>), c)
      BY Zenon DEF ReadSegment, CachePut
    <3> QED BY <1>2, <2>1, <2>3, <3>2, <3>3, Zenon DEF PathValue
  <2> QED BY <2>2, <2>3
<1>3. CASE p.segments # <<>> /\ ~flat
  <2>1. \A k \in DOMAIN p.cache_indices : p.cache_indices[k] = 0
    OBVIOUS
  <2>2. Evaluate(document, p, flat, c) = With(EvaluateUncached(document, p.segments), c)
    BY <1>3, <2>1, Zenon DEF Evaluate
  <2> QED BY <1>3, <2>2, Zenon DEF PathValue
<1> QED BY <1>1, <1>2, <1>3

\* A sequence other than the empty one has an element.
LEMMA NonEmpty ==
    ASSUME NEW s, IsSequence(s), s # <<>>
    PROVE  Len(s) \in 1..Len(s)
<1>1. s \in Seq(ToSet(s))
  BY DEF IsSequence
<1>2. Len(s) \in Nat /\ Len(s) # 0
  BY <1>1
<1> QED BY <1>2

\* A path through its slots, in a nested or flat document, has its plain value.
LEMMA CachedRun ==
    ASSUME NEW w, IsView(w), NEW q, AreSegments(q.segments),
           w.flat /\ q.flat_key # <<>> => q.flat_key = Dotted(q.segments),
           IndicesFit(q.segments, q.cache_indices, w.slots),
           NEW c, Fits(c, w.document, w.slots, w.flat)
    PROVE  /\ Evaluate(w.document, q, w.flat, c).value = PathValue(w.document, q, w.flat)
           /\ Fits(Evaluate(w.document, q, w.flat, c).cache, w.document, w.slots, w.flat)
<1> DEFINE read == Evaluate(w.document, q, w.flat, c)
           value == PathValue(w.document, q, w.flat)
<1>0. IsSequence(q.segments)
  BY DEF AreSegments
<1>1. CASE q.segments = <<>>
  <2>1. read = With(w.document, c) /\ value = w.document
    BY <1>1, Zenon DEF Evaluate, PathValue
  <2> QED BY <2>1, WithParts
<1>2. CASE q.segments # <<>> /\ w.flat
  <2>1. read = EvaluateFlat(w.document, q, c)
    BY <1>2, Zenon DEF Evaluate
  <2>2. CASE q.flat_key = <<>>
    <3>1. read = With(Nil, c) /\ value = Nil
      BY <1>2, <2>1, <2>2, Zenon DEF EvaluateFlat, PathValue
    <3> QED BY <3>1, WithParts
  <2>3. CASE q.flat_key # <<>>
    <3> DEFINE i == q.cache_indices[Len(q.segments)]
               s == <<"flat", q.flat_key>>
    <3>1. read = ReadSegment(w.document, s, i, c) /\ value = Child(w.document, s)
      BY <1>2, <2>1, <2>3, Zenon DEF EvaluateFlat, PathValue
    <3>2. ASSUME i # 0
          PROVE  i \in 1..Len(w.slots) /\ Child(w.document, s) = SlotValue(w.document, w.slots[i], w.flat)
      <4>1. Len(q.segments) \in 1..Len(q.segments)
        BY <1>0, <1>2, NonEmpty
      <4>2. i \in 1..Len(w.slots) /\ w.slots[i] = SubSeq(q.segments, 1, Len(q.segments))
        BY <3>2, <4>1 DEF IndicesFit
      <4>3. SubSeq(q.segments, 1, Len(q.segments)) = q.segments
        <5>1. q.segments \in Seq(ToSet(q.segments))
          BY <1>0 DEF IsSequence
        <5> QED BY <5>1
      <4>4. SlotValue(w.document, q.segments, w.flat) = Child(w.document, <<"flat", Dotted(q.segments)>>)
        BY <1>2, Zenon DEF SlotValue
      <4> QED BY <1>2, <2>3, <4>2, <4>3, <4>4
    <3> HIDE DEF i, s
    <3>3. /\ ReadSegment(w.document, s, i, c).value = Child(w.document, s)
          /\ Fits(ReadSegment(w.document, s, i, c).cache, w.document, w.slots, w.flat)
      BY <1>2, <3>2, ReadFits
    <3> QED BY <3>1, <3>3
  <2> QED BY <2>2, <2>3
<1>3. CASE q.segments # <<>> /\ ~w.flat
  <2>0. w.flat = FALSE /\ w.document \in Terms
    BY <1>3 DEF IsView
  <2>1. value = EvaluateUncached(w.document, q.segments)
    BY <1>3, Zenon DEF PathValue
  <2>2. CASE \A k \in DOMAIN q.cache_indices : q.cache_indices[k] = 0
    <3>1. read = With(EvaluateUncached(w.document, q.segments), c)
      BY <1>3, <2>2, Zenon DEF Evaluate
    <3> QED BY <2>1, <3>1, WithParts
  <2>3. CASE ~\A k \in DOMAIN q.cache_indices : q.cache_indices[k] = 0
    <3>1. read = EvaluateNested(w.document, q.segments, q.cache_indices, c)
      BY <1>3, <2>3, Zenon DEF Evaluate
    <3>2. Fits(c, w.document, w.slots, FALSE)
      BY <2>0
    <3>3. /\ EvaluateNested(w.document, q.segments, q.cache_indices, c).value
                = EvaluateUncached(w.document, q.segments)
          /\ Fits(EvaluateNested(w.document, q.segments, q.cache_indices, c).cache,
                  w.document, w.slots, FALSE)
      BY <2>0, <3>2, NestedEvaluation
    <3> QED BY <2>0, <2>1, <3>1, <3>3
  <2> QED BY <2>2, <2>3
<1> QED BY <1>1, <1>2, <1>3

\* A path with its slots reads what the path without any does.
LEMMA PathAgrees ==
    ASSUME NEW w, IsView(w), NEW p, IsPath(p), NEW c, Fits(c, w.document, w.slots, w.flat), NEW x
    PROVE  Agree(w, Evaluate(w.document, Cached(p, w.slots), w.flat, c),
                 Evaluate(w.document, p, w.flat, x))
<1> DEFINE q == Cached(p, w.slots)
<1>1. /\ q.segments = p.segments /\ q.flat_key = p.flat_key
      /\ IndicesFit(p.segments, q.cache_indices, w.slots)
  BY CachedPath DEF IsView
<1>2. AreSegments(p.segments) /\ (p.flat_key # <<>> => p.flat_key = Dotted(p.segments))
      /\ p.cache_indices = [k \in 1..Len(p.segments) |-> 0] /\ IsSequence(p.segments)
  BY DEF IsPath, AreSegments
<1> HIDE DEF q
<1>3. PathValue(w.document, q, w.flat) = PathValue(w.document, p, w.flat)
  BY <1>1, Zenon DEF PathValue
<1>4. /\ Evaluate(w.document, q, w.flat, c).value = PathValue(w.document, q, w.flat)
      /\ Fits(Evaluate(w.document, q, w.flat, c).cache, w.document, w.slots, w.flat)
  <2>1. /\ AreSegments(q.segments) /\ (q.flat_key # <<>> => q.flat_key = Dotted(q.segments))
        /\ IndicesFit(q.segments, q.cache_indices, w.slots)
    BY <1>1, <1>2
  <2> QED BY <2>1, CachedRun
<1>5. Evaluate(w.document, p, w.flat, x) = With(PathValue(w.document, p, w.flat), x)
  BY <1>2, PlainPath
<1> QED BY <1>3, <1>4, <1>5, WithParts DEF Agree, q
-----------------------------------------------------------------------------
(* Several paths.                                                              *)

ArePaths(paths) == IsSequence(paths) /\ \A k \in 1..Len(paths) : IsPath(paths[k])

FirstOp(ctx, acc, path) ==
    IF acc.value # Nil THEN acc
    ELSE IfAccepted(Evaluate(ctx.document, path, ctx.flat, acc.cache), ctx.options)
Firsts == INSTANCE FoldLemmas WITH Op <- FirstOp, Rel <- Agree

\* EvaluateFirst is a fold of FirstOp.
LEMMA FirstsOf ==
    ASSUME NEW ctx, NEW paths, NEW c
    PROVE  EvaluateFirst(ctx.document, paths, ctx.options, ctx.flat, c)
               = Firsts!Left(ctx, With(Nil, c), paths)
BY Zenon DEF EvaluateFirst, Firsts!Left, FirstOp, FoldLeft, Firsts!FoldLeft, MapThenFoldSet,
             Firsts!MapThenFoldSet, Max, Firsts!Max

\* The paths with their slots, one by one.
LEMMA CachedPathsOf ==
    ASSUME NEW paths, ArePaths(paths), NEW slots
    PROVE  /\ Len(paths) \in Nat /\ DOMAIN paths = 1..Len(paths)
           /\ DOMAIN CachedPaths(paths, slots) = 1..Len(paths)
           /\ \A k \in 1..Len(paths) :
                 IsPath(paths[k]) /\ CachedPaths(paths, slots)[k] = Cached(paths[k], slots)
<1>1. Len(paths) \in Nat /\ DOMAIN paths = 1..Len(paths)
  BY SequenceElim DEF ArePaths
<1> QED BY <1>1 DEF CachedPaths, ArePaths

\* Two evaluations that agree are refused alike.
LEMMA AgreeIfAccepted ==
    ASSUME NEW w, NEW a, NEW b, Agree(w, a, b), NEW options
    PROVE  Agree(w, IfAccepted(a, options), IfAccepted(b, options))
<1>1. CASE Accepts(b.value, options)
  BY <1>1, Zenon DEF IfAccepted, Agree
<1>2. CASE ~Accepts(b.value, options)
  <2>1. IfAccepted(a, options) = With(Nil, a.cache) /\ IfAccepted(b, options) = With(Nil, b.cache)
    BY <1>2, Zenon DEF IfAccepted, Agree
  <2> QED BY <2>1, WithParts DEF Agree
<1> QED BY <1>1, <1>2

\* evaluate_first finds with slots what it finds without.
LEMMA FirstAgrees ==
    ASSUME NEW w, IsView(w), NEW paths, ArePaths(paths), NEW options,
           NEW c, Fits(c, w.document, w.slots, w.flat), NEW x
    PROVE  Agree(w, EvaluateFirst(w.document, CachedPaths(paths, w.slots), options, w.flat, c),
                 EvaluateFirst(w.document, paths, options, w.flat, x))
<1> DEFINE n == Len(paths)
           cached == CachedPaths(paths, w.slots)
<1>1. /\ n \in Nat /\ DOMAIN paths = 1..n /\ DOMAIN cached = 1..n
      /\ \A k \in 1..n : IsPath(paths[k]) /\ cached[k] = Cached(paths[k], w.slots)
  BY CachedPathsOf
<1> HIDE DEF n, cached
<1>2. PICK ctx : ctx.document = w.document /\ ctx.options = options /\ ctx.flat = w.flat
  <2>1. LET r == [document |-> w.document, options |-> options, flat |-> w.flat] IN
        r.document = w.document /\ r.options = options /\ r.flat = w.flat
    OBVIOUS
  <2> QED BY <2>1
<1>3. Agree(w, With(Nil, c), With(Nil, x))
  BY WithParts DEF Agree
<1>4. ASSUME NEW k \in 1..n, NEW a, NEW b, Agree(w, a, b)
      PROVE  Agree(w, FirstOp(ctx, a, cached[k]), FirstOp(ctx, b, paths[k]))
  <2>1. CASE a.value # Nil
    BY <1>4, <2>1, Zenon DEF FirstOp, Agree
  <2>2. CASE a.value = Nil
    <3>1. /\ FirstOp(ctx, a, cached[k])
                = IfAccepted(Evaluate(w.document, cached[k], w.flat, a.cache), options)
          /\ FirstOp(ctx, b, paths[k])
                = IfAccepted(Evaluate(w.document, paths[k], w.flat, b.cache), options)
      BY <1>2, <1>4, <2>2, Zenon DEF FirstOp, Agree
    <3>2. Agree(w, Evaluate(w.document, cached[k], w.flat, a.cache),
                Evaluate(w.document, paths[k], w.flat, b.cache))
      <4>1. Fits(a.cache, w.document, w.slots, w.flat)
        BY <1>4 DEF Agree
      <4>2. Agree(w, Evaluate(w.document, Cached(paths[k], w.slots), w.flat, a.cache),
                  Evaluate(w.document, paths[k], w.flat, b.cache))
        BY <1>1, <4>1, PathAgrees
      <4> QED BY <1>1, <4>2
    <3> QED BY <3>1, <3>2, AgreeIfAccepted
  <2> QED BY <2>1, <2>2
<1>5. Firsts!Keeps(w, ctx, ctx, cached, paths, n)
  BY <1>4, Zenon DEF Firsts!Keeps
<1>6. Agree(w, Firsts!Left(ctx, With(Nil, c), cached), Firsts!Left(ctx, With(Nil, x), paths))
  BY <1>1, <1>3, <1>5, Firsts!FoldsRelated
<1>7. /\ EvaluateFirst(w.document, cached, options, w.flat, c)
            = Firsts!Left(ctx, With(Nil, c), cached)
      /\ EvaluateFirst(w.document, paths, options, w.flat, x)
            = Firsts!Left(ctx, With(Nil, x), paths)
  BY <1>2, FirstsOf
<1> QED BY <1>6, <1>7 DEF cached
-----------------------------------------------------------------------------
(* Conditions and rules.                                                       *)

AreCompiled(conditions) ==
    /\ IsSequence(conditions)
    /\ \A k \in 1..Len(conditions) :
           /\ IsPath(conditions[k].path)
           /\ conditions[k] = [path |-> conditions[k].path, predicate |-> conditions[k].predicate,
                               comparison |-> conditions[k].comparison]

ConditionOp(ctx, acc, condition) ==
    IF acc.value = ctx.decisive THEN acc
    ELSE Judged(condition, Evaluate(ctx.document, condition.path, ctx.flat, acc.cache))
Judging == INSTANCE FoldLemmas WITH Op <- ConditionOp, Rel <- Agree

\* Judging conditions is a fold of ConditionOp.
LEMMA ConditionsOf ==
    ASSUME NEW ctx, NEW conditions, NEW c
    PROVE  Conditions(ctx.document, conditions, ctx.decisive, ctx.flat, c)
               = Judging!Left(ctx, With(~ctx.decisive, c), conditions)
BY Zenon DEF Conditions, Judging!Left, ConditionOp, FoldLeft, Judging!FoldLeft, MapThenFoldSet,
             Judging!MapThenFoldSet, Max, Judging!Max

\* The conditions with their slots, one by one.
LEMMA CachedConditionsOf ==
    ASSUME NEW conditions, AreCompiled(conditions), NEW slots
    PROVE  /\ Len(conditions) \in Nat /\ DOMAIN conditions = 1..Len(conditions)
           /\ DOMAIN CachedConditions(conditions, slots) = 1..Len(conditions)
           /\ \A k \in 1..Len(conditions) :
                 /\ IsPath(conditions[k].path)
                 /\ CachedConditions(conditions, slots)[k]
                       = [path |-> Cached(conditions[k].path, slots),
                          predicate |-> conditions[k].predicate,
                          comparison |-> conditions[k].comparison]
<1>1. Len(conditions) \in Nat /\ DOMAIN conditions = 1..Len(conditions)
  BY SequenceElim DEF AreCompiled
<1>2. DOMAIN CachedConditions(conditions, slots) = 1..Len(conditions)
  BY <1>1 DEF CachedConditions
<1>3. ASSUME NEW k \in 1..Len(conditions)
      PROVE  /\ IsPath(conditions[k].path)
             /\ CachedConditions(conditions, slots)[k]
                   = [path |-> Cached(conditions[k].path, slots),
                      predicate |-> conditions[k].predicate,
                      comparison |-> conditions[k].comparison]
  <2>1. PICK x : x = conditions[k]
    OBVIOUS
  <2>2. CachedConditions(conditions, slots)[k] = [x EXCEPT !.path = Cached(x.path, slots)]
    BY <1>1, <2>1, Zenon DEF CachedConditions
  <2>3. x = [path |-> x.path, predicate |-> x.predicate, comparison |-> x.comparison]
        /\ IsPath(x.path)
    BY <2>1 DEF AreCompiled
  <2>4. [x EXCEPT !.path = Cached(x.path, slots)]
          = [path |-> Cached(x.path, slots), predicate |-> x.predicate, comparison |-> x.comparison]
    BY <2>3
  <2> QED BY <2>1, <2>2, <2>3, <2>4
<1> QED BY <1>1, <1>2, <1>3

\* A condition with its slots holds of the values it holds of without.
LEMMA HoldsSame ==
    ASSUME NEW a, NEW b, a.predicate = b.predicate, a.comparison = b.comparison, NEW v
    PROVE  Holds(a, v) = Holds(b, v)
<1>1. Threshold(a) = Threshold(b)
  BY Zenon DEF Threshold
<1> QED BY <1>1, Zenon DEF Holds

\* The conditions of a rule are judged alike with and without slots.
LEMMA ConditionsAgree ==
    ASSUME NEW w, IsView(w), NEW conditions, AreCompiled(conditions), NEW decisive,
           NEW c, Fits(c, w.document, w.slots, w.flat), NEW x
    PROVE  Agree(w, Conditions(w.document, CachedConditions(conditions, w.slots), decisive, w.flat, c),
                 Conditions(w.document, conditions, decisive, w.flat, x))
<1> DEFINE n == Len(conditions)
           cached == CachedConditions(conditions, w.slots)
<1>1. /\ n \in Nat /\ DOMAIN conditions = 1..n /\ DOMAIN cached = 1..n
      /\ \A k \in 1..n : /\ IsPath(conditions[k].path)
                         /\ cached[k] = [path |-> Cached(conditions[k].path, w.slots),
                                         predicate |-> conditions[k].predicate,
                                         comparison |-> conditions[k].comparison]
  BY CachedConditionsOf
<1> HIDE DEF n, cached
<1>2. PICK ctx : ctx.document = w.document /\ ctx.decisive = decisive /\ ctx.flat = w.flat
  <2>1. LET r == [document |-> w.document, decisive |-> decisive, flat |-> w.flat] IN
        r.document = w.document /\ r.decisive = decisive /\ r.flat = w.flat
    OBVIOUS
  <2> QED BY <2>1
<1>3. Agree(w, With(~decisive, c), With(~decisive, x))
  <2>1. /\ With(~decisive, c).value = (~decisive) /\ With(~decisive, x).value = (~decisive)
        /\ With(~decisive, c).cache = c
    BY WithParts, Zenon
  <2> QED BY <2>1, Zenon DEF Agree
<1>4. ASSUME NEW k \in 1..n, NEW a, NEW b, Agree(w, a, b)
      PROVE  Agree(w, ConditionOp(ctx, a, cached[k]), ConditionOp(ctx, b, conditions[k]))
  <2>1. CASE a.value = decisive
    BY <1>2, <1>4, <2>1, Zenon DEF ConditionOp, Agree
  <2>2. CASE a.value # decisive
    <3> DEFINE ra == Evaluate(w.document, cached[k].path, w.flat, a.cache)
               rb == Evaluate(w.document, conditions[k].path, w.flat, b.cache)
    <3>1. /\ ConditionOp(ctx, a, cached[k]) = Judged(cached[k], ra)
          /\ ConditionOp(ctx, b, conditions[k]) = Judged(conditions[k], rb)
      BY <1>2, <1>4, <2>2, Zenon DEF ConditionOp, Agree
    <3>2. /\ cached[k].path = Cached(conditions[k].path, w.slots)
          /\ cached[k].predicate = conditions[k].predicate
          /\ cached[k].comparison = conditions[k].comparison
      BY <1>1
    <3>3. Agree(w, ra, rb)
      <4>1. Fits(a.cache, w.document, w.slots, w.flat) /\ IsPath(conditions[k].path)
        BY <1>1, <1>4 DEF Agree
      <4>2. Agree(w, Evaluate(w.document, Cached(conditions[k].path, w.slots), w.flat, a.cache), rb)
        BY <4>1, PathAgrees
      <4> QED BY <3>2, <4>2
    <3> HIDE DEF ra, rb
    <3>4. Holds(cached[k], ra.value) = Holds(conditions[k], rb.value)
      BY <3>2, <3>3, HoldsSame DEF Agree
    <3>5. Agree(w, Judged(cached[k], ra), Judged(conditions[k], rb))
      <4>1. /\ Judged(cached[k], ra).value = Holds(cached[k], ra.value)
            /\ Judged(cached[k], ra).cache = ra.cache
            /\ Judged(conditions[k], rb).value = Holds(conditions[k], rb.value)
        BY WithParts, Zenon DEF Judged
      <4> QED BY <3>3, <3>4, <4>1, Zenon DEF Agree
    <3> QED BY <3>1, <3>5, Zenon
  <2> QED BY <2>1, <2>2
<1>5. Judging!Keeps(w, ctx, ctx, cached, conditions, n)
  BY <1>4, Zenon DEF Judging!Keeps
<1>6. Agree(w, Judging!Left(ctx, With(~decisive, c), cached),
            Judging!Left(ctx, With(~decisive, x), conditions))
  BY <1>1, <1>3, <1>5, Judging!FoldsRelated
<1>7. /\ Conditions(w.document, cached, decisive, w.flat, c)
            = Judging!Left(ctx, With(~decisive, c), cached)
      /\ Conditions(w.document, conditions, decisive, w.flat, x)
            = Judging!Left(ctx, With(~decisive, x), conditions)
  <2>1. /\ Conditions(ctx.document, cached, ctx.decisive, ctx.flat, c)
              = Judging!Left(ctx, With(~ctx.decisive, c), cached)
        /\ Conditions(ctx.document, conditions, ctx.decisive, ctx.flat, x)
              = Judging!Left(ctx, With(~ctx.decisive, x), conditions)
    BY ConditionsOf
  <2> QED BY <1>2, <2>1, Zenon
<1> QED BY <1>6, <1>7, Zenon DEF cached

\* Conditions with their slots are empty when the conditions are.
LEMMA CachedConditionsEmpty ==
    ASSUME NEW conditions, AreCompiled(conditions), NEW slots
    PROVE  CachedConditions(conditions, slots) = <<>> <=> conditions = <<>>
<1> DEFINE n == Len(conditions)
           cached == CachedConditions(conditions, slots)
<1>1. n \in Nat /\ DOMAIN conditions = 1..n /\ DOMAIN cached = 1..n
  BY CachedConditionsOf
<1>2. IsSequence(conditions)
  BY DEF AreCompiled
<1>3. cached = [k \in 1..n |-> cached[k]]
  BY <1>1 DEF CachedConditions
<1> HIDE DEF n, cached
<1>4. IsSequence(cached)
  BY <1>1, <1>3, SequenceOf
<1>5. cached = <<>> => n = 0
  <2>1. cached # <<>> \/ DOMAIN cached = {}
    OBVIOUS
  <2> QED BY <1>1, <2>1
<1>6. conditions = <<>> => n = 0
  BY EmptySequence DEF n
<1>7. ASSUME NEW s, IsSequence(s), DOMAIN s = {} PROVE s = <<>>
  <2>1. s = <<>> \/ Len(s) \in 1..Len(s)
    BY <1>7, NonEmpty
  <2>2. DOMAIN s = 1..Len(s)
    BY <1>7, SequenceElim
  <2> QED BY <1>7, <2>1, <2>2
<1>8. n = 0 => DOMAIN conditions = {} /\ DOMAIN cached = {}
  BY <1>1
<1> QED BY <1>2, <1>4, <1>5, <1>6, <1>7, <1>8 DEF cached

\* Putting equal values on a fitting cache gives evaluations that agree.
LEMMA AgreeWith ==
    ASSUME NEW w, NEW a, NEW b, Agree(w, a, b)
    PROVE  \A v : Agree(w, With(v, a.cache), With(v, b.cache))
BY WithParts DEF Agree

IsRule(rule) ==
    /\ rule = [any |-> rule.any, all |-> rule.all, result |-> rule.result]
    /\ AreCompiled(rule.any) /\ AreCompiled(rule.all)

\* The two fields differ in their paths only.
LEMMA RuleAgrees ==
    ASSUME NEW w, IsView(w), NEW rule, IsRule(rule), NEW g, NEW f, g.enum_values = f.enum_values,
           NEW c, Fits(c, w.document, w.slots, w.flat), NEW x
    PROVE  LET cached == CachedRule(rule, w.slots) IN
           Agree(w, AfterAny(w.document, cached, g, w.flat,
                             Conditions(w.document, cached.any, TRUE, w.flat, c)),
                 AfterAny(w.document, rule, f, w.flat,
                          Conditions(w.document, rule.any, TRUE, w.flat, x)))
<1> DEFINE cached == CachedRule(rule, w.slots)
<1>1. /\ cached.any = CachedConditions(rule.any, w.slots)
      /\ cached.all = CachedConditions(rule.all, w.slots)
      /\ cached.result = rule.result
  <2>1. rule = [any |-> rule.any, all |-> rule.all, result |-> rule.result]
    BY DEF IsRule
  <2> QED BY <2>1 DEF CachedRule
<1> HIDE DEF cached
<1>2. PICK a : a = Conditions(w.document, cached.any, TRUE, w.flat, c)
  OBVIOUS
<1>3. PICK b : b = Conditions(w.document, rule.any, TRUE, w.flat, x)
  OBVIOUS
<1>4. Agree(w, a, b)
  <2>1. Agree(w, Conditions(w.document, CachedConditions(rule.any, w.slots), TRUE, w.flat, c),
              Conditions(w.document, rule.any, TRUE, w.flat, x))
    BY ConditionsAgree DEF IsRule
  <2> QED BY <1>1, <1>2, <1>3, <2>1, Zenon
<1>5. PICK a2 : a2 = Conditions(w.document, cached.all, FALSE, w.flat, a.cache)
  OBVIOUS
<1>6. PICK b2 : b2 = Conditions(w.document, rule.all, FALSE, w.flat, b.cache)
  OBVIOUS
<1>7. Agree(w, a2, b2)
  <2>0. Fits(a.cache, w.document, w.slots, w.flat)
    BY <1>4 DEF Agree
  <2>1. Agree(w, Conditions(w.document, CachedConditions(rule.all, w.slots), FALSE, w.flat, a.cache),
              Conditions(w.document, rule.all, FALSE, w.flat, b.cache))
    BY <2>0, ConditionsAgree DEF IsRule
  <2> QED BY <1>1, <1>5, <1>6, <2>1, Zenon
<1>8. (cached.any = <<>>) = (rule.any = <<>>)
  BY <1>1, CachedConditionsEmpty DEF IsRule
<1>9. /\ AfterAny(w.document, cached, g, w.flat, a)
            = RuleResult(cached, g, cached.any = <<>> \/ a.value, a2)
      /\ AfterAny(w.document, rule, f, w.flat, b)
            = RuleResult(rule, f, rule.any = <<>> \/ b.value, b2)
  BY <1>5, <1>6, Zenon DEF AfterAny
<1>10. (cached.any = <<>> \/ a.value) = (rule.any = <<>> \/ b.value)
  BY <1>4, <1>8, Zenon DEF Agree
<1>11. ASSUME NEW any
       PROVE Agree(w, RuleResult(cached, g, any, a2), RuleResult(rule, f, any, b2))
  <2>1. CASE any /\ b2.value /\ rule.result \in DOMAIN f.enum_values
    <3>1. /\ RuleResult(cached, g, any, a2) = With(IntTerm(f.enum_values[rule.result]), a2.cache)
          /\ RuleResult(rule, f, any, b2) = With(IntTerm(f.enum_values[rule.result]), b2.cache)
      BY <1>1, <1>7, <2>1, Zenon DEF RuleResult, Agree
    <3> QED BY <1>7, <3>1, AgreeWith, Zenon
  <2>2. CASE ~(any /\ b2.value /\ rule.result \in DOMAIN f.enum_values)
    <3>1. /\ RuleResult(cached, g, any, a2) = With(Nil, a2.cache)
          /\ RuleResult(rule, f, any, b2) = With(Nil, b2.cache)
      BY <1>1, <1>7, <2>2, Zenon DEF RuleResult, Agree
    <3> QED BY <1>7, <3>1, AgreeWith, Zenon
  <2> QED BY <2>1, <2>2
<1>12. Agree(w, RuleResult(cached, g, cached.any = <<>> \/ a.value, a2),
             RuleResult(rule, f, rule.any = <<>> \/ b.value, b2))
  BY <1>10, <1>11, Zenon
<1> QED BY <1>2, <1>3, <1>9, <1>12, Zenon DEF cached

-----------------------------------------------------------------------------
(* Inference and picking.                                                      *)

AreRules(rules) == IsSequence(rules) /\ \A k \in 1..Len(rules) : IsRule(rules[k])

RuleOp(ctx, acc, rule) ==
    IF acc.value # Nil THEN acc
    ELSE AfterAny(ctx.document, rule, ctx.field, ctx.flat,
                  Conditions(ctx.document, rule.any, TRUE, ctx.flat, acc.cache))
Inferring == INSTANCE FoldLemmas WITH Op <- RuleOp, Rel <- Agree

\* Inferring is a fold of RuleOp.
LEMMA InferRulesOf ==
    ASSUME NEW ctx, NEW c
    PROVE  InferRules(ctx.document, ctx.field, ctx.flat, c)
               = Inferring!Left(ctx, With(Nil, c), ctx.field.infer)
BY Zenon DEF InferRules, Inferring!Left, RuleOp, FoldLeft, Inferring!FoldLeft, MapThenFoldSet,
             Inferring!MapThenFoldSet, Max, Inferring!Max

\* The rules infer the same value with and without slots.
LEMMA InferAgrees ==
    ASSUME NEW w, IsView(w), NEW g, NEW f, g.enum_values = f.enum_values, AreRules(f.infer),
           g.infer = CachedRules(f.infer, w.slots),
           NEW c, Fits(c, w.document, w.slots, w.flat), NEW x
    PROVE  Agree(w, InferRules(w.document, g, w.flat, c), InferRules(w.document, f, w.flat, x))
<1> DEFINE n == Len(f.infer)
<1>1. n \in Nat /\ DOMAIN f.infer = 1..n /\ \A k \in 1..n : IsRule(f.infer[k])
  BY SequenceElim DEF AreRules
<1>2. DOMAIN g.infer = 1..n /\ \A k \in 1..n : g.infer[k] = CachedRule(f.infer[k], w.slots)
  BY <1>1 DEF CachedRules
<1> HIDE DEF n
<1>3. PICK gx : gx.document = w.document /\ gx.field = g /\ gx.flat = w.flat
  <2>1. LET r == [document |-> w.document, field |-> g, flat |-> w.flat] IN
        r.document = w.document /\ r.field = g /\ r.flat = w.flat
    OBVIOUS
  <2> QED BY <2>1
<1>4. PICK fx : fx.document = w.document /\ fx.field = f /\ fx.flat = w.flat
  <2>1. LET r == [document |-> w.document, field |-> f, flat |-> w.flat] IN
        r.document = w.document /\ r.field = f /\ r.flat = w.flat
    OBVIOUS
  <2> QED BY <2>1
<1>5. Agree(w, With(Nil, c), With(Nil, x))
  BY WithParts DEF Agree
<1>6. ASSUME NEW k \in 1..n, NEW a, NEW b, Agree(w, a, b)
      PROVE  Agree(w, RuleOp(gx, a, g.infer[k]), RuleOp(fx, b, f.infer[k]))
  <2>1. CASE a.value # Nil
    BY <1>6, <2>1, Zenon DEF RuleOp, Agree
  <2>2. CASE a.value = Nil
    <3>0. Fits(a.cache, w.document, w.slots, w.flat)
      BY <1>6 DEF Agree
    <3>1. Agree(w, AfterAny(w.document, CachedRule(f.infer[k], w.slots), g, w.flat,
                            Conditions(w.document, CachedRule(f.infer[k], w.slots).any, TRUE, w.flat,
                                       a.cache)),
                AfterAny(w.document, f.infer[k], f, w.flat,
                         Conditions(w.document, f.infer[k].any, TRUE, w.flat, b.cache)))
      BY <1>1, <3>0, RuleAgrees
    <3>2. /\ RuleOp(gx, a, g.infer[k])
                = AfterAny(w.document, g.infer[k], g, w.flat,
                           Conditions(w.document, g.infer[k].any, TRUE, w.flat, a.cache))
          /\ RuleOp(fx, b, f.infer[k])
                = AfterAny(w.document, f.infer[k], f, w.flat,
                           Conditions(w.document, f.infer[k].any, TRUE, w.flat, b.cache))
      BY <1>3, <1>4, <1>6, <2>2, Zenon DEF RuleOp, Agree
    <3>3. g.infer[k] = CachedRule(f.infer[k], w.slots)
      BY <1>2
    <3> QED BY <3>1, <3>2, <3>3, Zenon
  <2> QED BY <2>1, <2>2
<1>7. Inferring!Keeps(w, gx, fx, g.infer, f.infer, n)
  BY <1>6, Zenon DEF Inferring!Keeps
<1>8. Agree(w, Inferring!Left(gx, With(Nil, c), g.infer), Inferring!Left(fx, With(Nil, x), f.infer))
  BY <1>1, <1>2, <1>5, <1>7, Inferring!FoldsRelated
<1>9. /\ InferRules(w.document, g, w.flat, c) = Inferring!Left(gx, With(Nil, c), g.infer)
      /\ InferRules(w.document, f, w.flat, x) = Inferring!Left(fx, With(Nil, x), f.infer)
  <2>1. /\ InferRules(gx.document, gx.field, gx.flat, c)
              = Inferring!Left(gx, With(Nil, c), gx.field.infer)
        /\ InferRules(fx.document, fx.field, fx.flat, x)
              = Inferring!Left(fx, With(Nil, x), fx.field.infer)
    BY InferRulesOf
  <2> QED BY <1>3, <1>4, <2>1, Zenon
<1> QED BY <1>8, <1>9

ArePicks(pick) ==
    /\ IsSequence(pick)
    /\ \A k \in 1..Len(pick) : /\ ArePaths(pick[k].paths)
                               /\ pick[k] = [key |-> pick[k].key, paths |-> pick[k].paths]

PickOp(ctx, acc, entry) ==
    AddEntry(acc.value, entry.key,
             EvaluateFirst(ctx.document, entry.paths, NoOptions, ctx.flat, acc.cache))
Picking == INSTANCE FoldLemmas WITH Op <- PickOp, Rel <- Agree

\* Picking is a fold of PickOp.
LEMMA PickEntriesOf ==
    ASSUME NEW ctx, NEW pick, NEW c
    PROVE  PickEntries(ctx.document, pick, ctx.flat, c) = Picking!Left(ctx, With(<<>>, c), pick)
BY Zenon DEF PickEntries, Picking!Left, PickOp, FoldLeft, Picking!FoldLeft, MapThenFoldSet,
             Picking!MapThenFoldSet, Max, Picking!Max

\* Evaluations that agree add the same entry.
LEMMA AgreeAddEntry ==
    ASSUME NEW w, NEW entries, NEW key, NEW a, NEW b, Agree(w, a, b)
    PROVE  Agree(w, AddEntry(entries, key, a), AddEntry(entries, key, b))
<1>1. PICK v : v = IF b.value = Nil THEN entries ELSE Append(entries, Entry(key, b.value))
  OBVIOUS
<1>2. AddEntry(entries, key, a) = With(v, a.cache) /\ AddEntry(entries, key, b) = With(v, b.cache)
  BY <1>1, Zenon DEF AddEntry, Agree
<1> QED BY <1>2, AgreeWith, Zenon

\* pick gathers the same entries with and without slots.
LEMMA PickAgrees ==
    ASSUME NEW w, IsView(w), NEW pick, ArePicks(pick),
           NEW c, Fits(c, w.document, w.slots, w.flat), NEW x
    PROVE  Agree(w, PickEntries(w.document, CachedPicks(pick, w.slots), w.flat, c),
                 PickEntries(w.document, pick, w.flat, x))
<1> DEFINE n == Len(pick)
           cached == CachedPicks(pick, w.slots)
<1>1. n \in Nat /\ DOMAIN pick = 1..n
  BY SequenceElim DEF ArePicks
<1>2. DOMAIN cached = 1..n /\ \A k \in 1..n : cached[k] = CachedPick(pick[k], w.slots)
  BY <1>1 DEF CachedPicks
<1> HIDE DEF n, cached
<1>3. PICK ctx : ctx.document = w.document /\ ctx.flat = w.flat
  <2>1. LET r == [document |-> w.document, flat |-> w.flat] IN
        r.document = w.document /\ r.flat = w.flat
    OBVIOUS
  <2> QED BY <2>1
<1>4. Agree(w, With(<<>>, c), With(<<>>, x))
  BY WithParts DEF Agree
<1>5. ASSUME NEW k \in 1..n, NEW a, NEW b, Agree(w, a, b)
      PROVE  Agree(w, PickOp(ctx, a, cached[k]), PickOp(ctx, b, pick[k]))
  <2>1. PICK e : e = pick[k]
    OBVIOUS
  <2>2. ArePaths(e.paths) /\ e = [key |-> e.key, paths |-> e.paths]
    BY <2>1 DEF ArePicks, n
  <2>3. cached[k].key = e.key /\ cached[k].paths = CachedPaths(e.paths, w.slots)
    BY <1>2, <2>1, <2>2 DEF CachedPick
  <2>4. Fits(a.cache, w.document, w.slots, w.flat) /\ a.value = b.value
    BY <1>5 DEF Agree
  <2>5. PICK ra : ra = EvaluateFirst(w.document, CachedPaths(e.paths, w.slots), NoOptions, w.flat, a.cache)
    OBVIOUS
  <2>6. PICK rb : rb = EvaluateFirst(w.document, e.paths, NoOptions, w.flat, b.cache)
    OBVIOUS
  <2>7. Agree(w, ra, rb)
    BY <2>2, <2>4, <2>5, <2>6, FirstAgrees
  <2>8. /\ PickOp(ctx, a, cached[k]) = AddEntry(b.value, e.key, ra)
        /\ PickOp(ctx, b, pick[k]) = AddEntry(b.value, e.key, rb)
    BY <1>3, <2>1, <2>3, <2>4, <2>5, <2>6, Zenon DEF PickOp
  <2> QED BY <2>7, <2>8, AgreeAddEntry
<1>6. Picking!Keeps(w, ctx, ctx, cached, pick, n)
  BY <1>5, Zenon DEF Picking!Keeps
<1>7. Agree(w, Picking!Left(ctx, With(<<>>, c), cached), Picking!Left(ctx, With(<<>>, x), pick))
  BY <1>1, <1>2, <1>4, <1>6, Picking!FoldsRelated
<1>8. /\ PickEntries(w.document, cached, w.flat, c) = Picking!Left(ctx, With(<<>>, c), cached)
      /\ PickEntries(w.document, pick, w.flat, x) = Picking!Left(ctx, With(<<>>, x), pick)
  BY <1>3, PickEntriesOf
<1> QED BY <1>7, <1>8 DEF cached
-----------------------------------------------------------------------------
(* One field.                                                                  *)

IsField(f) ==
    /\ f.source[1] \in {"root", "path", "paths", "output"}
    /\ f.source[1] \in {"path", "paths"} => ArePaths(f.source[2])
    /\ f.source[1] = "path" => Len(f.source[2]) = 1
    /\ ArePicks(f.pick) /\ AreRules(f.infer)

\* The fields g and f differ in the slots of their paths only.
SamePlain(g, f) ==
    /\ g.name = f.name /\ g.type = f.type /\ g.precision = f.precision
    /\ g.default = f.default /\ g.transform = f.transform
    /\ g.allowed_values = f.allowed_values /\ g.value_map = f.value_map
    /\ g.exclude_keys = f.exclude_keys /\ g.elevate_keys = f.elevate_keys
    /\ g.pick_merge = f.pick_merge /\ g.options = f.options
    /\ g.enum_values = f.enum_values /\ g.filter_nil = f.filter_nil

SameField(g, f, slots) ==
    /\ SamePlain(g, f)
    /\ g.pick = CachedPicks(f.pick, slots) /\ g.infer = CachedRules(f.infer, slots)
    /\ g.source = IF f.source[1] \in {"path", "paths"}
                  THEN <<f.source[1], CachedPaths(f.source[2], slots)>> ELSE f.source

\* The source of a field resolves to the same value with and without slots.
LEMMA ResolveAgrees ==
    ASSUME NEW w, IsView(w), NEW f, IsField(f), NEW g, SameField(g, f, w.slots),
           NEW outputs, NEW c, Fits(c, w.document, w.slots, w.flat), NEW x
    PROVE  Agree(w, ResolveRaw(w.document, g, outputs, w.flat, c),
                 ResolveRaw(w.document, f, outputs, w.flat, x))
<1>0. /\ f.source[1] \in {"root", "path", "paths", "output"}
      /\ f.source[1] \in {"path", "paths"} => ArePaths(f.source[2])
      /\ f.source[1] = "path" => Len(f.source[2]) = 1
  BY DEF IsField
<1>1. SourceOptions(g) = SourceOptions(f)
  BY DEF SourceOptions, SameField, SamePlain
<1>2. g.source[1] = f.source[1]
  BY DEF SameField
<1>3. ASSUME NEW v PROVE Agree(w, With(v, c), With(v, x))
  BY WithParts DEF Agree
<1>4. CASE f.source[1] = "root"
  <2>1. /\ ResolveRaw(w.document, g, outputs, w.flat, c) = With(w.document, c)
        /\ ResolveRaw(w.document, f, outputs, w.flat, x) = With(w.document, x)
    BY <1>2, <1>4, Zenon DEF ResolveRaw
  <2> QED BY <1>3, <2>1
<1>5. CASE f.source[1] = "path"
  <2>0. g.source[2] = CachedPaths(f.source[2], w.slots)
    BY <1>5 DEF SameField
  <2>1. IsPath(f.source[2][1]) /\ g.source[2][1] = Cached(f.source[2][1], w.slots)
    <3>1. ArePaths(f.source[2]) /\ Len(f.source[2]) = 1
      BY <1>0, <1>5
    <3>2. \A k \in 1..Len(f.source[2]) :
             IsPath(f.source[2][k]) /\ CachedPaths(f.source[2], w.slots)[k] = Cached(f.source[2][k], w.slots)
      BY <3>1, CachedPathsOf
    <3> QED BY <2>0, <3>1, <3>2
  <2>2. "path" # "root"
    OBVIOUS
  <2>3. /\ ResolveRaw(w.document, g, outputs, w.flat, c)
               = Evaluate(w.document, g.source[2][1], w.flat, c)
        /\ ResolveRaw(w.document, f, outputs, w.flat, x)
               = Evaluate(w.document, f.source[2][1], w.flat, x)
    BY <1>2, <1>5, <2>2, Zenon DEF ResolveRaw
  <2>4. Agree(w, Evaluate(w.document, Cached(f.source[2][1], w.slots), w.flat, c),
              Evaluate(w.document, f.source[2][1], w.flat, x))
    BY <2>1, PathAgrees
  <2> QED BY <2>1, <2>3, <2>4
<1>6. CASE f.source[1] = "paths"
  <2>0. g.source[2] = CachedPaths(f.source[2], w.slots)
    BY <1>6 DEF SameField
  <2>1. "paths" # "root" /\ "paths" # "path"
    OBVIOUS
  <2>2. /\ ResolveRaw(w.document, g, outputs, w.flat, c)
               = EvaluateFirst(w.document, g.source[2], SourceOptions(g), w.flat, c)
        /\ ResolveRaw(w.document, f, outputs, w.flat, x)
               = EvaluateFirst(w.document, f.source[2], SourceOptions(f), w.flat, x)
    BY <1>2, <1>6, <2>1, Zenon DEF ResolveRaw
  <2>3. Agree(w, EvaluateFirst(w.document, CachedPaths(f.source[2], w.slots), SourceOptions(f), w.flat, c),
              EvaluateFirst(w.document, f.source[2], SourceOptions(f), w.flat, x))
    BY <1>0, <1>6, FirstAgrees
  <2> QED BY <1>1, <2>0, <2>2, <2>3
<1>7. CASE f.source[1] = "output"
  <2>0. g.source = f.source
    BY <1>7 DEF SameField
  <2>1. "output" # "root" /\ "output" # "path" /\ "output" # "paths"
    OBVIOUS
  <2>2. /\ ResolveRaw(w.document, g, outputs, w.flat, c) = With(outputs[f.source[2]], c)
        /\ ResolveRaw(w.document, f, outputs, w.flat, x) = With(outputs[f.source[2]], x)
    BY <1>7, <2>0, <2>1, Zenon DEF ResolveRaw
  <2> QED BY <1>3, <2>2
<1> QED BY <1>0, <1>4, <1>5, <1>6, <1>7

\* So does the source with its picks.
LEMMA ResolveValueAgrees ==
    ASSUME NEW w, IsView(w), NEW f, IsField(f), NEW g, SameField(g, f, w.slots),
           NEW outputs, NEW c, Fits(c, w.document, w.slots, w.flat), NEW x
    PROVE  Agree(w, ResolveValue(w.document, g, outputs, w.flat, c),
                 ResolveValue(w.document, f, outputs, w.flat, x))
<1>1. PICK a : a = ResolveRaw(w.document, g, outputs, w.flat, c)
  OBVIOUS
<1>2. PICK b : b = ResolveRaw(w.document, f, outputs, w.flat, x)
  OBVIOUS
<1>3. Agree(w, a, b)
  BY <1>1, <1>2, ResolveAgrees
<1>4. a.value = b.value /\ g.source[1] = f.source[1]
  BY <1>3 DEF Agree, SameField
<1>5. Agree(w, OrDefault(a, g), OrDefault(b, f))
  <2> DEFINE defaults == /\ f.type # "enum8"
                         /\ \/ f.source[1] # "root" /\ b.value = Nil
                            \/ ~Accepts(b.value, f.options)
  <2>0. g.type = f.type /\ g.options = f.options /\ g.default = f.default
    BY DEF SameField, SamePlain
  <2>1. CASE defaults
    <3>1. OrDefault(a, g) = With(f.default, a.cache) /\ OrDefault(b, f) = With(f.default, b.cache)
      BY <1>4, <2>0, <2>1, Zenon DEF OrDefault
    <3> QED BY <1>3, <3>1, AgreeWith, Zenon
  <2>2. CASE ~defaults
    <3>1. OrDefault(a, g) = a /\ OrDefault(b, f) = b
      BY <1>4, <2>0, <2>2, Zenon DEF OrDefault
    <3> QED BY <1>3, <3>1
  <2> QED BY <2>1, <2>2
<1> QED BY <1>1, <1>2, <1>5, Zenon DEF ResolveValue

\* Normalising depends on no slot.
LEMMA NormaliseSame ==
    ASSUME NEW g, NEW f, SamePlain(g, f), NEW v
    PROVE  Normalise(v, g) = Normalise(v, f)
<1>1. \A u : ApplyAllowedValues(u, g) = ApplyAllowedValues(u, f)
  BY Zenon DEF ApplyAllowedValues, SamePlain
<1>2. \A u : ApplyValueMap(u, g) = ApplyValueMap(u, f)
  BY Zenon DEF ApplyValueMap, SamePlain
<1> QED BY <1>1, <1>2, Zenon DEF Normalise, SamePlain

\* Defaults, enums and coercion give agreeing evaluations the same value.
LEMMA CompleteAgrees ==
    ASSUME NEW w, IsView(w), NEW f, IsField(f), NEW g, SameField(g, f, w.slots),
           NEW v, NEW c, Fits(c, w.document, w.slots, w.flat), NEW x
    PROVE  Agree(w, Complete(w.document, g, v, w.flat, c), Complete(w.document, f, v, w.flat, x))
<1>0. /\ g.type = f.type /\ g.enum_values = f.enum_values /\ g.default = f.default
      /\ g.pick_merge = f.pick_merge
  BY DEF SameField, SamePlain
<1>1. \A u : Agree(w, With(u, c), With(u, x))
  BY WithParts DEF Agree
<1>2. CASE f.type = "enum8"
  <2>1. /\ Complete(w.document, g, v, w.flat, c) = ResolveEnum8(w.document, g, v, w.flat, c)
        /\ Complete(w.document, f, v, w.flat, x) = ResolveEnum8(w.document, f, v, w.flat, x)
    BY <1>0, <1>2, Zenon DEF Complete
  <2>2. CASE Listed(v, f.enum_values)
    <3>1. Listed(v, g.enum_values) /\ Looked(v, g.enum_values) = Looked(v, f.enum_values)
      BY <1>0, <2>2
    <3>2. ~IsEnumValue(v, g) /\ ~IsEnumValue(v, f)
      BY <2>2 DEF Listed, IsEnumValue, IsStr, IsInt
    <3>3. ResolveEnum8(w.document, g, v, w.flat, c) = With(IntTerm(Looked(v, f.enum_values)), c)
      <4>1. ResolveEnum8(w.document, g, v, w.flat, c) = With(IntTerm(Looked(v, g.enum_values)), c)
        BY <3>1, <3>2, Zenon DEF ResolveEnum8
      <4> QED BY <3>1, <4>1
    <3>4. ResolveEnum8(w.document, f, v, w.flat, x) = With(IntTerm(Looked(v, f.enum_values)), x)
      BY <2>2, <3>2, Zenon DEF ResolveEnum8
    <3> QED BY <1>1, <2>1, <3>3, <3>4, Zenon
  <2>3. IsEnumValue(v, g) = IsEnumValue(v, f)
    BY <1>0, Zenon DEF IsEnumValue, EnumValues
  <2>4. CASE ~Listed(v, f.enum_values) /\ IsEnumValue(v, f)
    <3>1. /\ ResolveEnum8(w.document, g, v, w.flat, c) = With(v, c)
          /\ ResolveEnum8(w.document, f, v, w.flat, x) = With(v, x)
      BY <1>0, <2>3, <2>4, Zenon DEF ResolveEnum8
    <3> QED BY <1>1, <2>1, <3>1, Zenon
  <2>5. CASE ~Listed(v, f.enum_values) /\ ~IsEnumValue(v, f)
    <3>1. PICK a : a = InferRules(w.document, g, w.flat, c)
      OBVIOUS
    <3>2. PICK b : b = InferRules(w.document, f, w.flat, x)
      OBVIOUS
    <3>3. Agree(w, a, b)
      <4>1. AreRules(f.infer) /\ g.infer = CachedRules(f.infer, w.slots)
        BY DEF IsField, SameField
      <4> QED BY <1>0, <3>1, <3>2, <4>1, InferAgrees
    <3>4. /\ ResolveEnum8(w.document, g, v, w.flat, c) = Inferred(a, g)
          /\ ResolveEnum8(w.document, f, v, w.flat, x) = Inferred(b, f)
      BY <1>0, <2>3, <2>5, <3>1, <3>2, Zenon DEF ResolveEnum8
    <3>5. PICK u : u = IF b.value = Nil THEN f.default ELSE b.value
      OBVIOUS
    <3>6. Inferred(a, g) = With(u, a.cache) /\ Inferred(b, f) = With(u, b.cache)
      BY <1>0, <3>3, <3>5, Zenon DEF Inferred, Agree
    <3> QED BY <2>1, <3>3, <3>4, <3>6, AgreeWith, Zenon
  <2> QED BY <2>2, <2>4, <2>5
<1>3. CASE f.type \in {"json", "flat_map"}
  <2>0. f.type # "enum8"
    BY <1>3
  <2>1. PICK a : a = PickEntries(w.document, g.pick, w.flat, c)
    OBVIOUS
  <2>2. PICK b : b = PickEntries(w.document, f.pick, w.flat, x)
    OBVIOUS
  <2>3. Agree(w, a, b)
    <3>1. ArePicks(f.pick) /\ g.pick = CachedPicks(f.pick, w.slots)
      BY DEF IsField, SameField
    <3>2. Agree(w, PickEntries(w.document, CachedPicks(f.pick, w.slots), w.flat, c), b)
      BY <2>2, <3>1, PickAgrees
    <3> QED BY <2>1, <3>1, <3>2
  <2>4. /\ Complete(w.document, g, v, w.flat, c) = Selected(a, g, v)
        /\ Complete(w.document, f, v, w.flat, x) = Selected(b, f, v)
    BY <1>0, <1>3, <2>0, <2>1, <2>2, Zenon DEF Complete, SelectJsonValue
  <2>5. PICK u : u = PickOver(b.value, f, v)
    OBVIOUS
  <2>6. PickOver(a.value, g, v) = u
    BY <1>0, <2>3, <2>5, Zenon DEF PickOver, Agree
  <2>7. Selected(a, g, v) = With(u, a.cache) /\ Selected(b, f, v) = With(u, b.cache)
    BY <2>5, <2>6, Zenon DEF Selected
  <2> QED BY <2>3, <2>4, <2>7, AgreeWith, Zenon
<1>4. CASE f.type # "enum8" /\ f.type \notin {"json", "flat_map"}
  <2>1. /\ Complete(w.document, g, v, w.flat, c) = With(v, c)
        /\ Complete(w.document, f, v, w.flat, x) = With(v, x)
    BY <1>0, <1>4, Zenon DEF Complete
  <2> QED BY <1>1, <2>1, Zenon
<1> QED BY <1>2, <1>3, <1>4

\* Flattening in one pass depends on no slot.
LEMMA OnePassSame ==
    ASSUME NEW g, NEW f, SamePlain(g, f), NEW map
    PROVE  OnePassEntries(map, g) = OnePassEntries(map, f)
<1>0. g.exclude_keys = f.exclude_keys /\ g.elevate_keys = f.elevate_keys
  BY DEF SamePlain
<1>1. \A key : TopLevelWins(map, key, g) = TopLevelWins(map, key, f)
  BY <1>0, Zenon DEF TopLevelWins
<1>2. \A children : ElevatedEntries(map, g, children) = ElevatedEntries(map, f, children)
  <2> SUFFICES ASSUME NEW children
               PROVE  ElevatedEntries(map, g, children) = ElevatedEntries(map, f, children)
    OBVIOUS
  <2> DEFINE chosen(h) == [k \in DOMAIN Keys(children) |->
                              IF TopLevelWins(map, Keys(children)[k], h) THEN <<>>
                              ELSE FlattenEntry(Keys(children)[k], children[Keys(children)[k]])]
  <2>1. chosen(g) = chosen(f)
    BY <1>1
  <2>2. /\ ElevatedEntries(map, g, children) = FlattenSeq(chosen(g))
        /\ ElevatedEntries(map, f, children) = FlattenSeq(chosen(f))
    BY Zenon DEF ElevatedEntries
  <2> HIDE DEF chosen
  <2> QED BY <2>1, <2>2
<1>3. \A key : OnePassEntry(map, g, key) = OnePassEntry(map, f, key)
  <2> SUFFICES ASSUME NEW key PROVE OnePassEntry(map, g, key) = OnePassEntry(map, f, key)
    OBVIOUS
  <2>1. CASE Contains(f.exclude_keys, key)
    BY <1>0, <2>1, Zenon DEF OnePassEntry
  <2>2. CASE ~Contains(f.exclude_keys, key) /\ IsElevated(map, key, f.elevate_keys)
    BY <1>0, <1>2, <2>2, Zenon DEF OnePassEntry
  <2>3. CASE ~Contains(f.exclude_keys, key) /\ ~IsElevated(map, key, f.elevate_keys)
    BY <1>0, <2>3, Zenon DEF OnePassEntry
  <2> QED BY <2>1, <2>2, <2>3
<1> DEFINE entries(h) == [k \in DOMAIN Keys(map) |-> OnePassEntry(map, h, Keys(map)[k])]
<1>4. entries(g) = entries(f)
  BY <1>3
<1>5. /\ OnePassEntries(map, g) = FlattenSeq(entries(g))
      /\ OnePassEntries(map, f) = FlattenSeq(entries(f))
  BY Zenon DEF OnePassEntries
<1> HIDE DEF entries
<1> QED BY <1>4, <1>5

\* Shaping a json or flat_map value depends on no slot.
LEMMA ShapeSame ==
    ASSUME NEW g, NEW f, SamePlain(g, f), NEW v, NEW flat
    PROVE  Shape(v, g, flat) = Shape(v, f, flat)
<1>0. /\ g.exclude_keys = f.exclude_keys /\ g.elevate_keys = f.elevate_keys
      /\ g.type = f.type /\ g.precision = f.precision
  BY DEF SamePlain
<1>1. \A u : ApplyJsonOperations(u, g) = ApplyJsonOperations(u, f)
  BY <1>0, Zenon DEF ApplyJsonOperations
<1>2. \A u : ApplyJsonOperationsFlat(u, g) = ApplyJsonOperationsFlat(u, f)
  BY <1>0, Zenon DEF ApplyJsonOperationsFlat
<1>3. FlattenField(v, g) = FlattenField(v, f)
  <2>1. OnePassEntries(v[2], g) = OnePassEntries(v[2], f)
    BY OnePassSame
  <2>2. \A entries : UnlessRepeated(entries, v, g) = UnlessRepeated(entries, v, f)
    BY <1>1, Zenon DEF UnlessRepeated
  <2> QED BY <2>1, <2>2, Zenon DEF FlattenField
<1>4. CASE f.type = "json"
  BY <1>0, <1>1, <1>2, <1>4, Zenon DEF Shape
<1>5. CASE f.type = "flat_map"
  <2>1. "flat_map" # "json"
    OBVIOUS
  <2> QED BY <1>0, <1>2, <1>3, <1>5, <2>1, Zenon DEF Shape
<1>6. CASE f.type # "json" /\ f.type # "flat_map"
  BY <1>0, <1>6, Zenon DEF Shape
<1> QED BY <1>4, <1>5, <1>6

KeptOp(field, kept, v) ==
    IF KeepsElement(v, field) THEN Append(kept, CoerceArrayElement(v, field)) ELSE kept
Keeping == INSTANCE FoldLemmas WITH Op <- KeptOp, Rel <- Same

\* Coercing the elements of an array depends on no slot.
LEMMA ElementsSame ==
    ASSUME NEW g, NEW f, SamePlain(g, f), NEW items
    PROVE  CoerceElements(items, g) = CoerceElements(items, f)
<1>0. g.type = f.type /\ g.precision = f.precision /\ g.filter_nil = f.filter_nil
  BY DEF SamePlain
<1>1. \A v : KeepsElement(v, g) = KeepsElement(v, f)
  BY <1>0, Zenon DEF KeepsElement
<1>2. \A v : CoerceArrayElement(v, g) = CoerceArrayElement(v, f)
  <2> SUFFICES ASSUME NEW v PROVE CoerceArrayElement(v, g) = CoerceArrayElement(v, f)
    OBVIOUS
  <2>1. CASE v = Nil
    BY <1>0, <2>1, Zenon DEF CoerceArrayElement
  <2>2. CASE v # Nil /\ f.type = "array_flat_map"
    BY <1>0, <2>2, Zenon DEF CoerceArrayElement
  <2>3. CASE v # Nil /\ f.type # "array_flat_map"
    BY <1>0, <2>3, Zenon DEF CoerceArrayElement
  <2> QED BY <2>1, <2>2, <2>3
<1>3. \A kept, v : KeptOp(g, kept, v) = KeptOp(f, kept, v)
  BY <1>1, <1>2, Zenon DEF KeptOp
<1>4. Keeping!Left(g, <<>>, items) = Keeping!Left(f, <<>>, items)
  BY <1>3, Keeping!SameChoice
<1>5. \A h : CoerceElements(items, h) = ListTerm(Keeping!Left(h, <<>>, items))
  BY Zenon DEF CoerceElements, Keeping!Left, KeptOp, FoldLeft, Keeping!FoldLeft, MapThenFoldSet,
               Keeping!MapThenFoldSet, Max, Keeping!Max
<1> QED BY <1>4, <1>5

\* The part of a path in front of its first wildcard keeps its slots.
LEMMA UpToWildcardFits ==
    ASSUME NEW p, IsPath(p), p.wildcard # 0, NEW slots, IsSequence(slots)
    PROVE  LET q == UpToWildcard(Cached(p, slots)) r == UpToWildcard(p) IN
           /\ AreSegments(r.segments) /\ q.segments = r.segments /\ q.flat_key = r.flat_key
           /\ IndicesFit(r.segments, q.cache_indices, slots)
           /\ r.cache_indices = [k \in 1..Len(r.segments) |-> 0]
           /\ AfterWildcard(Cached(p, slots)) = AfterWildcard(p)
<1> DEFINE q == UpToWildcard(Cached(p, slots))
           r == UpToWildcard(p)
           z == Cached(p, slots)
           m == p.wildcard - 1
<1>0. /\ Len(p.segments) \in Nat /\ p.wildcard \in 0..Len(p.segments) /\ m \in 0..Len(p.segments)
      /\ IsSequence(p.segments) /\ AreSegments(p.segments)
      /\ \A k \in 1..m : k \in 1..Len(p.segments)
  BY SequenceElim DEF AreSegments, IsPath
<1>1. /\ z.segments = p.segments /\ z.wildcard = p.wildcard /\ z.flat_key = p.flat_key
      /\ IndicesFit(p.segments, z.cache_indices, slots)
  BY CachedPath
<1>2. z = [segments |-> p.segments, wildcard |-> p.wildcard, flat_key |-> p.flat_key,
           cache_indices |-> z.cache_indices]
  <2>1. p = [segments |-> p.segments, wildcard |-> p.wildcard, flat_key |-> p.flat_key,
             cache_indices |-> p.cache_indices]
    BY DEF IsPath
  <2>2. PICK i : i = CacheIndices(p, CacheablePrefixes(p), slots)
    OBVIOUS
  <2>3. z = [p EXCEPT !.cache_indices = i]
    BY <2>2, Zenon DEF Cached
  <2> HIDE DEF z
  <2> QED BY <2>1, <2>3
<1> HIDE DEF z
<1>3. /\ q.segments = SubSeq(p.segments, 1, m) /\ q.flat_key = p.flat_key
      /\ q.cache_indices = SubSeq(z.cache_indices, 1, m)
  <2>1. q = [z EXCEPT !.segments = SubSeq(z.segments, 1, z.wildcard - 1),
                      !.cache_indices = SubSeq(z.cache_indices, 1, z.wildcard - 1)]
    BY DEF UpToWildcard, z
  <2> HIDE DEF q
  <2> QED BY <1>1, <1>2, <2>1
<1>4. /\ r.segments = SubSeq(p.segments, 1, m) /\ r.flat_key = p.flat_key
      /\ r.cache_indices = SubSeq(p.cache_indices, 1, m)
  <2>1. r = [p EXCEPT !.segments = SubSeq(p.segments, 1, p.wildcard - 1),
                      !.cache_indices = SubSeq(p.cache_indices, 1, p.wildcard - 1)]
    BY DEF UpToWildcard
  <2> HIDE DEF r
  <2> QED BY <2>1 DEF IsPath
<1> HIDE DEF q, r, m
<1> DEFINE s == SubSeq(p.segments, 1, m)
<1>5. IsSequence(s) /\ Len(s) = m /\ DOMAIN s = 1..m /\ \A k \in 1..m : s[k] = p.segments[k]
  BY <1>0, PrefixOf
<1>6. AreSegments(s)
  <2> HIDE DEF s
  <2> QED BY <1>0, <1>5 DEF AreSegments
<1>7. \A k \in 1..m : SubSeq(s, 1, k) = SubSeq(p.segments, 1, k)
  <2>1. p.segments \in Seq(ToSet(p.segments))
    BY <1>0 DEF IsSequence
  <2> QED BY <1>0, <2>1
<1>8. /\ DOMAIN SubSeq(z.cache_indices, 1, m) = 1..m
      /\ \A k \in 1..m : SubSeq(z.cache_indices, 1, m)[k] = z.cache_indices[k]
  <2>1. SubSeq(z.cache_indices, 1, m) = [k \in 1..m |-> z.cache_indices[k]]
    <3>1. m \in Nat
      BY <1>0
    <3>2. SubSeq(z.cache_indices, 1, m) = [k \in 1..(1 + m - 1) |-> z.cache_indices[1 + k - 1]]
      BY <3>1
    <3> QED BY <3>1, <3>2
  <2> QED BY <2>1
<1>9. SubSeq(p.cache_indices, 1, m) = [k \in 1..m |-> 0]
  <2>1. p.cache_indices = [k \in 1..Len(p.segments) |-> 0]
    BY DEF IsPath
  <2> QED BY <1>0, <2>1
<1> HIDE DEF s
<1>10. IndicesFit(s, SubSeq(z.cache_indices, 1, m), slots)
  <2> DEFINE i == SubSeq(z.cache_indices, 1, m)
  <2>1. DOMAIN i = 1..Len(s)
    BY <1>5, <1>8
  <2>2. ASSUME NEW k \in 1..Len(s), i[k] # 0
        PROVE  /\ i[k] \in 1..Len(slots) /\ slots[i[k]] = SubSeq(s, 1, k)
               /\ NoWildcard(s, k)
    <3>1. k \in 1..m /\ k \in 1..Len(p.segments) /\ i[k] = z.cache_indices[k]
      BY <1>0, <1>5, <1>8
    <3>2. /\ i[k] \in 1..Len(slots) /\ slots[i[k]] = SubSeq(p.segments, 1, k)
          /\ NoWildcard(p.segments, k)
      BY <1>1, <2>2, <3>1 DEF IndicesFit
    <3>3. \A j \in 1..k : j \in 1..m
      BY <1>0, <3>1
    <3> QED BY <1>5, <1>7, <3>1, <3>2, <3>3 DEF NoWildcard
  <2> HIDE DEF i
  <2>3. IndicesFit(s, i, slots)
    BY <2>1, <2>2 DEF IndicesFit
  <2> QED BY <2>3 DEF i
<1>11. AfterWildcard(z) = AfterWildcard(p)
  BY <1>1 DEF AfterWildcard
<1>12. /\ AreSegments(r.segments) /\ q.segments = r.segments /\ q.flat_key = r.flat_key
       /\ IndicesFit(r.segments, q.cache_indices, slots)
       /\ r.cache_indices = [k \in 1..Len(r.segments) |-> 0]
  BY <1>3, <1>4, <1>5, <1>6, <1>9, <1>10 DEF s
<1> QED BY <1>11, <1>12 DEF q, r, z

\* The fan-out of an array reads the same list with and without slots.
LEMMA FanOutAgrees ==
    ASSUME NEW w, IsView(w), ~w.flat, NEW p, IsPath(p), p.wildcard # 0, NEW g, NEW f, SamePlain(g, f),
           NEW c, Fits(c, w.document, w.slots, w.flat), NEW x
    PROVE  Agree(w, EvaluateWildcardMapped(w.document, Cached(p, w.slots), g, c),
                 EvaluateWildcardMapped(w.document, p, f, x))
<1> DEFINE z == Cached(p, w.slots)
<1>0. w.flat = FALSE /\ IsSequence(w.slots)
  BY DEF IsView
<1>1. PICK q : q = UpToWildcard(z)
  OBVIOUS
<1>2. PICK r : r = UpToWildcard(p)
  OBVIOUS
<1>3. /\ AreSegments(r.segments) /\ q.segments = r.segments /\ q.flat_key = r.flat_key
      /\ IndicesFit(r.segments, q.cache_indices, w.slots)
      /\ r.cache_indices = [k \in 1..Len(r.segments) |-> 0]
      /\ AfterWildcard(z) = AfterWildcard(p)
  BY <1>0, <1>1, <1>2, UpToWildcardFits
<1> HIDE DEF z
<1>4. PICK a : a = Evaluate(w.document, q, FALSE, c)
  OBVIOUS
<1>5. PICK b : b = Evaluate(w.document, r, FALSE, x)
  OBVIOUS
<1>7. Agree(w, a, b)
  <2>1. /\ Evaluate(w.document, q, w.flat, c).value = PathValue(w.document, q, w.flat)
        /\ Fits(Evaluate(w.document, q, w.flat, c).cache, w.document, w.slots, w.flat)
    <3>1. /\ AreSegments(q.segments) /\ IndicesFit(q.segments, q.cache_indices, w.slots)
      BY <1>3
    <3> QED BY <3>1, CachedRun
  <2>2. Evaluate(w.document, r, w.flat, x) = With(PathValue(w.document, r, w.flat), x)
    BY <1>3, PlainPath DEF AreSegments
  <2>3. PathValue(w.document, q, w.flat) = PathValue(w.document, r, w.flat)
    BY <1>3, Zenon DEF PathValue
  <2>4. /\ a = Evaluate(w.document, q, w.flat, c)
        /\ b = Evaluate(w.document, r, w.flat, x)
    BY <1>0, <1>4, <1>5
  <2>5. b.value = PathValue(w.document, r, w.flat)
    BY <2>2, <2>4, WithParts, Zenon
  <2> QED BY <2>1, <2>3, <2>4, <2>5 DEF Agree
<1>8. PICK u : u = IF IsList(b.value)
                   THEN CoerceElements(Elements(b.value[2], AfterWildcard(p)), f) ELSE ListTerm(<<>>)
  OBVIOUS
<1>9. \A items : CoerceElements(items, g) = CoerceElements(items, f)
  BY ElementsSame
<1>10. FanOut(a, z, g) = With(u, a.cache) /\ FanOut(b, p, f) = With(u, b.cache)
  <2>1. FanOut(b, p, f) = With(u, b.cache)
    BY <1>8, Zenon DEF FanOut
  <2>2. FanOut(a, z, g) = With(IF IsList(a.value)
                               THEN CoerceElements(Elements(a.value[2], AfterWildcard(z)), g)
                               ELSE ListTerm(<<>>), a.cache)
    BY Zenon DEF FanOut
  <2>3. a.value = b.value
    BY <1>7 DEF Agree
  <2>4. CASE IsList(b.value)
    <3>1. u = CoerceElements(Elements(b.value[2], AfterWildcard(p)), f)
      BY <1>8, <2>4
    <3>2. FanOut(a, z, g) = With(CoerceElements(Elements(a.value[2], AfterWildcard(z)), g), a.cache)
      BY <2>2, <2>3, <2>4
    <3> QED BY <1>3, <1>9, <2>1, <2>3, <3>1, <3>2
  <2>5. CASE ~IsList(b.value)
    BY <1>8, <2>1, <2>2, <2>3, <2>5
  <2> QED BY <2>4, <2>5
<1>11. /\ EvaluateWildcardMapped(w.document, z, g, c) = FanOut(a, z, g)
       /\ EvaluateWildcardMapped(w.document, p, f, x) = FanOut(b, p, f)
  BY <1>1, <1>2, <1>4, <1>5, Zenon DEF EvaluateWildcardMapped
<1> QED BY <1>7, <1>10, <1>11, AgreeWith, Zenon DEF z

\* A field with its slots maps to the value of the field without any, and leaves
\* a cache of the document.
LEMMA FieldAgrees ==
    ASSUME NEW w, IsView(w), NEW f, IsField(f), NEW g, SameField(g, f, w.slots),
           NEW outputs, NEW c, Fits(c, w.document, w.slots, w.flat), NEW x
    PROVE  Agree(w, MapField(w.document, g, outputs, w.flat, c),
                 MapField(w.document, f, outputs, w.flat, x))
<1>0. SamePlain(g, f) /\ g.type = f.type
  BY DEF SameField, SamePlain
<1>1. PICK a : a = ResolveValue(w.document, g, outputs, w.flat, c)
  OBVIOUS
<1>2. PICK b : b = ResolveValue(w.document, f, outputs, w.flat, x)
  OBVIOUS
<1>3. Agree(w, a, b)
  BY <1>1, <1>2, ResolveValueAgrees
<1>4. a.value = b.value /\ Fits(a.cache, w.document, w.slots, w.flat)
  BY <1>3 DEF Agree
<1>5. CASE f.type \notin ArrayTypes
  <2>1. /\ MapField(w.document, g, outputs, w.flat, c) = MapFound(w.document, g, a, w.flat)
        /\ MapField(w.document, f, outputs, w.flat, x) = MapFound(w.document, f, b, w.flat)
    BY <1>0, <1>1, <1>2, <1>5, Zenon DEF MapField, MapScalar
  <2>2. PICK v : v = Normalise(b.value, f)
    OBVIOUS
  <2>3. Normalise(a.value, g) = v
    BY <1>0, <1>4, <2>2, NormaliseSame
  <2>4. PICK ca : ca = Complete(w.document, g, v, w.flat, a.cache)
    OBVIOUS
  <2>5. PICK cb : cb = Complete(w.document, f, v, w.flat, b.cache)
    OBVIOUS
  <2>6. Agree(w, ca, cb)
    BY <1>4, <2>4, <2>5, CompleteAgrees
  <2>7. PICK u : u = Shape(cb.value, f, w.flat)
    OBVIOUS
  <2>8. Shape(ca.value, g, w.flat) = u
    BY <1>0, <2>6, <2>7, ShapeSame DEF Agree
  <2>9. /\ MapFound(w.document, g, a, w.flat) = With(u, ca.cache)
        /\ MapFound(w.document, f, b, w.flat) = With(u, cb.cache)
    BY <2>2, <2>3, <2>4, <2>5, <2>7, <2>8, Zenon DEF MapFound, Shaped
  <2> QED BY <2>1, <2>6, <2>9, AgreeWith, Zenon
<1>6. FansOut(g, w.flat) = FansOut(f, w.flat) /\ (FansOut(f, w.flat) =>
          /\ IsPath(f.source[2][1]) /\ g.source[2][1] = Cached(f.source[2][1], w.slots)
          /\ f.source[2][1].wildcard # 0 /\ ~w.flat)
  <2>1. g.source[1] = f.source[1]
    BY DEF SameField
  <2>2. CASE f.source[1] # "path"
    BY <2>1, <2>2, Zenon DEF FansOut
  <2>3. CASE f.source[1] = "path"
    <3>1. ArePaths(f.source[2]) /\ Len(f.source[2]) = 1
      BY <2>3 DEF IsField
    <3>2. \A k \in 1..Len(f.source[2]) :
             IsPath(f.source[2][k]) /\ CachedPaths(f.source[2], w.slots)[k] = Cached(f.source[2][k], w.slots)
      BY <3>1, CachedPathsOf
    <3>3. g.source[2] = CachedPaths(f.source[2], w.slots)
      BY <2>3 DEF SameField
    <3>4. IsPath(f.source[2][1]) /\ g.source[2][1] = Cached(f.source[2][1], w.slots)
      BY <3>1, <3>2, <3>3
    <3>5. Cached(f.source[2][1], w.slots).wildcard = f.source[2][1].wildcard
      BY <3>4, CachedPath DEF IsView
    <3>6. g.source[2][1].wildcard = f.source[2][1].wildcard
      BY <3>4, <3>5
    <3> QED BY <2>1, <3>4, <3>6, Zenon DEF FansOut
  <2> QED BY <2>2, <2>3
<1>7. CASE f.type \in ArrayTypes /\ FansOut(f, w.flat)
  <2>1. /\ MapField(w.document, g, outputs, w.flat, c)
               = EvaluateWildcardMapped(w.document, g.source[2][1], g, c)
        /\ MapField(w.document, f, outputs, w.flat, x)
               = EvaluateWildcardMapped(w.document, f.source[2][1], f, x)
    BY <1>0, <1>6, <1>7, Zenon DEF MapField
  <2>2. PICK p : p = f.source[2][1]
    OBVIOUS
  <2>3. Agree(w, EvaluateWildcardMapped(w.document, Cached(p, w.slots), g, c),
              EvaluateWildcardMapped(w.document, p, f, x))
    BY <1>0, <1>6, <1>7, <2>2, FanOutAgrees
  <2> QED BY <1>6, <1>7, <2>1, <2>2, <2>3
<1>8. CASE f.type \in ArrayTypes /\ ~FansOut(f, w.flat)
  <2>1. /\ MapField(w.document, g, outputs, w.flat, c) = CoerceFound(a, g)
        /\ MapField(w.document, f, outputs, w.flat, x) = CoerceFound(b, f)
    BY <1>0, <1>1, <1>2, <1>6, <1>8, Zenon DEF MapField, MapArray
  <2>2. PICK u : u = CoerceArray(b.value, f)
    OBVIOUS
  <2>3. CoerceArray(a.value, g) = u
    BY <1>0, <1>4, <2>2, ElementsSame DEF CoerceArray
  <2>4. CoerceFound(a, g) = With(u, a.cache) /\ CoerceFound(b, f) = With(u, b.cache)
    BY <2>2, <2>3, Zenon DEF CoerceFound
  <2> QED BY <1>3, <2>1, <2>4, AgreeWith, Zenon
<1> QED BY <1>5, <1>7, <1>8
-----------------------------------------------------------------------------
(* Fields as the compiler makes them.                                          *)

\* A path string that is not empty compiles to a path.
LEMMA CompiledAccepted ==
    ASSUME NEW tokens \in Seq(STRING), tokens # <<>>
    PROVE  IsPath(CompilePath(tokens))
<1>1. IsSequence(tokens)
  BY SequenceIntro
<1> QED BY <1>1, CompiledPathAt

\* So do all paths of a list.
LEMMA CompiledPaths ==
    ASSUME NEW paths \in Seq(Seq(STRING)), \A p \in ToSet(paths) : ParsesPath(p)
    PROVE  ArePaths(CompilePaths(paths))
<1> DEFINE n == Len(paths)
           s == CompilePaths(paths)
<1>1. n \in Nat /\ DOMAIN paths = 1..n /\ \A k \in 1..n : paths[k] \in Seq(STRING)
  OBVIOUS
<1>2. \A k \in 1..n : paths[k] # <<>>
  BY <1>1 DEF ToSet, ParsesPath
<1>3. s = [k \in 1..n |-> CompilePath(paths[k])]
  BY <1>1 DEF CompilePaths
<1> HIDE DEF s, n
<1>4. s = [k \in 1..n |-> s[k]]
  BY <1>3
<1>5. IsSequence(s) /\ Len(s) = n
  BY <1>1, <1>4, SequenceOf
<1>6. \A k \in 1..n : IsPath(s[k])
  <2> SUFFICES ASSUME NEW k \in 1..n PROVE IsPath(s[k])
    OBVIOUS
  <2>1. IsPath(CompilePath(paths[k]))
    BY <1>1, <1>2, CompiledAccepted
  <2> QED BY <1>3, <2>1
<1> QED BY <1>5, <1>6 DEF ArePaths, s

\* And the paths of conditions.
LEMMA CompiledConditions ==
    ASSUME NEW conditions, AreConditions(conditions),
           \A k \in DOMAIN conditions : ConditionAccepted(conditions[k])
    PROVE  AreCompiled(CompileConditions(conditions))
<1> DEFINE n == Len(conditions)
           s == CompileConditions(conditions)
<1>1. n \in Nat /\ DOMAIN conditions = 1..n /\ \A k \in 1..n : conditions[k].path \in Seq(STRING)
  BY SequenceElim DEF AreConditions
<1>2. \A k \in 1..n : conditions[k].path # <<>>
  BY <1>1 DEF ConditionAccepted, ParsesPath
<1>3. s = [k \in 1..n |-> [path |-> CompilePath(conditions[k].path),
                           predicate |-> conditions[k].predicate,
                           comparison |-> conditions[k].comparison]]
  BY <1>1 DEF CompileConditions
<1> HIDE DEF s, n
<1>4. s = [k \in 1..n |-> s[k]]
  BY <1>3
<1>5. IsSequence(s) /\ Len(s) = n
  BY <1>1, <1>4, SequenceOf
<1>6. \A k \in 1..n : /\ IsPath(s[k].path)
                      /\ s[k] = [path |-> s[k].path, predicate |-> s[k].predicate,
                                 comparison |-> s[k].comparison]
  <2> SUFFICES ASSUME NEW k \in 1..n
               PROVE  /\ IsPath(s[k].path)
                      /\ s[k] = [path |-> s[k].path, predicate |-> s[k].predicate,
                                 comparison |-> s[k].comparison]
    OBVIOUS
  <2>1. IsPath(CompilePath(conditions[k].path))
    BY <1>1, <1>2, CompiledAccepted
  <2> QED BY <1>3, <2>1
<1> QED BY <1>5, <1>6 DEF AreCompiled, s

\* The picks of an accepted field, compiled.
LEMMA CompiledPicks ==
    ASSUME NEW raw, IsRawField(raw), PathsAccepted(raw)
    PROVE  ArePicks([k \in DOMAIN raw.pick |->
                        [key |-> raw.pick[k].key, paths |-> CompilePaths(raw.pick[k].paths)]])
<1> DEFINE n == Len(raw.pick)
           s == [k \in DOMAIN raw.pick |->
                   [key |-> raw.pick[k].key, paths |-> CompilePaths(raw.pick[k].paths)]]
<1>1. n \in Nat /\ DOMAIN raw.pick = 1..n /\ \A k \in 1..n : raw.pick[k].paths \in Seq(Seq(STRING))
  BY SequenceElim DEF IsRawField
<1>2. \A k \in 1..n : \A p \in ToSet(raw.pick[k].paths) : ParsesPath(p)
  <2>1. \A k \in 1..n : raw.pick[k] \in ToSet(raw.pick)
    BY <1>1 DEF ToSet
  <2> QED BY <2>1 DEF PathsAccepted
<1>3. s = [k \in 1..n |-> [key |-> raw.pick[k].key, paths |-> CompilePaths(raw.pick[k].paths)]]
  BY <1>1
<1> HIDE DEF s, n
<1>4. s = [k \in 1..n |-> s[k]]
  BY <1>3
<1>5. IsSequence(s) /\ Len(s) = n
  BY <1>1, <1>4, SequenceOf
<1>6. \A k \in 1..n : /\ ArePaths(s[k].paths)
                      /\ s[k] = [key |-> s[k].key, paths |-> s[k].paths]
  <2> SUFFICES ASSUME NEW k \in 1..n
               PROVE  ArePaths(s[k].paths) /\ s[k] = [key |-> s[k].key, paths |-> s[k].paths]
    OBVIOUS
  <2>1. ArePaths(CompilePaths(raw.pick[k].paths))
    BY <1>1, <1>2, CompiledPaths
  <2> QED BY <1>3, <2>1
<1>7. ArePicks(s)
  BY <1>5, <1>6 DEF ArePicks
<1> QED BY <1>7 DEF s

InferOf(raw) ==
    IF raw.type = "enum8"
    THEN [k \in DOMAIN raw.infer |->
             [any |-> CompileConditions(raw.infer[k].any),
              all |-> CompileConditions(raw.infer[k].all),
              result |-> lowerOf[raw.infer[k].result]]]
    ELSE <<>>

\* An element of one of two sequences is one of their concatenation.
LEMMA ConcatenatedPlaces ==
    ASSUME NEW s, IsSequence(s), NEW t, IsSequence(t)
    PROVE  /\ \A k \in DOMAIN s : s[k] \in ToSet(s \o t)
           /\ \A k \in DOMAIN t : t[k] \in ToSet(s \o t)
<1>1. s \in Seq(ToSet(s) \cup ToSet(t)) /\ t \in Seq(ToSet(s) \cup ToSet(t))
  BY DEF IsSequence
<1>2. /\ DOMAIN s = 1..Len(s) /\ DOMAIN t = 1..Len(t) /\ Len(s) \in Nat /\ Len(t) \in Nat
      /\ DOMAIN (s \o t) = 1..(Len(s) + Len(t))
      /\ \A k \in 1..Len(s) : (s \o t)[k] = s[k]
      /\ \A k \in 1..Len(t) : (s \o t)[Len(s) + k] = t[k]
  BY <1>1
<1>3. ASSUME NEW k \in 1..Len(t) PROVE t[k] \in ToSet(s \o t)
  <2>1. Len(s) + k \in DOMAIN (s \o t)
    BY <1>2
  <2> QED BY <1>2, <2>1 DEF ToSet
<1>4. ASSUME NEW k \in 1..Len(s) PROVE s[k] \in ToSet(s \o t)
  <2>1. k \in DOMAIN (s \o t)
    BY <1>2
  <2> QED BY <1>2, <2>1 DEF ToSet
<1> QED BY <1>2, <1>3, <1>4

\* The infer rules of an accepted field, compiled; only an enum8 field has any.
LEMMA CompiledRules ==
    ASSUME NEW raw, IsRawField(raw), FieldAccepted(raw)
    PROVE  AreRules(InferOf(raw))
<1>1. CASE raw.type # "enum8"
  <2>1. InferOf(raw) = <<>>
    BY <1>1 DEF InferOf
  <2> QED BY <2>1, EmptySequence DEF AreRules
<1>2. CASE raw.type = "enum8"
  <2> DEFINE n == Len(raw.infer)
             s == InferOf(raw)
  <2>1. /\ n \in Nat /\ DOMAIN raw.infer = 1..n
        /\ \A k \in 1..n : AreConditions(raw.infer[k].any) /\ AreConditions(raw.infer[k].all)
    BY SequenceElim DEF IsRawField
  <2>2. \A rule \in ToSet(raw.infer) :
           \A condition \in ToSet(ConditionPaths(rule)) : ConditionAccepted(condition)
    BY <1>2 DEF FieldAccepted, EnumAccepted
  <2>3. s = [k \in 1..n |-> [any |-> CompileConditions(raw.infer[k].any),
                             all |-> CompileConditions(raw.infer[k].all),
                             result |-> lowerOf[raw.infer[k].result]]]
    BY <1>2, <2>1 DEF InferOf
  <2> HIDE DEF s, n
  <2>4. s = [k \in 1..n |-> s[k]]
    BY <2>3
  <2>5. IsSequence(s) /\ Len(s) = n
    BY <2>1, <2>4, SequenceOf
  <2>6. ASSUME NEW k \in 1..n PROVE IsRule(s[k])
    <3>1. raw.infer[k] \in ToSet(raw.infer)
      BY <2>1 DEF ToSet
    <3>2. PICK rule : rule = raw.infer[k]
      OBVIOUS
    <3>3. AreConditions(rule.any) /\ AreConditions(rule.all)
      BY <2>1, <3>2
    <3>4. /\ \A j \in DOMAIN rule.any : ConditionAccepted(rule.any[j])
          /\ \A j \in DOMAIN rule.all : ConditionAccepted(rule.all[j])
      <4>1. IsSequence(rule.any) /\ IsSequence(rule.all)
        BY <3>3 DEF AreConditions
      <4>2. \A condition \in ToSet(rule.any \o rule.all) : ConditionAccepted(condition)
        BY <2>2, <3>1, <3>2 DEF ConditionPaths
      <4> QED BY <4>1, <4>2, ConcatenatedPlaces
    <3>5. AreCompiled(CompileConditions(rule.any)) /\ AreCompiled(CompileConditions(rule.all))
      BY <3>3, <3>4, CompiledConditions
    <3>6. s[k] = [any |-> CompileConditions(rule.any), all |-> CompileConditions(rule.all),
                  result |-> lowerOf[rule.result]]
      BY <2>3, <3>2
    <3> QED BY <3>5, <3>6 DEF IsRule
  <2> QED BY <2>5, <2>6 DEF AreRules, s
<1> QED BY <1>1, <1>2

\* The source of an accepted field, compiled.
LEMMA CompiledSource ==
    ASSUME NEW raw, IsRawField(raw), PathsAccepted(raw), NEW earlier
    PROVE  LET source == PathSource(raw, earlier) IN
           /\ source[1] \in {"root", "path", "paths", "output"}
           /\ source[1] \in {"path", "paths"} => ArePaths(source[2])
           /\ source[1] = "path" => Len(source[2]) = 1
<1> SUFFICES ASSUME NEW source, source = PathSource(raw, earlier)
             PROVE  /\ source[1] \in {"root", "path", "paths", "output"}
                    /\ source[1] \in {"path", "paths"} => ArePaths(source[2])
                    /\ source[1] = "path" => Len(source[2]) = 1
  BY Zenon
<1>0. raw.path \in Seq(STRING) /\ raw.paths \in Seq(Seq(STRING))
  BY DEF IsRawField
<1>1. CASE raw.from_output # ""
  <2>1. source = <<"output", SelectInSeq(earlier, LAMBDA n : n = raw.from_output)>>
    BY <1>1, Zenon DEF PathSource
  <2>2. PICK v : source = <<"output", v>>
    BY <2>1
  <2> QED BY <2>2
<1>2. CASE raw.from_output = "" /\ raw.paths # <<>>
  <2>1. source = <<"paths", CompilePaths(raw.paths)>>
    BY <1>2, Zenon DEF PathSource
  <2>2. ArePaths(CompilePaths(raw.paths))
    BY <1>0, <1>2, CompiledPaths DEF PathsAccepted
  <2> QED BY <2>1, <2>2
<1>3. CASE raw.from_output = "" /\ raw.paths = <<>> /\ Present(raw.path) /\ raw.path # <<"$">>
  <2>1. source = <<"path", <<CompilePath(raw.path)>> >>
    BY <1>3, Zenon DEF PathSource
  <2>2. IsPath(CompilePath(raw.path))
    BY <1>0, <1>3, CompiledAccepted DEF Present
  <2>3. PICK p : p = CompilePath(raw.path)
    OBVIOUS
  <2>4. IsSequence(<<p>>) /\ Len(<<p>>) = 1 /\ <<p>>[1] = p
    <3>1. <<p>> \in Seq({p})
      OBVIOUS
    <3> QED BY <3>1, SequenceIntro
  <2>5. ArePaths(<<p>>)
    BY <2>2, <2>3, <2>4 DEF ArePaths
  <2> QED BY <2>1, <2>3, <2>4, <2>5
<1>4. CASE /\ raw.from_output = "" /\ raw.paths = <<>>
           /\ ~(Present(raw.path) /\ raw.path # <<"$">>)
  <2>1. source = <<"root">>
    BY <1>4, Zenon DEF PathSource
  <2> QED BY <2>1
<1> QED BY <1>1, <1>2, <1>3, <1>4

\* An accepted field compiles to a field, and its slots change its paths only.
LEMMA CompiledField ==
    ASSUME NEW raw, IsRawField(raw), FieldAccepted(raw), NEW earlier, NEW slots
    PROVE  LET f == CompileField(raw, earlier) IN
           IsField(f) /\ SameField(CachedField(f, slots), f, slots)
<1>1. PICK f : f = CompileField(raw, earlier)
  OBVIOUS
<1>2. PICK precision : f.precision = precision
  OBVIOUS
<1>3. PICK picks : picks = [k \in DOMAIN raw.pick |->
                        [key |-> raw.pick[k].key, paths |-> CompilePaths(raw.pick[k].paths)]]
  OBVIOUS
<1>4. PICK default, value_map, enum_values :
         default = DefaultOf(raw) /\ value_map = Lowercased(raw.value_map)
         /\ enum_values = Lowercased(raw.enum_values)
  OBVIOUS
<1>5. PICK source : source = PathSource(raw, earlier)
  OBVIOUS
<1>6. PICK options : options = [skip_empty_strings |-> raw.type = "string",
                                string_filters |-> raw.filters,
                                strict_uint |-> raw.coercion = "strict"]
  OBVIOUS
<1>7. PICK infer : infer = InferOf(raw)
  OBVIOUS
<1>8. \E p, m : f = [name |-> raw.name, type |-> raw.type, precision |-> p,
     source |-> source, default |-> default, transform |-> raw.transform,
     allowed_values |-> raw.allowed_values, value_map |-> value_map,
     exclude_keys |-> raw.exclude_keys, elevate_keys |-> raw.elevate_keys,
     pick |-> picks, pick_merge |-> m, options |-> options,
     enum_values |-> enum_values, infer |-> infer, filter_nil |-> raw.filter_nil]
  BY <1>1, <1>3, <1>4, <1>5, <1>6, <1>7, Zenon DEF CompileField, InferOf
<1>9. PICK p, m : f = [name |-> raw.name, type |-> raw.type, precision |-> p,
     source |-> source, default |-> default, transform |-> raw.transform,
     allowed_values |-> raw.allowed_values, value_map |-> value_map,
     exclude_keys |-> raw.exclude_keys, elevate_keys |-> raw.elevate_keys,
     pick |-> picks, pick_merge |-> m, options |-> options,
     enum_values |-> enum_values, infer |-> infer, filter_nil |-> raw.filter_nil]
  BY <1>8
<1>10. f.source = source /\ f.pick = picks /\ f.infer = infer
  BY <1>9
<1>11. IsField(f)
  <2>1. PathsAccepted(raw)
    BY DEF FieldAccepted
  <2>2. /\ source[1] \in {"root", "path", "paths", "output"}
        /\ source[1] \in {"path", "paths"} => ArePaths(source[2])
        /\ source[1] = "path" => Len(source[2]) = 1
    BY <1>5, <2>1, CompiledSource
  <2>3. ArePicks(picks) /\ AreRules(infer)
    BY <1>3, <1>7, <2>1, CompiledPicks, CompiledRules
  <2> QED BY <1>10, <2>2, <2>3 DEF IsField
<1>12. PICK g : g = CachedField(f, slots)
  OBVIOUS
<1>13. PICK source2 : source2 = IF f.source[1] \in {"path", "paths"}
                  THEN <<f.source[1], CachedPaths(f.source[2], slots)>> ELSE f.source
  OBVIOUS
<1>14. PICK pick2 : pick2 = CachedPicks(f.pick, slots)
  OBVIOUS
<1>15. PICK infer2 : infer2 = CachedRules(f.infer, slots)
  OBVIOUS
<1>16. g = [f EXCEPT !.source = source2, !.pick = pick2, !.infer = infer2]
  BY <1>12, <1>13, <1>14, <1>15 DEF CachedField
<1>17. /\ SamePlain(g, f)
       /\ g.source = source2 /\ g.pick = pick2 /\ g.infer = infer2
  BY <1>9, <1>16 DEF SamePlain
<1>18. SameField(g, f, slots)
  BY <1>13, <1>14, <1>15, <1>17 DEF SameField
<1> QED BY <1>1, <1>11, <1>12, <1>18
-----------------------------------------------------------------------------
(* The slots of a mapping.                                                     *)

\* Flattening sequences gives a sequence of their elements.
LEMMA FlattenSequences ==
    ASSUME NEW ss, IsSequence(ss), \A k \in DOMAIN ss : IsSequence(ss[k])
    PROVE  /\ IsSequence(FlattenSeq(ss))
           /\ \A x \in ToSet(FlattenSeq(ss)) : \E k \in DOMAIN ss : x \in ToSet(ss[k])
<1> DEFINE X == UNION {ToSet(ss[k]) : k \in DOMAIN ss}
           flat == FlattenSeq(ss)
<1>1. ss \in Seq(Seq(X))
  <2>1. Len(ss) \in Nat /\ DOMAIN ss = 1..Len(ss) /\ ss = [k \in 1..Len(ss) |-> ss[k]]
    BY SequenceElim
  <2>2. ASSUME NEW k \in DOMAIN ss PROVE ss[k] \in Seq(X)
    <3>1. ss[k] \in Seq(ToSet(ss[k]))
      BY DEF IsSequence
    <3>2. ToSet(ss[k]) \subseteq X
      OBVIOUS
    <3> HIDE DEF X
    <3> QED BY <3>1, <3>2
  <2> HIDE DEF X
  <2>3. ss \in [1..Len(ss) -> Seq(X)]
    BY <2>1, <2>2
  <2> QED BY <2>1, <2>3
<1>2. flat \in Seq(X)
  <2>1. Parsing!FlattenSeq(ss) \in Seq(X)
    BY <1>1, Parsing!FlattenSeqIn
  <2>2. Parsing!FlattenSeq(ss) = FlattenSeq(ss)
    BY Zenon DEF Parsing!FlattenSeq, FlattenSeq
  <2> QED BY <2>1, <2>2
<1> HIDE DEF flat
<1>3. IsSequence(flat)
  BY <1>2, SequenceIntro
<1>4. \A x \in ToSet(flat) : x \in X
  <2> HIDE DEF X
  <2> QED BY <1>2 DEF ToSet
<1> QED BY <1>3, <1>4 DEF flat

\* Every path of these fields.
AreFields(fs) == IsSequence(fs) /\ \A k \in 1..Len(fs) : IsField(fs[k])

\* Paths and paths are paths.
LEMMA ConcatenatedPaths ==
    ASSUME NEW s, ArePaths(s), NEW t, ArePaths(t)
    PROVE  ArePaths(s \o t)
<1>1. IsSequence(s) /\ IsSequence(t)
  BY DEF ArePaths
<1>2. s \in Seq(ToSet(s) \cup ToSet(t)) /\ t \in Seq(ToSet(s) \cup ToSet(t))
  BY <1>1 DEF IsSequence
<1>3. s \o t \in Seq(ToSet(s) \cup ToSet(t))
  BY <1>2
<1>4. IsSequence(s \o t)
  BY <1>3, SequenceIntro
<1>5. \A x \in ToSet(s) \cup ToSet(t) : IsPath(x)
  BY <1>1, SequenceElim DEF ArePaths, ToSet
<1>6. \A k \in 1..Len(s \o t) : (s \o t)[k] \in ToSet(s) \cup ToSet(t)
  BY <1>3
<1> QED BY <1>4, <1>5, <1>6 DEF ArePaths

\* Flattened paths are paths.
LEMMA FlattenedPaths ==
    ASSUME NEW ss, IsSequence(ss), \A k \in DOMAIN ss : ArePaths(ss[k])
    PROVE  ArePaths(FlattenSeq(ss))
<1> DEFINE flat == FlattenSeq(ss)
<1>1. \A k \in DOMAIN ss : IsSequence(ss[k])
  BY DEF ArePaths
<1>2. IsSequence(flat) /\ \A x \in ToSet(flat) : \E k \in DOMAIN ss : x \in ToSet(ss[k])
  BY <1>1, FlattenSequences
<1>3. \A k \in DOMAIN ss : \A x \in ToSet(ss[k]) : IsPath(x)
  <2> SUFFICES ASSUME NEW k \in DOMAIN ss, NEW x \in ToSet(ss[k]) PROVE IsPath(x)
    OBVIOUS
  <2>1. ArePaths(ss[k]) /\ DOMAIN ss[k] = 1..Len(ss[k])
    BY <1>1, SequenceElim
  <2> QED BY <2>1 DEF ArePaths, ToSet
<1> HIDE DEF flat
<1>4. \A k \in 1..Len(flat) : flat[k] \in ToSet(flat)
  BY <1>2, SequenceElim DEF ToSet
<1>5. \A k \in 1..Len(flat) : IsPath(flat[k])
  BY <1>2, <1>3, <1>4
<1> QED BY <1>2, <1>5 DEF ArePaths, flat

\* The paths visited in a rule are paths.
LEMMA PathsOfConditions ==
    ASSUME NEW rule, IsRule(rule)
    PROVE  ArePaths(RulePaths(rule))
<1> DEFINE s == rule.any \o rule.all
           r == RulePaths(rule)
<1>0. /\ IsSequence(rule.any) /\ IsSequence(rule.all)
      /\ \A k \in 1..Len(rule.any) : IsPath(rule.any[k].path)
      /\ \A k \in 1..Len(rule.all) : IsPath(rule.all[k].path)
  BY DEF IsRule, AreCompiled
<1> DEFINE X == ToSet(rule.any) \cup ToSet(rule.all)
<1>1. rule.any \in Seq(X) /\ rule.all \in Seq(X)
  BY <1>0 DEF IsSequence
<1>2. \A x \in X : IsPath(x.path)
  BY <1>0, SequenceElim DEF ToSet
<1> HIDE DEF X
<1>3. s \in Seq(X)
  BY <1>1
<1>4. r = [k \in DOMAIN s |-> s[k].path]
  BY Zenon DEF RulePaths, ConditionPaths
<1> HIDE DEF s, r
<1>5. Len(s) \in Nat /\ DOMAIN s = 1..Len(s) /\ \A k \in 1..Len(s) : IsPath(s[k].path)
  BY <1>2, <1>3
<1>6. r = [k \in 1..Len(s) |-> r[k]] /\ \A k \in 1..Len(s) : IsPath(r[k])
  BY <1>4, <1>5
<1>7. IsSequence(r) /\ Len(r) = Len(s)
  BY <1>5, <1>6, SequenceOf
<1> QED BY <1>6, <1>7 DEF ArePaths, r

\* The paths visited in a field are paths.
LEMMA PathsOfField ==
    ASSUME NEW f, IsField(f)
    PROVE  ArePaths(FieldPaths(f))
<1>1. PICK own : own = IF f.source[1] \in {"path", "paths"} THEN f.source[2] ELSE <<>>
  OBVIOUS
<1>2. ArePaths(<<>>)
  BY EmptySequence DEF ArePaths
<1>3. ArePaths(own)
  BY <1>1, <1>2 DEF IsField
<1>4. PICK picked : picked = [k \in DOMAIN f.pick |-> f.pick[k].paths]
  OBVIOUS
<1>5. IsSequence(picked) /\ \A k \in DOMAIN picked : ArePaths(picked[k])
  <2>1. /\ Len(f.pick) \in Nat /\ DOMAIN f.pick = 1..Len(f.pick)
        /\ \A k \in 1..Len(f.pick) : ArePaths(f.pick[k].paths)
    BY SequenceElim DEF IsField, ArePicks
  <2>2. /\ picked = [k \in 1..Len(f.pick) |-> picked[k]]
        /\ \A k \in 1..Len(f.pick) : ArePaths(picked[k])
    BY <1>4, <2>1
  <2>3. IsSequence(picked) /\ DOMAIN picked = 1..Len(f.pick)
    BY <2>1, <2>2, SequenceOf
  <2> QED BY <2>2, <2>3
<1>6. PICK inferred : inferred = [k \in DOMAIN f.infer |-> RulePaths(f.infer[k])]
  OBVIOUS
<1>7. IsSequence(inferred) /\ \A k \in DOMAIN inferred : ArePaths(inferred[k])
  <2>1. /\ Len(f.infer) \in Nat /\ DOMAIN f.infer = 1..Len(f.infer)
        /\ \A k \in 1..Len(f.infer) : IsRule(f.infer[k])
    BY SequenceElim DEF IsField, AreRules
  <2>2. /\ inferred = [k \in 1..Len(f.infer) |-> inferred[k]]
        /\ \A k \in 1..Len(f.infer) : ArePaths(inferred[k])
    BY <1>6, <2>1, PathsOfConditions
  <2>3. IsSequence(inferred) /\ DOMAIN inferred = 1..Len(f.infer)
    BY <2>1, <2>2, SequenceOf
  <2> QED BY <2>2, <2>3
<1>8. PICK a : a = FlattenSeq(picked)
  OBVIOUS
<1>9. PICK b : b = FlattenSeq(inferred)
  OBVIOUS
<1>10. ArePaths(a) /\ ArePaths(b)
  BY <1>5, <1>7, <1>8, <1>9, FlattenedPaths
<1>11. FieldPaths(f) = (own \o a) \o b
  BY <1>1, <1>4, <1>6, <1>8, <1>9, Zenon DEF FieldPaths
<1>12. ArePaths(own \o a)
  BY <1>3, <1>10, ConcatenatedPaths
<1> QED BY <1>10, <1>11, <1>12, ConcatenatedPaths

\* The paths visited in all fields are paths.
LEMMA PathsOfFields ==
    ASSUME NEW fs, AreFields(fs)
    PROVE  ArePaths(AllPaths(fs))
<1> DEFINE ss == [k \in DOMAIN fs |-> FieldPaths(fs[k])]
<1>1. Len(fs) \in Nat /\ DOMAIN fs = 1..Len(fs) /\ \A k \in 1..Len(fs) : IsField(fs[k])
  BY SequenceElim DEF AreFields
<1>2. ss = [k \in 1..Len(fs) |-> ss[k]] /\ \A k \in 1..Len(fs) : ArePaths(ss[k])
  BY <1>1, PathsOfField
<1>3. AllPaths(fs) = FlattenSeq(ss)
  BY Zenon DEF AllPaths
<1> HIDE DEF ss
<1>4. IsSequence(ss) /\ DOMAIN ss = 1..Len(fs)
  BY <1>1, <1>2, SequenceOf
<1> QED BY <1>2, <1>3, <1>4, FlattenedPaths
-----------------------------------------------------------------------------
\* A sequence has finitely many elements.
LEMMA FiniteRange ==
    ASSUME NEW s, IsSequence(s)
    PROVE  IsFiniteSet(ToSet(s))
<1>1. Len(s) \in Nat /\ DOMAIN s = 1..Len(s) /\ s = [k \in 1..Len(s) |-> s[k]]
  BY SequenceElim
<1>2. IsFiniteSet(1..Len(s))
  BY <1>1, FS_Interval
<1>3. s \in Surjection(1..Len(s), ToSet(s))
  BY <1>1 DEF ToSet, Surjection
<1> QED BY <1>2, <1>3, FS_Surjection

\* So do finitely many sequences.
LEMMA FinitelyManyRanges ==
    ASSUME NEW ss, IsSequence(ss), \A k \in DOMAIN ss : IsSequence(ss[k])
    PROVE  IsFiniteSet(UNION {ToSet(ss[k]) : k \in DOMAIN ss})
<1>1. PICK ts : ts = [k \in DOMAIN ss |-> ToSet(ss[k])]
  OBVIOUS
<1>2. Len(ss) \in Nat /\ DOMAIN ss = 1..Len(ss)
  BY SequenceElim
<1>3. ts = [k \in 1..Len(ss) |-> ts[k]]
  BY <1>1, <1>2
<1>4. IsSequence(ts) /\ DOMAIN ts = 1..Len(ss)
  BY <1>2, <1>3, SequenceOf
<1>5. IsFiniteSet(ToSet(ts))
  BY <1>4, FiniteRange
<1>6. \A T \in ToSet(ts) : IsFiniteSet(T)
  BY <1>1, <1>2, <1>4, FiniteRange DEF ToSet
<1>7. IsFiniteSet(UNION ToSet(ts))
  BY <1>5, <1>6, FS_UNION
<1>8. ToSet(ts) = {ToSet(ss[k]) : k \in DOMAIN ss}
  BY <1>1, <1>2, <1>4 DEF ToSet
<1> QED BY <1>7, <1>8

\* A root prefix is one key.
AreRoots(roots) ==
    /\ IsSequence(roots)
    /\ \A k \in 1..Len(roots) : AreSegments(roots[k]) /\ Len(roots[k]) = 1 /\ IsKey(roots[k][1])

\* The cacheable prefixes of each path are segments.
LEMMA PrefixSequence ==
    ASSUME NEW paths, ArePaths(paths)
    PROVE  LET ss == [j \in DOMAIN paths |-> CacheablePrefixes(paths[j])] IN
           /\ IsSequence(ss) /\ DOMAIN ss = DOMAIN paths
           /\ \A j \in DOMAIN ss : /\ IsSequence(ss[j])
                                   /\ \A x \in ToSet(ss[j]) : AreSegments(x)
<1> DEFINE ss == [j \in DOMAIN paths |-> CacheablePrefixes(paths[j])]
<1>1. Len(paths) \in Nat /\ DOMAIN paths = 1..Len(paths) /\ \A k \in 1..Len(paths) : IsPath(paths[k])
  BY SequenceElim DEF ArePaths
<1>2. ASSUME NEW j \in 1..Len(paths)
      PROVE  IsSequence(ss[j]) /\ \A x \in ToSet(ss[j]) : AreSegments(x)
  <2>1. PICK p : p = paths[j] /\ IsPath(p)
    BY <1>1
  <2>2. PICK s : s = CacheablePrefixes(p) /\ ss[j] = s
    BY <1>1, <2>1
  <2>3. IsSequence(s) /\ Len(s) <= Len(p.segments)
        /\ \A k \in 1..Len(s) : s[k] = SubSeq(p.segments, 1, k)
    BY <2>1, <2>2, CacheablePrefixesOf
  <2>4. Len(s) \in Nat /\ DOMAIN s = 1..Len(s)
    BY <2>3, SequenceElim
  <2>5. AreSegments(p.segments) /\ IsSequence(p.segments) /\ Len(p.segments) \in Nat
    BY <2>1, SequenceElim DEF IsPath, AreSegments
  <2>6. ASSUME NEW k \in 1..Len(s) PROVE AreSegments(s[k])
    <3>1. k \in 0..Len(p.segments)
      BY <2>3, <2>4, <2>5
    <3>2. PICK q : q = SubSeq(p.segments, 1, k)
      OBVIOUS
    <3>3. /\ IsSequence(q) /\ Len(q) = k
          /\ \A i \in 1..k : q[i] = p.segments[i]
      BY <2>5, <3>1, <3>2, PrefixOf
    <3>4. AreSegments(q)
      BY <2>5, <3>1, <3>3 DEF AreSegments
    <3> QED BY <2>3, <3>2, <3>4
  <2> QED BY <2>2, <2>3, <2>4, <2>6 DEF ToSet
<1>3. ss = [j \in 1..Len(paths) |-> ss[j]]
  BY <1>1
<1> HIDE DEF ss
<1>4. IsSequence(ss) /\ DOMAIN ss = 1..Len(paths)
  BY <1>1, <1>3, SequenceOf
<1>5. /\ IsSequence(ss) /\ DOMAIN ss = DOMAIN paths
      /\ \A j \in DOMAIN ss : IsSequence(ss[j]) /\ \A x \in ToSet(ss[j]) : AreSegments(x)
  BY <1>1, <1>2, <1>4
<1> QED BY <1>5, Zenon DEF ss

\* However the root keys are ordered, each root slot is for one key.
LEMMA RootsOf ==
    ASSUME NEW paths, ArePaths(paths), NEW roots \in RootOrders(paths)
    PROVE  AreRoots(roots)
<1>1. PICK ss : ss = [j \in DOMAIN paths |-> CacheablePrefixes(paths[j])]
  OBVIOUS
<1>2. /\ IsSequence(ss) /\ DOMAIN ss = DOMAIN paths
      /\ \A j \in DOMAIN ss : IsSequence(ss[j]) /\ \A x \in ToSet(ss[j]) : AreSegments(x)
  BY <1>1, PrefixSequence, Zenon
<1>3. PICK all : all = UNION {ToSet(ss[j]) : j \in DOMAIN ss}
  OBVIOUS
<1>4. IsFiniteSet(all)
  BY <1>2, <1>3, FinitelyManyRanges
<1>5. PICK R : R = RootPrefixes(paths)
  OBVIOUS
<1>6. R \subseteq all /\ \A x \in R : AreSegments(x) /\ Len(x) = 1 /\ IsKey(x[1])
  <2>1. all = UNION {ToSet(CacheablePrefixes(paths[j])) : j \in DOMAIN paths}
    BY <1>1, <1>2, <1>3
  <2>2. R = {x \in all : Len(x) = 1 /\ IsKey(x[1])}
    BY <1>5, <2>1 DEF RootPrefixes
  <2>3. \A x \in all : AreSegments(x)
    BY <1>2, <1>3
  <2> QED BY <2>2, <2>3
<1>7. PICK n : n = Cardinality(R)
  OBVIOUS
<1>8. n \in Nat
  <2>1. IsFiniteSet(R)
    BY <1>4, <1>6, FS_Subset
  <2> QED BY <1>7, <2>1, FS_CardinalityType
<1>9. CASE roots = <<>>
  <2>1. \A k \in 1..Len(roots) : FALSE
    BY <1>9
  <2> QED BY <1>9, <2>1, EmptySequence DEF AreRoots
<1>10. CASE roots \in [1..n -> R]
  <2>1. roots = [k \in 1..n |-> roots[k]] /\ \A k \in 1..n : roots[k] \in R
    BY <1>10
  <2>2. IsSequence(roots) /\ Len(roots) = n
    BY <1>8, <2>1, SequenceOf
  <2> QED BY <1>6, <2>1, <2>2 DEF AreRoots
<1>11. roots = <<>> \/ roots \in SetToSeqs(R)
  BY <1>5 DEF RootOrders
<1>12. roots \in SetToSeqs(R) => roots \in [1..n -> R]
  BY <1>7 DEF SetToSeqs
<1> QED BY <1>9, <1>10, <1>11, <1>12

\* Slots past those in front are added behind.
StartsWith(front, a, b) ==
    /\ IsSequence(b) /\ Len(front) <= Len(b)
    /\ \A k \in 1..Len(front) : b[k] = front[k]

SlotOp(paths, slots, prefix) ==
    IF Contains(slots, prefix) \/ References(paths, prefix) <= 1
    THEN slots ELSE Append(slots, prefix)
Slotting == INSTANCE FoldLemmas WITH Op <- SlotOp, Rel <- StartsWith

\* The slots start with those of the root keys (assign_path_cache_indices).
LEMMA SlotsOf ==
    ASSUME NEW paths, ArePaths(paths), NEW roots, AreRoots(roots)
    PROVE  StartsWith(roots, roots, AssignSlots(paths, roots))
<1>1. PICK s : s = FlattenSeq([j \in DOMAIN paths |-> CacheablePrefixes(paths[j])])
  OBVIOUS
<1>2. IsSequence(s)
  <2>1. PICK ss : ss = [j \in DOMAIN paths |-> CacheablePrefixes(paths[j])]
    OBVIOUS
  <2>2. IsSequence(ss) /\ \A j \in DOMAIN ss : IsSequence(ss[j])
    BY <2>1, PrefixSequence, Zenon
  <2>3. IsSequence(FlattenSeq(ss))
    BY <2>2, FlattenSequences
  <2> QED BY <1>1, <2>1, <2>3
<1>3. Len(s) \in Nat /\ DOMAIN s = 1..Len(s)
  BY <1>2, SequenceElim
<1>4. AssignSlots(paths, roots) = Slotting!Left(paths, roots, s)
  <2>1. AssignSlots(paths, roots)
            = FoldLeft(LAMBDA slots, prefix :
                           IF Contains(slots, prefix) \/ References(paths, prefix) <= 1
                           THEN slots ELSE Append(slots, prefix), roots, s)
    BY <1>1, Zenon DEF AssignSlots
  <2>2. Slotting!Left(paths, roots, s)
            = FoldLeft(LAMBDA slots, prefix :
                           IF Contains(slots, prefix) \/ References(paths, prefix) <= 1
                           THEN slots ELSE Append(slots, prefix), roots, s)
    BY Zenon DEF Slotting!Left, SlotOp, FoldLeft, Slotting!FoldLeft,
                 MapThenFoldSet, Slotting!MapThenFoldSet, Max, Slotting!Max
  <2> QED BY <2>1, <2>2
<1>5. IsSequence(roots) /\ Len(roots) \in Nat
  BY SequenceElim DEF AreRoots
<1>6. StartsWith(roots, roots, roots)
  BY <1>5 DEF StartsWith
<1>7. ASSUME NEW k \in 1..Len(s), NEW a, NEW b, StartsWith(roots, a, b)
      PROVE  StartsWith(roots, SlotOp(paths, a, s[k]), SlotOp(paths, b, s[k]))
  <2>1. SlotOp(paths, b, s[k]) = b \/ SlotOp(paths, b, s[k]) = Append(b, s[k])
    BY DEF SlotOp
  <2>2. /\ IsSequence(b) /\ Len(roots) <= Len(b) /\ Len(b) \in Nat
        /\ \A i \in 1..Len(roots) : b[i] = roots[i]
    BY <1>7, SequenceElim DEF StartsWith
  <2>3. PICK d : d = Append(b, s[k])
    OBVIOUS
  <2>4. /\ IsSequence(d) /\ Len(d) = Len(b) + 1
        /\ \A i \in 1..Len(b) : d[i] = b[i]
    BY <2>2, <2>3, AppendSequence
  <2>5. StartsWith(roots, SlotOp(paths, a, s[k]), d)
    BY <1>5, <2>2, <2>4 DEF StartsWith
  <2>6. StartsWith(roots, SlotOp(paths, a, s[k]), b)
    BY <2>2 DEF StartsWith
  <2> QED BY <2>1, <2>3, <2>5, <2>6
<1>8. Slotting!Keeps(roots, paths, paths, s, s, Len(s))
  BY <1>7, Zenon DEF Slotting!Keeps
<1>9. PICK n \in Nat : n = Len(s)
  BY <1>3
<1>10. StartsWith(roots, Slotting!Left(paths, roots, s), Slotting!Left(paths, roots, s))
  BY <1>3, <1>6, <1>8, <1>9, Slotting!FoldsRelated
<1> QED BY <1>4, <1>10 DEF StartsWith
-----------------------------------------------------------------------------
(* The cache a call starts with.                                               *)

\* An empty cache fits every document.
LEMMA NewCacheFits ==
    ASSUME NEW document, NEW slots, IsSequence(slots), NEW flat
    PROVE  Fits(NewCache(slots), document, slots, flat)
BY SequenceElim DEF NewCache, Fits

\* A root key evaluates to the child of the document at it.
LEMMA RootValue ==
    ASSUME NEW document \in Terms, NEW prefix, AreSegments(prefix), Len(prefix) = 1,
           IsKey(prefix[1])
    PROVE  /\ EvaluateUncached(document, prefix) = Child(document, prefix[1])
           /\ Child(document, prefix[1]) \in Terms
<1>1. PICK segment : segment = prefix[1] /\ IsSegment(segment)
  BY DEF AreSegments
<1>2. segment # Wildcard
  BY <1>1 DEF IsKey, Wildcard
<1>3. PICK u : IsWalk(u, prefix) /\ EvaluateUncached(document, prefix) = u[1][document]
  BY WalkOf DEF AreSegments
<1>4. u[2] = [t \in Terms |-> t] /\ u[1] = Along(segment, u[2])
  BY <1>1, <1>3 DEF IsWalk
<1>5. PICK rest : rest = u[2]
  OBVIOUS
<1>6. u[1][document] = rest[Child(document, segment)]
  BY <1>2, <1>4, <1>5, AlongStep
<1>7. Child(document, segment) \in Terms
  BY <1>1, ChildInTerms
<1>8. rest[Child(document, segment)] = Child(document, segment)
  BY <1>4, <1>5, <1>7
<1> QED BY <1>1, <1>3, <1>6, <1>7, <1>8

\* preload_root fills the root slots with what their keys evaluate to.
LEMMA PreloadFits ==
    ASSUME NEW document \in Terms, NEW roots, AreRoots(roots), NEW slots,
           StartsWith(roots, roots, slots)
    PROVE  Fits(PreloadRoot(document, slots, Len(roots)), document, slots, FALSE)
<1>1. PICK c : c = PreloadRoot(document, slots, Len(roots))
  OBVIOUS
<1>2. /\ IsSequence(slots) /\ Len(roots) <= Len(slots)
      /\ \A k \in 1..Len(roots) : slots[k] = roots[k]
  BY DEF StartsWith
<1>3. Len(slots) \in Nat /\ DOMAIN slots = 1..Len(slots) /\ Len(roots) \in Nat
  BY <1>2, SequenceElim DEF AreRoots
<1>4. c = [i \in 1..Len(slots) |-> c[i]]
  BY <1>1, <1>3 DEF PreloadRoot
<1>5. ASSUME NEW i \in 1..Len(slots), c[i] # Unset
      PROVE  c[i] = SlotValue(document, slots[i], FALSE) /\ c[i] \in Terms
  <2>1. c[i] = IF i > Len(roots) THEN Unset ELSE Child(document, slots[i][1])
    BY <1>1, <1>3 DEF PreloadRoot
  <2>2. ~(i > Len(roots)) /\ c[i] = Child(document, slots[i][1])
    BY <1>5, <2>1
  <2>3. PICK prefix : prefix = slots[i]
    OBVIOUS
  <2>4. AreSegments(prefix) /\ Len(prefix) = 1 /\ IsKey(prefix[1])
    BY <1>2, <1>3, <2>2, <2>3 DEF AreRoots
  <2>5. EvaluateUncached(document, prefix) = Child(document, prefix[1])
        /\ Child(document, prefix[1]) \in Terms
    BY <2>4, RootValue
  <2> QED BY <2>2, <2>3, <2>5 DEF SlotValue
<1> QED BY <1>1, <1>4, <1>5 DEF Fits
-----------------------------------------------------------------------------
(* What a configuration compiles to.                                           *)

\* decode_fields makes fields, and slots change their paths only.
LEMMA CompiledFields ==
    ASSUME NEW raws, IsSequence(raws), \A k \in DOMAIN raws : IsRawField(raws[k]),
           FieldsAccepted(raws)
    PROVE  /\ AreFields(CompileFields(raws)) /\ DOMAIN CompileFields(raws) = 1..Len(raws)
           /\ \A slots : \A k \in DOMAIN CompileFields(raws) :
                  SameField(CachedField(CompileFields(raws)[k], slots), CompileFields(raws)[k], slots)
<1>1. PICK fs : fs = CompileFields(raws)
  OBVIOUS
<1>2. Len(raws) \in Nat /\ DOMAIN raws = 1..Len(raws)
  BY SequenceElim
<1>3. fs = [k \in 1..Len(raws) |-> CompileField(raws[k], EarlierNames(raws, k))]
  BY <1>1, <1>2 DEF CompileFields
<1>4. ASSUME NEW k \in 1..Len(raws), NEW slots
      PROVE  IsField(fs[k]) /\ SameField(CachedField(fs[k], slots), fs[k], slots)
  <2>1. PICK raw : raw = raws[k] /\ IsRawField(raw) /\ FieldAccepted(raw)
    BY <1>2 DEF FieldsAccepted
  <2>2. PICK earlier : earlier = EarlierNames(raws, k)
    OBVIOUS
  <2>3. PICK f : f = CompileField(raw, earlier)
    OBVIOUS
  <2>4. fs[k] = f
    BY <1>3, <2>1, <2>2, <2>3
  <2>5. IsField(f) /\ SameField(CachedField(f, slots), f, slots)
    BY <2>1, <2>3, CompiledField, Zenon
  <2> QED BY <2>4, <2>5
<1>5. fs = [k \in 1..Len(raws) |-> fs[k]]
  BY <1>3
<1>6. IsSequence(fs) /\ Len(fs) = Len(raws) /\ DOMAIN fs = 1..Len(raws)
  BY <1>2, <1>5, SequenceOf
<1>7. AreFields(fs)
  BY <1>4, <1>6 DEF AreFields
<1> QED BY <1>1, <1>4, <1>6, <1>7
-----------------------------------------------------------------------------
(* The mappings in use.                                                        *)

\* A mapping is the fields as compiled, with slots that start with its root keys.
IsMapping(m) ==
    /\ m.config \in Configs /\ AreFields(Compiled[m.config])
    /\ DOMAIN m.fields = DOMAIN Compiled[m.config]
    /\ \A k \in DOMAIN Compiled[m.config] :
           SameField(m.fields[k], Compiled[m.config][k], m.slots)
    /\ \E roots : /\ AreRoots(roots) /\ m.roots = Len(roots)
                  /\ StartsWith(roots, roots, m.slots)

\* decode_mapping makes the fields as compiled, with slots.
LEMMA MappingsAre ==
    ASSUME NEW c \in DOMAIN Mappings, NEW m \in Mappings[c]
    PROVE  IsMapping(m)
<1>1. c \in Configs /\ Accepted(c) /\ Mappings[c] = MappingsOf(c, Compiled[c], AllPaths(Compiled[c]))
  BY DEF Mappings
<1>2. PICK raws : raws = RawConfig[c].fields
  OBVIOUS
<1>3. /\ IsSequence(raws) /\ FieldsAccepted(raws)
      /\ \A k \in DOMAIN raws : IsRawField(raws[k])
  BY <1>1, <1>2, InputsAssumption DEF Configs, Accepted
<1>4. PICK fs : fs = Compiled[c]
  OBVIOUS
<1>5. fs = CompileFields(raws)
  BY <1>1, <1>2, <1>3, <1>4 DEF Compiled
<1>6. /\ AreFields(fs)
      /\ \A slots : \A k \in DOMAIN fs : SameField(CachedField(fs[k], slots), fs[k], slots)
  BY <1>3, <1>5, CompiledFields
<1>7. PICK paths : paths = AllPaths(fs)
  OBVIOUS
<1>8. ArePaths(paths)
  BY <1>6, <1>7, PathsOfFields
<1>9. PICK roots \in RootOrders(paths) :
         m = Mapping(c, RawConfig[c], fs, AssignSlots(paths, roots), roots)
  BY <1>1, <1>4, <1>7, Zenon DEF MappingsOf
<1>10. AreRoots(roots)
  BY <1>8, RootsOf
<1>11. PICK slots : slots = AssignSlots(paths, roots)
  OBVIOUS
<1>12. StartsWith(roots, roots, slots)
  BY <1>8, <1>10, <1>11, SlotsOf
<1>13. PICK gs : gs = [k \in DOMAIN fs |-> CachedField(fs[k], slots)]
  OBVIOUS
<1>14. /\ m.config = c /\ m.slots = slots /\ m.roots = Len(roots) /\ m.fields = gs
  <2>1. PICK layout : layout = OutputLayout(RawConfig[c], fs)
    OBVIOUS
  <2>2. PICK format, row_type : format = RawConfig[c].format /\ row_type = RawConfig[c].row_type
    OBVIOUS
  <2>3. m = [config |-> c, slots |-> slots, roots |-> Len(roots), fields |-> gs,
             format |-> format, row_type |-> row_type, layout |-> layout]
    BY <1>9, <1>11, <1>13, <2>1, <2>2 DEF Mapping
  <2> QED BY <2>3
<1>15. DOMAIN gs = DOMAIN fs /\ \A k \in DOMAIN fs : SameField(gs[k], fs[k], slots)
  BY <1>6, <1>13
<1> QED BY <1>1, <1>4, <1>6, <1>10, <1>12, <1>14, <1>15 DEF IsMapping
-----------------------------------------------------------------------------
(* Every step.                                                                 *)

\* While a document is mapped, each filled slot of the cache holds what its
\* prefix evaluates to in that document, whatever was mapped before.
CallView == [document |-> call.document, slots |-> mapping.slots, flat |-> call.flat]
CacheInv ==
    /\ phase \in {"ready", "mapping", "writing"} => IsMapping(mapping)
    /\ phase = "mapping" =>
           /\ IsSequence(values) /\ IsView(CallView)
           /\ Fits(cache, call.document, mapping.slots, call.flat)
    /\ CacheTransparent

\* The slots of a mapping are a sequence.
LEMMA SlotsAreSequence ==
    ASSUME NEW m, IsMapping(m)
    PROVE  IsSequence(m.slots)
BY DEF IsMapping, StartsWith

\* A call starts with no value, and with no slot filled or the root keys' only.
LEMMA StartKeeps ==
    ASSUME CacheInv, NEW document, NEW flat \in BOOLEAN, ~flat => document \in Terms,
           NEW envelope, StartCall(document, flat, envelope)
    PROVE  CacheInv'
<1>1. phase' = "mapping" /\ phase = "ready" /\ mapping' = mapping /\ values' = <<>>
  BY DEF StartCall
<1>2. call'.document = document /\ call'.flat = flat
  BY DEF StartCall
<1>3. IsMapping(mapping) /\ IsSequence(mapping.slots)
  BY <1>1, SlotsAreSequence DEF CacheInv
<1>4. Fits(cache', document, mapping.slots, flat)
  <2>1. CASE PreloadsDocument(document, flat)
    <3>1. ~flat /\ document \in Terms
      BY <2>1 DEF PreloadsDocument
    <3>2. cache' = PreloadRoot(document, mapping.slots, mapping.roots)
      BY <2>1 DEF StartCall
    <3>3. PICK roots : /\ AreRoots(roots) /\ mapping.roots = Len(roots)
                       /\ StartsWith(roots, roots, mapping.slots)
      BY <1>3 DEF IsMapping
    <3>4. Fits(PreloadRoot(document, mapping.slots, Len(roots)), document, mapping.slots, FALSE)
      BY <3>1, <3>3, PreloadFits
    <3> QED BY <3>1, <3>2, <3>3, <3>4
  <2>2. CASE ~PreloadsDocument(document, flat)
    <3>1. cache' = NewCache(mapping.slots)
      BY <2>2 DEF StartCall
    <3> QED BY <1>3, <3>1, NewCacheFits
  <2> QED BY <2>1, <2>2
<1>5. IsView(CallView)'
  BY <1>1, <1>2, <1>3 DEF IsView, CallView
<1>6. CacheTransparent'
  BY <1>1 DEF CacheTransparent, HasMapped
<1> QED BY <1>1, <1>2, <1>3, <1>4, <1>5, <1>6, EmptySequence DEF CacheInv

\* The next field has the value it has without slots, and leaves a cache of the
\* document.
LEMMA NextFieldKeeps ==
    ASSUME CacheInv, MapNextField
    PROVE  CacheInv'
<1>1. /\ phase = "mapping" /\ phase' = "mapping"
      /\ mapping' = mapping /\ call' = call
  BY DEF MapNextField, FieldsLeft
<1>2. IsMapping(mapping) /\ IsSequence(values) /\ IsView(CallView)
      /\ Fits(cache, call.document, mapping.slots, call.flat)
  BY <1>1 DEF CacheInv
<1>3. PICK n : n = Len(values) + 1 /\ n \in Nat /\ n # 0
  BY <1>2, SequenceElim
<1>4. PICK fs : fs = Compiled[mapping.config]
  OBVIOUS
<1>5. PICK g : g = mapping.fields[n]
  OBVIOUS
<1>6. PICK f : f = fs[n]
  OBVIOUS
<1>7. IsField(f) /\ SameField(g, f, mapping.slots)
  <2>1. AreFields(fs) /\ DOMAIN mapping.fields = DOMAIN fs
        /\ \A k \in DOMAIN fs : SameField(mapping.fields[k], fs[k], mapping.slots)
    BY <1>2, <1>4 DEF IsMapping
  <2>2. IsSequence(fs) /\ DOMAIN fs = 1..Len(fs) /\ \A k \in 1..Len(fs) : IsField(fs[k])
    BY <2>1, SequenceElim DEF AreFields
  <2>3. Len(mapping.fields) = Len(fs)
    BY <2>1, <2>2
  <2>4. n \in 1..Len(fs)
    BY <1>2, <1>3, <2>2, <2>3, SequenceElim DEF MapNextField, FieldsLeft, fields
  <2> QED BY <1>5, <1>6, <2>1, <2>2, <2>4
<1>8. PICK w : w = CallView
  OBVIOUS
<1>9. w.document = call.document /\ w.slots = mapping.slots /\ w.flat = call.flat /\ IsView(w)
  BY <1>2, <1>8 DEF CallView
<1>10. PICK a : a = MapField(call.document, g, values, call.flat, cache)
  OBVIOUS
<1>11. PICK b : b = MapField(call.document, f, values, call.flat, <<>>)
  OBVIOUS
<1>12. a.value = b.value /\ Fits(a.cache, call.document, mapping.slots, call.flat)
  <2>1. Agree(w, MapField(w.document, g, values, w.flat, cache),
                 MapField(w.document, f, values, w.flat, <<>>))
    BY <1>2, <1>7, <1>9, FieldAgrees
  <2> QED BY <1>9, <1>10, <1>11, <2>1 DEF Agree
<1>13. values' = Append(values, a.value) /\ cache' = a.cache
  BY <1>3, <1>5, <1>10 DEF MapNextField, NextMapped, Keep, fields
<1>14. /\ IsSequence(values') /\ Len(values') = n
       /\ values'[n] = a.value /\ SubSeq(values', 1, n - 1) = values
  <2>1. PICK v : v = a.value
    OBVIOUS
  <2>2. values' = Append(values, v) /\ IsSequence(values')
    BY <1>2, <1>13, <2>1, AppendSequence
  <2>3. PICK X : X = ToSet(values) \cup {v}
    OBVIOUS
  <2>4. values \in Seq(X) /\ v \in X
    <3>1. values \in Seq(ToSet(values))
      BY <1>2 DEF IsSequence
    <3> QED BY <2>3, <3>1
  <2>5. Len(values') = n /\ values'[n] = v /\ SubSeq(values', 1, n - 1) = values
    BY <1>3, <2>2, <2>4
  <2> QED BY <2>1, <2>2, <2>5
<1>15. CacheTransparent'
  <2>1. Outputs' = values
    BY <1>14 DEF Outputs
  <2>2. UncachedField' = f
    <3>1. Compiled' = Compiled
      BY DEF Compiled, Configs
    <3> QED BY <1>1, <1>4, <1>6, <1>14, <3>1 DEF UncachedField, config
  <2>3. Value' = a.value
    BY <1>14 DEF Value
  <2>4. MapField(call.document, UncachedField, Outputs, call.flat, <<>>)' = b
    BY <1>1, <1>11, <2>1, <2>2
  <2> QED BY <1>12, <2>3, <2>4 DEF CacheTransparent
<1>16. IsView(CallView)'
  BY <1>1, <1>2 DEF CallView, IsView
<1>17. IsMapping(mapping)'
  BY <1>1, <1>2
<1> QED BY <1>1, <1>12, <1>13, <1>14, <1>15, <1>16, <1>17 DEF CacheInv
-----------------------------------------------------------------------------
\* The inductive invariant: between any two fields, of any call, of any mapping
\* and order of its root slots, each filled slot of the cache holds what its prefix
\* evaluates to in the document at hand (map_values_into, query.rs).
THEOREM CacheInvariant == Spec => []CacheInv
<1>1. Init => CacheInv
  BY DEF Init, CacheInv, CacheTransparent, HasMapped
<1>2. CacheInv /\ [Next]_vars => CacheInv'
  <2> SUFFICES ASSUME CacheInv, [Next]_vars PROVE CacheInv'
    OBVIOUS
  <2>1. ASSUME NEW c \in Configs, Compile(c) PROVE CacheInv'
    <3>1. phase' = "ready" /\ c \in DOMAIN Mappings /\ mapping' \in Mappings[c]
      BY <2>1 DEF Compile
    <3>2. IsMapping(mapping')
      BY <3>1, MappingsAre
    <3>3. IsMapping(mapping)'
      BY <3>2
    <3> QED BY <3>1, <3>3 DEF CacheInv, CacheTransparent, HasMapped
  <2>2. ASSUME NEW c \in Configs, RejectConfig(c) PROVE CacheInv'
    <3>1. phase' = "idle"
      BY <2>2 DEF RejectConfig
    <3> QED BY <3>1 DEF CacheInv, CacheTransparent, HasMapped
  <2>3. ASSUME NEW d \in Documents, NEW e \in Envelopes, StartCall(d, FALSE, e) PROVE CacheInv'
    <3>1. d \in Terms
      BY InputsAssumption
    <3> QED BY <2>3, <3>1, StartKeeps
  <2>4. ASSUME NEW d \in Documents, NEW e \in Envelopes, StartCall(FlatDocuments[d], TRUE, e)
        PROVE  CacheInv'
    BY <2>4, StartKeeps
  <2>5. ASSUME RefuseCall PROVE CacheInv'
    BY <2>5 DEF RefuseCall, CacheInv, CacheTransparent, HasMapped
  <2>6. ASSUME MapNextField PROVE CacheInv'
    BY <2>6, NextFieldKeeps
  <2>7. ASSUME mapping' = mapping, phase \in {"mapping", "writing"}, phase' \in {"ready", "writing"}
        PROVE  CacheInv'
    BY <2>7 DEF CacheInv, CacheTransparent, HasMapped
  <2>8. ASSUME \/ RaiseInField \/ ReturnMap \/ ReturnNdjson \/ StartRow \/ WriteCell
               \/ FailRow \/ FinishRow
        PROVE  CacheInv'
    <3>1. CASE ReturnMap
      BY <2>7, <3>1 DEF ReturnMap, AllMapped, Answer
    <3>2. CASE ReturnNdjson
      BY <2>7, <3>2 DEF ReturnNdjson, AllMapped, Answer
    <3>3. CASE StartRow
      BY <2>7, <3>3 DEF StartRow, AllMapped
    <3>4. CASE WriteCell
      BY <2>7, <3>4 DEF WriteCell, Writing
    <3>5. CASE FailRow
      BY <2>7, <3>5 DEF FailRow, Writing, Answer
    <3>6. CASE FinishRow
      BY <2>7, <3>6 DEF FinishRow, Answer
    <3>7. CASE RaiseInField
      BY <2>7, <3>7 DEF RaiseInField, FieldsLeft, Answer
    <3> QED BY <2>8, <3>1, <3>2, <3>3, <3>4, <3>5, <3>6, <3>7
  <2>9. CASE UNCHANGED vars
    <3>1. /\ phase' = phase /\ mapping' = mapping /\ call' = call /\ values' = values
          /\ cache' = cache
      BY <2>9 DEF vars
    <3>2. CacheTransparent'
      <4>1. CacheTransparent
        BY DEF CacheInv
      <4> QED BY <3>1, <4>1 DEF CacheTransparent, HasMapped, Value, Outputs, UncachedField,
                                config
    <3> QED BY <3>1, <3>2 DEF CacheInv, CallView
  <2> QED BY <2>1, <2>2, <2>3, <2>4, <2>5, <2>6, <2>8, <2>9 DEF Next
<1> QED BY <1>1, <1>2, PTL DEF Spec

\* Every field has the value it would have without any cache, whichever fields
\* were mapped before it and in whatever order the root keys got their slots.
THEOREM CacheNeverShows == Spec => []CacheTransparent
<1>1. CacheInv => CacheTransparent
  BY DEF CacheInv
<1> QED BY <1>1, CacheInvariant, PTL
==============================================================================
