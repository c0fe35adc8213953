-------------------------- MODULE RenderScopeProofs --------------------------
(***************************************************************************)
(* Theorems about RenderScope for any templates, names, values and depth   *)
(* of includes, however the constructs of a render nest.                   *)
(***************************************************************************)
EXTENDS RenderScope, FiniteSetTheorems, SequenceTheorems, WellFoundedInduction, TLAPS

----------------------------------------------------------------------------
(* Places.                                                                 *)

\* A nonempty set of numbers up to n has a largest one.
LEMMA LargestExists ==
    ASSUME NEW n \in Nat, NEW S \in SUBSET (0..n), S # {}
    PROVE  Innermost(S) \in S /\ \A j \in S : j <= Innermost(S)
<1> DEFINE T == {m \in 0..n : n - m \in S}
<1>1. T \subseteq Nat /\ T # {}
  <2>1. PICK i \in 0..n : i \in S
    OBVIOUS
  <2>2. PICK m \in 0..n : m = n - i /\ n - m = i
    BY <2>1
  <2>3. m \in T
    BY <2>1, <2>2
  <2>4. T \subseteq Nat
    OBVIOUS
  <2> HIDE DEF T
  <2> QED  BY <2>3, <2>4
<1>2. PICK m \in T : \A k \in T : ~ (<<k, m>> \in OpToRel(<, Nat))
  <2> HIDE DEF T
  <2> QED  BY <1>1, NatLessThanWellFounded, WFMin
<1>3. \A k \in T : m <= k
  <2> SUFFICES ASSUME NEW k \in T PROVE m <= k
    OBVIOUS
  <2>1. k \in Nat /\ m \in Nat /\ ~ (k < m)
    BY <1>1, <1>2 DEF OpToRel
  <2> QED  BY <2>1
<1>4. n - m \in S /\ \A j \in S : j <= n - m
  <2> SUFFICES ASSUME NEW j \in S PROVE j <= n - m
    OBVIOUS
  <2>1. n - j \in T
    <3>1. n - (n - j) = j /\ n - j \in 0..n
      OBVIOUS
    <3> QED  BY <3>1
  <2>2. m <= n - j
    BY <1>3, <2>1
  <2> QED  BY <2>2
<1> QED  BY <1>4 DEF Innermost

\* The largest one is the only one.
LEMMA InnermostIs ==
    ASSUME NEW S \in SUBSET Nat, NEW i \in S, \A j \in S : j <= i
    PROVE  Innermost(S) = i
<1> DEFINE m == CHOOSE k \in S : \A j \in S : j <= k
<1>1. m \in S /\ \A j \in S : j <= m
  OBVIOUS
<1> HIDE DEF m
<1>2. m <= i /\ i <= m /\ m \in Nat /\ i \in Nat
  BY <1>1
<1>3. m = i
  BY <1>2
<1> QED  BY <1>3 DEF Innermost, m

\* The places in a set of numbers, one after the other.
LEMMA RankFacts ==
    ASSUME NEW n \in Nat, NEW S \in SUBSET (1..n)
    PROVE  /\ IsFiniteSet(S) /\ Cardinality(S) \in Nat /\ Cardinality(S) <= n
           /\ \A k \in S : Rank(S, k) \in 1..Cardinality(S)
           /\ \A j, k \in S : j < k => Rank(S, j) < Rank(S, k)
           /\ \A i \in 1..Cardinality(S) : \E k \in S : Rank(S, k) = i
<1>1. IsFiniteSet(S) /\ Cardinality(S) \in Nat /\ Cardinality(S) <= n
  <2>1. IsFiniteSet(1..n) /\ Cardinality(1..n) = n
    BY FS_Interval
  <2> QED  BY <2>1, FS_Subset, FS_CardinalityType
<1>0. \A k \in S : k \in Nat
  OBVIOUS
<1> DEFINE Up(k) == {j \in S : j <= k}
<1>2. \A k : IsFiniteSet(Up(k)) /\ Cardinality(Up(k)) \in Nat /\ Cardinality(Up(k)) <= Cardinality(S)
  BY <1>1, FS_Subset, FS_CardinalityType
<1>3. ASSUME NEW k \in S PROVE Rank(S, k) \in 1..Cardinality(S)
  <2>1. k \in Up(k)
    BY <1>0
  <2>2. Cardinality(Up(k)) # 0
    BY <1>2, <2>1, FS_EmptySet
  <2> QED  BY <1>1, <1>2, <2>2 DEF Rank
<1>4. ASSUME NEW j \in S, NEW k \in S, j < k PROVE Rank(S, j) < Rank(S, k)
  <2>0. j \in Nat /\ k \in Nat
    BY <1>0
  <2>1. ~ (k <= j) /\ \A i \in Nat : i <= j => i <= k
    BY <1>4, <2>0
  <2>2. \A i : i \in Up(j) => i \in Up(k)
    BY <1>0, <2>1
  <2>3. k \in Up(k) /\ k \notin Up(j)
    BY <2>0, <2>1
  <2> HIDE DEF Up
  <2>6. Up(j) # Up(k) /\ Up(j) \in SUBSET Up(k)
    BY <2>2, <2>3
  <2>4. Cardinality(Up(j)) <= Cardinality(Up(k)) /\ Cardinality(Up(j)) # Cardinality(Up(k))
    BY <1>2, <2>6, FS_Subset
  <2>5. Cardinality(Up(j)) < Cardinality(Up(k))
    BY <1>2, <2>4
  <2> QED  BY <2>5 DEF Rank, Up
<1>5. ASSUME NEW i \in 1..Cardinality(S) PROVE \E k \in S : Rank(S, k) = i
  <2> DEFINE f == [k \in S |-> Rank(S, k)]
  <2>1. f \in Injection(S, 1..Cardinality(S))
    <3>1. f \in [S -> 1..Cardinality(S)]
      BY <1>3
    <3>2. ASSUME NEW a \in S, NEW b \in S, f[a] = f[b] PROVE a = b
      <4>1. Rank(S, a) = Rank(S, b) /\ Rank(S, a) \in Nat
        BY <1>3, <3>2
      <4>2. ~ (a < b) /\ ~ (b < a)
        BY <1>4, <4>1
      <4> QED  BY <1>0, <4>2
    <3> QED  BY <3>1, <3>2 DEF Injection, IsInjective
  <2>2. IsFiniteSet(1..Cardinality(S)) /\ Cardinality(1..Cardinality(S)) = Cardinality(S)
    BY <1>1, FS_Interval
  <2>3. f \in Surjection(S, 1..Cardinality(S))
    <3> HIDE DEF f
    <3> QED  BY <2>1, <2>2, FS_Injection
  <2> QED  BY <2>3 DEF Surjection
<1> QED  BY <1>1, <1>3, <1>4, <1>5

\* One more call on top takes the next place and leaves the others theirs.
LEMMA RankAdd ==
    ASSUME NEW n \in Nat, NEW S \in SUBSET (1..n)
    PROVE  /\ Cardinality(S \cup {n + 1}) = Cardinality(S) + 1
           /\ Rank(S \cup {n + 1}, n + 1) = Cardinality(S) + 1
           /\ \A k \in S : Rank(S \cup {n + 1}, k) = Rank(S, k)
<1> DEFINE T == S \cup {n + 1}
<1>0. \A k \in S : k \in Nat /\ k < n + 1
  OBVIOUS
<1>1. Cardinality(T) = Cardinality(S) + 1
  <2>1. IsFiniteSet(S) /\ n + 1 \notin S
    BY <1>0, RankFacts
  <2> QED  BY <2>1, FS_AddElement
<1>2. {j \in T : j <= n + 1} = T
  <2>1. \A j \in T : j <= n + 1
    BY <1>0
  <2> HIDE DEF T
  <2> QED  BY <2>1
<1>3. \A k \in S : {j \in T : j <= k} = {j \in S : j <= k}
  BY <1>0
<1>4. Rank(T, n + 1) = Cardinality(S) + 1
  <2> HIDE DEF T
  <2> QED  BY <1>1, <1>2 DEF Rank
<1>5. \A k \in S : Rank(T, k) = Rank(S, k)
  <2> SUFFICES ASSUME NEW k \in S PROVE Rank(T, k) = Rank(S, k)
    OBVIOUS
  <2>1. {j \in T : j <= k} = {j \in S : j <= k}
    BY <1>3
  <2> QED  BY <2>1 DEF Rank
<1> QED  BY <1>1, <1>4, <1>5

----------------------------------------------------------------------------
(* Stacks.                                                                 *)

Below(v, n) == DOMAIN v \subseteq 1..n

\* What is known of a stack: each entry is that of one call.
LEMMA StackedFacts ==
    ASSUME NEW n \in Nat, NEW s, NEW v, Below(v, n), Stacked(s, v)
    PROVE  /\ Cardinality(DOMAIN v) \in Nat /\ DOMAIN s = 1..Cardinality(DOMAIN v)
           /\ \A k \in DOMAIN v : Rank(DOMAIN v, k) \in DOMAIN s /\ s[Rank(DOMAIN v, k)] = v[k]
           /\ \A i \in DOMAIN s : \E k \in DOMAIN v : Rank(DOMAIN v, k) = i /\ s[i] = v[k]
<1>1. PICK S : S = DOMAIN v /\ S \in SUBSET (1..n)
  BY DEF Below
<1>2. /\ Cardinality(S) \in Nat
      /\ \A k \in S : Rank(S, k) \in 1..Cardinality(S)
      /\ \A i \in 1..Cardinality(S) : \E k \in S : Rank(S, k) = i
  BY <1>1, RankFacts
<1> QED  BY <1>1, <1>2 DEF Stacked

\* The innermost call whose entry is in X is the innermost place whose entry is in X.
LEMMA StackedInnermost ==
    ASSUME NEW n \in Nat, NEW s, NEW v, Below(v, n), Stacked(s, v),
           NEW X, NEW K \in DOMAIN v, v[K] \in X, \A k \in DOMAIN v : v[k] \in X => k <= K
    PROVE  /\ Rank(DOMAIN v, K) \in DOMAIN s /\ s[Rank(DOMAIN v, K)] = v[K]
           /\ \A i \in DOMAIN s : s[i] \in X => i <= Rank(DOMAIN v, K)
           /\ \A T : (\A i : i \in T <=> i \in DOMAIN s /\ s[i] \in X)
                     => Innermost(T) = Rank(DOMAIN v, K)
<1>1. PICK S : S = DOMAIN v /\ S \in SUBSET (1..n)
  BY DEF Below
<1>2. \A j, k \in S : j < k => Rank(S, j) < Rank(S, k)
  BY <1>1, RankFacts
<1>3. \A k \in S : k \in Nat /\ Rank(S, k) \in Nat
  BY <1>1, RankFacts
<1>4. Rank(S, K) \in DOMAIN s /\ s[Rank(S, K)] = v[K]
  BY <1>1, StackedFacts
<1>5. ASSUME NEW i \in DOMAIN s, s[i] \in X PROVE i <= Rank(S, K)
  <2>1. PICK k \in S : Rank(S, k) = i /\ s[i] = v[k]
    BY <1>1, StackedFacts
  <2>2. k <= K /\ k \in Nat /\ K \in Nat
    BY <1>1, <1>3, <1>5, <2>1
  <2>3. k = K \/ k < K
    BY <2>2
  <2> QED  BY <1>1, <1>2, <1>3, <2>1, <2>3
<1>6. ASSUME NEW T, \A i : i \in T <=> i \in DOMAIN s /\ s[i] \in X
      PROVE  Innermost(T) = Rank(S, K)
  <2>1. DOMAIN s \subseteq Nat
    BY StackedFacts
  <2>2. T \in SUBSET Nat /\ Rank(S, K) \in T /\ \A j \in T : j <= Rank(S, K)
    BY <1>4, <1>5, <1>6, <2>1
  <2> QED  BY <2>2, InnermostIs
<1> QED  BY <1>1, <1>4, <1>5, <1>6

\* The last call that pushed has the last place.
LEMMA StackedTop ==
    ASSUME NEW n \in Nat, NEW s, NEW v, Below(v, n), Stacked(s, v),
           NEW K \in DOMAIN v, \A k \in DOMAIN v : k <= K
    PROVE  /\ Rank(DOMAIN v, K) = Cardinality(DOMAIN v) /\ s[Cardinality(DOMAIN v)] = v[K]
           /\ Cardinality(DOMAIN v) \in Nat \ {0}
<1>1. PICK S, c : S = DOMAIN v /\ c = Cardinality(S) /\ S \in SUBSET (1..n)
  BY DEF Below
<1>2. {j \in S : j <= K} = S
  BY <1>1
<1>3. Rank(S, K) = c
  BY <1>1, <1>2 DEF Rank
<1>4. Rank(S, K) \in 1..c /\ c \in Nat /\ s[Rank(S, K)] = v[K]
  BY <1>1, StackedFacts
<1> QED  BY <1>1, <1>3, <1>4

\* A slot that is written is there, and no other slot has changed.
Slotted(T, r, s, k, x) ==
    /\ r \in Seq(T) /\ r[k] = x
    /\ Len(r) = IF k <= Len(s) THEN Len(s) ELSE Len(s) + 1
    /\ \A i \in 1..Len(s) : i # k => r[i] = s[i]

LEMMA SlotFacts ==
    ASSUME NEW T, NEW s \in Seq(T), NEW k \in 1..Len(s) + 1, NEW x \in T
    PROVE  Slotted(T, Slot(s, k, x), s, k, x)
<1>1. CASE k <= Len(s)
  <2>1. k \in 1..Len(s)
    BY <1>1
  <2>2. Slot(s, k, x) = [s EXCEPT ![k] = x]
    BY <1>1 DEF Slot
  <2>3. /\ [s EXCEPT ![k] = x] \in Seq(T) /\ Len([s EXCEPT ![k] = x]) = Len(s)
        /\ \A i \in 1..Len(s) : [s EXCEPT ![k] = x][i] = IF i = k THEN x ELSE s[i]
    BY <2>1, ExceptSeq
  <2> QED  BY <1>1, <2>1, <2>2, <2>3 DEF Slotted
<1>2. CASE ~ (k <= Len(s))
  <2>1. Slot(s, k, x) = Append(s, x) /\ k = Len(s) + 1
    BY <1>2 DEF Slot
  <2>2. /\ Append(s, x) \in Seq(T) /\ Len(Append(s, x)) = Len(s) + 1
        /\ Append(s, x)[Len(s) + 1] = x
        /\ \A i \in 1..Len(s) : Append(s, x)[i] = s[i]
    BY AppendProperties
  <2> QED  BY <1>2, <2>1, <2>2 DEF Slotted
<1> QED  BY <1>1, <1>2

\* The sequence without its last element.
LEMMA PopFacts ==
    ASSUME NEW T, NEW s \in Seq(T), s # <<>>
    PROVE  /\ Pop(s) \in Seq(T) /\ Len(Pop(s)) = Len(s) - 1
           /\ \A i \in 1..Len(s) - 1 : Pop(s)[i] = s[i]
<1>1. Len(s) \in Nat \ {0}
  BY EmptySeq
<1>2. PICK n : n = Len(s) - 1
  OBVIOUS
<1>3. n \in Nat /\ 1..n \subseteq 1..Len(s) /\ n - 1 + 1 = n /\ (1 <= n + 1)
  BY <1>1, <1>2
<1>4. /\ SubSeq(s, 1, n) \in Seq(T) /\ Len(SubSeq(s, 1, n)) = n
      /\ \A i \in 1..n : SubSeq(s, 1, n)[i] = s[1 + i - 1]
  BY <1>1, <1>3, SubSeqProperties
<1>5. \A i \in 1..n : 1 + i - 1 = i
  BY <1>3
<1> QED  BY <1>2, <1>4, <1>5 DEF Pop

----------------------------------------------------------------------------
(* The inductive invariant.                                                *)

\* A template has a value for each parameter that has no default, from its include's
\* text or from a constant of its own, and an iteration is at one of its items.
Frames == {f \in FileFrames \cup ForFrames \cup NarrowFrames :
    /\ f.kind = "for" => f.at \in 1..Len(f.items)
    /\ f.kind = "file" =>
          /\ Accepts(f.tmpl, DOMAIN f.with, f.binding)
          /\ f.inlines => f.tmpl \in Files
          /\ f.binding # NoName =>
                f.binding \in IncludeNames /\ f.items \in Lists /\ f.at \in 1..Len(f.items)
          /\ DOMAIN f.given = DOMAIN f.with
          /\ \A n \in DOMAIN f.with :
                \/ f.with[n] = f.given[n]
                \/ \E c \in DOMAIN Consts[f.tmpl] : f.with[n] = Consts[f.tmpl][c]}

Indexes == UNION {[D -> Nat] : D \in SUBSET Names}

\* The variables' types, those of slots that are not active included.
Types ==
    /\ frames \in Seq(Frames)
    /\ cached \in BOOLEAN
    /\ ctx \in Environments
    /\ layers \in Seq(Environments) /\ metas \in Seq(Indexes)
    /\ loops \in Seq([name : Names, value : Values, meta : Nat])
    /\ nLayers \in 0..Len(layers) /\ Len(layers) = Len(metas)
    /\ nLoops \in 0..Len(loops)
    /\ consts \in Seq(Templates) /\ inlines \in Seq(Files) /\ decls \in Seq(Templates)
    /\ narrowed \in Seq(Names)
    /\ depth \in 0..MaxIncludeDepth

\* The outermost call renders the file that the render was asked for.
Rooted ==
    frames # <<>> =>
        /\ IsFile(1) /\ frames[1].tmpl \in Files
        /\ frames[1].binding = NoName /\ ~frames[1].inlines
        /\ ctx = Over(frames[1].with, Defaults[frames[1].tmpl])

\* The layer that a call of an include pushes.
LayerOf(f) ==
    IF f.binding # NoName THEN IterationLayer(f.tmpl, f.with, f.binding, f.items[f.at])
                          ELSE Over(Injected(f.tmpl, f.with), f.with)

HasLayer(f) == f.binding # NoName \/ NeedsLayer(f.tmpl, f.with)

\* What the calls F push on each stack, by call.
ForBinds(F) == [k \in {j \in DOMAIN F : F[j].kind = "for"} |-> <<F[k].binding, F[k].items[F[k].at]>>]
Narrows(F)  == [k \in {j \in DOMAIN F : F[j].kind = "narrow"} |-> F[k].name]
IncludeCalls(F) == {k \in DOMAIN F : F[k].kind = "file" /\ k > 1}
IncludeBinds(F) == [k \in {j \in IncludeCalls(F) : HasLayer(F[j])} |-> LayerOf(F[k])]
ConstFiles(F) ==
    [k \in {j \in DOMAIN F : F[j].kind = "file" /\ (j = 1 => DOMAIN Consts[F[j].tmpl] # {})}
        |-> F[k].tmpl]
InlineFiles(F) == [k \in {j \in DOMAIN F : F[j].kind = "file" /\ F[j].inlines} |-> F[k].tmpl]
DeclFiles(F) ==
    [k \in {j \in DOMAIN F : F[j].kind = "file" /\ Params[F[j].tmpl] # {}} |-> F[k].tmpl]

LoopsNow  == [i \in 1..nLoops |-> <<loops[i].name, loops[i].value>>]
LayersNow == [i \in 1..nLayers |-> layers[i]]

\* ScopeMatchesCalls, with the values that the calls have pushed.
Stacks ==
    /\ Stacked(LoopsNow, ForBinds(frames))
    /\ Stacked(LayersNow, IncludeBinds(frames))
    /\ Stacked(narrowed, Narrows(frames))
    /\ Stacked(consts, ConstFiles(frames))
    /\ Stacked(inlines, InlineFiles(frames))
    /\ Stacked(decls, DeclFiles(frames))
    /\ depth = Cardinality(IncludeCalls(frames))

\* The index that goes with a binding, unless an iterated include has overwritten it.
LoopIndexes ==
    \A k \in Fors :
        frames[k].binding \notin IncludeNames => loops[Rank(Fors, k)].meta = frames[k].at - 1

IncludeIndexes ==
    \A k \in Layering :
        frames[k].binding # NoName /\ (\A j \in Fors : j < k => frames[j].binding # frames[k].binding)
            => metas[Rank(Layering, k)] = Single(frames[k].binding, frames[k].at - 1)

\* The file that a template is in has been called before it, and if no cache is used
\* it is the last that brought its inline templates.
Owned(k) ==
    \E j \in 1..k :
        /\ IsFile(j) /\ frames[j].tmpl = Owner[frames[k].tmpl]
        /\ ~cached => /\ j > 1 => frames[j].inlines
                      /\ \A i \in j + 1..k : IsFile(i) => ~frames[i].inlines

Owners == \A k \in DOMAIN frames : IsFile(k) => Owned(k)

ScopeInv == Types /\ Rooted /\ Stacks /\ LoopIndexes /\ IncludeIndexes /\ Owners

----------------------------------------------------------------------------
(* Calls.                                                                  *)

USE TemplateAssumption

\* What a call is.
LEMMA FrameFacts ==
    ASSUME NEW f \in Frames
    PROVE  /\ f.kind \in {"file", "for", "narrow"}
           /\ f.kind = "for" => /\ f.binding \in Names /\ f.items \in Lists
                                /\ f.at \in 1..Len(f.items) /\ f.items[f.at] \in Values
           /\ f.kind = "narrow" => f.name \in Names
           /\ f.kind = "file" =>
                /\ f \in FileFrames
                /\ f.tmpl \in Templates /\ f.inlines \in BOOLEAN
                /\ f.with \in Environments /\ f.given \in Environments
                /\ f.binding \in IncludeNames \cup {NoName} /\ f.at \in Nat
                /\ f.inlines => f.tmpl \in Files
                /\ Accepts(f.tmpl, DOMAIN f.with, f.binding)
                /\ f.binding # NoName =>
                      /\ f.items \in Lists /\ f.at \in 1..Len(f.items) /\ f.items[f.at] \in Values
                /\ DOMAIN f.given = DOMAIN f.with
                /\ \A n \in DOMAIN f.with :
                      \/ f.with[n] = f.given[n]
                      \/ \E c \in DOMAIN Consts[f.tmpl] : f.with[n] = Consts[f.tmpl][c]
<1>1. \A items \in Lists, i \in Nat : i \in 1..Len(items) => items[i] \in Values
  BY DEF TemplateAssumption
<1>2. CASE f \in ForFrames
  <2>1. f.kind = "for" /\ f.binding \in Names /\ f.items \in Lists /\ f.at \in Nat
    BY <1>2 DEF ForFrames
  <2>2. f.at \in 1..Len(f.items)
    BY <2>1 DEF Frames
  <2> QED  BY <1>1, <2>1, <2>2
<1>3. CASE f \in NarrowFrames
  BY <1>3 DEF NarrowFrames
<1>4. CASE f \in FileFrames
  <2>1. /\ f.kind = "file" /\ f.tmpl \in Templates /\ f.inlines \in BOOLEAN
        /\ f.with \in Environments /\ f.given \in Environments
        /\ f.binding \in Names \cup {NoName} /\ f.at \in Nat
    BY <1>4 DEF FileFrames
  <2>2. /\ Accepts(f.tmpl, DOMAIN f.with, f.binding)
        /\ f.inlines => f.tmpl \in Files
        /\ f.binding # NoName =>
              f.binding \in IncludeNames /\ f.items \in Lists /\ f.at \in 1..Len(f.items)
        /\ DOMAIN f.given = DOMAIN f.with
        /\ \A n \in DOMAIN f.with :
              \/ f.with[n] = f.given[n]
              \/ \E c \in DOMAIN Consts[f.tmpl] : f.with[n] = Consts[f.tmpl][c]
    BY <2>1 DEF Frames
  <2> QED  BY <1>1, <1>4, <2>1, <2>2
<1> QED  BY <1>2, <1>3, <1>4 DEF Frames

\* A stack on which one more call pushes x, or nothing unless c.
Grows(v, w, n, c, x) ==
    /\ Below(v, n)
    /\ DOMAIN w = IF c THEN DOMAIN v \cup {n + 1} ELSE DOMAIN v
    /\ \A k \in DOMAIN v : w[k] = v[k]
    /\ c => w[n + 1] = x

\* The calls G are the calls F and one more, f, with what it pushes.
OneMore(F, G, n, f) ==
    /\ Grows(ForBinds(F), ForBinds(G), n, f.kind = "for", <<f.binding, f.items[f.at]>>)
    /\ Grows(Narrows(F), Narrows(G), n, f.kind = "narrow", f.name)
    /\ Grows(IncludeBinds(F), IncludeBinds(G), n,
             f.kind = "file" /\ n > 0 /\ HasLayer(f), LayerOf(f))
    /\ Grows(ConstFiles(F), ConstFiles(G), n,
             f.kind = "file" /\ (n = 0 => DOMAIN Consts[f.tmpl] # {}), f.tmpl)
    /\ Grows(InlineFiles(F), InlineFiles(G), n, f.kind = "file" /\ f.inlines, f.tmpl)
    /\ Grows(DeclFiles(F), DeclFiles(G), n, f.kind = "file" /\ Params[f.tmpl] # {}, f.tmpl)
    /\ IncludeCalls(F) \in SUBSET (1..n)
    /\ IncludeCalls(G) = IF f.kind = "file" /\ n > 0 THEN IncludeCalls(F) \cup {n + 1}
                                                  ELSE IncludeCalls(F)

LEMMA OneMoreCall ==
    ASSUME NEW n \in Nat, NEW F, NEW G, NEW f, DOMAIN F = 1..n, DOMAIN G = 1..n + 1,
           \A k \in 1..n : G[k] = F[k], G[n + 1] = f
    PROVE  OneMore(F, G, n, f)
<1>0. /\ DOMAIN F = 1..n /\ DOMAIN G = DOMAIN F \cup {n + 1} /\ n + 1 \notin DOMAIN F
      /\ (\A k \in DOMAIN F : G[k] = F[k]) /\ G[n + 1] = f /\ (n + 1 = 1 <=> n = 0)
  OBVIOUS
<1>1. Grows(ForBinds(F), ForBinds(G), n, f.kind = "for", <<f.binding, f.items[f.at]>>)
  <2> DEFINE S == {j \in DOMAIN F : F[j].kind = "for"}
             T == {j \in DOMAIN G : G[j].kind = "for"}
  <2>1. S \subseteq 1..n /\ \A k :
          k \in T <=> k \in S \/ ((f.kind = "for") /\ k = n + 1)
    <3>1. S \subseteq 1..n
      BY <1>0
    <3>2. \A k \in 1..n : k \in T <=> k \in S
      BY <1>0
    <3>3. n + 1 \in T <=> (f.kind = "for")
      BY <1>0
    <3>4. \A k \in T : k \in 1..n \/ k = n + 1
      BY <1>0
    <3> QED  BY <1>0, <3>1, <3>2, <3>3, <3>4
  <2>2. DOMAIN ForBinds(F) = S /\ DOMAIN ForBinds(G) = T
    BY DEF ForBinds
  <2>3. /\ \A k \in S : ForBinds(F)[k] = <<F[k].binding, F[k].items[F[k].at]>>
        /\ \A k \in T : ForBinds(G)[k] = <<G[k].binding, G[k].items[G[k].at]>>
    BY DEF ForBinds
  <2> HIDE DEF S, T
  <2>4. CASE f.kind = "for"
    <3>1. T = S \cup {n + 1}
      BY <2>1, <2>4
    <3>2. \A k \in S : ForBinds(G)[k] = ForBinds(F)[k]
      <4> SUFFICES ASSUME NEW k \in S PROVE ForBinds(G)[k] = ForBinds(F)[k]
        OBVIOUS
      <4>1. G[k] = F[k] /\ k \in T
        BY <1>0, <2>1
      <4> QED  BY <2>3, <4>1
    <3>3. ForBinds(G)[n + 1] = <<f.binding, f.items[f.at]>>
      <4>1. n + 1 \in T /\ G[n + 1] = f
        BY <1>0, <3>1
      <4> QED  BY <2>3, <4>1
    <3> QED  BY <2>1, <2>2, <2>4, <3>1, <3>2, <3>3 DEF Grows, Below
  <2>5. CASE ~ (f.kind = "for")
    <3>1. T = S
      BY <2>1, <2>5
    <3>2. \A k \in S : ForBinds(G)[k] = ForBinds(F)[k]
      <4> SUFFICES ASSUME NEW k \in S PROVE ForBinds(G)[k] = ForBinds(F)[k]
        OBVIOUS
      <4>1. G[k] = F[k] /\ k \in T
        BY <1>0, <2>1
      <4> QED  BY <2>3, <4>1
    <3> QED  BY <2>1, <2>2, <2>5, <3>1, <3>2 DEF Grows, Below
  <2> QED  BY <2>4, <2>5
<1>2. Grows(Narrows(F), Narrows(G), n, f.kind = "narrow", f.name)
  BY DEF Grows, Below, Narrows
<1>3. Grows(IncludeBinds(F), IncludeBinds(G), n,
            f.kind = "file" /\ n > 0 /\ HasLayer(f), LayerOf(f))
  BY DEF Grows, Below, IncludeBinds, IncludeCalls
<1>4. Grows(ConstFiles(F), ConstFiles(G), n,
            f.kind = "file" /\ (n = 0 => DOMAIN Consts[f.tmpl] # {}), f.tmpl)
  <2> DEFINE S == {j \in DOMAIN F : F[j].kind = "file" /\ (j = 1 => DOMAIN Consts[F[j].tmpl] # {})}
             T == {j \in DOMAIN G : G[j].kind = "file" /\ (j = 1 => DOMAIN Consts[G[j].tmpl] # {})}
  <2>1. S \subseteq 1..n /\ \A k :
          k \in T <=> k \in S \/ ((f.kind = "file" /\ (n = 0 => DOMAIN Consts[f.tmpl] # {})) /\ k = n + 1)
    <3>1. S \subseteq 1..n
      BY <1>0
    <3>2. \A k \in 1..n : k \in T <=> k \in S
      BY <1>0
    <3>3. n + 1 \in T <=> (f.kind = "file" /\ (n = 0 => DOMAIN Consts[f.tmpl] # {}))
      BY <1>0
    <3>4. \A k \in T : k \in 1..n \/ k = n + 1
      BY <1>0
    <3> QED  BY <1>0, <3>1, <3>2, <3>3, <3>4
  <2>2. DOMAIN ConstFiles(F) = S /\ DOMAIN ConstFiles(G) = T
    BY DEF ConstFiles
  <2>3. /\ \A k \in S : ConstFiles(F)[k] = F[k].tmpl
        /\ \A k \in T : ConstFiles(G)[k] = G[k].tmpl
    BY DEF ConstFiles
  <2> HIDE DEF S, T
  <2>4. CASE f.kind = "file" /\ (n = 0 => DOMAIN Consts[f.tmpl] # {})
    <3>1. T = S \cup {n + 1}
      BY <2>1, <2>4
    <3>2. \A k \in S : ConstFiles(G)[k] = ConstFiles(F)[k]
      <4> SUFFICES ASSUME NEW k \in S PROVE ConstFiles(G)[k] = ConstFiles(F)[k]
        OBVIOUS
      <4>1. G[k] = F[k] /\ k \in T
        BY <1>0, <2>1
      <4> QED  BY <2>3, <4>1
    <3>3. ConstFiles(G)[n + 1] = f.tmpl
      <4>1. n + 1 \in T /\ G[n + 1] = f
        BY <1>0, <3>1
      <4> QED  BY <2>3, <4>1
    <3> QED  BY <2>1, <2>2, <2>4, <3>1, <3>2, <3>3 DEF Grows, Below
  <2>5. CASE ~ (f.kind = "file" /\ (n = 0 => DOMAIN Consts[f.tmpl] # {}))
    <3>1. T = S
      BY <2>1, <2>5
    <3>2. \A k \in S : ConstFiles(G)[k] = ConstFiles(F)[k]
      <4> SUFFICES ASSUME NEW k \in S PROVE ConstFiles(G)[k] = ConstFiles(F)[k]
        OBVIOUS
      <4>1. G[k] = F[k] /\ k \in T
        BY <1>0, <2>1
      <4> QED  BY <2>3, <4>1
    <3> QED  BY <2>1, <2>2, <2>5, <3>1, <3>2 DEF Grows, Below
  <2> QED  BY <2>4, <2>5
<1>5. Grows(InlineFiles(F), InlineFiles(G), n, f.kind = "file" /\ f.inlines, f.tmpl)
  BY DEF Grows, Below, InlineFiles
<1>6. Grows(DeclFiles(F), DeclFiles(G), n, f.kind = "file" /\ Params[f.tmpl] # {}, f.tmpl)
  <2> DEFINE S == {j \in DOMAIN F : F[j].kind = "file" /\ Params[F[j].tmpl] # {}}
             T == {j \in DOMAIN G : G[j].kind = "file" /\ Params[G[j].tmpl] # {}}
  <2>1. S \subseteq 1..n /\ \A k :
          k \in T <=> k \in S \/ ((f.kind = "file" /\ Params[f.tmpl] # {}) /\ k = n + 1)
    <3>1. S \subseteq 1..n
      BY <1>0
    <3>2. \A k \in 1..n : k \in T <=> k \in S
      BY <1>0
    <3>3. n + 1 \in T <=> (f.kind = "file" /\ Params[f.tmpl] # {})
      BY <1>0
    <3>4. \A k \in T : k \in 1..n \/ k = n + 1
      BY <1>0
    <3> QED  BY <1>0, <3>1, <3>2, <3>3, <3>4
  <2>2. DOMAIN DeclFiles(F) = S /\ DOMAIN DeclFiles(G) = T
    BY DEF DeclFiles
  <2>3. /\ \A k \in S : DeclFiles(F)[k] = F[k].tmpl
        /\ \A k \in T : DeclFiles(G)[k] = G[k].tmpl
    BY DEF DeclFiles
  <2> HIDE DEF S, T
  <2>4. CASE f.kind = "file" /\ Params[f.tmpl] # {}
    <3>1. T = S \cup {n + 1}
      BY <2>1, <2>4
    <3>2. \A k \in S : DeclFiles(G)[k] = DeclFiles(F)[k]
      <4> SUFFICES ASSUME NEW k \in S PROVE DeclFiles(G)[k] = DeclFiles(F)[k]
        OBVIOUS
      <4>1. G[k] = F[k] /\ k \in T
        BY <1>0, <2>1
      <4> QED  BY <2>3, <4>1
    <3>3. DeclFiles(G)[n + 1] = f.tmpl
      <4>1. n + 1 \in T /\ G[n + 1] = f
        BY <1>0, <3>1
      <4> QED  BY <2>3, <4>1
    <3> QED  BY <2>1, <2>2, <2>4, <3>1, <3>2, <3>3 DEF Grows, Below
  <2>5. CASE ~ (f.kind = "file" /\ Params[f.tmpl] # {})
    <3>1. T = S
      BY <2>1, <2>5
    <3>2. \A k \in S : DeclFiles(G)[k] = DeclFiles(F)[k]
      <4> SUFFICES ASSUME NEW k \in S PROVE DeclFiles(G)[k] = DeclFiles(F)[k]
        OBVIOUS
      <4>1. G[k] = F[k] /\ k \in T
        BY <1>0, <2>1
      <4> QED  BY <2>3, <4>1
    <3> QED  BY <2>1, <2>2, <2>5, <3>1, <3>2 DEF Grows, Below
  <2> QED  BY <2>4, <2>5
<1>7. /\ IncludeCalls(F) \in SUBSET (1..n)
      /\ IncludeCalls(G) = IF f.kind = "file" /\ n > 0 THEN IncludeCalls(F) \cup {n + 1}
                                                     ELSE IncludeCalls(F)
  BY DEF IncludeCalls
<1> QED  BY <1>1, <1>2, <1>3, <1>4, <1>5, <1>6, <1>7 DEF OneMore

\* A stack that the call leaves alone, and one that it pushes on or pops from.
LEMMA GrowsKept ==
    ASSUME NEW n \in Nat, NEW v, NEW w, NEW c, NEW x, Grows(v, w, n, c, x), ~c, NEW s, NEW r,
           DOMAIN r = DOMAIN s, \A i \in DOMAIN s : r[i] = s[i]
    PROVE  (Stacked(s, v) => Stacked(r, w)) /\ (Stacked(s, w) => Stacked(r, v))
<1>1. PICK S : S = DOMAIN v
  OBVIOUS
<1>2. DOMAIN w = S /\ Below(v, n) /\ Below(w, n) /\ \A k \in S : w[k] = v[k]
  BY <1>1 DEF Grows, Below
<1>3. ASSUME Stacked(s, v) PROVE Stacked(r, w)
  <2>1. \A k \in S : Rank(S, k) \in DOMAIN s /\ s[Rank(S, k)] = v[k]
    BY <1>1, <1>2, <1>3, StackedFacts
  <2> QED  BY <1>1, <1>2, <1>3, <2>1 DEF Stacked
<1>4. ASSUME Stacked(s, w) PROVE Stacked(r, v)
  <2>1. \A k \in S : Rank(S, k) \in DOMAIN s /\ s[Rank(S, k)] = w[k]
    BY <1>1, <1>2, <1>4, StackedFacts
  <2> QED  BY <1>1, <1>2, <1>4, <2>1 DEF Stacked
<1> QED  BY <1>3, <1>4

Pushed(r, s, m, x) ==
    /\ DOMAIN s = 1..m /\ DOMAIN r = 1..m + 1
    /\ \A i \in 1..m : r[i] = s[i]
    /\ r[m + 1] = x

LEMMA GrowsPush ==
    ASSUME NEW n \in Nat, NEW v, NEW w, NEW c, NEW x, Grows(v, w, n, c, x), c,
           NEW m \in Nat, NEW s, Stacked(s, v), NEW r, Pushed(r, s, m, x)
    PROVE  Stacked(r, w)
<1> USE DEF Pushed
<1>1. PICK S : S = DOMAIN v
  OBVIOUS
<1>2. /\ S \in SUBSET (1..n) /\ Below(v, n) /\ DOMAIN w = S \cup {n + 1}
      /\ \A k \in S : w[k] = v[k]
      /\ w[n + 1] = x
  BY <1>1 DEF Grows, Below
<1>3. Cardinality(S) = m
  <2>1. 1..Cardinality(S) = 1..m /\ Cardinality(S) \in Nat
    BY <1>1, <1>2, StackedFacts
  <2>2. \A i \in Nat : i \in 1..Cardinality(S) <=> i \in 1..m
    BY <2>1
  <2> QED  BY <2>1, <2>2
<1>4. /\ Cardinality(S \cup {n + 1}) = m + 1 /\ Rank(S \cup {n + 1}, n + 1) = m + 1
      /\ \A k \in S : Rank(S \cup {n + 1}, k) = Rank(S, k)
  BY <1>2, <1>3, RankAdd
<1>5. \A k \in S : Rank(S, k) \in 1..m /\ s[Rank(S, k)] = v[k]
  BY <1>1, <1>2, StackedFacts
<1>6. PICK T : T = S \cup {n + 1}
  OBVIOUS
<1>7. DOMAIN w = T /\ Cardinality(T) = m + 1 /\ Rank(T, n + 1) = m + 1
  BY <1>2, <1>4, <1>6
<1>8. ASSUME NEW k \in T PROVE r[Rank(T, k)] = w[k]
  <2>1. CASE k \in S
    <3>1. Rank(T, k) = Rank(S, k) /\ w[k] = v[k]
      BY <1>2, <1>4, <1>6, <2>1
    <3>2. Rank(S, k) \in 1..m /\ s[Rank(S, k)] = v[k]
      BY <1>5, <2>1
    <3>3. r[Rank(S, k)] = s[Rank(S, k)]
      BY <3>2
    <3> QED  BY <3>1, <3>2, <3>3
  <2>2. CASE k = n + 1
    BY <1>2, <1>7, <2>2
  <2> QED  BY <1>6, <2>1, <2>2
<1> QED  BY <1>7, <1>8 DEF Stacked

Popped(r, s, m, y) ==
    /\ DOMAIN s = 1..m /\ DOMAIN r = 1..m - 1
    /\ \A i \in 1..m - 1 : r[i] = s[i]
    /\ s[m] = y

LEMMA GrowsPop ==
    ASSUME NEW n \in Nat, NEW v, NEW w, NEW c, NEW x, Grows(v, w, n, c, x), c,
           NEW m \in Nat, NEW s, Stacked(s, w), NEW r, NEW y, Popped(r, s, m, y)
    PROVE  Stacked(r, v) /\ m > 0 /\ Popped(r, s, m, x)
<1> USE DEF Popped
<1>1. PICK S : S = DOMAIN v
  OBVIOUS
<1>2. /\ S \in SUBSET (1..n) /\ DOMAIN w = S \cup {n + 1}
      /\ \A k \in S : w[k] = v[k]
      /\ w[n + 1] = x
  BY <1>1 DEF Grows, Below
<1>3. PICK p : p = Cardinality(S)
  OBVIOUS
<1>4. /\ Cardinality(S \cup {n + 1}) = p + 1 /\ Rank(S \cup {n + 1}, n + 1) = p + 1
      /\ \A k \in S : Rank(S \cup {n + 1}, k) = Rank(S, k)
  BY <1>2, <1>3, RankAdd
<1>5. p \in Nat /\ \A k \in S : Rank(S, k) \in 1..p
  BY <1>2, <1>3, RankFacts
<1>6. PICK T : T = S \cup {n + 1}
  OBVIOUS
<1>7. /\ DOMAIN w = T /\ Cardinality(T) = p + 1 /\ Rank(T, n + 1) = p + 1
      /\ n + 1 \in T
      /\ \A k \in S : k \in T /\ Rank(T, k) = Rank(S, k)
  BY <1>2, <1>4, <1>6
<1>8. 1..m = 1..p + 1 /\ \A k \in T : s[Rank(T, k)] = w[k]
  BY <1>7 DEF Stacked
<1>9. m = p + 1
  <2>1. \A i \in Nat : i \in 1..m <=> i \in 1..p + 1
    BY <1>8
  <2>0. m \in 1..m \/ m = 0
    OBVIOUS
  <2>2. m \in 1..p + 1 \/ m = 0
    BY <2>0, <2>1
  <2>3. p + 1 \in 1..m
    <3>1. p + 1 \in 1..p + 1
      BY <1>5
    <3> QED  BY <1>8, <3>1
  <2> QED  BY <1>5, <2>2, <2>3
<1>10. DOMAIN r = 1..p /\ \A i \in 1..p : r[i] = s[i]
  BY <1>5, <1>9
<1>11. \A k \in S : r[Rank(S, k)] = v[k]
  BY <1>2, <1>5, <1>7, <1>8, <1>10
<1>12. Stacked(r, v)
  BY <1>1, <1>3, <1>10, <1>11 DEF Stacked
<1>13. y = x
  BY <1>2, <1>7, <1>8, <1>9
<1>14. m > 0
  BY <1>5, <1>9
<1> QED  BY <1>12, <1>13, <1>14

\* The places up to a call do not depend on the calls above it.
LEMMA RankKept ==
    ASSUME NEW S, NEW T, NEW k, \A j : j \in S /\ j <= k <=> j \in T /\ j <= k
    PROVE  Rank(S, k) = Rank(T, k)
<1>1. {j \in S : j <= k} = {j \in T : j <= k}
  OBVIOUS
<1> QED  BY <1>1 DEF Rank

\* Entering a construct: what is on the stacks grows by what it pushes.
LEMMA Calling ==
    ASSUME Types, NEW f \in Frames, Call(f), NEW n, n = Len(frames)
    PROVE  /\ n \in Nat /\ DOMAIN frames = 1..n /\ DOMAIN frames' = 1..n + 1
           /\ frames' \in Seq(Frames) /\ frames' # <<>> /\ Len(frames') = n + 1
           /\ \A k \in 1..n : frames'[k] = frames[k]
           /\ frames'[n + 1] = f
           /\ OneMore(frames, frames', n, f)
<1>1. PICK G : G = frames'
  OBVIOUS
<1>2. G = Append(frames, f) /\ frames \in Seq(Frames)
  BY <1>1 DEF Call, Types
<1>3. n \in Nat /\ DOMAIN frames = 1..n
  BY <1>2
<1>4. /\ G \in Seq(Frames) /\ Len(G) = n + 1 /\ \A k \in 1..n : G[k] = frames[k]
      /\ G[n + 1] = f
  BY <1>2, <1>3, AppendProperties
<1>5. DOMAIN G = 1..n + 1 /\ G # <<>>
  BY <1>3, <1>4
<1>6. \A k \in 1..n : G[k] = frames[k]
  BY <1>4
<1>7. OneMore(frames, G, n, f)
  BY <1>3, <1>4, <1>5, <1>6, OneMoreCall
<1> QED  BY <1>1, <1>3, <1>4, <1>5, <1>6, <1>7

\* Leaving one: what is on the stacks had grown so.
LEMMA Returning ==
    ASSUME Types, frames # <<>>, Return, NEW n, n = Len(frames) - 1, NEW f, f = Top
    PROVE  /\ n \in Nat /\ DOMAIN frames = 1..n + 1 /\ DOMAIN frames' = 1..n
           /\ frames' \in Seq(Frames) /\ f \in Frames /\ Len(frames') = n
           /\ \A k \in 1..n : frames'[k] = frames[k]
           /\ frames[n + 1] = f
           /\ OneMore(frames', frames, n, f)
<1>1. PICK G : G = frames'
  OBVIOUS
<1>2. G = Pop(frames) /\ frames \in Seq(Frames)
  BY <1>1 DEF Return, Pop, Types
<1>3. n \in Nat /\ DOMAIN frames = 1..n + 1 /\ Len(frames) = n + 1
  BY <1>2, EmptySeq
<1>4. /\ G \in Seq(Frames) /\ Len(G) = n
      /\ \A k \in 1..n : G[k] = frames[k]
  BY <1>2, <1>3, PopFacts
<1>5. DOMAIN G = 1..n
  BY <1>3, <1>4
<1>6. frames[n + 1] = f /\ f \in Frames
  BY <1>2, <1>3 DEF Top
<1>7. \A k \in 1..n : frames[k] = G[k]
  BY <1>4
<1>8. OneMore(G, frames, n, f)
  BY <1>3, <1>4, <1>5, <1>6, <1>7, OneMoreCall
<1> QED  BY <1>1, <1>3, <1>4, <1>5, <1>6, <1>7, <1>8

\* The next item: only the top call's place in its list changes.
LEMMA Advancing ==
    ASSUME Types, frames # <<>>, Advance, Top.kind \in {"for", "file"}, Top.at < Len(Top.items),
           Top.kind = "file" => Top.binding # NoName, NEW n, n = Len(frames)
    PROVE  /\ n \in Nat \ {0} /\ DOMAIN frames = 1..n /\ DOMAIN frames' = 1..n
           /\ frames' \in Seq(Frames) /\ frames' # <<>> /\ frames[n] = Top /\ Top \in Frames
           /\ \A k \in 1..n - 1 : frames'[k] = frames[k]
           /\ frames'[n] = [Top EXCEPT !.at = Top.at + 1]
<1>1. frames \in Seq(Frames) /\ n \in Nat \ {0} /\ DOMAIN frames = 1..n
  BY EmptySeq DEF Types
<1>2. frames[n] = Top /\ Top \in Frames
  BY <1>1 DEF Top
<1>3. PICK f, g : f = Top /\ g = [f EXCEPT !.at = f.at + 1]
  OBVIOUS
<1>4. frames' = [frames EXCEPT ![n] = g]
  BY <1>1, <1>2, <1>3 DEF Advance
<1>5. g \in Frames
  <2>1. CASE f.kind = "for"
    <3>1. f \in ForFrames /\ f.at \in 1..Len(f.items) /\ f.at < Len(f.items) /\ f.items \in Lists
      BY <1>2, <1>3, <2>1, FrameFacts DEF Frames, FileFrames, ForFrames, NarrowFrames
    <3>2. f.at \in Nat /\ Len(f.items) \in Nat
      BY <3>1 DEF TemplateAssumption
    <3>3. /\ g \in ForFrames /\ g.at = f.at + 1 /\ g.items = f.items /\ g.kind = "for"
      BY <1>3, <3>1 DEF ForFrames
    <3>4. g.at \in 1..Len(g.items)
      BY <3>1, <3>2, <3>3
    <3> QED  BY <3>3, <3>4 DEF Frames
  <2>2. CASE f.kind = "file"
    <3>1. /\ f \in FileFrames /\ f.binding # NoName
          /\ f.at \in 1..Len(f.items) /\ f.at < Len(f.items) /\ f.items \in Lists
      BY <1>2, <1>3, <2>2, FrameFacts
    <3>2. f.at \in Nat /\ Len(f.items) \in Nat
      BY <3>1 DEF TemplateAssumption
    <3>3. /\ g \in FileFrames /\ g.at = f.at + 1 /\ g.items = f.items /\ g.kind = "file"
          /\ g.binding = f.binding /\ g.tmpl = f.tmpl /\ g.with = f.with /\ g.given = f.given
          /\ g.inlines = f.inlines
      BY <1>3, <3>1 DEF FileFrames
    <3>4. g.at \in 1..Len(g.items)
      BY <3>1, <3>2, <3>3
    <3>5. /\ Accepts(g.tmpl, DOMAIN g.with, g.binding)
          /\ g.inlines => g.tmpl \in Files
          /\ g.binding # NoName => g.binding \in IncludeNames /\ g.items \in Lists
          /\ DOMAIN g.given = DOMAIN g.with
          /\ \A m \in DOMAIN g.with :
                \/ g.with[m] = g.given[m]
                \/ \E c \in DOMAIN Consts[g.tmpl] : g.with[m] = Consts[g.tmpl][c]
      BY <1>2, <1>3, <2>2, <3>3, FrameFacts
    <3> QED  BY <3>3, <3>4, <3>5 DEF Frames
  <2> QED  BY <1>3, <2>1, <2>2
<1>6. PICK G : G = frames'
  OBVIOUS
<1>7. /\ G \in Seq(Frames) /\ DOMAIN G = 1..n /\ G # <<>>
      /\ \A k \in 1..n : G[k] = IF k = n THEN g ELSE frames[k]
  <2>1. n \in 1..Len(frames)
    BY <1>1
  <2>2. G = [frames EXCEPT ![n] = g]
    BY <1>4, <1>6
  <2>3. /\ G \in Seq(Frames) /\ Len(G) = Len(frames)
        /\ \A k \in 1..Len(frames) : G[k] = IF k = n THEN g ELSE frames[k]
    BY <1>1, <1>5, <2>1, <2>2, ExceptSeq
  <2>4. Len(G) = n
    BY <2>3
  <2>5. DOMAIN G = 1..n /\ G # <<>>
    BY <1>1, <2>3, <2>4
  <2> QED  BY <2>3, <2>5
<1>8. \A k \in 1..n - 1 : k # n /\ k \in 1..n
  BY <1>1
<1>9. G[n] = g /\ \A k \in 1..n - 1 : G[k] = frames[k]
  BY <1>1, <1>7, <1>8
<1> QED  BY <1>1, <1>2, <1>3, <1>6, <1>7, <1>9

\* The calls up to m stay, in all but the place of the last in its list.
SameUpTo(F, G, m) ==
    /\ 1..m \subseteq DOMAIN F /\ 1..m \subseteq DOMAIN G
    /\ \A k \in 1..m :
          /\ F[k].kind = G[k].kind
          /\ F[k].kind = "file" => F[k].tmpl = G[k].tmpl /\ F[k].inlines = G[k].inlines

\* Then the files that their templates are in stay, too.
LEMMA OwnersKept ==
    ASSUME NEW m \in Nat, SameUpTo(frames, frames', m), Owners, cached' = cached
    PROVE  \A k \in 1..m : IsFile(k)' => Owned(k)'
<1> SUFFICES ASSUME NEW k \in 1..m, IsFile(k)' PROVE Owned(k)'
  OBVIOUS
<1>1. IsFile(k) /\ k \in DOMAIN frames /\ frames'[k].tmpl = frames[k].tmpl
  BY DEF SameUpTo, IsFile
<1>2. PICK j \in 1..k : /\ IsFile(j) /\ frames[j].tmpl = Owner[frames[k].tmpl]
                        /\ ~cached => /\ j > 1 => frames[j].inlines
                                      /\ \A i \in j + 1..k : IsFile(i) => ~frames[i].inlines
  BY <1>1 DEF Owners, Owned
<1>3. \A i \in 1..k : i \in 1..m
  OBVIOUS
<1>4. IsFile(j)' /\ frames'[j].tmpl = Owner[frames'[k].tmpl] /\ frames'[j].inlines = frames[j].inlines
  BY <1>1, <1>2, <1>3 DEF SameUpTo, IsFile
<1>5. ASSUME ~cached, NEW i \in j + 1..k, IsFile(i)' PROVE ~frames'[i].inlines
  <2>1. i \in 1..m
    OBVIOUS
  <2>2. IsFile(i) /\ frames'[i].inlines = frames[i].inlines
    BY <1>5, <2>1 DEF SameUpTo, IsFile
  <2> QED  BY <1>2, <1>5, <2>2
<1> QED  BY <1>2, <1>4, <1>5 DEF Owned

\* The stacks, by the calls that pushed on them.
LEMMA StackFacts ==
    ASSUME Types, Stacks
    PROVE  /\ Fors \subseteq DOMAIN frames /\ Layering \subseteq DOMAIN frames
           /\ DOMAIN ForBinds(frames) = Fors /\ DOMAIN IncludeBinds(frames) = Layering
           /\ nLoops = Cardinality(Fors) /\ nLayers = Cardinality(Layering)
           /\ \A k \in Fors : /\ Rank(Fors, k) \in 1..nLoops
                              /\ loops[Rank(Fors, k)].name = frames[k].binding
                              /\ loops[Rank(Fors, k)].value = frames[k].items[frames[k].at]
           /\ \A i \in 1..nLoops : \E k \in Fors : Rank(Fors, k) = i
           /\ \A k \in Layering : /\ Rank(Layering, k) \in 1..nLayers
                                  /\ layers[Rank(Layering, k)] = LayerOf(frames[k])
           /\ \A i \in 1..nLayers : \E k \in Layering : Rank(Layering, k) = i
<1>0. PICK n \in Nat : DOMAIN frames = 1..n
  BY DEF Types
<1>1. /\ Fors \in SUBSET (1..n) /\ Layering \in SUBSET (1..n)
      /\ DOMAIN ForBinds(frames) = Fors /\ DOMAIN IncludeBinds(frames) = Layering
  BY <1>0 DEF Fors, Layering, Includes, ForBinds, IncludeBinds, IncludeCalls, IsFile, HasLayer
<1>2. \A p, q \in Nat : 1..p = 1..q => p = q
  <2> SUFFICES ASSUME NEW p \in Nat, NEW q \in Nat, 1..p = 1..q PROVE p = q
    OBVIOUS
  <2>1. \A i : i \in 1..p <=> i \in 1..q
    OBVIOUS
  <2>2. (p \in 1..p \/ p = 0) /\ (q \in 1..q \/ q = 0)
    OBVIOUS
  <2>3. (p \in 1..q \/ p = 0) /\ (q \in 1..p \/ q = 0)
    BY <2>1, <2>2
  <2> QED  BY <2>3
<1>3. nLoops \in Nat /\ nLayers \in Nat /\ DOMAIN LoopsNow = 1..nLoops /\ DOMAIN LayersNow = 1..nLayers
  BY DEF Types, LoopsNow, LayersNow
<1>4. /\ nLoops = Cardinality(Fors)
      /\ \A k \in Fors : /\ Rank(Fors, k) \in 1..nLoops
                         /\ LoopsNow[Rank(Fors, k)] = ForBinds(frames)[k]
      /\ \A i \in 1..nLoops : \E k \in Fors : Rank(Fors, k) = i
  <2>1. PICK v : v = ForBinds(frames)
    OBVIOUS
  <2>2. Below(v, n) /\ Stacked(LoopsNow, v) /\ DOMAIN v = Fors
    BY <1>1, <2>1 DEF Stacks, Below
  <2>3. PICK s, S : s = LoopsNow /\ S = Fors
    OBVIOUS
  <2>4. /\ Cardinality(S) \in Nat /\ DOMAIN s = 1..Cardinality(S)
        /\ \A k \in S : Rank(S, k) \in DOMAIN s /\ s[Rank(S, k)] = v[k]
        /\ \A i \in DOMAIN s : \E k \in S : Rank(S, k) = i
    <3>1. Below(v, n) /\ Stacked(s, v) /\ S = DOMAIN v
      BY <2>2, <2>3
    <3>2. /\ Cardinality(DOMAIN v) \in Nat /\ DOMAIN s = 1..Cardinality(DOMAIN v)
          /\ \A k \in DOMAIN v : Rank(DOMAIN v, k) \in DOMAIN s /\ s[Rank(DOMAIN v, k)] = v[k]
          /\ \A i \in DOMAIN s : \E k \in DOMAIN v : Rank(DOMAIN v, k) = i /\ s[i] = v[k]
      BY <3>1, StackedFacts
    <3> QED  BY <3>1, <3>2, Zenon
  <2>5. DOMAIN s = 1..nLoops /\ nLoops = Cardinality(S)
    BY <1>2, <1>3, <2>3, <2>4
  <2> QED  BY <2>1, <2>3, <2>4, <2>5
<1>5. /\ nLayers = Cardinality(Layering)
      /\ \A k \in Layering : /\ Rank(Layering, k) \in 1..nLayers
                             /\ LayersNow[Rank(Layering, k)] = IncludeBinds(frames)[k]
      /\ \A i \in 1..nLayers : \E k \in Layering : Rank(Layering, k) = i
  <2>1. PICK v : v = IncludeBinds(frames)
    OBVIOUS
  <2>2. Below(v, n) /\ Stacked(LayersNow, v) /\ DOMAIN v = Layering
    BY <1>1, <2>1 DEF Stacks, Below
  <2>3. PICK s, S : s = LayersNow /\ S = Layering
    OBVIOUS
  <2>4. /\ Cardinality(S) \in Nat /\ DOMAIN s = 1..Cardinality(S)
        /\ \A k \in S : Rank(S, k) \in DOMAIN s /\ s[Rank(S, k)] = v[k]
        /\ \A i \in DOMAIN s : \E k \in S : Rank(S, k) = i
    <3>1. Below(v, n) /\ Stacked(s, v) /\ S = DOMAIN v
      BY <2>2, <2>3
    <3>2. /\ Cardinality(DOMAIN v) \in Nat /\ DOMAIN s = 1..Cardinality(DOMAIN v)
          /\ \A k \in DOMAIN v : Rank(DOMAIN v, k) \in DOMAIN s /\ s[Rank(DOMAIN v, k)] = v[k]
          /\ \A i \in DOMAIN s : \E k \in DOMAIN v : Rank(DOMAIN v, k) = i /\ s[i] = v[k]
      BY <3>1, StackedFacts
    <3> QED  BY <3>1, <3>2, Zenon
  <2>5. DOMAIN s = 1..nLayers /\ nLayers = Cardinality(S)
    BY <1>2, <1>3, <2>3, <2>4
  <2> QED  BY <2>1, <2>3, <2>4, <2>5
<1>6. /\ \A i \in 1..nLoops : LoopsNow[i] = <<loops[i].name, loops[i].value>>
      /\ \A i \in 1..nLayers : LayersNow[i] = layers[i]
  BY DEF LoopsNow, LayersNow
<1>7. /\ \A k \in Fors : ForBinds(frames)[k] = <<frames[k].binding, frames[k].items[frames[k].at]>>
      /\ \A k \in Layering : IncludeBinds(frames)[k] = LayerOf(frames[k])
  <2>1. \A k \in DOMAIN ForBinds(frames) :
            ForBinds(frames)[k] = <<frames[k].binding, frames[k].items[frames[k].at]>>
    BY DEF ForBinds
  <2>2. \A k \in DOMAIN IncludeBinds(frames) : IncludeBinds(frames)[k] = LayerOf(frames[k])
    BY DEF IncludeBinds
  <2> QED  BY <1>1, <2>1, <2>2
<1>8. ASSUME NEW k \in Fors
      PROVE  /\ loops[Rank(Fors, k)].name = frames[k].binding
             /\ loops[Rank(Fors, k)].value = frames[k].items[frames[k].at]
  BY <1>4, <1>6, <1>7
<1>9. ASSUME NEW k \in Layering PROVE layers[Rank(Layering, k)] = LayerOf(frames[k])
  BY <1>5, <1>6, <1>7
<1> QED  BY <1>0, <1>1, <1>4, <1>5, <1>8, <1>9

\* While the calls up to m stay, so do their indexes, if the step leaves those alone
\* that it should.
LEMMA IndexesKept ==
    ASSUME Types, Stacks, LoopIndexes, IncludeIndexes,
           NEW m \in Nat, 1..m \subseteq DOMAIN frames, 1..m \subseteq DOMAIN frames',
           DOMAIN frames' \subseteq Nat \ {0},
           \A k \in 1..m : frames'[k] = frames[k],
           NEW q, \A i \in 1..nLoops : i # q =>
              loops'[i].meta = loops[i].meta \/ loops[i].name \in IncludeNames,
           \A k \in Fors : k <= m => Rank(Fors, k) # q,
           NEW p, \A i \in 1..nLayers : i # p => metas'[i] = metas[i],
           \A k \in Layering : k <= m => Rank(Layering, k) # p
    PROVE  /\ \A k \in 1..m : k \in Fors' /\ frames'[k].binding \notin IncludeNames
                  => loops'[Rank(Fors', k)].meta = frames'[k].at - 1
           /\ \A k \in 1..m : k \in Layering' /\ frames'[k].binding # NoName
                                /\ (\A j \in Fors' : j < k => frames'[j].binding # frames'[k].binding)
                  => metas'[Rank(Layering', k)] = Single(frames'[k].binding, frames'[k].at - 1)
           /\ \A k \in 1..m : /\ k \in Fors' <=> k \in Fors
                              /\ k \in Layering' <=> k \in Layering
                              /\ Rank(Fors', k) = Rank(Fors, k)
                              /\ Rank(Layering', k) = Rank(Layering, k)
<1>1. \A k \in 1..m : (k \in Fors' <=> k \in Fors) /\ (k \in Layering' <=> k \in Layering)
  BY DEF Fors, Layering, Includes, IsFile
<1>2. /\ \A k \in Fors \cup Layering : k \in Nat \ {0}
      /\ \A k \in Fors' \cup Layering' : k \in Nat \ {0}
  BY DEF Types, Fors, Layering, Includes
<1>3. ASSUME NEW k \in 1..m
      PROVE Rank(Fors', k) = Rank(Fors, k) /\ Rank(Layering', k) = Rank(Layering, k)
  <2>1. \A j \in Nat \ {0} : j <= k => j \in 1..m
    OBVIOUS
  <2>2. /\ \A j : j \in Fors' /\ j <= k <=> j \in Fors /\ j <= k
        /\ \A j : j \in Layering' /\ j <= k <=> j \in Layering /\ j <= k
    BY <1>1, <1>2, <2>1
  <2> QED  BY <2>2, RankKept
<1>4. ASSUME NEW k \in 1..m, k \in Fors', frames'[k].binding \notin IncludeNames
      PROVE  loops'[Rank(Fors', k)].meta = frames'[k].at - 1
  <2>1. k \in Fors /\ frames[k] = frames'[k]
    BY <1>1, <1>4
  <2>2. Rank(Fors, k) \in 1..nLoops /\ loops[Rank(Fors, k)].name \notin IncludeNames
    BY <1>4, <2>1, StackFacts
  <2>5. Rank(Fors, k) # q
    BY <2>1
  <2>3. loops[Rank(Fors, k)].meta = frames[k].at - 1
    BY <1>4, <2>1 DEF LoopIndexes
  <2> QED  BY <1>3, <2>1, <2>2, <2>3, <2>5
<1>5. ASSUME NEW k \in 1..m, k \in Layering', frames'[k].binding # NoName,
             \A j \in Fors' : j < k => frames'[j].binding # frames'[k].binding
      PROVE  metas'[Rank(Layering', k)] = Single(frames'[k].binding, frames'[k].at - 1)
  <2>1. k \in Layering /\ frames[k] = frames'[k]
    BY <1>1, <1>5
  <2>2. Rank(Layering, k) \in 1..nLayers /\ Rank(Layering, k) # p
    BY <2>1, StackFacts
  <2>3. \A j \in Fors : j < k => frames[j].binding # frames[k].binding
    <3> SUFFICES ASSUME NEW j \in Fors, j < k PROVE frames[j].binding # frames[k].binding
      OBVIOUS
    <3>1. j \in 1..m
      BY <1>2
    <3> QED  BY <1>1, <1>5, <2>1, <3>1
  <2>4. metas[Rank(Layering, k)] = Single(frames[k].binding, frames[k].at - 1)
    BY <1>5, <2>1, <2>3 DEF IncludeIndexes
  <2> QED  BY <1>3, <2>1, <2>2, <2>4
<1> QED  BY <1>1, <1>3, <1>4, <1>5

----------------------------------------------------------------------------
(* The invariant holds between renders.                                    *)

LEMMA EnvironmentIs ==
    ASSUME NEW f
    PROVE  /\ f \in Environments
                <=> DOMAIN f \subseteq Names /\ f \in [DOMAIN f -> Values]
           /\ f \in Indexes <=> DOMAIN f \subseteq Names /\ f \in [DOMAIN f -> Nat]
<1>1. ASSUME NEW D \in SUBSET Names, f \in [D -> Values] PROVE f \in Environments
  BY <1>1 DEF Environments
<1>2. ASSUME f \in Environments PROVE DOMAIN f \subseteq Names /\ f \in [DOMAIN f -> Values]
  <2>1. PICK D \in SUBSET Names : f \in [D -> Values]
    BY <1>2 DEF Environments
  <2> QED  BY <2>1
<1>3. ASSUME NEW D \in SUBSET Names, f \in [D -> Nat] PROVE f \in Indexes
  BY <1>3 DEF Indexes
<1>4. ASSUME f \in Indexes PROVE DOMAIN f \subseteq Names /\ f \in [DOMAIN f -> Nat]
  <2>1. PICK D \in SUBSET Names : f \in [D -> Nat]
    BY <1>4 DEF Indexes
  <2> QED  BY <2>1
<1> QED  BY <1>1, <1>2, <1>3, <1>4

LEMMA NoBindings == <<>> \in Environments /\ <<>> \in Indexes /\ DOMAIN <<>> = {}
<1>1. PICK e : e = <<>> /\ DOMAIN e = {} /\ DOMAIN e \subseteq Names
  OBVIOUS
<1>2. e \in [DOMAIN e -> Values] /\ e \in [DOMAIN e -> Nat]
  BY <1>1
<1> QED  BY <1>1, <1>2, EnvironmentIs

LEMMA StackedNone == ASSUME NEW v, DOMAIN v = {} PROVE Stacked(<<>>, v)
  BY FS_EmptySet DEF Stacked

LEMMA NoScopeInv == NoScope => ScopeInv
<1> SUFFICES ASSUME NoScope PROVE ScopeInv
  OBVIOUS
<1> USE DEF NoScope
<1>1. Types
  <2>1. \A S : <<>> \in Seq(S)
    OBVIOUS
  <2>2. nLayers \in 0..Len(layers) /\ nLoops \in 0..Len(loops) /\ Len(layers) = Len(metas)
    OBVIOUS
  <2>3. depth \in 0..MaxIncludeDepth
    BY DEF TemplateAssumption
  <2> QED  BY <2>1, <2>2, <2>3, NoBindings DEF Types
<1>2. Rooted /\ LoopIndexes /\ IncludeIndexes /\ Owners
  BY DEF Rooted, LoopIndexes, IncludeIndexes, Owners, Fors, Layering, Includes
<1>3. Stacks
  <2>1. /\ DOMAIN ForBinds(frames) = {} /\ DOMAIN IncludeBinds(frames) = {}
        /\ DOMAIN Narrows(frames) = {} /\ DOMAIN ConstFiles(frames) = {}
        /\ DOMAIN InlineFiles(frames) = {} /\ DOMAIN DeclFiles(frames) = {}
        /\ IncludeCalls(frames) = {}
    BY DEF ForBinds, IncludeBinds, Narrows, ConstFiles, InlineFiles, DeclFiles, IncludeCalls
  <2>2. LoopsNow = <<>> /\ LayersNow = <<>>
    BY DEF LoopsNow, LayersNow
  <2>3. depth = Cardinality(IncludeCalls(frames))
    BY <2>1, FS_EmptySet
  <2> QED  BY <2>1, <2>2, <2>3, StackedNone DEF Stacks
<1> QED  BY <1>1, <1>2, <1>3 DEF ScopeInv

LEMMA DropInv == Drop => ScopeInv'
<1>1. Drop => NoScope'
  BY DEF Drop, NoScope
<1> QED  BY <1>1, NoScopeInv, PTL

----------------------------------------------------------------------------
(* The steps of loops and narrowings.                                      *)

\* A stack that the step leaves alone, whose calls it leaves alone.
LEMMA KeptStack ==
    ASSUME NEW n \in Nat, NEW v, NEW w, NEW c, NEW x, Grows(v, w, n, c, x), ~c, NEW s
    PROVE  (Stacked(s, v) => Stacked(s, w)) /\ (Stacked(s, w) => Stacked(s, v))
  BY GrowsKept

LoopRecords == [name : Names, value : Values, meta : Nat]

LEMMA EnterForInv ==
    ASSUME ScopeInv, NEW n \in LoopNames, NEW items \in Lists, EnterFor(n, items)
    PROVE  ScopeInv'
<1> USE DEF ScopeInv
<1>1. PICK m : m = Len(frames)
  OBVIOUS
<1>2. PICK f : f = [kind |-> "for", binding |-> n, items |-> items, at |-> 1]
  OBVIOUS
<1>3. items[1] \in Values /\ 1 \in 1..Len(items) /\ n \in Names
  BY EmptySeq DEF TemplateAssumption
<1>4. f \in Frames
  BY <1>2, <1>3 DEF Frames, ForFrames
<1>5. Call(f)
  BY <1>2 DEF EnterFor
<1>6. /\ m \in Nat /\ DOMAIN frames = 1..m /\ DOMAIN frames' = 1..m + 1
      /\ frames' \in Seq(Frames) /\ frames' # <<>>
      /\ \A k \in 1..m : frames'[k] = frames[k]
      /\ frames'[m + 1] = f
      /\ OneMore(frames, frames', m, f)
  BY <1>1, <1>4, <1>5, Calling
<1>7. /\ UNCHANGED <<cached, ctx, layers, metas, nLayers, consts, inlines, decls, depth, narrowed>>
      /\ nLoops' = nLoops + 1
      /\ loops' = Slot(loops, nLoops + 1, [name |-> n, value |-> items[1], meta |-> 0])
  BY DEF EnterFor, PushLoop, perFile
<1>8. nLoops \in Nat /\ nLoops + 1 \in 1..Len(loops) + 1 /\ nLoops <= Len(loops)
  BY DEF Types
<1>9. /\ loops' \in Seq([name : Names, value : Values, meta : Nat]) /\ nLoops + 1 <= Len(loops')
      /\ loops'[nLoops + 1].name = n /\ loops'[nLoops + 1].value = items[1]
      /\ loops'[nLoops + 1].meta = 0
      /\ \A j \in 1..nLoops : loops'[j] = loops[j]
  <2>0. PICK s \in Seq(LoopRecords) : s = loops
    BY DEF Types, LoopRecords
  <2>1. PICK k \in 1..Len(s) + 1 : k = nLoops + 1
    BY <1>8, <2>0
  <2>2. PICK e \in LoopRecords : e = [name |-> n, value |-> items[1], meta |-> 0]
    BY <1>3 DEF LoopRecords
  <2>3. Slotted(LoopRecords, Slot(s, k, e), s, k, e)
    BY SlotFacts
  <2>4. loops' = Slot(s, k, e)
    BY <1>7, <2>0, <2>1, <2>2
  <2>7. /\ loops' \in Seq(LoopRecords) /\ k <= Len(loops')
        /\ loops'[k] = e /\ \A j \in 1..Len(s) : j # k => loops'[j] = s[j]
    <3>1. Slotted(LoopRecords, loops', s, k, e)
      BY <2>3, <2>4
    <3> QED  BY <3>1 DEF Slotted
  <2>5. \A j \in 1..nLoops : j \in 1..Len(loops) /\ j # nLoops + 1
    BY <1>8 DEF Types
  <2>6. e.name = n /\ e.value = items[1] /\ e.meta = 0
    BY <2>2
  <2> QED  BY <2>0, <2>1, <2>5, <2>6, <2>7 DEF LoopRecords
<1>10. Types'
  BY <1>6, <1>7, <1>8, <1>9 DEF Types
<1>11. m > 0 /\ frames # <<>>
  BY <1>1, <1>6 DEF EnterFor, HasRoom
<1>12. Rooted'
  <2>1. frames'[1] = frames[1]
    BY <1>6, <1>11
  <2> QED  BY <1>7, <1>11, <2>1 DEF Rooted, IsFile
<1>13. Stacks'
  <2>1. /\ f.kind = "for" /\ <<f.binding, f.items[f.at]>> = <<n, items[1]>>
    BY <1>2
  <2>2. Stacked(LoopsNow', ForBinds(frames'))
    <3>1. Pushed(LoopsNow', LoopsNow, nLoops, <<f.binding, f.items[f.at]>>)
      <4>1. nLoops \in Nat /\ nLoops' = nLoops + 1
        BY <1>7, <1>8
      <4>2. /\ \A i \in 1..nLoops : i \in 1..nLoops + 1
            /\ nLoops + 1 \in 1..nLoops + 1
        BY <4>1
      <4>3. /\ DOMAIN LoopsNow = 1..nLoops
            /\ \A i \in 1..nLoops : LoopsNow[i] = <<loops[i].name, loops[i].value>>
        BY DEF LoopsNow
      <4>4. /\ DOMAIN LoopsNow' = 1..nLoops + 1
            /\ \A i \in 1..nLoops + 1 : LoopsNow'[i] = <<loops'[i].name, loops'[i].value>>
        BY <4>1 DEF LoopsNow
      <4>5. \A i \in 1..nLoops : LoopsNow'[i] = LoopsNow[i]
        <5> SUFFICES ASSUME NEW i \in 1..nLoops PROVE LoopsNow'[i] = LoopsNow[i]
          OBVIOUS
        <5>1. loops'[i] = loops[i]
          BY <1>9
        <5>2. LoopsNow'[i] = <<loops'[i].name, loops'[i].value>>
          BY <4>2, <4>4
        <5>3. LoopsNow[i] = <<loops[i].name, loops[i].value>>
          BY <4>3
        <5> QED  BY <5>1, <5>2, <5>3
      <4>6. LoopsNow'[nLoops + 1] = <<f.binding, f.items[f.at]>>
        <5>1. loops'[nLoops + 1].name = n /\ loops'[nLoops + 1].value = items[1]
          BY <1>9
        <5>2. LoopsNow'[nLoops + 1] = <<loops'[nLoops + 1].name, loops'[nLoops + 1].value>>
          BY <4>2, <4>4
        <5> QED  BY <2>1, <5>1, <5>2
      <4> QED  BY <4>3, <4>4, <4>5, <4>6 DEF Pushed
    <3>2. Stacked(LoopsNow, ForBinds(frames))
      BY DEF Stacks
    <3>3. Grows(ForBinds(frames), ForBinds(frames'), m, f.kind = "for", <<f.binding, f.items[f.at]>>)
      BY <1>6 DEF OneMore
    <3>4. PICK r, s, v, w, x : /\ r = LoopsNow' /\ s = LoopsNow /\ v = ForBinds(frames)
                               /\ w = ForBinds(frames') /\ x = <<f.binding, f.items[f.at]>>
      OBVIOUS
    <3>5. Pushed(r, s, nLoops, x) /\ Stacked(s, v) /\ Grows(v, w, m, f.kind = "for", x)
      BY <3>1, <3>2, <3>3, <3>4
    <3>6. Stacked(r, w)
      BY <1>6, <1>8, <2>1, <3>5, GrowsPush
    <3> QED  BY <3>4, <3>6
  <2>3. LayersNow' = LayersNow
    BY <1>7 DEF LayersNow
  <2>4. /\ Stacked(LayersNow, IncludeBinds(frames')) /\ Stacked(narrowed, Narrows(frames'))
        /\ Stacked(consts, ConstFiles(frames')) /\ Stacked(inlines, InlineFiles(frames'))
        /\ Stacked(decls, DeclFiles(frames')) /\ depth = Cardinality(IncludeCalls(frames'))
    BY <1>6, <2>1, KeptStack DEF OneMore, Stacks
  <2> QED  BY <1>7, <2>2, <2>3, <2>4 DEF Stacks
<1>14. LoopIndexes' /\ IncludeIndexes'
  <2>1. /\ 1..m \subseteq DOMAIN frames /\ 1..m \subseteq DOMAIN frames'
        /\ DOMAIN frames' \subseteq Nat \ {0}
        /\ \A i \in 1..nLoops : i # 0 =>
               loops'[i].meta = loops[i].meta \/ loops[i].name \in IncludeNames
        /\ \A i \in 1..nLayers : i # 0 => metas'[i] = metas[i]
        /\ \A k \in Fors : k <= m => Rank(Fors, k) # 0
        /\ \A k \in Layering : k <= m => Rank(Layering, k) # 0
    BY <1>6, <1>7, <1>9, StackFacts
  <2>2. /\ \A k \in 1..m : k \in Fors' /\ frames'[k].binding \notin IncludeNames
                  => loops'[Rank(Fors', k)].meta = frames'[k].at - 1
        /\ \A k \in 1..m : k \in Layering' /\ frames'[k].binding # NoName
                                /\ (\A j \in Fors' : j < k => frames'[j].binding # frames'[k].binding)
                  => metas'[Rank(Layering', k)] = Single(frames'[k].binding, frames'[k].at - 1)
    BY <1>6, <2>1, IndexesKept
  <2>3. m + 1 \notin Layering' /\ f.at = 1 /\ \A k \in DOMAIN frames' : k \in 1..m \/ k = m + 1
    BY <1>2, <1>6 DEF Layering, Includes, IsFile
  <2>4. Rank(Fors', m + 1) = nLoops + 1
    <3>1. Fors \in SUBSET (1..m) /\ Fors' = Fors \cup {m + 1}
      BY <1>2, <1>6 DEF Fors
    <3>2. Rank(Fors \cup {m + 1}, m + 1) = Cardinality(Fors) + 1
      BY <1>6, <3>1, RankAdd
    <3> QED  BY <3>1, <3>2, StackFacts
  <2>5. Fors' \subseteq DOMAIN frames' /\ Layering' \subseteq DOMAIN frames'
    BY DEF Fors, Layering, Includes
  <2>6. LoopIndexes'
    BY <1>6, <1>9, <2>2, <2>3, <2>4, <2>5 DEF LoopIndexes
  <2>7. IncludeIndexes'
    BY <2>2, <2>3, <2>5 DEF IncludeIndexes
  <2> QED  BY <2>6, <2>7
<1>15. Owners'
  <2>1. SameUpTo(frames, frames', m)
    BY <1>6 DEF SameUpTo
  <2>2. \A k \in 1..m : IsFile(k)' => Owned(k)'
    BY <1>6, <1>7, <2>1, OwnersKept
  <2>3. ~IsFile(m + 1)'
    BY <1>2, <1>6 DEF IsFile
  <2>4. \A k \in DOMAIN frames' : k \in 1..m \/ k = m + 1
    BY <1>6
  <2> QED  BY <2>2, <2>3, <2>4 DEF Owners
<1> QED  BY <1>10, <1>12, <1>13, <1>14, <1>15

\* One more call on top has the last place.
LEMMA TopPlace ==
    ASSUME NEW n \in Nat, NEW S \in SUBSET (1..n), n \in S
    PROVE  Rank(S, n) = Cardinality(S)
<1>1. \A j \in S : j <= n
  OBVIOUS
<1>2. PICK T : T = S
  OBVIOUS
<1>3. {j \in T : j <= n} = T
  BY <1>1, <1>2
<1> QED  BY <1>2, <1>3 DEF Rank

\* The last call pushes something else.
Restacked(v, w, n) ==
    /\ Below(v, n) /\ n \in DOMAIN v /\ DOMAIN w = DOMAIN v
    /\ \A k \in DOMAIN v : k # n => w[k] = v[k]

Replaced(r, s, m, x) ==
    /\ DOMAIN s = 1..m /\ DOMAIN r = 1..m
    /\ \A i \in 1..m : i # m => r[i] = s[i]
    /\ r[m] = x

LEMMA ReplacedTop ==
    ASSUME NEW n \in Nat, NEW v, NEW w, Restacked(v, w, n), NEW m \in Nat, NEW s, NEW r,
           Stacked(s, v), Replaced(r, s, m, w[n])
    PROVE  Stacked(r, w)
<1>1. PICK S : S = DOMAIN v /\ S \in SUBSET (1..n) /\ n \in S
  BY DEF Restacked, Below
<1>2. /\ \A k \in S : Rank(S, k) \in 1..Cardinality(S)
      /\ \A j, k \in S : j < k => Rank(S, j) < Rank(S, k)
      /\ Cardinality(S) \in Nat
  BY <1>1, RankFacts
<1>3. DOMAIN s = 1..m /\ 1..m = 1..Cardinality(S)
  BY <1>1 DEF Replaced, Stacked
<1>4. m = Cardinality(S)
  <2>1. \A i : i \in 1..m <=> i \in 1..Cardinality(S)
    BY <1>3
  <2>2. (m \in 1..m \/ m = 0) /\ (Cardinality(S) \in 1..Cardinality(S) \/ Cardinality(S) = 0)
    BY <1>2
  <2>3. (m \in 1..Cardinality(S) \/ m = 0) /\ (Cardinality(S) \in 1..m \/ Cardinality(S) = 0)
    BY <2>1, <2>2
  <2> QED  BY <1>2, <2>3
<1>5. Rank(S, n) = m
  BY <1>1, <1>4, TopPlace
<1>6. ASSUME NEW k \in S PROVE r[Rank(S, k)] = w[k]
  <2>1. CASE k = n
    BY <1>5, <2>1 DEF Replaced
  <2>2. CASE k # n
    <3>1. k < n
      BY <1>1, <2>2
    <3>2. Rank(S, k) < Rank(S, n) /\ Rank(S, k) \in 1..m
      BY <1>1, <1>2, <1>4, <3>1
    <3>3. Rank(S, k) # m /\ Rank(S, k) \in 1..m
      BY <1>5, <3>2
    <3>4. r[Rank(S, k)] = s[Rank(S, k)]
      BY <3>3 DEF Replaced
    <3>5. s[Rank(S, k)] = v[k]
      BY <1>1 DEF Stacked
    <3> QED  BY <1>1, <2>2, <3>4, <3>5 DEF Restacked
  <2> QED  BY <2>1, <2>2
<1> QED  BY <1>1, <1>3, <1>6 DEF Replaced, Restacked, Stacked

\* What the next item changes.
NextOf(F, G, n) ==
    /\ DOMAIN F = 1..n /\ DOMAIN G = 1..n
    /\ \A k \in 1..n - 1 : G[k] = F[k]
    /\ F[n].kind \in {"for", "file"} /\ G[n].kind = F[n].kind /\ G[n].binding = F[n].binding
    /\ F[n].kind = "file" =>
          /\ G[n].tmpl = F[n].tmpl /\ G[n].with = F[n].with /\ G[n].inlines = F[n].inlines

OneNext(F, G, n) ==
    /\ F[n].kind = "for" => /\ Restacked(ForBinds(F), ForBinds(G), n)
                            /\ Grows(IncludeBinds(F), IncludeBinds(G), n, FALSE, 0)
                            /\ ForBinds(G)[n] = <<G[n].binding, G[n].items[G[n].at]>>
    /\ F[n].kind = "file" =>
          /\ Grows(ForBinds(F), ForBinds(G), n, FALSE, 0)
          /\ n > 1 /\ HasLayer(F[n]) => /\ Restacked(IncludeBinds(F), IncludeBinds(G), n)
                                        /\ IncludeBinds(G)[n] = LayerOf(G[n])
    /\ Grows(Narrows(F), Narrows(G), n, FALSE, 0)
    /\ Grows(ConstFiles(F), ConstFiles(G), n, FALSE, 0)
    /\ Grows(InlineFiles(F), InlineFiles(G), n, FALSE, 0)
    /\ Grows(DeclFiles(F), DeclFiles(G), n, FALSE, 0)
    /\ IncludeCalls(F) = IncludeCalls(G)

LEMMA NextOnTop ==
    ASSUME NEW n \in Nat \ {0}, NEW F, NEW G, NextOf(F, G, n)
    PROVE  OneNext(F, G, n)
<1> USE DEF NextOf
<1>1. \A k \in 1..n : k = n \/ k \in 1..n - 1
  OBVIOUS
<1>2. \A k \in 1..n : /\ G[k].kind = F[k].kind
                      /\ G[k].kind = "file" => G[k].tmpl = F[k].tmpl /\ G[k].inlines = F[k].inlines
                      /\ G[k].kind = "file" => HasLayer(G[k]) = HasLayer(F[k])
                      /\ k # n => G[k] = F[k]
  BY <1>1 DEF HasLayer
<1>3. n \in 1..n
  OBVIOUS
<1>4. Grows(Narrows(F), Narrows(G), n, FALSE, 0)
  BY <1>2 DEF Grows, Below, Narrows
<1>5. Grows(InlineFiles(F), InlineFiles(G), n, FALSE, 0)
  BY <1>2 DEF Grows, Below, InlineFiles
<1>6. Grows(DeclFiles(F), DeclFiles(G), n, FALSE, 0)
  <2> DEFINE S == {j \in DOMAIN F : F[j].kind = "file" /\ Params[F[j].tmpl] # {}}
             T == {j \in DOMAIN G : G[j].kind = "file" /\ Params[G[j].tmpl] # {}}
  <2>1. S \subseteq 1..n /\ \A k : k \in S <=> k \in T
    BY <1>2
  <2>2. DOMAIN DeclFiles(F) = S /\ DOMAIN DeclFiles(G) = T
    BY DEF DeclFiles
  <2>3. \A k \in S : DeclFiles(F)[k] = F[k].tmpl /\ F[k].kind = "file"
    BY DEF DeclFiles
  <2>4. \A k \in T : DeclFiles(G)[k] = G[k].tmpl
    BY DEF DeclFiles
  <2> HIDE DEF S, T
  <2>5. \A k \in S : DeclFiles(G)[k] = DeclFiles(F)[k]
    BY <1>2, <2>1, <2>3, <2>4
  <2> QED  BY <2>1, <2>2, <2>5 DEF Grows, Below
<1>7. Grows(ConstFiles(F), ConstFiles(G), n, FALSE, 0)
  <2> DEFINE S == {j \in DOMAIN F : F[j].kind = "file" /\ (j = 1 => DOMAIN Consts[F[j].tmpl] # {})}
             T == {j \in DOMAIN G : G[j].kind = "file" /\ (j = 1 => DOMAIN Consts[G[j].tmpl] # {})}
  <2>1. S \subseteq 1..n /\ \A k : k \in S <=> k \in T
    BY <1>2
  <2>2. DOMAIN ConstFiles(F) = S /\ DOMAIN ConstFiles(G) = T
    BY DEF ConstFiles
  <2>3. \A k \in S : ConstFiles(F)[k] = F[k].tmpl /\ F[k].kind = "file"
    BY DEF ConstFiles
  <2>4. \A k \in T : ConstFiles(G)[k] = G[k].tmpl
    BY DEF ConstFiles
  <2> HIDE DEF S, T
  <2>5. \A k \in S : ConstFiles(G)[k] = ConstFiles(F)[k]
    BY <1>2, <2>1, <2>3, <2>4
  <2> QED  BY <2>1, <2>2, <2>5 DEF Grows, Below
<1>8. IncludeCalls(F) = IncludeCalls(G) /\ IncludeCalls(F) \subseteq 1..n
  BY <1>2 DEF IncludeCalls
<1>9. /\ DOMAIN ForBinds(F) = DOMAIN ForBinds(G) /\ DOMAIN ForBinds(F) \subseteq 1..n
      /\ F[n].kind = "for" <=> n \in DOMAIN ForBinds(F)
      /\ \A k \in DOMAIN ForBinds(F) : k # n => ForBinds(F)[k] = ForBinds(G)[k]
      /\ n \in DOMAIN ForBinds(G) => ForBinds(G)[n] = <<G[n].binding, G[n].items[G[n].at]>>
  <2> DEFINE S == {j \in DOMAIN F : F[j].kind = "for"}
             T == {j \in DOMAIN G : G[j].kind = "for"}
  <2>1. S = T /\ S \subseteq 1..n /\ (F[n].kind = "for" <=> n \in S)
    BY <1>2, <1>3
  <2>2. DOMAIN ForBinds(F) = S /\ DOMAIN ForBinds(G) = T
    BY DEF ForBinds
  <2>3. /\ \A k \in S : ForBinds(F)[k] = <<F[k].binding, F[k].items[F[k].at]>>
        /\ \A k \in T : ForBinds(G)[k] = <<G[k].binding, G[k].items[G[k].at]>>
    BY DEF ForBinds
  <2> HIDE DEF S, T
  <2>4. ASSUME NEW k \in S, k # n PROVE ForBinds(F)[k] = ForBinds(G)[k]
    <3>1. F[k] = G[k] /\ k \in T
      BY <1>2, <2>1, <2>4
    <3> QED  BY <2>3, <3>1
  <2>5. n \in T => ForBinds(G)[n] = <<G[n].binding, G[n].items[G[n].at]>>
    BY <2>3
  <2> QED  BY <2>1, <2>2, <2>4, <2>5
<1>10. /\ DOMAIN IncludeBinds(F) = DOMAIN IncludeBinds(G) /\ DOMAIN IncludeBinds(F) \subseteq 1..n
       /\ F[n].kind = "for" => n \notin DOMAIN IncludeBinds(F)
       /\ F[n].kind = "file" /\ n > 1 /\ HasLayer(F[n]) => n \in DOMAIN IncludeBinds(F)
       /\ \A k \in DOMAIN IncludeBinds(F) : k # n => IncludeBinds(F)[k] = IncludeBinds(G)[k]
       /\ n \in DOMAIN IncludeBinds(G) => IncludeBinds(G)[n] = LayerOf(G[n])
  <2> DEFINE S == {j \in IncludeCalls(F) : HasLayer(F[j])}
             T == {j \in IncludeCalls(G) : HasLayer(G[j])}
  <2>1. /\ S = T /\ S \subseteq 1..n
        /\ F[n].kind = "for" => n \notin S
        /\ F[n].kind = "file" /\ n > 1 /\ HasLayer(F[n]) => n \in S
    BY <1>2, <1>3 DEF IncludeCalls
  <2>2. DOMAIN IncludeBinds(F) = S /\ DOMAIN IncludeBinds(G) = T
    BY DEF IncludeBinds
  <2>3. /\ \A k \in S : IncludeBinds(F)[k] = LayerOf(F[k])
        /\ \A k \in T : IncludeBinds(G)[k] = LayerOf(G[k])
    BY DEF IncludeBinds
  <2> HIDE DEF S, T
  <2>4. ASSUME NEW k \in S, k # n PROVE IncludeBinds(F)[k] = IncludeBinds(G)[k]
    <3>1. F[k] = G[k] /\ k \in T
      BY <1>2, <2>1, <2>4
    <3> QED  BY <2>3, <3>1
  <2>5. n \in T => IncludeBinds(G)[n] = LayerOf(G[n])
    BY <2>3
  <2> QED  BY <2>1, <2>2, <2>4, <2>5
<1>11. ASSUME F[n].kind = "for"
       PROVE  /\ Restacked(ForBinds(F), ForBinds(G), n)
              /\ Grows(IncludeBinds(F), IncludeBinds(G), n, FALSE, 0)
              /\ ForBinds(G)[n] = <<G[n].binding, G[n].items[G[n].at]>>
  <2>1. Restacked(ForBinds(F), ForBinds(G), n)
    BY <1>9, <1>11 DEF Restacked, Below
  <2>2. \A k \in DOMAIN IncludeBinds(F) : IncludeBinds(G)[k] = IncludeBinds(F)[k]
    BY <1>10, <1>11
  <2>3. Grows(IncludeBinds(F), IncludeBinds(G), n, FALSE, 0)
    BY <1>10, <2>2 DEF Grows, Below
  <2> QED  BY <1>9, <1>11, <2>1, <2>3
<1>12. ASSUME F[n].kind = "file"
       PROVE  /\ Grows(ForBinds(F), ForBinds(G), n, FALSE, 0)
              /\ n > 1 /\ HasLayer(F[n]) => Restacked(IncludeBinds(F), IncludeBinds(G), n)
                                          /\ IncludeBinds(G)[n] = LayerOf(G[n])
  <2>1. \A k \in DOMAIN ForBinds(F) : ForBinds(G)[k] = ForBinds(F)[k]
    BY <1>9, <1>12
  <2>2. Grows(ForBinds(F), ForBinds(G), n, FALSE, 0)
    BY <1>9, <2>1 DEF Grows, Below
  <2>3. n > 1 /\ HasLayer(F[n]) => Restacked(IncludeBinds(F), IncludeBinds(G), n)
    BY <1>10, <1>12 DEF Restacked, Below
  <2> QED  BY <1>10, <1>12, <2>2, <2>3
<1> QED  BY <1>4, <1>5, <1>6, <1>7, <1>8, <1>11, <1>12 DEF OneNext

\* Leaving a construct touches no slot, and so no index.
LEMMA Leaving ==
    ASSUME ScopeInv, UNCHANGED <<cached, ctx, loops, metas>>, NEW n \in Nat,
           DOMAIN frames = 1..n + 1, DOMAIN frames' = 1..n, frames' \in Seq(Frames),
           \A k \in 1..n : frames'[k] = frames[k]
    PROVE  Rooted' /\ LoopIndexes' /\ IncludeIndexes' /\ Owners'
<1> USE DEF ScopeInv
<1>1. Rooted'
  <2> SUFFICES ASSUME frames' # <<>>
               PROVE  /\ IsFile(1)' /\ frames'[1].tmpl \in Files
                      /\ frames'[1].binding = NoName /\ ~frames'[1].inlines
                      /\ ctx' = Over(frames'[1].with, Defaults[frames'[1].tmpl])
    BY DEF Rooted
  <2>1. n > 0
    BY EmptySeq
  <2>2. frames'[1] = frames[1] /\ frames # <<>>
    BY <2>1
  <2> QED  BY <2>2 DEF Rooted, IsFile
<1>2. LoopIndexes' /\ IncludeIndexes'
  <2>1. /\ 1..n \subseteq DOMAIN frames /\ 1..n \subseteq DOMAIN frames'
        /\ DOMAIN frames' \subseteq Nat \ {0}
        /\ \A i \in 1..nLoops : i # 0 =>
               loops'[i].meta = loops[i].meta \/ loops[i].name \in IncludeNames
        /\ \A i \in 1..nLayers : i # 0 => metas'[i] = metas[i]
        /\ \A k \in Fors : k <= n => Rank(Fors, k) # 0
        /\ \A k \in Layering : k <= n => Rank(Layering, k) # 0
    BY StackFacts
  <2>2. /\ \A k \in 1..n : k \in Fors' /\ frames'[k].binding \notin IncludeNames
                  => loops'[Rank(Fors', k)].meta = frames'[k].at - 1
        /\ \A k \in 1..n : k \in Layering' /\ frames'[k].binding # NoName
                                /\ (\A j \in Fors' : j < k => frames'[j].binding # frames'[k].binding)
                  => metas'[Rank(Layering', k)] = Single(frames'[k].binding, frames'[k].at - 1)
    BY <2>1, IndexesKept
  <2>3. \A k \in Fors' \cup Layering' : k \in 1..n
    BY DEF Fors, Layering, Includes
  <2> QED  BY <2>2, <2>3 DEF LoopIndexes, IncludeIndexes
<1>3. Owners'
  <2>1. SameUpTo(frames, frames', n)
    BY DEF SameUpTo
  <2>2. \A k \in 1..n : IsFile(k)' => Owned(k)'
    BY <2>1, OwnersKept
  <2> QED  BY <2>2 DEF Owners
<1> QED  BY <1>1, <1>2, <1>3

LEMMA ExitForInv == ASSUME ScopeInv, ExitFor PROVE ScopeInv'
<1> USE DEF ScopeInv
<1>1. PICK n, f : n = Len(frames) - 1 /\ f = Top
  OBVIOUS
<1>2. frames # <<>> /\ Return /\ f.kind = "for"
  BY <1>1 DEF ExitFor, InFor
<1>3. /\ n \in Nat /\ DOMAIN frames = 1..n + 1 /\ DOMAIN frames' = 1..n
      /\ frames' \in Seq(Frames) /\ f \in Frames
      /\ \A k \in 1..n : frames'[k] = frames[k]
      /\ OneMore(frames', frames, n, f)
  BY <1>1, <1>2, Returning
<1>4. /\ UNCHANGED <<cached, ctx, layers, metas, nLayers, loops, consts, inlines, decls, depth, narrowed>>
      /\ nLoops' = nLoops - 1
  BY DEF ExitFor, perFile
<1>5. nLoops \in Nat /\ nLoops <= Len(loops)
  BY DEF Types
<1>6. Stacked(LoopsNow', ForBinds(frames')) /\ nLoops > 0
  <2>1. PICK r, s, v, w, x : /\ r = LoopsNow' /\ s = LoopsNow /\ v = ForBinds(frames')
                             /\ w = ForBinds(frames) /\ x = <<f.binding, f.items[f.at]>>
    OBVIOUS
  <2>0. PICK y : y = s[nLoops]
    OBVIOUS
  <2>2. Popped(r, s, nLoops, y)
    BY <1>4, <1>5, <2>0, <2>1 DEF LoopsNow, Popped
  <2>3. Stacked(s, w) /\ Grows(v, w, n, f.kind = "for", x)
    BY <1>3, <2>1 DEF OneMore, Stacks
  <2>4. Stacked(r, v) /\ nLoops > 0
    BY <1>2, <1>3, <1>5, <2>2, <2>3, GrowsPop
  <2> QED  BY <2>1, <2>4
<1>7. Types'
  BY <1>3, <1>4, <1>5, <1>6 DEF Types
<1>8. Stacks'
  <2>1. LayersNow' = LayersNow
    BY <1>4 DEF LayersNow
  <2>2. /\ Stacked(LayersNow, IncludeBinds(frames')) /\ Stacked(narrowed, Narrows(frames'))
        /\ Stacked(consts, ConstFiles(frames')) /\ Stacked(inlines, InlineFiles(frames'))
        /\ Stacked(decls, DeclFiles(frames')) /\ depth = Cardinality(IncludeCalls(frames'))
    BY <1>2, <1>3, KeptStack DEF OneMore, Stacks
  <2> QED  BY <1>4, <1>6, <2>1, <2>2 DEF Stacks
<1> QED  BY <1>3, <1>4, <1>7, <1>8, Leaving

LEMMA NextItemInv == ASSUME ScopeInv, NextItem PROVE ScopeInv'
<1> USE DEF ScopeInv
<1>1. PICK n, f, g : n = Len(frames) /\ f = Top /\ g = [f EXCEPT !.at = f.at + 1]
  OBVIOUS
<1>2. frames # <<>> /\ Advance /\ f.kind = "for" /\ f.at < Len(f.items)
  BY <1>1 DEF NextItem, InFor
<1>3. /\ n \in Nat \ {0} /\ DOMAIN frames = 1..n /\ DOMAIN frames' = 1..n
      /\ frames' \in Seq(Frames) /\ frames' # <<>> /\ frames[n] = f /\ f \in Frames
      /\ \A k \in 1..n - 1 : frames'[k] = frames[k]
      /\ frames'[n] = g
  BY <1>1, <1>2, Advancing
<1>4. f \in ForFrames /\ f.binding \in Names /\ f.items \in Lists /\ f.at \in Nat
  <2>1. /\ f \in FileFrames \cup ForFrames \cup NarrowFrames
    BY <1>3 DEF Frames
  <2> QED  BY <1>2, <2>1 DEF FileFrames, ForFrames, NarrowFrames
<1>5. /\ g.kind = "for" /\ g.binding = f.binding /\ g.items = f.items /\ g.at = f.at + 1
  BY <1>1, <1>4 DEF ForFrames
<1>6. f.items[f.at + 1] \in Values
  <2>1. Len(f.items) \in Nat /\ f.items \in Seq(Values)
    BY <1>4 DEF TemplateAssumption
  <2>2. f.at + 1 \in 1..Len(f.items)
    BY <1>2, <1>4, <2>1
  <2> QED  BY <2>1, <2>2
<1>7. /\ UNCHANGED <<cached, ctx, layers, metas, nLayers, nLoops, consts, inlines, decls, depth, narrowed>>
      /\ loops' = Slot(loops, nLoops,
                       [name |-> f.binding, value |-> f.items[f.at + 1], meta |-> f.at])
  BY <1>1 DEF NextItem, perFile
<1>8. /\ n \in Fors /\ Fors \in SUBSET (1..n) /\ Rank(Fors, n) = nLoops /\ nLoops \in 1..Len(loops)
  <2>1. n \in Fors /\ Fors \in SUBSET (1..n)
    BY <1>2, <1>3 DEF Fors
  <2>2. Rank(Fors, n) = Cardinality(Fors)
    BY <1>3, <2>1, TopPlace
  <2>3. nLoops = Cardinality(Fors) /\ Rank(Fors, n) \in 1..nLoops
    BY <2>1, StackFacts
  <2> QED  BY <2>1, <2>2, <2>3 DEF Types
<1>9. /\ loops' \in Seq(LoopRecords) /\ nLoops <= Len(loops')
      /\ loops'[nLoops].name = g.binding /\ loops'[nLoops].value = g.items[g.at]
      /\ loops'[nLoops].meta = g.at - 1
      /\ \A j \in 1..nLoops : j # nLoops => loops'[j] = loops[j]
  <2>0. PICK s \in Seq(LoopRecords) : s = loops
    BY DEF Types, LoopRecords
  <2>1. PICK k \in 1..Len(s) + 1 : k = nLoops
    BY <1>8, <2>0
  <2>2. PICK e \in LoopRecords :
            e = [name |-> f.binding, value |-> f.items[f.at + 1], meta |-> f.at]
    BY <1>4, <1>6 DEF LoopRecords
  <2>3. Slotted(LoopRecords, Slot(s, k, e), s, k, e)
    BY SlotFacts
  <2>4. loops' = Slot(s, k, e)
    BY <1>7, <2>0, <2>1, <2>2
  <2>7. /\ loops' \in Seq(LoopRecords) /\ k <= Len(loops')
        /\ loops'[k] = e /\ \A j \in 1..Len(s) : j # k => loops'[j] = s[j]
    <3>1. Slotted(LoopRecords, loops', s, k, e)
      BY <2>3, <2>4
    <3> QED  BY <3>1 DEF Slotted
  <2>5. \A j \in 1..nLoops : j \in 1..Len(loops)
    BY <1>8
  <2>6. e.name = g.binding /\ e.value = g.items[g.at] /\ e.meta = g.at - 1
    BY <1>4, <1>5, <2>2
  <2> QED  BY <2>0, <2>1, <2>5, <2>6, <2>7
<1>10. Types'
  BY <1>3, <1>7, <1>8, <1>9 DEF Types, LoopRecords
<1>11. Rooted'
  <2>1. n # 1
    BY <1>2, <1>3 DEF Rooted, IsFile
  <2>2. frames'[1] = frames[1]
    BY <1>3, <2>1
  <2> QED  BY <1>2, <1>7, <2>2 DEF Rooted, IsFile
<1>12. /\ Restacked(ForBinds(frames), ForBinds(frames'), n)
       /\ ForBinds(frames')[n] = <<g.binding, g.items[g.at]>>
       /\ Grows(IncludeBinds(frames), IncludeBinds(frames'), n, FALSE, 0)
       /\ Grows(Narrows(frames), Narrows(frames'), n, FALSE, 0)
       /\ Grows(ConstFiles(frames), ConstFiles(frames'), n, FALSE, 0)
       /\ Grows(InlineFiles(frames), InlineFiles(frames'), n, FALSE, 0)
       /\ Grows(DeclFiles(frames), DeclFiles(frames'), n, FALSE, 0)
       /\ IncludeCalls(frames) = IncludeCalls(frames')
  <2>1. PICK F, G : F = frames /\ G = frames'
    OBVIOUS
  <2>2. /\ DOMAIN F = 1..n /\ DOMAIN G = 1..n /\ \A k \in 1..n - 1 : G[k] = F[k]
        /\ F[n].kind = "for" /\ G[n].kind = F[n].kind /\ G[n].binding = F[n].binding
        /\ G[n] = g
    BY <1>2, <1>3, <1>5, <2>1
  <2>4. NextOf(F, G, n)
    BY <2>2 DEF NextOf
  <2>5. OneNext(F, G, n)
    BY <1>3, <2>4, NextOnTop
  <2> QED  BY <2>1, <2>2, <2>5 DEF OneNext
<1>13. Stacks'
  <2>1. Stacked(LoopsNow', ForBinds(frames'))
    <3>1. PICK r, s, v, w : r = LoopsNow' /\ s = LoopsNow /\ v = ForBinds(frames) /\ w = ForBinds(frames')
      OBVIOUS
    <3>2. Replaced(r, s, nLoops, w[n]) /\ nLoops \in Nat
      <4>1. nLoops' = nLoops /\ nLoops \in Nat /\ nLoops \in 1..nLoops
        BY <1>7, <1>8
      <4>2. /\ DOMAIN s = 1..nLoops /\ DOMAIN r = 1..nLoops
            /\ \A i \in 1..nLoops : s[i] = <<loops[i].name, loops[i].value>>
            /\ \A i \in 1..nLoops : r[i] = <<loops'[i].name, loops'[i].value>>
        BY <3>1, <4>1 DEF LoopsNow
      <4>3. r[nLoops] = w[n]
        <5>1. r[nLoops] = <<loops'[nLoops].name, loops'[nLoops].value>>
          BY <4>1, <4>2
        <5>2. w[n] = <<g.binding, g.items[g.at]>>
          BY <1>12, <3>1
        <5> QED  BY <1>9, <5>1, <5>2
      <4>4. \A i \in 1..nLoops : i # nLoops => r[i] = s[i]
        BY <1>9, <4>2
      <4> QED  BY <4>1, <4>2, <4>3, <4>4 DEF Replaced
    <3>3. Stacked(s, v) /\ Restacked(v, w, n)
      BY <1>12, <3>1 DEF Stacks
    <3>4. Stacked(r, w)
      BY <1>3, <3>2, <3>3, ReplacedTop
    <3> QED  BY <3>1, <3>4
  <2>2. LayersNow' = LayersNow
    BY <1>7 DEF LayersNow
  <2>3. /\ Stacked(LayersNow, IncludeBinds(frames')) /\ Stacked(narrowed, Narrows(frames'))
        /\ Stacked(consts, ConstFiles(frames')) /\ Stacked(inlines, InlineFiles(frames'))
        /\ Stacked(decls, DeclFiles(frames')) /\ depth = Cardinality(IncludeCalls(frames'))
    BY <1>3, <1>12, KeptStack DEF Stacks
  <2> QED  BY <1>7, <2>1, <2>2, <2>3 DEF Stacks
<1>14. LoopIndexes' /\ IncludeIndexes'
  <2>0. PICK m \in Nat : m = n - 1
    BY <1>3
  <2>1. /\ 1..m \subseteq DOMAIN frames /\ 1..m \subseteq DOMAIN frames'
        /\ DOMAIN frames' \subseteq Nat \ {0}
        /\ \A k \in 1..m : frames'[k] = frames[k]
        /\ \A i \in 1..nLoops : i # nLoops =>
               loops'[i].meta = loops[i].meta \/ loops[i].name \in IncludeNames
        /\ \A i \in 1..nLayers : i # 0 => metas'[i] = metas[i]
        /\ \A k \in Layering : k <= m => Rank(Layering, k) # 0
    BY <1>3, <1>7, <1>9, <2>0, StackFacts
  <2>2. \A k \in Fors : k <= m => Rank(Fors, k) # nLoops
    <3> SUFFICES ASSUME NEW k \in Fors, k <= m PROVE Rank(Fors, k) < Rank(Fors, n)
      BY <1>8, StackFacts
    <3>1. k < n
      BY <1>3, <1>8, <2>0
    <3> QED  BY <1>3, <1>8, <3>1, RankFacts
  <2>3. /\ \A k \in 1..m : k \in Fors' /\ frames'[k].binding \notin IncludeNames
                  => loops'[Rank(Fors', k)].meta = frames'[k].at - 1
        /\ \A k \in 1..m : k \in Layering' /\ frames'[k].binding # NoName
                                /\ (\A j \in Fors' : j < k => frames'[j].binding # frames'[k].binding)
                  => metas'[Rank(Layering', k)] = Single(frames'[k].binding, frames'[k].at - 1)
    BY <2>1, <2>2, IndexesKept
  <2>4. n \notin Layering' /\ \A k \in DOMAIN frames' : k \in 1..m \/ k = n
    BY <1>3, <1>5, <2>0 DEF Layering, Includes, IsFile
  <2>5. Rank(Fors', n) = nLoops
    <3>1. \A k \in 1..n : frames'[k].kind = frames[k].kind
      BY <1>2, <1>3, <1>5, <2>0, <2>1, <2>4
    <3>2. Fors' = Fors
      BY <1>3, <3>1 DEF Fors
    <3> QED  BY <1>8, <3>2
  <2>6. Fors' \subseteq DOMAIN frames' /\ Layering' \subseteq DOMAIN frames'
    BY DEF Fors, Layering, Includes
  <2>7. LoopIndexes'
    BY <1>3, <1>9, <2>3, <2>4, <2>5, <2>6 DEF LoopIndexes
  <2>8. IncludeIndexes'
    BY <2>3, <2>4, <2>6 DEF IncludeIndexes
  <2> QED  BY <2>7, <2>8
<1>15. Owners'
  <2>1. \A k \in 1..n : k \in 1..n - 1 \/ k = n
    BY <1>3
  <2>2. SameUpTo(frames, frames', n)
    BY <1>2, <1>3, <1>5, <2>1 DEF SameUpTo
  <2>3. \A k \in 1..n : IsFile(k)' => Owned(k)'
    BY <1>3, <1>7, <2>2, OwnersKept
  <2> QED  BY <1>3, <2>3 DEF Owners
<1> QED  BY <1>10, <1>11, <1>13, <1>14, <1>15

\* {% if has(n) %} and {% case Some %}.
LEMMA EnterNarrowInv ==
    ASSUME ScopeInv, HasRoom, NEW n \in Names, Call([kind |-> "narrow", name |-> n]),
           narrowed' = Append(narrowed, n), UNCHANGED <<cached, ctx, bindings, perFile>>
    PROVE  ScopeInv'
<1> USE DEF ScopeInv
<1>1. PICK m, f : m = Len(frames) /\ f = [kind |-> "narrow", name |-> n]
  OBVIOUS
<1>2. f \in Frames /\ f.kind = "narrow" /\ f.name = n
  BY <1>1 DEF Frames, NarrowFrames
<1>3. /\ m \in Nat /\ DOMAIN frames = 1..m /\ DOMAIN frames' = 1..m + 1
      /\ frames' \in Seq(Frames) /\ frames' # <<>>
      /\ \A k \in 1..m : frames'[k] = frames[k]
      /\ frames'[m + 1] = f
      /\ OneMore(frames, frames', m, f)
  BY <1>1, <1>2, Calling
<1>4. UNCHANGED <<cached, ctx, layers, metas, nLayers, loops, nLoops, consts, inlines, decls, depth>>
  BY DEF bindings, perFile
<1>5. m > 0 /\ frames # <<>>
  BY <1>1, <1>3 DEF HasRoom
<1>6. narrowed \in Seq(Names) /\ narrowed' \in Seq(Names)
  BY DEF Types
<1>7. Types'
  BY <1>3, <1>4, <1>6 DEF Types
<1>8. Rooted'
  <2>1. frames'[1] = frames[1]
    BY <1>3, <1>5
  <2> QED  BY <1>4, <1>5, <2>1 DEF Rooted, IsFile
<1>9. Stacks'
  <2>1. Stacked(narrowed', Narrows(frames'))
    <3>1. PICK r, s, v, w, p : /\ r = narrowed' /\ s = narrowed /\ v = Narrows(frames)
                               /\ w = Narrows(frames') /\ p = Len(narrowed)
      OBVIOUS
    <3>2. p \in Nat /\ Pushed(r, s, p, n)
      <4>1. s \in Seq(Names) /\ r = Append(s, n) /\ p = Len(s)
        BY <1>6, <3>1
      <4>2. p \in Nat /\ DOMAIN s = 1..p
        BY <4>1
      <4>3. Len(r) = p + 1 /\ r \in Seq(Names) /\ r[p + 1] = n /\ \A i \in 1..p : r[i] = s[i]
        BY <4>1, <4>2, AppendProperties
      <4>4. DOMAIN r = 1..p + 1
        BY <4>3
      <4> QED  BY <4>2, <4>3, <4>4 DEF Pushed
    <3>3. Stacked(s, v) /\ Grows(v, w, m, f.kind = "narrow", n)
      BY <1>2, <1>3, <3>1 DEF OneMore, Stacks
    <3>4. Stacked(r, w)
      BY <1>2, <1>3, <3>2, <3>3, GrowsPush
    <3> QED  BY <3>1, <3>4
  <2>2. LoopsNow' = LoopsNow /\ LayersNow' = LayersNow
    BY <1>4 DEF LoopsNow, LayersNow
  <2>0. f.kind # "for" /\ f.kind # "file"
    BY <1>2
  <2>4. Stacked(LoopsNow, ForBinds(frames'))
    <3>1. PICK x : x = <<f.binding, f.items[f.at]>>
      OBVIOUS
    <3>2. Grows(ForBinds(frames), ForBinds(frames'), m, f.kind = "for", x)
      BY <1>3, <3>1 DEF OneMore
    <3> QED  BY <1>3, <2>0, <3>2, KeptStack DEF Stacks
  <2>5. Stacked(LayersNow, IncludeBinds(frames'))
    BY <1>3, <2>0, KeptStack DEF OneMore, Stacks
  <2>6. Stacked(consts, ConstFiles(frames'))
    BY <1>3, <2>0, KeptStack DEF OneMore, Stacks
  <2>7. Stacked(inlines, InlineFiles(frames'))
    BY <1>3, <2>0, KeptStack DEF OneMore, Stacks
  <2>8. Stacked(decls, DeclFiles(frames')) /\ depth = Cardinality(IncludeCalls(frames'))
    BY <1>3, <2>0, KeptStack DEF OneMore, Stacks
  <2> QED  BY <1>4, <2>1, <2>2, <2>4, <2>5, <2>6, <2>7, <2>8 DEF Stacks
<1>10. LoopIndexes' /\ IncludeIndexes'
  <2>1. /\ 1..m \subseteq DOMAIN frames /\ 1..m \subseteq DOMAIN frames'
        /\ DOMAIN frames' \subseteq Nat \ {0}
        /\ \A i \in 1..nLoops : i # 0 =>
               loops'[i].meta = loops[i].meta \/ loops[i].name \in IncludeNames
        /\ \A i \in 1..nLayers : i # 0 => metas'[i] = metas[i]
        /\ \A k \in Fors : k <= m => Rank(Fors, k) # 0
        /\ \A k \in Layering : k <= m => Rank(Layering, k) # 0
    BY <1>3, <1>4, StackFacts
  <2>2. /\ \A k \in 1..m : k \in Fors' /\ frames'[k].binding \notin IncludeNames
                  => loops'[Rank(Fors', k)].meta = frames'[k].at - 1
        /\ \A k \in 1..m : k \in Layering' /\ frames'[k].binding # NoName
                                /\ (\A j \in Fors' : j < k => frames'[j].binding # frames'[k].binding)
                  => metas'[Rank(Layering', k)] = Single(frames'[k].binding, frames'[k].at - 1)
    BY <1>3, <2>1, IndexesKept
  <2>3. \A k \in Fors' \cup Layering' : k \in 1..m
    BY <1>2, <1>3 DEF Fors, Layering, Includes, IsFile
  <2> QED  BY <2>2, <2>3 DEF LoopIndexes, IncludeIndexes
<1>11. Owners'
  <2>1. SameUpTo(frames, frames', m)
    BY <1>3 DEF SameUpTo
  <2>2. \A k \in 1..m : IsFile(k)' => Owned(k)'
    BY <1>3, <1>4, <2>1, OwnersKept
  <2>3. \A k \in DOMAIN frames' : k \in 1..m \/ k = m + 1
    BY <1>3
  <2>4. ~IsFile(m + 1)'
    BY <1>2, <1>3 DEF IsFile
  <2> QED  BY <2>2, <2>3, <2>4 DEF Owners
<1> QED  BY <1>7, <1>8, <1>9, <1>10, <1>11

\* Without the last of its narrowings, the scope has the others left.
LEMMA ExitNarrowedInv == ASSUME ScopeInv, ExitNarrowed PROVE ScopeInv'
<1> USE DEF ScopeInv
<1>1. PICK n, f : n = Len(frames) - 1 /\ f = Top
  OBVIOUS
<1>2. frames # <<>> /\ Return /\ f.kind = "narrow"
  BY <1>1 DEF ExitNarrowed
<1>3. /\ n \in Nat /\ DOMAIN frames = 1..n + 1 /\ DOMAIN frames' = 1..n
      /\ frames' \in Seq(Frames) /\ f \in Frames
      /\ \A k \in 1..n : frames'[k] = frames[k]
      /\ OneMore(frames', frames, n, f)
  BY <1>1, <1>2, Returning
<1>4. UNCHANGED <<cached, ctx, layers, metas, nLayers, loops, nLoops, consts, inlines, decls, depth>>
  BY DEF ExitNarrowed, bindings, perFile
<1>0. PICK s : s = narrowed /\ s \in Seq(Names)
  BY DEF Types
<1>5. PICK p \in Nat : s = narrowed /\ p = Len(narrowed)
  BY <1>0
<1>6. s \in Seq(Names) /\ p \in Nat /\ DOMAIN s = 1..p
  BY <1>0, <1>5
<1>7. /\ Stacked(Pop(s), Narrows(frames')) /\ p > 0 /\ s[p] = f.name
      /\ Pop(s) \in Seq(Names)
  <2>1. PICK r, v, w : r = SubSeq(s, 1, p - 1) /\ v = Narrows(frames') /\ w = Narrows(frames)
    OBVIOUS
  <2>2. Stacked(s, w) /\ Grows(v, w, n, f.kind = "narrow", f.name)
    BY <1>3, <1>5, <2>1 DEF OneMore, Stacks
  <2>3. /\ 1 \in Int /\ p - 1 \in Int /\ \A i \in 1..p - 1 : s[i] \in Names
        /\ p - 1 - 1 + 1 = p - 1 /\ \A i \in 1..p - 1 : 1 + i - 1 = i
    BY <1>6
  <2>4. r \in Seq(Names) /\ \A i \in 1..p - 1 : r[i] = s[i]
    BY <2>1, <2>3, SubSeqProperties
  <2>5. Len(r) = IF 1 <= p - 1 THEN p - 1 ELSE 0
    BY <2>1, <2>3, SubSeqProperties
  <2>6. DOMAIN r = 1..p - 1
    BY <1>6, <2>4, <2>5
  <2>7. PICK y : Popped(r, s, p, y) /\ y = s[p]
    BY <1>6, <2>4, <2>6 DEF Popped
  <2>8. Stacked(r, v) /\ p > 0 /\ s[p] = f.name
    <3>1. PICK x : x = f.name
      OBVIOUS
    <3>2. Grows(v, w, n, f.kind = "narrow", x)
      BY <2>2, <3>1
    <3>3. n \in Nat /\ f.kind = "narrow" /\ Stacked(s, w)
      BY <1>2, <1>3, <1>6, <2>2
    <3>4. PICK q : q = p
      OBVIOUS
    <3>5. q \in Nat /\ Popped(r, s, q, y)
      BY <2>7, <3>4
    <3>6. Stacked(r, v) /\ q > 0
      BY <3>2, <3>3, <3>5, GrowsPop
    <3>7. Popped(r, s, q, x)
      BY <3>2, <3>3, <3>5, GrowsPop
    <3>8. s[q] = x
      BY <3>7 DEF Popped
    <3> QED  BY <2>7, <3>1, <3>4, <3>6, <3>8
  <2> QED  BY <1>5, <2>1, <2>4, <2>8 DEF Pop
<1>8. narrowed' = Pop(s)
  <2>1. PICK S : S = {j \in DOMAIN narrowed : narrowed[j] = f.name}
    OBVIOUS
  <2>2. S \in SUBSET Nat /\ p \in S /\ \A j \in S : j <= p
    BY <1>5, <1>6, <1>7, <2>1
  <2>3. Innermost(S) = p
    BY <2>2, InnermostIs
  <2>4. narrowed' = SubSeq(s, 1, p - 1) \o SubSeq(s, p + 1, p)
    <3>1. Innermost({j \in DOMAIN narrowed : narrowed[j] = Top.name}) = p
      BY <1>1, <2>1, <2>3
    <3> QED  BY <1>5, <3>1 DEF ExitNarrowed
  <2>5. SubSeq(s, p + 1, p) = <<>>
    BY <1>6, SubSeqEmpty
  <2>6. SubSeq(s, 1, p - 1) = Pop(s)
    BY <1>5 DEF Pop
  <2>7. Pop(s) \o <<>> = Pop(s)
    BY <1>7, ConcatEmptySeq
  <2> QED  BY <2>4, <2>5, <2>6, <2>7
<1>9. Types'
  BY <1>3, <1>4, <1>7, <1>8 DEF Types
<1>10. Stacks'
  <2>1. LoopsNow' = LoopsNow /\ LayersNow' = LayersNow
    BY <1>4 DEF LoopsNow, LayersNow
  <2>0. f.kind # "for" /\ f.kind # "file"
    BY <1>2
  <2>4. Stacked(LoopsNow, ForBinds(frames'))
    <3>1. PICK x : x = <<f.binding, f.items[f.at]>>
      OBVIOUS
    <3>2. Grows(ForBinds(frames'), ForBinds(frames), n, f.kind = "for", x)
      BY <1>3, <3>1 DEF OneMore
    <3> QED  BY <1>3, <2>0, <3>2, KeptStack DEF Stacks
  <2>5. Stacked(LayersNow, IncludeBinds(frames'))
    BY <1>3, <2>0, KeptStack DEF OneMore, Stacks
  <2>6. Stacked(consts, ConstFiles(frames'))
    BY <1>3, <2>0, KeptStack DEF OneMore, Stacks
  <2>7. Stacked(inlines, InlineFiles(frames'))
    BY <1>3, <2>0, KeptStack DEF OneMore, Stacks
  <2>8. Stacked(decls, DeclFiles(frames')) /\ depth = Cardinality(IncludeCalls(frames'))
    BY <1>3, <2>0, KeptStack DEF OneMore, Stacks
  <2> QED  BY <1>4, <1>7, <1>8, <2>1, <2>4, <2>5, <2>6, <2>7, <2>8 DEF Stacks
<1> QED  BY <1>3, <1>4, <1>9, <1>10, Leaving

----------------------------------------------------------------------------
(* Layers.                                                                 *)

\* h maps what f maps, and what g maps of the rest.
Overlay(h, f, g) ==
    /\ h \in Environments /\ DOMAIN h = DOMAIN f \cup DOMAIN g
    /\ \A n \in DOMAIN f : h[n] = f[n]
    /\ \A n \in DOMAIN g : n \notin DOMAIN f => h[n] = g[n]

LEMMA OverFacts ==
    ASSUME NEW f \in Environments, NEW g \in Environments
    PROVE  Overlay(Over(f, g), f, g)
<1>1. /\ DOMAIN f \subseteq Names /\ DOMAIN g \subseteq Names
      /\ \A n \in DOMAIN f : f[n] \in Values
      /\ \A n \in DOMAIN g : g[n] \in Values
  BY EnvironmentIs
<1>2. PICK h : h = Over(f, g)
  OBVIOUS
<1>3. PICK D : D = DOMAIN f \cup DOMAIN g
  OBVIOUS
<1>4. h = [n \in D |-> IF n \in DOMAIN f THEN f[n] ELSE g[n]]
  BY <1>2, <1>3 DEF Over
<1>5. DOMAIN h \subseteq Names /\ h \in [DOMAIN h -> Values]
  BY <1>1, <1>3, <1>4
<1>6. h \in Environments
  BY <1>5, EnvironmentIs
<1>7. Overlay(h, f, g)
  BY <1>3, <1>4, <1>6 DEF Overlay
<1> QED  BY <1>2, <1>7

LEMMA InjectedFacts ==
    ASSUME NEW t \in Templates, NEW with \in Environments
    PROVE  /\ Injected(t, with) \in Environments
           /\ DOMAIN Injected(t, with) = DOMAIN Defaults[t] \ DOMAIN with
           /\ \A n \in DOMAIN Defaults[t] : n \notin DOMAIN with => Injected(t, with)[n] = Defaults[t][n]
<1>1. /\ DOMAIN Defaults[t] \subseteq Names
      /\ \A n \in DOMAIN Defaults[t] : Defaults[t][n] \in Values
  BY EnvironmentIs DEF TemplateAssumption
<1>2. PICK h : h = Injected(t, with)
  OBVIOUS
<1>3. h = [n \in DOMAIN Defaults[t] \ DOMAIN with |-> Defaults[t][n]]
  BY <1>2 DEF Injected
<1>4. DOMAIN h \subseteq Names /\ h \in [DOMAIN h -> Values]
  BY <1>1, <1>3
<1>5. h \in Environments
  BY <1>4, EnvironmentIs
<1> QED  BY <1>2, <1>3, <1>5

LEMMA SingleFacts ==
    ASSUME NEW n \in Names
    PROVE  /\ \A x \in Values : Single(n, x) \in Environments
           /\ \A i \in Nat : Single(n, i) \in Indexes
           /\ \A x : DOMAIN Single(n, x) = {n} /\ Single(n, x)[n] = x
<1>1. \A x : DOMAIN Single(n, x) = {n} /\ Single(n, x)[n] = x
  BY DEF Single
<1>2. ASSUME NEW x \in Values PROVE Single(n, x) \in Environments
  <2>1. PICK h : h = Single(n, x)
    OBVIOUS
  <2>2. DOMAIN h \subseteq Names /\ h \in [DOMAIN h -> Values]
    BY <2>1 DEF Single
  <2>3. h \in Environments
    BY <2>2, EnvironmentIs
  <2> QED  BY <2>1, <2>3
<1>3. ASSUME NEW i \in Nat PROVE Single(n, i) \in Indexes
  <2>1. PICK h : h = Single(n, i)
    OBVIOUS
  <2>2. DOMAIN h \subseteq Names /\ h \in [DOMAIN h -> Nat]
    BY <2>1 DEF Single
  <2>3. h \in Indexes
    BY <2>2, EnvironmentIs
  <2> QED  BY <2>1, <2>3
<1> QED  BY <1>1, <1>2, <1>3

\* What the layer of an include gives: the arguments, the defaults of the others, and
\* the item, unless there is a default of its name.
LEMMA LayerFacts ==
    ASSUME NEW f \in Frames, f.kind = "file"
    PROVE  /\ LayerOf(f) \in Environments
           /\ \A n \in Params[f.tmpl] : n \in DOMAIN LayerOf(f)
           /\ \A n \in DOMAIN f.with : n \in DOMAIN LayerOf(f) /\ LayerOf(f)[n] = f.with[n]
           /\ \A n \in DOMAIN Defaults[f.tmpl] : n \notin DOMAIN f.with =>
                 n \in DOMAIN LayerOf(f) /\ LayerOf(f)[n] = Defaults[f.tmpl][n]
           /\ f.binding # NoName /\ f.binding \notin DOMAIN f.with \cup DOMAIN Defaults[f.tmpl] =>
                 f.binding \in DOMAIN LayerOf(f) /\ LayerOf(f)[f.binding] = f.items[f.at]
           /\ DOMAIN LayerOf(f) \subseteq DOMAIN f.with \cup DOMAIN Defaults[f.tmpl] \cup {f.binding}
<1>1. PICK t, w, d : t = f.tmpl /\ w = f.with /\ d = Defaults[t]
  OBVIOUS
<1>2. /\ t \in Templates /\ w \in Environments /\ d \in Environments
      /\ f.binding \in IncludeNames \cup {NoName}
      /\ Params[t] \ DOMAIN d \subseteq DOMAIN w \cup {f.binding}
      /\ Params[t] \subseteq Names
      /\ f.binding # NoName => f.binding \in Names /\ f.items[f.at] \in Values
  BY <1>1, FrameFacts DEF Accepts, TemplateAssumption
<1>0. t \in Templates /\ w \in Environments
  BY <1>2
<1>3. PICK j : /\ j = Injected(t, w) /\ j \in Environments /\ DOMAIN j = DOMAIN d \ DOMAIN w
               /\ \A n \in DOMAIN d : n \notin DOMAIN w => j[n] = d[n]
  <2>1. /\ Injected(t, w) \in Environments
        /\ DOMAIN Injected(t, w) = DOMAIN Defaults[t] \ DOMAIN w
        /\ \A n \in DOMAIN Defaults[t] : n \notin DOMAIN w => Injected(t, w)[n] = Defaults[t][n]
    BY <1>0, InjectedFacts
  <2> QED  BY <1>1, <2>1
<1>4. CASE f.binding = NoName
  <2>1. PICK h : h = Over(j, w)
    OBVIOUS
  <2>2. LayerOf(f) = h
    BY <1>1, <1>3, <1>4, <2>1 DEF LayerOf
  <2>0. j \in Environments /\ w \in Environments
    BY <1>2, <1>3
  <2>3. /\ h \in Environments /\ DOMAIN h = DOMAIN j \cup DOMAIN w
        /\ \A n \in DOMAIN j : h[n] = j[n]
        /\ \A n \in DOMAIN w : n \notin DOMAIN j => h[n] = w[n]
    <3>1. Overlay(Over(j, w), j, w)
      BY <2>0, OverFacts
    <3> QED  BY <2>1, <3>1 DEF Overlay
  <2>4. NoName \notin Names
    BY DEF TemplateAssumption
  <2> QED  BY <1>1, <1>2, <1>3, <1>4, <2>2, <2>3, <2>4
<1>5. CASE f.binding # NoName
  <2>1. PICK b, s, g, h : /\ b = f.binding /\ s = Single(b, f.items[f.at]) /\ g = Over(w, s)
                          /\ h = Over(j, g)
    OBVIOUS
  <2>2. LayerOf(f) = h
    BY <1>1, <1>3, <1>5, <2>1 DEF LayerOf, IterationLayer
  <2>3. s \in Environments /\ DOMAIN s = {b} /\ s[b] = f.items[f.at]
    <3>1. PICK x \in Values : x = f.items[f.at]
      BY <1>2, <1>5
    <3>2. b \in Names /\ s = Single(b, x)
      BY <1>2, <1>5, <2>1, <3>1
    <3>3. s \in Environments /\ DOMAIN s = {b} /\ s[b] = x
      BY <3>2, SingleFacts
    <3> QED  BY <3>1, <3>3
  <2>4. /\ g \in Environments /\ DOMAIN g = DOMAIN w \cup {b}
        /\ \A n \in DOMAIN w : g[n] = w[n]
        /\ b \notin DOMAIN w => g[b] = s[b]
    <3>1. w \in Environments /\ s \in Environments /\ g = Over(w, s)
      BY <1>2, <2>1, <2>3
    <3>2. /\ g \in Environments /\ DOMAIN g = DOMAIN w \cup DOMAIN s
          /\ \A n \in DOMAIN w : g[n] = w[n]
          /\ \A n \in DOMAIN s : n \notin DOMAIN w => g[n] = s[n]
      <4>1. Overlay(Over(w, s), w, s)
        BY <3>1, OverFacts
      <4> QED  BY <3>1, <4>1 DEF Overlay
    <3> QED  BY <2>3, <3>2
  <2>5. /\ h \in Environments /\ DOMAIN h = DOMAIN j \cup DOMAIN g
        /\ \A n \in DOMAIN j : h[n] = j[n]
        /\ \A n \in DOMAIN g : n \notin DOMAIN j => h[n] = g[n]
    <3>1. j \in Environments /\ g \in Environments /\ h = Over(j, g)
      BY <1>3, <2>1, <2>4
    <3>2. Overlay(Over(j, g), j, g)
      BY <3>1, OverFacts
    <3>3. Overlay(h, j, g)
      BY <3>1, <3>2
    <3> QED  BY <3>3 DEF Overlay
  <2>6. \A n \in DOMAIN w \cup DOMAIN d : n \in DOMAIN h
    BY <1>3, <2>4, <2>5
  <2>7. \A n \in Params[t] : n \in DOMAIN h
    <3>1. f.binding \in DOMAIN h
      BY <2>1, <2>4, <2>5
    <3> QED  BY <1>2, <2>6, <3>1
  <2>8. \A n \in DOMAIN w : h[n] = w[n]
    BY <1>3, <2>4, <2>5
  <2>9. \A n \in DOMAIN d : n \notin DOMAIN w => h[n] = d[n]
    BY <1>3, <2>5
  <2>10. b \notin DOMAIN w \cup DOMAIN d => b \in DOMAIN h /\ h[b] = f.items[f.at]
    BY <1>3, <2>3, <2>4, <2>5
  <2>11. DOMAIN h \subseteq DOMAIN w \cup DOMAIN d \cup {b}
    BY <1>3, <2>4, <2>5
  <2>12. h \in Environments
    BY <2>5
  <2>13. LayerOf(f) = h /\ f.with = w /\ Defaults[f.tmpl] = d /\ Params[f.tmpl] = Params[t] /\ f.binding = b
    BY <1>1, <2>1, <2>2
  <2> HIDE DEF LayerOf
  <2> QED  BY <2>6, <2>7, <2>8, <2>9, <2>10, <2>11, <2>12, <2>13
<1> QED  BY <1>4, <1>5

\* push_layer and set_loop_meta: no other slot changes, and of the loops' bindings
\* only the index of those of the name.
LEMMA PushLayerFacts ==
    ASSUME Types, NEW k \in Nat \ {0}, k <= nLayers + 1, NEW layer \in Environments,
           NEW n \in Names \cup {NoName}, NEW i \in Nat, PushLayer(k, layer, n, i)
    PROVE  /\ layers' \in Seq(Environments) /\ metas' \in Seq(Indexes)
           /\ Len(layers') = Len(metas') /\ nLayers' = k /\ k <= Len(layers')
           /\ layers'[k] = layer
           /\ \A j \in 1..nLayers : j # k => layers'[j] = layers[j] /\ metas'[j] = metas[j]
           /\ loops' \in Seq(LoopRecords) /\ nLoops' = nLoops /\ nLoops <= Len(loops')
           /\ \A j \in 1..nLoops : /\ loops'[j].name = loops[j].name
                                   /\ loops'[j].value = loops[j].value
                                   /\ loops'[j].meta = loops[j].meta \/ loops[j].name = n
           /\ n # NoName /\ LoopsOf(n) = {} => metas'[k] = Single(n, i)
<1>1. PICK s \in Seq(Environments) : s = layers
  BY DEF Types
<1>2. PICK r \in Seq(Indexes) : r = metas
  BY DEF Types
<1>3. PICK l \in Seq(LoopRecords) : l = loops
  BY DEF Types, LoopRecords
<1>4. /\ nLayers \in Nat /\ nLoops \in Nat /\ nLayers <= Len(s) /\ Len(s) = Len(r)
      /\ nLoops <= Len(l) /\ Len(s) \in Nat
  BY <1>1, <1>2, <1>3 DEF Types
<1>5. PICK p \in 1..Len(s) + 1 : p = k
  BY <1>4
<1>6. PICK q \in 1..Len(r) + 1 : q = k
  BY <1>4
<1>7. Slotted(Environments, Slot(s, p, layer), s, p, layer)
  BY SlotFacts
<1>8. layers' = Slot(s, p, layer) /\ nLayers' = k /\ nLoops' = nLoops
  BY <1>1, <1>5 DEF PushLayer
<1>9. /\ layers' \in Seq(Environments) /\ k <= Len(layers') /\ layers'[k] = layer
      /\ \A j \in 1..nLayers : j # k => layers'[j] = layers[j]
      /\ Len(layers') = IF k <= Len(s) THEN Len(s) ELSE Len(s) + 1
  <2>1. Slotted(Environments, layers', s, p, layer)
    BY <1>7, <1>8
  <2>2. /\ layers' \in Seq(Environments) /\ layers'[p] = layer
        /\ Len(layers') = IF p <= Len(s) THEN Len(s) ELSE Len(s) + 1
        /\ \A j \in 1..Len(s) : j # p => layers'[j] = s[j]
    BY <2>1 DEF Slotted
  <2> QED  BY <1>1, <1>4, <1>5, <2>2
<1>10. ASSUME NEW m \in Indexes, metas' = Slot(r, q, m)
       PROVE  /\ metas' \in Seq(Indexes) /\ Len(metas') = Len(layers') /\ metas'[k] = m
              /\ \A j \in 1..nLayers : j # k => metas'[j] = metas[j]
  <2>1. Slotted(Indexes, Slot(r, q, m), r, q, m)
    BY SlotFacts
  <2>2. /\ metas' \in Seq(Indexes) /\ metas'[q] = m
        /\ Len(metas') = IF q <= Len(r) THEN Len(r) ELSE Len(r) + 1
        /\ \A j \in 1..Len(r) : j # q => metas'[j] = r[j]
    <3>1. Slotted(Indexes, metas', r, q, m)
      BY <1>10, <2>1
    <3> QED  BY <3>1 DEF Slotted
  <2> QED  BY <1>2, <1>4, <1>6, <1>9, <2>2
<1>11. CASE n # NoName /\ LoopsOf(n) # {}
  <2>1. metas' = Slot(r, q, <<>>) /\ loops' = [loops EXCEPT ![Innermost(LoopsOf(n))].meta = i]
    BY <1>2, <1>6, <1>11 DEF PushLayer
  <2>2. PICK c : c = Innermost(LoopsOf(n))
    OBVIOUS
  <2>3. c \in LoopsOf(n)
    <3>1. PICK S : S = LoopsOf(n)
      OBVIOUS
    <3>2. S \in SUBSET (0..nLoops) /\ S # {}
      BY <1>4, <1>11, <3>1 DEF LoopsOf
    <3>3. Innermost(S) \in S
      BY <1>4, <3>2, LargestExists
    <3> QED  BY <2>2, <3>1, <3>3
  <2>4. c \in 1..nLoops /\ loops[c].name = n
    BY <2>3 DEF LoopsOf
  <2>5. PICK u, e : u = l[c] /\ e = [u EXCEPT !.meta = i]
    OBVIOUS
  <2>6. u \in LoopRecords /\ c \in 1..Len(l)
    BY <1>3, <1>4, <2>4, <2>5
  <2>7. e \in LoopRecords /\ e.name = u.name /\ e.value = u.value
    BY <2>5, <2>6 DEF LoopRecords
  <2>8. loops' = [l EXCEPT ![c] = e]
    BY <1>3, <2>1, <2>2, <2>5, <2>6
  <2>9. /\ [l EXCEPT ![c] = e] \in Seq(LoopRecords)
        /\ Len([l EXCEPT ![c] = e]) = Len(l)
        /\ \A j \in 1..Len(l) : [l EXCEPT ![c] = e][j] = IF j = c THEN e ELSE l[j]
    BY <2>6, <2>7, ExceptSeq
  <2>10. /\ loops' \in Seq(LoopRecords) /\ Len(loops') = Len(l)
         /\ \A j \in 1..nLoops : loops'[j] = IF j = c THEN e ELSE l[j]
    BY <1>4, <2>8, <2>9
  <2>11. \A j \in 1..nLoops : /\ loops'[j].name = loops[j].name
                              /\ loops'[j].value = loops[j].value
                              /\ loops'[j].meta = loops[j].meta \/ loops[j].name = n
    BY <1>3, <2>4, <2>5, <2>7, <2>10
  <2> QED  BY <1>4, <1>8, <1>9, <1>10, <1>11, <2>1, <2>10, <2>11, NoBindings
<1>12. CASE ~ (n # NoName /\ LoopsOf(n) # {})
  <2>1. PICK m : m = IF n = NoName THEN <<>> ELSE Single(n, i)
    OBVIOUS
  <2>2. m \in Indexes
    BY <2>1, SingleFacts, NoBindings
  <2>3. metas' = Slot(r, q, m) /\ loops' = loops
    BY <1>2, <1>6, <1>12, <2>1 DEF PushLayer
  <2>4. n # NoName => m = Single(n, i)
    BY <2>1
  <2> QED  BY <1>3, <1>4, <1>8, <1>9, <1>10, <2>2, <2>3, <2>4
<1> QED  BY <1>11, <1>12

----------------------------------------------------------------------------
(* Lookups.                                                                *)

\* The current template's call is the last of a template.
LEMMA ActiveFacts ==
    ASSUME Types, Rooted, frames # <<>>
    PROVE  /\ Len(frames) \in Nat /\ DOMAIN frames = 1..Len(frames)
           /\ Active \in 1..Len(frames) /\ IsFile(Active)
           /\ \A k \in DOMAIN frames : IsFile(k) => k <= Active
           /\ Current \in Frames /\ Current.kind = "file" /\ Current = frames[Active]
<1>1. PICK n \in Nat : n = Len(frames) /\ DOMAIN frames = 1..n /\ frames \in Seq(Frames)
  BY DEF Types
<1>2. 1 \in DOMAIN frames /\ IsFile(1)
  BY <1>1, EmptySeq DEF Rooted
<1>3. PICK S : S = {k \in DOMAIN frames : IsFile(k)}
  OBVIOUS
<1>4. S \in SUBSET (0..n) /\ S # {}
  BY <1>1, <1>2, <1>3
<1>5. Innermost(S) \in S /\ \A j \in S : j <= Innermost(S)
  BY <1>4, LargestExists
<1>6. Active \in S /\ \A j \in S : j <= Active
  BY <1>3, <1>5 DEF Active
<1>7. Active \in DOMAIN frames /\ IsFile(Active) /\ \A k \in DOMAIN frames : IsFile(k) => k <= Active
  BY <1>3, <1>6
<1> QED  BY <1>1, <1>7 DEF Current, IsFile

\* The places of s whose entry is in X.
Holding(T, s, X) == \A i : i \in T <=> i \in DOMAIN s /\ s[i] \in X

\* The innermost of them belongs to the innermost call whose entry is in X.
LEMMA StackHolders ==
    ASSUME NEW n \in Nat, NEW s, NEW v, Below(v, n), Stacked(s, v), NEW X,
           NEW T, Holding(T, s, X), NEW K, Holding(K, v, X)
    PROVE  /\ T = {} <=> K = {}
           /\ K # {} => /\ Innermost(K) \in K /\ \A k \in K : k <= Innermost(K)
                        /\ Innermost(T) = Rank(DOMAIN v, Innermost(K))
                        /\ s[Innermost(T)] = v[Innermost(K)]
<1>1. K # {} => T # {}
  <2> SUFFICES ASSUME NEW k \in K PROVE T # {}
    OBVIOUS
  <2>1. Rank(DOMAIN v, k) \in DOMAIN s /\ s[Rank(DOMAIN v, k)] = v[k]
    BY StackedFacts DEF Holding
  <2> QED  BY <2>1 DEF Holding
<1>2. T # {} => K # {}
  <2> SUFFICES ASSUME NEW i \in T PROVE K # {}
    OBVIOUS
  <2>1. \E k \in DOMAIN v : Rank(DOMAIN v, k) = i /\ s[i] = v[k]
    BY StackedFacts DEF Holding
  <2> QED  BY <2>1 DEF Holding
<1>3. ASSUME K # {}
      PROVE  /\ Innermost(K) \in K /\ \A k \in K : k <= Innermost(K)
             /\ Innermost(T) = Rank(DOMAIN v, Innermost(K))
             /\ s[Innermost(T)] = v[Innermost(K)]
  <2>1. K \in SUBSET (0..n)
    BY DEF Holding, Below
  <2>2. Innermost(K) \in K /\ \A k \in K : k <= Innermost(K)
    BY <1>3, <2>1, LargestExists
  <2>3. PICK c \in DOMAIN v : c = Innermost(K)
    BY <2>2 DEF Holding
  <2>4. v[c] \in X /\ \A k \in DOMAIN v : v[k] \in X => k <= c
    BY <2>2, <2>3 DEF Holding
  <2>5. /\ s[Rank(DOMAIN v, c)] = v[c]
        /\ \A U : (\A i : i \in U <=> i \in DOMAIN s /\ s[i] \in X)
                  => Innermost(U) = Rank(DOMAIN v, c)
    BY <2>4, StackedInnermost
  <2>6. Innermost(T) = Rank(DOMAIN v, c)
    BY <2>5 DEF Holding
  <2> QED  BY <2>2, <2>3, <2>5, <2>6
<1> QED  BY <1>1, <1>2, <1>3

\* The calls that give a name a value on each stack.
ConstHolders(n) == {k \in Constant : n \in DOMAIN Consts[frames[k].tmpl]}
LoopHolders(n)  == {k \in Fors : frames[k].binding = n}
LayerHolders(n) == {k \in Layering : n \in DOMAIN LayerOf(frames[k])}

LastOf(S) == Innermost(S) \in S /\ \A k \in S : k <= Innermost(S)

LEMMA ConstLookup ==
    ASSUME ScopeInv, NEW n
    PROVE  LET T == {i \in DOMAIN consts : n \in DOMAIN Consts[consts[i]]}
               K == ConstHolders(n)
           IN  /\ T = {} <=> K = {}
               /\ K # {} => /\ LastOf(K)
                            /\ consts[Innermost(T)] = frames[Innermost(K)].tmpl
<1> USE DEF ScopeInv
<1>1. PICK m \in Nat : DOMAIN frames = 1..m
  BY DEF Types
<1>2. PICK T, K, v, X : /\ T = {i \in DOMAIN consts : n \in DOMAIN Consts[consts[i]]}
                        /\ K = ConstHolders(n) /\ v = ConstFiles(frames)
                        /\ X = {t \in Templates : n \in DOMAIN Consts[t]}
  OBVIOUS
<1>3. DOMAIN v = Constant /\ \A k \in Constant : v[k] = frames[k].tmpl
  BY <1>2 DEF ConstFiles, Constant, IsFile
<1>4. Below(v, m) /\ Stacked(consts, v)
  BY <1>1, <1>2, <1>3 DEF Constant, Below, Stacks
<1>5. \A k \in Constant : frames[k].tmpl \in Templates
  <2> SUFFICES ASSUME NEW k \in Constant PROVE frames[k].tmpl \in Templates
    OBVIOUS
  <2>1. frames[k] \in Frames /\ frames[k].kind = "file"
    BY DEF Constant, IsFile, Types
  <2> QED  BY <2>1, FrameFacts
<1>6. Holding(K, v, X)
  BY <1>2, <1>3, <1>5 DEF Holding, ConstHolders
<1>7. Holding(T, consts, X)
  <2>1. \A i \in DOMAIN consts : consts[i] \in Templates
    BY DEF Types
  <2> QED  BY <1>2, <2>1 DEF Holding
<1>8. /\ T = {} <=> K = {}
      /\ K # {} => /\ Innermost(K) \in K /\ \A k \in K : k <= Innermost(K)
                   /\ consts[Innermost(T)] = v[Innermost(K)]
  BY <1>4, <1>6, <1>7, StackHolders
<1>9. K \subseteq Constant
  BY <1>2 DEF ConstHolders
<1> QED  BY <1>2, <1>3, <1>8, <1>9 DEF LastOf

LEMMA LoopLookup ==
    ASSUME ScopeInv, NEW n
    PROVE  LET T == LoopsOf(n)
               K == LoopHolders(n)
           IN  /\ T = {} <=> K = {}
               /\ K # {} => /\ LastOf(K)
                            /\ Innermost(T) = Rank(Fors, Innermost(K))
                            /\ loops[Innermost(T)].value =
                                  frames[Innermost(K)].items[frames[Innermost(K)].at]
<1> USE DEF ScopeInv
<1>1. PICK m \in Nat : DOMAIN frames = 1..m
  BY DEF Types
<1>2. PICK T, K, v, s : T = LoopsOf(n) /\ K = LoopHolders(n) /\ v = ForBinds(frames) /\ s = LoopsNow
  OBVIOUS
<1>3. /\ DOMAIN v = Fors
      /\ \A k \in Fors : v[k] = <<frames[k].binding, frames[k].items[frames[k].at]>>
      /\ DOMAIN s = 1..nLoops
      /\ \A i \in 1..nLoops : s[i] = <<loops[i].name, loops[i].value>>
  BY <1>2 DEF ForBinds, Fors, LoopsNow
<1>4. Below(v, m) /\ Stacked(s, v)
  BY <1>1, <1>2, <1>3 DEF Fors, Below, Stacks
<1>5. PICK X : X = {<<n, x>> : x \in Values}
  OBVIOUS
<1>6. \A a, x : <<a, x>> \in X <=> a = n /\ x \in Values
  BY <1>5
<1>7. \A k \in Fors : frames[k].items[frames[k].at] \in Values
  <2> SUFFICES ASSUME NEW k \in Fors PROVE frames[k].items[frames[k].at] \in Values
    OBVIOUS
  <2>1. frames[k] \in Frames /\ frames[k].kind = "for"
    BY DEF Fors, Types
  <2> QED  BY <2>1, FrameFacts
<1>8. ASSUME NEW i \in 1..nLoops PROVE loops[i].value \in Values
  <2>1. PICK l \in Seq(LoopRecords) : l = loops
    BY DEF Types, LoopRecords
  <2>2. i \in 1..Len(l)
    BY <2>1 DEF Types
  <2>3. l[i] \in LoopRecords
    BY <2>2
  <2> QED  BY <2>1, <2>3 DEF LoopRecords
<1>9. Holding(K, v, X)
  <2>1. \A k : k \in K <=> k \in Fors /\ frames[k].binding = n
    BY <1>2 DEF LoopHolders
  <2>2. ASSUME NEW k \in Fors PROVE v[k] \in X <=> frames[k].binding = n
    <3>1. PICK a, x : a = frames[k].binding /\ x = frames[k].items[frames[k].at]
      OBVIOUS
    <3>2. v[k] = <<a, x>> /\ x \in Values
      BY <1>3, <1>7, <3>1
    <3>3. <<a, x>> \in X <=> a = n
      BY <1>6, <3>2
    <3> QED  BY <3>1, <3>2, <3>3
  <2> QED  BY <1>3, <2>1, <2>2 DEF Holding
<1>10. Holding(T, s, X)
  <2>1. \A i : i \in T <=> i \in 1..nLoops /\ loops[i].name = n
    BY <1>2 DEF LoopsOf
  <2>2. ASSUME NEW i \in 1..nLoops PROVE s[i] \in X <=> loops[i].name = n
    <3>1. PICK a, x : a = loops[i].name /\ x = loops[i].value
      OBVIOUS
    <3>2. s[i] = <<a, x>> /\ x \in Values
      BY <1>3, <1>8, <3>1
    <3>3. <<a, x>> \in X <=> a = n
      BY <1>6, <3>2
    <3> QED  BY <3>1, <3>2, <3>3
  <2> QED  BY <1>3, <2>1, <2>2 DEF Holding
<1>11. /\ T = {} <=> K = {}
       /\ K # {} => /\ Innermost(K) \in K /\ \A k \in K : k <= Innermost(K)
                    /\ Innermost(T) = Rank(DOMAIN v, Innermost(K))
                    /\ s[Innermost(T)] = v[Innermost(K)]
  BY <1>4, <1>9, <1>10, StackHolders
<1>12. ASSUME K # {}
       PROVE  loops[Innermost(T)].value = frames[Innermost(K)].items[frames[Innermost(K)].at]
  <2>1. PICK c \in Fors : c = Innermost(K)
    BY <1>2, <1>11, <1>12 DEF LoopHolders
  <2>2. PICK i : i = Innermost(T) /\ i = Rank(Fors, c)
    BY <1>3, <1>11, <1>12, <2>1
  <2>3. i \in 1..nLoops /\ loops[i].value = frames[c].items[frames[c].at]
    BY <2>1, <2>2, StackFacts
  <2> QED  BY <2>1, <2>2, <2>3
<1> QED  BY <1>2, <1>3, <1>11, <1>12 DEF LastOf

LEMMA LayerLookup ==
    ASSUME ScopeInv, NEW n
    PROVE  LET T == LayersOf(n)
               K == LayerHolders(n)
           IN  /\ T = {} <=> K = {}
               /\ K # {} => /\ LastOf(K)
                            /\ Innermost(T) = Rank(Layering, Innermost(K))
                            /\ layers[Innermost(T)] = LayerOf(frames[Innermost(K)])
<1> USE DEF ScopeInv
<1>1. PICK m \in Nat : DOMAIN frames = 1..m
  BY DEF Types
<1>2. PICK T, K, v, s : T = LayersOf(n) /\ K = LayerHolders(n) /\ v = IncludeBinds(frames) /\ s = LayersNow
  OBVIOUS
<1>3. /\ DOMAIN v = Layering
      /\ \A k \in Layering : v[k] = LayerOf(frames[k])
      /\ DOMAIN s = 1..nLayers
      /\ \A i \in 1..nLayers : s[i] = layers[i]
  <2>1. DOMAIN v = Layering
    BY <1>2, StackFacts
  <2>2. \A k \in DOMAIN v : v[k] = LayerOf(frames[k])
    BY <1>2 DEF IncludeBinds
  <2> QED  BY <1>2, <2>1, <2>2 DEF LayersNow
<1>4. Below(v, m) /\ Stacked(s, v)
  BY <1>1, <1>2, <1>3 DEF Layering, Includes, Below, Stacks
<1>5. PICK X : X = {l \in Environments : n \in DOMAIN l}
  OBVIOUS
<1>6. \A k \in Layering : LayerOf(frames[k]) \in Environments
  <2> SUFFICES ASSUME NEW k \in Layering PROVE LayerOf(frames[k]) \in Environments
    OBVIOUS
  <2>1. frames[k] \in Frames /\ frames[k].kind = "file"
    BY DEF Layering, Includes, IsFile, Types
  <2> QED  BY <2>1, LayerFacts
<1>7. \A i \in 1..nLayers : layers[i] \in Environments
  BY DEF Types
<1>9. Holding(K, v, X)
  <2>1. \A k : k \in K <=> k \in Layering /\ n \in DOMAIN LayerOf(frames[k])
    BY <1>2 DEF LayerHolders
  <2>2. \A k \in Layering : v[k] \in X <=> n \in DOMAIN LayerOf(frames[k])
    BY <1>3, <1>5, <1>6
  <2> QED  BY <1>3, <2>1, <2>2 DEF Holding
<1>10. Holding(T, s, X)
  <2>1. \A i : i \in T <=> i \in 1..nLayers /\ n \in DOMAIN layers[i]
    BY <1>2 DEF LayersOf
  <2>2. \A i \in 1..nLayers : s[i] \in X <=> n \in DOMAIN layers[i]
    BY <1>3, <1>5, <1>7
  <2> QED  BY <1>3, <2>1, <2>2 DEF Holding
<1>11. /\ T = {} <=> K = {}
       /\ K # {} => /\ Innermost(K) \in K /\ \A k \in K : k <= Innermost(K)
                    /\ Innermost(T) = Rank(DOMAIN v, Innermost(K))
                    /\ s[Innermost(T)] = v[Innermost(K)]
  BY <1>4, <1>9, <1>10, StackHolders
<1>12. ASSUME K # {}
       PROVE  layers[Innermost(T)] = LayerOf(frames[Innermost(K)])
  <2>1. PICK c \in Layering : c = Innermost(K)
    BY <1>2, <1>11, <1>12 DEF LayerHolders
  <2>2. PICK i : i = Innermost(T) /\ i = Rank(Layering, c)
    BY <1>3, <1>11, <1>12, <2>1
  <2>3. layers[i] = LayerOf(frames[c])
    BY <2>1, <2>2, StackFacts
  <2> QED  BY <2>1, <2>2, <2>3
<1> QED  BY <1>2, <1>3, <1>11, <1>12 DEF LastOf

\* What a lookup finds: a constant, a loop's item, a layer or the context, and of each
\* what the innermost call gives.
LEMMA Resolves ==
    ASSUME ScopeInv, NEW n
    PROVE  LET K == ConstHolders(n)
               L == LoopHolders(n)
               M == LayerHolders(n)
           IN  /\ K # {} => Resolve(n) = Consts[frames[Innermost(K)].tmpl][n]
               /\ K = {} /\ L # {} =>
                     Resolve(n) = frames[Innermost(L)].items[frames[Innermost(L)].at]
               /\ K = {} /\ L = {} /\ M # {} => Resolve(n) = LayerOf(frames[Innermost(M)])[n]
               /\ K = {} /\ L = {} /\ M = {} =>
                     Resolve(n) = IF n \in DOMAIN ctx THEN ctx[n] ELSE NoName
<1>1. PICK T : T = {i \in DOMAIN consts : n \in DOMAIN Consts[consts[i]]}
  OBVIOUS
<1>2. Resolve(n) = IF T # {} THEN Consts[consts[Innermost(T)]][n]
                   ELSE IF LoopsOf(n) # {}  THEN loops[Innermost(LoopsOf(n))].value
                   ELSE IF LayersOf(n) # {} THEN layers[Innermost(LayersOf(n))][n]
                   ELSE IF n \in DOMAIN ctx THEN ctx[n] ELSE NoName
  BY <1>1 DEF Resolve, ResolveIn
<1>3. /\ T = {} <=> ConstHolders(n) = {}
      /\ ConstHolders(n) # {} => consts[Innermost(T)] = frames[Innermost(ConstHolders(n))].tmpl
  BY <1>1, ConstLookup
<1>4. /\ LoopsOf(n) = {} <=> LoopHolders(n) = {}
      /\ LoopHolders(n) # {} =>
            loops[Innermost(LoopsOf(n))].value =
                frames[Innermost(LoopHolders(n))].items[frames[Innermost(LoopHolders(n))].at]
  BY LoopLookup
<1>5. /\ LayersOf(n) = {} <=> LayerHolders(n) = {}
      /\ LayerHolders(n) # {} =>
            layers[Innermost(LayersOf(n))] = LayerOf(frames[Innermost(LayerHolders(n))])
  BY LayerLookup
<1> QED  BY <1>2, <1>3, <1>4, <1>5

\* A constant that the current template sees is on the stack.
LEMMA FileConstHeld ==
    ASSUME ScopeInv, frames # <<>>, NEW n \in DOMAIN FileConsts(Current.tmpl)
    PROVE  /\ \E k \in ConstHolders(n) :
                 k <= Active /\ frames[k].tmpl \in {Current.tmpl, Owner[Current.tmpl]}
           /\ n \in DOMAIN Consts[Current.tmpl] => Active \in ConstHolders(n)
<1> USE DEF ScopeInv
<1>1. /\ Active \in DOMAIN frames /\ Active \in Nat \ {0} /\ IsFile(Active)
      /\ Current = frames[Active] /\ Current.kind = "file" /\ Current \in Frames
  BY ActiveFacts
<1>2. PICK t : t = Current.tmpl /\ t \in Templates
  BY <1>1, FrameFacts
<1>3. n \in DOMAIN Consts[t] \/ n \in DOMAIN Consts[Owner[t]]
  <2>1. PICK a, b : a = Consts[t] /\ b = Consts[Owner[t]] /\ a \in Environments /\ b \in Environments
    BY <1>2 DEF TemplateAssumption
  <2>2. DOMAIN Over(a, b) = DOMAIN a \cup DOMAIN b
    BY <2>1, OverFacts DEF Overlay
  <2>3. FileConsts(t) = Over(a, b)
    BY <2>1 DEF FileConsts
  <2> QED  BY <1>2, <2>1, <2>2, <2>3
<1>4. ASSUME n \in DOMAIN Consts[t] PROVE Active \in ConstHolders(n)
  <2>1. Active \in Constant
    BY <1>1, <1>2, <1>4 DEF Constant
  <2> QED  BY <1>1, <1>2, <1>4, <2>1 DEF ConstHolders
<1>5. ASSUME n \in DOMAIN Consts[Owner[t]]
      PROVE  \E k \in ConstHolders(n) : k <= Active /\ frames[k].tmpl = Owner[t]
  <2>1. PICK j \in 1..Active : IsFile(j) /\ frames[j].tmpl = Owner[frames[Active].tmpl]
    BY <1>1 DEF Owners, Owned
  <2>2. j \in DOMAIN frames /\ j <= Active /\ frames[j].tmpl = Owner[t]
    BY <1>1, <1>2, <2>1, ActiveFacts
  <2>3. j \in Constant
    BY <1>5, <2>1, <2>2 DEF Constant
  <2> QED  BY <1>5, <2>2, <2>3 DEF ConstHolders
<1> QED  BY <1>1, <1>2, <1>3, <1>4, <1>5

\* A parameter is bound by the layer of the template's include, or by the context.
LEMMA ParamHeld ==
    ASSUME ScopeInv, frames # <<>>, NEW n \in Params[Current.tmpl]
    PROVE  /\ n \in Names
           /\ Active > 1 => Active \in LayerHolders(n)
           /\ Active = 1 => /\ n \in DOMAIN ctx
                            /\ ctx[n] = IF n \in DOMAIN Current.with THEN Current.with[n]
                                                             ELSE Defaults[Current.tmpl][n]
<1> USE DEF ScopeInv
<1>1. /\ Active \in DOMAIN frames /\ Active \in Nat \ {0} /\ IsFile(Active)
      /\ Current = frames[Active] /\ Current.kind = "file" /\ Current \in Frames
  BY ActiveFacts
<1>2. PICK t, w, d : t = Current.tmpl /\ w = Current.with /\ d = Defaults[t]
  OBVIOUS
<1>3. /\ t \in Templates /\ w \in Environments /\ d \in Environments
      /\ Params[t] \ DOMAIN d \subseteq DOMAIN w \cup {Current.binding}
      /\ Params[t] \subseteq Names /\ NoName \notin Names
  BY <1>1, <1>2, FrameFacts DEF Accepts, TemplateAssumption
<1>4. n \in Params[t] /\ n \in Names
  BY <1>2, <1>3
<1>5. ASSUME Active > 1 PROVE Active \in LayerHolders(n)
  <2>1. Current.binding # NoName \/ NeedsLayer(t, w)
    <3> SUFFICES ASSUME Current.binding = NoName PROVE NeedsLayer(t, w)
      OBVIOUS
    <3>1. n \in DOMAIN d \/ n \in DOMAIN w
      BY <1>3, <1>4
    <3> QED  BY <1>2, <3>1 DEF NeedsLayer
  <2>2. Active \in Layering
    BY <1>1, <1>2, <1>5, <2>1 DEF Layering, Includes
  <2>3. n \in DOMAIN LayerOf(Current)
    BY <1>1, <1>2, <1>4, LayerFacts
  <2> QED  BY <1>1, <2>2, <2>3 DEF LayerHolders
<1>6. ASSUME Active = 1
      PROVE n \in DOMAIN ctx /\ ctx[n] = IF n \in DOMAIN w THEN w[n] ELSE d[n]
  <2>1. ctx = Over(w, d) /\ Current.binding = NoName
    BY <1>1, <1>2, <1>6 DEF Rooted
  <2>2. n \in DOMAIN d \/ n \in DOMAIN w
    BY <1>3, <1>4, <2>1
  <2>3. Overlay(Over(w, d), w, d)
    BY <1>3, OverFacts
  <2> QED  BY <2>1, <2>2, <2>3 DEF Overlay
<1> QED  BY <1>2, <1>4, <1>5, <1>6

\* A name that the current template can see has a value.
LEMMA VisibleResolves ==
    ASSUME ScopeInv, frames # <<>>, NEW n \in Visible
    PROVE  Resolve(n) \in Values
<1> USE DEF ScopeInv
<1>1. PICK K, L, M : K = ConstHolders(n) /\ L = LoopHolders(n) /\ M = LayerHolders(n)
  OBVIOUS
<1>2. /\ K # {} => Resolve(n) = Consts[frames[Innermost(K)].tmpl][n]
      /\ K = {} /\ L # {} => Resolve(n) = frames[Innermost(L)].items[frames[Innermost(L)].at]
      /\ K = {} /\ L = {} /\ M # {} => Resolve(n) = LayerOf(frames[Innermost(M)])[n]
      /\ K = {} /\ L = {} /\ M = {} => Resolve(n) = IF n \in DOMAIN ctx THEN ctx[n] ELSE NoName
  BY <1>1, Resolves
<1>3. CASE K # {}
  <2>1. PICK k \in K : k = Innermost(K)
    BY <1>1, <1>3, ConstLookup DEF LastOf
  <2>2. k \in Constant /\ n \in DOMAIN Consts[frames[k].tmpl]
    BY <1>1, <2>1 DEF ConstHolders
  <2>3. frames[k] \in Frames /\ frames[k].kind = "file"
    BY <2>2 DEF Constant, IsFile, Types
  <2>4. frames[k].tmpl \in Templates
    BY <2>3, FrameFacts
  <2>5. Consts[frames[k].tmpl] \in Environments
    BY <2>4 DEF TemplateAssumption
  <2>6. Consts[frames[k].tmpl][n] \in Values
    BY <2>2, <2>5, EnvironmentIs
  <2> QED  BY <1>2, <1>3, <2>1, <2>6
<1>4. CASE K = {} /\ L # {}
  <2>1. PICK k \in L : k = Innermost(L)
    BY <1>1, <1>4, LoopLookup DEF LastOf
  <2>2. frames[k] \in Frames /\ frames[k].kind = "for"
    BY <1>1, <2>1 DEF LoopHolders, Fors, Types
  <2>3. frames[k].items[frames[k].at] \in Values
    BY <2>2, FrameFacts
  <2> QED  BY <1>2, <1>4, <2>1, <2>3
<1>5. CASE K = {} /\ L = {} /\ M # {}
  <2>1. PICK k \in M : k = Innermost(M)
    BY <1>1, <1>5, LayerLookup DEF LastOf
  <2>2. k \in Layering /\ n \in DOMAIN LayerOf(frames[k])
    BY <1>1, <2>1 DEF LayerHolders
  <2>3. frames[k] \in Frames /\ frames[k].kind = "file"
    BY <2>2 DEF Layering, Includes, IsFile, Types
  <2>4. LayerOf(frames[k]) \in Environments
    BY <2>3, LayerFacts
  <2>5. LayerOf(frames[k])[n] \in Values
    BY <2>2, <2>4, EnvironmentIs
  <2> QED  BY <1>2, <1>5, <2>1, <2>5
<1>6. CASE K = {} /\ L = {} /\ M = {}
  <2>1. n \in DOMAIN ctx
    <3>1. n \notin DOMAIN FileConsts(Current.tmpl)
      BY <1>1, <1>6, FileConstHeld
    <3>2. n \notin OwnLoops
      <4> SUFFICES ASSUME NEW k \in Own, frames[k].kind = "for", frames[k].binding = n PROVE FALSE
        BY DEF OwnLoops
      <4>1. k \in DOMAIN frames
        BY ActiveFacts DEF Own
      <4> QED  BY <1>1, <1>6, <4>1 DEF LoopHolders, Fors
    <3>3. n \in Params[Current.tmpl]
      BY <3>1, <3>2 DEF Visible
    <3>4. ~ (Active > 1)
      BY <1>1, <1>6, <3>3, ParamHeld
    <3>5. Active = 1
      BY <3>4, ActiveFacts
    <3> QED  BY <3>3, <3>5, ParamHeld
  <2>2. ctx \in Environments
    BY DEF Types
  <2>3. ctx[n] \in Values
    BY <2>1, <2>2, EnvironmentIs
  <2> QED  BY <1>2, <1>6, <2>1, <2>3
<1> QED  BY <1>3, <1>4, <1>5, <1>6

\* A template that is being included has put its constants over all others.
LEMMA ResolveWithConsts ==
    ASSUME Types, NEW t \in Templates, NEW n
    PROVE  ResolveIn(Append(consts, t), n) =
               IF n \in DOMAIN Consts[t] THEN Consts[t][n] ELSE Resolve(n)
<1>1. PICK s \in Seq(Templates), m \in Nat : s = consts /\ m = Len(s)
  BY DEF Types
<1>2. PICK r : r = Append(s, t)
  OBVIOUS
<1>3. /\ DOMAIN s = 1..m /\ r \in Seq(Templates) /\ Len(r) = m + 1
      /\ \A i \in 1..m : r[i] = s[i]
      /\ r[m + 1] = t
  BY <1>1, <1>2, AppendProperties
<1>4. DOMAIN r = 1..m + 1
  BY <1>3
<1>5. PICK T, U : /\ T = {i \in DOMAIN s : n \in DOMAIN Consts[s[i]]}
                  /\ U = {i \in DOMAIN r : n \in DOMAIN Consts[r[i]]}
  OBVIOUS
<1>6. /\ \A i : i \in T <=> i \in 1..m /\ n \in DOMAIN Consts[s[i]]
      /\ \A i : i \in U <=> i \in 1..m + 1 /\ n \in DOMAIN Consts[r[i]]
  BY <1>3, <1>4, <1>5
<1>7. ResolveIn(r, n) = IF U # {} THEN Consts[r[Innermost(U)]][n]
                        ELSE IF LoopsOf(n) # {}  THEN loops[Innermost(LoopsOf(n))].value
                        ELSE IF LayersOf(n) # {} THEN layers[Innermost(LayersOf(n))][n]
                        ELSE IF n \in DOMAIN ctx THEN ctx[n] ELSE NoName
  BY <1>5 DEF ResolveIn
<1>8. Resolve(n) = IF T # {} THEN Consts[s[Innermost(T)]][n]
                   ELSE IF LoopsOf(n) # {}  THEN loops[Innermost(LoopsOf(n))].value
                   ELSE IF LayersOf(n) # {} THEN layers[Innermost(LayersOf(n))][n]
                   ELSE IF n \in DOMAIN ctx THEN ctx[n] ELSE NoName
  BY <1>1, <1>5 DEF Resolve, ResolveIn
<1>9. CASE n \in DOMAIN Consts[t]
  <2>1. m + 1 \in U /\ U \in SUBSET Nat /\ \A i \in U : i <= m + 1
    BY <1>3, <1>6, <1>9
  <2>2. Innermost(U) = m + 1
    BY <2>1, InnermostIs
  <2> QED  BY <1>1, <1>2, <1>3, <1>7, <1>9, <2>1, <2>2
<1>10. CASE n \notin DOMAIN Consts[t]
  <2>1. ASSUME NEW i PROVE i \in U <=> i \in T
    <3>1. CASE i = m + 1
      BY <1>3, <1>6, <1>10, <3>1
    <3>2. CASE i # m + 1
      <4>1. i \in 1..m + 1 <=> i \in 1..m
        BY <3>2
      <4> QED  BY <1>3, <1>6, <4>1
    <3> QED  BY <3>1, <3>2
  <2>2. U = T
    <3>1. U = {i \in 1..m + 1 : i \in T} /\ T = {i \in 1..m : i \in T}
      BY <1>3, <1>4, <1>5, <2>1
    <3>2. {i \in 1..m + 1 : i \in T} = {i \in 1..m : i \in T}
      BY <1>6
    <3> QED  BY <3>1, <3>2
  <2>3. T # {} => r[Innermost(T)] = s[Innermost(T)]
    <3> SUFFICES ASSUME T # {} PROVE r[Innermost(T)] = s[Innermost(T)]
      OBVIOUS
    <3>1. T \in SUBSET (0..m)
      BY <1>6
    <3>2. Innermost(T) \in T
      BY <3>1, LargestExists
    <3> QED  BY <1>3, <1>6, <3>2
  <2> QED  BY <1>1, <1>2, <1>7, <1>8, <1>10, <2>2, <2>3
<1> QED  BY <1>9, <1>10

\* What an include gives: a value, and the one that its text means unless a constant
\* of the included template comes in between.
LEMMA OverrideFacts ==
    ASSUME ScopeInv, frames # <<>>, NEW t \in Templates, NEW o \in Overrides(t)
    PROVE  /\ o.value \in Values /\ o.meant \in Values
           /\ \/ o.value = o.meant
              \/ \E c \in DOMAIN Consts[t] : o.value = Consts[t][c]
<1> USE DEF ScopeInv
<1>1. PICK e \in Literals \cup Visible :
          o = [value |-> EvalIn(Append(consts, t), e), meant |-> EvalIn(consts, e)]
  BY DEF Overrides
<1>2. o.value = EvalIn(Append(consts, t), e) /\ o.meant = EvalIn(consts, e)
  BY <1>1
<1>3. CASE e \notin Names
  <2>1. e \in Literals
    <3>1. Visible \subseteq Names
      <4> SUFFICES ASSUME NEW n \in Visible PROVE n \in Names
        OBVIOUS
      <4>1. CASE n \in OwnLoops
        <5>1. PICK k \in Own : frames[k].kind = "for" /\ frames[k].binding = n
          BY <4>1 DEF OwnLoops
        <5>2. k \in DOMAIN frames
          BY ActiveFacts DEF Own
        <5>3. frames[k] \in Frames
          BY <5>2 DEF Types
        <5> QED  BY <5>1, <5>3, FrameFacts
      <4>2. CASE n \in Params[Current.tmpl]
        BY <4>2, ParamHeld
      <4>3. CASE n \in DOMAIN FileConsts(Current.tmpl)
        <5>1. PICK k \in ConstHolders(n) : TRUE
          BY <4>3, FileConstHeld
        <5>2. n \in DOMAIN Consts[frames[k].tmpl] /\ frames[k] \in Frames /\ frames[k].kind = "file"
          BY <5>1 DEF ConstHolders, Constant, IsFile, Types
        <5>3. Consts[frames[k].tmpl] \in Environments
          BY <5>2, FrameFacts DEF TemplateAssumption
        <5> QED  BY <5>2, <5>3, EnvironmentIs
      <4> QED  BY <4>1, <4>2, <4>3 DEF Visible
    <3> QED  BY <1>3, <3>1
  <2>2. o.value = e /\ o.meant = e
    BY <1>2, <1>3 DEF EvalIn
  <2> QED  BY <2>1, <2>2 DEF TemplateAssumption
<1>4. CASE e \in Names
  <2>1. e \in Visible
    BY <1>4 DEF TemplateAssumption
  <2>2. /\ o.value = ResolveIn(Append(consts, t), e) /\ o.meant = Resolve(e)
    BY <1>2, <1>4 DEF EvalIn, Resolve
  <2>3. Resolve(e) \in Values
    BY <2>1, VisibleResolves
  <2>4. o.value = IF e \in DOMAIN Consts[t] THEN Consts[t][e] ELSE Resolve(e)
    BY <2>2, ResolveWithConsts
  <2>5. e \in DOMAIN Consts[t] => Consts[t][e] \in Values
    <3>1. Consts[t] \in Environments
      BY DEF TemplateAssumption
    <3> QED  BY <3>1, EnvironmentIs
  <2> QED  BY <2>2, <2>3, <2>4, <2>5
<1> QED  BY <1>3, <1>4

----------------------------------------------------------------------------
(* The steps of renders and includes.                                      *)

\* A stack on which the call pushes with Append, or which it leaves alone.
LEMMA GrowsAppend ==
    ASSUME NEW T, NEW s \in Seq(T), NEW x \in T, NEW n \in Nat, NEW v, NEW w, NEW c,
           Grows(v, w, n, c, x), c, Stacked(s, v)
    PROVE  Stacked(Append(s, x), w) /\ Append(s, x) \in Seq(T)
<1>1. PICK r, m : r = Append(s, x) /\ m = Len(s)
  OBVIOUS
<1>2. /\ m \in Nat /\ DOMAIN s = 1..m /\ r \in Seq(T) /\ Len(r) = m + 1
      /\ \A i \in 1..m : r[i] = s[i]
      /\ r[m + 1] = x
  BY <1>1, AppendProperties
<1>3. DOMAIN r = 1..m + 1
  BY <1>2
<1>4. Pushed(r, s, m, x)
  BY <1>2, <1>3, SMTT(30) DEF Pushed
<1>0. m \in Nat
  BY <1>2
<1>5. Stacked(r, w)
  BY <1>0, <1>4, GrowsPush
<1> QED  BY <1>1, <1>2, <1>5

\* One from which it pops.
LEMMA GrowsDrop ==
    ASSUME NEW T, NEW s \in Seq(T), NEW x, NEW n \in Nat, NEW v, NEW w, NEW c,
           Grows(v, w, n, c, x), c, Stacked(s, w)
    PROVE  Stacked(Pop(s), v) /\ Pop(s) \in Seq(T)
<1>1. PICK m : m = Len(s) /\ m \in Nat /\ DOMAIN s = 1..m
  OBVIOUS
<1>2. s # <<>>
  <2>1. n + 1 \in DOMAIN w /\ Below(w, n + 1) /\ n + 1 \in Nat
    BY DEF Grows, Below
  <2>2. Rank(DOMAIN w, n + 1) \in DOMAIN s
    BY <2>1, StackedFacts
  <2> QED  BY <2>2
<1>3. PICK r : r = Pop(s)
  OBVIOUS
<1>4. r \in Seq(T) /\ Len(r) = m - 1 /\ \A i \in 1..m - 1 : r[i] = s[i]
  BY <1>1, <1>2, <1>3, PopFacts
<1>5. DOMAIN r = 1..m - 1
  BY <1>1, <1>4
<1>6. PICK y : y = s[m]
  OBVIOUS
<1>7. Popped(r, s, m, y)
  BY <1>1, <1>4, <1>5, <1>6 DEF Popped
<1>8. Stacked(r, v)
  BY <1>1, <1>7, GrowsPop
<1> QED  BY <1>3, <1>4, <1>8

\* The arguments of a render and of an include.
LEMMA ArgumentFacts ==
    ASSUME NEW t \in Templates, NEW b, NEW S, NEW args \in Arguments(t, b, S)
    PROVE  /\ args \in [DOMAIN args -> S] /\ DOMAIN args \subseteq Params[t] \ {b}
           /\ DOMAIN args \subseteq Names /\ Accepts(t, DOMAIN args, b)
<1>1. PICK K \in SUBSET (Params[t] \ {b}) : Accepts(t, K, b) /\ args \in [K -> S]
  BY DEF Arguments
<1>2. DOMAIN args = K /\ Params[t] \subseteq Names
  BY <1>1 DEF TemplateAssumption
<1> QED  BY <1>1, <1>2

LEMMA BeginInv ==
    ASSUME ScopeInv, NEW f \in Files, NEW c \in BOOLEAN, NEW args \in Arguments(f, NoName, Literals),
           Begin(f, args, c)
    PROVE  ScopeInv'
<1> USE DEF ScopeInv
<1>1. PICK F : F = FileFrame(f, FALSE, args, args, NoName, <<>>)
  OBVIOUS
<1>2. /\ F.kind = "file" /\ F.tmpl = f /\ F.inlines = FALSE /\ F.with = args /\ F.given = args
      /\ F.binding = NoName /\ F.items = <<>> /\ F.at = 1
  BY <1>1 DEF FileFrame
<1>3. args \in Environments /\ Accepts(f, DOMAIN args, NoName) /\ f \in Templates
  <2>1. f \in Templates /\ Literals \subseteq Values
    BY DEF TemplateAssumption
  <2>2. /\ args \in [DOMAIN args -> Literals] /\ DOMAIN args \subseteq Names
        /\ Accepts(f, DOMAIN args, NoName)
    BY <2>1, ArgumentFacts
  <2> QED  BY <2>1, <2>2, EnvironmentIs
<1>4. F \in Frames
  <2>1. F \in FileFrames
    BY <1>1, <1>3 DEF FileFrame, FileFrames
  <2> QED  BY <1>2, <1>3, <2>1 DEF Frames
<1>5. PICK n \in Nat : n = Len(frames) /\ n = 0
  BY DEF Begin
<1>6. /\ DOMAIN frames = 1..n /\ DOMAIN frames' = 1..n + 1
      /\ frames' \in Seq(Frames) /\ frames' # <<>> /\ frames'[n + 1] = F
      /\ OneMore(frames, frames', n, F)
  <2>1. Call(F)
    BY <1>1 DEF Begin
  <2> QED  BY <1>4, <1>5, <2>1, Calling
<1>7. /\ cached' = c /\ ctx' = Over(args, Defaults[f])
      /\ consts' = IF DOMAIN Consts[f] = {} THEN <<>> ELSE <<f>>
      /\ decls' = IF Params[f] = {} THEN <<>> ELSE <<f>>
      /\ UNCHANGED <<layers, metas, nLayers, loops, nLoops, inlines, depth, narrowed>>
  BY DEF Begin, bindings
<1>8. DOMAIN frames' = {1} /\ frames'[1] = F
  BY <1>5, <1>6
<1>9. consts = <<>> /\ decls = <<>>
  <2>1. /\ DOMAIN ConstFiles(frames) = {} /\ DOMAIN DeclFiles(frames) = {}
    BY <1>5, <1>6 DEF ConstFiles, DeclFiles
  <2>2. DOMAIN consts = {} /\ DOMAIN decls = {}
    BY <2>1, FS_EmptySet DEF Stacks, Stacked
  <2>3. consts \in Seq(Templates) /\ decls \in Seq(Templates)
    BY DEF Types
  <2> QED  BY <2>2, <2>3, EmptySeq
<1>10. Types'
  <2>1. ctx' \in Environments
    <3>1. Defaults[f] \in Environments
      BY <1>3 DEF TemplateAssumption
    <3>2. Over(args, Defaults[f]) \in Environments
      BY <1>3, <3>1, OverFacts DEF Overlay
    <3> QED  BY <1>7, <3>2
  <2>2. consts' \in Seq(Templates) /\ decls' \in Seq(Templates)
    BY <1>3, <1>7
  <2> QED  BY <1>6, <1>7, <2>1, <2>2 DEF Types
<1>11. Rooted'
  BY <1>2, <1>6, <1>7, <1>8 DEF Rooted, IsFile
<1>12. Stacks'
  <2>1. LoopsNow' = LoopsNow /\ LayersNow' = LayersNow
    BY <1>7 DEF LoopsNow, LayersNow
  <2>2. Stacked(LoopsNow, ForBinds(frames'))
    <3>1. PICK x : x = <<F.binding, F.items[F.at]>>
      OBVIOUS
    <3>2. Grows(ForBinds(frames), ForBinds(frames'), n, F.kind = "for", x)
      BY <1>6, <3>1 DEF OneMore
    <3> QED  BY <1>2, <3>2, KeptStack DEF Stacks
  <2>3. /\ Stacked(narrowed, Narrows(frames')) /\ Stacked(inlines, InlineFiles(frames'))
        /\ depth = Cardinality(IncludeCalls(frames'))
    <3>1. PICK x, y : x = F.name /\ y = F.tmpl
      OBVIOUS
    <3>2. /\ Grows(Narrows(frames), Narrows(frames'), n, F.kind = "narrow", x)
          /\ Grows(InlineFiles(frames), InlineFiles(frames'), n, F.kind = "file" /\ F.inlines, y)
          /\ IncludeCalls(frames') = IncludeCalls(frames)
      BY <1>5, <1>6, <3>1 DEF OneMore
    <3>3. Stacked(narrowed, Narrows(frames'))
      BY <1>2, <3>2, KeptStack DEF Stacks
    <3>4. Stacked(inlines, InlineFiles(frames'))
      BY <1>2, <3>2, KeptStack DEF Stacks
    <3> QED  BY <3>2, <3>3, <3>4 DEF Stacks
  <2>6. Stacked(LayersNow, IncludeBinds(frames'))
    <3>1. PICK a, x : a = HasLayer(F) /\ x = LayerOf(F)
      OBVIOUS
    <3>2. Grows(IncludeBinds(frames), IncludeBinds(frames'), n,
                F.kind = "file" /\ n > 0 /\ HasLayer(F), x)
      BY <1>6, <3>1 DEF OneMore
    <3>3. Grows(IncludeBinds(frames), IncludeBinds(frames'), n, FALSE, x)
      BY <1>5, <3>2 DEF Grows
    <3> QED  BY <3>3, KeptStack DEF Stacks
  <2>4. Stacked(consts', ConstFiles(frames'))
    <3>1. Grows(ConstFiles(frames), ConstFiles(frames'), n, DOMAIN Consts[f] # {}, f)
      BY <1>2, <1>5, <1>6 DEF OneMore
    <3>2. CASE DOMAIN Consts[f] = {}
      <4>1. Stacked(consts, ConstFiles(frames'))
        BY <3>1, <3>2, KeptStack DEF Stacks
      <4> QED  BY <1>7, <1>9, <3>2, <4>1
    <3>3. CASE DOMAIN Consts[f] # {}
      <4>1. Pushed(<<f>>, <<>>, 0, f)
        BY DEF Pushed
      <4>2. Stacked(<<>>, ConstFiles(frames))
        BY <1>9 DEF Stacks
      <4>3. PICK r, s, m : r = <<f>> /\ s = <<>> /\ m = 0 /\ m \in Nat
        OBVIOUS
      <4>4. Stacked(r, ConstFiles(frames'))
        BY <3>1, <3>3, <4>1, <4>2, <4>3, GrowsPush
      <4> QED  BY <1>7, <3>3, <4>3, <4>4
    <3> QED  BY <3>2, <3>3
  <2>5. Stacked(decls', DeclFiles(frames'))
    <3>1. Grows(DeclFiles(frames), DeclFiles(frames'), n, Params[f] # {}, f)
      BY <1>2, <1>6 DEF OneMore
    <3>2. CASE Params[f] = {}
      <4>1. Stacked(decls, DeclFiles(frames'))
        BY <3>1, <3>2, KeptStack DEF Stacks
      <4> QED  BY <1>7, <1>9, <3>2, <4>1
    <3>3. CASE Params[f] # {}
      <4>1. Pushed(<<f>>, <<>>, 0, f)
        BY DEF Pushed
      <4>2. Stacked(<<>>, DeclFiles(frames))
        BY <1>9 DEF Stacks
      <4>3. PICK r, s, m : r = <<f>> /\ s = <<>> /\ m = 0 /\ m \in Nat
        OBVIOUS
      <4>4. Stacked(r, DeclFiles(frames'))
        BY <3>1, <3>3, <4>1, <4>2, <4>3, GrowsPush
      <4> QED  BY <1>7, <3>3, <4>3, <4>4
    <3> QED  BY <3>2, <3>3
  <2> QED  BY <1>7, <2>1, <2>2, <2>3, <2>4, <2>5, <2>6 DEF Stacks
<1>13. LoopIndexes' /\ IncludeIndexes'
  <2>1. Fors' = {} /\ Layering' = {}
    BY <1>2, <1>8 DEF Fors, Layering, Includes, IsFile
  <2> QED  BY <2>1 DEF LoopIndexes, IncludeIndexes
<1>14. Owners'
  <2>1. /\ 1 \in 1..1 /\ IsFile(1)' /\ frames'[1].tmpl = Owner[frames'[1].tmpl]
        /\ \A i \in 1 + 1..1 : FALSE
    BY <1>2, <1>8 DEF IsFile, TemplateAssumption
  <2>2. Owned(1)'
    BY <2>1 DEF Owned
  <2> QED  BY <1>8, <2>2 DEF Owners
<1> QED  BY <1>10, <1>11, <1>12, <1>13, <1>14

\* The file on top of the stack of inline templates, or else the root.
LEMMA InlineFileIs ==
    ASSUME ScopeInv, frames # <<>>
    PROVE  /\ InlineFile \in Files
           /\ \E j \in DOMAIN frames :
                 /\ IsFile(j) /\ frames[j].tmpl = InlineFile
                 /\ j > 1 => frames[j].inlines
                 /\ \A i \in DOMAIN frames : i > j /\ IsFile(i) => ~frames[i].inlines
<1> USE DEF ScopeInv
<1>1. PICK n \in Nat : DOMAIN frames = 1..n
  BY DEF Types
<1>2. PICK v : v = InlineFiles(frames)
  OBVIOUS
<1>3. /\ DOMAIN v = Inlining /\ Inlining \in SUBSET (1..n)
      /\ \A k \in Inlining : v[k] = frames[k].tmpl
  BY <1>1, <1>2 DEF InlineFiles, Inlining, IsFile
<1>4. Below(v, n) /\ Stacked(inlines, v) /\ inlines \in Seq(Files)
  BY <1>2, <1>3 DEF Below, Stacks, Types
<1>5. CASE inlines = <<>>
  <2>1. Inlining = {}
    <3> SUFFICES ASSUME NEW k \in Inlining PROVE FALSE
      OBVIOUS
    <3>1. Rank(DOMAIN v, k) \in DOMAIN inlines
      BY <1>3, <1>4, StackedFacts
    <3> QED  BY <1>5, <3>1
  <2>2. 1 \in DOMAIN frames /\ IsFile(1) /\ frames[1].tmpl \in Files /\ InlineFile = frames[1].tmpl
    BY <1>1, <1>5, EmptySeq DEF Rooted, InlineFile, Types
  <2>3. \A i \in DOMAIN frames : IsFile(i) => ~frames[i].inlines
    BY <2>1 DEF Inlining
  <2> QED  BY <2>2, <2>3
<1>6. CASE inlines # <<>>
  <2>1. Inlining # {}
    <3>1. 1 \in DOMAIN inlines
      BY <1>4, <1>6, EmptySeq
    <3> QED  BY <1>3, <1>4, <3>1, StackedFacts
  <2>2. PICK c \in Inlining : \A k \in Inlining : k <= c
    <3>1. Inlining \in SUBSET (0..n)
      BY <1>3
    <3> QED  BY <2>1, <3>1, LargestExists
  <2>0. c \in DOMAIN v /\ \A k \in DOMAIN v : k <= c
    BY <1>3, <2>2
  <2>3. PICK m : m = Cardinality(DOMAIN v) /\ inlines[m] = v[c] /\ m \in Nat \ {0}
    <3>1. PICK s : s = inlines
      OBVIOUS
    <3>2. Below(v, n) /\ Stacked(s, v)
      BY <1>4, <3>1
    <3>3. s[Cardinality(DOMAIN v)] = v[c] /\ Cardinality(DOMAIN v) \in Nat \ {0}
      BY <2>0, <3>2, StackedTop
    <3> QED  BY <3>1, <3>3
  <2>4. Len(inlines) = m
    <3>1. DOMAIN inlines = 1..m
      BY <1>4, <2>3 DEF Stacked
    <3> QED  BY <1>4, <2>3, <3>1
  <2>5. InlineFile = frames[c].tmpl /\ InlineFile \in Files
    BY <1>3, <1>4, <1>6, <2>2, <2>3, <2>4 DEF InlineFile
  <2>6. c \in DOMAIN frames /\ IsFile(c) /\ frames[c].inlines
    BY <2>2 DEF Inlining
  <2>7. ASSUME NEW i \in DOMAIN frames, i > c, IsFile(i) PROVE ~frames[i].inlines
    <3>1. ~ (i <= c)
      BY <1>1, <2>6, <2>7
    <3> QED  BY <2>2, <2>7, <3>1 DEF Inlining
  <2> QED  BY <2>5, <2>6, <2>7
<1> QED  BY <1>5, <1>6

\* The frame of an include, and what it pushes on the layers.
FrameOf(F, t, inlining, overrides, b, items, with) ==
    /\ with = [n \in DOMAIN overrides |-> overrides[n].value]
    /\ F = FileFrame(t, inlining, with, [n \in DOMAIN overrides |-> overrides[n].meant], b, items)

Entered(F, t, inlining, b, items, with) ==
    /\ F \in Frames /\ F.kind = "file" /\ F.tmpl = t /\ F.inlines = inlining
    /\ F.with = with /\ F.binding = b /\ F.items = items /\ F.at = 1
    /\ LayerOf(F) \in Environments
    /\ LayerOf(F) = IF b # NoName THEN IterationLayer(t, with, b, items[1])
                                  ELSE Over(Injected(t, with), with)
    /\ HasLayer(F) <=> b # NoName \/ NeedsLayer(t, with)

LEMMA EnterFacts ==
    ASSUME ScopeInv, frames # <<>>, NEW t \in Templates, NEW inlining \in Includable(t),
           NEW b \in IncludeNames \cup {NoName}, NEW items,
           b # NoName => items \in Lists,
           b = NoName => items = <<>>,
           NEW overrides \in Arguments(t, b, Overrides(t)),
           NEW with, NEW F, FrameOf(F, t, inlining, overrides, b, items, with)
    PROVE  Entered(F, t, inlining, b, items, with)
<1>0. PICK given : /\ with = [n \in DOMAIN overrides |-> overrides[n].value]
                   /\ given = [n \in DOMAIN overrides |-> overrides[n].meant]
                   /\ F = FileFrame(t, inlining, with, given, b, items)
  BY DEF FrameOf
<1>1. /\ F.kind = "file" /\ F.tmpl = t /\ F.inlines = inlining /\ F.with = with /\ F.given = given
      /\ F.binding = b /\ F.items = items /\ F.at = 1
  BY <1>0 DEF FileFrame
<1>2. PICK D : D = DOMAIN overrides
  OBVIOUS
<1>3. D \subseteq Names /\ Accepts(t, D, b) /\ \A n \in D : overrides[n] \in Overrides(t)
  <2>1. /\ overrides \in [DOMAIN overrides -> Overrides(t)]
        /\ DOMAIN overrides \subseteq Names /\ Accepts(t, DOMAIN overrides, b)
    BY ArgumentFacts
  <2> QED  BY <1>2, <2>1
<1>4. ASSUME NEW n \in D
      PROVE  /\ overrides[n].value \in Values /\ overrides[n].meant \in Values
             /\ \/ overrides[n].value = overrides[n].meant
                \/ \E c \in DOMAIN Consts[t] : overrides[n].value = Consts[t][c]
  <2>1. PICK o \in Overrides(t) : o = overrides[n]
    BY <1>3
  <2> QED  BY <2>1, OverrideFacts
<1>5. /\ DOMAIN with = D /\ DOMAIN given = D
      /\ \A n \in D : with[n] = overrides[n].value /\ given[n] = overrides[n].meant
  BY <1>0, <1>2
<1>6. with \in Environments /\ given \in Environments
  <2>1. with \in [DOMAIN with -> Values] /\ given \in [DOMAIN given -> Values]
    BY <1>0, <1>2, <1>4, <1>5
  <2> QED  BY <1>3, <1>5, <2>1, EnvironmentIs
<1>7. inlining \in BOOLEAN /\ (inlining => t \in Files)
  <2>1. PICK how \in {"inline", "value", "cached", "disk"} : Finds(t, how) /\ inlining = PushesInlines(how)
    BY DEF Includable
  <2>2. how \in {"value", "disk"} => t \in Files
    BY <2>1 DEF Finds
  <2>3. inlining = (how \in {"value", "disk"})
    BY <2>1 DEF PushesInlines
  <2>4. inlining \in BOOLEAN
    BY <2>3
  <2> QED  BY <2>2, <2>3, <2>4
<1>8. b \in Names \cup {NoName} /\ items \in Lists \cup {<<>>}
  BY DEF TemplateAssumption
<1>9. F \in Frames
  <2>1. F \in FileFrames
    BY <1>0, <1>6, <1>7, <1>8 DEF FileFrame, FileFrames
  <2>2. b # NoName => b \in IncludeNames /\ items \in Lists /\ 1 \in 1..Len(items)
    <3> SUFFICES ASSUME b # NoName PROVE items \in Lists /\ 1 \in 1..Len(items)
      OBVIOUS
    <3>1. items \in Seq(Values) /\ items # <<>>
      BY DEF TemplateAssumption
    <3>2. Len(items) \in Nat \ {0}
      BY <3>1, EmptySeq
    <3> QED  BY <3>2
  <2>4. Accepts(t, DOMAIN with, b) /\ DOMAIN given = DOMAIN with
    BY <1>3, <1>5
  <2>5. /\ F.kind = "file" /\ F \in FileFrames \cup ForFrames \cup NarrowFrames
        /\ Accepts(F.tmpl, DOMAIN F.with, F.binding)
        /\ F.inlines => F.tmpl \in Files
        /\ F.binding # NoName =>
              F.binding \in IncludeNames /\ F.items \in Lists /\ F.at \in 1..Len(F.items)
        /\ DOMAIN F.given = DOMAIN F.with
    BY <1>1, <1>7, <2>1, <2>2, <2>4
  <2>6. \A n \in DOMAIN F.with :
            \/ F.with[n] = F.given[n]
            \/ \E c \in DOMAIN Consts[F.tmpl] : F.with[n] = Consts[F.tmpl][c]
    <3> SUFFICES ASSUME NEW n \in DOMAIN F.with
                 PROVE  \/ F.with[n] = F.given[n]
                        \/ \E c \in DOMAIN Consts[F.tmpl] : F.with[n] = Consts[F.tmpl][c]
      OBVIOUS
    <3>1. n \in D /\ F.with[n] = overrides[n].value /\ F.given[n] = overrides[n].meant
      BY <1>1, <1>5
    <3>2. CASE overrides[n].value = overrides[n].meant
      BY <3>1, <3>2
    <3>3. CASE \E c \in DOMAIN Consts[t] : overrides[n].value = Consts[t][c]
      <4>1. PICK c \in DOMAIN Consts[t] : overrides[n].value = Consts[t][c]
        BY <3>3
      <4>2. c \in DOMAIN Consts[F.tmpl] /\ F.with[n] = Consts[F.tmpl][c]
        BY <1>1, <3>1, <4>1
      <4> QED  BY <4>2
    <3> QED  BY <1>4, <3>1, <3>2, <3>3
  <2>7. F.kind # "for"
    BY <1>1
  <2> QED  BY <2>5, <2>6, <2>7 DEF Frames
<1>10. LayerOf(F) \in Environments
  BY <1>1, <1>9, LayerFacts
<1>11. LayerOf(F) = IF b # NoName THEN IterationLayer(t, with, b, items[1])
                                  ELSE Over(Injected(t, with), with)
  BY <1>1 DEF LayerOf
<1> QED  BY <1>1, <1>9, <1>10, <1>11 DEF HasLayer, Entered

\* The bindings when an include has pushed its layer, if it needs one.
PushedLayer(F) ==
    /\ layers' \in Seq(Environments) /\ metas' \in Seq(Indexes) /\ Len(layers') = Len(metas')
    /\ nLayers' = IF HasLayer(F) THEN nLayers + 1 ELSE nLayers
    /\ nLayers' <= Len(layers')
    /\ HasLayer(F) => layers'[nLayers + 1] = LayerOf(F)
    /\ \A j \in 1..nLayers : layers'[j] = layers[j] /\ metas'[j] = metas[j]
    /\ loops' \in Seq(LoopRecords) /\ nLoops' = nLoops /\ nLoops <= Len(loops')
    /\ \A j \in 1..nLoops : /\ loops'[j].name = loops[j].name
                            /\ loops'[j].value = loops[j].value
                            /\ loops'[j].meta = loops[j].meta \/ loops[j].name \in IncludeNames
    /\ F.binding # NoName /\ LoopsOf(F.binding) = {} =>
          metas'[nLayers + 1] = Single(F.binding, 0)

LEMMA EnterLayer ==
    ASSUME ScopeInv, NEW F \in Frames, F.kind = "file",
           IF HasLayer(F) THEN PushLayer(nLayers + 1, LayerOf(F), F.binding, 0)
                          ELSE UNCHANGED bindings
    PROVE  PushedLayer(F)
<1> USE DEF ScopeInv
<1>1. /\ nLayers \in Nat /\ nLoops \in Nat /\ nLayers <= Len(layers) /\ nLoops <= Len(loops)
      /\ layers \in Seq(Environments) /\ metas \in Seq(Indexes) /\ Len(layers) = Len(metas)
      /\ loops \in Seq(LoopRecords)
  BY DEF Types, LoopRecords
<1>2. CASE HasLayer(F)
  <2>1. PICK k, l, n, i : k = nLayers + 1 /\ l = LayerOf(F) /\ n = F.binding /\ i = 0
    OBVIOUS
  <2>2. k \in Nat \ {0} /\ k <= nLayers + 1 /\ i \in Nat
    BY <1>1, <2>1
  <2>3. l \in Environments /\ n \in Names \cup {NoName} /\ n \in IncludeNames \cup {NoName}
    BY <2>1, LayerFacts, FrameFacts DEF TemplateAssumption
  <2>4. PushLayer(k, l, n, i)
    BY <1>2, <2>1
  <2>5. /\ layers' \in Seq(Environments) /\ metas' \in Seq(Indexes)
        /\ Len(layers') = Len(metas') /\ nLayers' = k /\ k <= Len(layers')
        /\ layers'[k] = l
        /\ \A j \in 1..nLayers : j # k => layers'[j] = layers[j] /\ metas'[j] = metas[j]
        /\ loops' \in Seq(LoopRecords) /\ nLoops' = nLoops /\ nLoops <= Len(loops')
        /\ \A j \in 1..nLoops : /\ loops'[j].name = loops[j].name
                                /\ loops'[j].value = loops[j].value
                                /\ loops'[j].meta = loops[j].meta \/ loops[j].name = n
        /\ n # NoName /\ LoopsOf(n) = {} => metas'[k] = Single(n, i)
    BY <2>2, <2>3, <2>4, PushLayerFacts
  <2>6. \A j \in 1..nLayers : j # k
    BY <1>1, <2>1
  <2>7. \A j \in 1..nLoops : loops[j].name # NoName
    <3> SUFFICES ASSUME NEW j \in 1..nLoops PROVE loops[j].name # NoName
      OBVIOUS
    <3>1. PICK r \in Seq(LoopRecords) : r = loops
      BY <1>1
    <3>2. r[j] \in LoopRecords
      BY <1>1, <3>1
    <3> QED  BY <3>1, <3>2 DEF LoopRecords, TemplateAssumption
  <2>8. \A j \in 1..nLoops : loops[j].name = n => loops[j].name \in IncludeNames
    BY <2>3, <2>7
  <2> QED  BY <1>2, <2>1, <2>5, <2>6, <2>8 DEF PushedLayer
<1>3. CASE ~HasLayer(F)
  <2>1. UNCHANGED <<layers, metas, nLayers, loops, nLoops>> /\ F.binding = NoName
    BY <1>3 DEF bindings, HasLayer
  <2> QED  BY <1>1, <1>3, <2>1 DEF PushedLayer
<1> QED  BY <1>2, <1>3

LEMMA EnterIncludeInv ==
    ASSUME ScopeInv, HasRoom, NEW t \in Templates, NEW inlining \in Includable(t),
           NEW b \in IncludeNames \cup {NoName}, NEW items,
           b # NoName => items \in Lists,
           b = NoName => items = <<>>,
           NEW overrides \in Arguments(t, b, Overrides(t)),
           EnterInclude(t, inlining, overrides, b, items)
    PROVE  ScopeInv'
<1> USE DEF ScopeInv
<1>1. PICK with, F : FrameOf(F, t, inlining, overrides, b, items, with)
  BY DEF FrameOf
<1>2. frames # <<>>
  BY DEF HasRoom
<1>3. /\ F \in Frames /\ F.kind = "file" /\ F.tmpl = t /\ F.inlines = inlining
      /\ F.with = with /\ F.binding = b /\ F.at = 1
      /\ LayerOf(F) \in Environments
      /\ LayerOf(F) = IF b # NoName THEN IterationLayer(t, with, b, items[1])
                                    ELSE Over(Injected(t, with), with)
      /\ HasLayer(F) <=> b # NoName \/ NeedsLayer(t, with)
  <2>1. Entered(F, t, inlining, b, items, with)
    BY <1>1, <1>2, EnterFacts
  <2> QED  BY <2>1 DEF Entered
<1>4. /\ depth < MaxIncludeDepth /\ Call(F)
      /\ IF HasLayer(F) THEN PushLayer(nLayers + 1, LayerOf(F), F.binding, 0)
                        ELSE UNCHANGED bindings
      /\ consts' = Append(consts, t)
      /\ inlines' = IF inlining THEN Append(inlines, t) ELSE inlines
      /\ decls' = IF Params[t] = {} THEN decls ELSE Append(decls, t)
      /\ depth' = depth + 1
      /\ UNCHANGED <<cached, ctx, narrowed>>
  <2>1. /\ depth < MaxIncludeDepth /\ Call(F)
        /\ IF b # NoName
              THEN PushLayer(nLayers + 1, IterationLayer(t, with, b, items[1]), b, 0)
              ELSE IF NeedsLayer(t, with)
                     THEN PushLayer(nLayers + 1, Over(Injected(t, with), with), NoName, 0)
                     ELSE UNCHANGED bindings
        /\ consts' = Append(consts, t)
        /\ inlines' = IF inlining THEN Append(inlines, t) ELSE inlines
        /\ decls' = IF Params[t] = {} THEN decls ELSE Append(decls, t)
        /\ depth' = depth + 1
        /\ UNCHANGED <<cached, ctx, narrowed>>
    BY <1>1 DEF EnterInclude, Declared, FrameOf
  <2>2. CASE b # NoName
    BY <1>3, <2>1, <2>2
  <2>3. CASE b = NoName
    BY <1>3, <2>1, <2>3
  <2> QED  BY <2>1, <2>2, <2>3
<1>5. PushedLayer(F)
  BY <1>3, <1>4, EnterLayer
<1>6. PICK m : m = Len(frames)
  OBVIOUS
<1>7. /\ m \in Nat \ {0} /\ DOMAIN frames = 1..m /\ DOMAIN frames' = 1..m + 1
      /\ frames' \in Seq(Frames) /\ frames' # <<>>
      /\ \A k \in 1..m : frames'[k] = frames[k]
      /\ frames'[m + 1] = F
      /\ OneMore(frames, frames', m, F)
  <2>1. /\ m \in Nat /\ DOMAIN frames = 1..m /\ DOMAIN frames' = 1..m + 1
        /\ frames' \in Seq(Frames) /\ frames' # <<>>
        /\ \A k \in 1..m : frames'[k] = frames[k]
        /\ frames'[m + 1] = F
        /\ OneMore(frames, frames', m, F)
    BY <1>3, <1>4, <1>6, Calling
  <2>2. m # 0
    BY <1>2, <1>6, EmptySeq DEF Types
  <2> QED  BY <2>1, <2>2
<1>8. /\ nLayers \in Nat /\ nLoops \in Nat /\ m \in Nat /\ m > 0
      /\ consts \in Seq(Templates) /\ inlines \in Seq(Files) /\ decls \in Seq(Templates)
      /\ inlining \in BOOLEAN /\ (inlining => t \in Files)
  <2>1. F.inlines \in BOOLEAN /\ (F.inlines => F.tmpl \in Files)
    BY <1>3, FrameFacts
  <2> QED  BY <1>3, <1>7, <2>1 DEF Types
<1>9. /\ Stacked(consts', ConstFiles(frames')) /\ consts' \in Seq(Templates)
  <2>1. Grows(ConstFiles(frames), ConstFiles(frames'), m,
              F.kind = "file" /\ (m = 0 => DOMAIN Consts[F.tmpl] # {}), t)
    BY <1>3, <1>7 DEF OneMore
  <2>2. PICK s \in Seq(Templates) : s = consts
    BY <1>8
  <2>3. F.kind = "file" /\ (m = 0 => DOMAIN Consts[F.tmpl] # {})
    BY <1>3, <1>8
  <2>4. Stacked(s, ConstFiles(frames))
    BY <2>2 DEF Stacks
  <2>5. Stacked(Append(s, t), ConstFiles(frames')) /\ Append(s, t) \in Seq(Templates)
    BY <1>8, <2>1, <2>3, <2>4, GrowsAppend
  <2> QED  BY <1>4, <2>2, <2>5
<1>10. /\ Stacked(inlines', InlineFiles(frames')) /\ inlines' \in Seq(Files)
  <2>1. Grows(InlineFiles(frames), InlineFiles(frames'), m, F.kind = "file" /\ F.inlines, t)
    BY <1>3, <1>7 DEF OneMore
  <2>2. PICK s \in Seq(Files) : s = inlines
    BY <1>8
  <2>3. Stacked(s, InlineFiles(frames))
    BY <2>2 DEF Stacks
  <2>4. CASE inlining
    <3>1. F.kind = "file" /\ F.inlines /\ t \in Files
      BY <1>3, <1>8, <2>4
    <3>2. Stacked(Append(s, t), InlineFiles(frames')) /\ Append(s, t) \in Seq(Files)
      BY <1>8, <2>1, <2>3, <3>1, GrowsAppend
    <3> QED  BY <1>4, <2>2, <2>4, <3>2
  <2>5. CASE ~inlining
    <3>1. ~ (F.kind = "file" /\ F.inlines)
      BY <1>3, <2>5
    <3>2. Stacked(s, InlineFiles(frames'))
      BY <1>8, <2>1, <2>3, <3>1, KeptStack
    <3> QED  BY <1>4, <2>2, <2>5, <3>2
  <2> QED  BY <2>4, <2>5
<1>11. /\ Stacked(decls', DeclFiles(frames')) /\ decls' \in Seq(Templates)
  <2>1. Grows(DeclFiles(frames), DeclFiles(frames'), m, F.kind = "file" /\ Params[F.tmpl] # {}, t)
    BY <1>3, <1>7 DEF OneMore
  <2>2. PICK s \in Seq(Templates) : s = decls
    BY <1>8
  <2>3. Stacked(s, DeclFiles(frames))
    BY <2>2 DEF Stacks
  <2>4. CASE Params[t] # {}
    <3>1. F.kind = "file" /\ Params[F.tmpl] # {}
      BY <1>3, <2>4
    <3>2. Stacked(Append(s, t), DeclFiles(frames')) /\ Append(s, t) \in Seq(Templates)
      BY <1>8, <2>1, <2>3, <3>1, GrowsAppend
    <3> QED  BY <1>4, <2>2, <2>4, <3>2
  <2>5. CASE Params[t] = {}
    <3>1. ~ (F.kind = "file" /\ Params[F.tmpl] # {})
      BY <1>3, <2>5
    <3>2. Stacked(s, DeclFiles(frames'))
      BY <1>8, <2>1, <2>3, <3>1, KeptStack
    <3> QED  BY <1>4, <2>2, <2>5, <3>2
  <2> QED  BY <2>4, <2>5
<1>12. Stacked(LayersNow', IncludeBinds(frames'))
  <2>1. PICK r, s, v, w, x : /\ r = LayersNow' /\ s = LayersNow /\ v = IncludeBinds(frames)
                             /\ w = IncludeBinds(frames') /\ x = LayerOf(F)
    OBVIOUS
  <2>2. Grows(v, w, m, F.kind = "file" /\ m > 0 /\ HasLayer(F), x) /\ Stacked(s, v)
    BY <1>7, <2>1 DEF OneMore, Stacks
  <2>3. /\ DOMAIN s = 1..nLayers /\ DOMAIN r = 1..nLayers'
        /\ \A i \in 1..nLayers : s[i] = layers[i]
        /\ \A i \in 1..nLayers' : r[i] = layers'[i]
    BY <2>1 DEF LayersNow
  <2>4. CASE HasLayer(F)
    <3>1. /\ nLayers' = nLayers + 1 /\ layers'[nLayers + 1] = x
          /\ \A i \in 1..nLayers : layers'[i] = layers[i]
      BY <1>5, <2>1, <2>4 DEF PushedLayer
    <3>2. Pushed(r, s, nLayers, x)
      <4>1. nLayers \in Nat
        BY <1>8
      <4>2. /\ \A i \in 1..nLayers : i \in 1..nLayers + 1
            /\ nLayers + 1 \in 1..nLayers + 1
        BY <4>1
      <4>3. DOMAIN s = 1..nLayers /\ DOMAIN r = 1..nLayers + 1
        BY <2>3, <3>1
      <4>4. \A i \in 1..nLayers : r[i] = s[i]
        BY <2>3, <3>1, <4>2
      <4>5. r[nLayers + 1] = x
        BY <2>3, <3>1, <4>2
      <4> QED  BY <4>3, <4>4, <4>5 DEF Pushed
    <3>3. F.kind = "file" /\ m > 0 /\ HasLayer(F)
      BY <1>3, <1>8, <2>4
    <3>4. Stacked(r, w)
      BY <1>8, <2>2, <3>2, <3>3, GrowsPush
    <3> QED  BY <2>1, <3>4
  <2>5. CASE ~HasLayer(F)
    <3>1. nLayers' = nLayers /\ \A i \in 1..nLayers : layers'[i] = layers[i]
      BY <1>5, <2>5 DEF PushedLayer
    <3>2. DOMAIN r = DOMAIN s /\ \A i \in DOMAIN s : r[i] = s[i]
      BY <2>3, <3>1
    <3>3. ~ (F.kind = "file" /\ m > 0 /\ HasLayer(F))
      BY <2>5
    <3>4. Stacked(r, w)
      BY <1>8, <2>2, <3>2, <3>3, GrowsKept
    <3> QED  BY <2>1, <3>4
  <2> QED  BY <2>4, <2>5
<1>13. Stacked(LoopsNow', ForBinds(frames')) /\ Stacked(narrowed, Narrows(frames'))
  <2>1. LoopsNow' = LoopsNow
    BY <1>5 DEF LoopsNow, PushedLayer
  <2>2. PICK x, y : x = <<F.binding, F.items[F.at]>> /\ y = F.name
    OBVIOUS
  <2>3. /\ Grows(ForBinds(frames), ForBinds(frames'), m, F.kind = "for", x)
        /\ Grows(Narrows(frames), Narrows(frames'), m, F.kind = "narrow", y)
    BY <1>7, <2>2 DEF OneMore
  <2>4. ~ (F.kind = "for") /\ ~ (F.kind = "narrow")
    BY <1>3
  <2>5. Stacked(LoopsNow, ForBinds(frames'))
    BY <1>8, <2>3, <2>4, KeptStack DEF Stacks
  <2>6. Stacked(narrowed, Narrows(frames'))
    BY <1>8, <2>3, <2>4, KeptStack DEF Stacks
  <2> QED  BY <2>1, <2>5, <2>6
<1>14. depth' = Cardinality(IncludeCalls(frames'))
  <2>1. PICK S \in SUBSET (1..m) : S = IncludeCalls(frames)
    BY <1>7 DEF OneMore
  <2>2. IncludeCalls(frames') = S \cup {m + 1}
    BY <1>3, <1>7, <1>8, <2>1 DEF OneMore
  <2>3. Cardinality(S \cup {m + 1}) = Cardinality(S) + 1
    BY <1>8, RankAdd
  <2> QED  BY <1>4, <2>1, <2>2, <2>3 DEF Stacks
<1>15. Stacks'
  BY <1>4, <1>9, <1>10, <1>11, <1>12, <1>13, <1>14 DEF Stacks
<1>16. Types'
  <2>1. /\ layers' \in Seq(Environments) /\ metas' \in Seq(Indexes) /\ Len(layers') = Len(metas')
        /\ nLayers' \in 0..Len(layers')
        /\ loops' \in Seq([name : Names, value : Values, meta : Nat])
        /\ nLoops' \in 0..Len(loops')
    <3>1. nLayers' \in Nat
      BY <1>5, <1>8 DEF PushedLayer
    <3>2. loops' \in Seq(LoopRecords) /\ nLoops' = nLoops /\ nLoops <= Len(loops')
      BY <1>5 DEF PushedLayer
    <3>3. Len(loops') \in Nat
      BY <3>2
    <3> QED  BY <1>5, <1>8, <3>1, <3>2, <3>3 DEF PushedLayer, LoopRecords
  <2>2. depth' \in 0..MaxIncludeDepth
    BY <1>4 DEF Types, TemplateAssumption
  <2> QED  BY <1>4, <1>7, <1>9, <1>10, <1>11, <2>1, <2>2 DEF Types
<1>17. Rooted'
  <2>1. frames'[1] = frames[1]
    BY <1>7
  <2> QED  BY <1>2, <1>4, <2>1 DEF Rooted, IsFile
<1>18. LoopIndexes' /\ IncludeIndexes'
  <2>1. /\ 1..m \subseteq DOMAIN frames /\ 1..m \subseteq DOMAIN frames'
        /\ DOMAIN frames' \subseteq Nat \ {0}
        /\ \A k \in 1..m : frames'[k] = frames[k]
    BY <1>7
  <2>0. /\ \A i \in 1..nLoops : i # 0 =>
               loops'[i].meta = loops[i].meta \/ loops[i].name \in IncludeNames
        /\ \A i \in 1..nLayers : i # 0 => metas'[i] = metas[i]
        /\ \A k \in Fors : k <= m => Rank(Fors, k) # 0
        /\ \A k \in Layering : k <= m => Rank(Layering, k) # 0
    BY <1>5, StackFacts DEF PushedLayer
  <2>2. /\ \A k \in 1..m : k \in Fors' /\ frames'[k].binding \notin IncludeNames
                  => loops'[Rank(Fors', k)].meta = frames'[k].at - 1
        /\ \A k \in 1..m : k \in Layering' /\ frames'[k].binding # NoName
                                /\ (\A j \in Fors' : j < k => frames'[j].binding # frames'[k].binding)
                  => metas'[Rank(Layering', k)] = Single(frames'[k].binding, frames'[k].at - 1)
        /\ \A k \in 1..m : (k \in Fors' <=> k \in Fors) /\ (k \in Layering' <=> k \in Layering)
    BY <1>8, <2>0, <2>1, IndexesKept
  <2>3. m + 1 \notin Fors' /\ \A k \in DOMAIN frames' : k \in 1..m \/ k = m + 1
    BY <1>3, <1>7 DEF Fors
  <2>4. Fors' \subseteq DOMAIN frames' /\ Layering' \subseteq DOMAIN frames'
    BY DEF Fors, Layering, Includes
  <2>5. LoopIndexes'
    BY <2>2, <2>3, <2>4 DEF LoopIndexes
  <2>6. ASSUME m + 1 \in Layering', b # NoName, \A j \in Fors' : j < m + 1 => frames'[j].binding # b
        PROVE  metas'[Rank(Layering', m + 1)] = Single(b, 0)
    <3>1. LoopHolders(b) = {}
      <4> SUFFICES ASSUME NEW j \in Fors PROVE frames[j].binding # b
        BY DEF LoopHolders
      <4>1. j \in 1..m /\ j < m + 1
        BY <1>7 DEF Fors
      <4>2. j \in Fors' /\ frames'[j] = frames[j]
        BY <2>1, <2>2, <4>1
      <4> QED  BY <2>6, <4>1, <4>2
    <3>2. LoopsOf(b) = {}
      BY <3>1, LoopLookup
    <3>3. metas'[nLayers + 1] = Single(b, 0)
      BY <1>3, <1>5, <2>6, <3>2 DEF PushedLayer
    <3>4. Rank(Layering', m + 1) = nLayers + 1
      <4>1. PICK S \in SUBSET (1..m) : S = Layering
        BY <1>7 DEF Layering, Includes
      <4>2. PICK T \in SUBSET (1..m + 1) : T = Layering'
        BY <1>7, <2>4
      <4>0. m + 1 \in T /\ \A k \in 1..m : k \in T <=> k \in S
        BY <2>2, <2>6, <4>1, <4>2
      <4>3. \A k \in 1..m + 1 : k \in T <=> k \in S \/ k = m + 1
        BY <1>8, <4>0
      <4>4. T = S \cup {m + 1}
        <5>1. S \cup {m + 1} \in SUBSET (1..m + 1)
          BY <1>8
        <5> QED  BY <4>3, <5>1
      <4>5. Rank(S \cup {m + 1}, m + 1) = Cardinality(S) + 1
        BY <1>8, RankAdd
      <4> QED  BY <4>1, <4>2, <4>4, <4>5, StackFacts
    <3> QED  BY <3>3, <3>4
  <2>7. IncludeIndexes'
    <3> SUFFICES ASSUME NEW k \in Layering', frames'[k].binding # NoName,
                        \A j \in Fors' : j < k => frames'[j].binding # frames'[k].binding
                 PROVE  metas'[Rank(Layering', k)] = Single(frames'[k].binding, frames'[k].at - 1)
      BY DEF IncludeIndexes
    <3>1. CASE k \in 1..m
      BY <2>2, <3>1
    <3>2. CASE k = m + 1
      <4>1. frames'[k].binding = b /\ frames'[k].at - 1 = 0
        BY <1>3, <1>7, <3>2
      <4> QED  BY <2>6, <3>2, <4>1
    <3> QED  BY <2>3, <2>4, <3>1, <3>2
  <2> QED  BY <2>5, <2>7
<1>19. Owners'
  <2>1. SameUpTo(frames, frames', m)
    BY <1>7 DEF SameUpTo
  <2>2. \A k \in 1..m : IsFile(k)' => Owned(k)'
    BY <1>4, <1>8, <2>1, OwnersKept
  <2>3. Owned(m + 1)'
    <3>1. IsFile(m + 1)' /\ frames'[m + 1].tmpl = t /\ frames'[m + 1].inlines = inlining
      BY <1>3, <1>7 DEF IsFile
    <3>2. PICK how : Finds(t, how) /\ inlining = PushesInlines(how)
                     /\ how \in {"inline", "value", "cached", "disk"}
      BY DEF Includable
    <3>3. CASE how = "inline"
      <4>1. ~inlining
        BY <3>2, <3>3 DEF PushesInlines
      <4>2. PICK j \in DOMAIN frames : /\ IsFile(j) /\ frames[j].tmpl = InlineFile
                                       /\ j > 1 => frames[j].inlines
                                       /\ \A i \in DOMAIN frames : i > j /\ IsFile(i) => ~frames[i].inlines
        BY <1>2, InlineFileIs
      <4>3. Owner[t] = InlineFile
        <5>1. InlineFile \in Files
          BY <1>2, InlineFileIs
        <5>2. PICK i \in DOMAIN Inlines[InlineFile] : Inlines[InlineFile][i] = t
          BY <3>2, <3>3 DEF Finds
        <5> QED  BY <5>1, <5>2 DEF TemplateAssumption
      <4>4. j \in 1..m /\ j \in 1..m + 1
        BY <1>7, <4>2
      <4>5. IsFile(j)' /\ frames'[j].tmpl = Owner[t] /\ (j > 1 => frames'[j].inlines)
        BY <1>7, <4>2, <4>3, <4>4 DEF IsFile
      <4>6. ASSUME NEW i \in j + 1..m + 1, IsFile(i)' PROVE ~frames'[i].inlines
        <5>1. CASE i = m + 1
          BY <3>1, <4>1, <5>1
        <5>2. CASE i # m + 1
          <6>1. i \in DOMAIN frames /\ i > j /\ frames'[i] = frames[i]
            BY <1>7, <4>4, <5>2
          <6> QED  BY <4>2, <4>6, <6>1 DEF IsFile
        <5> QED  BY <5>1, <5>2
      <4> QED  BY <3>1, <4>4, <4>5, <4>6 DEF Owned
    <3>4. CASE how # "inline"
      <4>1. t \in Files /\ (inlining \/ cached)
        BY <3>2, <3>4 DEF Finds, PushesInlines
      <4>2. Owner[t] = t /\ m + 1 \in 1..m + 1 /\ \A i \in m + 1 + 1..m + 1 : FALSE
        BY <1>8, <4>1 DEF TemplateAssumption
      <4> QED  BY <1>4, <3>1, <4>1, <4>2 DEF Owned
    <3> QED  BY <3>3, <3>4
  <2>4. \A k \in DOMAIN frames' : k \in 1..m \/ k = m + 1
    BY <1>7
  <2> QED  BY <2>2, <2>3, <2>4 DEF Owners
<1> QED  BY <1>15, <1>16, <1>17, <1>18, <1>19

LEMMA ExitIncludeInv == ASSUME ScopeInv, ExitInclude PROVE ScopeInv'
<1> USE DEF ScopeInv
<1>1. PICK n, F : n = Len(frames) - 1 /\ F = Top
  OBVIOUS
<1>2. frames # <<>> /\ Return /\ F.kind = "file" /\ Len(frames) > 1
  BY <1>1, EmptySeq DEF ExitInclude, InInclude
<1>3. /\ n \in Nat /\ n > 0 /\ DOMAIN frames = 1..n + 1 /\ DOMAIN frames' = 1..n
      /\ frames' \in Seq(Frames) /\ F \in Frames
      /\ \A k \in 1..n : frames'[k] = frames[k]
      /\ OneMore(frames', frames, n, F)
  <2>1. /\ n \in Nat /\ DOMAIN frames = 1..n + 1 /\ DOMAIN frames' = 1..n
        /\ frames' \in Seq(Frames) /\ F \in Frames
        /\ \A k \in 1..n : frames'[k] = frames[k]
        /\ OneMore(frames', frames, n, F)
    BY <1>1, <1>2, Returning
  <2>2. n > 0
    BY <1>1, <1>2, <2>1 DEF Types
  <2> QED  BY <2>1, <2>2
<1>4. /\ UNCHANGED <<cached, ctx, layers, metas, loops, nLoops, narrowed>>
      /\ nLayers' = IF HasLayer(F) THEN nLayers - 1 ELSE nLayers
      /\ consts' = Pop(consts)
      /\ inlines' = IF F.inlines THEN Pop(inlines) ELSE inlines
      /\ decls' = IF Params[F.tmpl] = {} THEN decls ELSE Pop(decls)
      /\ depth' = depth - 1
  BY <1>1 DEF ExitInclude, Iterates, HasLayer, Undeclared
<1>5. /\ nLayers \in Nat /\ nLayers <= Len(layers)
      /\ consts \in Seq(Templates) /\ inlines \in Seq(Files) /\ decls \in Seq(Templates)
      /\ F.inlines \in BOOLEAN
  BY <1>2, <1>3, FrameFacts DEF Types
<1>6. Stacked(consts', ConstFiles(frames')) /\ consts' \in Seq(Templates)
  <2>0. PICK x : x = F.tmpl
    OBVIOUS
  <2>1. Grows(ConstFiles(frames'), ConstFiles(frames), n,
              F.kind = "file" /\ (n = 0 => DOMAIN Consts[F.tmpl] # {}), x)
    BY <1>3, <2>0 DEF OneMore
  <2>2. PICK s \in Seq(Templates) : s = consts
    BY <1>5
  <2>3. F.kind = "file" /\ (n = 0 => DOMAIN Consts[F.tmpl] # {})
    BY <1>2, <1>3
  <2>4. Stacked(s, ConstFiles(frames))
    BY <2>2 DEF Stacks
  <2>5. Stacked(Pop(s), ConstFiles(frames')) /\ Pop(s) \in Seq(Templates)
    BY <1>3, <2>1, <2>3, <2>4, GrowsDrop
  <2> QED  BY <1>4, <2>2, <2>5
<1>7. Stacked(inlines', InlineFiles(frames')) /\ inlines' \in Seq(Files)
  <2>0. PICK x : x = F.tmpl
    OBVIOUS
  <2>1. Grows(InlineFiles(frames'), InlineFiles(frames), n, F.kind = "file" /\ F.inlines, x)
    BY <1>3, <2>0 DEF OneMore
  <2>2. PICK s \in Seq(Files) : s = inlines
    BY <1>5
  <2>3. Stacked(s, InlineFiles(frames))
    BY <2>2 DEF Stacks
  <2>4. CASE F.inlines
    <3>1. F.kind = "file" /\ F.inlines
      BY <1>2, <2>4
    <3>2. Stacked(Pop(s), InlineFiles(frames')) /\ Pop(s) \in Seq(Files)
      BY <1>3, <2>1, <2>3, <3>1, GrowsDrop
    <3> QED  BY <1>4, <2>2, <2>4, <3>2
  <2>5. CASE ~F.inlines
    <3>1. ~ (F.kind = "file" /\ F.inlines)
      BY <2>5
    <3>2. Stacked(s, InlineFiles(frames'))
      BY <1>3, <2>1, <2>3, <3>1, KeptStack
    <3> QED  BY <1>4, <2>2, <2>5, <3>2
  <2> QED  BY <2>4, <2>5
<1>8. Stacked(decls', DeclFiles(frames')) /\ decls' \in Seq(Templates)
  <2>0. PICK x : x = F.tmpl
    OBVIOUS
  <2>1. Grows(DeclFiles(frames'), DeclFiles(frames), n, F.kind = "file" /\ Params[F.tmpl] # {}, x)
    BY <1>3, <2>0 DEF OneMore
  <2>2. PICK s \in Seq(Templates) : s = decls
    BY <1>5
  <2>3. Stacked(s, DeclFiles(frames))
    BY <2>2 DEF Stacks
  <2>4. CASE Params[F.tmpl] # {}
    <3>1. F.kind = "file" /\ Params[F.tmpl] # {}
      BY <1>2, <2>4
    <3>2. Stacked(Pop(s), DeclFiles(frames')) /\ Pop(s) \in Seq(Templates)
      BY <1>3, <2>1, <2>3, <3>1, GrowsDrop
    <3> QED  BY <1>4, <2>2, <2>4, <3>2
  <2>5. CASE Params[F.tmpl] = {}
    <3>1. ~ (F.kind = "file" /\ Params[F.tmpl] # {})
      BY <2>5
    <3>2. Stacked(s, DeclFiles(frames'))
      BY <1>3, <2>1, <2>3, <3>1, KeptStack
    <3> QED  BY <1>4, <2>2, <2>5, <3>2
  <2> QED  BY <2>4, <2>5
<1>9. Stacked(LayersNow', IncludeBinds(frames')) /\ (HasLayer(F) => nLayers > 0)
  <2>1. PICK r, s, v, w, x : /\ r = LayersNow' /\ s = LayersNow /\ v = IncludeBinds(frames')
                             /\ w = IncludeBinds(frames) /\ x = LayerOf(F)
    OBVIOUS
  <2>2. Grows(v, w, n, F.kind = "file" /\ n > 0 /\ HasLayer(F), x) /\ Stacked(s, w)
    BY <1>3, <2>1 DEF OneMore, Stacks
  <2>3. /\ DOMAIN s = 1..nLayers /\ DOMAIN r = 1..nLayers'
        /\ \A i \in 1..nLayers : s[i] = layers[i]
        /\ \A i \in 1..nLayers' : r[i] = layers[i]
    BY <1>4, <2>1 DEF LayersNow
  <2>4. CASE HasLayer(F)
    <3>1. nLayers' = nLayers - 1
      BY <1>4, <2>4
    <3>2. PICK y : y = s[nLayers]
      OBVIOUS
    <3>3. Popped(r, s, nLayers, y)
      BY <1>5, <2>3, <3>1, <3>2 DEF Popped
    <3>4. F.kind = "file" /\ n > 0 /\ HasLayer(F)
      BY <1>2, <1>3, <2>4
    <3>5. Stacked(r, v) /\ nLayers > 0
      BY <1>3, <1>5, <2>2, <3>3, <3>4, GrowsPop
    <3> QED  BY <2>1, <3>5
  <2>5. CASE ~HasLayer(F)
    <3>1. nLayers' = nLayers
      BY <1>4, <2>5
    <3>2. r = s
      BY <1>4, <2>1, <3>1 DEF LayersNow
    <3>3. ~ (F.kind = "file" /\ n > 0 /\ HasLayer(F))
      BY <2>5
    <3>4. Stacked(s, v)
      BY <1>3, <2>2, <3>3, KeptStack
    <3> QED  BY <2>1, <2>5, <3>2, <3>4
  <2> QED  BY <2>4, <2>5
<1>10. Stacked(LoopsNow', ForBinds(frames')) /\ Stacked(narrowed, Narrows(frames'))
  <2>1. LoopsNow' = LoopsNow
    BY <1>4 DEF LoopsNow
  <2>2. PICK x, y : x = <<F.binding, F.items[F.at]>> /\ y = F.name
    OBVIOUS
  <2>3. /\ Grows(ForBinds(frames'), ForBinds(frames), n, F.kind = "for", x)
        /\ Grows(Narrows(frames'), Narrows(frames), n, F.kind = "narrow", y)
    BY <1>3, <2>2 DEF OneMore
  <2>4. ~ (F.kind = "for") /\ ~ (F.kind = "narrow")
    BY <1>2
  <2>5. Stacked(LoopsNow, ForBinds(frames'))
    BY <1>3, <2>3, <2>4, KeptStack DEF Stacks
  <2>6. Stacked(narrowed, Narrows(frames'))
    BY <1>3, <2>3, <2>4, KeptStack DEF Stacks
  <2> QED  BY <2>1, <2>5, <2>6
<1>11. depth' = Cardinality(IncludeCalls(frames')) /\ depth' \in 0..MaxIncludeDepth
  <2>1. PICK S \in SUBSET (1..n) : S = IncludeCalls(frames')
    BY <1>3 DEF OneMore
  <2>2. IncludeCalls(frames) = S \cup {n + 1}
    BY <1>2, <1>3, <2>1 DEF OneMore
  <2>3. Cardinality(S \cup {n + 1}) = Cardinality(S) + 1
    BY <1>3, RankAdd
  <2>4. Cardinality(S) \in Nat
    BY <1>3, RankFacts
  <2>5. depth = Cardinality(S) + 1
    BY <2>2, <2>3 DEF Stacks
  <2>6. depth <= MaxIncludeDepth /\ MaxIncludeDepth \in Nat
    BY DEF Types, TemplateAssumption
  <2> QED  BY <1>4, <2>1, <2>4, <2>5, <2>6
<1>12. Stacks'
  BY <1>4, <1>6, <1>7, <1>8, <1>9, <1>10, <1>11 DEF Stacks
<1>13. Types'
  <2>1. nLayers' \in 0..Len(layers')
    BY <1>4, <1>5, <1>9
  <2> QED  BY <1>3, <1>4, <1>6, <1>7, <1>8, <1>11, <2>1 DEF Types
<1> QED  BY <1>3, <1>4, <1>12, <1>13, Leaving

LEMMA NextIncludeInv == ASSUME ScopeInv, NextInclude PROVE ScopeInv'
<1> USE DEF ScopeInv
<1>1. PICK n, F, G : n = Len(frames) /\ F = Top /\ G = [F EXCEPT !.at = F.at + 1]
  OBVIOUS
<1>2. /\ frames # <<>> /\ Advance /\ F.kind = "file" /\ F.binding # NoName
      /\ F.at < Len(F.items) /\ n > 1
  BY <1>1, EmptySeq DEF NextInclude, InInclude, Iterates
<1>3. /\ n \in Nat \ {0} /\ DOMAIN frames = 1..n /\ DOMAIN frames' = 1..n
      /\ frames' \in Seq(Frames) /\ frames' # <<>> /\ frames[n] = F /\ F \in Frames
      /\ \A k \in 1..n - 1 : frames'[k] = frames[k]
      /\ frames'[n] = G
  BY <1>1, <1>2, Advancing
<1>4. G \in Frames
  BY <1>3
<1>5. F \in FileFrames /\ F.binding \in IncludeNames /\ F.at \in Nat
  BY <1>2, <1>3, FrameFacts
<1>6. /\ G.kind = "file" /\ G.tmpl = F.tmpl /\ G.with = F.with /\ G.inlines = F.inlines
      /\ G.binding = F.binding /\ G.items = F.items /\ G.at = F.at + 1
  BY <1>1, <1>5 DEF FileFrames
<1>7. /\ UNCHANGED <<cached, ctx, consts, inlines, decls, depth, narrowed>>
      /\ PushLayer(nLayers, LayerOf(G), F.binding, F.at)
  <2>1. LayerOf(G) = IterationLayer(F.tmpl, F.with, F.binding, F.items[F.at + 1])
    BY <1>2, <1>6 DEF LayerOf
  <2> QED  BY <1>1, <2>1 DEF NextInclude, perFile
<1>8. /\ n \in Layering /\ Layering \in SUBSET (1..n) /\ Rank(Layering, n) = nLayers
      /\ nLayers \in Nat \ {0} /\ nLoops \in Nat
  <2>1. n \in Layering /\ Layering \in SUBSET (1..n)
    BY <1>2, <1>3 DEF Layering, Includes, IsFile
  <2>2. Rank(Layering, n) = Cardinality(Layering)
    BY <1>3, <2>1, TopPlace
  <2>3. nLayers = Cardinality(Layering) /\ Rank(Layering, n) \in 1..nLayers
    BY <2>1, StackFacts
  <2> QED  BY <2>1, <2>2, <2>3 DEF Types
<1>9. /\ layers' \in Seq(Environments) /\ metas' \in Seq(Indexes)
      /\ Len(layers') = Len(metas') /\ nLayers' = nLayers /\ nLayers <= Len(layers')
      /\ layers'[nLayers] = LayerOf(G)
      /\ \A j \in 1..nLayers : j # nLayers => layers'[j] = layers[j] /\ metas'[j] = metas[j]
      /\ loops' \in Seq(LoopRecords) /\ nLoops' = nLoops /\ nLoops <= Len(loops')
      /\ \A j \in 1..nLoops : /\ loops'[j].name = loops[j].name
                              /\ loops'[j].value = loops[j].value
                              /\ loops'[j].meta = loops[j].meta \/ loops[j].name = F.binding
      /\ LoopsOf(F.binding) = {} => metas'[nLayers] = Single(F.binding, F.at)
  <2>1. PICK k, l, b, i : k = nLayers /\ l = LayerOf(G) /\ b = F.binding /\ i = F.at
    OBVIOUS
  <2>2. /\ k \in Nat \ {0} /\ k <= nLayers + 1 /\ i \in Nat /\ l \in Environments
        /\ b \in Names \cup {NoName} /\ b # NoName
    BY <1>2, <1>4, <1>5, <1>6, <1>8, <2>1, LayerFacts DEF TemplateAssumption
  <2>3. PushLayer(k, l, b, i)
    BY <1>7, <2>1
  <2>4. /\ layers' \in Seq(Environments) /\ metas' \in Seq(Indexes)
        /\ Len(layers') = Len(metas') /\ nLayers' = k /\ k <= Len(layers')
        /\ layers'[k] = l
        /\ \A j \in 1..nLayers : j # k => layers'[j] = layers[j] /\ metas'[j] = metas[j]
        /\ loops' \in Seq(LoopRecords) /\ nLoops' = nLoops /\ nLoops <= Len(loops')
        /\ \A j \in 1..nLoops : /\ loops'[j].name = loops[j].name
                                /\ loops'[j].value = loops[j].value
                                /\ loops'[j].meta = loops[j].meta \/ loops[j].name = b
        /\ b # NoName /\ LoopsOf(b) = {} => metas'[k] = Single(b, i)
    BY <2>2, <2>3, PushLayerFacts
  <2> QED  BY <2>1, <2>2, <2>4
<1>10. Types'
  <2>1. Len(loops') \in Nat /\ Len(layers') \in Nat
    BY <1>9
  <2> QED  BY <1>3, <1>7, <1>8, <1>9, <2>1 DEF Types, LoopRecords
<1>11. Rooted'
  <2>1. frames'[1] = frames[1]
    BY <1>2, <1>3
  <2> QED  BY <1>2, <1>7, <2>1 DEF Rooted, IsFile
<1>12. /\ Restacked(IncludeBinds(frames), IncludeBinds(frames'), n)
       /\ IncludeBinds(frames')[n] = LayerOf(G)
       /\ Grows(ForBinds(frames), ForBinds(frames'), n, FALSE, 0)
       /\ Grows(Narrows(frames), Narrows(frames'), n, FALSE, 0)
       /\ Grows(ConstFiles(frames), ConstFiles(frames'), n, FALSE, 0)
       /\ Grows(InlineFiles(frames), InlineFiles(frames'), n, FALSE, 0)
       /\ Grows(DeclFiles(frames), DeclFiles(frames'), n, FALSE, 0)
       /\ IncludeCalls(frames) = IncludeCalls(frames')
  <2>1. PICK A, B : A = frames /\ B = frames'
    OBVIOUS
  <2>2. /\ DOMAIN A = 1..n /\ DOMAIN B = 1..n /\ \A k \in 1..n - 1 : B[k] = A[k]
        /\ A[n] = F /\ B[n] = G
    BY <1>3, <2>1
  <2>4. NextOf(A, B, n)
    BY <1>2, <1>6, <2>2 DEF NextOf
  <2>5. OneNext(A, B, n)
    BY <1>3, <2>4, NextOnTop
  <2>6. n > 1 /\ HasLayer(A[n]) /\ A[n].kind = "file"
    BY <1>2, <2>2 DEF HasLayer
  <2> QED  BY <2>1, <2>2, <2>5, <2>6 DEF OneNext
<1>13. Stacks'
  <2>1. Stacked(LayersNow', IncludeBinds(frames'))
    <3>1. PICK r, s, v, w : /\ r = LayersNow' /\ s = LayersNow
                            /\ v = IncludeBinds(frames) /\ w = IncludeBinds(frames')
      OBVIOUS
    <3>2. Replaced(r, s, nLayers, w[n])
      <4>1. /\ DOMAIN s = 1..nLayers /\ DOMAIN r = 1..nLayers
            /\ \A i \in 1..nLayers : s[i] = layers[i]
            /\ \A i \in 1..nLayers : r[i] = layers'[i]
        BY <1>9, <3>1 DEF LayersNow
      <4>2. nLayers \in 1..nLayers
        BY <1>8
      <4>3. r[nLayers] = w[n]
        BY <1>9, <1>12, <3>1, <4>1, <4>2
      <4>4. \A i \in 1..nLayers : i # nLayers => r[i] = s[i]
        BY <1>9, <4>1
      <4> QED  BY <4>1, <4>3, <4>4 DEF Replaced
    <3>3. Stacked(s, v) /\ Restacked(v, w, n) /\ nLayers \in Nat /\ n \in Nat
      BY <1>3, <1>8, <1>12, <3>1 DEF Stacks
    <3>4. Stacked(r, w)
      BY <3>2, <3>3, ReplacedTop
    <3> QED  BY <3>1, <3>4
  <2>2. LoopsNow' = LoopsNow
    BY <1>9 DEF LoopsNow
  <2>3. /\ Stacked(LoopsNow, ForBinds(frames')) /\ Stacked(narrowed, Narrows(frames'))
        /\ Stacked(consts, ConstFiles(frames')) /\ Stacked(inlines, InlineFiles(frames'))
        /\ Stacked(decls, DeclFiles(frames')) /\ depth = Cardinality(IncludeCalls(frames'))
    BY <1>3, <1>12, KeptStack DEF Stacks
  <2> QED  BY <1>7, <2>1, <2>2, <2>3 DEF Stacks
<1>14. LoopIndexes' /\ IncludeIndexes'
  <2>0. PICK m \in Nat : m = n - 1
    BY <1>3
  <2>1. /\ 1..m \subseteq DOMAIN frames /\ 1..m \subseteq DOMAIN frames'
        /\ DOMAIN frames' \subseteq Nat \ {0}
        /\ \A k \in 1..m : frames'[k] = frames[k]
    BY <1>3, <2>0
  <2>2. /\ \A i \in 1..nLoops : i # 0 =>
               loops'[i].meta = loops[i].meta \/ loops[i].name \in IncludeNames
        /\ \A i \in 1..nLayers : i # nLayers => metas'[i] = metas[i]
        /\ \A k \in Fors : k <= m => Rank(Fors, k) # 0
    BY <1>5, <1>9, StackFacts
  <2>3. \A k \in Layering : k <= m => Rank(Layering, k) # nLayers
    <3> SUFFICES ASSUME NEW k \in Layering, k <= m PROVE Rank(Layering, k) < Rank(Layering, n)
      BY <1>8, StackFacts
    <3>1. k < n
      BY <1>3, <1>8, <2>0
    <3> QED  BY <1>3, <1>8, <3>1, RankFacts
  <2>4. /\ \A k \in 1..m : k \in Fors' /\ frames'[k].binding \notin IncludeNames
                  => loops'[Rank(Fors', k)].meta = frames'[k].at - 1
        /\ \A k \in 1..m : k \in Layering' /\ frames'[k].binding # NoName
                                /\ (\A j \in Fors' : j < k => frames'[j].binding # frames'[k].binding)
                  => metas'[Rank(Layering', k)] = Single(frames'[k].binding, frames'[k].at - 1)
        /\ \A k \in 1..m : (k \in Fors' <=> k \in Fors) /\ (k \in Layering' <=> k \in Layering)
    BY <2>1, <2>2, <2>3, IndexesKept
  <2>5. n \notin Fors' /\ n \notin Fors /\ \A k \in DOMAIN frames' : k \in 1..m \/ k = n
    BY <1>2, <1>3, <1>6, <2>0 DEF Fors
  <2>6. Fors' \subseteq DOMAIN frames' /\ Layering' \subseteq DOMAIN frames'
    BY DEF Fors, Layering, Includes
  <2>7. LoopIndexes'
    BY <2>4, <2>5, <2>6 DEF LoopIndexes
  <2>8. Rank(Layering', n) = nLayers
    <3>1. n \in Layering' /\ \A k \in 1..n : k \in Layering' <=> k \in Layering
      <4>1. n \in Layering'
        BY <1>2, <1>3, <1>6 DEF Layering, Includes, IsFile
      <4>2. \A k \in 1..m : k \in Layering' <=> k \in Layering
        BY <2>4
      <4>3. \A k \in 1..n : k \in 1..m \/ k = n
        BY <1>3, <2>0
      <4>4. n \in Layering
        BY <1>8
      <4> QED  BY <4>1, <4>2, <4>3, <4>4
    <3>2. PICK T \in SUBSET (1..n) : T = Layering'
      BY <1>3, <2>6
    <3>3. T = Layering
      BY <1>8, <3>1, <3>2
    <3> QED  BY <1>8, <3>2, <3>3
  <2>9. ASSUME \A j \in Fors' : j < n => frames'[j].binding # F.binding
        PROVE  metas'[nLayers] = Single(F.binding, F.at)
    <3>1. LoopHolders(F.binding) = {}
      <4> SUFFICES ASSUME NEW j \in Fors PROVE frames[j].binding # F.binding
        BY DEF LoopHolders
      <4>0. j \in DOMAIN frames
        BY DEF Fors
      <4>1. j \in 1..m /\ j < n
        BY <1>3, <2>0, <2>5, <4>0
      <4>2. j \in Fors' /\ frames'[j] = frames[j]
        BY <2>1, <2>4, <4>1
      <4> QED  BY <2>9, <4>1, <4>2
    <3>2. LoopsOf(F.binding) = {}
      BY <3>1, LoopLookup
    <3> QED  BY <1>9, <3>2
  <2>10. IncludeIndexes'
    <3> SUFFICES ASSUME NEW k \in Layering', frames'[k].binding # NoName,
                        \A j \in Fors' : j < k => frames'[j].binding # frames'[k].binding
                 PROVE  metas'[Rank(Layering', k)] = Single(frames'[k].binding, frames'[k].at - 1)
      BY DEF IncludeIndexes
    <3>1. CASE k \in 1..m
      BY <2>4, <3>1
    <3>2. CASE k = n
      <4>1. frames'[k].binding = F.binding /\ frames'[k].at - 1 = F.at
        <5>1. frames'[k] = G
          BY <1>3, <3>2
        <5>2. G.binding = F.binding /\ G.at = F.at + 1
          BY <1>6
        <5>3. F.at \in Nat
          BY <1>5, <1>6
        <5> QED  BY <5>1, <5>2, <5>3
      <4> QED  BY <2>8, <2>9, <3>2, <4>1
    <3> QED  BY <2>5, <2>6, <3>1, <3>2
  <2> QED  BY <2>7, <2>10
<1>15. Owners'
  <2>1. \A k \in 1..n : k \in 1..n - 1 \/ k = n
    BY <1>3
  <2>2. SameUpTo(frames, frames', n)
    BY <1>2, <1>3, <1>6, <2>1 DEF SameUpTo
  <2>3. \A k \in 1..n : IsFile(k)' => Owned(k)'
    BY <1>3, <1>7, <2>2, OwnersKept
  <2> QED  BY <1>3, <2>3 DEF Owners
<1> QED  BY <1>10, <1>11, <1>13, <1>14, <1>15

\* A step that changes nothing keeps everything.
LEMMA StutterInv == ASSUME ScopeInv, UNCHANGED vars PROVE ScopeInv'
<1>1. UNCHANGED <<frames, cached, ctx, layers, metas, nLayers, loops, nLoops, consts, inlines,
                  decls, depth, narrowed>>
  BY DEF vars, bindings, perFile
<1>2. Types' /\ Rooted'
  BY <1>1 DEF ScopeInv, Types, Rooted, IsFile
<1>3. Stacks'
  BY <1>1 DEF ScopeInv, Stacks, LoopsNow, LayersNow
<1>4. Fors' = Fors /\ Layering' = Layering
  BY <1>1 DEF Fors, Layering, Includes, IsFile
<1>5. LoopIndexes' /\ IncludeIndexes'
  BY <1>1, <1>4 DEF ScopeInv, LoopIndexes, IncludeIndexes
<1>6. Owners'
  BY <1>1 DEF ScopeInv, Owners, Owned, IsFile
<1> QED  BY <1>2, <1>3, <1>5, <1>6 DEF ScopeInv

\* ScopeInv is an invariant: every construct pops what it has pushed.
THEOREM ScopeInvHolds == Spec => []ScopeInv
<1>1. Init => ScopeInv
  BY NoScopeInv DEF Init
<1>2. ScopeInv /\ [Next]_vars => ScopeInv'
  <2> SUFFICES ASSUME ScopeInv, [Next]_vars PROVE ScopeInv'
    OBVIOUS
  <2>1. ASSUME NEW f \in Files, NEW c \in BOOLEAN, NEW args \in Arguments(f, NoName, Literals),
               Begin(f, args, c)
        PROVE  ScopeInv'
    BY <2>1, BeginInv
  <2>2. CASE Finish \/ Fail
    BY <2>2, DropInv DEF Finish, Fail
  <2>3. ASSUME NEW n \in LoopNames, NEW items \in Lists, EnterFor(n, items) PROVE ScopeInv'
    BY <2>3, EnterForInv
  <2>4. CASE NextItem
    BY <2>4, NextItemInv
  <2>5. CASE ExitFor
    BY <2>5, ExitForInv
  <2>6. ASSUME NEW n \in Names, EnterIfHas(n) \/ EnterCaseSome(n) PROVE ScopeInv'
    <3>1. /\ HasRoom /\ Call([kind |-> "narrow", name |-> n]) /\ narrowed' = Append(narrowed, n)
          /\ UNCHANGED <<cached, ctx, bindings, perFile>>
      BY <2>6 DEF EnterIfHas, EnterCaseSome
    <3> QED  BY <3>1, EnterNarrowInv
  <2>7. CASE ExitNarrowed
    BY <2>7, ExitNarrowedInv
  <2>8. CASE Include
    <3>1. HasRoom
      BY <2>8 DEF Include
    <3>2. PICK t \in Templates : \E inlining \in Includable(t), overrides \in Arguments(t, NoName, Overrides(t)) :
                                    EnterInclude(t, inlining, overrides, NoName, <<>>)
      BY <2>8 DEF Include
    <3>3. PICK inlining \in Includable(t), overrides \in Arguments(t, NoName, Overrides(t)) :
                  EnterInclude(t, inlining, overrides, NoName, <<>>)
      BY <3>2
    <3> QED  BY <3>1, <3>3, EnterIncludeInv
  <2>9. CASE IteratedInclude
    <3>1. HasRoom
      BY <2>9 DEF IteratedInclude
    <3>2. PICK t \in Templates, n \in IncludeNames, items \in Lists :
             \E inlining \in Includable(t), overrides \in Arguments(t, n, Overrides(t)) :
                EnterInclude(t, inlining, overrides, n, items)
      BY <2>9 DEF IteratedInclude
    <3>3. PICK inlining \in Includable(t), overrides \in Arguments(t, n, Overrides(t)) :
                  EnterInclude(t, inlining, overrides, n, items)
      BY <3>2
    <3>4. n # NoName
      BY DEF TemplateAssumption
    <3> QED  BY <3>1, <3>3, <3>4, EnterIncludeInv
  <2>10. CASE NextInclude
    BY <2>10, NextIncludeInv
  <2>11. CASE ExitInclude
    BY <2>11, ExitIncludeInv
  <2>12. CASE UNCHANGED vars
    BY <2>12, StutterInv
  <2> QED  BY <2>1, <2>2, <2>3, <2>4, <2>5, <2>6, <2>7, <2>8, <2>9, <2>10, <2>11, <2>12 DEF Next
<1> QED  BY <1>1, <1>2, PTL DEF Spec

----------------------------------------------------------------------------
(* The properties.                                                         *)

\* A call is made before the current template's, or is its own, or is inside it.
LEMMA Places ==
    ASSUME ScopeInv, frames # <<>>
    PROVE  /\ Active \in DOMAIN frames /\ Active \in Nat \ {0} /\ IsFile(Active)
           /\ \A k \in DOMAIN frames :
                 /\ k \in Nat
                 /\ k \in 1..Active - 1 \/ k = Active \/ k \in Own
                 /\ IsFile(k) => k <= Active
                 /\ k \in Own => k > Active /\ ~IsFile(k)
           /\ \A k \in Own : k \in DOMAIN frames
           /\ \A k \in 1..Active - 1 : k \in DOMAIN frames /\ k < Active
<1>1. PICK n \in Nat : n = Len(frames) /\ DOMAIN frames = 1..n
  BY ActiveFacts DEF ScopeInv
<1>2. PICK a \in 1..n : a = Active /\ IsFile(a) /\ \A k \in DOMAIN frames : IsFile(k) => k <= a
  BY <1>1, ActiveFacts DEF ScopeInv
<1>3. Own = a + 1..n
  BY <1>1, <1>2 DEF Own
<1>4. /\ \A k \in 1..n : k \in Nat /\ (k \in 1..a - 1 \/ k = a \/ k \in a + 1..n)
      /\ \A k \in a + 1..n : k \in 1..n /\ k > a /\ ~ (k <= a)
      /\ \A k \in 1..a - 1 : k \in 1..n /\ k < a
  BY <1>2
<1>5. a \in Nat \ {0}
  BY <1>2
<1> QED  BY <1>1, <1>2, <1>3, <1>4, <1>5

\* Scope::get_inline_template: the file on top of the stack is the last one that
\* brought its inline templates, which is the one the current template is in.
LEMMA OwnInlines == ScopeInv => InlineTemplatesAreOwnUncached
<1> SUFFICES ASSUME ScopeInv, frames # <<>>, ~cached PROVE InlineFile = Owner[Current.tmpl]
  BY DEF InlineTemplatesAreOwnUncached, Rendering
<1>1. PICK j \in DOMAIN frames :
         /\ IsFile(j) /\ frames[j].tmpl = InlineFile
         /\ j > 1 => frames[j].inlines
         /\ \A i \in DOMAIN frames : i > j /\ IsFile(i) => ~frames[i].inlines
  BY InlineFileIs
<1>2. PICK a \in Nat \ {0} : a = Active /\ a \in DOMAIN frames /\ IsFile(a)
  BY Places
<1>3. PICK i \in 1..a :
         /\ IsFile(i) /\ frames[i].tmpl = Owner[frames[a].tmpl]
         /\ i > 1 => frames[i].inlines
         /\ \A k \in i + 1..a : IsFile(k) => ~frames[k].inlines
  <2>1. Owned(a)
    BY <1>2 DEF ScopeInv, Owners
  <2>2. PICK i \in 1..a :
           /\ IsFile(i) /\ frames[i].tmpl = Owner[frames[a].tmpl]
           /\ ~cached => /\ i > 1 => frames[i].inlines
                         /\ \A k \in i + 1..a : IsFile(k) => ~frames[k].inlines
    BY <2>1 DEF Owned
  <2> QED  BY <2>2
<1>4. i \in DOMAIN frames /\ i \in Nat /\ j \in Nat /\ j <= a /\ i > 0 /\ j > 0
  <2>1. PICK n \in Nat : DOMAIN frames = 1..n
    BY DEF ScopeInv, Types
  <2>2. a \in 1..n /\ j \in 1..n
    BY <1>2, <2>1
  <2>3. i \in 1..n
    BY <1>3, <2>2
  <2>4. j <= a
    BY <1>1, <1>2, Places
  <2> QED  BY <2>1, <2>2, <2>3, <2>4
<1>5. ~ (i > j)
  <2> SUFFICES ASSUME i > j PROVE FALSE
    OBVIOUS
  <2>1. i > 1
    BY <1>4
  <2> QED  BY <1>1, <1>3, <1>4, <2>1
<1>6. ~ (j > i)
  <2> SUFFICES ASSUME j > i PROVE FALSE
    OBVIOUS
  <2>1. j > 1 /\ j \in i + 1..a
    BY <1>2, <1>4
  <2> QED  BY <1>1, <1>3, <2>1
<1>7. i = j
  BY <1>4, <1>5, <1>6
<1> QED  BY <1>1, <1>2, <1>3, <1>7 DEF Current

\* The calls that narrow n, and the files that declare it.
NarrowHolders(n) == {k \in Narrowing : frames[k].name = n}
DeclHolders(n)   == {k \in Declaring : n \in Params[frames[k].tmpl]}

LEMMA NarrowLookup ==
    ASSUME ScopeInv, NEW n
    PROVE  (\A i \in DOMAIN narrowed : narrowed[i] # n) <=> NarrowHolders(n) = {}
<1>1. PICK m \in Nat : DOMAIN frames = 1..m
  BY DEF ScopeInv, Types
<1>2. PICK T, K, v, X : /\ T = {i \in DOMAIN narrowed : narrowed[i] = n}
                        /\ K = NarrowHolders(n) /\ v = Narrows(frames) /\ X = {n}
  OBVIOUS
<1>3. DOMAIN v = Narrowing /\ \A k \in Narrowing : v[k] = frames[k].name
  BY <1>2 DEF Narrows, Narrowing
<1>4. Below(v, m) /\ Stacked(narrowed, v)
  BY <1>1, <1>2, <1>3 DEF Narrowing, Below, ScopeInv, Stacks
<1>5. Holding(K, v, X) /\ Holding(T, narrowed, X)
  BY <1>2, <1>3 DEF Holding, NarrowHolders
<1>6. T = {} <=> K = {}
  BY <1>4, <1>5, StackHolders
<1> QED  BY <1>2, <1>6

LEMMA DeclLookup ==
    ASSUME ScopeInv, NEW n
    PROVE  LET T == {i \in DOMAIN decls : n \in Params[decls[i]]}
               K == DeclHolders(n)
           IN  /\ T = {} <=> K = {}
               /\ K # {} => /\ LastOf(K)
                            /\ decls[Innermost(T)] = frames[Innermost(K)].tmpl
<1> USE DEF ScopeInv
<1>1. PICK m \in Nat : DOMAIN frames = 1..m
  BY DEF Types
<1>2. PICK T, K, v, X : /\ T = {i \in DOMAIN decls : n \in Params[decls[i]]}
                        /\ K = DeclHolders(n) /\ v = DeclFiles(frames)
                        /\ X = {t \in Templates : n \in Params[t]}
  OBVIOUS
<1>3. DOMAIN v = Declaring /\ \A k \in Declaring : v[k] = frames[k].tmpl
  BY <1>2 DEF DeclFiles, Declaring, IsFile
<1>4. Below(v, m) /\ Stacked(decls, v)
  BY <1>1, <1>2, <1>3 DEF Declaring, Below, Stacks
<1>5. \A k \in Declaring : frames[k].tmpl \in Templates
  <2> SUFFICES ASSUME NEW k \in Declaring PROVE frames[k].tmpl \in Templates
    OBVIOUS
  <2>1. frames[k] \in Frames /\ frames[k].kind = "file"
    BY DEF Declaring, IsFile, Types
  <2> QED  BY <2>1, FrameFacts
<1>6. Holding(K, v, X)
  BY <1>2, <1>3, <1>5 DEF Holding, DeclHolders
<1>7. Holding(T, decls, X)
  <2>1. \A i \in DOMAIN decls : decls[i] \in Templates
    BY DEF Types
  <2> QED  BY <1>2, <2>1 DEF Holding
<1>8. /\ T = {} <=> K = {}
      /\ K # {} => /\ Innermost(K) \in K /\ \A k \in K : k <= Innermost(K)
                   /\ decls[Innermost(T)] = v[Innermost(K)]
  BY <1>4, <1>6, <1>7, StackHolders
<1>9. K \subseteq Declaring
  BY <1>2 DEF DeclHolders
<1> QED  BY <1>2, <1>3, <1>8, <1>9 DEF LastOf

\* Scope::is_option_path: the current template is the last that declares a parameter
\* of its own, and what its callers have narrowed is still on the stack.
LEMMA NarrowedOptions == ScopeInv => OptionsAsNarrowed
<1> SUFFICES ASSUME ScopeInv, frames # <<>>, NEW n \in Options[Current.tmpl],
                    ~ \E k \in 1..Active - 1 : frames[k].kind = "narrow" /\ frames[k].name = n
             PROVE  IsOption(n) = ~ \E k \in Own : frames[k].kind = "narrow" /\ frames[k].name = n
  BY DEF OptionsAsNarrowed, Rendering
<1>1. /\ Active \in DOMAIN frames /\ IsFile(Active) /\ Active \in Nat
      /\ Current = frames[Active] /\ Current \in Frames /\ Current.kind = "file"
  BY ActiveFacts, Places DEF ScopeInv
<1>2. PICK t \in Templates : t = Current.tmpl
  BY <1>1, FrameFacts
<1>3. n \in Params[t]
  BY <1>2 DEF TemplateAssumption
<1>4. Active \in DeclHolders(n)
  BY <1>1, <1>2, <1>3 DEF DeclHolders, Declaring
<1>5. Innermost(DeclHolders(n)) = Active
  <2>1. DeclHolders(n) \in SUBSET Nat /\ \A j \in DeclHolders(n) : j <= Active
    BY Places DEF DeclHolders, Declaring
  <2> QED  BY <1>4, <2>1, InnermostIs
<1>6. PICK T : /\ T = {i \in DOMAIN decls : n \in Params[decls[i]]}
               /\ T # {} /\ decls[Innermost(T)] = t
  BY <1>1, <1>2, <1>4, <1>5, DeclLookup
<1>7. IsOption(n) = (NarrowHolders(n) = {})
  BY <1>2, <1>6, NarrowLookup DEF IsOption
<1>8. NarrowHolders(n) = {} <=> ~ \E k \in Own : frames[k].kind = "narrow" /\ frames[k].name = n
  <2>1. ASSUME NEW k \in NarrowHolders(n)
        PROVE  k \in Own /\ frames[k].kind = "narrow" /\ frames[k].name = n
    <3>1. k \in DOMAIN frames /\ frames[k].kind = "narrow" /\ frames[k].name = n
      BY DEF NarrowHolders, Narrowing
    <3>2. k # Active
      BY <1>1, <3>1
    <3> QED  BY <3>1, <3>2, Places
  <2>2. ASSUME NEW k \in Own, frames[k].kind = "narrow", frames[k].name = n
        PROVE  k \in NarrowHolders(n)
    BY <2>2, Places DEF NarrowHolders, Narrowing
  <2> QED  BY <2>1, <2>2
<1> QED  BY <1>7, <1>8

\* The innermost call that gives n a value on a stack, if it is one of the current
\* template's own loops, is the innermost of these.
LEMMA OwnLoop ==
    ASSUME ScopeInv, frames # <<>>, NEW n \in OwnLoops
    PROVE  LET B == {k \in Own : n \in Bound(frames[k])}
               L == LoopHolders(n)
           IN  /\ B # {} /\ L # {} /\ n \in Names
               /\ Innermost(L) \in L /\ Innermost(B) = Innermost(L)
<1>1. PICK B, L : B = {k \in Own : n \in Bound(frames[k])} /\ L = LoopHolders(n)
  OBVIOUS
<1>2. PICK k \in Own : frames[k].kind = "for" /\ frames[k].binding = n
  BY DEF OwnLoops
<1>3. n \in Names
  <2>1. frames[k] \in Frames
    <3>1. k \in DOMAIN frames
      BY Places
    <3>2. frames \in Seq(Frames)
      BY DEF ScopeInv, Types
    <3> QED  BY <3>1, <3>2
  <2> QED  BY <1>2, <2>1, FrameFacts
<1>4. \A j : j \in B <=> j \in Own /\ frames[j].kind = "for" /\ frames[j].binding = n
  BY <1>1, <1>3 DEF Bound
<1>5. \A j : j \in L <=> j \in DOMAIN frames /\ frames[j].kind = "for" /\ frames[j].binding = n
  BY <1>1 DEF LoopHolders, Fors
<1>6. k \in B /\ k \in L
  BY <1>2, <1>4, <1>5, Places
<1>7. PICK m \in L : m = Innermost(L) /\ \A j \in L : j <= m
  BY <1>1, <1>6, LoopLookup DEF LastOf
<1>8. m \in B
  <2>1. m \in DOMAIN frames /\ frames[m].kind = "for" /\ k <= m
    BY <1>5, <1>6, <1>7
  <2>2. m \in Nat /\ k \in Nat /\ k > Active /\ Active \in Nat
    BY <1>2, <2>1, Places
  <2>3. m \in Own
    <3>1. ~ (m \in 1..Active - 1) /\ m # Active
      BY <2>1, <2>2
    <3> QED  BY <2>1, <3>1, Places
  <2> QED  BY <1>4, <1>5, <2>3
<1>9. Innermost(B) = m
  <2>1. B \in SUBSET Nat
    BY <1>4, Places
  <2>2. \A j \in B : j \in L
    BY <1>4, <1>5, Places
  <2>3. \A j \in B : j <= m
    BY <1>7, <2>2
  <2> QED  BY <1>8, <2>1, <2>3, InnermostIs
<1> QED  BY <1>1, <1>3, <1>6, <1>7, <1>9

\* Scope::get_loop_meta, in a for statement.
LEMMA LoopIndex ==
    ASSUME ScopeInv, frames # <<>>, NEW n \in OwnLoops \ IncludeNames
    PROVE  LET loop == frames[Innermost({k \in Own : n \in Bound(frames[k])})]
           IN  LoopMeta(n) = loop.at - 1
<1>1. PICK B, L : B = {k \in Own : n \in Bound(frames[k])} /\ L = LoopHolders(n)
  OBVIOUS
<1>2. L # {} /\ Innermost(L) \in L /\ Innermost(B) = Innermost(L)
  BY <1>1, OwnLoop
<1>3. PICK k \in L : k = Innermost(L)
  BY <1>2
<1>4. LoopsOf(n) # {} /\ Innermost(LoopsOf(n)) = Rank(Fors, k)
  BY <1>1, <1>2, <1>3, LoopLookup
<1>5. k \in Fors /\ frames[k].binding = n
  BY <1>1, <1>3 DEF LoopHolders
<1>6. loops[Rank(Fors, k)].meta = frames[k].at - 1
  BY <1>5 DEF ScopeInv, LoopIndexes
<1>7. LoopMeta(n) = loops[Innermost(LoopsOf(n))].meta
  BY <1>4 DEF LoopMeta
<1> QED  BY <1>1, <1>2, <1>3, <1>4, <1>6, <1>7

\* And in a template that iterates: its layer is the last, and bears its index.
LEMMA IncludeIndex ==
    ASSUME ScopeInv, frames # <<>>, NEW b, b = Current.binding, b \notin {NoName} \cup OwnLoops,
           ~CallersBind(b)
    PROVE  LoopMeta(b) = Current.at - 1
<1>1. /\ Active \in DOMAIN frames /\ IsFile(Active) /\ Active \in Nat \ {0}
      /\ Current = frames[Active] /\ Current \in Frames /\ Current.kind = "file"
  BY ActiveFacts, Places DEF ScopeInv
<1>2. b \in Names
  BY <1>1, FrameFacts DEF TemplateAssumption
<1>3. \A k \in Fors : frames[k].binding # b
  <2> SUFFICES ASSUME NEW k \in Fors, frames[k].binding = b PROVE FALSE
    OBVIOUS
  <2>1. k \in DOMAIN frames /\ frames[k].kind = "for"
    BY DEF Fors
  <2>2. k # Active
    BY <1>1, <2>1
  <2>3. k \notin Own
    BY <2>1 DEF OwnLoops
  <2>4. k \in 1..Active - 1
    BY <2>1, <2>2, <2>3, Places
  <2>5. b \in Bound(frames[k])
    BY <1>2, <2>1 DEF Bound
  <2> QED  BY <2>4, <2>5 DEF CallersBind
<1>4. LoopsOf(b) = {}
  <2>1. LoopHolders(b) = {}
    BY <1>3 DEF LoopHolders
  <2> QED  BY <2>1, LoopLookup
<1>5. Active \in Layering
  <2>1. Active # 1
    BY <1>1 DEF ScopeInv, Rooted
  <2>2. Active > 1
    BY <1>1, <2>1
  <2> QED  BY <1>1, <2>2 DEF Layering, Includes
<1>6. nLayers \in Nat \ {0} /\ Rank(Layering, Active) = nLayers
  <2>1. PICK a \in Nat : a = Active
    BY <1>1
  <2>2. \A k \in Layering : k \in 1..a
    <3> SUFFICES ASSUME NEW k \in Layering PROVE k \in 1..a
      OBVIOUS
    <3>1. k \in DOMAIN frames /\ IsFile(k)
      BY DEF Layering, Includes
    <3>2. k <= a /\ k \in Nat /\ k # 0
      <4>1. PICK n \in Nat : DOMAIN frames = 1..n
        BY DEF ScopeInv, Types
      <4>2. k # 0
        BY <3>1, <4>1
      <4> QED  BY <2>1, <3>1, <4>2, Places
    <3> QED  BY <3>2
  <2>3. Layering \in SUBSET (1..a)
    BY <2>2
  <2>4. Rank(Layering, a) = Cardinality(Layering)
    BY <1>5, <2>1, <2>3, TopPlace
  <2>5. nLayers = Cardinality(Layering) /\ Rank(Layering, a) \in 1..nLayers
    BY <1>5, <2>1, StackFacts DEF ScopeInv
  <2>6. nLayers \in Nat
    BY DEF ScopeInv, Types
  <2> QED  BY <2>1, <2>4, <2>5, <2>6
<1>7. metas[nLayers] = Single(b, Current.at - 1)
  BY <1>1, <1>3, <1>5, <1>6 DEF ScopeInv, IncludeIndexes
<1>8. PICK T : T = {i \in 1..nLayers : b \in DOMAIN metas[i]}
  OBVIOUS
<1>9. DOMAIN metas[nLayers] = {b} /\ metas[nLayers][b] = Current.at - 1
  <2>1. \A x : DOMAIN Single(b, x) = {b} /\ Single(b, x)[b] = x
    BY <1>2, SingleFacts
  <2>2. PICK x : x = Current.at - 1
    OBVIOUS
  <2>3. metas[nLayers] = Single(b, x)
    BY <1>7, <2>2
  <2>4. DOMAIN metas[nLayers] = {b} /\ metas[nLayers][b] = x
    BY <2>1, <2>3
  <2> QED  BY <2>2, <2>4
<1>10. Innermost(T) = nLayers
  <2>1. nLayers \in T
    BY <1>6, <1>8, <1>9
  <2>2. T \in SUBSET Nat /\ \A i \in T : i <= nLayers
    BY <1>6, <1>8
  <2> QED  BY <2>1, <2>2, InnermostIs
<1>11. LoopMeta(b) = metas[Innermost(T)][b]
  BY <1>4, <1>8 DEF LoopMeta
<1> QED  BY <1>9, <1>10, <1>11

LEMMA OwnIndexes == ScopeInv => IdxIsOwn
<1> SUFFICES ASSUME ScopeInv, frames # <<>> PROVE IdxIsOwn
  BY DEF IdxIsOwn, Rendering
<1>1. ASSUME NEW n \in OwnLoops \ IncludeNames
      PROVE  LoopMeta(n) = frames[Innermost({k \in Own : n \in Bound(frames[k])})].at - 1
  BY LoopIndex
<1>2. ASSUME Current.binding \notin {NoName} \cup OwnLoops
      PROVE  LoopMeta(Current.binding) = Current.at - 1 \/ CallersBind(Current.binding)
  BY <1>2, IncludeIndex
<1> QED  BY <1>1, <1>2 DEF IdxIsOwn

\* Scope::resolve, for a name that the current template can see: the binding that its
\* text means is found first, or one of a caller's.
LEMMA ResolvesAsMeant == ScopeInv => OnlyCallersShadow
<1> SUFFICES ASSUME ScopeInv, frames # <<>>, NEW n \in Visible, ~CallersBind(n)
             PROVE  \/ Resolve(n) = Meaning(n)
                    \/ n \notin OwnLoops /\ (DefaultWins(n) \/ Captured(n))
  BY DEF OnlyCallersShadow, Rendering
<1>1. /\ Active \in DOMAIN frames /\ IsFile(Active) /\ Active \in Nat \ {0}
      /\ Current = frames[Active] /\ Current \in Frames /\ Current.kind = "file"
  BY ActiveFacts, Places DEF ScopeInv
<1>2. PICK t, K, L, M, B : /\ t = Current.tmpl /\ K = ConstHolders(n) /\ L = LoopHolders(n)
                           /\ M = LayerHolders(n) /\ B = {k \in Own : n \in Bound(frames[k])}
  OBVIOUS
<1>3. /\ K # {} => Resolve(n) = Consts[frames[Innermost(K)].tmpl][n]
      /\ K = {} /\ L # {} => Resolve(n) = frames[Innermost(L)].items[frames[Innermost(L)].at]
      /\ K = {} /\ L = {} /\ M # {} => Resolve(n) = LayerOf(frames[Innermost(M)])[n]
      /\ K = {} /\ L = {} /\ M = {} => Resolve(n) = IF n \in DOMAIN ctx THEN ctx[n] ELSE NoName
  BY <1>2, Resolves
<1>4. t \in Templates /\ Owner[t] \in Templates
  BY <1>1, <1>2, FrameFacts DEF TemplateAssumption
<1>5. K # {} => Innermost(K) = Active /\ Active \in K
  <2> SUFFICES ASSUME K # {} PROVE Innermost(K) = Active /\ Active \in K
    OBVIOUS
  <2>1. PICK k \in K : k = Innermost(K)
    BY <1>2, ConstLookup DEF LastOf
  <2>2. k \in DOMAIN frames /\ IsFile(k) /\ n \in DOMAIN Consts[frames[k].tmpl]
    BY <1>2, <2>1 DEF ConstHolders, Constant
  <2>3. k \notin 1..Active - 1
    BY <2>2 DEF CallersBind
  <2>4. k \notin Own
    BY <2>2, Places
  <2> QED  BY <2>1, <2>2, <2>3, <2>4, Places
<1>6. K # {} => n \in DOMAIN Consts[t]
  <2> SUFFICES ASSUME K # {} PROVE n \in DOMAIN Consts[t]
    OBVIOUS
  <2>1. Active \in K
    BY <1>5
  <2> QED  BY <1>1, <1>2, <2>1 DEF ConstHolders
<1>7. /\ DOMAIN FileConsts(t) = DOMAIN Consts[t] \cup DOMAIN Consts[Owner[t]]
      /\ n \in DOMAIN Consts[t] => FileConsts(t)[n] = Consts[t][n]
  <2>1. PICK a, b : a = Consts[t] /\ b = Consts[Owner[t]] /\ a \in Environments /\ b \in Environments
    BY <1>4 DEF TemplateAssumption
  <2>2. Overlay(Over(a, b), a, b)
    BY <2>1, OverFacts
  <2>3. FileConsts(t) = Over(a, b)
    BY <2>1 DEF FileConsts
  <2> QED  BY <2>1, <2>2, <2>3 DEF Overlay
<1>8. CASE n \in DOMAIN FileConsts(t)
  <2>1. K # {}
    BY <1>2, <1>8, FileConstHeld
  <2>2. Resolve(n) = Consts[t][n]
    BY <1>1, <1>2, <1>3, <1>5, <2>1
  <2>3. Meaning(n) = FileConsts(t)[n]
    BY <1>2, <1>8 DEF Meaning
  <2> QED  BY <1>6, <1>7, <2>1, <2>2, <2>3
<1>9. ASSUME n \notin DOMAIN FileConsts(t) PROVE K = {}
  BY <1>6, <1>7, <1>9
<1>10. CASE n \notin DOMAIN FileConsts(t) /\ n \in OwnLoops
  <2>1. B # {} /\ L # {} /\ Innermost(B) = Innermost(L)
    BY <1>2, <1>10, OwnLoop
  <2>2. Meaning(n) = frames[Innermost(B)].items[frames[Innermost(B)].at]
    BY <1>2, <1>10, <2>1 DEF Meaning
  <2> QED  BY <1>3, <1>9, <1>10, <2>1, <2>2
<1>11. CASE n \notin DOMAIN FileConsts(t) /\ n \notin OwnLoops
  <2>1. n \in Params[t] /\ n \in Names
    <3>1. n \in Params[t]
      BY <1>2, <1>11 DEF Visible
    <3> QED  BY <1>4, <3>1 DEF TemplateAssumption
  <2>2. B = {}
    <3> SUFFICES ASSUME NEW k \in Own, n \in Bound(frames[k]) PROVE FALSE
      BY <1>2
    <3>1. frames[k].kind = "for" /\ frames[k].binding = n
      BY DEF Bound
    <3> QED  BY <1>11, <3>1 DEF OwnLoops
  <2>3. L = {}
    <3> SUFFICES ASSUME NEW k \in DOMAIN frames, frames[k].kind = "for", frames[k].binding = n
                 PROVE  FALSE
      BY <1>2 DEF LoopHolders, Fors
    <3>1. n \in Bound(frames[k])
      BY <2>1 DEF Bound
    <3>2. k \notin Own
      BY <1>2, <2>2, <3>1
    <3>3. k \notin 1..Active - 1
      BY <3>1 DEF CallersBind
    <3>4. k # Active
      BY <1>1
    <3> QED  BY <3>2, <3>3, <3>4, Places
  <2>4. PICK w, d : w = Current.with /\ d = Defaults[t]
    OBVIOUS
  <2>5. /\ Resolve(n) = IF n \in DOMAIN w THEN w[n]
                        ELSE IF n \in DOMAIN d THEN d[n] ELSE Current.items[Current.at]
        /\ n \notin DOMAIN w /\ n \notin DOMAIN d => n = Current.binding
    <3>1. n \in DOMAIN w \/ n \in DOMAIN d \/ n = Current.binding
      <4>1. Accepts(t, DOMAIN w, Current.binding)
        BY <1>1, <1>2, <2>4, FrameFacts
      <4> QED  BY <2>1, <2>4, <4>1 DEF Accepts
    <3>2. CASE Active > 1
      <4>1. Active \in M
        BY <1>2, <2>1, <3>2, ParamHeld
      <4>2. Innermost(M) = Active
        <5>1. M \in SUBSET Nat /\ \A j \in M : j <= Active
          <6>1. \A j \in M : j \in DOMAIN frames /\ IsFile(j)
            BY <1>2 DEF LayerHolders, Layering, Includes
          <6> QED  BY <6>1, Places
        <5> QED  BY <4>1, <5>1, InnermostIs
      <4>3. Resolve(n) = LayerOf(Current)[n]
        BY <1>1, <1>3, <1>9, <1>11, <2>3, <4>1, <4>2
      <4>4. /\ n \in DOMAIN w => LayerOf(Current)[n] = w[n]
            /\ n \in DOMAIN d /\ n \notin DOMAIN w => LayerOf(Current)[n] = d[n]
            /\ n = Current.binding /\ n \notin DOMAIN w \cup DOMAIN d
                  => LayerOf(Current)[n] = Current.items[Current.at]
        <5>1. NoName # n
          BY <2>1 DEF TemplateAssumption
        <5> QED  BY <1>1, <1>2, <2>4, <5>1, LayerFacts
      <4> QED  BY <3>1, <4>3, <4>4
    <3>3. CASE Active = 1
      <4>1. n \in DOMAIN ctx /\ ctx[n] = IF n \in DOMAIN w THEN w[n] ELSE d[n]
        BY <1>2, <2>1, <2>4, <3>3, ParamHeld
      <4>2. M = {}
        <5> SUFFICES ASSUME NEW j \in M PROVE FALSE
          OBVIOUS
        <5>1. j \in DOMAIN frames /\ IsFile(j) /\ j > 1
          BY <1>2 DEF LayerHolders, Layering, Includes
        <5>2. j <= 1 /\ j \in Nat
          BY <3>3, <5>1, Places
        <5> QED  BY <5>1, <5>2
      <4>3. Current.binding = NoName
        BY <1>1, <3>3 DEF ScopeInv, Rooted
      <4>4. n # Current.binding
        BY <2>1, <4>3 DEF TemplateAssumption
      <4> QED  BY <1>3, <1>9, <1>11, <2>3, <3>1, <4>1, <4>2, <4>4
    <3> QED  BY <1>1, <3>2, <3>3
  <2>6. /\ DOMAIN Current.given = DOMAIN w
        /\ n \in DOMAIN w => w[n] = Current.given[n] \/ \E c \in DOMAIN Consts[t] : w[n] = Consts[t][c]
    <3>1. PICK f \in Frames : f = Current /\ f.kind = "file"
      BY <1>1
    <3>2. /\ DOMAIN f.given = DOMAIN f.with
          /\ \A m \in DOMAIN f.with :
                \/ f.with[m] = f.given[m]
                \/ \E c \in DOMAIN Consts[f.tmpl] : f.with[m] = Consts[f.tmpl][c]
      BY <3>1, FrameFacts
    <3>3. f.with = w /\ f.tmpl = t /\ f.given = Current.given
      BY <1>2, <2>4, <3>1
    <3> QED  BY <3>2, <3>3
  <2>7. Meaning(n) = IF n \in DOMAIN w THEN Current.given[n]
                     ELSE IF n = Current.binding THEN Current.items[Current.at] ELSE d[n]
    BY <1>2, <1>11, <2>2, <2>4, <2>6 DEF Meaning
  <2>8. CASE n \in DOMAIN w
    <3>1. w[n] = Current.given[n] \/ Captured(n)
      BY <1>2, <2>4, <2>6, <2>8 DEF Captured
    <3> QED  BY <1>11, <2>5, <2>7, <2>8, <3>1
  <2>9. CASE n \notin DOMAIN w
    <3>1. n = Current.binding /\ n \in DOMAIN d => DefaultWins(n)
      BY <1>2, <2>4 DEF DefaultWins
    <3> QED  BY <1>11, <2>5, <2>7, <2>9, <3>1
  <2> QED  BY <2>8, <2>9
<1> QED  BY <1>8, <1>10, <1>11

\* The scope holds what the calls have pushed.
LEMMA HoldsCalls == ScopeInv => ScopeMatchesCalls
<1> SUFFICES ASSUME ScopeInv PROVE ScopeMatchesCalls
  OBVIOUS
<1>1. TypeOK
  <2>1. frames \in Seq(FileFrames \cup ForFrames \cup NarrowFrames)
    <3>1. frames \in Seq(Frames) /\ Frames \subseteq FileFrames \cup ForFrames \cup NarrowFrames
      BY DEF ScopeInv, Types, Frames
    <3> HIDE DEF Frames
    <3> QED  BY <3>1
  <2>2. \A i \in DOMAIN metas : \E D \in SUBSET Names : metas[i] \in [D -> Nat]
    <3> SUFFICES ASSUME NEW i \in DOMAIN metas PROVE \E D \in SUBSET Names : metas[i] \in [D -> Nat]
      OBVIOUS
    <3>1. metas[i] \in Indexes
      BY DEF ScopeInv, Types
    <3> QED  BY <3>1 DEF Indexes
  <2> QED  BY <2>1, <2>2 DEF ScopeInv, Types, TypeOK
<1>2. nLayers = Cardinality(Layering)
  BY StackFacts DEF ScopeInv
<1>3. Stacked([i \in 1..nLoops |-> loops[i].name], [k \in Fors |-> frames[k].binding])
  <2>1. PICK s, v : /\ s = [i \in 1..nLoops |-> loops[i].name]
                    /\ v = [k \in Fors |-> frames[k].binding]
    OBVIOUS
  <2>2. /\ DOMAIN s = 1..nLoops /\ \A i \in 1..nLoops : s[i] = loops[i].name
        /\ DOMAIN v = Fors /\ \A k \in Fors : v[k] = frames[k].binding
    BY <2>1
  <2>3. /\ nLoops = Cardinality(Fors)
        /\ \A k \in Fors : Rank(Fors, k) \in 1..nLoops /\ loops[Rank(Fors, k)].name = frames[k].binding
    BY StackFacts DEF ScopeInv
  <2>4. Stacked(s, v)
    BY <2>2, <2>3 DEF Stacked
  <2> QED  BY <2>1, <2>4
<1>4. /\ Narrows(frames) = [k \in Narrowing |-> frames[k].name]
      /\ ConstFiles(frames) = [k \in Constant |-> frames[k].tmpl]
      /\ InlineFiles(frames) = [k \in Inlining |-> frames[k].tmpl]
      /\ DeclFiles(frames) = [k \in Declaring |-> frames[k].tmpl]
  BY DEF Narrows, Narrowing, ConstFiles, Constant, InlineFiles, Inlining, DeclFiles, Declaring, IsFile
<1>5. Includes = IncludeCalls(frames)
  BY DEF Includes, IncludeCalls, IsFile
<1>6. /\ Stacked(narrowed, Narrows(frames)) /\ Stacked(consts, ConstFiles(frames))
      /\ Stacked(inlines, InlineFiles(frames)) /\ Stacked(decls, DeclFiles(frames))
      /\ depth = Cardinality(IncludeCalls(frames))
  BY DEF ScopeInv, Stacks
<1> QED  BY <1>1, <1>2, <1>3, <1>4, <1>5, <1>6 DEF ScopeMatchesCalls

\* What a template opens it closes: push_layer and pop_layer, push_loop_binding and
\* pop_loop_binding, push_consts, push_declarations, push_inline_templates and
\* narrow_option with theirs, however a render nests for statements, conditions and
\* includes, and wherever it is.
THEOREM PushesAndPopsMatch == Spec => []ScopeMatchesCalls
BY ScopeInvHolds, HoldsCalls, PTL

\* Includes take their variables "with" or by iteration: in a template that another one
\* includes, resolve gives a name that the template declares, binds or has as a constant
\* the value that its text means, unless a calling template has bound the same name by a
\* loop or a constant.
THEOREM NothingElseShadows == Spec => []OnlyCallersShadow
BY ScopeInvHolds, ResolvesAsMeant, PTL

\* The idx() of a loop's variable is the index of that loop.
THEOREM IndexesAreOwn == Spec => []IdxIsOwn
BY ScopeInvHolds, OwnIndexes, PTL

\* get_inline_template looks where the current template's text is, in a render without
\* a cache.
THEOREM InlineTemplatesAreOwn == Spec => []InlineTemplatesAreOwnUncached
BY ScopeInvHolds, OwnInlines, PTL

\* is_option_path takes an option for unwrapped inside has() and case Some, and only
\* there.
THEOREM NarrowingsAreKept == Spec => []OptionsAsNarrowed
BY ScopeInvHolds, NarrowedOptions, PTL
=============================================================================
