------------------------- MODULE ScriptRenderProofs -------------------------
(***************************************************************************)
(* Theorems about ScriptRender for any templates, values and calls, any    *)
(* depth of includes and however loops, guards, matches and includes nest. *)
(***************************************************************************)
EXTENDS ScriptRender, FiniteSetTheorems, SequenceTheorems, WellFoundedInduction, TLAPS

----------------------------------------------------------------------------
(* What holds of every template that is being rendered, not only of the    *)
(* innermost one: leaving an include brings the includer back.             *)

IsList(s) == Len(s) \in Nat /\ s = [i \in 1..Len(s) |-> s[i]]

IsScope(s) ==
    s = [ctx |-> s.ctx, consts |-> s.consts, layers |-> s.layers, narrowed |-> s.narrowed,
         metas |-> s.metas, options |-> s.options, nonOptions |-> s.nonOptions,
         inlines |-> s.inlines, base |-> s.base, depth |-> s.depth]

IsDirect(s) ==
    s = [layers |-> s.layers, consts |-> s.consts, metas |-> s.metas,
         inlines |-> s.inlines, base |-> s.base, depth |-> s.depth]

IsFrame(f) ==
    f = [unit |-> f.unit, via |-> f.via, own |-> f.own, rec |-> f.rec, dir |-> f.dir,
         open |-> f.open]

IsBlock(b) ==
    b = [kind |-> b.kind, name |-> b.name, items |-> b.items, idx |-> b.idx,
         reused |-> b.reused, call |-> b.call]

\* What a scope shows: values, and none of them as a label.
Shows(map) == "Some" \notin DOMAIN map /\ \A n \in DOMAIN map : IsValue(map[n])

IsWhole(s) ==
    /\ IsList(s.layers) /\ \A i \in 1..Len(s.layers) : Shows(s.layers[i])
    /\ Shows(s.ctx) /\ Shows(s.consts)
    /\ \A n \in DOMAIN s.inlines : s.inlines[n] \in DOMAIN Units
    /\ s.base \in DOMAIN Disk

Whole(k) ==
    /\ IsFrame(frames[k]) /\ IsWhole(frames[k].rec)
    /\ frames[k].unit \in DOMAIN Units
    /\ frames[k].via \in {"top", "file", "inline", "value"}
    /\ frames[k].rec.depth = MaxIncludeDepth + 1 - k /\ k <= MaxIncludeDepth + 1

\* No loop around the j-th block is over a binding of its name.
IsFree(open, j) == \A i \in 1..(j - 1) : open[i].kind = "for" => open[i].name # open[j].name

\* A block as one of the constructs opens it.
BlockOK(f, j) ==
    LET b == f.open[j]
    IN  /\ IsBlock(b) /\ b.idx \in Nat
        /\ b.kind \in {"for", "unwrapped", "some", "arm", "plain", "each"}
        /\ b.kind = "for" => b.name \in Loops /\ BindingIsNew(f, b.name)
        /\ b.kind \in {"unwrapped", "some"} => b.name \in OptionPaths(f.unit) \cap DOMAIN f.own
        /\ b.kind = "some" => IsFree(f.open, j)
        /\ b.kind = "each" =>
              /\ j = Len(f.open) /\ b.call \in Calls /\ f.rec.depth > 0
              /\ Target(f.rec, b.call).unit \in DOMAIN Units \ {"missing"}

BlocksOK(f) == \A j \in 1..Len(f.open) : BlockOK(f, j)

\* The layer a block pushed, and what is in it.
Pushes(b) == b.kind \notin {"plain", "each"}
LayerOf(open, j) == Cardinality({i \in 1..j : Pushes(open[i])})

Narrows(b) == b.kind \in {"unwrapped", "some"}

LayerHolds(f, hidden, j) ==
    LET b == f.open[j]
        layer == f.rec.layers[LayerOf(f.open, j)]
    IN  /\ DOMAIN layer = IF b.kind \in {"for", "some"} THEN {b.name} ELSE {}
        /\ b.kind = "for" => layer[b.name] = Str(b.items[b.idx])
        /\ b.kind = "some" /\ b.name \notin hidden => layer[b.name] = f.own[b.name]
        /\ f.rec.narrowed[LayerOf(f.open, j)] = IF Narrows(b) THEN {b.name} ELSE {}

Layering(f, hidden) ==
    /\ Len(f.rec.layers) = LayerOf(f.open, Len(f.open))
    /\ Len(f.rec.narrowed) = Len(f.rec.layers)
    /\ \A j \in 1..Len(f.open) : Pushes(f.open[j]) => LayerHolds(f, hidden, j)

\* What a block does to the frame it is in; hidden are the names of includers.
Shaped(f, hidden) ==
    /\ IsScope(f.rec) /\ IsList(f.rec.layers) /\ IsList(f.rec.narrowed)
    /\ \A i \in 1..Len(f.rec.layers) : Shows(f.rec.layers[i])
    /\ IsList(f.open) /\ BlocksOK(f) /\ Layering(f, hidden)

\* Below the layers: its own values, and constants of includers.
Own(k) ==
    LET f == frames[k]
    IN  /\ DOMAIN f.own = ConstsOf(k) \cup DOMAIN f.rec.ctx
        /\ \A n \in DOMAIN f.rec.ctx \ ConstsOf(k) : f.own[n] = f.rec.ctx[n]
        /\ DOMAIN f.rec.consts \subseteq ConstsOf(k) \cup Leaked(k)
        /\ \A n \in ConstsOf(k) : n \in DOMAIN f.rec.consts /\ f.rec.consts[n] = f.own[n]

Options(k) == frames[k].rec.options = OptionsSeen(k)

\* The last loop over a binding has its index.
LoopsOver(f, n) == {i \in OpenLoops(f) : f.open[i].name = n}
Indexes(f, metas) ==
    \A i \in OpenLoops(f) :
        ~f.open[i].reused /\ (\A j \in LoopsOver(f, f.open[i].name) : j <= i)
            => f.open[i].name \in DOMAIN metas /\ metas[f.open[i].name] = f.open[i].idx - 1

Includes(k) ==
    /\ frames[k].rec.base = OwnDir(k) /\ frames[k].rec.inlines = OwnInlines(k)
    /\ k = 1 => frames[k].via = "top"

\* The direct scope, as long as the renderers are together.
InStep(f) ==
    /\ IsDirect(f.dir) /\ f.dir.base = f.rec.base /\ Indexes(f, f.dir.metas)
    /\ \A j \in 1..Len(f.open) :
          f.open[j].kind = "each" => Target(f.rec, f.open[j].call).via # "value"

FrameInv(k) ==
    /\ Whole(k) /\ Shaped(frames[k], Leaked(k)) /\ Own(k) /\ Options(k) /\ Includes(k)
    /\ Indexes(frames[k], frames[k].rec.metas)
    /\ parted = Together => InStep(frames[k])

ScriptInv == IsList(frames) /\ \A k \in 1..Depth : FrameInv(k)

----------------------------------------------------------------------------
(* Lists, and the largest of a set of numbers.                             *)

\* One more element.
LEMMA Appending ==
    ASSUME NEW s, IsList(s), NEW e
    PROVE  /\ IsList(Append(s, e)) /\ Len(Append(s, e)) = Len(s) + 1
           /\ \A i \in 1..Len(s) : Append(s, e)[i] = s[i]
           /\ Append(s, e)[Len(s) + 1] = e
<1> DEFINE S == {s[i] : i \in 1..Len(s)} \cup {e}
<1>1. s \in Seq(S) /\ Len(s) \in Nat
  <2>1. s \in [1..Len(s) -> S]
    BY DEF IsList
  <2> QED  BY <2>1 DEF IsList
<1>2. e \in S
  OBVIOUS
<1> HIDE DEF S
<1>3. /\ Append(s, e) \in Seq(S) /\ Len(Append(s, e)) = Len(s) + 1
      /\ \A i \in 1..Len(s) : Append(s, e)[i] = s[i]
      /\ Append(s, e)[Len(s) + 1] = e
  <2>1. ASSUME NEW T, NEW q \in Seq(T), NEW elt \in T
        PROVE  /\ Append(q, elt) \in Seq(T) /\ Len(Append(q, elt)) = Len(q) + 1
               /\ \A i \in 1..Len(q) : Append(q, elt)[i] = q[i]
               /\ Append(q, elt)[Len(q) + 1] = elt
    BY AppendProperties
  <2> QED  BY <1>1, <1>2, <2>1
<1>4. \A t \in Seq(S) : Len(t) \in Nat /\ t = [i \in 1..Len(t) |-> t[i]]
  <2>1. \A t \in Seq(S) : Len(t) \in Nat /\ t \in [1..Len(t) -> S]
    BY LenProperties
  <2> QED  BY <2>1
<1> QED  BY <1>3, <1>4 DEF IsList

\* One element less.
LEMMA Fronting ==
    ASSUME NEW s, IsList(s), Len(s) # 0
    PROVE  /\ IsList(Front(s)) /\ Len(Front(s)) = Len(s) - 1
           /\ \A i \in 1..(Len(s) - 1) : Front(s)[i] = s[i]
           /\ Last(s) = s[Len(s)] /\ Len(s) \in 1..Len(s)
<1> DEFINE S == {s[i] : i \in 1..Len(s)}
<1>1. s \in Seq(S)
  <2>1. s \in [1..Len(s) -> S]
    BY DEF IsList
  <2> QED  BY <2>1 DEF IsList
<1>2. Len(s) \in Nat /\ Len(s) - 1 \in Nat
  BY DEF IsList
<1> HIDE DEF S
<1>3. Front(s) = [i \in 1..(Len(s) - 1) |-> s[i]]
  BY <1>1, <1>2 DEF Front
<1>4. Len(Front(s)) = Len(s) - 1
  BY <1>2, <1>3
<1> QED  BY <1>2, <1>3, <1>4 DEF IsList, Last

\* The empty list.
LEMMA EmptyIsList == IsList(<<>>) /\ Len(<<>>) = 0
BY DEF IsList

\* An element replaced.
LEMMA Replacing ==
    ASSUME NEW s, IsList(s), NEW i \in 1..Len(s), NEW e
    PROVE  /\ IsList([s EXCEPT ![i] = e]) /\ Len([s EXCEPT ![i] = e]) = Len(s)
           /\ [s EXCEPT ![i] = e][i] = e
           /\ \A j \in 1..Len(s) : j # i => [s EXCEPT ![i] = e][j] = s[j]
<1>1. DOMAIN s = 1..Len(s) /\ Len(s) \in Nat
  BY DEF IsList
<1>2. [s EXCEPT ![i] = e] = [j \in 1..Len(s) |-> IF j = i THEN e ELSE s[j]]
  BY <1>1
<1>3. Len([s EXCEPT ![i] = e]) = Len(s)
  BY <1>1, <1>2
<1> QED  BY <1>1, <1>2, <1>3 DEF IsList

\* A list given by a function of the places.
LEMMA Listing ==
    ASSUME NEW n \in Nat, NEW s, DOMAIN s = 1..n, s = [i \in 1..n |-> s[i]]
    PROVE  IsList(s) /\ Len(s) = n
BY DEF IsList

\* The largest is the only one no other exceeds.
LEMMA MaxIs ==
    ASSUME NEW S \in SUBSET Nat, NEW i \in S, \A j \in S : j <= i
    PROVE  Max(S) = i
<1> DEFINE m == CHOOSE k \in S : \A j \in S : k >= j
<1>1. m \in S /\ \A j \in S : m >= j
  OBVIOUS
<1> HIDE DEF m
<1>2. m <= i /\ i <= m /\ m \in Nat /\ i \in Nat
  BY <1>1
<1>3. m = i
  BY <1>2
<1> QED  BY <1>3 DEF Max, m

\* There is a smallest in any set of numbers that is not empty.
LEMMA Smallest ==
    ASSUME NEW S \in SUBSET Nat, S # {}
    PROVE  \E i \in S : \A j \in S : i <= j
<1>1. PICK i \in S : \A j \in S : ~ (<<j, i>> \in OpToRel(<, Nat))
  BY NatLessThanWellFounded, WFMin
<1>2. ASSUME NEW j \in S PROVE i <= j
  <2>1. j \in Nat /\ i \in Nat /\ ~ (j < i)
    BY <1>1 DEF OpToRel
  <2> QED  BY <2>1
<1> QED  BY <1>2

LEMMA MinIs ==
    ASSUME NEW S \in SUBSET Nat, S # {}
    PROVE  Min(S) \in S
<1>1. \E i \in S : \A j \in S : i <= j
  BY Smallest
<1> QED  BY <1>1 DEF Min

\* There is a largest in a set of numbers up to n.
LEMMA MaxIn ==
    ASSUME NEW n \in Nat, NEW S \in SUBSET (1..n), S # {}
    PROVE  Max(S) \in S /\ \A j \in S : j <= Max(S)
<1> DEFINE T == {m \in 0..n : n - m \in S}
<1>1. T \subseteq Nat
  OBVIOUS
<1>2. T # {}
  <2>1. PICK i \in 1..n : i \in S
    OBVIOUS
  <2>2. n - i \in 0..n /\ n - (n - i) = i
    OBVIOUS
  <2>3. n - i \in T
    BY <2>1, <2>2
  <2> QED  BY <2>3
<1>3. PICK m \in T : \A k \in T : m <= k
  <2> HIDE DEF T
  <2> QED  BY <1>1, <1>2, Smallest
<1>4. n - m \in S /\ \A j \in S : j <= n - m
  <2> SUFFICES ASSUME NEW j \in S PROVE j <= n - m
    OBVIOUS
  <2>1. n - j \in T
    <3>1. n - (n - j) = j /\ n - j \in 0..n
      OBVIOUS
    <3> QED  BY <3>1
  <2>2. m <= n - j /\ m \in Nat /\ j \in Nat
    BY <1>3, <2>1
  <2> QED  BY <2>2
<1>5. Max(S) = n - m
  BY <1>4, MaxIs
<1> QED  BY <1>4, <1>5

----------------------------------------------------------------------------
(* The layers of the blocks, one after the other.                          *)

\* What earlier blocks push is what counts.
LEMMA LayerOfSame ==
    ASSUME NEW o, NEW p, NEW j \in Nat, \A i \in 1..j : Pushes(o[i]) <=> Pushes(p[i])
    PROVE  LayerOf(o, j) = LayerOf(p, j)
<1>1. {i \in 1..j : Pushes(o[i])} = {i \in 1..j : Pushes(p[i])}
  OBVIOUS
<1> QED  BY <1>1 DEF LayerOf

LEMMA LayerOfIsNat ==
    ASSUME NEW o, NEW j \in Nat
    PROVE  IsFiniteSet({i \in 1..j : Pushes(o[i])}) /\ LayerOf(o, j) \in Nat
<1>1. IsFiniteSet(1..j)
  BY FS_Interval
<1> QED  BY <1>1, FS_Subset, FS_CardinalityType DEF LayerOf

LEMMA NoLayers ==
    ASSUME NEW o
    PROVE  LayerOf(o, 0) = 0
<1>1. {i \in 1..0 : Pushes(o[i])} = {}
  OBVIOUS
<1> QED  BY <1>1, FS_EmptySet DEF LayerOf

\* One more block.
LEMMA LayerNext ==
    ASSUME NEW o, NEW j \in Nat
    PROVE  LayerOf(o, j + 1) = LayerOf(o, j) + (IF Pushes(o[j + 1]) THEN 1 ELSE 0)
<1> DEFINE S == {i \in 1..j : Pushes(o[i])}
           T == {i \in 1..(j + 1) : Pushes(o[i])}
<1>1. IsFiniteSet(S) /\ LayerOf(o, j) \in Nat
  BY LayerOfIsNat
<1>2. 1..(j + 1) = 1..j \cup {j + 1} /\ j + 1 \notin 1..j
  OBVIOUS
<1>3. CASE Pushes(o[j + 1])
  <2>1. T = S \cup {j + 1} /\ j + 1 \notin S
    BY <1>2, <1>3
  <2>2. Cardinality(T) = Cardinality(S) + 1
    <3> HIDE DEF S, T
    <3> QED  BY <1>1, <2>1, FS_AddElement
  <2> QED  BY <1>3, <2>2 DEF LayerOf
<1>4. CASE ~Pushes(o[j + 1])
  <2>1. T = S
    BY <1>2, <1>4
  <2> QED  BY <1>1, <1>4, <2>1 DEF LayerOf
<1> QED  BY <1>3, <1>4

\* Later blocks have later layers.
LEMMA LayersInOrder ==
    ASSUME NEW o, NEW i \in Nat, NEW j \in Nat, i < j
    PROVE  /\ LayerOf(o, i) <= LayerOf(o, j)
           /\ Pushes(o[j]) => LayerOf(o, i) < LayerOf(o, j)
<1> DEFINE S == {k \in 1..i : Pushes(o[k])}
           T == {k \in 1..j : Pushes(o[k])}
<1>1. IsFiniteSet(S) /\ IsFiniteSet(T) /\ LayerOf(o, i) \in Nat /\ LayerOf(o, j) \in Nat
  BY LayerOfIsNat
<1>2. S \in SUBSET T
  OBVIOUS
<1>3. Cardinality(S) <= Cardinality(T)
  <2> HIDE DEF S, T
  <2> QED  BY <1>1, <1>2, FS_Subset
<1>4. Pushes(o[j]) => j \in T /\ j \notin S
  OBVIOUS
<1>5. Pushes(o[j]) => Cardinality(S) # Cardinality(T)
  <2> HIDE DEF S, T
  <2> QED  BY <1>1, <1>2, <1>4, FS_Subset
<1> QED  BY <1>1, <1>3, <1>5 DEF LayerOf

\* Every layer is some block's.
LEMMA LayersAreBlocks ==
    ASSUME NEW o, NEW n \in Nat, NEW r \in 1..LayerOf(o, n)
    PROVE  \E j \in 1..n : Pushes(o[j]) /\ LayerOf(o, j) = r
<1> DEFINE S == {j \in 0..n : r <= LayerOf(o, j)}
<1>0. LayerOf(o, n) \in Nat /\ r \in Nat
  <2>1. LayerOf(o, n) \in Nat
    BY LayerOfIsNat
  <2> QED  BY <2>1
<1>1. n \in S
  BY <1>0
<1>2. PICK j \in S : \A i \in S : j <= i
  <2>1. S \in SUBSET Nat /\ S # {}
    BY <1>1
  <2> HIDE DEF S
  <2> QED  BY <2>1, Smallest
<1>3. j # 0
  BY <1>0, NoLayers
<1>4. j - 1 \in 0..n /\ j - 1 \in Nat /\ j \in 1..n /\ (j - 1) + 1 = j
  BY <1>3
<1>5. LayerOf(o, j - 1) \in Nat /\ LayerOf(o, j - 1) < r
  <2>1. j - 1 \notin S
    <3>1. j \in Nat /\ ~ (j <= j - 1)
      BY <1>4
    <3> HIDE DEF S
    <3> QED  BY <1>2, <3>1
  <2>2. LayerOf(o, j - 1) \in Nat
    BY <1>4, LayerOfIsNat
  <2> QED  BY <1>0, <1>4, <2>1, <2>2
<1>6. LayerOf(o, j) = LayerOf(o, j - 1) + (IF Pushes(o[j]) THEN 1 ELSE 0)
  BY <1>4, LayerNext
<1>7. r <= LayerOf(o, j)
  OBVIOUS
<1>8. Pushes(o[j]) /\ LayerOf(o, j) = r
  <2> HIDE DEF S
  <2> QED  BY <1>0, <1>5, <1>6, <1>7
<1> QED  BY <1>4, <1>8

\* A block's layer is one of those there are.
LEMMA LayersInRange ==
    ASSUME NEW o, NEW n \in Nat, NEW j \in 1..n, Pushes(o[j])
    PROVE  LayerOf(o, j) \in 1..LayerOf(o, n)
<1>0. j \in Nat
  OBVIOUS
<1>1. LayerOf(o, 0) = 0
  BY NoLayers
<1>2. LayerOf(o, j) \in Nat
  BY <1>0, LayerOfIsNat
<1>3. LayerOf(o, n) \in Nat
  BY LayerOfIsNat
<1>4. LayerOf(o, 0) < LayerOf(o, j)
  <2>1. 0 < j /\ j \in Nat
    OBVIOUS
  <2> QED  BY <2>1, LayersInOrder
<1>5. CASE j = n
  BY <1>1, <1>2, <1>4, <1>5
<1>6. CASE j # n
  <2>1. j < n /\ j \in Nat
    BY <1>6
  <2>2. LayerOf(o, j) <= LayerOf(o, n)
    BY <2>1, LayersInOrder
  <2> QED  BY <1>1, <1>2, <1>3, <1>4, <2>2
<1> QED  BY <1>5, <1>6

----------------------------------------------------------------------------
(* What a scope resolves a name to.                                        *)

\* A name some layer holds comes from the last that does.
LEMMA InnermostIn ==
    ASSUME NEW layers, IsList(layers), NEW n
    PROVE  \/ /\ \A i \in 1..Len(layers) : n \notin DOMAIN layers[i]
              /\ Innermost(layers, n) = Undefined /\ n \notin LayerNames(layers)
           \/ \E r \in 1..Len(layers) :
                 /\ n \in DOMAIN layers[r] /\ Innermost(layers, n) = layers[r][n]
                 /\ \A i \in 1..Len(layers) : n \in DOMAIN layers[i] => i <= r
<1> DEFINE S == {i \in DOMAIN layers : n \in DOMAIN layers[i]}
<1>1. DOMAIN layers = 1..Len(layers) /\ Len(layers) \in Nat
  BY DEF IsList
<1>2. CASE S = {}
  BY <1>1, <1>2 DEF Innermost, LayerNames
<1>3. CASE S # {}
  <2>1. S \in SUBSET (1..Len(layers))
    BY <1>1
  <2>2. Max(S) \in S /\ \A i \in S : i <= Max(S)
    <3> HIDE DEF S
    <3> QED  BY <1>1, <1>3, <2>1, MaxIn
  <2>3. Innermost(layers, n) = layers[Max(S)][n]
    BY <1>3 DEF Innermost
  <2> QED  BY <1>1, <2>2, <2>3
<1> QED  BY <1>2, <1>3

LEMMA UndefinedIsValue == IsValue(Undefined)
<1>1. <<>> \in Seq(STRING)
  OBVIOUS
<1> QED  BY <1>1 DEF IsValue, Undefined, Val, Empty

LEMMA StringsAreValues ==
    ASSUME NEW v
    PROVE  IsValue(Str(v))
<1>1. <<>> \in Seq(STRING)
  OBVIOUS
<1> QED  BY <1>1 DEF IsValue, Str, Val, Empty

\* Every name resolves to a value, and a label to none.
LEMMA ResolvesToValue ==
    ASSUME NEW s, IsWhole(s), NEW n
    PROVE  IsValue(Resolve(s, n)) /\ (n = "Some" => Resolve(s, n) = Undefined)
<1>1. /\ IsList(s.layers) /\ Shows(s.ctx) /\ Shows(s.consts)
      /\ \A i \in 1..Len(s.layers) : Shows(s.layers[i])
  BY DEF IsWhole
<1>2. /\ IsValue(Innermost(s.layers, n))
      /\ n = "Some" => Innermost(s.layers, n) = Undefined
  <2>1. \/ Innermost(s.layers, n) = Undefined
        \/ \E r \in 1..Len(s.layers) :
              n \in DOMAIN s.layers[r] /\ Innermost(s.layers, n) = s.layers[r][n]
    BY <1>1, InnermostIn
  <2> QED  BY <1>1, <2>1, UndefinedIsValue DEF Shows
<1> QED  BY <1>1, <1>2, UndefinedIsValue DEF Resolve, Shows

\* The flat map holds the same.
LEMMA AllValuesAreValues ==
    ASSUME NEW s, IsWhole(s)
    PROVE  /\ Shows(AllValues(s))
           /\ DOMAIN AllValues(s) = LayerNames(s.layers) \cup DOMAIN s.consts \cup DOMAIN s.ctx
<1>1. /\ IsList(s.layers) /\ Shows(s.ctx) /\ Shows(s.consts)
      /\ \A i \in 1..Len(s.layers) : Shows(s.layers[i])
  BY DEF IsWhole
<1>2. DOMAIN AllValues(s) = LayerNames(s.layers) \cup DOMAIN s.consts \cup DOMAIN s.ctx
  BY DEF AllValues
<1>3. "Some" \notin LayerNames(s.layers)
  BY <1>1 DEF Shows, LayerNames, IsList
<1>4. ASSUME NEW n \in DOMAIN AllValues(s) PROVE IsValue(AllValues(s)[n])
  <2>1. CASE n \in LayerNames(s.layers)
    <3>1. \E r \in 1..Len(s.layers) :
             n \in DOMAIN s.layers[r] /\ Innermost(s.layers, n) = s.layers[r][n]
      BY <1>1, <2>1, InnermostIn
    <3>2. IsValue(Innermost(s.layers, n))
      BY <1>1, <3>1 DEF Shows
    <3> QED  BY <1>2, <1>4, <2>1, <3>2 DEF AllValues
  <2>2. CASE n \notin LayerNames(s.layers)
    <3>1. /\ AllValues(s)[n] = Over(s.consts, s.ctx)[n]
          /\ n \in DOMAIN s.consts \cup DOMAIN s.ctx
      BY <1>2, <1>4, <2>2 DEF AllValues
    <3>2. Over(s.consts, s.ctx)[n] = IF n \in DOMAIN s.consts THEN s.consts[n] ELSE s.ctx[n]
      BY <3>1 DEF Over
    <3> QED  BY <1>1, <3>1, <3>2 DEF Shows
  <2> QED  BY <2>1, <2>2
<1> QED  BY <1>1, <1>2, <1>3, <1>4 DEF Shows

----------------------------------------------------------------------------
(* A template's own names, as its scope resolves them.                     *)

\* The layers that hold a name are those of its loops, or of an option's.
LEMMA HoldersOf ==
    ASSUME NEW k, Whole(k), Shaped(frames[k], Leaked(k)), NEW n,
           NEW r \in 1..Len(frames[k].rec.layers), n \in DOMAIN frames[k].rec.layers[r]
    PROVE  \E j \in 1..Len(frames[k].open) :
              /\ LayerOf(frames[k].open, j) = r /\ LayerHolds(frames[k], Leaked(k), j)
              /\ Pushes(frames[k].open[j])
              /\ frames[k].open[j].kind \in {"for", "some"} /\ frames[k].open[j].name = n
<1>1. /\ Len(frames[k].open) \in Nat
      /\ Len(frames[k].rec.layers) = LayerOf(frames[k].open, Len(frames[k].open))
  BY DEF Shaped, IsList, Layering
<1>2. PICK j \in 1..Len(frames[k].open) :
         Pushes(frames[k].open[j]) /\ LayerOf(frames[k].open, j) = r
  BY <1>1, LayersAreBlocks
<1>3. LayerHolds(frames[k], Leaked(k), j)
  BY <1>2 DEF Shaped, Layering
<1> QED  BY <1>2, <1>3 DEF LayerHolds

\* A name of the template that no includer uses stands for what it means, unless it
\* is bound over a constant.
LEMMA SeesOwn ==
    ASSUME NEW k, Whole(k), Shaped(frames[k], Leaked(k)), Own(k),
           NEW n \in Names(frames[k]) \ (Leaked(k) \cup BoundConsts(k))
    PROVE  Resolve(frames[k].rec, n) = Means(frames[k], n)
<1> DEFINE f == frames[k]
           s == frames[k].rec
           loops == {i \in OpenLoops(f) : f.open[i].name = n}
<1>1. /\ IsList(f.open) /\ IsList(s.layers) /\ f.unit \in DOMAIN Units
      /\ DOMAIN f.open = 1..Len(f.open) /\ Len(f.open) \in Nat
  BY DEF Whole, IsWhole, Shaped, IsList
<1>2. loops = {i \in 1..Len(f.open) : f.open[i].kind = "for" /\ f.open[i].name = n}
  BY <1>1 DEF OpenLoops
<1>3. loops # {} => n \notin ConstsOf(k)
  BY DEF BoundConsts, Bindings
<1>4. CASE n \in DOMAIN s.consts
  <2>1. n \in ConstsOf(k) /\ s.consts[n] = f.own[n]
    BY <1>4 DEF Own
  <2>2. loops = {}
    BY <1>3, <2>1
  <2> QED  BY <1>4, <2>1, <2>2 DEF Resolve, Means
<1>5. CASE n \notin DOMAIN s.consts /\ loops # {}
  <2>1. /\ Max(loops) \in loops /\ \A i \in loops : i <= Max(loops)
    <3>1. loops \in SUBSET (1..Len(f.open))
      BY <1>2
    <3> HIDE DEF loops
    <3> QED  BY <1>1, <1>5, <3>1, MaxIn
  <2> DEFINE m == Max(loops)
  <2>2. m \in 1..Len(f.open) /\ f.open[m].kind = "for" /\ f.open[m].name = n
    BY <1>2, <2>1
  <2>3. Pushes(f.open[m]) /\ LayerHolds(frames[k], Leaked(k), m)
    BY <2>2 DEF Pushes, Shaped, Layering
  <2> DEFINE r == LayerOf(f.open, m)
  <2>4. n \in DOMAIN s.layers[r] /\ s.layers[r][n] = Str(f.open[m].items[f.open[m].idx])
    BY <2>2, <2>3 DEF LayerHolds
  <2>5. r \in 1..Len(s.layers)
    <3>1. LayerOf(f.open, m) \in 1..LayerOf(f.open, Len(f.open))
      <4> HIDE DEF m, f
      <4> QED  BY <1>1, <2>2, <2>3, LayersInRange
    <3> QED  BY <3>1 DEF Shaped, Layering
  <2>6. ASSUME NEW q \in 1..Len(s.layers), n \in DOMAIN s.layers[q] PROVE q <= r
    <3>1. PICK j \in 1..Len(f.open) :
             /\ LayerOf(f.open, j) = q /\ f.open[j].kind \in {"for", "some"}
             /\ f.open[j].name = n
      BY <2>6, HoldersOf
    <3>2. f.open[j].kind = "some" => ~(m < j)
      <4> SUFFICES ASSUME f.open[j].kind = "some", m < j PROVE FALSE
        OBVIOUS
      <4>1. IsFree(f.open, j)
        BY DEF Shaped, BlocksOK, BlockOK
      <4>2. m \in 1..(j - 1)
        <5> HIDE DEF m
        <5> QED  BY <1>1, <2>2
      <4> HIDE DEF m
      <4> QED  BY <2>2, <3>1, <4>1, <4>2 DEF IsFree
    <3>3. j <= m
      <4>1. f.open[j].kind = "for" => j <= m
        BY <1>2, <2>1, <3>1
      <4> HIDE DEF m
      <4> QED  BY <1>1, <2>2, <3>1, <3>2, <4>1
    <3>4. CASE j = m
      <4> HIDE DEF m
      <4> QED  BY <2>5, <3>1, <3>4
    <3>5. CASE j # m
      <4>1. j \in Nat /\ m \in Nat /\ j < m
        <5> HIDE DEF m
        <5> QED  BY <1>1, <2>2, <3>3, <3>5
      <4>2. LayerOf(f.open, j) <= LayerOf(f.open, m)
        <5> HIDE DEF m, f
        <5> QED  BY <4>1, LayersInOrder
      <4> QED  BY <3>1, <4>2
    <3> QED  BY <3>4, <3>5
  <2>7. Innermost(s.layers, n) = s.layers[r][n]
    <3> HIDE DEF r, s
    <3>0. IsList(s.layers)
      BY <1>1
    <3>1. PICK q \in 1..Len(s.layers) :
             /\ n \in DOMAIN s.layers[q] /\ Innermost(s.layers, n) = s.layers[q][n]
             /\ \A i \in 1..Len(s.layers) : n \in DOMAIN s.layers[i] => i <= q
      BY <3>0, <2>4, <2>5, InnermostIn
    <3>2. q <= r /\ r <= q
      BY <2>4, <2>5, <2>6, <3>1
    <3>3. q = r
      BY <2>5, <3>1, <3>2
    <3> QED  BY <3>1, <3>3
  <2>8. Innermost(s.layers, n) # Undefined
    <3>1. \A v : Str(v) # Undefined
      BY DEF Undefined, Str, Val
    <3> HIDE DEF r, s, f, m
    <3> QED  BY <2>4, <2>7, <3>1
  <2>9. Resolve(s, n) = Str(f.open[m].items[f.open[m].idx])
    BY <1>5, <2>4, <2>7, <2>8 DEF Resolve
  <2> QED  BY <1>5, <2>9 DEF Means
<1>6. CASE n \notin DOMAIN s.consts /\ loops = {}
  <2>1. n \in DOMAIN f.own /\ n \notin ConstsOf(k) /\ n \in DOMAIN s.ctx /\ f.own[n] = s.ctx[n]
    <3>1. n \notin Bindings(f)
      BY <1>6 DEF Bindings
    <3>2. n \in DOMAIN f.own /\ n \notin ConstsOf(k)
      BY <1>6, <3>1 DEF Names, Own
    <3> QED  BY <3>2 DEF Own
  <2>2. Innermost(s.layers, n) \in {Undefined, f.own[n]}
    <3>1. CASE Innermost(s.layers, n) = Undefined
      BY <3>1
    <3>2. CASE Innermost(s.layers, n) # Undefined
      <4>1. PICK r \in 1..Len(s.layers) :
               n \in DOMAIN s.layers[r] /\ Innermost(s.layers, n) = s.layers[r][n]
        BY <1>1, <3>2, InnermostIn
      <4>2. PICK j \in 1..Len(f.open) :
               /\ LayerOf(f.open, j) = r /\ LayerHolds(frames[k], Leaked(k), j)
               /\ f.open[j].kind \in {"for", "some"} /\ f.open[j].name = n
        BY <4>1, HoldersOf
      <4>3. f.open[j].kind = "some"
        BY <1>2, <1>6, <4>2
      <4> QED  BY <4>1, <4>2, <4>3 DEF LayerHolds
    <3> QED  BY <3>1, <3>2
  <2>3. Resolve(s, n) = f.own[n]
    BY <1>6, <2>1, <2>2 DEF Resolve
  <2> QED  BY <1>6, <2>3 DEF Means
<1> QED  BY <1>4, <1>5, <1>6

----------------------------------------------------------------------------
(* What a step leaves alone.                                               *)

SameButDir(f, g) ==
    /\ IsFrame(f) /\ f.unit = g.unit /\ f.via = g.via /\ f.own = g.own /\ f.rec = g.rec
    /\ f.open = g.open

LEMMA SameShape ==
    ASSUME NEW f, NEW g, SameButDir(g, f)
    PROVE  /\ \A hidden : Shaped(f, hidden) => Shaped(g, hidden)
           /\ \A metas : Indexes(f, metas) => Indexes(g, metas)
<1>1. \A hidden : Shaped(f, hidden) => Shaped(g, hidden)
  <2> SUFFICES ASSUME NEW hidden, Shaped(f, hidden) PROVE Shaped(g, hidden)
    OBVIOUS
  <2>1. g.unit = f.unit /\ g.own = f.own /\ g.rec = f.rec /\ g.open = f.open
    BY DEF SameButDir
  <2>2. BlocksOK(g)
    <3>1. \A n : BindingIsNew(f, n) => BindingIsNew(g, n)
      BY DEF SameButDir, BindingIsNew
    <3> QED  BY <2>1, <3>1 DEF Shaped, BlocksOK, BlockOK, IsFree
  <2>3. Layering(g, hidden)
    <3>1. \A j \in 1..Len(f.open) : LayerHolds(f, hidden, j) => LayerHolds(g, hidden, j)
      BY <2>1 DEF LayerHolds
    <3>2. Layering(f, hidden)
      BY DEF Shaped
    <3> QED  BY <2>1, <3>1, <3>2 DEF Layering
  <2> QED  BY <2>1, <2>2, <2>3 DEF Shaped
<1>2. \A metas : Indexes(f, metas) => Indexes(g, metas)
  BY DEF SameButDir, Indexes, OpenLoops, LoopsOver
<1> QED  BY <1>1, <1>2

Kept(m) ==
    \A j \in 1..m :
        /\ SameButDir(frames'[j], frames[j])
        /\ parted' = Together => frames'[j].dir = frames[j].dir

\* Once apart, the renderers stay apart.
StillApart == parted' = Together => parted = Together

\* What a template gets from those around it depends on which they are, how
\* they were included and their names.
LEMMA OuterKept ==
    ASSUME NEW k \in Nat,
           \A j \in 1..k : frames'[j].unit = frames[j].unit /\ frames'[j].via = frames[j].via,
           \A j \in 1..(k - 1) : Names(frames'[j]) = Names(frames[j]),
           frames[1].via # "inline"
    PROVE  /\ Leaked(k)' = Leaked(k) /\ OptionsSeen(k)' = OptionsSeen(k)
           /\ OwnDir(k)' = OwnDir(k) /\ (k > 0 => OwnInlines(k)' = OwnInlines(k))
           /\ k > 0 => ConstsOf(k)' = ConstsOf(k)
<1>1. \A j \in 1..k : ConstsOf(j)' = ConstsOf(j)
  BY DEF ConstsOf
<1>2. \A j \in 1..(k - 1) : HandedOn(j)' = HandedOn(j)
  <2> SUFFICES ASSUME NEW j \in 1..(k - 1) PROVE HandedOn(j)' = HandedOn(j)
    OBVIOUS
  <2>1. j \in 1..k /\ j + 1 \in 1..k
    OBVIOUS
  <2>2. ConstsOf(j)' = ConstsOf(j) /\ frames'[j + 1].via = frames[j + 1].via
    BY <1>1, <2>1
  <2>3. Names(frames'[j]) = Names(frames[j])
    OBVIOUS
  <2> QED  BY <2>2, <2>3 DEF HandedOn
<1>3. Leaked(k)' = Leaked(k)
  <2>1. UNION {HandedOn(j)' : j \in 1..(k - 1)} = UNION {HandedOn(j) : j \in 1..(k - 1)}
    BY <1>2
  <2>2. \A j \in 1..(k - 1) : \A m \in (j + 1)..k : ConstsOf(m)' = ConstsOf(m)
    <3> SUFFICES ASSUME NEW j \in 1..(k - 1), NEW m \in (j + 1)..k
                 PROVE  ConstsOf(m)' = ConstsOf(m)
      OBVIOUS
    <3>1. m \in 1..k
      OBVIOUS
    <3> QED  BY <1>1, <3>1
  <2> QED  BY <1>2, <2>1, <2>2 DEF Leaked
<1>4. OptionsSeen(k)' = OptionsSeen(k)
  <2> DEFINE S == {i \in 1..k : \A m \in (i + 1)..k : frames[m].via = "value"}
             T == {i \in 1..k : \A m \in (i + 1)..k : frames'[m].via = "value"}
  <2>1. S = T
    <3>1. \A i \in 1..k : \A m \in (i + 1)..k : frames'[m].via = frames[m].via
      <4> SUFFICES ASSUME NEW i \in 1..k, NEW m \in (i + 1)..k
                   PROVE  frames'[m].via = frames[m].via
        OBVIOUS
      <4>1. m \in 1..k
        OBVIOUS
      <4> QED  BY <4>1
    <3> QED  BY <3>1
  <2>2. \A j \in S : OptionPaths(frames'[j].unit) = OptionPaths(frames[j].unit)
    OBVIOUS
  <2> HIDE DEF S, T
  <2>3. UNION {OptionPaths(frames'[j].unit) : j \in T} = UNION {OptionPaths(frames[j].unit) : j \in S}
    BY <2>1, <2>2
  <2> QED  BY <2>3 DEF OptionsSeen, S, T
<1>5. OwnDir(k)' = OwnDir(k)
  <2>1. FilesUpTo(k)' = FilesUpTo(k)
    BY DEF FilesUpTo
  <2>2. CASE FilesUpTo(k) = {}
    BY <2>1, <2>2 DEF OwnDir
  <2>3. CASE FilesUpTo(k) # {}
    <3>1. FilesUpTo(k) \in SUBSET (1..k)
      BY DEF FilesUpTo
    <3>2. Max(FilesUpTo(k)) \in 1..k
      BY <2>3, <3>1, MaxIn
    <3>3. frames'[Max(FilesUpTo(k))].unit = frames[Max(FilesUpTo(k))].unit
      BY <3>2
    <3> QED  BY <2>1, <2>3, <3>3 DEF OwnDir
  <2> QED  BY <2>2, <2>3
<1>6. ASSUME k > 0 PROVE OwnInlines(k)' = OwnInlines(k)
  <2> DEFINE S == {j \in 1..k : frames[j].via # "inline"}
             T == {j \in 1..k : frames'[j].via # "inline"}
  <2>1. S = T /\ S \in SUBSET (1..k)
    OBVIOUS
  <2>2. 1 \in S
    BY <1>6
  <2>3. Max(S) \in 1..k
    <3> HIDE DEF S, T
    <3> QED  BY <2>1, <2>2, MaxIn
  <2>4. frames'[Max(S)].unit = frames[Max(S)].unit
    BY <2>3
  <2> HIDE DEF S, T
  <2>5. Inlines(frames'[Max(T)].unit) = Inlines(frames[Max(S)].unit)
    BY <2>1, <2>4
  <2> QED  BY <2>5 DEF OwnInlines, S, T
<1> QED  BY <1>1, <1>3, <1>4, <1>5, <1>6

\* A template whose frame stays, over frames that stay, is as it was.
LEMMA KeptFrames ==
    ASSUME ScriptInv, NEW m \in Nat, m <= Len(frames), Kept(m), StillApart
    PROVE  \A k \in 1..m : FrameInv(k)'
<1> SUFFICES ASSUME NEW k \in 1..m PROVE FrameInv(k)'
  OBVIOUS
<1>0. k \in Nat /\ k > 0 /\ k \in 1..Depth /\ FrameInv(k) /\ 1 \in 1..Depth /\ FrameInv(1)
  <2>1. k \in Nat /\ k > 0 /\ k \in 1..Depth /\ 1 \in 1..Depth
    BY DEF Depth, ScriptInv, IsList
  <2> QED  BY <2>1 DEF ScriptInv
<1>1. /\ SameButDir(frames'[k], frames[k])
      /\ parted' = Together => parted = Together /\ frames'[k].dir = frames[k].dir
  BY DEF Kept, StillApart
<1>2. /\ \A j \in 1..k : frames'[j].unit = frames[j].unit /\ frames'[j].via = frames[j].via
      /\ \A j \in 1..(k - 1) : Names(frames'[j]) = Names(frames[j])
  <2>1. \A j \in 1..k : SameButDir(frames'[j], frames[j])
    BY <1>0 DEF Kept
  <2>2. \A j \in 1..k : Names(frames'[j]) = Names(frames[j])
    BY <2>1 DEF SameButDir, Names, Bindings, OpenLoops
  <2>3. \A j \in 1..(k - 1) : j \in 1..k
    BY <1>0
  <2> QED  BY <2>1, <2>2, <2>3 DEF SameButDir
<1>3. /\ Leaked(k)' = Leaked(k) /\ OptionsSeen(k)' = OptionsSeen(k)
      /\ OwnDir(k)' = OwnDir(k) /\ OwnInlines(k)' = OwnInlines(k)
      /\ ConstsOf(k)' = ConstsOf(k)
  <2>1. frames[1].via # "inline"
    BY <1>0 DEF FrameInv, Includes
  <2> QED  BY <1>0, <1>2, <2>1, OuterKept
<1>4. Whole(k)'
  BY <1>0, <1>1 DEF FrameInv, Whole, SameButDir
<1>5. Shaped(frames[k], Leaked(k))'
  <2>1. Shaped(frames[k], Leaked(k)) /\ Leaked(k)' = Leaked(k)
    BY <1>0, <1>3 DEF FrameInv
  <2> QED  BY <1>1, <2>1, SameShape
<1>7. Own(k)' /\ Options(k)' /\ Includes(k)'
  BY <1>0, <1>1, <1>3 DEF FrameInv, Own, Options, Includes, SameButDir
<1>8. Indexes(frames[k], frames[k].rec.metas)'
  BY <1>0, <1>1, SameShape DEF FrameInv, SameButDir
<1>9. ASSUME parted' = Together PROVE InStep(frames[k])'
  <2>1. InStep(frames[k]) /\ frames'[k].dir = frames[k].dir
    BY <1>0, <1>1, <1>9 DEF FrameInv
  <2>2. /\ frames'[k].rec = frames[k].rec /\ frames'[k].open = frames[k].open
        /\ \A metas : Indexes(frames[k], metas) => Indexes(frames'[k], metas)
    BY <1>1, SameShape DEF SameButDir
  <2> QED  BY <2>1, <2>2 DEF InStep
<1> QED  BY <1>4, <1>5, <1>7, <1>8, <1>9 DEF FrameInv

----------------------------------------------------------------------------
(* What opening and closing a block does to the blocks and layers: f is    *)
(* the frame before, g after the step.                                     *)

SameBase(s, t) ==
    /\ IsScope(s) /\ s.ctx = t.ctx /\ s.consts = t.consts /\ s.options = t.options
    /\ s.nonOptions = t.nonOptions /\ s.inlines = t.inlines /\ s.base = t.base
    /\ s.depth = t.depth

SameTemplate(g, f) ==
    /\ IsFrame(g) /\ g.unit = f.unit /\ g.via = f.via /\ g.own = f.own
    /\ SameBase(g.rec, f.rec)

SameBlock(b, c) ==
    /\ IsBlock(b) /\ b.kind = c.kind /\ b.name = c.name /\ b.items = c.items /\ b.idx = c.idx
    /\ b.call = c.call

\* The first m blocks and their layers stay.
SameUpTo(g, f, m) ==
    /\ \A j \in 1..m : SameBlock(g.open[j], f.open[j]) /\ f.open[j].kind # "each"
    /\ \A i \in 1..LayerOf(f.open, m) :
          g.rec.layers[i] = f.rec.layers[i] /\ g.rec.narrowed[i] = f.rec.narrowed[i]

NoneEach(f) == \A j \in 1..Len(f.open) : f.open[j].kind # "each"

LEMMA SameNew ==
    ASSUME NEW f, NEW g, SameTemplate(g, f), NEW n
    PROVE  BindingIsNew(f, n) => BindingIsNew(g, n)
BY DEF SameTemplate, BindingIsNew

LEMMA StaysFree ==
    ASSUME NEW o, NEW p, NEW m \in Nat, NEW j \in 1..m, IsFree(o, j),
           \A i \in 1..m : p[i].kind = o[i].kind /\ p[i].name = o[i].name
    PROVE  IsFree(p, j)
<1>1. \A i \in 1..(j - 1) : i \in 1..m
  OBVIOUS
<1> QED  BY <1>1 DEF IsFree

LEMMA EarlierBlocks ==
    ASSUME NEW f, NEW g, NEW hidden, Shaped(f, hidden), SameTemplate(g, f),
           NEW m \in Nat, m <= Len(f.open), SameUpTo(g, f, m)
    PROVE  /\ \A j \in 1..m : /\ BlockOK(g, j)
                              /\ Pushes(g.open[j]) => LayerHolds(g, hidden, j)
           /\ LayerOf(g.open, m) = LayerOf(f.open, m)
<1>0. Len(f.open) \in Nat /\ \A j \in 1..m : j \in 1..Len(f.open)
  BY DEF Shaped, IsList
<1>1. \A j \in 1..m : SameBlock(g.open[j], f.open[j]) /\ f.open[j].kind # "each"
  BY DEF SameUpTo
<1>2. \A j \in 1..m : Pushes(g.open[j]) <=> Pushes(f.open[j])
  BY <1>1 DEF SameBlock, Pushes
<1>3. ASSUME NEW j \in 1..m PROVE LayerOf(g.open, j) = LayerOf(f.open, j)
  <2>1. j \in Nat /\ \A i \in 1..j : i \in 1..m
    OBVIOUS
  <2>2. \A i \in 1..j : Pushes(g.open[i]) <=> Pushes(f.open[i])
    BY <1>2, <2>1
  <2> QED  BY <2>1, <2>2, LayerOfSame
<1>4. ASSUME NEW j \in 1..m PROVE BlockOK(g, j)
  <2>1. BlockOK(f, j)
    BY <1>0 DEF Shaped, BlocksOK
  <2>2. f.open[j].kind = "some" => IsFree(g.open, j)
    <3>1. \A i \in 1..m : g.open[i].kind = f.open[i].kind /\ g.open[i].name = f.open[i].name
      BY <1>1 DEF SameBlock
    <3>2. f.open[j].kind = "some" => IsFree(f.open, j)
      BY <2>1 DEF BlockOK
    <3> QED  BY <3>1, <3>2, StaysFree
  <2>3. \A n : BindingIsNew(f, n) => BindingIsNew(g, n)
    BY SameNew
  <2> QED  BY <1>1, <2>1, <2>2, <2>3 DEF BlockOK, SameBlock, SameTemplate
<1>5. ASSUME NEW j \in 1..m, Pushes(g.open[j]) PROVE LayerHolds(g, hidden, j)
  <2>1. Pushes(f.open[j]) /\ LayerHolds(f, hidden, j) /\ SameBlock(g.open[j], f.open[j])
    BY <1>0, <1>1, <1>2, <1>5 DEF Shaped, Layering
  <2>2. LayerOf(f.open, j) \in 1..LayerOf(f.open, m)
    BY <2>1, LayersInRange
  <2>3. /\ g.rec.layers[LayerOf(g.open, j)] = f.rec.layers[LayerOf(f.open, j)]
        /\ g.rec.narrowed[LayerOf(g.open, j)] = f.rec.narrowed[LayerOf(f.open, j)]
    BY <1>3, <2>2 DEF SameUpTo
  <2>4. g.own = f.own
    BY DEF SameTemplate
  <2> QED  BY <2>1, <2>3, <2>4 DEF LayerHolds, SameBlock, Narrows
<1>6. LayerOf(g.open, m) = LayerOf(f.open, m)
  BY <1>2, LayerOfSame
<1> QED  BY <1>4, <1>5, <1>6

\* The blocks up to n + 1, and their layers, are as the last one and the others are.
LEMMA WithLast ==
    ASSUME NEW g, NEW hidden, NEW n \in Nat, NEW r \in Nat,
           IsScope(g.rec), IsList(g.rec.layers), IsList(g.rec.narrowed), IsList(g.open),
           Len(g.open) = n + 1, Len(g.rec.layers) = r, Len(g.rec.narrowed) = r,
           \A i \in 1..r : Shows(g.rec.layers[i]), LayerOf(g.open, n + 1) = r,
           \A j \in 1..n : /\ BlockOK(g, j)
                           /\ Pushes(g.open[j]) => LayerHolds(g, hidden, j),
           BlockOK(g, n + 1), Pushes(g.open[n + 1]) => LayerHolds(g, hidden, n + 1)
    PROVE  Shaped(g, hidden)
<1>1. \A j \in 1..(n + 1) : j = n + 1 \/ j \in 1..n
  OBVIOUS
<1>2. BlocksOK(g)
  BY <1>1 DEF BlocksOK
<1>3. Layering(g, hidden)
  BY <1>1 DEF Layering
<1> QED  BY <1>2, <1>3 DEF Shaped

\* A block that pushes a layer is opened.
Pushed(g, f, b, layer, narrowed) ==
    /\ g.open = Append(f.open, b) /\ Pushes(b)
    /\ g.rec.layers = Append(f.rec.layers, layer)
    /\ g.rec.narrowed = Append(f.rec.narrowed, narrowed)

LayerFor(b, own, hidden, layer, narrowed) ==
    /\ Shows(layer) /\ DOMAIN layer = IF b.kind \in {"for", "some"} THEN {b.name} ELSE {}
    /\ b.kind = "for" => layer[b.name] = Str(b.items[b.idx])
    /\ b.kind = "some" /\ b.name \notin hidden => layer[b.name] = own[b.name]
    /\ narrowed = IF Narrows(b) THEN {b.name} ELSE {}

LEMMA PushedShape ==
    ASSUME NEW f, NEW g, NEW hidden, Shaped(f, hidden), SameTemplate(g, f), NoneEach(f),
           NEW b, NEW layer, NEW narrowed, Pushed(g, f, b, layer, narrowed),
           LayerFor(b, f.own, hidden, layer, narrowed), BlockOK(g, Len(f.open) + 1)
    PROVE  Shaped(g, hidden)
<1> DEFINE n == Len(f.open)
           r == Len(f.rec.layers)
<1>1. /\ IsList(f.open) /\ n \in Nat /\ IsList(f.rec.layers) /\ r \in Nat
      /\ IsList(f.rec.narrowed) /\ Len(f.rec.narrowed) = r /\ r = LayerOf(f.open, n)
      /\ r + 1 \in Nat
  BY DEF Shaped, Layering, IsList
<1>2. /\ IsList(g.open) /\ Len(g.open) = n + 1 /\ g.open[n + 1] = b
      /\ \A j \in 1..n : g.open[j] = f.open[j]
  BY <1>1, Appending DEF Pushed
<1>3. /\ IsList(g.rec.layers) /\ Len(g.rec.layers) = r + 1 /\ g.rec.layers[r + 1] = layer
      /\ \A i \in 1..r : g.rec.layers[i] = f.rec.layers[i]
  <2>1. g.rec.layers = Append(f.rec.layers, layer)
    BY DEF Pushed
  <2>2. IsList(f.rec.layers)
    BY <1>1
  <2> QED  BY ONLY <2>1, <2>2, Appending
<1>4. /\ IsList(g.rec.narrowed) /\ Len(g.rec.narrowed) = r + 1
      /\ g.rec.narrowed[r + 1] = narrowed
      /\ \A i \in 1..r : g.rec.narrowed[i] = f.rec.narrowed[i]
  <2>1. g.rec.narrowed = Append(f.rec.narrowed, narrowed)
    BY DEF Pushed
  <2>2. Len(f.rec.narrowed) = r /\ IsList(f.rec.narrowed)
    BY <1>1
  <2> HIDE DEF r
  <2> QED  BY <2>1, <2>2, Appending
<1>5. SameUpTo(g, f, n) /\ n <= Len(f.open)
  <2>1. \A j \in 1..n : SameBlock(g.open[j], f.open[j]) /\ f.open[j].kind # "each"
    BY <1>1, <1>2 DEF SameBlock, Shaped, BlocksOK, BlockOK, NoneEach
  <2>2. \A i \in 1..LayerOf(f.open, n) :
           g.rec.layers[i] = f.rec.layers[i] /\ g.rec.narrowed[i] = f.rec.narrowed[i]
    BY <1>1, <1>3, <1>4
  <2> QED  BY <1>1, <2>1, <2>2 DEF SameUpTo
<1>6. /\ \A j \in 1..n : /\ BlockOK(g, j)
                         /\ Pushes(g.open[j]) => LayerHolds(g, hidden, j)
      /\ LayerOf(g.open, n) = r
  <2>1. n \in Nat /\ LayerOf(f.open, n) = r
    BY <1>1
  <2> HIDE DEF n, r
  <2> QED  BY <1>5, <2>1, EarlierBlocks
<1>7. LayerOf(g.open, n + 1) = r + 1
  <2>1. LayerOf(g.open, n + 1) = LayerOf(g.open, n) + (IF Pushes(g.open[n + 1]) THEN 1 ELSE 0)
    <3> HIDE DEF n
    <3> QED  BY <1>1, LayerNext
  <2>2. Pushes(g.open[n + 1])
    BY <1>2 DEF Pushed
  <2> HIDE DEF n, r
  <2> QED  BY <1>6, <2>1, <2>2
<1>8. LayerHolds(g, hidden, n + 1)
  <2>1. g.own = f.own
    BY DEF SameTemplate
  <2> HIDE DEF n, r
  <2> QED  BY <1>2, <1>3, <1>4, <1>7, <2>1 DEF LayerHolds, LayerFor
<1>9. \A i \in 1..(r + 1) : Shows(g.rec.layers[i])
  <2>1. \A i \in 1..(r + 1) : i = r + 1 \/ i \in 1..r
    BY <1>1
  <2>2. \A i \in 1..r : Shows(f.rec.layers[i])
    BY <1>1 DEF Shaped
  <2>3. Shows(layer)
    BY DEF LayerFor
  <2> HIDE DEF r
  <2> QED  BY <1>3, <2>1, <2>2, <2>3
<1>10. IsScope(g.rec) /\ BlockOK(g, n + 1)
  BY DEF SameTemplate, SameBase
<1> HIDE DEF n, r
<1> QED  BY <1>1, <1>2, <1>3, <1>4, <1>6, <1>7, <1>8, <1>9, <1>10, WithLast

\* A block that pushes none is opened.
LEMMA PlainShape ==
    ASSUME NEW f, NEW g, NEW hidden, Shaped(f, hidden), SameTemplate(g, f), NoneEach(f),
           NEW b, ~Pushes(b), g.open = Append(f.open, b), BlockOK(g, Len(f.open) + 1),
           g.rec.layers = f.rec.layers, g.rec.narrowed = f.rec.narrowed
    PROVE  Shaped(g, hidden)
<1> DEFINE n == Len(f.open)
           r == Len(f.rec.layers)
<1>1. /\ IsList(f.open) /\ n \in Nat /\ IsList(f.rec.layers) /\ r \in Nat
      /\ IsList(f.rec.narrowed) /\ Len(f.rec.narrowed) = r /\ r = LayerOf(f.open, n)
  BY DEF Shaped, Layering, IsList
<1>2. /\ IsList(g.open) /\ Len(g.open) = n + 1 /\ g.open[n + 1] = b
      /\ \A j \in 1..n : g.open[j] = f.open[j]
  BY <1>1, Appending
<1>3. SameUpTo(g, f, n) /\ n <= Len(f.open)
  <2>1. \A j \in 1..n : SameBlock(g.open[j], f.open[j]) /\ f.open[j].kind # "each"
    BY <1>1, <1>2 DEF SameBlock, Shaped, BlocksOK, BlockOK, NoneEach
  <2> QED  BY <1>1, <2>1 DEF SameUpTo
<1>4. /\ \A j \in 1..n : /\ BlockOK(g, j)
                         /\ Pushes(g.open[j]) => LayerHolds(g, hidden, j)
      /\ LayerOf(g.open, n) = r
  <2>1. n \in Nat /\ LayerOf(f.open, n) = r
    BY <1>1
  <2> HIDE DEF n, r
  <2> QED  BY <1>3, <2>1, EarlierBlocks
<1>5. LayerOf(g.open, n + 1) = r /\ ~Pushes(g.open[n + 1])
  <2>1. LayerOf(g.open, n + 1) = LayerOf(g.open, n) + (IF Pushes(g.open[n + 1]) THEN 1 ELSE 0)
    <3> HIDE DEF n
    <3> QED  BY <1>1, LayerNext
  <2>2. ~Pushes(g.open[n + 1])
    BY <1>2
  <2>3. r \in Nat /\ r + 0 = r
    BY <1>1
  <2> HIDE DEF n, r
  <2>4. LayerOf(g.open, n + 1) = LayerOf(g.open, n) + 0
    BY <2>1, <2>2
  <2>5. LayerOf(g.open, n + 1) = r + 0
    BY <1>4, <2>4
  <2> QED  BY <2>2, <2>3, <2>5
<1>6. /\ IsScope(g.rec) /\ BlockOK(g, n + 1) /\ IsList(g.rec.layers) /\ IsList(g.rec.narrowed)
      /\ Len(g.rec.layers) = r /\ Len(g.rec.narrowed) = r
      /\ \A i \in 1..r : Shows(g.rec.layers[i])
  BY <1>1 DEF SameTemplate, SameBase, Shaped
<1> HIDE DEF n, r
<1> QED  BY <1>1, <1>2, <1>4, <1>5, <1>6, WithLast

\* The last block is closed, and its layer popped if it pushed one.
Popped(g, f, pops) ==
    IF pops THEN g.rec.layers = Front(f.rec.layers) /\ g.rec.narrowed = Front(f.rec.narrowed)
    ELSE g.rec.layers = f.rec.layers /\ g.rec.narrowed = f.rec.narrowed

\* What a list of the others and their layers is.
LEMMA WithoutLast ==
    ASSUME NEW g, NEW hidden, NEW n \in Nat, NEW r \in Nat,
           IsScope(g.rec), IsList(g.rec.layers), IsList(g.rec.narrowed), IsList(g.open),
           Len(g.open) = n, Len(g.rec.layers) = r, Len(g.rec.narrowed) = r,
           \A i \in 1..r : Shows(g.rec.layers[i]), LayerOf(g.open, n) = r,
           \A j \in 1..n : /\ BlockOK(g, j)
                           /\ Pushes(g.open[j]) => LayerHolds(g, hidden, j)
    PROVE  Shaped(g, hidden)
<1>1. BlocksOK(g)
  BY DEF BlocksOK
<1>2. Layering(g, hidden)
  BY DEF Layering
<1> QED  BY <1>1, <1>2 DEF Shaped

LEMMA ClosedShape ==
    ASSUME NEW f, NEW g, NEW hidden, Shaped(f, hidden), SameTemplate(g, f),
           NEW n \in Nat, Len(f.open) = n + 1, IsList(g.open), Len(g.open) = n,
           \A j \in 1..n : SameBlock(g.open[j], f.open[j]),
           Popped(g, f, Pushes(f.open[n + 1]))
    PROVE  Shaped(g, hidden)
<1> DEFINE r == LayerOf(f.open, n)
           q == Len(f.rec.layers)
<1>1. /\ IsList(f.open) /\ IsList(f.rec.layers) /\ IsList(f.rec.narrowed)
      /\ q = LayerOf(f.open, n + 1) /\ Len(f.rec.narrowed) = q
      /\ \A i \in 1..q : Shows(f.rec.layers[i])
  BY DEF Shaped, Layering
<1>2. r \in Nat
  BY LayerOfIsNat
<1>3. q = r + (IF Pushes(f.open[n + 1]) THEN 1 ELSE 0)
  <2>1. LayerOf(f.open, n + 1) = LayerOf(f.open, n) + (IF Pushes(f.open[n + 1]) THEN 1 ELSE 0)
    BY LayerNext
  <2> HIDE DEF q
  <2> QED  BY <1>1, <2>1
<1>4. /\ IsList(g.rec.layers) /\ Len(g.rec.layers) = r
      /\ IsList(g.rec.narrowed) /\ Len(g.rec.narrowed) = r
      /\ \A i \in 1..r : /\ i \in 1..q /\ g.rec.layers[i] = f.rec.layers[i]
                         /\ g.rec.narrowed[i] = f.rec.narrowed[i]
  <2>1. CASE Pushes(f.open[n + 1])
    <3>1. q = r + 1
      <4> HIDE DEF q, r
      <4> QED  BY <1>3, <2>1
    <3>2. q # 0 /\ q - 1 = r /\ \A i \in 1..r : i \in 1..q
      <4> HIDE DEF q, r
      <4> QED  BY <1>2, <3>1
    <3>3. g.rec.layers = Front(f.rec.layers) /\ g.rec.narrowed = Front(f.rec.narrowed)
      BY <2>1 DEF Popped
    <3>4. /\ IsList(Front(f.rec.layers)) /\ Len(Front(f.rec.layers)) = r
          /\ \A i \in 1..r : Front(f.rec.layers)[i] = f.rec.layers[i]
      <4>1. Len(f.rec.layers) # 0 /\ Len(f.rec.layers) - 1 = r
        BY <3>2
      <4> HIDE DEF q, r
      <4> QED  BY <1>1, <4>1, Fronting
    <3>5. /\ IsList(Front(f.rec.narrowed)) /\ Len(Front(f.rec.narrowed)) = r
          /\ \A i \in 1..r : Front(f.rec.narrowed)[i] = f.rec.narrowed[i]
      <4>1. Len(f.rec.narrowed) # 0 /\ Len(f.rec.narrowed) - 1 = r
        <5> HIDE DEF q, r
        <5> QED  BY <1>1, <3>2
      <4> HIDE DEF q, r
      <4> QED  BY <1>1, <4>1, Fronting
    <3> HIDE DEF q, r
    <3> QED  BY <3>2, <3>3, <3>4, <3>5
  <2>2. CASE ~Pushes(f.open[n + 1])
    <3>1. q = r
      <4> HIDE DEF q, r
      <4> QED  BY <1>2, <1>3, <2>2
    <3>2. g.rec.layers = f.rec.layers /\ g.rec.narrowed = f.rec.narrowed
      BY <2>2 DEF Popped
    <3>3. Len(g.rec.layers) = r
      BY <3>1, <3>2
    <3> HIDE DEF q, r
    <3> QED  BY <1>1, <3>1, <3>2, <3>3
  <2> QED  BY <2>1, <2>2
<1>5. SameUpTo(g, f, n) /\ n <= Len(f.open)
  <2>1. \A j \in 1..n : f.open[j].kind # "each"
    <3> SUFFICES ASSUME NEW j \in 1..n, f.open[j].kind = "each" PROVE FALSE
      OBVIOUS
    <3>1. j \in 1..(n + 1) /\ j # n + 1
      OBVIOUS
    <3> QED  BY <3>1 DEF Shaped, BlocksOK, BlockOK
  <2> QED  BY <1>4, <2>1 DEF SameUpTo
<1>6. /\ \A j \in 1..n : /\ BlockOK(g, j)
                         /\ Pushes(g.open[j]) => LayerHolds(g, hidden, j)
      /\ LayerOf(g.open, n) = r
  BY <1>5, EarlierBlocks
<1>7. \A i \in 1..r : Shows(g.rec.layers[i])
  <2> HIDE DEF q, r
  <2> QED  BY <1>1, <1>4
<1>8. IsScope(g.rec)
  BY DEF SameTemplate, SameBase
<1> HIDE DEF r, q
<1> QED  BY <1>2, <1>4, <1>6, <1>7, <1>8, WithoutLast

\* The last block is a loop, and goes on to its next item.
NextOf(g, f, n, b, layer) ==
    /\ Len(f.open) = n + 1 /\ f.open[n + 1].kind = "for" /\ IsBlock(b)
    /\ g.open = [f.open EXCEPT ![n + 1] = b]
    /\ b.idx \in Nat
    /\ b.kind = "for" /\ b.name = f.open[n + 1].name /\ b.items = f.open[n + 1].items
    /\ DOMAIN layer = {b.name} /\ layer[b.name] = Str(b.items[b.idx])
    /\ g.rec.layers = [f.rec.layers EXCEPT ![Len(f.rec.layers)] = layer]
    /\ g.rec.narrowed = f.rec.narrowed

LEMMA NextShape ==
    ASSUME NEW f, NEW g, NEW hidden, Shaped(f, hidden), SameTemplate(g, f),
           NEW n \in Nat, NEW b, NEW layer, NextOf(g, f, n, b, layer)
    PROVE  Shaped(g, hidden)
<1> DEFINE r == LayerOf(f.open, n)
           c == f.open[n + 1]
<1>1. /\ IsList(f.open) /\ IsList(f.rec.layers) /\ IsList(f.rec.narrowed)
      /\ Len(f.rec.layers) = LayerOf(f.open, n + 1) /\ Len(f.rec.narrowed) = Len(f.rec.layers)
      /\ \A i \in 1..Len(f.rec.layers) : Shows(f.rec.layers[i])
      /\ Len(f.open) = n + 1 /\ n + 1 \in 1..Len(f.open)
  BY DEF Shaped, Layering, NextOf
<1>2. r \in Nat /\ r + 1 \in Nat /\ r + 1 \in 1..(r + 1) /\ \A i \in 1..r : i \in 1..(r + 1) /\ i # r + 1
  <2>1. r \in Nat
    BY LayerOfIsNat
  <2> HIDE DEF r
  <2> QED  BY <2>1
<1>3. LayerOf(f.open, n + 1) = r + 1 /\ Len(f.rec.layers) = r + 1
  <2>1. LayerOf(f.open, n + 1) = LayerOf(f.open, n) + (IF Pushes(f.open[n + 1]) THEN 1 ELSE 0)
    BY LayerNext
  <2>2. Pushes(f.open[n + 1])
    BY DEF NextOf, Pushes
  <2>3. LayerOf(f.open, n + 1) = r + 1
    BY <2>1, <2>2
  <2> HIDE DEF r
  <2> QED  BY <1>1, <2>3
<1>4. /\ IsList(g.rec.layers) /\ Len(g.rec.layers) = r + 1 /\ g.rec.layers[r + 1] = layer
      /\ \A i \in 1..r : g.rec.layers[i] = f.rec.layers[i]
  <2>1. g.rec.layers = [f.rec.layers EXCEPT ![r + 1] = layer]
    <3> HIDE DEF r
    <3> QED  BY <1>3 DEF NextOf
  <2>2. /\ IsList([f.rec.layers EXCEPT ![r + 1] = layer])
        /\ Len([f.rec.layers EXCEPT ![r + 1] = layer]) = Len(f.rec.layers)
        /\ [f.rec.layers EXCEPT ![r + 1] = layer][r + 1] = layer
        /\ \A i \in 1..Len(f.rec.layers) :
              i # r + 1 => [f.rec.layers EXCEPT ![r + 1] = layer][i] = f.rec.layers[i]
    <3>1. r + 1 \in 1..Len(f.rec.layers)
      <4> HIDE DEF r
      <4> QED  BY <1>2, <1>3
    <3>2. IsList(f.rec.layers)
      BY <1>1
    <3> HIDE DEF r
    <3> QED  BY ONLY <3>1, <3>2, Replacing
  <2> HIDE DEF r
  <2> QED  BY <1>2, <1>3, <2>1, <2>2
<1>5. /\ IsList(g.open) /\ Len(g.open) = n + 1 /\ g.open[n + 1] = b
      /\ \A j \in 1..n : g.open[j] = f.open[j]
  <2>1. /\ IsList([f.open EXCEPT ![n + 1] = b])
        /\ Len([f.open EXCEPT ![n + 1] = b]) = Len(f.open)
        /\ [f.open EXCEPT ![n + 1] = b][n + 1] = b
        /\ \A i \in 1..Len(f.open) : i # n + 1 => [f.open EXCEPT ![n + 1] = b][i] = f.open[i]
    <3>1. IsList(f.open) /\ n + 1 \in 1..Len(f.open)
      BY <1>1
    <3> HIDE DEF r, c
    <3> QED  BY ONLY <3>1, Replacing
  <2>2. \A i \in 1..n : i \in 1..(n + 1) /\ i # n + 1
    OBVIOUS
  <2> QED  BY <1>1, <2>1, <2>2 DEF NextOf
<1>6. SameUpTo(g, f, n) /\ n <= Len(f.open)
  <2>1. \A j \in 1..n : j \in 1..(n + 1) /\ j # n + 1
    OBVIOUS
  <2>2. \A j \in 1..n : SameBlock(g.open[j], f.open[j]) /\ f.open[j].kind # "each"
    BY <1>1, <1>5, <2>1 DEF SameBlock, Shaped, BlocksOK, BlockOK
  <2>3. g.rec.narrowed = f.rec.narrowed
    BY DEF NextOf
  <2> QED  BY <1>1, <1>4, <2>2, <2>3 DEF SameUpTo
<1>7. /\ \A j \in 1..n : /\ BlockOK(g, j)
                         /\ Pushes(g.open[j]) => LayerHolds(g, hidden, j)
      /\ LayerOf(g.open, n) = r
  BY <1>6, EarlierBlocks
<1>8. LayerOf(g.open, n + 1) = r + 1
  <2>1. LayerOf(g.open, n + 1) = LayerOf(g.open, n) + (IF Pushes(g.open[n + 1]) THEN 1 ELSE 0)
    BY LayerNext
  <2>2. Pushes(g.open[n + 1])
    BY <1>5 DEF NextOf, Pushes
  <2> HIDE DEF r
  <2> QED  BY <1>7, <2>1, <2>2
<1>9. BlockOK(g, n + 1)
  <2>1. BlockOK(f, n + 1)
    BY <1>1 DEF Shaped, BlocksOK
  <2>2. BindingIsNew(f, b.name) => BindingIsNew(g, b.name)
    BY SameNew
  <2> QED  BY <1>5, <2>1, <2>2 DEF BlockOK, NextOf
<1>10. LayerHolds(g, hidden, n + 1)
  <2>1. f.rec.narrowed[LayerOf(f.open, n + 1)] = {}
    <3>1. LayerHolds(f, hidden, n + 1)
      BY <1>1 DEF Shaped, Layering, NextOf, Pushes
    <3> QED  BY <3>1 DEF LayerHolds, NextOf, Narrows
  <2>2. g.rec.narrowed[r + 1] = {}
    <3>1. g.rec.narrowed = f.rec.narrowed
      BY DEF NextOf
    <3> HIDE DEF r
    <3> QED  BY <1>3, <2>1, <3>1
  <2> HIDE DEF r
  <2> QED  BY <1>4, <1>5, <1>8, <2>2 DEF LayerHolds, NextOf, Narrows
<1>11. \A i \in 1..(r + 1) : Shows(g.rec.layers[i])
  <2>1. \A i \in 1..(r + 1) : i = r + 1 \/ i \in 1..r
    BY <1>2
  <2>2. \A i \in 1..r : Shows(f.rec.layers[i])
    BY <1>1, <1>2, <1>3
  <2>3. Shows(layer)
    <3>1. b.name \in Loops /\ DOMAIN layer = {b.name} /\ layer[b.name] = Str(b.items[b.idx])
      BY <1>5, <1>9 DEF BlockOK, NextOf
    <3> QED  BY <3>1, LabelsAreNoNames, StringsAreValues DEF Shows
  <2> HIDE DEF r
  <2> QED  BY <1>4, <2>1, <2>2, <2>3
<1>12. /\ IsScope(g.rec) /\ IsList(g.rec.narrowed) /\ Len(g.rec.narrowed) = r + 1
  <2>1. IsScope(g.rec) /\ g.rec.narrowed = f.rec.narrowed
    BY DEF SameTemplate, SameBase, NextOf
  <2> HIDE DEF r
  <2> QED  BY <1>1, <1>3, <2>1
<1> HIDE DEF r
<1> QED  BY <1>2, <1>4, <1>5, <1>7, <1>8, <1>9, <1>10, <1>11, <1>12, WithLast

----------------------------------------------------------------------------
(* The indexes of loops.                                                   *)

\* No loop comes or goes.
LEMMA SameIndexes ==
    ASSUME NEW f, NEW g, NEW metas, Indexes(f, metas), OpenLoops(g) = OpenLoops(f),
           \A i \in OpenLoops(f) : /\ g.open[i].name = f.open[i].name
                                   /\ g.open[i].idx = f.open[i].idx
                                   /\ g.open[i].reused = f.open[i].reused
    PROVE  Indexes(g, metas)
<1>1. \A i \in OpenLoops(f) : LoopsOver(g, g.open[i].name) = LoopsOver(f, f.open[i].name)
  BY DEF LoopsOver
<1> QED  BY <1>1 DEF Indexes

\* The last loop is at an item, and its index is the one of its binding.
LEMMA LastIndexed ==
    ASSUME NEW f, NEW g, NEW metas, Indexes(f, metas), NEW n \in Nat, NEW b,
           DOMAIN g.open = 1..(n + 1), g.open[n + 1] = b, b.kind = "for",
           \A i \in 1..n : i \in DOMAIN f.open /\ g.open[i] = f.open[i],
           \A i \in OpenLoops(f) : i \in 1..n \/ f.open[i].name = b.name,
           NEW idx, idx = b.idx - 1
    PROVE  Indexes(g, Over(Single(b.name, idx), metas))
<1> DEFINE new == Over(Single(b.name, idx), metas)
<1>1. /\ b.name \in DOMAIN new /\ new[b.name] = idx
      /\ \A m : m # b.name /\ m \in DOMAIN metas => m \in DOMAIN new /\ new[m] = metas[m]
  BY DEF Over, Single
<1> HIDE DEF new
<1> SUFFICES ASSUME NEW i \in OpenLoops(g), ~g.open[i].reused,
                    \A j \in LoopsOver(g, g.open[i].name) : j <= i
             PROVE  g.open[i].name \in DOMAIN new /\ new[g.open[i].name] = g.open[i].idx - 1
  BY DEF Indexes, new
<1>2. i \in 1..(n + 1) /\ n + 1 \in 1..(n + 1) /\ (i = n + 1 \/ i \in 1..n)
  BY DEF OpenLoops
<1>3. CASE g.open[i].name = b.name
  <2>1. n + 1 \in LoopsOver(g, g.open[i].name)
    BY <1>2, <1>3 DEF LoopsOver, OpenLoops
  <2>2. i = n + 1
    BY <1>2, <2>1
  <2> QED  BY <1>1, <2>2
<1>4. CASE g.open[i].name # b.name
  <2>1. i \in 1..n
    BY <1>2, <1>4
  <2>2. i \in OpenLoops(f) /\ g.open[i] = f.open[i]
    BY <2>1 DEF OpenLoops
  <2>3. \A j \in LoopsOver(f, f.open[i].name) : j <= i
    <3> SUFFICES ASSUME NEW j \in LoopsOver(f, f.open[i].name) PROVE j <= i
      OBVIOUS
    <3>1. j \in OpenLoops(f) /\ f.open[j].name = f.open[i].name
      BY DEF LoopsOver
    <3>2. j \in 1..n
      BY <1>4, <2>2, <3>1
    <3>3. j \in 1..(n + 1)
      BY <3>2
    <3>4. j \in LoopsOver(g, g.open[i].name)
      BY <2>2, <3>1, <3>2, <3>3 DEF LoopsOver, OpenLoops
    <3> QED  BY <3>4
  <2>4. g.open[i].name \in DOMAIN metas /\ metas[g.open[i].name] = g.open[i].idx - 1
    BY <2>2, <2>3 DEF Indexes
  <2> QED  BY <1>1, <1>4, <2>4
<1> QED  BY <1>3, <1>4

\* The last block is closed; loops over its binding no longer have their index.
LEMMA FewerIndexes ==
    ASSUME NEW f, NEW g, NEW metas, Indexes(f, metas), NEW n \in Nat,
           DOMAIN f.open = 1..(n + 1), DOMAIN g.open = 1..n,
           \A i \in 1..n :
              /\ g.open[i].kind = f.open[i].kind /\ g.open[i].name = f.open[i].name
              /\ g.open[i].idx = f.open[i].idx
              /\ ~g.open[i].reused =>
                    /\ ~f.open[i].reused
                    /\ f.open[n + 1].kind = "for" => f.open[i].name # f.open[n + 1].name
    PROVE  Indexes(g, metas)
<1> SUFFICES ASSUME NEW i \in OpenLoops(g), ~g.open[i].reused,
                    \A j \in LoopsOver(g, g.open[i].name) : j <= i
             PROVE  g.open[i].name \in DOMAIN metas /\ metas[g.open[i].name] = g.open[i].idx - 1
  BY DEF Indexes
<1>1. i \in 1..n /\ i \in 1..(n + 1)
  BY DEF OpenLoops
<1>2. i \in OpenLoops(f)
  BY <1>1 DEF OpenLoops
<1>3. \A j \in LoopsOver(f, f.open[i].name) : j <= i
  <2> SUFFICES ASSUME NEW j \in LoopsOver(f, f.open[i].name) PROVE j <= i
    OBVIOUS
  <2>1. j \in 1..(n + 1) /\ f.open[j].kind = "for" /\ f.open[j].name = f.open[i].name
    BY DEF LoopsOver, OpenLoops
  <2>2. j # n + 1
    BY <1>1, <2>1
  <2>3. j \in 1..n
    BY <2>1, <2>2
  <2>4. j \in LoopsOver(g, g.open[i].name)
    BY <1>1, <2>1, <2>3 DEF LoopsOver, OpenLoops
  <2> QED  BY <2>4
<1> QED  BY <1>1, <1>2, <1>3 DEF Indexes

----------------------------------------------------------------------------
(* The steps: next is the stack of templates as the recursive renderer     *)
(* leaves it.                                                              *)

StepsTo(next) ==
    /\ IsList(frames') /\ Len(frames') = Len(next)
    /\ \A i \in 1..Len(next) : SameButDir(frames'[i], next[i])
    /\ parted' = Together => parted = Together /\ frames' = next

AreFrames(next) == IsList(next) /\ \A i \in 1..Len(next) : IsFrame(next[i])

LEMMA Decided ==
    ASSUME NEW node, node # Together, NEW rec, NEW dir, NEW next, AreFrames(next),
           Decide(node, rec, dir, next)
    PROVE  \/ frames' = <<>>
           \/ /\ rec \notin {Throws, Refused} /\ StepsTo(next)
              /\ parted' = Together => rec = dir
<1>1. /\ parted' = IF parted = Together /\ rec # dir THEN node ELSE parted
      /\ frames' = IF rec \in {Throws, Refused} THEN <<>>
                   ELSE IF parted' = Together THEN next
                   ELSE [i \in DOMAIN next |-> [next[i] EXCEPT !.dir = NoDirect]]
  BY DEF Decide
<1>2. parted' = Together => parted = Together /\ rec = dir
  BY <1>1
<1>3. IsList(next) /\ \A i \in 1..Len(next) : IsFrame(next[i])
  BY DEF AreFrames
<1>4. CASE rec \in {Throws, Refused}
  BY <1>1, <1>4
<1>5. CASE rec \notin {Throws, Refused} /\ parted' = Together
  BY <1>1, <1>2, <1>3, <1>5 DEF StepsTo, SameButDir
<1>6. CASE rec \notin {Throws, Refused} /\ parted' # Together
  <2>1. frames' = [i \in DOMAIN next |-> [next[i] EXCEPT !.dir = NoDirect]]
    BY <1>1, <1>6
  <2>2. DOMAIN next = 1..Len(next) /\ Len(next) \in Nat
    BY <1>3 DEF IsList
  <2>3. IsList(frames') /\ Len(frames') = Len(next)
    <3>1. frames' = [i \in 1..Len(next) |-> frames'[i]] /\ DOMAIN frames' = 1..Len(next)
      BY <2>1, <2>2
    <3> QED  BY <2>2, <3>1, Listing
  <2>4. \A i \in 1..Len(next) : SameButDir(frames'[i], next[i])
    <3>1. ASSUME NEW f, IsFrame(f) PROVE SameButDir([f EXCEPT !.dir = NoDirect], f)
      BY <3>1 DEF IsFrame, SameButDir
    <3>2. \A i \in 1..Len(next) : frames'[i] = [next[i] EXCEPT !.dir = NoDirect]
      BY <2>1, <2>2
    <3> QED  BY <1>3, <3>1, <3>2
  <2> QED  BY <1>6, <2>3, <2>4 DEF StepsTo
<1> QED  BY <1>4, <1>5, <1>6

LEMMA Stacked ==
    ASSUME ScriptInv, frames # <<>>, NEW g
    PROVE  /\ Depth \in Nat \ {0} /\ Depth - 1 \in Nat /\ Depth \in 1..Depth
           /\ Top = frames[Depth] /\ FrameInv(Depth)
           /\ IsList(Below) /\ Len(Below) = Depth - 1
           /\ \A i \in 1..(Depth - 1) : Below[i] = frames[i] /\ i \in 1..Depth
           /\ IsList(Append(Below, g)) /\ Len(Append(Below, g)) = Depth
           /\ \A i \in 1..(Depth - 1) : Append(Below, g)[i] = frames[i]
           /\ Append(Below, g)[Depth] = g
           /\ IsFrame(g) => AreFrames(Append(Below, g))
           /\ \A i \in 1..Depth : IsFrame(frames[i])
<1>1. IsList(frames) /\ Depth = Len(frames) /\ Len(frames) \in Nat
  BY DEF ScriptInv, Depth, IsList
<1>2. Len(frames) # 0
  <2>1. CASE Len(frames) = 0
    <3>1. frames = [i \in {} |-> frames[i]]
      BY <1>1, <2>1 DEF IsList
    <3>2. DOMAIN frames = {}
      BY <3>1
    <3>3. frames = <<>>
      BY <3>1
    <3> QED  BY <3>3
  <2> QED  BY <2>1
<1>3. /\ IsList(Below) /\ Len(Below) = Depth - 1
      /\ \A i \in 1..(Depth - 1) : Below[i] = frames[i]
      /\ Top = frames[Depth] /\ Depth \in 1..Depth
  BY <1>1, <1>2, Fronting DEF Below, Top
<1>4. Depth \in Nat \ {0} /\ Depth - 1 \in Nat /\ \A i \in 1..(Depth - 1) : i \in 1..Depth
  BY <1>1, <1>2
<1>5. \A i \in 1..Depth : FrameInv(i) /\ IsFrame(frames[i])
  BY DEF ScriptInv, FrameInv, Whole
<1>6. /\ IsList(Append(Below, g)) /\ Len(Append(Below, g)) = (Depth - 1) + 1
      /\ \A i \in 1..(Depth - 1) : Append(Below, g)[i] = Below[i]
      /\ Append(Below, g)[(Depth - 1) + 1] = g
  <2>1. ASSUME NEW s, IsList(s), Len(s) = Depth - 1
        PROVE  /\ IsList(Append(s, g)) /\ Len(Append(s, g)) = (Depth - 1) + 1
               /\ \A i \in 1..(Depth - 1) : Append(s, g)[i] = s[i]
               /\ Append(s, g)[(Depth - 1) + 1] = g
    BY <2>1, Appending
  <2> QED  BY <1>3, <2>1
<1>7. (Depth - 1) + 1 = Depth /\ \A i \in 1..Depth : i = Depth \/ i \in 1..(Depth - 1)
  BY <1>4
<1>8. /\ IsList(Append(Below, g)) /\ Len(Append(Below, g)) = Depth
      /\ \A i \in 1..(Depth - 1) : Append(Below, g)[i] = frames[i]
      /\ Append(Below, g)[Depth] = g
  BY <1>3, <1>6, <1>7
<1>9. IsFrame(g) => AreFrames(Append(Below, g))
  BY <1>4, <1>5, <1>7, <1>8 DEF AreFrames
<1> QED  BY <1>3, <1>4, <1>5, <1>8, <1>9

\* The innermost template becomes g, the ones around it stay.
TopBecomes(g, k) ==
    /\ \A i \in 1..(k - 1) : SameButDir(frames'[i], frames[i])
    /\ SameButDir(frames'[k], g)
    /\ parted' = Together => /\ parted = Together /\ frames'[k] = g
                             /\ \A i \in 1..(k - 1) : frames'[i] = frames[i]

LEMMA TopKept ==
    ASSUME ScriptInv, frames # <<>>, NEW g, NEW k, k = Depth, TopBecomes(g, k),
           SameTemplate(g, Top), Shaped(g, Leaked(k)), Indexes(g, g.rec.metas),
           parted' = Together => InStep(g)
    PROVE  /\ \A i \in 1..k : FrameInv(i)'
           /\ Leaked(k)' = Leaked(k) /\ OptionsSeen(k)' = OptionsSeen(k)
           /\ OwnDir(k)' = OwnDir(k) /\ OwnInlines(k)' = OwnInlines(k)
           /\ \A i \in 1..k : frames'[i].unit = frames[i].unit /\ frames'[i].via = frames[i].via
           /\ \A i \in 1..(k - 1) : Names(frames'[i]) = Names(frames[i])
<1>1. /\ k \in Nat /\ k > 0 /\ k - 1 \in Nat /\ k - 1 <= Len(frames) /\ k \in 1..k
      /\ Top = frames[k] /\ FrameInv(k) /\ 1 \in 1..Depth
      /\ \A i \in 1..k : i = k \/ i \in 1..(k - 1)
  <2>1. Depth \in Nat \ {0} /\ Top = frames[Depth] /\ FrameInv(Depth)
    BY Stacked
  <2> QED  BY <2>1 DEF Depth
<1>2. /\ \A i \in 1..(k - 1) : SameButDir(frames'[i], frames[i])
      /\ SameButDir(frames'[k], g)
      /\ parted' = Together => /\ parted = Together /\ frames'[k] = g
                               /\ \A i \in 1..(k - 1) : frames'[i] = frames[i]
  BY DEF TopBecomes
<1>3. \A i \in 1..(k - 1) : FrameInv(i)'
  <2>1. Kept(k - 1) /\ StillApart
    BY <1>2 DEF Kept, StillApart
  <2> QED  BY <1>1, <2>1, KeptFrames
<1>4. SameTemplate(frames'[k], frames[k])
  BY <1>1, <1>2 DEF SameButDir, SameTemplate
<1>5. /\ \A i \in 1..(k - 1) : Names(frames'[i]) = Names(frames[i])
      /\ \A i \in 1..k : frames'[i].unit = frames[i].unit /\ frames'[i].via = frames[i].via
  <2>1. \A i \in 1..(k - 1) : Names(frames'[i]) = Names(frames[i])
    BY <1>2 DEF SameButDir, Names, Bindings, OpenLoops
  <2>2. \A i \in 1..k : frames'[i].unit = frames[i].unit /\ frames'[i].via = frames[i].via
    BY <1>1, <1>2, <1>4 DEF SameButDir, SameTemplate
  <2> QED  BY <2>1, <2>2
<1>6. /\ Leaked(k)' = Leaked(k) /\ OptionsSeen(k)' = OptionsSeen(k)
      /\ OwnDir(k)' = OwnDir(k) /\ OwnInlines(k)' = OwnInlines(k)
      /\ ConstsOf(k)' = ConstsOf(k)
  <2>1. frames[1].via # "inline"
    BY <1>1 DEF ScriptInv, FrameInv, Includes
  <2> QED  BY <1>1, <1>5, <2>1, OuterKept
<1>7. Shaped(frames[k], Leaked(k))'
  <2>1. Shaped(frames'[k], Leaked(k))
    BY <1>2, SameShape
  <2> QED  BY <1>6, <2>1
<1>8. Whole(k)'
  BY <1>1, <1>4, <1>7 DEF FrameInv, Whole, IsWhole, Shaped, SameTemplate, SameBase
<1>9. Own(k)' /\ Options(k)' /\ Includes(k)'
  BY <1>1, <1>4, <1>6 DEF FrameInv, Own, Options, Includes, SameTemplate, SameBase
<1>10. Indexes(frames[k], frames[k].rec.metas)'
  BY <1>2, SameShape DEF SameButDir
<1>11. parted' = Together => InStep(frames[k])'
  BY <1>2
<1>12. FrameInv(k)'
  BY <1>7, <1>8, <1>9, <1>10, <1>11 DEF FrameInv
<1>13. \A i \in 1..k : FrameInv(i)'
  BY <1>1, <1>3, <1>12
<1> QED  BY <1>5, <1>6, <1>13

\* A step that changes the innermost template only, to g.
LEMMA TopStep ==
    ASSUME ScriptInv, frames # <<>>, NEW g, StepsTo(Append(Below, g)),
           SameTemplate(g, Top), Shaped(g, Leaked(Depth)), Indexes(g, g.rec.metas),
           parted' = Together => InStep(g)
    PROVE  ScriptInv'
<1> SUFFICES ASSUME NEW k, k = Depth PROVE ScriptInv'
  OBVIOUS
<1>1. /\ k \in Nat /\ k > 0 /\ k - 1 \in Nat /\ k \in 1..k
      /\ Len(Append(Below, g)) = k /\ Append(Below, g)[k] = g
      /\ \A i \in 1..(k - 1) : Append(Below, g)[i] = frames[i] /\ i \in 1..k
  BY Stacked
<1>2. IsList(frames') /\ Len(frames') = k /\ TopBecomes(g, k)
  BY <1>1 DEF StepsTo, TopBecomes
<1>3. \A i \in 1..k : FrameInv(i)'
  BY <1>2, TopKept
<1> QED  BY <1>2, <1>3 DEF ScriptInv, Depth

\* Nothing changes but that the renderers may part.
LEMMA NoStep ==
    ASSUME ScriptInv, StepsTo(frames)
    PROVE  ScriptInv'
<1>1. Len(frames) \in Nat /\ Len(frames) <= Len(frames)
  BY DEF ScriptInv, IsList
<1>2. /\ IsList(frames') /\ Len(frames') = Len(frames)
      /\ Kept(Len(frames)) /\ StillApart
  BY DEF StepsTo, Kept, StillApart
<1>3. \A i \in 1..Len(frames) : FrameInv(i)'
  BY <1>1, <1>2, KeptFrames
<1> QED  BY <1>2, <1>3 DEF ScriptInv, Depth

\* The innermost template is left, or all of them.
LEMMA LeaveStep ==
    ASSUME ScriptInv, frames # <<>>, frames' = Below, parted' = parted
    PROVE  ScriptInv'
<1>1. /\ Depth \in Nat \ {0} /\ IsList(Below) /\ Len(Below) = Depth - 1 /\ Depth - 1 \in Nat
      /\ \A i \in 1..(Depth - 1) : Below[i] = frames[i] /\ i \in 1..Depth
      /\ \A i \in 1..Depth : IsFrame(frames[i])
  BY Stacked
<1>2. Kept(Depth - 1) /\ StillApart /\ Depth - 1 <= Len(frames)
  BY <1>1 DEF Kept, StillApart, SameButDir, Depth
<1>3. \A i \in 1..(Depth - 1) : FrameInv(i)'
  BY <1>1, <1>2, KeptFrames
<1>4. IsList(frames') /\ Depth' = Depth - 1
  BY <1>1 DEF Depth
<1> QED  BY <1>3, <1>4 DEF ScriptInv

LEMMA StopStep ==
    ASSUME frames' = <<>>
    PROVE  ScriptInv'
<1>1. IsList(frames') /\ Depth' = 0
  BY EmptyIsList DEF Depth
<1> QED  BY <1>1 DEF ScriptInv

\* What is replaced is a step too.
LEMMA Replaced ==
    ASSUME ScriptInv, frames # <<>>, NEW g, IsFrame(g), Replace(g)
    PROVE  StepsTo(Append(Below, g))
<1>1. AreFrames(Append(Below, g))
  BY Stacked
<1>2. frames' = Append(Below, g) /\ parted' = parted
  BY DEF Replace
<1>3. \A h : IsFrame(h) => SameButDir(h, h)
  BY DEF SameButDir
<1> QED  BY <1>1, <1>2, <1>3 DEF StepsTo, AreFrames

\* What is known of the innermost template.
LEMMA AtTop ==
    ASSUME ScriptInv, frames # <<>>
    PROVE  /\ Shaped(Top, Leaked(Depth)) /\ IsFrame(Top) /\ IsWhole(Top.rec)
           /\ Indexes(Top, Top.rec.metas) /\ Top.unit \in DOMAIN Units
           /\ parted = Together => InStep(Top)
           /\ Top.rec.depth \in Nat /\ IsList(Top.open)
           /\ DOMAIN Top.open = 1..Len(Top.open) /\ Len(Top.open) \in Nat
           /\ Top.open = <<>> <=> Len(Top.open) = 0
<1>1. /\ Top = frames[Depth] /\ FrameInv(Depth) /\ Depth \in Nat
  BY Stacked
<1>2. /\ Shaped(Top, Leaked(Depth)) /\ IsFrame(Top) /\ IsWhole(Top.rec)
      /\ Indexes(Top, Top.rec.metas) /\ Top.unit \in DOMAIN Units
      /\ parted = Together => InStep(Top)
      /\ Top.rec.depth = MaxIncludeDepth + 1 - Depth /\ Depth <= MaxIncludeDepth + 1
  BY <1>1 DEF FrameInv, Whole
<1>3. Top.rec.depth \in Nat
  BY <1>1, <1>2, DepthIsANumber
<1>4. IsList(Top.open)
  BY <1>2 DEF Shaped
<1>5. DOMAIN Top.open = 1..Len(Top.open) /\ Len(Top.open) \in Nat
  BY <1>4 DEF IsList
<1>6. Top.open = <<>> => Len(Top.open) = 0
  BY EmptyIsList
<1>7. Len(Top.open) = 0 => Top.open = <<>>
  BY <1>4 DEF IsList
<1> QED  BY <1>2, <1>3, <1>4, <1>5, <1>6, <1>7

----------------------------------------------------------------------------
(* What the scopes of the recursive renderer become.                       *)

LEMMA SameLists ==
    ASSUME NEW s, NEW t, IsList(s), IsList(t), Len(s) = Len(t),
           \A i \in 1..Len(s) : s[i] = t[i]
    PROVE  s = t
BY DEF IsList

\* The last of one more is replaced.
LEMMA AppendedReplaced ==
    ASSUME NEW s, IsList(s), NEW d, NEW e
    PROVE  [Append(s, d) EXCEPT ![Len(Append(s, d))] = e] = Append(s, e)
<1> DEFINE t == Append(s, d)
           u == [Append(s, d) EXCEPT ![Len(Append(s, d))] = e]
           v == Append(s, e)
           n == Len(s) + 1
<1>1. n \in 1..n /\ \A i \in 1..n : i = n \/ (i # n /\ i \in 1..Len(s))
  BY DEF IsList
<1>2. IsList(t) /\ Len(t) = n /\ \A i \in 1..Len(s) : t[i] = s[i]
  BY Appending
<1>3. IsList(v) /\ Len(v) = n /\ v[n] = e /\ \A i \in 1..Len(s) : v[i] = s[i]
  BY Appending
<1>4. IsList(u) /\ Len(u) = n /\ u[n] = e /\ \A i \in 1..n : i # n => u[i] = t[i]
  <2>1. n \in 1..Len(t) /\ Len(t) = n
    BY <1>1, <1>2
  <2>2. u = [t EXCEPT ![n] = e]
    BY <2>1
  <2> HIDE DEF t, u, n
  <2>3. IsList(t)
    BY <1>2
  <2>4. n \in 1..Len(t)
    BY <2>1
  <2>5. /\ IsList([t EXCEPT ![n] = e]) /\ Len([t EXCEPT ![n] = e]) = Len(t)
        /\ [t EXCEPT ![n] = e][n] = e
        /\ \A i \in 1..Len(t) : i # n => [t EXCEPT ![n] = e][i] = t[i]
    BY ONLY <2>3, <2>4, Replacing
  <2> QED  BY <2>1, <2>2, <2>5
<1> HIDE DEF t, u, v, n
<1>5. u = v
  <2>1. \A i \in 1..n : u[i] = v[i]
    BY <1>1, <1>2, <1>3, <1>4
  <2>2. Len(u) = Len(v) /\ \A i \in 1..Len(u) : u[i] = v[i]
    BY <1>3, <1>4, <2>1
  <2> QED  BY <1>3, <1>4, <2>2, SameLists
<1> QED  BY <1>5 DEF u, v

LEMMA PushedScope ==
    ASSUME NEW s, IsScope(s), NEW layer
    PROVE  /\ SameBase(PushLayer(s, layer), s)
           /\ PushLayer(s, layer).layers = Append(s.layers, layer)
           /\ PushLayer(s, layer).narrowed = Append(s.narrowed, {})
           /\ PushLayer(s, layer).metas = s.metas
<1> DEFINE p == PushLayer(s, layer)
           layers == Append(s.layers, layer)
           narrowed == Append(s.narrowed, {})
<1>1. p = [s EXCEPT !.layers = layers, !.narrowed = narrowed]
  BY DEF PushLayer
<1> HIDE DEF p, layers, narrowed
<1>2. SameBase(p, s) /\ p.layers = layers /\ p.narrowed = narrowed /\ p.metas = s.metas
  BY <1>1 DEF IsScope, SameBase
<1> QED  BY <1>2 DEF p, layers, narrowed

LEMMA NarrowedScope ==
    ASSUME NEW s, IsScope(s), IsList(s.narrowed), NEW layer, NEW n
    PROVE  /\ SameBase(NarrowOption(PushLayer(s, layer), n), s)
           /\ NarrowOption(PushLayer(s, layer), n).layers = Append(s.layers, layer)
           /\ NarrowOption(PushLayer(s, layer), n).narrowed = Append(s.narrowed, {n})
           /\ NarrowOption(PushLayer(s, layer), n).metas = s.metas
<1> DEFINE p == PushLayer(s, layer)
           e == p.narrowed[Len(p.narrowed)] \cup {n}
<1>1. /\ SameBase(p, s) /\ p.layers = Append(s.layers, layer)
      /\ p.narrowed = Append(s.narrowed, {}) /\ p.metas = s.metas
  BY PushedScope
<1>2. e = {n}
  <2>1. Len(Append(s.narrowed, {})) = Len(s.narrowed) + 1 /\ Append(s.narrowed, {})[Len(s.narrowed) + 1] = {}
    BY Appending
  <2>2. p.narrowed[Len(p.narrowed)] = {}
    BY <1>1, <2>1
  <2> QED  BY <2>2
<1>3. [p.narrowed EXCEPT ![Len(p.narrowed)] = e] = Append(s.narrowed, {n})
  <2>1. [Append(s.narrowed, {}) EXCEPT ![Len(Append(s.narrowed, {}))] = e] = Append(s.narrowed, e)
    BY AppendedReplaced
  <2> HIDE DEF p, e
  <2> QED  BY <1>1, <1>2, <2>1
<1>4. NarrowOption(p, n) = [p EXCEPT !.narrowed = [p.narrowed EXCEPT ![Len(p.narrowed)] = e]]
  BY DEF NarrowOption
<1> HIDE DEF p, e
<1>5. /\ SameBase(NarrowOption(p, n), s) /\ NarrowOption(p, n).layers = Append(s.layers, layer)
      /\ NarrowOption(p, n).narrowed = Append(s.narrowed, {n})
      /\ NarrowOption(p, n).metas = s.metas
  BY <1>1, <1>3, <1>4 DEF SameBase, IsScope
<1> QED  BY <1>5 DEF p

\* The first item's layer is pushed empty, then filled.
LEMMA ItemScope ==
    ASSUME NEW s, IsScope(s), IsList(s.layers), NEW b, NEW item, NEW idx
    PROVE  LET t == SetItem(PushLayer(s, Empty), b, item, idx)
           IN  /\ SameBase(t, s) /\ t.layers = Append(s.layers, Single(b, item))
               /\ t.narrowed = Append(s.narrowed, {}) /\ t.metas = Over(Single(b, idx), s.metas)
<1> DEFINE p == PushLayer(s, Empty)
           e == Over(Single(b, item), p.layers[Len(p.layers)])
<1>1. /\ SameBase(p, s) /\ p.layers = Append(s.layers, Empty)
      /\ p.narrowed = Append(s.narrowed, {}) /\ p.metas = s.metas
  BY PushedScope
<1>2. e = Single(b, item)
  <2>1. /\ Len(Append(s.layers, Empty)) = Len(s.layers) + 1
        /\ Append(s.layers, Empty)[Len(s.layers) + 1] = Empty
    BY Appending
  <2>2. p.layers[Len(p.layers)] = Empty
    BY <1>1, <2>1
  <2>3. DOMAIN Empty = {}
    BY DEF Empty
  <2>4. Over(Single(b, item), Empty) = Single(b, item)
    <3>1. DOMAIN Single(b, item) \cup DOMAIN Empty = {b}
      BY <2>3 DEF Single
    <3> QED  BY <2>3, <3>1 DEF Over, Single
  <2> QED  BY <2>2, <2>4
<1>3. [p.layers EXCEPT ![Len(p.layers)] = e] = Append(s.layers, Single(b, item))
  <2>1. [Append(s.layers, Empty) EXCEPT ![Len(Append(s.layers, Empty))] = e] = Append(s.layers, e)
    BY AppendedReplaced
  <2> HIDE DEF p, e
  <2> QED  BY <1>1, <1>2, <2>1
<1>4. SetItem(p, b, item, idx) = [p EXCEPT !.layers = [p.layers EXCEPT ![Len(p.layers)] = e],
                                           !.metas = Over(Single(b, idx), p.metas)]
  BY DEF SetItem
<1> HIDE DEF p, e
<1> DEFINE t == SetItem(p, b, item, idx)
<1>5. /\ SameBase(t, s) /\ t.layers = Append(s.layers, Single(b, item))
      /\ t.narrowed = Append(s.narrowed, {}) /\ t.metas = Over(Single(b, idx), s.metas)
  <2>1. SameBase(t, p) /\ t.narrowed = p.narrowed
    BY <1>1, <1>4 DEF SameBase, IsScope
  <2>2. t.layers = [p.layers EXCEPT ![Len(p.layers)] = e] /\ t.metas = Over(Single(b, idx), p.metas)
    BY <1>1, <1>4 DEF SameBase, IsScope
  <2>3. SameBase(t, s)
    BY <1>1, <2>1 DEF SameBase
  <2> HIDE DEF t
  <2> QED  BY <1>1, <1>3, <2>1, <2>2, <2>3
<1> QED  BY <1>5 DEF p

\* No block goes over an include when another node may follow.
LEMMA NoneEachOpen ==
    ASSUME ScriptInv, frames # <<>>, ~InBlock({"each"})
    PROVE  NoneEach(Top)
<1>1. /\ Shaped(Top, Leaked(Depth)) /\ IsList(Top.open) /\ Len(Top.open) \in Nat
      /\ Top.open = <<>> <=> Len(Top.open) = 0
  BY AtTop
<1> SUFFICES ASSUME NEW j \in 1..Len(Top.open), Top.open[j].kind = "each" PROVE FALSE
  BY DEF NoneEach
<1>2. j = Len(Top.open)
  BY <1>1 DEF Shaped, BlocksOK, BlockOK
<1>3. Last(Top.open).kind = "each" /\ Top.open # <<>>
  <2>1. Last(Top.open) = Top.open[Len(Top.open)]
    BY DEF Last
  <2>2. Len(Top.open) # 0
    BY <1>1, <1>2
  <2> QED  BY <1>1, <1>2, <2>1, <2>2
<1> QED  BY <1>3 DEF InBlock

----------------------------------------------------------------------------
(* Opening a block.                                                        *)

LEMMA OpenedBlock ==
    ASSUME NEW f, IsList(f.open), NoneEach(f), NEW g, NEW b, g.open = Append(f.open, b)
    PROVE  /\ b.kind # "each" => NoneEach(g)
           /\ b.kind # "for" => \A metas : Indexes(f, metas) => Indexes(g, metas)
           /\ b.kind = "for" => \A metas : \A idx :
                 Indexes(f, metas) /\ idx = b.idx - 1
                     => Indexes(g, Over(Single(b.name, idx), metas))
           /\ Len(g.open) = Len(f.open) + 1 /\ g.open[Len(f.open) + 1] = b
           /\ IsList(g.open) /\ \A i \in 1..Len(f.open) : g.open[i] = f.open[i]
<1> DEFINE n == Len(f.open)
<1>1. /\ n \in Nat /\ DOMAIN f.open = 1..n /\ n + 1 \in 1..(n + 1)
      /\ \A i \in 1..(n + 1) : i = n + 1 \/ i \in 1..n
      /\ \A i \in 1..n : i \in 1..(n + 1)
  BY DEF IsList
<1>2. /\ IsList(g.open) /\ Len(g.open) = n + 1 /\ g.open[n + 1] = b
      /\ \A i \in 1..n : g.open[i] = f.open[i]
  BY Appending
<1>3. DOMAIN g.open = 1..(n + 1)
  BY <1>2 DEF IsList
<1>4. b.kind # "each" => NoneEach(g)
  BY <1>1, <1>2 DEF NoneEach
<1>5. ASSUME b.kind # "for", NEW metas, Indexes(f, metas) PROVE Indexes(g, metas)
  <2>1. OpenLoops(g) = OpenLoops(f) /\ \A i \in OpenLoops(f) : g.open[i] = f.open[i]
    <3> HIDE DEF n
    <3> QED  BY <1>1, <1>2, <1>3, <1>5 DEF OpenLoops
  <2> QED  BY <1>5, <2>1, SameIndexes
<1>6. ASSUME b.kind = "for", NEW metas, NEW idx, Indexes(f, metas), idx = b.idx - 1
      PROVE  Indexes(g, Over(Single(b.name, idx), metas))
  <2>1. /\ \A i \in 1..n : i \in DOMAIN f.open /\ g.open[i] = f.open[i]
        /\ \A i \in OpenLoops(f) : i \in 1..n
    BY <1>1, <1>2 DEF OpenLoops
  <2> HIDE DEF n
  <2> QED  BY <1>1, <1>2, <1>3, <1>6, <2>1, LastIndexed
<1> QED  BY <1>2, <1>4, <1>5, <1>6

\* What the constructs open a block with.
OpensAs(b, f) ==
    /\ IsBlock(b) /\ b.idx \in Nat
    /\ b.kind \in {"for", "unwrapped", "some", "arm", "plain"}
    /\ b.kind = "for" => b.name \in Loops /\ BindingIsNew(f, b.name)
    /\ Narrows(b) => b.name \in OptionPaths(f.unit) \cap DOMAIN f.own
    /\ b.kind = "some" => b.name \notin Bindings(f)

\* The option of a Some arm is bound by no loop around it.
LEMMA OpensFree ==
    ASSUME NEW f, NEW g, NEW b, IsList(f.open), g.open = Append(f.open, b),
           b.name \notin Bindings(f)
    PROVE  IsFree(g.open, Len(f.open) + 1)
<1> DEFINE n == Len(f.open)
<1>1. /\ n \in Nat /\ DOMAIN f.open = 1..n /\ g.open[n + 1] = b
      /\ \A i \in 1..n : g.open[i] = f.open[i]
  BY Appending DEF IsList
<1>2. \A i \in 1..((n + 1) - 1) : i \in 1..n
  BY <1>1
<1>3. \A i \in 1..n : f.open[i].kind = "for" => f.open[i].name # b.name
  BY <1>1 DEF Bindings, OpenLoops
<1> HIDE DEF n
<1>4. \A i \in 1..((n + 1) - 1) : g.open[i].kind = "for" => g.open[i].name # g.open[n + 1].name
  BY <1>1, <1>2, <1>3
<1> QED  BY <1>4 DEF IsFree, n

LEMMA PushedStep ==
    ASSUME ScriptInv, frames # <<>>, NoneEach(Top), NEW g, StepsTo(Append(Below, g)),
           SameTemplate(g, Top), NEW b, NEW layer, NEW narrowed,
           Pushed(g, Top, b, layer, narrowed), OpensAs(b, Top),
           LayerFor(b, Top.own, Leaked(Depth), layer, narrowed),
           Indexes(g, g.rec.metas),
           parted' = Together =>
              IsDirect(g.dir) /\ g.dir.base = Top.dir.base /\ Indexes(g, g.dir.metas)
    PROVE  ScriptInv'
<1>1. /\ Shaped(Top, Leaked(Depth)) /\ IsList(Top.open)
      /\ parted = Together => InStep(Top)
  BY AtTop
<1>2. g.open = Append(Top.open, b)
  BY DEF Pushed
<1>3. /\ b.kind # "each" => NoneEach(g)
      /\ g.open[Len(Top.open) + 1] = b
  BY <1>1, <1>2, OpenedBlock
<1>4. BlockOK(g, Len(Top.open) + 1)
  <2>1. b.kind = "some" => IsFree(g.open, Len(Top.open) + 1)
    BY <1>1, <1>2, OpensFree DEF OpensAs
  <2>2. BindingIsNew(Top, b.name) => BindingIsNew(g, b.name)
    BY SameNew
  <2> QED  BY <1>3, <2>1, <2>2 DEF BlockOK, OpensAs, Narrows, SameTemplate
<1>5. Shaped(g, Leaked(Depth))
  BY <1>1, <1>4, PushedShape
<1>6. parted' = Together => InStep(g)
  <2> SUFFICES ASSUME parted' = Together PROVE InStep(g)
    OBVIOUS
  <2>1. parted = Together /\ InStep(Top)
    BY <1>1 DEF StepsTo
  <2>2. g.dir.base = g.rec.base
    BY <2>1 DEF InStep, SameTemplate, SameBase
  <2>3. NoneEach(g)
    BY <1>3 DEF OpensAs
  <2> QED  BY <2>2, <2>3 DEF InStep, NoneEach
<1> QED  BY <1>5, <1>6, TopStep

LEMMA SameTop ==
    ASSUME ScriptInv, frames # <<>>
    PROVE  SameTemplate(Top, Top)
<1>1. Shaped(Top, Leaked(Depth)) /\ IsFrame(Top)
  BY AtTop
<1> QED  BY <1>1 DEF Shaped, SameTemplate, SameBase

\* A loop is entered, or its list is empty.
LEMMA ForKeeps ==
    ASSUME ScriptInv, Opens, NEW n, NEW b \in Loops, BindingIsNew(Top, b), For(n, b)
    PROVE  ScriptInv'
<1> DEFINE rec == ListOr(Resolve(Top.rec, n))
           dir == ListOr(DirectResolve(Top.dir, n))
           g == Opened(Top, b, rec.items)
           c == Block("for", b, rec.items, NoCall)
           item == Str(Head(rec.items))
<1>1. frames # <<>> /\ NoneEach(Top)
  BY NoneEachOpen DEF Opens
<1>2. /\ Shaped(Top, Leaked(Depth)) /\ IsFrame(Top) /\ IsWhole(Top.rec)
      /\ IsScope(Top.rec) /\ IsList(Top.rec.layers) /\ IsList(Top.open)
      /\ Indexes(Top, Top.rec.metas)
      /\ parted = Together => InStep(Top)
  BY <1>1, AtTop DEF Shaped
<1>3. rec.items \in Seq(STRING)
  <2>1. Resolve(Top.rec, n).items \in Seq(STRING)
    BY <1>2, ResolvesToValue DEF IsValue
  <2>2. Throws.items \in Seq(STRING)
    <3>1. <<>> \in Seq(STRING)
      OBVIOUS
    <3> QED  BY <3>1 DEF Throws, Val, Empty
  <2> QED  BY <2>1, <2>2 DEF ListOr
<1>4. Decide("for", rec, dir, Append(Below, g))
  BY DEF For
<1>5. CASE rec.items = Empty
  <2>1. g = Top
    BY <1>5 DEF Opened
  <2>2. AreFrames(Append(Below, g))
    BY <1>1, <1>2, <2>1, Stacked
  <2>3. frames' = <<>> \/ StepsTo(Append(Below, g))
    <3> HIDE DEF rec, dir, g
    <3> QED  BY <1>4, <2>2, Decided DEF Together
  <2>4. parted' = Together /\ StepsTo(Append(Below, g)) => InStep(Top)
    BY <1>2 DEF StepsTo
  <2>5. SameTemplate(Top, Top)
    BY <1>1, SameTop
  <2> HIDE DEF rec, dir, g
  <2> QED  BY <1>1, <1>2, <2>1, <2>3, <2>4, <2>5, TopStep, StopStep
<1>6. CASE rec.items # Empty
  <2>1. g = [Top EXCEPT !.open = Append(Top.open, c),
                        !.rec = SetItem(PushLayer(Top.rec, Empty), b, item, 0),
                        !.dir = Direct(Top.dir, DirectItem(Top.dir, b, item, 0))]
    BY <1>6 DEF Opened
  <2>2. /\ c.kind = "for" /\ c.name = b /\ c.items = rec.items /\ c.idx = 1 /\ IsBlock(c)
    BY DEF Block, IsBlock
  <2>3. /\ rec.items # <<>> /\ Head(rec.items) = rec.items[1]
    BY <1>3, <1>6 DEF Empty
  <2>4. item = Str(c.items[c.idx])
    BY <2>2, <2>3
  <2> DEFINE t == SetItem(PushLayer(Top.rec, Empty), b, item, 0)
  <2>5. /\ SameBase(t, Top.rec) /\ t.layers = Append(Top.rec.layers, Single(b, item))
        /\ t.narrowed = Append(Top.rec.narrowed, {})
        /\ t.metas = Over(Single(b, 0), Top.rec.metas)
    <3>1. IsScope(Top.rec) /\ IsList(Top.rec.layers)
      BY <1>2
    <3> HIDE DEF item
    <3> QED  BY ONLY <3>1, ItemScope
  <2> DEFINE d == Direct(Top.dir, DirectItem(Top.dir, b, item, 0))
  <2> HIDE DEF rec, dir, g, c, item, t, d
  <2>6. /\ IsFrame(g) /\ g.unit = Top.unit /\ g.via = Top.via /\ g.own = Top.own
        /\ g.open = Append(Top.open, c) /\ g.rec = t /\ g.dir = d
    <3>1. g = [Top EXCEPT !.open = Append(Top.open, c), !.rec = t, !.dir = d]
      BY <2>1 DEF t, d
    <3> QED  BY <1>2, <3>1 DEF IsFrame
  <2>7. SameTemplate(g, Top) /\ Pushed(g, Top, c, Single(b, item), {})
    <3>1. Pushes(c)
      BY <2>2 DEF Pushes
    <3> QED  BY <2>5, <2>6, <3>1 DEF SameTemplate, Pushed
  <2>8. AreFrames(Append(Below, g))
    BY <1>1, <2>6, Stacked
  <2>9. frames' = <<>> \/ StepsTo(Append(Below, g))
    BY <1>4, <2>8, Decided DEF Together
  <2>10. LayerFor(c, Top.own, Leaked(Depth), Single(b, item), {})
    <3>1. DOMAIN Single(b, item) = {b} /\ Single(b, item)[b] = item
      BY DEF Single
    <3>2. Shows(Single(b, item))
      BY <2>4, <3>1, LabelsAreNoNames, StringsAreValues DEF Shows
    <3> QED  BY <2>2, <2>4, <3>1, <3>2 DEF LayerFor, Narrows
  <2>11. OpensAs(c, Top)
    BY <1>3, <2>2 DEF OpensAs, Narrows
  <2>12. \A metas : Indexes(Top, metas) => Indexes(g, Over(Single(b, 0), metas))
    <3>1. c.kind = "for" /\ c.name = b /\ 0 = c.idx - 1
      BY <2>2
    <3>2. \A metas : \A idx : Indexes(Top, metas) /\ idx = c.idx - 1
                                  => Indexes(g, Over(Single(c.name, idx), metas))
      BY <1>1, <1>2, <2>6, <3>1, OpenedBlock
    <3> QED  BY <3>1, <3>2
  <2>13. Indexes(g, g.rec.metas)
    BY <1>2, <2>5, <2>6, <2>12
  <2>14. ASSUME parted' = Together, StepsTo(Append(Below, g))
         PROVE  IsDirect(g.dir) /\ g.dir.base = Top.dir.base /\ Indexes(g, g.dir.metas)
    <3>1. parted = Together /\ InStep(Top)
      BY <1>2, <2>14 DEF StepsTo
    <3>2. g.dir = DirectItem(Top.dir, b, item, 0) /\ IsDirect(Top.dir)
      BY <2>6, <3>1 DEF Direct, d, InStep
    <3>3. /\ IsDirect(g.dir) /\ g.dir.base = Top.dir.base
          /\ g.dir.metas = Over(Single(b, 0), Top.dir.metas)
      BY <3>2 DEF IsDirect, DirectItem, DirectPush
    <3> QED  BY <2>12, <3>1, <3>3 DEF InStep
  <2> QED  BY <1>1, <2>7, <2>9, <2>10, <2>11, <2>13, <2>14, PushedStep, StopStep
<1> QED  BY <1>5, <1>6

\* Any block but a loop is opened.
LEMMA BodyStep ==
    ASSUME ScriptInv, frames # <<>>, NoneEach(Top), NEW g, NEW b,
           StepsTo(Append(Below, g)), SameTemplate(g, Top), OpensAs(b, Top), b.kind # "for",
           g.open = Append(Top.open, b), g.rec.metas = Top.rec.metas, g.dir = Top.dir,
           \/ \E layer, narrowed : /\ Pushed(g, Top, b, layer, narrowed)
                                   /\ LayerFor(b, Top.own, Leaked(Depth), layer, narrowed)
           \/ /\ ~Pushes(b) /\ g.rec.layers = Top.rec.layers
              /\ g.rec.narrowed = Top.rec.narrowed
    PROVE  ScriptInv'
<1>1. /\ Shaped(Top, Leaked(Depth)) /\ IsList(Top.open) /\ Indexes(Top, Top.rec.metas)
      /\ parted = Together => InStep(Top)
  BY AtTop
<1>2. /\ b.kind # "each" => NoneEach(g)
      /\ \A metas : Indexes(Top, metas) => Indexes(g, metas)
      /\ g.open[Len(Top.open) + 1] = b
  <2>1. IsList(Top.open) /\ NoneEach(Top) /\ g.open = Append(Top.open, b) /\ b.kind # "for"
    BY <1>1
  <2> QED  BY ONLY <2>1, OpenedBlock
<1>3. Indexes(g, g.rec.metas)
  BY <1>1, <1>2
<1>4. ASSUME parted' = Together
      PROVE  IsDirect(g.dir) /\ g.dir.base = Top.dir.base /\ Indexes(g, g.dir.metas) /\ InStep(Top)
  <2>1. parted = Together
    BY <1>4 DEF StepsTo
  <2> QED  BY <1>1, <1>2, <2>1 DEF InStep
<1>5. CASE \E layer, narrowed : /\ Pushed(g, Top, b, layer, narrowed)
                                /\ LayerFor(b, Top.own, Leaked(Depth), layer, narrowed)
  <2>1. PICK layer, narrowed : /\ Pushed(g, Top, b, layer, narrowed)
                               /\ LayerFor(b, Top.own, Leaked(Depth), layer, narrowed)
    BY <1>5
  <2> QED  BY <1>3, <1>4, <2>1, PushedStep
<1>6. CASE /\ ~Pushes(b) /\ g.rec.layers = Top.rec.layers
           /\ g.rec.narrowed = Top.rec.narrowed
  <2>1. BlockOK(g, Len(Top.open) + 1)
    <3>1. b.kind # "some"
      BY <1>6 DEF Pushes
    <3> QED  BY <1>2, <3>1 DEF BlockOK, OpensAs, Narrows, SameTemplate
  <2>2. Shaped(g, Leaked(Depth))
    BY <1>1, <1>6, <2>1, PlainShape
  <2>3. ASSUME parted' = Together PROVE InStep(g)
    <3>1. g.dir.base = g.rec.base
      BY <1>4, <2>3 DEF InStep, SameTemplate, SameBase
    <3>2. NoneEach(g)
      BY <1>2 DEF OpensAs
    <3> QED  BY <1>4, <2>3, <3>1, <3>2 DEF InStep, NoneEach
  <2> QED  BY <1>3, <2>2, <2>3, TopStep
<1> QED  BY <1>5, <1>6

LEMMA BodyOpens ==
    ASSUME NEW kind \in {"unwrapped", "some", "arm", "plain"}, NEW n, NEW f,
           kind \in {"unwrapped", "some"} => n \in OptionPaths(f.unit) \cap DOMAIN f.own,
           kind = "some" => n \notin Bindings(f)
    PROVE  /\ OpensAs(Body(kind, n), f)
           /\ Body(kind, n).kind = kind /\ Body(kind, n).name = n
BY DEF OpensAs, Body, Block, IsBlock, Narrows

\* An option of the template that no loop hides is one of its own names.
LEMMA OptionIsOwn ==
    ASSUME ScriptInv, frames # <<>>, NEW n \in Names(Top), IsOption(Top, n)
    PROVE  /\ n \in OptionPaths(Top.unit) \cap DOMAIN Top.own /\ n # "Some"
           /\ Means(Top, n) = Top.own[n] /\ n \notin Bindings(Top)
<1>1. n \in OptionPaths(Top.unit) /\ n \notin Bindings(Top) /\ n \in DOMAIN Top.own
  BY DEF IsOption, Names
<1>2. n # "Some"
  <2>1. Top.unit \in DOMAIN Units
    BY AtTop
  <2> QED  BY <1>1, <2>1, LabelsAreNoNames DEF OptionPaths, Declared
<1>3. {i \in OpenLoops(Top) : Top.open[i].name = n} = {}
  BY <1>1 DEF Bindings
<1> QED  BY <1>1, <1>2, <1>3 DEF Means

LEMMA EmptyLayerFor ==
    ASSUME NEW b, b.kind \notin {"for", "some"}, NEW own, NEW hidden
    PROVE  LayerFor(b, own, hidden, Empty, IF Narrows(b) THEN {b.name} ELSE {})
<1>1. DOMAIN Empty = {}
  BY DEF Empty
<1> QED  BY <1>1 DEF LayerFor, Shows

\* The body of a has() is entered, or not.
LEMMA IfHasKeeps ==
    ASSUME ScriptInv, Opens, NEW n \in Names(Top), IsOption(Top, n), IfHas(n)
    PROVE  ScriptInv'
<1> DEFINE rec == Has(Top.rec, n)
           dir == DirectHas(Top.dir, n)
           g == Guarded(Top, n)
<1>1. frames # <<>> /\ NoneEach(Top) /\ IsList(frames) /\ AreFrames(frames)
  <2>1. frames # <<>> /\ NoneEach(Top) /\ IsList(frames)
    BY NoneEachOpen DEF Opens, ScriptInv
  <2>2. \A i \in 1..Depth : IsFrame(frames[i])
    BY <2>1, Stacked
  <2> QED  BY <2>1, <2>2 DEF AreFrames, Depth
<1>2. /\ Shaped(Top, Leaked(Depth)) /\ IsFrame(Top)
      /\ IsScope(Top.rec) /\ IsList(Top.rec.layers) /\ IsList(Top.rec.narrowed)
  BY <1>1, AtTop DEF Shaped
<1>3. n \in OptionPaths(Top.unit) \cap DOMAIN Top.own
  BY <1>1, OptionIsOwn
<1>4. Decide("has", rec, dir, IF rec = Present THEN Append(Below, g) ELSE frames)
  BY DEF IfHas
<1> HIDE DEF rec, dir, g
<1>5. CASE rec # Present
  <2>1. Decide("has", rec, dir, frames)
    BY <1>4, <1>5
  <2>2. frames' = <<>> \/ StepsTo(frames)
    BY <1>1, <2>1, Decided DEF Together
  <2> QED  BY <2>2, NoStep, StopStep
<1>6. CASE rec = Present /\ IsOptionParam(Top.rec, n)
  <2> DEFINE b == Body("unwrapped", n)
             t == NarrowOption(PushLayer(Top.rec, Empty), n)
  <2>1. OpensAs(b, Top) /\ b.kind = "unwrapped" /\ b.name = n
    BY <1>3, BodyOpens
  <2>2. /\ SameBase(t, Top.rec) /\ t.layers = Append(Top.rec.layers, Empty)
        /\ t.narrowed = Append(Top.rec.narrowed, {n}) /\ t.metas = Top.rec.metas
    <3>1. IsScope(Top.rec) /\ IsList(Top.rec.narrowed)
      BY <1>2
    <3> QED  BY ONLY <3>1, NarrowedScope
  <2>3. g = [Top EXCEPT !.open = Append(Top.open, b), !.rec = t]
    BY <1>6 DEF g, Guarded
  <2> HIDE DEF b, t
  <2>4. /\ IsFrame(g) /\ g.unit = Top.unit /\ g.via = Top.via /\ g.own = Top.own
        /\ g.open = Append(Top.open, b) /\ g.rec = t /\ g.dir = Top.dir
    BY <1>2, <2>3 DEF IsFrame
  <2>5. SameTemplate(g, Top) /\ Pushed(g, Top, b, Empty, {n})
    BY <2>1, <2>2, <2>4 DEF SameTemplate, Pushed, Pushes
  <2>6. LayerFor(b, Top.own, Leaked(Depth), Empty, {n})
    <3>1. LayerFor(b, Top.own, Leaked(Depth), Empty, IF Narrows(b) THEN {b.name} ELSE {})
      BY <2>1, EmptyLayerFor
    <3>2. (IF Narrows(b) THEN {b.name} ELSE {}) = {n}
      BY <2>1 DEF Narrows
    <3> QED  BY <3>1, <3>2
  <2>7. frames' = <<>> \/ StepsTo(Append(Below, g))
    <3>1. AreFrames(Append(Below, g))
      BY <1>1, <2>4, Stacked
    <3>2. Decide("has", rec, dir, Append(Below, g))
      BY <1>4, <1>6
    <3> QED  BY <3>1, <3>2, Decided DEF Together
  <2>8. b.kind # "for" /\ g.rec.metas = Top.rec.metas
    BY <2>1, <2>2, <2>4
  <2> QED  BY <1>1, <2>1, <2>4, <2>5, <2>6, <2>7, <2>8, BodyStep, StopStep
<1>7. CASE rec = Present /\ ~IsOptionParam(Top.rec, n)
  <2> DEFINE b == Body("plain", n)
  <2>1. OpensAs(b, Top) /\ b.kind = "plain" /\ b.name = n
    BY BodyOpens
  <2>2. g = [Top EXCEPT !.open = Append(Top.open, b)]
    BY <1>7 DEF g, Guarded
  <2> HIDE DEF b
  <2>3. /\ IsFrame(g) /\ g.unit = Top.unit /\ g.via = Top.via /\ g.own = Top.own
        /\ g.open = Append(Top.open, b) /\ g.rec = Top.rec /\ g.dir = Top.dir
    BY <1>2, <2>2 DEF IsFrame
  <2>4. SameTemplate(g, Top) /\ ~Pushes(b)
    BY <1>2, <2>1, <2>3 DEF SameTemplate, SameBase, Pushes
  <2>5. frames' = <<>> \/ StepsTo(Append(Below, g))
    <3>1. AreFrames(Append(Below, g))
      BY <1>1, <2>3, Stacked
    <3>2. Decide("has", rec, dir, Append(Below, g))
      BY <1>4, <1>7
    <3> QED  BY <3>1, <3>2, Decided DEF Together
  <2>6. b.kind # "for" /\ g.rec.metas = Top.rec.metas
    BY <2>1, <2>3
  <2> QED  BY <1>1, <2>1, <2>3, <2>4, <2>5, <2>6, BodyStep, StopStep
<1> QED  BY <1>5, <1>6, <1>7

\* The arm that is taken is one with a label that matches.
LEMMA ArmTaken ==
    ASSUME NEW s, NEW n, NEW arms \in Matches, NEW rec, rec = MatchArm(s, n, arms),
           rec.t = "arm", NEW i, i = Head(rec.items), i # 0
    PROVE  /\ i \in DOMAIN arms
           /\ \E l \in arms[i].labels : LabelMatches(l, RecVariant(s, n, arms), Resolve(s, l))
<1> DEFINE taken == {j \in DOMAIN arms :
              /\ \E l \in arms[j].labels : LabelMatches(l, RecVariant(s, n, arms), Resolve(s, l))
              /\ arms[j].guard # NoGuard =>
                   Has(ArmScope(s, n, arms[j], RecVariant(s, n, arms)), arms[j].guard) = Present}
<1>1. rec = Throws \/ rec = FirstArm(taken)
  BY DEF MatchArm
<1>2. rec = FirstArm(taken)
  <2>1. Throws.t = "throws"
    BY DEF Throws, Val
  <2> HIDE DEF taken
  <2> QED  BY <1>1, <2>1
<1>3. taken \in SUBSET Nat
  <2>1. arms \in Seq([labels : SUBSET STRING, guard : STRING])
    BY ArmsAreLists
  <2>2. DOMAIN arms \subseteq Nat
    BY <2>1
  <2> QED  BY <2>2
<1>4. i \in taken
  <2> HIDE DEF taken
  <2>1. i = IF taken = {} THEN 0 ELSE Min(taken)
    <3> DEFINE x == IF taken = {} THEN 0 ELSE Min(taken)
    <3>1. rec.items = <<x>>
      <4>1. FirstArm(taken) = Val("arm", "", <<x>>)
        BY DEF FirstArm
      <4> HIDE DEF x
      <4>2. Val("arm", "", <<x>>).items = <<x>>
        BY DEF Val
      <4> QED  BY <1>2, <4>1, <4>2
    <3>2. Head(<<x>>) = x
      <4> HIDE DEF x
      <4> QED  OBVIOUS
    <3> QED  BY <3>1, <3>2
  <2>2. taken # {} /\ i = Min(taken)
    BY <2>1
  <2> QED  BY <1>3, <2>2, MinIs
<1> QED  BY <1>4

\* The arm of a present option alone is taken for one that is present.
LEMMA SomeArm ==
    ASSUME NEW s, IsWhole(s), NEW n, NEW arms \in Matches, NEW i, arms[i].labels = {"Some"},
           \E l \in arms[i].labels : LabelMatches(l, RecVariant(s, n, arms), Resolve(s, l))
    PROVE  RecVariant(s, n, arms) = "Some" /\ Resolve(s, n) # None
<1>1. Resolve(s, "Some") = Undefined
  BY ResolvesToValue
<1>2. Undefined # Str(RecVariant(s, n, arms))
  BY DEF Undefined, Str, Val
<1>3. RecVariant(s, n, arms) = "Some"
  BY <1>1, <1>2 DEF LabelMatches
<1>4. Resolve(s, n) # None
  BY <1>3 DEF RecVariant, VariantName
<1> QED  BY <1>3, <1>4

\* The body of an arm is entered, or the else body.
LEMMA MatchKeeps ==
    ASSUME ScriptInv, Opens, NEW n \in Names(Top), NEW arms \in Matches,
           MatchIsTyped(Top, n, arms), Match(n, arms)
    PROVE  ScriptInv'
<1> DEFINE rec == MatchArm(Top.rec, n, arms)
           dir == DirectMatchArm(Top.dir, n, arms)
           i == Head(rec.items)
           g == InArm(Top, n, arms, i)
           s == Top.rec
<1>1. frames # <<>> /\ NoneEach(Top) /\ IsList(frames) /\ AreFrames(frames)
  <2>1. frames # <<>> /\ NoneEach(Top) /\ IsList(frames)
    BY NoneEachOpen DEF Opens, ScriptInv
  <2>2. \A j \in 1..Depth : IsFrame(frames[j])
    BY <2>1, Stacked
  <2> QED  BY <2>1, <2>2 DEF AreFrames, Depth
<1>2. /\ Shaped(Top, Leaked(Depth)) /\ IsFrame(Top) /\ IsWhole(s)
      /\ IsScope(s) /\ IsList(s.layers) /\ IsList(s.narrowed)
  BY <1>1, AtTop DEF Shaped
<1>3. Decide("match", rec, dir,
             IF rec.t = "arm" /\ i # 0 THEN Append(Below, g) ELSE frames)
  BY DEF Match
<1>4. CASE ~(rec.t = "arm" /\ i # 0)
  <2>1. Decide("match", rec, dir, frames)
    BY <1>3, <1>4
  <2>2. frames' = <<>> \/ StepsTo(frames)
    <3> HIDE DEF rec, dir
    <3> QED  BY <1>1, <2>1, Decided DEF Together
  <2> QED  BY <2>2, NoStep, StopStep
<1>5. CASE rec.t = "arm" /\ i # 0
  <2>1. /\ i \in DOMAIN arms
        /\ \E l \in arms[i].labels : LabelMatches(l, RecVariant(s, n, arms), Resolve(s, l))
    BY <1>5, ArmTaken
  <2>2. Decide("match", rec, dir, Append(Below, g))
    BY <1>3, <1>5
  <2> DEFINE b == Body(IF arms[i].labels = {"Some"} THEN "some" ELSE "arm", n)
             t == ArmScope(s, n, arms[i], RecVariant(s, n, arms))
  <2>3. g = [Top EXCEPT !.open = Append(Top.open, b), !.rec = t]
    BY DEF InArm
  <2> HIDE DEF rec, dir, i, g, b, t
  <2>4. /\ IsFrame(g) /\ g.unit = Top.unit /\ g.via = Top.via /\ g.own = Top.own
        /\ g.open = Append(Top.open, b) /\ g.rec = t /\ g.dir = Top.dir
    BY <1>2, <2>3 DEF IsFrame
  <2>5. frames' = <<>> \/ StepsTo(Append(Below, g))
    <3>1. AreFrames(Append(Below, g))
      BY <1>1, <2>4, Stacked
    <3> QED  BY <2>2, <3>1, Decided DEF Together
  <2>6. CASE arms[i].labels = {"Some"}
    <3> DEFINE layer == Single(n, Resolve(s, n))
    <3>1. RecVariant(s, n, arms) = "Some" /\ Resolve(s, n) # None
      BY <1>2, <2>1, <2>6, SomeArm
    <3>2. t = NarrowOption(PushLayer(s, layer), n)
      BY <2>6, <3>1 DEF t, ArmScope
    <3>3. /\ n \in OptionPaths(Top.unit) \cap DOMAIN Top.own /\ n # "Some"
          /\ Means(Top, n) = Top.own[n] /\ n \notin Bindings(Top)
      <4>1. IsOption(Top, n)
        BY <2>1, <2>6 DEF MatchIsTyped, IsOptionMatchNode
      <4> QED  BY <1>1, <4>1, OptionIsOwn
    <3>4. OpensAs(b, Top) /\ b.kind = "some" /\ b.name = n
      <4>1. b = Body("some", n)
        BY <2>6 DEF b
      <4> QED  BY <3>3, <4>1, BodyOpens
    <3> HIDE DEF layer, s
    <3>5. /\ SameBase(t, s) /\ t.layers = Append(s.layers, layer)
          /\ t.narrowed = Append(s.narrowed, {n}) /\ t.metas = s.metas
      BY <1>2, <3>2, NarrowedScope
    <3>6. SameTemplate(g, Top) /\ Pushed(g, Top, b, layer, {n})
      BY <2>4, <3>4, <3>5 DEF SameTemplate, Pushed, Pushes, s
    <3>7. LayerFor(b, Top.own, Leaked(Depth), layer, {n})
      <4>1. n \notin Leaked(Depth) => Resolve(s, n) = Top.own[n]
        <5>1. Top = frames[Depth] /\ FrameInv(Depth)
          BY <1>1, Stacked
        <5>2. n \in Names(Top) /\ n \notin BoundConsts(Depth)
          BY <3>3, <5>1 DEF Names, BoundConsts
        <5>3. n \notin Leaked(Depth) => Resolve(Top.rec, n) = Means(Top, n)
          BY <5>1, <5>2, SeesOwn DEF FrameInv
        <5> QED  BY <3>3, <5>3 DEF s
      <4>2. DOMAIN layer = {n} /\ layer[n] = Resolve(s, n)
        BY DEF layer, Single
      <4>3. Shows(layer)
        BY <1>2, <3>3, <4>2, ResolvesToValue DEF Shows
      <4> QED  BY <3>4, <4>1, <4>2, <4>3 DEF LayerFor, Narrows
    <3>8. b.kind # "for" /\ g.rec.metas = Top.rec.metas
      BY <2>4, <3>4, <3>5 DEF s
    <3> QED  BY <1>1, <2>4, <2>5, <3>4, <3>6, <3>7, <3>8, BodyStep, StopStep
  <2>7. CASE arms[i].labels # {"Some"}
    <3>1. t = PushLayer(s, Empty)
      BY <2>7 DEF t, ArmScope
    <3>2. OpensAs(b, Top) /\ b.kind = "arm" /\ b.name = n
      <4>1. b = Body("arm", n)
        BY <2>7 DEF b
      <4> QED  BY <4>1, BodyOpens
    <3> HIDE DEF s
    <3>3. /\ SameBase(t, s) /\ t.layers = Append(s.layers, Empty)
          /\ t.narrowed = Append(s.narrowed, {}) /\ t.metas = s.metas
      BY <1>2, <3>1, PushedScope
    <3>4. SameTemplate(g, Top) /\ Pushed(g, Top, b, Empty, {})
      BY <2>4, <3>2, <3>3 DEF SameTemplate, Pushed, Pushes, s
    <3>5. LayerFor(b, Top.own, Leaked(Depth), Empty, {})
      <4>1. LayerFor(b, Top.own, Leaked(Depth), Empty, IF Narrows(b) THEN {b.name} ELSE {})
        BY <3>2, EmptyLayerFor
      <4>2. (IF Narrows(b) THEN {b.name} ELSE {}) = {}
        BY <3>2 DEF Narrows
      <4> QED  BY <4>1, <4>2
    <3>6. b.kind # "for" /\ g.rec.metas = Top.rec.metas
      BY <2>4, <3>2, <3>3 DEF s
    <3> QED  BY <1>1, <2>4, <2>5, <3>2, <3>4, <3>5, <3>6, BodyStep, StopStep
  <2> QED  BY <2>6, <2>7
<1> QED  BY <1>4, <1>5

----------------------------------------------------------------------------
(* Going on to the next item, and closing a block.                         *)

\* The block that is open last.
LEMMA LastBlock ==
    ASSUME ScriptInv, NEW kinds, InBlock(kinds)
    PROVE  /\ frames # <<>> /\ Len(Top.open) \in Nat \ {0}
           /\ Inner = Top.open[Len(Top.open)] /\ Inner.kind \in kinds
           /\ BlockOK(Top, Len(Top.open)) /\ BlocksOK(Top)
           /\ Len(Top.open) - 1 \in Nat /\ (Len(Top.open) - 1) + 1 = Len(Top.open)
<1>1. frames # <<>> /\ Top.open # <<>> /\ Inner.kind \in kinds
  BY DEF InBlock, Inner
<1>2. /\ Shaped(Top, Leaked(Depth)) /\ Len(Top.open) \in Nat
      /\ Top.open = <<>> <=> Len(Top.open) = 0
  BY <1>1, AtTop
<1>3. Len(Top.open) \in Nat \ {0} /\ Len(Top.open) \in 1..Len(Top.open)
  BY <1>1, <1>2
<1>4. BlocksOK(Top) /\ BlockOK(Top, Len(Top.open))
  BY <1>2, <1>3 DEF Shaped, BlocksOK
<1> QED  BY <1>1, <1>3, <1>4 DEF Inner, Last

LEMMA ClosedStep ==
    ASSUME ScriptInv, frames # <<>>, NEW n \in Nat, Len(Top.open) = n + 1, NEW g,
           StepsTo(Append(Below, g)), SameTemplate(g, Top), IsList(g.open), Len(g.open) = n,
           \A j \in 1..n :
              /\ SameBlock(g.open[j], Top.open[j])
              /\ ~g.open[j].reused =>
                    /\ ~Top.open[j].reused
                    /\ Top.open[n + 1].kind = "for" => Top.open[j].name # Top.open[n + 1].name,
           Popped(g, Top, Pushes(Top.open[n + 1])), g.rec.metas = Top.rec.metas,
           parted = Together =>
              /\ IsDirect(Top.dir) => IsDirect(g.dir)
              /\ g.dir.base = Top.dir.base /\ g.dir.metas = Top.dir.metas
    PROVE  ScriptInv'
<1>1. /\ Shaped(Top, Leaked(Depth)) /\ IsList(Top.open) /\ Indexes(Top, Top.rec.metas)
      /\ parted = Together => InStep(Top)
  BY AtTop
<1>2. \A j \in 1..n : SameBlock(g.open[j], Top.open[j])
  OBVIOUS
<1>3. Shaped(g, Leaked(Depth))
  BY <1>1, <1>2, ClosedShape
<1>4. \A metas : Indexes(Top, metas) => Indexes(g, metas)
  <2> SUFFICES ASSUME NEW metas, Indexes(Top, metas) PROVE Indexes(g, metas)
    OBVIOUS
  <2>1. DOMAIN Top.open = 1..(n + 1) /\ DOMAIN g.open = 1..n
    BY <1>1 DEF IsList
  <2>2. \A j \in 1..n :
           /\ g.open[j].kind = Top.open[j].kind /\ g.open[j].name = Top.open[j].name
           /\ g.open[j].idx = Top.open[j].idx
           /\ ~g.open[j].reused =>
                 /\ ~Top.open[j].reused
                 /\ Top.open[n + 1].kind = "for" => Top.open[j].name # Top.open[n + 1].name
    BY DEF SameBlock
  <2>3. n \in Nat /\ Indexes(Top, metas)
    OBVIOUS
  <2> QED  BY ONLY <2>1, <2>2, <2>3, FewerIndexes
<1>5. ASSUME parted' = Together PROVE InStep(g)
  <2>1. parted = Together /\ InStep(Top)
    BY <1>1, <1>5 DEF StepsTo
  <2>2. IsDirect(g.dir) /\ g.dir.base = g.rec.base /\ Indexes(g, g.dir.metas)
    BY <1>4, <2>1 DEF InStep, SameTemplate, SameBase
  <2>3. \A j \in 1..n : g.open[j].kind # "each"
    <3> SUFFICES ASSUME NEW j \in 1..n, g.open[j].kind = "each" PROVE FALSE
      OBVIOUS
    <3>1. j \in 1..(n + 1) /\ j # n + 1 /\ Top.open[j].kind = "each"
      BY <1>2 DEF SameBlock
    <3> QED  BY <1>1, <3>1 DEF Shaped, BlocksOK, BlockOK
  <2> QED  BY <2>2, <2>3 DEF InStep
<1>6. Indexes(g, g.rec.metas)
  BY <1>1, <1>4
<1> QED  BY <1>3, <1>5, <1>6, TopStep

LEMMA PoppedScope ==
    ASSUME NEW s, IsScope(s)
    PROVE  /\ SameBase(PopLayer(s), s) /\ PopLayer(s).layers = Front(s.layers)
           /\ PopLayer(s).narrowed = Front(s.narrowed) /\ PopLayer(s).metas = s.metas
<1> DEFINE p == PopLayer(s)
           layers == Front(s.layers)
           narrowed == Front(s.narrowed)
<1>1. p = [s EXCEPT !.layers = layers, !.narrowed = narrowed]
  BY DEF PopLayer
<1> HIDE DEF p, layers, narrowed
<1>2. SameBase(p, s) /\ p.layers = layers /\ p.narrowed = narrowed /\ p.metas = s.metas
  BY <1>1 DEF IsScope, SameBase
<1> QED  BY <1>2 DEF p, layers, narrowed

\* A has() body, an arm's body or an include is left.
LEMMA FrontStep ==
    ASSUME ScriptInv, NEW kinds, InBlock(kinds), "for" \notin kinds, NEW rec,
           Replace([Top EXCEPT !.open = Front(Top.open), !.rec = rec]),
           SameBase(rec, Top.rec), rec.metas = Top.rec.metas,
           IF Pushes(Inner)
           THEN rec.layers = Front(Top.rec.layers) /\ rec.narrowed = Front(Top.rec.narrowed)
           ELSE rec.layers = Top.rec.layers /\ rec.narrowed = Top.rec.narrowed
    PROVE  ScriptInv'
<1> DEFINE n == Len(Top.open) - 1
           g == [Top EXCEPT !.open = Front(Top.open), !.rec = rec]
<1>1. /\ frames # <<>> /\ n \in Nat /\ Len(Top.open) = n + 1 /\ Len(Top.open) # 0
      /\ Inner = Top.open[n + 1] /\ Inner.kind # "for" /\ BlocksOK(Top)
  BY LastBlock
<1>2. /\ IsFrame(Top) /\ IsList(Top.open)
  BY <1>1, AtTop
<1>3. /\ IsList(Front(Top.open)) /\ Len(Front(Top.open)) = n
      /\ \A j \in 1..n : Front(Top.open)[j] = Top.open[j]
  BY <1>1, <1>2, Fronting
<1>4. /\ IsFrame(g) /\ g.unit = Top.unit /\ g.via = Top.via /\ g.own = Top.own
      /\ g.open = Front(Top.open) /\ g.rec = rec /\ g.dir = Top.dir
  <2> DEFINE o == Front(Top.open)
  <2>1. g = [Top EXCEPT !.open = o, !.rec = rec]
    OBVIOUS
  <2> HIDE DEF g, o
  <2>2. /\ IsFrame(g) /\ g.unit = Top.unit /\ g.via = Top.via /\ g.own = Top.own
        /\ g.open = o /\ g.rec = rec /\ g.dir = Top.dir
    BY <1>2, <2>1 DEF IsFrame
  <2> QED  BY <2>2 DEF o
<1>5. Replace(g)
  OBVIOUS
<1> HIDE DEF g, n
<1>6. StepsTo(Append(Below, g))
  BY <1>1, <1>4, <1>5, Replaced
<1>7. SameTemplate(g, Top)
  BY <1>4 DEF SameTemplate
<1>8. Popped(g, Top, Pushes(Top.open[n + 1]))
  BY <1>1, <1>4 DEF Popped
<1>9. \A j \in 1..n : SameBlock(g.open[j], Top.open[j]) /\ g.open[j] = Top.open[j]
  <2>1. \A j \in 1..n : j \in 1..Len(Top.open)
    BY <1>1
  <2> QED  BY <1>1, <1>3, <1>4, <2>1 DEF SameBlock, BlocksOK, BlockOK
<1>10. /\ IsList(g.open) /\ Len(g.open) = n /\ g.rec.metas = Top.rec.metas
       /\ Top.open[n + 1].kind # "for"
  BY <1>1, <1>3, <1>4
<1> QED  BY <1>1, <1>4, <1>6, <1>7, <1>8, <1>9, <1>10, ClosedStep

LEMMA CloseBlockKeeps ==
    ASSUME ScriptInv, CloseBlock
    PROVE  ScriptInv'
<1> DEFINE kinds == {"unwrapped", "plain", "some", "arm"}
           rec == IF Inner.kind = "plain" THEN Top.rec ELSE PopLayer(Top.rec)
<1>1. InBlock(kinds) /\ "for" \notin kinds
  BY DEF CloseBlock
<1>2. Replace([Top EXCEPT !.open = Front(Top.open), !.rec = rec])
  BY DEF CloseBlock
<1>3. frames # <<>> /\ Inner.kind \in kinds
  BY <1>1, LastBlock
<1>4. IsScope(Top.rec)
  BY <1>3, AtTop DEF Shaped
<1>5. Pushes(Inner) <=> Inner.kind # "plain"
  BY <1>3 DEF Pushes
<1>6. /\ SameBase(rec, Top.rec) /\ rec.metas = Top.rec.metas
      /\ IF Pushes(Inner)
         THEN rec.layers = Front(Top.rec.layers) /\ rec.narrowed = Front(Top.rec.narrowed)
         ELSE rec.layers = Top.rec.layers /\ rec.narrowed = Top.rec.narrowed
  <2>1. SameBase(Top.rec, Top.rec)
    BY <1>4 DEF SameBase
  <2> QED  BY <1>4, <1>5, <2>1, PoppedScope
<1> HIDE DEF kinds, rec
<1> QED  BY <1>1, <1>2, <1>6, FrontStep

LEMMA CloseIncludeKeeps ==
    ASSUME ScriptInv, CloseInclude
    PROVE  ScriptInv'
<1> DEFINE kinds == {"each"}
<1>1. InBlock(kinds) /\ "for" \notin kinds
  BY DEF CloseInclude
<1>2. frames # <<>> /\ Inner.kind = "each"
  BY <1>1, LastBlock
<1>3. IsScope(Top.rec) /\ IsFrame(Top) /\ SameBase(Top.rec, Top.rec)
  BY <1>2, AtTop DEF Shaped, SameBase
<1>4. Replace([Top EXCEPT !.open = Front(Top.open), !.rec = Top.rec])
  <2> DEFINE o == Front(Top.open)
  <2>1. Replace([Top EXCEPT !.open = o])
    BY DEF CloseInclude
  <2>2. [Top EXCEPT !.open = o, !.rec = Top.rec] = [Top EXCEPT !.open = o]
    <3> HIDE DEF o
    <3> QED  BY <1>3 DEF IsFrame
  <2> QED  BY <2>1, <2>2
<1>5. ~Pushes(Inner)
  BY <1>2 DEF Pushes
<1> HIDE DEF kinds
<1> QED  BY <1>1, <1>3, <1>4, <1>5, FrontStep

\* A loop is left.
LEMMA CloseForKeeps ==
    ASSUME ScriptInv, CloseFor
    PROVE  ScriptInv'
<1> DEFINE n == Len(Top.open) - 1
           o == [i \in 1..n |-> IF Top.open[i].name = Inner.name
                                THEN [Top.open[i] EXCEPT !.reused = TRUE] ELSE Top.open[i]]
           rec == PopLayer(Top.rec)
           d == Direct(Top.dir, DirectPop(Top.dir))
           g == [Top EXCEPT !.open = o, !.rec = rec, !.dir = d]
<1>1. /\ frames # <<>> /\ n \in Nat /\ Len(Top.open) = n + 1 /\ Len(Top.open) # 0
      /\ Inner = Top.open[n + 1] /\ Inner.kind = "for" /\ BlocksOK(Top)
  BY LastBlock DEF CloseFor
<1>2. IsFrame(Top) /\ IsScope(Top.rec)
  BY <1>1, AtTop DEF Shaped
<1>3. Replace(g)
  BY DEF CloseFor
<1>4. IsList(o) /\ Len(o) = n
  <2>1. DOMAIN o = 1..n /\ o = [i \in 1..n |-> o[i]]
    OBVIOUS
  <2> HIDE DEF o, n
  <2> QED  BY <1>1, <2>1, Listing
<1>5. \A j \in 1..n :
         /\ SameBlock(o[j], Top.open[j])
         /\ ~o[j].reused => ~Top.open[j].reused /\ Top.open[j].name # Top.open[n + 1].name
  <2> SUFFICES ASSUME NEW j \in 1..n
               PROVE  /\ SameBlock(o[j], Top.open[j])
                      /\ ~o[j].reused =>
                            ~Top.open[j].reused /\ Top.open[j].name # Top.open[n + 1].name
    OBVIOUS
  <2>1. IsBlock(Top.open[j])
    <3>1. j \in 1..Len(Top.open)
      BY <1>1
    <3> QED  BY <1>1, <3>1 DEF BlocksOK, BlockOK
  <2> DEFINE c == Top.open[j]
  <2>2. o[j] = IF c.name = Inner.name THEN [c EXCEPT !.reused = TRUE] ELSE c
    OBVIOUS
  <2> HIDE DEF o, c, n
  <2>3. CASE c.name = Inner.name
    <3>1. o[j] = [c EXCEPT !.reused = TRUE] /\ IsBlock(c)
      BY <2>1, <2>2, <2>3 DEF c
    <3>2. SameBlock(o[j], c) /\ o[j].reused = TRUE
      BY ONLY <3>1 DEF SameBlock, IsBlock
    <3> QED  BY <3>2 DEF c
  <2>4. CASE c.name # Inner.name
    <3>1. o[j] = c /\ SameBlock(c, c)
      BY <2>1, <2>2, <2>4 DEF c, SameBlock
    <3>2. ~c.reused => ~o[j].reused
      BY <3>1
    <3> QED  BY <1>1, <2>4, <3>1 DEF c
  <2> QED  BY <2>3, <2>4
<1>6. /\ SameBase(rec, Top.rec) /\ rec.metas = Top.rec.metas
      /\ rec.layers = Front(Top.rec.layers) /\ rec.narrowed = Front(Top.rec.narrowed)
  BY <1>2, PoppedScope
<1>7. parted = Together =>
         /\ IsDirect(Top.dir) => IsDirect(d)
         /\ IsDirect(Top.dir) => d.base = Top.dir.base /\ d.metas = Top.dir.metas
  <2> DEFINE layers == Front(Top.dir.layers)
  <2>1. parted = Together => d = [Top.dir EXCEPT !.layers = layers]
    BY DEF Direct, DirectPop
  <2> HIDE DEF d, layers
  <2> QED  BY <2>1 DEF IsDirect
<1> HIDE DEF o, rec, d
<1>8. /\ IsFrame(g) /\ g.unit = Top.unit /\ g.via = Top.via /\ g.own = Top.own
      /\ g.open = o /\ g.rec = rec /\ g.dir = d
  <2>1. g = [Top EXCEPT !.open = o, !.rec = rec, !.dir = d]
    OBVIOUS
  <2> HIDE DEF g
  <2> QED  BY <1>2, <2>1 DEF IsFrame
<1> HIDE DEF g, n
<1>9. StepsTo(Append(Below, g))
  BY <1>1, <1>3, <1>8, Replaced
<1>10. SameTemplate(g, Top)
  BY <1>6, <1>8 DEF SameTemplate
<1>11. Popped(g, Top, Pushes(Top.open[n + 1])) /\ g.rec.metas = Top.rec.metas
  <2>1. Pushes(Top.open[n + 1])
    BY <1>1 DEF Pushes
  <2> QED  BY <1>6, <1>8, <2>1 DEF Popped
<1>12. \A j \in 1..n :
         /\ SameBlock(g.open[j], Top.open[j])
         /\ ~g.open[j].reused =>
               /\ ~Top.open[j].reused
               /\ Top.open[n + 1].kind = "for" => Top.open[j].name # Top.open[n + 1].name
  BY <1>5, <1>8
<1>13. IsList(g.open) /\ Len(g.open) = n
  BY <1>4, <1>8
<1>14. parted = Together =>
          /\ IsDirect(Top.dir) => IsDirect(g.dir)
          /\ g.dir.base = Top.dir.base /\ g.dir.metas = Top.dir.metas
  <2>1. parted = Together => IsDirect(Top.dir)
    BY <1>1, AtTop DEF InStep
  <2> QED  BY <1>7, <1>8, <2>1
<1> QED  BY <1>1, <1>9, <1>10, <1>11, <1>12, <1>13, <1>14, ClosedStep

\* A loop goes on to its next item.
LEMMA NextItemKeeps ==
    ASSUME ScriptInv, NextItem
    PROVE  ScriptInv'
<1> DEFINE n == Len(Top.open) - 1
           item == Str(Inner.items[Inner.idx + 1])
           b == [Inner EXCEPT !.idx = Inner.idx + 1, !.reused = FALSE]
           o == [Top.open EXCEPT ![n + 1] = b]
           rec == SetItem(Top.rec, Inner.name, item, Inner.idx)
           d == Direct(Top.dir, DirectItem(DirectPop(Top.dir), Inner.name, item, Inner.idx))
           g == [Top EXCEPT !.open = o, !.rec = rec, !.dir = d]
<1>1. /\ frames # <<>> /\ n \in Nat /\ Len(Top.open) = n + 1 /\ n + 1 \in 1..(n + 1)
      /\ Inner = Top.open[n + 1] /\ Inner.kind = "for"
      /\ IsBlock(Inner) /\ Inner.idx \in Nat
  BY LastBlock DEF NextItem, BlockOK
<1>2. /\ IsFrame(Top) /\ IsScope(Top.rec) /\ IsList(Top.rec.layers) /\ IsList(Top.open)
      /\ Shaped(Top, Leaked(Depth)) /\ Indexes(Top, Top.rec.metas)
      /\ parted = Together => InStep(Top)
  BY <1>1, AtTop DEF Shaped
<1>3. /\ IsBlock(b) /\ b.kind = "for" /\ b.name = Inner.name /\ b.items = Inner.items
      /\ b.idx = Inner.idx + 1 /\ b.idx \in Nat /\ ~b.reused /\ Inner.idx = b.idx - 1
  <2> DEFINE idx == Inner.idx + 1
  <2>0. b = [Inner EXCEPT !.idx = idx, !.reused = FALSE]
    OBVIOUS
  <2> HIDE DEF b, idx
  <2>1. /\ IsBlock(b) /\ b.kind = Inner.kind /\ b.name = Inner.name /\ b.items = Inner.items
        /\ b.idx = Inner.idx + 1 /\ ~b.reused
    BY <1>1, <2>0 DEF IsBlock, idx
  <2> HIDE DEF b
  <2> QED  BY <1>1, <2>1
<1>4. Replace(g)
  <2>1. Replace([Top EXCEPT !.open = [Top.open EXCEPT ![Len(Top.open)] = b],
                            !.rec = rec, !.dir = d])
    BY DEF NextItem
  <2>2. Len(Top.open) = n + 1
    BY <1>1
  <2> HIDE DEF rec, d, b, n
  <2> QED  BY <2>1, <2>2
<1> DEFINE layer == Over(Single(Inner.name, item), Top.rec.layers[Len(Top.rec.layers)])
<1>5. /\ SameBase(rec, Top.rec) /\ rec.narrowed = Top.rec.narrowed
      /\ rec.layers = [Top.rec.layers EXCEPT ![Len(Top.rec.layers)] = layer]
      /\ rec.metas = Over(Single(Inner.name, Inner.idx), Top.rec.metas)
  <2> DEFINE layers == [Top.rec.layers EXCEPT ![Len(Top.rec.layers)] = layer]
             metas == Over(Single(Inner.name, Inner.idx), Top.rec.metas)
  <2>1. rec = [Top.rec EXCEPT !.layers = layers, !.metas = metas]
    BY DEF SetItem
  <2> HIDE DEF rec, layers, metas
  <2>2. /\ SameBase(rec, Top.rec) /\ rec.narrowed = Top.rec.narrowed
        /\ rec.layers = layers /\ rec.metas = metas
    BY <1>2, <2>1 DEF SameBase, IsScope
  <2> QED  BY <2>2 DEF layers, metas
<1>6. DOMAIN layer = {b.name} /\ layer[b.name] = Str(b.items[b.idx])
  <2>1. LayerHolds(Top, Leaked(Depth), n + 1)
    BY <1>1, <1>2 DEF Shaped, Layering, Pushes
  <2>2. LayerOf(Top.open, n + 1) = Len(Top.rec.layers)
    BY <1>1, <1>2 DEF Shaped, Layering
  <2> HIDE DEF n, b, item
  <2>3. DOMAIN Top.rec.layers[Len(Top.rec.layers)] = {Inner.name}
    BY <1>1, <2>1, <2>2 DEF LayerHolds
  <2>4. DOMAIN layer = {Inner.name} /\ layer[Inner.name] = item
    BY <2>3 DEF Over, Single
  <2>5. item = Str(b.items[b.idx])
    BY <1>3 DEF item
  <2> QED  BY <1>3, <2>4, <2>5
<1> HIDE DEF o, rec, d, b, item, layer
<1>7. /\ IsFrame(g) /\ g.unit = Top.unit /\ g.via = Top.via /\ g.own = Top.own
      /\ g.open = o /\ g.rec = rec /\ g.dir = d
  <2>1. g = [Top EXCEPT !.open = o, !.rec = rec, !.dir = d]
    OBVIOUS
  <2> HIDE DEF g
  <2> QED  BY <1>2, <2>1 DEF IsFrame
<1> HIDE DEF g, n
<1>8. StepsTo(Append(Below, g))
  BY <1>1, <1>4, <1>7, Replaced
<1>9. SameTemplate(g, Top)
  BY <1>5, <1>7 DEF SameTemplate
<1>10. NextOf(g, Top, n, b, layer)
  BY <1>1, <1>3, <1>5, <1>6, <1>7 DEF NextOf, o
<1>11. Shaped(g, Leaked(Depth))
  BY <1>1, <1>2, <1>9, <1>10, NextShape
<1>12. /\ IsList(g.open) /\ Len(g.open) = n + 1 /\ g.open[n + 1] = b
       /\ \A i \in 1..(n + 1) : i # n + 1 => g.open[i] = Top.open[i]
  <2>1. /\ IsList([Top.open EXCEPT ![n + 1] = b])
        /\ Len([Top.open EXCEPT ![n + 1] = b]) = Len(Top.open)
        /\ [Top.open EXCEPT ![n + 1] = b][n + 1] = b
        /\ \A i \in 1..Len(Top.open) :
              i # n + 1 => [Top.open EXCEPT ![n + 1] = b][i] = Top.open[i]
    <3>1. IsList(Top.open) /\ n + 1 \in 1..Len(Top.open)
      BY <1>1, <1>2
    <3> QED  BY ONLY <3>1, Replacing
  <2> QED  BY <1>1, <1>7, <2>1 DEF o
<1>13. \A metas : Indexes(Top, metas) => Indexes(g, Over(Single(b.name, Inner.idx), metas))
  <2> SUFFICES ASSUME NEW metas, Indexes(Top, metas)
               PROVE  Indexes(g, Over(Single(b.name, Inner.idx), metas))
    OBVIOUS
  <2>1. DOMAIN g.open = 1..(n + 1) /\ DOMAIN Top.open = 1..(n + 1)
    BY <1>1, <1>2, <1>12 DEF IsList
  <2>2. \A i \in 1..n : i \in DOMAIN Top.open /\ g.open[i] = Top.open[i]
    <3>1. \A i \in 1..n : i \in 1..(n + 1) /\ i # n + 1
      BY <1>1
    <3> QED  BY <1>12, <2>1, <3>1
  <2>3. \A i \in OpenLoops(Top) : i \in 1..n \/ Top.open[i].name = b.name
    <3>1. \A i \in 1..(n + 1) : i \in 1..n \/ i = n + 1
      BY <1>1
    <3> QED  BY <1>1, <1>3, <2>1, <3>1 DEF OpenLoops
  <2>4. /\ n \in Nat /\ g.open[n + 1] = b /\ b.kind = "for" /\ Inner.idx = b.idx - 1
        /\ Indexes(Top, metas)
    BY <1>1, <1>3, <1>12
  <2> QED  BY ONLY <2>1, <2>2, <2>3, <2>4, LastIndexed
<1>14. Indexes(g, g.rec.metas)
  BY <1>2, <1>3, <1>5, <1>7, <1>13
<1>15. ASSUME parted' = Together PROVE InStep(g)
  <2>1. parted = Together /\ InStep(Top)
    BY <1>2, <1>8, <1>15 DEF StepsTo
  <2>2. /\ IsDirect(d) /\ d.base = Top.dir.base
        /\ d.metas = Over(Single(b.name, Inner.idx), Top.dir.metas)
    <3>1. d = DirectItem(DirectPop(Top.dir), Inner.name, item, Inner.idx) /\ IsDirect(Top.dir)
      BY <2>1 DEF d, Direct, InStep
    <3> QED  BY <1>3, <3>1 DEF IsDirect, DirectItem, DirectPush, DirectPop
  <2>3. Indexes(g, g.dir.metas) /\ g.dir.base = g.rec.base /\ IsDirect(g.dir)
    BY <1>5, <1>7, <1>13, <2>1, <2>2 DEF InStep, SameBase
  <2>4. \A j \in 1..(n + 1) : g.open[j].kind # "each"
    <3> SUFFICES ASSUME NEW j \in 1..(n + 1), g.open[j].kind = "each" PROVE FALSE
      OBVIOUS
    <3>1. j # n + 1
      BY <1>3, <1>12
    <3>2. Top.open[j].kind = "each"
      BY <1>12, <3>1
    <3> QED  BY <1>1, <1>2, <3>1, <3>2 DEF Shaped, BlocksOK, BlockOK
  <2> QED  BY <1>12, <2>3, <2>4 DEF InStep
<1> QED  BY <1>1, <1>8, <1>9, <1>11, <1>14, <1>15, TopStep

----------------------------------------------------------------------------
(* An include reaches its target.                                          *)

\* What a call reaches is a template.
LEMMA TargetIsUnit ==
    ASSUME NEW s, IsWhole(s), NEW call, Target(s, call).unit # "missing"
    PROVE  Target(s, call).unit \in DOMAIN Units
<1>1. /\ s.base \in DOMAIN Disk /\ \A n \in DOMAIN s.inlines : s.inlines[n] \in DOMAIN Units
  BY DEF IsWhole
<1>2. CASE call.path # "none"
  <2>1. Target(s, call).unit = Load(s.base, call.path)
    BY <1>2 DEF Target
  <2>2. call.path \in DOMAIN Disk[s.base] /\ Load(s.base, call.path) = Disk[s.base][call.path]
    BY <2>1 DEF Load
  <2> QED  BY <1>1, <2>1, <2>2, UnitsAreWhole
<1>3. CASE call.path = "none" /\ Resolve(s, call.name).t = "tmpl"
  <2>1. Target(s, call).unit = Resolve(s, call.name).v
    BY <1>3 DEF Target
  <2>2. IsValue(Resolve(s, call.name))
    BY ResolvesToValue
  <2> QED  BY <1>3, <2>1, <2>2 DEF IsValue
<1>4. CASE call.path = "none" /\ Resolve(s, call.name).t # "tmpl"
  <2>1. call.name \in DOMAIN s.inlines /\ Target(s, call).unit = s.inlines[call.name]
    BY <1>4 DEF Target
  <2> QED  BY <1>1, <2>1
<1> QED  BY <1>2, <1>3, <1>4

\* The direct renderer finds no template values.
LEMMA SameKind ==
    ASSUME NEW s, NEW d, NEW call
    PROVE  /\ DirectTarget(d, call).via # "value"
           /\ Target(s, call).via # "value" => DirectTarget(d, call).via = Target(s, call).via
           /\ Target(s, call).via \in {"file", "inline", "value"}
BY DEF Target, DirectTarget

LEMMA IncludeKeeps ==
    ASSUME ScriptInv, Opens, NEW call \in Calls, Include(call)
    PROVE  ScriptInv'
<1> DEFINE target == Target(Top.rec, call)
           direct == DirectTarget(Top.dir, call)
           list == Resolve(Top.rec, call.in)
           rec == Reached(Top.rec, target, call, list)
           dir == Reached(Top.dir, direct, call, DirectResolve(Top.dir, call.in))
           b == Block("each", call.name, rec.items, call)
           o == Append(Top.open, b)
           g == [Top EXCEPT !.open = o]
<1>1. frames # <<>> /\ NoneEach(Top)
  BY NoneEachOpen DEF Opens
<1>2. /\ Shaped(Top, Leaked(Depth)) /\ IsFrame(Top) /\ IsWhole(Top.rec)
      /\ IsScope(Top.rec) /\ IsList(Top.open) /\ Indexes(Top, Top.rec.metas)
      /\ Top.rec.depth \in Nat
      /\ parted = Together => InStep(Top)
  BY <1>1, AtTop DEF Shaped
<1>3. Decide("include", rec, dir, Append(Below, g))
  BY DEF Include
<1>4. rec # Throws =>
         /\ target.unit # "missing" /\ Top.rec.depth # 0
         /\ rec.t = target.via
  <2> SUFFICES ASSUME rec # Throws
               PROVE  /\ target.unit # "missing" /\ Top.rec.depth # 0
                      /\ rec.t = target.via
    OBVIOUS
  <2> HIDE DEF target, list
  <2> DEFINE items == IF call.for = NoFor THEN <<"once">> ELSE list.items
  <2>1. /\ target.unit # "missing" /\ Top.rec.depth # 0
        /\ rec = Val(target.via, target.unit, items)
    BY DEF Reached
  <2> HIDE DEF items
  <2> QED  BY <2>1 DEF Val
<1>5. dir # Throws => dir.t = direct.via
  <2> HIDE DEF direct
  <2> QED  BY DEF Reached, Val
<1>6. /\ IsBlock(b) /\ b.kind = "each" /\ b.items = rec.items /\ b.idx = 1 /\ b.call = call
  BY DEF Block, IsBlock
<1> HIDE DEF target, direct, list, rec, dir, b, o
<1>7. /\ IsFrame(g) /\ g.unit = Top.unit /\ g.via = Top.via /\ g.own = Top.own
      /\ g.open = Append(Top.open, b) /\ g.rec = Top.rec /\ g.dir = Top.dir
  <2>1. g = [Top EXCEPT !.open = o]
    OBVIOUS
  <2> HIDE DEF g
  <2>2. /\ IsFrame(g) /\ g.unit = Top.unit /\ g.via = Top.via /\ g.own = Top.own
        /\ g.open = o /\ g.rec = Top.rec /\ g.dir = Top.dir
    BY <1>2, <2>1 DEF IsFrame
  <2> QED  BY <2>2 DEF o
<1> HIDE DEF g
<1>8. \/ frames' = <<>>
      \/ /\ rec # Throws /\ StepsTo(Append(Below, g))
         /\ parted' = Together => rec = dir
  <2>1. AreFrames(Append(Below, g))
    BY <1>1, <1>7, Stacked
  <2> QED  BY <1>3, <2>1, Decided DEF Together
<1>9. CASE rec # Throws /\ StepsTo(Append(Below, g)) /\ (parted' = Together => rec = dir)
  <2>1. SameTemplate(g, Top)
    BY <1>2, <1>7 DEF SameTemplate, SameBase
  <2>2. /\ Len(g.open) = Len(Top.open) + 1 /\ g.open[Len(Top.open) + 1] = b
        /\ \A metas : Indexes(Top, metas) => Indexes(g, metas)
        /\ \A i \in 1..Len(Top.open) : g.open[i] = Top.open[i]
    <3>1. IsList(Top.open) /\ NoneEach(Top) /\ g.open = Append(Top.open, b) /\ b.kind # "for"
      BY <1>1, <1>2, <1>6, <1>7
    <3> QED  BY ONLY <3>1, OpenedBlock
  <2>3. target.unit \in DOMAIN Units
    BY <1>2, <1>4, <1>9, TargetIsUnit DEF target
  <2>4. BlockOK(g, Len(Top.open) + 1)
    <3>1. g.rec.depth > 0 /\ Target(g.rec, b.call).unit \in DOMAIN Units \ {"missing"}
      BY <1>2, <1>4, <1>6, <1>7, <1>9, <2>3 DEF target
    <3>2. b.idx \in Nat
      BY <1>6
    <3> QED  BY <1>6, <2>2, <3>1, <3>2 DEF BlockOK
  <2>5. Shaped(g, Leaked(Depth))
    <3>1. ~Pushes(b) /\ g.rec.layers = Top.rec.layers /\ g.rec.narrowed = Top.rec.narrowed
      BY <1>6, <1>7 DEF Pushes
    <3> QED  BY <1>1, <1>2, <1>7, <2>1, <2>4, <3>1, PlainShape
  <2>6. ASSUME parted' = Together PROVE InStep(g)
    <3>1. parted = Together /\ InStep(Top) /\ rec = dir
      BY <1>2, <1>9, <2>6 DEF StepsTo
    <3>2. target.via # "value"
      <4>1. direct.via # "value"
        BY SameKind DEF direct
      <4>2. rec.t = target.via /\ dir.t = direct.via
        BY <1>4, <1>5, <1>9, <3>1
      <4> QED  BY <3>1, <4>1, <4>2
    <3>3. \A j \in 1..Len(g.open) :
             g.open[j].kind = "each" => Target(g.rec, g.open[j].call).via # "value"
      <4>1. \A j \in 1..Len(g.open) : j = Len(Top.open) + 1 \/ j \in 1..Len(Top.open)
        BY <1>2, <2>2 DEF IsList
      <4>2. \A j \in 1..Len(Top.open) : g.open[j].kind # "each"
        BY <1>1, <2>2 DEF NoneEach
      <4>3. Target(g.rec, b.call).via # "value"
        BY <1>6, <1>7, <3>2 DEF target
      <4> QED  BY <2>2, <4>1, <4>2, <4>3
    <3>4. IsDirect(g.dir) /\ g.dir.base = g.rec.base /\ Indexes(g, g.dir.metas)
      BY <1>7, <2>2, <3>1 DEF InStep
    <3> QED  BY <3>3, <3>4 DEF InStep
  <2>7. Indexes(g, g.rec.metas)
    BY <1>2, <1>7, <2>2
  <2> QED  BY <1>1, <1>9, <2>1, <2>5, <2>6, <2>7, TopStep
<1> QED  BY <1>8, <1>9, StopStep

----------------------------------------------------------------------------
(* An included template is entered.                                        *)

\* Two more elements.
LEMMA TwoMore ==
    ASSUME NEW s, IsList(s), NEW d, NEW e, NEW n \in Nat, Len(s) + 1 = n
    PROVE  /\ IsList(s \o <<d, e>>) /\ Len(s \o <<d, e>>) = n + 1
           /\ \A i \in 1..(n - 1) : (s \o <<d, e>>)[i] = s[i]
           /\ (s \o <<d, e>>)[n] = d /\ (s \o <<d, e>>)[n + 1] = e
<1> DEFINE S == {s[i] : i \in 1..Len(s)} \cup {d, e}
           t == s \o <<d, e>>
<1>1. s \in Seq(S) /\ Len(s) \in Nat
  <2>1. s \in [1..Len(s) -> S]
    BY DEF IsList
  <2> QED  BY <2>1 DEF IsList
<1>2. d \in S /\ e \in S
  OBVIOUS
<1>3. ASSUME NEW T, NEW q \in Seq(T), NEW x \in T, NEW y \in T
      PROVE  /\ q \o <<x, y>> \in Seq(T) /\ Len(q \o <<x, y>>) = Len(q) + 2
             /\ \A i \in 1..Len(q) : (q \o <<x, y>>)[i] = q[i]
             /\ (q \o <<x, y>>)[Len(q) + 1] = x /\ (q \o <<x, y>>)[Len(q) + 2] = y
  OBVIOUS
<1> HIDE DEF S
<1>4. /\ t \in Seq(S) /\ Len(t) = Len(s) + 2
      /\ \A i \in 1..Len(s) : t[i] = s[i]
      /\ t[Len(s) + 1] = d /\ t[Len(s) + 2] = e
  BY <1>1, <1>2, <1>3
<1>5. IsList(t)
  <2>1. \A q \in Seq(S) : Len(q) \in Nat /\ q \in [1..Len(q) -> S]
    BY LenProperties
  <2> HIDE DEF t
  <2> QED  BY <1>4, <2>1 DEF IsList
<1>6. Len(s) = n - 1 /\ Len(s) + 1 = n /\ Len(s) + 2 = n + 1
  BY <1>1
<1> HIDE DEF t
<1>7. /\ IsList(t) /\ Len(t) = n + 1 /\ \A i \in 1..(n - 1) : t[i] = s[i]
      /\ t[n] = d /\ t[n + 1] = e
  BY <1>4, <1>5, <1>6
<1> QED  BY <1>7 DEF t

\* The block of the include goes on.
GoesOn(g, f, n, b) ==
    /\ Len(f.open) = n + 1 /\ f.open[n + 1].kind = "each" /\ g.rec = f.rec
    /\ g.open = [f.open EXCEPT ![n + 1] = b] /\ IsBlock(b) /\ b.idx \in Nat
    /\ b.kind = "each" /\ b.name = f.open[n + 1].name /\ b.call = f.open[n + 1].call

LEMMA GoingOn ==
    ASSUME NEW f, NEW g, NEW hidden, Shaped(f, hidden), SameTemplate(g, f),
           NEW n \in Nat, NEW b, GoesOn(g, f, n, b)
    PROVE  /\ Shaped(g, hidden) /\ OpenLoops(g) = OpenLoops(f)
           /\ \A metas : Indexes(f, metas) => Indexes(g, metas)
           /\ Len(g.open) = n + 1 /\ g.open[n + 1] = b
           /\ \A i \in 1..n : g.open[i] = f.open[i]
           /\ Names(g) = Names(f) /\ Bindings(g) = Bindings(f)
<1>1. /\ IsList(f.open) /\ Len(f.open) = n + 1 /\ n + 1 \in 1..Len(f.open)
      /\ DOMAIN f.open = 1..(n + 1) /\ BlocksOK(f)
      /\ \A i \in 1..(n + 1) : i = n + 1 \/ (i # n + 1 /\ i \in 1..n)
      /\ \A i \in 1..n : i # n + 1 /\ i \in 1..(n + 1)
  BY DEF GoesOn, Shaped, IsList
<1>2. /\ IsList(g.open) /\ Len(g.open) = n + 1 /\ g.open[n + 1] = b
      /\ \A i \in 1..n : g.open[i] = f.open[i]
  <2>1. /\ IsList([f.open EXCEPT ![n + 1] = b])
        /\ Len([f.open EXCEPT ![n + 1] = b]) = Len(f.open)
        /\ [f.open EXCEPT ![n + 1] = b][n + 1] = b
        /\ \A i \in 1..Len(f.open) : i # n + 1 => [f.open EXCEPT ![n + 1] = b][i] = f.open[i]
    <3>1. IsList(f.open) /\ n + 1 \in 1..Len(f.open)
      BY <1>1
    <3> QED  BY ONLY <3>1, Replacing
  <2>2. g.open = [f.open EXCEPT ![n + 1] = b]
    BY DEF GoesOn
  <2> QED  BY <1>1, <2>1, <2>2
<1>3. DOMAIN g.open = 1..(n + 1)
  BY <1>2 DEF IsList
<1>4. \A i \in 1..(n + 1) :
         /\ g.open[i].kind = f.open[i].kind /\ g.open[i].name = f.open[i].name
         /\ g.open[i].kind # "each" => g.open[i] = f.open[i]
  BY <1>1, <1>2 DEF GoesOn
<1>5. OpenLoops(g) = OpenLoops(f) /\ \A i \in OpenLoops(f) : g.open[i] = f.open[i]
  BY <1>1, <1>3, <1>4 DEF OpenLoops
<1>6. \A metas : Indexes(f, metas) => Indexes(g, metas)
  BY <1>5, SameIndexes
<1>7. Names(g) = Names(f) /\ Bindings(g) = Bindings(f)
  BY <1>5 DEF Names, Bindings, SameTemplate
<1>8. \A i \in 1..(n + 1) : LayerOf(g.open, i) = LayerOf(f.open, i)
  <2> SUFFICES ASSUME NEW i \in 1..(n + 1) PROVE LayerOf(g.open, i) = LayerOf(f.open, i)
    OBVIOUS
  <2>1. i \in Nat /\ \A j \in 1..i : j \in 1..(n + 1)
    OBVIOUS
  <2>2. \A j \in 1..i : Pushes(g.open[j]) <=> Pushes(f.open[j])
    BY <1>4, <2>1 DEF Pushes
  <2> QED  BY <2>1, <2>2, LayerOfSame
<1>9. BlocksOK(g)
  <2>1. ASSUME NEW i \in 1..n PROVE BlockOK(g, i)
    <3>1. BlockOK(f, i) /\ f.open[i].kind # "each"
      BY <1>1 DEF BlocksOK, BlockOK
    <3>2. f.open[i].kind = "some" => IsFree(g.open, i)
      <4>1. \A j \in 1..n : g.open[j].kind = f.open[j].kind /\ g.open[j].name = f.open[j].name
        BY <1>2
      <4>2. f.open[i].kind = "some" => IsFree(f.open, i)
        BY <3>1 DEF BlockOK
      <4> QED  BY <4>1, <4>2, StaysFree
    <3>3. \A m : BindingIsNew(f, m) => BindingIsNew(g, m)
      BY SameNew
    <3> QED  BY <1>2, <3>1, <3>2, <3>3 DEF BlockOK, SameTemplate
  <2>2. BlockOK(g, n + 1)
    <3>1. BlockOK(f, n + 1)
      BY <1>1 DEF BlocksOK
    <3> QED  BY <1>1, <1>2, <3>1 DEF BlockOK, GoesOn
  <2> QED  BY <1>1, <1>2, <2>1, <2>2 DEF BlocksOK
<1>10. Layering(g, hidden)
  <2>1. ASSUME NEW i \in 1..(n + 1), Pushes(g.open[i]) PROVE LayerHolds(g, hidden, i)
    <3>1. g.open[i] = f.open[i]
      BY <1>4, <2>1 DEF Pushes
    <3>2. LayerHolds(f, hidden, i)
      BY <1>1, <2>1, <3>1 DEF Shaped, Layering
    <3> QED  BY <1>8, <3>1, <3>2 DEF LayerHolds, GoesOn, SameTemplate
  <2>2. /\ Len(g.rec.layers) = LayerOf(g.open, Len(g.open))
        /\ Len(g.rec.narrowed) = Len(g.rec.layers)
    BY <1>1, <1>2, <1>8 DEF Shaped, Layering, GoesOn
  <2> QED  BY <1>2, <2>1, <2>2 DEF Layering
<1>11. Shaped(g, hidden)
  BY <1>2, <1>9, <1>10 DEF Shaped, GoesOn
<1> QED  BY <1>2, <1>5, <1>6, <1>7, <1>11


\* One map over another.

LEMMA OverShows ==
    ASSUME NEW a, NEW b, Shows(a), Shows(b)
    PROVE  Shows(Over(a, b))
BY DEF Shows, Over

\* What a call passes.
LEMMA PassedShows ==
    ASSUME NEW s, IsWhole(s), NEW call \in Calls, NEW v
    PROVE  Shows(Passed(call, Str(v), [p \in DOMAIN call.with |-> Resolve(s, call.with[p])]))
<1> DEFINE mapped == [p \in DOMAIN call.with |-> Resolve(s, call.with[p])]
           one == Single(call.for, Str(v))
<1>1. Shows(mapped)
  <2>1. \A p \in DOMAIN mapped : mapped[p] = Resolve(s, call.with[p])
    OBVIOUS
  <2>2. "Some" \notin DOMAIN mapped
    BY LabelsAreNoNames
  <2> HIDE DEF mapped
  <2> QED  BY <2>1, <2>2, ResolvesToValue DEF Shows
<1>2. Shows(one)
  <2>1. DOMAIN one = {call.for} /\ one[call.for] = Str(v)
    BY DEF Single
  <2>2. "Some" # call.for
    BY LabelsAreNoNames
  <2> HIDE DEF one
  <2> QED  BY <2>1, <2>2, StringsAreValues DEF Shows
<1> HIDE DEF mapped, one
<1>3. Shows(Over(mapped, one))
  BY <1>1, <1>2, OverShows
<1> QED  BY <1>1, <1>3 DEF Passed, mapped, one

\* What a template brings along.
LEMMA UnitShows ==
    ASSUME NEW u \in DOMAIN Units
    PROVE  /\ Shows(Units[u].consts) /\ Shows(Defaults(u))
           /\ Shows([p \in OptionPaths(u) |-> None])
           /\ \A n \in DOMAIN Inlines(u) : Inlines(u)[n] \in DOMAIN Units
           /\ Units[u].dir \in DOMAIN Disk
<1>1. /\ "Some" \notin DOMAIN Units[u].params \cup DOMAIN Units[u].consts
      /\ \A n \in DOMAIN Units[u].consts : IsValue(Units[u].consts[n])
      /\ \A p \in DOMAIN Units[u].params : IsValue(Units[u].params[p].default)
      /\ \A n \in DOMAIN Units[u].inlines : Units[u].inlines[n] \in DOMAIN Units
      /\ Units[u].dir \in DOMAIN Disk
  BY UnitsAreWhole, LabelsAreNoNames DEF Declared
<1>2. Shows(Units[u].consts)
  BY <1>1 DEF Shows
<1>3. Shows(Defaults(u))
  BY <1>1 DEF Shows, Defaults
<1>4. Shows([p \in OptionPaths(u) |-> None])
  <2>1. IsValue(None)
    <3>1. <<>> \in Seq(STRING)
      OBVIOUS
    <3> QED  BY <3>1 DEF None, Val, Empty, IsValue
  <2> QED  BY <1>1, <2>1 DEF Shows, OptionPaths
<1> QED  BY <1>1, <1>2, <1>3, <1>4 DEF Inlines

\* The scope an included template starts with.
LEMMA IncludedScopeIs ==
    ASSUME NEW s, IsWhole(s), NEW t, t.via \in {"file", "inline", "value"},
           t.unit \in DOMAIN Units, NEW passed, Shows(passed), NEW r,
           r = IncludedScope(s, t, passed)
    PROVE  /\ IsScope(r) /\ IsWhole(r) /\ r.depth = s.depth - 1
           /\ r.layers = Empty /\ r.narrowed = Empty /\ r.metas = Empty
           /\ r.ctx = IF t.via = "value" THEN passed ELSE ChildContext(t.unit, passed)
           /\ r.consts = Over(Units[t.unit].consts,
                              IF t.via = "value" THEN s.consts ELSE AllValues(s))
           /\ r.options = OptionPaths(t.unit) \cup (IF t.via = "value" THEN s.options ELSE {})
           /\ r.inlines = IF t.via = "inline" THEN s.inlines ELSE Inlines(t.unit)
           /\ r.base = IF t.via = "file" \/ (t.via = "value" /\ Units[t.unit].dir # "none")
                       THEN Units[t.unit].dir ELSE s.base
<1>1. /\ IsScope(r) /\ r.depth = s.depth - 1
      /\ r.layers = Empty /\ r.narrowed = Empty /\ r.metas = Empty
      /\ r.ctx = IF t.via = "value" THEN passed ELSE ChildContext(t.unit, passed)
      /\ r.consts = Over(Units[t.unit].consts,
                         IF t.via = "value" THEN s.consts ELSE AllValues(s))
      /\ r.options = OptionPaths(t.unit) \cup (IF t.via = "value" THEN s.options ELSE {})
      /\ r.inlines = IF t.via = "inline" THEN s.inlines ELSE Inlines(t.unit)
      /\ r.base = IF t.via = "file" \/ (t.via = "value" /\ Units[t.unit].dir # "none")
                  THEN Units[t.unit].dir ELSE s.base
  <2>1. CASE t.via = "file"
    <3>1. r = FileScope(s, t.unit, passed)
      BY <2>1 DEF IncludedScope
    <3> QED  BY <2>1, <3>1 DEF FileScope, Scope, IsScope, MergeConsts
  <2>2. CASE t.via = "inline"
    <3>1. r = InlineScope(s, t.unit, passed)
      BY <2>2 DEF IncludedScope
    <3> QED  BY <2>2, <3>1 DEF InlineScope, Scope, IsScope, MergeConsts
  <2>3. CASE t.via = "value"
    <3>1. r = ValueScope(s, t.unit, passed)
      BY <2>3 DEF IncludedScope
    <3> QED  BY <2>3, <3>1 DEF ValueScope, Scope, IsScope
  <2> QED  BY <2>1, <2>2, <2>3
<1>2. IsWhole(r)
  <2>1. /\ Shows(Units[t.unit].consts) /\ Shows(Defaults(t.unit))
        /\ Shows([p \in OptionPaths(t.unit) |-> None])
        /\ \A n \in DOMAIN Inlines(t.unit) : Inlines(t.unit)[n] \in DOMAIN Units
        /\ Units[t.unit].dir \in DOMAIN Disk
    BY UnitShows
  <2>2. Shows(ChildContext(t.unit, passed))
    <3>1. Shows(Over(Defaults(t.unit), [p \in OptionPaths(t.unit) |-> None]))
      BY <2>1, OverShows
    <3> QED  BY <3>1, OverShows DEF ChildContext
  <2>3. /\ Shows(s.consts) /\ s.base \in DOMAIN Disk
        /\ \A n \in DOMAIN s.inlines : s.inlines[n] \in DOMAIN Units
    BY DEF IsWhole
  <2>4. Shows(AllValues(s))
    BY AllValuesAreValues
  <2>5. Shows(r.ctx)
    BY <1>1, <2>2
  <2>6. Shows(r.consts)
    <3>1. PICK outer : /\ outer = IF t.via = "value" THEN s.consts ELSE AllValues(s)
                       /\ r.consts = Over(Units[t.unit].consts, outer)
      BY <1>1
    <3>2. Shows(outer)
      BY <2>3, <2>4, <3>1
    <3> QED  BY <2>1, <3>1, <3>2, OverShows
  <2>7. r.base \in DOMAIN Disk
    BY <1>1, <2>1, <2>3
  <2>8. \A n \in DOMAIN r.inlines : r.inlines[n] \in DOMAIN Units
    BY <1>1, <2>1, <2>3
  <2>9. IsList(r.layers) /\ Len(r.layers) = 0
    BY <1>1, EmptyIsList DEF Empty
  <2> QED  BY <2>5, <2>6, <2>7, <2>8, <2>9 DEF IsWhole
<1> QED  BY <1>1, <1>2

\* No block is open yet.
LEMMA FreshShape ==
    ASSUME NEW f, IsScope(f.rec), f.rec.layers = <<>>, f.rec.narrowed = <<>>, f.open = <<>>
    PROVE  \A hidden, metas : Shaped(f, hidden) /\ Indexes(f, metas)
<1> SUFFICES ASSUME NEW hidden, NEW metas PROVE Shaped(f, hidden) /\ Indexes(f, metas)
  OBVIOUS
<1>1. /\ IsList(f.rec.layers) /\ IsList(f.rec.narrowed) /\ IsList(f.open)
      /\ Len(f.rec.layers) = 0 /\ Len(f.rec.narrowed) = 0 /\ Len(f.open) = 0
      /\ DOMAIN f.open = {}
  BY EmptyIsList
<1>2. LayerOf(f.open, Len(f.open)) = 0
  BY <1>1, NoLayers
<1>3. BlocksOK(f) /\ Layering(f, hidden)
  BY <1>1, <1>2 DEF BlocksOK, Layering
<1>4. Shaped(f, hidden)
  BY <1>1, <1>3 DEF Shaped
<1> QED  BY <1>1, <1>4 DEF Indexes, OpenLoops

\* What one more template gets from those around it.
LEMMA OneInside ==
    ASSUME NEW k \in Nat, k > 0, frames'[1].via # "inline"
    PROVE  /\ Leaked(k + 1)' = (Leaked(k)' \cup HandedOn(k)') \ ConstsOf(k + 1)'
           /\ OptionsSeen(k + 1)' = OptionPaths(frames'[k + 1].unit)
                 \cup (IF frames'[k + 1].via = "value" THEN OptionsSeen(k)' ELSE {})
           /\ OwnDir(k + 1)' = IF /\ frames'[k + 1].via # "inline"
                                  /\ Units[frames'[k + 1].unit].dir # "none"
                               THEN Units[frames'[k + 1].unit].dir ELSE OwnDir(k)'
           /\ OwnInlines(k + 1)' = IF frames'[k + 1].via # "inline"
                                   THEN Inlines(frames'[k + 1].unit) ELSE OwnInlines(k)'
<1>0. /\ k + 1 \in Nat /\ (k + 1) - 1 = k /\ 1..(k + 1) = 1..k \cup {k + 1}
      /\ k \in 1..k /\ 1..k = 1..(k - 1) \cup {k} /\ (k + 1)..(k + 1) = {k + 1}
      /\ \A j \in 1..k : (j + 1)..(k + 1) = (j + 1)..k \cup {k + 1}
      /\ (k + 1)..k = {} /\ ((k + 1) + 1)..(k + 1) = {}
  OBVIOUS
<1>1. Leaked(k + 1)' = (Leaked(k)' \cup HandedOn(k)') \ ConstsOf(k + 1)'
  <2>1. \A n : n \in Leaked(k + 1)' <=>
            \E j \in 1..k : n \in HandedOn(j)' /\ \A m \in (j + 1)..(k + 1) : n \notin ConstsOf(m)'
    BY <1>0 DEF Leaked
  <2>2. \A n : n \in Leaked(k)' <=>
            \E j \in 1..(k - 1) : n \in HandedOn(j)' /\ \A m \in (j + 1)..k : n \notin ConstsOf(m)'
    BY DEF Leaked
  <2>3. ASSUME NEW n
        PROVE  n \in Leaked(k + 1)' <=>
                  n \in (Leaked(k)' \cup HandedOn(k)') \ ConstsOf(k + 1)'
    <3>1. \A j \in 1..k : (\A m \in (j + 1)..(k + 1) : n \notin ConstsOf(m)')
             <=> n \notin ConstsOf(k + 1)' /\ \A m \in (j + 1)..k : n \notin ConstsOf(m)'
      BY <1>0
    <3>2. \A m \in (k + 1)..k : n \notin ConstsOf(m)'
      BY <1>0
    <3> QED  BY <1>0, <2>1, <2>2, <3>1, <3>2
  <2> QED  BY <2>3
<1>2. OptionsSeen(k + 1)' = OptionPaths(frames'[k + 1].unit)
         \cup (IF frames'[k + 1].via = "value" THEN OptionsSeen(k)' ELSE {})
  <2> DEFINE S == {i \in 1..(k + 1) : \A m \in (i + 1)..(k + 1) : frames'[m].via = "value"}
             T == {i \in 1..k : \A m \in (i + 1)..k : frames'[m].via = "value"}
  <2>1. S = {k + 1} \cup (IF frames'[k + 1].via = "value" THEN T ELSE {})
    <3>1. k + 1 \in S
      BY <1>0
    <3>2. \A i \in 1..k : i \in S <=> frames'[k + 1].via = "value" /\ i \in T
      BY <1>0
    <3>3. S \subseteq 1..k \cup {k + 1} /\ T \subseteq 1..k
      BY <1>0
    <3> HIDE DEF S, T
    <3> QED  BY <3>1, <3>2, <3>3
  <2>2. /\ OptionsSeen(k + 1)' = UNION {OptionPaths(frames'[j].unit) : j \in S}
        /\ OptionsSeen(k)' = UNION {OptionPaths(frames'[j].unit) : j \in T}
    BY DEF OptionsSeen
  <2> HIDE DEF S, T
  <2> QED  BY <2>1, <2>2
<1>3. OwnDir(k + 1)' = IF /\ frames'[k + 1].via # "inline"
                          /\ Units[frames'[k + 1].unit].dir # "none"
                       THEN Units[frames'[k + 1].unit].dir ELSE OwnDir(k)'
  <2> DEFINE S == {j \in 1..(k + 1) : frames'[j].via # "inline" /\ Units[frames'[j].unit].dir # "none"}
             T == {j \in 1..k : frames'[j].via # "inline" /\ Units[frames'[j].unit].dir # "none"}
  <2>1. FilesUpTo(k + 1)' = S /\ FilesUpTo(k)' = T
    BY DEF FilesUpTo
  <2>2. CASE k + 1 \in S
    <3>1. Max(S) = k + 1
      <4>1. S \in SUBSET Nat /\ \A j \in S : j <= k + 1
        OBVIOUS
      <4> HIDE DEF S
      <4> QED  BY <2>2, <4>1, MaxIs
    <3>2. S # {}
      BY <2>2
    <3>3. frames'[k + 1].via # "inline" /\ Units[frames'[k + 1].unit].dir # "none"
      BY <2>2
    <3> HIDE DEF S, T
    <3> QED  BY <2>1, <3>1, <3>2, <3>3 DEF OwnDir
  <2>3. CASE k + 1 \notin S
    <3>1. S = T
      BY <1>0, <2>3
    <3>2. ~ (frames'[k + 1].via # "inline" /\ Units[frames'[k + 1].unit].dir # "none")
      BY <1>0, <2>3
    <3> HIDE DEF S, T
    <3> QED  BY <2>1, <3>1, <3>2 DEF OwnDir
  <2> QED  BY <2>2, <2>3
<1>4. OwnInlines(k + 1)' = IF frames'[k + 1].via # "inline"
                           THEN Inlines(frames'[k + 1].unit) ELSE OwnInlines(k)'
  <2> DEFINE S == {j \in 1..(k + 1) : frames'[j].via # "inline"}
             T == {j \in 1..k : frames'[j].via # "inline"}
  <2>1. /\ OwnInlines(k + 1)' = Inlines(frames'[Max(S)].unit)
        /\ OwnInlines(k)' = Inlines(frames'[Max(T)].unit)
    BY DEF OwnInlines
  <2>2. CASE k + 1 \in S
    <3>1. Max(S) = k + 1
      <4>1. S \in SUBSET Nat /\ \A j \in S : j <= k + 1
        OBVIOUS
      <4> HIDE DEF S
      <4> QED  BY <2>2, <4>1, MaxIs
    <3>2. frames'[k + 1].via # "inline"
      BY <2>2
    <3> HIDE DEF S, T
    <3> QED  BY <2>1, <3>1, <3>2
  <2>3. CASE k + 1 \notin S
    <3>1. S = T
      BY <1>0, <2>3
    <3>2. frames'[k + 1].via = "inline"
      BY <1>0, <2>3
    <3> HIDE DEF S, T
    <3> QED  BY <2>1, <3>1, <3>2
  <2> QED  BY <2>2, <2>3
<1> QED  BY <1>1, <1>2, <1>3, <1>4

\* The names an included template gets from the one it is in.
LEMMA HandedNames ==
    ASSUME NEW k, Whole(k), Shaped(frames[k], Leaked(k)), Own(k)
    PROVE  /\ DOMAIN AllValues(frames[k].rec) \subseteq Names(frames[k]) \cup Leaked(k)
           /\ DOMAIN frames[k].rec.consts \subseteq ConstsOf(k) \cup Leaked(k)
<1> DEFINE f == frames[k]
           s == frames[k].rec
<1>1. /\ DOMAIN f.own = ConstsOf(k) \cup DOMAIN s.ctx
      /\ DOMAIN s.consts \subseteq ConstsOf(k) \cup Leaked(k)
  BY DEF Own
<1>2. DOMAIN AllValues(s) = LayerNames(s.layers) \cup DOMAIN s.consts \cup DOMAIN s.ctx
  BY AllValuesAreValues DEF Whole
<1>3. ASSUME NEW n \in LayerNames(s.layers) PROVE n \in Names(f)
  <2>1. PICK r \in DOMAIN s.layers : n \in DOMAIN s.layers[r]
    BY <1>3 DEF LayerNames
  <2>2. DOMAIN s.layers = 1..Len(s.layers)
    BY DEF Shaped, IsList
  <2>3. PICK j \in 1..Len(f.open) : f.open[j].kind \in {"for", "some"} /\ f.open[j].name = n
    BY <2>1, <2>2, HoldersOf
  <2>4. BlockOK(f, j) /\ DOMAIN f.open = 1..Len(f.open)
    BY DEF Shaped, BlocksOK, IsList
  <2>5. CASE f.open[j].kind = "for"
    BY <2>3, <2>4, <2>5 DEF Names, Bindings, OpenLoops
  <2>6. CASE f.open[j].kind = "some"
    BY <2>3, <2>4, <2>6 DEF Names, BlockOK
  <2> QED  BY <2>3, <2>5, <2>6
<1>4. DOMAIN f.own \subseteq Names(f)
  BY DEF Names
<1> HIDE DEF f, s
<1>5. DOMAIN AllValues(s) \subseteq Names(f) \cup Leaked(k)
  BY <1>1, <1>2, <1>3, <1>4
<1> QED  BY <1>1, <1>5 DEF f, s

\* The frame c of a template that is included from the innermost one, k.
EntersAs(c, t, passed, k) ==
    /\ IsFrame(c) /\ c.unit = t.unit /\ c.via = t.via /\ c.open = Empty
    /\ c.own = Over(Units[t.unit].consts,
                    IF t.via = "value" THEN passed ELSE ChildContext(t.unit, passed))
    /\ c.rec = IncludedScope(frames[k].rec, t, passed)

LEMMA EnteredStep ==
    ASSUME ScriptInv, frames # <<>>, NEW k, k = Depth, NEW g, NEW c, NEW t, NEW passed,
           StepsTo(Below \o <<g, c>>), AreFrames(Below \o <<g, c>>),
           SameTemplate(g, Top), g.rec = Top.rec, Names(g) = Names(Top),
           Shaped(g, Leaked(k)), Indexes(g, g.rec.metas),
           parted' = Together => InStep(g) /\ InStep(c),
           t.via \in {"file", "inline", "value"}, t.unit \in DOMAIN Units,
           t.via = "file" => Units[t.unit].dir # "none",
           Shows(passed), Top.rec.depth > 0, EntersAs(c, t, passed, k)
    PROVE  ScriptInv'
<1> DEFINE next == Below \o <<g, c>>
           s == Top.rec
           r == c.rec
<1>1. /\ k \in Nat /\ k > 0 /\ k - 1 \in Nat /\ k \in 1..k /\ k + 1 \in Nat
      /\ Top = frames[k] /\ FrameInv(k) /\ IsList(Below) /\ Len(Below) = k - 1
      /\ \A i \in 1..(k - 1) : Below[i] = frames[i]
      /\ \A i \in 1..(k + 1) : i = k + 1 \/ i \in 1..k
      /\ \A i \in 1..(k - 1) : i \in 1..(k + 1)
      /\ k \in 1..(k + 1) /\ k + 1 \in 1..(k + 1) /\ 1 \in 1..k /\ 1 \in 1..Depth
  BY Stacked
<1>2. /\ Len(next) = k + 1 /\ next[k] = g /\ next[k + 1] = c
      /\ \A i \in 1..(k - 1) : next[i] = frames[i]
  <2>1. (k - 1) + 1 = k
    BY <1>1
  <2>2. /\ Len(next) = k + 1 /\ next[k] = g /\ next[k + 1] = c
        /\ \A i \in 1..(k - 1) : next[i] = Below[i]
    BY <1>1, <2>1, TwoMore
  <2> QED  BY <1>1, <2>2
<1>3. /\ IsList(frames') /\ Len(frames') = k + 1 /\ TopBecomes(g, k)
      /\ SameButDir(frames'[k + 1], c)
      /\ parted' = Together => frames'[k + 1] = c
  <2>1. /\ IsList(frames') /\ Len(frames') = Len(next)
        /\ \A i \in 1..Len(next) : SameButDir(frames'[i], next[i])
        /\ parted' = Together => parted = Together /\ frames' = next
    BY DEF StepsTo
  <2> HIDE DEF next
  <2>2. SameButDir(frames'[k], g) /\ SameButDir(frames'[k + 1], c)
    BY <1>1, <1>2, <2>1
  <2>3. \A i \in 1..(k - 1) : SameButDir(frames'[i], frames[i])
    BY <1>1, <1>2, <2>1
  <2> QED  BY <1>2, <2>1, <2>2, <2>3 DEF TopBecomes
<1>4. /\ \A i \in 1..k : FrameInv(i)'
      /\ Leaked(k)' = Leaked(k) /\ OptionsSeen(k)' = OptionsSeen(k)
      /\ OwnDir(k)' = OwnDir(k) /\ OwnInlines(k)' = OwnInlines(k)
      /\ \A i \in 1..k : frames'[i].unit = frames[i].unit /\ frames'[i].via = frames[i].via
  <2>1. TopBecomes(g, k) /\ (parted' = Together => InStep(g))
    BY <1>3
  <2> QED  BY <2>1, TopKept
<1>5. /\ frames'[k + 1].unit = t.unit /\ frames'[k + 1].via = t.via
      /\ frames'[k + 1].own = c.own /\ frames'[k + 1].rec = r /\ frames'[k + 1].open = Empty
      /\ IsFrame(frames'[k + 1])
  BY <1>3 DEF SameButDir, EntersAs
<1>6. /\ ConstsOf(k)' = ConstsOf(k) /\ ConstsOf(k + 1)' = DOMAIN Units[t.unit].consts
      /\ Names(frames'[k]) = Names(frames[k]) /\ frames'[1].via # "inline"
  <2>1. Names(frames'[k]) = Names(g)
    BY <1>3 DEF TopBecomes, SameButDir, Names, Bindings, OpenLoops
  <2>2. FrameInv(1)
    BY <1>1 DEF ScriptInv
  <2> QED  BY <1>1, <1>4, <1>5, <2>1, <2>2 DEF ConstsOf, FrameInv, Includes
<1>7. /\ Leaked(k + 1)' = (Leaked(k) \cup (IF t.via = "value" THEN ConstsOf(k)
                                            ELSE Names(frames[k]))) \ ConstsOf(k + 1)'
      /\ OptionsSeen(k + 1)' = OptionPaths(t.unit)
            \cup (IF t.via = "value" THEN OptionsSeen(k) ELSE {})
      /\ OwnDir(k + 1)' = IF t.via # "inline" /\ Units[t.unit].dir # "none"
                          THEN Units[t.unit].dir ELSE OwnDir(k)
      /\ OwnInlines(k + 1)' = IF t.via # "inline" THEN Inlines(t.unit) ELSE OwnInlines(k)
  <2>1. HandedOn(k)' = IF t.via = "value" THEN ConstsOf(k) ELSE Names(frames[k])
    BY <1>5, <1>6 DEF HandedOn
  <2>2. /\ Leaked(k + 1)' = (Leaked(k)' \cup HandedOn(k)') \ ConstsOf(k + 1)'
        /\ OptionsSeen(k + 1)' = OptionPaths(frames'[k + 1].unit)
              \cup (IF frames'[k + 1].via = "value" THEN OptionsSeen(k)' ELSE {})
        /\ OwnDir(k + 1)' = IF /\ frames'[k + 1].via # "inline"
                               /\ Units[frames'[k + 1].unit].dir # "none"
                            THEN Units[frames'[k + 1].unit].dir ELSE OwnDir(k)'
        /\ OwnInlines(k + 1)' = IF frames'[k + 1].via # "inline"
                                THEN Inlines(frames'[k + 1].unit) ELSE OwnInlines(k)'
    BY <1>1, <1>6, OneInside
  <2>3. Leaked(k + 1)' = (Leaked(k) \cup (IF t.via = "value" THEN ConstsOf(k)
                                           ELSE Names(frames[k]))) \ ConstsOf(k + 1)'
    BY <1>4, <2>1, <2>2
  <2>4. OptionsSeen(k + 1)' = OptionPaths(t.unit)
           \cup (IF t.via = "value" THEN OptionsSeen(k) ELSE {})
    BY <1>4, <1>5, <2>2
  <2>5. OwnDir(k + 1)' = IF t.via # "inline" /\ Units[t.unit].dir # "none"
                         THEN Units[t.unit].dir ELSE OwnDir(k)
    BY <1>4, <1>5, <2>2
  <2>6. OwnInlines(k + 1)' = IF t.via # "inline" THEN Inlines(t.unit) ELSE OwnInlines(k)
    BY <1>4, <1>5, <2>2
  <2> QED  BY <2>3, <2>4, <2>5, <2>6
<1>8. /\ IsWhole(s) /\ s.depth = MaxIncludeDepth + 1 - k /\ s.depth > 0
      /\ s.options = OptionsSeen(k) /\ s.base = OwnDir(k) /\ s.inlines = OwnInlines(k)
  BY <1>1 DEF FrameInv, Whole, Options, Includes
<1>9. /\ IsScope(r) /\ IsWhole(r) /\ r.depth = s.depth - 1
      /\ r.layers = Empty /\ r.narrowed = Empty /\ r.metas = Empty
      /\ r.ctx = IF t.via = "value" THEN passed ELSE ChildContext(t.unit, passed)
      /\ r.consts = Over(Units[t.unit].consts,
                         IF t.via = "value" THEN s.consts ELSE AllValues(s))
      /\ r.options = OptionPaths(t.unit) \cup (IF t.via = "value" THEN s.options ELSE {})
      /\ r.inlines = IF t.via = "inline" THEN s.inlines ELSE Inlines(t.unit)
      /\ r.base = IF t.via = "file" \/ (t.via = "value" /\ Units[t.unit].dir # "none")
                  THEN Units[t.unit].dir ELSE s.base
  <2>1. r = IncludedScope(s, t, passed)
    BY <1>1 DEF EntersAs
  <2> HIDE DEF r, s
  <2> QED  BY <1>8, <2>1, IncludedScopeIs
<1>10. Whole(k + 1)'
  <2>1. r.depth = MaxIncludeDepth + 1 - (k + 1) /\ k + 1 <= MaxIncludeDepth + 1
    <3>1. s.depth = MaxIncludeDepth + 1 - k /\ s.depth > 0 /\ r.depth = s.depth - 1
      BY <1>8, <1>9
    <3> HIDE DEF r, s
    <3> QED  BY <1>1, <3>1, DepthIsANumber
  <2> QED  BY <1>5, <1>9, <2>1 DEF Whole
<1>11. \A hidden, metas : Shaped(frames'[k + 1], hidden) /\ Indexes(frames'[k + 1], metas)
  <2>1. /\ IsScope(frames'[k + 1].rec) /\ frames'[k + 1].rec.layers = <<>>
        /\ frames'[k + 1].rec.narrowed = <<>> /\ frames'[k + 1].open = <<>>
    BY <1>5, <1>9 DEF Empty
  <2> QED  BY <2>1, FreshShape
<1>12. Own(k + 1)'
  <2> DEFINE own == c.own
             consts == Units[t.unit].consts
             outer == IF t.via = "value" THEN s.consts ELSE AllValues(s)
  <2>1. own = Over(consts, r.ctx) /\ r.consts = Over(consts, outer)
    BY <1>9 DEF EntersAs
  <2>2. DOMAIN outer \subseteq Leaked(k + 1)' \cup ConstsOf(k + 1)'
    <3>1. /\ DOMAIN AllValues(s) \subseteq Names(frames[k]) \cup Leaked(k)
          /\ DOMAIN s.consts \subseteq ConstsOf(k) \cup Leaked(k)
      BY <1>1, HandedNames DEF FrameInv
    <3>2. CASE t.via = "value"
      BY <1>7, <3>1, <3>2
    <3>3. CASE t.via # "value"
      BY <1>7, <3>1, <3>3
    <3> QED  BY <3>2, <3>3
  <2> HIDE DEF own, consts, outer, s, r
  <2>3. /\ DOMAIN own = DOMAIN consts \cup DOMAIN r.ctx
        /\ \A n \in DOMAIN r.ctx \ DOMAIN consts : own[n] = r.ctx[n]
        /\ DOMAIN r.consts = DOMAIN consts \cup DOMAIN outer
        /\ \A n \in DOMAIN consts : r.consts[n] = own[n]
    <3>1. PICK ctx, all : ctx = r.ctx /\ all = r.consts
      OBVIOUS
    <3>2. own = Over(consts, ctx) /\ all = Over(consts, outer)
      BY <2>1, <3>1
    <3>3. /\ DOMAIN own = DOMAIN consts \cup DOMAIN ctx
          /\ \A n \in DOMAIN ctx \ DOMAIN consts : own[n] = ctx[n]
          /\ DOMAIN all = DOMAIN consts \cup DOMAIN outer
          /\ \A n \in DOMAIN consts : all[n] = own[n]
      BY ONLY <3>2 DEF Over
    <3> QED  BY <3>1, <3>3
  <2>4. /\ frames'[k + 1].own = own /\ frames'[k + 1].rec = r
        /\ ConstsOf(k + 1)' = DOMAIN consts
    BY <1>5, <1>6 DEF own, consts, r
  <2> QED  BY <2>2, <2>3, <2>4 DEF Own
<1>13. Options(k + 1)'
  <2>1. r.options = OptionsSeen(k + 1)'
    BY <1>7, <1>8, <1>9
  <2> QED  BY <1>5, <2>1 DEF Options
<1>14. Includes(k + 1)'
  <2>1. r.base = OwnDir(k + 1)' /\ r.inlines = OwnInlines(k + 1)'
    <3>1. CASE t.via = "file"
      BY <1>7, <1>9, <3>1
    <3>2. CASE t.via = "inline"
      BY <1>7, <1>8, <1>9, <3>2
    <3>3. CASE t.via = "value"
      BY <1>7, <1>8, <1>9, <3>3
    <3> QED  BY <3>1, <3>2, <3>3
  <2>2. k + 1 # 1
    BY <1>1
  <2> QED  BY <1>5, <2>1, <2>2 DEF Includes
<1>15. FrameInv(k + 1)'
  <2>1. parted' = Together => InStep(frames'[k + 1])
    BY <1>3
  <2> QED  BY <1>10, <1>11, <1>12, <1>13, <1>14, <2>1 DEF FrameInv
<1> QED  BY <1>1, <1>3, <1>4, <1>15 DEF ScriptInv, Depth

LEMMA EnterIncludedKeeps ==
    ASSUME ScriptInv, EnterIncluded
    PROVE  ScriptInv'
<1> SUFFICES ASSUME NEW k, k = Depth PROVE ScriptInv'
  OBVIOUS
<1> DEFINE n == Len(Top.open) - 1
           call == Inner.call
           item == Str(Inner.items[Inner.idx])
           t == Target(Top.rec, call)
           passed == Passed(call, item, [p \in DOMAIN call.with |-> Resolve(Top.rec, call.with[p])])
           direct ==
               Passed(call, item, [p \in DOMAIN call.with |-> DirectResolve(Top.dir, call.with[p])])
           rec == IF Undefined \in Range(passed) THEN Throws
                  ELSE IF t.via # "value" /\ ~Accepted(t.unit, passed) THEN Refused
                  ELSE Val("entered", t.unit, Empty)
           b == [Inner EXCEPT !.idx = Inner.idx + 1]
           o == [Top.open EXCEPT ![n + 1] = b]
           g == [Top EXCEPT !.open = o]
           c == Included(Top, t, item, passed, direct)
<1>1. /\ frames # <<>> /\ n \in Nat /\ Len(Top.open) = n + 1 /\ n + 1 \in 1..(n + 1)
      /\ Inner = Top.open[n + 1] /\ Inner.kind = "each" /\ BlockOK(Top, n + 1)
      /\ IsBlock(Inner) /\ Inner.idx \in Nat /\ call \in Calls /\ Top.rec.depth > 0
      /\ t.unit \in DOMAIN Units /\ t.unit # "missing"
  <2>1. InBlock({"each"})
    BY DEF EnterIncluded
  <2>2. /\ frames # <<>> /\ n \in Nat /\ n + 1 = Len(Top.open)
        /\ Inner = Top.open[Len(Top.open)] /\ Inner.kind = "each" /\ BlockOK(Top, Len(Top.open))
    BY <2>1, LastBlock
  <2>4. /\ IsBlock(Inner) /\ Inner.idx \in Nat /\ call \in Calls /\ Top.rec.depth > 0
        /\ t.unit \in DOMAIN Units /\ t.unit # "missing"
    BY <2>2 DEF BlockOK
  <2> HIDE DEF n, t, call
  <2>3. Len(Top.open) = n + 1 /\ n + 1 \in 1..(n + 1)
    BY <2>2
  <2> QED  BY <2>2, <2>3, <2>4
<1>2. /\ IsFrame(Top) /\ IsScope(Top.rec) /\ IsWhole(Top.rec)
      /\ IsList(Top.open) /\ Shaped(Top, Leaked(k)) /\ Indexes(Top, Top.rec.metas)
      /\ parted = Together => InStep(Top)
  BY <1>1, AtTop DEF Shaped
<1>3. /\ IsBlock(b) /\ b.kind = "each" /\ b.name = Inner.name /\ b.call = Inner.call
      /\ b.idx \in Nat
  <2> DEFINE idx == Inner.idx + 1
  <2>0. b = [Inner EXCEPT !.idx = idx]
    OBVIOUS
  <2> HIDE DEF b, idx
  <2>1. /\ IsBlock(b) /\ b.kind = Inner.kind /\ b.name = Inner.name /\ b.call = Inner.call
        /\ b.idx = Inner.idx + 1
    BY <1>1, <2>0 DEF IsBlock, idx
  <2> HIDE DEF b
  <2> QED  BY <1>1, <2>1
<1>4. Decide("with", rec, Val("entered", t.unit, Empty), Below \o <<g, c>>)
  <2>1. Decide("with", rec, Val("entered", t.unit, Empty),
               Below \o <<[Top EXCEPT !.open = [Top.open EXCEPT ![Len(Top.open)] = b]], c>>)
    BY DEF EnterIncluded
  <2>2. Len(Top.open) = n + 1
    BY <1>1
  <2> HIDE DEF rec, c, b, n, t
  <2> QED  BY <2>1, <2>2
<1>5. Shows(passed)
  BY <1>1, <1>2, PassedShows
<1>6. t.via \in {"file", "inline", "value"}
  BY SameKind
<1>7. t.via = "file" => Units[t.unit].dir # "none"
  <2> SUFFICES ASSUME t.via = "file" PROVE Units[t.unit].dir # "none"
    OBVIOUS
  <2>1. t.unit = Load(Top.rec.base, call.path)
    <3>1. call.path # "none"
      BY DEF Target
    <3> QED  BY <3>1 DEF Target
  <2>2. Top.rec.base \in DOMAIN Disk
    BY <1>2 DEF IsWhole
  <2>3. CASE call.path \in DOMAIN Disk[Top.rec.base]
    <3>1. t.unit = Disk[Top.rec.base][call.path]
      BY <2>1, <2>3 DEF Load
    <3>2. \A base \in DOMAIN Disk : \A path \in DOMAIN Disk[base] :
             Units[Disk[base][path]].dir # "none"
      BY UnitsAreWhole
    <3> HIDE DEF t, call
    <3> QED  BY <2>2, <2>3, <3>1, <3>2
  <2>4. CASE call.path \notin DOMAIN Disk[Top.rec.base]
    <3>1. t.unit = "missing"
      BY <2>1, <2>4 DEF Load
    <3> QED  BY <1>1, <3>1
  <2> QED  BY <2>3, <2>4
<1>8. EntersAs(c, t, passed, k)
  <2>1. Top = frames[k]
    BY <1>1, Stacked
  <2> HIDE DEF t, passed, direct, item
  <2>2. c.rec = IncludedScope(Top.rec, t, passed)
    BY DEF Included, Frame
  <2>3. /\ IsFrame(c) /\ c.unit = t.unit /\ c.via = t.via /\ c.open = Empty
        /\ c.own = Over(Units[t.unit].consts,
                        IF t.via = "value" THEN passed ELSE ChildContext(t.unit, passed))
    BY DEF Included, Frame, IsFrame
  <2> HIDE DEF c
  <2> QED  BY <2>1, <2>2, <2>3 DEF EntersAs
<1>9. ASSUME parted = Together PROVE InStep(c)
  <2>1. /\ InStep(Top) /\ t.via # "value"
    BY <1>1, <1>2, <1>9 DEF InStep
  <2>2. /\ c.dir = DirectIncluded(Top.dir, DirectTarget(Top.dir, call), direct)
        /\ c.rec = IncludedScope(Top.rec, t, passed) /\ c.open = <<>>
    <3> HIDE DEF t, passed, direct, item
    <3>1. c.dir = DirectIncluded(Top.dir, DirectTarget(Top.dir, call), direct)
      BY <1>9 DEF Included, Frame, Direct, Inner
    <3>2. c.rec = IncludedScope(Top.rec, t, passed) /\ c.open = <<>>
      BY DEF Included, Frame, Empty
    <3> QED  BY <3>1, <3>2
  <2>3. /\ DirectTarget(Top.dir, call).via = t.via
        /\ t.via = "file" => DirectTarget(Top.dir, call).unit = t.unit
    <3>1. DirectTarget(Top.dir, call).via = t.via
      BY <2>1, SameKind
    <3>2. ASSUME t.via = "file" PROVE DirectTarget(Top.dir, call).unit = t.unit
      <4>1. call.path # "none"
        BY <3>2 DEF Target
      <4> QED  BY <2>1, <4>1 DEF Target, DirectTarget, InStep
    <3> QED  BY <3>1, <3>2
  <2>4. c.rec.base = IF t.via = "file" THEN Units[t.unit].dir ELSE Top.rec.base
    <3> HIDE DEF t, passed, c
    <3>1. PICK r : r = c.rec
      OBVIOUS
    <3>2. r = IncludedScope(Top.rec, t, passed)
      BY <2>2, <3>1
    <3>3. r.base = IF t.via = "file" \/ (t.via = "value" /\ Units[t.unit].dir # "none")
                   THEN Units[t.unit].dir ELSE Top.rec.base
      BY <1>1, <1>2, <1>5, <1>6, <3>2, IncludedScopeIs
    <3> QED  BY <2>1, <3>1, <3>3
  <2> HIDE DEF t, passed, direct, item, c
  <2>5. /\ IsDirect(c.dir)
        /\ c.dir.base = IF t.via = "file" THEN Units[t.unit].dir ELSE Top.dir.base
    BY <2>2, <2>3 DEF DirectIncluded, DirectScope, IsDirect
  <2>6. Len(c.open) = 0 /\ DOMAIN c.open = {}
    BY <2>2
  <2> QED  BY <2>1, <2>4, <2>5, <2>6 DEF InStep, Indexes, OpenLoops
<1> HIDE DEF t, passed, direct, item, c, rec, b, o
<1>10. /\ IsFrame(g) /\ g.unit = Top.unit /\ g.via = Top.via /\ g.own = Top.own
       /\ g.open = o /\ g.rec = Top.rec /\ g.dir = Top.dir
  <2>1. g = [Top EXCEPT !.open = o]
    OBVIOUS
  <2> HIDE DEF g
  <2> QED  BY <1>2, <2>1 DEF IsFrame
<1> HIDE DEF g, n
<1>11. SameTemplate(g, Top)
  BY <1>2, <1>10 DEF SameTemplate, SameBase
<1>12. /\ Shaped(g, Leaked(k)) /\ Names(g) = Names(Top)
       /\ \A metas : Indexes(Top, metas) => Indexes(g, metas)
       /\ Len(g.open) = n + 1 /\ g.open[n + 1] = b
       /\ \A i \in 1..n : g.open[i] = Top.open[i]
  <2>1. GoesOn(g, Top, n, b)
    BY <1>1, <1>3, <1>10 DEF GoesOn, o
  <2> QED  BY <1>1, <1>2, <1>11, <2>1, GoingOn
<1>13. ASSUME parted = Together PROVE InStep(g)
  <2>1. InStep(Top)
    BY <1>2, <1>13
  <2>2. \A j \in 1..(n + 1) :
           g.open[j].kind = "each" => Target(g.rec, g.open[j].call).via # "value"
    <3>1. \A j \in 1..(n + 1) : j = n + 1 \/ j \in 1..n
      BY <1>1
    <3>2. \A j \in 1..n : j \in 1..Len(Top.open)
      BY <1>1
    <3> QED  BY <1>1, <1>3, <1>10, <1>12, <2>1, <3>1, <3>2 DEF InStep
  <2> QED  BY <1>10, <1>12, <2>1, <2>2 DEF InStep
<1>14. AreFrames(Below \o <<g, c>>)
  <2>0. /\ k \in Nat /\ k - 1 \in Nat /\ IsList(Below) /\ Len(Below) = k - 1
        /\ \A i \in 1..(k - 1) : IsFrame(Below[i])
    BY <1>1, Stacked
  <2>1. (k - 1) + 1 = k /\ \A i \in 1..(k + 1) : i = k + 1 \/ i = k \/ i \in 1..(k - 1)
    BY <2>0
  <2>2. /\ IsList(Below \o <<g, c>>) /\ Len(Below \o <<g, c>>) = k + 1
        /\ \A i \in 1..(k - 1) : (Below \o <<g, c>>)[i] = Below[i]
        /\ (Below \o <<g, c>>)[k] = g /\ (Below \o <<g, c>>)[k + 1] = c
    <3>1. IsList(Below) /\ k \in Nat /\ Len(Below) + 1 = k
      BY <2>0, <2>1
    <3> QED  BY ONLY <3>1, TwoMore
  <2>3. IsFrame(g) /\ IsFrame(c)
    BY <1>8, <1>10 DEF EntersAs
  <2> QED  BY <2>0, <2>1, <2>2, <2>3 DEF AreFrames
<1>15. \/ frames' = <<>>
       \/ StepsTo(Below \o <<g, c>>)
  BY <1>4, <1>14, Decided DEF Together
<1>16. CASE StepsTo(Below \o <<g, c>>)
  <2>1. parted' = Together => InStep(g) /\ InStep(c)
    BY <1>9, <1>13, <1>16 DEF StepsTo
  <2>2. Indexes(g, g.rec.metas) /\ g.rec = Top.rec
    BY <1>2, <1>10, <1>12
  <2> QED  BY <1>1, <1>5, <1>6, <1>7, <1>8, <1>11, <1>12, <1>14, <1>16, <2>1, <2>2, EnteredStep
<1> QED  BY <1>15, <1>16, StopStep

----------------------------------------------------------------------------
(* The invariant, from the start and over every step.                      *)

\* The parameters render() is called with.
LEMMA ContextShows ==
    ASSUME NEW given \in Given
    PROVE  Shows(Context(given)) /\ DOMAIN Context(given) = DOMAIN Units[Main].params
<1>1. Main \in DOMAIN Units /\ "Some" \notin DOMAIN Units[Main].params
  BY UnitsAreWhole, LabelsAreNoNames DEF Declared
<1>2. Shows(Defaults(Main))
  BY <1>1, UnitShows
<1>3. ASSUME NEW p \in DOMAIN Units[Main].params PROVE IsValue(Context(given)[p])
  <2>1. /\ p \in DOMAIN given \cup DOMAIN Defaults(Main)
        /\ p \in DOMAIN given => IsValue(given[p])
    BY UnitsAreWhole
  <2>2. Context(given)[p] = IF p \in DOMAIN given THEN given[p] ELSE Defaults(Main)[p]
    BY <2>1 DEF Context, Over
  <2>3. p \in DOMAIN Defaults(Main) => IsValue(Defaults(Main)[p])
    BY <1>2 DEF Shows
  <2> QED  BY <2>1, <2>2, <2>3
<1> QED  BY <1>1, <1>3 DEF Shows, Context

\* Nothing is around the template that is rendered.
LEMMA Outermost ==
    ASSUME NEW f, frames[1] = f, f.via = "top"
    PROVE  /\ Leaked(1) = {} /\ OptionsSeen(1) = OptionPaths(f.unit)
           /\ OwnDir(1) = Units[f.unit].dir /\ OwnInlines(1) = Inlines(f.unit)
<1>0. 1..(1 - 1) = {} /\ 1..1 = {1} /\ (1 + 1)..1 = {}
  OBVIOUS
<1>1. Leaked(1) = {}
  BY <1>0 DEF Leaked
<1>2. OptionsSeen(1) = OptionPaths(f.unit)
  <2>1. {i \in 1..1 : \A m \in (i + 1)..1 : frames[m].via = "value"} = {1}
    BY <1>0
  <2> QED  BY <2>1 DEF OptionsSeen
<1>3. Max({1}) = 1
  BY MaxIs
<1>4. OwnDir(1) = Units[f.unit].dir
  <2>1. FilesUpTo(1) = IF Units[f.unit].dir # "none" THEN {1} ELSE {}
    BY <1>0 DEF FilesUpTo
  <2> QED  BY <1>3, <2>1 DEF OwnDir
<1>5. OwnInlines(1) = Inlines(f.unit)
  <2>1. {j \in 1..1 : frames[j].via # "inline"} = {1}
    BY <1>0
  <2> QED  BY <1>3, <2>1 DEF OwnInlines
<1> QED  BY <1>1, <1>2, <1>4, <1>5

LEMMA InitScriptInv == Init => ScriptInv
<1> SUFFICES ASSUME Init PROVE ScriptInv
  OBVIOUS
<1>1. PICK given \in Given : frames = <<TopFrame(given)>>
  BY DEF Init
<1> DEFINE f == TopFrame(given)
           ctx == Context(given)
           consts == Units[Main].consts
<1>2. frames[1] = f /\ IsList(frames) /\ Len(frames) = 1
  <2>1. frames = <<f>>
    BY <1>1
  <2> HIDE DEF f
  <2>2. ASSUME NEW e PROVE <<e>>[1] = e /\ IsList(<<e>>) /\ Len(<<e>>) = 1
    BY DEF IsList
  <2> QED  BY <2>1, <2>2
<1>3. /\ IsFrame(f) /\ f.unit = Main /\ f.via = "top" /\ f.open = <<>>
      /\ f.own = Over(consts, ctx) /\ f.rec = RenderScope(ctx) /\ f.dir = UncheckedScope(ctx)
  BY DEF TopFrame, Frame, IsFrame, Empty
<1> HIDE DEF f
<1>4. /\ IsScope(f.rec) /\ f.rec.ctx = ctx /\ f.rec.consts = consts /\ f.rec.layers = <<>>
      /\ f.rec.narrowed = <<>> /\ f.rec.options = OptionPaths(Main)
      /\ f.rec.inlines = Inlines(Main) /\ f.rec.base = Units[Main].dir
      /\ f.rec.depth = MaxIncludeDepth
  <2> HIDE DEF ctx
  <2> QED  BY <1>3 DEF RenderScope, Scope, IsScope, Empty
<1>5. IsDirect(f.dir) /\ f.dir.base = Units[Main].dir
  <2> HIDE DEF ctx
  <2> QED  BY <1>3 DEF UncheckedScope, DirectScope, IsDirect
<1>6. Main \in DOMAIN Units /\ Units[Main].dir \in DOMAIN Disk
  BY UnitsAreWhole
<1>7. Whole(1)
  <2>1. Shows(ctx)
    BY ContextShows
  <2>2. /\ Shows(consts) /\ \A n \in DOMAIN Inlines(Main) : Inlines(Main)[n] \in DOMAIN Units
    BY <1>6, UnitShows
  <2>3. IsList(f.rec.layers) /\ Len(f.rec.layers) = 0
    BY <1>4, EmptyIsList
  <2> HIDE DEF ctx, consts
  <2>4. IsWhole(f.rec)
    BY <1>4, <1>6, <2>1, <2>2, <2>3 DEF IsWhole
  <2>5. MaxIncludeDepth = MaxIncludeDepth + 1 - 1 /\ 1 <= MaxIncludeDepth + 1
    BY DepthIsANumber
  <2>6. f.rec.depth = MaxIncludeDepth + 1 - 1
    BY <1>4, <2>5
  <2> QED  BY <1>2, <1>3, <1>6, <2>4, <2>5, <2>6 DEF Whole
<1>8. \A hidden, metas : Shaped(f, hidden) /\ Indexes(f, metas)
  BY <1>3, <1>4, FreshShape
<1>9. /\ Leaked(1) = {} /\ OptionsSeen(1) = OptionPaths(Main)
      /\ OwnDir(1) = Units[Main].dir /\ OwnInlines(1) = Inlines(Main)
      /\ ConstsOf(1) = DOMAIN consts
  BY <1>2, <1>3, Outermost DEF ConstsOf
<1>10. Own(1)
  <2> HIDE DEF ctx, consts
  <2>1. /\ DOMAIN f.own = DOMAIN consts \cup DOMAIN ctx
        /\ \A n \in DOMAIN ctx \ DOMAIN consts : f.own[n] = ctx[n]
        /\ \A n \in DOMAIN consts : f.own[n] = consts[n]
    BY <1>3 DEF Over
  <2> QED  BY <1>2, <1>4, <1>9, <2>1 DEF Own
<1>11. Options(1) /\ Includes(1)
  BY <1>2, <1>3, <1>4, <1>9 DEF Options, Includes
<1>12. InStep(f)
  BY <1>3, <1>4, <1>5, <1>8 DEF InStep
<1>13. FrameInv(1)
  BY <1>2, <1>7, <1>8, <1>10, <1>11, <1>12 DEF FrameInv
<1> QED  BY <1>2, <1>13 DEF ScriptInv, Depth

LEMMA StutterKeeps ==
    ASSUME ScriptInv, UNCHANGED vars
    PROVE  ScriptInv'
<1>1. IsList(frames) /\ \A i \in 1..Len(frames) : IsFrame(frames[i])
  BY DEF ScriptInv, Depth, FrameInv, Whole
<1>2. frames' = frames /\ parted' = parted
  BY DEF vars
<1>3. StepsTo(frames)
  BY <1>1, <1>2 DEF StepsTo, SameButDir
<1> QED  BY <1>3, NoStep

LEMMA NextKeeps == ScriptInv /\ [Next]_vars => ScriptInv'
<1> SUFFICES ASSUME ScriptInv, [Next]_vars PROVE ScriptInv'
  OBVIOUS
<1>1. ASSUME Opens, NEW n \in Names(Top), NEW b \in Loops, BindingIsNew(Top, b), For(n, b)
      PROVE  ScriptInv'
  BY <1>1, ForKeeps
<1>2. ASSUME Opens, NEW n \in Names(Top), IsOption(Top, n), IfHas(n) PROVE ScriptInv'
  BY <1>2, IfHasKeeps
<1>3. ASSUME Opens, NEW n \in Names(Top), NEW arms \in Matches, MatchIsTyped(Top, n, arms),
             Match(n, arms)
      PROVE  ScriptInv'
  BY <1>3, MatchKeeps
<1>4. ASSUME Opens, NEW call \in Calls, Include(call) PROVE ScriptInv'
  BY <1>4, IncludeKeeps
<1>5. CASE NextItem
  BY <1>5, NextItemKeeps
<1>6. CASE CloseFor
  BY <1>6, CloseForKeeps
<1>7. CASE CloseBlock
  BY <1>7, CloseBlockKeeps
<1>8. CASE EnterIncluded
  BY <1>8, EnterIncludedKeeps
<1>9. CASE CloseInclude
  BY <1>9, CloseIncludeKeeps
<1>10. CASE EndBody
  BY <1>10, LeaveStep DEF EndBody
<1>11. CASE UNCHANGED vars
  BY <1>11, StutterKeeps
<1>12. CASE Opens /\ \E n \in Names(Top) :
               \/ \E b \in Loops : BindingIsNew(Top, b) /\ For(n, b)
               \/ IsOption(Top, n) /\ IfHas(n)
               \/ \E arms \in Matches : MatchIsTyped(Top, n, arms) /\ Match(n, arms)
  BY <1>1, <1>2, <1>3, <1>12
<1>13. CASE Opens /\ \E call \in Calls : IsWritten(call, Names(Top)) /\ Include(call)
  BY <1>4, <1>13
<1> QED
  BY <1>5, <1>6, <1>7, <1>8, <1>9, <1>10, <1>11, <1>12, <1>13 DEF Next

\* Every template that is being rendered has a scope of its own: ScriptInv
\* is an invariant of the renderers.
THEOREM ScriptInvHolds == Spec => []ScriptInv
BY InitScriptInv, NextKeeps, PTL DEF Spec

----------------------------------------------------------------------------
(* What the runs check follows.                                            *)

LEMMA ScriptTypeOK == ScriptInv => TypeOK
<1> SUFFICES ASSUME ScriptInv PROVE TypeOK
  OBVIOUS
<1>1. CASE frames = <<>>
  <2>1. Depth = 0
    BY <1>1, EmptyIsList DEF Depth
  <2>2. Depth <= MaxIncludeDepth + 1
    BY <2>1, DepthIsANumber
  <2> QED  BY <1>1, <2>2 DEF TypeOK, Rendering
<1>2. CASE frames # <<>>
  <2>1. Depth \in Nat /\ Depth > 0 /\ Top = frames[Depth] /\ FrameInv(Depth)
    BY <1>2, Stacked
  <2>2. /\ Top.unit \in DOMAIN Units /\ Top.via \in {"top", "file", "inline", "value"}
        /\ Top.rec.depth = MaxIncludeDepth + 1 - Depth /\ Depth <= MaxIncludeDepth + 1
    BY <2>1 DEF FrameInv, Whole
  <2>3. Top.rec.depth \in 0..MaxIncludeDepth
    <3>1. PICK d : d = Top.rec.depth
      OBVIOUS
    <3>2. d \in 0..MaxIncludeDepth
      BY <2>1, <2>2, <3>1, DepthIsANumber
    <3> QED  BY <3>1, <3>2
  <2>4. Shaped(Top, Leaked(Depth))
    BY <2>1 DEF FrameInv
  <2>5. /\ Len(Top.rec.narrowed) = Len(Top.rec.layers)
        /\ Len(Top.rec.layers) = LayerOf(Top.open, Len(Top.open))
        /\ DOMAIN Top.open = 1..Len(Top.open)
    BY <2>4 DEF Shaped, Layering, IsList
  <2>6. Len(Top.rec.layers) =
           Cardinality({i \in DOMAIN Top.open : Top.open[i].kind \notin {"plain", "each"}})
    BY <2>5 DEF LayerOf, Pushes
  <2> QED  BY <2>2, <2>3, <2>5, <2>6 DEF TypeOK
<1> QED  BY <1>1, <1>2

LEMMA ScriptOwnNames == ScriptInv => OwnNames
<1> SUFFICES ASSUME ScriptInv, frames # <<>>,
                    NEW n \in Names(Top) \ (Leaked(Depth) \cup BoundConsts(Depth))
             PROVE  Resolve(Top.rec, n) = Means(Top, n)
  BY DEF OwnNames, Rendering
<1>1. Top = frames[Depth] /\ FrameInv(Depth)
  BY Stacked
<1> QED  BY <1>1, SeesOwn DEF FrameInv

\* A layer narrows the option of the block it belongs to.
LEMMA NarrowedIs ==
    ASSUME NEW f, NEW hidden, Shaped(f, hidden), NEW n
    PROVE  (\E i \in DOMAIN f.rec.narrowed : n \in f.rec.narrowed[i]) <=> Unwrapped(f, n)
<1>1. /\ Len(f.open) \in Nat /\ DOMAIN f.open = 1..Len(f.open)
      /\ DOMAIN f.rec.narrowed = 1..LayerOf(f.open, Len(f.open))
      /\ \A j \in 1..Len(f.open) : Pushes(f.open[j]) =>
            f.rec.narrowed[LayerOf(f.open, j)] =
                IF Narrows(f.open[j]) THEN {f.open[j].name} ELSE {}
  BY DEF Shaped, IsList, Layering, LayerHolds
<1>2. ASSUME NEW i \in DOMAIN f.rec.narrowed, n \in f.rec.narrowed[i] PROVE Unwrapped(f, n)
  <2>1. PICK j \in 1..Len(f.open) : Pushes(f.open[j]) /\ LayerOf(f.open, j) = i
    BY <1>1, LayersAreBlocks
  <2>2. Narrows(f.open[j]) /\ f.open[j].name = n
    BY <1>1, <1>2, <2>1
  <2> QED  BY <1>1, <2>2 DEF Unwrapped, Narrows
<1>3. ASSUME Unwrapped(f, n) PROVE \E i \in DOMAIN f.rec.narrowed : n \in f.rec.narrowed[i]
  <2>1. PICK j \in 1..Len(f.open) : Narrows(f.open[j]) /\ f.open[j].name = n
    BY <1>1, <1>3 DEF Unwrapped, Narrows
  <2>2. Pushes(f.open[j])
    BY <2>1 DEF Narrows, Pushes
  <2>3. LayerOf(f.open, j) \in 1..LayerOf(f.open, Len(f.open))
    BY <1>1, <2>2, LayersInRange
  <2>4. n \in f.rec.narrowed[LayerOf(f.open, j)]
    BY <1>1, <2>1, <2>2
  <2> QED  BY <1>1, <2>3, <2>4
<1> QED  BY <1>2, <1>3

LEMMA ScriptOptions == ScriptInv => OptionsAsUnwrapped
<1> SUFFICES ASSUME ScriptInv, frames # <<>>, NEW n
             PROVE  IsOptionParam(Top.rec, n) <=>
                       (n \in OptionsSeen(Depth) /\ ~Unwrapped(Top, n))
  BY DEF OptionsAsUnwrapped, Rendering
<1>1. Top = frames[Depth] /\ FrameInv(Depth)
  BY Stacked
<1>2. Top.rec.options = OptionsSeen(Depth) /\ Shaped(Top, Leaked(Depth))
  BY <1>1 DEF FrameInv, Options
<1>3. (\E i \in DOMAIN Top.rec.narrowed : n \in Top.rec.narrowed[i]) <=> Unwrapped(Top, n)
  BY <1>2, NarrowedIs
<1> QED  BY <1>2, <1>3 DEF IsOptionParam

LEMMA ScriptIdx == ScriptInv => IdxIsOwn
<1> SUFFICES ASSUME ScriptInv, frames # <<>>, NEW i \in DOMAIN Top.open,
                    Top.open[i].kind = "for", ~Top.open[i].reused,
                    \A j \in (i + 1)..Len(Top.open) : Top.open[j].name # Top.open[i].name
             PROVE  /\ Top.rec.metas[Top.open[i].name] = Top.open[i].idx - 1
                    /\ parted = Together =>
                          Top.dir.metas[Top.open[i].name] = Top.open[i].idx - 1
  BY DEF IdxIsOwn, Rendering
<1>1. /\ Indexes(Top, Top.rec.metas) /\ DOMAIN Top.open = 1..Len(Top.open)
      /\ Len(Top.open) \in Nat /\ (parted = Together => InStep(Top))
  BY AtTop
<1>2. i \in OpenLoops(Top)
  BY DEF OpenLoops
<1>3. \A j \in LoopsOver(Top, Top.open[i].name) : j <= i
  <2> SUFFICES ASSUME NEW j \in LoopsOver(Top, Top.open[i].name), ~ (j <= i) PROVE FALSE
    OBVIOUS
  <2>1. j \in 1..Len(Top.open) /\ Top.open[j].name = Top.open[i].name
    BY <1>1 DEF LoopsOver, OpenLoops
  <2>2. j \in (i + 1)..Len(Top.open)
    BY <1>1, <2>1
  <2> QED  BY <2>1, <2>2
<1>4. \A metas : Indexes(Top, metas) => metas[Top.open[i].name] = Top.open[i].idx - 1
  BY <1>2, <1>3 DEF Indexes
<1> QED  BY <1>1, <1>4 DEF InStep

LEMMA ScriptIncludes == ScriptInv => OwnIncludes
<1> SUFFICES ASSUME ScriptInv, frames # <<>>
             PROVE  /\ Top.rec.base = OwnDir(Depth)
                    /\ parted = Together => Top.dir.base = Top.rec.base
                    /\ Top.rec.inlines = OwnInlines(Depth)
  BY DEF OwnIncludes, Rendering
<1>1. Top = frames[Depth] /\ FrameInv(Depth)
  BY Stacked
<1> QED  BY <1>1 DEF FrameInv, Includes, InStep

\* The innermost template sees its own names, options and loop indices, for
\* any templates and values and however deep it is included.
THEOREM ScopeIsOwn == Spec => []OwnScope
<1>1. ScriptInv => OwnScope
  BY ScriptTypeOK, ScriptOwnNames, ScriptOptions, ScriptIdx DEF OwnScope
<1> QED  BY <1>1, ScriptInvHolds, PTL

\* A path is resolved in the directory of the file it is written in, an
\* inline template's name in that file.
THEOREM IncludesAreOwn == Spec => []OwnIncludes
BY ScriptIncludes, ScriptInvHolds, PTL

----------------------------------------------------------------------------
(* The direct scope beside the recursive one, until the renderers part: the *)
(* values the template was given are its bottom layer, and each open loop  *)
(* has a layer for its item.                                               *)

LoopsOnly(open) == [i \in Nat |-> [kind |-> IF open[i].kind = "for" THEN "for" ELSE "plain"]]
LoopAt(open, j) == LayerOf(LoopsOnly(open), j)
Bound(b) == Single(b.name, Str(b.items[b.idx]))

\* The layers are those of the first n blocks.
InTurn(open, layers, n) ==
    /\ IsList(layers) /\ Len(layers) = 1 + LoopAt(open, n)
    /\ \A j \in 1..n : open[j].kind = "for" => layers[1 + LoopAt(open, j)] = Bound(open[j])

LEMMA OnlyLoopsPush ==
    ASSUME NEW o, NEW i \in Nat
    PROVE  Pushes(LoopsOnly(o)[i]) <=> o[i].kind = "for"
BY DEF Pushes, LoopsOnly

LEMMA LoopAtIs ==
    ASSUME NEW o, NEW j \in Nat
    PROVE  /\ LoopAt(o, j) \in Nat /\ LoopAt(o, 0) = 0
           /\ LoopAt(o, j + 1) = LoopAt(o, j) + (IF o[j + 1].kind = "for" THEN 1 ELSE 0)
<1> DEFINE p == LoopsOnly(o)
<1>1. Pushes(p[j + 1]) <=> o[j + 1].kind = "for"
  BY OnlyLoopsPush
<1> HIDE DEF p
<1>2. /\ LayerOf(p, j) \in Nat /\ LayerOf(p, 0) = 0
      /\ LayerOf(p, j + 1) = LayerOf(p, j) + (IF Pushes(p[j + 1]) THEN 1 ELSE 0)
  BY LayerOfIsNat, NoLayers, LayerNext
<1> QED  BY <1>1, <1>2 DEF LoopAt, p

\* A loop's layer is above the bottom one, and those of later loops above it.
LEMMA LoopsInOrder ==
    ASSUME NEW o, NEW n \in Nat, NEW j \in 1..n, o[j].kind = "for"
    PROVE  /\ LoopAt(o, j) \in 1..LoopAt(o, n)
           /\ \A i \in 1..n : i < j => LoopAt(o, i) < LoopAt(o, j)
           /\ \A i \in 1..n : j < i /\ o[i].kind = "for" => LoopAt(o, j) < LoopAt(o, i)
<1> DEFINE p == LoopsOnly(o)
<1>1. j \in Nat /\ \A i \in 1..n : i \in Nat /\ (Pushes(p[i]) <=> o[i].kind = "for")
  BY OnlyLoopsPush
<1>2. Pushes(p[j])
  BY <1>1
<1> HIDE DEF p
<1>3. LayerOf(p, j) \in 1..LayerOf(p, n)
  BY <1>2, LayersInRange
<1>4. \A i \in 1..n : i < j => LayerOf(p, i) < LayerOf(p, j)
  BY <1>1, <1>2, LayersInOrder
<1>5. \A i \in 1..n : j < i /\ Pushes(p[i]) => LayerOf(p, j) < LayerOf(p, i)
  BY <1>1, LayersInOrder
<1> QED  BY <1>1, <1>3, <1>4, <1>5 DEF LoopAt, p

\* Every layer but the bottom one is some loop's.
LEMMA LayersAreLoops ==
    ASSUME NEW o, NEW n \in Nat, NEW r \in 1..LoopAt(o, n)
    PROVE  \E j \in 1..n : o[j].kind = "for" /\ LoopAt(o, j) = r
<1> DEFINE p == LoopsOnly(o)
<1>1. \A i \in 1..n : Pushes(p[i]) <=> o[i].kind = "for"
  BY OnlyLoopsPush
<1>2. r \in 1..LayerOf(p, n)
  BY DEF LoopAt
<1> HIDE DEF p
<1>3. \E j \in 1..n : Pushes(p[j]) /\ LayerOf(p, j) = r
  BY <1>2, LayersAreBlocks
<1> QED  BY <1>1, <1>3 DEF LoopAt, p

\* What the loops are and bind is all that counts.
LEMMA TurnSame ==
    ASSUME NEW o, NEW p, NEW layers, NEW n \in Nat, InTurn(o, layers, n),
           \A j \in 1..n : /\ p[j].kind = o[j].kind
                           /\ o[j].kind = "for" => Bound(p[j]) = Bound(o[j])
    PROVE  InTurn(p, layers, n)
<1>1. \A i \in 1..n : Pushes(LoopsOnly(o)[i]) <=> Pushes(LoopsOnly(p)[i])
  BY OnlyLoopsPush
<1>2. \A j \in 0..n : LoopAt(p, j) = LoopAt(o, j)
  <2> SUFFICES ASSUME NEW j \in 0..n PROVE LoopAt(p, j) = LoopAt(o, j)
    OBVIOUS
  <2>1. j \in Nat /\ \A i \in 1..j : i \in 1..n
    OBVIOUS
  <2> QED  BY <1>1, <2>1, LayerOfSame DEF LoopAt
<1>3. n \in 0..n /\ \A j \in 1..n : j \in 0..n
  OBVIOUS
<1> QED  BY <1>2, <1>3 DEF InTurn

\* A block that is no loop is opened, or closed.
LEMMA TurnPlain ==
    ASSUME NEW o, NEW layers, NEW n \in Nat, o[n + 1].kind # "for"
    PROVE  InTurn(o, layers, n) <=> InTurn(o, layers, n + 1)
<1>1. LoopAt(o, n + 1) = LoopAt(o, n)
  BY LoopAtIs
<1>2. \A j \in 1..(n + 1) : j = n + 1 \/ j \in 1..n
  OBVIOUS
<1>3. \A j \in 1..n : j \in 1..(n + 1)
  OBVIOUS
<1> QED  BY <1>1, <1>2, <1>3 DEF InTurn

\* A loop is opened.
LEMMA TurnGrows ==
    ASSUME NEW o, NEW layers, NEW n \in Nat, InTurn(o, layers, n), o[n + 1].kind = "for"
    PROVE  /\ InTurn(o, Append(layers, Bound(o[n + 1])), n + 1)
           /\ Append(layers, Bound(o[n + 1]))[1] = layers[1]
<1> DEFINE e == Bound(o[n + 1])
           s == Append(layers, e)
<1>1. LoopAt(o, n) \in Nat /\ LoopAt(o, n + 1) = LoopAt(o, n) + 1
  BY LoopAtIs
<1>2. IsList(layers) /\ Len(layers) = 1 + LoopAt(o, n)
  BY DEF InTurn
<1> HIDE DEF e
<1>3. /\ IsList(s) /\ Len(s) = Len(layers) + 1 /\ s[Len(layers) + 1] = e
      /\ \A i \in 1..Len(layers) : s[i] = layers[i]
  BY <1>2, Appending
<1> HIDE DEF s
<1>4. ASSUME NEW j \in 1..n, o[j].kind = "for" PROVE s[1 + LoopAt(o, j)] = Bound(o[j])
  <2>1. LoopAt(o, j) \in 1..LoopAt(o, n)
    BY <1>4, LoopsInOrder
  <2>2. 1 + LoopAt(o, j) \in 1..Len(layers)
    BY <1>1, <1>2, <2>1
  <2> QED  BY <1>3, <1>4, <2>2 DEF InTurn
<1>5. s[1 + LoopAt(o, n + 1)] = e
  <2>1. 1 + LoopAt(o, n + 1) = Len(layers) + 1
    BY <1>1, <1>2
  <2> QED  BY <1>3, <2>1
<1>6. \A j \in 1..(n + 1) : o[j].kind = "for" => s[1 + LoopAt(o, j)] = Bound(o[j])
  <2>1. \A j \in 1..(n + 1) : j = n + 1 \/ j \in 1..n
    OBVIOUS
  <2> QED  BY <1>4, <1>5, <2>1 DEF e
<1>7. Len(s) = 1 + LoopAt(o, n + 1) /\ s[1] = layers[1]
  <2>1. 1 \in 1..Len(layers)
    BY <1>1, <1>2
  <2> QED  BY <1>1, <1>2, <1>3, <2>1
<1> QED  BY <1>3, <1>6, <1>7 DEF InTurn, s, e

\* The last loop is left.
LEMMA TurnShrinks ==
    ASSUME NEW o, NEW layers, NEW n \in Nat, InTurn(o, layers, n + 1), o[n + 1].kind = "for"
    PROVE  InTurn(o, Front(layers), n) /\ Front(layers)[1] = layers[1]
<1> DEFINE s == Front(layers)
<1>1. LoopAt(o, n) \in Nat /\ LoopAt(o, n + 1) = LoopAt(o, n) + 1
  BY LoopAtIs
<1>2. IsList(layers) /\ Len(layers) = 2 + LoopAt(o, n)
  BY <1>1 DEF InTurn
<1>3. /\ IsList(s) /\ Len(s) = Len(layers) - 1
      /\ \A i \in 1..(Len(layers) - 1) : s[i] = layers[i]
  <2>1. Len(layers) # 0
    BY <1>1, <1>2
  <2> QED  BY <1>2, <2>1, Fronting
<1> HIDE DEF s
<1>4. ASSUME NEW j \in 1..n, o[j].kind = "for" PROVE s[1 + LoopAt(o, j)] = Bound(o[j])
  <2>1. LoopAt(o, j) \in 1..LoopAt(o, n)
    BY <1>4, LoopsInOrder
  <2>2. 1 + LoopAt(o, j) \in 1..(Len(layers) - 1)
    BY <1>1, <1>2, <2>1
  <2>3. j \in 1..(n + 1)
    OBVIOUS
  <2> QED  BY <1>3, <1>4, <2>2, <2>3 DEF InTurn
<1>5. Len(s) = 1 + LoopAt(o, n) /\ s[1] = layers[1]
  <2>1. 1 \in 1..(Len(layers) - 1)
    BY <1>1, <1>2
  <2> QED  BY <1>1, <1>2, <1>3, <2>1
<1> QED  BY <1>3, <1>4, <1>5 DEF InTurn, s

\* What the direct renderer finds below the layers of the loops.
Bottom(f, n) ==
    IF n \in DOMAIN f.dir.layers[1] THEN f.dir.layers[1][n]
    ELSE IF n \in DOMAIN f.dir.consts THEN f.dir.consts[n] ELSE Undefined

\* The direct renderer resolves a name to the item of the innermost loop that
\* binds it, or to what is below.
LEMMA DirectSees ==
    ASSUME NEW f, IsList(f.open), InTurn(f.open, f.dir.layers, Len(f.open)), NEW n
    PROVE  DirectResolve(f.dir, n) =
              IF LoopsOver(f, n) = {} THEN Bottom(f, n)
              ELSE LET b == f.open[Max(LoopsOver(f, n))] IN Str(b.items[b.idx])
<1> DEFINE o == f.open
           m == Len(f.open)
           layers == f.dir.layers
           S == LoopsOver(f, n)
<1>1. /\ m \in Nat /\ DOMAIN o = 1..m /\ IsList(layers) /\ Len(layers) = 1 + LoopAt(o, m)
      /\ DOMAIN layers = 1..Len(layers) /\ LoopAt(o, m) \in Nat
      /\ \A j \in 1..m : o[j].kind = "for" => layers[1 + LoopAt(o, j)] = Bound(o[j])
  <2>1. m \in Nat /\ DOMAIN o = 1..m
    BY DEF IsList
  <2>2. LoopAt(o, m) \in Nat
    BY <2>1, LoopAtIs
  <2> QED  BY <2>1, <2>2 DEF InTurn, IsList
<1>2. S = {j \in 1..m : o[j].kind = "for" /\ o[j].name = n}
  BY <1>1 DEF LoopsOver, OpenLoops
<1>3. \A b : DOMAIN Bound(b) = {b.name} /\ Bound(b)[b.name] = Str(b.items[b.idx])
  BY DEF Bound, Single
<1>4. \A j \in S : /\ 1 + LoopAt(o, j) \in 1..Len(layers) /\ 1 + LoopAt(o, j) # 1
                   /\ n \in DOMAIN layers[1 + LoopAt(o, j)]
  <2> SUFFICES ASSUME NEW j \in S
               PROVE  /\ 1 + LoopAt(o, j) \in 1..Len(layers) /\ 1 + LoopAt(o, j) # 1
                      /\ n \in DOMAIN layers[1 + LoopAt(o, j)]
    OBVIOUS
  <2>1. j \in 1..m /\ o[j].kind = "for" /\ o[j].name = n
    BY <1>2
  <2> HIDE DEF o, m, layers, S
  <2>2. LoopAt(o, j) \in 1..LoopAt(o, m)
    BY <1>1, <2>1, LoopsInOrder
  <2>3. 1 + LoopAt(o, j) \in 1..Len(layers) /\ 1 + LoopAt(o, j) # 1
    BY <1>1, <2>2
  <2>4. layers[1 + LoopAt(o, j)] = Bound(o[j])
    BY <1>1, <2>1
  <2>5. n \in DOMAIN layers[1 + LoopAt(o, j)]
    BY <1>3, <2>1, <2>4
  <2> QED  BY <2>3, <2>5
<1>5. CASE \A i \in 1..Len(layers) : n \notin DOMAIN layers[i]
  <2>1. S = {}
    <3> HIDE DEF S, o, layers
    <3> QED  BY <1>4, <1>5
  <2>2. n \notin LayerNames(layers)
    BY <1>1, <1>5 DEF LayerNames
  <2>3. n \notin DOMAIN layers[1]
    <3>1. 1 \in 1..Len(layers)
      BY <1>1
    <3> QED  BY <1>5, <3>1
  <2> QED  BY <2>1, <2>2, <2>3 DEF DirectResolve, Bottom
<1>6. ASSUME NEW r \in 1..Len(layers), n \in DOMAIN layers[r],
             Innermost(layers, n) = layers[r][n],
             \A i \in 1..Len(layers) : n \in DOMAIN layers[i] => i <= r
      PROVE  layers[r][n] = IF S = {} THEN Bottom(f, n)
                            ELSE Str(o[Max(S)].items[o[Max(S)].idx])
  <2>1. CASE r = 1
    <3>1. S = {}
      <4> SUFFICES ASSUME NEW j \in S PROVE FALSE
        OBVIOUS
      <4>1. 1 + LoopAt(o, j) \in 1..Len(layers) /\ 1 + LoopAt(o, j) # 1 /\ 1 + LoopAt(o, j) <= 1
        <5> HIDE DEF S, o, layers
        <5> QED  BY <1>4, <1>6, <2>1
      <4> HIDE DEF S, o, layers
      <4> QED  BY <4>1
    <3> QED  BY <1>6, <2>1, <3>1 DEF Bottom
  <2>2. CASE r # 1
    <3>1. r - 1 \in 1..LoopAt(o, m) /\ 1 + (r - 1) = r
      BY <1>1, <2>2
    <3>2. PICK j \in 1..m : o[j].kind = "for" /\ LoopAt(o, j) = r - 1
      <4> HIDE DEF o, m
      <4> QED  BY <1>1, <3>1, LayersAreLoops
    <3>3. layers[r] = Bound(o[j])
      <4> HIDE DEF o, m, layers
      <4> QED  BY <1>1, <3>1, <3>2
    <3>4. o[j].name = n /\ layers[r][n] = Str(o[j].items[o[j].idx])
      <4> HIDE DEF o, m, layers
      <4> QED  BY <1>3, <1>6, <3>3
    <3>5. j \in S
      BY <1>2, <3>2, <3>4
    <3>6. \A i \in S : i <= j
      <4> SUFFICES ASSUME NEW i \in S, j < i PROVE FALSE
        BY <1>1, <1>2
      <4>1. 1 + LoopAt(o, i) <= r
        <5> HIDE DEF S, o, layers
        <5> QED  BY <1>4, <1>6
      <4>2. i \in 1..m /\ o[i].kind = "for"
        BY <1>2
      <4> HIDE DEF S, o, m, layers
      <4>3. LoopAt(o, j) < LoopAt(o, i)
        BY <1>1, <3>2, <4>2, LoopsInOrder
      <4>4. LoopAt(o, i) \in Nat
        BY <4>2, LoopAtIs
      <4> QED  BY <3>2, <4>1, <4>3, <4>4
    <3>7. Max(S) = j
      <4>1. S \in SUBSET Nat
        BY <1>1, <1>2
      <4> HIDE DEF S
      <4> QED  BY <3>5, <3>6, <4>1, MaxIs
    <3>8. S # {}
      BY <3>5
    <3> HIDE DEF S, o, layers
    <3> QED  BY <3>4, <3>7, <3>8
  <2> QED  BY <2>1, <2>2
<1>7. CASE \E r \in 1..Len(layers) :
              /\ n \in DOMAIN layers[r] /\ Innermost(layers, n) = layers[r][n]
              /\ \A i \in 1..Len(layers) : n \in DOMAIN layers[i] => i <= r
  <2>1. PICK r \in 1..Len(layers) :
              /\ n \in DOMAIN layers[r] /\ Innermost(layers, n) = layers[r][n]
              /\ \A i \in 1..Len(layers) : n \in DOMAIN layers[i] => i <= r
    BY <1>7
  <2>2. n \in LayerNames(layers)
    BY <1>1, <2>1 DEF LayerNames
  <2>3. DirectResolve(f.dir, n) = layers[r][n]
    BY <2>1, <2>2 DEF DirectResolve
  <2> HIDE DEF S, o, layers
  <2>4. layers[r][n] = IF S = {} THEN Bottom(f, n) ELSE Str(o[Max(S)].items[o[Max(S)].idx])
    BY <1>6, <2>1
  <2> QED  BY <2>3, <2>4 DEF S, o
<1> QED
  <2> HIDE DEF layers
  <2> QED  BY <1>1, <1>5, <1>7, InnermostIn

Shown(val) == IF val = Undefined THEN None ELSE val

\* The include a template is going over: its names are the template's, and both
\* renderers reach the same.
SameInclude(f) ==
    \A j \in 1..Len(f.open) : f.open[j].kind = "each" =>
        /\ IsWritten(f.open[j].call, Names(f))
        /\ DirectTarget(f.dir, f.open[j].call) = Target(f.rec, f.open[j].call)

Beside(f) ==
    /\ f.via # "value" /\ f.dir.consts = Units[f.unit].consts /\ f.dir.depth = f.rec.depth
    /\ InTurn(f.open, f.dir.layers, Len(f.open)) /\ SameInclude(f)
    /\ DOMAIN f.dir.layers[1] \subseteq DOMAIN f.own

\* has() may be asked about an option, and what it is given is of its type.
Fits(f) ==
    /\ f.rec.nonOptions \cap OptionPaths(f.unit) = {}
    /\ OptionPaths(f.unit) \subseteq DOMAIN f.own \cap DOMAIN f.rec.ctx
    /\ \A n \in OptionPaths(f.unit) \ DOMAIN Units[f.unit].consts : f.own[n].t \in {"none", "str"}
    /\ f.via = "top" => DOMAIN f.rec.ctx \cap DOMAIN Units[f.unit].consts = {}

\* Below the loops the direct renderer finds what the template was given.
Gives(f) == \A n \in DOMAIN f.own : Shown(Bottom(f, n)) = f.own[n]

\* No name is hidden in the body of the k-th template, nor in what it was given.
Unhidden(k) == Names(frames[k]) \cap Leaked(k) = {} /\ BoundConsts(k) = {}
Clear(k) ==
    \A j \in 2..k : /\ DOMAIN frames[j].rec.ctx \cap ConstsOf(j) = {}
                    /\ j < k => Unhidden(j)
NothingHidden(k) == Clear(k) /\ Unhidden(k)

FrameText(k) ==
    /\ Beside(frames[k]) /\ Fits(frames[k])
    /\ frames[k].dir.inlines = Inlines(frames[1].unit)
    /\ Clear(k) => Gives(frames[k])

TextInv == parted = Together => \A k \in 1..Depth : FrameText(k)

\* What hides names of a template: the ones around it and what it was given.
LEMMA ClearKept ==
    ASSUME NEW k \in Nat, k > 0, frames[1].via # "inline",
           \A j \in 1..k : /\ frames'[j].unit = frames[j].unit /\ frames'[j].via = frames[j].via
                           /\ frames'[j].rec.ctx = frames[j].rec.ctx,
           \A j \in 1..(k - 1) : Names(frames'[j]) = Names(frames[j]),
           \A j \in 1..(k - 1) : Bindings(frames'[j]) = Bindings(frames[j])
    PROVE  Clear(k)' <=> Clear(k)
<1>1. ASSUME NEW j \in 2..k
      PROVE  /\ Leaked(j)' = Leaked(j) /\ ConstsOf(j)' = ConstsOf(j)
             /\ j < k => Names(frames'[j]) = Names(frames[j])
             /\ j < k => Bindings(frames'[j]) = Bindings(frames[j])
             /\ frames'[j].rec.ctx = frames[j].rec.ctx
  <2>1. /\ j \in Nat /\ j > 0 /\ \A i \in 1..j : i \in 1..k
        /\ \A i \in 1..(j - 1) : i \in 1..(k - 1)
        /\ j < k => j \in 1..(k - 1)
        /\ j \in 1..k
    OBVIOUS
  <2>2. Leaked(j)' = Leaked(j) /\ ConstsOf(j)' = ConstsOf(j)
    BY <2>1, OuterKept
  <2> QED  BY <2>1, <2>2
<1> QED  BY <1>1 DEF Clear, Unhidden, BoundConsts

\* A template that stays, among templates that stay.
LEMMA TextKept ==
    ASSUME ScriptInv, TextInv, parted = Together, NEW m \in Nat, m <= Len(frames),
           \A i \in 1..m : frames'[i] = frames[i]
    PROVE  \A k \in 1..m : FrameText(k)'
<1> SUFFICES ASSUME NEW k \in 1..m PROVE FrameText(k)'
  OBVIOUS
<1>1. /\ k \in Nat /\ k > 0 /\ 1 \in 1..Depth /\ k \in 1..Depth /\ 1 \in 1..m
      /\ \A j \in 1..k : j \in 1..m
      /\ \A j \in 1..(k - 1) : j \in 1..m
  BY DEF ScriptInv, IsList, Depth
<1>2. frames[1].via # "inline"
  BY <1>1 DEF ScriptInv, FrameInv, Includes
<1>3. Clear(k)' <=> Clear(k)
  BY <1>1, <1>2, ClearKept
<1>4. FrameText(k)
  BY <1>1 DEF TextInv
<1> QED  BY <1>1, <1>3, <1>4 DEF FrameText

SameDirect(d, e) == d.consts = e.consts /\ d.inlines = e.inlines /\ d.depth = e.depth

TextTopIs(g) ==
    /\ SameTemplate(g, Top) /\ SameDirect(g.dir, Top.dir)
    /\ InTurn(g.open, g.dir.layers, Len(g.open)) /\ g.dir.layers[1] = Top.dir.layers[1]
    /\ SameInclude(g)

\* The innermost template becomes g.
LEMMA TextTopKept ==
    ASSUME ScriptInv, TextInv, parted = Together, frames # <<>>, NEW g, NEW k, k = Depth,
           \A i \in 1..(k - 1) : frames'[i] = frames[i], frames'[k] = g, TextTopIs(g)
    PROVE  /\ \A i \in 1..k : FrameText(i)'
           /\ Clear(k)' <=> Clear(k)
<1>1. /\ k \in Nat /\ k > 0 /\ k - 1 \in Nat /\ k \in 1..k /\ 1 \in 1..k
      /\ Top = frames[k] /\ FrameInv(k)
      /\ \A i \in 1..(k - 1) : i \in 1..k
      /\ \A i \in 1..k : i = k \/ i \in 1..(k - 1)
      /\ k = Len(frames) /\ k - 1 <= Len(frames)
  <2>1. Depth \in Nat \ {0} /\ Top = frames[Depth] /\ FrameInv(Depth)
    BY Stacked
  <2> QED  BY <2>1 DEF Depth
<1>0. /\ SameTemplate(g, Top) /\ SameDirect(g.dir, Top.dir)
      /\ InTurn(g.open, g.dir.layers, Len(g.open)) /\ g.dir.layers[1] = Top.dir.layers[1]
      /\ SameInclude(g)
  BY DEF TextTopIs
<1>2. \A i \in 1..(k - 1) : FrameText(i)'
  BY <1>1, TextKept
<1>3. FrameText(k) /\ frames[1].via # "inline" /\ frames'[1].unit = frames[1].unit
  BY <1>0, <1>1 DEF TextInv, ScriptInv, FrameInv, Includes, Depth, SameTemplate
<1>4. Clear(k)' <=> Clear(k)
  <2>1. \A j \in 1..k : /\ frames'[j].unit = frames[j].unit /\ frames'[j].via = frames[j].via
                        /\ frames'[j].rec.ctx = frames[j].rec.ctx
    BY <1>0, <1>1 DEF SameTemplate, SameBase
  <2> QED  BY <1>1, <1>3, <2>1, ClearKept
<1>5. /\ g.unit = Top.unit /\ g.via = Top.via /\ g.own = Top.own /\ g.rec.depth = Top.rec.depth
      /\ g.rec.nonOptions = Top.rec.nonOptions /\ g.rec.ctx = Top.rec.ctx
      /\ g.dir.consts = Top.dir.consts /\ g.dir.inlines = Top.dir.inlines
      /\ g.dir.depth = Top.dir.depth
  BY <1>0 DEF SameTemplate, SameBase, SameDirect
<1>6. Beside(g) /\ Fits(g)
  <2>1. Beside(Top) /\ Fits(Top)
    BY <1>1, <1>3 DEF FrameText
  <2> QED  BY <1>0, <1>5, <2>1 DEF Beside, Fits
<1>7. Gives(Top) => Gives(g)
  BY <1>0, <1>5 DEF Gives, Bottom
<1>8. FrameText(k)'
  BY <1>1, <1>3, <1>4, <1>5, <1>6, <1>7 DEF FrameText
<1> QED  BY <1>1, <1>2, <1>4, <1>8

LEMMA TextTop ==
    ASSUME ScriptInv, TextInv, parted = Together, frames # <<>>, NEW g,
           frames' = Append(Below, g), SameTemplate(g, Top), SameDirect(g.dir, Top.dir),
           InTurn(g.open, g.dir.layers, Len(g.open)), g.dir.layers[1] = Top.dir.layers[1],
           SameInclude(g)
    PROVE  TextInv'
<1> SUFFICES ASSUME NEW k, k = Depth PROVE TextInv'
  OBVIOUS
<1>1. /\ Len(frames') = k /\ frames'[k] = g
      /\ \A i \in 1..(k - 1) : frames'[i] = frames[i]
  BY Stacked
<1>2. \A i \in 1..k : FrameText(i)'
  BY <1>1, TextTopKept DEF TextTopIs
<1> QED  BY <1>1, <1>2 DEF TextInv, Depth

\* Templates are left.
LEMMA TextFewer ==
    ASSUME ScriptInv, TextInv, frames # <<>>, frames' = Below, parted' = parted
    PROVE  TextInv'
<1>1. /\ Depth \in Nat \ {0} /\ Len(Below) = Depth - 1 /\ Depth - 1 \in Nat
      /\ \A i \in 1..(Depth - 1) : Below[i] = frames[i]
      /\ Depth - 1 <= Len(frames)
  <2>1. /\ Depth \in Nat \ {0} /\ Len(Below) = Depth - 1 /\ Depth - 1 \in Nat
        /\ \A i \in 1..(Depth - 1) : Below[i] = frames[i]
    BY Stacked
  <2> QED  BY <2>1 DEF Depth
<1>2. Depth' = Depth - 1
  BY <1>1 DEF Depth
<1>3. parted = Together => \A k \in 1..(Depth - 1) : FrameText(k)'
  BY <1>1, TextKept
<1> QED  BY <1>2, <1>3 DEF TextInv

LEMMA TextStops ==
    ASSUME frames' = <<>>
    PROVE  TextInv'
<1>1. Depth' = 0
  BY EmptyIsList DEF Depth
<1> QED  BY <1>1 DEF TextInv

LEMMA TextStays ==
    ASSUME ScriptInv, TextInv, frames' = frames, parted = Together
    PROVE  TextInv'
<1>1. Len(frames) \in Nat /\ Len(frames) <= Len(frames)
  BY DEF ScriptInv, IsList
<1>2. \A k \in 1..Len(frames) : FrameText(k)'
  BY <1>1, TextKept
<1> QED  BY <1>2 DEF TextInv, Depth

----------------------------------------------------------------------------
(* The steps, as long as the renderers are together.                       *)

LEMMA Followed ==
    ASSUME NEW node, node # Together, NEW rec, NEW dir, NEW next,
           Decide(node, rec, dir, next), parted' = Together
    PROVE  /\ parted = Together /\ rec = dir
           /\ frames' = <<>> \/ (frames' = next /\ rec \notin {Throws, Refused})
BY DEF Decide


\* What is known of the innermost template while the renderers are together.
LEMMA TextAtTop ==
    ASSUME ScriptInv, TextInv, parted = Together, frames # <<>>
    PROVE  /\ Shaped(Top, Leaked(Depth)) /\ IsFrame(Top) /\ IsScope(Top.rec)
           /\ IsList(Top.rec.layers) /\ IsList(Top.rec.narrowed) /\ IsList(Top.open)
           /\ SameBase(Top.rec, Top.rec) /\ IsDirect(Top.dir)
           /\ InTurn(Top.open, Top.dir.layers, Len(Top.open)) /\ SameInclude(Top)
           /\ Beside(Top) /\ Fits(Top)
<1>1. Top = frames[Depth] /\ Depth \in 1..Depth
  BY Stacked
<1>2. /\ Shaped(Top, Leaked(Depth)) /\ IsFrame(Top) /\ IsDirect(Top.dir)
  BY AtTop DEF InStep
<1>3. FrameText(Depth)
  BY <1>1 DEF TextInv
<1>4. Beside(Top) /\ Fits(Top)
  BY <1>1, <1>3 DEF FrameText
<1>5. SameBase(Top.rec, Top.rec)
  BY <1>2 DEF Shaped, SameBase
<1> QED  BY <1>2, <1>4, <1>5 DEF Shaped, Beside

\* A block that is no loop is opened.
LEMMA TextOpens ==
    ASSUME ScriptInv, TextInv, parted = Together, frames # <<>>, NoneEach(Top), NEW g,
           frames' = Append(Below, g), SameTemplate(g, Top), g.dir = Top.dir,
           NEW b, b.kind # "for", g.open = Append(Top.open, b),
           b.kind = "each" =>
              /\ IsWritten(b.call, Names(Top)) /\ g.rec = Top.rec
              /\ DirectTarget(Top.dir, b.call) = Target(Top.rec, b.call)
    PROVE  TextInv'
<1> DEFINE n == Len(Top.open)
<1>1. /\ IsList(Top.open) /\ InTurn(Top.open, Top.dir.layers, n) /\ n \in Nat
      /\ DOMAIN Top.open = 1..n
  BY TextAtTop DEF IsList
<1>2. /\ IsList(g.open) /\ Len(g.open) = n + 1 /\ g.open[n + 1] = b
      /\ \A i \in 1..n : g.open[i] = Top.open[i]
  BY <1>1, Appending
<1>3. InTurn(g.open, g.dir.layers, n + 1)
  <2>1. InTurn(g.open, Top.dir.layers, n)
    BY <1>1, <1>2, TurnSame
  <2> HIDE DEF n
  <2> QED  BY <1>1, <1>2, <2>1, TurnPlain
<1>4. \A i \in 1..(n + 1) : i = n + 1 \/ i \in 1..n
  BY <1>1
<1>5. SameInclude(g)
  <2> SUFFICES ASSUME NEW j \in 1..(n + 1), g.open[j].kind = "each"
               PROVE  /\ IsWritten(g.open[j].call, Names(g))
                      /\ DirectTarget(g.dir, g.open[j].call) = Target(g.rec, g.open[j].call)
    BY <1>2 DEF SameInclude
  <2>1. g.open[j] = b
    BY <1>2, <1>4 DEF NoneEach
  <2>2. Names(Top) \subseteq Names(g)
    <3>1. /\ \A i \in 1..n : i \in DOMAIN g.open
          /\ g.own = Top.own
      BY <1>1, <1>2 DEF IsList, SameTemplate
    <3>2. \A i \in OpenLoops(Top) : i \in OpenLoops(g) /\ g.open[i].name = Top.open[i].name
      BY <1>1, <1>2, <3>1 DEF OpenLoops
    <3> QED  BY <3>1, <3>2 DEF Names, Bindings
  <2>3. IsWritten(b.call, Names(g))
    BY <2>1, <2>2 DEF IsWritten
  <2> QED  BY <2>1, <2>3
<1>6. SameDirect(g.dir, Top.dir) /\ g.dir.layers[1] = Top.dir.layers[1]
  BY DEF SameDirect
<1> QED  BY <1>2, <1>3, <1>5, <1>6, TextTop

LEMMA GuardedIs ==
    ASSUME NEW f, IsFrame(f), IsScope(f.rec), IsList(f.rec.narrowed), NEW n
    PROVE  /\ SameTemplate(Guarded(f, n), f) /\ Guarded(f, n).dir = f.dir
           /\ \E b : b.kind \in {"unwrapped", "plain"} /\ Guarded(f, n).open = Append(f.open, b)
<1> DEFINE g == Guarded(f, n)
<1>1. \A kind : Body(kind, n).kind = kind
  BY DEF Body, Block
<1>2. CASE IsOptionParam(f.rec, n)
  <2> DEFINE o == Append(f.open, Body("unwrapped", n))
             r == NarrowOption(PushLayer(f.rec, Empty), n)
  <2>1. SameBase(r, f.rec)
    BY NarrowedScope
  <2>2. g = [f EXCEPT !.open = o, !.rec = r]
    BY <1>2 DEF Guarded
  <2> HIDE DEF g, o, r
  <2>3. SameTemplate(g, f) /\ g.dir = f.dir /\ g.open = o
    BY <2>1, <2>2 DEF IsFrame, SameTemplate
  <2> QED  BY <1>1, <2>3 DEF g, o
<1>3. CASE ~IsOptionParam(f.rec, n)
  <2> DEFINE o == Append(f.open, Body("plain", n))
  <2>1. g = [f EXCEPT !.open = o]
    BY <1>3 DEF Guarded
  <2>2. SameBase(f.rec, f.rec)
    BY DEF SameBase
  <2> HIDE DEF g, o
  <2>3. SameTemplate(g, f) /\ g.dir = f.dir /\ g.open = o
    BY <2>1, <2>2 DEF IsFrame, SameTemplate
  <2> QED  BY <1>1, <2>3 DEF g, o
<1> QED  BY <1>2, <1>3

LEMMA InArmIs ==
    ASSUME NEW f, IsFrame(f), IsScope(f.rec), IsList(f.rec.narrowed), NEW n, NEW arms, NEW i
    PROVE  LET g == InArm(f, n, arms, i)
           IN  /\ SameTemplate(g, f) /\ g.dir = f.dir
               /\ \E b : b.kind \in {"some", "arm"} /\ g.open = Append(f.open, b)
<1> DEFINE g == InArm(f, n, arms, i)
           b == Body(IF arms[i].labels = {"Some"} THEN "some" ELSE "arm", n)
           o == Append(f.open, b)
           r == ArmScope(f.rec, n, arms[i], RecVariant(f.rec, n, arms))
<1>1. b.kind \in {"some", "arm"}
  BY DEF Body, Block
<1>2. SameBase(r, f.rec)
  BY NarrowedScope, PushedScope DEF ArmScope
<1>3. g = [f EXCEPT !.open = o, !.rec = r]
  BY DEF InArm
<1> HIDE DEF g, b, o, r
<1>4. SameTemplate(g, f) /\ g.dir = f.dir /\ g.open = o
  BY <1>2, <1>3 DEF IsFrame, SameTemplate
<1> QED  BY <1>1, <1>4 DEF g, o

LEMMA TextIfHas ==
    ASSUME ScriptInv, TextInv, parted' = Together, Opens, NEW n, IfHas(n)
    PROVE  TextInv'
<1> DEFINE rec == Has(Top.rec, n)
           g == Guarded(Top, n)
           next == IF rec = Present THEN Append(Below, g) ELSE frames
<1>1. frames # <<>> /\ NoneEach(Top)
  BY NoneEachOpen DEF Opens
<1>2. /\ parted = Together
      /\ frames' = <<>> \/ frames' = next
  <2>1. Decide("has", rec, DirectHas(Top.dir, n), next) /\ "has" # Together
    BY DEF IfHas, Together
  <2> HIDE DEF rec, next
  <2> QED  BY <2>1, Followed
<1>3. CASE frames' = Append(Below, g)
  <2>1. /\ SameTemplate(g, Top) /\ g.dir = Top.dir
        /\ \E b : b.kind \in {"unwrapped", "plain"} /\ g.open = Append(Top.open, b)
    BY <1>1, <1>2, TextAtTop, GuardedIs
  <2>2. PICK b : b.kind \in {"unwrapped", "plain"} /\ g.open = Append(Top.open, b)
    BY <2>1
  <2>3. b.kind # "for" /\ b.kind # "each"
    BY <2>2
  <2> HIDE DEF g
  <2> QED  BY <1>1, <1>2, <1>3, <2>1, <2>2, <2>3, TextOpens
<1> QED  BY <1>2, <1>3, TextStays, TextStops

LEMMA TextMatch ==
    ASSUME ScriptInv, TextInv, parted' = Together, Opens, NEW n, NEW arms, Match(n, arms)
    PROVE  TextInv'
<1> DEFINE rec == MatchArm(Top.rec, n, arms)
           i == Head(rec.items)
           g == InArm(Top, n, arms, i)
           next == IF rec.t = "arm" /\ i # 0 THEN Append(Below, g) ELSE frames
<1>1. frames # <<>> /\ NoneEach(Top)
  BY NoneEachOpen DEF Opens
<1>2. /\ parted = Together
      /\ frames' = <<>> \/ frames' = next
  <2>1. Decide("match", rec, DirectMatchArm(Top.dir, n, arms), next) /\ "match" # Together
    BY DEF Match, Together
  <2> HIDE DEF rec, next
  <2> QED  BY <2>1, Followed
<1> HIDE DEF i
<1>3. CASE frames' = Append(Below, g)
  <2>1. /\ SameTemplate(g, Top) /\ g.dir = Top.dir
        /\ \E b : b.kind \in {"some", "arm"} /\ g.open = Append(Top.open, b)
    BY <1>1, <1>2, TextAtTop, InArmIs
  <2>2. PICK b : b.kind \in {"some", "arm"} /\ g.open = Append(Top.open, b)
    BY <2>1
  <2>3. b.kind # "for" /\ b.kind # "each"
    BY <2>2
  <2> HIDE DEF g
  <2> QED  BY <1>1, <1>2, <1>3, <2>1, <2>2, <2>3, TextOpens
<1> QED  BY <1>2, <1>3, TextStays, TextStops

\* Both renderers reach the same where neither throws.
LEMMA ReachedSame ==
    ASSUME NEW s, NEW d, NEW call, NEW list, NEW other,
           Reached(s, Target(s, call), call, list)
               = Reached(d, DirectTarget(d, call), call, other),
           Reached(s, Target(s, call), call, list) # Throws
    PROVE  DirectTarget(d, call) = Target(s, call)
<1> DEFINE t == Target(s, call)
           u == DirectTarget(d, call)
<1>1. t = [via |-> t.via, unit |-> t.unit]
  BY DEF Target
<1>2. u = [via |-> u.via, unit |-> u.unit]
  BY DEF DirectTarget
<1> HIDE DEF t, u
<1>3. t.via = u.via /\ t.unit = u.unit
  BY DEF Reached, Val, t, u
<1>4. t = u
  BY <1>1, <1>2, <1>3
<1> QED  BY <1>4 DEF t, u

LEMMA TextInclude ==
    ASSUME ScriptInv, TextInv, parted' = Together, Opens, NEW call,
           IsWritten(call, Names(Top)), Include(call)
    PROVE  TextInv'
<1> DEFINE rec == Reached(Top.rec, Target(Top.rec, call), call, Resolve(Top.rec, call.in))
           dir == Reached(Top.dir, DirectTarget(Top.dir, call), call,
                          DirectResolve(Top.dir, call.in))
           b == Block("each", call.name, rec.items, call)
           o == Append(Top.open, b)
           g == [Top EXCEPT !.open = o]
           next == Append(Below, g)
<1>1. frames # <<>> /\ NoneEach(Top)
  BY NoneEachOpen DEF Opens
<1>2. /\ parted = Together /\ rec = dir
      /\ frames' = <<>> \/ (frames' = next /\ rec \notin {Throws, Refused})
  <2>1. Decide("include", rec, dir, next) /\ "include" # Together
    BY DEF Include, Together
  <2> HIDE DEF rec, dir, next
  <2> QED  BY <2>1, Followed
<1>3. CASE frames' = next /\ rec \notin {Throws, Refused}
  <2>1. DirectTarget(Top.dir, call) = Target(Top.rec, call)
    BY <1>2, <1>3, ReachedSame
  <2>2. b.kind = "each" /\ b.call = call
    BY DEF Block
  <2> HIDE DEF rec, dir, b
  <2>3. SameTemplate(g, Top) /\ g.dir = Top.dir /\ g.open = o /\ g.rec = Top.rec
    <3>1. IsFrame(Top) /\ SameBase(Top.rec, Top.rec)
      BY <1>1, <1>2, TextAtTop
    <3> HIDE DEF o
    <3> QED  BY <3>1 DEF IsFrame, SameTemplate
  <2>4. frames' = Append(Below, g)
    BY <1>3
  <2> HIDE DEF g
  <2> QED  BY <1>1, <1>2, <2>1, <2>2, <2>3, <2>4, TextOpens
<1> QED  BY <1>2, <1>3, TextStops

\* An item's layer.
LEMMA DirectItemIs ==
    ASSUME NEW d, IsDirect(d), NEW b, NEW item, NEW idx
    PROVE  /\ DirectItem(d, b, item, idx).layers = Append(d.layers, Single(b, item))
           /\ SameDirect(DirectItem(d, b, item, idx), d)
           /\ DirectPop(d).layers = Front(d.layers) /\ IsDirect(DirectPop(d))
           /\ SameDirect(DirectPop(d), d)
BY DEF DirectItem, DirectPush, DirectPop, IsDirect, SameDirect

LEMMA TextFor ==
    ASSUME ScriptInv, TextInv, parted' = Together, Opens, NEW n, NEW b, For(n, b)
    PROVE  TextInv'
<1> DEFINE rec == ListOr(Resolve(Top.rec, n))
           dir == ListOr(DirectResolve(Top.dir, n))
           g == Opened(Top, b, rec.items)
           c == Block("for", b, rec.items, NoCall)
           item == Str(Head(rec.items))
<1>1. frames # <<>> /\ NoneEach(Top)
  BY NoneEachOpen DEF Opens
<1>2. /\ parted = Together
      /\ frames' = <<>> \/ frames' = Append(Below, g)
  <2>1. Decide("for", rec, dir, Append(Below, g)) /\ "for" # Together
    BY DEF For, Together
  <2> HIDE DEF rec, dir, g
  <2> QED  BY <2>1, Followed
<1>3. /\ IsFrame(Top) /\ IsScope(Top.rec) /\ IsList(Top.rec.layers) /\ IsList(Top.open)
      /\ IsDirect(Top.dir) /\ SameBase(Top.rec, Top.rec) /\ SameInclude(Top)
      /\ InTurn(Top.open, Top.dir.layers, Len(Top.open))
  BY <1>1, <1>2, TextAtTop
<1>4. CASE frames' = Append(Below, g) /\ rec.items = Empty
  <2>1. g = Top
    BY <1>4 DEF Opened
  <2>2. SameTemplate(Top, Top) /\ SameDirect(Top.dir, Top.dir)
    BY <1>1, SameTop DEF SameDirect
  <2>3. frames' = Append(Below, Top)
    BY <1>4, <2>1
  <2> QED  BY <1>1, <1>2, <1>3, <2>2, <2>3, TextTop
<1>5. CASE frames' = Append(Below, g) /\ rec.items # Empty
  <2> DEFINE o == Append(Top.open, c)
             t == SetItem(PushLayer(Top.rec, Empty), b, item, 0)
             d == DirectItem(Top.dir, b, item, 0)
             m == Len(Top.open)
  <2>1. g = [Top EXCEPT !.open = o, !.rec = t, !.dir = d]
    BY <1>2, <1>5 DEF Opened, Direct
  <2>2. c.kind = "for" /\ Bound(c) = Single(b, item)
    <3>1. rec.items \in Seq(STRING)
      <4>1. IsWhole(Top.rec)
        BY <1>1, AtTop
      <4>2. Resolve(Top.rec, n).items \in Seq(STRING)
        BY <4>1, ResolvesToValue DEF IsValue
      <4>3. Throws.items \in Seq(STRING)
        <5>1. <<>> \in Seq(STRING)
          OBVIOUS
        <5> QED  BY <5>1 DEF Throws, Val, Empty
      <4> QED  BY <4>2, <4>3 DEF ListOr
    <3>2. Head(rec.items) = rec.items[1]
      BY <1>5, <3>1 DEF Empty
    <3>3. c.kind = "for" /\ c.name = b /\ c.items = rec.items /\ c.idx = 1
      BY DEF Block
    <3> HIDE DEF rec, c
    <3> QED  BY <3>2, <3>3 DEF Bound
  <2>3. SameBase(t, Top.rec)
    BY <1>3, ItemScope
  <2>4. d.layers = Append(Top.dir.layers, Single(b, item)) /\ SameDirect(d, Top.dir)
    BY <1>3, DirectItemIs
  <2> HIDE DEF rec, g, c, t, d, item
  <2>5. SameTemplate(g, Top) /\ g.open = o /\ g.dir = d
    <3> HIDE DEF o
    <3> QED  BY <1>3, <2>1, <2>3 DEF IsFrame, SameTemplate
  <2>6. /\ m \in Nat /\ IsList(g.open) /\ Len(g.open) = m + 1 /\ g.open[m + 1] = c
        /\ \A i \in 1..m : g.open[i] = Top.open[i]
    BY <1>3, <2>5, Appending DEF IsList
  <2>7. InTurn(g.open, Append(Top.dir.layers, Bound(g.open[m + 1])), m + 1)
        /\ Append(Top.dir.layers, Bound(g.open[m + 1]))[1] = Top.dir.layers[1]
    <3>1. InTurn(g.open, Top.dir.layers, m)
      BY <1>3, <2>6, TurnSame
    <3> HIDE DEF m
    <3> QED  BY <2>2, <2>6, <3>1, TurnGrows
  <2>8. SameInclude(g)
    <3>1. \A i \in 1..(m + 1) : i = m + 1 \/ i \in 1..m
      BY <2>6
    <3>2. \A i \in 1..(m + 1) : g.open[i].kind # "each"
      BY <1>1, <2>2, <2>6, <3>1 DEF NoneEach
    <3> QED  BY <2>6, <3>2 DEF SameInclude
  <2>9. frames' = Append(Below, g)
    BY <1>5
  <2>10. /\ InTurn(g.open, g.dir.layers, Len(g.open)) /\ SameDirect(g.dir, Top.dir)
         /\ g.dir.layers[1] = Top.dir.layers[1]
    BY <2>2, <2>4, <2>5, <2>6, <2>7
  <2> QED  BY <1>1, <1>2, <2>5, <2>8, <2>9, <2>10, TextTop
<1> QED  BY <1>2, <1>4, <1>5, TextStops

\* The last block is closed, and its item's layer popped if it is a loop.
LEMMA TextCloses ==
    ASSUME ScriptInv, TextInv, parted = Together, frames # <<>>, NEW n \in Nat,
           Len(Top.open) = n + 1, NEW g, frames' = Append(Below, g), SameTemplate(g, Top),
           Len(g.open) = n, SameDirect(g.dir, Top.dir),
           \A j \in 1..n : /\ g.open[j].kind = Top.open[j].kind
                           /\ Bound(g.open[j]) = Bound(Top.open[j]),
           g.dir.layers = IF Top.open[n + 1].kind = "for" THEN Front(Top.dir.layers)
                          ELSE Top.dir.layers
    PROVE  TextInv'
<1>1. /\ InTurn(Top.open, Top.dir.layers, n + 1) /\ Shaped(Top, Leaked(Depth))
  BY TextAtTop
<1>2. InTurn(Top.open, g.dir.layers, n) /\ g.dir.layers[1] = Top.dir.layers[1]
  <2>1. CASE Top.open[n + 1].kind = "for"
    <3>1. InTurn(Top.open, Front(Top.dir.layers), n) /\ Front(Top.dir.layers)[1] = Top.dir.layers[1]
      BY <1>1, <2>1, TurnShrinks
    <3> QED  BY <2>1, <3>1
  <2>2. CASE Top.open[n + 1].kind # "for"
    <3>1. InTurn(Top.open, Top.dir.layers, n)
      BY <1>1, <2>2, TurnPlain
    <3> QED  BY <2>2, <3>1
  <2> QED  BY <2>1, <2>2
<1>3. InTurn(g.open, g.dir.layers, n)
  BY <1>2, TurnSame
<1>4. SameInclude(g)
  <2> SUFFICES ASSUME NEW j \in 1..n, g.open[j].kind = "each" PROVE FALSE
    BY DEF SameInclude
  <2>1. j \in 1..Len(Top.open) /\ j # Len(Top.open) /\ Top.open[j].kind = "each"
    OBVIOUS
  <2> QED  BY <1>1, <2>1 DEF Shaped, BlocksOK, BlockOK
<1> QED  BY <1>2, <1>3, <1>4, TextTop

LEMMA TextCloseFor ==
    ASSUME ScriptInv, TextInv, parted' = Together, CloseFor
    PROVE  TextInv'
<1> DEFINE n == Len(Top.open) - 1
           o == [i \in 1..n |-> IF Top.open[i].name = Inner.name
                                THEN [Top.open[i] EXCEPT !.reused = TRUE] ELSE Top.open[i]]
           rec == PopLayer(Top.rec)
           d == DirectPop(Top.dir)
           g == [Top EXCEPT !.open = o, !.rec = rec, !.dir = d]
<1>1. /\ frames # <<>> /\ n \in Nat /\ Len(Top.open) = n + 1
      /\ Inner = Top.open[n + 1] /\ Inner.kind = "for" /\ BlocksOK(Top)
  BY LastBlock DEF CloseFor
<1>2. parted = Together /\ frames' = Append(Below, g)
  BY DEF CloseFor, Replace, Direct
<1>3. IsFrame(Top) /\ IsScope(Top.rec) /\ IsDirect(Top.dir)
  BY <1>1, <1>2, TextAtTop
<1>4. Len(o) = n
  <2>1. DOMAIN o = 1..n /\ o = [i \in 1..n |-> o[i]]
    OBVIOUS
  <2> HIDE DEF o, n
  <2> QED  BY <1>1, <2>1, Listing
<1>5. \A j \in 1..n : o[j].kind = Top.open[j].kind /\ Bound(o[j]) = Bound(Top.open[j])
  <2> SUFFICES ASSUME NEW j \in 1..n
               PROVE  o[j].kind = Top.open[j].kind /\ Bound(o[j]) = Bound(Top.open[j])
    OBVIOUS
  <2> DEFINE c == Top.open[j]
  <2>1. IsBlock(c)
    <3>1. j \in 1..Len(Top.open)
      BY <1>1
    <3> QED  BY <1>1, <3>1 DEF BlocksOK, BlockOK
  <2>2. o[j] = [c EXCEPT !.reused = TRUE] \/ o[j] = c
    OBVIOUS
  <2> HIDE DEF o, c
  <2>3. /\ o[j].kind = c.kind /\ o[j].name = c.name /\ o[j].items = c.items
        /\ o[j].idx = c.idx
    BY <2>1, <2>2 DEF IsBlock
  <2>4. Bound(o[j]) = Bound(c)
    BY <2>3 DEF Bound
  <2> QED  BY <2>3, <2>4 DEF c
<1>6. SameBase(rec, Top.rec)
  BY <1>3, PoppedScope
<1>7. d.layers = Front(Top.dir.layers) /\ SameDirect(d, Top.dir)
  BY <1>3, DirectItemIs
<1> HIDE DEF o, rec, d
<1>8. SameTemplate(g, Top) /\ g.open = o /\ g.dir = d
  <2>1. g = [Top EXCEPT !.open = o, !.rec = rec, !.dir = d]
    OBVIOUS
  <2> HIDE DEF g
  <2> QED  BY <1>3, <1>6, <2>1 DEF IsFrame, SameTemplate
<1> HIDE DEF g, n
<1> QED  BY <1>1, <1>2, <1>4, <1>5, <1>7, <1>8, TextCloses

\* A block that is no loop is closed.
LEMMA TextFront ==
    ASSUME ScriptInv, TextInv, parted' = Together, NEW kinds, InBlock(kinds),
           "for" \notin kinds, NEW rec, SameBase(rec, Top.rec),
           Replace([Top EXCEPT !.open = Front(Top.open), !.rec = rec])
    PROVE  TextInv'
<1> DEFINE n == Len(Top.open) - 1
           o == Front(Top.open)
           g == [Top EXCEPT !.open = o, !.rec = rec]
<1>1. /\ frames # <<>> /\ n \in Nat /\ Len(Top.open) = n + 1 /\ Len(Top.open) # 0
      /\ Top.open[n + 1].kind # "for"
  BY LastBlock
<1>2. parted = Together /\ frames' = Append(Below, g)
  BY DEF Replace
<1>3. IsFrame(Top) /\ IsList(Top.open)
  BY <1>1, <1>2, TextAtTop
<1>4. Len(o) = n /\ \A j \in 1..n : o[j] = Top.open[j]
  BY <1>1, <1>3, Fronting
<1> HIDE DEF o
<1>5. SameTemplate(g, Top) /\ g.open = o /\ g.dir = Top.dir
  <2>1. g = [Top EXCEPT !.open = o, !.rec = rec]
    OBVIOUS
  <2> HIDE DEF g
  <2> QED  BY <1>3, <2>1 DEF IsFrame, SameTemplate
<1> HIDE DEF g, n
<1>6. SameDirect(g.dir, Top.dir) /\ g.dir.layers = Top.dir.layers
  BY <1>5 DEF SameDirect
<1> QED  BY <1>1, <1>2, <1>4, <1>5, <1>6, TextCloses

LEMMA TextCloseBlock ==
    ASSUME ScriptInv, TextInv, parted' = Together, CloseBlock
    PROVE  TextInv'
<1> DEFINE kinds == {"unwrapped", "plain", "some", "arm"}
           rec == IF Inner.kind = "plain" THEN Top.rec ELSE PopLayer(Top.rec)
<1>1. /\ InBlock(kinds) /\ "for" \notin kinds
      /\ Replace([Top EXCEPT !.open = Front(Top.open), !.rec = rec])
  BY DEF CloseBlock
<1>2. frames # <<>>
  BY <1>1, LastBlock
<1>3. SameBase(rec, Top.rec)
  <2>1. IsScope(Top.rec) /\ SameBase(Top.rec, Top.rec)
    BY <1>2, SameTop, AtTop DEF Shaped, SameTemplate
  <2> QED  BY <2>1, PoppedScope
<1> HIDE DEF kinds, rec
<1> QED  BY <1>1, <1>3, TextFront

LEMMA TextCloseInclude ==
    ASSUME ScriptInv, TextInv, parted' = Together, CloseInclude
    PROVE  TextInv'
<1> DEFINE kinds == {"each"}
           o == Front(Top.open)
<1>1. InBlock(kinds) /\ "for" \notin kinds /\ Replace([Top EXCEPT !.open = o])
  BY DEF CloseInclude
<1>2. frames # <<>>
  BY <1>1, LastBlock
<1>3. IsFrame(Top) /\ SameBase(Top.rec, Top.rec)
  BY <1>2, SameTop, AtTop DEF SameTemplate
<1>4. [Top EXCEPT !.open = o, !.rec = Top.rec] = [Top EXCEPT !.open = o]
  <2> HIDE DEF o
  <2> QED  BY <1>3 DEF IsFrame
<1>5. Replace([Top EXCEPT !.open = o, !.rec = Top.rec])
  BY <1>1, <1>4
<1> HIDE DEF kinds
<1> QED  BY <1>1, <1>3, <1>5, TextFront

LEMMA TextNextItem ==
    ASSUME ScriptInv, TextInv, parted' = Together, NextItem
    PROVE  TextInv'
<1> DEFINE n == Len(Top.open) - 1
           item == Str(Inner.items[Inner.idx + 1])
           idx == Inner.idx + 1
           b == [Inner EXCEPT !.idx = idx, !.reused = FALSE]
           o == [Top.open EXCEPT ![n + 1] = b]
           rec == SetItem(Top.rec, Inner.name, item, Inner.idx)
           d == DirectItem(DirectPop(Top.dir), Inner.name, item, Inner.idx)
           g == [Top EXCEPT !.open = o, !.rec = rec, !.dir = d]
<1>1. /\ frames # <<>> /\ n \in Nat /\ Len(Top.open) = n + 1 /\ n + 1 \in 1..(n + 1)
      /\ Inner = Top.open[n + 1] /\ Inner.kind = "for" /\ IsBlock(Inner)
  BY LastBlock DEF NextItem, BlockOK
<1>2. parted = Together /\ frames' = Append(Below, g)
  <2>1. Replace([Top EXCEPT !.open = [Top.open EXCEPT ![Len(Top.open)] = b],
                            !.rec = rec, !.dir = Direct(Top.dir, d)])
    BY DEF NextItem
  <2>2. Len(Top.open) = n + 1
    BY <1>1
  <2> HIDE DEF rec, d, b, n
  <2> QED  BY <2>1, <2>2 DEF Replace, Direct
<1>3. /\ IsFrame(Top) /\ IsScope(Top.rec) /\ IsDirect(Top.dir) /\ IsList(Top.open)
      /\ InTurn(Top.open, Top.dir.layers, n + 1) /\ Shaped(Top, Leaked(Depth))
  BY <1>1, <1>2, TextAtTop
<1>4. b.kind = "for" /\ Bound(b) = Single(Inner.name, item)
  <2>1. b = [Inner EXCEPT !.idx = idx, !.reused = FALSE]
    OBVIOUS
  <2> HIDE DEF b, idx
  <2>2. b.kind = "for" /\ b.name = Inner.name /\ b.items = Inner.items /\ b.idx = idx
    BY <1>1, <2>1 DEF IsBlock
  <2>3. item = Str(b.items[b.idx])
    BY <2>2 DEF idx
  <2> HIDE DEF item
  <2> QED  BY <2>2, <2>3 DEF Bound
<1>5. /\ d.layers = Append(Front(Top.dir.layers), Single(Inner.name, item))
      /\ SameDirect(d, Top.dir)
  <2>1. /\ IsDirect(DirectPop(Top.dir)) /\ DirectPop(Top.dir).layers = Front(Top.dir.layers)
        /\ SameDirect(DirectPop(Top.dir), Top.dir)
    BY <1>3, DirectItemIs
  <2>2. /\ d.layers = Append(DirectPop(Top.dir).layers, Single(Inner.name, item))
        /\ SameDirect(d, DirectPop(Top.dir))
    BY <2>1, DirectItemIs
  <2> HIDE DEF d, item
  <2> QED  BY <2>1, <2>2 DEF SameDirect
<1>6. SameBase(rec, Top.rec)
  <2> DEFINE layers == [Top.rec.layers EXCEPT ![Len(Top.rec.layers)] =
                           Over(Single(Inner.name, item), Top.rec.layers[Len(Top.rec.layers)])]
             metas == Over(Single(Inner.name, Inner.idx), Top.rec.metas)
  <2>1. rec = [Top.rec EXCEPT !.layers = layers, !.metas = metas]
    BY DEF SetItem
  <2> HIDE DEF rec, layers, metas
  <2> QED  BY <1>3, <2>1 DEF SameBase, IsScope
<1>7. /\ Len(o) = n + 1 /\ o[n + 1] = b
      /\ \A i \in 1..(n + 1) : i # n + 1 => o[i] = Top.open[i]
  <2> HIDE DEF b, n
  <2> QED  BY <1>1, <1>3, Replacing
<1> HIDE DEF o, rec, d, b, item
<1>8. SameTemplate(g, Top) /\ g.open = o /\ g.dir = d
  <2>1. g = [Top EXCEPT !.open = o, !.rec = rec, !.dir = d]
    OBVIOUS
  <2> HIDE DEF g
  <2> QED  BY <1>3, <1>6, <2>1 DEF IsFrame, SameTemplate
<1> HIDE DEF g, n
<1>9. /\ InTurn(o, Front(Top.dir.layers), n)
      /\ Front(Top.dir.layers)[1] = Top.dir.layers[1]
  <2>1. /\ InTurn(Top.open, Front(Top.dir.layers), n)
        /\ Front(Top.dir.layers)[1] = Top.dir.layers[1]
    BY <1>1, <1>3, TurnShrinks
  <2>2. \A j \in 1..n : o[j] = Top.open[j]
    <3>1. \A j \in 1..n : j \in 1..(n + 1) /\ j # n + 1
      BY <1>1
    <3> QED  BY <1>7, <3>1
  <2> QED  BY <1>1, <2>1, <2>2, TurnSame
<1>10. /\ InTurn(o, Append(Front(Top.dir.layers), Bound(o[n + 1])), n + 1)
       /\ Append(Front(Top.dir.layers), Bound(o[n + 1]))[1] = Front(Top.dir.layers)[1]
  BY <1>1, <1>4, <1>7, <1>9, TurnGrows
<1>11. /\ InTurn(g.open, g.dir.layers, Len(g.open)) /\ SameDirect(g.dir, Top.dir)
       /\ g.dir.layers[1] = Top.dir.layers[1]
  BY <1>4, <1>5, <1>7, <1>8, <1>9, <1>10
<1>12. SameInclude(g)
  <2> SUFFICES ASSUME NEW j \in 1..(n + 1), o[j].kind = "each" PROVE FALSE
    BY <1>7, <1>8 DEF SameInclude
  <2>1. j # n + 1
    BY <1>4, <1>7
  <2>2. Top.open[j].kind = "each"
    BY <1>7, <2>1
  <2> QED  BY <1>1, <1>3, <2>1, <2>2 DEF Shaped, BlocksOK, BlockOK
<1> QED  BY <1>1, <1>2, <1>8, <1>11, <1>12, TextTop

----------------------------------------------------------------------------
(* An included template, as long as the renderers are together.            *)

\* A name stands for what the direct renderer shows for it.
LEMMA ShowsMeaning ==
    ASSUME NEW f, IsList(f.open), InTurn(f.open, f.dir.layers, Len(f.open)), Gives(f),
           NEW n \in Names(f)
    PROVE  Shown(DirectResolve(f.dir, n)) = Means(f, n)
<1>1. DirectResolve(f.dir, n) =
         IF LoopsOver(f, n) = {} THEN Bottom(f, n)
         ELSE LET b == f.open[Max(LoopsOver(f, n))] IN Str(b.items[b.idx])
  BY DirectSees
<1>2. CASE LoopsOver(f, n) = {}
  <2>1. n \in DOMAIN f.own
    BY <1>2 DEF Names, Bindings, LoopsOver
  <2>2. Means(f, n) = f.own[n]
    BY <1>2 DEF Means, LoopsOver
  <2> QED  BY <1>1, <1>2, <2>1, <2>2 DEF Gives
<1>3. CASE LoopsOver(f, n) # {}
  <2> DEFINE b == f.open[Max(LoopsOver(f, n))]
  <2>1. Means(f, n) = Str(b.items[b.idx])
    BY <1>3 DEF Means, LoopsOver
  <2>2. Str(b.items[b.idx]) # Undefined
    BY DEF Str, Undefined, Val
  <2> QED  BY <1>1, <1>3, <2>1, <2>2 DEF Shown
<1> QED  BY <1>2, <1>3

\* What a call passes to the direct renderer shows as what it passes to render().
ShowsAs(direct, passed) ==
    DOMAIN direct = DOMAIN passed /\ \A n \in DOMAIN passed : Shown(direct[n]) = passed[n]

\* The frame of a template that is included without being a value.
FramedAs(c, u, passed, direct) ==
    /\ c.unit = u /\ c.open = Empty /\ c.via \in {"file", "inline"}
    /\ c.own = Over(Units[u].consts, ChildContext(u, passed))
    /\ c.rec.ctx = ChildContext(u, passed) /\ c.rec.nonOptions = {}
    /\ c.dir.layers = <<Over(direct, Defaults(u))>> /\ c.dir.consts = Units[u].consts

LEMMA IncludedGives ==
    ASSUME NEW u \in DOMAIN Units, NEW passed, NEW direct, ShowsAs(direct, passed),
           NEW c, FramedAs(c, u, passed, direct),
           DOMAIN c.rec.ctx \cap DOMAIN Units[u].consts = {}
    PROVE  Gives(c)
<1> DEFINE top == Over(direct, Defaults(u))
           ctx == ChildContext(u, passed)
<1>1. /\ c.dir.layers[1] = top /\ c.dir.consts = Units[u].consts
      /\ c.own = Over(Units[u].consts, ctx) /\ DOMAIN ctx \cap DOMAIN Units[u].consts = {}
  BY DEF FramedAs
<1>2. /\ DOMAIN direct = DOMAIN passed
      /\ \A n \in DOMAIN passed : Shown(direct[n]) = passed[n]
  BY DEF ShowsAs
<1>3. \A p \in DOMAIN Defaults(u) : Defaults(u)[p] # Undefined
  BY DEF Defaults, NoDefault
<1>4. \A n \in DOMAIN Units[u].consts : Units[u].consts[n] # Undefined
  BY UnitsAreWhole
<1>5. /\ DOMAIN ctx = DOMAIN passed \cup DOMAIN Defaults(u) \cup OptionPaths(u)
      /\ \A n \in DOMAIN passed : ctx[n] = passed[n]
      /\ \A n \in DOMAIN Defaults(u) \ DOMAIN passed : ctx[n] = Defaults(u)[n]
      /\ \A n \in OptionPaths(u) \ (DOMAIN passed \cup DOMAIN Defaults(u)) : ctx[n] = None
  BY DEF ChildContext, Over
<1>6. /\ DOMAIN top = DOMAIN passed \cup DOMAIN Defaults(u)
      /\ \A n \in DOMAIN passed : top[n] = direct[n]
      /\ \A n \in DOMAIN Defaults(u) \ DOMAIN passed : top[n] = Defaults(u)[n]
  BY <1>2 DEF Over
<1> HIDE DEF top, ctx
<1>7. /\ DOMAIN c.own = DOMAIN Units[u].consts \cup DOMAIN ctx
      /\ \A n \in DOMAIN Units[u].consts : c.own[n] = Units[u].consts[n]
      /\ \A n \in DOMAIN ctx : c.own[n] = ctx[n]
  BY <1>1 DEF Over
<1> SUFFICES ASSUME NEW n \in DOMAIN c.own PROVE Shown(Bottom(c, n)) = c.own[n]
  BY DEF Gives
<1>8. CASE n \in DOMAIN Units[u].consts
  <2>1. n \notin DOMAIN top
    BY <1>1, <1>5, <1>6, <1>8
  <2> QED  BY <1>1, <1>4, <1>7, <1>8, <2>1 DEF Bottom, Shown
<1>9. CASE n \in DOMAIN passed
  BY <1>1, <1>2, <1>5, <1>6, <1>7, <1>9 DEF Bottom
<1>10. CASE n \in DOMAIN Defaults(u) \ DOMAIN passed
  BY <1>1, <1>3, <1>5, <1>6, <1>7, <1>10 DEF Bottom, Shown
<1>11. CASE n \in OptionPaths(u) \ (DOMAIN passed \cup DOMAIN Defaults(u))
  <2>1. n \notin DOMAIN top /\ n \notin DOMAIN Units[u].consts
    BY <1>1, <1>5, <1>6, <1>11
  <2> QED  BY <1>1, <1>5, <1>7, <1>11, <2>1 DEF Bottom, Shown
<1> QED  BY <1>5, <1>7, <1>8, <1>9, <1>10, <1>11

\* What render() accepts for an option is of its type.
LEMMA IncludedFits ==
    ASSUME NEW u \in DOMAIN Units, NEW passed, Accepted(u, passed), NEW direct,
           NEW c, FramedAs(c, u, passed, direct)
    PROVE  Fits(c)
<1> DEFINE ctx == ChildContext(u, passed)
<1>0. /\ OptionPaths(u) \subseteq DOMAIN c.own \cap DOMAIN c.rec.ctx /\ c.unit = u
      /\ c.rec.nonOptions \cap OptionPaths(u) = {} /\ c.via # "top"
  <2>1. OptionPaths(u) \subseteq DOMAIN ctx
    BY DEF Over, ChildContext
  <2>2. /\ c.own = Over(Units[u].consts, ctx) /\ c.unit = u /\ c.rec.nonOptions = {}
        /\ c.rec.ctx = ctx /\ c.via # "top"
    BY DEF FramedAs
  <2> HIDE DEF ctx
  <2> QED  BY <2>1, <2>2 DEF Over
<1> SUFFICES ASSUME NEW n \in OptionPaths(u) \ DOMAIN Units[u].consts
             PROVE  c.own[n].t \in {"none", "str"}
  BY <1>0 DEF Fits
<1>1. n \in DOMAIN Units[u].params /\ Units[u].params[n].type = "option"
  BY DEF OptionPaths
<1>2. n \notin DOMAIN Units[u].consts
  OBVIOUS
<1>3. c.own[n] = ChildContext(u, passed)[n]
  BY <1>0, <1>2 DEF FramedAs, Over
<1>4. CASE n \in DOMAIN passed
  <2>1. ConformsTo(passed[n], "option")
    BY <1>1, <1>4 DEF Accepted
  <2>2. passed[n].t \in {"none", "str"}
    BY <2>1 DEF ConformsTo
  <2> QED  BY <1>3, <1>4, <2>2 DEF ChildContext, Over
<1>5. CASE n \notin DOMAIN passed /\ n \in DOMAIN Defaults(u)
  <2>1. c.own[n] = Defaults(u)[n]
    BY <1>3, <1>5 DEF ChildContext, Over
  <2>2. /\ Defaults(u)[n] = Units[u].params[n].default
        /\ Units[u].params[n].default # NoDefault
    BY <1>5 DEF Defaults
  <2> QED  BY <2>1, <2>2, OptionsAreTyped
<1>6. CASE n \notin DOMAIN passed /\ n \notin DOMAIN Defaults(u)
  <2>1. c.own[n] = None
    BY <1>3, <1>6 DEF ChildContext, Over
  <2>2. None.t = "none"
    BY DEF None, Val
  <2> QED  BY <2>1, <2>2
<1> QED  BY <1>4, <1>5, <1>6

LEMMA IncludedBeside ==
    ASSUME NEW u \in DOMAIN Units, NEW passed, NEW direct, DOMAIN direct = DOMAIN passed,
           NEW c, FramedAs(c, u, passed, direct), c.dir.depth = c.rec.depth
    PROVE  Beside(c)
<1>1. Len(c.open) = 0 /\ Len(c.dir.layers) = 1 /\ IsList(c.dir.layers)
  <2>1. \A e : IsList(<<e>>) /\ Len(<<e>>) = 1
    BY DEF IsList
  <2> QED  BY <2>1, EmptyIsList DEF FramedAs, Empty
<1>2. LoopAt(c.open, 0) = 0
  BY LoopAtIs
<1>3. InTurn(c.open, c.dir.layers, Len(c.open))
  BY <1>1, <1>2 DEF InTurn
<1>4. SameInclude(c)
  BY <1>1 DEF SameInclude
<1>5. DOMAIN c.dir.layers[1] \subseteq DOMAIN c.own
  <2>1. c.dir.layers[1] = Over(direct, Defaults(u))
    BY DEF FramedAs
  <2>2. DOMAIN Over(direct, Defaults(u)) \subseteq DOMAIN ChildContext(u, passed)
    BY DEF Over, ChildContext
  <2>3. DOMAIN ChildContext(u, passed) \subseteq DOMAIN c.own
    BY DEF FramedAs, Over
  <2> QED  BY <2>1, <2>2, <2>3
<1> QED  BY <1>3, <1>4, <1>5 DEF Beside, FramedAs

\* The template that is rendered has no includer, and binds no constant.
LEMMA TopUnhidden ==
    ASSUME FrameInv(1)
    PROVE  Unhidden(1)
<1>1. frames[1].via = "top" /\ Shaped(frames[1], Leaked(1))
  BY DEF FrameInv, Includes
<1>2. Leaked(1) = {}
  BY <1>1, Outermost
<1>3. \A j \in DOMAIN frames[1].open :
         frames[1].open[j].kind = "for" => frames[1].open[j].name \notin Declared(frames[1].unit)
  BY <1>1 DEF Shaped, IsList, BlocksOK, BlockOK, BindingIsNew
<1>4. BoundConsts(1) = {}
  BY <1>3 DEF BoundConsts, Bindings, OpenLoops, ConstsOf, Declared
<1> QED  BY <1>2, <1>4 DEF Unhidden

\* The template c is entered from the innermost one, which becomes g.
LEMMA TextPush ==
    ASSUME ScriptInv, TextInv, parted = Together, frames # <<>>, NEW k, k = Depth,
           NEW g, NEW c, frames' = Below \o <<g, c>>, TextTopIs(g), Names(g) = Names(Top),
           Bindings(g) = Bindings(Top),
           Beside(c), Fits(c), c.dir.inlines = Top.dir.inlines,
           /\ NothingHidden(k)
           /\ DOMAIN c.rec.ctx \cap DOMAIN Units[c.unit].consts = {}
           => Gives(c)
    PROVE  TextInv'
<1>1. /\ k \in Nat /\ k > 0 /\ k - 1 \in Nat /\ k \in 1..k /\ 1 \in 1..k
      /\ Top = frames[k] /\ FrameInv(1) /\ IsList(Below) /\ Len(Below) + 1 = k
      /\ \A i \in 1..(k - 1) : Below[i] = frames[i] /\ i \in 1..k
      /\ \A i \in 1..k : i = k \/ i \in 1..(k - 1)
  <2>1. /\ Depth \in Nat \ {0} /\ Top = frames[Depth]
        /\ IsList(Below) /\ Len(Below) = Depth - 1
        /\ \A i \in 1..(Depth - 1) : Below[i] = frames[i]
    BY Stacked
  <2>2. k \in Nat /\ k > 0 /\ Len(Below) + 1 = k
    BY <2>1
  <2>3. FrameInv(1)
    BY <2>2 DEF ScriptInv
  <2> QED  BY <2>1, <2>2, <2>3
<1>2. /\ Len(frames') = k + 1 /\ frames'[k] = g /\ frames'[k + 1] = c
      /\ \A i \in 1..(k - 1) : frames'[i] = frames[i]
  <2>1. /\ Len(Below \o <<g, c>>) = k + 1
        /\ \A i \in 1..(k - 1) : (Below \o <<g, c>>)[i] = Below[i]
        /\ (Below \o <<g, c>>)[k] = g /\ (Below \o <<g, c>>)[k + 1] = c
    <3>1. IsList(Below) /\ k \in Nat /\ Len(Below) + 1 = k
      BY <1>1
    <3> QED  BY ONLY <3>1, TwoMore
  <2> QED  BY <1>1, <2>1
<1>3. /\ \A i \in 1..k : FrameText(i)'
      /\ Clear(k)' <=> Clear(k)
  BY <1>2, TextTopKept
<1>4. /\ \A i \in 1..k : frames'[i].unit = frames[i].unit /\ frames'[i].via = frames[i].via
      /\ \A i \in 1..(k - 1) : Names(frames'[i]) = Names(frames[i])
  BY <1>1, <1>2 DEF TextTopIs, SameTemplate
<1>5. frames'[k + 1].dir.inlines = Inlines(frames'[1].unit)
  <2>1. FrameText(k) /\ k \in 1..Depth
    BY <1>1 DEF TextInv
  <2> QED  BY <1>1, <1>2, <1>4, <2>1 DEF FrameText
<1>6. Clear(k + 1)' => Gives(c)
  <2> SUFFICES ASSUME Clear(k + 1)' PROVE Gives(c)
    OBVIOUS
  <2>1. \A j \in 2..(k + 1) : /\ DOMAIN frames'[j].rec.ctx \cap ConstsOf(j)' = {}
                              /\ j < k + 1 => Unhidden(j)'
    BY DEF Clear
  <2>2. Clear(k)
    <3>1. \A j \in 2..k : j \in 2..(k + 1) /\ (j < k => j < k + 1)
      BY <1>1
    <3>2. Clear(k)'
      BY <2>1, <3>1 DEF Clear
    <3> QED  BY <1>3, <3>2
  <2>3. Unhidden(k)
    <3>1. CASE k = 1
      BY <1>1, <3>1, TopUnhidden
    <3>2. CASE k # 1
      <4>1. k \in 2..(k + 1) /\ k < k + 1
        BY <1>1, <3>2
      <4>2. Names(g) \cap Leaked(k)' = {} /\ Bindings(g) \cap ConstsOf(k)' = {}
        BY <1>2, <2>1, <4>1 DEF Unhidden, BoundConsts
      <4>3. frames[1].via # "inline"
        BY <1>1 DEF FrameInv, Includes
      <4>4. Leaked(k)' = Leaked(k) /\ ConstsOf(k)' = ConstsOf(k)
        BY <1>1, <1>4, <4>3, OuterKept
      <4> QED  BY <1>1, <4>2, <4>4 DEF Unhidden, BoundConsts
    <3> QED  BY <3>1, <3>2
  <2>4. DOMAIN c.rec.ctx \cap DOMAIN Units[c.unit].consts = {}
    <3>1. k + 1 \in 2..(k + 1)
      BY <1>1
    <3> QED  BY <1>2, <2>1, <3>1 DEF ConstsOf
  <2> QED  BY <2>2, <2>3, <2>4 DEF NothingHidden
<1>7. FrameText(k + 1)'
  BY <1>2, <1>5, <1>6 DEF FrameText
<1>8. \A i \in 1..(k + 1) : i = k + 1 \/ i \in 1..k
  BY <1>1
<1> QED  BY <1>2, <1>3, <1>7, <1>8 DEF TextInv, Depth

LEMMA NoneIsHidden ==
    ASSUME ScriptInv, frames # <<>>, ~SomeNameHidden
    PROVE  NothingHidden(Depth)
<1> SUFFICES ASSUME NEW k, k = Depth PROVE NothingHidden(k)
  OBVIOUS
<1>1. k \in Nat \ {0} /\ k = Depth
  BY Stacked
<1>2. \A j \in 2..k : Unhidden(j) /\ DOMAIN frames[j].rec.ctx \cap ConstsOf(j) = {}
  BY <1>1 DEF SomeNameHidden, Unhidden, BoundConsts
<1>3. CASE k = 1
  <2>1. FrameInv(1)
    BY <1>1, <1>3, Stacked
  <2>2. Unhidden(1)
    BY <2>1, TopUnhidden
  <2> QED  BY <1>2, <1>3, <2>2 DEF NothingHidden, Clear
<1>4. CASE k # 1
  <2>1. k \in 2..k
    BY <1>1, <1>4
  <2> QED  BY <1>2, <2>1 DEF NothingHidden, Clear
<1> QED  BY <1>3, <1>4

\* The renderers see the same under a name of the template where none is hidden.
LEMMA ShowsSame ==
    ASSUME ScriptInv, TextInv, parted = Together, frames # <<>>, NothingHidden(Depth),
           NEW n \in Names(Top)
    PROVE  /\ Shown(DirectResolve(Top.dir, n)) = Means(Top, n)
           /\ Resolve(Top.rec, n) = Means(Top, n)
<1>1. Top = frames[Depth] /\ FrameInv(Depth) /\ Depth \in 1..Depth
  BY Stacked
<1>2. Gives(Top)
  <2>1. FrameText(Depth)
    BY <1>1 DEF TextInv
  <2> QED  BY <1>1, <2>1 DEF FrameText, NothingHidden
<1>3. Shown(DirectResolve(Top.dir, n)) = Means(Top, n)
  BY <1>2, TextAtTop, ShowsMeaning
<1>4. n \in Names(frames[Depth]) \ (Leaked(Depth) \cup BoundConsts(Depth))
  BY <1>1 DEF NothingHidden, Unhidden
<1> QED  BY <1>1, <1>3, <1>4, SeesOwn DEF FrameInv

\* A call passes the same to both renderers where no name is hidden.
LEMMA PassedSame ==
    ASSUME ScriptInv, TextInv, parted = Together, frames # <<>>, NothingHidden(Depth),
           NEW call, IsWritten(call, Names(Top)), NEW v
    PROVE  ShowsAs(Passed(call, Str(v), [p \in DOMAIN call.with |-> DirectResolve(Top.dir, call.with[p])]),
                   Passed(call, Str(v), [p \in DOMAIN call.with |-> Resolve(Top.rec, call.with[p])]))
<1> DEFINE direct == [p \in DOMAIN call.with |-> DirectResolve(Top.dir, call.with[p])]
           mapped == [p \in DOMAIN call.with |-> Resolve(Top.rec, call.with[p])]
           one == Single(call.for, Str(v))
<1>3. \A n \in Names(Top) : Shown(DirectResolve(Top.dir, n)) = Resolve(Top.rec, n)
  BY ShowsSame
<1>4. ShowsAs(direct, mapped)
  <2>1. \A p \in DOMAIN call.with : call.with[p] \in Names(Top)
    BY DEF IsWritten, Range
  <2> QED  BY <1>3, <2>1 DEF ShowsAs
<1>5. Shown(Str(v)) = Str(v)
  BY DEF Shown, Str, Val, Undefined
<1>6. DOMAIN one = {call.for} /\ one[call.for] = Str(v)
  BY DEF Single
<1> HIDE DEF direct, mapped, one
<1>7. ShowsAs(Over(direct, one), Over(mapped, one))
  BY <1>4, <1>5, <1>6 DEF ShowsAs, Over
<1>8. ShowsAs(Passed(call, Str(v), direct), Passed(call, Str(v), mapped))
  BY <1>4, <1>7 DEF Passed, one
<1> QED  BY <1>8 DEF direct, mapped

\* What an included template's frame is, when both renderers enter it.
BothEnter(f, t) ==
    /\ IsWhole(f.rec) /\ f.dir.depth = f.rec.depth /\ DirectTarget(f.dir, Last(f.open).call) = t
    /\ t.via \in {"file", "inline"} /\ t.unit \in DOMAIN Units

LEMMA IncludedIs ==
    ASSUME NEW f, NEW t, BothEnter(f, t), NEW passed, Shows(passed), NEW direct, NEW item, parted = Together
    PROVE  /\ FramedAs(Included(f, t, item, passed, direct), t.unit, passed, direct)
           /\ Included(f, t, item, passed, direct).dir.inlines = f.dir.inlines
           /\ Included(f, t, item, passed, direct).dir.depth =
                 Included(f, t, item, passed, direct).rec.depth
<1> DEFINE c == Included(f, t, item, passed, direct)
           r == IncludedScope(f.rec, t, passed)
           d == DirectIncluded(f.dir, t, direct)
           own == Over(Units[t.unit].consts, ChildContext(t.unit, passed))
<1>1. c = Frame(t.unit, t.via, own, r, d)
  BY DEF Included, Direct, BothEnter
<1>2. /\ r.ctx = ChildContext(t.unit, passed) /\ r.nonOptions = {}
      /\ r.depth = f.rec.depth - 1
  BY DEF IncludedScope, FileScope, InlineScope, Scope, BothEnter
<1>3. /\ d.layers = <<Over(direct, Defaults(t.unit))>> /\ d.consts = Units[t.unit].consts
      /\ d.inlines = f.dir.inlines /\ d.depth = f.dir.depth - 1
  BY DEF DirectIncluded, DirectScope
<1> HIDE DEF r, d, own, c
<1>4. /\ c.unit = t.unit /\ c.via = t.via /\ c.own = own /\ c.rec = r /\ c.dir = d
      /\ c.open = Empty
  BY <1>1 DEF Frame
<1>5. /\ FramedAs(c, t.unit, passed, direct) /\ c.dir.inlines = f.dir.inlines
      /\ c.dir.depth = c.rec.depth
  BY <1>2, <1>3, <1>4 DEF FramedAs, own, BothEnter
<1> QED  BY <1>5 DEF c

LEMMA TextEnterIncluded ==
    ASSUME ScriptInv, TextInv, parted' = Together, EnterIncluded
    PROVE  TextInv'
<1> SUFFICES ASSUME NEW k, k = Depth PROVE TextInv'
  OBVIOUS
<1> DEFINE n == Len(Top.open) - 1
           call == Inner.call
           item == Str(Inner.items[Inner.idx])
           t == Target(Top.rec, call)
           passed == Passed(call, item, [p \in DOMAIN call.with |-> Resolve(Top.rec, call.with[p])])
           direct ==
               Passed(call, item, [p \in DOMAIN call.with |-> DirectResolve(Top.dir, call.with[p])])
           rec == IF Undefined \in Range(passed) THEN Throws
                  ELSE IF t.via # "value" /\ ~Accepted(t.unit, passed) THEN Refused
                  ELSE Val("entered", t.unit, Empty)
           idx == Inner.idx + 1
           b == [Inner EXCEPT !.idx = idx]
           o == [Top.open EXCEPT ![n + 1] = b]
           g == [Top EXCEPT !.open = o]
           c == Included(Top, t, item, passed, direct)
<1>1. /\ frames # <<>> /\ n \in Nat /\ Len(Top.open) = n + 1 /\ n + 1 \in 1..(n + 1)
      /\ Inner = Top.open[n + 1] /\ Inner.kind = "each" /\ call \in Calls
      /\ IsBlock(Inner) /\ t.unit \in DOMAIN Units /\ BlockOK(Top, n + 1) /\ Inner.idx \in Nat
  <2>1. InBlock({"each"})
    BY DEF EnterIncluded
  <2>2. /\ frames # <<>> /\ n \in Nat /\ n + 1 = Len(Top.open)
        /\ Inner = Top.open[Len(Top.open)] /\ Inner.kind = "each" /\ BlockOK(Top, Len(Top.open))
    BY <2>1, LastBlock
  <2>3. IsBlock(Inner) /\ call \in Calls /\ t.unit \in DOMAIN Units /\ Inner.idx \in Nat
    BY <2>2 DEF BlockOK
  <2> HIDE DEF n, t, call
  <2>4. Len(Top.open) = n + 1 /\ n + 1 \in 1..(n + 1)
    BY <2>2
  <2> QED  BY <2>2, <2>3, <2>4
<1>2. /\ parted = Together
      /\ frames' = <<>> \/ (frames' = Below \o <<g, c>> /\ rec \notin {Throws, Refused})
  <2>1. Decide("with", rec, Val("entered", t.unit, Empty),
               Below \o <<[Top EXCEPT !.open = [Top.open EXCEPT ![Len(Top.open)] = b]], c>>)
    BY DEF EnterIncluded
  <2>2. Len(Top.open) = n + 1
    BY <1>1
  <2>3. "with" # Together
    BY DEF Together
  <2> HIDE DEF rec, c, b, n, t
  <2>4. Decide("with", rec, Val("entered", t.unit, Empty), Below \o <<g, c>>)
    BY <2>1, <2>2
  <2> HIDE DEF g
  <2> QED  BY <2>3, <2>4, Followed
<1>3. /\ IsFrame(Top) /\ IsDirect(Top.dir) /\ IsWhole(Top.rec) /\ IsList(Top.open)
      /\ Shaped(Top, Leaked(k)) /\ SameBase(Top.rec, Top.rec) /\ SameInclude(Top)
      /\ InTurn(Top.open, Top.dir.layers, n + 1) /\ Beside(Top) /\ InStep(Top)
  BY <1>1, <1>2, TextAtTop, AtTop
<1>4. /\ IsWritten(call, Names(Top)) /\ DirectTarget(Top.dir, call) = t
      /\ t.via \in {"file", "inline"}
  <2>1. IsWritten(call, Names(Top)) /\ DirectTarget(Top.dir, call) = t
    BY <1>1, <1>3 DEF SameInclude
  <2>2. Target(Top.rec, Top.open[n + 1].call).via # "value"
    BY <1>1, <1>3 DEF InStep
  <2>3. t.via \in {"file", "inline", "value"}
    BY SameKind
  <2> QED  BY <1>1, <2>1, <2>2, <2>3
<1>5. Shows(passed)
  BY <1>1, <1>3, PassedShows
<1>6. NothingHidden(k) => ShowsAs(direct, passed)
  <2> HIDE DEF call
  <2> QED  BY <1>1, <1>2, <1>4, PassedSame
<1>7. DOMAIN direct = DOMAIN passed
  BY DEF Passed, Over
<1>8. Inner = Last(Top.open) /\ Top.dir.depth = Top.rec.depth
  BY <1>3 DEF Inner, Beside
<1>9. /\ b.kind = "each" /\ b.call = call
  <2>1. b = [Inner EXCEPT !.idx = idx]
    OBVIOUS
  <2> HIDE DEF b, idx
  <2> QED  BY <1>1, <2>1 DEF IsBlock
<1>10. IsBlock(b) /\ b.name = Inner.name /\ b.idx \in Nat
  <2>1. b = [Inner EXCEPT !.idx = idx] /\ idx \in Nat
    BY <1>1
  <2> HIDE DEF b, idx
  <2> QED  BY <1>1, <2>1 DEF IsBlock
<1> HIDE DEF t, passed, direct, item, rec, b
<1>11. /\ FramedAs(c, t.unit, passed, direct) /\ c.dir.inlines = Top.dir.inlines
       /\ c.dir.depth = c.rec.depth
  <2>1. DirectTarget(Top.dir, Last(Top.open).call) = t
    BY <1>4, <1>8
  <2>2. BothEnter(Top, t)
    BY <1>1, <1>3, <1>4, <1>8, <2>1 DEF BothEnter
  <2> QED  BY <1>2, <1>5, <2>2, IncludedIs
<1>12. /\ SameTemplate(g, Top) /\ g.open = o /\ g.dir = Top.dir /\ g.rec = Top.rec
  <2>1. g = [Top EXCEPT !.open = o]
    OBVIOUS
  <2> HIDE DEF g, o
  <2> QED  BY <1>3, <2>1 DEF IsFrame, SameTemplate
<1> HIDE DEF c, call
<1>13. CASE frames' = Below \o <<g, c>> /\ rec \notin {Throws, Refused}
  <2> HIDE DEF g, n
  <2>1. Accepted(t.unit, passed)
    BY <1>4, <1>13 DEF rec
  <2>2. Beside(c) /\ Fits(c)
    BY <1>1, <1>7, <1>11, <2>1, IncludedBeside, IncludedFits
  <2>3. /\ NothingHidden(k)
        /\ DOMAIN c.rec.ctx \cap DOMAIN Units[c.unit].consts = {}
        => Gives(c)
    <3>1. c.unit = t.unit
      BY <1>11 DEF FramedAs
    <3> QED  BY <1>1, <1>6, <1>11, <3>1, IncludedGives
  <2>4. /\ Len(g.open) = n + 1 /\ g.open[n + 1] = b
        /\ \A i \in 1..n : g.open[i] = Top.open[i]
        /\ Names(g) = Names(Top) /\ Bindings(g) = Bindings(Top)
    <3>1. GoesOn(g, Top, n, b)
      BY <1>1, <1>9, <1>10, <1>12 DEF GoesOn, o, call
    <3> QED  BY <1>1, <1>3, <1>12, <3>1, GoingOn
  <2>5. TextTopIs(g)
    <3>1. \A i \in 1..(n + 1) : i = n + 1 \/ i \in 1..n
      BY <1>1
    <3>2. InTurn(g.open, g.dir.layers, Len(g.open))
      <4>1. \A i \in 1..(n + 1) : /\ g.open[i].kind = Top.open[i].kind
                                  /\ Top.open[i].kind = "for" => Bound(g.open[i]) = Bound(Top.open[i])
        BY <1>1, <1>9, <2>4, <3>1
      <4>2. n + 1 \in Nat
        BY <1>1
      <4> QED  BY <1>3, <1>12, <2>4, <4>1, <4>2, TurnSame
    <3>3. SameInclude(g)
      <4> SUFFICES ASSUME NEW j \in 1..(n + 1), g.open[j].kind = "each"
                   PROVE  /\ IsWritten(g.open[j].call, Names(g))
                          /\ DirectTarget(g.dir, g.open[j].call) = Target(g.rec, g.open[j].call)
        BY <2>4 DEF SameInclude
      <4>1. g.open[j].call = Top.open[j].call /\ Top.open[j].kind = "each"
        BY <1>1, <1>9, <2>4, <3>1 DEF call
      <4> QED  BY <1>1, <1>3, <1>12, <2>4, <4>1 DEF SameInclude
    <3> QED  BY <1>12, <3>2, <3>3 DEF TextTopIs, SameDirect
  <2>6. frames' = Below \o <<g, c>>
    BY <1>13
  <2> QED  BY <1>1, <1>2, <1>11, <2>2, <2>3, <2>4, <2>5, <2>6, TextPush
<1> QED  BY <1>2, <1>13, TextStops

LEMMA TextEndBody ==
    ASSUME ScriptInv, TextInv, EndBody
    PROVE  TextInv'
BY TextFewer DEF EndBody

\* What render() is called with is what both renderers show.
LEMMA ContextFits ==
    ASSUME NEW given \in Given
    PROVE  /\ \A p \in DOMAIN Units[Main].params : Context(given)[p] # Undefined
           /\ \A p \in OptionPaths(Main) : Context(given)[p].t \in {"none", "str"}
<1>1. ASSUME NEW p \in DOMAIN Units[Main].params
      PROVE  /\ Context(given)[p] =
                   IF p \in DOMAIN given THEN given[p] ELSE Units[Main].params[p].default
             /\ p \in DOMAIN given => given[p] # Undefined
             /\ p \notin DOMAIN given => Units[Main].params[p].default # NoDefault
  <2>1. /\ p \in DOMAIN given \cup DOMAIN Defaults(Main)
        /\ p \in DOMAIN given => given[p] # Undefined
    BY UnitsAreWhole
  <2>2. Context(given)[p] = IF p \in DOMAIN given THEN given[p] ELSE Defaults(Main)[p]
    BY <2>1 DEF Context, Over
  <2>3. p \in DOMAIN Defaults(Main) =>
           /\ Defaults(Main)[p] = Units[Main].params[p].default
           /\ Units[Main].params[p].default # NoDefault
    BY DEF Defaults
  <2> QED  BY <2>1, <2>2, <2>3
<1>2. ASSUME NEW p \in OptionPaths(Main) PROVE Context(given)[p].t \in {"none", "str"}
  <2>1. p \in DOMAIN Units[Main].params
    BY DEF OptionPaths
  <2>2. /\ \/ Units[Main].params[p].default = NoDefault
           \/ Units[Main].params[p].default.t \in {"none", "str"}
        /\ p \in DOMAIN given => given[p].t \in {"none", "str"}
    BY OptionsAreTyped, UnitsAreWhole
  <2> QED  BY <1>1, <2>1, <2>2
<1> QED  BY <1>1, <1>2 DEF NoDefault

LEMMA InitTextInv == Init => TextInv
<1> SUFFICES ASSUME Init PROVE TextInv
  OBVIOUS
<1>1. PICK given \in Given : frames = <<TopFrame(given)>>
  BY DEF Init
<1> DEFINE f == TopFrame(given)
           ctx == Context(given)
           consts == Units[Main].consts
<1>2. frames[1] = f /\ Len(frames) = 1
  <2>1. frames = <<f>>
    BY <1>1
  <2> HIDE DEF f
  <2>2. ASSUME NEW e PROVE <<e>>[1] = e /\ Len(<<e>>) = 1
    OBVIOUS
  <2> QED  BY <2>1, <2>2
<1>3. /\ f.unit = Main /\ f.via = "top" /\ f.open = <<>>
      /\ f.own = Over(consts, ctx) /\ f.rec = RenderScope(ctx) /\ f.dir = UncheckedScope(ctx)
  BY DEF TopFrame, Frame, Empty
<1> HIDE DEF f
<1>4. /\ f.rec.nonOptions = NonOptionParams(Main) /\ f.rec.depth = MaxIncludeDepth
      /\ f.rec.ctx = ctx
  <2> HIDE DEF ctx
  <2> QED  BY <1>3 DEF RenderScope, Scope
<1>5. /\ f.dir.layers = <<ctx>> /\ f.dir.consts = consts /\ f.dir.inlines = Inlines(Main)
      /\ f.dir.depth = MaxIncludeDepth
  <2> HIDE DEF ctx
  <2> QED  BY <1>3 DEF UncheckedScope, DirectScope
<1>6. /\ DOMAIN ctx = DOMAIN Units[Main].params
      /\ \A p \in DOMAIN ctx : ctx[p] # Undefined
      /\ \A p \in OptionPaths(Main) : ctx[p].t \in {"none", "str"}
      /\ DOMAIN ctx \cap DOMAIN consts = {}
      /\ \A n \in DOMAIN consts : consts[n] # Undefined
  BY ContextShows, ContextFits, ParamsAreNoConsts, UnitsAreWhole
<1> HIDE DEF ctx, consts
<1>7. /\ DOMAIN f.own = DOMAIN consts \cup DOMAIN ctx
      /\ \A n \in DOMAIN ctx : f.own[n] = ctx[n]
      /\ \A n \in DOMAIN consts : f.own[n] = consts[n]
  BY <1>3, <1>6 DEF Over
<1>8. f.dir.layers[1] = ctx /\ IsList(f.dir.layers) /\ Len(f.dir.layers) = 1
  BY <1>5 DEF IsList
<1>9. Len(f.open) = 0 /\ LoopAt(f.open, 0) = 0
  BY <1>3, EmptyIsList, LoopAtIs
<1>10. Beside(f)
  <2>1. InTurn(f.open, f.dir.layers, Len(f.open)) /\ SameInclude(f)
    BY <1>8, <1>9 DEF InTurn, SameInclude
  <2> QED  BY <1>3, <1>4, <1>5, <1>7, <1>8, <2>1 DEF Beside, consts
<1>11. Fits(f)
  <2>1. f.rec.nonOptions \cap OptionPaths(f.unit) = {}
    BY <1>3, <1>4 DEF NonOptionParams
  <2>2. OptionPaths(f.unit) \subseteq DOMAIN ctx
    BY <1>3, <1>6 DEF OptionPaths
  <2> QED  BY <1>3, <1>4, <1>6, <1>7, <2>1, <2>2 DEF Fits, consts
<1>12. Gives(f)
  BY <1>5, <1>6, <1>7, <1>8 DEF Gives, Bottom, Shown
<1>13. FrameText(1)
  BY <1>2, <1>3, <1>5, <1>10, <1>11, <1>12 DEF FrameText
<1> QED  BY <1>2, <1>13 DEF TextInv, Depth

LEMMA NextKeepsText == ScriptInv /\ TextInv /\ [Next]_vars => TextInv'
<1> SUFFICES ASSUME ScriptInv, TextInv, [Next]_vars, parted' = Together PROVE TextInv'
  BY DEF TextInv
<1>1. ASSUME Opens, NEW n \in Names(Top), NEW b \in Loops, BindingIsNew(Top, b), For(n, b)
      PROVE  TextInv'
  BY <1>1, TextFor
<1>2. ASSUME Opens, NEW n \in Names(Top), IfHas(n) PROVE TextInv'
  BY <1>2, TextIfHas
<1>3. ASSUME Opens, NEW n \in Names(Top), NEW arms \in Matches, Match(n, arms) PROVE TextInv'
  BY <1>3, TextMatch
<1>4. ASSUME Opens, NEW call \in Calls, IsWritten(call, Names(Top)), Include(call)
      PROVE  TextInv'
  BY <1>4, TextInclude
<1>5. CASE NextItem
  BY <1>5, TextNextItem
<1>6. CASE CloseFor
  BY <1>6, TextCloseFor
<1>7. CASE CloseBlock
  BY <1>7, TextCloseBlock
<1>8. CASE EnterIncluded
  BY <1>8, TextEnterIncluded
<1>9. CASE CloseInclude
  BY <1>9, TextCloseInclude
<1>10. CASE EndBody
  BY <1>10, TextEndBody
<1>11. CASE UNCHANGED vars
  BY <1>11, TextStays DEF vars
<1>12. CASE Opens /\ \E n \in Names(Top) :
               \/ \E b \in Loops : BindingIsNew(Top, b) /\ For(n, b)
               \/ IsOption(Top, n) /\ IfHas(n)
               \/ \E arms \in Matches : MatchIsTyped(Top, n, arms) /\ Match(n, arms)
  BY <1>1, <1>2, <1>3, <1>12
<1>13. CASE Opens /\ \E call \in Calls : IsWritten(call, Names(Top)) /\ Include(call)
  BY <1>4, <1>13
<1> QED
  BY <1>5, <1>6, <1>7, <1>8, <1>9, <1>10, <1>11, <1>12, <1>13 DEF Next

\* Until the renderers part, the direct scope of every open template lies beside
\* the recursive one: TextInv is an invariant of the renderers.
THEOREM TextInvHolds == Spec => []TextInv
<1>1. Init /\ ScriptInv => TextInv
  BY InitTextInv
<1> QED  BY <1>1, ScriptInvHolds, NextKeepsText, PTL DEF Spec

LEMMA ScriptSameText == ScriptInv /\ TextInv => SameText
<1> SUFFICES ASSUME ScriptInv, TextInv, frames # <<>>, parted = Together, ~SomeNameHidden,
                    NEW n \in Names(Top)
             PROVE  DirectShows(Top.dir, n) = Resolve(Top.rec, n)
  BY DEF SameText, Rendering
<1>1. NothingHidden(Depth)
  BY NoneIsHidden
<1> QED  BY <1>1, ShowsSame DEF DirectShows, Shown

\* Wherever no name is hidden, renderUnchecked() shows what render() shows, for any
\* templates and values and however deep they are included.
THEOREM TextIsSame == Spec => []SameText
BY ScriptSameText, ScriptInvHolds, TextInvHolds, PTL
----------------------------------------------------------------------------
(* The branches the renderers take at a node.                              *)

\* At a node where the renderers part, they were together and branch differently.
LEMMA Parts ==
    ASSUME NEW node, NEW rec, NEW dir, NEW next, Decide(node, rec, dir, next),
           parted' # parted
    PROVE  /\ parted = Together /\ parted' = node /\ rec # dir
           /\ frames' = IF rec \in {Throws, Refused} THEN <<>>
                        ELSE IF parted' = Together THEN next
                        ELSE [i \in DOMAIN next |-> [next[i] EXCEPT !.dir = NoDirect]]
BY DEF Decide

LEMMA NoneIs == None.t = "none" /\ Undefined.t = "undefined" /\ None # Undefined
BY DEF None, Undefined, Val

\* A list for one renderer is the same list for the other.
LEMMA ListsSame ==
    ASSUME ScriptInv, TextInv, parted = Together, frames # <<>>, NothingHidden(Depth),
           NEW n \in Names(Top), NEW r, r = Resolve(Top.rec, n), NEW d,
           d = DirectResolve(Top.dir, n)
    PROVE  /\ r.t = "list" <=> d.t = "list"
           /\ r.t = "list" => d = r
<1>1. Shown(d) = r
  BY ShowsSame
<1>2. d = r \/ (d = Undefined /\ r = None)
  BY <1>1 DEF Shown
<1> QED  BY <1>2, NoneIs

LEMMA ForParts ==
    ASSUME ScriptInv, TextInv, frames # <<>>, NEW n \in Names(Top), NEW b, For(n, b),
           parted' # parted
    PROVE  Known(parted')
<1> DEFINE r == Resolve(Top.rec, n)
           d == DirectResolve(Top.dir, n)
<1>1. parted = Together /\ ListOr(r) # ListOr(d)
  BY Parts DEF For
<1>2. CASE SomeNameHidden
  BY <1>2 DEF Known
<1>3. CASE ~SomeNameHidden
  <2>1. NothingHidden(Depth)
    BY <1>3, NoneIsHidden
  <2>2. (r.t = "list" <=> d.t = "list") /\ (r.t = "list" => d = r)
    BY <1>1, <2>1, ListsSame
  <2> QED  BY <1>1, <2>2 DEF ListOr
<1> QED  BY <1>2, <1>3

\* What an option is given is of its type, unless a constant hides it.
LEMMA OptionsTyped ==
    ASSUME ScriptInv, TextInv, parted = Together, frames # <<>>, NothingHidden(Depth),
           NEW n \in OptionPaths(Top.unit)
    PROVE  Top.own[n].t \in {"none", "str"}
<1> SUFFICES ASSUME NEW k, k = Depth PROVE Top.own[n].t \in {"none", "str"}
  OBVIOUS
<1>1. k \in Nat \ {0} /\ Top = frames[k] /\ FrameInv(k) /\ Fits(Top) /\ Clear(k)
  BY Stacked, TextAtTop DEF NothingHidden
<1>2. DOMAIN Top.rec.ctx \cap ConstsOf(k) = {}
  <2>1. CASE k = 1
    <3>1. Top.via = "top"
      BY <1>1, <2>1 DEF FrameInv, Includes
    <3> QED  BY <1>1, <3>1 DEF Fits, ConstsOf
  <2>2. CASE k # 1
    <3>1. k \in 2..k
      BY <1>1, <2>2
    <3> QED  BY <1>1, <3>1 DEF Clear
  <2> QED  BY <2>1, <2>2
<1> QED  BY <1>1, <1>2 DEF Fits, ConstsOf

\* has() of an option, also of one that is unwrapped, unless its text is taken for none.
LEMMA HasSame ==
    ASSUME ScriptInv, TextInv, parted = Together, frames # <<>>, NothingHidden(Depth),
           NEW n \in Names(Top), IsOption(Top, n), Means(Top, n) \notin TakenForNone,
           NEW s, Resolve(s, n) = Resolve(Top.rec, n), s.nonOptions = Top.rec.nonOptions
    PROVE  Has(s, n) = DirectHas(Top.dir, n)
<1> DEFINE r == Resolve(s, n)
           d == DirectResolve(Top.dir, n)
<1>1. Shown(d) = r /\ r = Means(Top, n)
  BY ShowsSame
<1>2. n \in OptionPaths(Top.unit) \cap DOMAIN Top.own /\ r = Top.own[n]
  BY <1>1, OptionIsOwn
<1>3. n \notin s.nonOptions /\ r.t \in {"none", "str"}
  BY <1>2, TextAtTop, OptionsTyped DEF Fits
<1>4. List(Empty).t = "list"
  BY DEF List, Val
<1>5. r # List(Empty) /\ r # Str("") /\ r # Str("None") /\ r # Undefined
  BY <1>1, <1>3, <1>4, NoneIs DEF TakenForNone
<1>6. r = None <=> d \in {None, Undefined, Str("None")}
  BY <1>1, <1>5, NoneIs DEF Shown
<1> HIDE DEF r, d
<1>7. Has(s, n) = IF r = None THEN Absent ELSE Present
  BY <1>3, <1>5 DEF Has, r
<1>8. DirectHas(Top.dir, n) = IF r = None THEN Absent ELSE Present
  BY <1>6 DEF DirectHas, d
<1> QED  BY ONLY <1>7, <1>8

LEMMA IfHasParts ==
    ASSUME ScriptInv, TextInv, frames # <<>>, NEW n \in Names(Top), IsOption(Top, n),
           IfHas(n), parted' # parted
    PROVE  Known(parted')
<1>1. parted = Together /\ parted' = "has" /\ Has(Top.rec, n) # DirectHas(Top.dir, n)
  BY Parts DEF IfHas
<1>2. CASE SomeNameHidden
  BY <1>2 DEF Known
<1>3. CASE ~SomeNameHidden
  <2>1. NothingHidden(Depth)
    BY <1>3, NoneIsHidden
  <2>2. Means(Top, n) \in TakenForNone
    BY <1>1, <2>1, HasSame
  <2>3. n \in OptionPaths(Top.unit)
    BY DEF IsOption
  <2> QED  BY <1>1, <2>2, <2>3 DEF Known
<1> QED  BY <1>2, <1>3

\* The innermost layer, after one more is pushed.
LEMMA InnermostAppended ==
    ASSUME NEW layers, IsList(layers), NEW e, NEW n
    PROVE  Innermost(Append(layers, e), n) =
              IF n \in DOMAIN e THEN e[n] ELSE Innermost(layers, n)
<1> DEFINE more == Append(layers, e)
<1>1. /\ IsList(more) /\ Len(more) = Len(layers) + 1 /\ Len(layers) \in Nat
      /\ \A i \in 1..Len(layers) : more[i] = layers[i]
      /\ more[Len(layers) + 1] = e
  BY Appending DEF IsList
<1> HIDE DEF more
<1>2. \A i \in 1..Len(more) : i = Len(more) \/ i \in 1..Len(layers)
  BY <1>1
<1>3. Len(more) \in 1..Len(more) /\ \A i \in 1..Len(layers) : i \in 1..Len(more) /\ i < Len(more)
  BY <1>1
<1>4. CASE n \in DOMAIN e
  <2>1. PICK r \in 1..Len(more) :
           /\ n \in DOMAIN more[r] /\ Innermost(more, n) = more[r][n]
           /\ \A i \in 1..Len(more) : n \in DOMAIN more[i] => i <= r
    BY <1>1, <1>3, <1>4, InnermostIn
  <2>2. Len(more) <= r
    BY <1>1, <1>3, <1>4, <2>1
  <2>3. r = Len(more)
    BY <1>1, <2>2
  <2> QED  BY <1>1, <1>4, <2>1, <2>3 DEF more
<1>5. CASE n \notin DOMAIN e
  <2>1. \A i \in 1..Len(more) : n \in DOMAIN more[i] => i \in 1..Len(layers) /\ more[i] = layers[i]
    BY <1>1, <1>2, <1>5
  <2>2. CASE \A i \in 1..Len(layers) : n \notin DOMAIN layers[i]
    <3>1. Innermost(layers, n) = Undefined
      BY <2>2, InnermostIn
    <3>2. Innermost(more, n) = Undefined
      BY <1>1, <2>1, <2>2, InnermostIn
    <3> QED  BY <1>5, <3>1, <3>2 DEF more
  <2>3. CASE \E i \in 1..Len(layers) : n \in DOMAIN layers[i]
    <3>1. PICK q \in 1..Len(layers) :
             /\ n \in DOMAIN layers[q] /\ Innermost(layers, n) = layers[q][n]
             /\ \A i \in 1..Len(layers) : n \in DOMAIN layers[i] => i <= q
      BY <2>3, InnermostIn
    <3>2. q \in 1..Len(more) /\ n \in DOMAIN more[q]
      BY <1>1, <1>3, <3>1
    <3>3. PICK r \in 1..Len(more) :
             /\ n \in DOMAIN more[r] /\ Innermost(more, n) = more[r][n]
             /\ \A i \in 1..Len(more) : n \in DOMAIN more[i] => i <= r
      BY <1>1, <3>2, InnermostIn
    <3>4. r \in 1..Len(layers) /\ more[r] = layers[r]
      BY <2>1, <3>3
    <3>5. r <= q /\ q <= r
      BY <3>1, <3>2, <3>3, <3>4
    <3>6. r = q
      BY <3>4, <3>5
    <3> QED  BY <1>5, <3>1, <3>3, <3>4, <3>6 DEF more
  <2> QED  BY <2>2, <2>3
<1> QED  BY <1>4, <1>5

\* A name resolves in an arm as outside it: the layer of a Some arm has what the
\* name of the option resolves to.
LEMMA ArmResolves ==
    ASSUME NEW s, IsScope(s), IsList(s.layers), IsList(s.narrowed), NEW n, NEW arm,
           NEW variant, NEW m, Resolve(s, n) # Undefined
    PROVE  /\ Resolve(ArmScope(s, n, arm, variant), m) = Resolve(s, m)
           /\ ArmScope(s, n, arm, variant).nonOptions = s.nonOptions
<1> DEFINE t == ArmScope(s, n, arm, variant)
           one == Single(n, Resolve(s, n))
<1>1. DOMAIN one = {n} /\ one[n] = Resolve(s, n) /\ DOMAIN Empty = {}
  BY DEF Single, Empty
<1>2. /\ SameBase(t, s)
      /\ \E e \in {one, Empty} : t.layers = Append(s.layers, e)
  BY NarrowedScope, PushedScope DEF ArmScope
<1> HIDE DEF t, one
<1>3. t.consts = s.consts /\ t.ctx = s.ctx /\ t.nonOptions = s.nonOptions
  BY <1>2 DEF SameBase
<1>4. PICK e \in {one, Empty} : t.layers = Append(s.layers, e)
  BY <1>2
<1>5. Innermost(t.layers, m) = IF m \in DOMAIN e THEN e[m] ELSE Innermost(s.layers, m)
  BY <1>4, InnermostAppended
<1>6. Resolve(t, m) = Resolve(s, m)
  <2>1. CASE m \notin DOMAIN e
    <3>1. Innermost(t.layers, m) = Innermost(s.layers, m)
      BY <1>5, <2>1
    <3> QED  BY <1>3, <3>1 DEF Resolve
  <2>2. CASE m \in DOMAIN e
    <3>1. m = n /\ Innermost(t.layers, m) = Resolve(s, m)
      BY <1>1, <1>4, <1>5, <2>2
    <3>2. m \in DOMAIN s.consts => Resolve(s, m) = s.consts[m]
      BY DEF Resolve
    <3>3. Resolve(t, m) = IF m \in DOMAIN s.consts THEN s.consts[m] ELSE Resolve(s, m)
      BY <1>3, <3>1 DEF Resolve
    <3> QED  BY <3>2, <3>3
  <2> QED  BY <2>1, <2>2
<1> QED  BY <1>3, <1>6 DEF t

\* No template is a value here: an option that is not unwrapped is its own.
LEMMA OptionsHere ==
    ASSUME ScriptInv, TextInv, parted = Together, frames # <<>>, NEW n,
           IsOptionParam(Top.rec, n)
    PROVE  n \in OptionPaths(Top.unit) /\ ~Unwrapped(Top, n)
<1> SUFFICES ASSUME NEW k, k = Depth PROVE n \in OptionPaths(Top.unit) /\ ~Unwrapped(Top, n)
  OBVIOUS
<1>1. k \in Nat \ {0} /\ Top = frames[k] /\ FrameInv(k)
  BY Stacked
<1>2. Top.via # "value"
  BY TextAtTop DEF Beside
<1>3. OptionsSeen(k) \subseteq OptionPaths(Top.unit)
  <2> SUFFICES ASSUME NEW j \in 1..k, \A m \in (j + 1)..k : frames[m].via = "value"
               PROVE  j = k
    BY <1>1 DEF OptionsSeen
  <2>1. j = k \/ k \in (j + 1)..k
    BY <1>1
  <2> QED  BY <1>1, <1>2, <2>1
<1>4. Top.rec.options = OptionsSeen(k) /\ Shaped(Top, Leaked(k))
  BY <1>1 DEF FrameInv, Options
<1>5. (\E i \in DOMAIN Top.rec.narrowed : n \in Top.rec.narrowed[i]) <=> Unwrapped(Top, n)
  BY <1>4, NarrowedIs
<1> QED  BY <1>3, <1>4, <1>5 DEF IsOptionParam


\* A match the static checks accept has the same variant for both renderers.
LEMMA VariantsSame ==
    ASSUME ScriptInv, TextInv, parted = Together, frames # <<>>, NothingHidden(Depth),
           Bindings(Top) \cap OptionPaths(Top.unit) = {},
           NEW n \in Names(Top), NEW arms, MatchIsTyped(Top, n, arms)
    PROVE  /\ Resolve(Top.rec, n) # Undefined
           /\ HasVariant(Resolve(Top.rec, n), AsOption(Top.rec, n, arms))
           /\ RecVariant(Top.rec, n, arms) =
                 DirectVariantName(DirectResolve(Top.dir, n), IsOptionMatchNode(arms))
<1> DEFINE r == Resolve(Top.rec, n)
           d == DirectResolve(Top.dir, n)
           option == IsOptionMatchNode(arms)
<1>1. Shown(d) = r /\ r = Means(Top, n)
  BY ShowsSame
<1>2. /\ r # Undefined /\ (r = None <=> d \in {None, Undefined}) /\ (r # None => d = r)
  BY <1>1, NoneIs DEF Shown
<1>3. CASE option
  <2>1. AsOption(Top.rec, n, arms)
    BY <1>3 DEF AsOption
  <2> HIDE DEF r, d, option
  <2>2. VariantName(r, TRUE) = IF r = None THEN "None" ELSE "Some"
    BY DEF VariantName
  <2>3. DirectVariantName(d, TRUE) = IF r = None THEN "None" ELSE "Some"
    BY <1>2 DEF DirectVariantName
  <2>4. AsOption(Top.rec, n, arms) = TRUE /\ option = TRUE
    BY <1>3, <2>1 DEF AsOption, option, IsOptionMatchNode
  <2>5. VariantName(r, AsOption(Top.rec, n, arms)) = DirectVariantName(d, option)
    BY <2>2, <2>3, <2>4
  <2> QED  BY <1>2, <2>1, <2>5 DEF RecVariant, HasVariant, r, d, option
<1>4. CASE ~option
  <2>1. r.t = "str" /\ (IsOption(Top, n) => Unwrapped(Top, n))
    BY <1>1, <1>4 DEF MatchIsTyped
  <2>2. r # None
    BY <2>1, NoneIs
  <2>3. ~IsOptionParam(Top.rec, n)
    <3> SUFFICES ASSUME IsOptionParam(Top.rec, n) PROVE FALSE
      OBVIOUS
    <3>1. n \in OptionPaths(Top.unit) /\ ~Unwrapped(Top, n)
      BY OptionsHere
    <3>2. IsOption(Top, n)
      BY <3>1 DEF IsOption
    <3> QED  BY <2>1, <3>1, <3>2
  <2>4. ~AsOption(Top.rec, n, arms)
    BY <1>4, <2>3 DEF AsOption
  <2> HIDE DEF r, d, option
  <2>5. VariantName(r, AsOption(Top.rec, n, arms)) = r.v
    BY <2>2, <2>4 DEF VariantName
  <2>6. DirectVariantName(d, option) = r.v
    BY <1>2, <1>4, <2>1, <2>2 DEF DirectVariantName
  <2> QED  BY <1>2, <2>1, <2>5, <2>6 DEF RecVariant, HasVariant, r, d, option
<1> QED  BY <1>3, <1>4

\* The direct renderer knows no other names than those of the template.
LEMMA DirectKnows ==
    ASSUME ScriptInv, TextInv, parted = Together, frames # <<>>, NEW n, n \notin Names(Top)
    PROVE  DirectResolve(Top.dir, n) = Undefined
<1>1. /\ IsList(Top.open) /\ InTurn(Top.open, Top.dir.layers, Len(Top.open))
      /\ DOMAIN Top.dir.layers[1] \subseteq DOMAIN Top.own
      /\ Top.dir.consts = Units[Top.unit].consts
  BY TextAtTop DEF Beside
<1>2. DOMAIN Units[Top.unit].consts \subseteq DOMAIN Top.own
  <2>1. Top = frames[Depth] /\ Own(Depth)
    BY Stacked DEF FrameInv
  <2> QED  BY <2>1 DEF Own, ConstsOf
<1>3. n \notin DOMAIN Top.own /\ LoopsOver(Top, n) = {}
  BY DEF Names, Bindings, LoopsOver
<1>4. DirectResolve(Top.dir, n) = Bottom(Top, n)
  BY <1>1, <1>3, DirectSees
<1> QED  BY <1>1, <1>2, <1>3, <1>4 DEF Bottom

\* Labels that are names are compared alike, unless one is an includer's.
LEMMA LabelsSame ==
    ASSUME ScriptInv, TextInv, parted = Together, frames # <<>>, NothingHidden(Depth),
           ~IncludersLabel, NEW n \in Names(Top), NEW arms \in Matches,
           NEW i \in DOMAIN arms, NEW l \in arms[i].labels
    PROVE  LET variant == RecVariant(Top.rec, n, arms)
           IN  LabelMatches(l, variant, Resolve(Top.rec, l))
                  <=> LabelMatches(l, variant, DirectResolve(Top.dir, l))
<1> DEFINE variant == RecVariant(Top.rec, n, arms)
<1>1. Str(variant) # Undefined /\ Str(variant) # None
  <2> HIDE DEF variant
  <2> QED  BY DEF Str, Undefined, None, Val
<1>2. Resolve(Top.rec, l) = Str(variant) <=> DirectResolve(Top.dir, l) = Str(variant)
  <2>1. CASE l \in Names(Top)
    <3>1. Shown(DirectResolve(Top.dir, l)) = Resolve(Top.rec, l)
      BY <2>1, ShowsSame
    <3> QED  BY <1>1, <3>1 DEF Shown
  <2>2. CASE l \notin Names(Top)
    <3>1. DirectResolve(Top.dir, l) = Undefined
      BY <2>2, DirectKnows
    <3>2. Resolve(Top.rec, l) # Str(variant)
      BY <2>2 DEF IncludersLabel
    <3> QED  BY <1>1, <3>1, <3>2
  <2> QED  BY <2>1, <2>2
<1> QED  BY <1>2 DEF LabelMatches

LEMMA MatchParts ==
    ASSUME ScriptInv, TextInv, frames # <<>>, NEW n \in Names(Top), NEW arms \in Matches,
           MatchIsTyped(Top, n, arms), Match(n, arms), parted' # parted
    PROVE  Known(parted')
<1>1. /\ parted = Together /\ parted' = "match"
      /\ MatchArm(Top.rec, n, arms) # DirectMatchArm(Top.dir, n, arms)
  BY Parts DEF Match
<1> SUFFICES ASSUME ~Known("match") PROVE FALSE
  BY <1>1
<1>2. /\ ~SomeNameHidden /\ ~IncludersLabel /\ Bindings(Top) \cap OptionPaths(Top.unit) = {}
      /\ \A m \in OptionPaths(Top.unit) : Means(Top, m) \notin TakenForNone
  BY DEF Known
<1>3. NothingHidden(Depth)
  BY <1>2, NoneIsHidden
<1> DEFINE variant == RecVariant(Top.rec, n, arms)
           scope(i) == ArmScope(Top.rec, n, arms[i], variant)
           taken == {i \in DOMAIN arms :
              /\ \E l \in arms[i].labels : LabelMatches(l, variant, Resolve(Top.rec, l))
              /\ arms[i].guard # NoGuard => Has(scope(i), arms[i].guard) = Present}
           others == {i \in DOMAIN arms :
              /\ \E l \in arms[i].labels : LabelMatches(l, variant, DirectResolve(Top.dir, l))
              /\ arms[i].guard # NoGuard => DirectHas(Top.dir, arms[i].guard) = Present}
<1>4. /\ Resolve(Top.rec, n) # Undefined
      /\ HasVariant(Resolve(Top.rec, n), AsOption(Top.rec, n, arms))
      /\ variant = DirectVariantName(DirectResolve(Top.dir, n), IsOptionMatchNode(arms))
  BY <1>1, <1>2, <1>3, VariantsSame
<1>5. MatchArm(Top.rec, n, arms) = FirstArm(taken)
  BY <1>4 DEF MatchArm
<1>6. DirectMatchArm(Top.dir, n, arms) = FirstArm(others)
  BY <1>4 DEF DirectMatchArm
<1> HIDE DEF variant
<1>7. ASSUME NEW i \in DOMAIN arms, NEW l \in arms[i].labels
      PROVE  LabelMatches(l, variant, Resolve(Top.rec, l))
                <=> LabelMatches(l, variant, DirectResolve(Top.dir, l))
  BY <1>1, <1>2, <1>3, LabelsSame DEF variant
<1>8. ASSUME NEW i \in DOMAIN arms, arms[i].guard # NoGuard
      PROVE  Has(scope(i), arms[i].guard) = DirectHas(Top.dir, arms[i].guard)
  <2> DEFINE m == arms[i].guard
             s == scope(i)
  <2>1. IsOption(Top, m)
    BY <1>8 DEF MatchIsTyped
  <2>2. Resolve(s, m) = Resolve(Top.rec, m) /\ s.nonOptions = Top.rec.nonOptions
    BY <1>1, <1>4, TextAtTop, ArmResolves
  <2>3. m \in OptionPaths(Top.unit)
    BY <2>1 DEF IsOption
  <2>4. m \in Names(Top) /\ Means(Top, m) \notin TakenForNone
    BY <1>1, <1>2, <2>3, TextAtTop DEF Fits, Names
  <2> HIDE DEF m, s
  <2>5. Has(s, m) = DirectHas(Top.dir, m)
    BY <1>1, <1>3, <2>1, <2>2, <2>4, HasSame
  <2> QED  BY <2>5 DEF m, s
<1> HIDE DEF scope
<1>9. taken = others
  BY <1>7, <1>8
<1> HIDE DEF taken, others
<1> QED  BY <1>1, <1>5, <1>6, <1>9

\* The inline templates of the outermost template are those of an inline template.
LEMMA InlinesOfOutermost ==
    ASSUME ScriptInv, frames # <<>>, \A j \in 2..Depth : frames[j].via = "inline"
    PROVE  Top.rec.inlines = Inlines(frames[1].unit)
<1> SUFFICES ASSUME NEW k, k = Depth PROVE Top.rec.inlines = Inlines(frames[1].unit)
  OBVIOUS
<1>1. /\ k \in Nat \ {0} /\ Top = frames[k] /\ FrameInv(k) /\ FrameInv(1)
      /\ \A j \in 1..k : j = 1 \/ j \in 2..k
  <2>1. Depth \in Nat \ {0} /\ Top = frames[Depth] /\ FrameInv(Depth)
    BY Stacked
  <2>2. 1 \in 1..Depth
    BY <2>1
  <2> QED  BY <2>1, <2>2 DEF ScriptInv
<1>2. frames[1].via = "top" /\ Top.rec.inlines = OwnInlines(k)
  BY <1>1 DEF FrameInv, Includes
<1>3. {j \in 1..k : frames[j].via # "inline"} = {1}
  BY <1>1, <1>2
<1>4. Max({1}) = 1
  BY MaxIs
<1> QED  BY <1>2, <1>3, <1>4 DEF OwnInlines

\* An include reaches the same for both renderers, but for values and for the names
\* of templates in an included file.
LEMMA TargetsSame ==
    ASSUME ScriptInv, TextInv, parted = Together, frames # <<>>,
           \A j \in 2..Depth : frames[j].via = "inline", NEW call,
           Target(Top.rec, call).via # "value"
    PROVE  DirectTarget(Top.dir, call) = Target(Top.rec, call)
<1>1. Top.dir.base = Top.rec.base
  BY AtTop DEF InStep
<1>2. Top.dir.inlines = Top.rec.inlines
  <2>1. Top = frames[Depth] /\ Depth \in 1..Depth
    BY Stacked
  <2>2. Top.dir.inlines = Inlines(frames[1].unit)
    BY <2>1 DEF TextInv, FrameText
  <2> QED  BY <2>2, InlinesOfOutermost
<1> QED  BY <1>1, <1>2 DEF Target, DirectTarget

\* What an include reaches: the same list, at the same depth.
LEMMA ReachesSame ==
    ASSUME ScriptInv, TextInv, parted = Together, frames # <<>>, NothingHidden(Depth),
           NEW call, IsWritten(call, Names(Top)), NEW t, NEW d,
           d = t \/ (t.via = "value" /\ t.unit # "missing")
    PROVE  LET r == Reached(Top.rec, t, call, Resolve(Top.rec, call.in))
           IN  /\ d = t => Reached(Top.dir, d, call, DirectResolve(Top.dir, call.in)) = r
               /\ r = Throws =>
                     Reached(Top.dir, d, call, DirectResolve(Top.dir, call.in)) = Throws
<1> DEFINE x == Resolve(Top.rec, call.in)
           y == DirectResolve(Top.dir, call.in)
<1>1. call.for # NoFor => (x.t = "list" <=> y.t = "list") /\ (x.t = "list" => y = x)
  BY ListsSame DEF IsWritten
<1>2. Top.dir.depth = Top.rec.depth
  BY TextAtTop DEF Beside
<1> HIDE DEF x, y
<1>3. ASSUME d = t PROVE Reached(Top.dir, d, call, y) = Reached(Top.rec, t, call, x)
  BY <1>1, <1>2, <1>3 DEF Reached
<1>4. ASSUME Reached(Top.rec, t, call, x) = Throws PROVE Reached(Top.dir, d, call, y) = Throws
  <2>1. \A via, unit, items : Val(via, unit, items).t = via
    BY DEF Val
  <2>2. Throws.t = "throws"
    BY DEF Throws, Val
  <2>3. CASE d = t
    BY <1>3, <1>4, <2>3
  <2>4. CASE t.via = "value" /\ t.unit # "missing"
    <3>1. Top.rec.depth = 0 \/ (call.for # NoFor /\ x.t # "list")
      BY <1>4, <2>1, <2>2, <2>4 DEF Reached
    <3> QED  BY <1>1, <1>2, <3>1 DEF Reached
  <2> QED  BY <2>3, <2>4
<1> QED  BY <1>3, <1>4 DEF x, y

\* The blocks of the innermost template, once its direct scope is given up.
LEMMA OpenWhenApart ==
    ASSUME NEW s, IsList(s), NEW n, n = Len(s), n # 0, IsFrame(s[n])
    PROVE  LET apart == [i \in DOMAIN s |-> [s[i] EXCEPT !.dir = NoDirect]]
           IN  apart # <<>> /\ Last(apart).open = s[n].open
<1> DEFINE apart == [i \in DOMAIN s |-> [s[i] EXCEPT !.dir = NoDirect]]
           f == s[n]
           g == [f EXCEPT !.dir = NoDirect]
<1>1. n \in Nat /\ n \in 1..n /\ DOMAIN s = 1..n
  BY DEF IsList
<1>2. DOMAIN apart = 1..n /\ apart = [i \in 1..n |-> apart[i]] /\ apart[n] = g
  BY <1>1
<1>3. g.open = f.open
  <2>1. g = [f EXCEPT !.dir = NoDirect] /\ IsFrame(f)
    OBVIOUS
  <2> HIDE DEF g, f
  <2> QED  BY <2>1 DEF IsFrame
<1> HIDE DEF apart
<1>4. IsList(apart) /\ Len(apart) = n
  BY <1>1, <1>2, Listing
<1>5. apart # <<>> /\ Last(apart) = apart[n]
  BY <1>4, EmptyIsList DEF Last
<1> QED  BY <1>2, <1>3, <1>5 DEF apart

LEMMA IncludeParts ==
    ASSUME ScriptInv, TextInv, frames # <<>>, NEW call, IsWritten(call, Names(Top)),
           Include(call), parted' # parted
    PROVE  Known(parted')
<1> DEFINE t == Target(Top.rec, call)
           d == DirectTarget(Top.dir, call)
           rec == Reached(Top.rec, t, call, Resolve(Top.rec, call.in))
           dir == Reached(Top.dir, d, call, DirectResolve(Top.dir, call.in))
           b == Block("each", call.name, rec.items, call)
           o == Append(Top.open, b)
           g == [Top EXCEPT !.open = o]
           next == Append(Below, g)
<1>1. /\ parted = Together /\ parted' = "include" /\ rec # dir
      /\ frames' = IF rec \in {Throws, Refused} THEN <<>>
                   ELSE IF parted' = Together THEN next
                   ELSE [i \in DOMAIN next |-> [next[i] EXCEPT !.dir = NoDirect]]
  <2>1. Decide("include", rec, dir, next)
    BY DEF Include
  <2> HIDE DEF rec, dir, next
  <2> QED  BY <2>1, Parts
<1> SUFFICES ASSUME ~Known("include") PROVE FALSE
  BY <1>1
<1>2. /\ ~SomeNameHidden
      /\ \A j \in 2..Depth : frames[j].via = "inline"
      /\ frames' # <<>> => Target(Top.rec, Inner'.call).via # "value"
  BY DEF Known
<1>3. NothingHidden(Depth)
  BY <1>2, NoneIsHidden
<1>4. CASE t.via # "value"
  <2>1. d = t
    BY <1>1, <1>2, <1>4, TargetsSame
  <2> QED  BY <1>1, <1>3, <2>1, ReachesSame
<1>5. CASE t.via = "value"
  <2>1. t.unit # "missing"
    <3>1. IsWhole(Top.rec)
      BY AtTop
    <3>2. \A s : IsWhole(s) /\ Target(s, call).via = "value"
                    => Target(s, call).unit \in DOMAIN Units
      BY ResolvesToValue DEF Target, IsValue
    <3> QED  BY <1>5, <3>1, <3>2, UnitsAreWhole
  <2>2. rec # Throws
    BY <1>1, <1>3, <1>5, <2>1, ReachesSame
  <2>3. rec \notin {Throws, Refused}
    <3>1. rec.t = "value"
      <4>1. \A via, unit, items : Val(via, unit, items).t = via
        BY DEF Val
      <4> QED  BY <1>5, <2>2, <4>1 DEF Reached
    <3>2. Throws.t # "value" /\ Refused.t # "value"
      BY DEF Throws, Refused, Val
    <3> QED  BY <3>1, <3>2
  <2> HIDE DEF rec, t
  <2>4. frames' = [i \in DOMAIN next |-> [next[i] EXCEPT !.dir = NoDirect]]
    <3>1. "include" # Together
      BY DEF Together
    <3> HIDE DEF next
    <3> QED  BY <1>1, <2>3, <3>1
  <2>5. IsFrame(g) /\ g.open = o
    <3>1. g = [Top EXCEPT !.open = o] /\ IsFrame(Top)
      BY AtTop
    <3> HIDE DEF g, o
    <3> QED  BY <3>1 DEF IsFrame
  <2>6. b.call = call /\ Last(o) = b
    <3>1. b.call = call
      BY DEF Block
    <3>2. IsList(Top.open)
      BY AtTop
    <3> HIDE DEF b
    <3> QED  BY <3>1, <3>2, Appending DEF Last
  <2> HIDE DEF g, o, b
  <2>7. IsList(next) /\ Len(next) = Depth /\ next[Depth] = g /\ Depth # 0
    BY Stacked
  <2>8. frames' # <<>> /\ Last(frames').open = o
    <3> HIDE DEF next
    <3> QED  BY <2>4, <2>5, <2>7, OpenWhenApart
  <2>9. Inner'.call = call
    BY <2>6, <2>8 DEF Inner, Top
  <2> QED  BY <1>2, <1>5, <2>8, <2>9 DEF t
<1> QED  BY <1>4, <1>5

\* Only render() checks what is passed, and stops.
LEMMA EnterParts ==
    ASSUME EnterIncluded, parted' # parted
    PROVE  Known(parted')
<1> DEFINE call == Inner.call
           item == Str(Inner.items[Inner.idx])
           t == Target(Top.rec, call)
           passed == Passed(call, item, [p \in DOMAIN call.with |-> Resolve(Top.rec, call.with[p])])
           direct ==
               Passed(call, item, [p \in DOMAIN call.with |-> DirectResolve(Top.dir, call.with[p])])
           dir == Val("entered", t.unit, Empty)
           rec == IF Undefined \in Range(passed) THEN Throws
                  ELSE IF t.via # "value" /\ ~Accepted(t.unit, passed) THEN Refused
                  ELSE dir
           next == Below \o <<[Top EXCEPT !.open =
                                  [@ EXCEPT ![Len(@)] = [Inner EXCEPT !.idx = Inner.idx + 1]]],
                              Included(Top, t, item, passed, direct)>>
<1>1. Decide("with", rec, dir, next)
  BY DEF EnterIncluded
<1>2. rec \in {Throws, Refused, dir}
  OBVIOUS
<1> HIDE DEF rec, dir, next
<1>3. /\ parted' = "with" /\ rec # dir
      /\ rec \in {Throws, Refused} => frames' = <<>>
  BY <1>1, Parts
<1> QED  BY <1>2, <1>3 DEF Known

LEMMA NextParts == ScriptInv /\ TextInv /\ [Next]_vars => (parted' # parted => Known(parted'))
<1> SUFFICES ASSUME ScriptInv, TextInv, [Next]_vars, parted' # parted PROVE Known(parted')
  OBVIOUS
<1>1. ASSUME Opens, NEW n \in Names(Top), NEW b \in Loops, BindingIsNew(Top, b), For(n, b)
      PROVE  Known(parted')
  BY <1>1, ForParts DEF Opens
<1>2. ASSUME Opens, NEW n \in Names(Top), IsOption(Top, n), IfHas(n) PROVE Known(parted')
  BY <1>2, IfHasParts DEF Opens
<1>3. ASSUME Opens, NEW n \in Names(Top), NEW arms \in Matches, MatchIsTyped(Top, n, arms),
             Match(n, arms)
      PROVE  Known(parted')
  BY <1>3, MatchParts DEF Opens
<1>4. ASSUME Opens, NEW call \in Calls, IsWritten(call, Names(Top)), Include(call)
      PROVE  Known(parted')
  BY <1>4, IncludeParts DEF Opens
<1>5. CASE EnterIncluded
  BY <1>5, EnterParts
<1>6. CASE NextItem \/ CloseFor \/ CloseBlock \/ CloseInclude \/ EndBody \/ UNCHANGED vars
  <2>1. \A f : Replace(f) => parted' = parted
    BY DEF Replace
  <2>2. parted' = parted
    BY <1>6, <2>1 DEF NextItem, CloseFor, CloseBlock, CloseInclude, EndBody, vars
  <2> QED  BY <2>2
<1>7. CASE Opens /\ \E n \in Names(Top) :
              \/ \E b \in Loops : BindingIsNew(Top, b) /\ For(n, b)
              \/ IsOption(Top, n) /\ IfHas(n)
              \/ \E arms \in Matches : MatchIsTyped(Top, n, arms) /\ Match(n, arms)
  BY <1>1, <1>2, <1>3, <1>7
<1>8. CASE Opens /\ \E call \in Calls : IsWritten(call, Names(Top)) /\ Include(call)
  BY <1>4, <1>8
<1> QED
  BY <1>5, <1>6, <1>7, <1>8 DEF Next

\* render() and renderUnchecked() take the same branch at every node of every
\* template, up to the differences Known names.
THEOREM BranchesAreSame == Spec => SameBranches
BY NextParts, ScriptInvHolds, TextInvHolds, PTL DEF Spec, SameBranches
=============================================================================
