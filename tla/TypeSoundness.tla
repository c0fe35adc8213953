----------------------------- MODULE TypeSoundness -----------------------------
(***************************************************************************)
(* The flow-sensitive type checker (compiled/type_check, type_resolve.rs)  *)
(* run together with the renderer it vouches for (compiled/render, scope.rs)*)
(* over the same tags.  Both walk the tree of blocks: the checker walks    *)
(* every branch and narrows the types of paths on the way in, the renderer *)
(* walks the branches the values select and unwraps options by a list of   *)
(* its own.  A behaviour is one walk: a tag is read if the checker accepts *)
(* it, and `live` says whether the renderer is in this branch too.  Leaving*)
(* a block restores what it changed, so nests of blocks of a bounded depth *)
(* stand for templates of any length.                                      *)
(*                                                                         *)
(* A path is a tuple of names.  A type is [k |-> "str"], "bool", "struct"  *)
(* with fields, "enum" with a sequence of variants, "option" or "list" of a*)
(* type; a value is [k |-> "none"], "str", "bool", "struct" or "list", and *)
(* a variant with fields is a struct whose field "__kind__" names it.      *)
(***************************************************************************)
EXTENDS Naturals, Sequences, FiniteSets

CONSTANTS
    Inputs,         \* records of declarations and a context that conforms to them
    Paths,          \* the paths templates mention
    Conditions,     \* the conditions of their if and elif tags
    Guards,         \* the conditions of their case tags
    Labels,         \* the sets of labels of their case tags
    Bindings,       \* the names their for tags bind
    MaxDepth,       \* bound: open blocks
    MaxCarry        \* bound: negated conditions of an if before its last elif

VARIABLES
    input,              \* declarations and context of the template
    open,               \* the blocks open, innermost last
    narrowed,           \* the checker: paths with a narrowed type
    loopBindings,       \* the renderer: loop variables, innermost last
    narrowedOptions,    \* the renderer: paths of options unwrapped
    live                \* the renderer renders this branch

vars == <<input, open, narrowed, loopBindings, narrowedOptions, live>>

decls == input.decls
ctx == input.ctx

NoType == [k |-> "unknown"]
Failure == [k |-> "failure"]        \* resolving a path is an error
NoGuard == [k |-> "noguard"]
NoPath == <<>>

Root(p) == <<p[1]>>
Names(enum) == {enum.variants[i].name : i \in 1..Len(enum.variants)}
Variant(enum, name) ==
    enum.variants[CHOOSE i \in 1..Len(enum.variants) : enum.variants[i].name = name]

RECURSIVE Matches(_, _)
Matches(ty, v) ==
    LET HasFields(fields) ==
            \A f \in DOMAIN fields : f \in DOMAIN v.f /\ Matches(fields[f], v.f[f])
    IN  CASE ty.k \in {"str", "bool"} -> v.k = ty.k
          [] ty.k = "option" -> v.k = "none" \/ Matches(ty.of, v)
          [] ty.k = "list" -> v.k = "list" /\ \A i \in 1..Len(v.items) : Matches(ty.of, v.items[i])
          [] ty.k = "struct" -> v.k = "struct" /\ HasFields(ty.fields)
          [] ty.k = "enum" ->
                \/ v.k = "str" /\ v.s \in Names(ty) /\ DOMAIN Variant(ty, v.s).fields = {}
                \/ /\ v.k = "struct" /\ "__kind__" \in DOMAIN v.f
                   /\ v.f["__kind__"].s \in Names(ty)
                   /\ HasFields(Variant(ty, v.f["__kind__"].s).fields)

ASSUME InputAssumptions ==
    \A in \in Inputs : /\ DOMAIN in.ctx = DOMAIN in.decls
                       /\ \A x \in DOMAIN in.decls : Matches(in.decls[x], in.ctx[x])

-----------------------------------------------------------------------------
(* The checker: types of paths in an environment of narrowed types. *)

\* Mutant: a field of one variant is a field of the enum.
ResolveField_AnyVariant(ty, f) ==
    CASE ty.k = "struct" -> IF f \in DOMAIN ty.fields THEN ty.fields[f] ELSE NoType
      [] ty.k = "enum" ->
            IF \E i \in 1..Len(ty.variants) : f \in DOMAIN ty.variants[i].fields
            THEN ty.variants[CHOOSE i \in 1..Len(ty.variants) :
                                f \in DOMAIN ty.variants[i].fields].fields[f]
            ELSE NoType
      [] OTHER -> NoType

(* A field of an enum must be one of every variant; its type is taken from *)
(* the last of them.                                                       *)
ResolveField(ty, f) ==
    CASE ty.k = "struct" -> IF f \in DOMAIN ty.fields THEN ty.fields[f] ELSE NoType
      [] ty.k = "enum" ->
            IF \A i \in 1..Len(ty.variants) : f \in DOMAIN ty.variants[i].fields
            THEN ty.variants[Len(ty.variants)].fields[f]
            ELSE NoType
      [] OTHER -> NoType

Lookup(env, x) ==
    IF <<x>> \in DOMAIN env THEN env[<<x>>]
    ELSE IF x \in DOMAIN decls THEN decls[x] ELSE NoType

PathType(env, p) ==
    LET ty[i \in 1..Len(p)] ==
            IF i = 1 THEN Lookup(env, p[1])
            ELSE LET of == ty[i - 1]
                 IN  IF of = NoType THEN NoType
                     ELSE IF SubSeq(p, 1, i) \in DOMAIN env THEN env[SubSeq(p, 1, i)]
                     ELSE ResolveField(of, p[i])
    IN  ty[Len(p)]

(* An enum stays itself under the name of one of its variants. *)
ValidPath(env, p) ==
    LET ty[i \in 1..Len(p)] ==
            IF i = 1 THEN Lookup(env, p[1])
            ELSE LET of == ty[i - 1]
                 IN  IF of = NoType THEN NoType
                     ELSE IF SubSeq(p, 1, i) \in DOMAIN env THEN env[SubSeq(p, 1, i)]
                     ELSE IF of.k = "enum" /\ p[i] \in Names(of) THEN of
                     ELSE ResolveField(of, p[i])
    IN  ty[Len(p)] # NoType

(* p is valid and its type, when it has one, is of one of these kinds. *)
ValidAs(env, p, kinds) == ValidPath(env, p) /\ PathType(env, p).k \in kinds \cup {NoType.k}

ValidShow(env, p) == ValidAs(env, p, {"str", "bool", "enum"})
ValidKind(env, p) == ValidAs(env, p, {"enum", "option"})
ValidLen(env, p) == ValidAs(env, p, {"list", "str"})

Narrow(env, p, ty) == [q \in DOMAIN env \cup {p} |-> IF q = p THEN ty ELSE env[q]]
Narrowing(p, ty) == [path |-> p, type |-> ty]

(* What each of the narrowings ns overrides when they are applied in turn. *)
ApplyNarrowings(env, ns) ==
    LET e[i \in 0..Len(ns)] ==
            IF i = 0 THEN env ELSE Narrow(e[i - 1], ns[i].path, ns[i].type)
    IN  e[Len(ns)]
Applied(env, ns) ==
    [i \in 1..Len(ns) |->
        LET before == ApplyNarrowings(env, SubSeq(ns, 1, i - 1))
        IN  Narrowing(ns[i].path, IF ns[i].path \in DOMAIN before THEN before[ns[i].path] ELSE NoType)]

Unnarrow(env, n) ==
    IF n.type # NoType THEN Narrow(env, n.path, n.type)
    ELSE [q \in DOMAIN env \ {n.path} |-> env[q]]

RestoreNarrowings(env, applied) ==
    LET e[i \in 1..(Len(applied) + 1)] ==
            IF i > Len(applied) THEN env ELSE Unnarrow(e[i + 1], applied[i])
    IN  e[1]

ExtractHasNarrowing(env, c) ==
    IF c.k \in {"has", "path"} /\ PathType(env, c.p).k = "option"
    THEN <<Narrowing(c.p, PathType(env, c.p).of)>> ELSE <<>>

RECURSIVE AllHasNarrowings(_, _)
AllHasNarrowings(env, c) ==
    IF c.k = "and" THEN AllHasNarrowings(env, c.l) \o AllHasNarrowings(env, c.r)
    ELSE ExtractHasNarrowing(env, c)

\* Mutant: what has() narrows in the arm, it narrows behind the if too.
ExtractNotHasNarrowing_Any(env, c) ==
    IF c.k = "not" THEN ExtractHasNarrowing(env, c.c) ELSE ExtractHasNarrowing(env, c)

ExtractNotHasNarrowing(env, c) == IF c.k = "not" THEN ExtractHasNarrowing(env, c.c) ELSE <<>>

RECURSIVE ValidCondition(_, _)
ValidCondition(env, c) ==
    CASE c.k = "noguard" -> TRUE
      [] c.k = "path" -> ValidAs(env, c.p, {"str", "bool", "list"})
      [] c.k = "has" -> ValidAs(env, c.p, {"option"})
      [] c.k = "is" ->
            /\ ValidAs(env, c.p, {"enum", "option"})
            /\ LET ty == PathType(env, c.p)
               IN  /\ ty.k = "enum" => c.v \in Names(ty)
                   /\ ty.k = "option" => c.v \in {"Some", "None"}
      [] c.k = "not" -> ValidCondition(env, c.c)
      [] c.k = "or" -> ValidCondition(env, c.l) /\ ValidCondition(env, c.r)
      [] c.k = "and" -> /\ ValidCondition(env, c.l)
                        /\ ValidCondition(ApplyNarrowings(env, AllHasNarrowings(env, c.l)), c.r)

-----------------------------------------------------------------------------
(* The renderer: values of paths, and what it knows of their types. *)

Resolve(x) ==
    LET at == {i \in 1..Len(loopBindings) : loopBindings[i].name = x}
    IN  IF at # {} THEN loopBindings[CHOOSE i \in at : \A j \in at : j <= i].value
        ELSE IF x \in DOMAIN ctx THEN ctx[x] ELSE Failure

GetField(v, f) == IF v.k = "struct" /\ f \in DOMAIN v.f THEN v.f[f] ELSE Failure

ValueAt(p) ==
    LET v[i \in 1..Len(p)] == IF i = 1 THEN Resolve(p[1]) ELSE GetField(v[i - 1], p[i])
    IN  v[Len(p)]

(* From the declarations only, and an option takes a step of its own. *)
DeclaredType(p) ==
    LET ty[i \in 1..Len(p)] ==
            IF i = 1 THEN IF p[1] \in DOMAIN decls THEN decls[p[1]] ELSE NoType
            ELSE LET of == ty[i - 1]
                     fields == IF of.k = "list" THEN of.of ELSE of
                 IN  CASE of.k = "option" -> of.of
                       [] fields.k = "struct" /\ p[i] \in DOMAIN fields.fields -> fields.fields[p[i]]
                       [] OTHER -> NoType
    IN  ty[Len(p)]

IsOptionPath(p) ==
    (\A i \in 1..Len(narrowedOptions) : narrowedOptions[i] # p) /\ DeclaredType(p).k = "option"

ResolvePath(p) == IF Len(p) > 1 /\ IsOptionPath(Root(p)) THEN Failure ELSE ValueAt(p)

Tag(v) == IF v.k = "struct" /\ "__kind__" \in DOMAIN v.f THEN v.f["__kind__"].s ELSE "failure"

(* The text of `{{ p }}`, as far as whether there is one. *)
ShowFails(p) == ResolvePath(p).k \in {"failure", "list", "struct"}

Kind(p) ==
    LET v == ResolvePath(p)
        ty == DeclaredType(p)
    IN  CASE v.k = "failure" -> "failure"
          [] v.k # "failure" /\ IsOptionPath(p) -> IF v.k = "none" THEN "None" ELSE "Some"
          [] OTHER ->
                CASE v.k = "struct" -> Tag(v)
                  [] v.k = "str" -> IF \/ ty.k \in {NoType.k, "enum"}
                                       \/ ty.k = "option" /\ ty.of.k = "enum"
                                    THEN v.s ELSE "failure"
                  [] v.k = "none" -> "None"
                  [] OTHER -> "failure"

LenFails(p) == ResolvePath(p).k \notin {"list", "str"}

ActiveVariant(p, isOption) ==
    LET v == ResolvePath(p)
    IN  CASE v.k = "none" -> "None"
          [] v.k \notin {"none", "failure"} /\ isOption -> "Some"
          [] v.k = "str" /\ ~isOption -> v.s
          [] v.k = "struct" /\ ~isOption -> Tag(v)
          [] OTHER -> "failure"

Truth(b) == IF b THEN "true" ELSE "false"

EvalHas(p) ==
    LET v == ResolvePath(p)
    IN  IF DeclaredType(p).k \notin {NoType.k, "option"} \/ v.k = "failure" THEN "failure"
        ELSE Truth(IF v.k = "str" /\ ~IsOptionPath(p) THEN v.s # ""
                   ELSE IF v.k = "list" /\ ~IsOptionPath(p) THEN v.items # <<>>
                   ELSE v.k # "none")

EvalPath(p) ==
    LET v == ResolvePath(p)
    IN  CASE v.k \in {"failure", "none"} -> "failure"
          [] v.k = "str" -> Truth(v.s # "")
          [] v.k = "bool" -> Truth(v.b)
          [] v.k = "list" -> Truth(v.items # <<>>)
          [] v.k = "struct" -> Truth(DOMAIN v.f # {})

RECURSIVE Eval(_)
Eval(c) ==
    CASE c.k = "noguard" -> "true"
      [] c.k = "has" -> EvalHas(c.p)
      [] c.k = "path" -> EvalPath(c.p)
      [] c.k = "is" -> LET v == ActiveVariant(c.p, c.v \in {"Some", "None"})
                       IN  IF v = "failure" THEN v ELSE Truth(v = c.v)
      [] c.k = "not" -> LET r == Eval(c.c)
                        IN  IF r = "failure" THEN r ELSE Truth(r = "false")
      [] c.k = "and" -> LET l == Eval(c.l) IN IF l = "true" THEN Eval(c.r) ELSE l
      [] c.k = "or" -> LET l == Eval(c.l) IN IF l = "false" THEN Eval(c.r) ELSE l

(* The option a condition that is one has() or one !has() is about. *)
HasPath(c) == IF c.k \in {"has", "path"} THEN c.p ELSE NoPath
NegatedHasPath(c) == IF c.k = "not" THEN HasPath(c.c) ELSE NoPath

OptionPath(p) == IF p # NoPath /\ IsOptionPath(p) THEN p ELSE NoPath

-----------------------------------------------------------------------------
(* Blocks.  `outer` is what `live` was around the block, `taken` that one of*)
(* its branches has been rendered; `applied` and `unwrapped` are what the  *)
(* branch open now overrides in the checker and unwraps in the renderer.   *)

Top == open[Len(open)]
Below == SubSeq(open, 1, Len(open) - 1)
In(tag) == open # <<>> /\ Top.tag = tag

UnnarrowOption(p) ==
    LET at == {i \in 1..Len(narrowedOptions) : narrowedOptions[i] = p}
        last == CHOOSE i \in at : \A j \in at : j <= i
    IN  IF at = {} THEN narrowedOptions
        ELSE SubSeq(narrowedOptions, 1, last - 1)
             \o SubSeq(narrowedOptions, last + 1, Len(narrowedOptions))

(* The environment and the unwrapped options when the open branch is left. *)
EnvLeft == RestoreNarrowings(narrowed, Top.applied)
OptionsLeft == UnnarrowOption(Top.unwrapped)

Enter(outside, block, env, options, ns, unwrapped, rendered) ==
    LET unwraps == IF rendered THEN unwrapped ELSE NoPath
    IN  /\ open' = Append(outside, [block EXCEPT !.applied = Applied(env, ns), !.unwrapped = unwraps])
        /\ narrowed' = ApplyNarrowings(env, ns)
        /\ narrowedOptions' = IF unwraps = NoPath THEN options ELSE Append(options, unwraps)
        /\ live' = rendered
        /\ UNCHANGED input

(* An error ends the rendering, and the walk with it. *)
If(c) ==
    /\ Len(open) < MaxDepth
    /\ ValidCondition(narrowed, c)
    /\ live => Eval(c) # "failure"
    /\ LET rendered == live /\ Eval(c) = "true"
           block == [tag |-> "if", outer |-> live, taken |-> rendered, applied |-> <<>>,
                     unwrapped |-> NoPath, carry |-> ExtractNotHasNarrowing(narrowed, c),
                     has |-> HasPath(c), negated |-> NegatedHasPath(c), last |-> FALSE]
       IN  Enter(open, block, narrowed, narrowedOptions,
                 AllHasNarrowings(narrowed, c), OptionPath(HasPath(c)), rendered)
    /\ UNCHANGED loopBindings

(* When this condition is evaluated no option is unwrapped by this block.  *)
Elif(c) ==
    /\ In("if") /\ ~Top.last
    /\ Len(Top.carry) <= MaxCarry
    /\ ValidCondition(EnvLeft, c)
    /\ LET evaluated == Top.outer /\ ~Top.taken
           rendered == evaluated /\ Eval(c) = "true"
           block == [Top EXCEPT !.taken = @ \/ rendered, !.has = HasPath(c),
                                !.carry = @ \o ExtractNotHasNarrowing(EnvLeft, c)]
       IN  /\ evaluated => Eval(c) # "failure"
           /\ Enter(Below, block, EnvLeft, OptionsLeft,
                    Top.carry \o AllHasNarrowings(EnvLeft, c), OptionPath(HasPath(c)), rendered)
    /\ UNCHANGED loopBindings

IfElse ==
    /\ In("if") /\ ~Top.last
    /\ LET rendered == Top.outer /\ ~Top.taken
       IN  Enter(Below, [Top EXCEPT !.last = TRUE], EnvLeft, OptionsLeft,
                 Top.carry, OptionPath(Top.negated), rendered)
    /\ UNCHANGED loopBindings

(* The body is checked once and rendered for every item: for any of them. *)
For(binding, p) ==
    /\ Len(open) < MaxDepth
    /\ ValidPath(narrowed, p) /\ PathType(narrowed, p).k = "list"
    /\ LET list == ResolvePath(p)
           rendered == live /\ list.k = "list" /\ list.items # <<>>
           block == [tag |-> "for", outer |-> live, applied |-> <<>>, unwrapped |-> NoPath,
                     binding |-> binding, pushed |-> rendered, last |-> FALSE]
       IN  /\ live => list.k = "list"
           /\ Enter(open, block, narrowed, narrowedOptions,
                    <<Narrowing(<<binding>>, PathType(narrowed, p).of)>>, NoPath, rendered)
           /\ IF rendered
              THEN \E i \in 1..Len(list.items) :
                        loopBindings' = Append(loopBindings, [name |-> binding, value |-> list.items[i]])
              ELSE UNCHANGED loopBindings

PopLoopBinding ==
    loopBindings' = IF Top.tag = "for" /\ Top.pushed
                    THEN SubSeq(loopBindings, 1, Len(loopBindings) - 1) ELSE loopBindings

ForElse ==
    /\ In("for") /\ ~Top.last
    /\ Enter(Below, [Top EXCEPT !.last = TRUE, !.pushed = FALSE], EnvLeft, OptionsLeft,
             <<>>, NoPath, Top.outer /\ ~Top.pushed)
    /\ PopLoopBinding

(* What the arm with these labels, {"_"} for else, narrows the subject to. *)
ArmNarrowing(m, labels) ==
    LET kept == SelectSeq(m.type.variants,
                    LAMBDA v : IF labels = {"_"} THEN v.name \notin m.covered ELSE v.name \in labels)
    IN  CASE m.type.k = "enum" /\ kept # <<>> ->
                <<Narrowing(m.subject, [k |-> "enum", variants |-> kept])>>
          [] m.type.k = "option" /\ labels = {"Some"} -> <<Narrowing(m.subject, m.type.of)>>
          [] OTHER -> <<>>

LabelsOf(ty) == IF ty.k = "enum" THEN Names(ty) ELSE {"Some", "None"}

(* An arm's label matches the variant it names, and the one that a variable *)
(* of this name holds as a string.                                         *)
LabelMatches(label, active) ==
    label = active \/ (Resolve(label).k = "str" /\ Resolve(label).s = active)

ArmMatches(m, labels) == labels = {"_"} \/ \E label \in labels : LabelMatches(label, m.active)

(* An arm of match block m in environment env.  The guard is checked in the*)
(* arm's environment for an enum, outside it for an option; it is evaluated*)
(* before the option is unwrapped.                                         *)
Arm(outside, m, env, options, labels, guard) ==
    LET ns == ArmNarrowing(m, labels)
        reached == m.outer /\ ~m.taken /\ ArmMatches(m, labels)
        rendered == reached /\ Eval(guard) = "true"
        block == [m EXCEPT !.taken = @ \/ rendered,
                           !.byVariable = rendered /\ labels # {"_"} /\ m.active \notin labels,
                           !.covered = @ \cup labels,
                           !.arms = IF @ = 0 THEN 1 ELSE 2,
                           !.guarded = IF guard = NoGuard THEN @ ELSE @ \cup labels,
                           !.last = labels = {"_"}]
    IN  /\ labels = {"_"} \/ labels \subseteq LabelsOf(m.type)
        /\ ValidCondition(IF m.type.k = "enum" THEN ApplyNarrowings(env, ns) ELSE env, guard)
        /\ reached => Eval(guard) # "failure"
        /\ Enter(outside, block, env, options, ns,
                 IF m.active = "Some" /\ labels = {"Some"} THEN m.subject ELSE NoPath, rendered)
        /\ UNCHANGED loopBindings

(* Whether the subject is matched as an option is read off the labels, all *)
(* of which are Some or None when its type is an option: off the first.    *)
MatchArm(p, labels, guard) ==
    /\ Len(open) < MaxDepth
    /\ PathType(narrowed, p).k \in {"enum", "option"}
    /\ LET active == ActiveVariant(p, labels \cap {"Some", "None"} # {})
           m == [tag |-> "match", outer |-> live, taken |-> FALSE, applied |-> <<>>,
                 unwrapped |-> NoPath, subject |-> p, type |-> PathType(narrowed, p),
                 active |-> IF live THEN active ELSE "", covered |-> {}, guarded |-> {},
                 byVariable |-> FALSE, arms |-> 0, last |-> FALSE]
       IN  /\ live => active # "failure"
           /\ Arm(open, m, narrowed, narrowedOptions, labels, guard)

Match(p, labels, guard) == MatchArm(p, labels, guard)
MatchElse(p) == MatchArm(p, {"_"}, NoGuard)

Case(labels, guard) ==
    /\ In("match") /\ ~Top.last
    /\ Arm(Below, Top, EnvLeft, OptionsLeft, labels, guard)

CaseElse ==
    /\ In("match") /\ ~Top.last
    /\ Arm(Below, Top, EnvLeft, OptionsLeft, {"_"}, NoGuard)

\* Mutant: one label that is covered is enough.
Exhaustive_Some(m) == m.arms <= 1 \/ m.last \/ LabelsOf(m.type) \cap m.covered # {}

Exhaustive(m) == m.arms <= 1 \/ m.last \/ LabelsOf(m.type) \subseteq m.covered

Close ==
    /\ open # <<>>
    /\ Top.tag = "match" => Exhaustive(Top)
    /\ open' = Below
    /\ narrowed' = EnvLeft
    /\ narrowedOptions' = OptionsLeft
    /\ live' = Top.outer
    /\ PopLoopBinding
    /\ UNCHANGED input

Init ==
    /\ input \in Inputs
    /\ open = <<>>
    /\ narrowed = <<>>
    /\ loopBindings = <<>>
    /\ narrowedOptions = <<>>
    /\ live = TRUE

Next ==
    \/ \E c \in Conditions : If(c) \/ Elif(c)
    \/ \E p \in Paths :
        \/ \E b \in Bindings : For(b, p)
        \/ \E labels \in Labels, g \in Guards \cup {NoGuard} : Match(p, labels, g)
        \/ MatchElse(p)
    \/ \E labels \in Labels, g \in Guards \cup {NoGuard} : Case(labels, g)
    \/ IfElse \/ ForElse \/ CaseElse \/ Close

Spec == Init /\ [][Next]_vars

-----------------------------------------------------------------------------
(* Where the checker is known to promise more than the renderer keeps. *)

Prefixes(p) == {SubSeq(p, 1, i) : i \in 1..Len(p)}

(* A narrowing is kept under the text of its path, whatever its root means *)
(* by now, and the declared type of a root is asked for though a loop      *)
(* variable has taken its name.                                            *)
Ambiguous(p) ==
    LET loops == {i \in 1..Len(open) :
                    open[i].tag = "for" /\ ~open[i].last /\ open[i].binding = p[1]}
    IN  Cardinality(loops) + (IF p[1] \in DOMAIN decls THEN 1 ELSE 0) > 1

(* What open match i is about: its subject, and what loops inside it bind. *)
AboutMatch(p, i) ==
    \/ open[i].subject \in Prefixes(p)
    \/ \E j \in (i + 1)..Len(open) : open[j].tag = "for" /\ ~open[j].last /\ open[j].binding = p[1]

(* An arm with a guard counts as covering its variants, so that the else   *)
(* arm is narrowed to the others though the guard lets them pass.          *)
BehindGuard(p) ==
    \E i \in 1..Len(open) :
        open[i].tag = "match" /\ open[i].last /\ open[i].guarded # {} /\ AboutMatch(p, i)

(* An arm is rendered for another variant than it names, because a variable *)
(* has the name of its label and holds the name of this variant.           *)
LabelIsVariable(p) ==
    \E i \in 1..Len(open) : open[i].tag = "match" /\ open[i].byVariable /\ AboutMatch(p, i)

(* The checker narrows every has() of an && chain, and on falling through  *)
(* any !has(); the renderer unwraps only for a condition that is one has(),*)
(* and for else only when the first condition is one !has().               *)
StillWrapped(p) ==
    \E q \in Prefixes(p), i \in 1..Len(open) :
        /\ IsOptionPath(q) /\ open[i].tag = "if"
        /\ \E j \in 1..Len(open[i].applied) : open[i].applied[j].path = q
        /\ q # IF open[i].last THEN open[i].negated ELSE open[i].has

(* The declared type of a field of an optional struct comes out as that of *)
(* the struct, which is what has() and kind() are then judged by.          *)
ThroughOption(p) == \E i \in 1..(Len(p) - 1) : DeclaredType(SubSeq(p, 1, i)).k = "option"

(* The name of a variant passes for a field of an enum. *)
NamesVariant(p) ==
    \E i \in 2..Len(p) : LET ty == PathType(narrowed, SubSeq(p, 1, i - 1))
                          IN  ty.k = "enum" /\ p[i] \in Names(ty)

Doubtful(p) == Ambiguous(p) \/ BehindGuard(p) \/ LabelIsVariable(p) \/ StillWrapped(p)

(* The paths a condition tests in one of these ways. *)
RECURSIVE PathsOf(_, _)
PathsOf(c, ways) ==
    CASE c.k \in {"path", "has", "is"} -> IF c.k \in ways THEN {c.p} ELSE {}
      [] c.k = "not" -> PathsOf(c.c, ways)
      [] c.k \in {"and", "or"} -> PathsOf(c.l, ways) \cup PathsOf(c.r, ways)
AllWays == {"path", "has", "is"}

(* What the right of && may do with what its left found present. *)
UnwrapsInside(c) ==
    c.k = "and" /\ \E i \in 1..Len(AllHasNarrowings(narrowed, c.l)) :
        \E p \in PathsOf(c.r, AllWays) : AllHasNarrowings(narrowed, c.l)[i].path \in Prefixes(p)

-----------------------------------------------------------------------------
(* Properties *)

(* While a branch is rendered, the value of every path the checker has     *)
(* narrowed (walker.rs, matching.rs) conforms to its narrowed type, but for*)
(* the paths above.                                                        *)
NarrowingsHold ==
    live => \A p \in DOMAIN narrowed :
        \/ Ambiguous(p) \/ BehindGuard(p) \/ LabelIsVariable(p)
        \/ ValueAt(p) # Failure /\ Matches(narrowed[p], ValueAt(p))

(* An expression, a for or a match tag the checker accepts where the       *)
(* renderer is, the renderer evaluates without an error (expr.rs,          *)
(* control.rs, render/matching.rs), but for the paths above.               *)
AcceptedTagsRender ==
    live => \A p \in {q \in Paths : ~Doubtful(q) /\ ~NamesVariant(q)} :
        LET ty == PathType(narrowed, p)
        IN  /\ ValidShow(narrowed, p) =>
                ~ShowFails(p) \/ (ty.k = "enum" /\ ValueAt(p).k = "struct")
            /\ ValidKind(narrowed, p) => Kind(p) # "failure" \/ ThroughOption(p)
            /\ ValidLen(narrowed, p) => ~LenFails(p)
            /\ ty.k = "list" => ResolvePath(p).k = "list"
            /\ ty.k \in {"enum", "option"} => ActiveVariant(p, ty.k = "option") # "failure"

(* A condition the checker accepts evaluates without an error              *)
(* (condition.rs), but for the paths above.                                *)
AcceptedConditionsRender ==
    live => \A c \in Conditions :
        \/ ~ValidCondition(narrowed, c)
        \/ Eval(c) # "failure"
        \/ UnwrapsInside(c)
        \/ \E p \in PathsOf(c, AllWays) : Doubtful(p) \/ NamesVariant(p)
        \/ \E p \in PathsOf(c, {"has"}) : ThroughOption(p)

(* kind() names what the checker takes the value for: the variant of an    *)
(* enum, Some or None for an option.  It says of the option in a loop      *)
(* variable, which has no declared type, which variant is inside.          *)
KindsAgree ==
    live => \A p \in {q \in Paths : ~Doubtful(q) /\ ~ThroughOption(q) /\ q[1] \in DOMAIN decls} :
        LET ty == PathType(narrowed, p)
            v == ValueAt(p)
        IN  /\ ty.k = "option" => Kind(p) = IF v.k = "none" THEN "None" ELSE "Some"
            /\ ty.k = "enum" => Kind(p) = IF v.k = "str" THEN v.s ELSE Tag(v)

(* When every block is closed, nothing is left narrowed, bound or unwrapped*)
(* (walker.rs restore_narrowings, control.rs): a tag after a block is      *)
(* checked and rendered as one before it.                                  *)
BlocksRestore ==
    open = <<>> => live /\ narrowed = <<>> /\ loopBindings = <<>> /\ narrowedOptions = <<>>

(* A narrowed type is that of the value for as long as the branch lasts.   *)
NarrowingsLast == NarrowingsHold /\ BlocksRestore

(* What the checker accepts renders, and as what the checker took it for.  *)
AcceptedRenders == AcceptedTagsRender /\ AcceptedConditionsRender /\ KindsAgree

(* A match of more than one arm, none with a guard, that is rendered has   *)
(* rendered one of them when it closes (check_exhaustiveness), whatever    *)
(* blocks narrowed its subject, but for the paths above.                   *)
ExhaustiveMatchRenders ==
    [][In("match") /\ Close /\ Top.outer /\ Top.arms > 1 /\ Top.guarded = {} /\ ~Doubtful(Top.subject)
       => Top.taken]_vars
=============================================================================
