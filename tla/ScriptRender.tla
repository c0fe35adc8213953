---------------------------- MODULE ScriptRender ----------------------------
(***************************************************************************)
(* The two renderers of the TypeScript engine, walking the same template   *)
(* in lockstep: the recursive one behind render() (renderer.ts, scope.ts)  *)
(* and the direct one behind renderUnchecked() and renderEmpty()           *)
(* (direct_renderer/), which the tests require to agree                    *)
(* (tests/template.test.ts, "renderUnchecked parity").                     *)
(*                                                                         *)
(* The state is the stack of templates being rendered.  A frame holds the  *)
(* scope of each renderer and the blocks that are open in the template's   *)
(* body.  A step is the next node of the innermost body, any node the      *)
(* grammar allows there, or the end of a block; each renderer decides      *)
(* where the node leads from its own scope, and the run stops where the    *)
(* two part or throw.  Text and {{ name }} nodes leave no trace in the     *)
(* scopes: what they would show is what the invariants compare.            *)
(***************************************************************************)
EXTENDS Naturals, FiniteSets, FiniteSetsExt, Sequences, SequencesExt, Functions

CONSTANTS
    Units,      \* template name -> its declarations (a file, a {% tmpl %} or a tmpl value)
    Main,       \* the template that is rendered
    Given,      \* the parameter records render() may be called with
    Disk,       \* directory -> path in an include -> file
    Loops,      \* the binding names loops and iterated includes use
    Matches,    \* the arm lists of match nodes
    Calls,      \* the include nodes a body may hold
    MaxIncludeDepth,
    MaxBlocks   \* bound: open blocks, in all bodies

VARIABLES
    frames,     \* the templates being rendered, the outermost first
    parted      \* where the renderers parted or threw, or Together

vars == <<frames, parted>>

Empty == <<>>
Together == "together"

(* The map f over the map g, and the map of one name.                      *)
Over(f, g) == [n \in DOMAIN f \cup DOMAIN g |-> IF n \in DOMAIN f THEN f[n] ELSE g[n]]
Single(n, v) == [m \in {n} |-> v]

-----------------------------------------------------------------------------
(* Values: a string, an absent option, a list of strings, a template.  A   *)
(* present option is its value (jsToValue, fromJs), in both renderers.     *)

Val(t, v, items) == [t |-> t, v |-> v, items |-> items]
Str(v) == Val("str", v, Empty)
List(items) == Val("list", "", items)
Tmpl(u) == Val("tmpl", u, Empty)
None == Val("none", "", Empty)
Undefined == Val("undefined", "", Empty)

(* Where a renderer may end up at a node other than in a body. *)
Throws == Val("throws", "", Empty)
Refused == Val("refused", "", Empty)   \* a parameter missing or of another type

NoDefault == Undefined

(* The parameters with a default value.                                    *)
Defaults(u) == [p \in {q \in DOMAIN Units[u].params : Units[u].params[q].default # NoDefault}
                    |-> Units[u].params[p].default]

(* collectOptionPaths, and the same loop over decls in the include code.   *)
OptionPaths(u) == {p \in DOMAIN Units[u].params : Units[u].params[p].type = "option"}
NonOptionParams(u) == DOMAIN Units[u].params \ OptionPaths(u)

(* Its {% tmpl %} blocks: collectInlineTemplateMap, the same for a child.  *)
Inlines(u) == Units[u].inlines

Declared(u) == DOMAIN Units[u].params \cup DOMAIN Units[u].consts

(* The labels of an option are not names (validation.ts RESERVED_NAMES).   *)
ASSUME LabelsAreNoNames ==
    /\ "Some" \notin Loops
    /\ \A u \in DOMAIN Units : "Some" \notin Declared(u)
    /\ \A call \in Calls : "Some" \notin DOMAIN call.with \cup {call.for}

IsValue(val) ==
    val.items \in Seq(STRING) /\ (val.t = "tmpl" => val.v \in DOMAIN Units)

ASSUME DepthIsANumber == MaxIncludeDepth \in Nat

(* What names a template, names one; a file is in a directory; render() is *)
(* called with a value for every parameter that has no default.            *)
ASSUME UnitsAreWhole ==
    /\ Main \in DOMAIN Units /\ "missing" \notin DOMAIN Units
    /\ \A u \in DOMAIN Units :
          /\ Units[u].dir \in DOMAIN Disk
          /\ \A n \in DOMAIN Units[u].inlines : Units[u].inlines[n] \in DOMAIN Units
          /\ \A n \in DOMAIN Units[u].consts :
                IsValue(Units[u].consts[n]) /\ Units[u].consts[n] # Undefined
          /\ \A p \in DOMAIN Units[u].params : IsValue(Units[u].params[p].default)
    /\ \A given \in Given : \A p \in DOMAIN Units[Main].params :
          /\ p \in DOMAIN given \cup DOMAIN Defaults(Main)
          /\ p \in DOMAIN given => IsValue(given[p]) /\ given[p] # Undefined
    /\ \A base \in DOMAIN Disk : \A path \in DOMAIN Disk[base] :
          Disk[base][path] \in DOMAIN Units /\ Units[Disk[base][path]].dir # "none"

(* A parameter is no constant (validation.ts validateFrontmatter) in the   *)
(* template that is rendered; a file that is only included is not asked.   *)
ASSUME ParamsAreNoConsts == DOMAIN Units[Main].params \cap DOMAIN Units[Main].consts = {}

(* The values of options are of their type: those render() accepts         *)
(* (type_check.ts), and the defaults (literals.ts parseLiteralOrConst).    *)
ASSUME OptionsAreTyped ==
    \A u \in DOMAIN Units : \A p \in OptionPaths(u) :
        /\ LET default == Units[u].params[p].default
           IN  default = NoDefault \/ default.t \in {"none", "str"}
        /\ u = Main => \A given \in Given : p \in DOMAIN given => given[p].t \in {"none", "str"}

ASSUME ArmsAreLists == Matches \subseteq Seq([labels : SUBSET STRING, guard : STRING])

-----------------------------------------------------------------------------
(* The recursive renderer's scope (scope.ts).                              *)

Innermost(layers, n) ==
    LET holding == {i \in DOMAIN layers : n \in DOMAIN layers[i]}
    IN  IF holding = {} THEN Undefined ELSE layers[Max(holding)][n]

(* Constants first, then the layers, then the context. *)
Resolve(s, n) ==
    IF n \in DOMAIN s.consts THEN s.consts[n]
    ELSE IF Innermost(s.layers, n) # Undefined THEN Innermost(s.layers, n)
    ELSE IF n \in DOMAIN s.ctx THEN s.ctx[n] ELSE Undefined

IsOptionParam(s, n) == n \in s.options /\ \A i \in DOMAIN s.narrowed : n \notin s.narrowed[i]

PushLayer(s, layer) == [s EXCEPT !.layers = Append(@, layer), !.narrowed = Append(@, {})]
PopLayer(s) == [s EXCEPT !.layers = Front(@), !.narrowed = Front(@)]
NarrowOption(s, n) == [s EXCEPT !.narrowed[Len(s.narrowed)] = @ \cup {n}]

(* One item of a for loop: the layer is pushed once and set per item. *)
SetItem(s, b, item, idx) ==
    [s EXCEPT !.layers[Len(s.layers)] = Over(Single(b, item), @),
              !.metas = Over(Single(b, idx), @)]

(* The flat map an include hands on: layers over constants over context.  *)
LayerNames(layers) == UNION {DOMAIN layers[i] : i \in DOMAIN layers}
AllValues(s) ==
    [n \in LayerNames(s.layers) \cup DOMAIN s.consts \cup DOMAIN s.ctx |->
        IF n \in LayerNames(s.layers) THEN Innermost(s.layers, n)
        ELSE Over(s.consts, s.ctx)[n]]

Present == Val("has", "yes", Empty)
Absent == Val("has", "no", Empty)

(* has(n): an option is present when it is not None; any other value, an  *)
(* unwrapped option among them, when it is not empty.                      *)
Has(s, n) ==
    LET val == Resolve(s, n)
    IN  IF n \in s.nonOptions \/ val = Undefined THEN Throws
        ELSE IF val = None \/ (~IsOptionParam(s, n) /\ val \in {Str(""), List(Empty)})
            THEN Absent ELSE Present

\* Mutant: a present option goes by its value.
VariantName_ByValue(val, isOption) ==
    IF val = None THEN "None" ELSE val.v

(* getVariantName throws for a list and a template. *)
HasVariant(val, isOption) == val = None \/ isOption \/ val.t = "str"

VariantName(val, isOption) ==
    IF val = None THEN "None" ELSE IF isOption THEN "Some" ELSE val.v

-----------------------------------------------------------------------------
(* The direct renderer's scope (direct_renderer/scope.ts): the parameters  *)
(* are the bottom layer, and constants come last.                          *)

DirectResolve(s, n) ==
    IF n \in LayerNames(s.layers) THEN Innermost(s.layers, n)
    ELSE IF n \in DOMAIN s.consts THEN s.consts[n] ELSE Undefined

DirectPush(s, layer) == [s EXCEPT !.layers = Append(@, layer)]
DirectPop(s) == [s EXCEPT !.layers = Front(@)]

(* Every item gets a layer of its own. *)
DirectItem(s, b, item, idx) ==
    [DirectPush(s, Single(b, item)) EXCEPT !.metas = Over(Single(b, idx), @)]

(* has(n): the text "None" counts as none, an empty text does not.         *)
DirectHas(s, n) ==
    IF DirectResolve(s, n) \in {None, Undefined, Str("None")} THEN Absent ELSE Present

DirectVariantName(val, isOption) ==
    IF val \in {None, Undefined} THEN "None"
    ELSE IF isOption THEN "Some"
    ELSE IF val.t = "str" THEN val.v ELSE "Some"

-----------------------------------------------------------------------------
(* Match nodes: a list of arms, each a set of labels and a guard           *)
(* (`has(name)`), or NoGuard.  A label is a variant name or the name of a  *)
(* string whose value is compared.                                         *)

NoGuard == "no guard"

IsOptionMatchNode(arms) == \E i \in DOMAIN arms : arms[i].labels \cap {"Some", "None"} # {}

LabelMatches(label, variant, val) == label = variant \/ val = Str(variant)

(* The scope an arm's body sees: a layer, and the option unwrapped if this *)
(* is the Some arm of a present option.                                    *)
ArmScope(s, n, arm, variant) ==
    IF arm.labels = {"Some"} /\ variant = "Some" /\ Resolve(s, n) # None
        THEN NarrowOption(PushLayer(s, Single(n, Resolve(s, n))), n)
        ELSE PushLayer(s, Empty)

(* The first arm whose label matches and whose guard holds; 0 is the else. *)
FirstArm(taken) == Val("arm", "", <<IF taken = {} THEN 0 ELSE Min(taken)>>)

AsOption(s, n, arms) == IsOptionMatchNode(arms) \/ IsOptionParam(s, n)
RecVariant(s, n, arms) == VariantName(Resolve(s, n), AsOption(s, n, arms))

MatchArm(s, n, arms) ==
    IF Resolve(s, n) = Undefined \/ ~HasVariant(Resolve(s, n), AsOption(s, n, arms)) THEN Throws
    ELSE FirstArm({i \in DOMAIN arms :
            /\ \E l \in arms[i].labels : LabelMatches(l, RecVariant(s, n, arms), Resolve(s, l))
            /\ arms[i].guard # NoGuard =>
                 Has(ArmScope(s, n, arms[i], RecVariant(s, n, arms)), arms[i].guard) = Present})

DirectMatchArm(s, n, arms) ==
    LET variant == DirectVariantName(DirectResolve(s, n), IsOptionMatchNode(arms))
    IN  FirstArm({i \in DOMAIN arms :
            /\ \E l \in arms[i].labels : LabelMatches(l, variant, DirectResolve(s, l))
            /\ arms[i].guard # NoGuard => DirectHas(s, arms[i].guard) = Present})

-----------------------------------------------------------------------------
(* Includes.  A call names a file by path or a template by name, maps      *)
(* parameters to names of the including scope and may iterate over a list  *)
(* (for = NoFor when it does not).                                         *)

NoFor == "no for"
NoCall == [path |-> "none", name |-> "none", with |-> Empty, for |-> NoFor, in |-> "none"]

(* What a call passes: the item under its binding, and the mapped values.  *)
Passed(call, item, mapped) ==
    IF call.for = NoFor THEN mapped ELSE Over(mapped, Single(call.for, item))

(* validateIncludeTypes: what arrived for a declared parameter has its     *)
(* type.  A tmpl parameter is compared with the type of a struct.          *)
ConformsTo(val, type) ==
    \/ type = "option" /\ val.t \in {"none", "str"}
    \/ type \in {"str", "list"} /\ val.t = type

(* The context of an included template: what was passed, then defaults,    *)
(* then None for options; a parameter without any of the three is missing. *)
ChildContext(u, passed) ==
    Over(passed, Over(Defaults(u), [p \in OptionPaths(u) |-> None]))

Accepted(u, passed) ==
    /\ \A p \in DOMAIN Units[u].params \cap DOMAIN passed :
          ConformsTo(passed[p], Units[u].params[p].type)
    /\ DOMAIN Units[u].params \subseteq DOMAIN ChildContext(u, passed)

Scope(ctx, consts, options, nonOptions, inlines, base, depth) ==
    [ctx |-> ctx, consts |-> consts, layers |-> Empty, narrowed |-> Empty, metas |-> Empty,
     options |-> options, nonOptions |-> nonOptions, inlines |-> inlines,
     base |-> base, depth |-> depth]

\* Mutant: an includer's values over own constants.
MergeConsts_ParentFirst(s, u) == Over(AllValues(s), Units[u].consts)

(* mergeConsts: every value the includer sees becomes a constant of the    *)
(* included template, under its own constants.                             *)
MergeConsts(s, u) == Over(Units[u].consts, AllValues(s))

\* Mutant: the included file resolves paths where its includer does.
FileScope_IncluderBase(s, u, passed) ==
    Scope(ChildContext(u, passed), MergeConsts(s, u), OptionPaths(u), {},
          Inlines(u), s.base, s.depth - 1)

(* A file gets its own inline templates and directory ... *)
FileScope(s, u, passed) ==
    Scope(ChildContext(u, passed), MergeConsts(s, u), OptionPaths(u), {},
          Inlines(u), Units[u].dir, s.depth - 1)

(* ... an inline template those of the file it is in ... *)
InlineScope(s, u, passed) ==
    Scope(ChildContext(u, passed), MergeConsts(s, u), OptionPaths(u), {},
          s.inlines, s.base, s.depth - 1)

(* ... and a template passed as a value (renderForInclude) its own, the    *)
(* includer's constants and option names, and the includer's directory if  *)
(* it has none.  Neither types nor defaults are looked at.                 *)
ValueScope(s, u, passed) ==
    Scope(passed, Over(Units[u].consts, s.consts), s.options \cup OptionPaths(u),
          NonOptionParams(u), Inlines(u),
          IF Units[u].dir = "none" THEN s.base ELSE Units[u].dir, s.depth - 1)

Load(base, path) == IF path \in DOMAIN Disk[base] THEN Disk[base][path] ELSE "missing"

(* What the call's target is for the recursive renderer: a value of the    *)
(* scope comes before an inline template.                                  *)
Target(s, call) ==
    IF call.path # "none" THEN [via |-> "file", unit |-> Load(s.base, call.path)]
    ELSE IF Resolve(s, call.name).t = "tmpl"
        THEN [via |-> "value", unit |-> Resolve(s, call.name).v]
    ELSE [via |-> "inline",
          unit |-> IF call.name \in DOMAIN s.inlines THEN s.inlines[call.name] ELSE "missing"]

(* The file is loaded, the name looked up and the depth counted before the *)
(* list is read; a call without a list renders once.                       *)
Reached(s, target, call, list) ==
    IF target.unit = "missing" \/ s.depth = 0 \/ (call.for # NoFor /\ list.t # "list") THEN Throws
    ELSE Val(target.via, target.unit, IF call.for = NoFor THEN <<"once">> ELSE list.items)

IncludedScope(s, target, passed) ==
    CASE target.via = "value" -> ValueScope(s, target.unit, passed)
      [] target.via = "file" -> FileScope(s, target.unit, passed)
      [] target.via = "inline" -> InlineScope(s, target.unit, passed)

(* The direct renderer: tmpl values are unknown, the inline templates are  *)
(* always those of the outermost template, nothing is checked.             *)
DirectTarget(s, call) ==
    IF call.path # "none" THEN [via |-> "file", unit |-> Load(s.base, call.path)]
    ELSE [via |-> "inline",
          unit |-> IF call.name \in DOMAIN s.inlines THEN s.inlines[call.name] ELSE "missing"]

DirectScope(top, consts, inlines, base, depth) ==
    [layers |-> <<top>>, consts |-> consts, metas |-> Empty,
     inlines |-> inlines, base |-> base, depth |-> depth]

\* Mutant: the defaults of the included template are left out.
DirectIncluded_NoDefaults(s, target, passed) ==
    DirectScope(passed, Units[target.unit].consts, s.inlines,
                IF target.via = "file" THEN Units[target.unit].dir ELSE s.base, s.depth - 1)

DirectIncluded(s, target, passed) ==
    DirectScope(Over(passed, Defaults(target.unit)), Units[target.unit].consts, s.inlines,
                IF target.via = "file" THEN Units[target.unit].dir ELSE s.base, s.depth - 1)

-----------------------------------------------------------------------------
Top == Last(frames)
Below == Front(frames)

(* The names a body may use: declared ones and the bindings open around it. *)
OpenLoops(f) == {i \in DOMAIN f.open : f.open[i].kind = "for"}
Bindings(f) == {f.open[i].name : i \in OpenLoops(f)}
Names(f) == DOMAIN f.own \cup Bindings(f)

(* own: what the template was given, its defaults and constants; a record  *)
(* of the run that no renderer reads.                                      *)
Frame(u, via, own, rec, dir) ==
    [unit |-> u, via |-> via, own |-> own, rec |-> rec, dir |-> dir, open |-> Empty]

(* buildContext: defaults under what was given, declared names only.       *)
Context(given) == [p \in DOMAIN Units[Main].params |-> Over(given, Defaults(Main))[p]]

(* renderWithContext, and renderUnchecked with getDirectOptions.           *)
RenderScope(ctx) ==
    Scope(ctx, Units[Main].consts, OptionPaths(Main), NonOptionParams(Main),
          Inlines(Main), Units[Main].dir, MaxIncludeDepth)

UncheckedScope(ctx) ==
    DirectScope(ctx, Units[Main].consts, Inlines(Main), Units[Main].dir, MaxIncludeDepth)

TopFrame(given) ==
    Frame(Main, "top", Over(Units[Main].consts, Context(given)),
          RenderScope(Context(given)), UncheckedScope(Context(given)))

Init ==
    /\ \E given \in Given : frames = <<TopFrame(given)>>
    /\ parted = Together

(* Where a node leads: rec and dir are the branches the renderers take,    *)
(* and the next frames follow the recursive one.  The first time they      *)
(* differ is kept; the direct renderer is not followed any further.        *)
NoDirect == [layers |-> Empty]

Decide(node, rec, dir, next) ==
    /\ parted' = IF parted = Together /\ rec # dir THEN node ELSE parted
    /\ frames' = IF rec \in {Throws, Refused} THEN <<>>
                 ELSE IF parted' = Together THEN next
                 ELSE [i \in DOMAIN next |-> [next[i] EXCEPT !.dir = NoDirect]]

Replace(f) == frames' = Append(Below, f) /\ UNCHANGED parted
Direct(old, new) == IF parted = Together THEN new ELSE old

InBlock(kinds) == frames # <<>> /\ Top.open # <<>> /\ Last(Top.open).kind \in kinds
OpenBlocks == FoldLeft(LAMBDA n, f : n + Len(f.open), 0, frames)
(* A node may follow here. *)
Opens == OpenBlocks < MaxBlocks /\ frames # <<>> /\ ~InBlock({"each"})

Block(kind, name, items, call) ==
    [kind |-> kind, name |-> name, items |-> items, idx |-> 1, reused |-> FALSE, call |-> call]

Body(kind, name) == Block(kind, name, Empty, NoCall)

(* {% for b in n %}: an empty list renders the else body, in this scope.   *)
Opened(f, b, items) ==
    IF items = Empty THEN f
    ELSE [f EXCEPT !.open = Append(@, Block("for", b, items, NoCall)),
                   !.rec = SetItem(PushLayer(@, Empty), b, Str(Head(items)), 0),
                   !.dir = Direct(@, DirectItem(@, b, Str(Head(items)), 0))]

ListOr(val) == IF val.t = "list" THEN val ELSE Throws

For(n, b) ==
    LET rec == ListOr(Resolve(Top.rec, n))
    IN  Decide("for", rec, ListOr(DirectResolve(Top.dir, n)),
                  Append(Below, Opened(Top, b, rec.items)))

Inner == Last(Top.open)

NextItem ==
    /\ InBlock({"for"}) /\ Inner.idx < Len(Inner.items)
    /\ LET item == Str(Inner.items[Inner.idx + 1])
       IN  Replace([Top EXCEPT
             !.open = [@ EXCEPT ![Len(@)] =
                          [Inner EXCEPT !.idx = Inner.idx + 1, !.reused = FALSE]],
             !.rec = SetItem(@, Inner.name, item, Inner.idx),
             !.dir = Direct(@, DirectItem(DirectPop(@), Inner.name, item, Inner.idx))])

(* Loops further out that use the same binding are marked: reused.         *)
CloseFor ==
    /\ InBlock({"for"}) /\ Inner.idx = Len(Inner.items)
    /\ Replace([Top EXCEPT
         !.open = [i \in 1..(Len(@) - 1) |->
                     IF @[i].name = Inner.name THEN [@[i] EXCEPT !.reused = TRUE] ELSE @[i]],
         !.rec = PopLayer(@), !.dir = Direct(@, DirectPop(@))])

(* {% if has(n) %} body and {% if !has(n) %}..{% else %} body: the option  *)
(* is unwrapped, in a layer of its own, if it still is one.                *)
Guarded(f, n) ==
    IF IsOptionParam(f.rec, n)
    THEN [f EXCEPT !.open = Append(@, Body("unwrapped", n)),
                   !.rec = NarrowOption(PushLayer(@, Empty), n)]
    ELSE [f EXCEPT !.open = Append(@, Body("plain", n))]

IfHas(n) ==
    LET rec == Has(Top.rec, n)
    IN  Decide("has", rec, DirectHas(Top.dir, n),
                  IF rec = Present THEN Append(Below, Guarded(Top, n)) ELSE frames)

(* {% match n %} with these arms; the else body has no layer.              *)
InArm(f, n, arms, i) ==
    [f EXCEPT !.open = Append(@, Body(IF arms[i].labels = {"Some"} THEN "some" ELSE "arm", n)),
              !.rec = ArmScope(@, n, arms[i], RecVariant(@, n, arms))]

Match(n, arms) ==
    LET rec == MatchArm(Top.rec, n, arms)
    IN  Decide("match", rec, DirectMatchArm(Top.dir, n, arms),
                  IF rec.t = "arm" /\ Head(rec.items) # 0
                  THEN Append(Below, InArm(Top, n, arms, Head(rec.items))) ELSE frames)

CloseBlock ==
    /\ InBlock({"unwrapped", "plain", "some", "arm"})
    /\ Replace([Top EXCEPT !.open = Front(@),
                           !.rec = IF Inner.kind = "plain" THEN @ ELSE PopLayer(@)])

(* {% include %}: what the call reaches, and the items it goes through.    *)
Include(call) ==
    LET rec == Reached(Top.rec, Target(Top.rec, call), call, Resolve(Top.rec, call.in))
        dir == Reached(Top.dir, DirectTarget(Top.dir, call), call, DirectResolve(Top.dir, call.in))
    IN  Decide("include", rec, dir,
                  Append(Below, [Top EXCEPT !.open =
                                    Append(@, Block("each", call.name, rec.items, call))]))

(* One item: the mapped values are read from the includer's scope anew.    *)
Included(f, target, item, recPassed, dirPassed) ==
    Frame(target.unit, target.via,
          Over(Units[target.unit].consts,
               IF target.via = "value" THEN recPassed ELSE ChildContext(target.unit, recPassed)),
          IncludedScope(f.rec, target, recPassed),
          Direct(f.dir, DirectIncluded(f.dir, DirectTarget(f.dir, Last(f.open).call), dirPassed)))

EnterIncluded ==
    /\ InBlock({"each"}) /\ Inner.idx <= Len(Inner.items)
    /\ LET call == Inner.call
           item == Str(Inner.items[Inner.idx])
           target == Target(Top.rec, call)
           passed == Passed(call, item, [p \in DOMAIN call.with |-> Resolve(Top.rec, call.with[p])])
           direct ==
               Passed(call, item, [p \in DOMAIN call.with |-> DirectResolve(Top.dir, call.with[p])])
           rec == IF Undefined \in Range(passed) THEN Throws
                  ELSE IF target.via # "value" /\ ~Accepted(target.unit, passed) THEN Refused
                  ELSE Val("entered", target.unit, Empty)
       IN  Decide("with", rec, Val("entered", target.unit, Empty),
                  Below \o <<[Top EXCEPT !.open =
                                 [@ EXCEPT ![Len(@)] = [Inner EXCEPT !.idx = Inner.idx + 1]]],
                             Included(Top, target, item, passed, direct)>>)

CloseInclude ==
    /\ InBlock({"each"}) /\ Inner.idx > Len(Inner.items)
    /\ Replace([Top EXCEPT !.open = Front(@)])

EndBody == frames # <<>> /\ Top.open = Empty /\ frames' = Below /\ UNCHANGED parted

-----------------------------------------------------------------------------
(* What a name of a body stands for: the item of the innermost loop that   *)
(* binds it, or what the template was given.                               *)
Means(f, n) ==
    LET loops == {i \in OpenLoops(f) : f.open[i].name = n}
    IN  IF loops = {} THEN f.own[n]
        ELSE Str(f.open[Max(loops)].items[f.open[Max(loops)].idx])

(* Unwrapped in the body as written; a loop binding hides an option.       *)
Unwrapped(f, n) == \E i \in DOMAIN f.open : f.open[i].kind \in {"unwrapped", "some"} /\ f.open[i].name = n
IsOption(f, n) == n \in OptionPaths(f.unit) \ Bindings(f)

(* A call maps names of the body it is in, and goes over one of them.      *)
IsWritten(call, names) ==
    Range(call.with) \subseteq names /\ (call.for # NoFor => call.in \in names)

(* The nodes a body may hold: names it declares or binds, options asked    *)
(* about with has(), and matches the static checks accept: Some and None   *)
(* for an option that is not unwrapped, other labels for strings.          *)
MatchIsTyped(f, n, arms) ==
    /\ \A i \in DOMAIN arms : arms[i].guard = NoGuard \/ IsOption(f, arms[i].guard)
    /\ IF IsOptionMatchNode(arms) THEN IsOption(f, n) /\ ~Unwrapped(f, n)
       ELSE Means(f, n).t = "str" /\ (IsOption(f, n) => Unwrapped(f, n))

(* A loop's binding is no declared name (validateBodyCollisions) in a      *)
(* template that was compiled; a file that is only included was not.       *)
BindingIsNew(f, b) == f.via \in {"top", "value"} => b \notin Declared(f.unit)

Next ==
    \/ Opens /\ \E n \in Names(Top) :
          \/ \E b \in Loops : BindingIsNew(Top, b) /\ For(n, b)
          \/ IsOption(Top, n) /\ IfHas(n)
          \/ \E arms \in Matches : MatchIsTyped(Top, n, arms) /\ Match(n, arms)
    \/ Opens /\ \E call \in Calls : IsWritten(call, Names(Top)) /\ Include(call)
    \/ NextItem \/ CloseFor \/ CloseBlock
    \/ EnterIncluded \/ CloseInclude \/ EndBody

Spec == Init /\ [][Next]_vars

-----------------------------------------------------------------------------
(* The properties speak of the innermost template: the scopes of the ones  *)
(* around it stay as they were when it was entered.                        *)
Depth == Len(frames)
Rendering == frames # <<>>

(* Layers and narrowings come and go together, one for every block that is *)
(* open in the body and pushes one.                                        *)
TypeOK ==
    /\ Depth <= MaxIncludeDepth + 1
    /\ Rendering =>
          /\ Top.unit \in DOMAIN Units /\ Top.via \in {"top", "file", "inline", "value"}
          /\ Top.rec.depth \in 0..MaxIncludeDepth
          /\ Len(Top.rec.layers) = Len(Top.rec.narrowed)
          /\ Len(Top.rec.layers) =
                Cardinality({i \in DOMAIN Top.open : Top.open[i].kind \notin {"plain", "each"}})

(* The names under which the k-th template finds a value of one of its     *)
(* includers among its constants: all the includer's names (mergeConsts),  *)
(* its constants alone for a template passed as a value, unless a template *)
(* on the way has a constant of that name.                                 *)
ConstsOf(k) == DOMAIN Units[frames[k].unit].consts
HandedOn(k) == IF frames[k + 1].via = "value" THEN ConstsOf(k) ELSE Names(frames[k])
Leaked(k) ==
    {n \in UNION {HandedOn(j) : j \in 1..(k - 1)} :
        \E j \in 1..(k - 1) : n \in HandedOn(j) /\ \A m \in (j + 1)..k : n \notin ConstsOf(m)}

(* The loops whose items no body sees, for a constant has their name.      *)
BoundConsts(k) == Bindings(frames[k]) \cap ConstsOf(k)

(* A name is hidden where an included template finds a value of an         *)
(* includer under it, or a value passed to it or a loop's item has the     *)
(* name of a constant: the constant is what render() shows, and the value  *)
(* or the item what the direct renderer does.                              *)
SomeNameHidden ==
    \E k \in 2..Depth : \/ Names(frames[k]) \cap Leaked(k) # {}
                        \/ (DOMAIN frames[k].rec.ctx \cup Bindings(frames[k])) \cap ConstsOf(k) # {}

(* A template sees its own parameters, constants and loop items under      *)
(* their names, whatever is rendered around it, unless an includer has a   *)
(* value of the same name or a constant takes that of a loop's item        *)
(* (renderer.ts mergeConsts, scope.ts resolve).                            *)
OwnNames ==
    Rendering => \A n \in Names(Top) \ (Leaked(Depth) \cup BoundConsts(Depth)) :
        Resolve(Top.rec, n) = Means(Top, n)

(* The parameters an include passes are what the included template sees:   *)
(* "no implicit scope leaking" (SPEC.md:2017).                             *)
NothingLeaks == Rendering => \A n \in Names(Top) : Resolve(Top.rec, n) = Means(Top, n)

(* An absent option that was not passed is undefined in the direct scope;  *)
(* both renderers show nothing for it.                                     *)
DirectShows(s, n) == IF DirectResolve(s, n) = Undefined THEN None ELSE DirectResolve(s, n)

(* The direct renderer shows the same as render() does wherever no name    *)
(* of the template or of one of its includers is hidden.                   *)
SameText ==
    Rendering /\ parted = Together /\ ~SomeNameHidden =>
        \A n \in Names(Top) : DirectShows(Top.dir, n) = Resolve(Top.rec, n)

(* An option is unwrapped exactly inside the has() bodies and Some arms on *)
(* it, however they nest with loops and includes; a template passed as a   *)
(* value also takes the names its includers declare as options for options *)
(* (renderForInclude).                                                     *)
OptionsSeen(k) ==
    UNION {OptionPaths(frames[j].unit) :
              j \in {i \in 1..k : \A m \in (i + 1)..k : frames[m].via = "value"}}

OptionsAsUnwrapped ==
    Rendering => \A n \in DOMAIN Top.own :
        IsOptionParam(Top.rec, n) <=> (n \in OptionsSeen(Depth) /\ ~Unwrapped(Top, n))

(* idx(b) is the position of the current item of the innermost loop over   *)
(* b, in both renderers, until a loop inside it has used b again.          *)
IdxIsOwn ==
    Rendering => \A i \in DOMAIN Top.open :
        LET b == Top.open[i]
        IN  b.kind = "for" /\ ~b.reused /\ (\A j \in (i + 1)..Len(Top.open) : Top.open[j].name # b.name)
            => /\ Top.rec.metas[b.name] = b.idx - 1
               /\ parted = Together => Top.dir.metas[b.name] = b.idx - 1

(* The scope of the innermost template is its own, whatever is around it   *)
(* and was rendered before: names, options and loop indices.               *)
OwnScope == TypeOK /\ OwnNames /\ OptionsAsUnwrapped /\ IdxIsOwn

(* A relative path is resolved in the directory of the file the include is *)
(* written in, and an inline template's name in that file: by the          *)
(* recursive renderer always, by the direct one for paths.                 *)
FilesUpTo(k) == {j \in 1..k : frames[j].via # "inline" /\ Units[frames[j].unit].dir # "none"}
OwnDir(k) ==
    IF FilesUpTo(k) = {} THEN "none" ELSE Units[frames[Max(FilesUpTo(k))].unit].dir
OwnInlines(k) == Inlines(frames[Max({j \in 1..k : frames[j].via # "inline"})].unit)

OwnIncludes ==
    Rendering =>
        /\ Top.rec.base = OwnDir(Depth)
        /\ parted = Together => Top.dir.base = Top.rec.base
        /\ Top.rec.inlines = OwnInlines(Depth)

(* The label of an arm that names a value of an includer, which only the   *)
(* recursive renderer knows, and the value is what is matched.             *)
IncludersLabel ==
    \E n \in Names(Top), arms \in Matches : \E i \in DOMAIN arms :
        \E l \in arms[i].labels \ Names(Top) :
            Resolve(Top.rec, l) = Str(RecVariant(Top.rec, n, arms))

(* The renderers take the same branch at every node until one of these:    *)
(* a tmpl value is included, a name is looked up among the inline          *)
(* templates of an included file, an include is refused for a parameter    *)
(* render() checks, a name is hidden, a label is an includer's, a match    *)
(* takes a loop's item for the option of its name, or has() is asked about *)
(* a text one renderer takes for none: an empty one, when it is unwrapped, *)
(* render() (evaluator.ts 198-210), and "None" the other (expr.ts 122).    *)
TakenForNone == {Str(""), Str("None")}
Known(node) ==
    \/ node = "with" /\ frames' = <<>>
    \/ node = "include" /\ \E k \in 2..Depth : frames[k].via # "inline"
    \/ node = "include" /\ frames' # <<>> /\ Target(Top.rec, Inner'.call).via = "value"
    \/ SomeNameHidden
    \/ node = "match" /\ (IncludersLabel \/ Bindings(Top) \cap OptionPaths(Top.unit) # {})
    \/ node \in {"has", "match"} /\ \E n \in OptionPaths(Top.unit) : Means(Top, n) \in TakenForNone

SameBranches == [][parted' # parted => Known(parted')]_vars
=============================================================================
