---------------------------- MODULE RenderScope ----------------------------
(***************************************************************************)
(* The Scope of md-tmpl-core (scope.rs) during one render, and the         *)
(* recursive renderer that pushes on it and pops from it: for loops,       *)
(* narrowed options and includes (compiled/render/, include.rs).           *)
(*                                                                         *)
(* A scope is one set of stacks that all templates of a render share, and  *)
(* a variable is whatever the stacks say.  A template's text is not        *)
(* modelled: the body of a template may open and close any constructs, in  *)
(* any order, that the compiler lets it contain.  What is modelled is the  *)
(* call stack of the renderer (frames) next to the stacks of the scope.    *)
(* An include or a loop over an empty list leaves the scope as it was.     *)
(***************************************************************************)
EXTENDS Naturals, Sequences, FiniteSets

CONSTANTS
    Names,         \* variables
    Values,        \* what they hold
    Literals,      \* the values an include writes out in its with clause
    Templates,     \* template files and the inline templates defined in them
    Files,         \* the template files
    Owner,         \* template -> the file its text is in
    Params,        \* template -> its declared parameters
    Defaults,      \* template -> default values of some of them
    Options,       \* template -> those of type option
    Consts,        \* template -> its own constants and their values
    Inlines,       \* file -> the inline templates it defines, by name
    LoopNames,     \* names the for statements bind
    IncludeNames,  \* names the iterated includes bind
    Lists,         \* the lists they range over, not empty
    NoName,        \* an include that does not iterate
    MaxIncludeDepth,
    MaxFrames      \* bound: no deeper nesting of constructs

Environments == UNION {[D -> Values] : D \in SUBSET Names}

\* A constant is not a parameter, an inline template has one owner, and a value is
\* not a name.
ASSUME TemplateAssumption ==
    /\ Literals \subseteq Values /\ Literals \cap Names = {}
    /\ Files \subseteq Templates
    /\ Owner \in [Templates -> Files]
    /\ \A f \in Files : Owner[f] = f
    /\ \A t \in Templates :
          /\ Params[t] \subseteq Names
          /\ Options[t] \subseteq Params[t]
          /\ Defaults[t] \in Environments /\ DOMAIN Defaults[t] \subseteq Params[t]
          /\ Consts[t] \in Environments /\ DOMAIN Consts[t] \cap Params[t] = {}
    /\ \A f \in Files : \A i \in DOMAIN Inlines[f] :
          Inlines[f][i] \in Templates /\ Owner[Inlines[f][i]] = f
    /\ LoopNames \subseteq Names /\ IncludeNames \subseteq Names
    /\ Lists \subseteq Seq(Values) \ {<<>>}
    /\ NoName \notin Names
    /\ MaxIncludeDepth \in Nat

VARIABLES
    frames,    \* the renderer's calls, outermost first
    cached,    \* is there an include resolver (Scope.cache)?
    ctx,       \* Scope.ctx, defaults injected
    layers,    \* Scope.layers, slots that are not active included
    metas,     \* Scope.loop_metas, parallel to layers
    nLayers,   \* Scope.active_len
    loops,     \* Scope.loop_bindings, slots that are not active included
    nLoops,    \* Scope.active_loop_bindings
    consts,    \* Scope.consts_stack, as the templates they belong to
    inlines,   \* Scope.inline_template_stack, likewise
    decls,     \* Scope.declarations_stack, likewise
    narrowed,  \* Scope.narrowed_options
    depth      \* Scope.include_depth

bindings == <<layers, metas, nLayers, loops, nLoops>>
perFile  == <<consts, inlines, decls, depth>>
vars     == <<frames, cached, ctx, bindings, perFile, narrowed>>

Top == frames[Len(frames)]

\* What f maps, and what g maps of the rest.
Over(f, g) == [n \in DOMAIN f \cup DOMAIN g |-> IF n \in DOMAIN f THEN f[n] ELSE g[n]]

Single(n, x) == [m \in {n} |-> x]

\* push and pop of a call.
Call(f)   == frames' = Append(frames, f)
Return    == frames' = SubSeq(frames, 1, Len(frames) - 1)
Advance   == frames' = [frames EXCEPT ![Len(frames)].at = @ + 1]
Pop(s)    == SubSeq(s, 1, Len(s) - 1)
HasRoom   == frames # <<>> /\ Len(frames) < MaxFrames

Innermost(S) == CHOOSE i \in S : \A j \in S : j <= i

\* The call that renders the current template, and the calls inside it.
IsFile(k) == frames[k].kind = "file"
Active    == Innermost({k \in DOMAIN frames : IsFile(k)})
Current   == frames[Active]
Own       == Active + 1..Len(frames)

----------------------------------------------------------------------------
(* Lookups.                                                                *)

\* Mutant: a loop binding that was popped is still seen in its slot.
LoopsOfAnySlot(n) == {i \in DOMAIN loops : loops[i].name = n}

LoopsOf(n)  == {i \in 1..nLoops : loops[i].name = n}
LayersOf(n) == {i \in 1..nLayers : n \in DOMAIN layers[i]}

\* resolve, with the constants stack as a parameter: constants of all files come
\* before loop bindings of all files, and these before layers and the context.
ResolveIn(cs, n) ==
    LET holders == {i \in DOMAIN cs : n \in DOMAIN Consts[cs[i]]} IN
    IF holders # {}          THEN Consts[cs[Innermost(holders)]][n]
    ELSE IF LoopsOf(n) # {}  THEN loops[Innermost(LoopsOf(n))].value
    ELSE IF LayersOf(n) # {} THEN layers[Innermost(LayersOf(n))][n]
    ELSE IF n \in DOMAIN ctx THEN ctx[n] ELSE NoName

Resolve(n) == ResolveIn(consts, n)

\* Mutant: of nested includes that iterate over one name, the outermost wins.
LoopMetaOutermost(n) ==
    LET metaLayers == {i \in 1..nLayers : n \in DOMAIN metas[i]} IN
    IF LoopsOf(n) # {} THEN loops[Innermost(LoopsOf(n))].meta
                       ELSE metas[CHOOSE i \in metaLayers : \A j \in metaLayers : i <= j][n]

\* get_loop_meta, which is what idx(n) returns.
LoopMeta(n) ==
    LET metaLayers == {i \in 1..nLayers : n \in DOMAIN metas[i]} IN
    IF LoopsOf(n) # {} THEN loops[Innermost(LoopsOf(n))].meta
                       ELSE metas[Innermost(metaLayers)][n]

\* is_option_path, for a path that is a name.
IsOption(n) ==
    LET declaring == {i \in DOMAIN decls : n \in Params[decls[i]]} IN
    /\ \A i \in DOMAIN narrowed : narrowed[i] # n
    /\ declaring # {}
    /\ n \in Options[decls[Innermost(declaring)]]

\* get_inline_template: the file on top of the stack, or else the root.
InlineFile == IF inlines = <<>> THEN frames[1].tmpl ELSE inlines[Len(inlines)]

----------------------------------------------------------------------------
(* Slots.  Popping only lowers the counter; pushing reuses the slot.       *)

Slot(s, k, x) == IF k <= Len(s) THEN [s EXCEPT ![k] = x] ELSE Append(s, x)

\* push_loop_binding, then set_loop_meta, which finds the binding on top.
PushLoop(n, v, i) ==
    /\ loops' = Slot(loops, nLoops + 1, [name |-> n, value |-> v, meta |-> i])
    /\ nLoops' = nLoops + 1

\* push_layer (in slot k) and, for an iterated include, set_loop_meta: a loop
\* binding of that name, whoever made it, comes before the new layer.
PushLayer(k, layer, n, i) ==
    /\ layers' = Slot(layers, k, layer)
    /\ nLayers' = k
    /\ IF n # NoName /\ LoopsOf(n) # {}
          THEN /\ loops' = [loops EXCEPT ![Innermost(LoopsOf(n))].meta = i]
               /\ metas' = Slot(metas, k, <<>>)
          ELSE /\ loops' = loops
               /\ metas' = Slot(metas, k, IF n = NoName THEN <<>> ELSE Single(n, i))
    /\ UNCHANGED nLoops

----------------------------------------------------------------------------
(* What a template may say.  The static analysis that keeps a for statement *)
(* from binding a declared name is not relied on: it sees no inline template, *)
(* no included file and no template that the cache loaded.                  *)

\* The constants a template sees: its own, and those of the file it is in.
FileConsts(t) == Over(Consts[t], Consts[Owner[t]])

OwnLoops == {frames[k].binding : k \in {j \in Own : frames[j].kind = "for"}}

\* The parameters the current template was given: all it declares.
Visible == DOMAIN FileConsts(Current.tmpl) \cup OwnLoops \cup Params[Current.tmpl]

----------------------------------------------------------------------------
(* A render.                                                               *)

\* The scope between two renders: there is none.
NoScope ==
    /\ frames = <<>> /\ cached = FALSE /\ ctx = <<>>
    /\ layers = <<>> /\ metas = <<>> /\ nLayers = 0
    /\ loops = <<>> /\ nLoops = 0
    /\ consts = <<>> /\ inlines = <<>> /\ decls = <<>> /\ depth = 0
    /\ narrowed = <<>>

Drop ==
    /\ frames' = <<>> /\ cached' = FALSE /\ ctx' = <<>>
    /\ layers' = <<>> /\ metas' = <<>> /\ nLayers' = 0
    /\ loops' = <<>> /\ nLoops' = 0
    /\ consts' = <<>> /\ inlines' = <<>> /\ decls' = <<>> /\ depth' = 0
    /\ narrowed' = <<>>

\* A frame of a template: whether inline templates were pushed for it, its overrides
\* (with), what the caller meant by them (given, a history), and, if it iterates, over
\* what.
FileFrame(t, inlining, with, given, binding, items) ==
    [kind |-> "file", tmpl |-> t, inlines |-> inlining, with |-> with, given |-> given,
     binding |-> binding, items |-> items, at |-> 1]

\* render_core and render_ctx_cached, after validate_context.
Begin(f, args, withCache) ==
    /\ frames = <<>>
    /\ Call(FileFrame(f, FALSE, args, args, NoName, <<>>))
    /\ cached' = withCache
    /\ ctx' = Over(args, Defaults[f])
    /\ consts' = IF DOMAIN Consts[f] = {} THEN <<>> ELSE <<f>>
    /\ decls' = IF Params[f] = {} THEN <<>> ELSE <<f>>
    /\ UNCHANGED <<bindings, inlines, depth, narrowed>>

Finish ==
    /\ Len(frames) = 1
    /\ Drop

\* An undefined variable, a type mismatch, a missing include, a panic: the error
\* leaves every pop undone, but it also ends the render.
Fail ==
    /\ frames # <<>>
    /\ Drop

----------------------------------------------------------------------------
(* {% for %}.                                                              *)

EnterFor(n, items) ==
    /\ HasRoom
    /\ Call([kind |-> "for", binding |-> n, items |-> items, at |-> 1])
    /\ PushLoop(n, items[1], 0)
    /\ UNCHANGED <<cached, ctx, layers, metas, nLayers, perFile, narrowed>>

InFor == frames # <<>> /\ Top.kind = "for"

\* pop_loop_binding and push_loop_binding.
NextItem ==
    /\ InFor
    /\ Top.at < Len(Top.items)
    /\ Advance
    /\ loops' = Slot(loops, nLoops,
                     [name |-> Top.binding, value |-> Top.items[Top.at + 1], meta |-> Top.at])
    /\ UNCHANGED <<cached, ctx, layers, metas, nLayers, nLoops, perFile, narrowed>>

ExitFor ==
    /\ InFor
    /\ Top.at = Len(Top.items)
    /\ Return
    /\ nLoops' = nLoops - 1
    /\ UNCHANGED <<cached, ctx, layers, metas, nLayers, loops, perFile, narrowed>>

----------------------------------------------------------------------------
(* {% if has(n) %} and {% match n %}{% case Some %}.                       *)

EnterIfHas(n) ==
    /\ HasRoom
    /\ n \in Options[Current.tmpl]
    /\ IsOption(n)
    /\ Call([kind |-> "narrow", name |-> n])
    /\ narrowed' = Append(narrowed, n)
    /\ UNCHANGED <<cached, ctx, bindings, perFile>>

\* A match knows from the declaration that n is an option.
EnterCaseSome(n) ==
    /\ HasRoom
    /\ n \in Options[Current.tmpl]
    /\ Call([kind |-> "narrow", name |-> n])
    /\ narrowed' = Append(narrowed, n)
    /\ UNCHANGED <<cached, ctx, bindings, perFile>>

\* Mutant: all narrowings of the name are removed, not the most recent.
ExitNarrowedRemovesAll ==
    /\ frames # <<>>
    /\ Top.kind = "narrow"
    /\ Return
    /\ LET other(n) == n # Top.name IN narrowed' = SelectSeq(narrowed, other)
    /\ UNCHANGED <<cached, ctx, bindings, perFile>>

\* unnarrow_option removes the most recent narrowing of the name.
ExitNarrowed ==
    /\ frames # <<>>
    /\ Top.kind = "narrow"
    /\ Return
    /\ LET i == Innermost({j \in DOMAIN narrowed : narrowed[j] = Top.name}) IN
         narrowed' = SubSeq(narrowed, 1, i - 1) \o SubSeq(narrowed, i + 1, Len(narrowed))
    /\ UNCHANGED <<cached, ctx, bindings, perFile>>

----------------------------------------------------------------------------
(* {% include %}.                                                          *)

\* What validate_include_contract accepts: with gives, or the iteration binds,
\* every parameter that has no default.
Accepts(t, keys, binding) ==
    Params[t] \ DOMAIN Defaults[t] \subseteq keys \cup {binding}

\* inject_defaults_into_layer: every declared parameter that with leaves out.
Injected(t, with) == [n \in DOMAIN Defaults[t] \ DOMAIN with |-> Defaults[t][n]]

\* The layer of an iteration: the item, then with over it, then the defaults.
IterationLayer(t, with, binding, item) ==
    Over(Injected(t, with), Over(with, Single(binding, item)))

\* The layer of a simple include, which pushes none if it has nothing to bind.
NeedsLayer(t, with) == DOMAIN with # {} \/ DOMAIN Defaults[t] # {}

EvalIn(cs, e) == IF e \in Names THEN ResolveIn(cs, e) ELSE e

\* What the expressions of a with clause may be: the value t gets, which is evaluated
\* when t's constants are already on the stack, and the value the caller's text means.
Overrides(t) ==
    {[value |-> EvalIn(Append(consts, t), e), meant |-> EvalIn(consts, e)] :
        e \in Literals \cup Visible}

\* How the directive finds t: by the name of an inline template, as the value of
\* a template parameter, from the cache, or from disk.
Finds(t, how) ==
    CASE how = "inline" -> \E i \in DOMAIN Inlines[InlineFile] : Inlines[InlineFile][i] = t
      [] how = "value"  -> t \in Files
      [] how = "cached" -> t \in Files /\ cached
      [] how = "disk"   -> t \in Files /\ ~cached

\* Mutant: a template that is a value does not bring its inline templates.
PushesInlinesDisk(how) == how = "disk"

\* A file that came from the cache brings none, and an inline template has none.
PushesInlines(how) == how \in {"value", "disk"}

\* With or without its inline templates: the ways to include t, as far as they differ.
Includable(t) ==
    {PushesInlines(how) : how \in {h \in {"inline", "value", "cached", "disk"} : Finds(t, h)}}

\* push_declarations and pop_declarations leave a template without any out.
Declared(t) == IF Params[t] = {} THEN decls ELSE Append(decls, t)

\* Mutant: the pop does not look at what was pushed.
UndeclaredAlways(t) == Pop(decls)

Undeclared(t) == IF Params[t] = {} THEN decls ELSE Pop(decls)

\* resolve_include_into up to the first body.
EnterInclude(t, inlining, overrides, binding, items) ==
    /\ depth < MaxIncludeDepth
    /\ inlining \in Includable(t)
    /\ Accepts(t, DOMAIN overrides, binding)
    /\ LET with  == [n \in DOMAIN overrides |-> overrides[n].value]
           given == [n \in DOMAIN overrides |-> overrides[n].meant]
       IN /\ Call(FileFrame(t, inlining, with, given, binding, items))
          /\ IF binding # NoName
                THEN PushLayer(nLayers + 1, IterationLayer(t, with, binding, items[1]), binding, 0)
                ELSE IF NeedsLayer(t, with)
                       THEN PushLayer(nLayers + 1, Over(Injected(t, with), with), NoName, 0)
                       ELSE UNCHANGED bindings
    /\ consts' = Append(consts, t)
    /\ inlines' = IF inlining THEN Append(inlines, t) ELSE inlines
    /\ decls' = Declared(t)
    /\ depth' = depth + 1
    /\ UNCHANGED <<cached, ctx, narrowed>>

InInclude == Len(frames) > 1 /\ Top.kind = "file"

Iterates == Top.binding # NoName

\* pop_layer and push_layer.
NextInclude ==
    /\ InInclude
    /\ Iterates
    /\ Top.at < Len(Top.items)
    /\ Advance
    /\ PushLayer(nLayers,
                 IterationLayer(Top.tmpl, Top.with, Top.binding, Top.items[Top.at + 1]),
                 Top.binding, Top.at)
    /\ UNCHANGED <<cached, ctx, perFile, narrowed>>

ExitInclude ==
    /\ InInclude
    /\ Iterates => Top.at = Len(Top.items)
    /\ Return
    /\ nLayers' = IF Iterates \/ NeedsLayer(Top.tmpl, Top.with) THEN nLayers - 1 ELSE nLayers
    /\ decls' = Undeclared(Top.tmpl)
    /\ consts' = Pop(consts)
    /\ inlines' = IF Top.inlines THEN Pop(inlines) ELSE inlines
    /\ depth' = depth - 1
    /\ UNCHANGED <<cached, ctx, layers, metas, loops, nLoops, narrowed>>

----------------------------------------------------------------------------
Init == NoScope

\* The lists of such values that t can be included or rendered with.
Arguments(t, binding, values) ==
    UNION {[keys -> values] : keys \in {K \in SUBSET (Params[t] \ {binding}) : Accepts(t, K, binding)}}

Include ==
    /\ HasRoom
    /\ \E t \in Templates :
          \E inlining \in Includable(t), overrides \in Arguments(t, NoName, Overrides(t)) :
             EnterInclude(t, inlining, overrides, NoName, <<>>)

IteratedInclude ==
    /\ HasRoom
    /\ \E t \in Templates, n \in IncludeNames, items \in Lists :
          \E inlining \in Includable(t), overrides \in Arguments(t, n, Overrides(t)) :
             EnterInclude(t, inlining, overrides, n, items)

Next ==
    \/ \E f \in Files, c \in BOOLEAN :
          \E args \in Arguments(f, NoName, Literals) : Begin(f, args, c)
    \/ Finish
    \/ Fail
    \/ \E n \in LoopNames, items \in Lists : EnterFor(n, items)
    \/ NextItem
    \/ ExitFor
    \/ \E n \in Names : EnterIfHas(n) \/ EnterCaseSome(n)
    \/ ExitNarrowed
    \/ Include
    \/ IteratedInclude
    \/ NextInclude
    \/ ExitInclude

Spec == Init /\ [][Next]_vars
----------------------------------------------------------------------------
(* Properties.                                                             *)

Bound(f) == {n \in Names : f.kind = "for" /\ f.binding = n}

\* What the current template's own text says a name is: a constant of its file,
\* else the innermost of its own loops, else the argument, the item or the default.
Meaning(n) ==
    LET t == Current.tmpl
        binders == {k \in Own : n \in Bound(frames[k])}
    IN  IF n \in DOMAIN FileConsts(t) THEN FileConsts(t)[n]
        ELSE IF binders # {}
               THEN LET loop == frames[Innermost(binders)] IN loop.items[loop.at]
        ELSE IF n \in DOMAIN Current.given THEN Current.given[n]
        ELSE IF n = Current.binding THEN Current.items[Current.at]
        ELSE Defaults[t][n]

\* Names that templates further out bind by a loop or a constant.
CallersBind(n) ==
    \E k \in 1..Active - 1 :
        \/ n \in Bound(frames[k])
        \/ IsFile(k) /\ n \in DOMAIN Consts[frames[k].tmpl]

Rendering == frames # <<>>

FileFrames ==
    [kind : {"file"}, tmpl : Templates, inlines : BOOLEAN,
     with : Environments, given : Environments, binding : Names \cup {NoName},
     items : Lists \cup {<<>>}, at : Nat]

ForFrames == [kind : {"for"}, binding : Names, items : Lists, at : Nat]

NarrowFrames == [kind : {"narrow"}, name : Names]

\* Every variable has its type: the scope never holds an undefined value, and no
\* counter points beyond its slots.
TypeOK ==
    /\ frames \in Seq(FileFrames \cup ForFrames \cup NarrowFrames)
    /\ cached \in BOOLEAN
    /\ ctx \in Environments
    /\ layers \in Seq(Environments)
    /\ \A i \in DOMAIN metas : \E D \in SUBSET Names : metas[i] \in [D -> Nat]
    /\ loops \in Seq([name : Names, value : Values, meta : Nat])
    /\ nLayers \in 0..Len(layers) /\ Len(layers) = Len(metas)
    /\ nLoops \in 0..Len(loops)
    /\ consts \in Seq(Templates) /\ inlines \in Seq(Files) /\ decls \in Seq(Templates)
    /\ narrowed \in Seq(Names)
    /\ depth \in 0..MaxIncludeDepth

\* The place of k in S, and a stack that holds, in their order, the entries of the
\* calls that pushed on it.
Rank(S, k) == Cardinality({j \in S : j <= k})

Stacked(s, entry) ==
    /\ DOMAIN s = 1..Cardinality(DOMAIN entry)
    /\ \A k \in DOMAIN entry : s[Rank(DOMAIN entry, k)] = entry[k]

\* The calls that push on each of the stacks.
Fors     == {k \in DOMAIN frames : frames[k].kind = "for"}
Narrowing == {k \in DOMAIN frames : frames[k].kind = "narrow"}
Includes == {k \in DOMAIN frames : IsFile(k) /\ k > 1}
Layering == {k \in Includes :
                frames[k].binding # NoName \/ NeedsLayer(frames[k].tmpl, frames[k].with)}
Constant == {k \in DOMAIN frames : IsFile(k) /\ (k = 1 => DOMAIN Consts[frames[k].tmpl] # {})}
Inlining == {k \in DOMAIN frames : IsFile(k) /\ frames[k].inlines}
Declaring == {k \in DOMAIN frames : IsFile(k) /\ Params[frames[k].tmpl] # {}}

\* The scope holds exactly what the calls on the renderer's stack have pushed, in
\* their order: whatever a body opened and closed, nothing is left behind and
\* nothing of a caller's is gone.
ScopeMatchesCalls ==
    /\ TypeOK
    /\ nLayers = Cardinality(Layering)
    /\ Stacked([i \in 1..nLoops |-> loops[i].name], [k \in Fors |-> frames[k].binding])
    /\ Stacked(narrowed, [k \in Narrowing |-> frames[k].name])
    /\ Stacked(consts, [k \in Constant |-> frames[k].tmpl])
    /\ Stacked(inlines, [k \in Inlining |-> frames[k].tmpl])
    /\ Stacked(decls, [k \in Declaring |-> frames[k].tmpl])
    /\ depth = Cardinality(Includes)

\* The default of an iterated include's own binding overwrites the item.
DefaultWins(n) == n = Current.binding /\ n \in DOMAIN Defaults[Current.tmpl]

\* An argument with the value of one of the included template's constants, which is
\* what an argument gets whose text names such a constant.  (The frame does not keep
\* the text: an argument that has the value for another reason is excepted too.)
Captured(n) ==
    /\ n \in DOMAIN Current.given
    /\ Current.with[n] \in {Consts[Current.tmpl][c] : c \in DOMAIN Consts[Current.tmpl]}

\* Includes take their variables "with" or by iteration, and nothing is inherited
\* (include.rs:6-9): in every template, at every moment, a name it can see means
\* what its own text, or its caller's argument, says, unless a loop variable or a
\* constant of a calling template has that name (Scope::resolve finds it first), or
\* the include itself gave the name another value.
OnlyCallersShadow ==
    Rendering => \A n \in Visible :
        \/ Resolve(n) = Meaning(n)
        \/ CallersBind(n)
        \/ n \notin OwnLoops /\ (DefaultWins(n) \/ Captured(n))

\* idx(n) is the index of the innermost loop over n (scope.rs:237-241), in the
\* body of a for statement, in an included template that iterates, and in a body
\* to which an include has returned, unless an include that iterates over a name
\* n as well has written its index into the loop's binding.
IdxIsOwn ==
    Rendering =>
        /\ \A n \in OwnLoops \ IncludeNames :
              LET loop == frames[Innermost({k \in Own : n \in Bound(frames[k])})] IN
                  LoopMeta(n) = loop.at - 1
        /\ Current.binding \notin {NoName} \cup OwnLoops
              => \/ LoopMeta(Current.binding) = Current.at - 1
                 \/ CallersBind(Current.binding)

\* Inside a file, the inline templates are that file's (scope.rs:395-397,
\* SPEC.md:2302-2309), unless the file came from the cache, which drops them.
InlineTemplatesAreOwnUncached ==
    Rendering /\ ~cached => InlineFile = Owner[Current.tmpl]

\* Inside has(n) and case Some, and only there, an option of the current template
\* counts as unwrapped, unless a caller has narrowed an option of that name.
OptionsAsNarrowed ==
    Rendering =>
        \A n \in Options[Current.tmpl] :
            LET Narrows(k) == frames[k].kind = "narrow" /\ frames[k].name = n IN
            \/ \E k \in 1..Active - 1 : Narrows(k)
            \/ IsOption(n) = ~\E k \in Own : Narrows(k)
=============================================================================
