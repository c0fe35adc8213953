# md-tmpl: a verification project

TLA+ models of the parts of md-tmpl whose behaviour depends on order, sharing, failure
or on two pieces of code agreeing; the TLC runs that check them on small instances; and
TLAPS proofs of what matters most for every instance. Paths are relative to the
repository; `core/` is `crates/md-tmpl-core/src/` and `ts/` is
`crates/md-tmpl-typescript/src/`.

    tlc -workers 2 -config template_cache.cfg MCTemplateCache  # a run
    tlapm TemplateCacheProofs.tla                              # a module of proofs

PROJECT.json lists every run with its module, the properties it checks and what it
shows, the mutant of each property (a plausible bug that makes the property fail), the
source lines of every definition, the hazards the properties are for, and the theorems.

## 1. The system

md-tmpl renders typed Markdown templates. A template file has a frontmatter (parameters
with types and defaults, constants, imports, environment variables) and a body with
expressions, `for`, `if`, `match`, `include`, and inline templates. There are two
implementations of the language, in Rust and in TypeScript; Python, Go, C and
WebAssembly call the Rust one.

| Component | Source | State | Operations | Interacts with | Module |
|---|---|---|---|---|---|
| Compilation cache | `core/cache.rs` | two maps by canonical path behind a lock each, access stamps, a limit | load, load_with_frontmatter, resolve_include, clear, eviction | threads that share it; the files; the renderer | `TemplateCache` |
| Scope, renderer, includes | `core/scope.rs`, `core/compiled/render/*`, `core/include*.rs` | eight stacks: layers, loop metadata, loop bindings, constants, inline templates, declarations, narrowings, include depth | push/pop pairs, resolve, idx; for, if, match, include (four ways to find a template) | cache, file system | `RenderScope` |
| Template | `core/template/*`, `core/context.rs` | declarations, defaults, list of checked types behind a lock | construct, clone, validate, render in six ways | Scope; shared between threads | `CheckedRender` |
| Body compiler | `core/compiled/mod.rs`, `blockquote.rs`, `inline.rs`, `core/parser.rs` | none | text to tree | | `BodyCompiler` |
| Type checker | `core/compiled/type_check/*`, `core/types.rs` | an environment of narrowed types during one walk | check a body once, when compiling | decides what the renderer may meet | `TypeSoundness` |
| Conditions | `core/compiled/analysis.rs`, `render/condition.rs`; `ts/condition_validate.ts`, `evaluator.ts`, `direct_renderer/condition.ts`, `template/references.ts` | none | parse, check, evaluate, collect names | four readers of one text | `ConditionSyntax` |
| Frontmatter, imports | `core/frontmatter/*`, `core/template/mod.rs`, `analysis.rs` | names known so far, files visited | parse, resolve imports, check names | file system; results are baked into templates | `Frontmatter` |
| TypeScript engine | `ts/renderer.ts`, `ts/scope.ts`, `ts/direct_renderer/*`, `ts/template/*` | a scope per template being rendered; include caches | the language again, with two renderers | a file system provider | `ScriptRender`, `BrowserLoader` |
| Browser loader | `ts/browser/*` | a MemoryFs shared by everything on the page, its clock and missing paths | loadTemplate, renderAsync, render, clearCache | network, event loop, TypeScript engine | `BrowserLoader` |
| C interface, Go binding | `crates/md-tmpl-ffi`, `go/md_tmpl` | heap objects; pointers, finalizers, `sync.Once` per handle | constructors, uses, Close | Template, cache; goroutines, the collector | `GoHandles` |
| Facade, macros, serde | `crates/md-tmpl`, `crates/md-tmpl-macros`, `core/serde_support.rs`, `core/types.rs` | none | generate Rust types and code at build time; values to and from Rust values; check a value against its type | Template | `GeneratedTypes`, part of `CheckedRender` |
| Python, WebAssembly, Go generator | `crates/md-tmpl-python`, `-wasm`, `go/cmd` | that of the Rust objects they hold | conversions | Template | none |
| Benchmarks, scripts, tests | `benchmarks`, `scripts`, `ci`, `tests` | | | not part of the program | none |

What is hard in it:

* **Interleaving.** Loads of one file by several threads, with the file's editors and
  `clear()` between any two of the steps of each; render calls that share a template's
  list of checked types; in the browser calls, answers, synchronous renders and
  `clearCache()` between any two awaits; in Go Close and finalizers against calls.
* **Stale state.** Modification times that repeat or go back, hashes that say nothing
  about imports and environments, values that are not validated again, narrowings that
  outlive what they were about, slots that are reused.
* **Protocols.** Push and pop in mutually recursive functions on stacks that all
  templates of a render share.
* **Agreement.** The same thing computed twice by different code: the checker's narrowing
  and the renderer's unwrapping; the searches that divide a body; four readers of a
  condition; two TypeScript renderers; a file imported and the same file compiled; a value set by
  a generated setter, by serde and as a constant's literal.
* **Limits and partial failure.** Eviction, include depth, rounds of fetches; a file that
  goes or breaks between two steps, a fetch that fails in a round.

What makes each component correct: the cache cannot be told from having none, and keeps
its limit; the scope is after each construct what it was before it, and a name means what
the template's own text says; a template the checker accepts renders; a body's tree is the
one its tags say; a name in the frontmatter has one value wherever it is read; a value keeps its
meaning on every way between a Rust type and a template; the browser
loader fetches only what a call needs, and ends; a handle is not used after it is freed.
The hazards, each at its line, are in PROJECT.json; the properties are for them.

## 2. The modules

| Module | Role | Instance |
|---|---|---|
| `TemplateCache` | the cache of `core/cache.rs` | `MCTemplateCache` |
| `UncachedLoads` | the abstract specification: loads without a cache; `TemplateCache` implements it | |
| `TemplateCacheProofs`, `TemplateCacheLimitProofs` | theorems about `TemplateCache`: types, freshness, results and errors; the limit | |
| `TemplateCacheRefinementProofs` | `TemplateCache` implements `UncachedLoads` | |
| `RenderScope` | the scope of one render and the recursive renderer's use of it | `MCRenderScope` |
| `RenderScopeProofs` | theorems about `RenderScope` | |
| `BrowserLoader` | the browser's file system, fetch rounds and include caches | `MCBrowserLoader` |
| `BrowserLoaderProofs` | theorems about `BrowserLoader` | |
| `GoHandles` | handles of the Go binding over the C interface's ownership rules | `MCGoHandles` |
| `GoHandlesProofs` | theorems about `GoHandles` | |
| `CheckedRender` | templates shared by threads and the validation in front of rendering | `MCCheckedRender` |
| `CheckedRenderProofs` | theorems about `CheckedRender` | |
| `BodyCompiler` | from a body's text to its tree, against what the text means | `MCBodyCompiler` |
| `TypeSoundness` | the type checker and the renderer walking one template together | `MCTypeSoundness` |
| `Frontmatter` | compiling a frontmatter while its imports are edited | `MCFrontmatter` |
| `ConditionSyntax` | the four readers of a condition | `MCConditionSyntax` |
| `ScriptRender` | the two renderers of the TypeScript engine in lockstep | `MCScriptRender` |
| `ScriptRenderProofs` | theorems about `ScriptRender` | |
| `GeneratedTypes` | the Rust types of a template and every conversion of their values | `MCGeneratedTypes` |

The components share little state while they run, so the modules meet at interfaces: a
render gets includes from the cache through one call, which `RenderScope` models by how an
include was found; `BrowserLoader` drives the engine through attempts that find a file or
do not; `TypeSoundness` and `ConditionSyntax` put a checker next to what it vouches for in
one module, since what matters is that the two agree.

### TemplateCache

*State.* For each canonical file, whether it exists and the history of its contents; a
content stands for its hash and its compiled form. The two maps of `TemplateCache`,
and the clock behind `last_accessed`. For each thread a program counter and the locals
of `load_inner` or `resolve_include_impl`.

*Actions.* A step is what runs under one lock or makes one system call: canonicalize
(`Start`), stat, look up by time (`...Fast`), read, look up by hash (`...Check`),
compile, and evict-and-insert (`...Insert`). `clear()` is two steps, because it takes
the two locks one after the other. `WriteFile` and `DeleteFile` are the editors; a
version's modification time is `Mtime[version]`, which need not grow (`cp -p`) or be
distinct (coarse clocks). A template's `last_accessed` is read before the lock is taken
and an include's under it, as in the code. Eviction may remove any set of least recently
used entries of the right size: entries with equal stamps are not ordered by the code.

*Abstraction.* Frontmatter returned by `load_with_frontmatter` is part of the compiled
form. A poisoned lock is entered anyway, as the code does. Without a limit nothing
reads the stamps, so the clock stands still then.

*Properties.* `Fresh`: a call returns a content its file had while the call ran,
whatever other threads and editors do. It holds because the stat precedes the read and
because each write has a time of its own (`TimesAreDistinct`); the mutants stat late or
restat after reading or compare times by order. `FreshInv` is why (section 4): an entry's content
is never older than its modification time. `OwnContext`: no compilation is handed out to another environment,
and a load resolves includes from its own caller's directory even if another spelling
of the path filled the entry. `WithinLimit` and `EvictionIsOrderly`: the limit, which
entries go, and how many. `ErrorHasCause`: an error comes from the file as it was
during the call, a content of that time that does not compile or an absence at some moment of
it (`gone`, a history). `Transparent`: `TemplateCache` implements `UncachedLoads`.

`UncachedLoads` has no maps, times or hashes: a call starts, reads its file at one
moment, and returns. It names the two exceptions the cache has: an include keeps the
base directory of the call that compiled it, and an include whose file was gone at some moment
of the call may fail its stat, shares the epoch with all such calls then and may get an older
content.

### RenderScope

*State.* The renderer's call stack (`frames`, a history of what is being rendered) next
to the stacks of `Scope`, slots that are no longer active included: popping lowers a
counter, pushing reuses the slot.

*Actions.* Begin and end of a render; `EnterFor`, `NextItem`, `ExitFor`; `EnterIfHas`,
`EnterCaseSome`, `ExitNarrowed`; `Include`, `IteratedInclude`, `NextInclude`,
`ExitInclude` for the four ways an include finds its template (an inline template, a
template value, the cache, the disk: `Finds`), which differ in what they push; `Fail`,
the `?` that drops the scope. A template's text is not modelled: a body opens and closes
any constructs in any order that the language allows, so that all texts with these
constructs are covered up to the bound.

*Abstraction.* Values are opaque; text, expressions, dotted paths, imported constants and
environment values are left out. An empty list leaves the scope alone and is left out.
The static analysis is not relied on: it sees no inline template and no included file,
and templates that the cache loads are not analysed at all (`core/cache.rs` 421-444
compiles without it, `core/template/mod.rs` 390 and 452 with it).

*Properties.* `ScopeMatchesCalls`: the stacks hold exactly what the calls on the
renderer's stack pushed, in order, and counters stay within their slots.
`OnlyCallersShadow`: a name means what the template's own text or its caller's argument
says, unless a loop variable or a constant of a calling template has that name, or the
include itself captured or overwrote it (`Captured`, `DefaultWins`; section 5). `IdxIsOwn`:
`idx(n)` counts the innermost loop over n, also after an include has returned, for names
that no include iterates over (section 5).
`InlineTemplatesAreOwnUncached`: a file's inline templates are its own in renders without
a cache. `OptionsAsNarrowed`: an option counts as unwrapped inside `has(n)` and
`case Some` and nowhere else, unless a caller narrowed that name.

### BrowserLoader

*State.* What the server has; MemoryFs (files with modification times, the clock, the
missing paths); each template object's compiled includes with the constants they
imported; and for each asynchronous call its round, what it still fetches and what has
been answered. A source is an origin and a version, and stands for its hash.

*Actions.* A JavaScript turn is one step. `Begin...` and `NextRound` contain the whole
attempt, from `clearMissing` to `takeMissing`, because there is no await in between;
`Answer` is the response or its failure, `Write` the arrival of the body, and a round ends
when all its files are written (`Promise.all`). `SyncRender` is a render outside of any
round, which compiles includes and may leave missing paths behind. `ClearCache` keeps the
clock, as the code does. `Publish` changes a file on the server. An attempt stops at the
first absent file, so it records one.

*Abstraction.* A template object is loaded once per page; its own text does not change
after that, as in the code. Which includes a render reaches is chosen from a few sets.
Environment values and `TemplateCache` objects shared between templates are left out.

*Properties.* `OnlyOwnFetches`: a call fetches only paths it may reach itself, though all
calls share one record of missing paths. `IncludesCurrent`: equal modification times
mean equal sources, through evictions and late writes; this is what the clock that
survives `clear()` is for. `RoundsBounded`: no more rounds than files, and as many again
for each `clearCache()` meanwhile: `maxRounds` is a backstop and not the reason calls
end. `Settles`: every call ends.

### GoHandles

*State.* Per handle: the Go pointer, its `closeOnce`, whether the finalizer is still armed,
and the Rust object (none, live, freed). Per goroutine, and for the one that runs
finalizers: the handles its variables refer to and the method it is in, with its place.

*Actions.* `Construct` and the methods that make an object (`Load`, `DefaultsContext`) go
through `NewHandle`, which arms the finalizer. A method is several steps, as in the code:
the nil checks one argument after the other (`CheckOpen`), the evaluation of the pointers
for the C call (`EnterC`), the return (`LeaveC`). Close is `OnceDo`, `FreeNative`,
`ClearPtr`. `Share` hands a handle to another goroutine, `Forget` is its last mention,
`Finalize` the collector's.

*Assumption.* A context stays with the goroutine that made it (md_tmpl.go 207 asks for that).
Apart from it the program is free: it closes handles that others use, drops its last variable
while a call runs, and changes the include depth of a shared template. `raced` is a history:
the handles of a method that a goroutine's Close was freeing at some moment of the method.

*Properties.* `OwnershipKept`: what md-tmpl-ffi asks of its caller, and how far it gets it. No C
call runs with a freed object (`NoUseAfterFree`), in two cases excepted: the program's own Close
met the method (`raced`), or no variable refers to the handle any more (`Abandoned`; there is no
`runtime.KeepAlive`, so the finalizer may run under the call). Both are needed, and nothing
else is: however Close and the collector meet a method before its C call, they do not get the
object from under it. However many goroutines and the finalizer
close a handle, one frees it, before the pointer is cleared (`FreedOnce`); what changes an
object in place runs with nobody else inside it (`NoAliasedWrite`), except that
SetMaxIncludeDepth takes no lock (section 5); a method that begins
after a Close returned does not reach the library (`ClosedStaysClosed`). `NothingLeaks`: a
live object that nobody can reach still has its finalizer. `ClosesReturn`: closing is never
stuck in `closeOnce`.

### CheckedRender

*State.* Places for Template values with their declarations and `checked_type_ids`, and
for each thread the render call it is in. `passed` is a history: the host types of which a
value has passed validation on this object or on one it was cloned from.

*Actions.* `Load` (every constructor), `Clone`, `Drop`; the entry points `RenderTyped`,
`RenderCtx` (with and without extra names), `RenderCtxUnchecked`, `RenderEmpty`,
`RenderReloaded` (a generated struct), `RenderPrevalidated`; and a call's steps, with the
lock taken twice: `LockContains`, `Validate`, `LockPush`, `RenderCore`.

*Abstraction.* A value is its kind; a type the set of kinds it accepts. A host type is the
set of contexts its values serialize to (`Contexts`, for `render::<T>`); a generated struct is
also the set of contexts its `to_context` builds (`Built`), which are others where it has a
`struct(...)` parameter.

*Properties.* `SkipIsEarned`: validation is skipped for a host type only if a value of it
has passed, through clones, reloads and threads that race. `UnvalidatedConform`: a context
that is rendered unvalidated conforms all the same if its host type has one shape; and so does
the `to_context` of a generated struct if the program compared the declarations before, up to
the parameters for which the generated setters do not keep the declared type (`Loose`; section
5). `ValidatedIsComplete`: after validation and the
injection of defaults the body finds every parameter, with a value of its type.

### BodyCompiler

*State.* A text, line by line (`AddLine`), with what the compiler makes of it and what it
means. A line is whether it has the blockquote prefix, and its tokens.

*The compiler* (`Compile`): the check and the stripping of prefixes (`ValidateBlockquotes`,
`StripLine`), the inline templates cut out (`ExtractInline`), and `CompileBody`, which finds
a block's end by counting tags of its kind (`FindClosing`) and cuts its body at elif, else or
case tags by counting others (`SplitElifChain`, `SplitForElse`, `SplitArms`).

*The meaning* (`Meaning`): the language's rules read from left to right with a stack of open
blocks. It knows nothing of the searches, and is the reference definition.

*Property.* `ReadAsMeant` has two halves. `SameTree`: what the compiler accepts is well formed,
and the tree is the one it means, with every line break but one kind, `LostBreak`: the line
break next after a closing tag or after the tag that begins an inline template is in the meaning
and not in the tree (section 5). `Accepts`: what is well formed
compiles, except an else hidden from the searches by a block around it (`Hidden`) and tags
inside raw blocks.

### TypeSoundness

*State.* The blocks open in a template, the checker's environment of narrowed types, and the
renderer's loop bindings and unwrapped options; `live` says whether the renderer is in this
branch. The checker walks every branch, the renderer one; both share each step.

*Actions.* One per tag: `If`, `Elif`, `IfElse`, `For`, `ForElse`, `Match`, `MatchElse`,
`Case`, `CaseElse`, `Close`. A tag is read if the checker accepts it. Since leaving a block
restores what it changed (checked: `BlocksRestore`), nests of a bounded depth stand for
templates of any length.

*Properties.* `NarrowingsLast`: while a branch is rendered, each narrowed path holds a value
of its narrowed type, and when all blocks are closed nothing is narrowed, bound or unwrapped.
`AcceptedRenders`: what the checker accepts evaluates without an error and is of the kind the
checker took it for. `ExhaustiveMatchRenders`: a match accepted as exhaustive renders an arm.
Each excepts the paths at which checker and renderer are known to part: `Ambiguous`,
`BehindGuard`, `StillWrapped`, `ThroughOption`, `NamesVariant`, `UnwrapsInside`; every one is
an entry of section 5.

*Abstraction.* Included templates, labels of scalar matches, comparison operands, filters and
opaque imported types are left out; a field has one type in all variants of an enum (the
checker takes the last variant's, section 5).

### Frontmatter

*State.* The files, the compilation's source and environment, its phase, what each phase has
made known (`preamble`, `inPaths`, `namespaces`), and the files as they were when each was
read (`seen`, a history).

*Actions.* `ParseHead` (types, environment, a first reading of the constants),
`ResolveImport` (one file, read and parsed alone), `Compile` (constants again, parameters,
the rules on names, the static analysis), and `Edit`: another program writes the files.

*Properties.* `ImportedAsCompiled`: what is imported from a file is what the file has when it
is compiled itself. `PathsAsConstants`: the constants in an import's path are those the
template renders with, though paths are read before the constants are. `DefaultsAsNamed`: a
default that names a constant is the value that name has in the body. `NamesCanBeRead`: a name
of an accepted body stands for one thing and shows it, though types are implied after the rules
on names were checked. They speak of a file as it was when it was read; what `Edit` adds is
compilations that no one state of the files explains. Exceptions are named: `GivenElsewhere`,
`DropsItems`, `DuplicateStem`, `Shared`.

*Abstraction.* YAML text, floats, `tmpl` types, inline templates' parent aliases, imported
types used as opaque roots, relative base directories and expressions inside a path's text
are left out.

### ConditionSyntax

*State.* The words of a condition, written phrase by phrase (`Write`), and, once a compiler has
accepted it (`Render`), the arguments of a render. Every word sequence up to the bound is a
state, well formed or not.

*Operators.* The core's parser, which cuts text at operators (`ParseOr`), its type check and
evaluation; the TypeScript port of that parser (`ValidateOrExpr`); the evaluator that parses
as it evaluates and must skip what a short circuit leaves out (`EvaluateCondition`), again for
plain values (`EvaluateDirectCondition`); and the collector of names
(`ExtractConditionVariables`).

*Properties.* `OneSyntax`: TypeScript constructs a template with the conditions the core
compiles (`PortAccepts`), a condition both were constructed with is never malformed when it
renders, whichever operands are skipped (`CompiledEvaluates`), and both languages find the same
names in it (`ReferencesAgree`). `OneVerdict`: the core and both TypeScript evaluators agree on
its truth. The exceptions are named: `Uncounted`, `Unread`, `NamesLabel`, `BarredSubject`,
`Garbled`, `Apart`. Among the words are none of the core's functions and filters.

### ScriptRender

*State.* The stack of templates being rendered; a frame has the scope of the recursive
renderer, that of the direct one, the blocks open in the body, and `own`, a history of what
the template was given. `parted` is the node at which the renderers took different branches.

*Actions.* The nodes: `For`, `NextItem`, `CloseFor`, `IfHas`, `Match`, `CloseBlock`,
`Include`, `EnterIncluded`, `CloseInclude`, `EndBody`. Any node the grammar and the static
checks allow may come next. Text leaves no trace; what it would show is compared by the
invariants.

*Assumptions*: what names a template names one (`UnitsAreWhole`); the values of options are of
their type (`OptionsAreTyped`; type_check.ts, literals.ts); in the template that is rendered no
parameter is a constant (`ParamsAreNoConsts`, ts/validation.ts 330). In a template that was
compiled no loop binds a declared name (`BindingIsNew`, ts/validation.ts 501). Files that are
only included are not validated, so there a parameter, a value passed or a loop's item may have
the name of a constant. No parameter, constant, binding or `with` key is called Some
(`LabelsAreNoNames`). The code reserves the word for declarations only (ts/validation.ts 50); a
loop or a `with` clause that uses it is left out.

*Properties.* `OwnScope`: a template's names, options and loop indices are its own, unless an
includer has a value of that name (`Leaked`) or a constant takes that of a loop's item
(`BoundConsts`). `SameText`: while the renderers take the same branches, the direct one shows
the same, wherever no name of the template or of those around it is hidden (`SomeNameHidden`).
`SameBranches`: they take the same branches, but for the cases named in `Known`.
`OwnIncludes`: a relative path is resolved where the include is written. `NothingLeaks`
(run `script_leak`) is what SPEC.md says, and does not hold.

### GeneratedTypes

*State.* A template's declarations, a value of the struct generated for it (or of a hand-written
type with plain serde derives, `style`), the template value made of it or received from
elsewhere (`wire`), and what the last call returned.

*Actions.* The ways a value may go: `ToContext` (the generated setters), `ToValue` (serde),
`Receive` (a value of another program that differs in one place), `CheckType` and `CheckInline`
(the check against the declared type, and of a template passed as an argument), `FromValue`,
`EmbedConst` (the literal the macro writes for a constant) and `ReadName` (`from_str`).

*Operators.* `SetIn` follows the code a setter expands to, with the context each nested setter
writes to; `Serialized` and `Decoded` the serde implementations, `Decoded` as the set of what may
be returned, since the entries of a map come in hash order; `CheckFast` and `CheckInner` the two
checks; `Idents` the names of variants, which are numbered when they collide; `Compiles` which
types rustc accepts.

*Properties.* `ContextConforms`: what a setter sets is what serde gives and has the declared type.
`RoundTrips`: what is read back is what was sent. `ConstantsAsDeclared`: a literal denotes the
constant. `VerdictsAgree`: the fast check and the one that reports agree, the reported path leads
to the mismatch, and what passes can be read. `Denotes` says, independently of the code, that a
Rust value is a reading of a template value. The exceptions are `Spilled`, `HoldsStruct`, `Kept`,
`Unreadable`, `NoLiteral` and `NumberedVariants`, each an entry of section 5.

*Abstraction.* A variant's name has its identifier and its lower case as constants; Rust names
are kept apart by their declared names (`make_ident` and serde's renaming agree on them); a list
of structs is `list(field = ..)`. Tuples, integer widths, error texts and builders are left out.

## 3. The runs

| Run | Question | Bounds |
|---|---|---|
| `template_cache` | the properties of `TemplateCache`; it implements `UncachedLoads` | 2 threads, a limit of 2, 3 files, the first under 2 names and 2 environments; one is edited (2 versions, the second with an older time than the first) and may break, one is deleted; `clear()` at any time; calls start until the clock shows 2 |
| `scope_names` | the properties of `RenderScope` | 2 files with an inline template each, 3 names, 2 values, 4 nested constructs, include depth 2 |
| `browser_loads` | the properties of `BrowserLoader` | 2 calls at a time, one template, 2 partials (one missing on the server), 3 versions of the other, the second of which does not parse, one `clearCache()`, 2 retries |
| `go_handles` | the properties of `GoHandles` | 2 goroutines and the collector; a template, a context and a cache |
| `checked_render` | the properties of `CheckedRender` | 2 threads, 2 template objects, 3 versions of a file; a type of one shape, a generated struct of two (one of its contexts is the hollow one of `Loose`) and a type that is no struct |
| `body_compiler` | the properties of `BodyCompiler` | all texts of up to 5 lines (4 if they are not well formed) of 21 shapes: blank, prose, every tag on its own line, a closing tag behind and in front of prose, whole blocks in a line |
| `type_soundness` | the properties of `TypeSoundness` | 2 open blocks, one negated condition carried to an elif; enums, options of strings and enums, lists, a struct |
| `frontmatter` | the properties of `Frontmatter` | 2 directories and 3 files in 6 arrangements, one edit; sources of up to two imports, in two families (paths and constants; types and names) |
| `condition_syntax` | the properties of `ConditionSyntax` | 5 phrases of 20, a misplaced one counting twice; a boolean, a text, an enum, an option; 3 assignments |
| `script_render` | the properties of `ScriptRender` | 3 open blocks in all bodies, include depth 2, two loop bindings, one with the name of a constant, 3 renders whose options are absent, empty, the text None or another text |
| `script_leak` | `NothingLeaks` is violated: a value of the includer hides a parameter of the same name | as `script_render`, one loop binding |
| `generated_types` | the properties of `GeneratedTypes` | 12 templates with types nested up to three deep, 3 texts (two of which some reader takes for none), lists of up to 2 items, 5 templates as arguments |

Why these bounds are enough to show what can go wrong. Cache: a race needs one call that is
overtaken, one that overtakes it, and a third that then reads the entry; threads run call
after call, so two threads supply it; one edit is what comes between a stat and a read, and
its older time is what a comparison by order would miss. More versions and a longer clock
leave the five minutes a run may take; the theorems hold for all of them. A limit of two is the smallest at which an eviction chooses,
and three files fill it. Symmetric threads (and contents, where all of them compile) are
interchangeable; no liveness is checked under symmetry. Scope: four frames allow an
include in a loop in an include, and recursion of a file into itself. Browser: both orders
of two calls around a `clearCache()`, and every stage of a call at which a synchronous render
may come in between. Go: two closers, or a closer and the finalizer, and a third goroutine
inside a call. Checked render: a type noted by one thread while the other validates, a clone
taken between, and a reload into the same place. Bodies: five lines hold a block inside a
block with a split at each level. Types: two blocks narrow one path twice or two paths, and a
block that is left returns to a state the walk has been in. Frontmatter: two imports are what
it takes for one to depend on the other, and one edit for the files to differ between them.
Conditions: five phrases reach a group next to an operator that short-circuits. Script: three
blocks allow an include inside a loop or a Some arm, and a block in the included body. Generated
types: the conversions treat each type by what is directly in it, so three levels put every kind
inside every other that treats it apart. All mutants fail within these bounds.

*Deadlock* is checked where the system never stops: in the cache, the scope, the browser,
`checked_render` and `type_soundness`, calls or blocks can always begin again. The others may
end: a Go program that closed its handles, a compiled frontmatter, a rendered template; in
`body_compiler` and `condition_syntax` the text has reached its bound or is rendered, and in `generated_types`
the call has returned.

*Fairness.* `BrowserLoader` assumes, for `Settles`, that the event loop runs a continuation
that is ready (`NextRound`, `Write`) and that the network answers or fails (`Answer`); a
fetch that never settles would hang the call in the code too, which sets no timeout.
`GoHandles` assumes, for `ClosesReturn`, that a goroutine inside Close is scheduled and that the
C call that frees returns; nothing obliges other calls to return, the program to call Close or
the collector to run. The other modules promise
nothing about progress, and have no fairness.

## 4. The proofs

Each theorem holds for every value of the constants under the assumptions that its module
declares, which TLC evaluates in every run. Three kinds of assumption are there: what the
constants are (`Canonical` maps paths to files; a list is not empty; an absent value, `Nil`,
is no record); what the code or the language guarantees (a template's constants are no
parameters, an inline template has one owner); and that sets the code keeps finite are finite.

**The cache**, for every number of threads, files, contents, writes and limits:

| Theorem | Statement | Rests on |
|---|---|---|
| `TypeCorrect` | `Spec => []TypeOK` | one case per action; what touching and inserting do to a map |
| `HistoriesBacked` | `Spec => []FreshInv` | `TypeOK` |
| `CacheIsFresh` | `TimesAreDistinct` implies `Spec => []Fresh` | `FreshInv` |
| `StaysWithinLimit` | if the limit is two or more, `Spec => []WithinLimit` | `EvictCountValue`, cardinality lemmas |
| `EvictsInOrder` | `Spec => EvictionIsOrderly` | the maps are finite; `EvictCountValue` |
| `ResultsAreForTheCall` | `Spec => []OwnContext` | `TypeOK` |
| `ErrorsHaveCauses` | `Spec => []ErrorHasCause` | `FreshInv`, `AbsenceIsMet` |
| `CacheIsTransparent` | `TimesAreDistinct` implies `Spec => Transparent` | `FreshInv`, `TransparentInv` |

`Fresh` speaks of a call that returns and is not inductive: on the fast path the call
returns the content of an entry that it did not read. What carries it is `FreshInv`.
`Backed(f, c, m)` says that content c was on disk at a version no earlier than one that
had time m. Every entry is backed; and a call in progress has, in its window of versions,
a version with the time it saw and, no earlier, a version with the content it read,
because it stats before it reads. So an insertion is backed, and so is an entry whose
time is moved after its hash matched. If times are distinct, an entry whose time is the
file's at some moment of the call has the content of that moment or a later one, which is
`Fresh`. Histories only grow, so what is backed stays backed.

`StaysWithinLimit` shows that each eviction makes room before the insertion: from n
entries with n at most the limit, `EvictCount(n)` go and at most the limit remain with the
new one. The assumption that the limit is two or more is needed: section 5. `EvictsInOrder`
needs none: it is an action property, of whatever steps interleave with an insertion.

`CacheIsTransparent` is the refinement: the abstract variables are expressions over the
concrete ones, each step is shown to be a step of `UncachedLoads` or a stutter, one lemma per
group of actions (the call starts, finds, reads, inserts, returns, fails). The step that
matters is the return, where the abstract loader must be able to read what the cache
returned at one moment of the call: with distinct times that is what `FreshInv` gives, and
without a stat (`StatExcused`) it is that even such an entry holds a content its file once had
(`EntriesHeld`). A call that fails to find its file has met its absence (`AbsenceIsMet`): it was
gone when the call began, or was deleted under it. That is `TransparentInv`; and that threads which run no call hold none (`Quiet`).

**The scope**, for any templates, names, lists, include depth and nesting:

| Theorem | Statement | Rests on |
|---|---|---|
| `ScopeInvHolds` | `Spec => []ScopeInv` | one lemma per action, lemmas about `Stacked` |
| `PushesAndPopsMatch` | `Spec => []ScopeMatchesCalls` | `ScopeInv` |
| `NothingElseShadows` | `Spec => []OnlyCallersShadow` | `ScopeInv`, `Resolves` |
| `IndexesAreOwn` | `Spec => []IdxIsOwn` | `ScopeInv`, `LoopLookup` |
| `InlineTemplatesAreOwn` | `Spec => []InlineTemplatesAreOwnUncached` | `ScopeInv`, `InlineFileIs` |
| `NarrowingsAreKept` | `Spec => []OptionsAsNarrowed` | `ScopeInv`, `NarrowLookup`, `DeclLookup` |

`ScopeMatchesCalls` says which names are on the stacks, and that is not inductive for the
others: it does not say what values a layer has. `ScopeInv` does (`Stacks`): the k-th entry of
each stack is what the k-th of the calls that push on it has pushed, with its value, its
layer and, unless an include has overwritten it, its index (`LoopIndexes`, `IncludeIndexes`).
`Stacked` states it without recursion: the entry of a call is at the call's `Rank` among those
that push. From there the proof is in two halves. Forwards, what a step does to the
calls is one more, one less, or the next item of the last (`OneMore`, `OneNext`), each of the six
stacks either grows with it or stays (`Grows`), and one lemma for each of push, pop and replace
covers all. Backwards, the largest place of a stack that holds a name belongs to the last call
that pushed it (`StackHolders`), so that `Resolve`, `LoopMeta`, `IsOption` and `InlineFile`
become statements about calls (`Resolves`), where `Meaning` is one as well. Two facts about
templates complete the invariant: an argument is what its text means or a constant of the
included template (`Frames`), since it is evaluated when that template's constants are already
pushed; and the file that a template's text is in has been entered before it, in a render without
a cache as the last that brought inline templates (`Owners`). That a name a template sees
always resolves (`VisibleResolves`) is part of the induction: the layer of an include is typed only
if the arguments are values.

**Shared templates**, for every number of threads, objects, files, types and contexts:

| Theorem | Statement | Rests on |
|---|---|---|
| `SkipsAreEarned` | `Spec => []SkipIsEarned` | `RenderInv` |
| `ValidatedRendersComplete` | `Spec => []ValidatedIsComplete` | `RenderInv` |
| `UnvalidatedRendersConform` | `Spec => []UnvalidatedConform` | `RenderInv` |

`RenderInv` says of a template that what is on its list has passed, and that all contexts of a
type of one shape that has passed conform to its declarations (`TemplateOK`); and of a call what
it has established so far, by its place (`CallOK`). A call between its two locks knows things
about an object that others change; they stay true because what passes only grows and no
declarations change while an object lives, and a call keeps its object alive.
`GeneratedAssumption` is about generated structs: `to_context` sets every parameter, and to a
value of the declared type but for those in `Loose`, which are the parameters with a struct in
their type (other than as the row of a list), those that have the name of a field of a
`struct(...)` parameter, and the templates. `ContextConforms` of `GeneratedTypes` is the same
statement about the setters, checked by TLC with the same exceptions. `UnvalidatedConform`
leaves the loose parameters out; about types of one shape nothing is assumed.

**The browser loader**, for every number of calls, templates, partials, versions and
`clearCache()` calls:

| Theorem | Statement | Rests on |
|---|---|---|
| `CompiledIncludesAreCurrent` | `Spec => []IncludesCurrent` | `TypeOK` |
| `FetchesAreOwn` | `Spec => []OnlyOwnFetches` | `RoundsInv` |
| `RoundsAreBounded` | `Spec => []RoundsBounded` | `RoundsInv` |

`IncludesCurrent` is inductive with the types: the clock exceeds every time that is stored or
compiled, so that a write gets a time nobody has. `RoundsInv` counts: a call that waits in round
r has found r files or more of those it may reach since it began, or since the last
`clearCache()`, with the one it waits for; a clear takes them away and adds as many rounds to its
allowance (`Quota`). Only here the finiteness of the set of paths is used.

**Handles**, for every number of goroutines and handles:

| Theorem | Statement | Rests on |
|---|---|---|
| `NoLeak` | `Spec => []NothingLeaks` | `LivesInOrder` |
| `FreesOnce` | `Spec => []FreedOnce` | `LivesInOrder` |
| `KeepsOwnership` | `Spec => []OwnershipKept`, whatever the program closes, drops and shares | `LivesInOrder`, `FreesOnce`, `StaysClosed`, and the invariant `Conduct` |

`LivesInOrder` is the invariant of the handles. `Stage(h)` ties a handle's
pointer, closeOnce and object together (not run: the object lives; running: the pointer is
still set and somebody is past closeOnce; done: freed and nil), `Closer` says that who is past
closeOnce is alone there, and `Attended` that a live object is armed or being closed: a
finalizer that is disarmed has begun its Close, and only a free ends one. `Conduct` follows
what can free an object under a call. `RacesSeen`: if a goroutine frees a handle that a method
uses, the method's `raced` has it. `Finalized`: a handle whose finalizer has run is referred to
by no variable, for good, and who is in a method of it is already in the C call; so a method that
is yet to evaluate its pointers (`EnterC`) cannot meet the finalizer, and by `Stage` a pointer it
finds set has a live object or a Close in `raced` (`UseStep`). `ContextsAreOwn`: one goroutine
touches a context, which is `NoAliasedWrite`.

**The TypeScript renderers**, for any templates, values, calls, lists, nesting and depth of
includes:

| Theorem | Statement | Rests on |
|---|---|---|
| `ScriptInvHolds` | `Spec => []ScriptInv` | one lemma per action, `TopKept`, `EnteredStep` |
| `ScopeIsOwn` | `Spec => []OwnScope` | `ScriptInv`, `SeesOwn`, `NarrowedIs` |
| `IncludesAreOwn` | `Spec => []OwnIncludes` | `ScriptInv` |
| `TextInvHolds` | `Spec => []TextInv` | `ScriptInv`, one lemma per action, `TextTopKept`, `TextPush` |
| `TextIsSame` | `Spec => []SameText` | `TextInv`, `ShowsSame` |
| `BranchesAreSame` | `Spec => SameBranches` | `TextInv`, one lemma per node, `NextParts` |

`OwnScope` speaks of the innermost template and is not inductive: leaving an include brings back
a scope that it says nothing about. `ScriptInv` says it of every frame (`FrameInv`), and more: which
layer belongs to which open block and what is in it (`Layering`), that a template's constants are
its own or come from an includer under a name that `Leaked` has (`Own`), that every value a scope
shows is one and that the label Some resolves to none (`Whole`), and, while the renderers have not
parted, that the direct scope has the same directory and indices and that no template value has been
reached (`InStep`). What depends on the templates around a frame (`Leaked`, `OptionsSeen`, `OwnDir`,
`OwnInlines`) changes only when one is entered: `OuterKept` shows the rest, `OneInside` that case. So
a step is shown for the innermost frame alone, as a relation between two frames (`PushedShape`,
`ClosedShape`, `NextShape`, `GoingOn`), and `TopKept` carries the others along. That an option of
the template is unwrapped in the Some arm only when it is present (`SomeArm`) needs that no string
variable is called Some.

`SameText` compares the innermost template only, and under its names only. `TextInv` sets the two
scopes of every frame beside each other for as long as the renderers have not parted. `Beside`:
the direct scope has the template's own constants, the depth of the recursive one, and above its
bottom layer one layer for every open loop, in their order and with its current item; an include
that is gone over reaches the same template for both. `Fits`: options were given values of their
type, so that `has()` and a match read them alike, except for two texts (`TakenForNone`). `Gives`: what lies at the bottom shows as what
the template was given, where an option that was not passed is undefined for one and absent for
the other. `Gives` is claimed only below frames whose names are not hidden (`Clear`), because an
include maps what the includer *sees*. The induction then follows that of `ScriptInv`:
`TextTopKept` carries the outer frames along, `TextPush` opens an include, and the other actions
change the blocks of the innermost frame. `ShowsSame` takes it from there: under every name both
renderers find the item of the same loop, or the bottom, or the same constant. `BranchesAreSame`
goes node by node: what each renderer reads there is the same by `ShowsSame`, so if they part, one
of the cases of `Known` holds. The proof is what found three of these cases (section 5), and it
needs no assumption on which names a call passes.

The inductive invariants `ScopeInv`, `ScriptInv`, `TextInv`, `RenderInv`, `RoundsInv`, `TransparentInv` and
`FreshInv` have been checked by TLC on instances like those of the runs before they were proved.

*Model-checked only.* `Settles` and `ClosesReturn` are liveness under fairness.
`BodyCompiler`, `TypeSoundness`, `Frontmatter`, `ConditionSyntax` and `GeneratedTypes` follow
recursive data (trees, types, texts) with RECURSIVE operators, where a proof is an induction
over data.

## 5. Where documents and code part

One disagreement has a run and is a finding in PROJECT.json: `script_leak`. The others were
met while modelling; where one would make a property fail, the property excepts exactly this
case by a named definition, and the text here says what it is about.

*Cache and loader.*
* `with_max_entries(1)` holds two entries: an eviction keeps at least one (`core/cache.rs`
  618-639 against 179, 275). `StaysWithinLimit` is proved from two up.
* A load in flight when `clear()` runs brings back what it read before, and if the update kept
  the modification time later loads believe it; the browser's form is a late write after
  `clearCache()` (`ts/browser/load.ts` 108).
* Recompiling a cached template in a full map evicts another entry although the map does not
  grow (`core/cache.rs` 451 against 277-278); `EvictionIsOrderly` allows it.
* After `clearCache()` an unchanged include keeps the constants it imported
  (`ts/template/includes.ts` 57 against `load.ts` 267-269); `MemoryFs` is keyed by path, so
  that two origins share a file (`load.ts` 302); `ts/template/cache.ts` 60 evicts the entry
  inserted first, not the one used least recently.
* A cached entry does not notice that a file it imports has changed (`core/cache.rs` 560).

*Scope* (`OnlyCallersShadow`, `IdxIsOwn`, `InlineTemplatesAreOwnUncached`).
* A caller's loop variable or constant hides an argument of the same name (`CallersBind`), a
  constant of the included template captures a name in the caller's `with` clause
  (`Captured`), and in an iterated include the default of the binding overwrites the item
  (`DefaultWins`).
* An include that iterates over a name n writes its index into a loop binding of that name if
  there is one, its own includer's or any caller's (`core/scope.rs` 216-235), so that after it
  `idx(n)` in the loop's body is the include's last index (SPEC.md:1356 says each loop variable
  is tracked independently). `IdxIsOwn` speaks of names that no include iterates over.
* In a render with a cache an included file sees the including file's inline templates instead
  of its own (SPEC.md:2302-2309).

*Validation and Go.*
* `render::<T>` skips validation once one value of T has passed, though values of one type may
  have different shapes (`core/template/render_methods.rs` 310-311, `mod.rs` 173-174);
  `UnvalidatedConform` speaks of types with one shape.
* A program that has called `validate_declarations` and renders the `to_context` of a generated
  struct unchecked, as the doc of `render_ctx_unchecked` suggests
  (`core/template/render_methods.rs` 187-188), renders an empty struct where the type has a
  `struct(...)` parameter (`Loose`; *Generated types* below).
* `pt_template_validate_declarations` compares declarations in order (`ffi` template.rs 459),
  `validate_declarations` by name; `Context.Set` turns large unsigned values negative
  (`go/md_tmpl/context_cache.go` 263).
* No method calls `runtime.KeepAlive`, so that a finalizer may free an object during its last
  call (`Abandoned`). Close frees an object that a method of another goroutine has checked or is
  inside of (`raced`; `ptr` is read and cleared without a lock, though a Template is said to be
  safe for concurrent use, `go/md_tmpl/md_tmpl.go` 197). SetMaxIncludeDepth changes a template in
  place while others render it, against the same line (excepted in `NoAliasedWrite`).

*Bodies* (`Hidden`, `tagInRaw`, `LostBreak`).
* `split_elif_chain` counts only ifs, so the else of a for or match inside an if is taken for
  the if's (SPEC.md:1500); `split_for_else` misses matches.
* The searches do not skip raw blocks; `find_closing_block` counts nested raw tags while
  `inline.rs` 146 says raw blocks do not nest; trim markers on else and closing tags have no
  effect.
* A newline after any closing tag is dropped, at the end of a line of prose too, though
  `parser.rs` 190-191 says it is if the tag is standalone; and after a standalone one the
  stripping of blank lines has already taken the one newline that SPEC.md:564-565 gives away, so
  that of N blank lines N-2 are left instead of N-1 (`LostBreak`). The same goes for the tag that
  begins an inline template.

*Types.*
* Arms with a guard count as covered (README.md:77), so that the else arm is narrowed wrongly
  (`BehindGuard`). Narrowings are kept by path text and survive a for that rebinds the root
  (`Ambiguous`). `&&` chains, a later elif, and a `!has` that is not the first condition narrow
  in the checker and do not unwrap in the renderer (SPEC.md:1913; `StillWrapped`,
  `UnwrapsInside`). A field through an optional struct has the struct's declared type
  (`ThroughOption`); a variant's name passes for a field (`NamesVariant`).
* An unquoted label of an enum or option match also matches when a variable of its name holds
  the active variant as a string (`render/matching.rs` 135-140; SPEC.md:1733-1735 calls such
  labels type identifiers): with a parameter `A = "C"` the arm A is rendered for C, though the
  checker has narrowed its body to A (`LabelIsVariable`).
* A field of an enum takes the last variant's type. `check_bare_enum_access` and
  `validate_for_bindings` skip for-else bodies (`template/analysis.rs` 90, 371). An else alone
  in a match on an option does not narrow. `types.rs` 96-106 says an enum is not displayable,
  `is_displayable` accepts it. `validate_field_types` runs in the macro only.

*Frontmatter.*
* A list or a struct in a constant of an imported file loses the items that name the variants of
  a type that file imports, `S = list(list(str)) := [kinds(base.Stage)]`: it is parsed without
  its imports (`imports.rs` 390), and items without a value are left out (`params.rs` 955-964,
  `DropsItems`).
* The body may use one name for two things (`Shared`): a PascalCase parameter of an enum type
  has the name of its own type; the enum type that another declaration implies is added after
  the rules on names were checked; aliases and stems are compared with the PascalCase form of a
  declaration only, so that `lib` may be a parameter and an import (SPEC.md:1187-1191). The
  enum hides the parameter, the import those of its paths that it exports.
* An imported file reads no environment (`GivenElsewhere`); files with imports in their paths
  or parameters of imported types cannot be imported at all (SPEC.md:783, and its own example
  at 796-813). Two imports with one stem replace each other (SPEC.md:2074; `DuplicateStem`).
* Values of the wrong type other than text are accepted for environment variables
  (SPEC.md:1020-1026), and a default in the env block is read before values are given.
* Import cycles are not reported (`imports.rs` 379; SPEC.md:777, but 2073 says mutual imports
  work). Items of a default that do not parse are dropped (`params.rs` 938-985). Variants'
  names and Some and None count as declared. A list in a block splits on ` - ` inside quoted text
  (`params.rs` 212). A failed first reading of the constants is ignored (`mod.rs` 462).

*Conditions* (`Unread`, `Garbled`, `NamesLabel`, `BarredSubject`, `Uncounted`, `Apart`).
* `{% if p p %}` and `{% if x not in items %}` pass the TypeScript check of syntax, whose comment
  says that they are later reported as undeclared, "exactly as the Rust backend does"
  (`condition_validate.ts` 53-56). The core reports them; the TypeScript collector of names drops
  a root that is no identifier (`references.ts` 76-83), so that the template is constructed and
  fails when it renders. The same happens to an unknown function or filter, which the core
  refuses while parsing.
* A label counts as declared in the core (`template/analysis.rs` 237-251) and not in TypeScript,
  where it stands for a value (`template_class.ts` 961-968). A label of several words fails the
  core's type check and TypeScript's render. `")" p ")"` is one literal to the core. A bar in the
  subject of a match begins a filter for the collector and is part of a name for the core.
* `(a == ")")` is refused by both parsers; the port counts a parenthesis that was never opened
  and accepts `p ) ==`. `_` in `match x case _` is any variant in Rust and a variant's name in
  TypeScript. An absent option equals the empty text in `render()` only.
* Not modelled, but seen: filters in conditions pass the Rust checks and throw in TypeScript;
  `<` on texts is false in Rust, compares in `render()` and throws in `renderUnchecked()`; the
  TypeScript engine has no type check of conditions; an absent option as a condition is an
  error in Rust and `render()` and false in `renderUnchecked()`; operators without spaces are
  not found by `references.ts`.

*The TypeScript renderers* (`Known`, `Leaked`, `BoundConsts`).
* `mergeConsts` turns all values of the includer into constants of the included template
  (`ts/renderer.ts` 732; SPEC.md:2017-2018). `idx(binding)` fails inside an iterated include
  (SPEC.md:2021-2022). Loop indices are not restored after an inner loop over the same binding.
* The names of an included file are not validated (`ts/validation.ts` 330, 501 run for compiled
  templates). A value passed to it under the name of one of its constants, and an item of a loop
  over a binding of that name, is hidden by the constant in `render()` and shown by
  `renderUnchecked()` (`SomeNameHidden`, `BoundConsts`). A loop whose binding has the name of an
  option: a match takes the item for a present option in `render()` and for a text in
  `renderUnchecked()`. The proofs of `ScopeIsOwn` and `BranchesAreSame` found these cases.
* The label of an arm that is no name of the template but is one of its includer's is compared
  with the includer's value in `render()` only (`IncludersLabel`).
* `has()` of an option that holds a present text: the empty one counts as absent in `render()`
  where an outer match has unwrapped it (`ts/evaluator.ts` 198-210), and the text None counts
  as absent in `renderUnchecked()` (`direct_renderer/expr.ts` 119-128), so that the two take
  different branches (`TakenForNone`).
* A template passed as a value is rendered without type checks and defaults and takes its
  includer's option names for its own; a `tmpl` parameter can not be passed on.
* The direct renderer knows no `tmpl` parameters, uses the outermost template's inline
  templates everywhere, does not report missing parameters of an include, drops the else arm of
  an inline guard match, matches an option against text labels, and reads literals,
  `stem.NAME`, `params.` and `consts.` prefixes and several filters differently.
* Bodies of included files get no static checks, and `fromSourceAllowingUnused` skips two
  validations.

*Generated types and serde* (`Spilled`, `Kept`, `Unreadable`, `NoLiteral`, `NumberedVariants`).
* The setter of a `struct(...)` parameter writes the struct's fields into the context around it
  and sets the struct itself to an empty one (`type_gen.rs` 137-143: `inner_ctx` is never written;
  the setters of items and options shadow `ctx`, as the comment in `struct_gen.rs` 386-388
  explains). So `render()` of such a parameter fails its validation, and a field replaces a
  parameter of the same name that was set before. No test has a struct parameter.
* A mixed enum's visitor drops the fields that come before `__kind__`, and entries come in hash
  order, so that `from_value` may refuse what `to_value` wrote (`serde_support.rs` 380 calls it the
  inverse). `Some("")`, `Some("None")` and `Some(None)` are read back as `None`
  (`serde_support.rs` 524-533).
* A float declared in the frontmatter accepts an integer, which `from_value` refuses for an `f64`
  and for which a constant has no literal. Constants of option types have none either: the arms for
  them (`codegen.rs` 559-575) match an enum whose `is_option()` is true, and there is no such enum
  any more; so for the builder's default (`struct_gen.rs` 342). Where variants' identifiers
  collide, a constant names the first of them (`codegen.rs` 585, 650).
* A mixed enum's fields must be scalars and none may be called `self` or the like
  (`type_gen.rs` 491-501), and a template nested in a list, struct or option does not derive serde:
  such declarations are valid templates whose generated code does not compile (`Compiles`).
  `from_str` takes the first of two variants that differ in case only. `RUST_KEYWORDS` lacks `gen`.
  `crates/md-tmpl-macros/README.md` 132-133 give `Params{Field}` for a `tmpl` parameter, which
  is an `Arc<Template>`.

*Other places.* `validate_runtime_types` (`frontmatter/mod.rs` 192) and
`validate_field_accesses_runtime` (`type_check/mod.rs` 95) are documented and never called.
`decompose_f64` (`render/condition.rs` 82-89) shifts the high bits out of floats from 2^64 up to
2^116, so that an integer compares as greater than 2^64; the comment there says this is handled.

Several entries have been runs with a counterexample before their properties were narrowed to
what holds: the limit of one, the `clear()` race, inline templates with a cache, the default
that wins, the hidden argument, the captured name, `clearCache()` and constants, two origins.

## 6. What is not modelled

Formatting of values, filters, YAML and expression text, the code generators of Go, Python and
TypeScript types, and the macros' embedding of a compiled body: functions of strings, where a
model would repeat the code. The Python and WebAssembly bindings: conversions around Rust
objects under one lock or one thread. The FlexBuffers encoder of the Go binding. Includes in
the type checker. TypeScript's parser of bodies and frontmatter and its TemplateCache shared
between templates. PROJECT.json gives the reason for each component and what is left out of
those that are partly modelled.

## 7. The plan

Next models: the FlexBuffers encoding between Go and the C interface as a stack machine (offsets
and widths at their limits); includes in `TypeSoundness`, with the narrowings that enter them.

Next proofs: that blocks restore what they changed in `TypeSoundness`, with the narrowings as
folds instead of RECURSIVE operators.
