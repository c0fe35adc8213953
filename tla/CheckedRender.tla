---------------------------- MODULE CheckedRender ----------------------------
(***************************************************************************)
(* The render entry points of a Template (template/render_methods.rs) and  *)
(* the validation in front of them (template/mod.rs): render_ctx validates *)
(* its context on every call, render_ctx_unchecked never, and render::<T>  *)
(* only until a value of the host type T has passed, for it then notes T   *)
(* in checked_type_ids.  The list is read under one lock and appended to   *)
(* under another, and a clone of the template starts with a copy of it.    *)
(*                                                                         *)
(* A context maps names to the kind of their value, a declared type is the *)
(* set of kinds VarType::check accepts.                                    *)
(***************************************************************************)
EXTENDS Naturals, Sequences, FiniteSets, TLC

CONSTANTS
    Threads,
    Objects,        \* places for Template values: loaded, cloned, dropped
    Names, Kinds,
    Consts,         \* names every version of the file defines as constants
    Files,          \* the declarations a version of the file may have
    HostTypes,      \* Rust types with Serialize; NotAStruct serializes to no struct
    NotAStruct,
    Contexts,       \* HostTypes -> the contexts their values serialize to
    Expected,       \* the structs include_template! generated -> the declarations they come from
    Built,          \* such structs -> the contexts to_context builds of their values
    Loose,          \* such structs -> the parameters GeneratedAssumption excepts
    NoDefault, Nowhere

Generated == DOMAIN Expected

Ctxs == UNION {[S -> Kinds] : S \in SUBSET Names}

ASSUME RenderAssumptions ==
    /\ \A d \in Files : /\ DOMAIN d \subseteq Names \ Consts
                        /\ \A n \in DOMAIN d : /\ d[n].type \subseteq Kinds
                                               /\ d[n].default \in d[n].type \cup {NoDefault}
    /\ NotAStruct \in HostTypes /\ Contexts[NotAStruct] = {}
    /\ \A T \in HostTypes : Contexts[T] \subseteq Ctxs
    /\ Generated \subseteq HostTypes
    /\ \A T \in Generated : Built[T] \subseteq Ctxs
    /\ NoDefault \notin Kinds /\ Nowhere \notin Objects

VARIABLES
    obj,        \* [Objects -> Template or None]
    job         \* [Threads -> the render call it is in]

vars == <<obj, job>>

(* ids: checked_type_ids; passed, an auxiliary field: the host types a value
   of which has passed validation here or before the object was cloned. *)
None == [decls |-> <<>>, ids |-> <<>>, passed |-> {}, live |-> FALSE]

Idle == [at |-> "idle", how |-> "none", on |-> Nowhere,
         type |-> NotAStruct, ctx |-> <<>>, extra |-> FALSE, result |-> "none"]

Decls(g) == obj[job[g].on].decls

Init ==
    /\ obj = [o \in Objects |-> None]
    /\ job = [g \in Threads |-> Idle]

-----------------------------------------------------------------------------
(* Validation, as functions of the declarations and a context. *)

DeclaredNames(d) == DOMAIN d \cup Consts

Missing(d, ctx) == {n \in DOMAIN d \ DOMAIN ctx : d[n].default = NoDefault}
Mismatched(d, ctx) == {n \in DOMAIN d \cap DOMAIN ctx : ctx[n] \notin d[n].type}
Undeclared(d, ctx) == DOMAIN ctx \ DeclaredNames(d)

ValidateContext(d, ctx, extra) ==
    CASE Missing(d, ctx) # {} -> "MissingParams"
      [] Missing(d, ctx) = {} /\ Mismatched(d, ctx) # {} -> "TypeMismatch"
      [] Missing(d, ctx) = {} /\ Mismatched(d, ctx) = {} ->
            IF ~extra /\ Undeclared(d, ctx) # {} THEN "ExtraParams" ELSE "ok"

\* Mutant: injects no defaults.
InjectDefaults_None(d, ctx) == ctx

InjectDefaults(d, ctx) ==
    LET absent == {n \in DOMAIN d \ DOMAIN ctx : d[n].default # NoDefault}
    IN  [n \in DOMAIN ctx \cup absent |-> IF n \in DOMAIN ctx THEN ctx[n] ELSE d[n].default]

(* No parameter removed, added or retyped; defaults may change. *)
ValidateDeclarations(d, expected) ==
    /\ DOMAIN d = DOMAIN expected
    /\ \A n \in DOMAIN d : d[n].type = expected[n].type

(* The check of a generated struct looks at the names alone. *)
ValidateTemplate(d, expected) == DOMAIN d = DOMAIN expected

-----------------------------------------------------------------------------
(* Template values. *)

InUse(o) == \E g \in Threads : job[g].on = o

\* Mutant: loading over a template keeps the types it had checked.
Load_KeepsIds(o) ==
    /\ ~InUse(o)
    /\ \E d \in Files : obj' = [obj EXCEPT ![o] = [@ EXCEPT !.decls = d, !.passed = {}, !.live = TRUE]]
    /\ UNCHANGED job

(* from_source, from_file, from_cached, from_precompiled: no type is noted.
   A service that reloads a changed file puts the new Template in the place
   of the old one, which nobody borrows any more. *)
Load(o) ==
    /\ ~InUse(o)
    /\ \E d \in Files : obj' = [obj EXCEPT ![o] = [None EXCEPT !.decls = d, !.live = TRUE]]
    /\ UNCHANGED job

(* Clone::clone, which copies the list under its lock. *)
Clone(o, c) ==
    /\ obj[o].live /\ ~obj[c].live
    /\ obj' = [obj EXCEPT ![c] = obj[o]]
    /\ UNCHANGED job

Drop(o) ==
    /\ obj[o].live /\ ~InUse(o)
    /\ obj' = [obj EXCEPT ![o] = None]
    /\ UNCHANGED job

-----------------------------------------------------------------------------
(* The entry points. *)

Call(g, o, how, T, ctx, extra, at) ==
    /\ job[g].at = "idle" /\ obj[o].live
    /\ job' = [job EXCEPT ![g] = [Idle EXCEPT !.at = at, !.how = how, !.on = o,
                                              !.type = T, !.ctx = ctx, !.extra = extra]]
    /\ UNCHANGED obj

(* render, render_into: from_serialize, then render_into_checked. *)
RenderTyped(g, o) ==
    \E T \in HostTypes :
        \/ \E ctx \in Contexts[T] : Call(g, o, "typed", T, ctx, FALSE, "contains")
        \/ T = NotAStruct /\ Call(g, o, "typed", T, <<>>, FALSE, "syntax")

(* The contexts a program has, of whatever value and for whatever template. *)
AtHand == UNION ({Contexts[T] : T \in HostTypes} \cup {Built[T] : T \in Generated})

(* render_ctx, render_ctx_into and their allowing_extra and cached forms. *)
RenderCtx(g, o) ==
    \E ctx \in AtHand, extra \in BOOLEAN : Call(g, o, "ctx", NotAStruct, ctx, extra, "validate")

RenderCtxUnchecked(g, o) ==
    \E ctx \in AtHand : Call(g, o, "unchecked", NotAStruct, ctx, FALSE, "render")

(* render_empty: the defaults, or nothing, as the context of render_ctx. *)
RenderEmpty(g, o) ==
    Call(g, o, "ctx", NotAStruct, InjectDefaults(obj[o].decls, <<>>), FALSE, "validate")

(* render and render_reloaded of a struct include_template! generated:
   validate_template, then to_context and render_ctx. *)
RenderReloaded(g, o) ==
    \E T \in Generated : \E ctx \in Built[T] :
        Call(g, o, "reloaded", T, ctx, FALSE, "compatible")

(* A program that checks the declarations when it loads the file and then
   renders the to_context of its structs unchecked, "pre-validated once at
   startup". *)
RenderPrevalidated(g, o) ==
    \E T \in Generated : \E ctx \in Built[T] :
        Call(g, o, "prevalidated", T, ctx, FALSE, "unchanged")

-----------------------------------------------------------------------------
(* The steps of a call. *)

Goto(g, at) == job' = [job EXCEPT ![g].at = at] /\ UNCHANGED obj
Return(g, result) ==
    /\ job' = [job EXCEPT ![g] = [Idle EXCEPT !.at = "return", !.how = job[g].how, !.result = result]]
    /\ UNCHANGED obj

NotSerializable(g) == job[g].at = "syntax" /\ Return(g, "Syntax")

Compatible(g) ==
    /\ job[g].at = "compatible"
    /\ IF ValidateTemplate(Decls(g), Expected[job[g].type])
       THEN Goto(g, "validate")
       ELSE Return(g, "DeclarationsMutated")

Unchanged(g) ==
    /\ job[g].at = "unchanged"
    /\ IF ValidateDeclarations(Decls(g), Expected[job[g].type])
       THEN Goto(g, "render")
       ELSE Return(g, "DeclarationsMutated")

LockContains(g) ==
    /\ job[g].at = "contains"
    /\ Goto(g, IF \E i \in 1..Len(obj[job[g].on].ids) : obj[job[g].on].ids[i] = job[g].type
               THEN "skip" ELSE "validate")

\* Mutant: goes on after a failed validation.
Validate_IgnoresError(g) ==
    /\ job[g].at = "validate"
    /\ Goto(g, IF job[g].how = "typed" THEN "push" ELSE "render")

Validate(g) ==
    /\ job[g].at = "validate"
    /\ LET error == ValidateContext(Decls(g), job[g].ctx, job[g].extra)
       IN  CASE error # "ok" -> Return(g, error)
             [] error = "ok" /\ job[g].how # "typed" -> Goto(g, "render")
             [] error = "ok" /\ job[g].how = "typed" ->
                    /\ job' = [job EXCEPT ![g].at = "push"]
                    /\ obj' = [obj EXCEPT ![job[g].on].passed = @ \cup {job[g].type}]

LockPush(g) ==
    /\ job[g].at = "push"
    /\ job' = [job EXCEPT ![g].at = "render"]
    /\ obj' = [obj EXCEPT ![job[g].on].ids = Append(@, job[g].type)]

(* What the body sees; it uses every parameter (an unused one is rejected
   when the template is compiled), so one that is absent is an error. *)
Given(g) == InjectDefaults(Decls(g), job[g].ctx)

RenderCore(g) ==
    /\ job[g].at \in {"skip", "render"}
    /\ Return(g, IF DOMAIN Decls(g) \subseteq DOMAIN Given(g) THEN "rendered" ELSE "Undefined")

Leave(g) ==
    /\ job[g].at = "return"
    /\ job' = [job EXCEPT ![g] = Idle]
    /\ UNCHANGED obj

Next ==
    \/ \E o \in Objects : Load(o) \/ Drop(o) \/ \E c \in Objects : Clone(o, c)
    \/ \E g \in Threads :
        \/ \E o \in Objects :
            \/ RenderTyped(g, o) \/ RenderCtx(g, o) \/ RenderCtxUnchecked(g, o)
            \/ RenderEmpty(g, o) \/ RenderReloaded(g, o) \/ RenderPrevalidated(g, o)
        \/ NotSerializable(g) \/ Compatible(g) \/ Unchanged(g) \/ LockContains(g) \/ Validate(g)
        \/ LockPush(g) \/ RenderCore(g) \/ Leave(g)

Spec == Init /\ [][Next]_vars

-----------------------------------------------------------------------------
(* Properties. *)

Calls == {"none", "typed", "ctx", "unchecked", "reloaded", "prevalidated"}
Places == {"idle", "syntax", "compatible", "unchanged", "contains", "skip", "validate", "push", "render", "return"}

Results == {"none", "rendered", "Undefined", "Syntax", "DeclarationsMutated", "MissingParams",
            "TypeMismatch", "ExtraParams"}

Template == [decls : Files \cup {<<>>}, ids : Seq(HostTypes), passed : SUBSET HostTypes, live : BOOLEAN]

Job == [at : Places, how : Calls, on : Objects \cup {Nowhere}, type : HostTypes, ctx : Ctxs,
        extra : BOOLEAN, result : Results]

TypeOK == obj \in [Objects -> Template] /\ job \in [Threads -> Job]

Conforms(d, ctx) == /\ DOMAIN d \subseteq DOMAIN ctx
                    /\ \A n \in DOMAIN d : ctx[n] \in d[n].type

ConformsBut(d, ctx, loose) == /\ DOMAIN d \subseteq DOMAIN ctx
                              /\ \A n \in DOMAIN d \ loose : ctx[n] \in d[n].type

(* What ContextConforms of GeneratedTypes says of the generated setters:    *)
(* to_context sets every parameter, and to a value of the declared type but *)
(* for the loose ones.  These are the parameters with a struct in their     *)
(* type, other than as the row of a list, which is set to an empty one;     *)
(* those with the name of a field of a struct parameter, which the field    *)
(* replaces (both type_gen.rs:137); and the templates, for any              *)
(* Arc<Template> will do (struct_gen.rs:433).                               *)
ASSUME GeneratedAssumption ==
    \A T \in Generated : \A ctx \in Built[T] : ConformsBut(Expected[T], ctx, Loose[T])

(* Validation is skipped for a type only if one of its values has passed,  *)
(* on this object or on one it was cloned from: checked_type_ids never     *)
(* outlives the declarations it was earned with, through clones, drops,    *)
(* reloads and threads that race for it.                                   *)
SkipIsEarned ==
    TypeOK /\ \A g \in Threads : job[g].at = "skip" => job[g].type \in obj[job[g].on].passed

(* "validation is shape-based, not instance-based" (Clone): for a type     *)
(* whose values all serialize to contexts of one shape, skipping is sound, *)
(* and render::<T> never renders a context that does not conform.          *)
Rigid(T) == \A c, d \in Contexts[T] : c = d

RigidRendersConform ==
    \A g \in Threads : job[g].how = "typed" /\ job[g].at \in {"skip", "render"} /\ Rigid(job[g].type)
        => Conforms(Decls(g), Given(g))

(* After validation the body finds every parameter with a value of its     *)
(* type: what validate_context lets pass is what inject_defaults completes.*)
ValidatedIsComplete ==
    \A g \in Threads : job[g].at \in {"push", "render"} /\ job[g].how \notin {"unchecked", "prevalidated"}
        => Conforms(Decls(g), Given(g))

(* A file that validate_declarations has passed may be rendered unchecked  *)
(* with a generated struct, whatever else was edited: the body finds every *)
(* parameter, of the type the file declares.  Not so the loose ones; a     *)
(* struct(...) parameter reaches the body as an empty struct.              *)
UnchangedMakesUncheckedSafe ==
    \A g \in Threads : job[g].how = "prevalidated" /\ job[g].at = "render"
        => ConformsBut(Decls(g), Given(g), Loose[job[g].type])

(* No context that has not been validated itself is rendered unless it     *)
(* conforms all the same, but for render_ctx_unchecked by a program that   *)
(* promises it, types whose values differ, and the loose parameters of a   *)
(* generated struct.                                                       *)
UnvalidatedConform == RigidRendersConform /\ UnchangedMakesUncheckedSafe
=============================================================================
