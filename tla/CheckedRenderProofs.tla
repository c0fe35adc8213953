------------------------- MODULE CheckedRenderProofs -------------------------
(***************************************************************************)
(* Theorems about CheckedRender for any number of threads, templates, host *)
(* types, versions of the file and contexts.                               *)
(***************************************************************************)
EXTENDS CheckedRender, TLAPS

----------------------------------------------------------------------------
(* Contexts and validation.                                                *)

\* A context completed with the defaults.
LEMMA Injected ==
    ASSUME NEW d, NEW ctx
    PROVE  /\ \A n : n \in DOMAIN InjectDefaults(d, ctx) <=>
                 n \in DOMAIN ctx \/ (n \in DOMAIN d /\ d[n].default # NoDefault)
           /\ \A n \in DOMAIN ctx : InjectDefaults(d, ctx)[n] = ctx[n]
           /\ \A n \in DOMAIN d \ DOMAIN ctx :
                 d[n].default # NoDefault => InjectDefaults(d, ctx)[n] = d[n].default
  BY DEF InjectDefaults

\* What validate_context lets pass, inject_defaults completes.
LEMMA ValidatedConforms ==
    ASSUME NEW d \in Files \cup {<<>>}, NEW ctx, NEW extra,
           ValidateContext(d, ctx, extra) = "ok"
    PROVE  Conforms(d, InjectDefaults(d, ctx))
<1>1. Missing(d, ctx) = {} /\ Mismatched(d, ctx) = {}
  BY DEF ValidateContext
<1>2. ASSUME NEW n \in DOMAIN d
      PROVE  n \in DOMAIN InjectDefaults(d, ctx) /\ InjectDefaults(d, ctx)[n] \in d[n].type
  <2>1. CASE n \in DOMAIN ctx
    BY <1>1, <2>1, Injected DEF Mismatched
  <2>2. CASE n \notin DOMAIN ctx
    <3>1. d[n].default # NoDefault
      BY <1>1, <2>2 DEF Missing
    <3>2. d \in Files
      OBVIOUS
    <3>3. d[n].default \in d[n].type
      BY <3>1, <3>2, RenderAssumptions
    <3> QED  BY <2>2, <3>1, <3>3, Injected
  <2> QED  BY <2>1, <2>2
<1> QED  BY <1>2 DEF Conforms

\* What conforms to the expected declarations, but for some parameters, conforms
\* to those that pass validate_declarations.
LEMMA UnchangedConforms ==
    ASSUME NEW d, NEW e, NEW ctx, NEW loose, ValidateDeclarations(d, e),
           ConformsBut(e, ctx, loose)
    PROVE  ConformsBut(d, InjectDefaults(d, ctx), loose)
  BY Injected DEF ValidateDeclarations, ConformsBut

\* The empty context, and the defaults alone, are contexts.
LEMMA EmptyCtx == <<>> \in Ctxs
<1>1. <<>> \in [{} -> Kinds]
  OBVIOUS
<1> QED  BY <1>1 DEF Ctxs

LEMMA DefaultsCtx ==
    ASSUME NEW d \in Files \cup {<<>>}
    PROVE  InjectDefaults(d, <<>>) \in Ctxs
<1> DEFINE S == {n \in DOMAIN d : d[n].default # NoDefault}
<1>1. DOMAIN InjectDefaults(d, <<>>) = S
  BY DEF InjectDefaults
<1>2. ASSUME NEW n \in S
      PROVE  n \in Names /\ InjectDefaults(d, <<>>)[n] \in Kinds
  <2>1. d \in Files
    OBVIOUS
  <2>2. n \in Names /\ d[n].default \in d[n].type /\ d[n].type \subseteq Kinds
    BY <2>1, RenderAssumptions
  <2>3. InjectDefaults(d, <<>>)[n] = d[n].default
    BY Injected
  <2> QED  BY <2>2, <2>3
<1>3. InjectDefaults(d, <<>>) = [n \in S |-> InjectDefaults(d, <<>>)[n]]
  BY <1>1 DEF InjectDefaults
<1>4. InjectDefaults(d, <<>>) \in [S -> Kinds] /\ S \in SUBSET Names
  BY <1>2, <1>3
<1> QED  BY <1>4 DEF Ctxs

\* What a program has at hand are contexts.
LEMMA AtHandCtxs == AtHand \subseteq Ctxs
<1> SUFFICES ASSUME NEW ctx \in AtHand PROVE ctx \in Ctxs
  OBVIOUS
<1>1. \/ \E T \in HostTypes : ctx \in Contexts[T]
      \/ \E T \in Generated : ctx \in Built[T]
  BY DEF AtHand
<1> QED  BY <1>1, RenderAssumptions

----------------------------------------------------------------------------
(* The inductive invariant.                                                *)

\* The types noted have passed, and every context of a type of one shape that
\* has passed conforms.
TemplateOK(p) ==
    /\ \A i \in 1..Len(p.ids) : p.ids[i] \in p.passed
    /\ \A T \in p.passed : Rigid(T) =>
          \A ctx \in Contexts[T] : Conforms(p.decls, InjectDefaults(p.decls, ctx))

\* What a call j under way on the template p has established so far.
CallOK(j, p) ==
    /\ p.live
    /\ j.at \notin {"idle", "return"}
    /\ j.at \in {"contains", "skip", "push"} => j.how = "typed"
    /\ j.at = "unchanged" => j.how = "prevalidated"
    /\ j.how = "typed" => j.at = "syntax" \/ j.ctx \in Contexts[j.type]
    /\ j.how = "prevalidated" =>
          /\ j.at \in {"unchanged", "render"}
          /\ j.type \in Generated /\ j.ctx \in Built[j.type]
    /\ j.at = "skip" \/ (j.how = "typed" /\ j.at \in {"push", "render"}) => j.type \in p.passed
    /\ j.at \in {"push", "render"} /\ j.how \notin {"unchecked", "prevalidated"}
          => Conforms(p.decls, InjectDefaults(p.decls, j.ctx))
    /\ j.at = "render" /\ j.how = "prevalidated"
          => ConformsBut(p.decls, InjectDefaults(p.decls, j.ctx), Loose[j.type])

JobOK(g) ==
    IF job[g].on = Nowhere THEN job[g].at \in {"idle", "return"}
                           ELSE CallOK(job[g], obj[job[g].on])

RenderInv ==
    /\ TypeOK
    /\ \A o \in Objects : TemplateOK(obj[o])
    /\ \A g \in Threads : JobOK(g)

\* What a call knows stays true while its template is live, keeps its
\* declarations and loses no type that has passed.
LEMMA CallStays ==
    ASSUME NEW j, NEW p, NEW q, CallOK(j, p), q.live, q.decls = p.decls, p.passed \subseteq q.passed
    PROVE  CallOK(j, q)
  BY DEF CallOK

\* The values of a new object and of a call that has not begun.
LEMMA NoneType == None \in Template /\ TemplateOK(None) /\ None.live = FALSE
  BY DEF None, Template, TemplateOK

LEMMA IdleType == Idle \in Job /\ Idle.on = Nowhere /\ Idle.at = "idle"
<1>1. NotAStruct \in HostTypes
  BY RenderAssumptions
<1>2. Idle.on = Nowhere /\ Idle.at = "idle"
  BY DEF Idle
<1>3. Idle = [at |-> "idle", how |-> "none", on |-> Nowhere, type |-> NotAStruct,
              ctx |-> <<>>, extra |-> FALSE, result |-> "none"]
  BY DEF Idle
<1>4. "idle" \in Places /\ "none" \in Calls /\ "none" \in Results
  BY DEF Places, Calls, Results
<1>5. Idle \in Job
  BY <1>1, <1>3, <1>4, EmptyCtx DEF Job
<1> QED  BY <1>2, <1>5

LEMMA InitInv == Init => RenderInv
<1> SUFFICES ASSUME Init PROVE RenderInv
  OBVIOUS
<1>1. TypeOK
  BY NoneType, IdleType DEF Init, TypeOK
<1>2. \A o \in Objects : TemplateOK(obj[o])
  BY NoneType DEF Init
<1>3. \A g \in Threads : JobOK(g)
  BY IdleType DEF Init, JobOK
<1> QED  BY <1>1, <1>2, <1>3 DEF RenderInv

----------------------------------------------------------------------------
(* Steps on template values.                                               *)

\* Replacing an object that no call is on, or that stays as good as it was.
LEMMA ObjectStep ==
    ASSUME RenderInv, UNCHANGED job, NEW o \in Objects, NEW p \in Template, TemplateOK(p),
           obj' = [obj EXCEPT ![o] = p],
           \/ ~InUse(o)
           \/ p.live /\ p.decls = obj[o].decls /\ obj[o].passed \subseteq p.passed
    PROVE  RenderInv'
<1>1. TypeOK'
  BY DEF RenderInv, TypeOK
<1>2. \A q \in Objects : TemplateOK(obj[q])'
  BY DEF RenderInv, TypeOK, TemplateOK
<1>3. ASSUME NEW g \in Threads PROVE JobOK(g)'
  <2>1. JobOK(g) /\ job'[g] = job[g]
    BY DEF RenderInv
  <2>2. CASE job[g].on # o
    BY <2>1, <2>2 DEF JobOK, RenderInv, TypeOK
  <2>3. CASE job[g].on = o
    <3>1. o # Nowhere /\ InUse(o)
      BY <2>3, RenderAssumptions DEF InUse
    <3>2. CallOK(job[g], obj[o])
      BY <2>1, <2>3, <3>1 DEF JobOK
    <3>3. obj'[o] = p
      BY DEF RenderInv, TypeOK
    <3> QED  BY <2>1, <2>3, <3>1, <3>2, <3>3, CallStays DEF JobOK
  <2> QED  BY <2>2, <2>3
<1> QED  BY <1>1, <1>2, <1>3 DEF RenderInv

LEMMA LoadStep == ASSUME RenderInv, NEW o \in Objects, Load(o) PROVE RenderInv'
<1>1. PICK d \in Files : obj' = [obj EXCEPT ![o] = [None EXCEPT !.decls = d, !.live = TRUE]]
  BY DEF Load
<1>2. PICK p : p = [None EXCEPT !.decls = d, !.live = TRUE]
  OBVIOUS
<1>3. p = [decls |-> d, ids |-> <<>>, passed |-> {}, live |-> TRUE]
  BY <1>2 DEF None
<1>4. p \in Template /\ TemplateOK(p)
  BY <1>3 DEF Template, TemplateOK
<1> QED  BY <1>1, <1>2, <1>4, ObjectStep DEF Load

LEMMA DropStep == ASSUME RenderInv, NEW o \in Objects, Drop(o) PROVE RenderInv'
  BY NoneType, ObjectStep DEF Drop

\* Nobody renders the place a clone is put.
LEMMA CloneStep ==
    ASSUME RenderInv, NEW o \in Objects, NEW c \in Objects, Clone(o, c) PROVE RenderInv'
<1>1. ~InUse(c)
  <2> SUFFICES ASSUME NEW g \in Threads, job[g].on = c PROVE FALSE
    BY DEF InUse
  <2>1. JobOK(g) /\ c # Nowhere
    BY RenderAssumptions DEF RenderInv
  <2> QED  BY <2>1 DEF JobOK, CallOK, Clone
<1>2. obj[o] \in Template /\ TemplateOK(obj[o])
  BY DEF RenderInv, TypeOK
<1> QED  BY <1>1, <1>2, ObjectStep DEF Clone

----------------------------------------------------------------------------
(* Steps of a call.                                                        *)

\* A step of one call that leaves the templates alone.
LEMMA JobStep ==
    ASSUME RenderInv, UNCHANGED obj, NEW g \in Threads, NEW j \in Job,
           job' = [job EXCEPT ![g] = j],
           IF j.on = Nowhere THEN j.at \in {"idle", "return"} ELSE CallOK(j, obj[j.on])
    PROVE  RenderInv'
<1>1. TypeOK'
  BY DEF RenderInv, TypeOK
<1>2. \A o \in Objects : TemplateOK(obj[o])'
  BY DEF RenderInv, TemplateOK
<1>3. \A h \in Threads : JobOK(h)'
  BY DEF RenderInv, TypeOK, JobOK
<1> QED  BY <1>1, <1>2, <1>3 DEF RenderInv

\* Calls that begin.
LEMMA CallStep ==
    ASSUME RenderInv, NEW g \in Threads, NEW o \in Objects, NEW how \in Calls,
           NEW T \in HostTypes, NEW ctx \in Ctxs, NEW extra \in BOOLEAN, NEW at \in Places,
           Call(g, o, how, T, ctx, extra, at),
           \/ how = "typed" /\ at = "contains" /\ ctx \in Contexts[T]
           \/ how = "typed" /\ at = "syntax"
           \/ how = "ctx" /\ at = "validate"
           \/ how = "unchecked" /\ at = "render"
           \/ how = "reloaded" /\ at = "compatible"
           \/ /\ how = "prevalidated" /\ at = "unchanged"
              /\ T \in Generated /\ ctx \in Built[T]
    PROVE  RenderInv'
<1>1. PICK j : j = [Idle EXCEPT !.at = at, !.how = how, !.on = o, !.type = T, !.ctx = ctx,
                                !.extra = extra]
  OBVIOUS
<1>2. j = [at |-> at, how |-> how, on |-> o, type |-> T, ctx |-> ctx, extra |-> extra,
           result |-> "none"]
  BY <1>1 DEF Idle
<1>3. j \in Job
  BY <1>2 DEF Job, Results
<1>4. /\ j.at = at /\ j.how = how /\ j.on = o /\ j.type = T /\ j.ctx = ctx
  BY <1>2
<1>5. obj[o].live /\ job' = [job EXCEPT ![g] = j] /\ UNCHANGED obj
  BY <1>1 DEF Call
<1>6. CallOK(j, obj[o])
  <2>1. /\ j.at \in {"contains", "syntax", "validate", "render", "compatible", "unchanged"}
        /\ j.at = "contains" => j.how = "typed"
        /\ j.at = "render" => j.how = "unchecked"
    BY <1>4
  <2> QED  BY <1>4, <1>5, <2>1 DEF CallOK
<1>7. j.on # Nowhere
  BY <1>4, RenderAssumptions
<1> QED  BY <1>3, <1>4, <1>5, <1>6, <1>7, JobStep

\* Every entry point begins one of them.
LEMMA BeginStep ==
    ASSUME RenderInv, NEW g \in Threads, NEW o \in Objects,
           \/ RenderTyped(g, o) \/ RenderCtx(g, o) \/ RenderCtxUnchecked(g, o)
           \/ RenderEmpty(g, o) \/ RenderReloaded(g, o) \/ RenderPrevalidated(g, o)
    PROVE  RenderInv'
<1>1. /\ NotAStruct \in HostTypes /\ Generated \subseteq HostTypes
      /\ \A T \in HostTypes : Contexts[T] \subseteq Ctxs
      /\ \A T \in Generated : Built[T] \subseteq Ctxs
  BY RenderAssumptions
<1> USE DEF Calls, Places
<1>2. CASE RenderTyped(g, o)
  <2>1. PICK T \in HostTypes :
           \/ \E ctx \in Contexts[T] : Call(g, o, "typed", T, ctx, FALSE, "contains")
           \/ Call(g, o, "typed", T, <<>>, FALSE, "syntax")
    BY <1>2 DEF RenderTyped
  <2> QED  BY <1>1, <2>1, CallStep, EmptyCtx
<1>3. CASE RenderCtx(g, o)
  <2>1. PICK ctx \in Ctxs, extra \in BOOLEAN :
           Call(g, o, "ctx", NotAStruct, ctx, extra, "validate")
    BY <1>3, AtHandCtxs DEF RenderCtx
  <2> QED  BY <1>1, <2>1, CallStep
<1>4. CASE RenderCtxUnchecked(g, o)
  <2>1. PICK ctx \in Ctxs : Call(g, o, "unchecked", NotAStruct, ctx, FALSE, "render")
    BY <1>4, AtHandCtxs DEF RenderCtxUnchecked
  <2> QED  BY <1>1, <2>1, CallStep
<1>5. CASE RenderEmpty(g, o)
  <2>1. obj[o].decls \in Files \cup {<<>>}
    BY DEF RenderInv, TypeOK, Template
  <2>2. InjectDefaults(obj[o].decls, <<>>) \in Ctxs
    BY <2>1, DefaultsCtx
  <2> QED  BY <1>1, <1>5, <2>2, CallStep DEF RenderEmpty
<1>6. CASE RenderReloaded(g, o)
  <2>1. PICK T \in Generated : \E ctx \in Built[T] :
           Call(g, o, "reloaded", T, ctx, FALSE, "compatible")
    BY <1>6 DEF RenderReloaded
  <2> QED  BY <1>1, <2>1, CallStep
<1>7. CASE RenderPrevalidated(g, o)
  <2>1. PICK T \in Generated : \E ctx \in Built[T] :
           Call(g, o, "prevalidated", T, ctx, FALSE, "unchanged")
    BY <1>7 DEF RenderPrevalidated
  <2> QED  BY <1>1, <2>1, CallStep
<1> QED  BY <1>2, <1>3, <1>4, <1>5, <1>6, <1>7

\* A call that is under way is on a live template, and knows what it knows.
LEMMA UnderWay ==
    ASSUME RenderInv, NEW g \in Threads, job[g].at \notin {"idle", "return"}
    PROVE  /\ job[g] \in Job /\ job[g].on \in Objects /\ job[g].on # Nowhere
           /\ CallOK(job[g], obj[job[g].on])
<1>1. JobOK(g) /\ job[g] \in Job /\ job[g].on # Nowhere
  BY DEF RenderInv, TypeOK, JobOK
<1>2. job[g].on \in Objects
  BY <1>1 DEF Job
<1> QED  BY <1>1, <1>2 DEF JobOK

\* Going on to a place the call may be at.
LEMMA GotoStep ==
    ASSUME RenderInv, NEW g \in Threads, job[g].at \notin {"idle", "return"},
           NEW at \in Places, Goto(g, at),
           \A j : j = [job[g] EXCEPT !.at = at] => CallOK(j, obj[job[g].on])
    PROVE  RenderInv'
<1>1. job[g] \in Job /\ job[g].on # Nowhere
  BY UnderWay
<1>2. PICK j : j = [job[g] EXCEPT !.at = at]
  OBVIOUS
<1>3. j \in Job /\ j.on = job[g].on
  BY <1>1, <1>2 DEF Job
<1>4. job' = [job EXCEPT ![g] = j] /\ UNCHANGED obj
  BY <1>2 DEF Goto
<1> QED  BY <1>1, <1>2, <1>3, <1>4, JobStep

\* Returning from the call.
LEMMA ReturnStep ==
    ASSUME RenderInv, NEW g \in Threads, NEW result \in Results, Return(g, result)
    PROVE  RenderInv'
<1>1. PICK j : j = [Idle EXCEPT !.at = "return", !.how = job[g].how, !.result = result]
  OBVIOUS
<1>2. j = [at |-> "return", how |-> job[g].how, on |-> Nowhere, type |-> NotAStruct,
           ctx |-> <<>>, extra |-> FALSE, result |-> result]
  BY <1>1 DEF Idle
<1>3. job[g].how \in Calls /\ NotAStruct \in HostTypes
  BY RenderAssumptions DEF RenderInv, TypeOK, Job
<1>4. j \in Job
  BY <1>2, <1>3, EmptyCtx DEF Job, Places
<1>5. j.on = Nowhere /\ j.at = "return"
  BY <1>2
<1>6. job' = [job EXCEPT ![g] = j] /\ UNCHANGED obj
  BY <1>1 DEF Return
<1> QED  BY <1>4, <1>5, <1>6, JobStep

\* Noting something on the template that the call is on, and going on.
LEMMA NoteStep ==
    ASSUME RenderInv, NEW g \in Threads, job[g].at \notin {"idle", "return"},
           NEW at \in Places, NEW p \in Template, TemplateOK(p),
           job' = [job EXCEPT ![g].at = at], obj' = [obj EXCEPT ![job[g].on] = p],
           p.live, p.decls = obj[job[g].on].decls, obj[job[g].on].passed \subseteq p.passed,
           \A j : j = [job[g] EXCEPT !.at = at] => CallOK(j, p)
    PROVE  RenderInv'
<1>1. job[g] \in Job /\ job[g].on \in Objects /\ job[g].on # Nowhere
  BY UnderWay
<1>2. PICK j : j = [job[g] EXCEPT !.at = at]
  OBVIOUS
<1>3. j \in Job /\ j.on = job[g].on
  BY <1>1, <1>2 DEF Job
<1>4. job' = [job EXCEPT ![g] = j]
  BY <1>2
<1>5. TypeOK'
  BY <1>1, <1>3, <1>4 DEF RenderInv, TypeOK
<1>6. \A o \in Objects : TemplateOK(obj'[o])
  BY <1>1 DEF RenderInv, TypeOK
<1>7. ASSUME NEW h \in Threads PROVE JobOK(h)'
  <2>1. CASE h = g
    <3>1. job'[h] = j /\ obj'[j.on] = p /\ CallOK(j, p)
      BY <1>1, <1>2, <1>3, <1>4, <2>1 DEF RenderInv, TypeOK
    <3> QED  BY <1>1, <1>3, <3>1 DEF JobOK
  <2>2. CASE h # g
    <3>1. job'[h] = job[h] /\ JobOK(h)
      BY <1>4, <2>2 DEF RenderInv, TypeOK
    <3>2. CASE job[h].on = Nowhere
      BY <3>1, <3>2 DEF JobOK
    <3>3. CASE job[h].on # Nowhere
      <4>1. CallOK(job[h], obj[job[h].on]) /\ job[h].on \in Objects
        BY <3>1, <3>3 DEF JobOK, RenderInv, TypeOK, Job
      <4>2. \/ obj'[job[h].on] = obj[job[h].on]
            \/ job[h].on = job[g].on /\ obj'[job[h].on] = p
        BY <1>1, <4>1 DEF RenderInv, TypeOK
      <4>3. CallOK(job[h], obj'[job[h].on])
        BY <4>1, <4>2, CallStays
      <4> QED  BY <3>1, <3>3, <4>3 DEF JobOK
    <3> QED  BY <3>2, <3>3
  <2> QED  BY <2>1, <2>2
<1> QED  BY <1>5, <1>6, <1>7 DEF RenderInv, TemplateOK

\* The steps of a call up to its validation.
LEMMA EarlyStep ==
    ASSUME RenderInv, NEW g \in Threads,
           NotSerializable(g) \/ Compatible(g) \/ Unchanged(g) \/ LockContains(g)
    PROVE  RenderInv'
<1> DEFINE c == job[g]
           p == obj[job[g].on]
<1>1. c.at \notin {"idle", "return"}
  BY DEF NotSerializable, Compatible, Unchanged, LockContains
<1>2. c \in Job /\ CallOK(c, p) /\ c.on \in Objects
  BY <1>1, UnderWay
<1>3. p \in Template /\ TemplateOK(p)
  BY <1>2 DEF RenderInv, TypeOK
<1>4. CASE NotSerializable(g)
  BY <1>4, ReturnStep DEF NotSerializable, Results
<1>5. CASE Compatible(g)
  <2>1. CASE Return(g, "DeclarationsMutated")
    BY <2>1, ReturnStep DEF Results
  <2>2. CASE Goto(g, "validate")
    <3>1. c.at = "compatible" /\ c.how # "prevalidated"
      BY <1>2, <1>5 DEF Compatible, CallOK
    <3>2. ASSUME NEW j, j = [c EXCEPT !.at = "validate"] PROVE CallOK(j, p)
      <4>1. j.at = "validate" /\ j.how = c.how /\ j.ctx = c.ctx /\ j.type = c.type
        BY <1>2, <3>2 DEF Job
      <4> QED  BY <1>2, <3>1, <4>1 DEF CallOK
    <3> QED  BY <1>1, <2>2, <3>2, GotoStep DEF Places
  <2> QED  BY <1>5, <2>1, <2>2 DEF Compatible
<1>6. CASE Unchanged(g)
  <2>1. CASE Return(g, "DeclarationsMutated")
    BY <2>1, ReturnStep DEF Results
  <2>2. CASE Goto(g, "render") /\ ValidateDeclarations(Decls(g), Expected[c.type])
    <3>1. c.at = "unchanged" /\ c.how = "prevalidated"
      BY <1>2, <1>6 DEF Unchanged, CallOK
    <3>2. c.type \in Generated /\ c.ctx \in Built[c.type]
      BY <1>2, <3>1 DEF CallOK
    <3>3. ConformsBut(Expected[c.type], c.ctx, Loose[c.type])
      BY <3>2, GeneratedAssumption
    <3>4. ConformsBut(p.decls, InjectDefaults(p.decls, c.ctx), Loose[c.type])
      BY <2>2, <3>3, UnchangedConforms DEF Decls
    <3>5. ASSUME NEW j, j = [c EXCEPT !.at = "render"] PROVE CallOK(j, p)
      <4>1. j.at = "render" /\ j.how = c.how /\ j.ctx = c.ctx /\ j.type = c.type
        BY <1>2, <3>5 DEF Job
      <4> QED  BY <1>2, <3>1, <3>2, <3>4, <4>1 DEF CallOK
    <3> QED  BY <1>1, <2>2, <3>5, GotoStep DEF Places
  <2> QED  BY <1>6, <2>1, <2>2 DEF Unchanged
<1>7. CASE LockContains(g)
  <2>1. c.at = "contains" /\ c.how = "typed"
    BY <1>2, <1>7 DEF LockContains, CallOK
  <2>2. CASE Goto(g, "validate")
    <3>1. ASSUME NEW j, j = [c EXCEPT !.at = "validate"] PROVE CallOK(j, p)
      <4>1. j.at = "validate" /\ j.how = c.how /\ j.ctx = c.ctx /\ j.type = c.type
        BY <1>2, <3>1 DEF Job
      <4> QED  BY <1>2, <2>1, <4>1 DEF CallOK
    <3> QED  BY <1>1, <2>2, <3>1, GotoStep DEF Places
  <2>3. CASE Goto(g, "skip") /\ \E i \in 1..Len(p.ids) : p.ids[i] = c.type
    <3>1. c.type \in p.passed
      BY <1>3, <2>3 DEF TemplateOK
    <3>2. ASSUME NEW j, j = [c EXCEPT !.at = "skip"] PROVE CallOK(j, p)
      <4>1. j.at = "skip" /\ j.how = c.how /\ j.ctx = c.ctx /\ j.type = c.type
        BY <1>2, <3>2 DEF Job
      <4> QED  BY <1>2, <2>1, <3>1, <4>1 DEF CallOK
    <3> QED  BY <1>1, <2>3, <3>2, GotoStep DEF Places
  <2> QED  BY <1>7, <2>2, <2>3 DEF LockContains
<1> QED  BY <1>4, <1>5, <1>6, <1>7

\* What validate_context answers.
LEMMA ValidateResult ==
    ASSUME NEW d, NEW ctx, NEW extra
    PROVE  ValidateContext(d, ctx, extra) \in {"ok", "MissingParams", "TypeMismatch", "ExtraParams"}
  BY DEF ValidateContext

LEMMA ValidateStep == ASSUME RenderInv, NEW g \in Threads, Validate(g) PROVE RenderInv'
<1> DEFINE c == job[g]
           p == obj[job[g].on]
           error == ValidateContext(p.decls, c.ctx, c.extra)
<1>1. c.at = "validate"
  BY DEF Validate
<1>2. c \in Job /\ CallOK(c, p) /\ c.on \in Objects
  BY <1>1, UnderWay
<1>3. p \in Template /\ TemplateOK(p)
  BY <1>2 DEF RenderInv, TypeOK
<1>4. /\ error # "ok" => Return(g, error)
      /\ error = "ok" /\ c.how # "typed" => Goto(g, "render")
      /\ error = "ok" /\ c.how = "typed" =>
            /\ job' = [job EXCEPT ![g].at = "push"]
            /\ obj' = [obj EXCEPT ![c.on].passed = @ \cup {c.type}]
  BY DEF Validate, Decls
<1>5. CASE error # "ok"
  <2>1. error \in Results
    BY <1>5, ValidateResult DEF Results
  <2> QED  BY <1>4, <1>5, <2>1, ReturnStep
<1>6. ASSUME error = "ok"
      PROVE  Conforms(p.decls, InjectDefaults(p.decls, c.ctx))
  BY <1>3, <1>6, ValidatedConforms DEF Template
<1>7. CASE error = "ok" /\ c.how # "typed"
  <2>1. c.how # "prevalidated"
    BY <1>1, <1>2 DEF CallOK
  <2>2. ASSUME NEW j, j = [c EXCEPT !.at = "render"] PROVE CallOK(j, p)
    <3>1. j.at = "render" /\ j.how = c.how /\ j.ctx = c.ctx /\ j.type = c.type
      BY <1>2, <2>2 DEF Job
    <3> QED  BY <1>2, <1>6, <1>7, <2>1, <3>1 DEF CallOK
  <2>3. Goto(g, "render")
    BY <1>4, <1>7
  <2> QED  BY <1>1, <2>2, <2>3, GotoStep DEF Places
<1>8. CASE error = "ok" /\ c.how = "typed"
  <2>1. PICK q : q = [p EXCEPT !.passed = @ \cup {c.type}]
    OBVIOUS
  <2>2. /\ q \in Template /\ q.decls = p.decls /\ q.live = p.live /\ q.ids = p.ids
        /\ q.passed = p.passed \cup {c.type}
    BY <1>2, <1>3, <2>1 DEF Template, Job
  <2>3. c.ctx \in Contexts[c.type]
    BY <1>1, <1>2, <1>8 DEF CallOK
  <2>4. TemplateOK(q)
    <3>1. \A i \in 1..Len(q.ids) : q.ids[i] \in q.passed
      BY <1>3, <2>2 DEF TemplateOK
    <3>2. ASSUME NEW T \in q.passed, Rigid(T), NEW ctx \in Contexts[T]
          PROVE  Conforms(q.decls, InjectDefaults(q.decls, ctx))
      <4>1. CASE T = c.type
        BY <1>6, <1>8, <2>2, <2>3, <3>2, <4>1 DEF Rigid
      <4>2. CASE T \in p.passed
        BY <1>3, <2>2, <3>2, <4>2 DEF TemplateOK
      <4> QED  BY <2>2, <4>1, <4>2
    <3> QED  BY <3>1, <3>2 DEF TemplateOK
  <2>5. ASSUME NEW j, j = [c EXCEPT !.at = "push"] PROVE CallOK(j, q)
    <3>1. j.at = "push" /\ j.how = c.how /\ j.ctx = c.ctx /\ j.type = c.type
      BY <1>2, <2>5 DEF Job
    <3> QED  BY <1>2, <1>6, <1>8, <2>2, <2>3, <3>1 DEF CallOK
  <2>6. obj' = [obj EXCEPT ![c.on] = q] /\ job' = [job EXCEPT ![g].at = "push"]
    BY <1>4, <1>8, <2>1
  <2>7. q.live /\ p.passed \subseteq q.passed
    BY <1>2, <2>2 DEF CallOK
  <2> QED  BY <1>1, <2>2, <2>4, <2>5, <2>6, <2>7, NoteStep DEF Places
<1> QED  BY <1>5, <1>7, <1>8

LEMMA PushStep == ASSUME RenderInv, NEW g \in Threads, LockPush(g) PROVE RenderInv'
<1> DEFINE c == job[g]
           p == obj[job[g].on]
<1>1. c.at = "push"
  BY DEF LockPush
<1>2. c \in Job /\ CallOK(c, p) /\ c.on \in Objects
  BY <1>1, UnderWay
<1>3. p \in Template /\ TemplateOK(p)
  BY <1>2 DEF RenderInv, TypeOK
<1>4. c.type \in p.passed /\ c.how = "typed" /\ p.live
  BY <1>1, <1>2 DEF CallOK
<1>5. PICK q : q = [p EXCEPT !.ids = Append(@, c.type)]
  OBVIOUS
<1>6. /\ q \in Template /\ q.decls = p.decls /\ q.live = p.live /\ q.passed = p.passed
      /\ q.ids = Append(p.ids, c.type)
  <2>1. p.ids \in Seq(HostTypes) /\ c.type \in HostTypes
    BY <1>2, <1>3 DEF Template, Job
  <2>2. PICK ids : ids = Append(p.ids, c.type)
    OBVIOUS
  <2>3. ids \in Seq(HostTypes)
    BY <2>1, <2>2
  <2>4. q = [p EXCEPT !.ids = ids]
    BY <1>5, <2>2
  <2>5. /\ q \in Template /\ q.decls = p.decls /\ q.live = p.live /\ q.passed = p.passed
        /\ q.ids = ids
    BY <1>3, <2>3, <2>4 DEF Template
  <2> QED  BY <2>2, <2>5
<1>7. TemplateOK(q)
  <2>1. p.ids \in Seq(HostTypes) /\ c.type \in HostTypes
    BY <1>2, <1>3 DEF Template, Job
  <2>2. \A i \in 1..Len(q.ids) : q.ids[i] = c.type \/ (i \in 1..Len(p.ids) /\ q.ids[i] = p.ids[i])
    BY <1>6, <2>1
  <2> QED  BY <1>3, <1>4, <1>6, <2>2 DEF TemplateOK
<1>8. ASSUME NEW j, j = [c EXCEPT !.at = "render"] PROVE CallOK(j, q)
  <2>1. j.at = "render" /\ j.how = c.how /\ j.ctx = c.ctx /\ j.type = c.type
    BY <1>2, <1>8 DEF Job
  <2> QED  BY <1>1, <1>2, <1>4, <1>6, <2>1 DEF CallOK
<1>9. obj' = [obj EXCEPT ![c.on] = q] /\ job' = [job EXCEPT ![g].at = "render"]
  BY <1>5 DEF LockPush
<1> QED  BY <1>1, <1>4, <1>6, <1>7, <1>8, <1>9, NoteStep DEF Places

\* Every step keeps the invariant.
LEMMA StepInv == RenderInv /\ [Next]_vars => RenderInv'
<1> SUFFICES ASSUME RenderInv, [Next]_vars PROVE RenderInv'
  OBVIOUS
<1>1. ASSUME NEW g \in Threads, RenderCore(g) PROVE RenderInv'
  <2>1. PICK result \in {"rendered", "Undefined"} : Return(g, result)
    BY <1>1 DEF RenderCore
  <2> QED  BY <2>1, ReturnStep DEF Results
<1>2. ASSUME NEW g \in Threads, Leave(g) PROVE RenderInv'
  BY <1>2, IdleType, JobStep DEF Leave
<1>3. CASE UNCHANGED vars
  BY <1>3 DEF vars, RenderInv, TypeOK, TemplateOK, JobOK
<1>4. CASE \E o \in Objects : Load(o) \/ Drop(o) \/ \E c \in Objects : Clone(o, c)
  BY <1>4, LoadStep, DropStep, CloneStep
<1>5. CASE \E g \in Threads :
              \/ \E o \in Objects :
                    \/ RenderTyped(g, o) \/ RenderCtx(g, o) \/ RenderCtxUnchecked(g, o)
                    \/ RenderEmpty(g, o) \/ RenderReloaded(g, o) \/ RenderPrevalidated(g, o)
              \/ NotSerializable(g) \/ Compatible(g) \/ Unchanged(g) \/ LockContains(g)
              \/ Validate(g) \/ LockPush(g) \/ RenderCore(g) \/ Leave(g)
  BY <1>1, <1>2, <1>5, BeginStep, EarlyStep, ValidateStep, PushStep
<1> QED  BY <1>3, <1>4, <1>5 DEF Next

LEMMA AlwaysRenderInv == Spec => []RenderInv
  BY InitInv, StepInv, PTL DEF Spec

----------------------------------------------------------------------------
(* The theorems.                                                           *)

\* What a call that renders knows of its context.
LEMMA RenderInvCalls ==
    ASSUME RenderInv, NEW g \in Threads, job[g].at \notin {"idle", "return"}
    PROVE  CallOK(job[g], obj[job[g].on])
  BY UnderWay

\* render::<T> skips validation only where a value of T has passed it, on this
\* template or on one it was cloned from, whatever threads race for the list and
\* whatever is reloaded, cloned and dropped meanwhile.
THEOREM SkipsAreEarned == Spec => []SkipIsEarned
<1>1. ASSUME RenderInv, NEW g \in Threads, job[g].at = "skip"
      PROVE  job[g].type \in obj[job[g].on].passed
  BY <1>1, RenderInvCalls DEF CallOK
<1>2. RenderInv => SkipIsEarned
  BY <1>1 DEF RenderInv, SkipIsEarned
<1> QED  BY <1>2, AlwaysRenderInv, PTL

\* A call that has validated its context renders it complete: every parameter is
\* there, of its declared type.
THEOREM ValidatedRendersComplete == Spec => []ValidatedIsComplete
<1>1. RenderInv => ValidatedIsComplete
  BY RenderInvCalls DEF ValidatedIsComplete, CallOK, Decls, Given
<1> QED  BY <1>1, AlwaysRenderInv, PTL

\* Neither a type whose values have one shape nor a program that compares the
\* declarations before it renders a generated struct unchecked gets a context
\* rendered that does not conform, up to the loose parameters of that struct.
THEOREM UnvalidatedRendersConform == Spec => []UnvalidatedConform
<1>1. ASSUME RenderInv PROVE RigidRendersConform
  <2> SUFFICES ASSUME NEW g \in Threads, job[g].how = "typed",
                      job[g].at \in {"skip", "render"}, Rigid(job[g].type)
               PROVE  Conforms(Decls(g), Given(g))
    BY DEF RigidRendersConform
  <2>1. /\ CallOK(job[g], obj[job[g].on]) /\ job[g].on \in Objects
    BY <1>1, UnderWay
  <2>2. /\ job[g].type \in obj[job[g].on].passed
        /\ job[g].ctx \in Contexts[job[g].type]
    BY <2>1 DEF CallOK
  <2> QED  BY <1>1, <2>1, <2>2 DEF RenderInv, TemplateOK, Decls, Given
<1>2. ASSUME RenderInv PROVE UnchangedMakesUncheckedSafe
  BY <1>2, RenderInvCalls DEF UnchangedMakesUncheckedSafe, CallOK, Decls, Given
<1>3. RenderInv => UnvalidatedConform
  BY <1>1, <1>2 DEF UnvalidatedConform
<1> QED  BY <1>3, AlwaysRenderInv, PTL
=============================================================================
