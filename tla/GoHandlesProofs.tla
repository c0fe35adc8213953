--------------------------- MODULE GoHandlesProofs ---------------------------
(***************************************************************************)
(* Theorems about GoHandles for any goroutines and any handles.            *)
(*                                                                         *)
(* Lifecycle ties a handle's pointer, closeOnce and Rust object together,  *)
(* and says that at most one closer is past closeOnce.  Conduct says which *)
(* of the program's doings can free an object under a call: a Close noted  *)
(* in raced, or a finalizer after the last variable has gone.              *)
(***************************************************************************)
EXTENDS GoHandles, TLAPS

----------------------------------------------------------------------------
(* The parts of the invariant. *)

\* A thread in a method is at one of its steps; a closer has one handle.
Shaped ==
    \A g \in Threads :
        /\ call[g].at = "idle" => call[g] = Idle
        /\ call[g].at \in {"check", "enter", "inC"} =>
               call[g].op \notin {"Close", "none"} /\ g # Collector
        /\ call[g].at \in {"once", "free", "clear"} =>
               call[g].op = "Close" /\ \E h \in Handles : call[g].args = <<h>>
        /\ call[g].at = "check" => call[g].seen < Len(call[g].args)

Freeing(g, h) == Closing(g, h) /\ call[g].at \in {"free", "clear"}

\* Nobody knows a handle that is not constructed.
Unmade(h) ==
    /\ native[h] = "none" /\ once[h] = "new" /\ h \notin armed
    /\ \A g \in Threads : h \notin refs[g] /\ ~InMethod(g, h)

\* closeOnce says how far the object's life is.
Stage(h) ==
    /\ once[h] = "new" => ptr[h] = "none" \/ (ptr[h] = "set" /\ native[h] = "live")
    /\ once[h] = "running" => ptr[h] = "set" /\ \E g \in Threads : Freeing(g, h)
    /\ once[h] = "done" <=> ptr[h] = "nil"
    /\ once[h] = "done" => native[h] = "freed"

\* The closer past closeOnce is alone there.
Closer(g, h) ==
    Freeing(g, h) =>
        /\ once[h] = "running"
        /\ native[h] = IF call[g].at = "free" THEN "live" ELSE "freed"
        /\ \A k \in Threads : Freeing(k, h) => k = g

Lifecycle ==
    \A h \in Handles :
        /\ ptr[h] = "none" => Unmade(h)
        /\ Stage(h)
        /\ \A g \in Threads : Closer(g, h)

\* Who is past closeOnce, or about to run it, or the finalizer, will free the object.
Attended == \A h \in Handles :
    native[h] = "live" => h \in armed \/ \E g \in Threads : Closing(g, h)

\* A handle closed before the method began stays closed.
LateIsNil == \A g \in Threads :
    /\ \A h \in call[g].late : ptr[h] = "nil"
    /\ call[g].at = "inC" => call[g].late = {}

LifeInv == TypeOK /\ Shaped /\ Lifecycle /\ Attended /\ LateIsNil

----------------------------------------------------------------------------
(* What the steps change. *)

\* A closer's only argument is the handle it closes.
LEMMA OneArgument ==
    ASSUME NEW g, NEW h, call[g].args = <<h>>
    PROVE  ArgsOf(g) = {h} /\ Closed(g) = h
<1>1. Len(call[g].args) = 1 /\ call[g].args[1] = h  OBVIOUS
<1> QED  BY <1>1 DEF ArgsOf, Closed

\* The same for the next state.
LEMMA OneArgumentNext ==
    ASSUME NEW g, NEW h, call'[g].args = <<h>>
    PROVE  ArgsOf(g)' = {h} /\ Closed(g)' = h
<1>1. Len(call'[g].args) = 1 /\ call'[g].args[1] = h  OBVIOUS
<1> QED  BY <1>1 DEF ArgsOf, Closed

\* A thread whose call does not change is in the methods it was in.
LEMMA SameCall ==
    ASSUME NEW g, call'[g] = call[g]
    PROVE  /\ ArgsOf(g)' = ArgsOf(g)
           /\ \A h : /\ InMethod(g, h)' <=> InMethod(g, h)
                     /\ Closing(g, h)' <=> Closing(g, h)
                     /\ Using(g, h)' <=> Using(g, h)
                     /\ Freeing(g, h)' <=> Freeing(g, h)
  BY DEF ArgsOf, InMethod, Closing, Using, Freeing

\* An idle thread is in no method.
LEMMA IdleIsOutside ==
    ASSUME NEW g, call[g] = Idle
    PROVE  \A h : ~InMethod(g, h) /\ ~Closing(g, h) /\ ~Using(g, h) /\ ~Freeing(g, h)
  BY DEF Idle, InMethod, Closing, Using, Freeing

\* The same for the next state.
LEMMA ReturnIsOutside ==
    ASSUME NEW g, call'[g] = Idle
    PROVE  \A h : /\ ~InMethod(g, h)' /\ ~Closing(g, h)'
                  /\ ~Using(g, h)' /\ ~Freeing(g, h)'
  BY DEF Idle, InMethod, Closing, Using, Freeing

\* Every method begins with a list of handles.
LEMMA MethodBegins ==
    ASSUME NEW g, Method(g)
    PROVE  \E op \in Ops \ {"Close"}, args \in Seq(Handles) :
               Len(args) > 0 /\ Begin(g, op, args)
<1> DEFINE Begins(op, args) == Begin(g, op, args)
<1> SUFFICES \E op \in Ops \ {"Close"}, args \in Seq(Handles) : Len(args) > 0 /\ Begins(op, args)
  OBVIOUS
<1>1. \A h \in Handles : <<h>> \in Seq(Handles) /\ Len(<<h>>) > 0  OBVIOUS
<1>2. \A h, k \in Handles : <<h, k>> \in Seq(Handles) /\ Len(<<h, k>>) > 0  OBVIOUS
<1>3. \A h, k, m \in Handles : <<h, k, m>> \in Seq(Handles) /\ Len(<<h, k, m>>) > 0  OBVIOUS
<1>4. Templates \subseteq Handles /\ Contexts \subseteq Handles /\ Caches \subseteq Handles
  BY DEF Handles
<1>5. {"Read", "Set", "SetMaxIncludeDepth", "DefaultsContext", "Load"} \subseteq Ops \ {"Close"}
  BY DEF Ops
<1>6. CASE Render(g)
  <2>1. PICK t \in Templates, c \in Contexts : Begins("Read", <<t, c>>)
    BY <1>6 DEF Render
  <2> HIDE DEF Begins
  <2> QED  BY <2>1, <1>2, <1>4, <1>5
<1>7. CASE RenderCached(g)
  <2>1. PICK t \in Templates, c \in Contexts, k \in Caches : Begins("Read", <<t, c, k>>)
    BY <1>7 DEF RenderCached
  <2> HIDE DEF Begins
  <2> QED  BY <2>1, <1>3, <1>4, <1>5
<1>8. CASE SetTmpl(g)
  <2>1. PICK c \in Contexts, t \in Templates : Begins("Set", <<c, t>>)
    BY <1>8 DEF SetTmpl
  <2> HIDE DEF Begins
  <2> QED  BY <2>1, <1>2, <1>4, <1>5
<1>9. CASE RenderData(g) \/ Metadata(g) \/ DefaultsContext(g) \/ Set(g) \/ SetMaxIncludeDepth(g)
           \/ Load(g) \/ CacheInfo(g)
  <2>1. PICK h \in Handles,
             op \in {"Read", "DefaultsContext", "Set", "SetMaxIncludeDepth", "Load"} :
                Begins(op, <<h>>)
    BY <1>4, <1>9
    DEF RenderData, Metadata, DefaultsContext, Set, SetMaxIncludeDepth, Load, CacheInfo
  <2> HIDE DEF Begins
  <2> QED  BY <2>1, <1>1, <1>5
<1> QED  BY <1>6, <1>7, <1>8, <1>9 DEF Method

----------------------------------------------------------------------------
(* Types and shapes. *)

\* A handle that is made keeps the types of what it touches.
LEMMA NewHandleType ==
    ASSUME TypeOK, NEW g \in Threads, NEW h \in Handles, NewHandle(g, h)
    PROVE  /\ ptr' \in [Handles -> {"none", "set", "nil"}]
           /\ armed' \subseteq Handles
           /\ native' \in [Handles -> {"none", "live", "freed"}]
           /\ refs' \in [Threads -> SUBSET Handles]
  BY DEF TypeOK, NewHandle, FfiNew

\* A new call of the right type and shape keeps all calls so.
LEMMA CallTypeStep ==
    ASSUME TypeOK, Shaped, NEW g \in Threads, NEW r \in CallType,
           call' = [call EXCEPT ![g] = r],
           r.late \subseteq {r.args[i] : i \in 1..Len(r.args)},
           r.seen <= Len(r.args),
           r.at = "idle" => r = Idle,
           r.at \in {"check", "enter", "inC"} => r.op \notin {"Close", "none"} /\ g # Collector,
           r.at \in {"once", "free", "clear"} =>
               r.op = "Close" /\ \E h \in Handles : r.args = <<h>>,
           r.at = "check" => r.seen < Len(r.args)
    PROVE  /\ call' \in [Threads -> CallType]
           /\ \A k \in Threads : /\ call'[k].seen <= Len(call'[k].args)
                                 /\ call'[k].late \subseteq ArgsOf(k)'
           /\ Shaped'
<1>1. call' \in [Threads -> CallType] /\ call'[g] = r /\ \A k \in Threads \ {g} : call'[k] = call[k]
  BY DEF TypeOK
<1>2. ArgsOf(g)' = {r.args[i] : i \in 1..Len(r.args)}
  BY <1>1 DEF ArgsOf
<1>3. \A k \in Threads \ {g} : ArgsOf(k)' = ArgsOf(k)
  BY <1>1 DEF ArgsOf
<1>4. Shaped'
  BY <1>1 DEF Shaped, Idle
<1> QED  BY <1>1, <1>2, <1>3, <1>4 DEF TypeOK

\* The idle call has the right type and shape.
LEMMA IdleType == Idle \in CallType /\ Idle.at = "idle" /\ Idle.op = "none" /\ Idle.late = {}
                  /\ Idle.seen = 0 /\ Len(Idle.args) = 0
  BY DEF Idle, CallType

\* So a return keeps the types and shapes of calls.
LEMMA ReturnType ==
    ASSUME TypeOK, Shaped, NEW g \in Threads, Return(g)
    PROVE  /\ call' \in [Threads -> CallType]
           /\ \A k \in Threads : /\ call'[k].seen <= Len(call'[k].args)
                                 /\ call'[k].late \subseteq ArgsOf(k)'
           /\ Shaped'
<1>1. PICK r : r = Idle  OBVIOUS
<1>2. /\ r \in CallType /\ call' = [call EXCEPT ![g] = r]
      /\ r.at = "idle" /\ r.late = {} /\ r.seen <= Len(r.args)
  BY <1>1, IdleType DEF Return
<1> QED  BY <1>1, <1>2, CallTypeStep

\* A step that changes a call and nothing else.
QuietHandles == UNCHANGED <<ptr, once, armed, native, refs>>

\* A method's beginning.
LEMMA BeginType ==
    ASSUME TypeOK, Shaped, NEW g \in Goroutines, NEW op \in Ops \ {"Close"},
           NEW args \in Seq(Handles), Len(args) > 0, Begin(g, op, args),
           raced' \in [Threads -> SUBSET Handles]
    PROVE  TypeOK' /\ Shaped'
<1>1. PICK r : r = [op |-> op, at |-> "check", args |-> args, seen |-> 0,
                    late |-> {args[i] : i \in {j \in 1..Len(args) : once[args[j]] = "done"}}]
  OBVIOUS
<1>2. r.late \subseteq {r.args[i] : i \in 1..Len(r.args)} /\ r.late \subseteq Handles
  BY <1>1
<1>3. r \in CallType
  BY <1>1, <1>2 DEF CallType
<1>4. call' = [call EXCEPT ![g] = r] /\ QuietHandles
  BY <1>1 DEF Begin, QuietHandles
<1>5. /\ r.op \notin {"Close", "none"} /\ r.at = "check" /\ g # Collector /\ g \in Threads
      /\ r.seen < Len(r.args) /\ r.seen <= Len(r.args)
  BY <1>1, HandleAssumptions DEF Ops, Threads
<1>6. /\ call' \in [Threads -> CallType]
      /\ \A k \in Threads : /\ call'[k].seen <= Len(call'[k].args)
                            /\ call'[k].late \subseteq ArgsOf(k)'
      /\ Shaped'
  BY <1>2, <1>3, <1>4, <1>5, CallTypeStep
<1> QED  BY <1>4, <1>6 DEF TypeOK, QuietHandles

\* A step inside a call: to its next stage or back to the caller.
LEMMA AdvanceType ==
    ASSUME TypeOK, Shaped, NEW g \in Threads, NEW r \in CallType,
           call' = [call EXCEPT ![g] = r], call[g].at # "idle",
           r.op = call[g].op, r.args = call[g].args, r.late = call[g].late,
           r.seen <= Len(r.args),
           r.at \in {"check", "enter", "inC"} <=> call[g].at \in {"check", "enter", "inC"},
           r.at \in {"once", "free", "clear"} <=> call[g].at \in {"once", "free", "clear"},
           r.at = "check" => r.seen < Len(r.args)
    PROVE  /\ call' \in [Threads -> CallType]
           /\ \A k \in Threads : /\ call'[k].seen <= Len(call'[k].args)
                                 /\ call'[k].late \subseteq ArgsOf(k)'
           /\ Shaped'
<1>1. r.late \subseteq {r.args[i] : i \in 1..Len(r.args)}
  BY DEF TypeOK, ArgsOf
<1>2. r.at # "idle"
  BY DEF TypeOK, CallType
<1>3. /\ r.at \in {"check", "enter", "inC"} => r.op \notin {"Close", "none"} /\ g # Collector
      /\ r.at \in {"once", "free", "clear"} =>
             r.op = "Close" /\ \E h \in Handles : r.args = <<h>>
  BY DEF Shaped
<1> QED  BY <1>1, <1>2, <1>3, CallTypeStep

\* The beginning of a Close, by the program or by the finalizer.
LEMMA CloseType ==
    ASSUME TypeOK, Shaped, NEW g \in Threads, NEW h \in Handles,
           call' = [call EXCEPT ![g] = [Idle EXCEPT !.op = "Close", !.at = "once", !.args = <<h>>]]
    PROVE  /\ call' \in [Threads -> CallType]
           /\ \A k \in Threads : /\ call'[k].seen <= Len(call'[k].args)
                                 /\ call'[k].late \subseteq ArgsOf(k)'
           /\ Shaped'
<1>1. PICK r : r = [Idle EXCEPT !.op = "Close", !.at = "once", !.args = <<h>>]  OBVIOUS
<1>2. r = [op |-> "Close", at |-> "once", args |-> <<h>>, seen |-> 0, late |-> {}]
  BY <1>1 DEF Idle
<1>3. <<h>> \in Seq(Handles) /\ Len(<<h>>) = 1
  OBVIOUS
<1>4. /\ r.op = "Close" /\ r.at = "once" /\ r.args = <<h>> /\ r.late = {}
      /\ r.seen <= Len(r.args) /\ r \in CallType
  BY <1>2, <1>3 DEF CallType, Ops
<1> QED  BY <1>1, <1>4, CallTypeStep

\* The handles that were raced are handles.
LEMMA RacedType ==
    ASSUME TypeOK, Shaped, [Next]_vars
    PROVE  raced' \in [Threads -> SUBSET Handles]
<1> DEFINE Typed == raced' \in [Threads -> SUBSET Handles]
<1>1. ASSUME NEW g \in Threads, Return(g) PROVE Typed
  BY <1>1 DEF Return, TypeOK
<1>2. ASSUME UNCHANGED raced PROVE Typed
  BY <1>2 DEF TypeOK
<1>3. ASSUME NEW g \in Threads, OnceDo(g) PROVE Typed
  <2>1. PICK h \in Handles : call[g].args = <<h>>
    BY <1>3 DEF OnceDo, Shaped
  <2>2. Closed(g) \in Handles
    BY <2>1, OneArgument
  <2> QED  BY <1>1, <1>3, <2>2 DEF OnceDo, TypeOK
<1>4. ASSUME NEW g \in Threads, Step(g) PROVE Typed
  BY <1>1, <1>2, <1>3, <1>4 DEF Step, CheckOpen, EnterC, LeaveC, FreeNative, ClearPtr
<1>5. ASSUME NEW g \in Goroutines, Method(g) PROVE Typed
  <2>1. PICK op \in Ops \ {"Close"}, args \in Seq(Handles) : Begin(g, op, args)
    BY <1>5, MethodBegins
  <2>2. {args[i] : i \in {j \in 1..Len(args) : once[args[j]] = "running"}} \subseteq Handles
    OBVIOUS
  <2> QED  BY <2>1, <2>2 DEF Begin, TypeOK
<1>6. CASE \/ \E g \in Goroutines :
                BeginClose(g) \/ Share(g) \/ Forget(g) \/ \E h \in Handles : Construct(g, h)
           \/ Finalize \/ UNCHANGED vars
  BY <1>2, <1>6 DEF BeginClose, Share, Forget, Construct, Finalize, vars
<1> QED  BY <1>4, <1>5, <1>6 DEF Next

\* Every step keeps the types and the shapes.
LEMMA TypeStep == TypeOK /\ Shaped /\ [Next]_vars => TypeOK' /\ Shaped'
<1> SUFFICES ASSUME TypeOK, Shaped, [Next]_vars PROVE TypeOK' /\ Shaped'
  OBVIOUS
<1>0. raced' \in [Threads -> SUBSET Handles]
  BY RacedType
<1> USE <1>0
<1> DEFINE CallsTyped ==
        /\ call' \in [Threads -> CallType]
        /\ \A k \in Threads : /\ call'[k].seen <= Len(call'[k].args)
                              /\ call'[k].late \subseteq ArgsOf(k)'
        /\ Shaped'
<1>1. ASSUME CallsTyped, QuietHandles PROVE TypeOK' /\ Shaped'
  BY <1>1 DEF TypeOK, QuietHandles
<1>2. ASSUME call' = call PROVE CallsTyped
  BY <1>2 DEF TypeOK, Shaped, ArgsOf
<1>3. ASSUME NEW g \in Threads, CheckOpen(g) PROVE TypeOK' /\ Shaped'
  <2>1. QuietHandles /\ call[g].at = "check" /\ call[g].seen < Len(call[g].args)
        /\ call[g] \in CallType /\ Len(call[g].args) \in Nat
    BY <1>3 DEF CheckOpen, QuietHandles, Shaped, TypeOK, CallType
  <2>2. CASE Return(g)
    BY <1>1, <2>1, <2>2, ReturnType
  <2>3. CASE ~Return(g)
    <3>1. PICK at : at = IF call[g].seen + 1 = Len(call[g].args) THEN "enter" ELSE "check"  OBVIOUS
    <3>2. PICK r : r = [call[g] EXCEPT !.seen = call[g].seen + 1, !.at = at]  OBVIOUS
    <3>3. call' = [call EXCEPT ![g] = r]
      BY <1>3, <2>3, <3>1, <3>2 DEF CheckOpen, TypeOK, CallType
    <3>4. /\ r.op = call[g].op /\ r.args = call[g].args /\ r.late = call[g].late
          /\ r.at = at /\ r.seen = call[g].seen + 1
      BY <2>1, <3>2 DEF CallType
    <3>5. /\ r.seen <= Len(r.args) /\ (at = "check" => r.seen < Len(r.args))
          /\ call[g].seen + 1 \in Nat
      BY <2>1, <3>1, <3>4 DEF CallType
    <3>6. r \in CallType
      BY <2>1, <3>1, <3>2, <3>5 DEF CallType
    <3>7. CallsTyped
      BY <2>1, <3>1, <3>3, <3>4, <3>5, <3>6, AdvanceType
    <3> QED  BY <1>1, <2>1, <3>7
  <2> QED  BY <2>2, <2>3
<1>4. ASSUME NEW g \in Threads, EnterC(g) PROVE TypeOK' /\ Shaped'
  <2>1. QuietHandles /\ call[g].at = "enter"
    BY <1>4 DEF EnterC, QuietHandles
  <2>2. CASE Return(g)
    BY <1>1, <2>1, <2>2, ReturnType
  <2>3. CASE call' = [call EXCEPT ![g].at = "inC"]
    <3>1. PICK r : r = [call[g] EXCEPT !.at = "inC"]  OBVIOUS
    <3>2. call' = [call EXCEPT ![g] = r] /\ r \in CallType
      <4>1. call[g] \in CallType
        BY DEF TypeOK
      <4>2. r \in CallType
        BY <3>1, <4>1 DEF CallType
      <4> QED  BY <2>3, <3>1, <4>2
    <3>3. CallsTyped
      BY <2>1, <3>1, <3>2, AdvanceType DEF TypeOK, CallType
    <3> QED  BY <1>1, <2>1, <3>3
  <2> QED  BY <1>4, <2>2, <2>3 DEF EnterC
<1>5. ASSUME NEW g \in Threads, LeaveC(g) PROVE TypeOK' /\ Shaped'
  <2>1. CallsTyped
    BY <1>5, ReturnType DEF LeaveC
  <2>2. CASE QuietHandles
    BY <1>1, <2>1, <2>2
  <2>3. CASE UNCHANGED once /\ \E h \in FfiMakes(call[g].op) : NewHandle(g, h)
    <3>1. \E h \in Handles : NewHandle(g, h)
      BY <2>3 DEF FfiMakes, Handles
    <3> QED  BY <2>1, <2>3, <3>1, NewHandleType DEF TypeOK
  <2> QED  BY <1>5, <2>2, <2>3 DEF LeaveC, QuietHandles
<1>6. ASSUME NEW g \in Threads, OnceDo(g) PROVE TypeOK' /\ Shaped'
  <2>1. UNCHANGED <<ptr, armed, native, refs>> /\ call[g].at = "once"
    BY <1>6 DEF OnceDo
  <2>2. CASE Return(g) /\ UNCHANGED once
    BY <1>1, <2>1, <2>2, ReturnType DEF QuietHandles
  <2>3. CASE /\ once' = [once EXCEPT ![Closed(g)] = "running"]
             /\ call' = [call EXCEPT ![g].at = "free"]
    <3>1. PICK r : r = [call[g] EXCEPT !.at = "free"]  OBVIOUS
    <3>2. call' = [call EXCEPT ![g] = r] /\ r \in CallType
      <4>1. call[g] \in CallType
        BY DEF TypeOK
      <4>2. r \in CallType
        BY <3>1, <4>1 DEF CallType
      <4> QED  BY <2>3, <3>1, <4>2
    <3>3. CallsTyped
      BY <2>1, <3>1, <3>2, AdvanceType DEF TypeOK, CallType
    <3> QED  BY <2>1, <2>3, <3>3 DEF TypeOK
  <2> QED  BY <1>6, <2>2, <2>3 DEF OnceDo
<1>7. ASSUME NEW g \in Threads, FreeNative(g) PROVE TypeOK' /\ Shaped'
  <2>1. UNCHANGED <<ptr, armed, refs>> /\ call[g].at = "free"
    BY <1>7 DEF FreeNative
  <2>2. CASE Return(g) /\ UNCHANGED native /\ once' = [once EXCEPT ![Closed(g)] = "done"]
    BY <2>1, <2>2, ReturnType DEF TypeOK
  <2>3. CASE FfiFree(Closed(g)) /\ call' = [call EXCEPT ![g].at = "clear"] /\ UNCHANGED once
    <3>1. PICK r : r = [call[g] EXCEPT !.at = "clear"]  OBVIOUS
    <3>2. call' = [call EXCEPT ![g] = r] /\ r \in CallType
      <4>1. call[g] \in CallType
        BY DEF TypeOK
      <4>2. r \in CallType
        BY <3>1, <4>1 DEF CallType
      <4> QED  BY <2>3, <3>1, <4>2
    <3>3. CallsTyped
      BY <2>1, <3>1, <3>2, AdvanceType DEF TypeOK, CallType
    <3> QED  BY <2>1, <2>3, <3>3 DEF TypeOK, FfiFree
  <2> QED  BY <1>7, <2>2, <2>3 DEF FreeNative
<1>8. ASSUME NEW g \in Threads, ClearPtr(g) PROVE TypeOK' /\ Shaped'
  BY <1>8, ReturnType DEF ClearPtr, TypeOK
<1>9. ASSUME NEW g \in Goroutines, NEW h \in Handles, Construct(g, h) PROVE TypeOK' /\ Shaped'
  <2>1. CallsTyped
    BY <1>2, <1>9 DEF Construct
  <2> QED  BY <1>9, <2>1, NewHandleType DEF Construct, TypeOK, Threads
<1>10. ASSUME NEW g \in Goroutines, Method(g) PROVE TypeOK' /\ Shaped'
  BY <1>10, MethodBegins, BeginType
<1>11. ASSUME NEW g \in Goroutines, BeginClose(g) PROVE TypeOK' /\ Shaped'
  <2>1. PICK h \in refs[g] :
          call' = [call EXCEPT ![g] = [Idle EXCEPT !.op = "Close", !.at = "once", !.args = <<h>>]]
    BY <1>11 DEF BeginClose
  <2>2. g \in Threads /\ h \in Handles
    BY DEF Threads, TypeOK
  <2>3. CallsTyped
    BY <2>1, <2>2, CloseType
  <2> QED  BY <1>1, <1>11, <2>3 DEF BeginClose, QuietHandles
<1>12. ASSUME NEW g \in Goroutines, Share(g) \/ Forget(g) PROVE TypeOK' /\ Shaped'
  <2>1. CallsTyped
    BY <1>2, <1>12 DEF Share, Forget
  <2>2. refs' \in [Threads -> SUBSET Handles]
    BY <1>12 DEF Share, Forget, TypeOK, Threads
  <2> QED  BY <1>12, <2>1, <2>2 DEF Share, Forget, TypeOK
<1>13. CASE Finalize
  <2>1. PICK h \in armed :
          /\ armed' = armed \ {h}
          /\ call' = [call EXCEPT ![Collector] =
                         [Idle EXCEPT !.op = "Close", !.at = "once", !.args = <<h>>]]
    BY <1>13 DEF Finalize
  <2>2. Collector \in Threads /\ h \in Handles
    BY DEF Threads, TypeOK
  <2>3. CallsTyped
    BY <2>1, <2>2, CloseType
  <2> QED  BY <1>13, <2>1, <2>3 DEF Finalize, TypeOK
<1>14. CASE UNCHANGED vars
  BY <1>1, <1>2, <1>14 DEF vars, QuietHandles
<1> QED
  BY <1>3, <1>4, <1>5, <1>6, <1>7, <1>8, <1>9, <1>10, <1>11, <1>12, <1>13, <1>14
  DEF Next, Step

----------------------------------------------------------------------------
(* The life of a handle.                                                   *)

\* A closer is in the method Close of its one handle, and of no other.
LEMMA CloserHas ==
    ASSUME TypeOK, Shaped, NEW g \in Threads, call[g].at \in {"once", "free", "clear"}
    PROVE  /\ Closed(g) \in Handles
           /\ \A h : Closing(g, h) <=> h = Closed(g)
           /\ \A h : Freeing(g, h) <=> h = Closed(g) /\ call[g].at # "once"
<1>1. PICK h \in Handles : call[g].args = <<h>>
  BY DEF Shaped
<1>2. ArgsOf(g) = {h} /\ Closed(g) = h /\ call[g].op = "Close"
  BY <1>1, OneArgument DEF Shaped
<1> QED  BY <1>2 DEF Closing, InMethod, Freeing

\* Who is not closing, frees nothing.
LEMMA NotFreeing ==
    ASSUME NEW g, call[g].at \notin {"free", "clear"}
    PROVE  \A h : ~Freeing(g, h)
  BY DEF Freeing

\* A step that leaves pointers, closeOnce and objects alone, and lets no
\* closer past closeOnce, leaves the life of the handles as it is.
LEMMA LifeQuiet ==
    ASSUME TypeOK, Lifecycle, NEW g \in Threads,
           \A k \in Threads \ {g} : call'[k] = call[k],
           UNCHANGED <<ptr, once, native>>, armed' \subseteq armed,
           \A h \in Handles : /\ ~Freeing(g, h) /\ ~Freeing(g, h)'
                              /\ InMethod(g, h)' => ptr[h] # "none",
           \A k \in Threads, h \in Handles : h \in refs'[k] => h \in refs[k] \/ ptr[h] # "none"
    PROVE  Lifecycle'
<1>1. \A k \in Threads, h \in Handles : Freeing(k, h)' <=> Freeing(k, h)
  BY SameCall
<1>2. \A k \in Threads, h \in Handles : InMethod(k, h)' => InMethod(k, h) \/ ptr[h] # "none"
  BY SameCall
<1> SUFFICES ASSUME NEW h \in Handles
             PROVE  /\ ptr'[h] = "none" => Unmade(h)'
                    /\ Stage(h)'
                    /\ \A k \in Threads : Closer(k, h)'
  BY DEF Lifecycle
<1>3. ptr'[h] = "none" => Unmade(h)'
  BY <1>2 DEF Lifecycle, Unmade
<1>4. Stage(h)'
  BY <1>1 DEF Lifecycle, Stage
<1>5. ASSUME NEW k \in Threads, Freeing(k, h)' PROVE Closer(k, h)'
  <2>1. call'[k] = call[k] /\ Closer(k, h) /\ Freeing(k, h)
    BY <1>1, <1>5 DEF Lifecycle
  <2> QED  BY <1>1, <2>1 DEF Closer
<1> QED  BY <1>3, <1>4, <1>5 DEF Closer

\* Making a handle begins its life and touches no other.
LEMMA LifeBegins ==
    ASSUME TypeOK, Lifecycle, NEW g \in Threads, NEW n \in Handles, NewHandle(g, n),
           \A k \in Threads \ {g} : call'[k] = call[k], UNCHANGED once,
           \A h \in Handles : /\ ~Freeing(g, h) /\ ~Freeing(g, h)'
                              /\ InMethod(g, h)' => InMethod(g, h)
    PROVE  Lifecycle'
<1>0. \A k \in Threads, h \in Handles : Freeing(k, h)' <=> Freeing(k, h)
  BY SameCall
<1>1. \A k \in Threads, h \in Handles : InMethod(k, h)' => InMethod(k, h)
  BY SameCall
<1>2. Unmade(n)
  BY DEF NewHandle, Lifecycle
<1>3. /\ ptr'[n] = "set" /\ native'[n] = "live"
      /\ \A h \in Handles \ {n} :
            /\ ptr'[h] = ptr[h] /\ native'[h] = native[h] /\ (h \in armed' <=> h \in armed)
            /\ \A k \in Threads : h \in refs'[k] => h \in refs[k]
  BY DEF NewHandle, FfiNew, TypeOK
<1> SUFFICES ASSUME NEW h \in Handles
             PROVE  /\ ptr'[h] = "none" => Unmade(h)'
                    /\ Stage(h)'
                    /\ \A k \in Threads : Closer(k, h)'
  BY DEF Lifecycle
<1>4. CASE h = n
  <2>1. \A k \in Threads : ~Freeing(k, n)'
    BY <1>0, <1>2 DEF Unmade, Freeing, Closing
  <2>2. Stage(n)'
    BY <1>2, <1>3 DEF Unmade, Stage
  <2> QED  BY <1>3, <1>4, <2>1, <2>2 DEF Closer
<1>5. CASE h # n
  <2>1. ptr'[h] = "none" => Unmade(h)'
    BY <1>1, <1>3, <1>5 DEF Lifecycle, Unmade
  <2>2. Stage(h)'
    BY <1>0, <1>3, <1>5 DEF Lifecycle, Stage
  <2>3. ASSUME NEW k \in Threads, Freeing(k, h)' PROVE Closer(k, h)'
    <3>1. call'[k] = call[k] /\ Closer(k, h) /\ Freeing(k, h)
      BY <1>0, <2>3 DEF Lifecycle
    <3>2. native'[h] = native[h] /\ once'[h] = once[h]
      BY <1>3, <1>5
    <3> QED  BY <1>0, <3>1, <3>2 DEF Closer
  <2> QED  BY <2>1, <2>2, <2>3 DEF Closer
<1> QED  BY <1>4, <1>5

\* A step of a closer changes only its handle's life.
LEMMA LifeOfOthers ==
    ASSUME TypeOK, Lifecycle, NEW g \in Threads, NEW c \in Handles,
           \A k \in Threads \ {g} : call'[k] = call[k], UNCHANGED <<armed, refs>>,
           \A h \in Handles \ {c} :
               /\ ptr'[h] = ptr[h] /\ once'[h] = once[h] /\ native'[h] = native[h]
               /\ ~Freeing(g, h) /\ ~Freeing(g, h)' /\ ~InMethod(g, h)',
           ptr'[c] # "none", Stage(c)', \A k \in Threads : Closer(k, c)'
    PROVE  Lifecycle'
<1>0. \A k \in Threads, h \in Handles \ {c} : Freeing(k, h)' <=> Freeing(k, h)
  BY SameCall
<1>1. \A k \in Threads, h \in Handles \ {c} : InMethod(k, h)' => InMethod(k, h)
  BY SameCall
<1> SUFFICES ASSUME NEW h \in Handles \ {c}
             PROVE  /\ ptr'[h] = "none" => Unmade(h)'
                    /\ Stage(h)'
                    /\ \A k \in Threads : Closer(k, h)'
  BY DEF Lifecycle
<1>2. ptr'[h] = "none" => Unmade(h)'
  BY <1>1 DEF Lifecycle, Unmade
<1>3. Stage(h)'
  BY <1>0 DEF Lifecycle, Stage
<1>4. ASSUME NEW k \in Threads, Freeing(k, h)' PROVE Closer(k, h)'
  <2>1. call'[k] = call[k] /\ Closer(k, h) /\ Freeing(k, h)
    BY <1>0, <1>4 DEF Lifecycle
  <2>2. native'[h] = native[h] /\ once'[h] = once[h]
    OBVIOUS
  <2> QED  BY <1>0, <2>1, <2>2 DEF Closer
<1> QED  BY <1>2, <1>3, <1>4 DEF Closer

\* A closer passes closeOnce: nobody is past it, and the object is live.
LEMMA LifeOnceDo ==
    ASSUME TypeOK, Shaped, Lifecycle, TypeOK', Shaped', NEW g \in Threads, OnceDo(g)
    PROVE  Lifecycle'
<1>1. /\ call[g].at = "once" /\ UNCHANGED <<ptr, armed, native, refs>>
      /\ \A k \in Threads \ {g} : call'[k] = call[k]
  BY DEF OnceDo, Return, TypeOK
<1>2. PICK c \in Handles : /\ c = Closed(g)
                           /\ \A h : Closing(g, h) <=> h = c
                           /\ \A h : ~Freeing(g, h)
  BY <1>1, CloserHas
<1>3. CASE Return(g) /\ UNCHANGED once
  <2>1. call'[g] = Idle
    BY <1>3 DEF Return, TypeOK
  <2>2. \A h \in Handles : ~Freeing(g, h) /\ ~Freeing(g, h)' /\ ~InMethod(g, h)'
    BY <1>2, <2>1, ReturnIsOutside
  <2>3. UNCHANGED <<ptr, once, native>> /\ armed' \subseteq armed /\ refs' = refs
    BY <1>1, <1>3
  <2> QED  BY <1>1, <2>2, <2>3, LifeQuiet
<1>4. CASE /\ once[c] = "new" /\ once' = [once EXCEPT ![c] = "running"]
           /\ call' = [call EXCEPT ![g].at = "free"]
  <2>1. call'[g] = [call[g] EXCEPT !.at = "free"] /\ call[g] \in CallType
    BY <1>4 DEF TypeOK
  <2>2. call'[g].args = call[g].args /\ call'[g].op = call[g].op /\ call'[g].at = "free"
    BY <2>1 DEF CallType
  <2>3. PICK d \in Handles : call[g].args = <<d>> /\ call[g].op = "Close"
    BY <1>1 DEF Shaped
  <2>4. d = c /\ ArgsOf(g)' = {c}
    BY <1>2, <2>2, <2>3, OneArgument, OneArgumentNext
  <2>5. \A h : (Freeing(g, h)' <=> h = c) /\ (InMethod(g, h)' <=> h = c)
    BY <2>2, <2>3, <2>4 DEF Freeing, Closing, InMethod
  <2>6. Stage(c) /\ (ptr[c] = "none" => Unmade(c)) /\ \A k \in Threads : Closer(k, c)
    BY DEF Lifecycle
  <2>7. InMethod(g, c)
    <3>1. Closing(g, c)
      BY <1>2
    <3> QED  BY <3>1 DEF Closing
  <2>8. ptr[c] = "set" /\ native[c] = "live"
    BY <1>4, <2>6, <2>7 DEF Stage, Unmade
  <2>9. \A k \in Threads \ {g} : ~Freeing(k, c) /\ ~Freeing(k, c)'
    BY <1>1, <1>4, <2>6, SameCall DEF Closer
  <2>10. once'[c] = "running" /\ \A h \in Handles \ {c} : once'[h] = once[h]
    BY <1>4 DEF TypeOK
  <2>11. Stage(c)'
    BY <1>1, <2>5, <2>8, <2>10 DEF Stage
  <2>12. \A k \in Threads : Closer(k, c)'
    BY <1>1, <2>2, <2>8, <2>9, <2>10 DEF Closer
  <2>13. \A h \in Handles \ {c} :
            /\ ptr'[h] = ptr[h] /\ once'[h] = once[h] /\ native'[h] = native[h]
            /\ ~Freeing(g, h) /\ ~Freeing(g, h)' /\ ~InMethod(g, h)'
    BY <1>1, <1>2, <2>5, <2>10
  <2>14. ptr'[c] # "none" /\ UNCHANGED <<armed, refs>>
    BY <1>1, <2>8
  <2> QED  BY <1>1, <2>11, <2>12, <2>13, <2>14, LifeOfOthers
<1> QED  BY <1>2, <1>3, <1>4 DEF OnceDo

\* A closer frees the object: it was live, and the closer is alone.
LEMMA LifeFreeNative ==
    ASSUME TypeOK, Shaped, Lifecycle, TypeOK', Shaped', NEW g \in Threads, FreeNative(g)
    PROVE  Lifecycle' /\ ~Return(g) /\ native'[Closed(g)] = "freed"
<1>1. call[g].at = "free" /\ UNCHANGED <<ptr, armed, refs>>
  BY DEF FreeNative
<1>2. PICK c \in Handles : c = Closed(g) /\ \A h : Freeing(g, h) <=> h = c
  BY <1>1, CloserHas
<1>3. Stage(c) /\ \A k \in Threads : Closer(k, c)
  BY DEF Lifecycle
<1>4. ptr[c] = "set" /\ once[c] = "running" /\ \A k \in Threads \ {g} : ~Freeing(k, c)
  BY <1>2, <1>3 DEF Closer, Stage
<1>5. /\ native' = [native EXCEPT ![c] = "freed"] /\ UNCHANGED once
      /\ call' = [call EXCEPT ![g].at = "clear"]
  BY <1>2, <1>4 DEF FreeNative, FfiFree
<1>6. call'[g] = [call[g] EXCEPT !.at = "clear"] /\ call[g] \in CallType
  BY <1>5 DEF TypeOK
<1>7. call'[g].args = call[g].args /\ call'[g].op = call[g].op /\ call'[g].at = "clear"
  BY <1>6 DEF CallType
<1>8. PICK d \in Handles : call[g].args = <<d>> /\ call[g].op = "Close"
  BY <1>1 DEF Shaped
<1>9. d = c /\ ArgsOf(g)' = {c}
  BY <1>2, <1>7, <1>8, OneArgument, OneArgumentNext
<1>10. \A h : (Freeing(g, h)' <=> h = c) /\ (InMethod(g, h)' <=> h = c)
  BY <1>7, <1>8, <1>9 DEF Freeing, Closing, InMethod
<1>11. \A k \in Threads \ {g} : call'[k] = call[k] /\ ~Freeing(k, c)'
  BY <1>4, <1>5, SameCall DEF TypeOK
<1>12. native'[c] = "freed" /\ \A h \in Handles \ {c} : native'[h] = native[h]
  BY <1>5 DEF TypeOK
<1>13. Stage(c)'
  BY <1>1, <1>4, <1>5, <1>10 DEF Stage
<1>14. \A k \in Threads : Closer(k, c)'
  BY <1>4, <1>5, <1>7, <1>11, <1>12 DEF Closer
<1>15. Lifecycle'
  BY <1>1, <1>2, <1>4, <1>5, <1>10, <1>11, <1>12, <1>13, <1>14, LifeOfOthers
<1>16. ~Return(g)
  BY <1>7 DEF Return, Idle, TypeOK
<1> QED  BY <1>2, <1>12, <1>15, <1>16

\* A closer clears the pointer, and closeOnce is done.
LEMMA LifeClearPtr ==
    ASSUME TypeOK, Shaped, Lifecycle, TypeOK', Shaped', NEW g \in Threads, ClearPtr(g)
    PROVE  Lifecycle' /\ native[Closed(g)] = "freed"
<1>1. call[g].at = "clear" /\ UNCHANGED <<armed, native, refs>>
  BY DEF ClearPtr
<1>2. PICK c \in Handles : c = Closed(g) /\ \A h : Freeing(g, h) <=> h = c
  BY <1>1, CloserHas
<1>3. Stage(c) /\ \A k \in Threads : Closer(k, c)
  BY DEF Lifecycle
<1>4. native[c] = "freed" /\ \A k \in Threads \ {g} : ~Freeing(k, c)
  BY <1>1, <1>2, <1>3 DEF Closer
<1>5. call'[g] = Idle /\ \A k \in Threads \ {g} : call'[k] = call[k]
  BY DEF ClearPtr, Return, TypeOK
<1>6. \A h : ~Freeing(g, h)' /\ ~InMethod(g, h)'
  BY <1>5, ReturnIsOutside
<1>7. \A k \in Threads : ~Freeing(k, c)'
  BY <1>4, <1>5, <1>6, SameCall
<1>8. /\ ptr'[c] = "nil" /\ once'[c] = "done"
      /\ \A h \in Handles \ {c} : ptr'[h] = ptr[h] /\ once'[h] = once[h]
  BY <1>2 DEF ClearPtr, TypeOK
<1>9. Stage(c)' /\ \A k \in Threads : Closer(k, c)'
  BY <1>1, <1>4, <1>7, <1>8 DEF Stage, Closer
<1>10. Lifecycle'
  BY <1>1, <1>2, <1>5, <1>6, <1>8, <1>9, LifeOfOthers
<1> QED  BY <1>2, <1>4, <1>10

\* A call that begins, moves on or ends outside the region past closeOnce.
LEMMA LifeCall ==
    ASSUME TypeOK, Lifecycle, NEW g \in Threads,
           \A k \in Threads \ {g} : call'[k] = call[k],
           UNCHANGED <<ptr, once, native, refs>>, armed' \subseteq armed,
           call[g].at \notin {"free", "clear"}, call'[g].at \notin {"free", "clear"},
           \A h \in Handles : InMethod(g, h)' => ptr[h] # "none"
    PROVE  Lifecycle'
<1>1. \A h \in Handles : ~Freeing(g, h) /\ ~Freeing(g, h)'
  BY DEF Freeing
<1>2. UNCHANGED <<ptr, once, native>> /\ refs' = refs
  OBVIOUS
<1> QED  BY <1>1, <1>2, LifeQuiet

\* What a thread refers to, or has as an argument, is made.
LEMMA KnownIsMade ==
    ASSUME Lifecycle, NEW g \in Threads, NEW h \in Handles, h \in refs[g] \/ InMethod(g, h)
    PROVE  ptr[h] # "none"
  BY DEF Lifecycle, Unmade

\* Every step keeps the lives of the handles in order.
LEMMA LifeStep == TypeOK /\ Shaped /\ Lifecycle /\ [Next]_vars => Lifecycle'
<1> SUFFICES ASSUME TypeOK, Shaped, Lifecycle, [Next]_vars PROVE Lifecycle'
  OBVIOUS
<1>0. TypeOK' /\ Shaped'
  BY TypeStep
<1>1. ASSUME NEW g \in Threads, CheckOpen(g) \/ EnterC(g) PROVE Lifecycle'
  <2>1. /\ call[g].at \in {"check", "enter"} /\ UNCHANGED <<ptr, once, armed, native, refs>>
        /\ \A k \in Threads \ {g} : call'[k] = call[k]
    BY <1>1 DEF CheckOpen, EnterC, Return, TypeOK
  <2>2. \/ call'[g] = Idle
        \/ call'[g].at \in {"check", "enter", "inC"} /\ call'[g].args = call[g].args
    BY <1>1 DEF CheckOpen, EnterC, Return, TypeOK, CallType
  <2>3. \A h \in Handles : InMethod(g, h)' => InMethod(g, h)
    BY <2>1, <2>2 DEF Idle, InMethod, ArgsOf
  <2>4. call'[g].at \notin {"free", "clear"}
    BY <2>2 DEF Idle
  <2> QED  BY <2>1, <2>3, <2>4, KnownIsMade, LifeCall
<1>2. ASSUME NEW g \in Threads, LeaveC(g) PROVE Lifecycle'
  <2>1. call'[g] = Idle /\ call[g].at = "inC" /\ \A k \in Threads \ {g} : call'[k] = call[k]
    BY <1>2 DEF LeaveC, Return, TypeOK
  <2>2. \A h : ~InMethod(g, h)' /\ ~Freeing(g, h)'
    BY <2>1, ReturnIsOutside
  <2>3. \A h : ~Freeing(g, h)
    BY <2>1, NotFreeing
  <2>4. CASE UNCHANGED <<ptr, once, armed, native, refs>>
    BY <2>1, <2>2, <2>3, <2>4, LifeQuiet
  <2>5. CASE UNCHANGED once /\ \E h \in FfiMakes(call[g].op) : NewHandle(g, h)
    <3>1. PICK h \in Handles : NewHandle(g, h)
      BY <2>5 DEF FfiMakes, Handles
    <3> QED  BY <2>1, <2>2, <2>3, <2>5, <3>1, LifeBegins
  <2> QED  BY <1>2, <2>4, <2>5 DEF LeaveC
<1>3. ASSUME NEW g \in Threads, OnceDo(g) PROVE Lifecycle'
  BY <1>0, <1>3, LifeOnceDo
<1>4. ASSUME NEW g \in Threads, FreeNative(g) PROVE Lifecycle'
  BY <1>0, <1>4, LifeFreeNative
<1>5. ASSUME NEW g \in Threads, ClearPtr(g) PROVE Lifecycle'
  BY <1>0, <1>5, LifeClearPtr
<1>6. ASSUME NEW g \in Goroutines, NEW h \in Handles, Construct(g, h) PROVE Lifecycle'
  <2>1. g \in Threads /\ call[g] = Idle /\ call' = call /\ UNCHANGED once /\ NewHandle(g, h)
    BY <1>6 DEF Construct, Threads
  <2>2. \A m : ~InMethod(g, m)' /\ ~Freeing(g, m)' /\ ~Freeing(g, m)
    BY <2>1, IdleIsOutside, ReturnIsOutside
  <2> QED  BY <2>1, <2>2, LifeBegins
<1>7. ASSUME NEW g \in Goroutines, NEW op \in Ops \ {"Close"}, NEW args \in Seq(Handles),
             Begin(g, op, args)
      PROVE  Lifecycle'
  <2>1. /\ g \in Threads /\ call[g] = Idle /\ UNCHANGED <<ptr, once, armed, native, refs>>
        /\ \A k \in Threads \ {g} : call'[k] = call[k]
        /\ call'[g].at = "check" /\ call'[g].args = args
        /\ \A i \in 1..Len(args) : args[i] \in refs[g]
    BY <1>7 DEF Begin, TypeOK, Threads
  <2>2. \A h \in Handles : InMethod(g, h)' => h \in refs[g]
    BY <2>1 DEF InMethod, ArgsOf
  <2>3. call[g].at \notin {"free", "clear"}
    BY <2>1 DEF Idle
  <2> QED  BY <2>1, <2>2, <2>3, KnownIsMade, LifeCall
<1>8. ASSUME NEW g \in Threads, NEW h \in Handles, call[g] = Idle, ptr[h] # "none",
             UNCHANGED <<ptr, once, native, refs>>, armed' \subseteq armed,
             call' = [call EXCEPT ![g] =
                         [Idle EXCEPT !.op = "Close", !.at = "once", !.args = <<h>>]]
      PROVE  Lifecycle'
  <2>1. /\ call'[g] = [Idle EXCEPT !.op = "Close", !.at = "once", !.args = <<h>>]
        /\ \A k \in Threads \ {g} : call'[k] = call[k]
    BY <1>8 DEF TypeOK
  <2>2. call'[g].at = "once" /\ call'[g].args = <<h>>
    BY <2>1 DEF Idle
  <2>3. ArgsOf(g)' = {h} /\ call[g].at = "idle"
    BY <1>8, <2>2, OneArgumentNext, IdleType
  <2>4. \A m \in Handles : InMethod(g, m)' => ptr[m] # "none"
    BY <1>8, <2>3 DEF InMethod
  <2> QED  BY <1>8, <2>1, <2>2, <2>3, <2>4, LifeCall
<1>9. ASSUME NEW g \in Goroutines, BeginClose(g) PROVE Lifecycle'
  <2>1. PICK h \in refs[g] :
          call' = [call EXCEPT ![g] = [Idle EXCEPT !.op = "Close", !.at = "once", !.args = <<h>>]]
    BY <1>9 DEF BeginClose
  <2>2. g \in Threads /\ h \in Handles
    BY DEF Threads, TypeOK
  <2> QED  BY <1>8, <1>9, <2>1, <2>2, KnownIsMade DEF BeginClose
<1>10. CASE Finalize
  <2>1. PICK h \in armed :
          /\ armed' = armed \ {h}
          /\ call' = [call EXCEPT ![Collector] =
                         [Idle EXCEPT !.op = "Close", !.at = "once", !.args = <<h>>]]
    BY <1>10 DEF Finalize
  <2>2. Collector \in Threads /\ h \in Handles /\ ptr[h] # "none"
    BY DEF Threads, TypeOK, Lifecycle, Unmade
  <2> QED  BY <1>8, <1>10, <2>1, <2>2 DEF Finalize
<1>11. ASSUME NEW g \in Goroutines, Share(g) \/ Forget(g) PROVE Lifecycle'
  <2>1. /\ g \in Threads /\ UNCHANGED <<ptr, once, armed, native, call>>
        /\ \A k \in Threads, h \in Handles : h \in refs'[k] => \E m \in Threads : h \in refs[m]
    BY <1>11 DEF Share, Forget, TypeOK, Threads
  <2>2. \A k \in Threads, h \in Handles : h \in refs'[k] => ptr[h] # "none"
    BY <2>1, KnownIsMade
  <2>3. \A k \in Threads, h \in Handles : Freeing(k, h)' <=> Freeing(k, h)
    BY <2>1, SameCall
  <2>4. \A k \in Threads, h \in Handles : InMethod(k, h)' <=> InMethod(k, h)
    BY <2>1, SameCall
  <2>5. \A h \in Handles : ptr'[h] = "none" => Unmade(h)'
    BY <2>1, <2>2, <2>4 DEF Lifecycle, Unmade
  <2>6. \A h \in Handles : Stage(h)'
    BY <2>1, <2>3 DEF Lifecycle, Stage
  <2>7. ASSUME NEW h \in Handles, NEW k \in Threads, Freeing(k, h)' PROVE Closer(k, h)'
    <3>1. Freeing(k, h) /\ Closer(k, h) /\ call'[k] = call[k]
      BY <2>1, <2>3, <2>7 DEF Lifecycle
    <3> QED  BY <2>1, <2>3, <3>1 DEF Closer
  <2> QED  BY <2>5, <2>6, <2>7 DEF Lifecycle, Closer
<1>12. CASE UNCHANGED vars
  BY <1>12 DEF vars, Lifecycle, Unmade, Stage, Closer, Freeing, Closing, InMethod, ArgsOf
<1> QED
  BY <1>1, <1>2, <1>3, <1>4, <1>5, <1>6, <1>7, <1>9, <1>10, <1>11, <1>12, MethodBegins
  DEF Next, Step

----------------------------------------------------------------------------
(* What holds of every program.                                            *)

\* A step that starts or ends no Close, and frees and disarms nothing.
LEMMA AttendedStays ==
    ASSUME TypeOK, Attended, NEW g \in Threads,
           \A k \in Threads \ {g} : call'[k] = call[k],
           armed \subseteq armed',
           \A h \in Handles : native'[h] = "live" => native[h] = "live" \/ h \in armed',
           \A h \in Handles : Closing(g, h) => Closing(g, h)' \/ native'[h] # "live"
    PROVE  Attended'
<1>1. \A k \in Threads \ {g}, h \in Handles : Closing(k, h) => Closing(k, h)'
  BY SameCall
<1> QED  BY <1>1 DEF Attended

\* Every step leaves somebody in charge of each live object.
LEMMA AttendedStep ==
    TypeOK /\ Shaped /\ Lifecycle /\ Attended /\ [Next]_vars => Attended'
<1> SUFFICES ASSUME TypeOK, Shaped, Lifecycle, Attended, [Next]_vars PROVE Attended'
  OBVIOUS
<1>0. TypeOK' /\ Shaped'
  BY TypeStep
<1>1. ASSUME NEW g \in Threads, CheckOpen(g) \/ EnterC(g) \/ LeaveC(g) PROVE Attended'
  <2>1. /\ call[g].at \in {"check", "enter", "inC"}
        /\ \A k \in Threads \ {g} : call'[k] = call[k]
    BY <1>1 DEF CheckOpen, EnterC, LeaveC, Return, TypeOK
  <2>2. \A h : ~Closing(g, h)
    BY <2>1 DEF Closing, Shaped
  <2>3. CASE UNCHANGED <<armed, native>>
    BY <2>1, <2>2, <2>3, AttendedStays
  <2>4. CASE \E h \in FfiMakes(call[g].op) : NewHandle(g, h)
    <3>1. PICK h \in Handles : NewHandle(g, h)
      BY <2>4 DEF FfiMakes, Handles
    <3>2. /\ armed \subseteq armed' /\ h \in armed'
          /\ \A m \in Handles \ {h} : native'[m] = native[m]
      BY <3>1 DEF NewHandle, FfiNew, TypeOK
    <3> QED  BY <2>1, <2>2, <3>2, AttendedStays
  <2> QED  BY <1>1, <2>3, <2>4 DEF CheckOpen, EnterC, LeaveC
<1>2. ASSUME NEW g \in Threads, OnceDo(g) PROVE Attended'
  <2>1. /\ call[g].at = "once" /\ UNCHANGED <<armed, native>>
        /\ \A k \in Threads \ {g} : call'[k] = call[k]
    BY <1>2 DEF OnceDo, Return, TypeOK
  <2>2. PICK c \in Handles : c = Closed(g) /\ \A h : Closing(g, h) <=> h = c
    BY <2>1, CloserHas
  <2>3. CASE once[c] = "done"
    <3>1. native[c] = "freed"
      BY <2>3 DEF Lifecycle, Stage
    <3> QED  BY <2>1, <2>2, <3>1, AttendedStays
  <2>4. CASE call' = [call EXCEPT ![g].at = "free"]
    <3>1. call'[g] = [call[g] EXCEPT !.at = "free"] /\ call[g] \in CallType
      BY <2>4 DEF TypeOK
    <3>2. call'[g].args = call[g].args /\ call'[g].op = call[g].op /\ call'[g].at = "free"
      BY <3>1 DEF CallType
    <3>3. ArgsOf(g)' = ArgsOf(g)
      BY <3>2 DEF ArgsOf
    <3>4. \A h : Closing(g, h) => Closing(g, h)'
      BY <3>2, <3>3 DEF Closing, InMethod
    <3> QED  BY <2>1, <3>4, AttendedStays
  <2> QED  BY <1>2, <2>2, <2>3, <2>4 DEF OnceDo
<1>3. ASSUME NEW g \in Threads, FreeNative(g) \/ ClearPtr(g) PROVE Attended'
  <2>1. /\ call[g].at \in {"free", "clear"} /\ UNCHANGED armed
        /\ \A k \in Threads \ {g} : call'[k] = call[k]
    BY <1>3 DEF FreeNative, ClearPtr, Return, TypeOK
  <2>2. PICK c \in Handles : c = Closed(g) /\ \A h : Closing(g, h) <=> h = c
    BY <2>1, CloserHas
  <2>3. native'[c] = "freed" /\ \A h \in Handles \ {c} : native'[h] = native[h]
    <3>1. CASE FreeNative(g)
      <4>1. native'[c] = "freed"
        BY <1>0, <2>2, <3>1, LifeFreeNative
      <4>2. \A h \in Handles \ {c} : native'[h] = native[h]
        BY <2>2, <3>1 DEF FreeNative, FfiFree, TypeOK
      <4> QED  BY <4>1, <4>2
    <3>2. CASE ClearPtr(g)
      <4>1. native[c] = "freed"
        BY <1>0, <2>2, <3>2, LifeClearPtr
      <4> QED  BY <3>2, <4>1 DEF ClearPtr
    <3> QED  BY <1>3, <3>1, <3>2
  <2> QED  BY <2>1, <2>2, <2>3, AttendedStays
<1>4. ASSUME NEW g \in Goroutines, NEW h \in Handles, Construct(g, h) PROVE Attended'
  <2>1. g \in Threads /\ call[g] = Idle /\ call' = call
    BY <1>4 DEF Construct, Threads
  <2>2. /\ armed \subseteq armed' /\ h \in armed'
        /\ \A m \in Handles \ {h} : native'[m] = native[m]
    BY <1>4 DEF Construct, NewHandle, FfiNew, TypeOK
  <2>3. \A m : ~Closing(g, m)
    BY <2>1, IdleIsOutside
  <2> QED  BY <2>1, <2>2, <2>3, AttendedStays
<1>5. ASSUME NEW g \in Goroutines, Method(g) \/ BeginClose(g) PROVE Attended'
  <2>1. /\ g \in Threads /\ call[g] = Idle /\ UNCHANGED <<armed, native>>
        /\ \A k \in Threads \ {g} : call'[k] = call[k]
    <3>1. g \in Threads
      BY DEF Threads
    <3>2. /\ call[g] = Idle /\ UNCHANGED <<armed, native>>
          /\ \E c : call' = [call EXCEPT ![g] = c]
      <4>1. CASE Method(g)
        <5>1. PICK op, args : Begin(g, op, args)
          BY <4>1, MethodBegins
        <5> QED  BY <5>1 DEF Begin
      <4>2. CASE BeginClose(g)
        BY <4>2 DEF BeginClose
      <4> QED  BY <1>5, <4>1, <4>2
    <3>3. DOMAIN call = Threads
      BY DEF TypeOK
    <3> QED  BY <3>1, <3>2, <3>3
  <2>2. \A h : ~Closing(g, h)
    BY <2>1, IdleIsOutside
  <2> QED  BY <2>1, <2>2, AttendedStays
<1>6. CASE Finalize
  <2>1. PICK h \in armed :
          /\ armed' = armed \ {h}
          /\ call' = [call EXCEPT ![Collector] =
                         [Idle EXCEPT !.op = "Close", !.at = "once", !.args = <<h>>]]
    BY <1>6 DEF Finalize
  <2>2. /\ Collector \in Threads /\ h \in Handles
        /\ call'[Collector] = [Idle EXCEPT !.op = "Close", !.at = "once", !.args = <<h>>]
        /\ \A k \in Threads \ {Collector} : call'[k] = call[k]
    BY <2>1 DEF Threads, TypeOK
  <2>3. /\ call'[Collector].op = "Close" /\ call'[Collector].at = "once"
        /\ call'[Collector].args = <<h>>
    BY <2>2 DEF Idle
  <2>4. Closing(Collector, h)'
    BY <2>3, OneArgumentNext DEF Closing, InMethod
  <2>5. \A m : ~Closing(Collector, m)
    BY <1>6, IdleIsOutside DEF Finalize
  <2>6. \A k \in Threads, m \in Handles : Closing(k, m) => Closing(k, m)'
    BY <2>2, <2>5, SameCall
  <2> QED  BY <1>6, <2>1, <2>2, <2>4, <2>6 DEF Attended, Finalize
<1>7. ASSUME UNCHANGED <<call, armed, native>> PROVE Attended'
  BY <1>7, SameCall DEF Attended
<1>8. CASE (\E g \in Goroutines : Share(g) \/ Forget(g)) \/ UNCHANGED vars
  BY <1>7, <1>8 DEF Share, Forget, vars
<1> QED
  BY <1>1, <1>2, <1>3, <1>4, <1>5, <1>6, <1>8 DEF Next, Step

\* A pointer that is nil stays so.
LEMMA NilStays ==
    ASSUME TypeOK, [Next]_vars, NEW h \in Handles, ptr[h] = "nil"
    PROVE  ptr'[h] = "nil"
<1>1. ASSUME NEW n \in Handles, NEW g, NewHandle(g, n) PROVE ptr'[h] = "nil"
  BY <1>1 DEF NewHandle, TypeOK
<1>2. ASSUME NEW g \in Threads, Step(g) PROVE ptr'[h] = "nil"
  <2>1. CASE LeaveC(g)
    BY <1>1, <2>1 DEF LeaveC, FfiMakes, Handles
  <2>2. CASE ClearPtr(g)
    BY <2>2 DEF ClearPtr, TypeOK
  <2> QED  BY <1>2, <2>1, <2>2 DEF Step, CheckOpen, EnterC, OnceDo, FreeNative
<1>3. ASSUME NEW g \in Goroutines, Method(g) \/ BeginClose(g) \/ Share(g) \/ Forget(g)
      PROVE  ptr'[h] = "nil"
  BY <1>3, MethodBegins DEF Begin, BeginClose, Share, Forget
<1>4. CASE \E g \in Goroutines, n \in Handles : Construct(g, n)
  BY <1>1, <1>4 DEF Construct
<1>5. CASE Finalize \/ UNCHANGED vars
  BY <1>5 DEF Finalize, vars
<1> QED  BY <1>2, <1>3, <1>4, <1>5 DEF Next

\* What a call knows to be closed late only changes when it begins or returns.
LEMMA LateStep ==
    TypeOK /\ Shaped /\ Lifecycle /\ LateIsNil /\ [Next]_vars => LateIsNil'
<1> SUFFICES ASSUME TypeOK, Shaped, Lifecycle, LateIsNil, [Next]_vars,
                    NEW g \in Threads
             PROVE  /\ \A h \in call'[g].late : ptr'[h] = "nil"
                    /\ call'[g].at = "inC" => call'[g].late = {}
  BY DEF LateIsNil
<1>0. TypeOK' /\ call[g].late \subseteq Handles /\ call[g] \in CallType
  BY TypeStep DEF TypeOK, CallType
<1>1. ASSUME call'[g] = call[g] \/ (call'[g].late = call[g].late /\ call'[g].at # "inC")
      PROVE  /\ \A h \in call'[g].late : ptr'[h] = "nil"
             /\ call'[g].at = "inC" => call'[g].late = {}
  BY <1>0, <1>1, NilStays DEF LateIsNil
<1>2. ASSUME call'[g].late = {}
      PROVE  /\ \A h \in call'[g].late : ptr'[h] = "nil"
             /\ call'[g].at = "inC" => call'[g].late = {}
  BY <1>2
<1>3. ASSUME call'[g] = Idle PROVE call'[g].late = {}
  BY <1>3, IdleType
<1>4. ASSUME NEW k \in Threads, k # g, Step(k) PROVE call'[g] = call[g]
  BY <1>4
  DEF Step, CheckOpen, EnterC, LeaveC, OnceDo, FreeNative, ClearPtr, Return, TypeOK
<1>5. CASE CheckOpen(g)
  <2>1. \/ call'[g] = Idle
        \/ call'[g].late = call[g].late /\ call'[g].at # "inC"
    BY <1>0, <1>5 DEF CheckOpen, Return, TypeOK, CallType
  <2> QED  BY <1>1, <1>2, <1>3, <2>1
<1>6. CASE EnterC(g)
  <2>1. CASE Return(g)
    BY <1>2, <1>3, <2>1 DEF Return, TypeOK
  <2>2. CASE ~(\E h \in ArgsOf(g) : ptr[h] = "nil") /\ call' = [call EXCEPT ![g].at = "inC"]
    <3>1. call[g].late = {}
      BY <2>2 DEF LateIsNil, TypeOK
    <3>2. call'[g].late = call[g].late
      BY <1>0, <2>2 DEF TypeOK, CallType
    <3> QED  BY <1>2, <3>1, <3>2
  <2> QED  BY <1>6, <2>1, <2>2 DEF EnterC
<1>7. CASE LeaveC(g) \/ ClearPtr(g)
  BY <1>2, <1>3, <1>7 DEF LeaveC, ClearPtr, Return, TypeOK
<1>8. CASE OnceDo(g) \/ FreeNative(g)
  <2>1. \/ call'[g] = Idle
        \/ call'[g].late = call[g].late /\ call'[g].at # "inC"
    BY <1>0, <1>8 DEF OnceDo, FreeNative, Return, TypeOK, CallType
  <2> QED  BY <1>1, <1>2, <1>3, <2>1
<1>9. ASSUME NEW k \in Goroutines, NEW op, NEW args \in Seq(Handles), Begin(k, op, args)
      PROVE  /\ \A h \in call'[g].late : ptr'[h] = "nil"
             /\ call'[g].at = "inC" => call'[g].late = {}
  <2>1. CASE k # g
    BY <1>1, <1>9, <2>1 DEF Begin, TypeOK
  <2>2. CASE k = g
    <3>1. /\ call'[g].late = {args[i] : i \in {j \in 1..Len(args) : once[args[j]] = "done"}}
          /\ call'[g].at = "check" /\ UNCHANGED ptr
      BY <1>9, <2>2 DEF Begin, TypeOK
    <3>2. \A h \in call'[g].late : h \in Handles /\ once[h] = "done"
      BY <3>1
    <3> QED  BY <3>1, <3>2 DEF Lifecycle, Stage
  <2> QED  BY <2>1, <2>2
<1>10. ASSUME NEW k \in Threads, NEW h,
              call' = [call EXCEPT ![k] =
                          [Idle EXCEPT !.op = "Close", !.at = "once", !.args = <<h>>]]
       PROVE  call'[g] = call[g] \/ call'[g].late = {}
  <2>1. CASE k = g
    <3>1. call'[g] = [Idle EXCEPT !.op = "Close", !.at = "once", !.args = <<h>>]
      BY <1>10, <2>1 DEF TypeOK
    <3> QED  BY <3>1 DEF Idle
  <2>2. CASE k # g
    BY <1>10, <2>2 DEF TypeOK
  <2> QED  BY <2>1, <2>2
<1>11. CASE Finalize \/ \E k \in Goroutines : BeginClose(k)
  <2>1. call'[g] = call[g] \/ call'[g].late = {}
    BY <1>10, <1>11 DEF Finalize, BeginClose, Threads
  <2> QED  BY <1>1, <1>2, <2>1
<1>12. CASE \/ \E k \in Goroutines : Share(k) \/ Forget(k) \/ \E h \in Handles : Construct(k, h)
            \/ UNCHANGED vars
  BY <1>1, <1>12 DEF Share, Forget, Construct, vars
<1> QED
  BY <1>1, <1>4, <1>5, <1>6, <1>7, <1>8, <1>9, <1>11, <1>12, MethodBegins DEF Next, Step

\* The initial state satisfies the invariant.
LEMMA LifeInit == Init => LifeInv
<1> SUFFICES ASSUME Init PROVE LifeInv
  OBVIOUS
<1>1. \A g \in Threads : call[g] = Idle
  BY DEF Init
<1>2. \A g \in Threads : ArgsOf(g) = {} /\ \A h : ~InMethod(g, h)
  BY <1>1, IdleIsOutside DEF ArgsOf, Idle
<1>3. TypeOK
  BY <1>1, IdleType DEF Init, TypeOK
<1>4. Shaped /\ LateIsNil
  BY <1>1, IdleType DEF Shaped, LateIsNil
<1>5. Lifecycle /\ Attended
  BY <1>2 DEF Init, Lifecycle, Unmade, Stage, Closer, Freeing, Closing, Attended
<1> QED  BY <1>3, <1>4, <1>5 DEF LifeInv

\* In every reachable state the handles' lives are in order, whatever the program does.
THEOREM LivesInOrder == Spec => []LifeInv
<1>1. LifeInv /\ [Next]_vars => LifeInv'
  BY TypeStep, LifeStep, AttendedStep, LateStep DEF LifeInv
<1> QED  BY <1>1, LifeInit, PTL DEF Spec

\* An object no method can reach any more will be freed: its finalizer is armed,
\* or a Close of it is under way.
THEOREM NoLeak == Spec => []NothingLeaks
<1>1. LifeInv => NothingLeaks
  <2> SUFFICES ASSUME LifeInv, NEW h \in Handles, native[h] = "live", h \notin armed
               PROVE  Reachable(h)
    BY DEF NothingLeaks
  <2>1. PICK g \in Threads : Closing(g, h)
    BY DEF LifeInv, Attended
  <2>2. InMethod(g, h) /\ call[g].at # "inC"
    BY <2>1 DEF Closing, LifeInv, Shaped
  <2> QED  BY <2>2 DEF Reachable
<1> QED  BY <1>1, LivesInOrder, PTL

\* One closer frees the object, once, before it clears the pointer, however many
\* goroutines close the handle and whether or not the finalizer runs.
THEOREM FreesOnce == Spec => []FreedOnce
<1>1. LifeInv => FreedOnce
  <2> SUFFICES ASSUME LifeInv, NEW g \in Threads, call[g].at \in {"free", "clear"}
               PROVE  /\ native[Closed(g)] = IF call[g].at = "free" THEN "live" ELSE "freed"
                      /\ \A k \in Threads \ {g} : Closing(k, Closed(g)) => call[k].at = "once"
    BY DEF FreedOnce
  <2>1. Closed(g) \in Handles /\ Freeing(g, Closed(g))
    BY CloserHas DEF LifeInv
  <2>2. Closer(g, Closed(g))
    BY <2>1 DEF LifeInv, Lifecycle
  <2>3. ASSUME NEW k \in Threads \ {g}, Closing(k, Closed(g)) PROVE call[k].at = "once"
    <3>1. call[k].at \in {"once", "free", "clear"}
      BY <2>3 DEF Closing, InMethod, LifeInv, Shaped, TypeOK, CallType
    <3>2. ~Freeing(k, Closed(g))
      BY <2>1, <2>2 DEF Closer
    <3> QED  BY <2>3, <3>1, <3>2 DEF Freeing
  <2> QED  BY <2>1, <2>2, <2>3 DEF Closer
<1> QED  BY <1>1, LivesInOrder, PTL

\* A method that begins after a Close returned never reaches the C interface.
THEOREM StaysClosed == Spec => []ClosedStaysClosed
<1>1. LifeInv => ClosedStaysClosed
  BY DEF LifeInv, LateIsNil, ClosedStaysClosed
<1> QED  BY <1>1, LivesInOrder, PTL
----------------------------------------------------------------------------
(* What a program's handles may still reach. *)

\* A goroutine's Close that frees a handle shows in the methods that use it.
RacesSeen ==
    \A g, k \in Threads, h \in Handles :
        Using(g, h) /\ Freeing(k, h) /\ k # Collector => h \in raced[g]

\* The finalizer of a handle has run only when no variable referred to it and
\* whoever was in a method of it was in its C call.
Finalized ==
    \A h \in Handles :
        /\ ptr[h] # "none" /\ h \notin armed =>
               Abandoned(h) /\ \A g \in Goroutines : InMethod(g, h) => call[g].at = "inC"
        /\ InMethod(Collector, h) => h \notin armed

\* A context is one goroutine's, in its variables or in its method.
Touches(g, h) == h \in refs[g] \/ Using(g, h)

ContextsAreOwn ==
    \A g, k \in Threads, h \in Contexts : Touches(g, h) /\ Touches(k, h) => g = k

Conduct == RacesSeen /\ Finalized /\ ContextsAreOwn

\* The collector is a thread, and no goroutine.
LEMMA CollectorApart ==
    Collector \in Threads /\ Collector \notin Goroutines /\ Goroutines \subseteq Threads
    /\ Threads = Goroutines \cup {Collector}
  BY HandleAssumptions DEF Threads

\* Methods that use a handle are the program's, not the collector's.
LEMMA UserIsGoroutine ==
    ASSUME TypeOK, Shaped, NEW g \in Threads, NEW h, Using(g, h)
    PROVE  g \in Goroutines /\ call[g].at \in {"check", "enter", "inC"}
<1>1. call[g].at \in {"idle", "check", "enter", "inC", "once", "free", "clear"}
  BY DEF TypeOK, CallType
<1>2. call[g].at \in {"check", "enter", "inC"}
  BY <1>1 DEF Using, InMethod, Shaped
<1> QED  BY <1>2 DEF Shaped, Threads

\* Arguments of a call are handles.
LEMMA ArgsAreHandles ==
    ASSUME TypeOK, NEW g \in Threads
    PROVE  ArgsOf(g) \subseteq Handles
<1>1. call[g].args \in Seq(Handles)
  BY DEF TypeOK, CallType
<1> QED  BY <1>1 DEF ArgsOf

\* A step inside a method changes no other thread's call.
LEMMA StepIsOwn ==
    ASSUME TypeOK, NEW g \in Threads, Step(g)
    PROVE  \A k \in Threads \ {g} : call'[k] = call[k]
  BY DEF Step, CheckOpen, EnterC, LeaveC, OnceDo, FreeNative, ClearPtr, Return, TypeOK

\* It goes on with the same arguments, or ends the method.
LEMMA StepGoesOn ==
    ASSUME TypeOK, NEW g \in Threads, Step(g)
    PROVE  /\ call[g].at # "idle"
           /\ \/ call'[g] = Idle
              \/ /\ call'[g].args = call[g].args /\ call'[g].op = call[g].op
                 /\ call[g].at # "inC"
                 /\ call'[g].at = "inC" => EnterC(g)
                 /\ call'[g].at \in {"free", "clear"} =>
                        call[g].at \in {"free", "clear"} \/ OnceDo(g)
<1>1. call[g] \in CallType
  BY DEF TypeOK
<1>2. CASE CheckOpen(g)
  BY <1>1, <1>2 DEF CheckOpen, Return, TypeOK, CallType
<1>3. CASE EnterC(g)
  BY <1>1, <1>3 DEF EnterC, Return, TypeOK, CallType
<1>4. CASE OnceDo(g)
  BY <1>1, <1>4 DEF OnceDo, Return, TypeOK, CallType
<1>5. CASE FreeNative(g)
  BY <1>1, <1>5 DEF FreeNative, Return, TypeOK, CallType
<1>6. CASE LeaveC(g) \/ ClearPtr(g)
  BY <1>6 DEF LeaveC, ClearPtr, Return, TypeOK
<1> QED  BY <1>2, <1>3, <1>4, <1>5, <1>6 DEF Step

\* A step inside a method brings no thread into another method or to another handle.
LEMMA StepNarrows ==
    ASSUME TypeOK, NEW g \in Threads, Step(g), NEW k \in Threads, NEW h, InMethod(k, h)'
    PROVE  InMethod(k, h) /\ call'[k].op = call[k].op
<1>1. CASE k # g
  BY <1>1, StepIsOwn, SameCall
<1>2. CASE k = g
  <2>1. call'[g] # Idle
    BY <1>2, ReturnIsOutside
  <2>2. ArgsOf(g)' = ArgsOf(g)
    BY <2>1, StepGoesOn DEF ArgsOf
  <2> QED  BY <1>2, <2>1, <2>2, StepGoesOn DEF InMethod
<1> QED  BY <1>1, <1>2

\* A step inside a method gives out no handle, but one it makes.
LEMMA StepRefs ==
    ASSUME TypeOK, Shaped, Lifecycle, NEW g \in Threads, Step(g)
    PROVE  \A k \in Threads, h \in Handles :
               h \in refs'[k] /\ h \notin refs[k] => k = g /\ Unmade(h)
<1>1. CASE UNCHANGED refs
  BY <1>1
<1>2. CASE LeaveC(g) /\ \E h \in FfiMakes(call[g].op) : NewHandle(g, h)
  <2>1. PICK n \in Handles : NewHandle(g, n)
    BY <1>2 DEF FfiMakes, Handles
  <2>2. refs' = [refs EXCEPT ![g] = refs[g] \cup {n}] /\ Unmade(n)
    BY <2>1 DEF NewHandle, Lifecycle
  <2> QED  BY <2>2 DEF TypeOK
<1> QED
  BY <1>1, <1>2 DEF Step, CheckOpen, EnterC, LeaveC, OnceDo, FreeNative, ClearPtr

\* The beginning of a method, as far as handles are concerned.
LEMMA BeginHolds ==
    ASSUME TypeOK, NEW g \in Goroutines, Method(g)
    PROVE  /\ QuietHandles /\ call[g] = Idle
           /\ \A k \in Threads \ {g} : call'[k] = call[k] /\ raced'[k] = raced[k]
           /\ call'[g].at = "check" /\ call'[g].op # "Close"
           /\ \A h : InMethod(g, h)' =>
                 h \in refs[g] /\ (once[h] = "running" => h \in raced'[g])
<1>1. PICK op \in Ops \ {"Close"}, args \in Seq(Handles) : Begin(g, op, args)
  BY MethodBegins
<1>2. g \in Threads
  BY DEF Threads
<1>3. /\ QuietHandles /\ call[g] = Idle
      /\ \A k \in Threads \ {g} : call'[k] = call[k] /\ raced'[k] = raced[k]
      /\ call'[g].at = "check" /\ call'[g].op = op /\ call'[g].args = args
      /\ raced'[g] = {args[i] : i \in {j \in 1..Len(args) : once[args[j]] = "running"}}
  BY <1>1, <1>2 DEF Begin, TypeOK, QuietHandles
<1>4. \A h : InMethod(g, h)' => \E i \in 1..Len(args) : h = args[i]
  BY <1>3 DEF InMethod, ArgsOf
<1>5. \A i \in 1..Len(args) : args[i] \in refs[g]
  BY <1>1 DEF Begin
<1> QED  BY <1>3, <1>4, <1>5

\* The beginning of a Close, by the program or by the finalizer.
LEMMA CloseHolds ==
    ASSUME TypeOK, NEW g \in Threads, NEW h \in Handles,
           call' = [call EXCEPT ![g] = [Idle EXCEPT !.op = "Close", !.at = "once", !.args = <<h>>]]
    PROVE  /\ \A k \in Threads \ {g} : call'[k] = call[k]
           /\ call'[g].op = "Close" /\ call'[g].at = "once"
           /\ \A m : InMethod(g, m)' => m = h
<1>1. /\ call'[g] = [Idle EXCEPT !.op = "Close", !.at = "once", !.args = <<h>>]
      /\ \A k \in Threads \ {g} : call'[k] = call[k]
  BY DEF TypeOK
<1>2. PICK r : r = [Idle EXCEPT !.op = "Close", !.at = "once", !.args = <<h>>]  OBVIOUS
<1>3. r = [op |-> "Close", at |-> "once", args |-> <<h>>, seen |-> 0, late |-> {}]
  BY <1>2 DEF Idle
<1>4. call'[g].op = "Close" /\ call'[g].at = "once" /\ call'[g].args = <<h>>
  BY <1>1, <1>2, <1>3
<1>5. ArgsOf(g)' = {h}
  BY <1>4, OneArgumentNext
<1> QED  BY <1>1, <1>4, <1>5 DEF InMethod

\* The program's Close is of a handle it refers to.
LEMMA ProgramCloses ==
    ASSUME TypeOK, NEW g \in Goroutines, BeginClose(g)
    PROVE  /\ QuietHandles /\ raced' = raced
           /\ \A k \in Threads \ {g} : call'[k] = call[k]
           /\ call'[g].op = "Close" /\ call'[g].at = "once"
           /\ \A h : InMethod(g, h)' => h \in refs[g]
<1>1. g \in Threads /\ QuietHandles /\ raced' = raced
  BY DEF BeginClose, Threads, QuietHandles
<1>2. PICK h \in refs[g] :
          call' = [call EXCEPT ![g] = [Idle EXCEPT !.op = "Close", !.at = "once", !.args = <<h>>]]
  BY DEF BeginClose
<1>3. h \in Handles
  BY <1>1 DEF TypeOK
<1> QED  BY <1>1, <1>2, <1>3, CloseHolds

\* The finalizer's Close is of a handle nobody can reach.
LEMMA FinalizerCloses ==
    ASSUME TypeOK, Finalize
    PROVE  /\ UNCHANGED <<ptr, once, native, refs, raced>>
           /\ \A k \in Threads \ {Collector} : call'[k] = call[k]
           /\ call'[Collector].op = "Close" /\ call'[Collector].at = "once"
           /\ \E c \in Handles :
                 /\ ~Reachable(c) /\ armed' = armed \ {c}
                 /\ \A h : InMethod(Collector, h)' => h = c
<1>1. PICK c \in armed :
        /\ ~Reachable(c) /\ armed' = armed \ {c}
        /\ call' = [call EXCEPT ![Collector] =
                       [Idle EXCEPT !.op = "Close", !.at = "once", !.args = <<c>>]]
  BY DEF Finalize
<1>2. c \in Handles
  BY DEF TypeOK
<1>3. UNCHANGED <<ptr, once, native, refs, raced>>
  BY DEF Finalize
<1> QED  BY <1>1, <1>2, <1>3, CollectorApart, CloseHolds

\* The history of a method lasts as long as the method, and OnceDo adds to it.
LEMMA RacedStays ==
    ASSUME TypeOK, Shaped, NEW g \in Threads, Step(g), NEW k \in Threads, call'[k] # Idle
    PROVE  raced[k] \subseteq raced'[k]
<1>1. ASSUME Return(g) PROVE k # g /\ raced'[k] = raced[k]
  BY <1>1 DEF Return, TypeOK
<1>2. CASE OnceDo(g)
  BY <1>1, <1>2 DEF OnceDo
<1> QED
  BY <1>1, <1>2 DEF Step, CheckOpen, EnterC, LeaveC, FreeNative, ClearPtr

\* Every Close of a goroutine that frees is noted in the methods it races with.
LEMMA RacesStep ==
    ASSUME TypeOK, Shaped, Lifecycle, RacesSeen, [Next]_vars
    PROVE  RacesSeen'
<1> SUFFICES ASSUME NEW g \in Threads, NEW k \in Threads, NEW h \in Handles,
                    Using(g, h)', Freeing(k, h)', k # Collector
             PROVE  h \in raced'[g]
  BY DEF RacesSeen
<1>1. call'[g] # Idle /\ call'[k] # Idle
  BY ReturnIsOutside
<1>2. ASSUME NEW s \in Threads, Step(s) PROVE h \in raced'[g]
  <2>1. Using(g, h) /\ Closing(k, h)
    BY <1>2, StepNarrows DEF Using, Closing, Freeing
  <2>2. CASE Freeing(k, h)
    BY <1>1, <1>2, <2>1, <2>2, RacedStays DEF RacesSeen
  <2>3. CASE ~Freeing(k, h)
    <3>1. call[k].at \notin {"free", "clear"} /\ call'[k].at \in {"free", "clear"}
      BY <2>1, <2>3 DEF Freeing
    <3>2. s = k /\ OnceDo(k)
      BY <1>1, <1>2, <3>1, StepIsOwn, StepGoesOn
    <3>3. Closed(k) = h
      BY <2>1, <3>2, CloserHas DEF OnceDo
    <3>4. ~Return(k)
      BY <1>1 DEF Return, TypeOK
    <3> QED  BY <2>1, <3>2, <3>3, <3>4 DEF OnceDo
  <2> QED  BY <2>2, <2>3
<1>3. ASSUME call'[g] = call[g], call'[k] = call[k], raced'[g] = raced[g] PROVE h \in raced'[g]
  BY <1>3, SameCall DEF RacesSeen
<1>4. ASSUME NEW s \in Goroutines, Method(s) PROVE h \in raced'[g]
  <2>1. k # s
    BY <1>4, BeginHolds DEF Freeing, Closing
  <2>2. call'[k] = call[k] /\ Freeing(k, h)
    BY <1>4, <2>1, BeginHolds, SameCall
  <2>3. once[h] = "running"
    BY <2>2 DEF Lifecycle, Closer
  <2>4. CASE g = s
    BY <1>4, <2>3, <2>4, BeginHolds DEF Using
  <2>5. CASE g # s
    BY <1>3, <1>4, <2>2, <2>5, BeginHolds
  <2> QED  BY <2>4, <2>5
<1>5. ASSUME NEW s \in Goroutines, BeginClose(s) PROVE h \in raced'[g]
  <2>1. k # s /\ g # s
    BY <1>5, ProgramCloses DEF Freeing, Using
  <2> QED  BY <1>3, <1>5, <2>1, ProgramCloses
<1>6. CASE Finalize
  <2>1. g # Collector
    BY <1>6, FinalizerCloses DEF Using
  <2> QED  BY <1>3, <1>6, <2>1, FinalizerCloses
<1>7. CASE \/ \E s \in Goroutines : Share(s) \/ Forget(s) \/ \E n \in Handles : Construct(s, n)
           \/ UNCHANGED vars
  BY <1>3, <1>7 DEF Share, Forget, Construct, vars
<1> QED  BY <1>2, <1>4, <1>5, <1>6, <1>7 DEF Next

\* A made handle that no variable refers to is never referred to again.
LEMMA AbandonedStays ==
    ASSUME TypeOK, Shaped, Lifecycle, [Next]_vars,
           NEW h \in Handles, ptr[h] # "none", Abandoned(h)
    PROVE  Abandoned(h)'
<1> SUFFICES ASSUME NEW k \in Threads PROVE h \notin refs'[k]
  BY DEF Abandoned
<1>1. h \notin refs[k]
  BY DEF Abandoned
<1>2. ASSUME NEW s \in Threads, Step(s) PROVE h \notin refs'[k]
  <2>1. CASE UNCHANGED refs
    BY <2>1 DEF Abandoned
  <2>2. CASE LeaveC(s) /\ \E n \in FfiMakes(call[s].op) : NewHandle(s, n)
    BY <2>2 DEF NewHandle, Abandoned, TypeOK
  <2> QED
    BY <1>2, <2>1, <2>2 DEF Step, CheckOpen, EnterC, LeaveC, OnceDo, FreeNative, ClearPtr
<1>3. ASSUME NEW s \in Goroutines, Share(s) PROVE h \notin refs'[k]
  BY <1>3 DEF Share, Abandoned, TypeOK, Threads
<1>4. ASSUME NEW s \in Goroutines, Forget(s) PROVE h \notin refs'[k]
  BY <1>4 DEF Forget, Abandoned, TypeOK, Threads
<1>5. ASSUME NEW s \in Goroutines, NEW n \in Handles, Construct(s, n) PROVE h \notin refs'[k]
  BY <1>5 DEF Construct, NewHandle, Abandoned, TypeOK, Threads
<1>6. ASSUME UNCHANGED refs PROVE h \notin refs'[k]
  BY <1>6 DEF Abandoned
<1>7. CASE \/ \E s \in Goroutines : Method(s) \/ BeginClose(s)
           \/ Finalize \/ UNCHANGED vars
  BY <1>6, <1>7, BeginHolds, ProgramCloses DEF Finalize, QuietHandles, vars
<1> QED  BY <1>2, <1>3, <1>4, <1>5, <1>7 DEF Next

\* Only making a handle gives it a pointer and a finalizer; it was unmade.
LEMMA MadeOnce ==
    ASSUME TypeOK, Shaped, Lifecycle, [Next]_vars, NEW h \in Handles
    PROVE  /\ ptr[h] = "none" /\ ptr'[h] # "none" => h \in armed'
           /\ h \in armed' /\ h \notin armed => ptr[h] = "none" /\ call'[Collector] = call[Collector]
           /\ h \in armed /\ h \notin armed' => Finalize
<1>1. ASSUME NEW s \in Threads, Step(s)
      PROVE  /\ ptr[h] = "none" /\ ptr'[h] # "none" => h \in armed'
             /\ armed \subseteq armed'
             /\ h \in armed' /\ h \notin armed =>
                    ptr[h] = "none" /\ call'[Collector] = call[Collector]
  <2>1. CASE LeaveC(s)
    <3>1. s # Collector
      BY <2>1 DEF LeaveC, Shaped
    <3>2. call'[Collector] = call[Collector]
      BY <1>1, <3>1, CollectorApart, StepIsOwn
    <3>3. ASSUME NEW n \in Handles, NewHandle(s, n)
          PROVE  /\ ptr[h] = "none" /\ ptr'[h] # "none" => h \in armed'
                 /\ armed \subseteq armed'
                 /\ h \in armed' /\ h \notin armed => ptr[h] = "none"
      BY <3>3 DEF NewHandle, TypeOK
    <3>4. CASE UNCHANGED <<ptr, armed>>
      BY <3>4
    <3>5. FfiMakes(call[s].op) \subseteq Handles
      BY DEF FfiMakes, Handles
    <3> QED  BY <2>1, <3>2, <3>3, <3>4, <3>5 DEF LeaveC
  <2>2. CASE ClearPtr(s)
    <3>1. ptr[Closed(s)] = "set" /\ Closed(s) \in Handles
      BY <2>2, CloserHas DEF ClearPtr, Lifecycle, Stage, Closer
    <3> QED  BY <2>2, <3>1 DEF ClearPtr, TypeOK
  <2> QED
    BY <1>1, <2>1, <2>2 DEF Step, CheckOpen, EnterC, OnceDo, FreeNative
<1>2. ASSUME NEW s \in Goroutines, NEW n \in Handles, Construct(s, n)
      PROVE  /\ ptr[h] = "none" /\ ptr'[h] # "none" => h \in armed'
             /\ armed \subseteq armed'
             /\ h \in armed' /\ h \notin armed =>
                    ptr[h] = "none" /\ call'[Collector] = call[Collector]
  BY <1>2 DEF Construct, NewHandle, TypeOK
<1>3. CASE \/ \E s \in Goroutines : Method(s) \/ BeginClose(s) \/ Share(s) \/ Forget(s)
           \/ UNCHANGED vars
  BY <1>3, BeginHolds, ProgramCloses DEF Share, Forget, QuietHandles, vars
<1>4. CASE Finalize
  BY <1>4 DEF Finalize
<1> QED  BY <1>1, <1>2, <1>3, <1>4 DEF Next

\* Who comes to be in a method of a handle referred to it before.
LEMMA EntersByName ==
    ASSUME TypeOK, Shaped, [Next]_vars, NEW g \in Goroutines, NEW h, InMethod(g, h)'
    PROVE  \/ h \in refs[g]
           \/ InMethod(g, h) /\ (call[g].at = "inC" => call'[g].at = "inC")
<1>0. g \in Threads /\ g # Collector
  BY CollectorApart
<1>1. ASSUME call'[g] = call[g]
      PROVE  InMethod(g, h) /\ (call[g].at = "inC" => call'[g].at = "inC")
  BY <1>1, SameCall
<1>2. ASSUME NEW s \in Threads, Step(s)
      PROVE  InMethod(g, h) /\ (call[g].at = "inC" => call'[g].at = "inC")
  <2>1. CASE s # g
    BY <1>0, <1>1, <1>2, <2>1, StepIsOwn
  <2>2. CASE s = g
    BY <1>0, <1>2, <2>2, StepGoesOn, StepNarrows, ReturnIsOutside
  <2> QED  BY <2>1, <2>2
<1>3. ASSUME NEW s \in Goroutines, Method(s) \/ BeginClose(s)
      PROVE  h \in refs[g] \/ (InMethod(g, h) /\ (call[g].at = "inC" => call'[g].at = "inC"))
  BY <1>0, <1>1, <1>3, BeginHolds, ProgramCloses
<1>4. CASE Finalize
  BY <1>0, <1>1, <1>4, FinalizerCloses
<1>5. CASE \/ \E s \in Goroutines : Share(s) \/ Forget(s) \/ \E n \in Handles : Construct(s, n)
           \/ UNCHANGED vars
  BY <1>1, <1>5 DEF Share, Forget, Construct, vars
<1> QED  BY <1>2, <1>3, <1>4, <1>5 DEF Next

\* The finalizer runs for handles nobody can reach, and they stay unreachable.
LEMMA FinalizedStep ==
    ASSUME TypeOK, Shaped, Lifecycle, Finalized, [Next]_vars
    PROVE  Finalized'
<1> SUFFICES ASSUME NEW h \in Handles
             PROVE  /\ ptr'[h] # "none" /\ h \notin armed' =>
                          /\ Abandoned(h)'
                          /\ \A g \in Goroutines : InMethod(g, h)' => call'[g].at = "inC"
                    /\ InMethod(Collector, h)' => h \notin armed'
  BY DEF Finalized
<1>1. ASSUME ptr'[h] # "none", h \notin armed'
      PROVE  Abandoned(h)' /\ \A g \in Goroutines : InMethod(g, h)' => call'[g].at = "inC"
  <2>1. ptr[h] # "none"
    BY <1>1, MadeOnce
  <2>2. CASE h \notin armed
    <3>1. Abandoned(h) /\ \A g \in Goroutines : InMethod(g, h) => call[g].at = "inC"
      BY <2>1, <2>2 DEF Finalized
    <3>2. \A g \in Goroutines : h \notin refs[g]
      BY <3>1, CollectorApart DEF Abandoned
    <3> QED  BY <2>1, <3>1, <3>2, AbandonedStays, EntersByName
  <2>3. CASE h \in armed
    <3>1. Finalize
      BY <1>1, <2>3, MadeOnce
    <3>2. ~Reachable(h)
      BY <1>1, <2>3, <3>1, FinalizerCloses
    <3>3. Abandoned(h) /\ \A g \in Goroutines : InMethod(g, h) => call[g].at = "inC"
      BY <3>2, CollectorApart DEF Reachable, Abandoned
    <3>4. \A g \in Goroutines : h \notin refs[g]
      BY <3>3, CollectorApart DEF Abandoned
    <3> QED  BY <2>1, <3>3, <3>4, AbandonedStays, EntersByName
  <2> QED  BY <2>2, <2>3
<1>2. ASSUME InMethod(Collector, h)' PROVE h \notin armed'
  <2>1. CASE Finalize
    BY <1>2, <2>1, FinalizerCloses
  <2>2. CASE InMethod(Collector, h)
    <3>1. h \notin armed /\ ptr[h] # "none"
      BY <2>2, KnownIsMade, CollectorApart DEF Finalized
    <3> QED  BY <3>1, MadeOnce
  <2>3. ASSUME ~Finalize PROVE InMethod(Collector, h)
    <3>1. ASSUME NEW s \in Threads, Step(s) PROVE InMethod(Collector, h)
      BY <1>2, <3>1, StepNarrows, CollectorApart
    <3>2. ASSUME call'[Collector] = call[Collector] PROVE InMethod(Collector, h)
      BY <1>2, <3>2, SameCall
    <3>3. ASSUME NEW s \in Goroutines, Method(s) \/ BeginClose(s) PROVE InMethod(Collector, h)
      BY <3>2, <3>3, BeginHolds, ProgramCloses, CollectorApart
    <3>4. CASE \/ \E s \in Goroutines : Share(s) \/ Forget(s) \/ \E n \in Handles : Construct(s, n)
               \/ UNCHANGED vars
      BY <3>2, <3>4 DEF Share, Forget, Construct, vars
    <3> QED  BY <2>3, <3>1, <3>3, <3>4 DEF Next
  <2> QED  BY <2>1, <2>2, <2>3
<1> QED  BY <1>1, <1>2

\* A context that nobody else touches is given to nobody.
LEMMA ContextsStep ==
    ASSUME TypeOK, Shaped, Lifecycle, ContextsAreOwn, [Next]_vars
    PROVE  ContextsAreOwn'
<1> SUFFICES ASSUME NEW g \in Threads, NEW k \in Threads, NEW h \in Contexts,
                    Touches(g, h)', Touches(k, h)', g # k
             PROVE  FALSE
  BY DEF ContextsAreOwn
<1>0. h \in Handles
  BY DEF Handles
<1>1. ASSUME NEW t \in Threads, Using(t, h)' PROVE Touches(t, h)
  <2>1. CASE t \in Goroutines
    <3>1. h \in refs[t] \/ InMethod(t, h)
      BY <1>1, <2>1, EntersByName DEF Using
    <3>2. CASE InMethod(t, h) /\ h \notin refs[t]
      <4>1. ASSUME call'[t] = call[t] PROVE Using(t, h)
        BY <1>1, <4>1, SameCall
      <4>2. ASSUME NEW s \in Threads, Step(s) PROVE Using(t, h)
        BY <1>1, <4>2, StepNarrows DEF Using
      <4>3. ASSUME NEW s \in Goroutines, Method(s) \/ BeginClose(s) PROVE Using(t, h)
        BY <1>1, <3>2, <4>1, <4>3, BeginHolds, ProgramCloses DEF Using
      <4>4. ASSUME Finalize PROVE Using(t, h)
        BY <2>1, <4>1, <4>4, FinalizerCloses, CollectorApart
      <4>5. ASSUME \/ \E s \in Goroutines :
                          Share(s) \/ Forget(s) \/ \E n \in Handles : Construct(s, n)
                   \/ UNCHANGED vars
            PROVE  Using(t, h)
        BY <4>1, <4>5 DEF Share, Forget, Construct, vars
      <4>6. Using(t, h)
        BY <4>2, <4>3, <4>4, <4>5 DEF Next
      <4> QED  BY <4>6 DEF Touches
    <3> QED  BY <3>1, <3>2 DEF Touches
  <2>2. CASE t = Collector
    <3>1. call'[Collector].op = "Close" \/ ~InMethod(Collector, h)'
      <4>1. TypeOK' /\ Shaped'
        BY TypeStep
      <4>2. CASE call'[Collector].at \in {"idle", "check", "enter", "inC"}
        BY <4>1, <4>2, CollectorApart DEF Shaped, InMethod
      <4>3. CASE call'[Collector].at \in {"once", "free", "clear"}
        BY <4>1, <4>3, CollectorApart DEF Shaped
      <4> QED  BY <4>1, <4>2, <4>3, CollectorApart DEF TypeOK, CallType
    <3> QED  BY <1>1, <2>2, <3>1 DEF Using
  <2> QED  BY <2>1, <2>2, CollectorApart
<1>2. ASSUME \A t \in Threads : h \in refs'[t] => Touches(t, h) PROVE FALSE
  BY <1>1, <1>2 DEF Touches, ContextsAreOwn
<1>3. ASSUME Unmade(h) PROVE \A t \in Threads : ~Touches(t, h)
  BY <1>3 DEF Unmade, Touches, Using
<1>4. ASSUME NEW m \in Threads, NEW n \in Handles, NewHandle(m, n) PROVE FALSE
  <2>1. Unmade(n) /\ refs' = [refs EXCEPT ![m] = refs[m] \cup {n}]
    BY <1>4 DEF NewHandle, Lifecycle
  <2>2. CASE n = h
    <3>1. \A t \in Threads : h \in refs'[t] => t = m
      BY <1>3, <2>1, <2>2 DEF TypeOK, Touches
    <3> QED  BY <1>1, <1>3, <2>1, <2>2, <3>1 DEF Touches
  <2>3. CASE n # h
    BY <1>2, <2>1, <2>3 DEF TypeOK, Touches
  <2> QED  BY <2>2, <2>3
<1>5. ASSUME refs' = refs PROVE FALSE
  BY <1>2, <1>5 DEF Touches
<1>6. ASSUME NEW s \in Threads, Step(s) PROVE FALSE
  <2>1. FfiMakes(call[s].op) \subseteq Handles
    BY DEF FfiMakes, Handles
  <2> QED
    BY <1>4, <1>5, <1>6, <2>1 DEF Step, CheckOpen, EnterC, LeaveC, OnceDo, FreeNative, ClearPtr
<1>7. ASSUME NEW s \in Goroutines, NEW n \in Handles, Construct(s, n) PROVE FALSE
  BY <1>4, <1>7, CollectorApart DEF Construct
<1>8. ASSUME NEW s \in Goroutines, Share(s) PROVE FALSE
  <2>1. \A t \in Threads : h \in refs'[t] => h \in refs[t]
    BY <1>8 DEF Share, TypeOK, Threads
  <2> QED  BY <1>2, <2>1 DEF Touches
<1>9. ASSUME NEW s \in Goroutines, Forget(s) PROVE FALSE
  <2>1. \A t \in Threads : h \in refs'[t] => h \in refs[t]
    BY <1>9 DEF Forget, TypeOK, Threads
  <2> QED  BY <1>2, <2>1 DEF Touches
<1>10. CASE \/ \E s \in Goroutines : Method(s) \/ BeginClose(s)
            \/ Finalize \/ UNCHANGED vars
  BY <1>5, <1>10, BeginHolds, ProgramCloses, FinalizerCloses DEF QuietHandles, vars
<1> QED  BY <1>6, <1>7, <1>8, <1>9, <1>10 DEF Next

\* A pointer in a C call was set when the call was made.  What has freed its object
\* since is a Close that raced with the method, or a finalizer that found nothing
\* but the call.
LEMMA UseStep ==
    ASSUME TypeOK, Shaped, Lifecycle, Conduct, NoUseAfterFree, [Next]_vars
    PROVE  NoUseAfterFree'
<1> SUFFICES ASSUME NEW g \in Threads, call'[g].at = "inC", NEW h \in ArgsOf(g)'
             PROVE  native'[h] = "live" \/ h \in raced'[g] \/ Abandoned(h)'
  BY DEF NoUseAfterFree
<1> DEFINE Kept == native'[h] = "live" \/ h \in raced'[g] \/ Abandoned(h)'
<1>1. TypeOK' /\ Shaped' /\ h \in Handles /\ InMethod(g, h)' /\ g \in Goroutines
  <2>1. TypeOK' /\ Shaped'
    BY TypeStep
  <2>2. call'[g].args \in Seq(Handles)
    BY <2>1 DEF TypeOK, CallType
  <2>3. h \in Handles
    BY <2>2 DEF ArgsOf
  <2> QED  BY <2>1, <2>3, CollectorApart DEF InMethod, Shaped
<1>2. call'[g] # Idle
  BY IdleType
<1>3. ASSUME call'[g] = call[g], raced[g] \subseteq raced'[g],
             native[h] = "live" => native'[h] = "live"
      PROVE  Kept
  <2>1. call[g].at = "inC" /\ h \in ArgsOf(g) /\ InMethod(g, h)
    BY <1>1, <1>3, SameCall
  <2>2. ptr[h] # "none"
    BY <1>1, <2>1, KnownIsMade
  <2> QED  BY <1>1, <1>3, <2>1, <2>2, AbandonedStays DEF NoUseAfterFree
<1>4. ASSUME EnterC(g) PROVE Kept
  <2>1. InMethod(g, h) /\ ptr[h] # "none" /\ call[g].at = "enter"
    BY <1>1, <1>4, StepNarrows, KnownIsMade DEF Step, EnterC
  <2>2. ~Return(g)
    BY <1>2 DEF Return, TypeOK
  <2>3. ptr[h] = "set" /\ raced' = raced /\ native' = native
    BY <1>1, <1>4, <2>1, <2>2 DEF EnterC, InMethod, TypeOK
  <2>4. Using(g, h)
    BY <1>1, <2>1 DEF Using, Shaped
  <2>5. CASE once[h] = "new"
    BY <1>1, <2>3, <2>5 DEF Lifecycle, Stage
  <2>6. CASE once[h] = "running"
    <3>1. PICK k \in Threads : Freeing(k, h)
      BY <1>1, <2>6 DEF Lifecycle, Stage
    <3>2. CASE k # Collector
      BY <1>1, <2>3, <2>4, <3>1, <3>2 DEF Conduct, RacesSeen
    <3>3. CASE k = Collector
      <4>1. h \notin armed
        BY <1>1, <3>1, <3>3 DEF Conduct, Finalized, Freeing, Closing
      <4>2. call[g].at = "inC"
        BY <1>1, <2>1, <4>1 DEF Conduct, Finalized
      <4> QED  BY <2>1, <4>2
    <3> QED  BY <3>2, <3>3
  <2>7. once[h] # "done"
    BY <1>1, <2>3 DEF Lifecycle, Stage
  <2>8. once[h] \in {"new", "running", "done"}
    BY <1>1 DEF TypeOK
  <2> QED  BY <2>5, <2>6, <2>7, <2>8
<1>5. ASSUME NEW s \in Threads, s # g, Step(s) PROVE Kept
  <2>1. call'[g] = call[g] /\ raced[g] \subseteq raced'[g]
    BY <1>2, <1>5, StepIsOwn, RacedStays
  <2>2. CASE native[h] = "live" => native'[h] = "live"
    BY <1>3, <2>1, <2>2
  <2>3. CASE ~(native[h] = "live" => native'[h] = "live")
    <3>1. FreeNative(s) /\ h = Closed(s)
      <4>1. CASE LeaveC(s)
        <5>1. FfiMakes(call[s].op) \subseteq Handles
          BY DEF FfiMakes, Handles
        <5> QED  BY <1>1, <2>3, <4>1, <5>1 DEF LeaveC, NewHandle, FfiNew, TypeOK
      <4>2. CASE CheckOpen(s) \/ EnterC(s) \/ OnceDo(s) \/ ClearPtr(s)
        BY <2>3, <4>2 DEF CheckOpen, EnterC, OnceDo, ClearPtr
      <4>3. CASE FreeNative(s)
        BY <1>1, <2>3, <4>3 DEF FreeNative, FfiFree, TypeOK
      <4> QED  BY <1>5, <4>1, <4>2, <4>3 DEF Step
    <3>2. Freeing(s, h)
      BY <3>1, CloserHas DEF FreeNative
    <3>3. InMethod(g, h) /\ Using(g, h)
      <4>1. InMethod(g, h) /\ call[g].at = "inC"
        BY <1>1, <2>1, SameCall
      <4> QED  BY <4>1 DEF Using, Shaped
    <3>4. CASE s # Collector
      BY <1>1, <2>1, <3>2, <3>3, <3>4 DEF Conduct, RacesSeen
    <3>5. CASE s = Collector
      <4>1. h \notin armed /\ ptr[h] # "none"
        BY <1>1, <3>2, <3>3, <3>5, KnownIsMade DEF Conduct, Finalized, Freeing, Closing
      <4>2. Abandoned(h)
        BY <1>1, <4>1 DEF Conduct, Finalized
      <4> QED  BY <1>1, <4>1, <4>2, AbandonedStays
    <3> QED  BY <3>4, <3>5
  <2> QED  BY <2>2, <2>3
<1>6. ASSUME Step(g) PROVE Kept
  BY <1>2, <1>4, <1>6, StepGoesOn
<1>7. ASSUME NEW s \in Goroutines, Method(s) \/ BeginClose(s) PROVE Kept
  <2>1. s # g
    BY <1>7, BeginHolds, ProgramCloses
  <2>2. call'[g] = call[g] /\ raced'[g] = raced[g] /\ native' = native
    BY <1>7, <2>1, BeginHolds, ProgramCloses DEF QuietHandles
  <2> QED  BY <1>3, <2>2
<1>8. CASE Finalize
  BY <1>1, <1>3, <1>8, FinalizerCloses, CollectorApart
<1>9. ASSUME NEW s \in Goroutines, NEW n \in Handles, Construct(s, n) PROVE Kept
  BY <1>1, <1>3, <1>9 DEF Construct, NewHandle, FfiNew, TypeOK
<1>10. CASE (\E s \in Goroutines : Share(s) \/ Forget(s)) \/ UNCHANGED vars
  BY <1>3, <1>10 DEF Share, Forget, vars
<1> QED  BY <1>5, <1>6, <1>7, <1>8, <1>9, <1>10 DEF Next

\* Initially nobody holds anything.
LEMMA ConductInit == Init => Conduct /\ NoUseAfterFree
<1> SUFFICES ASSUME Init PROVE Conduct /\ NoUseAfterFree
  OBVIOUS
<1>1. \A g \in Threads : call[g] = Idle /\ refs[g] = {}
  BY DEF Init
<1>2. \A g \in Threads : \A h : ~InMethod(g, h) /\ ~Using(g, h)
  BY <1>1, IdleIsOutside
<1>3. \A h \in Handles : ptr[h] = "none"
  BY DEF Init
<1>4. NoUseAfterFree
  BY <1>1, IdleType DEF NoUseAfterFree
<1> QED
  BY <1>1, <1>2, <1>3, <1>4, CollectorApart
  DEF Conduct, RacesSeen, Finalized, ContextsAreOwn, Touches

\* Whatever a program does with its handles, the binding gives md-tmpl-ffi live
\* objects for as long as a call lasts, unless a goroutine was closing the handle in
\* the course of the method or the program has dropped it; it frees each object once,
\* lets nobody else into what a call changes, but for the include depth, and answers
\* ErrClosed after a Close has returned.
THEOREM KeepsOwnership == Spec => []OwnershipKept
<1>1. LifeInv /\ Conduct /\ NoUseAfterFree /\ [Next]_vars => Conduct' /\ NoUseAfterFree'
  BY RacesStep, FinalizedStep, ContextsStep, UseStep DEF LifeInv, Conduct
<1>2. LifeInv /\ Conduct => NoAliasedWrite
  <2> SUFFICES ASSUME LifeInv, Conduct, NEW g \in Threads, NEW k \in Threads, g # k,
                      call[g].at = "inC", call[k].at = "inC",
                      NEW h \in ArgsOf(g) \cap ArgsOf(k), FfiWrites(call[g].op, h),
                      call[g].op # "SetMaxIncludeDepth"
               PROVE  FALSE
    BY DEF NoAliasedWrite
  <2>1. h \in Contexts
    BY DEF FfiWrites
  <2>2. Using(g, h) /\ Using(k, h)
    BY DEF Using, InMethod, LifeInv, Shaped
  <2> QED  BY <2>1, <2>2 DEF Conduct, ContextsAreOwn, Touches
<1>3. LifeInv => TypeOK
  BY DEF LifeInv
<1> QED
  BY <1>1, <1>2, <1>3, ConductInit, LivesInOrder, FreesOnce, StaysClosed, PTL
  DEF Spec, OwnershipKept
=============================================================================
