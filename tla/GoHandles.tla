------------------------------ MODULE GoHandles ------------------------------
(***************************************************************************)
(* The Go binding: Template, Context and Cache are Go objects that hold a  *)
(* pointer to a Rust object behind the C interface (md_tmpl.go,            *)
(* context_cache.go; md-tmpl-ffi).  The Rust object is freed by Close,     *)
(* once, and Close is called by the program or by the finalizer the        *)
(* constructors attach.  A method looks at the pointer twice: to return    *)
(* ErrClosed when it is nil, and again for the arguments of the C call.    *)
(*                                                                         *)
(* A handle's Rust object is known by the handle's name, for a pointer is  *)
(* never reassigned except to nil.                                         *)
(***************************************************************************)
EXTENDS Naturals, Sequences

CONSTANTS
    Goroutines,         \* the program's goroutines
    Collector,          \* the one goroutine that runs finalizers
    Templates, Contexts, Caches     \* handles, by kind

Handles == Templates \cup Contexts \cup Caches
Threads == Goroutines \cup {Collector}

ASSUME HandleAssumptions ==
    /\ Collector \notin Goroutines
    /\ Templates \cap Contexts = {} /\ Templates \cap Caches = {} /\ Contexts \cap Caches = {}

VARIABLES
    ptr,        \* [Handles -> {"none", "set", "nil"}]: the Go field; "none" before construction
    once,       \* [Handles -> {"new", "running", "done"}]: closeOnce
    armed,      \* the handles whose finalizer has not run
    native,     \* [Handles -> {"none", "live", "freed"}]: the Rust object
    refs,       \* [Threads -> SUBSET Handles]: the handles its variables refer to
    call,       \* [Threads -> Call]: the method it is in
    raced       \* [Threads -> SUBSET Handles], history: those of its method that a
                \* goroutine's Close was freeing at some moment of the method

vars == <<ptr, once, armed, native, refs, call, raced>>

\* Methods that do the same to handles and objects have one op: Read stands for all
\* that only read (or lock inside).
Ops == {"Read", "Set", "SetMaxIncludeDepth", "DefaultsContext", "Load", "Close"}

(* seen: how many arguments were found open; late: those whose Close had    *)
(* returned before the method began.                                       *)
CallType ==
    [op : Ops \cup {"none"},
     at : {"idle", "check", "enter", "inC", "once", "free", "clear"},
     args : Seq(Handles), seen : Nat, late : SUBSET Handles]

Idle == [op |-> "none", at |-> "idle", args |-> <<>>, seen |-> 0, late |-> {}]

ArgsOf(g) == {call[g].args[i] : i \in 1..Len(call[g].args)}
InMethod(g, h) == call[g].at # "idle" /\ h \in ArgsOf(g)
Closing(g, h) == InMethod(g, h) /\ call[g].op = "Close"
Using(g, h) == InMethod(g, h) /\ call[g].op # "Close"

(* The C call has its pointers; nothing in the method mentions the handle  *)
(* after that (there is no runtime.KeepAlive), so it stays reachable only  *)
(* through the program's variables.                                        *)
Reachable(h) ==
    \E g \in Threads : h \in refs[g] \/ (InMethod(g, h) /\ call[g].at # "inC")

Init ==
    /\ ptr = [h \in Handles |-> "none"]
    /\ once = [h \in Handles |-> "new"]
    /\ armed = {}
    /\ native = [h \in Handles |-> "none"]
    /\ refs = [g \in Threads |-> {}]
    /\ call = [g \in Threads |-> Idle]
    /\ raced = [g \in Threads |-> {}]

-----------------------------------------------------------------------------
(* The Rust side. *)

(* Functions that take the object as *mut and change it in place; the      *)
(* cache's are *const and lock inside.                                     *)

FfiWrites(op, h) ==
    \/ op = "Set" /\ h \in Contexts
    \/ op = "SetMaxIncludeDepth"

(* What a constructor gives back when it succeeds. *)
FfiMakes(op) ==
    CASE op = "Load" -> Templates
      [] op = "DefaultsContext" -> Contexts
      [] OTHER -> {}

FfiNew(h) == native' = [native EXCEPT ![h] = "live"]
FfiFree(h) == native' = [native EXCEPT ![h] = "freed"]

-----------------------------------------------------------------------------
(* Construction. *)

\* Mutant: a constructor sets no finalizer.
NewHandle_NoFinalizer(g, h) ==
    /\ ptr[h] = "none"
    /\ ptr' = [ptr EXCEPT ![h] = "set"]
    /\ refs' = [refs EXCEPT ![g] = @ \cup {h}]
    /\ FfiNew(h)
    /\ UNCHANGED armed

(* A new object: the wrapper around the pointer, with its finalizer. *)
NewHandle(g, h) ==
    /\ ptr[h] = "none"
    /\ ptr' = [ptr EXCEPT ![h] = "set"]
    /\ armed' = armed \cup {h}
    /\ refs' = [refs EXCEPT ![g] = @ \cup {h}]
    /\ FfiNew(h)

(* FromSource, FromFile and their variants; NewContext; NewCache. *)
Construct(g, h) ==
    /\ call[g] = Idle
    /\ NewHandle(g, h)
    /\ UNCHANGED <<once, call, raced>>

-----------------------------------------------------------------------------
(* The methods.  Begin is the caller's side: the handles are in its        *)
(* variables.  Others may use them too, close them, or be closing them.    *)

Begin(g, op, args) ==
    /\ call[g] = Idle
    /\ \A i \in 1..Len(args) : args[i] \in refs[g]
    /\ call' = [call EXCEPT ![g] = [op |-> op, at |-> "check", args |-> args, seen |-> 0,
                  late |-> {args[i] : i \in {j \in 1..Len(args) : once[args[j]] = "done"}}]]
    /\ raced' = [raced EXCEPT ![g] =
                  {args[i] : i \in {j \in 1..Len(args) : once[args[j]] = "running"}}]
    /\ UNCHANGED <<ptr, once, armed, native, refs>>

Render(g) == \E t \in Templates, c \in Contexts : Begin(g, "Read", <<t, c>>)
RenderCached(g) ==
    \E t \in Templates, c \in Contexts, k \in Caches : Begin(g, "Read", <<t, c, k>>)
RenderData(g) == \E t \in Templates : Begin(g, "Read", <<t>>)
Metadata(g) == \E t \in Templates : Begin(g, "Read", <<t>>)
DefaultsContext(g) == \E t \in Templates : Begin(g, "DefaultsContext", <<t>>)
Set(g) == \E c \in Contexts : Begin(g, "Set", <<c>>)
SetTmpl(g) == \E c \in Contexts, t \in Templates : Begin(g, "Set", <<c, t>>)
Load(g) == \E k \in Caches : Begin(g, "Load", <<k>>)
CacheInfo(g) == \E k \in Caches : Begin(g, "Read", <<k>>)

SetMaxIncludeDepth(g) == \E t \in Templates : Begin(g, "SetMaxIncludeDepth", <<t>>)

Return(g) ==
    /\ call' = [call EXCEPT ![g] = Idle]
    /\ raced' = [raced EXCEPT ![g] = {}]

(* The nil checks at the top of the method, one argument after the other. *)
CheckOpen(g) ==
    /\ call[g].at = "check" /\ call[g].op # "Close"
    /\ LET n == call[g].seen + 1
       IN  IF ptr[call[g].args[n]] = "nil"
           THEN Return(g)          \* ErrClosed, ErrNilContext or a zero value
           ELSE /\ call' = [call EXCEPT ![g].seen = n,
                             ![g].at = IF n = Len(call[g].args) THEN "enter" ELSE "check"]
                /\ UNCHANGED raced
    /\ UNCHANGED <<ptr, once, armed, native, refs>>

(* The arguments are evaluated again; a nil one is an error on the Rust side. *)
EnterC(g) ==
    /\ call[g].at = "enter"
    /\ IF \E h \in ArgsOf(g) : ptr[h] = "nil"
       THEN Return(g)
       ELSE call' = [call EXCEPT ![g].at = "inC"] /\ UNCHANGED raced
    /\ UNCHANGED <<ptr, once, armed, native, refs>>

(* The call returns; one that made an object wraps it, one that failed made none. *)
LeaveC(g) ==
    /\ call[g].at = "inC" /\ Return(g)
    /\ \/ /\ \E h \in FfiMakes(call[g].op) : NewHandle(g, h)
          /\ UNCHANGED once
       \/ UNCHANGED <<ptr, once, armed, native, refs>>

-----------------------------------------------------------------------------
(* Close: closeOnce.Do(free, then set the pointer to nil). *)

BeginClose(g) ==
    /\ call[g] = Idle
    /\ \E h \in refs[g] :
        call' = [call EXCEPT ![g] = [Idle EXCEPT !.op = "Close", !.at = "once", !.args = <<h>>]]
    /\ UNCHANGED <<ptr, once, armed, native, refs, raced>>

Closed(g) == call[g].args[1]

(* Do: the first caller runs the function, the others wait for it. *)
OnceDo(g) ==
    /\ call[g].at = "once"
    /\ \/ /\ once[Closed(g)] = "new"
          /\ once' = [once EXCEPT ![Closed(g)] = "running"]
          /\ call' = [call EXCEPT ![g].at = "free"]
          /\ raced' = [k \in Threads |->
                IF g # Collector /\ Using(k, Closed(g)) THEN raced[k] \cup {Closed(g)}
                                                       ELSE raced[k]]
       \/ /\ once[Closed(g)] = "done"
          /\ Return(g)
          /\ UNCHANGED once
    /\ UNCHANGED <<ptr, armed, native, refs>>

FreeNative(g) ==
    /\ call[g].at = "free"
    /\ IF ptr[Closed(g)] = "set"
       THEN /\ FfiFree(Closed(g))
            /\ call' = [call EXCEPT ![g].at = "clear"]
            /\ UNCHANGED <<once, raced>>
       ELSE /\ once' = [once EXCEPT ![Closed(g)] = "done"]
            /\ Return(g) /\ UNCHANGED native
    /\ UNCHANGED <<ptr, armed, refs>>

\* Mutant: leaves the freed pointer in the handle.
ClearPtr_KeepsPtr(g) ==
    /\ call[g].at = "clear"
    /\ once' = [once EXCEPT ![Closed(g)] = "done"]
    /\ Return(g)
    /\ UNCHANGED <<ptr, armed, native, refs>>

\* Mutant: closeOnce never becomes done.
ClearPtr_StaysRunning(g) ==
    /\ call[g].at = "clear"
    /\ ptr' = [ptr EXCEPT ![Closed(g)] = "nil"]
    /\ Return(g)
    /\ UNCHANGED <<once, armed, native, refs>>

ClearPtr(g) ==
    /\ call[g].at = "clear"
    /\ ptr' = [ptr EXCEPT ![Closed(g)] = "nil"]
    /\ once' = [once EXCEPT ![Closed(g)] = "done"]
    /\ Return(g)
    /\ UNCHANGED <<armed, native, refs>>

-----------------------------------------------------------------------------
(* The program's variables and the collector. *)

(* A template or a cache is handed to another goroutine; a Context is "NOT *)
(* safe for concurrent use" (md_tmpl.go:209) and stays with the one that   *)
(* made it.                                                                *)
Share(g) ==
    /\ call[g] = Idle
    /\ \E h \in refs[g] \ Contexts, k \in Goroutines \ {g} :
        /\ h \notin refs[k]
        /\ refs' = [refs EXCEPT ![k] = @ \cup {h}]
    /\ UNCHANGED <<ptr, once, armed, native, call, raced>>

(* The last mention of a handle is behind the goroutine, which may be in a *)
(* method of it: the call under way keeps no variable of its own.          *)
Forget(g) ==
    /\ \E h \in refs[g] : refs' = [refs EXCEPT ![g] = @ \ {h}]
    /\ UNCHANGED <<ptr, once, armed, native, call, raced>>

(* The finalizer of an unreachable handle: func(t) { t.Close() }. *)
Finalize ==
    /\ call[Collector] = Idle
    /\ \E h \in armed :
        /\ ~Reachable(h)
        /\ armed' = armed \ {h}
        /\ call' = [call EXCEPT ![Collector] =
                        [Idle EXCEPT !.op = "Close", !.at = "once", !.args = <<h>>]]
    /\ UNCHANGED <<ptr, once, native, refs, raced>>

Step(g) == CheckOpen(g) \/ EnterC(g) \/ LeaveC(g) \/ OnceDo(g) \/ FreeNative(g) \/ ClearPtr(g)

Method(g) ==
    \/ Render(g) \/ RenderCached(g) \/ RenderData(g) \/ Metadata(g) \/ DefaultsContext(g)
    \/ Set(g) \/ SetTmpl(g) \/ SetMaxIncludeDepth(g) \/ Load(g) \/ CacheInfo(g)

Next ==
    \/ \E g \in Threads : Step(g)
    \/ \E g \in Goroutines :
        \/ \E h \in Handles : Construct(g, h)
        \/ Method(g) \/ BeginClose(g) \/ Share(g) \/ Forget(g)
    \/ Finalize

(* A goroutine that closes is scheduled, and the call that frees returns;  *)
(* nothing obliges other calls to return, the program to close anything or *)
(* the collector to run.                                                   *)
Fairness == \A g \in Threads : WF_vars(OnceDo(g) \/ FreeNative(g) \/ ClearPtr(g))

Spec == Init /\ [][Next]_vars /\ Fairness
-----------------------------------------------------------------------------
(* Properties. *)

TypeOK ==
    /\ ptr \in [Handles -> {"none", "set", "nil"}]
    /\ once \in [Handles -> {"new", "running", "done"}]
    /\ armed \subseteq Handles
    /\ native \in [Handles -> {"none", "live", "freed"}]
    /\ refs \in [Threads -> SUBSET Handles]
    /\ call \in [Threads -> CallType]
    /\ raced \in [Threads -> SUBSET Handles]
    /\ \A g \in Threads : call[g].late \subseteq ArgsOf(g) /\ call[g].seen <= Len(call[g].args)

(* No variable of the program refers to h any more: while a C call has its *)
(* pointer, nothing then keeps the finalizer from freeing it.              *)
Abandoned(h) == \A k \in Threads : h \notin refs[k]

(* A C call is made with live objects and they live until it returns, the  *)
(* "must be a valid handle" that every function of md-tmpl-ffi asks of its *)
(* caller, whoever shares, closes and finalizes handles; unless the        *)
(* program itself was closing the handle at some moment of the method, or  *)
(* has dropped it while the call was under way.                            *)
NoUseAfterFree ==
    \A g \in Threads : call[g].at = "inC" =>
        \A h \in ArgsOf(g) : native[h] = "live" \/ h \in raced[g] \/ Abandoned(h)

(* However many goroutines close a handle, and the finalizer too, one of   *)
(* them frees the object, and it frees it before the pointer is cleared.   *)
FreedOnce ==
    \A g \in Threads : call[g].at \in {"free", "clear"} =>
        /\ native[Closed(g)] = IF call[g].at = "free" THEN "live" ELSE "freed"
        /\ \A k \in Threads \ {g} : Closing(k, Closed(g)) => call[k].at = "once"

(* A function that changes an object in place runs with nobody else inside *)
(* it, except that SetMaxIncludeDepth has no lock.                         *)
NoAliasedWrite ==
    \A g, k \in Threads : g # k /\ call[g].at = "inC" /\ call[k].at = "inC" =>
        \A h \in ArgsOf(g) \cap ArgsOf(k) :
            FfiWrites(call[g].op, h) => call[g].op = "SetMaxIncludeDepth"

(* ErrClosed: a method that begins after a Close has returned does not     *)
(* reach the C interface.                                                  *)
ClosedStaysClosed == \A g \in Threads : call[g].at = "inC" => call[g].late = {}

(* What md-tmpl-ffi leaves to its caller, and how far the binding keeps it *)
(* whatever a program does with its handles.                               *)
OwnershipKept == TypeOK /\ NoUseAfterFree /\ FreedOnce /\ NoAliasedWrite /\ ClosedStaysClosed

(* An object nobody can reach any more still has the finalizer that will   *)
(* free it, whichever constructor made it.                                 *)
NothingLeaks == \A h \in Handles : native[h] = "live" => Reachable(h) \/ h \in armed

(* Closing is never stuck, even when several goroutines and the finalizer  *)
(* meet in closeOnce.                                                      *)
ClosesReturn == \A g \in Threads : call[g].op = "Close" ~> call[g] = Idle
=============================================================================
