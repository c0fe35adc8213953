---------------------------- MODULE UncachedLoads ----------------------------
(***************************************************************************)
(* What the cache of md-tmpl-core promises: nobody can tell it from having *)
(* none.  A call reads its file once, at a moment of its own between its   *)
(* start and its return, and compiles what it read for its own             *)
(* environment.  There are no entries, no times, no hashes, no clear() and *)
(* no limit here.                                                          *)
(*                                                                         *)
(* Two exceptions are the cache's own.  An include compiled under one name *)
(* of a file serves calls under its other names with the first name's base *)
(* directory.  And when a file is gone at some moment while an include     *)
(* resolves it, the stat may fail, and the answer be older than the call.  *)
(***************************************************************************)
EXTENDS Naturals, Sequences

CONSTANTS Threads, Paths, Files, Canonical, Contents, Broken, Calls, NoEnv, Nil,
          Editable, Deletable, MaxVersion

VARIABLES
    exists,    \* is the file there now?
    hist,      \* every content ever written to a file, oldest first
    request,   \* the call a thread runs
    since,     \* the version on disk when it started
    gone,      \* was its file absent at some moment of the call?
    result     \* what it returned

vars == <<exists, hist, request, since, gone, result>>

Error == [ok |-> FALSE]

File(t) == Canonical[request[t].path]

\* The first version a call may answer from.
Oldest(t) ==
    IF request[t].op = "include" /\ gone[t] THEN 1 ELSE since[t]

\* Where the includes inside the returned template are looked up.
Bases(t) ==
    IF request[t].op = "load" THEN {request[t].path}
                              ELSE {q \in Paths : Canonical[q] = File(t)}

Init ==
    /\ exists = [f \in Files |-> TRUE]
    /\ hist \in [Files -> {<<c>> : c \in Contents}]
    /\ request = [t \in Threads |-> Nil]
    /\ since = [t \in Threads |-> 0]
    /\ gone = [t \in Threads |-> FALSE]
    /\ result = [t \in Threads |-> Nil]

Write(f, c) ==
    /\ f \in Editable
    /\ Len(hist[f]) < MaxVersion
    /\ hist' = [hist EXCEPT ![f] = Append(@, c)]
    /\ exists' = [exists EXCEPT ![f] = TRUE]
    /\ UNCHANGED <<request, since, gone, result>>

\* Every call that runs on f meets its absence.
Delete(f) ==
    /\ f \in Deletable
    /\ exists[f]
    /\ exists' = [exists EXCEPT ![f] = FALSE]
    /\ gone' = [t \in Threads |-> gone[t] \/ (request[t] # Nil /\ File(t) = f)]
    /\ UNCHANGED <<hist, request, since, result>>

\* The file may be gone already.
Begin(t, c) ==
    /\ request[t] = Nil
    /\ request' = [request EXCEPT ![t] = c]
    /\ since' = [since EXCEPT ![t] = Len(hist[Canonical[c.path]])]
    /\ gone' = [gone EXCEPT ![t] = ~exists[Canonical[c.path]]]
    /\ IF exists[Canonical[c.path]] THEN UNCHANGED result
                                    ELSE result' = [result EXCEPT ![t] = Error]
    /\ UNCHANGED <<exists, hist>>

Running(t) == request[t] # Nil /\ result[t] = Nil

Answer(t) ==
    /\ Running(t)
    /\ \E v \in Oldest(t)..Len(hist[File(t)]), b \in Bases(t) :
          /\ hist[File(t)][v] \notin Broken
          /\ result' = [result EXCEPT ![t] =
                [ok |-> TRUE, source |-> hist[File(t)][v], env |-> request[t].env, base |-> b]]
    /\ UNCHANGED <<exists, hist, request, since, gone>>

\* A call fails because of what its file was while it ran.
Fail(t) ==
    /\ Running(t)
    /\ \/ gone[t]
       \/ \E v \in since[t]..Len(hist[File(t)]) : hist[File(t)][v] \in Broken
    /\ result' = [result EXCEPT ![t] = Error]
    /\ UNCHANGED <<exists, hist, request, since, gone>>

Finish(t) ==
    /\ result[t] # Nil
    /\ request' = [request EXCEPT ![t] = Nil]
    /\ since' = [since EXCEPT ![t] = 0]
    /\ gone' = [gone EXCEPT ![t] = FALSE]
    /\ result' = [result EXCEPT ![t] = Nil]
    /\ UNCHANGED <<exists, hist>>

Next ==
    \/ \E f \in Files, c \in Contents : Write(f, c)
    \/ \E f \in Files : Delete(f)
    \/ \E t \in Threads :
          \/ \E c \in Calls : Begin(t, c)
          \/ Answer(t)
          \/ Fail(t)
          \/ Finish(t)

Spec == Init /\ [][Next]_vars
=============================================================================
