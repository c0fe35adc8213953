--------------------------- MODULE BrowserLoader ---------------------------
(***************************************************************************)
(* The browser loader of md-tmpl-typescript (browser/load.ts): calls of    *)
(* loadTemplate and renderAsync that share one MemoryFs, run the           *)
(* synchronous engine against it, fetch what it found absent and try       *)
(* again.  An attempt is part of one step, as JavaScript runs it; calls,   *)
(* answers of the network, synchronous renders and clearCache() interleave *)
(* at the awaits.                                                          *)
(*                                                                         *)
(* A template object keeps the includes it has compiled                    *)
(* (template/includes.ts), and a compiled include keeps the constants it   *)
(* imported.  A source is the origin and the version it was fetched from;  *)
(* equal sources have equal hashes.                                        *)
(***************************************************************************)
EXTENDS Naturals, FiniteSets

CONSTANTS
    Tasks,      \* asynchronous calls that may be under way at a time
    Templates,  \* template objects, each made by one loadTemplate
    Origins,
    OriginOf,   \* template -> the origin of its URL
    Entry,      \* template -> the path of its URL
    Renders,    \* template -> the sets of includes its renders may reach
    Paths,
    Imports,    \* path -> the paths it imports constants from
    Hosted,     \* origin -> the paths it serves at first
    Edited,     \* the paths whose files change
    Broken,     \* the <<path, version>> pairs that do not parse
    MaxRounds,  \* options.maxRounds
    MaxVersion, \* bound: how often a file changes
    MaxClears,  \* bound: how often clearCache() is called
    Nil

ASSUME LoaderAssumption ==
    /\ OriginOf \in [Templates -> Origins]
    /\ Entry \in [Templates -> Paths]
    /\ Renders \in [Templates -> SUBSET SUBSET Paths]
    /\ Imports \in [Paths -> SUBSET Paths]
    /\ Hosted \in [Origins -> SUBSET Paths]
    /\ Broken \subseteq Paths \X Nat
    /\ MaxRounds \in Nat /\ MaxVersion \in Nat \ {0} /\ MaxClears \in Nat
    /\ IsFiniteSet(Paths)

VARIABLES
    server,    \* origin -> path -> the version it serves, 0 for none
    files,     \* MemoryFs.files and mtimes, by path
    clock,     \* MemoryFs.clock
    missing,   \* MemoryFs.missing
    compiled,  \* template -> its compiled includes (_includeCache), by path
    loaded,    \* the templates loadTemplate has returned
    task,      \* task -> its call: what it is, its round, the paths it still fetches in
               \* it (want), the answers it has of them (got), and when done the
               \* sources it used; Nil at first and after an error
    clears     \* history: calls of clearCache()

disk == <<files, clock, missing>>
vars == <<server, disk, compiled, loaded, task, clears>>

----------------------------------------------------------------------------
(* One attempt of the engine.                                              *)

\* f with p mapped to v, and f without p.
Stored(f, p, v) == [q \in DOMAIN f \cup {p} |-> IF q = p THEN v ELSE f[q]]

Without(f, p) == [q \in DOMAIN f \ {p} |-> f[q]]

Source(p) == [origin |-> files[p].origin, version |-> files[p].version]

Absent(S) == S \ DOMAIN files

DoNotParse(S) == {p \in S \cap DOMAIN files : <<p, files[p].version>> \in Broken}

\* Does the template have p compiled, from what the file system has now?
UpToDate(tm, p) ==
    /\ p \in DOMAIN compiled[tm]
    /\ \/ compiled[tm][p].mtime = files[p].mtime
       \/ compiled[tm][p].source = Source(p)

\* The absent or broken file that stops the engine at a file p that it must compile:
\* p, or else one of p's imports.
Compiling(p) ==
    IF p \in Absent({p}) \cup DoNotParse({p}) THEN {p} ELSE Absent(Imports[p]) \cup DoNotParse(Imports[p])

Troubles(tm, p) == IF p \in DOMAIN files /\ UpToDate(tm, p) THEN {} ELSE Compiling(p)

\* resolveIncludeEntry, when nothing is in its way.
Refreshed(tm, p) ==
    IF UpToDate(tm, p)
      THEN [compiled[tm][p] EXCEPT !.mtime = files[p].mtime, !.source = Source(p)]
      ELSE [mtime |-> files[p].mtime, source |-> Source(p),
            imports |-> [i \in Imports[p] |-> Source(i)]]

Refresh(tm, S) ==
    compiled' = [compiled EXCEPT ![tm] =
        [p \in S \cup DOMAIN @ |-> IF p \in S THEN Refreshed(tm, p) ELSE compiled[tm][p]]]

\* The paths a call may reach.
Reach(c) ==
    LET direct == IF c.op = "load" THEN {Entry[c.tm]} ELSE c.includes IN
    direct \cup UNION {Imports[p] : p \in direct}

----------------------------------------------------------------------------
(* The calls.  resolveWithFetch runs an attempt when it is called and each *)
(* time a round of fetches has ended, with no await inside the attempt.    *)

Fetching(t) == task[t] # Nil /\ task[t].state = "fetching"

Done(t) == task[t] # Nil /\ task[t].state = "done"

Fail(t) == task' = [task EXCEPT ![t] = Nil]

Await(t, c, S) ==
    task' = [task EXCEPT ![t] =
                [c EXCEPT !.state = "fetching", !.want = S, !.got = <<>>]]

Succeed(t, c, sources) ==
    /\ task' = [task EXCEPT ![t] = [c EXCEPT !.state = "done", !.used = sources]]
    /\ missing' = {}

\* Mutant: what other calls found missing is not cleared before the attempt.
ThrowUncleared(t, c, p) ==
    /\ LET recorded == missing \cup Absent({p}) IN
          IF recorded = {} THEN Fail(t) ELSE Await(t, c, recorded)
    /\ missing' = {}

\* The engine throws at an absent file, or at one that does not parse: only the
\* first is recorded in missing, which was cleared before, and only if it recorded
\* one is there another round.
Throw(t, c, p) ==
    /\ IF p \in DOMAIN files THEN Fail(t) ELSE Await(t, c, {p})
    /\ missing' = {}

\* Template.fromFileWithEnv.
AttemptLoad(t, c) ==
    /\ c.op = "load"
    /\ LET p == Entry[c.tm] IN
         \/ /\ Compiling(p) = {}
            /\ Succeed(t, c, [q \in {p} \cup Imports[p] |-> Source(q)])
            /\ loaded' = loaded \cup {c.tm}
         \/ \E q \in Compiling(p) : Throw(t, c, q) /\ UNCHANGED loaded
    /\ UNCHANGED compiled

\* What a render that reaches the paths S uses of them.
UsedBy(tm, S) ==
    [q \in S \cup UNION {Imports[p] : p \in S} |->
        IF q \in S THEN Source(q)
                   ELSE Refreshed(tm, CHOOSE p \in S : q \in Imports[p]).imports[q]]

\* Template.render: includes that come before the one that throws are compiled.
AttemptRender(t, c) ==
    /\ c.op = "render"
    /\ LET sound == {p \in c.includes : Troubles(c.tm, p) = {}} IN
         \/ /\ sound = c.includes
            /\ Refresh(c.tm, sound)
            /\ Succeed(t, c, UsedBy(c.tm, sound))
         \/ \E p \in c.includes \ sound, before \in SUBSET sound :
               /\ \E q \in Troubles(c.tm, p) : Throw(t, c, q)
               /\ Refresh(c.tm, before)
    /\ UNCHANGED loaded

Attempt(t, c) ==
    /\ AttemptLoad(t, c) \/ AttemptRender(t, c)
    /\ UNCHANGED <<server, files, clock, clears>>

Begin(t, op, tm, includes) ==
    /\ ~Fetching(t)
    /\ Attempt(t, [op |-> op, tm |-> tm, includes |-> includes, round |-> 0, began |-> clears,
                   state |-> "begun", want |-> {}, got |-> <<>>, used |-> <<>>])

\* loadTemplate makes a template, which later calls render.
BeginLoad(t, tm) ==
    /\ tm \notin loaded
    /\ \A u \in Tasks : Fetching(u) => task[u].tm # tm
    /\ Begin(t, "load", tm, {})

BeginRender(t, tm, includes) ==
    /\ tm \in loaded
    /\ Begin(t, "render", tm, includes)

\* BrowserTemplate.render: the same, outside of any round.
SyncRender(tm, S) ==
    /\ tm \in loaded
    /\ LET sound == {p \in S : Troubles(tm, p) = {}} IN
         \/ sound = S /\ Refresh(tm, S) /\ UNCHANGED missing
         \/ \E p \in S \ sound, before \in SUBSET sound :
               /\ \E q \in Troubles(tm, p) : missing' = missing \cup Absent({q})
               /\ Refresh(tm, before)
    /\ UNCHANGED <<server, files, clock, loaded, task, clears>>

----------------------------------------------------------------------------
(* fetchMissingInto.                                                       *)

\* The server has p, and answers with it.
Delivered(t, p) ==
    LET o == OriginOf[task[t].tm] IN
    /\ server[o][p] # 0
    /\ task' = [task EXCEPT ![t].got = Stored(@, p, [origin |-> o, version |-> server[o][p]])]

\* Mutant: a response that is not OK neither stores the file nor throws.
AnswerOnlyOK(t, p) ==
    /\ Fetching(t)
    /\ p \in task[t].want \ DOMAIN task[t].got
    /\ Delivered(t, p)
    /\ UNCHANGED <<server, disk, compiled, loaded, clears>>

\* The server answers, or the connection fails, as it does if there is no such file.
Answer(t, p) ==
    /\ Fetching(t)
    /\ p \in task[t].want \ DOMAIN task[t].got
    /\ Delivered(t, p) \/ Fail(t)
    /\ UNCHANGED <<server, disk, compiled, loaded, clears>>

\* Mutant: the body is not stored under the path that was missing.
WriteElsewhere(t, p) ==
    /\ Fetching(t) /\ p \in DOMAIN task[t].got
    /\ clock' = clock + 1
    /\ missing' = missing \ {p}
    /\ task' = [task EXCEPT ![t].want = @ \ {p}, ![t].got = Without(@, p)]
    /\ UNCHANGED <<server, files, compiled, loaded, clears>>

\* MemoryFs.write, when the body has arrived.
Write(t, p) ==
    /\ Fetching(t) /\ p \in DOMAIN task[t].got
    /\ LET body == task[t].got[p] IN
         files' = Stored(files, p, [origin |-> body.origin, version |-> body.version,
                                    mtime |-> clock])
    /\ clock' = clock + 1
    /\ missing' = missing \ {p}
    /\ task' = [task EXCEPT ![t].want = @ \ {p}, ![t].got = Without(@, p)]
    /\ UNCHANGED <<server, compiled, loaded, clears>>

Again(t) ==
    IF task[t].round < MaxRounds
      THEN Attempt(t, [task[t] EXCEPT !.round = @ + 1])
      ELSE Fail(t) /\ UNCHANGED <<server, disk, compiled, loaded, clears>>

\* Promise.all resolves, and the next attempt runs; the loop ends after maxRounds.
NextRound(t) ==
    /\ Fetching(t)
    /\ task[t].want = {}
    /\ Again(t)

----------------------------------------------------------------------------
(* Others.                                                                 *)

\* Mutant: clear() starts a new clock.
ClearCacheAndClock ==
    /\ clears < MaxClears
    /\ clears' = clears + 1
    /\ files' = <<>>
    /\ missing' = {}
    /\ clock' = 1
    /\ UNCHANGED <<server, compiled, loaded, task>>

ClearCache ==
    /\ clears < MaxClears
    /\ clears' = clears + 1
    /\ files' = <<>>
    /\ missing' = {}
    /\ UNCHANGED <<server, clock, compiled, loaded, task>>

Publish(o, p) ==
    /\ p \in Edited
    /\ server[o][p] \in 1..MaxVersion - 1
    /\ server' = [server EXCEPT ![o][p] = @ + 1]
    /\ UNCHANGED <<disk, compiled, loaded, task, clears>>

----------------------------------------------------------------------------
Init ==
    /\ server = [o \in Origins |-> [p \in Paths |-> IF p \in Hosted[o] THEN 1 ELSE 0]]
    /\ files = <<>> /\ clock = 1 /\ missing = {}
    /\ compiled = [tm \in Templates |-> <<>>]
    /\ loaded = {}
    /\ task = [t \in Tasks |-> Nil]
    /\ clears = 0

Task(t) ==
    \/ \E tm \in Templates : BeginLoad(t, tm)
    \/ \E tm \in Templates : \E S \in Renders[tm] : BeginRender(t, tm, S)
    \/ \E p \in Paths : Answer(t, p)
    \/ \E p \in Paths : Write(t, p)
    \/ NextRound(t)

Next ==
    \/ \E t \in Tasks : Task(t)
    \/ \E tm \in Templates : \E S \in Renders[tm] : SyncRender(tm, S)
    \/ ClearCache
    \/ \E o \in Origins, p \in Paths : Publish(o, p)

\* The network answers or fails, and the event loop runs what is ready.
Fairness ==
    \A t \in Tasks :
        /\ WF_vars(\E p \in Paths : Answer(t, p))
        /\ WF_vars(\E p \in Paths : Write(t, p))
        /\ WF_vars(NextRound(t))

Spec == Init /\ [][Next]_vars /\ Fairness
----------------------------------------------------------------------------
(* Properties.                                                             *)

Sources == [origin : Origins, version : 1..MaxVersion]

Bodies == UNION {[D -> Sources] : D \in SUBSET Paths}

Calls ==
    [op : {"load", "render"}, tm : Templates, includes : SUBSET Paths, round : 0..MaxRounds,
     began : 0..MaxClears, state : {"fetching", "done"}, want : SUBSET Paths, got : Bodies,
     used : Bodies]

\* A modification time is one the clock has shown.
StoredFiles == [origin : Origins, version : 1..MaxVersion, mtime : 1..clock - 1]

CompiledIncludes == [mtime : 1..clock - 1, source : Sources, imports : Bodies]

IsPartial(f, T) == \E D \in SUBSET Paths : f \in [D -> T]

\* Every variable has its type; what has been compiled parses and holds the constants
\* of all its imports, and a call that is over fetches nothing: no body is stored for a
\* call that has returned.
TypeOK ==
    /\ server \in [Origins -> [Paths -> 0..MaxVersion]]
    /\ IsPartial(files, StoredFiles)
    /\ clock \in Nat \ {0}
    /\ missing \subseteq Paths
    /\ loaded \subseteq Templates
    /\ DOMAIN compiled = Templates
    /\ \A tm \in Templates : IsPartial(compiled[tm], CompiledIncludes)
    /\ \A tm \in Templates : \A p \in DOMAIN compiled[tm] :
          /\ <<p, compiled[tm][p].source.version>> \notin Broken
          /\ DOMAIN compiled[tm][p].imports = Imports[p]
    /\ task \in [Tasks -> Calls \cup {Nil}]
    /\ \A t \in Tasks :
          /\ Fetching(t) => DOMAIN task[t].got \subseteq task[t].want
          /\ Done(t) => task[t].want = {}
    /\ clears \in 0..MaxClears

\* "Overwriting a path correctly invalidates the engine's include cache"
\* (memory_fs.ts:29-30): a compiled include whose modification time is the file's was
\* compiled from that file, however often the file was evicted and fetched again.
IncludesCurrent ==
    \A tm \in Templates : \A p \in DOMAIN compiled[tm] \cap DOMAIN files :
        compiled[tm][p].mtime = files[p].mtime => compiled[tm][p].source = Source(p)

\* "Concurrent callers cannot corrupt each other's records" (load.ts:122-125): a call
\* fetches no path but those it may reach itself, whatever else found paths missing.
OnlyOwnFetches ==
    TypeOK /\ \A t \in Tasks : Fetching(t) => task[t].want \subseteq Reach(task[t])

\* "Each failed round fetches at least one new file" (load.ts:117-120): a call needs
\* no more rounds than there are files to reach, and as many again for each
\* clearCache() while it runs.
RoundsBounded ==
    \A t \in Tasks : task[t] # Nil =>
        task[t].round <= Cardinality(Reach(task[t])) * (1 + clears - task[t].began)

\* "This always terminates" (load.ts:117): every call ends, in a result or an error.
Settles == \A t \in Tasks : Fetching(t) ~> ~Fetching(t)
=============================================================================
