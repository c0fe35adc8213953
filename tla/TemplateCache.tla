--------------------------- MODULE TemplateCache ---------------------------
(***************************************************************************)
(* The thread-safe compilation cache of md-tmpl-core (cache.rs): a map of  *)
(* compiled main templates and a map of compiled includes, both keyed by   *)
(* canonical path, each behind a lock of its own.  load and                *)
(* resolve_include stat the file, look the entry up by modification time,  *)
(* read and hash the file, look the entry up by hash, compile without any  *)
(* lock and insert; other threads and the editors of the files run between *)
(* any two of these steps.                                                 *)
(*                                                                         *)
(* A file's contents are members of Contents and stand for their own hash  *)
(* and compiled form: hashing is injective and compiling is a function of  *)
(* the source (and, for an include, of the environment).                   *)
(***************************************************************************)
EXTENDS Naturals, Sequences, FiniteSets

CONSTANTS
    Threads,     \* threads that share one TemplateCache (Clone shares the Arcs)
    Paths,       \* paths as callers spell them
    Files,       \* canonical paths
    Canonical,   \* Paths -> Files: std::fs::canonicalize, symbolic links resolved
    Contents,    \* what a file can hold
    Broken,      \* the contents that do not compile
    Calls,       \* the calls clients make: [op, path, env]
    NoEnv,       \* the environment of load, which takes none
    Nil,         \* a local of a thread that has no value yet
    Clearers,    \* the threads that call clear()
    MaxEntries,  \* max_entries, or Unlimited
    Unlimited,   \* with_max_entries was not called
    Mtime,       \* version of a file -> its modification time
    Epoch,       \* SystemTime::UNIX_EPOCH
    Editable,    \* the files somebody writes
    Deletable,   \* the files somebody deletes
    MaxVersion,  \* bound: no file is written more often than this
    MaxClock     \* bound: no call starts once the clock shows this

ASSUME CanonicalAssumption == Canonical \in [Paths -> Files]

ASSUME BrokenAssumption == Broken \subseteq Contents

ASSUME CallsAssumption ==
    /\ \A c \in Calls : c.op \in {"load", "include"} /\ c.path \in Paths
    /\ \A c \in Calls : c.op = "load" => c.env = NoEnv

ASSUME LimitAssumption == MaxEntries \in Nat \cup {Unlimited} /\ Unlimited \notin Nat

ASSUME MtimeAssumption ==
    /\ MaxVersion \in Nat \ {0}
    /\ Mtime \in [1..MaxVersion -> Nat]
    /\ Epoch \in Nat
    /\ \A v \in 1..MaxVersion : Mtime[v] # Epoch

VARIABLES
    exists,      \* is there a file at this canonical path now?
    hist,        \* every content ever written to it, oldest first
    templates,   \* TemplateCache.templates: canonical path -> CacheEntry
    includes,    \* TemplateCache.includes: canonical path -> IncludeCacheEntry
    clock,       \* the last Instant::now() anybody read
    pc,          \* what each thread does next
    call,        \* the call it runs
    mtime,       \* its file_mtime
    source,      \* its source
    stamp,       \* the last_accessed of the CacheEntry it is about to insert
    result,      \* what its call returned
    since,       \* history: the version on disk when its call started
    gone         \* history: was its file absent at some moment of the call?

fsVars    == <<exists, hist>>
cacheVars == <<templates, includes, clock>>
locals    == <<call, mtime, source, stamp, since, gone>>
vars      == <<fsVars, cacheVars, pc, locals, result>>

Version(f) == Len(hist[f])

File(t) == Canonical[call[t].path]

At(t, op, label) == pc[t] = label /\ call[t].op = op

Goto(t, label) == pc' = [pc EXCEPT ![t] = label]

Return(t, r) == Goto(t, "done") /\ result' = [result EXCEPT ![t] = r]

Error == [ok |-> FALSE]

\* Instant::now().  Instants only matter to evict_lru, so that without a limit the
\* clock may stand still (and the calls need no bound).
Now == IF MaxEntries = Unlimited THEN clock ELSE clock + 1

Tick == clock' = Now

----------------------------------------------------------------------------
(* Eviction.                                                               *)

\* Three quarters of the limit survive an eviction, and at least one entry.
Target == IF (MaxEntries * 3) \div 4 > 1 THEN (MaxEntries * 3) \div 4 ELSE 1

\* Mutant: evicts only once the limit is exceeded.
EvictCountLate(n) ==
    IF MaxEntries = Unlimited \/ n <= MaxEntries THEN 0 ELSE n - Target

EvictCount(n) ==
    IF MaxEntries = Unlimited \/ n < MaxEntries \/ n < Target THEN 0 ELSE n - Target

\* Mutant: sorts by last_accessed the wrong way round.
VictimsNewest(cache) ==
    {V \in SUBSET DOMAIN cache :
        /\ Cardinality(V) = EvictCount(Cardinality(DOMAIN cache))
        /\ \A v \in V, k \in DOMAIN cache \ V : cache[v].accessed >= cache[k].accessed}

\* The sets of entries an eviction may remove: the oldest ones by last_accessed.
Victims(cache) ==
    {V \in SUBSET DOMAIN cache :
        /\ Cardinality(V) = EvictCount(Cardinality(DOMAIN cache))
        /\ \A v \in V, k \in DOMAIN cache \ V : cache[v].accessed <= cache[k].accessed}

\* evict_lru and HashMap::insert, under one write lock: evict first, whether or
\* not the key is new.
Inserted(cache, f, entry) ==
    {[k \in (DOMAIN cache \ V) \cup {f} |-> IF k = f THEN entry ELSE cache[k]] :
        V \in Victims(cache)}

----------------------------------------------------------------------------
(* The files.                                                              *)

\* An editor saves the file (or puts it back after it was deleted).
WriteFile(f, c) ==
    /\ f \in Editable
    /\ Version(f) < MaxVersion
    /\ hist' = [hist EXCEPT ![f] = Append(@, c)]
    /\ exists' = [exists EXCEPT ![f] = TRUE]
    /\ UNCHANGED <<cacheVars, pc, locals, result>>

DeleteFile(f) ==
    /\ f \in Deletable
    /\ exists[f]
    /\ exists' = [exists EXCEPT ![f] = FALSE]
    /\ gone' = [t \in Threads |-> gone[t] \/ (call[t] # Nil /\ File(t) = f)]
    /\ UNCHANGED <<hist, cacheVars, pc, call, mtime, source, stamp, since, result>>

----------------------------------------------------------------------------
(* What load and resolve_include share.                                    *)

\* A call begins by canonicalizing its path, which fails when no file is there.
Start(t, c) ==
    /\ pc[t] = "idle"
    /\ clock < MaxClock
    /\ call' = [call EXCEPT ![t] = c]
    /\ since' = [since EXCEPT ![t] = Version(Canonical[c.path])]
    /\ gone' = [gone EXCEPT ![t] = ~exists[Canonical[c.path]]]
    /\ IF exists[Canonical[c.path]]
          THEN Goto(t, "stat") /\ UNCHANGED result
          ELSE Return(t, Error)
    /\ UNCHANGED <<fsVars, cacheVars, mtime, source, stamp>>

Read(t) ==
    /\ pc[t] = "read"
    /\ IF exists[File(t)]
          THEN /\ source' = [source EXCEPT ![t] = hist[File(t)][Version(File(t))]]
               /\ Goto(t, "check")
               /\ UNCHANGED result
          ELSE Return(t, Error) /\ UNCHANGED source
    /\ UNCHANGED <<fsVars, cacheVars, call, mtime, stamp, since, gone>>

\* The caller takes the result; the call's locals go out of scope.
Finish(t) ==
    /\ pc[t] = "done"
    /\ Goto(t, "idle")
    /\ call' = [call EXCEPT ![t] = Nil]
    /\ mtime' = [mtime EXCEPT ![t] = Nil]
    /\ source' = [source EXCEPT ![t] = Nil]
    /\ stamp' = [stamp EXCEPT ![t] = Nil]
    /\ result' = [result EXCEPT ![t] = Nil]
    /\ since' = [since EXCEPT ![t] = 0]
    /\ gone' = [gone EXCEPT ![t] = FALSE]
    /\ UNCHANGED <<fsVars, cacheVars>>

\* Looking an entry up takes the write lock, because a hit touches the entry.
Touched(cache, f, modified) ==
    [cache EXCEPT ![f] = [@ EXCEPT !.accessed = Now, !.modified = modified]]

----------------------------------------------------------------------------
(* load.                                                                   *)

\* build_template_from_entry: the base directory is the caller's own.
FromEntry(t, entry) ==
    [ok |-> TRUE, source |-> entry.source, env |-> NoEnv, base |-> call[t].path]

LoadStat(t) ==
    /\ At(t, "load", "stat")
    /\ IF exists[File(t)]
          THEN /\ mtime' = [mtime EXCEPT ![t] = Mtime[Version(File(t))]]
               /\ Goto(t, "fast")
               /\ UNCHANGED result
          ELSE Return(t, Error) /\ UNCHANGED mtime
    /\ UNCHANGED <<fsVars, cacheVars, call, source, stamp, since, gone>>

\* Mutant: takes an entry that looks newer than the file.
LoadFastNewer(t) ==
    /\ At(t, "load", "fast")
    /\ LET f == File(t) IN
       IF f \in DOMAIN templates /\ templates[f].modified >= mtime[t]
         THEN /\ templates' = Touched(templates, f, mtime[t])
              /\ Tick
              /\ Return(t, FromEntry(t, templates[f]))
         ELSE Goto(t, "read") /\ UNCHANGED <<templates, clock, result>>
    /\ UNCHANGED <<fsVars, includes, locals>>

LoadFast(t) ==
    /\ At(t, "load", "fast")
    /\ LET f == File(t) IN
       IF f \in DOMAIN templates /\ templates[f].modified = mtime[t]
         THEN /\ templates' = Touched(templates, f, mtime[t])
              /\ Tick
              /\ Return(t, FromEntry(t, templates[f]))
         ELSE Goto(t, "read") /\ UNCHANGED <<templates, clock, result>>
    /\ UNCHANGED <<fsVars, includes, locals>>

\* Mutant: stats the file again when the hash matches.
LoadCheckRestats(t) ==
    /\ At(t, "load", "check")
    /\ LET f == File(t) IN
       IF f \in DOMAIN templates /\ templates[f].source = source[t]
         THEN /\ templates' = Touched(templates, f, Mtime[Version(f)])
              /\ Tick
              /\ Return(t, FromEntry(t, templates[f]))
         ELSE Goto(t, "compile") /\ UNCHANGED <<templates, clock, result>>
    /\ UNCHANGED <<fsVars, includes, locals>>

LoadCheck(t) ==
    /\ At(t, "load", "check")
    /\ LET f == File(t) IN
       IF f \in DOMAIN templates /\ templates[f].source = source[t]
         THEN /\ templates' = Touched(templates, f, mtime[t])
              /\ Tick
              /\ Return(t, FromEntry(t, templates[f]))
         ELSE Goto(t, "compile") /\ UNCHANGED <<templates, clock, result>>
    /\ UNCHANGED <<fsVars, includes, locals>>

\* Mutant: ignores the parse error.
LoadCompileAnything(t) ==
    /\ At(t, "load", "compile")
    /\ stamp' = [stamp EXCEPT ![t] = Now]
    /\ Tick
    /\ Goto(t, "insert")
    /\ UNCHANGED <<fsVars, templates, includes, call, mtime, source, since, gone,
                   result>>

\* Compiles without a lock; last_accessed is read here, before the lock is taken.
LoadCompile(t) ==
    /\ At(t, "load", "compile")
    /\ IF source[t] \in Broken
          THEN Return(t, Error) /\ UNCHANGED <<clock, stamp>>
          ELSE /\ stamp' = [stamp EXCEPT ![t] = Now]
               /\ Tick
               /\ Goto(t, "insert")
               /\ UNCHANGED result
    /\ UNCHANGED <<fsVars, templates, includes, call, mtime, source, since, gone>>

\* Mutant: refuses to cache into a full map.
LoadInsertOrFail(t) ==
    /\ At(t, "load", "insert")
    /\ LET entry == [source |-> source[t], modified |-> mtime[t], accessed |-> stamp[t]] IN
         IF Cardinality(DOMAIN templates) = MaxEntries
           THEN Return(t, Error) /\ UNCHANGED templates
           ELSE /\ templates' \in Inserted(templates, File(t), entry)
                /\ Return(t, FromEntry(t, entry))
    /\ UNCHANGED <<fsVars, includes, clock, locals>>

LoadInsert(t) ==
    /\ At(t, "load", "insert")
    /\ LET entry == [source |-> source[t], modified |-> mtime[t], accessed |-> stamp[t]] IN
         /\ templates' \in Inserted(templates, File(t), entry)
         /\ Return(t, FromEntry(t, entry))
    /\ UNCHANGED <<fsVars, includes, clock, locals>>

----------------------------------------------------------------------------
(* resolve_include.                                                        *)

\* The cached include is returned as it stands, with the environment baked into
\* its constants and the base directory of the call that compiled it.
FromInclude(entry) ==
    [ok |-> TRUE, source |-> entry.source, env |-> entry.env, base |-> entry.base]

\* Unlike load, a failed stat is not an error: the epoch stands for the time.
IncludeStat(t) ==
    /\ At(t, "include", "stat")
    /\ mtime' = [mtime EXCEPT ![t] =
                    IF exists[File(t)] THEN Mtime[Version(File(t))] ELSE Epoch]
    /\ Goto(t, "fast")
    /\ UNCHANGED <<fsVars, cacheVars, call, source, stamp, since, gone, result>>

IncludeFast(t) ==
    /\ At(t, "include", "fast")
    /\ LET f == File(t) IN
       IF /\ f \in DOMAIN includes
          /\ includes[f].modified = mtime[t]
          /\ includes[f].env = call[t].env
         THEN /\ includes' = Touched(includes, f, mtime[t])
              /\ Tick
              /\ Return(t, FromInclude(includes[f]))
         ELSE Goto(t, "read") /\ UNCHANGED <<includes, clock, result>>
    /\ UNCHANGED <<fsVars, templates, locals>>

\* Mutant: looks at the hash of the source but not at the environment.
IncludeCheckAnyEnv(t) ==
    /\ At(t, "include", "check")
    /\ LET f == File(t) IN
       IF f \in DOMAIN includes /\ includes[f].source = source[t]
         THEN /\ includes' = Touched(includes, f, mtime[t])
              /\ Tick
              /\ Return(t, FromInclude(includes[f]))
         ELSE Goto(t, "compile") /\ UNCHANGED <<includes, clock, result>>
    /\ UNCHANGED <<fsVars, templates, locals>>

IncludeCheck(t) ==
    /\ At(t, "include", "check")
    /\ LET f == File(t) IN
       IF /\ f \in DOMAIN includes
          /\ includes[f].source = source[t]
          /\ includes[f].env = call[t].env
         THEN /\ includes' = Touched(includes, f, mtime[t])
              /\ Tick
              /\ Return(t, FromInclude(includes[f]))
         ELSE Goto(t, "compile") /\ UNCHANGED <<includes, clock, result>>
    /\ UNCHANGED <<fsVars, templates, locals>>

IncludeCompile(t) ==
    /\ At(t, "include", "compile")
    /\ IF source[t] \in Broken THEN Return(t, Error)
                                ELSE Goto(t, "insert") /\ UNCHANGED result
    /\ UNCHANGED <<fsVars, cacheVars, locals>>

IncludeInsert(t) ==
    /\ At(t, "include", "insert")
    /\ LET entry == [source |-> source[t], env |-> call[t].env, modified |-> mtime[t],
                     accessed |-> Now, base |-> call[t].path] IN
         /\ includes' \in Inserted(includes, File(t), entry)
         /\ Return(t, FromInclude(entry))
    /\ Tick
    /\ UNCHANGED <<fsVars, templates, locals>>

----------------------------------------------------------------------------
(* clear: one map after the other, each under its own lock.                *)

ClearTemplates(t) ==
    /\ t \in Clearers
    /\ pc[t] = "idle"
    /\ templates' = <<>>
    /\ Goto(t, "clearing")
    /\ UNCHANGED <<fsVars, includes, clock, locals, result>>

ClearIncludes(t) ==
    /\ pc[t] = "clearing"
    /\ includes' = <<>>
    /\ Goto(t, "idle")
    /\ UNCHANGED <<fsVars, templates, clock, locals, result>>

----------------------------------------------------------------------------
Init ==
    /\ exists = [f \in Files |-> TRUE]
    /\ hist \in [Files -> {<<c>> : c \in Contents}]
    /\ templates = <<>>
    /\ includes = <<>>
    /\ clock = 0
    /\ pc = [t \in Threads |-> "idle"]
    /\ call = [t \in Threads |-> Nil]
    /\ mtime = [t \in Threads |-> Nil]
    /\ source = [t \in Threads |-> Nil]
    /\ stamp = [t \in Threads |-> Nil]
    /\ result = [t \in Threads |-> Nil]
    /\ since = [t \in Threads |-> 0]
    /\ gone = [t \in Threads |-> FALSE]

Load(t) ==
    LoadStat(t) \/ LoadFast(t) \/ LoadCheck(t) \/ LoadCompile(t) \/ LoadInsert(t)

ResolveInclude(t) ==
    IncludeStat(t) \/ IncludeFast(t) \/ IncludeCheck(t) \/ IncludeCompile(t) \/ IncludeInsert(t)

Thread(t) ==
    \/ \E c \in Calls : Start(t, c)
    \/ Load(t)
    \/ ResolveInclude(t)
    \/ Read(t)
    \/ Finish(t)
    \/ ClearTemplates(t)
    \/ ClearIncludes(t)

Next ==
    \/ \E t \in Threads : Thread(t)
    \/ \E f \in Files, c \in Contents : WriteFile(f, c)
    \/ \E f \in Files : DeleteFile(f)

Spec == Init /\ [][Next]_vars

----------------------------------------------------------------------------
(* Properties.                                                             *)

Locals(S) == S \cup {Nil}

CacheEntry == [source : Contents \ Broken, modified : Nat, accessed : Nat]

IncludeCacheEntry ==
    [source : Contents \ Broken, env : {c.env : c \in Calls}, modified : Nat,
     accessed : Nat, base : Paths]

Result ==
    {Error} \cup [ok : {TRUE}, source : Contents \ Broken,
                 env : {c.env : c \in Calls}, base : Paths]

\* Nil is neither a call nor a result, so that None is told from Some (Option).
ASSUME NilAssumption == Nil \notin Calls /\ Nil \notin Result

IsPartial(cache, S, T) == \E D \in SUBSET S : cache \in [D -> T]

\* The locals a step needs have their values when the thread gets there.
LocalsBound(t) ==
    /\ pc[t] \notin {"idle", "clearing"} => call[t] \in Calls
    /\ pc[t] \in {"fast", "read", "check", "compile", "insert"} => mtime[t] \in Nat
    /\ pc[t] \in {"check", "compile", "insert"} => source[t] \in Contents
    /\ pc[t] = "insert" => source[t] \notin Broken
    /\ At(t, "load", "insert") => stamp[t] \in Nat
    /\ pc[t] = "done" => result[t] \in Result

\* Every variable has its type; what is cached or returned has been compiled,
\* so a file that does not compile is never stored or served.
TypeOK ==
    /\ exists \in [Files -> BOOLEAN]
    /\ hist \in [Files -> Seq(Contents)]
    /\ \A f \in Files : Version(f) \in 1..MaxVersion
    /\ IsPartial(templates, Files, CacheEntry)
    /\ IsPartial(includes, Files, IncludeCacheEntry)
    /\ clock \in Nat
    /\ pc \in [Threads -> {"idle", "stat", "fast", "read", "check", "compile", "insert",
                           "done", "clearing"}]
    /\ call \in [Threads -> Locals(Calls)]
    /\ mtime \in [Threads -> Locals(Nat)]
    /\ source \in [Threads -> Locals(Contents)]
    /\ stamp \in [Threads -> Locals(Nat)]
    /\ result \in [Threads -> Locals(Result)]
    /\ since \in [Threads -> Nat]
    /\ gone \in [Threads -> BOOLEAN]
    /\ \A t \in Threads : LocalsBound(t)

\* The versions of its file that were on disk while t's call was running.
Window(t) == since[t]..Version(File(t))

StatFailed(t) == mtime[t] = Epoch

\* Every write gave its file a modification time of its own.
TimesAreDistinct ==
    \A v, w \in 1..MaxVersion : Mtime[v] = Mtime[w] => v = w

\* load (cache.rs:307) promises to use the cache "if the source is unchanged":
\* whatever other threads and editors do meanwhile, a call returns a content the
\* file had at some moment of the call.  It rests on the stat coming before the
\* read, and on every write giving the file a modification time of its own.  An
\* include whose stat failed is excepted: all such calls share the epoch.
Fresh ==
    \A t \in Threads :
        pc[t] = "done" /\ result[t].ok /\ ~StatFailed(t)
            => \E v \in Window(t) : hist[File(t)][v] = result[t].source

\* resolve_include never hands out a compilation made under another environment
\* (cache.rs:98-101), and a load resolves includes from the caller's directory
\* even when another spelling of the path filled the entry.
OwnContext ==
    \A t \in Threads :
        pc[t] = "done" /\ result[t].ok
            => /\ result[t].env = call[t].env
               /\ call[t].op = "load" => result[t].base = call[t].path

\* A call fails only for a reason it met: the file did not compile, or was gone,
\* at some moment of the call.  An entry of an older, good source does not hide
\* the error, and a broken file does not outlive its repair.
ErrorHasCause ==
    \A t \in Threads :
        pc[t] = "done" /\ ~result[t].ok
            => \/ gone[t]
               \/ \E v \in Window(t) : hist[File(t)][v] \in Broken

\* Neither map outgrows max_entries (cache.rs:275-279).
WithinLimit ==
    MaxEntries # Unlimited =>
        /\ Cardinality(DOMAIN templates) <= MaxEntries
        /\ Cardinality(DOMAIN includes) <= MaxEntries

\* What one step may remove from a map: an insertion that finds the map full
\* removes entries used no later than the ones it leaves, and leaves Target of
\* them; no other step but clear removes anything (evict_lru, cache.rs:614).
EvictsOldest(cache, after) ==
    LET evicted == DOMAIN cache \ DOMAIN after
        left == {f \in DOMAIN cache \ evicted : after[f] = cache[f]}
    IN  evicted # {} =>
            /\ Cardinality(DOMAIN cache) >= MaxEntries
            /\ \A f \in evicted, g \in left : cache[f].accessed <= cache[g].accessed
            /\ Cardinality(DOMAIN after) \in Target..Target + 1

EvictionIsOrderly ==
    [][/\ templates' # <<>> => EvictsOldest(templates, templates')
       /\ includes' # <<>> => EvictsOldest(includes, includes')]_vars

----------------------------------------------------------------------------
(* Why Fresh holds: what an entry and a running call know of their file.   *)

\* Content c of f was on disk no earlier than modification time m was.
Backed(f, c, m) ==
    \/ m = Epoch
    \/ \E v \in 1..Version(f) : hist[f][v] = c /\ \E w \in 1..v : Mtime[w] = m

TemplatesBacked ==
    \A f \in DOMAIN templates : Backed(f, templates[f].source, templates[f].modified)

IncludesBacked ==
    \A f \in DOMAIN includes : Backed(f, includes[f].source, includes[f].modified)

\* The call's file had the time t saw, and then the content t read, while the
\* call ran.
CallBacked(t) ==
    /\ pc[t] \notin {"idle", "clearing"} => since[t] \in 1..Version(File(t))
    /\ pc[t] \in {"fast", "read", "check", "compile", "insert"}
          => StatFailed(t) \/ \E w \in Window(t) : Mtime[w] = mtime[t]
    /\ pc[t] \in {"check", "compile", "insert"}
          => \E v \in Window(t) :
                /\ hist[File(t)][v] = source[t]
                /\ StatFailed(t) \/ \E w \in since[t]..v : Mtime[w] = mtime[t]

\* The inductive core of Fresh: an entry's content is never older than its
\* modification time, and a call's locals were on disk in stat-then-read order.
FreshInv == TemplatesBacked /\ IncludesBacked /\ \A t \in Threads : CallBacked(t)

----------------------------------------------------------------------------
\* The cache cannot be observed: what it does, seen as calls that start and
\* return, is what loads without a cache do.
Uncached == INSTANCE UncachedLoads WITH request <- call

Transparent == Uncached!Spec
=============================================================================
