------------------- MODULE TemplateCacheRefinementProofs -------------------
(***************************************************************************)
(* TemplateCache implements UncachedLoads: for any number of threads,      *)
(* files, calls and entries, under any limit and whoever calls clear(),    *)
(* calls return what they would return without a cache.                    *)
(***************************************************************************)
EXTENDS TemplateCacheProofs

----------------------------------------------------------------------------
(* What the refinement needs beyond FreshInv.                              *)

\* A thread has a call while it runs one, and a result once it is done.
Quiet(t) ==
    /\ pc[t] \in {"idle", "clearing"} => call[t] = Nil
    /\ pc[t] # "done" => result[t] = Nil

\* Only an include that met the absence of its file goes on without a stat.
StatExcused(t) ==
    pc[t] \in {"fast", "read", "check", "compile", "insert"} /\ StatFailed(t)
        => call[t].op = "include" /\ gone[t]

\* f once had the content c.
Held(f, c) == \E v \in 1..Version(f) : hist[f][v] = c

\* Even an entry whose time nobody vouches for holds a content its file had, and
\* an include's base directory is under a name of its file.
EntriesHeld ==
    /\ \A f \in DOMAIN templates : Held(f, templates[f].source)
    /\ \A f \in DOMAIN includes :
          Held(f, includes[f].source) /\ Canonical[includes[f].base] = f

\* Every step keeps threads quiet when they run no call.
LEMMA StepQuiet ==
    ASSUME TypeOK, [Next]_vars, NEW t \in Threads, Quiet(t)
    PROVE  Quiet(t)'
<1>1. CASE SameLocals(t) /\ result'[t] = result[t]
  BY <1>1 DEF Quiet, SameLocals
<1>2. CASE Thread(t)
  BY <1>2
  DEF Thread, Load, ResolveInclude, Start, Read, Finish, LoadStat, LoadFast, LoadCheck,
      LoadCompile, LoadInsert, IncludeStat, IncludeFast, IncludeCheck, IncludeCompile,
      IncludeInsert, ClearTemplates, ClearIncludes, Goto, Return, At, TypeOK, locals, Quiet
<1> QED  BY <1>1, <1>2, OthersKeepResults, EditorsKeepResults DEF Next

\* Every step keeps failed stats excused.
LEMMA StepExcused ==
    ASSUME TypeOK, AbsenceIsMet, [Next]_vars, NEW t \in Threads, StatExcused(t)
    PROVE  StatExcused(t)'
<1>1. CASE SameLocals(t)
  BY <1>1, GoneStays DEF StatExcused, SameLocals, StatFailed
<1>2. CASE LoadStat(t)
  <2>1. /\ File(t) \in Files /\ Version(File(t)) \in 1..MaxVersion
    BY <1>2, FileType DEF LoadStat, At
  <2>2. Mtime[Version(File(t))] # Epoch
    BY <2>1, MtimeAssumption
  <2>3. CASE exists[File(t)]
    <3>1. mtime'[t] = Mtime[Version(File(t))]
      BY <1>2, <2>3 DEF LoadStat, TypeOK
    <3> QED  BY <2>2, <3>1 DEF StatExcused, StatFailed
  <2>4. CASE ~exists[File(t)]
    BY <1>2, <2>4 DEF LoadStat, Return, Goto, StatExcused, TypeOK
  <2> QED  BY <2>3, <2>4
<1>3. CASE IncludeStat(t)
  <2>1. /\ File(t) \in Files /\ Version(File(t)) \in 1..MaxVersion
    BY <1>3, FileType DEF IncludeStat, At
  <2>2. Mtime[Version(File(t))] # Epoch
    BY <2>1, MtimeAssumption
  <2>3. /\ call[t].op = "include" /\ pc[t] = "stat" /\ UNCHANGED <<call, gone>>
        /\ mtime'[t] = IF exists[File(t)] THEN Mtime[Version(File(t))] ELSE Epoch
    BY <1>3 DEF IncludeStat, At, TypeOK
  <2> QED  BY <2>2, <2>3 DEF StatExcused, StatFailed, AbsenceIsMet, MeetsAbsence
<1>4. ASSUME \/ \E c \in Calls : Start(t, c)
             \/ Finish(t) \/ ClearTemplates(t) \/ ClearIncludes(t)
      PROVE  StatExcused(t)'
  BY <1>4
  DEF Start, Finish, ClearTemplates, ClearIncludes, Return, Goto, StatExcused, TypeOK
<1>5. ASSUME \/ Read(t) \/ LoadFast(t) \/ LoadCheck(t) \/ LoadCompile(t) \/ LoadInsert(t)
             \/ IncludeFast(t) \/ IncludeCheck(t) \/ IncludeCompile(t) \/ IncludeInsert(t)
      PROVE  StatExcused(t)'
  <2>1. /\ pc[t] \in {"fast", "read", "check", "compile", "insert"}
        /\ UNCHANGED <<call, mtime, gone>>
    BY <1>5
    DEF Read, LoadFast, LoadCheck, LoadCompile, LoadInsert, IncludeFast, IncludeCheck,
        IncludeCompile, IncludeInsert, At, locals
  <2> QED  BY <2>1 DEF StatExcused, StatFailed
<1>6. CASE Thread(t)
  BY <1>2, <1>3, <1>4, <1>5, <1>6 DEF Thread, Load, ResolveInclude
<1> QED  BY <1>1, <1>6, OthersKeepResults, EditorsKeepResults DEF Next

\* What a file held, it goes on having held.
LEMMA HeldStays ==
    ASSUME HistGrows, NEW f \in Files, NEW c, Held(f, c)
    PROVE  Held(f, c)'
  BY DEF HistGrows, Held

\* The content a call read is one its file held.
LEMMA SourceHeld ==
    ASSUME TypeOK, FreshInv, NEW t \in Threads, pc[t] \in {"check", "compile", "insert"}
    PROVE  Held(File(t), source[t])
<1>1. PICK v \in Window(t) : hist[File(t)][v] = source[t]
  BY ReadIsFresh
<1>2. since[t] \in 1..Version(File(t)) /\ Version(File(t)) \in Nat
  BY FileType DEF FreshInv, CallBacked
<1>3. v \in 1..Version(File(t))
  BY <1>2 DEF Window
<1> QED  BY <1>1, <1>3 DEF Held

\* Every step keeps the entries' contents and base directories their files' own.
LEMMA StepHeld ==
    ASSUME TypeOK, FreshInv, EntriesHeld, [Next]_vars
    PROVE  EntriesHeld'
<1>1. /\ HistGrows /\ DOMAIN templates \subseteq Files /\ DOMAIN includes \subseteq Files
  BY NextGrows DEF TypeOK, IsPartial
<1> DEFINE Kept ==
              /\ \A f \in DOMAIN templates' :
                    f \in DOMAIN templates /\ templates'[f].source = templates[f].source
              /\ \A f \in DOMAIN includes' :
                    /\ f \in DOMAIN includes
                    /\ includes'[f].source = includes[f].source
                    /\ includes'[f].base = includes[f].base
<1>2. CASE Kept
  BY <1>1, <1>2, HeldStays DEF EntriesHeld
<1>3. ASSUME NEW t \in Threads, LoadFast(t) \/ LoadCheck(t)
      PROVE  Kept
  <2>1. UNCHANGED includes /\ mtime[t] \in Nat /\ clock \in Nat
    BY <1>3 DEF LoadFast, LoadCheck, At, TypeOK, LocalsBound
  <2>2. \/ UNCHANGED templates
        \/ /\ File(t) \in DOMAIN templates
           /\ templates' = Touched(templates, File(t), mtime[t])
    BY <1>3 DEF LoadFast, LoadCheck
  <2>3. CASE UNCHANGED templates
    BY <2>1, <2>3
  <2>4. CASE ~UNCHANGED templates
    <3>1. IsPartial(templates, Files, CacheEntry)
      BY DEF TypeOK
    <3>2. /\ DOMAIN templates' = DOMAIN templates
           /\ \A k \in DOMAIN templates : templates'[k].source = templates[k].source
      BY <2>1, <2>2, <2>4, <3>1, TouchedTemplates
    <3> QED  BY <2>1, <3>2
  <2> QED  BY <2>3, <2>4
<1>4. ASSUME NEW t \in Threads, IncludeFast(t) \/ IncludeCheck(t)
      PROVE  Kept
  <2>1. UNCHANGED templates /\ mtime[t] \in Nat /\ clock \in Nat
    BY <1>4 DEF IncludeFast, IncludeCheck, At, TypeOK, LocalsBound
  <2>2. \/ UNCHANGED includes
        \/ /\ File(t) \in DOMAIN includes
           /\ includes' = Touched(includes, File(t), mtime[t])
    BY <1>4 DEF IncludeFast, IncludeCheck
  <2>3. CASE UNCHANGED includes
    BY <2>1, <2>3
  <2>4. CASE ~UNCHANGED includes
    <3>1. IsPartial(includes, Files, IncludeCacheEntry)
      BY DEF TypeOK
    <3>2. /\ DOMAIN includes' = DOMAIN includes
           /\ \A k \in DOMAIN includes :
                 includes'[k].source = includes[k].source /\ includes'[k].base = includes[k].base
      BY <2>1, <2>2, <2>4, <3>1, TouchedIncludes
    <3> QED  BY <2>1, <3>2
  <2> QED  BY <2>3, <2>4
<1>5. ASSUME NEW t \in Threads, LoadInsert(t)
      PROVE  EntriesHeld'
  <2>1. pc[t] = "insert" /\ UNCHANGED includes
    BY <1>5 DEF LoadInsert, At
  <2>2. PICK entry : /\ entry.source = source[t]
                     /\ templates' \in Inserted(templates, File(t), entry)
    BY <1>5 DEF LoadInsert
  <2>3. File(t) \in Files /\ Held(File(t), source[t])
    BY <2>1, FileType, SourceHeld
  <2>4. \A f \in DOMAIN templates' : f \in Files /\ Held(f, templates'[f].source)
    BY <1>1, <2>2, <2>3, InsertedEntries DEF EntriesHeld
  <2> QED  BY <1>1, <2>1, <2>4, HeldStays DEF EntriesHeld
<1>6. ASSUME NEW t \in Threads, IncludeInsert(t)
      PROVE  EntriesHeld'
  <2>1. pc[t] = "insert" /\ UNCHANGED templates
    BY <1>6 DEF IncludeInsert, At
  <2>2. PICK entry : /\ entry.source = source[t] /\ entry.base = call[t].path
                     /\ includes' \in Inserted(includes, File(t), entry)
    BY <1>6 DEF IncludeInsert
  <2>3. File(t) \in Files /\ Held(File(t), source[t]) /\ Canonical[call[t].path] = File(t)
    BY <2>1, FileType, SourceHeld DEF File
  <2>4. \A f \in DOMAIN includes' :
           f \in Files /\ Held(f, includes'[f].source) /\ Canonical[includes'[f].base] = f
    BY <1>1, <2>2, <2>3, InsertedEntries DEF EntriesHeld
  <2> QED  BY <1>1, <2>1, <2>4, HeldStays DEF EntriesHeld
<1>7. ASSUME NEW t \in Threads, ClearTemplates(t) \/ ClearIncludes(t)
      PROVE  Kept
  BY <1>7 DEF ClearTemplates, ClearIncludes
<1>8. ASSUME NEW t \in Threads,
             \/ \E c \in Calls : Start(t, c)
             \/ LoadStat(t) \/ LoadCompile(t) \/ IncludeStat(t) \/ IncludeCompile(t)
             \/ Read(t) \/ Finish(t)
      PROVE  Kept
  BY <1>8
  DEF Start, LoadStat, LoadCompile, IncludeStat, IncludeCompile, Read, Finish, cacheVars
<1>9. CASE \/ \E f \in Files, c \in Contents : WriteFile(f, c)
           \/ \E f \in Files : DeleteFile(f)
           \/ UNCHANGED vars
  BY <1>2, <1>9 DEF WriteFile, DeleteFile, vars, cacheVars
<1>10. CASE \E t \in Threads : Thread(t)
  <2> HIDE DEF Kept
  <2> QED
    BY <1>2, <1>3, <1>4, <1>5, <1>6, <1>7, <1>8, <1>10 DEF Thread, Load, ResolveInclude
<1> QED  BY <1>9, <1>10 DEF Next

\* The inductive invariant of the refinement, with TypeOK and FreshInv.
TransparentInv ==
    AbsenceIsMet /\ EntriesHeld /\ \A t \in Threads : Quiet(t) /\ StatExcused(t)

LEMMA AlwaysTransparentInv == Spec => []TransparentInv
<1>1. Init => TransparentInv
  BY DEF Init, TransparentInv, AbsenceIsMet, MeetsAbsence, EntriesHeld, Quiet, StatExcused
<1>2. TypeOK /\ FreshInv /\ TransparentInv /\ [Next]_vars => TransparentInv'
  <2> SUFFICES ASSUME TypeOK, FreshInv, TransparentInv, [Next]_vars PROVE TransparentInv'
    OBVIOUS
  <2>1. AbsenceIsMet'
    BY StepMeets DEF TransparentInv, AbsenceIsMet
  <2>2. EntriesHeld'
    BY StepHeld DEF TransparentInv
  <2>3. \A t \in Threads : Quiet(t)' /\ StatExcused(t)'
    BY StepQuiet, StepExcused DEF TransparentInv
  <2> QED  BY <2>1, <2>2, <2>3 DEF TransparentInv
<1> QED  BY <1>1, <1>2, TypeCorrect, HistoriesBacked, PTL DEF Spec

----------------------------------------------------------------------------
(* The steps.                                                              *)

\* A call that returns a content its file had while the call ran (or before it,
\* where the cache may be that old), that compiles, for its own environment, is
\* answered as without a cache.
LEMMA Answers ==
    ASSUME TypeOK, NEW t \in Threads, call[t] \in Calls, result[t] = Nil,
           UNCHANGED <<exists, hist, call, since, gone>>,
           NEW v \in Uncached!Oldest(t)..Version(File(t)),
           NEW b \in Uncached!Bases(t),
           hist[File(t)][v] \notin Broken,
           result' = [result EXCEPT ![t] =
               [ok |-> TRUE, source |-> hist[File(t)][v], env |-> call[t].env, base |-> b]]
    PROVE  Uncached!Next
<1>1. call[t] # Nil
  BY NilAssumption
<1>2. Uncached!Answer(t)
  BY <1>1 DEF Uncached!Answer, Uncached!Running, Uncached!File, File, Version
<1> QED  BY <1>2 DEF Uncached!Next

\* A call that fails with a cause fails as without a cache.
LEMMA Fails ==
    ASSUME TypeOK, NEW t \in Threads, call[t] \in Calls, result[t] = Nil,
           UNCHANGED <<exists, hist, call, since, gone>>, Cause(t),
           result' = [result EXCEPT ![t] = Error]
    PROVE  Uncached!Next
<1>1. call[t] # Nil
  BY NilAssumption
<1>2. Uncached!Fail(t)
  BY <1>1
  DEF Uncached!Fail, Uncached!Running, Uncached!File, Uncached!Error, File, Version, Error,
      Cause, Window
<1> QED  BY <1>2 DEF Uncached!Next

\* Every version of the file since the call started may answer it.
LEMMA WindowAnswers ==
    ASSUME TypeOK, FreshInv, NEW t \in Threads, pc[t] \notin {"idle", "clearing"}
    PROVE  Window(t) \subseteq Uncached!Oldest(t)..Version(File(t))
<1>1. since[t] \in 1..Version(File(t)) /\ Version(File(t)) \in Nat
  BY FileType DEF FreshInv, CallBacked
<1>2. Uncached!Oldest(t) \in {1, since[t]}
  BY DEF Uncached!Oldest
<1> QED  BY <1>1, <1>2 DEF Window

\* An entry the fast path hits holds a content that may answer the call: one of
\* its own time, or, for an include whose stat failed, any its file ever had.
LEMMA HitAnswers ==
    ASSUME TimesAreDistinct, TypeOK, FreshInv, NEW t \in Threads, pc[t] = "fast",
           StatExcused(t), NEW c, Backed(File(t), c, mtime[t]), Held(File(t), c)
    PROVE  \E v \in Uncached!Oldest(t)..Version(File(t)) : hist[File(t)][v] = c
<1>1. CASE ~StatFailed(t)
  BY <1>1, HitIsFresh, WindowAnswers
<1>2. CASE StatFailed(t)
  <2>1. call[t].op = "include" /\ gone[t]
    BY <1>2 DEF StatExcused
  <2>2. Uncached!Oldest(t) = 1
    BY <2>1 DEF Uncached!Oldest
  <2> QED  BY <2>2 DEF Held
<1> QED  BY <1>1, <1>2

\* So does what the call read itself.
LEMMA ReadAnswers ==
    ASSUME TypeOK, FreshInv, NEW t \in Threads, pc[t] \in {"check", "compile", "insert"}
    PROVE  \E v \in Uncached!Oldest(t)..Version(File(t)) : hist[File(t)][v] = source[t]
  BY ReadIsFresh, WindowAnswers

\* What a hit or an insertion of load returns is an answer.
LEMMA LoadAnswers ==
    ASSUME TimesAreDistinct, TypeOK, FreshInv, TransparentInv, NEW t \in Threads,
           LoadFast(t) \/ LoadCheck(t) \/ LoadInsert(t)
    PROVE  Uncached!Next \/ UNCHANGED Uncached!vars
<1>1. /\ pc[t] \in {"fast", "check", "insert"} /\ call[t].op = "load"
      /\ UNCHANGED <<exists, hist, call, since, gone>>
  BY DEF LoadFast, LoadCheck, LoadInsert, At, fsVars, locals
<1>2. CASE UNCHANGED result
  BY <1>1, <1>2 DEF Uncached!vars
<1>3. CASE ~UNCHANGED result
  <2>1. PICK c : /\ c \in Contents \ Broken
                 /\ result' = [result EXCEPT ![t] =
                       [ok |-> TRUE, source |-> c, env |-> NoEnv, base |-> call[t].path]]
                 /\ \/ c = source[t] /\ pc[t] \in {"check", "insert"}
                    \/ /\ pc[t] = "fast" /\ Held(File(t), c)
                       /\ Backed(File(t), c, mtime[t])
    <3>1. CASE LoadFast(t)
      <4>1. /\ File(t) \in DOMAIN templates /\ templates[File(t)].modified = mtime[t]
            /\ Return(t, FromEntry(t, templates[File(t)]))
        BY <1>3, <3>1 DEF LoadFast
      <4>2. templates[File(t)].source \in Contents \ Broken
        BY <4>1 DEF TypeOK, IsPartial, CacheEntry
      <4> QED
        BY <3>1, <4>1, <4>2
        DEF LoadFast, At, Return, FromEntry, FreshInv, TemplatesBacked, TransparentInv,
            EntriesHeld
    <3>2. CASE LoadCheck(t)
      <4>1. /\ File(t) \in DOMAIN templates /\ templates[File(t)].source = source[t]
            /\ Return(t, FromEntry(t, templates[File(t)]))
        BY <1>3, <3>2 DEF LoadCheck
      <4>2. templates[File(t)].source \in Contents \ Broken
        BY <4>1 DEF TypeOK, IsPartial, CacheEntry
      <4> QED  BY <3>2, <4>1, <4>2 DEF LoadCheck, At, Return, FromEntry
    <3>3. CASE LoadInsert(t)
      <4>1. source[t] \in Contents \ Broken
        BY <3>3 DEF LoadInsert, At, TypeOK, LocalsBound
      <4> QED  BY <3>3, <4>1 DEF LoadInsert, At, Return, FromEntry
    <3> QED  BY <3>1, <3>2, <3>3
  <2>2. /\ call[t] \in Calls /\ call[t].env = NoEnv
        /\ result[t] = Nil /\ StatExcused(t)
    BY <1>1, FileType, CallsAssumption DEF TransparentInv, Quiet
  <2>3. PICK v \in Uncached!Oldest(t)..Version(File(t)) : hist[File(t)][v] = c
    BY <2>1, <2>2, HitAnswers, ReadAnswers
  <2>4. call[t].path \in Uncached!Bases(t)
    BY <1>1 DEF Uncached!Bases
  <2>5. result' = [result EXCEPT ![t] = [ok |-> TRUE, source |-> hist[File(t)][v],
                                         env |-> call[t].env, base |-> call[t].path]]
    BY <2>1, <2>2, <2>3
  <2> QED  BY <1>1, <2>1, <2>2, <2>3, <2>4, <2>5, Answers
<1> QED  BY <1>2, <1>3

\* And of resolve_include.
LEMMA IncludeAnswers ==
    ASSUME TimesAreDistinct, TypeOK, FreshInv, TransparentInv, NEW t \in Threads,
           IncludeFast(t) \/ IncludeCheck(t) \/ IncludeInsert(t)
    PROVE  Uncached!Next \/ UNCHANGED Uncached!vars
<1>1. /\ pc[t] \in {"fast", "check", "insert"} /\ call[t].op = "include"
      /\ UNCHANGED <<exists, hist, call, since, gone>>
  BY DEF IncludeFast, IncludeCheck, IncludeInsert, At, fsVars, locals
<1>2. CASE UNCHANGED result
  BY <1>1, <1>2 DEF Uncached!vars
<1>3. CASE ~UNCHANGED result
  <2>1. PICK c, b :
           /\ c \in Contents \ Broken /\ b \in Paths /\ Canonical[b] = File(t)
           /\ result' = [result EXCEPT ![t] =
                 [ok |-> TRUE, source |-> c, env |-> call[t].env, base |-> b]]
           /\ \/ c = source[t] /\ pc[t] \in {"check", "insert"}
              \/ /\ pc[t] = "fast" /\ Held(File(t), c)
                 /\ Backed(File(t), c, mtime[t])
    <3>1. ASSUME File(t) \in DOMAIN includes
          PROVE  /\ includes[File(t)].source \in Contents \ Broken
                 /\ includes[File(t)].base \in Paths
                 /\ Canonical[includes[File(t)].base] = File(t)
      BY <3>1 DEF TypeOK, IsPartial, IncludeCacheEntry, TransparentInv, EntriesHeld
    <3>2. CASE IncludeFast(t)
      <4>1. /\ File(t) \in DOMAIN includes /\ includes[File(t)].modified = mtime[t]
            /\ includes[File(t)].env = call[t].env
            /\ Return(t, FromInclude(includes[File(t)]))
        BY <1>3, <3>2 DEF IncludeFast
      <4> QED
        BY <3>1, <3>2, <4>1
        DEF IncludeFast, At, Return, FromInclude, FreshInv, IncludesBacked, TransparentInv,
            EntriesHeld
    <3>3. CASE IncludeCheck(t)
      <4>1. /\ File(t) \in DOMAIN includes /\ includes[File(t)].source = source[t]
            /\ includes[File(t)].env = call[t].env
            /\ Return(t, FromInclude(includes[File(t)]))
        BY <1>3, <3>3 DEF IncludeCheck
      <4> QED  BY <3>1, <3>3, <4>1 DEF IncludeCheck, At, Return, FromInclude
    <3>4. CASE IncludeInsert(t)
      <4>1. source[t] \in Contents \ Broken /\ call[t].path \in Paths
        BY <1>1, <3>4, FileType DEF IncludeInsert, At, TypeOK, LocalsBound
      <4> QED  BY <3>4, <4>1 DEF IncludeInsert, At, Return, FromInclude, File
    <3> QED  BY <3>2, <3>3, <3>4
  <2>2. call[t] \in Calls /\ result[t] = Nil /\ StatExcused(t)
    BY <1>1, FileType DEF TransparentInv, Quiet
  <2>3. PICK v \in Uncached!Oldest(t)..Version(File(t)) : hist[File(t)][v] = c
    BY <2>1, <2>2, HitAnswers, ReadAnswers
  <2>4. b \in Uncached!Bases(t)
    BY <1>1, <2>1 DEF Uncached!Bases, Uncached!File, File
  <2>5. result' = [result EXCEPT ![t] = [ok |-> TRUE, source |-> hist[File(t)][v],
                                         env |-> call[t].env, base |-> b]]
    BY <2>1, <2>3
  <2> QED  BY <1>1, <2>1, <2>2, <2>3, <2>4, <2>5, Answers
<1> QED  BY <1>2, <1>3

\* Every step is a step without a cache, or is not seen there.
LEMMA StepTransparent ==
    ASSUME TimesAreDistinct, TypeOK, FreshInv, TransparentInv, [Next]_vars
    PROVE  [Uncached!Next]_(Uncached!vars)
<1> SUFFICES Uncached!Next \/ UNCHANGED Uncached!vars
  OBVIOUS
<1>1. ASSUME NEW t \in Threads, NEW c \in Calls, Start(t, c)
      PROVE  Uncached!Next
  <2>1. call[t] = Nil
    BY <1>1 DEF Start, TransparentInv, Quiet
  <2>2. IF exists[Canonical[c.path]] THEN UNCHANGED result
                                     ELSE result' = [result EXCEPT ![t] = Error]
    BY <1>1 DEF Start, Return
  <2>3. Uncached!Begin(t, c)
    BY <1>1, <2>1, <2>2 DEF Uncached!Begin, Uncached!Error, Start, Version, Error, fsVars
  <2> QED  BY <2>3 DEF Uncached!Next
<1>2. ASSUME NEW t \in Threads,
             LoadStat(t) \/ Read(t) \/ LoadCompile(t) \/ IncludeCompile(t)
      PROVE  Uncached!Next \/ UNCHANGED Uncached!vars
  <2>1. /\ pc[t] \in {"stat", "read", "compile"}
        /\ UNCHANGED <<exists, hist, call, since, gone>>
    BY <1>2 DEF LoadStat, Read, LoadCompile, IncludeCompile, At, fsVars, locals
  <2>2. CASE UNCHANGED result
    BY <2>1, <2>2 DEF Uncached!vars
  <2>3. CASE ~UNCHANGED result
    <3>1. call[t] \in Calls /\ result[t] = Nil
      BY <2>1, FileType DEF TransparentInv, Quiet
    <3>2. Return(t, Error)
      BY <1>2, <2>3 DEF LoadStat, Read, LoadCompile, IncludeCompile
    <3>3. \/ ~exists[File(t)]
          \/ pc[t] = "compile" /\ source[t] \in Broken
      BY <1>2, <2>3 DEF LoadStat, Read, LoadCompile, IncludeCompile, At
    <3>4. Cause(t)
      BY <2>1, <3>3, ReadIsFresh DEF Cause, TransparentInv, AbsenceIsMet, MeetsAbsence
    <3> QED  BY <2>1, <3>1, <3>2, <3>4, Fails DEF Return
  <2> QED  BY <2>2, <2>3
<1>3. ASSUME NEW t \in Threads, Finish(t)
      PROVE  Uncached!Next
  <2>1. result[t] \in Result
    BY <1>3 DEF Finish, TypeOK, LocalsBound
  <2>2. Uncached!Finish(t)
    BY <1>3, <2>1, NilAssumption DEF Uncached!Finish, Finish, fsVars
  <2> QED  BY <2>2 DEF Uncached!Next
<1>4. ASSUME NEW t \in Threads, IncludeStat(t) \/ ClearTemplates(t) \/ ClearIncludes(t)
      PROVE  UNCHANGED Uncached!vars
  BY <1>4 DEF IncludeStat, ClearTemplates, ClearIncludes, fsVars, locals, Uncached!vars
<1>5. ASSUME NEW f \in Files, NEW c \in Contents, WriteFile(f, c)
      PROVE  Uncached!Next
  <2>1. Uncached!Write(f, c)
    BY <1>5 DEF WriteFile, Uncached!Write, Version, locals
  <2> QED  BY <2>1 DEF Uncached!Next
<1>6. CASE UNCHANGED vars
  BY <1>6 DEF vars, fsVars, locals, Uncached!vars
<1>7. CASE \E t \in Threads : Thread(t)
  BY <1>1, <1>2, <1>3, <1>4, <1>7, LoadAnswers, IncludeAnswers
  DEF Thread, Load, ResolveInclude
<1>8. ASSUME NEW f \in Files, DeleteFile(f)
      PROVE  Uncached!Next
  <2>1. Uncached!Delete(f)
    BY <1>8 DEF DeleteFile, Uncached!Delete, Uncached!File, File
  <2> QED  BY <2>1 DEF Uncached!Next
<1> QED  BY <1>5, <1>6, <1>7, <1>8 DEF Next

\* If every write gives its file a modification time of its own, nobody can tell
\* the cache from having none: whatever the interleaving, the limit and the
\* clears, the calls start, return and fail as UncachedLoads lets them.
THEOREM CacheIsTransparent == ASSUME TimesAreDistinct PROVE Spec => Transparent
<1>1. Init => Uncached!Init
  BY DEF Init, Uncached!Init
<1>2. TypeOK /\ FreshInv /\ TransparentInv /\ [Next]_vars => [Uncached!Next]_(Uncached!vars)
  BY TimesAreDistinct, StepTransparent
<1> QED
  BY <1>1, <1>2, TypeCorrect, HistoriesBacked, AlwaysTransparentInv, PTL
  DEF Spec, Transparent, Uncached!Spec
=============================================================================
