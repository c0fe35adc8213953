------------------------- MODULE TemplateCacheProofs -------------------------
(***************************************************************************)
(* Theorems about TemplateCache for any number of threads, files, calls,   *)
(* writes and entries.                                                     *)
(***************************************************************************)
EXTENDS TemplateCache, TLAPS

----------------------------------------------------------------------------
(* What touching and inserting do to a map.                                *)

\* Reading the clock yields a number.
LEMMA NowType == clock \in Nat => Now \in Nat
  BY DEF Now

\* A touched map of templates keeps its keys, its sources and its type.
LEMMA TouchedTemplates ==
    ASSUME NEW cache, IsPartial(cache, Files, CacheEntry),
           NEW f \in DOMAIN cache, NEW m \in Nat, clock \in Nat
    PROVE  /\ IsPartial(Touched(cache, f, m), Files, CacheEntry)
           /\ DOMAIN Touched(cache, f, m) = DOMAIN cache
           /\ \A k \in DOMAIN cache : Touched(cache, f, m)[k].source = cache[k].source
           /\ \A k \in DOMAIN cache \ {f} : Touched(cache, f, m)[k] = cache[k]
           /\ Touched(cache, f, m)[f].modified = m
<1>1. PICK D \in SUBSET Files : cache \in [D -> CacheEntry]  BY DEF IsPartial
<1>2. Now \in Nat  BY NowType
<1>3. f \in D /\ cache[f] \in CacheEntry  BY <1>1
<1>4. PICK e : e = [cache[f] EXCEPT !.accessed = Now, !.modified = m]  OBVIOUS
<1>5. e \in CacheEntry /\ e.source = cache[f].source /\ e.modified = m
  BY <1>2, <1>3, <1>4 DEF CacheEntry
<1>6. Touched(cache, f, m) = [cache EXCEPT ![f] = e]
  BY <1>4 DEF Touched
<1>7. Touched(cache, f, m) \in [D -> CacheEntry]
  BY <1>1, <1>5, <1>6
<1> QED  BY <1>1, <1>3, <1>5, <1>6, <1>7 DEF IsPartial

\* The same for a map of includes, whose environments and base directories stay.
LEMMA TouchedIncludes ==
    ASSUME NEW cache, IsPartial(cache, Files, IncludeCacheEntry),
           NEW f \in DOMAIN cache, NEW m \in Nat, clock \in Nat
    PROVE  /\ IsPartial(Touched(cache, f, m), Files, IncludeCacheEntry)
           /\ DOMAIN Touched(cache, f, m) = DOMAIN cache
           /\ \A k \in DOMAIN cache :
                 /\ Touched(cache, f, m)[k].source = cache[k].source
                 /\ Touched(cache, f, m)[k].base = cache[k].base
           /\ \A k \in DOMAIN cache \ {f} : Touched(cache, f, m)[k] = cache[k]
           /\ Touched(cache, f, m)[f].modified = m
<1>1. PICK D \in SUBSET Files : cache \in [D -> IncludeCacheEntry]  BY DEF IsPartial
<1>2. Now \in Nat  BY NowType
<1>3. f \in D /\ cache[f] \in IncludeCacheEntry  BY <1>1
<1>4. PICK e : e = [cache[f] EXCEPT !.accessed = Now, !.modified = m]  OBVIOUS
<1>5. /\ e \in IncludeCacheEntry
      /\ e.source = cache[f].source
      /\ e.base = cache[f].base
      /\ e.modified = m
  BY <1>2, <1>3, <1>4 DEF IncludeCacheEntry
<1>6. Touched(cache, f, m) = [cache EXCEPT ![f] = e]
  BY <1>4 DEF Touched
<1>7. Touched(cache, f, m) \in [D -> IncludeCacheEntry]
  BY <1>1, <1>5, <1>6
<1> QED  BY <1>1, <1>3, <1>5, <1>6, <1>7 DEF IsPartial

\* An insertion adds its key and keeps the entries it does not evict as they are.
LEMMA InsertedEntries ==
    ASSUME NEW cache, NEW f, NEW entry, NEW after \in Inserted(cache, f, entry)
    PROVE  /\ f \in DOMAIN after
           /\ DOMAIN after \subseteq DOMAIN cache \cup {f}
           /\ after[f] = entry
           /\ \A k \in DOMAIN after \ {f} : after[k] = cache[k]
           /\ after = [k \in DOMAIN after |-> after[k]]
  BY DEF Inserted, Victims

\* Inserting an entry of the map's type preserves the map's type.
LEMMA InsertedType ==
    ASSUME NEW T, NEW cache, IsPartial(cache, Files, T), NEW f \in Files, NEW entry \in T,
           NEW after \in Inserted(cache, f, entry)
    PROVE  IsPartial(after, Files, T)
<1>1. PICK D \in SUBSET Files : cache \in [D -> T]  BY DEF IsPartial
<1>2. \A k \in DOMAIN after : after[k] \in T
  BY <1>1, InsertedEntries
<1>3. DOMAIN after \in SUBSET Files
  BY <1>1, InsertedEntries
<1>4. after \in [DOMAIN after -> T]
  BY <1>2, InsertedEntries
<1> QED  BY <1>3, <1>4 DEF IsPartial

----------------------------------------------------------------------------
(* Type correctness.                                                       *)

\* The file of a call in progress is one of the files.
LEMMA FileType ==
    ASSUME TypeOK, NEW t \in Threads, pc[t] \notin {"idle", "clearing"}
    PROVE  /\ call[t] \in Calls
           /\ call[t].path \in Paths
           /\ File(t) \in Files
           /\ Version(File(t)) \in 1..MaxVersion
           /\ hist[File(t)] \in Seq(Contents)
  BY CanonicalAssumption, CallsAssumption DEF TypeOK, LocalsBound, File

\* A result built from a compiled source is a result.
LEMMA ResultType ==
    ASSUME NEW c \in Contents \ Broken, NEW k \in Calls, NEW q \in Paths
    PROVE  [ok |-> TRUE, source |-> c, env |-> k.env, base |-> q] \in Result
  BY DEF Result

\* So is a failure.
LEMMA ErrorType == Error \in Result
  BY DEF Result

\* A cleared map is a map.
LEMMA EmptyType == ASSUME NEW T PROVE IsPartial(<<>>, Files, T)
<1>1. <<>> \in [{} -> T]  OBVIOUS
<1> QED  BY <1>1 DEF IsPartial

\* The initial states are typed.
LEMMA InitType == Init => TypeOK
<1> SUFFICES ASSUME Init PROVE TypeOK  OBVIOUS
<1>1. ASSUME NEW f \in Files
      PROVE  hist[f] \in Seq(Contents) /\ Len(hist[f]) = 1
  <2>1. PICK c \in Contents : hist[f] = <<c>>  BY DEF Init
  <2> QED  BY <2>1
<1>2. hist \in [Files -> Seq(Contents)]
  <2>1. hist \in [Files -> {<<c>> : c \in Contents}]  BY DEF Init
  <2> QED  BY <1>1, <2>1
<1>3. ASSUME NEW f \in Files PROVE Version(f) \in 1..MaxVersion
  <2>1. Version(f) = 1  BY <1>1 DEF Version
  <2>2. MaxVersion \in Nat /\ MaxVersion >= 1  BY MtimeAssumption
  <2> QED  BY <2>1, <2>2
<1>4. IsPartial(templates, Files, CacheEntry) /\ IsPartial(includes, Files, IncludeCacheEntry)
  BY EmptyType DEF Init
<1>5. \A t \in Threads : LocalsBound(t)
  BY DEF Init, LocalsBound, At
<1> QED  BY <1>2, <1>3, <1>4, <1>5 DEF Init, TypeOK, Locals

\* Every step keeps the types, one case per action.
LEMMA StepType == TypeOK /\ [Next]_vars => TypeOK'
<1> SUFFICES ASSUME TypeOK, [Next]_vars PROVE TypeOK'
  OBVIOUS
<1> USE DEF Locals
<1>1. ASSUME NEW t \in Threads, NEW c \in Calls, Start(t, c)
      PROVE  TypeOK'
  <2>1. Canonical[c.path] \in Files
    BY CallsAssumption, CanonicalAssumption
  <2>2. Version(Canonical[c.path]) \in Nat
    BY <2>1 DEF TypeOK, Version
  <2>3. \A u \in Threads : LocalsBound(u)'
    BY <1>1, ErrorType DEF Start, TypeOK, LocalsBound, Goto, Return, At, fsVars, cacheVars
  <2> QED
    BY <1>1, <2>1, <2>2, <2>3, ErrorType
    DEF Start, TypeOK, Goto, Return, Version, fsVars, cacheVars
<1>2. ASSUME NEW t \in Threads, Read(t)
      PROVE  TypeOK'
  <2>1. hist[File(t)][Version(File(t))] \in Contents
    BY <1>2, FileType DEF Read, Version
  <2>2. CASE exists[File(t)]
    <3>1. /\ source'[t] \in Contents
          /\ source' \in [Threads -> Contents \cup {Nil}]
          /\ \A u \in Threads \ {t} : source'[u] = source[u]
      BY <1>2, <2>1, <2>2 DEF Read, TypeOK
    <3>2. pc' = [pc EXCEPT ![t] = "check"] /\ UNCHANGED result
      BY <1>2, <2>2 DEF Read, Goto
    <3>3. \A u \in Threads : LocalsBound(u)'
      BY <1>2, <3>1, <3>2 DEF Read, TypeOK, LocalsBound, At, fsVars, cacheVars
    <3> QED
      BY <1>2, <3>1, <3>2, <3>3 DEF Read, TypeOK, Version, fsVars, cacheVars
  <2>3. CASE ~exists[File(t)]
    <3>1. Return(t, Error) /\ UNCHANGED source
      BY <1>2, <2>3 DEF Read
    <3>2. \A u \in Threads : LocalsBound(u)'
      BY <1>2, <3>1, ErrorType
      DEF Read, TypeOK, LocalsBound, Goto, Return, At, fsVars, cacheVars
    <3> QED
      BY <1>2, <3>1, <3>2, ErrorType
      DEF Read, TypeOK, Goto, Return, Version, fsVars, cacheVars
  <2> QED  BY <2>2, <2>3
<1>3. ASSUME NEW t \in Threads, Finish(t)
      PROVE  TypeOK'
  <2>1. \A u \in Threads : LocalsBound(u)'
    BY <1>3 DEF Finish, TypeOK, LocalsBound, Goto, At, fsVars, cacheVars
  <2> QED
    BY <1>3, <2>1 DEF Finish, TypeOK, Goto, Version, fsVars, cacheVars
<1>4. ASSUME NEW t \in Threads, LoadStat(t)
      PROVE  TypeOK'
  <2>1. Mtime[Version(File(t))] \in Nat
    BY <1>4, FileType, MtimeAssumption DEF LoadStat, At
  <2>2. CASE exists[File(t)]
    <3>1. /\ mtime'[t] \in Nat
          /\ mtime' \in [Threads -> Nat \cup {Nil}]
          /\ \A u \in Threads \ {t} : mtime'[u] = mtime[u]
      BY <1>4, <2>1, <2>2 DEF LoadStat, TypeOK
    <3>2. pc' = [pc EXCEPT ![t] = "fast"] /\ UNCHANGED result
      BY <1>4, <2>2 DEF LoadStat, Goto
    <3>3. \A u \in Threads : LocalsBound(u)'
      BY <1>4, <3>1, <3>2 DEF LoadStat, TypeOK, LocalsBound, At, fsVars, cacheVars
    <3> QED
      BY <1>4, <3>1, <3>2, <3>3 DEF LoadStat, TypeOK, Version, fsVars, cacheVars
  <2>3. CASE ~exists[File(t)]
    <3>1. Return(t, Error) /\ UNCHANGED mtime
      BY <1>4, <2>3 DEF LoadStat
    <3>2. \A u \in Threads : LocalsBound(u)'
      BY <1>4, <3>1, ErrorType
      DEF LoadStat, TypeOK, LocalsBound, Goto, Return, At, fsVars, cacheVars
    <3> QED
      BY <1>4, <3>1, <3>2, ErrorType
      DEF LoadStat, TypeOK, Goto, Return, Version, fsVars, cacheVars
  <2> QED  BY <2>2, <2>3
<1>5. ASSUME NEW t \in Threads, IncludeStat(t)
      PROVE  TypeOK'
  <2>1. exists[File(t)] => Mtime[Version(File(t))] \in Nat
    BY <1>5, FileType, MtimeAssumption DEF IncludeStat, At
  <2>2. \A u \in Threads : LocalsBound(u)'
    BY <1>5, <2>1, MtimeAssumption
    DEF IncludeStat, TypeOK, LocalsBound, Goto, At, fsVars, cacheVars
  <2> QED
    BY <1>5, <2>1, <2>2, MtimeAssumption
    DEF IncludeStat, TypeOK, Goto, Version, fsVars, cacheVars
<1>6. ASSUME NEW t \in Threads, LoadFast(t)
      PROVE  TypeOK'
  <2>1. call[t] \in Calls /\ call[t].path \in Paths /\ NoEnv \in {c.env : c \in Calls}
    BY <1>6, FileType, CallsAssumption DEF LoadFast, At
  <2>2. CASE pc' = [pc EXCEPT ![t] = "read"] /\ UNCHANGED <<templates, clock, result>>
    <3>1. \A u \in Threads : LocalsBound(u)'
      BY <1>6, <2>2 DEF LoadFast, TypeOK, LocalsBound, At, fsVars, locals
    <3> QED
      BY <1>6, <2>2, <3>1 DEF LoadFast, TypeOK, Version, fsVars, locals
  <2>3. CASE /\ File(t) \in DOMAIN templates
             /\ templates' = Touched(templates, File(t), mtime[t])
             /\ Tick
             /\ Return(t, FromEntry(t, templates[File(t)]))
    <3>1. FromEntry(t, templates[File(t)]) \in Result
      BY <2>1, <2>3 DEF FromEntry, Result, TypeOK, IsPartial, CacheEntry
    <3>2. IsPartial(templates', Files, CacheEntry) /\ clock' \in Nat
      BY <1>6, <2>3, TouchedTemplates, NowType DEF LoadFast, TypeOK, LocalsBound, At, Tick
    <3>3. \A u \in Threads : LocalsBound(u)'
      BY <1>6, <2>3, <3>1 DEF LoadFast, TypeOK, LocalsBound, Goto, Return, At, fsVars, locals
    <3> QED
      BY <1>6, <2>3, <3>1, <3>2, <3>3
      DEF LoadFast, TypeOK, Goto, Return, Version, fsVars, locals
  <2> QED
    BY <1>6, <2>2, <2>3 DEF LoadFast, Goto
<1>7. ASSUME NEW t \in Threads, LoadCheck(t)
      PROVE  TypeOK'
  <2>1. call[t] \in Calls /\ call[t].path \in Paths /\ NoEnv \in {c.env : c \in Calls}
    BY <1>7, FileType, CallsAssumption DEF LoadCheck, At
  <2>2. CASE pc' = [pc EXCEPT ![t] = "compile"] /\ UNCHANGED <<templates, clock, result>>
    <3>1. \A u \in Threads : LocalsBound(u)'
      BY <1>7, <2>2 DEF LoadCheck, TypeOK, LocalsBound, At, fsVars, locals
    <3> QED
      BY <1>7, <2>2, <3>1 DEF LoadCheck, TypeOK, Version, fsVars, locals
  <2>3. CASE /\ File(t) \in DOMAIN templates
             /\ templates' = Touched(templates, File(t), mtime[t])
             /\ Tick
             /\ Return(t, FromEntry(t, templates[File(t)]))
    <3>1. FromEntry(t, templates[File(t)]) \in Result
      BY <2>1, <2>3 DEF FromEntry, Result, TypeOK, IsPartial, CacheEntry
    <3>2. IsPartial(templates', Files, CacheEntry) /\ clock' \in Nat
      BY <1>7, <2>3, TouchedTemplates, NowType DEF LoadCheck, TypeOK, LocalsBound, At, Tick
    <3>3. \A u \in Threads : LocalsBound(u)'
      BY <1>7, <2>3, <3>1 DEF LoadCheck, TypeOK, LocalsBound, Goto, Return, At, fsVars, locals
    <3> QED
      BY <1>7, <2>3, <3>1, <3>2, <3>3
      DEF LoadCheck, TypeOK, Goto, Return, Version, fsVars, locals
  <2> QED
    BY <1>7, <2>2, <2>3 DEF LoadCheck, Goto
<1>8. ASSUME NEW t \in Threads, LoadCompile(t)
      PROVE  TypeOK'
  <2>1. CASE source[t] \in Broken
    <3>1. \A u \in Threads : LocalsBound(u)'
      BY <1>8, <2>1, ErrorType
      DEF LoadCompile, TypeOK, LocalsBound, Goto, Return, At, fsVars
    <3> QED
      BY <1>8, <2>1, <3>1, ErrorType DEF LoadCompile, TypeOK, Goto, Return, Version, fsVars
  <2>2. CASE source[t] \notin Broken
    <3>1. Now \in Nat /\ clock' \in Nat
      BY <1>8, <2>2, NowType DEF LoadCompile, TypeOK, Tick
    <3>2. \A u \in Threads : LocalsBound(u)'
      BY <1>8, <2>2, <3>1 DEF LoadCompile, TypeOK, LocalsBound, Goto, At, fsVars
    <3> QED
      BY <1>8, <2>2, <3>1, <3>2 DEF LoadCompile, TypeOK, Goto, Version, fsVars
  <2> QED  BY <2>1, <2>2
<1>9. ASSUME NEW t \in Threads, IncludeFast(t)
      PROVE  TypeOK'
  <2>1. call[t] \in Calls /\ call[t].path \in Paths
    BY <1>9, FileType DEF IncludeFast, At
  <2>2. CASE pc' = [pc EXCEPT ![t] = "read"] /\ UNCHANGED <<includes, clock, result>>
    <3>1. \A u \in Threads : LocalsBound(u)'
      BY <1>9, <2>2 DEF IncludeFast, TypeOK, LocalsBound, At, fsVars, locals
    <3> QED
      BY <1>9, <2>2, <3>1 DEF IncludeFast, TypeOK, Version, fsVars, locals
  <2>3. CASE /\ File(t) \in DOMAIN includes
             /\ includes' = Touched(includes, File(t), mtime[t])
             /\ Tick
             /\ Return(t, FromInclude(includes[File(t)]))
    <3>1. FromInclude(includes[File(t)]) \in Result
      BY <2>1, <2>3 DEF FromInclude, Result, TypeOK, IsPartial, IncludeCacheEntry
    <3>2. IsPartial(includes', Files, IncludeCacheEntry) /\ clock' \in Nat
      BY <1>9, <2>3, TouchedIncludes, NowType DEF IncludeFast, TypeOK, LocalsBound, At, Tick
    <3>3. \A u \in Threads : LocalsBound(u)'
      BY <1>9, <2>3, <3>1 DEF IncludeFast, TypeOK, LocalsBound, Goto, Return, At, fsVars, locals
    <3> QED
      BY <1>9, <2>3, <3>1, <3>2, <3>3
      DEF IncludeFast, TypeOK, Goto, Return, Version, fsVars, locals
  <2> QED
    BY <1>9, <2>2, <2>3 DEF IncludeFast, Goto
<1>10. ASSUME NEW t \in Threads, IncludeCheck(t)
      PROVE  TypeOK'
  <2>1. call[t] \in Calls /\ call[t].path \in Paths
    BY <1>10, FileType DEF IncludeCheck, At
  <2>2. CASE pc' = [pc EXCEPT ![t] = "compile"] /\ UNCHANGED <<includes, clock, result>>
    <3>1. \A u \in Threads : LocalsBound(u)'
      BY <1>10, <2>2 DEF IncludeCheck, TypeOK, LocalsBound, At, fsVars, locals
    <3> QED
      BY <1>10, <2>2, <3>1 DEF IncludeCheck, TypeOK, Version, fsVars, locals
  <2>3. CASE /\ File(t) \in DOMAIN includes
             /\ includes' = Touched(includes, File(t), mtime[t])
             /\ Tick
             /\ Return(t, FromInclude(includes[File(t)]))
    <3>1. FromInclude(includes[File(t)]) \in Result
      BY <2>1, <2>3 DEF FromInclude, Result, TypeOK, IsPartial, IncludeCacheEntry
    <3>2. IsPartial(includes', Files, IncludeCacheEntry) /\ clock' \in Nat
      BY <1>10, <2>3, TouchedIncludes, NowType DEF IncludeCheck, TypeOK, LocalsBound, At, Tick
    <3>3. \A u \in Threads : LocalsBound(u)'
      BY <1>10, <2>3, <3>1 DEF IncludeCheck, TypeOK, LocalsBound, Goto, Return, At, fsVars, locals
    <3> QED
      BY <1>10, <2>3, <3>1, <3>2, <3>3
      DEF IncludeCheck, TypeOK, Goto, Return, Version, fsVars, locals
  <2> QED
    BY <1>10, <2>2, <2>3 DEF IncludeCheck, Goto
<1>11. ASSUME NEW t \in Threads, IncludeCompile(t)
      PROVE  TypeOK'
  <2>1. \A u \in Threads : LocalsBound(u)'
    BY <1>11, ErrorType
    DEF IncludeCompile, TypeOK, LocalsBound, Goto, Return, At, fsVars, cacheVars, locals
  <2> QED
    BY <1>11, <2>1, ErrorType
    DEF IncludeCompile, TypeOK, Goto, Return, Version, fsVars, cacheVars, locals
<1>12. ASSUME NEW t \in Threads, LoadInsert(t)
      PROVE  TypeOK'
  <2> DEFINE entry == [source |-> source[t], modified |-> mtime[t], accessed |-> stamp[t]]
  <2>1. /\ call[t] \in Calls /\ call[t].path \in Paths /\ File(t) \in Files
        /\ NoEnv \in {c.env : c \in Calls}
    BY <1>12, FileType, CallsAssumption DEF LoadInsert, At
  <2>2. entry \in CacheEntry
    BY <1>12 DEF LoadInsert, TypeOK, LocalsBound, At, CacheEntry
  <2>3. IsPartial(templates', Files, CacheEntry)
    BY <1>12, <2>1, <2>2, InsertedType DEF LoadInsert, TypeOK
  <2>4. FromEntry(t, entry) \in Result
    BY <2>1, <2>2 DEF FromEntry, Result, CacheEntry
  <2>5. \A u \in Threads : LocalsBound(u)'
    BY <1>12, <2>4 DEF LoadInsert, TypeOK, LocalsBound, Goto, Return, At, fsVars, locals
  <2> QED
    BY <1>12, <2>3, <2>4, <2>5
    DEF LoadInsert, TypeOK, Goto, Return, Version, fsVars, locals
<1>13. ASSUME NEW t \in Threads, IncludeInsert(t)
      PROVE  TypeOK'
  <2> DEFINE entry == [source |-> source[t], env |-> call[t].env, modified |-> mtime[t],
                       accessed |-> Now, base |-> call[t].path]
  <2>1. call[t] \in Calls /\ call[t].path \in Paths /\ File(t) \in Files
    BY <1>13, FileType DEF IncludeInsert, At
  <2>2. Now \in Nat /\ clock' \in Nat
    BY <1>13, NowType DEF IncludeInsert, TypeOK, Tick
  <2>3. entry \in IncludeCacheEntry
    BY <1>13, <2>1, <2>2 DEF IncludeInsert, TypeOK, LocalsBound, At, IncludeCacheEntry
  <2>4. IsPartial(includes', Files, IncludeCacheEntry)
    BY <1>13, <2>1, <2>3, InsertedType DEF IncludeInsert, TypeOK
  <2>5. FromInclude(entry) \in Result
    BY <2>3 DEF FromInclude, Result, IncludeCacheEntry
  <2>6. \A u \in Threads : LocalsBound(u)'
    BY <1>13, <2>5 DEF IncludeInsert, TypeOK, LocalsBound, Goto, Return, At, fsVars, locals
  <2> QED
    BY <1>13, <2>2, <2>4, <2>5, <2>6
    DEF IncludeInsert, TypeOK, Goto, Return, Version, fsVars, locals
<1>14. ASSUME NEW t \in Threads, ClearTemplates(t) \/ ClearIncludes(t)
      PROVE  TypeOK'
  <2>1. IsPartial(<<>>, Files, CacheEntry) /\ IsPartial(<<>>, Files, IncludeCacheEntry)
    BY EmptyType
  <2>2. \A u \in Threads : LocalsBound(u)'
    BY <1>14 DEF ClearTemplates, ClearIncludes, TypeOK, LocalsBound, Goto, At, fsVars, locals
  <2> QED
    BY <1>14, <2>1, <2>2
    DEF ClearTemplates, ClearIncludes, TypeOK, Goto, Version, fsVars, locals
<1>15. ASSUME NEW f \in Files, NEW c \in Contents, WriteFile(f, c)
      PROVE  TypeOK'
  <2>1. Append(hist[f], c) \in Seq(Contents) /\ Len(Append(hist[f], c)) = Len(hist[f]) + 1
    BY DEF TypeOK
  <2>2. \A g \in Files : Version(g)' \in 1..MaxVersion
    BY <1>15, <2>1, MtimeAssumption DEF WriteFile, TypeOK, Version
  <2>3. \A u \in Threads : LocalsBound(u)'
    BY <1>15 DEF WriteFile, TypeOK, LocalsBound, At, cacheVars, locals
  <2> QED
    BY <1>15, <2>1, <2>2, <2>3 DEF WriteFile, TypeOK, cacheVars, locals
<1>16. ASSUME NEW f \in Files, DeleteFile(f)
      PROVE  TypeOK'
  <2>1. \A u \in Threads : LocalsBound(u)'
    BY <1>16 DEF DeleteFile, TypeOK, LocalsBound, At, cacheVars, locals
  <2> QED
    BY <1>16, <2>1 DEF DeleteFile, TypeOK, Version, cacheVars, locals
<1>17. ASSUME UNCHANGED vars
      PROVE  TypeOK'
  <2>1. \A u \in Threads : LocalsBound(u)'
    BY <1>17 DEF TypeOK, LocalsBound, At, vars, fsVars, cacheVars, locals
  <2> QED
    BY <1>17, <2>1 DEF TypeOK, Version, vars, fsVars, cacheVars, locals
<1> QED
  BY <1>1, <1>2, <1>3, <1>4, <1>5, <1>6, <1>7, <1>8, <1>9, <1>10, <1>11, <1>12, <1>13,
     <1>14, <1>15, <1>16, <1>17
  DEF Next, Thread, Load, ResolveInclude

\* TypeOK holds whatever the threads, files, contents, calls and limit are.
THEOREM TypeCorrect == Spec => []TypeOK
<1> QED  BY InitType, StepType, PTL DEF Spec

----------------------------------------------------------------------------
(* Freshness.                                                              *)

\* Steps only append to the history of a file.
HistGrows ==
    \A f \in Files :
        /\ Version(f) \in Nat /\ Version(f)' \in Nat /\ Version(f) <= Version(f)'
        /\ \A v \in 1..Version(f) : hist'[f][v] = hist[f][v]

SameLocals(u) ==
    /\ pc'[u] = pc[u] /\ call'[u] = call[u] /\ mtime'[u] = mtime[u]
    /\ source'[u] = source[u] /\ since'[u] = since[u]

\* A write appends, and nothing else touches a history.
LEMMA Growing ==
    ASSUME TypeOK, UNCHANGED hist \/ \E f \in Files, c \in Contents : WriteFile(f, c)
    PROVE  HistGrows
<1>1. CASE UNCHANGED hist
  BY <1>1 DEF HistGrows, TypeOK, Version
<1>2. ASSUME NEW f \in Files, NEW c \in Contents, WriteFile(f, c)
      PROVE  HistGrows
  <2>1. /\ Append(hist[f], c) \in Seq(Contents)
        /\ Len(Append(hist[f], c)) = Len(hist[f]) + 1
        /\ \A v \in 1..Len(hist[f]) : Append(hist[f], c)[v] = hist[f][v]
    BY DEF TypeOK
  <2> QED
    BY <1>2, <2>1 DEF WriteFile, HistGrows, TypeOK, Version
<1> QED  BY <1>1, <1>2

\* What backs an entry stays in the history.
LEMMA BackedGrows ==
    ASSUME HistGrows, NEW f \in Files, NEW c, NEW m, Backed(f, c, m)
    PROVE  Backed(f, c, m)'
  BY DEF HistGrows, Backed

\* A thread that does not move stays backed.
LEMMA CallBackedGrows ==
    ASSUME TypeOK, HistGrows, NEW u \in Threads, SameLocals(u), CallBacked(u)
    PROVE  CallBacked(u)'
<1>1. CASE pc[u] \in {"idle", "clearing"}
  BY <1>1 DEF SameLocals, CallBacked
<1>2. CASE pc[u] \notin {"idle", "clearing"}
  <2>1. File(u) \in Files /\ File(u)' = File(u) /\ since[u] \in Nat
    BY <1>2, FileType DEF SameLocals, File, TypeOK
  <2>2. Window(u) \subseteq Window(u)'
    BY <2>1 DEF SameLocals, HistGrows, Window
  <2>3. \A v \in Window(u) : v \in 1..Version(File(u))
    BY <1>2, <2>1 DEF CallBacked, Window, HistGrows
  <2> QED
    BY <1>2, <2>1, <2>2, <2>3 DEF SameLocals, CallBacked, HistGrows, StatFailed
<1> QED  BY <1>1, <1>2

OthersStay(t) == \A u \in Threads \ {t} : SameLocals(u)

\* Only a write changes a history, so every step lets histories grow.
LEMMA NextGrows == TypeOK /\ [Next]_vars => HistGrows
<1> SUFFICES ASSUME TypeOK, [Next]_vars PROVE HistGrows
  OBVIOUS
<1>1. UNCHANGED hist \/ \E f \in Files, c \in Contents : WriteFile(f, c)
  BY DEF Next, Thread, Load, ResolveInclude, vars, fsVars, Start, Read, Finish, LoadStat,
         LoadFast, LoadCheck, LoadCompile, LoadInsert, IncludeStat, IncludeFast,
         IncludeCheck, IncludeCompile, IncludeInsert, ClearTemplates, ClearIncludes,
         DeleteFile
<1> QED  BY <1>1, Growing

\* Entries that stay in a map stay backed.
LEMMA EntriesStay ==
    ASSUME TypeOK, HistGrows
    PROVE  /\ TemplatesBacked /\ UNCHANGED templates => TemplatesBacked'
           /\ IncludesBacked /\ UNCHANGED includes => IncludesBacked'
<1>1. DOMAIN templates \subseteq Files /\ DOMAIN includes \subseteq Files
  BY DEF TypeOK, IsPartial
<1>2. ASSUME TemplatesBacked, UNCHANGED templates PROVE TemplatesBacked'
  BY <1>1, <1>2, BackedGrows DEF TemplatesBacked
<1>3. ASSUME IncludesBacked, UNCHANGED includes PROVE IncludesBacked'
  BY <1>1, <1>3, BackedGrows DEF IncludesBacked
<1> QED  BY <1>2, <1>3

\* The source a call read backs an entry with the time the call saw.
LEMMA CallBacks ==
    ASSUME TypeOK, NEW t \in Threads, CallBacked(t), pc[t] \in {"check", "compile", "insert"}
    PROVE  Backed(File(t), source[t], mtime[t])
<1>1. File(t) \in Files /\ since[t] \in 1..Version(File(t)) /\ Version(File(t)) \in Nat
  BY FileType DEF CallBacked
<1>2. PICK v \in Window(t) : /\ hist[File(t)][v] = source[t]
                             /\ StatFailed(t) \/ \E w \in since[t]..v : Mtime[w] = mtime[t]
  BY DEF CallBacked
<1>3. v \in 1..Version(File(t)) /\ since[t]..v \subseteq 1..v
  BY <1>1 DEF Window
<1> QED  BY <1>2, <1>3 DEF Backed, StatFailed

\* A step that only touches an entry with a time the call can vouch for, or
\* inserts what the call read, keeps the templates backed.
LEMMA TouchedBacked ==
    ASSUME TypeOK, HistGrows, TemplatesBacked, NEW f \in DOMAIN templates, NEW m \in Nat,
           templates' = Touched(templates, f, m), Backed(f, templates[f].source, m)
    PROVE  TemplatesBacked'
<1>1. f \in Files /\ DOMAIN templates \subseteq Files
  BY DEF TypeOK, IsPartial
<1>2. /\ DOMAIN templates' = DOMAIN templates
      /\ \A k \in DOMAIN templates \ {f} : templates'[k] = templates[k]
      /\ templates'[f].source = templates[f].source
      /\ templates'[f].modified = m
  BY TouchedTemplates DEF TypeOK
<1>3. \A k \in DOMAIN templates : Backed(k, templates'[k].source, templates'[k].modified)
  BY <1>2 DEF TemplatesBacked
<1> QED  BY <1>1, <1>2, <1>3, BackedGrows DEF TemplatesBacked

LEMMA TouchedIncludeBacked ==
    ASSUME TypeOK, HistGrows, IncludesBacked, NEW f \in DOMAIN includes, NEW m \in Nat,
           includes' = Touched(includes, f, m), Backed(f, includes[f].source, m)
    PROVE  IncludesBacked'
<1>1. f \in Files /\ DOMAIN includes \subseteq Files
  BY DEF TypeOK, IsPartial
<1>2. /\ DOMAIN includes' = DOMAIN includes
      /\ \A k \in DOMAIN includes \ {f} : includes'[k] = includes[k]
      /\ includes'[f].source = includes[f].source
      /\ includes'[f].modified = m
  BY TouchedIncludes DEF TypeOK
<1>3. \A k \in DOMAIN includes : Backed(k, includes'[k].source, includes'[k].modified)
  BY <1>2 DEF IncludesBacked
<1> QED  BY <1>1, <1>2, <1>3, BackedGrows DEF IncludesBacked

\* Every step keeps what entries and calls know of their files.
LEMMA StepFresh == TypeOK /\ FreshInv /\ [Next]_vars => FreshInv'
<1> SUFFICES ASSUME TypeOK, FreshInv, [Next]_vars PROVE FreshInv'
  OBVIOUS
<1> HistGrows  BY NextGrows
<1> TemplatesBacked /\ IncludesBacked /\ \A u \in Threads : CallBacked(u)
  BY DEF FreshInv
<1>1. ASSUME NEW t \in Threads, OthersStay(t), TemplatesBacked', IncludesBacked', CallBacked(t)'
      PROVE  FreshInv'
  BY <1>1, CallBackedGrows DEF FreshInv, OthersStay
<1> USE DEF OthersStay, SameLocals
<1>2. ASSUME NEW t \in Threads, NEW c \in Calls, Start(t, c)
      PROVE  FreshInv'
  <2>1. Canonical[c.path] \in Files
    BY CallsAssumption, CanonicalAssumption
  <2>2. Version(Canonical[c.path]) \in Nat \ {0}
    BY <2>1 DEF TypeOK
  <2>3. /\ call'[t] = c /\ pc'[t] \in {"stat", "done"}
        /\ since'[t] = Version(Canonical[c.path]) /\ UNCHANGED hist
    BY <1>2 DEF Start, TypeOK, Goto, Return, fsVars
  <2>4. CallBacked(t)'
    BY <2>2, <2>3 DEF CallBacked, File, Version
  <2>5. OthersStay(t)
    BY <1>2 DEF Start, TypeOK, Goto, Return
  <2>6. UNCHANGED <<templates, includes>>
    BY <1>2 DEF Start, cacheVars
  <2> QED  BY <1>1, <2>4, <2>5, <2>6, EntriesStay
<1>3. ASSUME NEW t \in Threads, LoadStat(t) \/ IncludeStat(t)
      PROVE  FreshInv'
  <2>1. /\ File(t) \in Files /\ Version(File(t)) \in 1..MaxVersion
        /\ since[t] \in 1..Version(File(t))
    BY <1>3, FileType DEF LoadStat, IncludeStat, At, CallBacked
  <2>2. UNCHANGED <<hist, call, since, templates, includes>>
    BY <1>3 DEF LoadStat, IncludeStat, fsVars, cacheVars
  <2>3. pc'[t] = "fast" => mtime'[t] = Epoch \/ mtime'[t] = Mtime[Version(File(t))]
    BY <1>3 DEF LoadStat, IncludeStat, TypeOK, Goto, Return
  <2>4. pc'[t] \in {"fast", "done"}
    BY <1>3 DEF LoadStat, IncludeStat, TypeOK, Goto, Return
  <2>5. Version(File(t)) \in Window(t)
    BY <2>1 DEF Window
  <2>6. CallBacked(t)'
    BY <2>1, <2>2, <2>3, <2>4, <2>5 DEF CallBacked, File, Version, Window, StatFailed
  <2>7. OthersStay(t)
    BY <1>3 DEF LoadStat, IncludeStat, TypeOK, Goto, Return
  <2> QED  BY <1>1, <2>2, <2>6, <2>7, EntriesStay
<1>4. ASSUME NEW t \in Threads, Read(t)
      PROVE  FreshInv'
  <2>1. /\ File(t) \in Files /\ Version(File(t)) \in 1..MaxVersion
        /\ since[t] \in 1..Version(File(t))
    BY <1>4, FileType DEF Read, CallBacked
  <2>2. UNCHANGED <<hist, call, mtime, since, templates, includes>>
    BY <1>4 DEF Read, fsVars, cacheVars
  <2>3. pc'[t] = "check" => source'[t] = hist[File(t)][Version(File(t))]
    BY <1>4 DEF Read, TypeOK, Goto, Return
  <2>4. pc'[t] \in {"check", "done"}
    BY <1>4 DEF Read, TypeOK, Goto, Return
  <2>5. StatFailed(t) \/ \E w \in Window(t) : Mtime[w] = mtime[t]
    BY <1>4 DEF Read, CallBacked
  <2>6. Version(File(t)) \in Window(t) /\ Window(t) = since[t]..Version(File(t))
    BY <2>1 DEF Window
  <2>7. CallBacked(t)'
    BY <2>1, <2>2, <2>3, <2>4, <2>5, <2>6 DEF CallBacked, File, Version, Window, StatFailed
  <2>8. OthersStay(t)
    BY <1>4 DEF Read, TypeOK, Goto, Return
  <2> QED  BY <1>1, <2>2, <2>7, <2>8, EntriesStay
<1>5. ASSUME NEW t \in Threads, Finish(t)
      PROVE  FreshInv'
  <2>1. CallBacked(t)' /\ OthersStay(t)
    BY <1>5 DEF Finish, CallBacked, TypeOK, Goto
  <2> QED  BY <1>1, <1>5, <2>1, EntriesStay DEF Finish, cacheVars
<1>6. ASSUME NEW t \in Threads, LoadCompile(t) \/ IncludeCompile(t)
      PROVE  FreshInv'
  <2>1. /\ UNCHANGED <<hist, call, mtime, source, since, templates, includes>>
        /\ pc[t] = "compile" /\ pc'[t] \in {"insert", "done"}
    BY <1>6
    DEF LoadCompile, IncludeCompile, At, TypeOK, Goto, Return, fsVars, cacheVars, locals
  <2>2. CallBacked(t)'
    BY <2>1 DEF CallBacked, File, Version, Window, StatFailed
  <2>3. OthersStay(t)
    BY <1>6, <2>1 DEF LoadCompile, IncludeCompile, TypeOK, Goto, Return
  <2> QED  BY <1>1, <2>1, <2>2, <2>3, EntriesStay
<1>7. ASSUME NEW t \in Threads, LoadFast(t)
      PROVE  FreshInv'
  <2>1. /\ UNCHANGED <<hist, call, mtime, source, since, includes>>
        /\ pc[t] = "fast" /\ pc'[t] \in {"read", "done"}
    BY <1>7 DEF LoadFast, At, TypeOK, Goto, Return, fsVars, locals
  <2>2. CallBacked(t)'
    BY <2>1 DEF CallBacked, File, Version, Window, StatFailed
  <2>3. OthersStay(t)
    BY <1>7, <2>1 DEF LoadFast, TypeOK, Goto, Return
  <2>4. \/ UNCHANGED templates
        \/ /\ File(t) \in DOMAIN templates /\ templates[File(t)].modified = mtime[t]
           /\ templates' = Touched(templates, File(t), mtime[t])
    BY <1>7 DEF LoadFast
  <2>5. mtime[t] \in Nat
    BY <2>1 DEF TypeOK, LocalsBound
  <2>6. TemplatesBacked'
    BY <2>4, <2>5, EntriesStay, TouchedBacked DEF TemplatesBacked
  <2> QED  BY <1>1, <2>1, <2>2, <2>3, <2>6, EntriesStay
<1>8. ASSUME NEW t \in Threads, IncludeFast(t)
      PROVE  FreshInv'
  <2>1. /\ UNCHANGED <<hist, call, mtime, source, since, templates>>
        /\ pc[t] = "fast" /\ pc'[t] \in {"read", "done"}
    BY <1>8 DEF IncludeFast, At, TypeOK, Goto, Return, fsVars, locals
  <2>2. CallBacked(t)'
    BY <2>1 DEF CallBacked, File, Version, Window, StatFailed
  <2>3. OthersStay(t)
    BY <1>8, <2>1 DEF IncludeFast, TypeOK, Goto, Return
  <2>4. \/ UNCHANGED includes
        \/ /\ File(t) \in DOMAIN includes /\ includes[File(t)].modified = mtime[t]
           /\ includes' = Touched(includes, File(t), mtime[t])
    BY <1>8 DEF IncludeFast
  <2>5. mtime[t] \in Nat
    BY <2>1 DEF TypeOK, LocalsBound
  <2>6. IncludesBacked'
    BY <2>4, <2>5, EntriesStay, TouchedIncludeBacked DEF IncludesBacked
  <2> QED  BY <1>1, <2>1, <2>2, <2>3, <2>6, EntriesStay
<1>9. ASSUME NEW t \in Threads, LoadCheck(t)
      PROVE  FreshInv'
  <2>1. /\ UNCHANGED <<hist, call, mtime, source, since, includes>>
        /\ pc[t] = "check" /\ pc'[t] \in {"compile", "done"}
    BY <1>9 DEF LoadCheck, At, TypeOK, Goto, Return, fsVars, locals
  <2>2. CallBacked(t)'
    BY <2>1 DEF CallBacked, File, Version, Window, StatFailed
  <2>3. OthersStay(t)
    BY <1>9, <2>1 DEF LoadCheck, TypeOK, Goto, Return
  <2>4. \/ UNCHANGED templates
        \/ /\ File(t) \in DOMAIN templates /\ templates[File(t)].source = source[t]
           /\ templates' = Touched(templates, File(t), mtime[t])
    BY <1>9 DEF LoadCheck
  <2>5. mtime[t] \in Nat /\ Backed(File(t), source[t], mtime[t])
    BY <2>1, CallBacks DEF TypeOK, LocalsBound
  <2>6. TemplatesBacked'
    BY <2>4, <2>5, EntriesStay, TouchedBacked
  <2> QED  BY <1>1, <2>1, <2>2, <2>3, <2>6, EntriesStay
<1>10. ASSUME NEW t \in Threads, IncludeCheck(t)
      PROVE  FreshInv'
  <2>1. /\ UNCHANGED <<hist, call, mtime, source, since, templates>>
        /\ pc[t] = "check" /\ pc'[t] \in {"compile", "done"}
    BY <1>10 DEF IncludeCheck, At, TypeOK, Goto, Return, fsVars, locals
  <2>2. CallBacked(t)'
    BY <2>1 DEF CallBacked, File, Version, Window, StatFailed
  <2>3. OthersStay(t)
    BY <1>10, <2>1 DEF IncludeCheck, TypeOK, Goto, Return
  <2>4. \/ UNCHANGED includes
        \/ /\ File(t) \in DOMAIN includes /\ includes[File(t)].source = source[t]
           /\ includes' = Touched(includes, File(t), mtime[t])
    BY <1>10 DEF IncludeCheck
  <2>5. mtime[t] \in Nat /\ Backed(File(t), source[t], mtime[t])
    BY <2>1, CallBacks DEF TypeOK, LocalsBound
  <2>6. IncludesBacked'
    BY <2>4, <2>5, EntriesStay, TouchedIncludeBacked
  <2> QED  BY <1>1, <2>1, <2>2, <2>3, <2>6, EntriesStay
<1>11. ASSUME NEW t \in Threads, LoadInsert(t)
      PROVE  FreshInv'
  <2>1. /\ UNCHANGED <<hist, call, mtime, source, since, includes>>
        /\ pc[t] = "insert" /\ pc'[t] = "done"
    BY <1>11 DEF LoadInsert, At, TypeOK, Goto, Return, fsVars, locals
  <2>2. CallBacked(t)'
    BY <2>1 DEF CallBacked, File, Version, Window, StatFailed
  <2>3. OthersStay(t)
    BY <1>11, <2>1 DEF LoadInsert, TypeOK, Goto, Return
  <2>4. PICK entry : /\ entry.source = source[t] /\ entry.modified = mtime[t]
                     /\ templates' \in Inserted(templates, File(t), entry)
    BY <1>11 DEF LoadInsert
  <2>5. Backed(File(t), source[t], mtime[t])
    BY <2>1, CallBacks
  <2>6. File(t) \in Files /\ DOMAIN templates \subseteq Files
    BY <2>1, FileType DEF TypeOK, IsPartial
  <2>7. /\ DOMAIN templates' \subseteq DOMAIN templates \cup {File(t)}
        /\ templates'[File(t)] = entry
        /\ \A k \in DOMAIN templates' \ {File(t)} : templates'[k] = templates[k]
    BY <2>4, InsertedEntries
  <2>8. \A k \in DOMAIN templates' : Backed(k, templates'[k].source, templates'[k].modified)
    BY <2>4, <2>5, <2>7 DEF TemplatesBacked
  <2>9. TemplatesBacked'
    BY <2>6, <2>7, <2>8, BackedGrows DEF TemplatesBacked
  <2> QED  BY <1>1, <2>1, <2>2, <2>3, <2>9, EntriesStay
<1>12. ASSUME NEW t \in Threads, IncludeInsert(t)
      PROVE  FreshInv'
  <2>1. /\ UNCHANGED <<hist, call, mtime, source, since, templates>>
        /\ pc[t] = "insert" /\ pc'[t] = "done"
    BY <1>12 DEF IncludeInsert, At, TypeOK, Goto, Return, fsVars, locals
  <2>2. CallBacked(t)'
    BY <2>1 DEF CallBacked, File, Version, Window, StatFailed
  <2>3. OthersStay(t)
    BY <1>12, <2>1 DEF IncludeInsert, TypeOK, Goto, Return
  <2>4. PICK entry : /\ entry.source = source[t] /\ entry.modified = mtime[t]
                     /\ includes' \in Inserted(includes, File(t), entry)
    BY <1>12 DEF IncludeInsert
  <2>5. Backed(File(t), source[t], mtime[t])
    BY <2>1, CallBacks
  <2>6. File(t) \in Files /\ DOMAIN includes \subseteq Files
    BY <2>1, FileType DEF TypeOK, IsPartial
  <2>7. /\ DOMAIN includes' \subseteq DOMAIN includes \cup {File(t)}
        /\ includes'[File(t)] = entry
        /\ \A k \in DOMAIN includes' \ {File(t)} : includes'[k] = includes[k]
    BY <2>4, InsertedEntries
  <2>8. \A k \in DOMAIN includes' : Backed(k, includes'[k].source, includes'[k].modified)
    BY <2>4, <2>5, <2>7 DEF IncludesBacked
  <2>9. IncludesBacked'
    BY <2>6, <2>7, <2>8, BackedGrows DEF IncludesBacked
  <2> QED  BY <1>1, <2>1, <2>2, <2>3, <2>9, EntriesStay
<1>13. ASSUME NEW t \in Threads, ClearTemplates(t) \/ ClearIncludes(t)
      PROVE  FreshInv'
  <2>1. pc'[t] \in {"clearing", "idle"} /\ OthersStay(t)
    BY <1>13 DEF ClearTemplates, ClearIncludes, TypeOK, Goto, locals
  <2>2. (UNCHANGED templates \/ templates' = <<>>) /\ (UNCHANGED includes \/ includes' = <<>>)
    BY <1>13 DEF ClearTemplates, ClearIncludes
  <2>3. TemplatesBacked' /\ IncludesBacked'
    BY <2>2, EntriesStay DEF TemplatesBacked, IncludesBacked
  <2> QED  BY <1>1, <2>1, <2>3 DEF CallBacked
<1>14. CASE \/ \E f \in Files, c \in Contents : WriteFile(f, c)
            \/ \E f \in Files : DeleteFile(f)
            \/ UNCHANGED vars
  <2>1. UNCHANGED <<templates, includes, pc, call, mtime, source, since>>
    BY <1>14 DEF WriteFile, DeleteFile, vars, fsVars, cacheVars, locals
  <2>2. TemplatesBacked' /\ IncludesBacked'
    BY <2>1, EntriesStay
  <2>3. \A u \in Threads : CallBacked(u)'
    BY <2>1, CallBackedGrows
  <2> QED  BY <2>2, <2>3 DEF FreshInv
<1>15. CASE \E t \in Threads : Thread(t)
  BY <1>2, <1>3, <1>4, <1>5, <1>6, <1>7, <1>8, <1>9, <1>10, <1>11, <1>12, <1>13, <1>15
  DEF Thread, Load, ResolveInclude
<1> QED  BY <1>14, <1>15 DEF Next

\* Entries and running calls always know their files' histories, even where two
\* writes share a modification time.
THEOREM HistoriesBacked == Spec => []FreshInv
<1>1. Init => FreshInv
  BY DEF Init, FreshInv, TemplatesBacked, IncludesBacked, CallBacked
<1> QED  BY <1>1, TypeCorrect, StepFresh, PTL DEF Spec

----------------------------------------------------------------------------
(* Fresh, thread by thread.                                                *)

FreshFor(t) ==
    pc[t] = "done" /\ result[t].ok /\ ~StatFailed(t)
        => \E v \in Window(t) : hist[File(t)][v] = result[t].source

\* A result that was fresh stays fresh while other threads and editors go on.
LEMMA FreshStays ==
    ASSUME TypeOK, FreshInv, HistGrows, NEW u \in Threads, SameLocals(u),
           result'[u] = result[u], FreshFor(u)
    PROVE  FreshFor(u)'
<1> SUFFICES ASSUME pc[u] = "done" PROVE FreshFor(u)'
  BY DEF FreshFor, SameLocals
<1>1. File(u) \in Files /\ File(u)' = File(u) /\ since[u] \in 1..Version(File(u))
  BY FileType DEF SameLocals, File, FreshInv, CallBacked
<1>2. Window(u) \subseteq Window(u)' /\ \A v \in Window(u) : v \in 1..Version(File(u))
  BY <1>1 DEF SameLocals, HistGrows, Window
<1> QED  BY <1>1, <1>2 DEF FreshFor, SameLocals, HistGrows, StatFailed

\* When every write has a time of its own, an entry with the time the call saw
\* holds a content the file had during the call.
LEMMA HitIsFresh ==
    ASSUME TimesAreDistinct, TypeOK, FreshInv, NEW t \in Threads, pc[t] = "fast",
           ~StatFailed(t), NEW c, Backed(File(t), c, mtime[t])
    PROVE  \E v \in Window(t) : hist[File(t)][v] = c
<1>1. /\ since[t] \in 1..Version(File(t)) /\ Version(File(t)) \in 1..MaxVersion
      /\ MaxVersion \in Nat
  BY FileType, MtimeAssumption DEF FreshInv, CallBacked
<1>2. PICK w \in Window(t) : Mtime[w] = mtime[t]
  BY DEF FreshInv, CallBacked
<1>3. PICK v \in 1..Version(File(t)) :
          hist[File(t)][v] = c /\ \E x \in 1..v : Mtime[x] = mtime[t]
  BY DEF Backed, StatFailed
<1>4. PICK x \in 1..v : Mtime[x] = mtime[t]
  BY <1>3
<1>5. w \in 1..MaxVersion /\ x \in 1..MaxVersion
  BY <1>1 DEF Window
<1>6. w = x
  BY <1>2, <1>4, <1>5 DEF TimesAreDistinct
<1>7. v \in Window(t)
  BY <1>1, <1>6 DEF Window
<1> QED  BY <1>3, <1>7

\* A call that reads the file itself returns what it read.
LEMMA ReadIsFresh ==
    ASSUME TypeOK, FreshInv, NEW t \in Threads, pc[t] \in {"check", "compile", "insert"}
    PROVE  \E v \in Window(t) : hist[File(t)][v] = source[t]
  BY DEF FreshInv, CallBacked

\* No step makes a returned result older than its call.
LEMMA StepFreshFor ==
    ASSUME TimesAreDistinct, TypeOK, FreshInv, [Next]_vars,
           NEW t \in Threads, FreshFor(t)
    PROVE  FreshFor(t)'
<1> HistGrows  BY NextGrows
<1> SUFFICES ASSUME pc'[t] = "done", result'[t].ok PROVE FreshFor(t)'
  BY DEF FreshFor
<1>1. CASE SameLocals(t) /\ result'[t] = result[t]
  BY <1>1, FreshStays
<1>2. ASSUME NEW c, UNCHANGED <<hist, call, since, mtime>>, result'[t].source = c,
             ~StatFailed(t) => \E v \in Window(t) : hist[File(t)][v] = c
      PROVE  FreshFor(t)'
  BY <1>2 DEF FreshFor, Window, File, Version, StatFailed
<1>3. CASE LoadFast(t) \/ IncludeFast(t)
  <2>1. pc[t] = "fast" /\ File(t) \in Files /\ UNCHANGED <<hist, call, since, mtime>>
    BY <1>3, FileType DEF LoadFast, IncludeFast, At, fsVars, locals
  <2>2. PICK c : /\ result'[t].source = c
                 /\ Backed(File(t), c, mtime[t])
    BY <1>3, <2>1
    DEF LoadFast, IncludeFast, FromEntry, FromInclude, Return, Goto, TypeOK, FreshInv,
        TemplatesBacked, IncludesBacked
  <2>3. ~StatFailed(t) => \E v \in Window(t) : hist[File(t)][v] = c
    BY <2>1, <2>2, HitIsFresh
  <2> QED  BY <1>2, <2>1, <2>2, <2>3
<1>4. CASE LoadCheck(t) \/ IncludeCheck(t) \/ LoadInsert(t) \/ IncludeInsert(t)
  <2>1. pc[t] \in {"check", "insert"} /\ UNCHANGED <<hist, call, since, mtime>>
    BY <1>4
    DEF LoadCheck, IncludeCheck, LoadInsert, IncludeInsert, At, fsVars, locals
  <2>2. result'[t].source = source[t]
    BY <1>4
    DEF LoadCheck, IncludeCheck, LoadInsert, IncludeInsert, FromEntry, FromInclude, Return,
        Goto, TypeOK
  <2> QED  BY <1>2, <2>1, <2>2, ReadIsFresh
<1>5. ASSUME \/ \E c \in Calls : Start(t, c)
             \/ LoadStat(t) \/ IncludeStat(t) \/ Read(t) \/ Finish(t)
             \/ LoadCompile(t) \/ IncludeCompile(t) \/ ClearTemplates(t) \/ ClearIncludes(t)
      PROVE  FALSE
  BY <1>5
  DEF Start, LoadStat, IncludeStat, Read, Finish, LoadCompile, IncludeCompile,
      ClearTemplates, ClearIncludes, Return, Goto, Error, TypeOK
<1>6. ASSUME NEW u \in Threads, Thread(u), u # t
      PROVE  SameLocals(t) /\ result'[t] = result[t]
  BY <1>6
  DEF Thread, Load, ResolveInclude, Start, Read, Finish, LoadStat, LoadFast, LoadCheck,
      LoadCompile, LoadInsert, IncludeStat, IncludeFast, IncludeCheck, IncludeCompile,
      IncludeInsert, ClearTemplates, ClearIncludes, Goto, Return, SameLocals, TypeOK, locals
<1>7. CASE Thread(t)
  BY <1>3, <1>4, <1>5, <1>7 DEF Thread, Load, ResolveInclude
<1>8. CASE \/ \E f \in Files, c \in Contents : WriteFile(f, c)
           \/ \E f \in Files : DeleteFile(f)
           \/ UNCHANGED vars
  BY <1>1, <1>8 DEF WriteFile, DeleteFile, SameLocals, vars, locals
<1> QED  BY <1>1, <1>6, <1>7, <1>8 DEF Next

\* If every write gives its file a modification time of its own, a call never
\* returns a content older than the call: the fast path is as fresh as a read.
THEOREM CacheIsFresh == ASSUME TimesAreDistinct PROVE Spec => []Fresh
<1>1. Init => Fresh
  BY DEF Init, Fresh
<1>2. TypeOK /\ FreshInv /\ Fresh /\ [Next]_vars => Fresh'
  <2>1. Fresh <=> \A t \in Threads : FreshFor(t)
    BY DEF Fresh, FreshFor
  <2>2. Fresh' <=> \A t \in Threads : FreshFor(t)'
    BY DEF Fresh, FreshFor
  <2> QED  BY <2>1, <2>2, TimesAreDistinct, StepFreshFor
<1> QED  BY <1>1, <1>2, TypeCorrect, HistoriesBacked, PTL DEF Spec

----------------------------------------------------------------------------
(* What a call may return: the compilation it asked for, and an error only *)
(* for a reason it met.  Both hold for any number of threads, files and    *)
(* calls, and whatever the modification times are.                         *)

\* A step of one thread leaves the others' results alone.
LEMMA OthersKeepResults ==
    ASSUME TypeOK, NEW t \in Threads, NEW u \in Threads, Thread(u), u # t
    PROVE  SameLocals(t) /\ result'[t] = result[t]
  BY DEF Thread, Load, ResolveInclude, Start, Read, Finish, LoadStat, LoadFast, LoadCheck,
         LoadCompile, LoadInsert, IncludeStat, IncludeFast, IncludeCheck, IncludeCompile,
         IncludeInsert, ClearTemplates, ClearIncludes, Goto, Return, SameLocals, TypeOK,
         locals

\* Nor does an editor touch anybody's call.
LEMMA EditorsKeepResults ==
    ASSUME \/ \E f \in Files, c \in Contents : WriteFile(f, c)
           \/ \E f \in Files : DeleteFile(f)
           \/ UNCHANGED vars,
           NEW t \in Threads
    PROVE  SameLocals(t) /\ result'[t] = result[t]
  BY DEF WriteFile, DeleteFile, SameLocals, vars, locals

----------------------------------------------------------------------------
(* OwnContext, thread by thread.                                           *)

OwnContextFor(t) ==
    pc[t] = "done" /\ result[t].ok
        => /\ result[t].env = call[t].env
           /\ call[t].op = "load" => result[t].base = call[t].path

\* Whatever step of its own gives a thread a result gives it one for its call.
LEMMA ReturnsOwnContext ==
    ASSUME TypeOK, NEW t \in Threads, Thread(t), pc'[t] = "done", result'[t].ok
    PROVE  OwnContextFor(t)'
<1>1. CASE LoadFast(t) \/ LoadCheck(t) \/ LoadInsert(t)
  <2>1. /\ call[t] \in Calls /\ call[t].op = "load" /\ call' = call
    BY <1>1, FileType DEF LoadFast, LoadCheck, LoadInsert, At, locals
  <2>2. call[t].env = NoEnv
    BY <2>1, CallsAssumption
  <2>3. PICK entry : result' = [result EXCEPT ![t] = FromEntry(t, entry)]
    BY <1>1 DEF LoadFast, LoadCheck, LoadInsert, Return, Goto, TypeOK
  <2>4. result'[t] = FromEntry(t, entry)
    BY <2>3 DEF TypeOK
  <2> QED  BY <2>1, <2>2, <2>4 DEF OwnContextFor, FromEntry
<1>2. CASE IncludeFast(t) \/ IncludeCheck(t) \/ IncludeInsert(t)
  <2>1. /\ call[t].op = "include" /\ call' = call
    BY <1>2 DEF IncludeFast, IncludeCheck, IncludeInsert, At, locals
  <2>2. PICK entry : /\ entry.env = call[t].env
                     /\ result' = [result EXCEPT ![t] = FromInclude(entry)]
    BY <1>2 DEF IncludeFast, IncludeCheck, IncludeInsert, Return, Goto, TypeOK
  <2>3. result'[t] = FromInclude(entry)
    BY <2>2 DEF TypeOK
  <2> QED  BY <2>1, <2>2, <2>3 DEF OwnContextFor, FromInclude
<1>3. ASSUME \/ \E c \in Calls : Start(t, c)
             \/ LoadStat(t) \/ IncludeStat(t) \/ Read(t) \/ Finish(t)
             \/ LoadCompile(t) \/ IncludeCompile(t) \/ ClearTemplates(t) \/ ClearIncludes(t)
      PROVE  FALSE
  BY <1>3
  DEF Start, LoadStat, IncludeStat, Read, Finish, LoadCompile, IncludeCompile,
      ClearTemplates, ClearIncludes, Return, Goto, Error, TypeOK
<1> QED  BY <1>1, <1>2, <1>3 DEF Thread, Load, ResolveInclude

\* A call returns the compilation for its own environment, and a load resolves
\* its includes from its own path, whoever filled the entry.
THEOREM ResultsAreForTheCall == Spec => []OwnContext
<1>1. Init => OwnContext
  BY DEF Init, OwnContext
<1>2. TypeOK /\ OwnContext /\ [Next]_vars => OwnContext'
  <2> SUFFICES ASSUME TypeOK, OwnContext, [Next]_vars, NEW t \in Threads
               PROVE  OwnContextFor(t)'
    BY DEF OwnContext, OwnContextFor
  <2>1. OwnContextFor(t)
    BY DEF OwnContext, OwnContextFor
  <2>2. CASE SameLocals(t) /\ result'[t] = result[t]
    BY <2>1, <2>2 DEF OwnContextFor, SameLocals
  <2>3. CASE Thread(t)
    <3> SUFFICES ASSUME pc'[t] = "done", result'[t].ok PROVE OwnContextFor(t)'
      BY DEF OwnContextFor
    <3> QED  BY <2>3, ReturnsOwnContext
  <2> QED  BY <2>2, <2>3, OthersKeepResults, EditorsKeepResults DEF Next
<1> QED  BY <1>1, <1>2, TypeCorrect, PTL DEF Spec

----------------------------------------------------------------------------
(* ErrorHasCause.                                                          *)

\* A running call whose file is gone has met its absence.
MeetsAbsence(t) == pc[t] \notin {"idle", "clearing"} /\ ~exists[File(t)] => gone[t]

\* While a call runs, that its file was once gone is not forgotten.
LEMMA GoneStays ==
    ASSUME TypeOK, [Next]_vars, NEW t \in Threads, pc[t] # "idle", pc'[t] # "idle", gone[t]
    PROVE  gone'[t]
  BY DEF Next, vars, Thread, Load, ResolveInclude, Start, Read, Finish, LoadStat, LoadFast,
      LoadCheck, LoadCompile, LoadInsert, IncludeStat, IncludeFast, IncludeCheck,
      IncludeCompile, IncludeInsert, ClearTemplates, ClearIncludes, WriteFile, DeleteFile,
      Goto, Return, At, TypeOK, locals

LEMMA StepMeets ==
    ASSUME TypeOK, [Next]_vars, NEW t \in Threads, MeetsAbsence(t)
    PROVE  MeetsAbsence(t)'
<1>1. ASSUME NEW f \in Files, DeleteFile(f)
      PROVE  MeetsAbsence(t)'
  <2>1. UNCHANGED <<pc, call>> /\ File(t)' = File(t)
    BY <1>1 DEF DeleteFile, File
  <2>2. gone'[t] = (gone[t] \/ (call[t] # Nil /\ File(t) = f))
    BY <1>1 DEF DeleteFile
  <2>3. pc[t] \notin {"idle", "clearing"} => call[t] # Nil /\ File(t) \in Files
    BY FileType, NilAssumption
  <2>4. exists' = [exists EXCEPT ![f] = FALSE] /\ exists \in [Files -> BOOLEAN]
    BY <1>1 DEF DeleteFile, TypeOK
  <2> QED  BY <2>1, <2>2, <2>3, <2>4 DEF MeetsAbsence
<1>2. ASSUME NEW f \in Files, NEW c \in Contents, WriteFile(f, c)
      PROVE  MeetsAbsence(t)'
  <2>1. UNCHANGED <<pc, call, gone>> /\ File(t)' = File(t)
    BY <1>2 DEF WriteFile, File, locals
  <2>2. exists' = [exists EXCEPT ![f] = TRUE] /\ exists \in [Files -> BOOLEAN]
    BY <1>2 DEF WriteFile, TypeOK
  <2>3. pc[t] \notin {"idle", "clearing"} => File(t) \in Files
    BY FileType
  <2> QED  BY <2>1, <2>2, <2>3 DEF MeetsAbsence
<1>3. ASSUME NEW c \in Calls, Start(t, c)
      PROVE  MeetsAbsence(t)'
  BY <1>3 DEF Start, MeetsAbsence, File, TypeOK, fsVars
<1>4. CASE Finish(t) \/ ClearTemplates(t) \/ ClearIncludes(t)
  BY <1>4 DEF Finish, ClearTemplates, ClearIncludes, Goto, MeetsAbsence, TypeOK
<1>5. CASE \/ LoadStat(t) \/ LoadFast(t) \/ LoadCheck(t) \/ LoadCompile(t) \/ LoadInsert(t)
           \/ IncludeStat(t) \/ IncludeFast(t) \/ IncludeCheck(t) \/ IncludeCompile(t)
           \/ IncludeInsert(t) \/ Read(t)
  <2>1. UNCHANGED <<exists, call, gone>> /\ pc[t] \notin {"idle", "clearing"}
    BY <1>5
    DEF LoadStat, LoadFast, LoadCheck, LoadCompile, LoadInsert, IncludeStat, IncludeFast,
        IncludeCheck, IncludeCompile, IncludeInsert, Read, At, fsVars, locals
  <2> QED  BY <2>1 DEF MeetsAbsence, File
<1>6. ASSUME NEW u \in Threads, Thread(u), u # t
      PROVE  MeetsAbsence(t)'
  <2>1. SameLocals(t)
    BY <1>6, OthersKeepResults
  <2>2. UNCHANGED exists /\ gone'[t] = gone[t]
    BY <1>6
    DEF Thread, Load, ResolveInclude, Start, Read, Finish, LoadStat, LoadFast, LoadCheck,
        LoadCompile, LoadInsert, IncludeStat, IncludeFast, IncludeCheck, IncludeCompile,
        IncludeInsert, ClearTemplates, ClearIncludes, fsVars, locals, TypeOK
  <2> QED  BY <2>1, <2>2 DEF MeetsAbsence, SameLocals, File
<1>7. CASE UNCHANGED vars
  BY <1>7 DEF MeetsAbsence, vars, fsVars, locals, File
<1> QED
  BY <1>1, <1>2, <1>3, <1>4, <1>5, <1>6, <1>7 DEF Next, Thread, Load, ResolveInclude

AbsenceIsMet == \A t \in Threads : MeetsAbsence(t)

LEMMA AlwaysMet == Spec => []AbsenceIsMet
<1>1. Init => AbsenceIsMet
  BY DEF Init, AbsenceIsMet, MeetsAbsence
<1>2. TypeOK /\ AbsenceIsMet /\ [Next]_vars => AbsenceIsMet'
  BY StepMeets DEF AbsenceIsMet
<1> QED  BY <1>1, <1>2, TypeCorrect, PTL DEF Spec

Cause(t) ==
    \/ gone[t]
    \/ \E v \in Window(t) : hist[File(t)][v] \in Broken

ErrorHasCauseFor(t) == pc[t] = "done" /\ ~result[t].ok => Cause(t)

\* A cause that was met stays one while others go on.
LEMMA CauseStays ==
    ASSUME TypeOK, FreshInv, [Next]_vars, NEW t \in Threads, SameLocals(t),
           pc[t] = "done", Cause(t)
    PROVE  Cause(t)'
<1> HistGrows
  BY NextGrows
<1>1. File(t) \in Files /\ File(t)' = File(t) /\ since[t] \in 1..Version(File(t))
  BY FileType DEF SameLocals, File, FreshInv, CallBacked
<1>2. Window(t) \subseteq Window(t)' /\ \A v \in Window(t) : v \in 1..Version(File(t))
  BY <1>1 DEF SameLocals, HistGrows, Window
<1>3. gone[t] => gone'[t]
  BY GoneStays DEF SameLocals
<1> QED  BY <1>1, <1>2, <1>3 DEF Cause, HistGrows

\* Whatever step of its own fails a call has a cause.
LEMMA FailsWithCause ==
    ASSUME TypeOK, FreshInv, AbsenceIsMet, NEW t \in Threads, Thread(t),
           pc'[t] = "done", ~result'[t].ok
    PROVE  Cause(t)'
<1>1. ASSUME NEW c \in Calls, Start(t, c)
      PROVE  Cause(t)'
  <2>1. ~exists[Canonical[c.path]] /\ gone'[t] = ~exists[Canonical[c.path]]
    BY <1>1 DEF Start, Goto, TypeOK
  <2> QED  BY <2>1 DEF Cause
<1>2. CASE LoadStat(t) \/ Read(t)
  <2>1. pc[t] \in {"stat", "read"} /\ UNCHANGED gone
    BY <1>2 DEF LoadStat, Read, At
  <2>2. ~exists[File(t)]
    BY <1>2 DEF LoadStat, Read, Goto, TypeOK
  <2> QED  BY <2>1, <2>2 DEF Cause, AbsenceIsMet, MeetsAbsence
<1>3. CASE LoadCompile(t) \/ IncludeCompile(t)
  <2>1. pc[t] = "compile" /\ UNCHANGED <<hist, call, since>>
    BY <1>3 DEF LoadCompile, IncludeCompile, At, fsVars, locals
  <2>2. source[t] \in Broken
    BY <1>3 DEF LoadCompile, IncludeCompile, Goto, TypeOK
  <2>3. \E v \in Window(t) : hist[File(t)][v] \in Broken
    BY <2>1, <2>2, ReadIsFresh
  <2> QED  BY <2>1, <2>3 DEF Cause, Window, File, Version
<1>4. ASSUME \/ LoadFast(t) \/ LoadCheck(t) \/ LoadInsert(t)
             \/ IncludeFast(t) \/ IncludeCheck(t) \/ IncludeInsert(t)
      PROVE  FALSE
  <2>1. PICK r : result' = [result EXCEPT ![t] = r] /\ r.ok
    BY <1>4
    DEF LoadFast, LoadCheck, LoadInsert, IncludeFast, IncludeCheck, IncludeInsert, Return,
        Goto, TypeOK, FromEntry, FromInclude
  <2> QED  BY <2>1 DEF TypeOK
<1>5. ASSUME IncludeStat(t) \/ Finish(t) \/ ClearTemplates(t) \/ ClearIncludes(t)
      PROVE  FALSE
  BY <1>5 DEF IncludeStat, Finish, ClearTemplates, ClearIncludes, Goto, TypeOK
<1> QED  BY <1>1, <1>2, <1>3, <1>4, <1>5 DEF Thread, Load, ResolveInclude

\* A call fails only when its file was gone or did not compile at some moment of
\* the call: an older entry does not hide an error, and a repaired file does not
\* go on failing.
THEOREM ErrorsHaveCauses == Spec => []ErrorHasCause
<1>1. Init => ErrorHasCause
  BY DEF Init, ErrorHasCause
<1>2. TypeOK /\ FreshInv /\ AbsenceIsMet /\ ErrorHasCause /\ [Next]_vars
          => ErrorHasCause'
  <2> SUFFICES ASSUME TypeOK, FreshInv, AbsenceIsMet, ErrorHasCause, [Next]_vars,
                      NEW t \in Threads
               PROVE  ErrorHasCauseFor(t)'
    BY DEF ErrorHasCause, ErrorHasCauseFor, Cause
  <2>1. ErrorHasCauseFor(t)
    BY DEF ErrorHasCause, ErrorHasCauseFor, Cause
  <2>2. CASE SameLocals(t) /\ result'[t] = result[t]
    BY <2>1, <2>2, CauseStays DEF ErrorHasCauseFor, SameLocals
  <2>3. CASE Thread(t)
    BY <2>3, FailsWithCause DEF ErrorHasCauseFor
  <2> QED  BY <2>2, <2>3, OthersKeepResults, EditorsKeepResults DEF Next
<1> QED
  BY <1>1, <1>2, TypeCorrect, HistoriesBacked, AlwaysMet, PTL DEF Spec
=============================================================================
