----------------------- MODULE TemplateCacheLimitProofs -----------------------
(***************************************************************************)
(* Eviction in TemplateCache, for any number of threads and files: the     *)
(* maps stay within every limit of two or more, and under any limit what   *)
(* an insertion evicts is what was used longest ago.                       *)
(***************************************************************************)
EXTENDS TemplateCacheProofs, FiniteSetTheorems

Within(cache) ==
    IsFiniteSet(DOMAIN cache) /\ Cardinality(DOMAIN cache) <= MaxEntries

\* Taking a subset away from a finite set takes its size away.
LEMMA DifferenceSize ==
    ASSUME NEW S, IsFiniteSet(S), NEW V \in SUBSET S
    PROVE  /\ IsFiniteSet(S \ V)
           /\ Cardinality(S \ V) = Cardinality(S) - Cardinality(V)
<1>1. IsFiniteSet(V) /\ IsFiniteSet(S \ V)
  BY FS_Subset
<1>2. Cardinality((S \ V) \cup V) =
          Cardinality(S \ V) + Cardinality(V) - Cardinality((S \ V) \cap V)
  BY <1>1, FS_Union
<1>3. (S \ V) \cup V = S /\ (S \ V) \cap V = {}
  OBVIOUS
<1>4. Cardinality(S \ V) \in Nat /\ Cardinality(V) \in Nat
  BY <1>1, FS_CardinalityType
<1>5. Cardinality((S \ V) \cap V) = 0
  BY <1>3, FS_EmptySet
<1>6. Cardinality(S) = Cardinality((S \ V) \cup V)
  BY <1>3
<1>7. ASSUME NEW a \in Nat, NEW b \in Nat, NEW s, s = a + b - 0
      PROVE  s - b = a
  BY <1>7
<1> QED  BY <1>1, <1>2, <1>4, <1>5, <1>6, <1>7

\* What is evicted at the limit, and what is not below it.
LEMMA EvictCountValue ==
    ASSUME MaxEntries \in Nat, MaxEntries >= 2, NEW n \in Nat, n <= MaxEntries
    PROVE  /\ EvictCount(n) \in Nat
           /\ n - EvictCount(n) + 1 <= MaxEntries
  BY LimitAssumption DEF EvictCount, Target

\* evict_lru makes room before the insertion, for a map that is within its limit.
LEMMA InsertedWithin ==
    ASSUME MaxEntries \in Nat, MaxEntries >= 2, NEW cache, Within(cache), NEW f, NEW entry,
           NEW after \in Inserted(cache, f, entry)
    PROVE  Within(after)
<1>1. PICK V \in Victims(cache) : DOMAIN after = (DOMAIN cache \ V) \cup {f}
  BY DEF Inserted
<1>2. /\ V \in SUBSET DOMAIN cache
      /\ Cardinality(V) = EvictCount(Cardinality(DOMAIN cache))
  BY <1>1 DEF Victims
<1>3. Cardinality(DOMAIN cache) \in Nat
  BY FS_CardinalityType DEF Within
<1>4. /\ IsFiniteSet(DOMAIN cache \ V)
      /\ Cardinality(DOMAIN cache \ V) =
            Cardinality(DOMAIN cache) - EvictCount(Cardinality(DOMAIN cache))
  BY <1>2, DifferenceSize DEF Within
<1>5. /\ IsFiniteSet(DOMAIN after)
      /\ Cardinality(DOMAIN after) <= Cardinality(DOMAIN cache \ V) + 1
  <2>1. Cardinality(DOMAIN cache \ V) \in Nat
    BY <1>4, FS_CardinalityType
  <2>2. PICK S : S = DOMAIN cache \ V
    OBVIOUS
  <2>3. IsFiniteSet(S) /\ Cardinality(S) \in Nat
    BY <1>4, <2>1, <2>2
  <2>4. /\ IsFiniteSet(S \cup {f})
        /\ Cardinality(S \cup {f}) = Cardinality(S) \/ Cardinality(S \cup {f}) = Cardinality(S) + 1
    BY <2>3, FS_AddElement
  <2>5. Cardinality(S \cup {f}) <= Cardinality(S) + 1
    BY <2>3, <2>4
  <2>6. DOMAIN after = S \cup {f}
    BY <1>1, <2>2
  <2> QED  BY <2>2, <2>4, <2>5, <2>6
<1>6. Cardinality(DOMAIN after) \in Nat
  BY <1>5, FS_CardinalityType
<1> QED  BY <1>3, <1>4, <1>5, <1>6, EvictCountValue DEF Within

\* The bound for a limit of two or more, and finite maps as what keeps it.
LEMMA StepWithin ==
    ASSUME MaxEntries \in Nat, MaxEntries >= 2, Within(templates), Within(includes),
           [Next]_vars
    PROVE  Within(templates)' /\ Within(includes)'
<1>1. \A cache, f, m : DOMAIN Touched(cache, f, m) = DOMAIN cache
  BY DEF Touched
<1>2. Within(<<>>)
  BY FS_EmptySet DEF Within
<1>3. ASSUME NEW t \in Threads, LoadFast(t) \/ LoadCheck(t)
      PROVE  Within(templates)' /\ Within(includes)'
  BY <1>1, <1>3 DEF LoadFast, LoadCheck, Within
<1>4. ASSUME NEW t \in Threads, IncludeFast(t) \/ IncludeCheck(t)
      PROVE  Within(templates)' /\ Within(includes)'
  BY <1>1, <1>4 DEF IncludeFast, IncludeCheck, Within
<1>5. ASSUME NEW t \in Threads, LoadInsert(t)
      PROVE  Within(templates)' /\ Within(includes)'
  <2>1. Within(templates')
    BY <1>5, InsertedWithin DEF LoadInsert
  <2> QED  BY <1>5, <2>1 DEF LoadInsert, Within
<1>6. ASSUME NEW t \in Threads, IncludeInsert(t)
      PROVE  Within(templates)' /\ Within(includes)'
  <2>1. Within(includes')
    BY <1>6, InsertedWithin DEF IncludeInsert
  <2> QED  BY <1>6, <2>1 DEF IncludeInsert, Within
<1>7. ASSUME NEW t \in Threads, ClearTemplates(t) \/ ClearIncludes(t)
      PROVE  Within(templates)' /\ Within(includes)'
  BY <1>2, <1>7 DEF ClearTemplates, ClearIncludes, Within
<1>8. CASE UNCHANGED <<templates, includes>>
  BY <1>8 DEF Within
<1>9. ASSUME NEW t \in Threads,
             \/ \E c \in Calls : Start(t, c)
             \/ LoadStat(t) \/ LoadCompile(t) \/ IncludeStat(t) \/ IncludeCompile(t)
             \/ Read(t) \/ Finish(t)
      PROVE  UNCHANGED <<templates, includes>>
  BY <1>9
  DEF Start, LoadStat, LoadCompile, IncludeStat, IncludeCompile, Read, Finish, cacheVars
<1>10. CASE \/ \E f \in Files, c \in Contents : WriteFile(f, c)
            \/ \E f \in Files : DeleteFile(f)
            \/ UNCHANGED vars
  BY <1>8, <1>10 DEF WriteFile, DeleteFile, vars, cacheVars
<1>11. CASE \E t \in Threads : Thread(t)
  BY <1>3, <1>4, <1>5, <1>6, <1>7, <1>8, <1>9, <1>11 DEF Thread, Load, ResolveInclude
<1> QED  BY <1>10, <1>11 DEF Next

\* With a limit of two or more neither map ever holds more entries than the
\* limit (with a limit of one or none it does).
THEOREM StaysWithinLimit ==
    ASSUME MaxEntries \in Nat => MaxEntries >= 2
    PROVE  Spec => []WithinLimit
<1>1. CASE MaxEntries = Unlimited
  <2>1. WithinLimit
    BY <1>1 DEF WithinLimit
  <2> QED  BY <2>1, PTL
<1>2. CASE MaxEntries \in Nat
  <2> DEFINE Inv == Within(templates) /\ Within(includes)
  <2>1. MaxEntries >= 2
    BY <1>2
  <2>2. Init => Inv
    BY <1>2, FS_EmptySet DEF Init, Within
  <2>3. Inv /\ [Next]_vars => Inv'
    BY <1>2, <2>1, StepWithin
  <2>4. Inv => WithinLimit
    BY DEF Within, WithinLimit
  <2> HIDE DEF Inv
  <2> QED  BY <2>2, <2>3, <2>4, PTL DEF Spec
<1> QED  BY <1>1, <1>2, LimitAssumption

----------------------------------------------------------------------------
(* The order of eviction.                                                  *)

\* Evicting anything at all means the map was full, and leaves Target entries.
LEMMA EvictsToTarget ==
    ASSUME NEW n \in Nat, EvictCount(n) # 0
    PROVE  n >= MaxEntries /\ n - EvictCount(n) = Target /\ Target \in Nat
  BY LimitAssumption DEF EvictCount, Target

\* An insertion evicts in order when its entry is not as old as the one it
\* replaces: the new entry then does not pass for one that was left.
LEMMA InsertedOrderly ==
    ASSUME NEW cache, IsFiniteSet(DOMAIN cache), NEW f, NEW entry,
           NEW after \in Inserted(cache, f, entry),
           MaxEntries # Unlimited /\ f \in DOMAIN cache => cache[f].accessed # entry.accessed
    PROVE  EvictsOldest(cache, after)
<1> DEFINE n == Cardinality(DOMAIN cache)
           evicted == DOMAIN cache \ DOMAIN after
           left == {k \in DOMAIN cache \ evicted : after[k] = cache[k]}
<1>1. PICK V \in Victims(cache) :
          after = [k \in (DOMAIN cache \ V) \cup {f} |-> IF k = f THEN entry ELSE cache[k]]
  BY DEF Inserted
<1>2. /\ V \in SUBSET DOMAIN cache
      /\ Cardinality(V) = EvictCount(n)
      /\ \A v \in V, k \in DOMAIN cache \ V : cache[v].accessed <= cache[k].accessed
  BY <1>1 DEF Victims
<1>3. n \in Nat /\ IsFiniteSet(V)
  BY <1>2, FS_CardinalityType, FS_Subset
<1> SUFFICES ASSUME evicted # {}
             PROVE  /\ n >= MaxEntries
                    /\ \A v \in evicted, k \in left : cache[v].accessed <= cache[k].accessed
                    /\ Cardinality(DOMAIN after) \in Target..Target + 1
  BY DEF EvictsOldest
<1>4. evicted \subseteq V /\ V # {}
  BY <1>1, <1>2
<1>5. EvictCount(n) # 0
  BY <1>2, <1>3, <1>4, FS_EmptySet
<1>6. n >= MaxEntries /\ n - EvictCount(n) = Target /\ Target \in Nat
  BY <1>3, <1>5, EvictsToTarget
<1>7. MaxEntries # Unlimited
  BY <1>5 DEF EvictCount
<1>8. left \subseteq DOMAIN cache \ V
  <2> SUFFICES ASSUME NEW k \in left, k \in V PROVE FALSE
    OBVIOUS
  <2>1. k \in DOMAIN after /\ k = f
    BY <1>1
  <2>2. after[k] = entry /\ after[k] = cache[k]
    BY <1>1, <2>1
  <2> QED  BY <1>7, <2>1, <2>2
<1>9. Cardinality(DOMAIN after) \in Target..Target + 1
  <2>1. /\ IsFiniteSet(DOMAIN cache \ V)
        /\ Cardinality(DOMAIN cache \ V) = Target
    BY <1>2, <1>6, DifferenceSize
  <2>2. DOMAIN after = (DOMAIN cache \ V) \cup {f}
    BY <1>1
  <2>3. \/ Cardinality(DOMAIN after) = Target
        \/ Cardinality(DOMAIN after) = Target + 1
    BY <2>1, <2>2, FS_AddElement
  <2> QED  BY <1>6, <2>3
<1> QED  BY <1>2, <1>4, <1>6, <1>8, <1>9

\* Keeping its keys, or losing them all, a map evicts nothing out of order.
LEMMA KeysStayOrderly ==
    ASSUME NEW cache, NEW after, DOMAIN after = DOMAIN cache
    PROVE  EvictsOldest(cache, after)
  BY DEF EvictsOldest

Inserting(t) == At(t, "load", "insert")

\* Under a limit no two readings of the clock are the same, so that an entry
\* about to be inserted is neither as old as an entry of the map nor as another
\* one about to be inserted.
StampsDiffer ==
    MaxEntries # Unlimited =>
        /\ \A f \in DOMAIN templates : templates[f].accessed <= clock
        /\ \A f \in DOMAIN includes : includes[f].accessed <= clock
        /\ \A t \in Threads : Inserting(t) =>
              /\ stamp[t] <= clock
              /\ \A f \in DOMAIN templates : templates[f].accessed # stamp[t]
              /\ \A u \in Threads : Inserting(u) /\ u # t => stamp[u] # stamp[t]

\* A touch leaves the other entries alone and stamps its own with the new time.
LEMMA TouchStamps ==
    ASSUME NEW cache, NEW f \in DOMAIN cache, NEW m, "accessed" \in DOMAIN cache[f]
    PROVE  /\ DOMAIN Touched(cache, f, m) = DOMAIN cache
           /\ \A k \in DOMAIN cache \ {f} : Touched(cache, f, m)[k] = cache[k]
           /\ Touched(cache, f, m)[f].accessed = Now
<1>1. PICK e : e = [cache[f] EXCEPT !.accessed = Now, !.modified = m]  OBVIOUS
<1>2. e.accessed = Now
  BY <1>1
<1>3. Touched(cache, f, m) = [cache EXCEPT ![f] = e]
  BY <1>1 DEF Touched
<1> QED  BY <1>2, <1>3

\* Entries that keep their times or get a new one, and threads that keep their
\* stamps, stay apart.
LEMMA AgedStep ==
    ASSUME TypeOK, MaxEntries # Unlimited, StampsDiffer,
           clock' \in {clock, clock + 1},
           \A f \in DOMAIN templates' :
              \/ f \in DOMAIN templates /\ templates'[f].accessed = templates[f].accessed
              \/ clock' = clock + 1 /\ templates'[f].accessed = clock',
           \A f \in DOMAIN includes' :
              \/ f \in DOMAIN includes /\ includes'[f].accessed = includes[f].accessed
              \/ clock' = clock + 1 /\ includes'[f].accessed = clock',
           \A t \in Threads : Inserting(t)' => Inserting(t) /\ stamp'[t] = stamp[t]
    PROVE  StampsDiffer'
<1>1. clock \in Nat
  BY DEF TypeOK
<1>2. \A t \in Threads : Inserting(t) => stamp[t] \in Nat
  BY DEF TypeOK, LocalsBound, Inserting
<1>3. /\ \A f \in DOMAIN templates : templates[f].accessed \in Nat
      /\ \A f \in DOMAIN includes : includes[f].accessed \in Nat
  BY DEF TypeOK, IsPartial, CacheEntry, IncludeCacheEntry
<1>4. \A f \in DOMAIN templates' : templates'[f].accessed <= clock'
  BY <1>1, <1>3 DEF StampsDiffer
<1>5. \A f \in DOMAIN includes' : includes'[f].accessed <= clock'
  BY <1>1, <1>3 DEF StampsDiffer
<1>6. ASSUME NEW t \in Threads, Inserting(t)'
      PROVE  /\ stamp'[t] <= clock'
             /\ \A f \in DOMAIN templates' : templates'[f].accessed # stamp'[t]
             /\ \A u \in Threads : Inserting(u)' /\ u # t => stamp'[u] # stamp'[t]
  <2>1. Inserting(t) /\ stamp'[t] = stamp[t] /\ stamp[t] <= clock /\ stamp[t] \in Nat
    BY <1>2, <1>6 DEF StampsDiffer
  <2>2. stamp'[t] <= clock'
    BY <1>1, <2>1
  <2>3. ASSUME NEW f \in DOMAIN templates' PROVE templates'[f].accessed # stamp'[t]
    <3>1. CASE f \in DOMAIN templates /\ templates'[f].accessed = templates[f].accessed
      BY <2>1, <3>1 DEF StampsDiffer
    <3>2. CASE clock' = clock + 1 /\ templates'[f].accessed = clock'
      BY <1>1, <2>1, <3>2
    <3> QED  BY <3>1, <3>2
  <2>4. \A u \in Threads : Inserting(u)' /\ u # t => stamp'[u] # stamp'[t]
    BY <2>1 DEF StampsDiffer
  <2> QED  BY <2>2, <2>3, <2>4
<1> QED  BY <1>4, <1>5, <1>6 DEF StampsDiffer

\* Every step keeps entries and stamps apart.
LEMMA StepStamps == TypeOK /\ StampsDiffer /\ [Next]_vars => StampsDiffer'
<1> SUFFICES ASSUME TypeOK, StampsDiffer, [Next]_vars, MaxEntries # Unlimited
             PROVE  StampsDiffer'
  BY DEF StampsDiffer
<1>1. /\ clock \in Nat /\ Now = clock + 1
      /\ \A f \in DOMAIN templates : "accessed" \in DOMAIN templates[f]
      /\ \A f \in DOMAIN includes : "accessed" \in DOMAIN includes[f]
      /\ pc = [u \in Threads |-> pc[u]] /\ stamp = [u \in Threads |-> stamp[u]]
  <2>1. clock \in Nat /\ Now = clock + 1
    BY DEF TypeOK, Now
  <2>2. /\ \A f \in DOMAIN templates : "accessed" \in DOMAIN templates[f]
        /\ \A f \in DOMAIN includes : "accessed" \in DOMAIN includes[f]
    BY DEF TypeOK, IsPartial, CacheEntry, IncludeCacheEntry
  <2>3. pc = [u \in Threads |-> pc[u]] /\ stamp = [u \in Threads |-> stamp[u]]
    BY DEF TypeOK
  <2> QED  BY <2>1, <2>2, <2>3
<1>2. ASSUME NEW t \in Threads, LoadFast(t) \/ LoadCheck(t)
      PROVE  StampsDiffer'
  <2>1. /\ UNCHANGED <<includes, stamp, call>>
        /\ pc[t] # "insert" /\ \E l \in {"read", "compile", "done"} : Goto(t, l)
    BY <1>2 DEF LoadFast, LoadCheck, At, Return, locals
  <2>2. \/ UNCHANGED <<templates, clock>>
        \/ /\ File(t) \in DOMAIN templates
           /\ templates' = Touched(templates, File(t), mtime[t])
           /\ clock' = clock + 1
    BY <1>1, <1>2 DEF LoadFast, LoadCheck, Tick
  <2>3. \A f \in DOMAIN templates' :
           \/ f \in DOMAIN templates /\ templates'[f].accessed = templates[f].accessed
           \/ clock' = clock + 1 /\ templates'[f].accessed = clock'
    BY <1>1, <2>2, TouchStamps
  <2>4. \A u \in Threads : Inserting(u)' => Inserting(u) /\ stamp'[u] = stamp[u]
    BY <1>1, <2>1 DEF Inserting, At, Goto
  <2> QED  BY <2>1, <2>2, <2>3, <2>4, AgedStep
<1>3. ASSUME NEW t \in Threads, IncludeFast(t) \/ IncludeCheck(t)
      PROVE  StampsDiffer'
  <2>1. /\ UNCHANGED <<templates, stamp, call>>
        /\ pc[t] # "insert" /\ \E l \in {"read", "compile", "done"} : Goto(t, l)
    BY <1>3 DEF IncludeFast, IncludeCheck, At, Return, locals
  <2>2. \/ UNCHANGED <<includes, clock>>
        \/ /\ File(t) \in DOMAIN includes
           /\ includes' = Touched(includes, File(t), mtime[t])
           /\ clock' = clock + 1
    BY <1>1, <1>3 DEF IncludeFast, IncludeCheck, Tick
  <2>3. \A f \in DOMAIN includes' :
           \/ f \in DOMAIN includes /\ includes'[f].accessed = includes[f].accessed
           \/ clock' = clock + 1 /\ includes'[f].accessed = clock'
    BY <1>1, <2>2, TouchStamps
  <2>4. \A u \in Threads : Inserting(u)' => Inserting(u) /\ stamp'[u] = stamp[u]
    BY <1>1, <2>1 DEF Inserting, At, Goto
  <2> QED  BY <2>1, <2>2, <2>3, <2>4, AgedStep
<1>4. ASSUME NEW t \in Threads, LoadCompile(t), ~UNCHANGED <<clock, stamp>>
      PROVE  StampsDiffer'
  <2>1. /\ clock' = clock + 1 /\ stamp' = [stamp EXCEPT ![t] = clock + 1]
        /\ pc' = [pc EXCEPT ![t] = "insert"] /\ UNCHANGED <<templates, includes, call>>
    BY <1>1, <1>4 DEF LoadCompile, Goto, Tick
  <2>2. stamp'[t] = clock + 1 /\ \A u \in Threads \ {t} : stamp'[u] = stamp[u]
    BY <1>1, <2>1
  <2>3. \A u \in Threads \ {t} : Inserting(u)' => Inserting(u)
    BY <1>1, <2>1 DEF Inserting, At
  <2>4. \A u \in Threads : Inserting(u) => stamp[u] \in Nat
    BY DEF TypeOK, LocalsBound, Inserting
  <2>5. /\ \A f \in DOMAIN templates : templates[f].accessed \in Nat
        /\ \A f \in DOMAIN includes : includes[f].accessed \in Nat
    BY DEF TypeOK, IsPartial, CacheEntry, IncludeCacheEntry
  <2>6. /\ \A f \in DOMAIN templates' : templates'[f].accessed <= clock
        /\ \A f \in DOMAIN includes' : includes'[f].accessed <= clock
    BY <2>1 DEF StampsDiffer
  <2>7. /\ \A f \in DOMAIN templates' : templates'[f].accessed <= clock'
        /\ \A f \in DOMAIN includes' : includes'[f].accessed <= clock'
        /\ \A f \in DOMAIN templates' : templates'[f].accessed # stamp'[t]
    BY <1>1, <2>1, <2>2, <2>5, <2>6
  <2>8. ASSUME NEW u \in Threads \ {t}, Inserting(u)'
        PROVE  /\ stamp'[u] <= clock' /\ stamp'[u] # stamp'[t]
               /\ \A f \in DOMAIN templates' : templates'[f].accessed # stamp'[u]
               /\ \A x \in Threads : Inserting(x)' /\ x # u => stamp'[x] # stamp'[u]
    <3>1. Inserting(u) /\ stamp'[u] = stamp[u] /\ stamp[u] \in Nat
      BY <2>2, <2>3, <2>4, <2>8
    <3>2. /\ stamp[u] <= clock
          /\ \A f \in DOMAIN templates : templates[f].accessed # stamp[u]
          /\ \A x \in Threads : Inserting(x) /\ x # u => stamp[x] # stamp[u]
      BY <3>1 DEF StampsDiffer
    <3>3. stamp'[u] <= clock' /\ stamp'[u] # stamp'[t]
      BY <1>1, <2>1, <2>2, <3>1, <3>2
    <3> QED  BY <2>1, <2>2, <2>3, <3>1, <3>2, <3>3
  <2>9. stamp'[t] <= clock'
    BY <1>1, <2>1, <2>2
  <2> QED  BY <2>7, <2>8, <2>9 DEF StampsDiffer
<1>5. ASSUME NEW t \in Threads, LoadInsert(t)
      PROVE  StampsDiffer'
  <2>1. /\ Inserting(t) /\ pc' = [pc EXCEPT ![t] = "done"]
        /\ UNCHANGED <<includes, clock, stamp, call>>
    BY <1>5 DEF LoadInsert, Inserting, Return, Goto, locals
  <2>2. PICK entry : /\ entry.accessed = stamp[t]
                     /\ templates' \in Inserted(templates, File(t), entry)
    BY <1>5 DEF LoadInsert
  <2>3. \A f \in DOMAIN templates' :
           \/ f \in DOMAIN templates /\ templates'[f] = templates[f]
           \/ templates'[f].accessed = stamp[t]
    BY <2>2, InsertedEntries
  <2>4. \A u \in Threads : Inserting(u)' => Inserting(u) /\ u # t
    BY <1>1, <2>1 DEF Inserting, At
  <2> QED  BY <2>1, <2>3, <2>4 DEF StampsDiffer
<1>6. ASSUME NEW t \in Threads, IncludeInsert(t)
      PROVE  StampsDiffer'
  <2>1. /\ pc' = [pc EXCEPT ![t] = "done"] /\ clock' = clock + 1
        /\ UNCHANGED <<templates, stamp, call>>
    BY <1>1, <1>6 DEF IncludeInsert, Return, Goto, Tick, locals
  <2>2. PICK entry : /\ entry.accessed = clock + 1
                     /\ includes' \in Inserted(includes, File(t), entry)
    BY <1>1, <1>6 DEF IncludeInsert
  <2>3. \A f \in DOMAIN includes' :
           \/ f \in DOMAIN includes /\ includes'[f].accessed = includes[f].accessed
           \/ clock' = clock + 1 /\ includes'[f].accessed = clock'
    BY <2>1, <2>2, InsertedEntries
  <2>4. \A u \in Threads : Inserting(u)' => Inserting(u) /\ stamp'[u] = stamp[u]
    BY <1>1, <2>1 DEF Inserting, At
  <2> QED  BY <2>1, <2>3, <2>4, AgedStep
<1>7. ASSUME NEW t \in Threads, ClearTemplates(t) \/ ClearIncludes(t)
      PROVE  StampsDiffer'
  <2>1. /\ UNCHANGED <<clock, stamp, call>>
        /\ \E l \in {"clearing", "idle"} : pc' = [pc EXCEPT ![t] = l]
    BY <1>7 DEF ClearTemplates, ClearIncludes, Goto, locals
  <2>2. /\ \A f \in DOMAIN templates' : f \in DOMAIN templates /\ UNCHANGED templates
        /\ \A f \in DOMAIN includes' : f \in DOMAIN includes /\ UNCHANGED includes
    BY <1>7 DEF ClearTemplates, ClearIncludes
  <2>3. \A u \in Threads : Inserting(u)' => Inserting(u) /\ stamp'[u] = stamp[u]
    BY <1>1, <2>1 DEF Inserting, At
  <2> QED  BY <2>1, <2>2, <2>3, AgedStep
<1>8. ASSUME UNCHANGED <<templates, includes, clock>>,
             \A u \in Threads : Inserting(u)' => Inserting(u) /\ stamp'[u] = stamp[u]
      PROVE  StampsDiffer'
  BY <1>8, AgedStep
<1>9. ASSUME NEW t \in Threads,
             \/ \E c \in Calls : Start(t, c)
             \/ LoadStat(t) \/ IncludeStat(t) \/ IncludeCompile(t) \/ Read(t) \/ Finish(t)
             \/ LoadCompile(t) /\ UNCHANGED <<clock, stamp>>
      PROVE  StampsDiffer'
  <2>1. UNCHANGED <<templates, includes, clock>>
    BY <1>9
    DEF Start, LoadStat, LoadCompile, IncludeStat, IncludeCompile, Read, Finish, cacheVars
  <2>2. \A u \in Threads \ {t} : Inserting(u)' => Inserting(u) /\ stamp'[u] = stamp[u]
    BY <1>1, <1>9
    DEF Start, LoadStat, LoadCompile, IncludeStat, IncludeCompile, Read, Finish, locals,
        Return, Goto, Inserting, At, TypeOK
  <2>3. ~Inserting(t)'
    BY <1>1, <1>9
    DEF Start, LoadStat, LoadCompile, IncludeStat, IncludeCompile, Read, Finish, locals,
        Return, Goto, Inserting, At, Tick
  <2> QED  BY <1>8, <2>1, <2>2, <2>3
<1>10. CASE \/ \E f \in Files, c \in Contents : WriteFile(f, c)
            \/ \E f \in Files : DeleteFile(f)
            \/ UNCHANGED vars
  BY <1>8, <1>10
  DEF WriteFile, DeleteFile, vars, cacheVars, locals, Inserting, At
<1>11. CASE \E t \in Threads : Thread(t)
  BY <1>2, <1>3, <1>4, <1>5, <1>6, <1>7, <1>9, <1>11 DEF Thread, Load, ResolveInclude
<1> QED  BY <1>10, <1>11 DEF Next

\* Insertions are of new keys or come with a time of their own; every other step
\* but clear keeps the keys.
LEMMA StepOrderly ==
    ASSUME TypeOK, StampsDiffer, IsFiniteSet(DOMAIN templates), IsFiniteSet(DOMAIN includes),
           Next
    PROVE  /\ templates' # <<>> => EvictsOldest(templates, templates')
           /\ includes' # <<>> => EvictsOldest(includes, includes')
<1> DEFINE Orderly == /\ templates' # <<>> => EvictsOldest(templates, templates')
                      /\ includes' # <<>> => EvictsOldest(includes, includes')
<1>1. \A cache, f, m : DOMAIN Touched(cache, f, m) = DOMAIN cache
  BY DEF Touched
<1>2. CASE DOMAIN templates' = DOMAIN templates /\ DOMAIN includes' = DOMAIN includes
  BY <1>2, KeysStayOrderly
<1>3. ASSUME NEW t \in Threads,
             LoadFast(t) \/ LoadCheck(t) \/ IncludeFast(t) \/ IncludeCheck(t)
      PROVE  DOMAIN templates' = DOMAIN templates /\ DOMAIN includes' = DOMAIN includes
  BY <1>1, <1>3 DEF LoadFast, LoadCheck, IncludeFast, IncludeCheck
<1>4. ASSUME NEW t \in Threads, LoadInsert(t)
      PROVE  Orderly
  <2>1. Inserting(t) /\ UNCHANGED includes
    BY <1>4 DEF LoadInsert, Inserting
  <2>2. PICK entry : /\ entry.accessed = stamp[t]
                     /\ templates' \in Inserted(templates, File(t), entry)
    BY <1>4 DEF LoadInsert
  <2>3. ASSUME MaxEntries # Unlimited, File(t) \in DOMAIN templates
        PROVE  templates[File(t)].accessed # entry.accessed
    BY <2>1, <2>2, <2>3 DEF StampsDiffer
  <2>4. EvictsOldest(templates, templates')
    BY <2>2, <2>3, InsertedOrderly
  <2> QED  BY <2>1, <2>4, KeysStayOrderly
<1>5. ASSUME NEW t \in Threads, IncludeInsert(t)
      PROVE  Orderly
  <2>1. UNCHANGED templates
    BY <1>5 DEF IncludeInsert
  <2>2. PICK entry : /\ entry.accessed = Now
                     /\ includes' \in Inserted(includes, File(t), entry)
    BY <1>5 DEF IncludeInsert
  <2>3. ASSUME MaxEntries # Unlimited, File(t) \in DOMAIN includes
        PROVE  includes[File(t)].accessed # entry.accessed
    <3>1. clock \in Nat /\ Now = clock + 1
      BY <2>3 DEF TypeOK, Now
    <3>2. includes[File(t)].accessed <= clock
      BY <2>3 DEF StampsDiffer
    <3> QED  BY <2>2, <3>1, <3>2
  <2>4. EvictsOldest(includes, includes')
    BY <2>2, <2>3, InsertedOrderly
  <2> QED  BY <2>1, <2>4, KeysStayOrderly
<1>6. ASSUME NEW t \in Threads, ClearTemplates(t) \/ ClearIncludes(t)
      PROVE  Orderly
  BY <1>6, KeysStayOrderly DEF ClearTemplates, ClearIncludes
<1>7. ASSUME NEW t \in Threads,
             \/ \E c \in Calls : Start(t, c)
             \/ LoadStat(t) \/ LoadCompile(t) \/ IncludeStat(t) \/ IncludeCompile(t)
             \/ Read(t) \/ Finish(t)
      PROVE  DOMAIN templates' = DOMAIN templates /\ DOMAIN includes' = DOMAIN includes
  BY <1>7
  DEF Start, LoadStat, LoadCompile, IncludeStat, IncludeCompile, Read, Finish, cacheVars
<1>8. CASE \/ \E f \in Files, c \in Contents : WriteFile(f, c)
           \/ \E f \in Files : DeleteFile(f)
  BY <1>2, <1>8 DEF WriteFile, DeleteFile, cacheVars
<1>9. CASE \E t \in Threads : Thread(t)
  BY <1>2, <1>3, <1>4, <1>5, <1>6, <1>7, <1>9 DEF Thread, Load, ResolveInclude
<1> QED  BY <1>8, <1>9 DEF Next

\* The maps are finite, whatever the limit.
LEMMA StepFinite ==
    ASSUME IsFiniteSet(DOMAIN templates), IsFiniteSet(DOMAIN includes), [Next]_vars
    PROVE  IsFiniteSet(DOMAIN templates') /\ IsFiniteSet(DOMAIN includes')
<1>1. \A cache, f, m : DOMAIN Touched(cache, f, m) = DOMAIN cache
  BY DEF Touched
<1>2. ASSUME NEW cache, IsFiniteSet(DOMAIN cache), NEW f, NEW entry,
             NEW after \in Inserted(cache, f, entry)
      PROVE  IsFiniteSet(DOMAIN after)
  <2>1. IsFiniteSet(DOMAIN cache \cup {f})
    BY <1>2, FS_AddElement
  <2>2. DOMAIN after \subseteq DOMAIN cache \cup {f}
    BY InsertedEntries
  <2> QED  BY <2>1, <2>2, FS_Subset
<1>3. IsFiniteSet(DOMAIN <<>>)
  BY FS_EmptySet
<1>4. CASE \/ \E f \in Files, c \in Contents : WriteFile(f, c)
           \/ \E f \in Files : DeleteFile(f)
           \/ UNCHANGED vars
  BY <1>4 DEF WriteFile, DeleteFile, vars, cacheVars
<1>5. CASE \E t \in Threads : Thread(t)
  BY <1>1, <1>2, <1>3, <1>5
  DEF Thread, Load, ResolveInclude, Start, Read, Finish, LoadStat, LoadFast, LoadCheck,
      LoadCompile, LoadInsert, IncludeStat, IncludeFast, IncludeCheck, IncludeCompile,
      IncludeInsert, ClearTemplates, ClearIncludes, cacheVars
<1> QED  BY <1>4, <1>5 DEF Next

\* Under every limit, an insertion that finds the map full removes only entries
\* used no later than those it leaves, and leaves three quarters of the limit;
\* no step but clear removes anything else, whatever the threads interleave.
THEOREM EvictsInOrder == Spec => EvictionIsOrderly
<1> DEFINE Finite == IsFiniteSet(DOMAIN templates) /\ IsFiniteSet(DOMAIN includes)
           Orderly == /\ templates' # <<>> => EvictsOldest(templates, templates')
                      /\ includes' # <<>> => EvictsOldest(includes, includes')
<1>1. Init => Finite
  BY FS_EmptySet DEF Init
<1>2. Finite /\ [Next]_vars => Finite'
  BY StepFinite
<1>3. Init => StampsDiffer
  BY DEF Init, StampsDiffer, Inserting, At
<1>4. TypeOK /\ StampsDiffer /\ Finite /\ [Next]_vars => [Orderly]_vars
  BY StepOrderly
<1>5. Spec => []Finite
  <2> HIDE DEF Finite
  <2> QED  BY <1>1, <1>2, PTL DEF Spec
<1>6. Spec => []StampsDiffer
  BY <1>3, StepStamps, TypeCorrect, PTL DEF Spec
<1>7. Spec => [][Orderly]_vars
  <2> HIDE DEF Finite, Orderly
  <2> QED  BY <1>4, <1>5, <1>6, TypeCorrect, PTL DEF Spec
<1> QED  BY <1>7 DEF EvictionIsOrderly
=============================================================================
