------------------------- MODULE BrowserLoaderProofs -------------------------
(***************************************************************************)
(* Theorems about BrowserLoader for any number of calls, templates,        *)
(* origins, rounds and changes of the files, and any finite set of paths.  *)
(***************************************************************************)
EXTENDS BrowserLoader, FiniteSetTheorems, TLAPS

----------------------------------------------------------------------------
(* Maps.                                                                   *)

\* Storing under a path keeps a map's type.
LEMMA StoredType ==
    ASSUME NEW T, NEW f, IsPartial(f, T), NEW p \in Paths, NEW v \in T
    PROVE  /\ IsPartial(Stored(f, p, v), T)
           /\ DOMAIN Stored(f, p, v) = DOMAIN f \cup {p}
           /\ Stored(f, p, v)[p] = v
           /\ \A q \in DOMAIN f \ {p} : Stored(f, p, v)[q] = f[q]
<1>1. PICK D \in SUBSET Paths : f \in [D -> T]  BY DEF IsPartial
<1>2. Stored(f, p, v) \in [D \cup {p} -> T]
  BY <1>1 DEF Stored
<1>3. D \cup {p} \in SUBSET Paths
  OBVIOUS
<1>4. /\ DOMAIN Stored(f, p, v) = DOMAIN f \cup {p}
      /\ Stored(f, p, v)[p] = v
      /\ \A q \in DOMAIN f \ {p} : Stored(f, p, v)[q] = f[q]
  BY DEF Stored
<1> QED  BY <1>2, <1>3, <1>4 DEF IsPartial

\* Taking a path out does, too.
LEMMA WithoutType ==
    ASSUME NEW T, NEW f, IsPartial(f, T), NEW p
    PROVE  IsPartial(Without(f, p), T) /\ DOMAIN Without(f, p) = DOMAIN f \ {p}
<1>1. PICK D \in SUBSET Paths : f \in [D -> T]  BY DEF IsPartial
<1>2. Without(f, p) \in [D \ {p} -> T]
  BY <1>1 DEF Without
<1>3. D \ {p} \in SUBSET Paths
  OBVIOUS
<1> QED  BY <1>2, <1>3 DEF IsPartial, Without

LEMMA EmptyType == ASSUME NEW T PROVE IsPartial(<<>>, T)
<1>1. <<>> \in [{} -> T]  OBVIOUS
<1> QED  BY <1>1 DEF IsPartial

\* The sources by path are the maps from paths to sources.
LEMMA BodiesType == \A f : f \in Bodies <=> IsPartial(f, Sources)
  BY DEF Bodies, IsPartial

----------------------------------------------------------------------------
(* What an attempt finds.                                                  *)

\* The source of a stored file is a source.
LEMMA SourceType ==
    ASSUME TypeOK, NEW p \in DOMAIN files
    PROVE  p \in Paths /\ Source(p) \in Sources /\ files[p].mtime \in 1..clock - 1
<1>1. PICK D \in SUBSET Paths : files \in [D -> StoredFiles]
  BY DEF TypeOK, IsPartial
<1>2. p \in D /\ files[p] \in StoredFiles
  BY <1>1
<1> QED  BY <1>2 DEF StoredFiles, Source, Sources

\* What stops the compilation of a file is the file or one of its imports; if
\* nothing does, both are there and parse.
LEMMA CompilingFacts ==
    ASSUME NEW p \in Paths
    PROVE  /\ Compiling(p) \subseteq {p} \cup Imports[p]
           /\ Compiling(p) = {} =>
                 /\ p \in DOMAIN files /\ Imports[p] \subseteq DOMAIN files
                 /\ <<p, files[p].version>> \notin Broken
  BY DEF Compiling, Absent, DoNotParse

\* An include in no trouble is there and is up to date, or can be compiled.
LEMMA TroubleFacts ==
    ASSUME NEW tm, NEW p \in Paths
    PROVE  /\ Troubles(tm, p) \subseteq {p} \cup Imports[p]
           /\ Troubles(tm, p) = {} =>
                 /\ p \in DOMAIN files
                 /\ UpToDate(tm, p) \/ Compiling(p) = {}
  BY CompilingFacts DEF Troubles

\* An include that has been compiled is of its type.
LEMMA CompiledType ==
    ASSUME TypeOK, NEW tm \in Templates, NEW p \in DOMAIN compiled[tm]
    PROVE  /\ p \in Paths /\ compiled[tm][p] \in CompiledIncludes
           /\ compiled[tm][p].source \in Sources
           /\ compiled[tm][p].imports \in Bodies
           /\ compiled[tm][p].mtime \in 1..clock - 1
           /\ <<p, compiled[tm][p].source.version>> \notin Broken
           /\ DOMAIN compiled[tm][p].imports = Imports[p]
<1>1. PICK D \in SUBSET Paths : compiled[tm] \in [D -> CompiledIncludes]
  BY DEF TypeOK, IsPartial
<1>2. p \in D /\ compiled[tm][p] \in CompiledIncludes
  BY <1>1
<1> QED  BY <1>2 DEF CompiledIncludes, TypeOK

\* What a render makes of an include in no trouble: compiled from the file there
\* is now, with all imports, whether it was compiled before or not.
LEMMA RefreshedType ==
    ASSUME TypeOK, IncludesCurrent, NEW tm \in Templates, NEW p \in Paths,
           Troubles(tm, p) = {}
    PROVE  /\ p \in DOMAIN files
           /\ Refreshed(tm, p) \in CompiledIncludes
           /\ Refreshed(tm, p).mtime = files[p].mtime
           /\ Refreshed(tm, p).source = Source(p)
           /\ Refreshed(tm, p).imports \in Bodies
           /\ DOMAIN Refreshed(tm, p).imports = Imports[p]
           /\ <<p, Source(p).version>> \notin Broken
<1>1. p \in DOMAIN files /\ (UpToDate(tm, p) \/ Compiling(p) = {})
  BY TroubleFacts
<1>2. Source(p) \in Sources /\ files[p].mtime \in 1..clock - 1
  BY <1>1, SourceType
<1>3. CASE UpToDate(tm, p)
  <2>1. p \in DOMAIN compiled[tm] /\ compiled[tm][p].source = Source(p)
    BY <1>1, <1>3 DEF UpToDate, IncludesCurrent
  <2>2. /\ compiled[tm][p] \in CompiledIncludes
        /\ compiled[tm][p].imports \in Bodies
        /\ <<p, compiled[tm][p].source.version>> \notin Broken
        /\ DOMAIN compiled[tm][p].imports = Imports[p]
    BY <2>1, CompiledType
  <2>3. PICK r : r = [compiled[tm][p] EXCEPT !.mtime = files[p].mtime, !.source = Source(p)]
    OBVIOUS
  <2>4. /\ r \in CompiledIncludes /\ r.mtime = files[p].mtime /\ r.source = Source(p)
        /\ r.imports = compiled[tm][p].imports
    BY <1>2, <2>2, <2>3 DEF CompiledIncludes
  <2>5. r = Refreshed(tm, p)
    BY <1>3, <2>3 DEF Refreshed
  <2> QED  BY <1>1, <2>1, <2>2, <2>4, <2>5
<1>4. CASE ~UpToDate(tm, p)
  <2>1. Imports[p] \subseteq DOMAIN files /\ <<p, files[p].version>> \notin Broken
    BY <1>1, <1>4, CompilingFacts
  <2>2. PICK imports : imports = [i \in Imports[p] |-> Source(i)]
    OBVIOUS
  <2>3. Imports[p] \in SUBSET Paths /\ \A i \in Imports[p] : Source(i) \in Sources
    BY <2>1, SourceType, LoaderAssumption
  <2>4. imports \in Bodies /\ DOMAIN imports = Imports[p]
    BY <2>2, <2>3 DEF Bodies
  <2>5. Refreshed(tm, p) = [mtime |-> files[p].mtime, source |-> Source(p), imports |-> imports]
    BY <1>4, <2>2 DEF Refreshed
  <2>6. <<p, Source(p).version>> \notin Broken
    BY <2>1 DEF Source
  <2> QED  BY <1>1, <1>2, <2>4, <2>5, <2>6 DEF CompiledIncludes
<1> QED  BY <1>3, <1>4

----------------------------------------------------------------------------
(* What an attempt does.                                                   *)

CompiledOK ==
    /\ DOMAIN compiled = Templates
    /\ \A tm \in Templates : IsPartial(compiled[tm], CompiledIncludes)
    /\ \A tm \in Templates : \A p \in DOMAIN compiled[tm] :
          /\ <<p, compiled[tm][p].source.version>> \notin Broken
          /\ DOMAIN compiled[tm][p].imports = Imports[p]

\* Refreshing includes in no trouble keeps what is compiled typed and current.
LEMMA RefreshStep ==
    ASSUME TypeOK, IncludesCurrent, NEW tm \in Templates, NEW S \in SUBSET Paths,
           \A p \in S : Troubles(tm, p) = {},
           Refresh(tm, S), UNCHANGED <<files, clock>>
    PROVE  CompiledOK' /\ IncludesCurrent'
<1> DEFINE new == [p \in S \cup DOMAIN compiled[tm] |->
                     IF p \in S THEN Refreshed(tm, p) ELSE compiled[tm][p]]
<1>1. /\ DOMAIN compiled' = Templates /\ compiled'[tm] = new
      /\ \A x \in Templates \ {tm} : compiled'[x] = compiled[x]
  BY DEF Refresh, TypeOK
<1>2. CompiledIncludes' = CompiledIncludes /\ \A p : Source(p)' = Source(p)
  BY DEF CompiledIncludes, Source
<1>3. DOMAIN new \subseteq Paths
  BY CompiledType
<1>4. ASSUME NEW p \in DOMAIN new
      PROVE  /\ new[p] \in CompiledIncludes
             /\ <<p, new[p].source.version>> \notin Broken
             /\ DOMAIN new[p].imports = Imports[p]
             /\ p \in DOMAIN files /\ new[p].mtime = files[p].mtime
                   => new[p].source = Source(p)
  <2>1. CASE p \in S
    <3>1. new[p] = Refreshed(tm, p) /\ Troubles(tm, p) = {}
      BY <2>1
    <3> QED  BY <2>1, <3>1, RefreshedType
  <2>2. CASE p \notin S
    <3>1. new[p] = compiled[tm][p] /\ p \in DOMAIN compiled[tm]
      BY <2>2
    <3> HIDE DEF new
    <3> QED  BY <3>1, CompiledType DEF IncludesCurrent
  <2> QED  BY <2>1, <2>2
<1>5. IsPartial(new, CompiledIncludes)
  <2>1. new \in [DOMAIN new -> CompiledIncludes]
    BY <1>4
  <2> QED  BY <1>3, <2>1 DEF IsPartial
<1> HIDE DEF new
<1>6. \A x \in Templates : IsPartial(compiled'[x], CompiledIncludes)
  BY <1>1, <1>5 DEF TypeOK
<1>7. ASSUME NEW x \in Templates, NEW p \in DOMAIN compiled'[x]
      PROVE  /\ <<p, compiled'[x][p].source.version>> \notin Broken
             /\ DOMAIN compiled'[x][p].imports = Imports[p]
             /\ p \in DOMAIN files /\ compiled'[x][p].mtime = files[p].mtime
                   => compiled'[x][p].source = Source(p)
  <2>1. CASE x = tm
    BY <1>1, <1>4, <1>7, <2>1
  <2>2. CASE x # tm
    BY <1>1, <1>7, <2>2 DEF TypeOK, IncludesCurrent
  <2> QED  BY <2>1, <2>2
<1>8. CompiledOK'
  BY <1>1, <1>2, <1>6, <1>7 DEF CompiledOK, IsPartial
<1>9. IncludesCurrent'
  BY <1>2, <1>7 DEF IncludesCurrent
<1> QED  BY <1>8, <1>9

\* The calls an attempt may be made for, between its rounds.
Begun ==
    [op : {"load", "render"}, tm : Templates, includes : SUBSET Paths, round : 0..MaxRounds,
     began : 0..MaxClears, state : {"begun", "fetching"}, want : {{}}, got : Bodies,
     used : Bodies]

\* The paths a call may reach are paths.
LEMMA ReachPaths ==
    ASSUME NEW c, c.tm \in Templates, c.includes \in SUBSET Paths
    PROVE  /\ Reach(c) \subseteq Paths
           /\ c.op = "load" => {Entry[c.tm]} \cup Imports[Entry[c.tm]] \subseteq Reach(c)
           /\ c.op = "render" => \A p \in c.includes : {p} \cup Imports[p] \subseteq Reach(c)
<1>1. Entry[c.tm] \in Paths /\ \A p \in Paths : Imports[p] \subseteq Paths
  BY LoaderAssumption
<1> QED  BY <1>1 DEF Reach

\* What a render uses of the includes it reaches are sources.
LEMMA UsedType ==
    ASSUME TypeOK, IncludesCurrent, NEW tm \in Templates, NEW S \in SUBSET Paths,
           \A p \in S : Troubles(tm, p) = {}
    PROVE  UsedBy(tm, S) \in Bodies
<1> DEFINE D == S \cup UNION {Imports[p] : p \in S}
<1>1. D \in SUBSET Paths
  BY LoaderAssumption
<1>2. ASSUME NEW q \in D PROVE UsedBy(tm, S)[q] \in Sources
  <2>1. CASE q \in S
    <3>1. Source(q) \in Sources
      BY <2>1, RefreshedType, SourceType
    <3> QED  BY <2>1, <3>1 DEF UsedBy
  <2>2. CASE q \notin S
    <3> DEFINE p == CHOOSE p \in S : q \in Imports[p]
    <3>1. \E r \in S : q \in Imports[r]
      BY <2>2
    <3>2. p \in S /\ q \in Imports[p]
      BY <3>1
    <3>3. UsedBy(tm, S)[q] = Refreshed(tm, p).imports[q]
      BY <2>2 DEF UsedBy
    <3> HIDE DEF p
    <3>4. /\ Refreshed(tm, p).imports \in Bodies
          /\ q \in DOMAIN Refreshed(tm, p).imports
      BY <3>2, RefreshedType
    <3> QED  BY <3>3, <3>4 DEF Bodies
  <2> QED  BY <2>1, <2>2
<1>3. UsedBy(tm, S) = [q \in D |-> UsedBy(tm, S)[q]]
  BY DEF UsedBy
<1>4. UsedBy(tm, S) \in [D -> Sources]
  BY <1>2, <1>3
<1> QED  BY <1>1, <1>4 DEF Bodies

Failed(t) == task' = [task EXCEPT ![t] = Nil]

Waits(t, c) ==
    \E p \in Reach(c) \ DOMAIN files :
        task' = [task EXCEPT ![t] = [c EXCEPT !.state = "fetching", !.want = {p}, !.got = <<>>]]

Succeeds(t, c) ==
    \E used \in Bodies :
        task' = [task EXCEPT ![t] = [c EXCEPT !.state = "done", !.used = used]]

\* An attempt fails, waits for a file that it may reach and that is absent, or
\* succeeds; what it compiles meanwhile is typed and current.
LEMMA AttemptFacts ==
    ASSUME TypeOK, IncludesCurrent, NEW t \in Tasks, NEW c \in Begun, Attempt(t, c)
    PROVE  /\ Failed(t) \/ Waits(t, c) \/ Succeeds(t, c)
           /\ UNCHANGED <<server, files, clock, clears>>
           /\ missing' = {} /\ loaded' \subseteq Templates
           /\ CompiledOK' /\ IncludesCurrent'
<1>1. UNCHANGED <<server, files, clock, clears>>
  BY DEF Attempt
<1>2. c.tm \in Templates /\ c.includes \in SUBSET Paths
  BY DEF Begun
<1>3. ASSUME NEW p \in Reach(c), Throw(t, c, p)
      PROVE  missing' = {} /\ (Failed(t) \/ Waits(t, c))
  BY <1>3 DEF Throw, Fail, Await, Failed, Waits
<1>4. CASE AttemptLoad(t, c)
  <2> DEFINE p == Entry[c.tm]
  <2>1. p \in Paths /\ {p} \cup Imports[p] \subseteq Reach(c) /\ c.op = "load"
    BY <1>2, <1>4, ReachPaths, LoaderAssumption DEF AttemptLoad
  <2>2. CompiledOK' /\ IncludesCurrent'
    BY <1>1, <1>4
    DEF AttemptLoad, TypeOK, CompiledOK, CompiledIncludes, IncludesCurrent, Source, IsPartial
  <2>3. CASE /\ Compiling(p) = {}
             /\ Succeed(t, c, [q \in {p} \cup Imports[p] |-> Source(q)])
             /\ loaded' = loaded \cup {c.tm}
    <3>1. {p} \cup Imports[p] \subseteq DOMAIN files
      BY <2>1, <2>3, CompilingFacts
    <3>2. {p} \cup Imports[p] \in SUBSET Paths
      BY <2>1, LoaderAssumption
    <3> DEFINE D == {p} \cup Imports[p]
    <3>3. [q \in D |-> Source(q)] \in Bodies
      <4>1. D \in SUBSET Paths /\ \A q \in D : Source(q) \in Sources
        BY <3>1, <3>2, SourceType
      <4> HIDE DEF D
      <4>2. [q \in D |-> Source(q)] \in [D -> Sources]
        BY <4>1
      <4> QED  BY <4>1, <4>2 DEF Bodies
    <3>4. loaded' \subseteq Templates
      BY <1>2, <2>3 DEF TypeOK
    <3> QED  BY <1>1, <2>2, <2>3, <3>3, <3>4 DEF Succeed, Succeeds
  <2>4. CASE \E q \in Compiling(p) : Throw(t, c, q) /\ UNCHANGED loaded
    <3>1. Compiling(p) \subseteq Reach(c)
      BY <2>1, CompilingFacts
    <3> QED  BY <1>1, <1>3, <2>2, <2>4, <3>1 DEF TypeOK
  <2> QED  BY <1>4, <2>3, <2>4 DEF AttemptLoad
<1>5. CASE AttemptRender(t, c)
  <2> DEFINE sound == {p \in c.includes : Troubles(c.tm, p) = {}}
  <2>1. c.op = "render" /\ UNCHANGED loaded /\ loaded' \subseteq Templates
    BY <1>5 DEF AttemptRender, TypeOK
  <2>2. CASE /\ sound = c.includes
             /\ Refresh(c.tm, sound)
             /\ Succeed(t, c, UsedBy(c.tm, sound))
    <3>1. UsedBy(c.tm, sound) \in Bodies
      BY <1>2, UsedType
    <3>2. CompiledOK' /\ IncludesCurrent'
      BY <1>1, <1>2, <2>2, RefreshStep
    <3> QED  BY <1>1, <2>1, <2>2, <3>1, <3>2 DEF Succeed, Succeeds
  <2>3. CASE \E p \in c.includes \ sound, before \in SUBSET sound :
                /\ \E q \in Troubles(c.tm, p) : Throw(t, c, q)
                /\ Refresh(c.tm, before)
    <3>1. PICK p \in c.includes \ sound, before \in SUBSET sound :
                /\ \E q \in Troubles(c.tm, p) : Throw(t, c, q)
                /\ Refresh(c.tm, before)
      BY <2>3
    <3>2. CompiledOK' /\ IncludesCurrent'
      BY <1>1, <1>2, <3>1, RefreshStep
    <3>3. Troubles(c.tm, p) \subseteq Reach(c)
      BY <1>2, <2>1, <3>1, TroubleFacts, ReachPaths
    <3> QED  BY <1>1, <1>3, <2>1, <3>1, <3>2, <3>3
  <2> QED  BY <1>5, <2>2, <2>3 DEF AttemptRender
<1> QED  BY <1>4, <1>5 DEF Attempt

----------------------------------------------------------------------------
(* Types, and what has been compiled.                                      *)

\* A call that waits or has succeeded is of the type of calls.
LEMMA CallType ==
    ASSUME NEW c \in Begun
    PROVE  /\ \A p \in Paths :
                 [c EXCEPT !.state = "fetching", !.want = {p}, !.got = <<>>] \in Calls
           /\ \A used \in Bodies : [c EXCEPT !.state = "done", !.used = used] \in Calls
<1>1. <<>> \in Bodies
  BY EmptyType, BodiesType
<1>2. ASSUME NEW p \in Paths
      PROVE  [c EXCEPT !.state = "fetching", !.want = {p}, !.got = <<>>] \in Calls
  <2>1. {p} \in SUBSET Paths
    OBVIOUS
  <2> QED  BY <1>1, <2>1 DEF Begun, Calls
<1>3. ASSUME NEW used \in Bodies
      PROVE  [c EXCEPT !.state = "done", !.used = used] \in Calls
  BY DEF Begun, Calls
<1> QED  BY <1>2, <1>3

\* The calls are typed after an attempt.
LEMMA AttemptTypes ==
    ASSUME TypeOK, IncludesCurrent, NEW t \in Tasks, NEW c \in Begun, Attempt(t, c)
    PROVE  TypeOK' /\ IncludesCurrent'
<1>1. /\ Failed(t) \/ Waits(t, c) \/ Succeeds(t, c)
      /\ UNCHANGED <<server, files, clock, clears>>
      /\ missing' = {} /\ loaded' \subseteq Templates
      /\ CompiledOK' /\ IncludesCurrent'
  BY AttemptFacts
<1>2. Reach(c) \subseteq Paths
  BY ReachPaths DEF Begun
<1>3. \E d \in Calls \cup {Nil} :
        /\ task' = [task EXCEPT ![t] = d]
        /\ d # Nil => /\ d.state = "fetching" => DOMAIN d.got \subseteq d.want
                      /\ d.state = "done" => d.want = {}
  <2>1. CASE Failed(t)
    BY <2>1 DEF Failed
  <2>2. CASE Waits(t, c)
    <3>1. PICK p \in Reach(c) \ DOMAIN files :
             task' = [task EXCEPT ![t] =
                         [c EXCEPT !.state = "fetching", !.want = {p}, !.got = <<>>]]
      BY <2>2 DEF Waits
    <3>2. PICK d : d = [c EXCEPT !.state = "fetching", !.want = {p}, !.got = <<>>]
      OBVIOUS
    <3>3. d \in Calls
      BY <1>2, <3>1, <3>2, CallType
    <3>4. d.state = "fetching" /\ d.got = <<>>
      BY <3>2 DEF Begun
    <3>5. task' = [task EXCEPT ![t] = d]
      BY <3>1, <3>2
    <3>6. d.state # "done" /\ DOMAIN d.got \subseteq d.want
      BY <3>4
    <3> QED  BY <3>3, <3>5, <3>6
  <2>3. CASE Succeeds(t, c)
    <3>1. PICK used \in Bodies :
             task' = [task EXCEPT ![t] = [c EXCEPT !.state = "done", !.used = used]]
      BY <2>3 DEF Succeeds
    <3>2. PICK d : d = [c EXCEPT !.state = "done", !.used = used]
      OBVIOUS
    <3>3. d \in Calls
      BY <3>1, <3>2, CallType
    <3>4. d.state = "done" /\ d.want = {}
      BY <3>2 DEF Begun
    <3> QED  BY <3>1, <3>2, <3>3, <3>4
  <2> QED  BY <1>1, <2>1, <2>2, <2>3
<1>4. /\ task' \in [Tasks -> Calls \cup {Nil}]
      /\ \A u \in Tasks : /\ Fetching(u)' => DOMAIN task'[u].got \subseteq task'[u].want
                          /\ Done(u)' => task'[u].want = {}
  BY <1>3 DEF TypeOK, Fetching, Done
<1>5. IsPartial(files', StoredFiles')
  BY <1>1 DEF TypeOK, StoredFiles
<1> QED  BY <1>1, <1>4, <1>5 DEF TypeOK, CompiledOK

\* A render outside of the rounds keeps the types.
LEMMA SyncTypes ==
    ASSUME TypeOK, IncludesCurrent, NEW tm \in Templates, NEW S \in SUBSET Paths,
           SyncRender(tm, S)
    PROVE  TypeOK' /\ IncludesCurrent'
<1> DEFINE sound == {p \in S : Troubles(tm, p) = {}}
<1>1. UNCHANGED <<server, files, clock, loaded, task, clears>>
  BY DEF SyncRender
<1>2. CompiledOK' /\ IncludesCurrent' /\ missing' \subseteq Paths
  <2>1. CASE sound = S /\ Refresh(tm, S) /\ UNCHANGED missing
    BY <1>1, <2>1, RefreshStep DEF TypeOK
  <2>2. CASE \E p \in S \ sound, before \in SUBSET sound :
               /\ \E q \in Troubles(tm, p) : missing' = missing \cup Absent({q})
               /\ Refresh(tm, before)
    <3>1. PICK p \in S \ sound, before \in SUBSET sound :
               /\ \E q \in Troubles(tm, p) : missing' = missing \cup Absent({q})
               /\ Refresh(tm, before)
      BY <2>2
    <3>2. CompiledOK' /\ IncludesCurrent'
      BY <1>1, <3>1, RefreshStep
    <3>3. Troubles(tm, p) \subseteq Paths
      BY <3>1, TroubleFacts, LoaderAssumption
    <3> QED  BY <3>1, <3>2, <3>3 DEF TypeOK, Absent
  <2> QED  BY <2>1, <2>2 DEF SyncRender
<1>3. IsPartial(files', StoredFiles')
  BY <1>1 DEF TypeOK, StoredFiles
<1>4. /\ task' \in [Tasks -> Calls \cup {Nil}]
      /\ \A u \in Tasks : /\ Fetching(u)' => DOMAIN task'[u].got \subseteq task'[u].want
                          /\ Done(u)' => task'[u].want = {}
  BY <1>1 DEF TypeOK, Fetching, Done
<1> QED  BY <1>1, <1>2, <1>3, <1>4 DEF TypeOK, CompiledOK

\* What keeps the files and the compiled includes keeps their types.
LEMMA SameFiles ==
    ASSUME TypeOK, IncludesCurrent, UNCHANGED <<files, clock, compiled>>
    PROVE  IsPartial(files', StoredFiles') /\ CompiledOK' /\ IncludesCurrent'
<1>1. StoredFiles' = StoredFiles /\ CompiledIncludes' = CompiledIncludes
  BY DEF StoredFiles, CompiledIncludes
<1>2. IsPartial(files', StoredFiles')
  BY <1>1 DEF TypeOK
<1>3. CompiledOK'
  BY <1>1 DEF TypeOK, CompiledOK
<1>4. IncludesCurrent'
  BY DEF IncludesCurrent, Source
<1> QED  BY <1>2, <1>3, <1>4

\* An answer keeps the types: the bodies a call has are of paths it waits for.
LEMMA AnswerTypes ==
    ASSUME TypeOK, IncludesCurrent, NEW t \in Tasks, NEW p \in Paths, Answer(t, p)
    PROVE  TypeOK' /\ IncludesCurrent'
<1>1. UNCHANGED <<server, files, clock, missing, compiled, loaded, clears>> /\ Fetching(t)
  BY DEF Answer, disk
<1>2. CASE Fail(t)
  <2>1. /\ task' \in [Tasks -> Calls \cup {Nil}]
        /\ \A u \in Tasks : /\ Fetching(u)' => DOMAIN task'[u].got \subseteq task'[u].want
                            /\ Done(u)' => task'[u].want = {}
    BY <1>2 DEF Fail, TypeOK, Fetching, Done
  <2> QED  BY <1>1, <2>1, SameFiles DEF TypeOK, CompiledOK
<1>3. CASE Delivered(t, p)
  <2> DEFINE o == OriginOf[task[t].tm]
             body == [origin |-> o, version |-> server[o][p]]
  <2>1. task[t] \in Calls /\ p \in task[t].want \ DOMAIN task[t].got
    BY <1>1 DEF TypeOK, Fetching, Answer
  <2>2. task[t].tm \in Templates /\ task[t].got \in Bodies
    BY <2>1 DEF Calls
  <2>3. o \in Origins
    BY <2>2, LoaderAssumption
  <2>4. server[o][p] \in 1..MaxVersion
    BY <1>3, <2>3, LoaderAssumption DEF Delivered, TypeOK
  <2>5. body \in Sources
    BY <2>3, <2>4 DEF Sources
  <2> HIDE DEF body
  <2>6. PICK got : got = Stored(task[t].got, p, body)
    OBVIOUS
  <2>7. got \in Bodies /\ DOMAIN got = DOMAIN task[t].got \cup {p}
    BY <2>2, <2>5, <2>6, StoredType, BodiesType
  <2>8. task' = [task EXCEPT ![t] = [task[t] EXCEPT !.got = got]]
    BY <1>3, <2>6 DEF Delivered, body
  <2>9. PICK d : d = [task[t] EXCEPT !.got = got]
    OBVIOUS
  <2>10. d \in Calls /\ d.got = got /\ d.want = task[t].want /\ d.state = task[t].state
    BY <2>1, <2>7, <2>9 DEF Calls
  <2>11. task' = [task EXCEPT ![t] = d]
    BY <2>8, <2>9
  <2>12. DOMAIN d.got \subseteq d.want /\ d.state # "done"
    BY <1>1, <2>1, <2>7, <2>10 DEF Fetching, TypeOK
  <2>13. /\ task' \in [Tasks -> Calls \cup {Nil}]
         /\ \A u \in Tasks : /\ Fetching(u)' => DOMAIN task'[u].got \subseteq task'[u].want
                             /\ Done(u)' => task'[u].want = {}
    BY <2>10, <2>11, <2>12 DEF TypeOK, Fetching, Done
  <2> QED  BY <1>1, <2>13, SameFiles DEF TypeOK, CompiledOK
<1> QED  BY <1>2, <1>3 DEF Answer

\* What a write does to its call.
LEMMA WriteTask ==
    ASSUME TypeOK, NEW t \in Tasks, NEW p, Fetching(t), Write(t, p)
    PROVE  task' = [task EXCEPT ![t] = [task[t] EXCEPT !.want = @ \ {p},
                                                       !.got = Without(task[t].got, p)]]
<1>1. task[t] \in Calls /\ task \in [Tasks -> Calls \cup {Nil}]
  BY DEF TypeOK, Fetching
<1>2. PICK between : between = [task EXCEPT ![t].want = @ \ {p}]
  OBVIOUS
<1>3. /\ between = [task EXCEPT ![t] = between[t]]
      /\ between[t] = [task[t] EXCEPT !.want = @ \ {p}]
  BY <1>1, <1>2
<1>4. between[t].got = task[t].got
  BY <1>1, <1>3 DEF Calls
<1>5. task' = [between EXCEPT ![t].got = Without(@, p)]
  BY <1>2 DEF Write
<1>6. task' = [between EXCEPT ![t] = [between[t] EXCEPT !.got = Without(task[t].got, p)]]
  BY <1>4, <1>5
<1> QED  BY <1>3, <1>6

\* A write keeps the types, and no compiled include has the new modification time.
LEMMA WriteTypes ==
    ASSUME TypeOK, IncludesCurrent, NEW t \in Tasks, NEW p \in Paths, Write(t, p)
    PROVE  TypeOK' /\ IncludesCurrent'
<1> DEFINE body == task[t].got[p]
           file == [origin |-> body.origin, version |-> body.version, mtime |-> clock]
<1>1. /\ UNCHANGED <<server, compiled, loaded, clears>> /\ clock' = clock + 1
      /\ Fetching(t) /\ p \in DOMAIN task[t].got /\ files' = Stored(files, p, file)
      /\ missing' = missing \ {p}
  BY DEF Write
<1>2. task[t] \in Calls /\ clock \in Nat \ {0}
  BY <1>1 DEF TypeOK, Fetching
<1>3. task[t].got \in Bodies
  BY <1>2 DEF Calls
<1>4. body \in Sources
  BY <1>1, <1>3 DEF Bodies
<1>5. file \in StoredFiles' /\ file.mtime = clock
  BY <1>1, <1>2, <1>4 DEF StoredFiles, Sources
<1> HIDE DEF body, file
<1>6. StoredFiles \subseteq StoredFiles' /\ CompiledIncludes \subseteq CompiledIncludes'
  <2>1. 1..clock - 1 \subseteq 1..clock' - 1
    BY <1>1, <1>2
  <2> QED  BY <2>1 DEF StoredFiles, CompiledIncludes
<1>7. /\ IsPartial(files', StoredFiles')
      /\ DOMAIN files' = DOMAIN files \cup {p} /\ files'[p].mtime = clock
      /\ \A q \in DOMAIN files \ {p} : files'[q] = files[q]
  <2>1. PICK T : T = StoredFiles'
    OBVIOUS
  <2>2. IsPartial(files, T) /\ file \in T
    BY <1>5, <1>6, <2>1 DEF TypeOK, IsPartial
  <2>3. PICK f : f = Stored(files, p, file)
    OBVIOUS
  <2>4. IsPartial(f, T)
    BY <2>2, <2>3, StoredType
  <2>5. /\ DOMAIN f = DOMAIN files \cup {p} /\ f[p] = file
        /\ \A q \in DOMAIN files \ {p} : f[q] = files[q]
    BY <2>2, <2>3 DEF Stored
  <2> QED  BY <1>1, <1>5, <2>1, <2>3, <2>4, <2>5
<1>8. CompiledOK'
  <2>1. \A tm \in Templates : IsPartial(compiled[tm], CompiledIncludes')
    BY <1>6 DEF TypeOK, IsPartial
  <2> QED  BY <1>1, <2>1 DEF TypeOK, CompiledOK
<1>9. IncludesCurrent'
  <2> SUFFICES ASSUME NEW tm \in Templates, NEW q \in DOMAIN compiled[tm] \cap DOMAIN files',
                      compiled[tm][q].mtime = files'[q].mtime
               PROVE  compiled[tm][q].source = Source(q)'
    BY <1>1 DEF IncludesCurrent
  <2>1. compiled[tm][q].mtime \in 1..clock - 1
    BY CompiledType
  <2>2. q # p
    BY <1>2, <1>7, <2>1
  <2>3. q \in DOMAIN files /\ files'[q] = files[q]
    BY <1>7, <2>2
  <2> QED  BY <2>3 DEF IncludesCurrent, Source
<1>10. /\ task' \in [Tasks -> Calls \cup {Nil}]
       /\ \A u \in Tasks : /\ Fetching(u)' => DOMAIN task'[u].got \subseteq task'[u].want
                           /\ Done(u)' => task'[u].want = {}
  <2>1. PICK got : got = Without(task[t].got, p)
    OBVIOUS
  <2>2. got \in Bodies /\ DOMAIN got = DOMAIN task[t].got \ {p}
    BY <1>3, <2>1, WithoutType, BodiesType
  <2>3. PICK d : d = [task[t] EXCEPT !.want = @ \ {p}, !.got = got]
    OBVIOUS
  <2>4. d \in Calls /\ d.got = got /\ d.want = task[t].want \ {p} /\ d.state = "fetching"
    BY <1>1, <1>2, <2>2, <2>3 DEF Calls, Fetching
  <2>5. task' = [task EXCEPT ![t] = d]
    BY <1>1, <2>1, <2>3, WriteTask
  <2>6. DOMAIN d.got \subseteq d.want /\ d.state # "done"
    BY <1>1, <2>2, <2>4 DEF TypeOK
  <2> QED  BY <2>4, <2>5, <2>6 DEF TypeOK, Fetching, Done
<1>11. clock' \in Nat \ {0} /\ missing' \subseteq Paths
  BY <1>1, <1>2 DEF TypeOK
<1> QED  BY <1>1, <1>7, <1>8, <1>9, <1>10, <1>11 DEF TypeOK, CompiledOK

\* A call between its rounds may be tried again.
LEMMA AgainCalls ==
    ASSUME TypeOK, NEW t \in Tasks, Fetching(t), task[t].want = {}, task[t].round < MaxRounds
    PROVE  /\ [task[t] EXCEPT !.round = @ + 1] \in Begun
           /\ [task[t] EXCEPT !.round = @ + 1].round = task[t].round + 1
           /\ [task[t] EXCEPT !.round = @ + 1].began = task[t].began
           /\ Reach([task[t] EXCEPT !.round = @ + 1]) = Reach(task[t])
<1>1. task[t] \in Calls /\ task[t].state = "fetching"
  BY DEF TypeOK, Fetching
<1>2. PICK c : c = [task[t] EXCEPT !.round = @ + 1]
  OBVIOUS
<1>3. task[t].round + 1 \in 0..MaxRounds
  BY <1>1, LoaderAssumption DEF Calls
<1>4. /\ c \in Begun /\ c.round = task[t].round + 1 /\ c.began = task[t].began
      /\ c.op = task[t].op /\ c.tm = task[t].tm /\ c.includes = task[t].includes
  BY <1>1, <1>2, <1>3 DEF Calls, Begun
<1>5. Reach(c) = Reach(task[t])
  BY <1>4 DEF Reach
<1> QED  BY <1>2, <1>4, <1>5

\* A new call is one between rounds.
BegunCall(op, tm, includes) ==
    [op |-> op, tm |-> tm, includes |-> includes, round |-> 0, began |-> clears,
     state |-> "begun", want |-> {}, got |-> <<>>, used |-> <<>>]

LEMMA BeginCalls ==
    ASSUME TypeOK, NEW op \in {"load", "render"}, NEW tm \in Templates,
           NEW includes \in SUBSET Paths
    PROVE  BegunCall(op, tm, includes) \in Begun
<1>1. <<>> \in Bodies
  BY EmptyType, BodiesType
<1>2. clears \in 0..MaxClears /\ 0 \in 0..MaxRounds
  BY LoaderAssumption DEF TypeOK
<1> QED  BY <1>1, <1>2 DEF BegunCall, Begun

\* Each step of a call keeps the types, and is one of these.
LEMMA TaskSteps ==
    ASSUME TypeOK, NEW t \in Tasks, Task(t)
    PROVE  \/ \E op \in {"load", "render"}, tm \in Templates, includes \in SUBSET Paths :
                 Attempt(t, BegunCall(op, tm, includes))
           \/ \E p \in Paths : Answer(t, p)
           \/ \E p \in Paths : Write(t, p)
           \/ /\ Fetching(t) /\ task[t].want = {} /\ task[t].round < MaxRounds
              /\ Attempt(t, [task[t] EXCEPT !.round = @ + 1])
           \/ Fail(t) /\ UNCHANGED <<server, disk, compiled, loaded, clears>>
<1>1. ASSUME NEW tm \in Templates, BeginLoad(t, tm)
      PROVE  Attempt(t, BegunCall("load", tm, {}))
  BY <1>1 DEF BeginLoad, Begin, BegunCall
<1>2. ASSUME NEW tm \in Templates, NEW S \in Renders[tm], BeginRender(t, tm, S)
      PROVE  S \in SUBSET Paths /\ Attempt(t, BegunCall("render", tm, S))
  BY <1>2, LoaderAssumption DEF BeginRender, Begin, BegunCall
<1>3. CASE NextRound(t)
  BY <1>3 DEF NextRound, Again
<1> HIDE DEF BegunCall
<1> QED  BY <1>1, <1>2, <1>3 DEF Task

\* TypeOK and IncludesCurrent are an inductive invariant.
LEMMA TypesStep ==
    ASSUME TypeOK, IncludesCurrent, [Next]_vars
    PROVE  TypeOK' /\ IncludesCurrent'
<1>1. ASSUME NEW t \in Tasks, Task(t)
      PROVE  TypeOK' /\ IncludesCurrent'
  <2>1. CASE \E op \in {"load", "render"}, tm \in Templates, includes \in SUBSET Paths :
               Attempt(t, BegunCall(op, tm, includes))
    BY <2>1, BeginCalls, AttemptTypes
  <2>2. CASE \E p \in Paths : Answer(t, p)
    BY <2>2, AnswerTypes
  <2>3. CASE \E p \in Paths : Write(t, p)
    BY <2>3, WriteTypes
  <2>4. CASE /\ Fetching(t) /\ task[t].want = {} /\ task[t].round < MaxRounds
             /\ Attempt(t, [task[t] EXCEPT !.round = @ + 1])
    BY <2>4, AgainCalls, AttemptTypes
  <2>5. CASE Fail(t) /\ UNCHANGED <<server, disk, compiled, loaded, clears>>
    <3>1. /\ task' \in [Tasks -> Calls \cup {Nil}]
          /\ \A u \in Tasks :
                /\ Fetching(u)' => DOMAIN task'[u].got \subseteq task'[u].want
                /\ Done(u)' => task'[u].want = {}
      BY <2>5 DEF Fail, TypeOK, Fetching, Done
    <3>2. UNCHANGED <<server, files, clock, missing, compiled, loaded, clears>>
      BY <2>5 DEF disk
    <3> QED  BY <3>1, <3>2, SameFiles DEF TypeOK, CompiledOK
  <2> QED  BY <1>1, <2>1, <2>2, <2>3, <2>4, <2>5, TaskSteps
<1>2. ASSUME NEW tm \in Templates, NEW S \in Renders[tm], SyncRender(tm, S)
      PROVE  TypeOK' /\ IncludesCurrent'
  <2>1. S \in SUBSET Paths
    BY LoaderAssumption
  <2> QED  BY <1>2, <2>1, SyncTypes
<1>3. ASSUME UNCHANGED task
      PROVE  /\ task' \in [Tasks -> Calls \cup {Nil}]
             /\ \A u \in Tasks :
                   /\ Fetching(u)' => DOMAIN task'[u].got \subseteq task'[u].want
                   /\ Done(u)' => task'[u].want = {}
  BY <1>3 DEF TypeOK, Fetching, Done
<1>4. CASE ClearCache
  <2>1. /\ UNCHANGED <<server, clock, compiled, loaded, task>>
        /\ files' = <<>> /\ missing' = {} /\ clears' = clears + 1 /\ clears < MaxClears
    BY <1>4 DEF ClearCache
  <2>2. IsPartial(files', StoredFiles')
    <3>1. PICK T : T = StoredFiles'
      OBVIOUS
    <3>2. IsPartial(<<>>, T)
      BY EmptyType
    <3> QED  BY <2>1, <3>1, <3>2
  <2>3. clears' \in 0..MaxClears
    BY <2>1, LoaderAssumption DEF TypeOK
  <2>4. IncludesCurrent'
    BY <2>1 DEF IncludesCurrent
  <2>5. CompiledIncludes' = CompiledIncludes
    BY <2>1 DEF CompiledIncludes
  <2> QED  BY <1>3, <2>1, <2>2, <2>3, <2>4, <2>5 DEF TypeOK
<1>5. ASSUME NEW o \in Origins, NEW p \in Paths, Publish(o, p)
      PROVE  TypeOK' /\ IncludesCurrent'
  <2>1. UNCHANGED <<files, clock, missing, compiled, loaded, task, clears>>
    BY <1>5 DEF Publish, disk
  <2>2. server[o][p] + 1 \in 0..MaxVersion
    BY <1>5, LoaderAssumption DEF Publish
  <2>3. server' \in [Origins -> [Paths -> 0..MaxVersion]]
    BY <1>5, <2>2 DEF Publish, TypeOK
  <2> QED  BY <1>3, <2>1, <2>3, SameFiles DEF TypeOK, CompiledOK
<1>6. CASE UNCHANGED vars
  <2>1. UNCHANGED <<server, files, clock, missing, compiled, loaded, task, clears>>
    BY <1>6 DEF vars, disk
  <2> QED  BY <1>3, <2>1, SameFiles DEF TypeOK, CompiledOK
<1> QED  BY <1>1, <1>2, <1>4, <1>5, <1>6 DEF Next

LEMMA TypesInit == ASSUME Init PROVE TypeOK /\ IncludesCurrent
<1>1. IsPartial(<<>>, StoredFiles) /\ IsPartial(<<>>, CompiledIncludes)
  <2>1. PICK T, U : T = StoredFiles /\ U = CompiledIncludes
    OBVIOUS
  <2> QED  BY <2>1, EmptyType
<1>2. server \in [Origins -> [Paths -> 0..MaxVersion]]
  BY LoaderAssumption DEF Init
<1>3. /\ DOMAIN compiled = Templates
      /\ \A tm \in Templates : compiled[tm] = <<>> /\ DOMAIN compiled[tm] = {}
  BY DEF Init
<1>4. 0 \in 0..MaxClears
  BY LoaderAssumption
<1>5. \A t \in Tasks : ~Fetching(t) /\ ~Done(t)
  BY DEF Init, Fetching, Done
<1> QED  BY <1>1, <1>2, <1>3, <1>4, <1>5 DEF Init, TypeOK, IncludesCurrent

\* "Overwriting a path correctly invalidates the engine's include cache"
\* (memory_fs.ts:29-30), however often the file was evicted and fetched again: no
\* compiled include is taken for current that was compiled from another file.
THEOREM CompiledIncludesAreCurrent == Spec => []IncludesCurrent
<1>1. Init => TypeOK /\ IncludesCurrent
  BY TypesInit
<1>2. TypeOK /\ IncludesCurrent /\ [Next]_vars => (TypeOK /\ IncludesCurrent)'
  BY TypesStep
<1> QED  BY <1>1, <1>2, PTL DEF Spec

----------------------------------------------------------------------------
(* Rounds.  A call that waits has thrown in each of its rounds at a file   *)
(* it may reach and that was absent, and fetches it now or has written it, *)
(* unless clearCache() has evicted it since: the files it may reach and    *)
(* that are stored or wanted count its rounds.                             *)

\* The files that c may reach and that are in F, or that it fetches.
Found(c, F) == (Reach(c) \cap F) \cup c.want

\* The rounds a call may need for k clearCache() calls.
Quota(c, k) == Cardinality(Reach(c)) * k

\* The rounds within bounds when the files F are stored and k clearCache() were called.
Within(c, F, k) ==
    /\ c.began <= k
    /\ c.state = "fetching" =>
          /\ c.want \subseteq Reach(c)
          /\ c.round + 1 <= Quota(c, k - c.began) + Cardinality(Found(c, F))
    /\ c.state = "done" => c.round <= Quota(c, 1 + k - c.began)

RoundsInv == \A t \in Tasks : task[t] # Nil => Within(task[t], DOMAIN files, clears)

\* The files a call may reach, and those of them it has found, are finitely many.
LEMMA FoundFinite ==
    ASSUME NEW c, c.tm \in Templates, c.includes \in SUBSET Paths, NEW F
    PROVE  /\ IsFiniteSet(Reach(c)) /\ Cardinality(Reach(c)) \in Nat
           /\ c.want \subseteq Reach(c) =>
                 /\ IsFiniteSet(Found(c, F)) /\ Cardinality(Found(c, F)) \in Nat
                 /\ Cardinality(Found(c, F)) <= Cardinality(Reach(c))
<1>1. IsFiniteSet(Reach(c))
  BY ReachPaths, FS_Subset, LoaderAssumption
<1>2. c.want \subseteq Reach(c) => Found(c, F) \subseteq Reach(c)
  BY DEF Found
<1> QED  BY <1>1, <1>2, FS_Subset, FS_CardinalityType

LEMMA CallFields ==
    ASSUME NEW c \in Calls \cup Begun
    PROVE  /\ c.tm \in Templates /\ c.includes \in SUBSET Paths
           /\ c.round \in Nat /\ c.began \in Nat
  BY LoaderAssumption DEF Calls, Begun

\* What one more clearCache() adds.
LEMMA QuotaGrows ==
    ASSUME NEW c, c.tm \in Templates, c.includes \in SUBSET Paths, NEW k \in Nat
    PROVE  /\ Quota(c, k) \in Nat /\ Quota(c, k + 1) \in Nat
           /\ Quota(c, k + 1) = Quota(c, k) + Cardinality(Reach(c))
<1>1. PICK n : n = Cardinality(Reach(c))
  OBVIOUS
<1>2. n \in Nat
  BY <1>1, FoundFinite
<1>3. n * k \in Nat /\ n * (k + 1) = n * k + n
  BY <1>2
<1> QED  BY <1>1, <1>2, <1>3 DEF Quota

\* Files that others write, or that c itself wanted and writes, keep it within bounds.
LEMMA WithinGrows ==
    ASSUME NEW c \in Calls, NEW d, NEW F, NEW G, F \subseteq G, NEW k \in Nat,
           Within(c, F, k), d.op = c.op, d.tm = c.tm, d.includes = c.includes,
           d.round = c.round, d.began = c.began, d.state = c.state,
           d.want \subseteq c.want, c.want \ d.want \subseteq G
    PROVE  Within(d, G, k)
<1>1. Reach(d) = Reach(c)
  BY DEF Reach
<1>2. CASE c.state = "fetching"
  <2>1. c.want \subseteq Reach(c) /\ d.want \subseteq Reach(d)
    BY <1>1, <1>2 DEF Within
  <2>2. Found(c, F) \subseteq Found(d, G)
    BY <1>1, <2>1 DEF Found
  <2>3. Cardinality(Found(c, F)) <= Cardinality(Found(d, G))
    BY <2>1, <2>2, FoundFinite, CallFields, FS_Subset
  <2>4. /\ Cardinality(Found(c, F)) \in Nat /\ Cardinality(Found(d, G)) \in Nat
        /\ Cardinality(Reach(c)) \in Nat /\ c.round \in Nat /\ c.began \in Nat
    BY <2>1, FoundFinite, CallFields
  <2>5. c.began <= k /\ c.round + 1 <= Quota(c, k - c.began) + Cardinality(Found(c, F))
    BY <1>2 DEF Within
  <2>6. Quota(c, k - c.began) \in Nat /\ Quota(d, k - c.began) = Quota(c, k - c.began)
    BY <1>1, <2>4, <2>5, QuotaGrows, CallFields DEF Quota
  <2>7. d.round + 1 <= Quota(d, k - d.began) + Cardinality(Found(d, G))
    BY <2>3, <2>4, <2>5, <2>6
  <2> QED  BY <1>2, <2>1, <2>5, <2>7 DEF Within
<1>3. CASE c.state = "done"
  BY <1>1, <1>3 DEF Within, Quota
<1> QED  BY <1>2, <1>3 DEF Calls

\* clearCache() evicts no more than a call may reach.
LEMMA WithinCleared ==
    ASSUME NEW c \in Calls, NEW F, NEW k \in Nat, Within(c, F, k)
    PROVE  Within(c, {}, k + 1)
<1>1. /\ Cardinality(Reach(c)) \in Nat /\ c.round \in Nat /\ c.began \in Nat
      /\ c.tm \in Templates /\ c.includes \in SUBSET Paths
  BY FoundFinite, CallFields
<1>2. PICK j \in Nat : j = k - c.began
  BY <1>1 DEF Within
<1>3. /\ k - c.began = j /\ (k + 1) - c.began = j + 1 /\ 1 + k - c.began = j + 1
      /\ 1 + (k + 1) - c.began = (j + 1) + 1 /\ c.began <= k + 1
  BY <1>1, <1>2 DEF Within
<1>4. /\ Quota(c, j) \in Nat /\ Quota(c, j + 1) \in Nat
      /\ Quota(c, j + 1) = Quota(c, j) + Cardinality(Reach(c))
      /\ Quota(c, (j + 1) + 1) = Quota(c, j + 1) + Cardinality(Reach(c))
  <2>1. j + 1 \in Nat
    OBVIOUS
  <2> QED  BY <1>1, <2>1, QuotaGrows
<1>5. CASE c.state = "fetching"
  <2>1. c.want \subseteq Reach(c) /\ c.round + 1 <= Quota(c, j) + Cardinality(Found(c, F))
    BY <1>3, <1>5 DEF Within
  <2>2. /\ Cardinality(Found(c, F)) \in Nat /\ Cardinality(Found(c, {})) \in Nat
        /\ Cardinality(Found(c, F)) <= Cardinality(Reach(c))
    BY <1>1, <2>1, FoundFinite
  <2>3. c.round + 1 <= Quota(c, j + 1) + Cardinality(Found(c, {}))
    BY <1>1, <1>4, <2>1, <2>2
  <2> QED  BY <1>3, <1>5, <2>1, <2>3 DEF Within
<1>6. CASE c.state = "done"
  <2>1. c.round <= Quota(c, j + 1)
    BY <1>3, <1>6 DEF Within
  <2>2. c.round <= Quota(c, (j + 1) + 1)
    BY <1>1, <1>4, <2>1
  <2> QED  BY <1>3, <1>6, <2>2 DEF Within
<1> QED  BY <1>5, <1>6 DEF Calls

\* A call throws at an absent file that it may reach, and waits for it.
LEMMA WithinWaits ==
    ASSUME NEW c \in Begun, NEW d, NEW F, NEW k \in Nat, NEW p \in Reach(c) \ F,
           c.began <= k,
           c.round <= Quota(c, k - c.began) + Cardinality(Reach(c) \cap F),
           d = [c EXCEPT !.state = "fetching", !.want = {p}, !.got = <<>>]
    PROVE  Within(d, F, k)
<1>1. /\ d.op = c.op /\ d.tm = c.tm /\ d.includes = c.includes /\ d.round = c.round
      /\ d.began = c.began /\ d.state = "fetching" /\ d.want = {p}
  BY DEF Begun
<1>2. Reach(d) = Reach(c) /\ Quota(d, k - d.began) = Quota(c, k - c.began)
  BY <1>1 DEF Reach, Quota
<1>3. /\ IsFiniteSet(Reach(c)) /\ c.round \in Nat /\ c.began \in Nat
      /\ c.tm \in Templates /\ c.includes \in SUBSET Paths
  BY FoundFinite, CallFields
<1>4. k - c.began \in Nat
  BY <1>3
<1>5. Quota(c, k - c.began) \in Nat
  BY <1>3, <1>4, QuotaGrows
<1>6. IsFiniteSet(Reach(c) \cap F) /\ Cardinality(Reach(c) \cap F) \in Nat
  BY <1>3, FS_Subset, FS_CardinalityType
<1>7. Found(d, F) = (Reach(c) \cap F) \cup {p}
  BY <1>1, <1>2 DEF Found
<1>8. Cardinality(Found(d, F)) = Cardinality(Reach(c) \cap F) + 1
  BY <1>6, <1>7, FS_AddElement
<1>9. d.round + 1 <= Quota(d, k - d.began) + Cardinality(Found(d, F))
  BY <1>1, <1>2, <1>3, <1>5, <1>6, <1>8
<1> QED  BY <1>1, <1>2, <1>9 DEF Within

\* A call succeeds after no more rounds than it had found files to reach.
LEMMA WithinSucceeds ==
    ASSUME NEW c \in Begun, NEW d, NEW F, NEW k \in Nat, NEW used, c.began <= k,
           c.round <= Quota(c, k - c.began) + Cardinality(Reach(c) \cap F),
           d = [c EXCEPT !.state = "done", !.used = used]
    PROVE  Within(d, F, k)
<1>1. /\ d.op = c.op /\ d.tm = c.tm /\ d.includes = c.includes /\ d.round = c.round
      /\ d.began = c.began /\ d.state = "done"
  BY DEF Begun
<1>2. /\ IsFiniteSet(Reach(c)) /\ c.round \in Nat /\ c.began \in Nat
      /\ c.tm \in Templates /\ c.includes \in SUBSET Paths
  BY FoundFinite, CallFields
<1>3. PICK j \in Nat : j = k - c.began
  BY <1>2
<1>4. k - c.began = j /\ 1 + k - c.began = j + 1
  BY <1>2, <1>3
<1>5. Quota(c, j) \in Nat /\ Quota(c, j + 1) = Quota(c, j) + Cardinality(Reach(c))
  BY <1>2, QuotaGrows
<1>6. /\ Cardinality(Reach(c) \cap F) \in Nat /\ Cardinality(Reach(c)) \in Nat
      /\ Cardinality(Reach(c) \cap F) <= Cardinality(Reach(c))
  BY <1>2, FS_Subset, FS_CardinalityType
<1>7. c.round <= Quota(c, 1 + k - c.began)
  BY <1>2, <1>4, <1>5, <1>6
<1>8. Reach(d) = Reach(c) /\ Quota(d, 1 + k - d.began) = Quota(c, 1 + k - c.began)
  BY <1>1 DEF Reach, Quota
<1> QED  BY <1>1, <1>7, <1>8 DEF Within

\* An attempt keeps the calls within bounds.
LEMMA AttemptRounds ==
    ASSUME TypeOK, IncludesCurrent, RoundsInv, NEW t \in Tasks, NEW c \in Begun,
           Attempt(t, c), c.began <= clears,
           c.round <= Quota(c, clears - c.began) + Cardinality(Reach(c) \cap DOMAIN files)
    PROVE  RoundsInv'
<1>1. /\ Failed(t) \/ Waits(t, c) \/ Succeeds(t, c)
      /\ UNCHANGED <<files, clears>>
  BY AttemptFacts
<1>2. clears \in Nat /\ task \in [Tasks -> Calls \cup {Nil}]
  BY LoaderAssumption DEF TypeOK
<1>3. \E d : /\ task' = [task EXCEPT ![t] = d]
             /\ d # Nil => Within(d, DOMAIN files, clears)
  <2>1. CASE Failed(t)
    BY <2>1 DEF Failed
  <2>2. CASE Waits(t, c)
    <3>1. PICK p \in Reach(c) \ DOMAIN files :
             task' = [task EXCEPT ![t] =
                         [c EXCEPT !.state = "fetching", !.want = {p}, !.got = <<>>]]
      BY <2>2 DEF Waits
    <3>2. PICK d : d = [c EXCEPT !.state = "fetching", !.want = {p}, !.got = <<>>]
      OBVIOUS
    <3>3. task' = [task EXCEPT ![t] = d]
      BY <3>1, <3>2
    <3>4. Within(d, DOMAIN files, clears)
      BY <1>2, <3>1, <3>2, WithinWaits
    <3> QED  BY <3>3, <3>4
  <2>3. CASE Succeeds(t, c)
    <3>1. PICK used \in Bodies :
             task' = [task EXCEPT ![t] = [c EXCEPT !.state = "done", !.used = used]]
      BY <2>3 DEF Succeeds
    <3>2. PICK d : d = [c EXCEPT !.state = "done", !.used = used]
      OBVIOUS
    <3>3. task' = [task EXCEPT ![t] = d]
      BY <3>1, <3>2
    <3>4. Within(d, DOMAIN files, clears)
      BY <1>2, <3>1, <3>2, WithinSucceeds
    <3> QED  BY <3>3, <3>4
  <2> QED  BY <1>1, <2>1, <2>2, <2>3
<1>4. PICK d : /\ task' = [task EXCEPT ![t] = d]
               /\ d # Nil => Within(d, DOMAIN files, clears)
  BY <1>3
<1>5. \A u \in Tasks : task'[u] = IF u = t THEN d ELSE task[u]
  BY <1>2, <1>4
<1>6. \A u \in Tasks : task'[u] # Nil => Within(task'[u], DOMAIN files, clears)
  BY <1>4, <1>5 DEF RoundsInv
<1> QED  BY <1>1, <1>6 DEF RoundsInv

\* Answers and writes keep the calls within bounds: one call's write is a file more
\* for the others, and for it a file found that it wanted.
LEMMA FetchRounds ==
    ASSUME TypeOK, RoundsInv, NEW t \in Tasks, NEW p \in Paths,
           Answer(t, p) \/ Write(t, p)
    PROVE  RoundsInv'
<1>1. /\ clears \in Nat /\ UNCHANGED clears /\ task \in [Tasks -> Calls \cup {Nil}]
      /\ Fetching(t) /\ task[t] # Nil /\ task[t] \in Calls
  BY LoaderAssumption DEF TypeOK, Answer, Write, Fetching
<1>2. CASE Answer(t, p) /\ Fail(t)
  <2>1. UNCHANGED files /\ \A u \in Tasks : task'[u] = IF u = t THEN Nil ELSE task[u]
    BY <1>1, <1>2 DEF Answer, Fail, disk
  <2> QED  BY <1>1, <2>1 DEF RoundsInv
<1>3. ASSUME NEW d, task' = [task EXCEPT ![t] = d],
             DOMAIN files \subseteq DOMAIN files',
             d.op = task[t].op, d.tm = task[t].tm, d.includes = task[t].includes,
             d.round = task[t].round, d.began = task[t].began, d.state = task[t].state,
             d.want \subseteq task[t].want, task[t].want \ d.want \subseteq DOMAIN files'
      PROVE  RoundsInv'
  <2>1. \A u \in Tasks : task'[u] = IF u = t THEN d ELSE task[u]
    BY <1>1, <1>3
  <2>2. Within(d, DOMAIN files', clears)
    <3>1. Within(task[t], DOMAIN files, clears)
      BY <1>1 DEF RoundsInv
    <3>2. PICK F, G : F = DOMAIN files /\ G = DOMAIN files'
      OBVIOUS
    <3> QED  BY <1>1, <1>3, <3>1, <3>2, WithinGrows
  <2>3. ASSUME NEW u \in Tasks, u # t, task[u] # Nil
        PROVE  Within(task[u], DOMAIN files', clears)
    <3>1. task[u] \in Calls /\ Within(task[u], DOMAIN files, clears)
      BY <1>1, <2>3 DEF RoundsInv
    <3>2. PICK F, G : F = DOMAIN files /\ G = DOMAIN files'
      OBVIOUS
    <3>3. task[u].want \ task[u].want \subseteq G
      OBVIOUS
    <3> QED  BY <1>1, <1>3, <3>1, <3>2, <3>3, WithinGrows
  <2> QED  BY <1>1, <2>1, <2>2, <2>3 DEF RoundsInv
<1>4. CASE Answer(t, p) /\ Delivered(t, p)
  <2>1. UNCHANGED files
    BY <1>4 DEF Answer, disk
  <2>2. PICK got : task' = [task EXCEPT ![t].got = got]
    BY <1>4 DEF Delivered
  <2>3. PICK d : d = [task[t] EXCEPT !.got = got]
    OBVIOUS
  <2>4. task' = [task EXCEPT ![t] = d]
    BY <2>2, <2>3
  <2>5. /\ d.op = task[t].op /\ d.tm = task[t].tm /\ d.includes = task[t].includes
        /\ d.round = task[t].round /\ d.began = task[t].began /\ d.state = task[t].state
        /\ d.want = task[t].want
    BY <1>1, <2>3 DEF Calls
  <2>6. d.want \subseteq task[t].want /\ task[t].want \ d.want \subseteq DOMAIN files'
    BY <2>5
  <2> QED  BY <1>3, <2>1, <2>4, <2>5, <2>6
<1>5. CASE Write(t, p)
  <2>1. PICK d : d = [task[t] EXCEPT !.want = @ \ {p}, !.got = Without(task[t].got, p)]
    OBVIOUS
  <2>2. task' = [task EXCEPT ![t] = d]
    BY <1>1, <1>5, <2>1, WriteTask
  <2>3. /\ d.op = task[t].op /\ d.tm = task[t].tm /\ d.includes = task[t].includes
        /\ d.round = task[t].round /\ d.began = task[t].began /\ d.state = task[t].state
        /\ d.want = task[t].want \ {p}
    BY <1>1, <2>1 DEF Calls
  <2>4. DOMAIN files' = DOMAIN files \cup {p}
    BY <1>5 DEF Write, Stored
  <2>5. d.want \subseteq task[t].want /\ task[t].want \ d.want \subseteq DOMAIN files'
    BY <2>3, <2>4
  <2> QED  BY <1>3, <2>2, <2>3, <2>4, <2>5
<1> QED  BY <1>2, <1>4, <1>5 DEF Answer

\* A round ends with all its files found, and the next one is within bounds.
LEMMA RoundEnds ==
    ASSUME TypeOK, RoundsInv, NEW t \in Tasks, Fetching(t), task[t].want = {}
    PROVE  /\ task[t].began <= clears
           /\ task[t].round + 1 <= Quota(task[t], clears - task[t].began)
                                    + Cardinality(Reach(task[t]) \cap DOMAIN files)
<1>1. Within(task[t], DOMAIN files, clears) /\ task[t].state = "fetching"
  BY DEF RoundsInv, Fetching
<1>2. Found(task[t], DOMAIN files) = Reach(task[t]) \cap DOMAIN files
  BY DEF Found
<1> QED  BY <1>1, <1>2 DEF Within

\* The calls stay within bounds in every step.
LEMMA RoundsStep ==
    ASSUME TypeOK, IncludesCurrent, RoundsInv, [Next]_vars
    PROVE  RoundsInv'
<1>1. clears \in Nat /\ task \in [Tasks -> Calls \cup {Nil}]
  BY LoaderAssumption DEF TypeOK
<1>2. ASSUME NEW t \in Tasks, Task(t)
      PROVE  RoundsInv'
  <2>1. ASSUME NEW op \in {"load", "render"}, NEW tm \in Templates,
               NEW includes \in SUBSET Paths, Attempt(t, BegunCall(op, tm, includes))
        PROVE  RoundsInv'
    <3>1. PICK c : c = BegunCall(op, tm, includes)
      OBVIOUS
    <3>2. c \in Begun /\ c.began = clears /\ c.round = 0
      BY <3>1, BeginCalls DEF BegunCall
    <3>3. /\ Quota(c, clears - c.began) \in Nat
          /\ Cardinality(Reach(c) \cap DOMAIN files) \in Nat
      <4>1. clears - c.began \in Nat
        BY <1>1, <3>2
      <4>2. Quota(c, clears - c.began) \in Nat
        BY <3>2, <4>1, CallFields, QuotaGrows
      <4>3. IsFiniteSet(Reach(c))
        BY <3>2, CallFields, FoundFinite
      <4> QED  BY <4>2, <4>3, FS_Subset, FS_CardinalityType
    <3>4. /\ c.began <= clears
          /\ c.round <= Quota(c, clears - c.began) + Cardinality(Reach(c) \cap DOMAIN files)
      BY <1>1, <3>2, <3>3
    <3> QED  BY <2>1, <3>1, <3>2, <3>4, AttemptRounds
  <2>2. CASE \E p \in Paths : Answer(t, p) \/ Write(t, p)
    BY <2>2, FetchRounds
  <2>3. CASE /\ Fetching(t) /\ task[t].want = {} /\ task[t].round < MaxRounds
             /\ Attempt(t, [task[t] EXCEPT !.round = @ + 1])
    <3>1. PICK c : c = [task[t] EXCEPT !.round = @ + 1]
      OBVIOUS
    <3>2. /\ c \in Begun /\ c.round = task[t].round + 1 /\ c.began = task[t].began
          /\ Reach(c) = Reach(task[t])
      BY <2>3, <3>1, AgainCalls
    <3>3. /\ c.began <= clears
          /\ c.round <= Quota(c, clears - c.began) + Cardinality(Reach(c) \cap DOMAIN files)
      BY <2>3, <3>2, RoundEnds DEF Quota
    <3> QED  BY <2>3, <3>1, <3>2, <3>3, AttemptRounds
  <2>4. CASE Fail(t) /\ UNCHANGED <<server, disk, compiled, loaded, clears>>
    <3>1. UNCHANGED <<files, clears>> /\ \A u \in Tasks : task'[u] = IF u = t THEN Nil ELSE task[u]
      BY <1>1, <2>4 DEF Fail, disk
    <3> QED  BY <3>1 DEF RoundsInv
  <2> QED  BY <1>2, <2>1, <2>2, <2>3, <2>4, TaskSteps
<1>3. CASE UNCHANGED <<files, task, clears>>
  BY <1>3 DEF RoundsInv
<1>4. CASE ClearCache
  <2>1. UNCHANGED task /\ files' = <<>> /\ clears' = clears + 1
    BY <1>4 DEF ClearCache
  <2>2. DOMAIN files' = {}
    BY <2>1
  <2>3. ASSUME NEW t \in Tasks, task[t] # Nil
        PROVE  Within(task[t], {}, clears + 1)
    <3>1. PICK F : F = DOMAIN files
      OBVIOUS
    <3>2. task[t] \in Calls /\ Within(task[t], F, clears)
      BY <1>1, <2>3, <3>1 DEF RoundsInv
    <3> QED  BY <1>1, <3>2, WithinCleared
  <2> QED  BY <2>1, <2>2, <2>3 DEF RoundsInv
<1>5. ASSUME NEW tm \in Templates, NEW S \in Renders[tm], SyncRender(tm, S)
      PROVE  UNCHANGED <<files, task, clears>>
  BY <1>5 DEF SyncRender
<1>6. ASSUME NEW o \in Origins, NEW p \in Paths, Publish(o, p)
      PROVE  UNCHANGED <<files, task, clears>>
  BY <1>6 DEF Publish, disk
<1>7. UNCHANGED vars => UNCHANGED <<files, task, clears>>
  BY DEF vars, disk
<1> QED  BY <1>2, <1>3, <1>4, <1>5, <1>6, <1>7 DEF Next

LEMMA RoundsHold == Spec => [](TypeOK /\ IncludesCurrent /\ RoundsInv)
<1>1. Init => TypeOK /\ IncludesCurrent /\ RoundsInv
  BY TypesInit DEF Init, RoundsInv
<1>2. TypeOK /\ IncludesCurrent /\ RoundsInv /\ [Next]_vars
        => (TypeOK /\ IncludesCurrent /\ RoundsInv)'
  BY TypesStep, RoundsStep
<1> QED  BY <1>1, <1>2, PTL DEF Spec

\* "Concurrent callers cannot corrupt each other's records" (load.ts:122-125): whatever
\* the other calls and renders found missing, a call fetches only what it may reach.
THEOREM FetchesAreOwn == Spec => []OnlyOwnFetches
<1>1. TypeOK /\ RoundsInv => OnlyOwnFetches
  BY DEF RoundsInv, OnlyOwnFetches, Within, Fetching
<1> QED  BY <1>1, RoundsHold, PTL

\* "Each failed round fetches at least one new file" (load.ts:117-120): the rounds of a
\* call are bounded by the files it may reach, and as many again for each clearCache()
\* that runs meanwhile, however the calls interleave.
THEOREM RoundsAreBounded == Spec => []RoundsBounded
<1>1. ASSUME TypeOK, RoundsInv, NEW t \in Tasks, task[t] # Nil
      PROVE  task[t].round <= Cardinality(Reach(task[t])) * (1 + clears - task[t].began)
  <2>1. task[t] \in Calls /\ Within(task[t], DOMAIN files, clears) /\ clears \in Nat
    BY <1>1, LoaderAssumption DEF TypeOK, RoundsInv
  <2>2. PICK c, F : c = task[t] /\ F = DOMAIN files
    OBVIOUS
  <2>3. /\ c.tm \in Templates /\ c.includes \in SUBSET Paths
        /\ c.round \in Nat /\ c.began \in Nat
    BY <2>1, <2>2, CallFields
  <2>4. CASE c.state = "fetching"
    <3>1. /\ c.want \subseteq Reach(c) /\ c.began <= clears
          /\ c.round + 1 <= Quota(c, clears - c.began) + Cardinality(Found(c, F))
      BY <2>1, <2>2, <2>4 DEF Within
    <3>2. PICK j \in Nat : j = clears - c.began
      BY <2>1, <2>3, <3>1
    <3>3. 1 + clears - c.began = j + 1
      BY <2>1, <2>3, <3>2
    <3>4. Quota(c, j) \in Nat /\ Quota(c, j + 1) = Quota(c, j) + Cardinality(Reach(c))
      BY <2>3, QuotaGrows
    <3>5. /\ Cardinality(Found(c, F)) \in Nat /\ Cardinality(Reach(c)) \in Nat
          /\ Cardinality(Found(c, F)) <= Cardinality(Reach(c))
      BY <2>3, <3>1, FoundFinite
    <3>6. c.round <= Quota(c, j + 1)
      BY <2>3, <3>1, <3>2, <3>4, <3>5
    <3> QED  BY <2>2, <3>3, <3>6 DEF Quota
  <2>5. CASE c.state = "done"
    BY <2>1, <2>2, <2>5 DEF Within, Quota
  <2> QED  BY <2>1, <2>2, <2>4, <2>5 DEF Calls
<1>2. TypeOK /\ RoundsInv => RoundsBounded
  BY <1>1 DEF RoundsBounded
<1> QED  BY <1>2, RoundsHold, PTL
=============================================================================
