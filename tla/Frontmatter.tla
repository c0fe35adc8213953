----------------------------- MODULE Frontmatter -----------------------------
(***************************************************************************)
(* Compiling a template's frontmatter (frontmatter/, template/mod.rs): the *)
(* types it names, the environment it is given, the constants it declares, *)
(* the files it imports and the parameters it takes, one after another,    *)
(* each phase with the names the ones before it have made known.  A file is*)
(* read when its import is reached, and other programs may write it at any *)
(* time; it is parsed by the same function, without its own imports and    *)
(* without the environment.  The finished template renders the paths its   *)
(* body mentions.                                                          *)
(*                                                                         *)
(* A name is a string.  What a phase knows is a function from keys, <<N>>  *)
(* for a name of the template's and <<stem, N>> for an imported one, to    *)
(* values.  A type as written is [k |-> "name", n |-> ..] (a builtin or an *)
(* alias), "dot", "option", "list", "struct" or "enum"; as read it is a    *)
(* VarType, whose fields are sequences of [name, type].  A default as      *)
(* written is "lit", "word", "dot", "list", "struct", "variant" or "kinds".*)
(***************************************************************************)
EXTENDS Naturals, Sequences, FiniteSets
LOCAL INSTANCE SequencesExt

CONSTANTS
    Calls,          \* the compilations: a source and an environment, from names to values
    Disks,          \* functions from the files <<directory, stem>> that exist to their sources
    Pascal,         \* the PascalCase form of every name
    MaxEdits        \* bound: files rewritten during a compilation

VARIABLES
    disk,           \* the files
    call,           \* the compilation: its source and the environment given
    phase,          \* "head", "imports", "done" or "error"
    preamble,       \* the head of the frontmatter
    inPaths,        \* what imports may name in their paths
    visited,        \* the files of the imports read, in order
    seen,           \* the files as they were when each was read
    namespaces,     \* what the stems imported export
    result,         \* the frontmatter, when it is done
    edits

vars == <<disk, call, phase, preamble, inPaths, visited, seen, namespaces, result, edits>>

Builtins == {"str", "int", "bool"}
Reserved == Builtins \cup {"list", "struct", "enum", "option", "params", "Some", "None"}
RootPrefixes == {"consts", "opts", "options", "params"}

Bad == [k |-> "bad"]                \* not a type
NoValue == [k |-> "novalue"]
OrElse(v, w) == IF v # NoValue THEN v ELSE w
Nothing == <<>>                     \* the function that knows no key

Str(s) == [k |-> "str", s |-> s]
List(items) == [k |-> "list", items |-> items]
Struct(f) == [k |-> "struct", f |-> f]

Put(f, x, v) == [y \in DOMAIN f \cup {x} |-> IF y = x THEN v ELSE f[y]]
Over(f, g) == [y \in DOMAIN f \cup DOMAIN g |-> IF y \in DOMAIN g THEN g[y] ELSE f[y]]
Elements(s) == {s[i] : i \in 1..Len(s)}
NamesOf(decls) == {d.name : d \in Elements(decls)}
Named(decls, n) == CHOOSE d \in Elements(decls) : d.name = n
(* The value of every declaration that has one, by key. *)
ValuesOf(decls) ==
    [k \in {<<d.name>> : d \in {e \in Elements(decls) : e.value # NoValue}} |->
        Named(decls, k[1]).value]

-----------------------------------------------------------------------------
(* Types and values. *)

Unnamed(fields) == Len(fields) = 1 /\ fields[1].name = ""

RECURSIVE Matches(_, _)
Matches(ty, v) ==
    LET HasFields(fields) ==
            \A fd \in Elements(fields) :
                fd.name \in DOMAIN v.f /\ Matches(fd.type, v.f[fd.name])
    IN  CASE ty.k \in Builtins -> v.k = ty.k
          [] ty.k = "option" -> v.k = "none" \/ Matches(ty.of, v)
          [] ty.k = "list" ->
                /\ v.k = "list"
                /\ \A item \in Elements(v.items) :
                        Matches(IF Unnamed(ty.fields) THEN ty.fields[1].type
                                ELSE [ty EXCEPT !.k = "struct"], item)
          [] ty.k = "struct" -> v.k = "struct" /\ HasFields(ty.fields)
          [] ty.k = "enum" ->
                \/ v.k = "str" /\ \E x \in Elements(ty.variants) : x.name = v.s /\ x.fields = <<>>
                \/ /\ v.k = "struct" /\ "__kind__" \in DOMAIN v.f
                   /\ v.f["__kind__"].s \in NamesOf(ty.variants)
                   /\ HasFields(Named(ty.variants, v.f["__kind__"].s).fields)

HasUnnamed(fs) == \E fd \in Elements(fs) : fd.name = ""
Wrong(fs) == \E fd \in Elements(fs) : fd.type = Bad
OptionOf(ty) == IF ty = Bad THEN Bad ELSE [k |-> "option", of |-> ty]
(* fs are the fields of e; a list of one unnamed struct has its fields.    *)
ListOf(e, fs) ==
    IF \/ fs = <<>> \/ Wrong(fs) \/ (Len(fs) > 1 /\ HasUnnamed(fs))
       \/ (HasUnnamed(fs) /\ e.fields[1].type.k = "struct")
    THEN Bad
    ELSE [k |-> "list", fields |-> IF Unnamed(fs) /\ fs[1].type.k = "struct" THEN fs[1].type.fields ELSE fs]
StructOf(fs) ==
    IF fs = <<>> \/ Wrong(fs) \/ HasUnnamed(fs) THEN Bad ELSE [k |-> "struct", fields |-> fs]
EnumOf(vs) ==
    IF vs = <<>> \/ \E x \in Elements(vs) : x.name \in Reserved \/ Wrong(x.fields) \/ HasUnnamed(x.fields)
    THEN Bad ELSE [k |-> "enum", variants |-> vs]

(* ns maps the stems imported to what their files export. *)
RECURSIVE ParseType(_, _, _)
ParseType(e, aliases, ns) ==
    LET Fields(fs) == [i \in 1..Len(fs) |->
            [name |-> fs[i].name,
             type |-> IF fs[i].name \in Reserved THEN Bad ELSE ParseType(fs[i].type, aliases, ns)]]
    IN  CASE e.k = "name" -> IF e.n \in DOMAIN aliases THEN aliases[e.n]
                             ELSE IF e.n \in Builtins THEN [k |-> e.n] ELSE Bad
          [] e.k = "dot" ->
                IF e.stem \notin DOMAIN ns THEN Bad
                ELSE IF e.n \in DOMAIN ns[e.stem].aliases THEN ns[e.stem].aliases[e.n]
                ELSE IF e.n \in DOMAIN ns[e.stem].paramTypes THEN ns[e.stem].paramTypes[e.n]
                ELSE Bad
          [] e.k = "option" -> OptionOf(ParseType(e.of, aliases, ns))
          [] e.k = "list" -> ListOf(e, Fields(e.fields))
          [] e.k = "struct" -> StructOf(Fields(e.fields))
          [] e.k = "enum" ->
                EnumOf([i \in 1..Len(e.variants) |->
                            [name |-> e.variants[i].name, fields |-> Fields(e.variants[i].fields)]])

AddAlias(acc, name, ty) ==
    IF ~acc.ok \/ ty = Bad \/ name \in Reserved \cup DOMAIN acc.aliases
    THEN [acc EXCEPT !.ok = FALSE]
    ELSE [acc EXCEPT !.aliases = Put(@, name, ty)]

(* The aliases of a types block; each may use the ones before it.          *)
ParseTypes(entries) ==
    FoldLeft(LAMBDA acc, e : AddAlias(acc, e.name, ParseType(e.type, acc.aliases, Nothing)),
             [ok |-> TRUE, aliases |-> Nothing], entries)

-----------------------------------------------------------------------------
(* Declarations and their defaults. *)

ConstDefault(e, known) ==
    LET key == IF e.k = "word" THEN <<e.w>> ELSE <<e.stem, e.n>>
    IN  IF e.k \in {"word", "dot"} /\ key \in DOMAIN known THEN known[key] ELSE NoValue

(* kinds(T): the names of the variants of T. *)
KindsDefault(e, aliases, ns) ==
    LET ty == IF e.k # "kinds" THEN Bad
              ELSE IF e.of.k = "name" /\ e.of.n \in DOMAIN aliases THEN aliases[e.of.n]
              ELSE IF e.of.k = "dot" /\ e.of.stem \in DOMAIN ns /\ e.of.n \in DOMAIN ns[e.of.stem].aliases
              THEN ns[e.of.stem].aliases[e.of.n] ELSE Bad
    IN  IF ty.k = "enum" THEN List([i \in 1..Len(ty.variants) |-> Str(ty.variants[i].name)])
        ELSE NoValue

(* The value of a default written for a type.  Items of a list and fields  *)
(* of a struct that have no value are left out.                            *)
RECURSIVE ParseDefault(_, _, _, _, _)
ParseDefault(e, ty, known, aliases, ns) ==
    LET Value(x, t) == ParseDefault(x, t, known, aliases, ns)
        Field(fields, key) ==
            IF key \in NamesOf(fields) THEN Named(fields, key).type ELSE [k |-> "str"]
        PutValue(f, x, v) == IF v = NoValue THEN f ELSE Put(f, x, v)
        FieldValues(entries, fields) ==
            FoldLeft(LAMBDA f, x : PutValue(f, x.key, Value(x.value, Field(fields, x.key))),
                     Nothing, entries)
    IN  CASE e.k = "list" ->
                LET item == IF ty.k = "list" /\ Unnamed(ty.fields) THEN ty.fields[1].type ELSE ty
                IN  List(SelectSeq([i \in 1..Len(e.items) |-> Value(e.items[i], item)],
                                   LAMBDA v : v # NoValue))
          [] e.k = "struct" ->
                IF e.entries = <<>> /\ ty.k # "struct" THEN NoValue
                ELSE Struct(FieldValues(e.entries, IF ty.k \in {"struct", "list"} THEN ty.fields ELSE <<>>))
          [] e.k = "lit" -> e.v
          [] e.k \notin {"list", "struct", "lit"} /\ ty.k = "option" ->
                IF e.k = "word" /\ e.w = "None" THEN [k |-> "none"] ELSE Value(e, ty.of)
          [] e.k \notin {"list", "struct", "lit"} /\ ty.k = "enum" ->
                LET name == IF e.k \in {"word", "variant"} THEN e.w ELSE ""
                IN  IF \/ name \notin NamesOf(ty.variants)
                       \/ (e.k = "word") # (Named(ty.variants, name).fields = <<>>)
                    THEN NoValue
                    ELSE IF e.k = "word" THEN Str(name)
                    ELSE Struct(Over([x \in {"__kind__"} |-> Str(name)],
                                     FieldValues(e.entries, Named(ty.variants, name).fields)))
          [] OTHER ->
                OrElse(ConstDefault(e, known), KindsDefault(e, aliases, ns))

(* A declaration d of type ty whose default is value, after those of acc.  *)
AddDeclaration(acc, d, ty, value, isConstant) ==
    IF \/ ~acc.ok \/ d.name \in NamesOf(acc.decls) \cup Reserved \/ ty = Bad
       \/ IF d.default.k = "none" THEN isConstant ELSE value = NoValue \/ ~Matches(ty, value)
    THEN [acc EXCEPT !.ok = FALSE]
    ELSE [acc EXCEPT !.decls = Append(@, [name |-> d.name, type |-> ty, value |-> value]),
                     !.known = IF value = NoValue THEN @ ELSE Put(@, <<d.name>>, value)]

DefaultValue(e, ty, known, aliases, ns) ==
    IF e.k = "none" \/ ty = Bad THEN NoValue
    ELSE OrElse(ParseDefault(e, ty, known, aliases, ns),
                OrElse(ConstDefault(e, known), KindsDefault(e, aliases, ns)))

ParseDeclaration(acc, d, ty, aliases, ns, isConstant) ==
    AddDeclaration(acc, d, ty, DefaultValue(d.default, ty, acc.known, aliases, ns), isConstant)

(* The declarations of a block; a default may name the ones before it.     *)
ParseDeclarations(block, aliases, ns, isConstant, known) ==
    FoldLeft(LAMBDA acc, d :
                ParseDeclaration(acc, d, ParseType(d.type, aliases, ns), aliases, ns, isConstant),
             [ok |-> TRUE, decls |-> <<>>, known |-> known], block)

(* The value given for a variable of the environment: text is read as an   *)
(* int or a bool, anything else is taken as it is.                         *)
EnvValue(v, ty) ==
    IF v.k # "str" \/ ty.k \notin {"int", "bool"} THEN v
    ELSE IF "as" \in DOMAIN v /\ v.as.k = ty.k THEN v.as ELSE NoValue

GiveEnv(parsed, env) ==
    LET Given(d) == [d EXCEPT !.value = IF d.name \in DOMAIN env THEN EnvValue(env[d.name], d.type) ELSE @]
        decls == [i \in 1..Len(parsed.decls) |-> Given(parsed.decls[i])]
    IN  [ok |-> parsed.ok /\ \A d \in Elements(decls) : d.value # NoValue, decls |-> decls]

ParseEnv(src, aliases, env) ==
    GiveEnv(ParseDeclarations(src.env, aliases, Nothing, FALSE, Nothing), env)

(* Constants as far as they can be read before the imports: all of them, or*)
(* none when one fails.                                                    *)
PrelimConsts(src, aliases, known) ==
    LET Add(parsed) == IF parsed.ok THEN Over(known, ValuesOf(parsed.decls)) ELSE known
    IN  Add(ParseDeclarations(src.consts, aliases, Nothing, TRUE, known))

-----------------------------------------------------------------------------
(* Paths of imports: a directory as written or an expression, and a file.  *)

Expression(known, e) ==
    LET p == IF e[1] \in RootPrefixes /\ Len(e) > 1 THEN Tail(e) ELSE e
        Field(v, f) == IF v.k = "struct" /\ f \in DOMAIN v.f THEN v.f[f] ELSE NoValue
    IN  IF e \in DOMAIN known THEN known[e]
        ELSE IF p \in DOMAIN known THEN known[p]
        ELSE IF <<p[1]>> \in DOMAIN known THEN FoldLeft(Field, known[<<p[1]>>], Tail(p))
        ELSE NoValue

(* The directory, when the path is one of a file. *)
Directory(known, import) ==
    IF import.dir.k = "lit" THEN import.dir.v ELSE Expression(known, import.dir.e)
ValidPath(known, import) ==
    Directory(known, import).k = "str" /\ import.stem = import.file
Resolved(known, import) == <<Directory(known, import).s, import.file>>

(* Without a directory to read from, paths are interpolated and no more. *)
InterpolateImports(imports, known) == \A import \in Elements(imports) : ValidPath(known, import)
ParseImports(imports) ==
    \A import \in Elements(imports) :
        /\ import.stem \notin Reserved
        /\ import.dir.k = "lit" => import.stem = import.file

-----------------------------------------------------------------------------
(* Names that must differ. *)

Declared(fm) == Elements(fm.params) \cup Elements(fm.consts) \cup Elements(fm.env)
Stems(fm) == {import.stem : import \in Elements(fm.imports)}

TypeAliasVsDecl(fm) ==
    \E d \in Declared(fm) : Pascal[d.name] \in DOMAIN fm.aliases /\ d.type # fm.aliases[Pascal[d.name]]

\* Mutant: looks at the environment only.
ParamVsConst_Env(fm) == NamesOf(fm.params) \cap NamesOf(fm.env) # {}

ParamVsConst(fm) == NamesOf(fm.params) \cap (NamesOf(fm.consts) \cup NamesOf(fm.env)) # {}
ConstVsEnv(fm) == NamesOf(fm.consts) \cap NamesOf(fm.env) # {}
AliasShadowsImport(fm) == DOMAIN fm.aliases \cap Stems(fm) # {}
DeclShadowsImport(fm) == \E d \in Declared(fm) : Pascal[d.name] \in Stems(fm)

RECURSIVE References(_, _)
References(ty, alias) ==
    LET Some(fields) == \E fd \in Elements(fields) : References(fd.type, alias)
    IN  \/ ty = alias
        \/ /\ ty.k \in {"list", "struct"}
           /\ (alias.k = "struct" /\ ty.fields = alias.fields) \/ Some(ty.fields)
        \/ ty.k = "enum" /\ \E x \in Elements(ty.variants) : Some(x.fields)
        \/ ty.k = "option" /\ References(ty.of, alias)

UnusedAlias(fm) ==
    /\ ~fm.allowUnused /\ Declared(fm) # {}
    /\ \E n \in DOMAIN fm.aliases :
        fm.aliases[n].k # "enum" /\ ~\E d \in Declared(fm) : References(d.type, fm.aliases[n])

Collides(fm) ==
    \/ TypeAliasVsDecl(fm) \/ ParamVsConst(fm) \/ ConstVsEnv(fm)
    \/ AliasShadowsImport(fm) \/ DeclShadowsImport(fm) \/ UnusedAlias(fm)

(* Parameters and constants of compound types name their types.            *)
AddImplicitTypes(fm) ==
    FoldLeft(LAMBDA aliases, d :
                IF d.type.k \in {"list", "struct", "enum"} /\ Pascal[d.name] \notin DOMAIN aliases
                THEN Put(aliases, Pascal[d.name], d.type) ELSE aliases,
             fm.aliases, fm.params \o fm.consts)

-----------------------------------------------------------------------------
(* A whole frontmatter: its head, before the imports are read, and the     *)
(* rest, with what the imports export.                                     *)

Failed == [ok |-> FALSE]

EnumNames(ty) ==
    LET Of(x) == IF x.fields = <<>> THEN Str(x.name)
                 ELSE Struct([y \in {"__kind__"} |-> Str(x.name)])
    IN  Struct([n \in NamesOf(ty.variants) |-> Of(Named(ty.variants, n))])
Enums(aliases) == {n \in DOMAIN aliases : aliases[n].k = "enum"}

(* The constants of the imported files, and the variants of their enums.   *)
ImportedConsts(ns) ==
    LET keys == UNION {{<<s, n>> : n \in DOMAIN ns[s].consts \cup Enums(ns[s].aliases)} : s \in DOMAIN ns}
    IN  [k \in keys |-> IF k[2] \in DOMAIN ns[k[1]].consts THEN ns[k[1]].consts[k[2]]
                        ELSE EnumNames(ns[k[1]].aliases[k[2]])]
ImportedEnums(ns) ==
    UNION {{<<s, n>> : n \in Enums(ns[s].aliases) \ DOMAIN ns[s].consts} : s \in DOMAIN ns}

PreambleWith(src, types, envs) ==
    IF ~types.ok \/ ~ParseImports(src.imports) \/ ~envs.ok THEN Failed
    ELSE [ok |-> TRUE, aliases |-> types.aliases, env |-> envs.decls,
          known |-> PrelimConsts(src, types.aliases, ValuesOf(envs.decls))]
Preamble(src, env) ==
    LET With(types) == PreambleWith(src, types, ParseEnv(src, types.aliases, env))
    IN  With(ParseTypes(src.types))

\* Mutant: defaults read imported constants without a stem.
Available_Bare(head, consts, ns) ==
    Over(ValuesOf(head.env),
         Over(ValuesOf(consts), [k \in {<<x[2]>> : x \in DOMAIN ImportedConsts(ns)} |->
                                    ImportedConsts(ns)[CHOOSE x \in DOMAIN ImportedConsts(ns) : x[2] = k[1]]]))

(* What the defaults of parameters may name. *)
Available(head, consts, ns) ==
    Over(ValuesOf(head.env), Over(ValuesOf(consts), ImportedConsts(ns)))

RestWith(src, head, consts, params) ==
    LET fm == [ok |-> TRUE, aliases |-> head.aliases, env |-> head.env, consts |-> consts.decls,
               params |-> params.decls, imports |-> src.imports, allowUnused |-> src.allowUnused]
    IN  IF ~consts.ok \/ ~params.ok \/ Collides(fm) THEN Failed
        ELSE [fm EXCEPT !.aliases = AddImplicitTypes(fm)]
Rest(src, head, ns) ==
    LET Params(consts) ==
            ParseDeclarations(src.params, head.aliases, ns, FALSE, Available(head, consts.decls, ns))
        With(consts) == RestWith(src, head, consts, Params(consts))
    IN  With(ParseDeclarations(src.consts, head.aliases, ns, TRUE, head.known))

\* Mutant: an imported file knows what its importer knows so far.
ParseAlone_Known(src) ==
    LET With(head) == IF ~head.ok \/ ~InterpolateImports(src.imports, head.known) THEN Failed
                      ELSE Rest(src, [head EXCEPT !.known = Over(@, inPaths)], Nothing)
    IN  With(Preamble(src, Nothing))

(* A file that is imported: no environment, and no files of its own.       *)
ParseAlone(src) ==
    LET With(head) == IF ~head.ok \/ ~InterpolateImports(src.imports, head.known) THEN Failed
                      ELSE Rest(src, head, Nothing)
    IN  With(Preamble(src, Nothing))

Export(fm) ==
    [aliases |-> fm.aliases,
     paramTypes |-> [n \in NamesOf(fm.params) |-> Named(fm.params, n).type],
     consts |-> [n \in NamesOf(fm.consts) |-> Named(fm.consts, n).value]]

\* Mutant: imported constants are known by their names without a stem.
Accumulate_Bare(known, stem, e) == Over(known, [k \in {<<n>> : n \in DOMAIN e.consts} |-> e.consts[k[1]]])

(* What is known to the imports after one that exports e. *)
Accumulate(known, stem, e) == Over(known, [k \in {<<stem, n>> : n \in DOMAIN e.consts} |-> e.consts[k[2]]])

-----------------------------------------------------------------------------
(* The template.  Its body is a set of uses [how |-> "show" or "kind",     *)
(* path |-> ..].                                                           *)

Referenced(src) == {use.path[1] : use \in src.body}
Labels(fm) ==
    {"Some", "None"} \cup
    UNION {NamesOf(ty.variants) : ty \in {fm.aliases[n] : n \in Enums(fm.aliases)}
                \cup {ty \in {d.type : d \in Elements(fm.params \o fm.consts)} : ty.k = "enum"}}

UndeclaredVariables(src, fm) ==
    Referenced(src) \ (NamesOf(fm.params) \cup NamesOf(fm.consts) \cup NamesOf(fm.env)
                        \cup Stems(fm) \cup Enums(fm.aliases) \cup Labels(fm))
UnusedParams(src, fm) == IF fm.allowUnused THEN {} ELSE NamesOf(fm.params) \ Referenced(src)

BareEnumAccess(src, fm, ns) ==
    \E use \in src.body :
        /\ use.how = "show"
        /\ \/ Len(use.path) >= 2 /\ use.path[1] \in Enums(fm.aliases)
           \/ Len(use.path) >= 3 /\ SubSeq(use.path, 1, 2) \in ImportedEnums(ns)

StaticAnalysis(src, fm, ns) ==
    UndeclaredVariables(src, fm) = {} /\ UnusedParams(src, fm) = {} /\ ~BareEnumAccess(src, fm, ns)

(* The constants a template renders with: its own, its environment and the *)
(* variants of its enums.                                                  *)
TemplateConsts(fm) ==
    LET enums == [k \in {<<n>> : n \in Enums(fm.aliases)} |-> EnumNames(fm.aliases[k[1]])]
    IN  Over(enums, Over(ValuesOf(fm.env), ValuesOf(fm.consts)))

(* The value of a path when params are passed these values. *)
ResolvePath(fm, ns, passed, p) ==
    LET imported == ImportedConsts(ns)
        consts == TemplateConsts(fm)
        Field(v, f) == IF v.k = "struct" /\ f \in DOMAIN v.f THEN v.f[f] ELSE NoValue
    IN  IF Len(p) >= 2 /\ SubSeq(p, 1, 2) \in DOMAIN imported
        THEN FoldLeft(Field, imported[SubSeq(p, 1, 2)], SubSeq(p, 3, Len(p)))
        ELSE IF <<p[1]>> \in DOMAIN consts THEN FoldLeft(Field, consts[<<p[1]>>], Tail(p))
        ELSE IF p[1] \in DOMAIN passed THEN FoldLeft(Field, passed[p[1]], Tail(p))
        ELSE NoValue

-----------------------------------------------------------------------------
src == call.src
Done == phase = "done"

Init ==
    /\ disk \in Disks
    /\ call \in Calls
    /\ phase = "head" /\ preamble = Failed /\ result = Failed
    /\ inPaths = Nothing /\ namespaces = Nothing
    /\ visited = <<>> /\ seen = <<>> /\ edits = 0

Fail ==
    /\ phase' = "error"
    /\ UNCHANGED <<preamble, inPaths, visited, seen, namespaces, result>>

ParseHead ==
    /\ phase = "head"
    /\ \E h \in {Preamble(src, call.env)} :
        \/ ~h.ok /\ Fail
        \/ /\ h.ok
           /\ phase' = "imports" /\ preamble' = h /\ inPaths' = h.known
           /\ UNCHANGED <<visited, seen, namespaces, result>>
    /\ UNCHANGED <<disk, call, edits>>

(* One import: its path, its file as it is now, and what the file exports. *)
ResolveImport ==
    /\ phase = "imports" /\ Len(visited) < Len(src.imports)
    /\ LET import == src.imports[Len(visited) + 1]
           path == Resolved(inPaths, import)
           readable == ValidPath(inPaths, import) /\ path \notin Elements(visited) /\ path \in DOMAIN disk
       IN  \E parsed \in {IF readable THEN ParseAlone(disk[path]) ELSE Failed} :
            \/ ~parsed.ok /\ Fail
            \/ /\ parsed.ok
               /\ visited' = Append(visited, path) /\ seen' = Append(seen, disk)
               /\ namespaces' = Put(namespaces, import.stem, Export(parsed))
               /\ inPaths' = Accumulate(inPaths, import.stem, Export(parsed))
               /\ UNCHANGED <<phase, preamble, result>>
    /\ UNCHANGED <<disk, call, edits>>

Compile ==
    /\ phase = "imports" /\ Len(visited) = Len(src.imports)
    /\ \E fm \in {Rest(src, preamble, namespaces)} :
        LET accepted == IF fm.ok THEN StaticAnalysis(src, fm, namespaces) ELSE FALSE
        IN  \/ ~accepted /\ Fail
            \/ /\ accepted
               /\ phase' = "done" /\ result' = fm
               /\ UNCHANGED <<preamble, inPaths, visited, seen, namespaces>>
    /\ UNCHANGED <<disk, call, edits>>

(* Another program writes the files. *)
Edit ==
    /\ phase = "imports" /\ Len(visited) < Len(src.imports) /\ edits < MaxEdits
    /\ disk' \in Disks \ {disk} /\ edits' = edits + 1
    /\ UNCHANGED <<call, phase, preamble, inPaths, visited, seen, namespaces, result>>

Next == ParseHead \/ ResolveImport \/ Compile \/ Edit
Spec == Init /\ [][Next]_vars

-----------------------------------------------------------------------------
(* Properties. *)

(* A name the environment sets has the value given for it only in the      *)
(* template compiled, never in the files it imports.                       *)
GivenElsewhere(file) ==
    \E d \in Elements(file.env) :
        d.name \in DOMAIN call.env /\ EnvValue(call.env[d.name], ParseType(d.type, Nothing, Nothing)) # d.default.v

(* A list or a struct in a constant that names the variants of an imported *)
(* enum: read without the file's own imports, that item has no value, and  *)
(* one without a value is left out.                                        *)
RECURSIVE KindsOfImported(_)
KindsOfImported(e) ==
    CASE e.k = "kinds" -> e.of.k = "dot"
      [] e.k = "list" -> \E item \in Elements(e.items) : KindsOfImported(item)
      [] e.k \in {"struct", "variant"} -> \E x \in Elements(e.entries) : KindsOfImported(x.value)
      [] OTHER -> FALSE
DropsItems(file) == \E d \in Elements(file.consts) : KindsOfImported(d.default)

(* What compiling a file itself gives, on these files. *)
CompileOn(files, file) ==
    LET Read(acc, import) ==
            IF /\ acc.ok /\ ValidPath(acc.known, import)
               /\ Resolved(acc.known, import) \in DOMAIN files \ acc.visited
            THEN ParseAlone(files[Resolved(acc.known, import)]) ELSE Failed
        Add(acc, import, parsed) ==
            IF ~parsed.ok THEN [acc EXCEPT !.ok = FALSE]
            ELSE [ok |-> TRUE, known |-> Accumulate(acc.known, import.stem, Export(parsed)),
                  visited |-> acc.visited \cup {Resolved(acc.known, import)},
                  ns |-> Put(acc.ns, import.stem, Export(parsed))]
        Imports(head) ==
            FoldLeft(LAMBDA acc, import : Add(acc, import, Read(acc, import)),
                     [ok |-> head.ok, known |-> head.known, visited |-> {}, ns |-> Nothing], file.imports)
        Finish(head, imports) == IF imports.ok THEN Rest(file, head, imports.ns) ELSE Failed
        From(head) == IF head.ok THEN Finish(head, Imports(head)) ELSE Failed
    IN  From(Preamble(file, call.env))

(* A name means the same wherever it is read: what a template imports from *)
(* a file under stem.N is the constant, and the type, N of that file when  *)
(* it is compiled itself, on the files as they were when it was read.  The *)
(* exceptions are a file that is given a variable of the environment and   *)
(* one whose constants lose items without the imports of that file.        *)
ImportedAsCompiled ==
    Done => \A i \in 1..Len(visited) :
        LET file == seen[i][visited[i]]
            stem == src.imports[i].stem
            last == \A j \in (i + 1)..Len(visited) : src.imports[j].stem # stem
            Agrees(own) == own.ok => namespaces[stem] = Export(own)
        IN  last /\ ~GivenElsewhere(file) /\ ~DropsItems(file) => Agrees(CompileOn(seen[i], file))

(* Two imports of one stem from two directories: the names of the second   *)
(* replace those of the first, which paths in between have used.           *)
DuplicateStem == Cardinality(Stems(result)) < Len(src.imports)

(* The constants in the path of an import are those the template renders   *)
(* with, though paths are read before the constants block is.              *)
PathsAsConstants ==
    Done /\ ~DuplicateStem =>
        \A i \in 1..Len(visited) :
            LET dir == src.imports[i].dir
                final == Over(TemplateConsts(result), ImportedConsts(namespaces))
            IN  dir.k = "expr" => Expression(final, dir.e) = Str(visited[i][1])

(* A default that names a constant, an environment variable or an imported *)
(* constant is the value that name has when the template renders.  Defaults*)
(* in the env block are read before the values given replace others.       *)
DefaultsAsNamed ==
    Done => \A d \in Elements(result.consts \o result.params) :
        LET block == src.consts \o src.params
            e == Named(block, d.name).default
            final == Over(TemplateConsts(result), ImportedConsts(namespaces))
            key == IF e.k = "word" THEN <<e.w>> ELSE <<e.stem, e.n>>
        IN  e.k \in {"word", "dot"} /\ d.type.k \notin {"enum", "option"} /\ key \in DOMAIN final
                => d.value = final[key]

(* What a name of the body can stand for: something declared, the enum of a*)
(* type (one declared, or one implied after the rules on names were        *)
(* checked) or an imported file.                                           *)
Meanings(n) ==
    {d \in Declared(result) : d.name = n}
        \cup {[type |-> t] : t \in Enums(result.aliases) \cap {n}}
        \cup {[stem |-> s] : s \in Stems(result) \cap {n}}

(* The names the rules let two things share: a declaration and its own     *)
(* type; a declaration and the type another one implies; a declaration and *)
(* an alias or an import that is not in PascalCase, since the rules compare*)
(* with the PascalCase form of the declaration only.                       *)
OwnType(d) == d.type = result.aliases[d.name]
ImpliedByOther(d) ==
    \E e \in Elements(result.params \o result.consts) \ {d} : e.type.k = "enum" /\ Pascal[e.name] = d.name
NotPascal(d) == Pascal[d.name] # d.name
Shared(n) ==
    \E d \in Declared(result) :
        /\ d.name = n
        /\ \/ NotPascal(d) /\ n \in Enums(result.aliases) \cup Stems(result)
           \/ n \in Enums(result.aliases) /\ (OwnType(d) \/ ImpliedByOther(d))

(* The value a name shows when the template renders, every parameter passed*)
(* a value of its own, is the one its declaration has.                     *)
Shows(d) ==
    LET own == [k |-> "passed", of |-> d.name]
        passed == [x \in NamesOf(result.params) |-> [k |-> "passed", of |-> x]]
    IN  ResolvePath(result, namespaces, passed, <<d.name>>)
            = IF d \in Elements(result.params) THEN own ELSE d.value

(* A name in an accepted body that is not a label stands for one thing, and*)
(* shows it: no constant, import or enum (types are implied after the rules*)
(* on names were checked) takes the place of what was declared, but for the*)
(* names the rules let two things share.                                   *)
NamesCanBeRead ==
    Done => \A n \in Referenced(src) \ Labels(result) :
        Shared(n) \/ (Cardinality(Meanings(n)) = 1 /\ \A d \in Meanings(n) \cap Declared(result) : Shows(d))
=============================================================================
