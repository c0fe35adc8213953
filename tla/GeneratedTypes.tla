--------------------------- MODULE GeneratedTypes ---------------------------
(***************************************************************************)
(* The Rust types that include_template! and template! generate from a     *)
(* frontmatter, and the ways their values become template values and come  *)
(* back: the setters of to_context (md-tmpl-macros struct_gen.rs and       *)
(* type_gen.rs), serde (to_value and from_value of serde_support.rs, with  *)
(* the derives and impls the macros generate), the literals of constants   *)
(* (codegen.rs), the names of variants, and the check of a value against   *)
(* its declared type (types.rs).                                           *)
(*                                                                         *)
(* A type is [k |-> ..]: "str", "int", "float", "bool", "list" (of), where *)
(* a list of a struct is list(field = ..), "struct" (fields), "enum"       *)
(* (variants, each with its fields), "option" (of) or "tmpl" (params).  A  *)
(* template value has one field, its kind: [str |-> s], [int |-> n],       *)
(* [float |-> n], [bool |-> b], [list |-> seq], [struct |-> function],     *)
(* [tmpl |-> declarations] or [none |-> TRUE].  A Rust value is the same,  *)
(* with [some |-> x] for options and [variant |-> ident, fields |-> f] for *)
(* enums; the fields of both are named as declared (make_ident keeps them  *)
(* apart, and serde renames them back).                                    *)
(***************************************************************************)
EXTENDS Naturals, Sequences, FiniteSets, TLC
LOCAL INSTANCE SequencesExt

CONSTANTS
    Templates,      \* the params of each template: sequences of [name, type]
    VariantIdent,   \* the words of a variant's name, capitalised and joined; "Variant" if none
    Lower,          \* a variant's name in lower case
    Texts, Numbers, \* the strings and numbers the program uses
    Inlines,        \* the templates it passes: sequences of [name, type, default]
    MaxItems        \* bound: items of a list

VARIABLES
    template,       \* the declarations
    style,          \* "generated", or "own": a hand-written type with plain serde derives
    params,         \* the program's struct
    wire,           \* the template value made of it, or one that came from elsewhere
    answer          \* what the last call returned

vars == <<template, style, params, wire, answer>>

Nil == [nil |-> TRUE]
Failed == [failed |-> TRUE]
None == [none |-> TRUE]
Empty == <<>>                   \* the context that has no variable
Str(s) == [str |-> s]
Tag == "__kind__"
Unescapable == {"self", "Self", "super", "crate"}

Is(v, kind) == kind \in DOMAIN v
Put(f, x, v) == [y \in DOMAIN f \cup {x} |-> IF y = x THEN v ELSE f[y]]
Fields(decls) == ToSet(decls)
NamesOf(decls) == {d.name : d \in Fields(decls)}
Struct(decls) == [k |-> "struct", fields |-> decls]
Whole(f, v) == IF \E x \in DOMAIN f : f[x] = Failed THEN Failed ELSE v
-----------------------------------------------------------------------------
(* Enums: their classes, and the identifiers of their variants. *)

Kind(variants) ==
    CASE \A v \in ToSet(variants) : v.fields = <<>> -> "unit"
      [] \A v \in ToSet(variants) : v.fields # <<>> -> "data"
      [] OTHER -> "mixed"

(* A name whose identifier is taken by an earlier variant gets a number. *)
Idents(variants) ==
    LET base(i) == VariantIdent[variants[i].name] IN
    [i \in DOMAIN variants |->
        LET n == Cardinality({j \in 1..i : base(j) = base(i)})
        IN  IF n = 1 THEN base(i) ELSE base(i) \o ToString(n)]

VariantOf(variants, ident) == variants[CHOOSE i \in DOMAIN variants : Idents(variants)[i] = ident]

(* The code generated for a type compiles: the variants of an enum have    *)
(* identifiers of their own; a mixed enum, whose serde impls are written   *)
(* by the macro, has scalar fields and none that needs a serde rename; and *)
(* no derive meets a template.                                             *)
RECURSIVE Compiles(_)
Compiles(T) ==
    CASE T.k \in {"list", "option"} -> Compiles(T.of)
      [] T.k = "struct" -> \A f \in Fields(T.fields) : Compiles(f.type)
      [] T.k = "tmpl" -> FALSE
      [] T.k = "enum" ->
            /\ IsInjective(Idents(T.variants))
            /\ \A v \in ToSet(T.variants) : \A f \in Fields(v.fields) :
                  IF Kind(T.variants) = "mixed"
                  THEN f.type.k \in {"str", "int", "float", "bool"} /\ f.name \notin Unescapable
                  ELSE Compiles(f.type)
      [] OTHER -> TRUE

HasTemplates(decls) == \E d \in Fields(decls) : d.type.k = "tmpl"

ParamsCompile(decls) ==
    /\ \A d \in Fields(decls) : d.type.k = "tmpl" \/ Compiles(d.type)
    /\ HasTemplates(decls) => NamesOf(decls) \cap Unescapable = {}
-----------------------------------------------------------------------------
(* The values of the generated types. *)

RECURSIVE HostValues(_)

(* The structs with these fields. *)
HostRecords(decls) ==
    {f \in [NamesOf(decls) -> UNION {HostValues(d.type) : d \in Fields(decls)}] :
        \A d \in Fields(decls) : f[d.name] \in HostValues(d.type)}

(* The enum's variants, by identifier, each with its own fields. *)
HostEnums(variants) ==
    UNION {{[variant |-> Idents(variants)[i], fields |-> f] : f \in HostRecords(variants[i].fields)} :
               i \in DOMAIN variants}

HostValues(T) ==
    CASE T.k = "str" -> {Str(s) : s \in Texts}
      [] T.k = "int" -> {[int |-> n] : n \in Numbers}
      [] T.k = "float" -> {[float |-> n] : n \in Numbers}
      [] T.k = "bool" -> {[bool |-> b] : b \in BOOLEAN}
      [] T.k = "tmpl" -> {[tmpl |-> t] : t \in Inlines}
      [] T.k = "list" -> {[list |-> s] : s \in SeqOf(HostValues(T.of), MaxItems)}
      [] T.k = "struct" -> {[struct |-> f] : f \in HostRecords(T.fields)}
      [] T.k = "option" -> {None} \cup {[some |-> h] : h \in HostValues(T.of)}
      [] T.k = "enum" -> HostEnums(T.variants)
-----------------------------------------------------------------------------
(* to_value: every serde representation the macros choose writes the same. *)

RECURSIVE Serialized(_, _)
SerializedFields(decls, f) ==
    [n \in NamesOf(decls) |-> Serialized((CHOOSE d \in Fields(decls) : d.name = n).type, f[n])]

SerializedItems(T, items) == [i \in DOMAIN items |-> Serialized(T, items[i])]

SerializedEnum(variants, h) ==
    LET v == VariantOf(variants, h.variant) IN
    IF v.fields = <<>>
    THEN Str(v.name)
    ELSE [struct |-> Put(SerializedFields(v.fields, h.fields), Tag, Str(v.name))]

Serialized(T, h) ==
    CASE T.k = "list" -> [list |-> SerializedItems(T.of, h.list)]
      [] T.k = "struct" -> [struct |-> SerializedFields(T.fields, h.struct)]
      [] T.k = "option" -> IF Is(h, "none") THEN None ELSE Serialized(T.of, h.some)
      [] T.k = "enum" -> SerializedEnum(T.variants, h)
      [] OTHER -> h

(* The setters of to_context.  Items, rows and options are written into a  *)
(* context of their own, an enum is serialized, and a struct's fields are  *)
(* set in the context of the struct, whose own stays empty.                *)
RECURSIVE SetIn(_, _, _, _)
SetFields(ctx, decls, f) ==
    LET set(c, d) == SetIn(c, d.name, d.type, f[d.name]) IN FoldLeft(set, ctx, decls)

OptionValue(T, h) ==
    IF Is(h, "none") THEN None ELSE SetIn(Empty, "__option_val__", T, h.some)["__option_val__"]

\* Mutant: the item stays inside the context it was set in.
ItemValue_NotTaken(T, h) == [struct |-> SetIn(Empty, "item", T, h)]

ItemValue(T, h) ==
    IF T.k = "struct" THEN [struct |-> SetFields(Empty, T.fields, h.struct)]
    ELSE SetIn(Empty, "item", T, h)["item"]

StructIn(ctx, n, T, h) == Put(SetFields(ctx, T.fields, h.struct), n, [struct |-> Empty])

SetIn(ctx, n, T, h) ==
    CASE T.k = "list" -> Put(ctx, n, [list |-> [i \in DOMAIN h.list |-> ItemValue(T.of, h.list[i])]])
      [] T.k = "struct" -> StructIn(ctx, n, T, h)
      [] T.k = "option" -> Put(ctx, n, OptionValue(T.of, h))
      [] T.k = "enum" -> Put(ctx, n, Serialized(T, h))
      [] OTHER -> Put(ctx, n, h)

Context(decls, f) == SetFields(Empty, decls, f)
-----------------------------------------------------------------------------
(* from_value: the set of what it may return, since the entries of a map   *)
(* come in any order.  buffered: inside an enum with #[serde(tag)], whose  *)
(* fields are read from serde's own copy of the map.                       *)

\* Mutant: only the empty text reads as none, wherever it is.
ReadsAsNone_Empty(v, buffered) == v \in {None, Str("")}

ReadsAsNone(v, buffered) == v = None \/ (~buffered /\ v \in {Str(""), Str("None")})

(* The entries of a map that a mixed enum's visitor still reads: it drops  *)
(* the ones that come before the tag.                                      *)
AfterTag(m) == {[x \in s |-> m[x]] : s \in SUBSET (DOMAIN m \ {Tag})}

(* An enum whose serde is derived without a tag is read by its own name:   *)
(* a unit variant also from a map.                                         *)
ReadsByName(variants) == style = "own" \/ Kind(variants) = "unit"

NamedVariants(variants, n) == {i \in DOMAIN variants : variants[i].name = n}

RECURSIVE Decoded(_, _, _)
DecodedFields(decls, m, buffered) ==
    LET outcomes(d) ==
            IF d.name \in DOMAIN m THEN Decoded(d.type, m[d.name], buffered)
            ELSE IF d.type.k = "option" THEN {None} ELSE {Failed}
        all == [n \in NamesOf(decls) |-> outcomes(CHOOSE d \in Fields(decls) : d.name = n)]
    IN  {f \in [NamesOf(decls) -> UNION {all[n] : n \in NamesOf(decls)}] :
            \A n \in NamesOf(decls) : f[n] \in all[n]}

DecodedItems(T, items, buffered) ==
    {s \in [DOMAIN items -> UNION {Decoded(T, items[i], buffered) : i \in DOMAIN items}] :
        \A i \in DOMAIN items : s[i] \in Decoded(T, items[i], buffered)}

DecodedVariant(variants, i, maps, buffered) ==
    {Whole(f, [variant |-> Idents(variants)[i], fields |-> f]) :
        f \in UNION {DecodedFields(variants[i].fields, m, buffered) : m \in maps}}

(* A list is refused.  That is so of every type here but one: where serde  *)
(* derives an internally tagged enum it takes a list for the tag and the   *)
(* fields in their order.  Nothing in Receive makes a list of what is none.*)
DecodedEnum(variants, v, buffered) ==
    LET byName == ReadsByName(variants)
        tag == IF Is(v, "struct") THEN IF Tag \in DOMAIN v.struct THEN v.struct[Tag] ELSE Nil ELSE Nil
        unit == {i \in DOMAIN variants : variants[i].fields = <<>>}
        data == DOMAIN variants \ unit
        fromText == IF Is(v, "str") THEN NamedVariants(variants, v.str) \cap unit ELSE {}
        fromMap == IF Is(tag, "str") THEN NamedVariants(variants, tag.str) ELSE {}
    IN  CASE fromText # {} /\ (byName \/ Kind(variants) = "mixed") ->
                UNION {DecodedVariant(variants, i, {Empty}, buffered) : i \in fromText}
          [] byName /\ ~buffered /\ fromMap # {} ->
                UNION {DecodedVariant(variants, i, {v.struct}, buffered) : i \in fromMap}
          [] Kind(variants) = "data" /\ ~byName /\ fromMap # {} ->
                UNION {DecodedVariant(variants, i, {v.struct}, TRUE) : i \in fromMap}
          [] Kind(variants) = "mixed" /\ ~byName /\ fromMap \cap data # {} ->
                UNION {DecodedVariant(variants, i, AfterTag(v.struct), buffered) : i \in fromMap}
          [] OTHER -> {Failed}

Decoded(T, v, buffered) ==
    CASE T.k = "float" /\ buffered /\ Is(v, "int") -> {[float |-> v.int]}
      [] T.k = "list" /\ Is(v, "list") ->
            {Whole(s, [list |-> s]) : s \in DecodedItems(T.of, v.list, buffered)}
      [] T.k = "struct" /\ Is(v, "struct") ->
            {Whole(f, [struct |-> f]) : f \in DecodedFields(T.fields, v.struct, buffered)}
      [] T.k = "option" ->
            IF ReadsAsNone(v, buffered) THEN {None}
            ELSE {IF h = Failed THEN Failed ELSE [some |-> h] : h \in Decoded(T.of, v, buffered)}
      [] T.k = "enum" -> DecodedEnum(T.variants, v, buffered)
      [] OTHER -> {IF T.k \in {"str", "int", "float", "bool"} /\ Is(v, T.k) THEN v ELSE Failed}
-----------------------------------------------------------------------------
(* The check of a value against a type: a fast one, and the one that finds *)
(* the path of the first mismatch.                                         *)

(* A template may take more than the signature says, if it has defaults.   *)
Accepts(signature, decls) ==
    /\ \A e \in Fields(signature) : \E d \in Fields(decls) : d.name = e.name /\ d.type = e.type
    /\ \A d \in Fields(decls) : d.default \/ d.name \in NamesOf(signature)

RECURSIVE CheckFast(_, _)

FastFields(decls, m) == \A d \in Fields(decls) : d.name \in DOMAIN m /\ CheckFast(d.type, m[d.name])

\* Mutant: a text may name a variant that has fields.
FastEnum_AnyVariant(variants, v) ==
    \/ Is(v, "str") /\ NamedVariants(variants, v.str) # {}
    \/ /\ Is(v, "struct") /\ Tag \in DOMAIN v.struct /\ Is(v.struct[Tag], "str")
       /\ \E i \in NamedVariants(variants, v.struct[Tag].str) : FastFields(variants[i].fields, v.struct)

FastEnum(variants, v) ==
    \/ Is(v, "str") /\ \E i \in NamedVariants(variants, v.str) : variants[i].fields = <<>>
    \/ /\ Is(v, "struct") /\ Tag \in DOMAIN v.struct /\ Is(v.struct[Tag], "str")
       /\ \E i \in NamedVariants(variants, v.struct[Tag].str) : FastFields(variants[i].fields, v.struct)

CheckFast(T, v) ==
    CASE T.k = "float" -> Is(v, "float") \/ Is(v, "int")
      [] T.k = "list" -> Is(v, "list") /\ \A i \in DOMAIN v.list : CheckFast(T.of, v.list[i])
      [] T.k = "struct" -> Is(v, "struct") /\ FastFields(T.fields, v.struct)
      [] T.k = "option" -> Is(v, "none") \/ CheckFast(T.of, v)
      [] T.k = "enum" -> FastEnum(T.variants, v)
      [] T.k = "tmpl" -> Is(v, "tmpl") /\ Accepts(T.params, v.tmpl)
      [] OTHER -> Is(v, T.k)

Ok == [ok |-> TRUE]
At(path) == [at |-> path]
FirstOf(verdicts) ==
    IF \A i \in DOMAIN verdicts : verdicts[i] = Ok THEN Ok
    ELSE verdicts[CHOOSE i \in DOMAIN verdicts : verdicts[i] # Ok /\ \A j \in 1..(i - 1) : verdicts[j] = Ok]
Require(condition, path) == IF condition THEN Ok ELSE At(path)

RECURSIVE CheckInner(_, _, _)
CheckFields(decls, m, path) ==
    FirstOf([i \in DOMAIN decls |->
        IF decls[i].name \in DOMAIN m
        THEN CheckInner(decls[i].type, m[decls[i].name], Append(path, decls[i].name))
        ELSE At(Append(path, decls[i].name))])

CheckItems(T, items, path) == FirstOf([i \in DOMAIN items |-> CheckInner(T, items[i], Append(path, i))])

CheckEnum(variants, v, path) ==
    CASE Is(v, "str") -> Require(\E i \in NamedVariants(variants, v.str) : variants[i].fields = <<>>, path)
      [] Is(v, "struct") ->
            IF Tag \notin DOMAIN v.struct THEN At(path)
            ELSE IF ~Is(v.struct[Tag], "str") THEN At(path)
            ELSE LET named == NamedVariants(variants, v.struct[Tag].str) IN
                 IF named = {} THEN At(Append(path, Tag))
                 ELSE CheckFields(variants[CHOOSE i \in named : TRUE].fields, v.struct, path)
      [] OTHER -> At(path)

CheckTmpl(signature, decls, path) ==
    LET found(e) == \E d \in Fields(decls) : d.name = e.name /\ d.type = e.type
        optional(d) == d.default \/ d.name \in NamesOf(signature)
    IN  FirstOf([i \in DOMAIN signature |-> Require(found(signature[i]), Append(path, signature[i].name))]
                 \o [i \in DOMAIN decls |-> Require(optional(decls[i]), Append(path, decls[i].name))])

CheckInner(T, v, path) ==
    CASE T.k = "float" -> Require(Is(v, "float") \/ Is(v, "int"), path)
      [] T.k = "list" ->
            IF Is(v, "list") THEN CheckItems(T.of, v.list, path) ELSE At(path)
      [] T.k = "struct" -> IF Is(v, "struct") THEN CheckFields(T.fields, v.struct, path) ELSE At(path)
      [] T.k = "option" -> IF Is(v, "none") THEN Ok ELSE CheckInner(T.of, v, path)
      [] T.k = "enum" -> CheckEnum(T.variants, v, path)
      [] T.k = "tmpl" -> IF Is(v, "tmpl") THEN CheckTmpl(T.params, v.tmpl, path) ELSE At(path)
      [] OTHER -> Require(Is(v, T.k), path)

Check(T, v) == IF CheckFast(T, v) THEN Ok ELSE CheckInner(T, v, <<>>)
-----------------------------------------------------------------------------
(* The literal the macro writes for a constant: Failed if what it writes   *)
(* does not compile.  A variant is named by its identifier before the      *)
(* numbers that tell variants apart.                                       *)

\* Mutant: a variant's name as it is written.
LiteralIdent_Name(variant) == variant.name

LiteralIdent(variant) == VariantIdent[variant.name]

LiteralVariant(variants, i, f) ==
    LET ident == LiteralIdent(variants[i])
        meant == {j \in DOMAIN variants : Idents(variants)[j] = ident}
    IN  IF \E j \in meant : variants[j].fields = variants[i].fields
        THEN Whole(f, [variant |-> ident, fields |-> f]) ELSE Failed

RECURSIVE Literal(_, _)
LiteralFields(decls, m) ==
    [n \in NamesOf(decls) |->
        IF n \in DOMAIN m THEN Literal((CHOOSE d \in Fields(decls) : d.name = n).type, m[n]) ELSE Failed]

LiteralItems(T, items) == [i \in DOMAIN items |-> Literal(T, items[i])]

Literal(T, v) ==
    CASE T.k = "list" /\ Is(v, "list") ->
            LET items == LiteralItems(T.of, v.list) IN Whole(items, [list |-> items])
      [] T.k = "struct" /\ Is(v, "struct") ->
            LET f == LiteralFields(T.fields, v.struct) IN Whole(f, [struct |-> f])
      [] T.k = "enum" /\ Is(v, "str") ->
            LET i == CHOOSE j \in NamedVariants(T.variants, v.str) : TRUE
            IN  LiteralVariant(T.variants, i, Empty)
      [] T.k = "enum" /\ Is(v, "struct") ->
            LET i == CHOOSE j \in NamedVariants(T.variants, v.struct[Tag].str) : TRUE
            IN  LiteralVariant(T.variants, i, LiteralFields(T.variants[i].fields, v.struct))
      [] OTHER -> IF T.k \in {"str", "int", "float", "bool"} /\ Is(v, T.k) THEN v ELSE Failed

(* from_str: the first unit variant whose name is the text, case apart.    *)
FromStr(variants, text) ==
    LET hits == {i \in DOMAIN variants : variants[i].fields = <<>> /\ Lower[variants[i].name] = Lower[text]}
    IN  IF hits = {} THEN Failed
        ELSE [variant |-> Idents(variants)[CHOOSE i \in hits : \A j \in hits : i <= j], fields |-> Empty]
-----------------------------------------------------------------------------
Init ==
    /\ template \in Templates
    /\ style \in {"generated", "own"}
    /\ style = "generated" => ParamsCompile(template)
    /\ style = "own" => ~HasTemplates(template)
    /\ params \in HostRecords(template)
    /\ wire = Nil
    /\ answer = Nil

Whatever(v) == {Str("a"), [int |-> 0], None, [bool |-> TRUE]} \ {v}

(* A value that differs in one place: another kind, a map for a variant's  *)
(* name or the name for the map, or a map without one of its keys.         *)
RECURSIVE Variations(_)
Variations(v) ==
    Whatever(v)
        \cup IF Is(v, "str") THEN {[struct |-> [x \in {Tag} |-> v]]}
             ELSE IF Is(v, "list")
             THEN {[list |-> [v.list EXCEPT ![i] = w]] : <<i, w>> \in
                      UNION {{i} \X Variations(v.list[i]) : i \in DOMAIN v.list}}
             ELSE IF Is(v, "struct")
             THEN {v.struct[x] : x \in {Tag} \cap DOMAIN v.struct}
                    \cup {[struct |-> [x \in DOMAIN v.struct \ {y} |-> v.struct[x]]] : y \in DOMAIN v.struct}
                    \cup {[struct |-> [v.struct EXCEPT ![x] = w]] : <<x, w>> \in
                             UNION {{x} \X Variations(v.struct[x]) : x \in DOMAIN v.struct}}
             ELSE {}

Sent == [struct |-> SerializedFields(template, params)]

Answer(call, on, result) ==
    answer = Nil /\ answer' = [call |-> call, on |-> on, result |-> result] /\ UNCHANGED <<template, style, params, wire>>

ToContext == style = "generated" /\ wire = Nil /\ Answer("to_context", params, Context(template, params))

ToValue ==
    /\ wire = Nil /\ answer = Nil /\ ~HasTemplates(template)
    /\ wire' = Sent
    /\ UNCHANGED <<template, style, params, answer>>

(* A value of the same shape, or nearly, made by another program. *)
Receive ==
    /\ wire = Sent /\ answer = Nil
    /\ \E v \in Variations(wire) : wire' = v
    /\ UNCHANGED <<template, style, params, answer>>

CheckType == wire # Nil /\ Answer("check", Struct(template), Check(Struct(template), wire))

CheckInline ==
    \E d \in Fields(template) :
        d.type.k = "tmpl" /\ Answer("check", d, Check(d.type, params[d.name]))

FromValue ==
    /\ wire # Nil
    /\ \E h \in Decoded(Struct(template), wire, FALSE) : Answer("from_value", wire, h)

EmbedConst ==
    /\ style = "generated" /\ wire # Nil /\ CheckFast(Struct(template), wire)
    /\ \E d \in Fields(template) : Answer("const", d, Literal(d.type, wire.struct[d.name]))

(* An enum declared under types: that is given from_str. *)
HasFromStr(T) == T.k = "enum" /\ Kind(T.variants) # "data"

ReadName ==
    /\ style = "generated" /\ wire = Nil
    /\ \E d \in Fields(template) :
          /\ HasFromStr(d.type)
          /\ \E v \in ToSet(d.type.variants) : Answer("from_str", <<d, v>>, FromStr(d.type.variants, v.name))

Next == ToContext \/ ToValue \/ Receive \/ CheckType \/ CheckInline \/ FromValue \/ EmbedConst \/ ReadName

Spec == Init /\ [][Next]_vars
-----------------------------------------------------------------------------
(* What the properties say these values mean. *)

Answered(call) == Is(answer, "call") /\ answer.call = call

(* The fields a struct's setter leaves in the context around it. *)
RECURSIVE Spilled(_)
Spilled(T) ==
    IF T.k = "struct" THEN UNION {{f.name} \cup Spilled(f.type) : f \in Fields(T.fields)} ELSE {}

(* A value set as a struct, in itself, a row, an item or an option. *)
RECURSIVE HoldsStruct(_, _)
HoldsStruct(T, h) ==
    CASE T.k = "struct" -> TRUE
      [] T.k = "option" -> Is(h, "some") /\ HoldsStruct(T.of, h.some)
      [] T.k = "list" ->
            \E i \in DOMAIN h.list :
                IF T.of.k = "struct"
                THEN \E f \in Fields(T.of.fields) : HoldsStruct(f.type, h.list[i].struct[f.name])
                ELSE HoldsStruct(T.of, h.list[i])
      [] OTHER -> FALSE

(* h is a reading of v: the same variant, items and fields, at any depth.  *)
RECURSIVE Denotes(_, _, _)
DenotesFields(decls, f, m) ==
    \A d \in Fields(decls) : IF d.name \in DOMAIN m THEN Denotes(d.type, f[d.name], m[d.name]) ELSE f[d.name] = None

Denotes(T, h, v) ==
    CASE T.k = "list" ->
            Is(v, "list") /\ Len(h.list) = Len(v.list)
                /\ \A i \in DOMAIN v.list : Denotes(T.of, h.list[i], v.list[i])
      [] T.k = "struct" -> Is(v, "struct") /\ DenotesFields(T.fields, h.struct, v.struct)
      [] T.k = "option" -> IF h = None THEN v \in {None, Str(""), Str("None")} ELSE Denotes(T.of, h.some, v)
      [] T.k = "enum" ->
            LET w == VariantOf(T.variants, h.variant) IN
            \/ v = Str(w.name) /\ w.fields = <<>>
            \/ /\ Is(v, "struct") /\ Tag \in DOMAIN v.struct /\ v.struct[Tag] = Str(w.name)
               /\ DenotesFields(w.fields, h.fields, v.struct)
      [] OTHER -> h = v \/ (T.k = "float" /\ Is(v, "int") /\ h.float = v.int)

Tagged(variants) == style = "generated" /\ Kind(variants) = "data"

(* What is left of a value that is sent and read back: an option of an     *)
(* option, or of a text that stands for none, is none.                     *)
RECURSIVE Kept(_, _, _)
KeptFields(decls, f, buffered) ==
    [n \in NamesOf(decls) |-> Kept((CHOOSE d \in Fields(decls) : d.name = n).type, f[n], buffered)]

Kept(T, h, buffered) ==
    CASE T.k = "list" -> [list |-> [i \in DOMAIN h.list |-> Kept(T.of, h.list[i], buffered)]]
      [] T.k = "struct" -> [struct |-> KeptFields(T.fields, h.struct, buffered)]
      [] T.k = "option" ->
            IF h = None THEN None
            ELSE IF Serialized(T.of, h.some) \in {None} \cup IF buffered THEN {} ELSE {Str(""), Str("None")}
            THEN None
            ELSE [some |-> Kept(T.of, h.some, buffered)]
      [] T.k = "enum" ->
            [h EXCEPT !.fields = KeptFields(VariantOf(T.variants, h.variant).fields, h.fields,
                                            buffered \/ Tagged(T.variants))]
      [] OTHER -> h

(* A value the check accepts that from_value may refuse. *)
RECURSIVE Unreadable(_, _, _)
UnreadableField(decls, m, buffered) == \E d \in Fields(decls) : Unreadable(d.type, m[d.name], buffered)

Unreadable(T, v, buffered) ==
    CASE T.k = "float" -> ~buffered /\ Is(v, "int")
      [] T.k = "list" -> \E i \in DOMAIN v.list : Unreadable(T.of, v.list[i], buffered)
      [] T.k = "struct" -> UnreadableField(T.fields, v.struct, buffered)
      [] T.k = "option" -> v # None /\ Unreadable(T.of, v, buffered)
      [] T.k = "enum" /\ Is(v, "struct") ->
            LET w == T.variants[CHOOSE i \in NamedVariants(T.variants, v.struct[Tag].str) : TRUE]
            IN  \/ ~ReadsByName(T.variants) /\ Kind(T.variants) = "mixed"
                \/ buffered /\ Kind(T.variants) = "unit"
                \/ UnreadableField(w.fields, v.struct, buffered \/ Tagged(T.variants))
      [] OTHER -> FALSE

(* What is wrong with v is at the path, and nothing before it is missing. *)
RECURSIVE Blames(_, _, _)
BlamesField(decls, m, path) ==
    \E d \in Fields(decls) :
        /\ d.name = Head(path)
        /\ IF d.name \in DOMAIN m THEN Blames(d.type, m[d.name], Tail(path)) ELSE Len(path) = 1

Blames(T, v, path) ==
    CASE path = <<>> -> ~CheckFast(T, v)
      [] path # <<>> /\ T.k = "list" -> Blames(T.of, v.list[Head(path)], Tail(path))
      [] path # <<>> /\ T.k = "struct" -> BlamesField(T.fields, v.struct, path)
      [] path # <<>> /\ T.k = "option" -> Blames(T.of, v, path)
      [] path # <<>> /\ T.k = "enum" ->
            LET named == NamedVariants(T.variants, v.struct[Tag].str) IN
            IF path = <<Tag>> THEN named = {}
            ELSE \E i \in named : BlamesField(T.variants[i].fields, v.struct, path)
      [] path # <<>> /\ T.k = "tmpl" ->
            \A e \in Fields(T.params), d \in Fields(v.tmpl) :
                e.name = Head(path) /\ d.name = Head(path) => e.type # d.type

(* A constant that has no literal: the macro has none for an option, nor   *)
(* for an integer given to a float; and the variants it names wrongly.     *)
RECURSIVE NoLiteral(_, _)
NoLiteral(T, v) ==
    CASE T.k = "float" -> Is(v, "int")
      [] T.k = "option" -> TRUE
      [] T.k = "list" -> \E i \in DOMAIN v.list : NoLiteral(T.of, v.list[i])
      [] T.k = "struct" -> \E d \in Fields(T.fields) : NoLiteral(d.type, v.struct[d.name])
      [] T.k = "enum" /\ Is(v, "struct") ->
            \E d \in Fields(T.variants[CHOOSE i \in NamedVariants(T.variants, v.struct[Tag].str) : TRUE].fields) :
                NoLiteral(d.type, v.struct[d.name])
      [] OTHER -> FALSE

RECURSIVE NumberedVariants(_)
NumberedVariants(T) ==
    CASE T.k \in {"list", "option"} -> NumberedVariants(T.of)
      [] T.k = "struct" -> \E d \in Fields(T.fields) : NumberedVariants(d.type)
      [] T.k = "enum" ->
            \/ \E i \in DOMAIN T.variants : Idents(T.variants)[i] # VariantIdent[T.variants[i].name]
            \/ \E w \in ToSet(T.variants) : \E d \in Fields(w.fields) : NumberedVariants(d.type)
      [] OTHER -> FALSE
-----------------------------------------------------------------------------
(* to_context gives every parameter the value that serde gives it, one of  *)
(* its declared type, and sets no other name: except for what              *)
(* typed_dict_codegen does to a struct, whose fields go to the context     *)
(* around it (type_gen.rs:137), where they may also replace a parameter    *)
(* set before.                                                             *)
ContextConforms ==
    Answered("to_context") =>
        LET ctx == answer.result
            lost(i) == \/ HoldsStruct(template[i].type, params[template[i].name])
                       \/ \E j \in DOMAIN template : j > i /\ template[i].name \in Spilled(template[j].type)
        IN  /\ DOMAIN ctx = NamesOf(template) \cup UNION {Spilled(d.type) : d \in Fields(template)}
            /\ \A i \in DOMAIN template :
                  LET d == template[i] IN
                  ~lost(i) /\ d.type.k # "tmpl" =>
                      /\ ctx[d.name] = Serialized(d.type, params[d.name])
                      /\ CheckFast(d.type, ctx[d.name])

(* from_value returns what is in the value it is given, in whatever order  *)
(* the map's entries come, and from_value undoes to_value                  *)
(* (serde_support.rs:380): up to the options Kept names, and a data        *)
(* variant of a mixed enum may be refused.  A variant's name read with     *)
(* from_str is that variant, unless an earlier one differs only in case.   *)
RoundTrips ==
    /\ Answered("from_value") =>
          /\ answer.result # Failed => Denotes(Struct(template), answer.result, wire)
          /\ wire = Sent /\ ~Unreadable(Struct(template), wire, FALSE) =>
                answer.result = [struct |-> KeptFields(template, params, FALSE)]
    /\ Answered("from_str") =>
          LET variants == answer.on[1].type.variants
              v == answer.on[2]
              like == {w \in ToSet(variants) : w.fields = <<>> /\ Lower[w.name] = Lower[v.name]}
          IN  IF v \in like
              THEN answer.result # Failed /\ VariantOf(variants, answer.result.variant) \in like
              ELSE like = {} => answer.result = Failed

(* The constant a program reads is the one the frontmatter declares: its   *)
(* literal denotes it, where it has one and no variant needed a number.    *)
ConstantsAsDeclared ==
    Answered("const") =>
        LET T == answer.on.type
            v == wire.struct[answer.on.name]
        IN  /\ answer.result = Failed => NoLiteral(T, v) \/ NumberedVariants(T)
            /\ answer.result # Failed => NumberedVariants(T) \/ Denotes(T, answer.result, v)

(* The fast check and the one that reports a mismatch give one verdict,    *)
(* the path reported leads to what is wrong, and a value that passes can   *)
(* be read back, but for the values Unreadable names.                      *)
VerdictsAgree ==
    /\ Answered("check") =>
          LET T == IF Is(answer.on, "type") THEN answer.on.type ELSE answer.on
              v == IF Is(answer.on, "type") THEN params[answer.on.name] ELSE wire
          IN  /\ CheckFast(T, v) <=> CheckInner(T, v, <<>>) = Ok
              /\ answer.result # Ok => Blames(T, v, answer.result.at)
    /\ Answered("from_value") /\ answer.result = Failed /\ CheckFast(Struct(template), wire) =>
          Unreadable(Struct(template), wire, FALSE)
=============================================================================
