---------------------------- MODULE MCFrontmatter ----------------------------
(* Two directories, d1 and d2, with files lib and base; a template whose   *)
(* blocks are chosen from a few, in two families: one of paths and the     *)
(* constants in them, one of types and names.                              *)
EXTENDS Frontmatter

T(n) == [k |-> "name", n |-> n]
From(stem, n) == [k |-> "dot", stem |-> stem, n |-> n]
F(n, ty) == [name |-> n, type |-> ty]
Enum(variants) == [k |-> "enum", variants |-> variants]
V(n, fields) == [name |-> n, fields |-> fields]
Record(fields) == [k |-> "struct", fields |-> fields]
Of(ty) == [k |-> "list", fields |-> <<F("", ty)>>]

Int(n) == [k |-> "int", n |-> n]
Lit(v) == [k |-> "lit", v |-> v]
Word(w) == [k |-> "word", w |-> w]
NoDefault == [k |-> "none"]
Items(items) == [k |-> "list", items |-> items]
Entry(x, e) == [key |-> x, value |-> e]
D(n, ty, e) == [name |-> n, type |-> ty, default |-> e]

In(dir, stem) == [stem |-> stem, file |-> stem, dir |-> [k |-> "lit", v |-> Str(dir)]]
At(e, stem) == [stem |-> stem, file |-> stem, dir |-> [k |-> "expr", e |-> e]]

Stage == Enum(<<V("A", <<>>), V("B", <<F("f", T("str"))>>)>>)
Dir(d) == D("DIR", T("str"), Lit(Str(d)))
Lim(n) == D("LIM", T("int"), Lit(Int(n)))

File == [types |-> <<>>, imports |-> <<>>, env |-> <<>>, consts |-> <<>>, params |-> <<>>,
         allowUnused |-> FALSE, body |-> {}]

Plain == [File EXCEPT !.consts = <<Dir("d2"), Lim(1)>>]
Dependent == [File EXCEPT !.env = <<Dir("d1")>>, !.consts = <<D("LIM", T("str"), Word("DIR"))>>]
Typed == [File EXCEPT !.types = <<F("Stage", Stage)>>, !.consts = <<Dir("d1")>>,
                      !.params = <<D("p", T("Stage"), NoDefault)>>]
Chained == [File EXCEPT !.imports = <<In("d1", "base")>>, !.params = <<D("p", From("base", "Stage"), NoDefault)>>]
Mutual == [File EXCEPT !.imports = <<In("d1", "lib")>>, !.consts = <<Dir("d1"), D("S", Of(T("str")), Items(<<Word("DIR"), Word("NO")>>))>>]
Listed == [File EXCEPT !.imports = <<In("d1", "base")>>,
                       !.consts = <<D("S", Of(Of(T("str"))), Items(<<[k |-> "kinds", of |-> From("base", "Stage")]>>))>>]

Files(lib1, base1, lib2) ==
    [f \in {<<"d1", "lib">>, <<"d1", "base">>, <<"d2", "lib">>} |->
        IF f = <<"d1", "lib">> THEN lib1 ELSE IF f = <<"d1", "base">> THEN base1 ELSE lib2]
MCDisks == {Files(Plain, Typed, Typed), Files(Dependent, Typed, Plain), Files(Typed, Mutual, Dependent),
            Files(Chained, Typed, Plain), Files(Listed, Typed, Plain), Files([Mutual EXCEPT !.imports = <<In("d1", "base")>>], Mutual, Typed)}

Bool(b) == [k |-> "bool", b |-> b]
Given(n, v) == [x \in {n} |-> v]
Environments == {Nothing, Given("DIR", Str("d2")), Given("DIR", Int(7)),
           Given("LIM", [k |-> "str", s |-> "9", as |-> Int(9)]), Given("LIM", Str("d1"))}

MCPascal == [n \in {"p", "stage", "Stage", "DIR", "LIM", "R", "S", "lib", "X", "items"} |->
                CASE n = "p" -> "P" [] n = "stage" -> "Stage" [] n = "lib" -> "Lib"
                  [] n = "items" -> "Items" [] OTHER -> n]

Show(p) == [how |-> "show", path |-> p]
Kind(p) == [how |-> "kind", path |-> p]
Using(f, extra) == [f EXCEPT !.body = extra \cup {Show(<<f.params[i].name>>) : i \in 1..Len(f.params)}]

Paths ==
    {Using([File EXCEPT !.imports = i, !.env = e, !.consts = c, !.params = p], {}) :
        i \in {<<>>, <<In("d1", "lib")>>, <<At(<<"DIR">>, "lib")>>, <<In("d1", "lib"), At(<<"lib", "DIR">>, "base")>>,
               <<In("d1", "lib"), At(<<"lib", "DIR">>, "lib")>>, <<In("d1", "base"), At(<<"consts", "DIR">>, "lib")>>,
               <<At(<<"R", "d">>, "base"), At(<<"params", "DIR">>, "lib")>>},
        e \in {<<>>, <<Dir("d1")>>, <<D("DIR", T("str"), NoDefault)>>, <<Lim(0)>>,
               <<Dir("d1"), D("X", T("str"), Word("DIR"))>>},
        c \in {<<>>, <<Dir("d1")>>, <<Lim(2), D("S", T("int"), Word("LIM"))>>,
               <<D("R", Record(<<F("d", T("str"))>>), [k |-> "struct", entries |-> <<Entry("d", Lit(Str("d1")))>>]), Dir("d2")>>,
               <<Dir("d2"), D("S", Of(T("str")), [k |-> "kinds", of |-> From("lib", "Stage")])>>},
        p \in {<<>>, <<D("p", T("str"), Word("DIR"))>>, <<D("p", T("int"), Word("LIM"))>>,
               <<D("p", T("str"), From("lib", "DIR"))>>}}

Names ==
    {Using([File EXCEPT !.imports = i, !.types = t, !.consts = c, !.params = p], b) :
        i \in {<<>>, <<In("d2", "lib")>>},
        t \in {<<>>, <<F("Stage", Stage)>>, <<F("stage", Stage)>>, <<F("Rec", Record(<<F("a", T("str"))>>))>>},
        c \in {<<>>, <<Lim(1)>>, <<D("Stage", T("int"), Lit(Int(3)))>>, <<D("lib", T("str"), Lit(Str("d1")))>>},
        p \in {<<>>, <<D("stage", Stage, Word("A"))>>, <<D("stage", Stage, NoDefault), D("Stage", T("str"), NoDefault)>>,
               <<D("stage", T("str"), NoDefault)>>, <<D("Stage", T("Stage"), NoDefault)>>,
               <<D("lib", T("str"), NoDefault)>>, <<D("p", From("lib", "Stage"), Word("A"))>>,
               <<D("p", [k |-> "option", of |-> T("Stage")], [k |-> "variant", w |-> "B", entries |-> <<Entry("f", Lit(Str("d1")))>>])>>,
               <<D("items", [k |-> "list", fields |-> <<F("", T("Rec"))>>], Items(<<>>))>>, <<D("LIM", T("int"), NoDefault)>>},
        b \in {{}, {Show(<<"A">>)}, {Show(<<"LIM">>)}, {Kind(<<"Stage", "A">>)}, {Show(<<"lib", "Stage", "A">>)}}}

MCCalls == [src : Paths, env : Environments] \cup [src : Names, env : {Nothing}]
=============================================================================
