--------------------------- MODULE MCTypeSoundness ---------------------------
(* One parameter p of five shapes, a flag b, and at times a parameter with *)
(* the name of a label; a field f and a field g.                           *)
EXTENDS TypeSoundness, TLC

Str(s) == [k |-> "str", s |-> s]
Struct(f) == [k |-> "struct", f |-> f]
List(items) == [k |-> "list", items |-> items]
Of(name, f) == Struct([x \in {"__kind__"} |-> Str(name)] @@ f)
None == [k |-> "none"]
Flag(b) == [k |-> "bool", b |-> b]

TStr == [k |-> "str"]
TStruct(fields) == [k |-> "struct", fields |-> fields]
TOption(of) == [k |-> "option", of |-> of]
TList(of) == [k |-> "list", of |-> of]
TEnum(variants) == [k |-> "enum", variants |-> variants]
V(name, fields) == [name |-> name, fields |-> fields]

(* enum(A(f = str), C) and enum(A(f = str), B(f = str, g = str), C) *)
E2 == TEnum(<<V("A", [f |-> TStr]), V("C", <<>>)>>)
E3 == TEnum(<<V("A", [f |-> TStr]), V("B", [f |-> TStr, g |-> TStr]), V("C", <<>>)>>)
A == Of("A", [f |-> Str("x")])
B == Of("B", [f |-> Str("x"), g |-> Str("")])

Typed ==
    {<<E3, v>> : v \in {A, B, Str("C")}}
    \cup {<<TOption(E2), v>> : v \in {None, A, Str("C")}}
    \cup {<<TOption(TStruct([f |-> TStr, g |-> TOption(TStr)])), v>> :
            v \in {None, Struct([f |-> Str("x"), g |-> Str("")]), Struct([f |-> Str(""), g |-> None])}}
    \cup {<<TStruct([f |-> E2, g |-> TOption(E2)]), Struct([f |-> f, g |-> g])>> :
            f \in {A, Str("C")}, g \in {None, A}}
    \cup {<<TList(TStruct([f |-> E2, g |-> TList(TStruct([f |-> E2]))])), v>> :
            v \in {List(<<>>), List(<<Struct([f |-> A, g |-> List(<<Struct([f |-> Str("C")])>>)]),
                                      Struct([f |-> Str("C"), g |-> List(<<>>)])>>)}}

Plain == {[decls |-> [p |-> t[1], b |-> [k |-> "bool"]], ctx |-> [p |-> t[2], b |-> Flag(b)]] :
                t \in Typed, b \in BOOLEAN}

(* A str parameter with the name of a label, holding that of another. *)
Named(ty, v, label, other) ==
    [decls |-> [x \in {label} |-> TStr] @@ [p |-> ty, b |-> [k |-> "bool"]],
     ctx |-> [x \in {label} |-> Str(other)] @@ [p |-> v, b |-> Flag(TRUE)]]

MCInputs == Plain \cup {Named(E3, Str("C"), "A", "C"), Named(E3, A, "B", "A"),
                        Named(TOption(E2), None, "Some", "None"), Named(TOption(E2), A, "None", "Some")}

MCPaths == {<<"p">>, <<"p", "f">>, <<"p", "g">>, <<"p", "f", "f">>, <<"p", "g", "f">>, <<"p", "C">>,
            <<"i">>, <<"i", "f">>, <<"i", "g">>, <<"i", "f", "f">>}

Has(p) == [k |-> "has", p |-> p]
Path(p) == [k |-> "path", p |-> p]
Is(p, v) == [k |-> "is", p |-> p, v |-> v]
Not(c) == [k |-> "not", c |-> c]
And(l, r) == [k |-> "and", l |-> l, r |-> r]
Or(l, r) == [k |-> "or", l |-> l, r |-> r]

HasP == Has(<<"p">>)
HasG == Has(<<"p", "g">>)
IsSet == Path(<<"b">>)
MCConditions ==
    {HasP, HasG, IsSet, Path(<<"p", "f">>), Path(<<"p", "f", "f">>), Not(HasP), Not(HasG),
     And(HasP, HasG), And(IsSet, HasP), And(HasP, Is(<<"p">>, "A")), Or(IsSet, HasP)}
    \cup {Is(<<"p">>, v) : v \in {"A", "Some"}}

MCGuards == {IsSet}
MCLabels == {{"A"}, {"B"}, {"C"}, {"A", "B"}, {"Some"}, {"None"}, {"Some", "None"}}
MCBindings == {"i", "p"}
=============================================================================
