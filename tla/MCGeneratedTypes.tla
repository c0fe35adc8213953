-------------------------- MODULE MCGeneratedTypes --------------------------
(* Templates of one to three parameters whose types nest enums of every    *)
(* class, structs, lists and options, with names that meet one another.    *)
EXTENDS GeneratedTypes

T(k) == [k |-> k]
F(n, ty) == [name |-> n, type |-> ty]
V(n, fields) == [name |-> n, fields |-> fields]
Enum(variants) == [k |-> "enum", variants |-> variants]
List(ty) == [k |-> "list", of |-> ty]
Option(ty) == [k |-> "option", of |-> ty]
Tmpl(decls) == [k |-> "tmpl", params |-> decls]
D(n, ty, default) == [name |-> n, type |-> ty, default |-> default]

Phase == Enum(<<V("on", <<>>), V("On", <<>>), V("off!", <<>>)>>)
Signs == Enum(<<V("+", <<>>), V("-", <<>>)>>)
Event == Enum(<<V("idle", <<>>), V("moved", <<F("x", T("float")), F("s", T("str"))>>)>>)
Shape == Enum(<<V("dot", <<F("at", Option(T("str")))>>), V("line", <<F("len", T("float")), F("phase", Phase)>>)>>)
Outer == Enum(<<V("one", <<F("event", Event)>>), V("two", <<F("row", Struct(<<F("s", T("str"))>>))>>)>>)
Twins == Enum(<<V("+", <<F("x", T("int"))>>), V("-", <<F("s", T("str"))>>)>>)
Point == Struct(<<F("x", T("float")), F("s", Option(T("str")))>>)
Nested == Struct(<<F("p", Struct(<<F("q", T("int"))>>)), F("self", T("str"))>>)
Signature == <<F("x", T("int"))>>

MCTemplates ==
    {<<F("s", T("str")), F("p", Point)>>,
     <<F("p", Point), F("x", T("int"))>>,
     <<F("n", Nested)>>,
     <<F("rows", List(Struct(<<F("x", T("float")), F("phase", Phase)>>)))>>,
     <<F("rows", List(Point)), F("o", Option(Option(T("str"))))>>,
     <<F("l", List(Option(T("int")))), F("e", Event)>>,
     <<F("signs", List(Signs)), F("phase", Phase)>>,
     <<F("twins", Twins), F("b", T("bool"))>>,
     <<F("shape", Shape), F("o", Option(Phase))>>,
     <<F("outer", Outer)>>,
     <<F("deep", List(Struct(<<F("p", Struct(<<F("q", T("int"))>>)), F("q", T("str"))>>)))>>,
     <<F("t", Tmpl(Signature)), F("p", Struct(<<F("t", T("int"))>>))>>}

MCIdent ==
    [n \in {"on", "On", "off!", "+", "-", "idle", "moved", "dot", "line", "one", "two"} |->
        CASE n \in {"on", "On"} -> "On" [] n = "off!" -> "Off" [] n \in {"+", "-"} -> "Variant"
          [] n = "idle" -> "Idle" [] n = "moved" -> "Moved" [] n = "dot" -> "Dot" [] n = "line" -> "Line"
          [] n = "one" -> "One" [] n = "two" -> "Two"]
MCLower == [n \in DOMAIN MCIdent |-> IF n = "On" THEN "on" ELSE n]

MCInlines ==
    {<<D("x", T("int"), FALSE)>>, <<D("x", T("str"), FALSE)>>, <<>>,
     <<D("y", T("int"), TRUE), D("x", T("int"), TRUE)>>, <<D("x", T("int"), FALSE), D("y", T("int"), FALSE)>>}
=============================================================================
