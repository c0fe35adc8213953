--------------------------- MODULE MCScriptRender ---------------------------
(* A template with a string, an option, a list and a template parameter, a *)
(* constant and an inline template; a file with an inline template of the  *)
(* same name in another directory, where the same path leads to a third    *)
(* file; and a template passed as a value.                                 *)
EXTENDS ScriptRender

Param(type, default) == [type |-> type, default |-> default]
Unit(dir, params, consts, inlines) ==
    [dir |-> dir, params |-> params, consts |-> consts, inlines |-> inlines]

MCUnits ==
    [main  |-> Unit("top", [x |-> Param("str", NoDefault), o |-> Param("option", NoDefault),
                            xs |-> Param("list", List(<<"a", "b">>)), t |-> Param("tmpl", NoDefault)],
                    [k |-> Str("c")], [part |-> "part"]),
     part  |-> Unit("none", [x |-> Param("str", NoDefault)], Empty, Empty),
     child |-> Unit("sub", [y |-> Param("str", Str("d")), p |-> Param("option", NoDefault)],
                    [k |-> Str("e"), l |-> List(<<"a">>)], [part |-> "own"]),
     own   |-> Unit("none", [y |-> Param("str", NoDefault)], Empty, Empty),
     leaf  |-> Unit("sub", [z |-> Param("option", NoDefault)], Empty, Empty),
     ref   |-> Unit("none", [o |-> Param("str", NoDefault)], Empty, Empty)]

(* The text None reaches the child's option, for which x may be given. *)
MCGiven ==
    LET given(x, o) == [x |-> Str(x), o |-> o, t |-> Tmpl("ref")]
    IN  {given("a", None), given("a", Str("b")), given("None", Str(""))}

MCDisk == [top |-> [child |-> "child"], sub |-> [child |-> "leaf"], none |-> Empty]

Arm(labels, guard) == [labels |-> labels, guard |-> guard]
MCMatches ==
    {<<Arm({"Some"}, NoGuard), Arm({"None"}, NoGuard)>>,
     <<Arm({"Some"}, "o"), Arm({"Some", "None"}, NoGuard)>>,
     <<Arm({"Some"}, "p"), Arm({"None"}, NoGuard)>>,
     <<Arm({"a"}, NoGuard), Arm({"x", "b"}, NoGuard)>>, <<Arm({"x"}, NoGuard)>>}

Call(path, name, with, for, in) ==
    [path |-> path, name |-> name, with |-> with, for |-> for, in |-> in]

(* A file with its option, or over a list, also one that is none; the two  *)
(* inline templates, which share a name; the template value.               *)
MCCalls ==
    LET strings == {"x", "o", "y", "i"}
    IN  {Call("child", "none", with, NoFor, "none") :
            with \in {Empty} \cup {[y |-> n] : n \in strings}
                    \cup {[p |-> n] : n \in {"x", "o"}} \cup {[z |-> "p"], [k |-> "x"]}}
        \cup {Call("child", "none", Empty, "y", n) : n \in {"xs", "x"}}
        \cup {Call("none", "part", [x |-> n, y |-> n], NoFor, "none") : n \in strings \cup {"k"}}
        \cup {Call("none", "t", [o |-> n], NoFor, "none") : n \in strings}
=============================================================================
