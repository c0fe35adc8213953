--------------------------- MODULE MCBodyCompiler ---------------------------
(* Every tag on a line of its own; a closing tag that ends a line of prose, *)
(* one with prose behind it, one without its prefix; two blocks in a line.  *)
EXTENDS BodyCompiler

Line(prefixed, toks) == [q |-> prefixed, toks |-> toks]

MCLines ==
    {Line(FALSE, <<>>), Line(FALSE, <<"text">>)}
    \cup {Line(TRUE, <<t>>) : t \in Tags}
    \cup {Line(FALSE, <<"text", "/if">>), Line(TRUE, <<"else", "text">>), Line(FALSE, <<"/for">>)}
    \cup {Line(TRUE, <<"for", "else", "/for">>), Line(TRUE, <<"match", "case", "else", "/match">>)}
=============================================================================
