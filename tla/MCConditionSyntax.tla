-------------------------- MODULE MCConditionSyntax --------------------------
EXTENDS ConditionSyntax

(* A boolean, a text, an enum of two variants and an optional text. *)
MCTypeOf == [p |-> "bool", s |-> "str", e |-> "enum", o |-> "option"]
MCVariants == {"A", "B"}

MCEnvs == {[p |-> "true", s |-> "", e |-> "A", o |-> "none"],
           [p |-> "false", s |-> "v", e |-> "B", o |-> "v"],
           [p |-> "false", s |-> "", e |-> "A", o |-> "none"]}

MCPhrases ==
    {<<w>> : w \in {"p", "!", "(", ")", "&&", "||", "==", "o", "A", "match", "case"}}
      \cup {<<"(", "p", ")">>, <<"(", "p", "||">>, <<"s", "==", Paren>>, <<"s", "in", "s">>, <<"o", "==", "s">>,
            <<"match", "e", "case", "A">>, <<"match", "o", "case", "Some">>,
            <<"match", "e", "case", "A", "|", "B">>, <<"|", Wildcard>>}
=============================================================================
