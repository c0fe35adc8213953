--------------------------- MODULE ConditionSyntax ---------------------------
(***************************************************************************)
(* The four readers of an `if` condition or a guard.                       *)
(*                                                                         *)
(*   - the core parses it once, by cutting its text at operators           *)
(*     (compiled/analysis.rs), checks the types of its operands and        *)
(*     evaluates the tree it built (compiled/render/condition.rs);         *)
(*   - the TypeScript engine checks the text with a port of that parser    *)
(*     (condition_validate.ts), collects the names it refers to with       *)
(*     another (template/references.ts), and keeps the text: each render   *)
(*     tokenizes it and evaluates while it parses (evaluator.ts), so an    *)
(*     operand that a short circuit leaves out must be skipped, by         *)
(*     functions of their own;                                             *)
(*   - renderUnchecked does that once more over plain values               *)
(*     (direct_renderer/condition.ts).                                     *)
(*                                                                         *)
(* A condition is a sequence of words, written with a space between them.  *)
(* The string literal Paren contains a closing parenthesis.                *)
(***************************************************************************)
EXTENDS Naturals, Sequences, FiniteSets

CONSTANTS
    Phrases,        \* what the author may write next, each a sequence of words
    MaxPhrases,     \* how many, a phrase out of place counting twice
    TypeOf,         \* parameter -> "bool", "str", "enum" or "option"
    Variants,       \* of the enum
    Envs            \* the values the parameters may have: parameter -> value

Names == DOMAIN TypeOf
Paren == "\")\""
Wildcard == "_"
OptionLabels == {"Some", "None"}
Idents == Names \cup Variants \cup OptionLabels \cup {Wildcard}

ASSUME ConditionAssumptions ==
    /\ \A f \in Phrases : f # <<>>
    /\ \A v \in Envs : DOMAIN v = Names
    /\ Names \cap (Variants \cup OptionLabels \cup {Wildcard}) = {}

VARIABLES
    cond,           \* the words written so far
    spent,          \* phrases written, out of MaxPhrases
    env             \* the arguments of the render, or Unrendered

vars == <<cond, spent, env>>

-----------------------------------------------------------------------------
(* Cutting a text at words (both parsers). *)

Before(s, i) == SubSeq(s, 1, i - 1)
After(s, i) == SubSeq(s, i + 1, Len(s))
Last(s) == s[Len(s)]

(* How many parentheses are open in front of word i.  split_top_level, in
   both languages, and find_top_level_op in Rust never go below none. *)
Saturating(s, i) ==
    LET d[k \in 1..Len(s) + 1] ==
            IF k = 1 THEN 0
            ELSE CASE s[k - 1] = "(" -> d[k - 1] + 1
                   [] s[k - 1] = ")" -> IF d[k - 1] = 0 THEN 0 ELSE d[k - 1] - 1
                   [] OTHER -> d[k - 1]
    IN  d[i]

Opened(s, i) == Cardinality({k \in 1..i - 1 : s[k] = "("})
Closed(s, i) == Cardinality({k \in 1..i - 1 : s[k] = ")"})

LeastOf(S) == CHOOSE i \in S : \A j \in S : i <= j

(* What the cuts leave. *)
Between(s, cuts) ==
    LET ends == cuts \cup {Len(s) + 1}
    IN  {SubSeq(s, a + 1, LeastOf({b \in ends : b > a}) - 1) : a \in cuts \cup {0}}

SplitTopLevel(s, w) == {i \in DOMAIN s : s[i] = w /\ Saturating(s, i) = 0}

(* The group a text opens with, when it closes at the end.  The scan sees
   every character, the parenthesis inside a literal too. *)
StripBalancedParens(s) ==
    LET closing(i) == Closed(s, i + 1) + Cardinality({k \in 1..i : s[k] = Paren})
        even == {i \in DOMAIN s : Opened(s, i + 1) = closing(i)}
    IN  IF even # {} /\ Last(s) = ")" /\ LeastOf(even) = Len(s)
        THEN SubSeq(s, 2, Len(s) - 1) ELSE <<>>

(* " case " and " in " need something on either side. *)
Inner(s, w) == {i \in DOMAIN s : s[i] = w /\ 1 < i /\ i < Len(s)}

FindTopLevelOp(s, op) ==
    {i \in IF op = "in" THEN Inner(s, op) ELSE DOMAIN s :
        s[i] = op /\ Saturating(s, i) = 0}

-----------------------------------------------------------------------------
(* The core's parser: a tree, or Bad. *)

Bad == [k |-> "bad"]
Node(k, l, r) == IF Bad \in {l, r} THEN Bad ELSE [k |-> k, l |-> l, r |-> r]

(* What begins and ends with a quote is one literal to the core, whatever is
   between. *)
Quoted(s) == s # <<>> /\ s[1] = Paren /\ Last(s) = Paren

(* An operand of several words is a path no parameter has. *)
Operand(s) == IF s = <<>> THEN Bad ELSE [k |-> "operand", of |-> s]

(* It is refused when it calls a function or names a filter: none of the words
   is one that the core knows. *)
IsWord(w) == w \notin {"(", ")", "!", "&&", "||", "==", "|", Paren}
IsIdentifier(s) == Len(s) = 1 /\ IsWord(s[1])
Calls(s) == Len(s) > 3 /\ IsWord(s[1]) /\ s[2] = "(" /\ Last(s) = ")"
Filtered(s) == \E i \in DOMAIN s : s[i] = "|" /\ Saturating(s, i) = 0
KnownOperand(s) == Quoted(s) \/ ~(Calls(s) \/ Filtered(s))

(* `expr case Variant [| Variant]*`: a label is what stands between bars. *)
Labels(s) == Between(s, {i \in DOMAIN s : s[i] = "|"})

MatchAsCondition(s) ==
    IF Inner(s, "case") = {} THEN Bad
    ELSE LET at == LeastOf(Inner(s, "case"))
         IN  [k |-> "match", of |-> Before(s, at), labels |-> Labels(After(s, at))]

Compared(s, op, at) == Node(op, Operand(Before(s, at)), Operand(After(s, at)))

ParsePrimary(s) ==
    CASE s # <<>> /\ s[1] = "match" /\ Len(s) > 1 -> MatchAsCondition(Tail(s))
      [] s = <<>> \/ s[1] # "match" \/ Len(s) = 1 ->
            IF FindTopLevelOp(s, "==") # {} THEN Compared(s, "==", LeastOf(FindTopLevelOp(s, "==")))
            ELSE IF FindTopLevelOp(s, "in") # {} THEN Compared(s, "in", LeastOf(FindTopLevelOp(s, "in")))
            ELSE Operand(s)

RECURSIVE ParseOr(_), ParseAnd(_), ParseUnary(_)

(* The first cut divides the text; what follows is cut again. *)
ParseOr(s) ==
    IF SplitTopLevel(s, "||") = {} THEN ParseAnd(s)
    ELSE LET at == LeastOf(SplitTopLevel(s, "||"))
         IN  Node("||", ParseAnd(Before(s, at)), ParseOr(After(s, at)))

ParseAnd(s) ==
    IF SplitTopLevel(s, "&&") = {} THEN ParseUnary(s)
    ELSE LET at == LeastOf(SplitTopLevel(s, "&&"))
         IN  Node("&&", ParseUnary(Before(s, at)), ParseAnd(After(s, at)))

ParseUnary(s) ==
    CASE s # <<>> /\ s[1] = "!" -> Node("!", ParseUnary(Tail(s)), [k |-> "nothing"])
      [] s # <<>> /\ s[1] = "(" -> IF StripBalancedParens(s) = <<>> THEN Bad
                                   ELSE ParseOr(StripBalancedParens(s))
      [] s = <<>> \/ s[1] \notin {"!", "("} -> ParsePrimary(s)

(* Its type check: what an `if` may test, compare and match. *)
OperandType(t) ==
    IF t.k # "operand" THEN "none"
    ELSE IF Quoted(t.of) THEN "str"
    ELSE IF Len(t.of) = 1 /\ t.of[1] \in Names THEN TypeOf[t.of[1]] ELSE "none"

RECURSIVE ValidCondition(_)
ValidCondition(t) ==
    CASE t.k = "bad" -> FALSE
      [] t.k = "operand" -> OperandType(t) \in {"bool", "str"}
      [] t.k = "!" -> ValidCondition(t.l)
      [] t.k \in {"&&", "||"} -> ValidCondition(t.l) /\ ValidCondition(t.r)
      [] t.k = "==" -> {OperandType(t.l), OperandType(t.r)} \cap {"none", "enum"} = {}
      [] t.k = "in" -> OperandType(t.l) = "str" /\ OperandType(t.r) = "str"
      [] t.k = "match" ->
            /\ Len(t.of) = 1 /\ t.of[1] \in Names
            /\ \A n \in t.labels : Len(n) = 1
            /\ LET labels == {n[1] : n \in t.labels}
               IN  CASE TypeOf[t.of[1]] = "enum" -> labels \subseteq Variants \cup {Wildcard}
                     [] TypeOf[t.of[1]] = "option" -> labels \subseteq OptionLabels \cup {Wildcard}
                     [] OTHER -> FALSE

-----------------------------------------------------------------------------
(* Values are texts: "true" and "false" are the booleans, "none" an absent
   option, a unit variant its name.  A result is "true", "false", "error" or,
   in TypeScript, "syntax": the reader met a word it did not expect. *)

Value(w) == IF w \in Names THEN env[w] ELSE IF w = Paren THEN ")" ELSE "undeclared"
Truth(b) == IF b THEN "true" ELSE "false"
Negated(r) == IF r = "true" THEN "false" ELSE IF r = "false" THEN "true" ELSE r
IsTruthy(v) == v \notin {"", "false"}
Contains(text, part) == part \in {"", text}

MatchVariant(v, isOption) ==
    IF v = "none" THEN "None" ELSE IF isOption THEN "Some" ELSE v

(* The core's evaluation of a tree it accepted. *)
RECURSIVE EvalCondition(_)
EvalCondition(t) ==
    CASE t.k = "operand" -> IF Value(t.of[1]) = "none" THEN "error"
                            ELSE Truth(IsTruthy(Value(t.of[1])))
      [] t.k = "!" -> Negated(EvalCondition(t.l))
      [] t.k = "&&" -> IF EvalCondition(t.l) = "true" THEN EvalCondition(t.r)
                       ELSE EvalCondition(t.l)
      [] t.k = "||" -> IF EvalCondition(t.l) = "false" THEN EvalCondition(t.r)
                       ELSE EvalCondition(t.l)
      [] t.k = "==" -> Truth(Value(t.l.of[1]) = Value(t.r.of[1]))
      [] t.k = "in" -> Truth(Contains(Value(t.r.of[1]), Value(t.l.of[1])))
      [] t.k = "match" ->
            LET labels == {n[1] : n \in t.labels}
            IN  Truth(\/ Wildcard \in labels
                      \/ MatchVariant(Value(t.of[1]), labels \cap OptionLabels # {}) \in labels)

RECURSIVE Operands(_), ConditionVariables(_)
Operands(t) ==
    CASE t.k = "operand" -> {t.of}
      [] t.k \in {"bad", "match"} -> {}
      [] t.k = "!" -> Operands(t.l)
      [] t.k \notin {"operand", "bad", "match", "!"} -> Operands(t.l) \cup Operands(t.r)

(* A name is all the words of its path. *)
ConditionVariables(t) ==
    CASE t.k = "operand" -> IF Quoted(t.of) THEN {} ELSE {t.of}
      [] t.k = "match" -> {t.of}
      [] t.k = "!" -> ConditionVariables(t.l)
      [] t.k \notin {"operand", "match", "!"} ->
            ConditionVariables(t.l) \cup ConditionVariables(t.r)

-----------------------------------------------------------------------------
(* TypeScript's check of the text when a template is constructed. *)

(* Its search for an operator counts below none. *)
CondFindTopLevelOp(s, op) ==
    {i \in IF op = "in" THEN Inner(s, op) ELSE DOMAIN s :
        s[i] = op /\ Opened(s, i) = Closed(s, i)}

ValidateMatchAsCondition(s) == Inner(s, "case") # {}

ValidatePrimary(s) ==
    CASE s # <<>> /\ s[1] = "match" /\ Len(s) > 1 -> ValidateMatchAsCondition(Tail(s))
      [] s = <<>> \/ s[1] # "match" \/ Len(s) = 1 ->
            LET first == IF CondFindTopLevelOp(s, "==") # {}
                         THEN CondFindTopLevelOp(s, "==") ELSE CondFindTopLevelOp(s, "in")
            IN  IF first = {} THEN s # <<>>
                ELSE LeastOf(first) > 1 /\ LeastOf(first) < Len(s)

RECURSIVE ValidateOrExpr(_), ValidateUnaryExpr(_)

ValidateAndExpr(s) == \A p \in Between(s, SplitTopLevel(s, "&&")) : ValidateUnaryExpr(p)
ValidateOrExpr(s) == \A p \in Between(s, SplitTopLevel(s, "||")) : ValidateAndExpr(p)

ValidateUnaryExpr(s) ==
    CASE s # <<>> /\ s[1] = "!" -> ValidateUnaryExpr(Tail(s))
      [] s # <<>> /\ s[1] = "(" -> /\ StripBalancedParens(s) # <<>>
                                   /\ ValidateOrExpr(StripBalancedParens(s))
      [] s = <<>> \/ s[1] \notin {"!", "("} -> ValidatePrimary(s)

-----------------------------------------------------------------------------
(* TypeScript's evaluation while it parses.  A result is where the reader
   stands and what it found; c is the condition, i the word it reads next. *)

Peek(c, i) == IF i \in DOMAIN c THEN c[i] ELSE "end"
IsOperand(w) == w \in Idents \cup {Paren}
IsComparison(w) == w \in {"==", "in"}
Failed(r) == r.val \in {"error", "syntax"}
At(i, v) == [at |-> i, val |-> v]
Syntax == At(0, "syntax")

(* coerceForComparison displays what is no scalar: an absent option is "". *)
Coerced(v) == IF v = "none" THEN "" ELSE v

EvaluateComparison(l, r, op) ==
    IF "undeclared" \in {l, r} THEN "error"
    ELSE IF op = "==" THEN Truth(Coerced(l) = Coerced(r))
    ELSE IF {l, r} \cap {"none", "true", "false"} # {} THEN "error"
    ELSE Truth(Contains(r, l))

(* Skips return where they stop, 0 when they throw. *)
SkipOperand(c, i) == IF i \in DOMAIN c THEN i + 1 ELSE i

\* Mutant: reads the first label of a pattern only.
SkipBars_OneLabel(c, i) == i

RECURSIVE SkipBars(_, _)
SkipBars(c, i) == IF Peek(c, i) = "|" THEN SkipBars(c, SkipOperand(c, i + 1)) ELSE i

RECURSIVE SkipOrExpr(_, _), SkipAndExpr(_, _), SkipUnaryExpr(_, _)

SkipAtom(c, i) ==
    CASE Peek(c, i) = "end" -> 0
      [] Peek(c, i) = "(" ->
            LET close == SkipOrExpr(c, i + 1)
            IN  IF close # 0 /\ Peek(c, close) = ")" THEN close + 1 ELSE 0
      [] Peek(c, i) = "match" ->
            LET case == SkipOperand(c, i + 1)
            IN  IF Peek(c, case) = "case" THEN SkipBars(c, SkipOperand(c, case + 1)) ELSE case
      [] Peek(c, i) \notin {"end", "(", "match"} ->
            IF IsComparison(Peek(c, i + 1)) THEN SkipOperand(c, i + 2) ELSE i + 1

SkipUnaryExpr(c, i) ==
    IF Peek(c, i) = "!" THEN SkipUnaryExpr(c, i + 1) ELSE SkipAtom(c, i)

RECURSIVE SkipAnds(_, _), SkipOrs(_, _)
SkipAnds(c, i) ==
    IF i # 0 /\ Peek(c, i) = "&&" THEN SkipAnds(c, SkipUnaryExpr(c, i + 1)) ELSE i
SkipOrs(c, i) ==
    IF i # 0 /\ Peek(c, i) = "||" THEN SkipOrs(c, SkipAndExpr(c, i + 1)) ELSE i

SkipAndExpr(c, i) == SkipAnds(c, SkipUnaryExpr(c, i))
SkipOrExpr(c, i) == SkipOrs(c, SkipAndExpr(c, i))

Skipped(i, v) == IF i = 0 THEN Syntax ELSE At(i, v)

(* `case` and the labels after it; an identifier each. *)
RECURSIVE LabelsEnd(_, _)
LabelsEnd(c, i) ==
    IF Peek(c, i) \notin Idents THEN 0
    ELSE IF Peek(c, i + 1) = "|" THEN LabelsEnd(c, i + 2) ELSE i + 1

LabelsIn(c, i, end) == {c[k] : k \in {n \in i..end - 1 : c[n] # "|"}}

ParseMatchCondition(c, i) ==
    IF ~IsOperand(Peek(c, i + 1)) THEN Syntax
    ELSE IF Value(c[i + 1]) = "undeclared" THEN At(i, "error")
    ELSE IF Peek(c, i + 2) # "case" \/ LabelsEnd(c, i + 3) = 0 THEN Syntax
    ELSE LET labels == LabelsIn(c, i + 3, LabelsEnd(c, i + 3))
         IN  At(LabelsEnd(c, i + 3),
                Truth(MatchVariant(Value(c[i + 1]), labels \cap OptionLabels # {}) \in labels))

RECURSIVE ParseOrExpr(_, _), ParseAndExpr(_, _), ParseUnaryExpr(_, _)

Closing(c, r) ==
    IF Failed(r) THEN r
    ELSE IF Peek(c, r.at) = ")" THEN At(r.at + 1, r.val) ELSE Syntax

ParseAtom(c, i) ==
    CASE Peek(c, i) = "(" -> IF Peek(c, i + 1) = ")" THEN Syntax
                             ELSE Closing(c, ParseOrExpr(c, i + 1))
      [] Peek(c, i) = "match" -> ParseMatchCondition(c, i)
      [] Peek(c, i) \notin {"(", "match"} ->
            IF ~IsOperand(Peek(c, i)) THEN Syntax
            ELSE IF IsComparison(Peek(c, i + 1))
                 THEN IF ~IsOperand(Peek(c, i + 2)) THEN Syntax
                      ELSE At(i + 3, EvaluateComparison(Value(c[i]), Value(c[i + 2]), c[i + 1]))
                 ELSE At(i + 1, IF Value(c[i]) \in {"none", "undeclared"} THEN "error"
                                ELSE Truth(IsTruthy(Value(c[i]))))

Not(r) == At(r.at, Negated(r.val))

\* Mutant: a negation reaches over the &&s that follow.
ParseUnaryExpr_Wide(c, i) ==
    IF Peek(c, i) = "!" THEN Not(ParseAndExpr(c, i + 1)) ELSE ParseAtom(c, i)

ParseUnaryExpr(c, i) ==
    IF Peek(c, i) = "!" THEN Not(ParseUnaryExpr(c, i + 1)) ELSE ParseAtom(c, i)

(* The loops: evaluate what decides, skip what no longer can. *)
RECURSIVE AndRest(_, _), OrRest(_, _)
AndRest(c, r) ==
    IF Failed(r) \/ Peek(c, r.at) # "&&" THEN r
    ELSE IF r.val = "true" THEN AndRest(c, ParseUnaryExpr(c, r.at + 1))
    ELSE AndRest(c, Skipped(SkipUnaryExpr(c, r.at + 1), r.val))

OrRest(c, r) ==
    IF Failed(r) \/ Peek(c, r.at) # "||" THEN r
    ELSE IF r.val = "false" THEN OrRest(c, ParseAndExpr(c, r.at + 1))
    ELSE OrRest(c, Skipped(SkipAndExpr(c, r.at + 1), r.val))

ParseAndExpr(c, i) == AndRest(c, ParseUnaryExpr(c, i))
ParseOrExpr(c, i) == OrRest(c, ParseAndExpr(c, i))

Whole(c, r) == IF ~Failed(r) /\ r.at <= Len(c) THEN "syntax" ELSE r.val
EvaluateCondition(c) == Whole(c, ParseOrExpr(c, 1))

-----------------------------------------------------------------------------
(* The same over plain JavaScript values, for renderUnchecked: skips never
   throw, an absent option is false, comparisons are ===, an unknown name is
   undefined, and a subject that names no variant counts as "Some". *)

Plain(w) == IF Value(w) = "undeclared" THEN "none" ELSE Value(w)

EvaluateDirectComparison(l, r, op) ==
    IF op = "==" THEN Truth(l = r)
    ELSE IF {l, r} \cap {"none", "true", "false"} # {} THEN "error"
    ELSE Truth(Contains(r, l))

SkipDirectOperand(c, i) == IF IsOperand(Peek(c, i)) THEN i + 1 ELSE i

RECURSIVE SkipDirectBars(_, _)
SkipDirectBars(c, i) ==
    IF Peek(c, i) = "|" THEN SkipDirectBars(c, SkipDirectOperand(c, i + 1)) ELSE i

RECURSIVE SkipDirectOrExpr(_, _), SkipDirectUnaryExpr(_, _), SkipDirectAnds(_, _), SkipDirectOrs(_, _)

SkipDirectAtom(c, i) ==
    CASE Peek(c, i) = "end" -> i
      [] Peek(c, i) = "(" ->
            LET close == SkipDirectOrExpr(c, i + 1)
            IN  IF Peek(c, close) = ")" THEN close + 1 ELSE close
      [] Peek(c, i) = "match" ->
            LET case == SkipDirectOperand(c, i + 1)
            IN  IF Peek(c, case) = "case"
                THEN SkipDirectBars(c, SkipDirectOperand(c, case + 1)) ELSE case
      [] Peek(c, i) \notin {"end", "(", "match"} ->
            LET next == SkipDirectOperand(c, i)
            IN  IF IsComparison(Peek(c, next)) THEN SkipDirectOperand(c, next + 1) ELSE next

SkipDirectUnaryExpr(c, i) ==
    IF Peek(c, i) = "!" THEN SkipDirectUnaryExpr(c, i + 1) ELSE SkipDirectAtom(c, i)
SkipDirectAnds(c, i) ==
    IF Peek(c, i) = "&&" THEN SkipDirectAnds(c, SkipDirectUnaryExpr(c, i + 1)) ELSE i
SkipDirectAndExpr(c, i) == SkipDirectAnds(c, SkipDirectUnaryExpr(c, i))
SkipDirectOrs(c, i) ==
    IF Peek(c, i) = "||" THEN SkipDirectOrs(c, SkipDirectAndExpr(c, i + 1)) ELSE i
SkipDirectOrExpr(c, i) == SkipDirectOrs(c, SkipDirectAndExpr(c, i))

ParseDirectMatchCondition(c, i) ==
    IF ~IsOperand(Peek(c, i + 1)) \/ Peek(c, i + 2) # "case" \/ LabelsEnd(c, i + 3) = 0
    THEN Syntax
    ELSE LET labels == LabelsIn(c, i + 3, LabelsEnd(c, i + 3))
         IN  At(LabelsEnd(c, i + 3),
                Truth(MatchVariant(Plain(c[i + 1]), labels \cap OptionLabels # {}) \in labels))

RECURSIVE ParseDirectOrExpr(_, _), ParseDirectUnaryExpr(_, _)
RECURSIVE DirectAndRest(_, _), DirectOrRest(_, _)

ParseDirectAtom(c, i) ==
    CASE Peek(c, i) = "(" -> IF Peek(c, i + 1) = ")" THEN Syntax
                             ELSE Closing(c, ParseDirectOrExpr(c, i + 1))
      [] Peek(c, i) = "match" -> ParseDirectMatchCondition(c, i)
      [] Peek(c, i) \notin {"(", "match"} ->
            IF ~IsOperand(Peek(c, i)) THEN Syntax
            ELSE IF IsComparison(Peek(c, i + 1))
                 THEN IF ~IsOperand(Peek(c, i + 2)) THEN Syntax
                      ELSE At(i + 3, EvaluateDirectComparison(Plain(c[i]), Plain(c[i + 2]), c[i + 1]))
                 ELSE At(i + 1, Truth(Plain(c[i]) # "none" /\ IsTruthy(Plain(c[i]))))

ParseDirectUnaryExpr(c, i) ==
    IF Peek(c, i) = "!" THEN Not(ParseDirectUnaryExpr(c, i + 1)) ELSE ParseDirectAtom(c, i)

DirectAndRest(c, r) ==
    IF Failed(r) \/ Peek(c, r.at) # "&&" THEN r
    ELSE IF r.val = "true" THEN DirectAndRest(c, ParseDirectUnaryExpr(c, r.at + 1))
    ELSE DirectAndRest(c, At(SkipDirectUnaryExpr(c, r.at + 1), r.val))

ParseDirectAndExpr(c, i) == DirectAndRest(c, ParseDirectUnaryExpr(c, i))

DirectOrRest(c, r) ==
    IF Failed(r) \/ Peek(c, r.at) # "||" THEN r
    ELSE IF r.val = "false" THEN DirectOrRest(c, ParseDirectAndExpr(c, r.at + 1))
    ELSE DirectOrRest(c, At(SkipDirectAndExpr(c, r.at + 1), r.val))

ParseDirectOrExpr(c, i) == DirectOrRest(c, ParseDirectAndExpr(c, i))
EvaluateDirectCondition(c) == Whole(c, ParseDirectOrExpr(c, 1))

-----------------------------------------------------------------------------
(* The names a condition refers to, read from the text a third time: for the
   checks of undeclared and unused parameters. *)

OperandRefs(s) ==
    LET bars == {i \in DOMAIN s : s[i] \in {"|", "||"}}
        base == IF bars = {} THEN s ELSE Before(s, LeastOf(bars))
    IN  IF ~Quoted(s) /\ IsIdentifier(base) THEN {base} ELSE {}

BalancedOuter(s) ==
    /\ s # <<>> /\ s[1] = "(" /\ Last(s) = ")"
    /\ \A i \in 1..Len(s) - 1 :
          Opened(s, i + 1) # Closed(s, i + 1) + Cardinality({k \in 1..i : s[k] = Paren})

RECURSIVE ExtractConditionVariables(_)
ExtractConditionVariables(s) ==
    IF BalancedOuter(s) THEN ExtractConditionVariables(SubSeq(s, 2, Len(s) - 1))
    ELSE IF s # <<>> /\ s[1] = "!" THEN ExtractConditionVariables(Tail(s))
    ELSE IF \E op \in {"&&", "||"} : CondFindTopLevelOp(s, op) # {}
    THEN LET op == IF CondFindTopLevelOp(s, "&&") # {} THEN "&&" ELSE "||"
         IN  UNION {ExtractConditionVariables(p) : p \in Between(s, CondFindTopLevelOp(s, op))}
    ELSE IF s # <<>> /\ s[1] = "match" /\ Inner(s, "case") # {}
    THEN OperandRefs(SubSeq(s, 2, LeastOf(Inner(s, "case")) - 1))
    ELSE LET cut == IF CondFindTopLevelOp(s, "==") # {}
                    THEN CondFindTopLevelOp(s, "==") ELSE CondFindTopLevelOp(s, "in")
         IN  IF cut = {} THEN OperandRefs(s)
             ELSE OperandRefs(Before(s, LeastOf(cut))) \cup OperandRefs(After(s, LeastOf(cut)))

-----------------------------------------------------------------------------
(* The author writes the condition; the host renders with some arguments. *)

Expects(c) ==
    IF c = <<>> \/ Last(c) \in {"!", "(", "&&", "||", "==", "in", "match"} THEN "operand"
    ELSE IF Last(c) \in {"case", "|"} THEN "label" ELSE "operator"

Fits(c, f) ==
    CASE Expects(c) = "operand" -> f[1] \in Names \cup {Paren, "!", "(", "match"}
      [] Expects(c) = "label" -> f[1] \in Idents \ Names
      [] Expects(c) = "operator" -> f[1] \in {"&&", "||", "==", "in", ")", "|", "case"}

Unrendered == [n \in {} |-> "none"]

Init == cond = <<>> /\ spent = 0 /\ env = Unrendered

Write(f) ==
    /\ env = Unrendered
    /\ spent' = spent + (IF Fits(cond, f) THEN 1 ELSE 2)
    /\ spent' <= MaxPhrases
    /\ cond' = cond \o f
    /\ UNCHANGED env

(* What a template is constructed with, in the core and in TypeScript: a
   condition that parses and whose names are declared.  To the core, labels
   count as declared. *)
Parsed(t) == t # Bad /\ \A s \in Operands(t) : KnownOperand(s)
NamesIn(s, declared) == IsIdentifier(s) /\ s[1] \in declared
CompiledByCore(t) ==
    /\ Parsed(t)
    /\ \A n \in ConditionVariables(t) : NamesIn(n, Names \cup Variants \cup OptionLabels)
Constructed(c) == ValidateOrExpr(c) /\ \A n \in ExtractConditionVariables(c) : NamesIn(n, Names)

Render ==
    /\ env = Unrendered
    /\ CompiledByCore(ParseOr(cond)) \/ Constructed(cond)
    /\ env' \in Envs
    /\ UNCHANGED <<cond, spent>>

Next == Render \/ \E f \in Phrases : Write(f)
Spec == Init /\ [][Next]_vars

-----------------------------------------------------------------------------
(* Where the two differ: a label where a value belongs; TypeScript's searches
   for operators count a group that is closed and was never opened; the port does not look into operands, and the
   collector drops a path that is no identifier (`p p`, `s not in s`), which
   the core refuses as undeclared. *)
NamesLabel(t) == \E n \in ConditionVariables(t) : NamesIn(n, Variants \cup OptionLabels)
Uncounted(c) == \E i \in DOMAIN c : Closed(c, i + 1) > Opened(c, i + 1)
Unread(t) ==
    /\ t # Bad
    /\ \/ \E s \in Operands(t) : ~KnownOperand(s)
       \/ \E n \in ConditionVariables(t) : ~IsIdentifier(n)

(* "A faithful port": TypeScript constructs a template with the conditions the
   core compiles, and with no others but those. *)
PortAccepts ==
    LET t == ParseOr(cond) IN
    /\ Parsed(t) => ValidateOrExpr(cond)
    /\ ~Uncounted(cond) => /\ CompiledByCore(t) => Constructed(cond) \/ NamesLabel(t)
                           /\ Constructed(cond) => CompiledByCore(t) \/ Unread(t)

(* What the core alone refuses later, by its type check, is a label that is no
   name; what it alone reads, a literal with other quotes inside. *)
RECURSIVE Garbled(_)
Garbled(t) ==
    CASE t.k = "match" -> \E n \in t.labels : Len(n) # 1 \/ n[1] \notin Idents
      [] t.k = "operand" -> Quoted(t.of) /\ Len(t.of) > 1
      [] t.k = "!" -> Garbled(t.l)
      [] t.k \in {"&&", "||", "==", "in"} -> Garbled(t.l) \/ Garbled(t.r)

(* A condition both were constructed with cannot turn out to be malformed when
   it renders, whatever the arguments make the evaluator skip. *)
CompiledEvaluates ==
    LET t == ParseOr(cond) IN
    CompiledByCore(t) /\ ~Garbled(t) =>
        EvaluateCondition(cond) # "syntax" /\ EvaluateDirectCondition(cond) # "syntax"

(* `_` as a label is any variant to the core and a variant's name to the
   TypeScript engine; an absent option equals "" where it is displayed first. *)
Apart(c) ==
    \E i \in DOMAIN c : \/ c[i] = Wildcard
                        \/ c[i] = "==" /\ {Value(c[i - 1]), Value(c[i + 1])} = {"none", ""}

Settled(t) == ValidCondition(t) /\ ~Garbled(t) /\ ~Apart(cond)

(* A condition the core compiles has one truth: the tree it evaluates and the
   text TypeScript evaluates while parsing agree, in precedence, grouping,
   negation, short circuits and failures. *)
SameVerdict ==
    LET t == ParseOr(cond) IN Settled(t) => EvaluateCondition(cond) = EvalCondition(t)

(* render and renderUnchecked take the same branch. *)
DirectAgrees == Settled(ParseOr(cond)) => EvaluateDirectCondition(cond) = EvaluateCondition(cond)

(* One truth in the core and in both TypeScript renderers. *)
OneVerdict == env # Unrendered => SameVerdict /\ DirectAgrees

(* A parameter counts as used by a condition in both languages or in neither:
   the collector finds the identifiers that the core finds, unless there is a
   bar in the subject of a match, which is read as a filter by the collector
   and as part of a name by the core. *)
BarredSubject(t) == \E n \in ConditionVariables(t) : \E i \in DOMAIN n : n[i] = "|"
ReferencesAgree ==
    LET t == ParseOr(cond) IN
    Parsed(t) /\ ~Uncounted(cond) /\ ~BarredSubject(t) =>
        ExtractConditionVariables(cond) = {n \in ConditionVariables(t) : IsIdentifier(n)}

(* One syntax in the four parsers: what is accepted and which names are in it,
   judged while it is written, and what evaluates when it is rendered. *)
OneSyntax == IF env = Unrendered THEN PortAccepts /\ ReferencesAgree ELSE CompiledEvaluates
=============================================================================
