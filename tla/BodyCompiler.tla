----------------------------- MODULE BodyCompiler -----------------------------
(***************************************************************************)
(* From the text of a template's body to its syntax tree (compiled/mod.rs, *)
(* blockquote.rs, inline.rs, parser.rs).  The text is never tokenized as a *)
(* whole: the blockquote prefixes are checked and stripped line by line,   *)
(* the inline templates are cut out, and a block is compiled by searching  *)
(* the text after its tag for the closing tag, splitting what lies between *)
(* at its elif, else or case tags, and compiling the pieces one by one.    *)
(* Each search counts the nesting of the tags it knows about.              *)
(*                                                                         *)
(* Text is a sequence of tokens: "text" (prose, an expression, an include),*)
(* "nl" and tags, whose conditions, bindings and names do not matter here. *)
(***************************************************************************)
EXTENDS Naturals, Sequences, SequencesExt

CONSTANTS
    LineShapes,         \* the lines a text is made of
    MaxLines,           \* bound
    MaxBroken           \* bound: lines of a text that is not well formed

Leaves == {"text", "nl"}
Opens == {"for", "if", "match", "matchcase", "raw", "tmpl"}
Closes == {"/for", "/if", "/match", "/raw", "/tmpl"}
Tags == Opens \cup Closes \cup {"elif", "else", "case"}

(* q: the line has the prefix `> ` in front of a tag, which is stripped. *)
ASSUME LineAssumptions ==
    \A l \in LineShapes : /\ l.q \in BOOLEAN /\ l.toks \in Seq(Tags \cup {"text"})
                          /\ l.q => Len(l.toks) > 0 /\ l.toks[1] \in Tags

OpensOf(close) ==
    CASE close = "/for" -> {"for"} [] close = "/if" -> {"if"} [] close = "/raw" -> {"raw"}
      [] close = "/match" -> {"match", "matchcase"} [] close = "/tmpl" -> {"tmpl"}

CloseOf(open) == CHOOSE c \in Closes : open \in OpensOf(c)

Error == [ok |-> FALSE, segs |-> <<>>]
Ok(segs) == [ok |-> TRUE, segs |-> segs]
Leaf(t) == [k |-> t, parts |-> <<>>, els |-> <<>>]
Segment(kind, parts, els) == [k |-> kind, parts |-> parts, els |-> els]

(* How deep one is after token t in blocks with these tags, never below zero.*)
DepthAfter(depth, t, opens, closes) ==
    IF t \in opens THEN depth + 1
    ELSE IF t \in closes /\ depth > 0 THEN depth - 1
    ELSE depth

(* The indices of s from i on at which P holds, and the first of them, or 0. *)
FirstFrom(s, i, P(_)) == SelectInSubSeq(s, i, Len(s), P)
Ascending(indices, n) == SelectSeq([i \in 1..n |-> i], LAMBDA i : i \in indices)
After(s, i) == SubSeq(s, i + 1, Len(s))
Before(s, i) == SubSeq(s, 1, i - 1)

-----------------------------------------------------------------------------
(* Blockquote prefixes, line by line. *)

Blank(l) == l.toks = <<>>
Standalone(l) == l.q /\ Len(l.toks) = 1
Has(l, t) == \E i \in 1..Len(l.toks) : l.toks[i] = t

ValidNeighbors(lines, i) ==
    \A j \in {i - 1, i + 1} \cap (1..Len(lines)) : Blank(lines[j]) \/ lines[j].q

(* in_raw before line i: a prefixed line with a raw tag begins it, any line *)
(* with its closing tag ends it, and neither is looked at on the other side.*)
InRaw(lines) ==
    LET r[i \in 1..(Len(lines) + 1)] ==
            IF i = 1 THEN FALSE
            ELSE IF r[i - 1] THEN ~Has(lines[i - 1], "/raw")
                 ELSE lines[i - 1].q /\ Has(lines[i - 1], "raw")
    IN  r

ValidateBlockquotes(lines) ==
    \A i \in 1..Len(lines) :
        LET l == lines[i]
        IN  IF InRaw(lines)[i]
            THEN Has(l, "/raw") /\ Standalone(l) => ValidNeighbors(lines, i)
            ELSE \/ l.q /\ Has(l, "raw")
                 \/ /\ l.q \/ Blank(l) \/ l.toks[1] \notin Tags
                    /\ Standalone(l) => ValidNeighbors(lines, i)

Newlines(n) == [i \in 1..n |-> "nl"]

(* One line: blanks after a standalone tag are held back, the first is      *)
(* dropped when content follows and all are when a tag does; the blank line *)
(* before a standalone tag is taken away again.                             *)
StripLine(st, l) ==
    LET follows == st.tag /\ ~Standalone(l)
        sep == IF follows THEN Newlines(IF st.pending = 0 THEN 0 ELSE st.pending - 1)
               ELSE IF st.tag \/ st.first THEN <<>> ELSE <<"nl">>
        out == st.out \o sep
        blankBefore == out = <<"nl">> \/ IsSuffix(<<"nl", "nl">>, out)
        popped == IF Standalone(l) /\ blankBefore THEN Front(out) ELSE out
    IN  IF st.tag /\ Blank(l) THEN [st EXCEPT !.pending = @ + 1]
        ELSE [out |-> popped \o l.toks, tag |-> Standalone(l), pending |-> 0, first |-> FALSE]

StripBlockquotes(lines) ==
    FoldLeft(StripLine, [out |-> <<>>, tag |-> FALSE, pending |-> 0, first |-> TRUE], lines).out

-----------------------------------------------------------------------------
(* Finding and splitting blocks. *)

SkipNewline(s) == IF s # <<>> /\ s[1] = "nl" THEN Tail(s) ELSE s

(* The tag that closes the block s begins in, by counting the tags that    *)
(* open and close blocks of this kind; one newline after it is dropped.    *)
FindClosing(s, close) ==
    LET depth[i \in 0..Len(s)] ==
            IF i = 0 THEN 1 ELSE DepthAfter(depth[i - 1], s[i], OpensOf(close), {close})
        ends == {i \in 1..Len(s) : depth[i] = 0}
        end == CHOOSE i \in ends : \A j \in ends : i <= j
    IN  IF ends = {} THEN [ok |-> FALSE, body |-> <<>>, rest |-> <<>>]
        ELSE [ok |-> TRUE, body |-> Before(s, end), rest |-> SkipNewline(After(s, end))]

(* How deep in blocks with these tags each token of s is. *)
DepthIn(s, opens, closes) ==
    LET depth[i \in 0..Len(s)] ==
            IF i = 0 THEN 0 ELSE DepthAfter(depth[i - 1], s[i], opens, closes)
    IN  [i \in 1..Len(s) |-> depth[i - 1]]

(* s cut at the tags at the indices in cuts, each of which is dropped. *)
Pieces(s, cuts) ==
    LET bounds == <<0>> \o Ascending(cuts, Len(s)) \o <<Len(s) + 1>>
    IN  [i \in 1..(Len(bounds) - 1) |-> SubSeq(s, bounds[i] + 1, bounds[i + 1] - 1)]

FirstElse(s, depth) ==
    LET elses == {i \in 1..Len(s) : s[i] = "else" /\ depth[i] = 0}
    IN  IF elses = {} THEN Len(s) + 1 ELSE CHOOSE i \in elses : \A j \in elses : i <= j

(* An if's body, at the elif tags outside inner ifs up to the first else. *)
SplitElifChain(s) ==
    LET depth == DepthIn(s, {"if"}, {"/if"})
        end == FirstElse(s, depth)
    IN  [parts |-> Pieces(Before(s, end), {i \in 1..(end - 1) : s[i] = "elif" /\ depth[i] = 0}),
         els |-> After(s, end)]

\* Mutant: counts inner ifs only.
SplitForElse_IfsOnly(s) ==
    LET end == FirstElse(s, DepthIn(s, {"if"}, {"/if"}))
    IN  [parts |-> <<Before(s, end)>>, els |-> After(s, end), hasElse |-> end <= Len(s)]

(* A for's body, or that of an inline match, at the first else outside     *)
(* inner fors and ifs.                                                     *)
SplitForElse(s) ==
    LET end == FirstElse(s, DepthIn(s, {"for", "if"}, {"/for", "/if"}))
    IN  [parts |-> <<Before(s, end)>>, els |-> After(s, end), hasElse |-> end <= Len(s)]

(* Where the arm that s begins in ends: at the next case or else outside   *)
(* inner matches, ifs and fors, or where an inner match is closed too often.*)
NextCaseOrEnd(s) ==
    LET inMatch == DepthIn(s, {"match", "matchcase"}, {"/match"})
        inBlock == DepthIn(s, {"for", "if"}, {"/for", "/if"})
        ends == {i \in 1..Len(s) : /\ inMatch[i] = 0
                                   /\ s[i] = "/match" \/ (s[i] \in {"case", "else"} /\ inBlock[i] = 0)}
    IN  IF ends = {} THEN Len(s) + 1 ELSE CHOOSE i \in ends : \A j \in ends : i <= j

(* The arms of a match, up to the text left over after the last of them;   *)
(* only whitespace comes before the first.                                 *)
RECURSIVE SplitArms(_, _, _)
SplitArms(s, arms, els) ==
    LET i == FirstFrom(s, 1, LAMBDA t : t \in Tags)
        rest == After(s, i)
        end == NextCaseOrEnd(rest)
        isFirst == arms = <<>> /\ els = <<>>
    IN  IF i = 0 THEN [ok |-> ~isFirst, arms |-> arms, els |-> els]
        ELSE IF (isFirst /\ Contains(Before(s, i), "text")) \/ els # <<>>
                \/ s[i] \notin {"case", "else"}
        THEN [ok |-> FALSE, arms |-> arms, els |-> els]
        ELSE IF s[i] = "case"
        THEN SplitArms(SubSeq(rest, end, Len(rest)), Append(arms, Before(rest, end)), els)
        ELSE SplitArms(SubSeq(rest, end, Len(rest)), arms, <<Before(rest, end)>>)

-----------------------------------------------------------------------------
(* Compiling: the statement at the head of the text, its pieces, the rest. *)

RECURSIVE CompileBody(_)

CompileAll(pieces) == [i \in DOMAIN pieces |-> CompileBody(pieces[i])]
AllOk(compiled) == \A i \in DOMAIN compiled : compiled[i].ok
Trees(compiled) == [i \in DOMAIN compiled |-> compiled[i].segs]

Built(kind, compiled, default) ==
    IF AllOk(compiled) /\ AllOk(default)
    THEN Ok(<<Segment(kind, Trees(compiled), Trees(default))>>)
    ELSE Error

Block(kind, parts, els) == Built(kind, CompileAll(parts), CompileAll(els))

Joined(a, b) == IF a.ok /\ b.ok THEN Ok(a.segs \o b.segs) ELSE Error

CompileFor(s) ==
    LET split == SplitForElse(s) IN Block("for", split.parts, <<split.els>>)

CompileConditional(s) ==
    LET split == SplitElifChain(s) IN Block("if", split.parts, <<split.els>>)

CompileMatchCase(s) ==
    LET split == SplitForElse(s)
    IN  Block("match", split.parts, IF split.hasElse THEN <<split.els>> ELSE <<>>)

CompileMatch(s) ==
    LET split == SplitArms(s, <<>>, <<>>)
    IN  IF split.ok THEN Block("match", split.arms, split.els) ELSE Error

CompileRaw(s) == Ok(<<Segment("raw", <<s>>, <<>>)>>)

CompileStatement(open, body) ==
    CASE open = "for" -> CompileFor(body)
      [] open = "if" -> CompileConditional(body)
      [] open = "match" -> CompileMatch(body)
      [] open = "matchcase" -> CompileMatchCase(body)
      [] open = "raw" -> CompileRaw(body)

(* A tag that opens nothing (a stray one, or an inline template inside      *)
(* another) is an error, as is a block that is not closed.                  *)
CompileBody(s) ==
    LET CompileFrom(open, block) ==
            IF block.ok THEN Joined(CompileStatement(open, block.body), CompileBody(block.rest))
            ELSE Error
    IN  IF s = <<>> THEN Ok(<<>>)
        ELSE IF s[1] \in Leaves THEN Joined(Ok(<<Leaf(s[1])>>), CompileBody(Tail(s)))
        ELSE IF s[1] \notin Opens \ {"tmpl"} THEN Error
        ELSE CompileFrom(s[1], FindClosing(Tail(s), CloseOf(s[1])))

(* The inline templates are cut out of the text first.  A raw block that    *)
(* comes before the next of them is skipped whole, to its first closing tag;*)
(* a second template of the same name is an error.                         *)
NothingExtracted == [ok |-> FALSE, text |-> <<>>, tmpls |-> <<>>]
Kept(text, more) == [more EXCEPT !.text = text \o @]
KeptWith(text, inner, more) ==
    IF inner.ok /\ more.tmpls = <<>>
    THEN [more EXCEPT !.text = text \o @, !.tmpls = <<inner.segs>>]
    ELSE NothingExtracted

RECURSIVE ExtractInline(_)
ExtractInline(s) ==
    LET SkipRaw(close) ==
            IF close = 0 THEN NothingExtracted
            ELSE Kept(SubSeq(s, 1, close), ExtractInline(After(s, close)))
        CutOut(i, block) ==
            IF block.ok
            THEN KeptWith(Before(s, i), CompileBody(SkipNewline(block.body)), ExtractInline(block.rest))
            ELSE NothingExtracted
        From(i) ==
            IF i = 0 THEN [ok |-> TRUE, text |-> s, tmpls |-> <<>>]
            ELSE IF s[i] = "raw" THEN SkipRaw(FirstFrom(s, i + 1, LAMBDA t : t = "/raw"))
            ELSE CutOut(i, FindClosing(After(s, i), "/tmpl"))
    IN  From(FirstFrom(s, 1, LAMBDA t : t \in {"tmpl", "raw"}))

Compile(lines) ==
    LET Result(extracted, compiled) ==
            IF ValidateBlockquotes(lines) /\ extracted.ok /\ compiled.ok
            THEN [ok |-> TRUE, segs |-> compiled.segs, tmpls |-> extracted.tmpls]
            ELSE [ok |-> FALSE, segs |-> <<>>, tmpls |-> <<>>]
        CompileRest(extracted) == Result(extracted, CompileBody(extracted.text))
    IN  CompileRest(ExtractInline(StripBlockquotes(lines)))

-----------------------------------------------------------------------------
(* What the text means: the language's rules (SPEC.md) read from left to   *)
(* right with a stack of open blocks, knowing nothing of the searches.     *)

Shape(lines, i) == IF i \in 1..Len(lines) THEN IF Standalone(lines[i]) THEN "tag" ELSE "prose"
                   ELSE "edge"

(* The newlines between two lines that are not blank and have b blank ones  *)
(* between them (or between a line and the beginning or the end).          *)
LineBreaks(prev, b, next) ==
    CASE prev = "prose" /\ next = "prose" -> b + 1
      [] prev = "prose" /\ next = "tag" -> IF b = 0 THEN 1 ELSE b
      [] prev = "prose" /\ next = "edge" -> b
      [] prev = "edge" /\ next = "prose" -> b
      [] prev = "tag" /\ next \in {"tag", "edge"} -> 0
      [] OTHER -> IF b = 0 THEN 0 ELSE b - 1

MeantText(lines) ==
    LET solid == Ascending({i \in 1..Len(lines) : ~Blank(lines[i])}, Len(lines))
        n == Len(solid)
        at[i \in 0..(n + 1)] == IF i = 0 THEN 0 ELSE IF i = n + 1 THEN Len(lines) + 1 ELSE solid[i]
        text[i \in 0..n] ==
            (IF i = 0 THEN <<>> ELSE text[i - 1] \o lines[at[i]].toks)
            \o Newlines(LineBreaks(Shape(lines, at[i]), at[i + 1] - at[i] - 1, Shape(lines, at[i + 1])))
    IN  text[n]

(* An open block: the bodies before the one being read, the else body, the *)
(* body being read and which it is, and lose as it was before the block.   *)
Frame(kind, lose) ==
    [k |-> kind, parts |-> <<>>, els |-> <<>>, cur |-> <<>>, lose |-> lose,
     reading |-> IF kind = "match" THEN "nothing" ELSE "part"]

Reading(f, what) ==
    [f EXCEPT !.parts = IF f.reading = "part" THEN Append(@, f.cur) ELSE @,
              !.els = IF f.reading = "else" THEN <<f.cur>> ELSE @,
              !.cur = <<>>, !.reading = what]

Closed(f) ==
    LET g == Reading(f, "nothing")
    IN  Segment(IF f.k = "matchcase" THEN "match" ELSE f.k, g.parts,
                IF f.k \in {"for", "if"} /\ g.els = <<>> THEN << <<>> >> ELSE g.els)

Top(st) == Last(st.stack)
WithTop(st, f) == [st EXCEPT !.stack = Append(Front(@), f)]
Push(st, seg) == WithTop(st, [Top(st) EXCEPT !.cur = Append(@, seg)])
Wrong(st) == [st EXCEPT !.ok = FALSE]

(* An else the searches take for that of a block around it: any but an if's *)
(* own inside an if, a match's inside a for or an inline match.            *)
Hidden(stack) ==
    LET around == {i \in 1..(Len(stack) - 1) : \A j \in i..Len(stack) : stack[j].k # "tmpl"}
        over == {i \in around : \A j \in (i + 1)..(Len(stack) - 1) : stack[j].k = "match"}
    IN  CASE Last(stack).k = "if" -> FALSE
          [] Last(stack).k = "for" -> \E i \in around : stack[i].k = "if"
          [] OTHER -> \/ \E i \in around : stack[i].k = "if"
                      \/ \E i \in over : stack[i].k \in {"for", "matchcase"}

(* Line breaks that mean something and are lost in the tree: the one next   *)
(* after a closing tag, standalone or not, or after a tag that begins an    *)
(* inline template, whose place in the text closes up behind it.            *)
LostBreak == Leaf("lost")

RECURSIVE WithoutLost(_)
WithoutLost(segs) ==
    LET Bodies(bodies) == [i \in DOMAIN bodies |-> WithoutLost(bodies[i])]
        Seg(seg) == IF seg.k = "raw" THEN seg ELSE Segment(seg.k, Bodies(seg.parts), Bodies(seg.els))
        kept == SelectSeq(segs, LAMBDA seg : seg # LostBreak)
    IN  [i \in DOMAIN kept |-> Seg(kept[i])]

(* lose: how many line breaks are lost if they come next. *)
Close(st, tok) ==
    LET st2 == [st EXCEPT !.stack = Front(@), !.lose = IF tok = "/tmpl" THEN 1 + Top(st).lose ELSE 1]
    IN  IF Top(st).k \notin OpensOf(tok) \/ Top(st).reading = "nothing" THEN Wrong(st)
        ELSE IF tok = "/tmpl"
        THEN [st2 EXCEPT !.tmpls = Append(@, Top(st).cur), !.ok = @ /\ st.tmpls = <<>>]
        ELSE Push(st2, Closed(Top(st)))

Read(st, tok) ==
    LET f == Top(st)
    IN  CASE f.k = "raw" /\ tok # "/raw" ->
                [WithTop(st, [f EXCEPT !.cur = Append(@, tok)]) EXCEPT !.lose = 0,
                    !.tagInRaw = @ \/ tok \in Tags]
          [] f.k # "raw" /\ tok = "nl" /\ f.reading = "nothing" -> st
          [] f.k # "raw" /\ tok = "text" /\ f.reading = "nothing" -> Wrong(st)
          [] f.k # "raw" /\ tok = "nl" /\ f.reading # "nothing" /\ st.lose > 0 ->
                [Push(st, LostBreak) EXCEPT !.lose = @ - 1]
          [] f.k # "raw" /\ tok \in Leaves /\ f.reading # "nothing" /\ ~(tok = "nl" /\ st.lose > 0) ->
                [Push(st, Leaf(tok)) EXCEPT !.lose = 0]
          [] f.k # "raw" /\ tok \in Opens ->
                IF f.reading = "nothing" \/ (tok = "tmpl" /\ \E i \in DOMAIN st.stack : st.stack[i].k = "tmpl")
                THEN Wrong(st)
                ELSE [st EXCEPT !.stack = Append(@, Frame(tok, st.lose)),
                                !.lose = IF tok = "tmpl" THEN 1 ELSE 0]
          [] f.k # "raw" /\ tok = "elif" ->
                IF f.k = "if" /\ f.reading = "part" THEN WithTop([st EXCEPT !.lose = 0], Reading(f, "part"))
                ELSE Wrong(st)
          [] f.k # "raw" /\ tok = "case" ->
                IF f.k = "match" /\ f.reading # "else" THEN WithTop([st EXCEPT !.lose = 0], Reading(f, "part"))
                ELSE Wrong(st)
          [] f.k # "raw" /\ tok = "else" ->
                IF f.k \in {"for", "if", "match", "matchcase"} /\ f.reading # "else"
                THEN [WithTop(st, Reading(f, "else")) EXCEPT !.lose = 0, !.hidden = @ \/ Hidden(st.stack)]
                ELSE Wrong(st)
          [] tok \in Closes /\ (f.k = "raw" => tok = "/raw") -> Close(st, tok)

Meaning(lines) ==
    LET start == [ok |-> TRUE, stack |-> <<Frame("root", 0)>>, tmpls |-> <<>>, lose |-> 0,
                  hidden |-> FALSE, tagInRaw |-> FALSE]
        Step(st, tok) == IF st.ok THEN Read(st, tok) ELSE st
    IN  FoldLeft(Step, start, MeantText(lines))

-----------------------------------------------------------------------------
(* A text is written line by line, and compiled after each. *)

VARIABLES
    lines,
    compiled,       \* what the compiler makes of them
    meant           \* what they mean, as far as one has read

vars == <<lines, compiled, meant>>

Init == lines = <<>> /\ compiled = Compile(<<>>) /\ meant = Meaning(<<>>)

AddLine(l) ==
    /\ Len(lines) < IF meant.ok THEN MaxLines ELSE MaxBroken
    /\ lines' = Append(lines, l)
    /\ compiled' = Compile(lines')
    /\ meant' = Meaning(lines')

Next == \E l \in LineShapes : AddLine(l)

Spec == Init /\ [][Next]_vars

-----------------------------------------------------------------------------
(* Properties. *)

Complete == meant.ok /\ Len(meant.stack) = 1

(* A text the compiler accepts is well formed, and the tree is the one it  *)
(* means, every line break included but the lost ones: no search ever pairs *)
(* a tag with another block's without an error coming of it.               *)
SameTree ==
    compiled.ok /\ ~meant.tagInRaw =>
        /\ Complete
        /\ compiled.segs = WithoutLost(meant.stack[1].cur)
        /\ compiled.tmpls = [i \in DOMAIN meant.tmpls |-> WithoutLost(meant.tmpls[i])]

(* Conversely a well formed text compiles, unless it has tags in a raw     *)
(* block or an else that is hidden from the searches.                      *)
Accepts ==
    Complete /\ ValidateBlockquotes(lines) /\ ~meant.tagInRaw /\ ~meant.hidden => compiled.ok

(* The compiler's searches read a text as a reader does who takes it once  *)
(* from left to right with a stack of open blocks.                         *)
ReadAsMeant == SameTree /\ Accepts
=============================================================================
