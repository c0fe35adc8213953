-------------------------- MODULE MCBrowserLoader --------------------------
(***************************************************************************)
(* Instances of BrowserLoader for TLC: a page that loads a template with   *)
(* two partials.                                                           *)
(***************************************************************************)
EXTENDS BrowserLoader

CONSTANTS agent, here, main, part, foot

\* All templates are the main file, which includes one partial or the other; the
\* first imports the main file's constants.
MCEntry == [tm \in Templates |-> main]

MCRenders == [tm \in Templates |-> {{part}, {foot}}]

MCImports == [p \in {main, part, foot} |-> IF p = part THEN {main} ELSE {}]

OneOrigin == [tm \in Templates |-> here]

\* The foot is missing on the server.
NoFoot == [o \in Origins |-> {main, part}]

\* The first change of the first partial breaks it, the second mends it.
BrokenOnce == {<<part, 2>>}
=============================================================================
