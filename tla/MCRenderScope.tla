--------------------------- MODULE MCRenderScope ---------------------------
(***************************************************************************)
(* Instances of RenderScope for TLC: two files that each define an inline  *)
(* template under the same name.                                           *)
(***************************************************************************)
EXTENDS RenderScope, TLC

CONSTANTS main, child, note, row,   \* note is in main, row in child
          x, y, K, frag, a, b

MCNames == {x, y, K}

MCOwner == (main :> main) @@ (note :> main) @@ (child :> child) @@ (row :> child)

MCInlines == (main :> (frag :> note)) @@ (child :> (frag :> row))

\* main has an option x and a constant K, child a constant K as well, child's y and
\* row's x have defaults.
MCParams == (main :> {x}) @@ (note :> {}) @@ (child :> {x, y}) @@ (row :> {x})

MCOptions == (main :> {x}) @@ (note :> {}) @@ (child :> {}) @@ (row :> {})

MCDefaults == (main :> <<>>) @@ (note :> <<>>) @@ (child :> (y :> a)) @@ (row :> (x :> a))

MCConsts == (main :> (K :> a)) @@ (note :> <<>>) @@ (child :> (K :> b)) @@ (row :> <<>>)

MCLists == {<<a, b>>}
=============================================================================
