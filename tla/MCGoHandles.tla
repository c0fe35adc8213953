---------------------------- MODULE MCGoHandles ----------------------------
(* Two goroutines, a template, a context and a cache, each made by either  *)
(* goroutine or by a call (Load, DefaultsContext), used by both, closed    *)
(* twice or left to the finalizer.                                         *)
EXTENDS GoHandles
=============================================================================
