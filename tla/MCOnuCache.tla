----------------------------- MODULE MCOnuCache -----------------------------
(***************************************************************************)
(* Small instances of OnuCache: a PON with two ids and a few callers.      *)
(***************************************************************************)
EXTENDS OnuCache, TLC

\* Callers are interchangeable.
Symmetric == Permutations(Callers)
=============================================================================
