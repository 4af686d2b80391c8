---------------------------- MODULE MCMiddleware ----------------------------
(* The chain Middleware is checked with. *)
EXTENDS Middleware

CONSTANTS a, b

\* The callers only differ in name.
Interchangeable == Permutations(Callers)

MCInitial == <<a, b>>
=============================================================================
