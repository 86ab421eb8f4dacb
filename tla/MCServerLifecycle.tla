------------------------- MODULE MCServerLifecycle -------------------------
(***************************************************************************)
(* Two hydrated requests and a skeleton request over a single connection,  *)
(* or over two; every interleaving with both signals and all failures.     *)
(***************************************************************************)
EXTENDS ServerLifecycle
=============================================================================
