----------------------------- MODULE MCIncludes -----------------------------
(***************************************************************************)
(* Includes for TLC: up to three includes, two of them remote, one perhaps *)
(* twice.                                                                  *)
(***************************************************************************)
EXTENDS Includes

CONSTANTS url1, url2, file1

Directives == {<<file1>>, <<url1, file1>>, <<url1, url2>>, <<url1, file1, url1>>}
=============================================================================
