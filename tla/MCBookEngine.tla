---------------------------- MODULE MCBookEngine ----------------------------
(***************************************************************************)
(* An instance of BookEngine for TLC.                                      *)
(***************************************************************************)
EXTENDS BookEngine

CONSTANTS a, b

SomeBatches == {<<a>>, <<b>>, <<a, b>>, <<a, a>>}

=============================================================================
