---------------------------- MODULE MCBookSync ----------------------------
(***************************************************************************)
(* An instance of BookSync for TLC: a level on each side.                  *)
(***************************************************************************)
EXTENDS BookSync

CONSTANTS bid, ask

OneEachSide == {bid, ask}

=============================================================================
