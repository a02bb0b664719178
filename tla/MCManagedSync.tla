-------------------------- MODULE MCManagedSync --------------------------
(***************************************************************************)
(* Instances of ManagedSync for TLC: one or two symbols, each with a loop. *)
(***************************************************************************)
EXTENDS ManagedSync

CONSTANTS btc, eth

OneSymbol  == {btc}
TwoSymbols == {btc, eth}
OwnBook    == [i \in Streams |-> i]

=============================================================================
