--------------------------- MODULE MCWsManager ---------------------------
(***************************************************************************)
(* Instances of WsManager for TLC: two slots that share one subscription.  *)
(***************************************************************************)
EXTENDS WsManager

CONSTANTS a, b, book

TwoStreams == {a, b}
OneSub     == {book}
AskSame    == [i \in TwoStreams |-> book]

=============================================================================
