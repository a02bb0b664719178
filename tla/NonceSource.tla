---------------------------- MODULE NonceSource ----------------------------
(***************************************************************************)
(* What the nonces of a client promise the exchange: each one handed out   *)
(* is greater than all before it, whoever asked and whatever the clock did.*)
(***************************************************************************)
EXTENDS Naturals, Sequences

VARIABLE issued  \* the nonces handed out, in order

Init == issued = <<>>

Issue ==
  /\ Len(issued') = Len(issued) + 1
  /\ SubSeq(issued', 1, Len(issued)) = issued
  /\ \A k \in 1 .. Len(issued) : issued[k] < issued'[Len(issued')]

Spec == Init /\ [][Issue]_issued

=============================================================================
