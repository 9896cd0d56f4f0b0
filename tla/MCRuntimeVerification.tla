----------------------- MODULE MCRuntimeVerification -----------------------
(* Instances of RuntimeVerification for TLC. *)
EXTENDS RuntimeVerification

TwoChecks == <<"a", "b">>
\* The setup may be rewritten.
TwoTexts == [a |-> {1}, b |-> {1}, setup |-> {1, 2}]
=============================================================================
