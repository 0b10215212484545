----------------------------- MODULE MCDelivery -----------------------------
(* Instances of Delivery for TLC: a name of three words and a wildcard.     *)
EXTENDS Delivery

MCNames == {<<"a", "b", "c">>, <<"a", "*">>}
=============================================================================
