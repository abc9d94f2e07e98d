-------------------------------- MODULE MCSio -------------------------------
(* Instances of Sio for TLC: frames of two bytes, an analog pad in the     *)
(* first port and a digital one in the second.                             *)
EXTENDS Sio

TwoPads == <<"analog", "standard">>
TwoPayloads == {<<1, 2>>, <<2, 1>>}
=============================================================================
