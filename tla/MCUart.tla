------------------------------- MODULE MCUart -------------------------------
(* Instances of Uart for TLC. *)
EXTENDS Uart

Texts == {<<"a", NL>>}
Words == {<<"a">>, <<"b", "c">>}
=============================================================================
