------------------------------- MODULE MCWire -------------------------------
(* Wire for TLC.                                                            *)
EXTENDS Wire

Typed == {"-", "n", Space, Quote, Back, Newline, Tab, Wide}
=============================================================================
