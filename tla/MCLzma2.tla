------------------------------- MODULE MCLzma2 -------------------------------
(* The fields of the instances: every kind of status byte, properties with   *)
(* the same and with different lc + lp, or invalid ones; inputs to compress. *)
EXTENDS Lzma2RoundTrip

MCByte == {0, 1}
MCStatuses == {0, 1, 2, 3, 127, 128, 160, 192, 224}
MCProps == {1, 9, 18, 94, 13, 225}
MCSizes == {0, 1}
MCInputs == {<<>>, <<0>>, <<1, 1, 0>>}

=============================================================================
