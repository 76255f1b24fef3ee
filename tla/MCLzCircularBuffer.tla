------------------------- MODULE MCLzCircularBuffer -------------------------
(* The bytes of the instances: 0, which get answers beyond buf, and one more. *)
EXTENDS LzCircularBuffer

MCByte == {0, 1}

=============================================================================
