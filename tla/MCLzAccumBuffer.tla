--------------------------- MODULE MCLzAccumBuffer ---------------------------
(* The bytes of the instances. *)
EXTENDS LzAccumBuffer

MCByte == {0, 1}

=============================================================================
