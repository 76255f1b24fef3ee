-------------------------------- MODULE MCXz --------------------------------
(* The sizes of the instances: around the limits of the multi-byte encoding *)
(* and of a chunk, and all remainders of a division by four.                *)
EXTENDS XzRoundTrip

MCMethods == {"none", "crc32", "crc64", "sha256", "unknown"}
MCHeaderSizes == {1, 2, 3}
MCPackedSizes == {1, 2, 3, 4}
MCSizes == {0, 2, 130}
MCDeclaredSizes == {2, 130}
MCInputSizes == (0..8) \cup (107..131) \cup {16382, 16383, 16384, 16385, 65535, 65536, 65537, 2097151, 2097152}

=============================================================================
