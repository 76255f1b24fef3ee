------------------------------- MODULE LzCopy -------------------------------
(* The loop of append_lz: a match copies bytes one by one from what it is    *)
(* appended to, and may run into the bytes it has copied itself.             *)
EXTENDS Integers, Sequences

\* The n bytes that are pushed behind s by a match at dist.
Repeated(s, n, dist) ==
    LET pushed[i \in 0..n] ==
            IF i = 0 THEN <<>>
            ELSE LET offset == Len(s) - dist + i - 1
                 IN  Append(pushed[i - 1], (s \o pushed[i - 1])[offset + 1])
    IN  pushed[n]

=============================================================================
