-------------------------------- MODULE Sums --------------------------------
(* The sum of a sequence of numbers, term by term, as a loop adds it up.    *)
EXTENDS Integers, Sequences

Total(s) ==
    LET sum[i \in 0..Len(s)] == IF i = 0 THEN 0 ELSE sum[i - 1] + s[i]
    IN  sum[Len(s)]

=============================================================================
