------------------------------- MODULE Powers -------------------------------
(* Powers of two, as shifts to the left give them.                          *)
EXTENDS Integers

\* 1 << n
Pow2(n) ==
    LET power[i \in 0..n] == IF i = 0 THEN 1 ELSE 2 * power[i - 1]
    IN  power[n]

=============================================================================
