---------------------------- MODULE PowersOfTwo -----------------------------
(* The weights of bits: 1 << n, before it is cut to the width of a word.    *)
EXTENDS Naturals

PowerOf2[n \in Nat] == IF n = 0 THEN 1 ELSE 2 * PowerOf2[n - 1]
=============================================================================
