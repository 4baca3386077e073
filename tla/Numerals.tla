------------------------------- MODULE Numerals -------------------------------
(* The numerals that codecs put before a message.                           *)
EXTENDS Naturals

\* A loop that writes a number digit by digit, the last one first, divides it by the base b each
\* time: what is left of n after i digits.
Quotients(n, b) ==
  LET rest[i \in Nat] == IF i = 0 THEN n ELSE rest[i - 1] \div b
  IN  rest
=============================================================================
