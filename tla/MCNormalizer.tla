--------------------------- MODULE MCNormalizer ---------------------------
(***************************************************************************)
(* Normalizer with three agent logs (two with the same logical key, one    *)
(* malformed or of no user) and a log posted directly.                     *)
(***************************************************************************)
EXTENDS Normalizer, TLC

\* Logs a and d have one logical key and user u; b is another log of u; c has
\* no user.
Users == [s \in Source |-> IF s = "c" THEN NoUser ELSE "u"]
Devices == [s \in Source |-> IF s = "a" THEN "m" ELSE NoDevice]
Keys == [s \in Source |-> IF s = "d" THEN "a" ELSE s]

\* Logs of one key have one timestamp; the look-back of a scoring starts before
\* all of them or after.
Times == [s \in Source |-> 0]

Symmetry == Permutations(Replica)
=============================================================================
