-------------------------------- MODULE Lists --------------------------------
(***************************************************************************)
(* Arrays of the page without some of their elements: what reject and      *)
(* without of prototype.js leave.                                          *)
(***************************************************************************)
EXTENDS Naturals, Sequences

\* What is left of the first 0, 1, ... elements of s without those in W
Lefts(s, W) ==
    LET left[i \in 0 .. Len(s)] ==
            IF i = 0 THEN <<>>
            ELSE IF s[i] \in W THEN left[i - 1] ELSE Append(left[i - 1], s[i])
    IN  left

Without(s, W) == Lefts(s, W)[Len(s)]
=============================================================================
