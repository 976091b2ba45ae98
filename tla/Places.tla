------------------------------- MODULE Places -------------------------------
(* A loop that keeps some of a sequence, by the places that stay.          *)
EXTENDS Integers, Sequences

Those(s, stay) ==
    LET taken[i \in 0 .. Len(s)] ==
            IF i = 0 THEN << >>
            ELSE IF i \in stay THEN Append(taken[i - 1], s[i]) ELSE taken[i - 1]
    IN  taken[Len(s)]
=============================================================================
