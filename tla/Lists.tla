-------------------------------- MODULE Lists --------------------------------
(***************************************************************************)
(* What a WHERE clause leaves of an ordered listing.  It is SelectSeq with  *)
(* a set for its test, written as a recursive function so that what it      *)
(* returns can be proved (ListProofs).                                     *)
(***************************************************************************)
EXTENDS Naturals, Sequences

\* The entries of s that lie in kept, in their order
Keep(s, kept) ==
    LET first[n \in 0 .. Len(s)] ==
            IF n = 0 THEN <<>>
            ELSE IF s[n] \in kept THEN Append(first[n - 1], s[n]) ELSE first[n - 1]
    IN  first[Len(s)]

=============================================================================
