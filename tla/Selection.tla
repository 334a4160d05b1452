----------------------------- MODULE Selection -----------------------------
(***************************************************************************)
(* The elements of a sequence that are in a set, in their order: SelectSeq *)
(* with a set for the test, as a recursive function, which proofs can      *)
(* reason about.                                                           *)
(***************************************************************************)
EXTENDS Integers, Sequences

\* What is selected of the first n elements, for every n.
Selected(s, S) ==
  LET kept[n \in 0..Len(s)] ==
        IF n = 0 THEN << >>
        ELSE IF s[n] \in S THEN Append(kept[n - 1], s[n])
        ELSE kept[n - 1]
  IN  kept

Only(s, S) == Selected(s, S)[Len(s)]
=============================================================================
