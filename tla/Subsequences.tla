----------------------------- MODULE Subsequences -----------------------------
(***************************************************************************)
(* What a loop over a slice appends to another: the elements that it does  *)
(* not pass over, in their order.                                          *)
(***************************************************************************)
EXTENDS Naturals, Sequences

(* I: the indexes of the elements that are appended. *)
ElementsAt(s, I) ==
  LET appended[n \in 0..Len(s)] ==
        IF n = 0 THEN << >>
        ELSE IF n \in I THEN Append(appended[n - 1], s[n])
        ELSE appended[n - 1]
  IN  appended[Len(s)]

(* Each value where it occurs first: what was seen before is passed over. *)
FirstOccurrences(s) ==
  ElementsAt(s, {n \in DOMAIN s : \A m \in 1..n - 1 : s[m] # s[n]})
=============================================================================
