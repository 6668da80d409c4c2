-------------------------- MODULE MCMarkdownPosts --------------------------
(***************************************************************************)
(* Two threads, posts 1 and 2 and the numbers up to the overflow, two      *)
(* files, and four texts of which the edit form gives back the first only: *)
(* one with an end of line at its end, one that starts with one, one with  *)
(* an end tag, and one with the letters of the hole and a reference.       *)
(***************************************************************************)
EXTENDS MarkdownPosts, TLC

CONSTANTS a, nl, hole, tag, ref, w1, w2, i1, i2

MCNames == MinInt .. MaxInt
MCTexts == {<<a, nl>>, <<nl, a>>, <<a, tag>>, <<hole, ref>>}
MCSymmetry == Permutations(Workers) \cup Permutations(Inodes)
=============================================================================
