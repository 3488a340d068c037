--------------------------- MODULE Concatenation ---------------------------
(***************************************************************************)
(* Sequences one after the other, as the crate and Windows lay out lists   *)
(* in one buffer.                                                          *)
(***************************************************************************)
EXTENDS Integers, Sequences

\* All the items of a list one after the other.
Flat(items) ==
  LET f[n \in 0 .. Len(items)] == IF n = 0 THEN <<>> ELSE f[n - 1] \o items[n]
  IN f[Len(items)]
=============================================================================
