------------------------------- MODULE Seqlock -------------------------------
(***************************************************************************)
(* The counter of microdoh3's two shared pages (shared.rs): odd while the  *)
(* page is being written, advanced by wrapping additions, and loaded twice *)
(* by a reader.                                                            *)
(***************************************************************************)
EXTENDS Naturals

CONSTANTS
  HalfModulus,    \* a counter wraps at 2 * HalfModulus (2^32 in the code)
  MaxLag          \* writes of a page or slot that may overlap one read of it

ASSUME SeqlockAssumption ==
  /\ HalfModulus \in Nat \ {0}
  /\ MaxLag \in Nat \ {0}
  /\ MaxLag < HalfModulus

SeqModulus == 2 * HalfModulus
=============================================================================
