---------------------------- MODULE MCMdnsProbe ----------------------------
(* Three publishers; the records of the second begin with the first's. *)
EXTENDS MdnsProbe, SequencesExt

Three == {1, 2, 3}
Nested == <<{4}, {4, 6}, {5}>>

\* theyWinTiebreak as the loop over the two sorted lists computes it.
ListsDecide(our, their) ==
  LET a == SetToSortSeq(our, <)
      b == SetToSortSeq(their, <)
      differ == {i \in 1..Len(a) : i <= Len(b) /\ a[i] # b[i]}
  IN IF differ = {} THEN Len(b) > Len(a)
     ELSE LET i == Min(differ) IN b[i] < a[i]

\* The comparison of sets in theyWinTiebreak is that loop.
ASSUME TiebreakIsTheLoop ==
  \A our, their \in SUBSET (1..5) : theyWinTiebreak(our, their) = ListsDecide(our, their)
=============================================================================
