------------------------------- MODULE MCFleet -------------------------------
(* Two candidates of any two speeds with refreshes of all kinds; a pool of
   three for the exploration. *)
EXTENDS Fleet

CONSTANTS a1, a2, a3

Two == <<a1, a2>>
SpeedsTwo == [{a1, a2} -> {20, 60, 100}]
\* Refreshes: nothing, a subset, the other order.
AnswersTwo == {<<>>, <<a1>>, <<a2>>, <<a2, a1>>}

\* More candidates than workers, all equally fast.
Three == <<a1, a2, a3>>
SpeedsThree == [{a1, a2, a3} -> {100}]
=============================================================================
