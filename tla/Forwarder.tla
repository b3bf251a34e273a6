----------------------------- MODULE Forwarder -----------------------------
(***************************************************************************)
(* What a microdoh3 worker promises its clients, whatever becomes of its   *)
(* connections: a query that was received is answered at most once, with   *)
(* the response to that very query or with a SERVFAIL.                     *)
(***************************************************************************)
EXTENDS Integers

CONSTANTS Query, None

VARIABLES
  received,      \* queries received so far
  replies,       \* replies[q]: datagrams sent back for q
  answer         \* answer[q]: the query whose response was sent, or "servfail"

vars == <<received, replies, answer>>

Init ==
  /\ received = {}
  /\ replies = [q \in Query |-> 0]
  /\ answer = [q \in Query |-> None]

\* Queries come in, and some of those received are answered.
Forward ==
  \E done \in SUBSET {q \in received' : replies[q] = 0} :
    /\ received \subseteq received' /\ received' \subseteq Query
    /\ replies' = [q \in Query |-> IF q \in done THEN 1 ELSE replies[q]]
    /\ answer' \in [Query -> Query \cup {None, "servfail"}]
    /\ \A q \in Query : answer'[q] \in IF q \in done THEN {q, "servfail"} ELSE {answer[q]}

Spec == Init /\ [][Forward]_vars
=============================================================================
